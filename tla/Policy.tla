------------------------------- MODULE Policy -------------------------------
(***************************************************************************)
(* The deterministic baseline policy (domain/policy.py) and the            *)
(* declarative profiles that may only restrict it                          *)
(* (policy_profiles/evaluator.py, models.py).  A decision is the set of    *)
(* its blocker codes; messages and the order of blockers are left out.     *)
(***************************************************************************)
EXTENDS SemanticEngine

CONSTANT CategoryOf  \* claim -> its category, fixed by the extraction

Categories ==
  {"party_identity", "money", "quantity", "dates", "deliverables", "scope",
   "obligations", "other"}

CriticalCategories == Categories \ {"other"}

ASSUME ClaimsHaveCategories == CategoryOf \in [ClaimIds -> Categories]

IsCritical(claim) == CategoryOf[claim] \in CriticalCategories

BlockIf(condition, code) == IF condition THEN {code} ELSE {}

-----------------------------------------------------------------------------
(* A verification snapshot; verdicts is empty when the semantic stage       *)
(* failed (failed_snapshot).                                                *)
Snapshot(pdf, evidence, verdicts) ==
  [pdf |-> pdf, evidence |-> evidence, verdicts |-> verdicts, succeeded |-> TRUE]

FailedSnapshot(pdf, evidence) ==
  [pdf |-> pdf, evidence |-> evidence, verdicts |-> <<>>, succeeded |-> FALSE]

(* _validate_quotation, for one verdict.                                    *)
QuotationBlockers(v, evidence) ==
  IF ~CitesSource(v.cites) \/ ~CitesWords(v.cites)
  THEN BlockIf(NeedsQuotation(v.status), "MISSING_EVIDENCE_QUOTATION")
  ELSE IF v.cites.source \notin evidence
  THEN {"UNKNOWN_EVIDENCE_SOURCE"}
  ELSE BlockIf(~Verbatim(v), "EVIDENCE_QUOTATION_NOT_FOUND")

CriticalBlocker(status) ==
  CASE status = "CONFLICTING" -> "CRITICAL_CLAIM_CONFLICTING"
    [] status = "UNSUPPORTED" -> "CRITICAL_CLAIM_UNSUPPORTED"
    [] status = "UNCERTAIN" -> "CRITICAL_CLAIM_UNCERTAIN"

FaultyCriticalBlockers(claims, verdicts) ==
  {CriticalBlocker(verdicts[c].status) :
     c \in {d \in claims \cap DOMAIN verdicts :
              /\ IsCritical(d)
              /\ verdicts[d].status \in {"CONFLICTING", "UNSUPPORTED"}}}

(* Every critical claim needs a verdict, and the verdict SUPPORTED.         *)
CriticalBlockers(claims, verdicts) ==
  LET critical == {c \in claims : IsCritical(c)}
  IN BlockIf(critical \ DOMAIN verdicts # {}, "MISSING_CRITICAL_VERIFICATION")
     \cup {CriticalBlocker(verdicts[c].status) :
             c \in {d \in critical \cap DOMAIN verdicts :
                      verdicts[d].status # "SUPPORTED"}}

(* DeterministicPolicyEngine.evaluate.  Claim and source identifiers are    *)
(* unique here (the stages before it refuse duplicates), and a verdict is   *)
(* always about a known claim and never FAILED.                             *)
BaselineBlockers(claims, evidence, snapshot, currentPdf) ==
  BlockIf(~snapshot.succeeded, "VERIFICATION_FAILED")
  \cup BlockIf(snapshot.pdf # currentPdf, "PDF_HASH_CHANGED")
  \cup BlockIf(snapshot.evidence # evidence, "EVIDENCE_HASH_CHANGED")
  \cup (UNION {QuotationBlockers(snapshot.verdicts[c], evidence) :
                 c \in claims \cap DOMAIN snapshot.verdicts})
  \cup CriticalBlockers(claims, snapshot.verdicts)

OutcomeOf(blockers) == IF blockers = {} THEN "READY_FOR_APPROVAL" ELSE "BLOCKED"

-----------------------------------------------------------------------------
(* A category rule, as CategoryRule and SourceAuthorityRequirement accept   *)
(* it; a profile gives some categories a rule.                              *)
Rules ==
  {rule \in [critical : BOOLEAN, minimum : 0..8, authoritative : 0..8,
             qualifying : SUBSET Authorities \ {{}}, conflicts : BOOLEAN,
             authoritativeConflicts : BOOLEAN, uncertain : BOOLEAN] :
     rule.authoritative <= rule.minimum}

Qualifying(rule, sources) == {s \in sources : AuthorityOf(s) \in rule.qualifying}

FaultyClaimBlockers(rule, graph, claim) ==
  LET supporting == EdgesOf(graph, claim, "SUPPORTS")
  IN BlockIf(Cardinality(supporting) < rule.minimum,
             "PROFILE_INSUFFICIENT_SUPPORTING_SOURCES")

(* A rule asks for a number of distinct sources, and for some of them to be *)
(* of a qualifying authority.                                               *)
SupportBlockers(rule, sources) ==
  BlockIf(Cardinality(sources) < rule.minimum,
          "PROFILE_INSUFFICIENT_SUPPORTING_SOURCES")
  \cup BlockIf(Cardinality(Qualifying(rule, sources)) < rule.authoritative,
               "PROFILE_INSUFFICIENT_AUTHORITATIVE_SOURCES")

(* It can forbid conflicts, or only those of qualifying sources.            *)
ConflictBlockers(rule, sources) ==
  IF sources # {} /\ ~rule.conflicts
  THEN {"PROFILE_CONFLICT_NOT_ALLOWED"}
  ELSE BlockIf(Qualifying(rule, sources) # {} /\ ~rule.authoritativeConflicts,
               "PROFILE_AUTHORITATIVE_CONFLICT_NOT_ALLOWED")

(* The blockers a rule raises for one claim of its category.  Sources are   *)
(* counted once each, however many quotations of them support the claim.    *)
ClaimBlockers(rule, graph, claim) ==
  SupportBlockers(rule, SourcesOf(EdgesOf(graph, claim, "SUPPORTS")))
  \cup ConflictBlockers(rule, SourcesOf(EdgesOf(graph, claim, "CONFLICTS")))
  \cup BlockIf(EdgesOf(graph, claim, "UNCERTAIN") # {} /\ ~rule.uncertain,
               "PROFILE_UNCERTAIN_NOT_ALLOWED")

CategoryBlockers(rule, graph, category) ==
  LET members == {c \in graph.claims : CategoryOf[c] = category}
  IN IF rule.critical /\ members = {}
     THEN {"PROFILE_REQUIRED_CATEGORY_MISSING"}
     ELSE UNION {ClaimBlockers(rule, graph, c) : c \in members}

(* PolicyProfileEvaluator.evaluate_profile; there is no graph when the      *)
(* semantic stage failed.                                                   *)
ProfileBlockers(profile, graph) ==
  IF graph = None
  THEN {"PROFILE_EVIDENCE_GRAPH_UNAVAILABLE"}
  ELSE UNION {CategoryBlockers(profile[k], graph, k) : k \in DOMAIN profile}

(* PolicyProfileEvaluator.evaluate: a blocked baseline is final, a blocked  *)
(* profile blocks a ready one, otherwise the baseline is final.             *)
EffectiveBlockers(baseline, profile) == IF baseline # {} THEN baseline ELSE profile
=============================================================================
