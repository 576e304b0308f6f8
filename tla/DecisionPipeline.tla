-------------------------- MODULE DecisionPipeline --------------------------
(***************************************************************************)
(* How a run comes to its decision: Phase3Workflow._finish                 *)
(* (application/phase3_workflow.py), and the re-evaluation of one claim    *)
(* with public sources, PublicEvidenceService.enrich_result                *)
(* (public_evidence/service.py), which replaces that decision.             *)
(*                                                                         *)
(* The extraction and the comparison are answers of untrusted models, and  *)
(* each is awaited: one stage per await.  The file on disk can change      *)
(* between any two stages.  Approval and sending, and what happens while a *)
(* search is in flight, are the matter of RunControl, which takes the      *)
(* decision as a choice constrained by ReadyIsGrounded.                    *)
(***************************************************************************)
EXTENDS Policy

CONSTANTS
  Pdfs,          \* the contents a PDF can have
  OwnSources,    \* the evidence documents the run is started with
  ResultSets,    \* the sets of comparisons an answer may hold
  Profiles       \* the policy profiles a run may be started with

ASSUME SourcesArePartitioned ==
  /\ OwnSources \subseteq SourceIds
  /\ OwnSources \cap PublicSources = {}
  /\ IsFiniteSet(OwnSources) /\ IsFiniteSet(PublicSources)
ASSUME ResultsAreComparisons ==
  ResultSets \subseteq SUBSET Comparisons
ASSUME ProfilesAreRules ==
  \A p \in Profiles : DOMAIN p \subseteq Categories /\ \A k \in DOMAIN p : p[k] \in Rules

ASSUME NoneIsNoGraph ==
  None \notin [claims : SUBSET ClaimIds,
               edges : SUBSET [claim : ClaimIds, cites : Citations, relationship : Relationships]]
ASSUME NoneIsNoDecision ==
  /\ None \notin Pdfs
  /\ \A S \in SUBSET ClaimIds : None \notin [S -> SemanticStatuses]
  /\ None \notin [verdicts : (UNION {[S -> SemanticStatuses] : S \in SUBSET ClaimIds}) \cup {None},
                  ambiguous : SUBSET ClaimIds, searched : SUBSET ClaimIds,
                  pdf : Pdfs, outcome : {"READY_FOR_APPROVAL", "BLOCKED"}]

VARIABLES
  stage,       \* the await the run is at, DONE, or ABORTED by an exception
  disk,        \* the content of the PDF on disk
  verified,    \* the content hashed before extraction
  ambiguous,   \* categories with more than one candidate value in the text
  claims,      \* extracted claims
  comparisons, \* semantic_comparisons
  snapshot,    \* verification
  graph,       \* evidence_graph, None when the semantic stage failed
  evidence,    \* sources of the bundle
  profile,     \* selected_policy_profile
  decision,    \* baseline and profile blockers, the bound PDF, the outcome
  enriched     \* claims re-evaluated with public sources

stageVars == <<claims, comparisons, snapshot, graph>>
vars == <<stage, disk, verified, ambiguous, stageVars, evidence, profile,
          decision, enriched>>

Stages == {"HASH", "EXTRACT", "CLAIMS", "COMPARE", "DECIDE", "DONE", "ABORTED"}

(* detect_material_ambiguities knows four fields.                           *)
AmbiguousCategories == {"money", "dates", "quantity", "party_identity"}

Answers ==
  [complete : BOOLEAN, repeated : BOOLEAN, results : ResultSets]

-----------------------------------------------------------------------------
Init ==
  /\ stage = "HASH"
  /\ disk \in Pdfs
  /\ verified = None
  /\ ambiguous = {}
  /\ claims = {}
  /\ comparisons = {}
  /\ snapshot = None
  /\ graph = None
  /\ evidence = OwnSources
  /\ profile \in Profiles
  /\ decision = None
  /\ enriched = {}

HashArtifact ==
  /\ stage = "HASH"
  /\ stage' = "EXTRACT"
  /\ verified' = disk
  /\ UNCHANGED <<disk, ambiguous, stageVars, evidence, profile, decision, enriched>>

(* Any SemanticOutputError or ValueError of the three semantic stages: the  *)
(* run goes on to its decision with a failed snapshot and no graph.         *)
SemanticFailure ==
  /\ stage' = "DECIDE"
  /\ snapshot' = FailedSnapshot(verified, evidence)
  /\ comparisons' = {}
  /\ graph' = None
  /\ UNCHANGED <<disk, verified, evidence, profile, decision, enriched>>

(* The text is extracted; its quality is insufficient, or its ambiguities   *)
(* are noted and the claims come next.                                      *)
ExtractText ==
  /\ stage = "EXTRACT"
  /\ ambiguous' \in SUBSET (AmbiguousCategories \cap {CategoryOf[c] : c \in ClaimIds})
  /\ \/ /\ stage' = "CLAIMS"
        /\ UNCHANGED <<disk, verified, stageVars, evidence, profile, decision, enriched>>
     \/ /\ SemanticFailure
        /\ UNCHANGED claims

(* extract_claims_page_aware (ClaimIntake is its model) returns claims, or  *)
(* raises.  Two of them that were given one identifier fail like it, later. *)
ExtractClaims ==
  /\ stage = "CLAIMS"
  /\ \/ /\ stage' = "COMPARE"
        /\ claims' \in SUBSET ClaimIds \ {{}}
        /\ UNCHANGED <<disk, verified, comparisons, snapshot, graph, evidence,
                       profile, decision, enriched>>
     \/ /\ SemanticFailure
        /\ UNCHANGED claims
  /\ UNCHANGED ambiguous

IsAmbiguous(c) == CategoryOf[c] \in ambiguous

FaultyOverride(results) == results

(* A claim of an ambiguous category loses its comparisons and is UNCERTAIN. *)
Override(results) == {c \in results : ~IsAmbiguous(c.claim)}

AmbiguityResults ==
  {[claim |-> c, status |-> "UNCERTAIN", cites |-> [source |-> None, quote |-> None]]
     : c \in {d \in claims : IsAmbiguous(d)}}

(* The answer of the comparison model is refused, or it becomes verdicts    *)
(* for the baseline policy and edges for the profiles.                      *)
CompareEvidence ==
  /\ stage = "COMPARE"
  /\ \E answer \in Answers :
       LET kept == Override(answer.results)
       IN IF /\ AnswerIsValid(answer, claims, evidence)
             /\ CanBuildGraph(claims, evidence, kept)
          THEN /\ stage' = "DECIDE"
               /\ comparisons' = kept
               /\ snapshot' = Snapshot(verified, evidence,
                                       Project(claims, kept \cup AmbiguityResults))
               /\ graph' = BuildGraph(claims, kept)
               /\ UNCHANGED <<disk, verified, evidence, profile, decision, enriched>>
          ELSE SemanticFailure
  /\ UNCHANGED <<claims, ambiguous>>

Decided(baseline, profiled, pdf) ==
  LET blockers == EffectiveBlockers(baseline, profiled)
  IN [baseline |-> baseline, profile |-> profiled, pdf |-> pdf,
      outcome |-> OutcomeOf(blockers)]

(* The PDF is read a second time and the policy decides about those bytes.  *)
Decide ==
  /\ stage = "DECIDE"
  /\ stage' = "DONE"
  /\ decision' = Decided(BaselineBlockers(claims, evidence, snapshot, disk),
                         ProfileBlockers(profile, graph), disk)
  /\ UNCHANGED <<disk, verified, ambiguous, stageVars, evidence, profile, enriched>>

(* The PDF service raised, or the file is gone: the run is FAILED.          *)
Abort ==
  /\ stage \in {"HASH", "EXTRACT", "DECIDE"}
  /\ stage' = "ABORTED"
  /\ UNCHANGED <<disk, verified, ambiguous, stageVars, evidence, profile,
                 decision, enriched>>

ArtifactChanges ==
  /\ disk' \in Pdfs \ {disk}
  /\ UNCHANGED <<stage, verified, ambiguous, stageVars, evidence, profile,
                 decision, enriched>>

-----------------------------------------------------------------------------
(* enrich_result looks for public sources about a claim that stayed open.   *)
Searchable(c) ==
  /\ stage = "DONE" /\ snapshot.succeeded
  /\ c \in claims \ enriched
  /\ snapshot.verdicts[c].status \in {"UNSUPPORTED", "UNCERTAIN"}
  /\ Eligible(CategoryOf[c])

FaultyRetained(c) == {d \in comparisons : d.claim # c}

(* The open findings about the claim give way to the new ones.              *)
Retained(c) ==
  {d \in comparisons : ~(d.claim = c /\ d.status \in {"UNSUPPORTED", "UNCERTAIN"})}

(* The pages accepted are compared with this claim alone, and the run is    *)
(* decided again about the bytes then on disk.  Nothing changes when the    *)
(* search fails, no page is accepted, the answer is refused, a page is      *)
(* already in the bundle, or another claim has lost its comparisons to an   *)
(* ambiguity (the last two end in an exception).                            *)
Enrich(c) ==
  /\ Searchable(c)
  /\ \E found \in Discoveries :
       /\ found \cap evidence = {}
       /\ \E answer \in Answers :
            LET bundle == evidence \cup found
                merged == Retained(c) \cup answer.results
                again == Snapshot(disk, bundle, Project(claims, merged))
            IN /\ AnswerIsValid(answer, {c}, found)
               /\ CanProject(claims, merged)
               /\ CanBuildGraph(claims, bundle, merged)
               /\ evidence' = bundle
               /\ comparisons' = merged
               /\ snapshot' = again
               /\ graph' = BuildGraph(claims, merged)
               /\ decision' = Decided(BaselineBlockers(claims, bundle, again, disk),
                                      ProfileBlockers(profile, graph'), disk)
  /\ enriched' = enriched \cup {c}
  /\ UNCHANGED <<stage, disk, verified, ambiguous, claims, profile>>

Next ==
  \/ HashArtifact
  \/ ExtractText
  \/ ExtractClaims
  \/ CompareEvidence
  \/ Decide
  \/ Abort
  \/ ArtifactChanges
  \/ \E c \in ClaimIds : Enrich(c)

Spec == Init /\ [][Next]_vars

-----------------------------------------------------------------------------
Ready == stage = "DONE" /\ decision.outcome = "READY_FOR_APPROVAL"

SupportOf(c) ==
  {s \in evidence : \E d \in comparisons :
     d.claim = c /\ d.status = "SUPPORTED" /\ d.cites.source = s}

PipelineTypeOK ==
  /\ stage \in Stages
  /\ disk \in Pdfs
  /\ ambiguous \subseteq AmbiguousCategories
  /\ claims \subseteq ClaimIds
  /\ comparisons \subseteq Comparisons
  /\ OwnSources \subseteq evidence /\ evidence \subseteq OwnSources \cup PublicSources
  /\ profile \in Profiles
  /\ enriched \subseteq claims

(* Every comparison that was kept is about an extracted claim and cites the *)
(* bundle correctly.                                                        *)
FindingsAreSound ==
  \A d \in comparisons :
    /\ d.claim \in claims
    /\ NeedsQuotation(d.status) => CitesSource(d.cites)
    /\ CitesSource(d.cites) =>
         CitesWords(d.cites) /\ d.cites.source \in evidence /\ Verbatim(d)

Succeeded == stage \in {"DECIDE", "DONE"} /\ snapshot.succeeded

(* The verdict of a claim is its worst comparison; without a comparison it  *)
(* is an uncertainty that cites nothing.                                    *)
IsVerdictOf(v, found) ==
  /\ IF found = {} THEN v.status = "UNCERTAIN" /\ ~CitesSource(v.cites)
                  ELSE v = Worst(found)
  /\ \A d \in found : d.status = "CONFLICTING" => v.status = "CONFLICTING"
  /\ v.status = "SUPPORTED" => \A d \in found : d.status = "SUPPORTED"

VerdictsAreWorst ==
  Succeeded =>
    /\ snapshot.evidence = evidence
    /\ DOMAIN snapshot.verdicts = claims
    /\ graph = BuildGraph(claims, comparisons)
    /\ \A c \in claims : IsVerdictOf(snapshot.verdicts[c], Of(c, comparisons))

NothingIsFoundEarly ==
  stage \in {"HASH", "EXTRACT", "CLAIMS", "COMPARE"} =>
    comparisons = {} /\ enriched = {} /\ evidence = OwnSources

AmbiguousHaveNoFindings ==
  stage \in {"DECIDE", "DONE"} =>
    \A c \in claims \ enriched : IsAmbiguous(c) => Of(c, comparisons) = {}

FailureHasNoFindings ==
  stage \in {"DECIDE", "DONE"} /\ ~snapshot.succeeded =>
    /\ comparisons = {} /\ graph = None
    /\ snapshot.evidence = evidence /\ snapshot.verdicts = <<>>

DecisionIsDerived ==
  stage = "DONE" =>
    /\ decision.baseline = BaselineBlockers(claims, evidence, snapshot, decision.pdf)
    /\ decision.profile = ProfileBlockers(profile, graph)
    /\ decision.outcome = OutcomeOf(EffectiveBlockers(decision.baseline, decision.profile))

(* What every stage keeps, and what the theorems rest on: the types, and    *)
(* that findings, verdicts and decision stay projections of each other.     *)
PipelineInv ==
  /\ PipelineTypeOK
  /\ NothingIsFoundEarly
  /\ FindingsAreSound
  /\ VerdictsAreWorst
  /\ AmbiguousHaveNoFindings
  /\ FailureHasNoFindings
  /\ DecisionIsDerived

(* A run is only ready for approval (domain/policy.py evaluate) when every  *)
(* critical claim has been compared, everything found about it supports it, *)
(* each finding quotes words that are in a source of the bundle (or are the *)
(* query, which the envelope of a public source repeats), and the bytes the *)
(* decision binds are those the snapshot was made for.                      *)
ReadyIsGrounded ==
  Ready =>
    /\ snapshot.succeeded /\ snapshot.pdf = decision.pdf
    /\ \A c \in claims : IsCritical(c) =>
         /\ Of(c, comparisons) # {}
         /\ \A d \in Of(c, comparisons) :
              /\ d.status = "SUPPORTED"
              /\ d.cites.source \in evidence
              /\ \/ d.cites.quote \in Text[d.cites.source]
                 \/ d.cites.source \notin OwnSources /\ d.cites.quote = QueryWords[c]

(* A ready run keeps the thresholds of its profile, counted over distinct   *)
(* sources of the comparisons themselves (policy_profiles/evaluator.py):    *)
(* two quotations of one source are one source.                             *)
ReadyMeetsProfile ==
  Ready =>
    \A k \in DOMAIN profile :
      LET members == {c \in claims : CategoryOf[c] = k}
      IN /\ profile[k].critical => members # {}
         /\ \A c \in members :
              /\ Cardinality(SupportOf(c)) >= profile[k].minimum
              /\ Cardinality(Qualifying(profile[k], SupportOf(c)))
                   >= profile[k].authoritative

(* The public sources that support a claim are votes of different sites     *)
(* (_accept_sources): a profile that asks for two sources is not met by two *)
(* pages of one host.  And no search supplies an internal source a profile  *)
(* asks for (models.py source_is_never_internal).                           *)
PublicVotesAreLimited ==
  /\ \A c \in claims : \A s, t \in SupportOf(c) \cap PublicSources :
       HostOf[s] = HostOf[t] => s = t
  /\ Ready => \A k \in DOMAIN profile : profile[k].qualifying \subseteq Internal =>
       \A c \in claims : CategoryOf[c] = k =>
         Cardinality(SupportOf(c) \cap OwnSources) >= profile[k].authoritative

(* A profile never readies what the baseline blocks (evaluator.py evaluate, *)
(* EffectivePolicyEvaluation).                                              *)
ProfileOnlyRestricts == Ready => decision.baseline = {} /\ decision.profile = {}

(* The two projections of the comparisons, verdicts for the baseline and    *)
(* graph for the profiles, agree about every claim (project_policy_results, *)
(* build_evidence_graph).                                                   *)
VerdictsMatchGraph ==
  Succeeded =>
    \A c \in claims :
      LET status == snapshot.verdicts[c].status
          edges(relationship) == EdgesOf(graph, c, relationship)
      IN /\ status = "CONFLICTING" <=> edges("CONFLICTS") # {}
         /\ status = "SUPPORTED" =>
              edges("SUPPORTS") # {} /\ edges("UNCERTAIN") = {}

(* What the engine lets through, the quotation checks of the policy never   *)
(* have to stop (semantic/engine.py verify_evidence_bundle against          *)
(* domain/policy.py _validate_quotation), after an enrichment too.          *)
QuotationChecksStayIdle ==
  stage = "DONE" =>
    decision.baseline \cap
      {"MISSING_EVIDENCE_QUOTATION", "UNKNOWN_EVIDENCE_SOURCE",
       "EVIDENCE_QUOTATION_NOT_FOUND", "EVIDENCE_HASH_CHANGED"} = {}

(* An ambiguous critical claim blocks the run until it has itself been      *)
(* searched for: enriching another claim does not release it                *)
(* (phase3_workflow.py ambiguity override).                                 *)
AmbiguityBlocksUntilSearched ==
  (\E c \in claims \ enriched : IsCritical(c) /\ IsAmbiguous(c)) => ~Ready

(* Enrichment replaces the open findings of one claim and no other: the     *)
(* verdict of another claim stays, and no support or conflict that was      *)
(* found is lost (enrich_result, retained_comparisons).                     *)
EnrichmentIsLocal ==
  [][stage = "DONE" =>
       /\ \A c \in claims \ (enriched' \ enriched) :
            snapshot.succeeded => snapshot'.verdicts[c] = snapshot.verdicts[c]
       /\ \A d \in comparisons : NeedsQuotation(d.status) => d \in comparisons']_vars

-----------------------------------------------------------------------------
(* This run as RunDecisions sees it, once it is decided: the verdicts of    *)
(* its claims, those without a comparison by ambiguity, those enriched.     *)
InForce ==
  IF stage # "DONE"
  THEN None
  ELSE [verdicts |-> IF snapshot.succeeded
                     THEN [c \in claims |-> snapshot.verdicts[c].status]
                     ELSE None,
        ambiguous |-> IF snapshot.succeeded THEN {c \in claims : IsAmbiguous(c)} ELSE {},
        searched |-> enriched, pdf |-> decision.pdf, outcome |-> decision.outcome]

BeingVerified == IF stage \in {"DONE", "ABORTED"} THEN None ELSE verified

Run == INSTANCE RunDecisions
         WITH Contents <- Pdfs, Claims <- ClaimIds,
              Critical <- {c \in ClaimIds : IsCritical(c)},
              EligibleClaims <- {c \in ClaimIds : Eligible(CategoryOf[c])},
              verified <- BeingVerified, decision <- InForce

(* The extraction, the comparison, the policy and the searches arrive at    *)
(* decisions as RunDecisions allows them, and at no others: what RunControl *)
(* takes as the choice of a decision is what the stages derive.             *)
DerivesRunDecisions == Run!DecisionSpec
=============================================================================
