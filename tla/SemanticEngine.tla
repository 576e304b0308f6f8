--------------------------- MODULE SemanticEngine ---------------------------
(***************************************************************************)
(* What the program makes of a comparison model's answer                   *)
(* (semantic/engine.py) and the evidence graph drawn from it               *)
(* (evidence_graph/builder.py, evidence_graph/models.py).                  *)
(*                                                                         *)
(* The answer is untrusted: any set of results about any claims, sources   *)
(* and quotations.  A quotation is verbatim when it occurs in the content  *)
(* of the source (PublicEvidence).  Results are a set, since nothing       *)
(* depends on their order; a result given twice is told by "repeated".     *)
(***************************************************************************)
EXTENDS PublicEvidence

CONSTANTS
  Citations,  \* the (source, quotation) pairs an answer can contain
  None        \* absence of a value

ASSUME NoneIsNoReference == None \notin SourceIds /\ None \notin Quotes
ASSUME CitationsArePairs ==
  Citations \subseteq [source : SourceIds \cup {None}, quote : Quotes \cup {None}]

SemanticStatuses == {"SUPPORTED", "CONFLICTING", "UNSUPPORTED", "UNCERTAIN"}

Comparisons == [claim : ClaimIds, status : SemanticStatuses, cites : Citations]

NeedsQuotation(status) == status \in {"SUPPORTED", "CONFLICTING"}
CitesSource(cites) == cites.source # None
CitesWords(cites) == cites.quote # None
Verbatim(d) == d.cites.quote \in Content(d.cites.source, d.claim)

(* A result cites a source of the bundle and words that are in it, or       *)
(* nothing at all; SUPPORTED and CONFLICTING cannot cite nothing.           *)
ReferenceIsValid(c, evidence) ==
  /\ NeedsQuotation(c.status) => CitesSource(c.cites) /\ CitesWords(c.cites)
  /\ CitesSource(c.cites) <=> CitesWords(c.cites)
  /\ CitesSource(c.cites) => c.cites.source \in evidence /\ Verbatim(c)

ClaimsOf(comparisons) == {c.claim : c \in comparisons}
Of(claim, comparisons) == {c \in comparisons : c.claim = claim}

(* verify_evidence_bundle accepts an answer about exactly these claims.     *)
AnswerIsValid(answer, claims, evidence) ==
  /\ answer.complete /\ ~answer.repeated
  /\ ClaimsOf(answer.results) = claims
  /\ \A c \in answer.results : ReferenceIsValid(c, evidence)

Precedence(status) ==
  CASE status = "CONFLICTING" -> 0 [] status = "UNSUPPORTED" -> 1
    [] status = "UNCERTAIN" -> 2 [] status = "SUPPORTED" -> 3

FaultyWorst(cs) ==
  CHOOSE c \in cs : \A d \in cs : Precedence(d.status) <= Precedence(c.status)

(* project_policy_results collapses the comparisons of a claim to the worst *)
(* one.  Between equals the code takes the least source and quotation;      *)
(* here some one of them is taken, and no property depends on which.        *)
Worst(cs) ==
  CHOOSE c \in cs : \A d \in cs : Precedence(c.status) <= Precedence(d.status)

(* It raises when a claim has no comparison, or a comparison no claim.      *)
CanProject(claims, comparisons) == ClaimsOf(comparisons) = claims

Project(claims, comparisons) ==
  [claim \in claims |-> Worst(Of(claim, comparisons))]

-----------------------------------------------------------------------------
Relationships == {"SUPPORTS", "CONFLICTS", "UNCERTAIN"}

Relationship(status) ==
  CASE status = "SUPPORTED" -> "SUPPORTS" [] status = "CONFLICTING" -> "CONFLICTS"
    [] status = "UNCERTAIN" -> "UNCERTAIN"

FaultyRelated(comparisons) == {c \in comparisons : c.status \in {"SUPPORTED", "UNCERTAIN"}}

(* The comparisons that become edges: all but the UNSUPPORTED ones.         *)
Related(comparisons) == {c \in comparisons : c.status # "UNSUPPORTED"}

(* build_evidence_graph raises on an edge that cites nothing; EvidenceGraph *)
(* raises on one that cites something unknown, or words not in the source.  *)
CanBuildGraph(claims, evidence, comparisons) ==
  \A c \in Related(comparisons) :
    /\ CitesSource(c.cites) /\ CitesWords(c.cites)
    /\ c.claim \in claims
    /\ c.cites.source \in evidence /\ Verbatim(c)

BuildGraph(claims, comparisons) ==
  [claims |-> claims,
   edges |-> {[claim |-> c.claim, cites |-> c.cites,
               relationship |-> Relationship(c.status)]
              : c \in Related(comparisons)}]

EdgesOf(graph, claim, relationship) ==
  {e \in graph.edges : e.claim = claim /\ e.relationship = relationship}

SourcesOf(edges) == {e.cites.source : e \in edges}
=============================================================================
