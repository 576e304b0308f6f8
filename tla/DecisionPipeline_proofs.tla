----------------------- MODULE DecisionPipeline_proofs -----------------------
(***************************************************************************)
(* Proofs about DecisionPipeline for every set of claims, sources,         *)
(* quotations, answers and profiles: PipelineInv is inductive, and the     *)
(* properties that relate findings, verdicts, graph and decision follow;   *)
(* and the stages implement RunDecisions.                                  *)
(***************************************************************************)
EXTENDS DecisionPipeline, FiniteSetTheorems, TLAPS

-----------------------------------------------------------------------------
(* Comparisons, their precedence and their projections.                     *)

LEMMA StatusOfComparison ==
  ASSUME NEW c \in Comparisons
  PROVE  /\ c.status \in SemanticStatuses /\ c.claim \in ClaimIds
         /\ c.cites \in Citations
BY DEF Comparisons

LEMMA PrecedenceValues ==
  /\ Precedence("CONFLICTING") = 0 /\ Precedence("UNSUPPORTED") = 1
  /\ Precedence("UNCERTAIN") = 2 /\ Precedence("SUPPORTED") = 3
BY DEF Precedence

LEMMA PrecedenceIsSmall ==
  ASSUME NEW status \in SemanticStatuses
  PROVE  Precedence(status) \in 0..3
BY PrecedenceValues DEF SemanticStatuses

(* CHOOSE finds a worst comparison wherever there is any.                   *)
LEMMA WorstIsWorst ==
  ASSUME NEW cs, \A c \in cs : c.status \in SemanticStatuses, cs # {}
  PROVE  /\ Worst(cs) \in cs
         /\ \A d \in cs : Precedence(Worst(cs).status) <= Precedence(d.status)
<1>2. \A c \in cs : Precedence(c.status) \in 0..3
  BY PrecedenceIsSmall
<1> DEFINE Least(c) == \A d \in cs : Precedence(c.status) <= Precedence(d.status)
<1>3. \E c \in cs : Least(c)
  <2>1. CASE \E c \in cs : Precedence(c.status) = 0
    BY <2>1, <1>2
  <2>2. CASE /\ ~\E c \in cs : Precedence(c.status) = 0
             /\ \E c \in cs : Precedence(c.status) = 1
    BY <2>2, <1>2
  <2>3. CASE /\ ~\E c \in cs : Precedence(c.status) \in 0..1
             /\ \E c \in cs : Precedence(c.status) = 2
    BY <2>3, <1>2
  <2>4. CASE \A c \in cs : Precedence(c.status) = 3
    BY <2>4, <1>2
  <2>5. QED BY <2>1, <2>2, <2>3, <2>4, <1>2
<1>4. QED BY <1>3 DEF Worst

(* What the worst comparison says about the others.                         *)
LEMMA WorstStatus ==
  ASSUME NEW cs, \A c \in cs : c.status \in SemanticStatuses, cs # {}
  PROVE  /\ \A d \in cs : d.status = "CONFLICTING" => Worst(cs).status = "CONFLICTING"
         /\ Worst(cs).status = "SUPPORTED" => \A d \in cs : d.status = "SUPPORTED"
<1>1. Worst(cs) \in cs
  BY WorstIsWorst
<1>2. \A d \in cs : Precedence(Worst(cs).status) <= Precedence(d.status)
  BY WorstIsWorst
<1>3. Worst(cs).status \in SemanticStatuses
  BY <1>1
<1>4. QED BY <1>2, <1>3, PrecedenceValues DEF SemanticStatuses

(* A valid reference is sound: its citation is of the bundle, word for word. *)
LEMMA ValidReference ==
  ASSUME NEW c, NEW bundle, ReferenceIsValid(c, bundle)
  PROVE  /\ NeedsQuotation(c.status) => CitesSource(c.cites)
         /\ CitesSource(c.cites) =>
              CitesWords(c.cites) /\ c.cites.source \in bundle /\ Verbatim(c)
BY DEF ReferenceIsValid

LEMMA SubsetOf ==
  ASSUME NEW c, NEW cs, cs \subseteq Comparisons
  PROVE  Of(c, cs) \subseteq Comparisons /\ \A d \in Of(c, cs) : d.claim = c /\ d \in cs
BY DEF Of

(* A claim with findings is projected to the worst of them.                 *)
LEMMA ProjectedVerdict ==
  ASSUME NEW known, NEW cs, cs \subseteq Comparisons, NEW c \in known,
         Of(c, cs) # {}
  PROVE  IsVerdictOf(Project(known, cs)[c], Of(c, cs))
<1>1. \A d \in Of(c, cs) : d.status \in SemanticStatuses
  BY StatusOfComparison, SubsetOf
<1>2. Project(known, cs)[c] = Worst(Of(c, cs))
  BY DEF Project
<1>3. QED BY <1>1, <1>2, WorstStatus DEF IsVerdictOf

-----------------------------------------------------------------------------
(* The stages preserve the invariant.                                       *)

USE DEF Stages

LEMMA InitInvariant == Init => PipelineInv
BY SourcesArePartitioned
   DEF Init, PipelineInv, PipelineTypeOK, NothingIsFoundEarly,
       FindingsAreSound, VerdictsAreWorst,
       Succeeded, AmbiguousHaveNoFindings, FailureHasNoFindings, DecisionIsDerived

(* A failed semantic stage leaves nothing to be derived from.               *)
LEMMA FailureKeeps ==
  ASSUME PipelineInv, SemanticFailure, UNCHANGED claims,
         ambiguous' \subseteq AmbiguousCategories
  PROVE  PipelineInv'
BY DEF SemanticFailure, FailedSnapshot, PipelineInv, PipelineTypeOK, NothingIsFoundEarly,
      
       FindingsAreSound, VerdictsAreWorst, Succeeded, AmbiguousHaveNoFindings,
       FailureHasNoFindings, DecisionIsDerived, Of

LEMMA EarlyStagesKeep ==
  ASSUME PipelineInv, HashArtifact \/ Abort
  PROVE  PipelineInv'
BY DEF HashArtifact, Abort, stageVars, PipelineInv, PipelineTypeOK, NothingIsFoundEarly,
      
       FindingsAreSound, VerdictsAreWorst, Succeeded, AmbiguousHaveNoFindings,
       FailureHasNoFindings, DecisionIsDerived

LEMMA ArtifactKeeps ==
  ASSUME PipelineInv, ArtifactChanges
  PROVE  PipelineInv'
BY DEF ArtifactChanges, stageVars, PipelineInv, PipelineTypeOK, NothingIsFoundEarly,
      
       FindingsAreSound, VerdictsAreWorst, Succeeded, AmbiguousHaveNoFindings,
       FailureHasNoFindings, DecisionIsDerived, IsAmbiguous

LEMMA TextKeeps ==
  ASSUME PipelineInv, ExtractText
  PROVE  PipelineInv'
<1>1. CASE stage' = "CLAIMS" /\ UNCHANGED <<disk, verified, stageVars, evidence,
                                            profile, decision, enriched>>
  BY <1>1 DEF ExtractText, stageVars, PipelineInv, PipelineTypeOK, NothingIsFoundEarly,
      
       FindingsAreSound, VerdictsAreWorst, Succeeded, AmbiguousHaveNoFindings,
       FailureHasNoFindings, DecisionIsDerived
<1>2. CASE SemanticFailure /\ UNCHANGED claims
  BY <1>2, FailureKeeps DEF ExtractText
<1>3. QED BY <1>1, <1>2 DEF ExtractText

LEMMA ClaimsKeep ==
  ASSUME PipelineInv, ExtractClaims
  PROVE  PipelineInv'
<1>1. CASE /\ stage' = "COMPARE" /\ claims' \in SUBSET ClaimIds \ {{}}
           /\ UNCHANGED <<disk, verified, comparisons, snapshot, graph, evidence,
                          profile, decision, enriched>>
  BY <1>1 DEF ExtractClaims, PipelineInv, PipelineTypeOK, NothingIsFoundEarly,
       FindingsAreSound, VerdictsAreWorst, Succeeded, AmbiguousHaveNoFindings,
       FailureHasNoFindings, DecisionIsDerived
<1>2. CASE SemanticFailure /\ UNCHANGED claims
  <2>1. ambiguous' \subseteq AmbiguousCategories
    BY DEF ExtractClaims, PipelineInv, PipelineTypeOK
  <2>2. QED BY <1>2, <2>1, FailureKeeps
<1>3. QED BY <1>1, <1>2 DEF ExtractClaims

LEMMA OverrideIsSubset ==
  ASSUME NEW results, results \subseteq Comparisons
  PROVE  /\ Override(results) \subseteq results
         /\ \A c \in Override(results) : ~IsAmbiguous(c.claim)
BY DEF Override

(* The verdict of an overridden claim, and of one that is not.              *)
LEMMA OverriddenVerdict ==
  ASSUME NEW results, results \subseteq Comparisons, ClaimsOf(results) = claims,
         NEW c \in claims
  PROVE  /\ IsAmbiguous(c) => Of(c, Override(results)) = {}
         /\ IsVerdictOf(Project(claims, Override(results) \cup AmbiguityResults)[c],
                        Of(c, Override(results)))
<1> DEFINE kept == Override(results)
           all == Of(c, kept \cup AmbiguityResults)
           v == Project(claims, kept \cup AmbiguityResults)[c]
           note == [claim |-> c, status |-> "UNCERTAIN",
                    cites |-> [source |-> None, quote |-> None]]
<1>1. v = Worst(all)
  BY DEF Project
<1>2. CASE IsAmbiguous(c)
  <2>1. Of(c, kept) = {}
    BY <1>2, OverrideIsSubset DEF Of
  <2>2. note \in all
    BY <1>2 DEF AmbiguityResults, Of
  <2>3. \A d \in all : d = note
    BY <2>1 DEF AmbiguityResults, Of
  <2>4. all # {} /\ \A d \in all : d.status \in SemanticStatuses
    BY <2>2, <2>3 DEF SemanticStatuses
  <2>5. Worst(all) \in all
    BY <2>4, WorstIsWorst
  <2>6. v = note
    BY <1>1, <2>3, <2>5
  <2>7. v.status = "UNCERTAIN" /\ ~CitesSource(v.cites)
    BY <2>6 DEF CitesSource
  <2>8. QED BY <2>1, <2>7 DEF IsVerdictOf
<1>3. CASE ~IsAmbiguous(c)
  <2>1. all = Of(c, kept)
    BY <1>3 DEF AmbiguityResults, Of
  <2>2. PICK d \in results : d.claim = c
    BY DEF ClaimsOf
  <2>3. d \in Of(c, kept)
    BY <1>3, <2>2 DEF Override, Of
  <2>4. \A e \in Of(c, kept) : e.status \in SemanticStatuses
    BY OverrideIsSubset, StatusOfComparison DEF Of
  <2>5. QED BY <1>1, <1>3, <2>1, <2>3, <2>4, WorstStatus DEF IsVerdictOf
<1>4. QED BY <1>2, <1>3

LEMMA ComparisonKeeps ==
  ASSUME PipelineInv, CompareEvidence
  PROVE  PipelineInv'
<1>1. PICK answer \in Answers :
        LET kept == Override(answer.results)
        IN IF /\ AnswerIsValid(answer, claims, evidence)
              /\ CanBuildGraph(claims, evidence, kept)
           THEN /\ stage' = "DECIDE"
                /\ comparisons' = kept
                /\ snapshot' = Snapshot(verified, evidence,
                                        Project(claims, kept \cup AmbiguityResults))
                /\ graph' = BuildGraph(claims, kept)
                /\ UNCHANGED <<disk, verified, evidence, profile, decision, enriched>>
           ELSE SemanticFailure
  BY DEF CompareEvidence
<1>2. UNCHANGED <<claims, ambiguous>>
  BY DEF CompareEvidence
<1>3. CASE SemanticFailure
  BY <1>2, <1>3, FailureKeeps DEF PipelineInv, PipelineTypeOK
<1>4. CASE ~SemanticFailure
  <2> DEFINE kept == Override(answer.results)
             verdicts == Project(claims, kept \cup AmbiguityResults)
  <2>1. /\ AnswerIsValid(answer, claims, evidence)
        /\ stage' = "DECIDE" /\ comparisons' = kept
        /\ snapshot' = Snapshot(verified, evidence, verdicts)
        /\ graph' = BuildGraph(claims, kept)
        /\ UNCHANGED <<disk, verified, evidence, profile, decision, enriched>>
    BY <1>1, <1>4
  <2>2. answer.results \subseteq Comparisons
    BY ResultsAreComparisons DEF Answers
  <2>3. kept \subseteq answer.results
    BY <2>2, OverrideIsSubset
  <2>4. ClaimsOf(answer.results) = claims
    BY <2>1 DEF AnswerIsValid
  <2>5. PipelineTypeOK'
    BY <1>2, <2>1, <2>2, <2>3 DEF PipelineInv, PipelineTypeOK
  <2>6. FindingsAreSound'
    <3>1. \A d \in kept : d.claim \in claims
      BY <2>3, <2>4 DEF ClaimsOf
    <3>2. \A d \in kept : ReferenceIsValid(d, evidence)
      BY <2>1, <2>3 DEF AnswerIsValid
    <3>3. QED BY <1>2, <2>1, <3>1, <3>2, ValidReference DEF FindingsAreSound
  <2>7. VerdictsAreWorst'
    <3>1. snapshot'.evidence = evidence' /\ DOMAIN snapshot'.verdicts = claims'
      BY <1>2, <2>1 DEF Snapshot, Project
    <3>2. graph' = BuildGraph(claims', comparisons')
      BY <1>2, <2>1
    <3>3. \A c \in claims : snapshot'.verdicts[c] = verdicts[c]
      BY <2>1 DEF Snapshot
    <3>4. \A c \in claims : IsVerdictOf(snapshot'.verdicts[c], Of(c, kept))
      BY <2>2, <2>4, <3>3, OverriddenVerdict
    <3>5. QED BY <1>2, <2>1, <3>1, <3>2, <3>4 DEF VerdictsAreWorst
  <2>8. AmbiguousHaveNoFindings'
    BY <1>2, <2>1, <2>2, <2>4, OverriddenVerdict DEF AmbiguousHaveNoFindings, IsAmbiguous
  <2>9. FailureHasNoFindings' /\ DecisionIsDerived' /\ NothingIsFoundEarly'
    BY <2>1 DEF FailureHasNoFindings, DecisionIsDerived, NothingIsFoundEarly, Snapshot
  <2>10. QED BY <2>5, <2>6, <2>7, <2>8, <2>9 DEF PipelineInv
<1>5. QED BY <1>3, <1>4

LEMMA DecisionKeeps ==
  ASSUME PipelineInv, Decide
  PROVE  PipelineInv'
<1>1. PipelineTypeOK' /\ FindingsAreSound' /\ VerdictsAreWorst'
        /\ AmbiguousHaveNoFindings' /\ FailureHasNoFindings' /\ NothingIsFoundEarly'
  BY DEF Decide, stageVars, PipelineInv, PipelineTypeOK, NothingIsFoundEarly,
         FindingsAreSound, VerdictsAreWorst, Succeeded, AmbiguousHaveNoFindings,
         FailureHasNoFindings, IsAmbiguous
<1>2. DecisionIsDerived'
  BY DEF Decide, Decided, stageVars, DecisionIsDerived
<1>3. QED BY <1>1, <1>2 DEF PipelineInv

(* The pages a search leaves to compare are pages, each of a host of its    *)
(* own.                                                                     *)
LEMMA AcceptedPages ==
  ASSUME NEW found \in Discoveries
  PROVE  /\ found \subseteq PublicSources
         /\ \A s, t \in found : HostOf[s] = HostOf[t] => s = t
<1>1. PICK results \in SearchResults : found = Accepted(results)
  BY DEF Discoveries
<1>2. results \in Seq(Hits)
  BY ResultsAreHits
<1> DEFINE First == {k \in Candidates(results) :
      \A j \in Candidates(results) : j < k => ~Clash(results[j].page, results[k].page)}
<1>3. found = {results[i].page : i \in First}
  BY <1>1 DEF Accepted
<1>4. \A i \in Candidates(results) : i \in Nat /\ results[i].page \in PublicSources
  <2>1. ASSUME NEW i \in DOMAIN results
        PROVE  i \in Nat /\ results[i] \in Hits
    BY <1>2
  <2>2. \A hit \in Hits : hit.page \in PublicSources
    BY DEF Hits
  <2>3. QED BY <2>1, <2>2 DEF Candidates, Considered
<1>5. found \subseteq PublicSources
  BY <1>3, <1>4
<1>6. ASSUME NEW s \in found, NEW t \in found, HostOf[s] = HostOf[t]
      PROVE  s = t
  <2>1. PICK i \in First : s = results[i].page
    BY <1>3
  <2>2. PICK j \in First : t = results[j].page
    BY <1>3
  <2>3. i \in Candidates(results) /\ j \in Candidates(results)
    OBVIOUS
  <2>4. Clash(results[i].page, results[j].page) /\ Clash(results[j].page, results[i].page)
    BY <1>6, <2>1, <2>2 DEF Clash
  <2>5. ~(i < j) /\ ~(j < i)
    BY <2>3, <2>4
  <2>6. i = j
    BY <1>4, <2>3, <2>5
  <2>7. QED BY <2>1, <2>2, <2>6
<1>7. QED BY <1>5, <1>6

(* What a re-evaluation of claim c knows of its answer.                     *)
LEMMA EnrichmentFacts ==
  ASSUME PipelineInv, NEW c \in ClaimIds, Enrich(c)
  PROVE  \E found \in Discoveries \cap SUBSET PublicSources, results \in SUBSET Comparisons :
           /\ ClaimsOf(results) = {c}
           /\ \A d \in results : ReferenceIsValid(d, found)
           /\ comparisons' = Retained(c) \cup results
           /\ ClaimsOf(comparisons') = claims
           /\ evidence' = evidence \cup found
           /\ snapshot' = Snapshot(disk, evidence', Project(claims, comparisons'))
           /\ graph' = BuildGraph(claims, comparisons')
           /\ decision' = Decided(BaselineBlockers(claims, evidence', snapshot', disk),
                                  ProfileBlockers(profile, graph'), disk)
<1>1. PICK found \in Discoveries, answer \in Answers :
        LET bundle == evidence \cup found
            merged == Retained(c) \cup answer.results
            again == Snapshot(disk, bundle, Project(claims, merged))
        IN /\ AnswerIsValid(answer, {c}, found)
           /\ CanProject(claims, merged)
           /\ CanBuildGraph(claims, bundle, merged)
           /\ evidence' = bundle
           /\ comparisons' = merged
           /\ snapshot' = again
           /\ graph' = BuildGraph(claims, merged)
           /\ decision' = Decided(BaselineBlockers(claims, bundle, again, disk),
                                  ProfileBlockers(profile, graph'), disk)
  BY DEF Enrich
<1>2. answer.results \in SUBSET Comparisons
  BY ResultsAreComparisons DEF Answers
<1>3. ClaimsOf(answer.results) = {c} /\ \A d \in answer.results : ReferenceIsValid(d, found)
  BY <1>1 DEF AnswerIsValid
<1>4. ClaimsOf(comparisons') = claims
  BY <1>1 DEF CanProject
<1>5. found \in Discoveries \cap SUBSET PublicSources
  BY AcceptedPages
<1>6. QED BY <1>1, <1>2, <1>3, <1>4, <1>5

LEMMA RetainedIsSubset ==
  ASSUME NEW c
  PROVE  /\ Retained(c) \subseteq comparisons
         /\ \A d \in comparisons : d.claim # c => d \in Retained(c)
         /\ \A d \in comparisons : NeedsQuotation(d.status) => d \in Retained(c)
BY DEF Retained, NeedsQuotation

LEMMA EnrichmentKeeps ==
  ASSUME PipelineInv, NEW c \in ClaimIds, Enrich(c)
  PROVE  PipelineInv'
<1>1. PICK found \in SUBSET PublicSources, results \in SUBSET Comparisons :
           /\ ClaimsOf(results) = {c}
           /\ \A d \in results : ReferenceIsValid(d, found)
           /\ comparisons' = Retained(c) \cup results
           /\ ClaimsOf(comparisons') = claims
           /\ evidence' = evidence \cup found
           /\ snapshot' = Snapshot(disk, evidence', Project(claims, comparisons'))
           /\ graph' = BuildGraph(claims, comparisons')
           /\ decision' = Decided(BaselineBlockers(claims, evidence', snapshot', disk),
                                  ProfileBlockers(profile, graph'), disk)
  BY EnrichmentFacts
<1>2. /\ stage = "DONE" /\ c \in claims \ enriched /\ snapshot.succeeded
      /\ enriched' = enriched \cup {c}
      /\ UNCHANGED <<stage, disk, verified, ambiguous, claims, profile>>
  BY DEF Enrich, Searchable
<1>3. Retained(c) \subseteq comparisons
  BY RetainedIsSubset
<1>4. comparisons' \subseteq Comparisons
  BY <1>1, <1>3 DEF PipelineInv, PipelineTypeOK
<1>5. PipelineTypeOK'
  BY <1>1, <1>2, <1>4, SourcesArePartitioned DEF PipelineInv, PipelineTypeOK
<1>6. NothingIsFoundEarly'
  BY <1>2 DEF NothingIsFoundEarly
<1>7. FindingsAreSound'
  <2>1. \A d \in comparisons' : d.claim \in claims
    BY <1>1 DEF ClaimsOf
  <2>2. ASSUME NEW d \in Retained(c)
        PROVE  /\ NeedsQuotation(d.status) => CitesSource(d.cites)
               /\ CitesSource(d.cites) =>
                    CitesWords(d.cites) /\ d.cites.source \in evidence' /\ Verbatim(d)
    BY <1>1, <1>3 DEF PipelineInv, FindingsAreSound
  <2>3. ASSUME NEW d \in results
        PROVE  /\ NeedsQuotation(d.status) => CitesSource(d.cites)
               /\ CitesSource(d.cites) =>
                    CitesWords(d.cites) /\ d.cites.source \in evidence' /\ Verbatim(d)
    BY <1>1, ValidReference
  <2>4. QED BY <1>1, <1>2, <2>1, <2>2, <2>3 DEF FindingsAreSound
<1>8. VerdictsAreWorst'
  <2>1. /\ snapshot'.evidence = evidence' /\ DOMAIN snapshot'.verdicts = claims'
        /\ graph' = BuildGraph(claims', comparisons')
    BY <1>1, <1>2 DEF Snapshot, Project
  <2>2. ASSUME NEW d \in claims
        PROVE  IsVerdictOf(snapshot'.verdicts[d], Of(d, comparisons'))
    <3>1. Of(d, comparisons') # {}
      BY <1>1 DEF ClaimsOf, Of
    <3>2. snapshot'.verdicts[d] = Project(claims, comparisons')[d]
      BY <1>1 DEF Snapshot
    <3>3. QED BY <1>4, <3>1, <3>2, ProjectedVerdict
  <2>3. QED BY <1>2, <2>1, <2>2 DEF VerdictsAreWorst
<1>9. AmbiguousHaveNoFindings'
  <2>1. ASSUME NEW d \in claims' \ enriched', IsAmbiguous(d)'
        PROVE  Of(d, comparisons') = {}
    <3>1. d \in claims \ enriched /\ d # c /\ IsAmbiguous(d)
      BY <1>2, <2>1 DEF IsAmbiguous
    <3>2. Of(d, comparisons) = {}
      BY <1>2, <3>1 DEF PipelineInv, AmbiguousHaveNoFindings
    <3>3. \A x \in results : x.claim = c
      BY <1>1 DEF ClaimsOf
    <3>4. QED BY <1>1, <1>3, <3>1, <3>2, <3>3 DEF Of
  <2>2. QED BY <2>1 DEF AmbiguousHaveNoFindings
<1>10. FailureHasNoFindings'
  BY <1>1 DEF FailureHasNoFindings, Snapshot
<1>11. DecisionIsDerived'
  <2>1. decision'.pdf = disk
    BY <1>1 DEF Decided
  <2>2. QED BY <1>1, <1>2, <2>1 DEF DecisionIsDerived, Decided
<1>12. QED BY <1>5, <1>6, <1>7, <1>8, <1>9, <1>10, <1>11 DEF PipelineInv

LEMMA StutterKeeps ==
  ASSUME PipelineInv, UNCHANGED vars
  PROVE  PipelineInv'
BY DEF vars, stageVars, PipelineInv, PipelineTypeOK, NothingIsFoundEarly,
       FindingsAreSound, VerdictsAreWorst, Succeeded, AmbiguousHaveNoFindings,
       FailureHasNoFindings, DecisionIsDerived, IsAmbiguous

(* Whatever the models answer and whenever the file changes, findings,      *)
(* verdicts, graph and decision of a run stay derived from each other.      *)
THEOREM PipelineInvariant == Spec => []PipelineInv
<1>1. Init => PipelineInv
  BY InitInvariant
<1>2. PipelineInv /\ [Next]_vars => PipelineInv'
  <2> SUFFICES ASSUME PipelineInv, [Next]_vars
               PROVE  PipelineInv'
    OBVIOUS
  <2>1. CASE HashArtifact \/ Abort
    BY <2>1, EarlyStagesKeep
  <2>2. CASE ExtractText
    BY <2>2, TextKeeps
  <2>3. CASE ExtractClaims
    BY <2>3, ClaimsKeep
  <2>4. CASE CompareEvidence
    BY <2>4, ComparisonKeeps
  <2>5. CASE Decide
    BY <2>5, DecisionKeeps
  <2>6. CASE ArtifactChanges
    BY <2>6, ArtifactKeeps
  <2>7. CASE \E c \in ClaimIds : Enrich(c)
    BY <2>7, EnrichmentKeeps
  <2>8. CASE UNCHANGED vars
    BY <2>8, StutterKeeps
  <2>9. QED BY <2>1, <2>2, <2>3, <2>4, <2>5, <2>6, <2>7, <2>8 DEF Next
<1>3. QED BY <1>1, <1>2, PTL DEF Spec

-----------------------------------------------------------------------------
(* What follows from the invariant.                                         *)

LEMMA ReadyHasNoBlockers ==
  ASSUME PipelineInv, Ready
  PROVE  decision.baseline = {} /\ decision.profile = {}
BY DEF PipelineInv, Ready, DecisionIsDerived, OutcomeOf, EffectiveBlockers

LEMMA EmptyUnion ==
  ASSUME NEW A, NEW B, NEW C, NEW D, NEW E, A \cup B \cup C \cup D \cup E = {}
  PROVE  A = {} /\ B = {} /\ C = {} /\ D = {} /\ E = {}
OBVIOUS

(* A baseline without blockers speaks for every critical claim and for the  *)
(* bytes of its snapshot, wherever it is evaluated.                         *)
LEMMA NoBaselineBlockers ==
  ASSUME NEW known, NEW bundle, NEW snap, NEW pdf,
         BaselineBlockers(known, bundle, snap, pdf) = {}
  PROVE  /\ snap.succeeded /\ snap.pdf = pdf
         /\ CriticalBlockers(known, snap.verdicts) = {}
         /\ \A c \in known \cap DOMAIN snap.verdicts :
              IsCritical(c) => snap.verdicts[c].status = "SUPPORTED"
<1> DEFINE A == BlockIf(~snap.succeeded, "VERIFICATION_FAILED")
           B == BlockIf(snap.pdf # pdf, "PDF_HASH_CHANGED")
           C == BlockIf(snap.evidence # bundle, "EVIDENCE_HASH_CHANGED")
           D == UNION {QuotationBlockers(snap.verdicts[c], bundle) :
                         c \in known \cap DOMAIN snap.verdicts}
           E == CriticalBlockers(known, snap.verdicts)
<1>1. A \cup B \cup C \cup D \cup E = {}
  BY DEF BaselineBlockers
<1> HIDE DEF A, B, C, D, E
<1>2. A = {} /\ B = {} /\ E = {}
  BY <1>1, EmptyUnion
<1>3. snap.succeeded /\ snap.pdf = pdf
  BY <1>2 DEF A, B, BlockIf
<1>4. CriticalBlockers(known, snap.verdicts) = {}
  BY <1>2 DEF E
<1> QED
  BY <1>3, <1>4 DEF CriticalBlockers

LEMMA ReadyBaseline ==
  ASSUME PipelineInv, Ready
  PROVE  /\ snapshot.succeeded
         /\ snapshot.pdf = decision.pdf
         /\ CriticalBlockers(claims, snapshot.verdicts) = {}
<1>1. BaselineBlockers(claims, evidence, snapshot, decision.pdf) = {}
  BY ReadyHasNoBlockers DEF PipelineInv, DecisionIsDerived, Ready
<1>2. QED BY <1>1, NoBaselineBlockers

LEMMA SucceededVerdicts ==
  ASSUME PipelineInv, Succeeded, NEW c \in claims
  PROVE  IsVerdictOf(snapshot.verdicts[c], Of(c, comparisons))
BY DEF PipelineInv, VerdictsAreWorst

LEMMA ReadyIsSupported ==
  ASSUME PipelineInv, Ready, NEW c \in claims, IsCritical(c)
  PROVE  snapshot.verdicts[c].status = "SUPPORTED"
<1>1. Succeeded
  BY ReadyBaseline DEF Ready, Succeeded
<1>2. c \in DOMAIN snapshot.verdicts
  BY <1>1 DEF PipelineInv, VerdictsAreWorst
<1>3. QED BY <1>2, ReadyBaseline DEF CriticalBlockers

LEMMA GroundedLemma == PipelineInv => ReadyIsGrounded
<1> SUFFICES ASSUME PipelineInv, Ready
             PROVE  /\ snapshot.succeeded /\ snapshot.pdf = decision.pdf
                    /\ \A c \in claims : IsCritical(c) =>
                         /\ Of(c, comparisons) # {}
                         /\ \A d \in Of(c, comparisons) :
                              /\ d.status = "SUPPORTED"
                              /\ d.cites.source \in evidence
                              /\ \/ d.cites.quote \in Text[d.cites.source]
                                 \/ /\ d.cites.source \notin OwnSources
                                    /\ d.cites.quote = QueryWords[c]
  BY DEF ReadyIsGrounded
<1>1. snapshot.succeeded /\ snapshot.pdf = decision.pdf
  BY ReadyBaseline
<1>2. ASSUME NEW c \in claims, IsCritical(c)
      PROVE  /\ Of(c, comparisons) # {}
             /\ \A d \in Of(c, comparisons) : d.status = "SUPPORTED"
  <2>1. snapshot.verdicts[c].status = "SUPPORTED"
    BY <1>2, ReadyIsSupported
  <2>2. IsVerdictOf(snapshot.verdicts[c], Of(c, comparisons))
    BY <1>1, SucceededVerdicts DEF Ready, Succeeded
  <2>3. QED BY <2>1, <2>2 DEF IsVerdictOf
<1>3. ASSUME NEW d \in comparisons, d.status = "SUPPORTED"
      PROVE  /\ d.cites.source \in evidence
             /\ \/ d.cites.quote \in Text[d.cites.source]
                \/ /\ d.cites.source \notin OwnSources
                   /\ d.cites.quote = QueryWords[d.claim]
  <2>1. d.cites.source \in evidence
        /\ d.cites.quote \in Content(d.cites.source, d.claim)
    BY <1>3 DEF PipelineInv, FindingsAreSound, NeedsQuotation, Verbatim
  <2>2. QED BY <2>1, SourcesArePartitioned DEF Content
<1>4. QED BY <1>1, <1>2, <1>3 DEF Of

(* Only a fully supported, verbatim quoted run becomes ready for approval.  *)
THEOREM ReadyRunsAreGrounded == Spec => []ReadyIsGrounded
BY PipelineInvariant, GroundedLemma, PTL

(* No profile readies what the baseline policy blocks.                      *)
THEOREM ProfilesOnlyRestrict == Spec => []ProfileOnlyRestricts
<1>1. PipelineInv => ProfileOnlyRestricts
  BY ReadyHasNoBlockers DEF ProfileOnlyRestricts
<1>2. QED BY <1>1, PipelineInvariant, PTL

LEMMA AmbiguityLemma == PipelineInv => AmbiguityBlocksUntilSearched
<1> SUFFICES ASSUME PipelineInv, Ready,
                    NEW c \in claims \ enriched, IsCritical(c), IsAmbiguous(c)
             PROVE  FALSE
  BY DEF AmbiguityBlocksUntilSearched
<1>1. Of(c, comparisons) = {}
  BY DEF PipelineInv, AmbiguousHaveNoFindings, Ready
<1>2. QED BY <1>1, GroundedLemma DEF ReadyIsGrounded

(* An ambiguous critical claim blocks until it is itself searched for.      *)
THEOREM AmbiguousRunsAreBlocked == Spec => []AmbiguityBlocksUntilSearched
BY PipelineInvariant, AmbiguityLemma, PTL

(* A re-evaluation touches the verdict of its claim alone.                  *)
LEMMA EnrichmentLocalLemma ==
  ASSUME PipelineInv, NEW c \in ClaimIds, Enrich(c)
  PROVE  /\ \A x \in claims \ (enriched' \ enriched) :
              snapshot'.verdicts[x] = snapshot.verdicts[x]
         /\ \A d \in comparisons : NeedsQuotation(d.status) => d \in comparisons'
<1>1. PICK results \in SUBSET Comparisons :
           /\ ClaimsOf(results) = {c}
           /\ comparisons' = Retained(c) \cup results
           /\ ClaimsOf(comparisons') = claims
           /\ snapshot' = Snapshot(disk, evidence', Project(claims, comparisons'))
  BY EnrichmentFacts
<1>2. /\ stage = "DONE" /\ c \in claims \ enriched /\ snapshot.succeeded
      /\ enriched' = enriched \cup {c}
  BY DEF Enrich, Searchable
<1>3. ASSUME NEW x \in claims \ (enriched' \ enriched)
      PROVE  snapshot'.verdicts[x] = snapshot.verdicts[x]
  <2>1. x \in claims /\ x # c
    BY <1>2, <1>3
  <2>2. Of(x, comparisons') = Of(x, comparisons)
    <3>1. \A d \in results : d.claim # x
      BY <1>1, <2>1 DEF ClaimsOf
    <3>2. QED BY <1>1, <2>1, <3>1, RetainedIsSubset DEF Of
  <2>3. Of(x, comparisons') # {}
    BY <1>1, <2>1 DEF ClaimsOf, Of
  <2>4. snapshot'.verdicts[x] = Worst(Of(x, comparisons'))
    BY <1>1, <2>1 DEF Snapshot, Project
  <2>5. IsVerdictOf(snapshot.verdicts[x], Of(x, comparisons))
    BY <1>2, <2>1, SucceededVerdicts DEF Succeeded
  <2>6. QED BY <2>2, <2>3, <2>4, <2>5 DEF IsVerdictOf
<1>4. \A d \in comparisons : NeedsQuotation(d.status) => d \in comparisons'
  BY <1>1, RetainedIsSubset
<1>5. QED BY <1>3, <1>4

(* Enrichment keeps the verdicts of the other claims, and every support or  *)
(* conflict found before.                                                   *)
THEOREM EnrichmentsAreLocal == Spec => EnrichmentIsLocal
<1> DEFINE Local ==
      stage = "DONE" =>
        /\ \A c \in claims \ (enriched' \ enriched) :
             snapshot.succeeded => snapshot'.verdicts[c] = snapshot.verdicts[c]
        /\ \A d \in comparisons : NeedsQuotation(d.status) => d \in comparisons'
<1>1. PipelineInv /\ [Next]_vars => [Local]_vars
  <2> SUFFICES ASSUME PipelineInv, Next, stage = "DONE" PROVE Local
    OBVIOUS
  <2>1. CASE ArtifactChanges
    BY <2>1 DEF ArtifactChanges, stageVars
  <2>2. CASE \E c \in ClaimIds : Enrich(c)
    BY <2>2, EnrichmentLocalLemma
  <2>3. QED BY <2>1, <2>2
           DEF Next, HashArtifact, ExtractText, ExtractClaims, CompareEvidence,
               Decide, Abort
<1> HIDE DEF Local
<1>2. Spec => [][Local]_vars
  BY <1>1, PipelineInvariant, PTL DEF Spec
<1>3. QED BY <1>2 DEF EnrichmentIsLocal, Local

LEMMA EdgesOfGraph ==
  ASSUME PipelineInv, Succeeded, NEW c, NEW status \in {"SUPPORTED", "CONFLICTING", "UNCERTAIN"}
  PROVE  EdgesOf(graph, c, Relationship(status)) =
           {[claim |-> d.claim, cites |-> d.cites, relationship |-> Relationship(status)]
              : d \in {x \in Of(c, comparisons) : x.status = status}}
<1>1. graph = BuildGraph(claims, comparisons)
  BY DEF PipelineInv, VerdictsAreWorst
<1>2. \A d \in comparisons : d.status \in SemanticStatuses
  BY StatusOfComparison DEF PipelineInv, PipelineTypeOK
<1>3. /\ Relationship("SUPPORTED") = "SUPPORTS" /\ Relationship("CONFLICTING") = "CONFLICTS"
      /\ Relationship("UNCERTAIN") = "UNCERTAIN"
  BY DEF Relationship
<1>4. \A d \in Related(comparisons) :
        d.status \in {"SUPPORTED", "CONFLICTING", "UNCERTAIN"}
  BY <1>2 DEF Related, SemanticStatuses
<1>5. \A d \in Related(comparisons) :
        Relationship(d.status) = Relationship(status) => d.status = status
  BY <1>3, <1>4
<1>6. graph.edges = {[claim |-> d.claim, cites |-> d.cites,
                      relationship |-> Relationship(d.status)] : d \in Related(comparisons)}
  BY <1>1 DEF BuildGraph
<1>7. \A d \in comparisons : d.status = status => d \in Related(comparisons)
  BY DEF Related
<1>8. QED BY <1>5, <1>6, <1>7 DEF EdgesOf, Of, Related

LEMMA RelationshipNames ==
  /\ Relationship("SUPPORTED") = "SUPPORTS" /\ Relationship("CONFLICTING") = "CONFLICTS"
  /\ Relationship("UNCERTAIN") = "UNCERTAIN"
BY DEF Relationship

LEMMA EdgesByStatus ==
  ASSUME PipelineInv, Succeeded, NEW c
  PROVE  /\ EdgesOf(graph, c, "SUPPORTS") =
              {[claim |-> d.claim, cites |-> d.cites, relationship |-> "SUPPORTS"]
                 : d \in {x \in Of(c, comparisons) : x.status = "SUPPORTED"}}
         /\ EdgesOf(graph, c, "CONFLICTS") =
              {[claim |-> d.claim, cites |-> d.cites, relationship |-> "CONFLICTS"]
                 : d \in {x \in Of(c, comparisons) : x.status = "CONFLICTING"}}
         /\ EdgesOf(graph, c, "UNCERTAIN") =
              {[claim |-> d.claim, cites |-> d.cites, relationship |-> "UNCERTAIN"]
                 : d \in {x \in Of(c, comparisons) : x.status = "UNCERTAIN"}}
<1> DEFINE Drawn(status) ==
      {[claim |-> d.claim, cites |-> d.cites, relationship |-> Relationship(status)]
         : d \in {x \in Of(c, comparisons) : x.status = status}}
<1>1. EdgesOf(graph, c, Relationship("SUPPORTED")) = Drawn("SUPPORTED")
  BY EdgesOfGraph
<1>2. EdgesOf(graph, c, Relationship("CONFLICTING")) = Drawn("CONFLICTING")
  BY EdgesOfGraph
<1>3. EdgesOf(graph, c, Relationship("UNCERTAIN")) = Drawn("UNCERTAIN")
  BY EdgesOfGraph
<1>4. QED BY <1>1, <1>2, <1>3, RelationshipNames

LEMMA VerdictsMatchLemma == PipelineInv => VerdictsMatchGraph
<1> SUFFICES ASSUME PipelineInv, Succeeded, NEW c \in claims
             PROVE  LET status == snapshot.verdicts[c].status
                    IN /\ status = "CONFLICTING" <=> EdgesOf(graph, c, "CONFLICTS") # {}
                       /\ status = "SUPPORTED" =>
                            /\ EdgesOf(graph, c, "SUPPORTS") # {}
                            /\ EdgesOf(graph, c, "UNCERTAIN") = {}
  BY DEF VerdictsMatchGraph
<1> DEFINE found == Of(c, comparisons)
           v == snapshot.verdicts[c]
<1>1. IsVerdictOf(v, found)
  BY SucceededVerdicts
<1>2. /\ EdgesOf(graph, c, "CONFLICTS") # {} <=> \E d \in found : d.status = "CONFLICTING"
      /\ EdgesOf(graph, c, "SUPPORTS") # {} <=> \E d \in found : d.status = "SUPPORTED"
      /\ EdgesOf(graph, c, "UNCERTAIN") # {} <=> \E d \in found : d.status = "UNCERTAIN"
  <2>1. EdgesOf(graph, c, "CONFLICTS") # {} <=> \E d \in found : d.status = "CONFLICTING"
    <3>1. EdgesOf(graph, c, "CONFLICTS") =
            {[claim |-> d.claim, cites |-> d.cites, relationship |-> "CONFLICTS"]
               : d \in {x \in found : x.status = "CONFLICTING"}}
      BY EdgesByStatus
    <3>2. QED BY <3>1
  <2>2. EdgesOf(graph, c, "SUPPORTS") # {} <=> \E d \in found : d.status = "SUPPORTED"
    <3>1. EdgesOf(graph, c, "SUPPORTS") =
            {[claim |-> d.claim, cites |-> d.cites, relationship |-> "SUPPORTS"]
               : d \in {x \in found : x.status = "SUPPORTED"}}
      BY EdgesByStatus
    <3>2. QED BY <3>1
  <2>3. EdgesOf(graph, c, "UNCERTAIN") # {} <=> \E d \in found : d.status = "UNCERTAIN"
    <3>1. EdgesOf(graph, c, "UNCERTAIN") =
            {[claim |-> d.claim, cites |-> d.cites, relationship |-> "UNCERTAIN"]
               : d \in {x \in found : x.status = "UNCERTAIN"}}
      BY EdgesByStatus
    <3>2. QED BY <3>1
  <2>4. QED BY <2>1, <2>2, <2>3
<1>3. found # {} => v \in found
  <2>1. \A d \in found : d.status \in SemanticStatuses
    BY SubsetOf, StatusOfComparison DEF PipelineInv, PipelineTypeOK
  <2>2. QED BY <1>1, <2>1, WorstIsWorst DEF IsVerdictOf
<1>4. found = {} => v.status = "UNCERTAIN"
  BY <1>1 DEF IsVerdictOf
<1>5. \A d \in found : d.status = "CONFLICTING" => v.status = "CONFLICTING"
  BY <1>1 DEF IsVerdictOf
<1>6. v.status = "SUPPORTED" => \A d \in found : d.status = "SUPPORTED"
  BY <1>1 DEF IsVerdictOf
<1> HIDE DEF found, v
<1>7. QED BY <1>2, <1>3, <1>4, <1>5, <1>6 DEF v

(* Verdicts and graph tell the same of every claim.                         *)
THEOREM VerdictsAndGraphAgree == Spec => []VerdictsMatchGraph
BY PipelineInvariant, VerdictsMatchLemma, PTL

LEMMA GraphIsNotNone ==
  ASSUME PipelineInv, Succeeded
  PROVE  graph # None /\ graph.claims = claims
<1>1. graph = BuildGraph(claims, comparisons)
  BY DEF PipelineInv, VerdictsAreWorst
<1>2. \A d \in comparisons :
        d.claim \in ClaimIds /\ d.cites \in Citations /\ d.status \in SemanticStatuses
  BY StatusOfComparison DEF PipelineInv, PipelineTypeOK
<1>3. \A d \in Related(comparisons) : Relationship(d.status) \in Relationships
  BY <1>2, RelationshipNames DEF Relationships, Related, SemanticStatuses
<1>4. \A d \in Related(comparisons) :
        [claim |-> d.claim, cites |-> d.cites, relationship |-> Relationship(d.status)]
          \in [claim : ClaimIds, cites : Citations, relationship : Relationships]
  BY <1>2, <1>3 DEF Related
<1>5. claims \in SUBSET ClaimIds
  BY DEF PipelineInv, PipelineTypeOK
<1>6. BuildGraph(claims, comparisons) \in
        [claims : SUBSET ClaimIds,
         edges : SUBSET [claim : ClaimIds, cites : Citations, relationship : Relationships]]
  BY <1>4, <1>5 DEF BuildGraph
<1>7. graph.claims = claims
  BY <1>1 DEF BuildGraph
<1>8. QED BY <1>1, <1>6, <1>7, NoneIsNoGraph

LEMMA SupportIsEdges ==
  ASSUME PipelineInv, Succeeded, NEW c \in claims
  PROVE  SourcesOf(EdgesOf(graph, c, "SUPPORTS")) = SupportOf(c)
<1>1. EdgesOf(graph, c, "SUPPORTS") =
        {[claim |-> d.claim, cites |-> d.cites, relationship |-> "SUPPORTS"]
           : d \in {x \in Of(c, comparisons) : x.status = "SUPPORTED"}}
  BY EdgesByStatus
<1>2. \A d \in comparisons : d.status = "SUPPORTED" => d.cites.source \in evidence
  BY DEF PipelineInv, FindingsAreSound, NeedsQuotation
<1>3. ASSUME NEW e \in EdgesOf(graph, c, "SUPPORTS")
      PROVE  e.cites.source \in SupportOf(c)
  <2>1. PICK d \in comparisons :
          d.claim = c /\ d.status = "SUPPORTED" /\ e.cites = d.cites
    BY <1>1 DEF Of
  <2>2. QED BY <1>2, <2>1 DEF SupportOf
<1>4. ASSUME NEW s \in SupportOf(c)
      PROVE  \E e \in EdgesOf(graph, c, "SUPPORTS") : e.cites.source = s
  <2>1. PICK d \in comparisons :
          d.claim = c /\ d.status = "SUPPORTED" /\ d.cites.source = s
    BY DEF SupportOf
  <2> DEFINE e == [claim |-> d.claim, cites |-> d.cites, relationship |-> "SUPPORTS"]
  <2>2. d \in {x \in Of(c, comparisons) : x.status = "SUPPORTED"}
    BY <2>1 DEF Of
  <2>3. e \in EdgesOf(graph, c, "SUPPORTS")
    BY <1>1, <2>2
  <2>4. e.cites.source = s
    BY <2>1
  <2>5. QED BY <2>3, <2>4
<1>5. QED BY <1>3, <1>4 DEF SourcesOf

LEMMA ReadyProfile ==
  ASSUME PipelineInv, Ready, NEW k \in DOMAIN profile
  PROVE  CategoryBlockers(profile[k], graph, k) = {}
<1>1. Succeeded
  BY ReadyBaseline DEF Ready, Succeeded
<1>2. ProfileBlockers(profile, graph) = {}
  BY ReadyHasNoBlockers DEF PipelineInv, DecisionIsDerived, Ready
<1>3. UNION {CategoryBlockers(profile[j], graph, j) : j \in DOMAIN profile} = {}
  BY <1>1, <1>2, GraphIsNotNone DEF ProfileBlockers
<1>4. QED BY <1>3

LEMMA NoClaimBlockers ==
  ASSUME NEW rule, NEW g, NEW c, ClaimBlockers(rule, g, c) = {}
  PROVE  SupportBlockers(rule, SourcesOf(EdgesOf(g, c, "SUPPORTS"))) = {}
BY DEF ClaimBlockers

LEMMA NoSupportBlockers ==
  ASSUME NEW rule, NEW sources, SupportBlockers(rule, sources) = {}
  PROVE  /\ ~(Cardinality(sources) < rule.minimum)
         /\ ~(Cardinality(Qualifying(rule, sources)) < rule.authoritative)
<1>1. BlockIf(Cardinality(sources) < rule.minimum,
              "PROFILE_INSUFFICIENT_SUPPORTING_SOURCES") = {}
  BY DEF SupportBlockers
<1>2. BlockIf(Cardinality(Qualifying(rule, sources)) < rule.authoritative,
              "PROFILE_INSUFFICIENT_AUTHORITATIVE_SOURCES") = {}
  BY DEF SupportBlockers
<1>3. ~(Cardinality(sources) < rule.minimum)
  BY <1>1 DEF BlockIf
<1>4. ~(Cardinality(Qualifying(rule, sources)) < rule.authoritative)
  BY <1>2 DEF BlockIf
<1>5. QED BY <1>3, <1>4

LEMMA FiniteSupport ==
  ASSUME PipelineInv, NEW c, NEW rule
  PROVE  IsFiniteSet(SupportOf(c)) /\ IsFiniteSet(Qualifying(rule, SupportOf(c)))
<1>1. IsFiniteSet(OwnSources \cup PublicSources)
  BY SourcesArePartitioned, FS_Union
<1>2. SupportOf(c) \subseteq OwnSources \cup PublicSources
  BY DEF SupportOf, PipelineInv, PipelineTypeOK
<1>3. Qualifying(rule, SupportOf(c)) \subseteq OwnSources \cup PublicSources
  BY <1>2 DEF Qualifying
<1>4. QED BY <1>1, <1>2, <1>3, FS_Subset

LEMMA ReadyMeetsLemma == PipelineInv => ReadyMeetsProfile
<1> SUFFICES ASSUME PipelineInv, Ready, NEW k \in DOMAIN profile
             PROVE  LET members == {c \in claims : CategoryOf[c] = k}
                    IN /\ profile[k].critical => members # {}
                       /\ \A c \in members :
                            /\ Cardinality(SupportOf(c)) >= profile[k].minimum
                            /\ Cardinality(Qualifying(profile[k], SupportOf(c)))
                                 >= profile[k].authoritative
  BY DEF ReadyMeetsProfile
<1> DEFINE members == {c \in claims : CategoryOf[c] = k}
           rule == profile[k]
<1>1. Succeeded
  BY ReadyBaseline DEF Ready, Succeeded
<1>2. CategoryBlockers(rule, graph, k) = {}
  BY ReadyProfile
<1>3. graph.claims = claims
  BY <1>1, GraphIsNotNone
<1>4. rule.critical => members # {}
  BY <1>2, <1>3 DEF CategoryBlockers
<1>5. ASSUME NEW c \in members
      PROVE  /\ Cardinality(SupportOf(c)) >= rule.minimum
             /\ Cardinality(Qualifying(rule, SupportOf(c))) >= rule.authoritative
  <2>1. ClaimBlockers(rule, graph, c) = {}
    BY <1>2, <1>3 DEF CategoryBlockers
  <2>2. SupportBlockers(rule, SupportOf(c)) = {}
    BY <1>1, <2>1, NoClaimBlockers, SupportIsEdges
  <2>3. /\ ~(Cardinality(SupportOf(c)) < rule.minimum)
        /\ ~(Cardinality(Qualifying(rule, SupportOf(c))) < rule.authoritative)
    BY <2>2, NoSupportBlockers
  <2>4. rule.minimum \in Nat /\ rule.authoritative \in Nat
    BY ProfilesAreRules DEF PipelineInv, PipelineTypeOK, Rules
  <2>5. Cardinality(SupportOf(c)) \in Nat /\ Cardinality(Qualifying(rule, SupportOf(c))) \in Nat
    BY FiniteSupport, FS_CardinalityType
  <2>6. QED BY <2>3, <2>4, <2>5
<1>6. QED BY <1>4, <1>5

(* A ready run has the distinct and the qualifying sources its profile asks *)
(* for.                                                                     *)
THEOREM ReadyRunsMeetTheirProfile == Spec => []ReadyMeetsProfile
BY PipelineInvariant, ReadyMeetsLemma, PTL

-----------------------------------------------------------------------------
(* Who votes: the public sources cited about a claim were found by the one  *)
(* search for it.                                                           *)

FromOneSearch(found) ==
  \A d, e \in found :
    /\ d.claim = e.claim
    /\ d.cites.source \in PublicSources /\ e.cites.source \in PublicSources
    => /\ d.claim \in enriched
       /\ HostOf[d.cites.source] = HostOf[e.cites.source] => d.cites.source = e.cites.source

VotesInv == FromOneSearch(comparisons)

LEMMA CitedSource ==
  ASSUME PipelineInv, NEW d \in comparisons, d.cites.source \in PublicSources
  PROVE  d.cites.source \in evidence
BY NoneIsNoReference, PagesAreSources DEF PipelineInv, FindingsAreSound, CitesSource

(* Before the first search nothing public is cited.                         *)
LEMMA EarlyVotes ==
  ASSUME PipelineInv, CompareEvidence
  PROVE  VotesInv'
<1>1. evidence = OwnSources /\ evidence' = evidence
  BY DEF CompareEvidence, SemanticFailure, PipelineInv, NothingIsFoundEarly
<1>2. PipelineInv'
  BY ComparisonKeeps
<1>3. ASSUME NEW d \in comparisons'
      PROVE  d.cites.source \notin PublicSources
  <2>1. CitesSource(d.cites) => d.cites.source \in evidence'
    BY <1>2, <1>3 DEF PipelineInv, FindingsAreSound
  <2>2. d.cites.source # None => d.cites.source \in OwnSources
    BY <1>1, <2>1 DEF CitesSource
  <2>3. QED BY <2>2, SourcesArePartitioned, NoneIsNoReference, PagesAreSources
<1>4. QED BY <1>3 DEF VotesInv, FromOneSearch

LEMMA SearchVotes ==
  ASSUME PipelineInv, VotesInv, NEW c \in ClaimIds, Enrich(c)
  PROVE  VotesInv'
<1>1. PICK found \in Discoveries \cap SUBSET PublicSources, results \in SUBSET Comparisons :
           /\ ClaimsOf(results) = {c}
           /\ \A d \in results : ReferenceIsValid(d, found)
           /\ comparisons' = Retained(c) \cup results
  BY EnrichmentFacts
<1>2. c \notin enriched /\ enriched' = enriched \cup {c}
  BY DEF Enrich, Searchable
<1>3. ASSUME NEW d \in results, d.cites.source \in PublicSources
      PROVE  d.claim = c /\ d.cites.source \in found
  <2>1. CitesSource(d.cites)
    BY <1>3, NoneIsNoReference, PagesAreSources DEF CitesSource
  <2>2. QED BY <1>1, <2>1, ValidReference DEF ClaimsOf
<1>4. ASSUME NEW d \in Retained(c), d.cites.source \in PublicSources
      PROVE  d \in comparisons /\ d.claim # c /\ d.claim \in enriched
  BY <1>2, <1>4, RetainedIsSubset DEF VotesInv, FromOneSearch
<1>5. ASSUME NEW d \in comparisons', NEW e \in comparisons', d.claim = e.claim,
             d.cites.source \in PublicSources, e.cites.source \in PublicSources
      PROVE  /\ d.claim \in enriched'
             /\ HostOf[d.cites.source] = HostOf[e.cites.source] =>
                  d.cites.source = e.cites.source
  <2>1. CASE d.claim = c
    <3>1. d.cites.source \in found /\ e.cites.source \in found
      BY <1>1, <1>3, <1>4, <1>5, <2>1
    <3>2. QED BY <1>2, <2>1, <3>1, AcceptedPages
  <2>2. CASE d.claim # c
    <3>1. d \in comparisons /\ e \in comparisons
      BY <1>1, <1>3, <1>4, <1>5, <2>2
    <3>2. QED BY <1>2, <1>5, <3>1 DEF VotesInv, FromOneSearch
  <2>3. QED BY <2>1, <2>2
<1>6. QED BY <1>5 DEF VotesInv, FromOneSearch

LEMMA VotesInvariant == Spec => []VotesInv
<1>1. Init => VotesInv
  BY DEF Init, VotesInv, FromOneSearch
<1>2. PipelineInv /\ VotesInv /\ [Next]_vars => VotesInv'
  <2> SUFFICES ASSUME PipelineInv, VotesInv, [Next]_vars
               PROVE  VotesInv'
    OBVIOUS
  <2>1. CASE CompareEvidence
    BY <2>1, EarlyVotes
  <2>2. CASE \E c \in ClaimIds : Enrich(c)
    BY <2>2, SearchVotes
  <2>3. CASE SemanticFailure /\ enriched' = enriched
    BY <2>3 DEF SemanticFailure, VotesInv, FromOneSearch
  <2>4. CASE UNCHANGED <<comparisons, enriched>>
    BY <2>4 DEF VotesInv, FromOneSearch
  <2>5. QED BY <2>1, <2>2, <2>3, <2>4
        DEF Next, vars, stageVars, HashArtifact, ExtractText, ExtractClaims, Decide,
            Abort, ArtifactChanges, SemanticFailure
<1>3. QED BY <1>1, <1>2, PipelineInvariant, PTL DEF Spec

(* A source that counts as internal is one the run was started with.        *)
LEMMA InternalIsOwn ==
  ASSUME PipelineInv, NEW c, NEW rule, rule.qualifying \subseteq Internal
  PROVE  Qualifying(rule, SupportOf(c)) \subseteq SupportOf(c) \cap OwnSources
<1>1. ASSUME NEW s \in PublicSources
      PROVE  AuthorityOf(s) \notin rule.qualifying
  BY <1>1 DEF AuthorityOf, ClassifiedAuthority, Internal
<1>2. SupportOf(c) \subseteq OwnSources \cup PublicSources
  BY DEF SupportOf, PipelineInv, PipelineTypeOK
<1>3. QED BY <1>1, <1>2 DEF Qualifying

LEMMA InternalSupport ==
  ASSUME PipelineInv, Ready, NEW k \in DOMAIN profile,
         profile[k].qualifying \subseteq Internal,
         NEW c \in claims, CategoryOf[c] = k
  PROVE  Cardinality(SupportOf(c) \cap OwnSources) >= profile[k].authoritative
<1> DEFINE qualifying == Qualifying(profile[k], SupportOf(c))
           own == SupportOf(c) \cap OwnSources
<1>1. Cardinality(qualifying) >= profile[k].authoritative
  BY ReadyMeetsLemma DEF ReadyMeetsProfile
<1>2. qualifying \subseteq own
  BY InternalIsOwn
<1>3. IsFiniteSet(own)
  BY FiniteSupport, FS_Subset
<1>4. Cardinality(qualifying) <= Cardinality(own)
  BY <1>2, <1>3, FS_Subset
<1>5. /\ Cardinality(qualifying) \in Nat /\ Cardinality(own) \in Nat
      /\ profile[k].authoritative \in Nat
  BY <1>2, <1>3, FS_Subset, FS_CardinalityType, ProfilesAreRules
     DEF PipelineInv, PipelineTypeOK, Rules
<1> HIDE DEF qualifying, own
<1>6. Cardinality(own) >= profile[k].authoritative
  BY <1>1, <1>4, <1>5
<1>7. QED BY <1>6 DEF own

(* The public supporters of a claim are of different hosts, and none of     *)
(* them stands in for an internal source.                                   *)
THEOREM PublicVotesLimited == Spec => []PublicVotesAreLimited
<1>1. PipelineInv /\ VotesInv => PublicVotesAreLimited
  <2> SUFFICES ASSUME PipelineInv, VotesInv
               PROVE  PublicVotesAreLimited
    OBVIOUS
  <2>1. \A c \in claims : \A s, t \in SupportOf(c) \cap PublicSources :
          HostOf[s] = HostOf[t] => s = t
    BY DEF SupportOf, VotesInv, FromOneSearch
  <2>2. QED BY <2>1, InternalSupport DEF PublicVotesAreLimited
<1>2. QED BY <1>1, PipelineInvariant, VotesInvariant, PTL

LEMMA SoundVerdict ==
  ASSUME PipelineInv, Succeeded, NEW c \in claims
  PROVE  /\ snapshot.verdicts[c].status \in SemanticStatuses
         /\ QuotationBlockers(snapshot.verdicts[c], evidence) = {}
<1> DEFINE v == snapshot.verdicts[c]
           found == Of(c, comparisons)
<1>1. IsVerdictOf(v, found)
  BY SucceededVerdicts
<1>2. CASE found = {}
  <2>1. v.status = "UNCERTAIN" /\ ~CitesSource(v.cites)
    BY <1>1, <1>2 DEF IsVerdictOf
  <2>2. ~NeedsQuotation(v.status)
    BY <2>1 DEF NeedsQuotation
  <2>3. QED BY <2>1, <2>2 DEF QuotationBlockers, BlockIf, SemanticStatuses
<1>3. CASE found # {}
  <2>1. \A d \in found : d.status \in SemanticStatuses /\ d \in comparisons
    BY SubsetOf, StatusOfComparison DEF PipelineInv, PipelineTypeOK
  <2>2. v \in found
    BY <1>1, <1>3, <2>1, WorstIsWorst DEF IsVerdictOf
  <2>3. /\ NeedsQuotation(v.status) => CitesSource(v.cites)
        /\ CitesSource(v.cites) =>
             CitesWords(v.cites) /\ v.cites.source \in evidence /\ Verbatim(v)
    BY <2>1, <2>2 DEF PipelineInv, FindingsAreSound
  <2>4. QED BY <2>1, <2>2, <2>3 DEF QuotationBlockers, BlockIf
<1>4. QED BY <1>2, <1>3

LEMMA IdleLemma == PipelineInv => QuotationChecksStayIdle
<1> DEFINE Codes == {"MISSING_EVIDENCE_QUOTATION", "UNKNOWN_EVIDENCE_SOURCE",
                     "EVIDENCE_QUOTATION_NOT_FOUND", "EVIDENCE_HASH_CHANGED"}
<1> SUFFICES ASSUME PipelineInv, stage = "DONE", NEW code \in decision.baseline,
                    code \in Codes
             PROVE  FALSE
  BY DEF QuotationChecksStayIdle
<1>1. code \in BaselineBlockers(claims, evidence, snapshot, decision.pdf)
  BY DEF PipelineInv, DecisionIsDerived
<1>2. snapshot.evidence = evidence
  BY DEF PipelineInv, VerdictsAreWorst, FailureHasNoFindings, Succeeded
<1>3. \A c \in claims \cap DOMAIN snapshot.verdicts :
        /\ snapshot.verdicts[c].status \in SemanticStatuses
        /\ QuotationBlockers(snapshot.verdicts[c], evidence) = {}
  <2>1. CASE Succeeded
    BY <2>1, SoundVerdict
  <2>2. CASE ~Succeeded
    <3>1. snapshot.verdicts = <<>>
      BY <2>2 DEF PipelineInv, FailureHasNoFindings, Succeeded
    <3>2. QED BY <3>1
  <2>3. QED BY <2>1, <2>2
<1>4. code \notin BlockIf(~snapshot.succeeded, "VERIFICATION_FAILED")
  BY DEF BlockIf
<1>5. code \notin BlockIf(snapshot.pdf # decision.pdf, "PDF_HASH_CHANGED")
  BY DEF BlockIf
<1>6. code \notin BlockIf(snapshot.evidence # evidence, "EVIDENCE_HASH_CHANGED")
  BY <1>2 DEF BlockIf
<1>7. code \notin CriticalBlockers(claims, snapshot.verdicts)
  <2>1. code \notin BlockIf({c \in claims : IsCritical(c)} \ DOMAIN snapshot.verdicts # {},
                            "MISSING_CRITICAL_VERIFICATION")
    BY DEF BlockIf
  <2>2. ASSUME NEW status \in SemanticStatuses, status # "SUPPORTED"
        PROVE  CriticalBlocker(status) # code
    BY <2>2 DEF CriticalBlocker, SemanticStatuses
  <2>3. QED BY <1>3, <2>1, <2>2 DEF CriticalBlockers
<1>8. code \notin UNION {QuotationBlockers(snapshot.verdicts[c], evidence) :
                           c \in claims \cap DOMAIN snapshot.verdicts}
  BY <1>3
<1> HIDE DEF Codes
<1>9. QED BY <1>1, <1>4, <1>5, <1>6, <1>7, <1>8 DEF BaselineBlockers

(* The engine's validation leaves the policy's quotation checks nothing to  *)
(* find.                                                                    *)
THEOREM QuotationChecksIdle == Spec => []QuotationChecksStayIdle
BY PipelineInvariant, IdleLemma, PTL

-----------------------------------------------------------------------------
(* The stages implement RunDecisions.                                       *)

(* What was read is known from the first stage to the decision, which it is *)
(* still compared with; no search comes before the decision.                *)
ReadingInv ==
  /\ stage = "HASH" => verified = None
  /\ stage \in {"EXTRACT", "CLAIMS", "COMPARE", "DECIDE"} => verified \in Pdfs
  /\ stage = "DECIDE" => snapshot.pdf = verified /\ enriched = {}
  /\ stage = "DONE" => decision.pdf \in Pdfs

LEMMA FailureReads ==
  ASSUME PipelineInv, ReadingInv, SemanticFailure, stage \in {"EXTRACT", "CLAIMS", "COMPARE"}
  PROVE  ReadingInv'
BY DEF PipelineInv, NothingIsFoundEarly, ReadingInv, SemanticFailure, FailedSnapshot

LEMMA ComparisonReads ==
  ASSUME PipelineInv, ReadingInv, CompareEvidence
  PROVE  ReadingInv'
<1>1. CASE SemanticFailure
  BY <1>1, FailureReads DEF CompareEvidence
<1>2. CASE ~SemanticFailure
  <2>1. PICK verdicts : stage' = "DECIDE" /\ snapshot' = Snapshot(verified, evidence, verdicts)
                        /\ UNCHANGED <<verified, enriched>>
    BY <1>2 DEF CompareEvidence
  <2> QED
    BY <2>1 DEF CompareEvidence, PipelineInv, NothingIsFoundEarly, ReadingInv, Snapshot
<1> QED
  BY <1>1, <1>2

LEMMA ReadingInvariant == Spec => []ReadingInv
<1>1. Init => ReadingInv
  BY DEF Init, ReadingInv
<1>2. PipelineInv /\ ReadingInv /\ [Next]_vars => ReadingInv'
  <2> SUFFICES ASSUME PipelineInv, ReadingInv, [Next]_vars
               PROVE  ReadingInv'
    OBVIOUS
  <2>1. CASE HashArtifact \/ Abort \/ ArtifactChanges
    BY <2>1 DEF HashArtifact, Abort, ArtifactChanges, stageVars, PipelineInv, PipelineTypeOK,
                ReadingInv
  <2>2. CASE ExtractText \/ ExtractClaims
    <3>1. CASE SemanticFailure
      BY <2>2, <3>1, FailureReads DEF ExtractText, ExtractClaims
    <3>2. CASE ~SemanticFailure
      BY <2>2, <3>2 DEF ExtractText, ExtractClaims, ReadingInv
    <3> QED
      BY <3>1, <3>2
  <2>3. CASE CompareEvidence
    BY <2>3, ComparisonReads
  <2>4. CASE Decide
    BY <2>4 DEF Decide, Decided, PipelineInv, PipelineTypeOK, ReadingInv
  <2>5. ASSUME NEW c \in ClaimIds, Enrich(c)
        PROVE  ReadingInv'
    <3>1. decision'.pdf = disk
      BY <2>5, EnrichmentFacts DEF Decided
    <3> QED
      BY <2>5, <3>1 DEF Enrich, Searchable, PipelineInv, PipelineTypeOK, ReadingInv
  <2>6. CASE UNCHANGED vars
    BY <2>6 DEF vars, stageVars, ReadingInv
  <2> QED
    BY <2>1, <2>2, <2>3, <2>4, <2>5, <2>6 DEF Next
<1> QED
  BY <1>1, <1>2, PipelineInvariant, PTL DEF Spec

LEMMA OutcomeIsOne ==
  ASSUME NEW baseline, NEW profiled, NEW pdf
  PROVE  /\ Decided(baseline, profiled, pdf).outcome \in Run!Outcomes
         /\ Decided(baseline, profiled, pdf).pdf = pdf
         /\ Decided(baseline, profiled, pdf).outcome = "READY_FOR_APPROVAL" => baseline = {}
BY DEF Decided, OutcomeOf, EffectiveBlockers, Run!Outcomes

(* The verdicts of a succeeded run are a function on its claims.            *)
Statuses == [c \in claims |-> snapshot.verdicts[c].status]

LEMMA StatusesAreVerdicts ==
  ASSUME PipelineInv, Succeeded
  PROVE  /\ Statuses \in [claims -> SemanticStatuses]
         /\ Statuses # None
         /\ Statuses \in UNION {[S -> SemanticStatuses] : S \in SUBSET ClaimIds}
<1>1. Statuses \in [claims -> SemanticStatuses]
  BY SoundVerdict DEF Statuses
<1>2. claims \in SUBSET ClaimIds
  BY DEF PipelineInv, PipelineTypeOK
<1>3. Statuses # None
  BY <1>1, <1>2, NoneIsNoDecision
<1> DEFINE maps == {[S -> SemanticStatuses] : S \in SUBSET ClaimIds}
<1>4. [claims -> SemanticStatuses] \in maps
  BY <1>2
<1> HIDE DEF maps
<1>5. Statuses \in UNION maps
  BY <1>1, <1>4
<1> QED
  BY <1>1, <1>3, <1>5 DEF maps

(* The abstract decision as an explicit record, in and out of the set.      *)
LEMMA DecisionRecord ==
  ASSUME NEW verdicts \in (UNION {[S -> SemanticStatuses] : S \in SUBSET ClaimIds}) \cup {None},
         NEW unclear \in SUBSET ClaimIds, NEW searched \in SUBSET ClaimIds,
         NEW pdf \in Pdfs, NEW outcome \in Run!Outcomes
  PROVE  LET d == [verdicts |-> verdicts, ambiguous |-> unclear, searched |-> searched,
                   pdf |-> pdf, outcome |-> outcome]
         IN d \in Run!DecisionsInForce /\ d # None
<1> DEFINE maps == (UNION {[S -> SemanticStatuses] : S \in SUBSET ClaimIds}) \cup {None}
           d == [verdicts |-> verdicts, ambiguous |-> unclear, searched |-> searched,
                 pdf |-> pdf, outcome |-> outcome]
<1>1. verdicts \in maps
  OBVIOUS
<1>2. /\ Run!DecisionsInForce =
           [verdicts : maps, ambiguous : SUBSET ClaimIds, searched : SUBSET ClaimIds,
            pdf : Pdfs, outcome : Run!Outcomes]
      /\ None \notin Run!DecisionsInForce
  BY NoneIsNoDecision
  DEF Run!DecisionsInForce, Run!Verdicts, Run!Outcomes, SemanticStatuses
<1> HIDE DEF maps
<1>3. d \in [verdicts : maps, ambiguous : SUBSET ClaimIds, searched : SUBSET ClaimIds,
             pdf : Pdfs, outcome : Run!Outcomes]
  BY <1>1
<1> QED
  BY <1>2, <1>3

(* The first decision, about the stages' verdicts and the bytes on disk.    *)
LEMMA DecideVerifies ==
  ASSUME PipelineInv, ReadingInv, Decide
  PROVE  Run!Verify
<1>1. /\ stage = "DECIDE" /\ stage' = "DONE"
      /\ UNCHANGED <<disk, ambiguous, claims, snapshot, comparisons, enriched>>
      /\ decision' = Decided(BaselineBlockers(claims, evidence, snapshot, disk),
                             ProfileBlockers(profile, graph), disk)
  BY DEF Decide, stageVars
<1>2. BeingVerified = verified /\ BeingVerified' = None /\ InForce = None
  BY <1>1 DEF BeingVerified, InForce
<1>3. verified # None /\ snapshot.pdf = verified /\ enriched = {}
  BY <1>1, NoneIsNoDecision DEF ReadingInv
<1> DEFINE verdicts == IF snapshot.succeeded THEN Statuses ELSE None
           unclear == IF snapshot.succeeded THEN {c \in claims : IsAmbiguous(c)} ELSE {}
           d == [verdicts |-> verdicts, ambiguous |-> unclear, searched |-> {},
                 pdf |-> disk, outcome |-> decision'.outcome]
<1>4. /\ decision'.pdf = disk /\ decision'.outcome \in Run!Outcomes
      /\ decision'.outcome = "READY_FOR_APPROVAL" =>
           BaselineBlockers(claims, evidence, snapshot, disk) = {}
  BY <1>1, OutcomeIsOne
<1>5. InForce' = d
  <2>1. Statuses' = Statuses /\ \A c : IsAmbiguous(c)' = IsAmbiguous(c)
    BY <1>1 DEF Statuses, IsAmbiguous
  <2>2. InForce' = [verdicts |-> IF snapshot'.succeeded THEN Statuses' ELSE None,
                    ambiguous |-> IF snapshot'.succeeded
                                  THEN {c \in claims' : IsAmbiguous(c)'} ELSE {},
                    searched |-> enriched', pdf |-> decision'.pdf,
                    outcome |-> decision'.outcome]
    BY <1>1 DEF InForce, Statuses
  <2> QED
    BY <1>1, <1>3, <1>4, <2>1, <2>2
<1>6. snapshot.succeeded => Succeeded
  BY <1>1 DEF Succeeded
<1>7. d \in Run!DecisionsInForce
  <2>1. verdicts \in (UNION {[S -> SemanticStatuses] : S \in SUBSET ClaimIds}) \cup {None}
    BY <1>6, StatusesAreVerdicts
  <2>2. unclear \in SUBSET ClaimIds /\ disk \in Pdfs
    BY DEF PipelineInv, PipelineTypeOK
  <2> HIDE DEF verdicts, unclear
  <2> QED
    BY <1>4, <2>1, <2>2, DecisionRecord
<1>8. ASSUME NEW c \in unclear
      PROVE  c \in DOMAIN verdicts /\ verdicts[c] = "UNCERTAIN"
  <2>1. snapshot.succeeded /\ c \in claims /\ IsAmbiguous(c)
    BY <1>8
  <2>2. Of(c, comparisons) = {}
    BY <1>1, <1>3, <2>1 DEF PipelineInv, AmbiguousHaveNoFindings
  <2>3. snapshot.verdicts[c].status = "UNCERTAIN"
    BY <1>6, <2>1, <2>2, SucceededVerdicts DEF IsVerdictOf
  <2> QED
    BY <2>1, <2>3 DEF Statuses
<1>9. ASSUME decision'.outcome = "READY_FOR_APPROVAL"
      PROVE  Run!AllSupported(verdicts) /\ disk = verified
  <2>1. /\ snapshot.succeeded /\ snapshot.pdf = disk
        /\ \A c \in claims \cap DOMAIN snapshot.verdicts :
             IsCritical(c) => snapshot.verdicts[c].status = "SUPPORTED"
    BY <1>4, <1>9, NoBaselineBlockers
  <2>2. DOMAIN snapshot.verdicts = claims
    BY <1>6, <2>1 DEF PipelineInv, VerdictsAreWorst
  <2>3. verdicts = Statuses /\ verdicts # None
    BY <1>6, <2>1, StatusesAreVerdicts
  <2> QED
    BY <1>3, <2>1, <2>2, <2>3 DEF Run!AllSupported, Statuses
<1>10. Run!FirstDecision(d, verified)
  <2>1. verdicts = None => unclear = {}
    BY <1>6, StatusesAreVerdicts
  <2>2. d.verdicts = verdicts /\ d.ambiguous = unclear /\ d.searched = {}
        /\ d.pdf = disk /\ d.outcome = decision'.outcome
    OBVIOUS
  <2> HIDE DEF d, verdicts, unclear
  <2> QED
    BY <1>7, <1>8, <1>9, <2>1, <2>2 DEF Run!FirstDecision
<1> QED
  BY <1>2, <1>3, <1>5, <1>10 DEF Run!Verify

(* A search settles its claim: the other verdicts stay, and no other claim  *)
(* may still be without comparisons.                                        *)
LEMMA EnrichSettles ==
  ASSUME PipelineInv, ReadingInv, NEW c \in ClaimIds, Enrich(c)
  PROVE  Run!Settle(c)
<1>1. PICK results \in SUBSET Comparisons :
        /\ ClaimsOf(results) = {c}
        /\ comparisons' = Retained(c) \cup results
        /\ ClaimsOf(comparisons') = claims
        /\ snapshot' = Snapshot(disk, evidence', Project(claims, comparisons'))
        /\ decision' = Decided(BaselineBlockers(claims, evidence', snapshot', disk),
                               ProfileBlockers(profile, graph'), disk)
  BY EnrichmentFacts
<1>2. /\ stage = "DONE" /\ stage' = "DONE"
      /\ c \in claims \ enriched /\ enriched' = enriched \cup {c}
      /\ snapshot.succeeded /\ snapshot'.succeeded
      /\ snapshot.verdicts[c].status \in {"UNSUPPORTED", "UNCERTAIN"}
      /\ Eligible(CategoryOf[c])
      /\ UNCHANGED <<disk, verified, ambiguous, claims>>
  BY <1>1 DEF Enrich, Searchable, Snapshot
<1>3. PipelineInv'
  BY EnrichmentKeeps
<1> DEFINE unclear == {x \in claims : IsAmbiguous(x)}
           verdict == Statuses'[c]
           verdicts == [Statuses EXCEPT ![c] = verdict]
<1>4. InForce = [verdicts |-> Statuses, ambiguous |-> unclear, searched |-> enriched,
                 pdf |-> decision.pdf, outcome |-> decision.outcome]
  BY <1>2 DEF InForce, Statuses
<1>5. InForce' = [verdicts |-> Statuses', ambiguous |-> unclear,
                  searched |-> enriched \cup {c},
                  pdf |-> disk, outcome |-> decision'.outcome]
  <2>1. unclear' = unclear
    BY <1>2 DEF IsAmbiguous
  <2>2. decision'.pdf = disk
    BY <1>1, OutcomeIsOne
  <2>3. InForce' = [verdicts |-> Statuses', ambiguous |-> unclear', searched |-> enriched',
                    pdf |-> decision'.pdf, outcome |-> decision'.outcome]
    BY <1>2 DEF InForce, Statuses
  <2> QED
    BY <1>2, <2>1, <2>2, <2>3
<1>6. /\ Statuses \in [claims -> SemanticStatuses] /\ Statuses # None
      /\ Statuses \in UNION {[S -> SemanticStatuses] : S \in SUBSET ClaimIds}
  BY <1>2, StatusesAreVerdicts DEF Succeeded
<1>7. Statuses' \in [claims -> SemanticStatuses] /\ Statuses' # None
  <2>1. (PipelineInv /\ Succeeded =>
           Statuses \in [claims -> SemanticStatuses] /\ Statuses # None)'
    BY StatusesAreVerdicts, PTL
  <2>2. Succeeded'
    BY <1>2 DEF Succeeded
  <2> QED
    BY <1>2, <1>3, <2>1, <2>2
<1>8. Statuses' = verdicts
  <2>1. \A x \in claims \ {c} : Statuses'[x] = Statuses[x]
    BY <1>2, EnrichmentLocalLemma DEF Statuses
  <2> HIDE DEF verdict
  <2> QED
    BY <1>2, <1>6, <1>7, <2>1 DEF verdict
<1>9. unclear \subseteq enriched \cup {c}
  <2> SUFFICES ASSUME NEW x \in claims, IsAmbiguous(x), x \notin enriched, x # c
               PROVE  FALSE
    OBVIOUS
  <2>1. Of(x, comparisons) = {}
    BY <1>2 DEF PipelineInv, AmbiguousHaveNoFindings
  <2>2. PICK d \in comparisons' : d.claim = x
    BY <1>1 DEF ClaimsOf
  <2>3. d \in comparisons
    BY <1>1, <2>2, RetainedIsSubset DEF ClaimsOf
  <2> QED
    BY <2>1, <2>2, <2>3 DEF Of
<1>10. decision'.outcome \in Run!Outcomes /\ disk \in Pdfs
  BY <1>1, OutcomeIsOne DEF PipelineInv, PipelineTypeOK
<1>11. decision'.outcome = "READY_FOR_APPROVAL" => Run!AllSupported(verdicts)
  <2> SUFFICES ASSUME decision'.outcome = "READY_FOR_APPROVAL"
               PROVE  Run!AllSupported(Statuses')
    BY <1>8
  <2>1. BaselineBlockers(claims, evidence', snapshot', disk) = {}
    BY <1>1, OutcomeIsOne
  <2>2. \A x \in claims \cap DOMAIN snapshot'.verdicts :
          IsCritical(x) => snapshot'.verdicts[x].status = "SUPPORTED"
    BY <2>1, NoBaselineBlockers
  <2>3. DOMAIN snapshot'.verdicts = claims
    BY <1>1 DEF Snapshot, Project
  <2> QED
    BY <1>2, <1>7, <2>2, <2>3 DEF Run!AllSupported, Statuses
<1>12. verdict \in Run!Verdicts
  BY <1>2, <1>7 DEF Run!Verdicts, SemanticStatuses
<1>13. UNCHANGED BeingVerified
  BY <1>2 DEF BeingVerified
<1>14. InForce # None
  <2>1. enriched \in SUBSET ClaimIds /\ unclear \in SUBSET ClaimIds
    BY DEF PipelineInv, PipelineTypeOK
  <2>2. decision.pdf \in Pdfs /\ decision.outcome \in Run!Outcomes
    BY <1>2 DEF ReadingInv, PipelineInv, DecisionIsDerived, OutcomeOf, Run!Outcomes
  <2> HIDE DEF unclear
  <2> QED
    BY <1>4, <1>6, <2>1, <2>2, DecisionRecord
<1>15. c \in ({x \in ClaimIds : Eligible(CategoryOf[x])} \cap DOMAIN Statuses) \ enriched
       /\ Statuses[c] \in {"UNSUPPORTED", "UNCERTAIN"}
  BY <1>2 DEF Statuses
<1>16. /\ InForce.verdicts = Statuses /\ InForce.ambiguous = unclear
       /\ InForce.searched = enriched
  BY <1>4
<1> HIDE DEF verdict, unclear
<1>17. InForce' = [verdicts |-> [InForce.verdicts EXCEPT ![c] = verdict],
                   ambiguous |-> InForce.ambiguous,
                   searched |-> InForce.searched \cup {c},
                   pdf |-> disk, outcome |-> decision'.outcome]
  BY <1>5, <1>8, <1>16
<1> QED
  BY <1>6, <1>9, <1>10, <1>11, <1>12, <1>13, <1>14, <1>15, <1>16, <1>17 DEF Run!Settle

(* Everything before the decision is hidden, but for reading the PDF and    *)
(* giving up.                                                               *)
LEMMA EarlyStagesHidden ==
  ASSUME PipelineInv, ReadingInv, stage \notin {"DECIDE", "DONE"}, [Next]_vars
  PROVE  [Run!DecisionNext]_(Run!decisionVars)
<1>1. InForce = None /\ InForce' = None
  BY DEF InForce, Next, HashArtifact, ExtractText, ExtractClaims, CompareEvidence,
         SemanticFailure, Decide, Abort, ArtifactChanges, Enrich, Searchable, vars
<1>2. CASE HashArtifact
  <2>1. BeingVerified = None /\ BeingVerified' = disk /\ disk \in Pdfs
    BY <1>2 DEF HashArtifact, BeingVerified, ReadingInv, PipelineInv, PipelineTypeOK
  <2> QED
    BY <1>1, <2>1 DEF Run!DecisionNext, Run!ReadPdf
<1>3. CASE Abort
  BY <1>1, <1>3 DEF Abort, BeingVerified, Run!DecisionNext, Run!GiveUp
<1>4. CASE UNCHANGED BeingVerified
  BY <1>1, <1>4 DEF Run!decisionVars
<1>5. ASSUME ~HashArtifact, ~Abort
      PROVE  UNCHANGED BeingVerified
  BY <1>5 DEF BeingVerified, Next, ExtractText, ExtractClaims, CompareEvidence,
              SemanticFailure, Decide, ArtifactChanges, Enrich, Searchable, vars
<1> QED
  BY <1>2, <1>3, <1>4, <1>5

(* Extraction, comparison, policy and searches decide the run as            *)
(* RunDecisions says.                                                       *)
THEOREM PipelineImplementsRunDecisions == Spec => DerivesRunDecisions
<1>1. Init => Run!DecisionInit
  BY DEF Init, Run!DecisionInit, BeingVerified, InForce
<1>2. PipelineInv /\ ReadingInv /\ [Next]_vars => [Run!DecisionNext]_(Run!decisionVars)
  <2> SUFFICES ASSUME PipelineInv, ReadingInv, [Next]_vars, stage \in {"DECIDE", "DONE"}
               PROVE  [Run!DecisionNext]_(Run!decisionVars)
    BY EarlyStagesHidden
  <2>1. CASE Decide
    BY <2>1, DecideVerifies DEF Run!DecisionNext
  <2>2. ASSUME NEW c \in ClaimIds, Enrich(c)
        PROVE  Run!DecisionNext
    BY <2>2, EnrichSettles DEF Run!DecisionNext
  <2>3. CASE Abort
    BY <2>3 DEF Abort, BeingVerified, InForce, Run!DecisionNext, Run!GiveUp
  <2>4. CASE ArtifactChanges \/ UNCHANGED vars
    BY <2>4 DEF ArtifactChanges, vars, stageVars, BeingVerified, InForce, IsAmbiguous,
                Run!decisionVars
  <2> QED
    BY <2>1, <2>2, <2>3, <2>4
    DEF Next, HashArtifact, ExtractText, ExtractClaims, CompareEvidence
<1> QED
  BY <1>1, <1>2, PipelineInvariant, ReadingInvariant, PTL
  DEF Spec, DerivesRunDecisions, Run!DecisionSpec
=============================================================================
