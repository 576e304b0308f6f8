---------------------------- MODULE RunDecisions ----------------------------
(***************************************************************************)
(* How one run is decided, and nothing of how the verdicts come about: a   *)
(* decision on the PDF that was read, then one more for every claim a      *)
(* public search settles, each READY only with every critical claim        *)
(* supported.  It is what RunControl, which schedules the runs, and        *)
(* DecisionPipeline, which derives the verdicts, have in common.           *)
(***************************************************************************)
CONSTANTS
  Contents,  \* the byte contents a PDF can have
  Claims,    \* the claims a run can extract
  Critical,  \* those a READY decision needs SUPPORTED
  EligibleClaims,  \* those public search accepts
  None       \* absence of a value

VARIABLES
  verified,  \* what the run read to verify, None before and after
  decision   \* the decision in force, or None

decisionVars == <<verified, decision>>

Verdicts == {"SUPPORTED", "CONFLICTING", "UNSUPPORTED", "UNCERTAIN"}
Outcomes == {"READY_FOR_APPROVAL", "BLOCKED"}

(* verdicts are those of the claims that were extracted, None when the      *)
(* verification failed; ambiguous are the claims that were left without a   *)
(* comparison; searched are the claims that have public sources.            *)
DecisionsInForce ==
  [verdicts : (UNION {[S -> Verdicts] : S \in SUBSET Claims}) \cup {None},
   ambiguous : SUBSET Claims, searched : SUBSET Claims,
   pdf : Contents, outcome : Outcomes]

AllSupported(verdicts) ==
  /\ verdicts # None
  /\ \A c \in Critical \cap DOMAIN verdicts : verdicts[c] = "SUPPORTED"

DecisionInit == verified = None /\ decision = None

ReadPdf ==
  /\ verified = None /\ decision = None
  /\ verified' \in Contents
  /\ UNCHANGED decision

GiveUp == verified' = None /\ UNCHANGED decision

(* A first decision: only the bytes that were read can be READY, and an     *)
(* ambiguous claim is UNCERTAIN.                                            *)
FirstDecision(d, read) ==
  /\ d \in DecisionsInForce
  /\ d.searched = {}
  /\ d.verdicts = None => d.ambiguous = {}
  /\ \A c \in d.ambiguous : c \in DOMAIN d.verdicts /\ d.verdicts[c] = "UNCERTAIN"
  /\ d.outcome = "READY_FOR_APPROVAL" => AllSupported(d.verdicts) /\ d.pdf = read

Verify ==
  /\ verified # None /\ decision = None
  /\ FirstDecision(decision', verified)
  /\ verified' = None

(* A search settles one open claim, anew and for whatever bytes there are   *)
(* now; no ambiguous claim but that one may still be without sources.       *)
Settle(c) ==
  /\ decision # None /\ decision.verdicts # None
  /\ c \in (EligibleClaims \cap DOMAIN decision.verdicts) \ decision.searched
  /\ decision.verdicts[c] \in {"UNSUPPORTED", "UNCERTAIN"}
  /\ decision.ambiguous \subseteq decision.searched \cup {c}
  /\ \E verdict \in Verdicts, pdf \in Contents, outcome \in Outcomes :
       LET verdicts == [decision.verdicts EXCEPT ![c] = verdict]
       IN /\ outcome = "READY_FOR_APPROVAL" => AllSupported(verdicts)
          /\ decision' = [verdicts |-> verdicts, ambiguous |-> decision.ambiguous,
                          searched |-> decision.searched \cup {c},
                          pdf |-> pdf, outcome |-> outcome]
  /\ UNCHANGED verified

DecisionNext == ReadPdf \/ GiveUp \/ Verify \/ \E c \in Claims : Settle(c)

DecisionSpec == DecisionInit /\ [][DecisionNext]_decisionVars

-----------------------------------------------------------------------------
(* What follows for every run decided this way: READY has every critical    *)
(* claim supported, and an ambiguous claim stays UNCERTAIN until it has     *)
(* been searched for itself.                                                *)
DecisionIsFounded ==
  decision # None =>
    /\ decision.outcome = "READY_FOR_APPROVAL" => AllSupported(decision.verdicts)
    /\ \A c \in decision.ambiguous \ decision.searched :
         c \in DOMAIN decision.verdicts /\ decision.verdicts[c] = "UNCERTAIN"
=============================================================================
