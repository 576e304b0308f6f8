---------------------------- MODULE WorkflowRun ----------------------------
(***************************************************************************)
(* The guarded state machine of one verification run: class WorkflowRun of *)
(* domain/state_machine.py.  A workflow is a record; every public method   *)
(* is a pair of operators, the guard under which the call does not raise   *)
(* InvalidTransitionError and the workflow it leaves behind.  The modules  *)
(* that own workflows (RunControl, WorkflowCalls) compose them.            *)
(*                                                                         *)
(* A binding is what a decision and an approval are compared on: the PDF   *)
(* hash, the evidence hash and the policy version (a build-time constant,  *)
(* so it is left out).  None is Python's None.                             *)
(***************************************************************************)
CONSTANTS
  Contents,     \* the byte contents (equivalently: the hashes) a PDF can have
  EvidenceSets, \* the evidence bundles (equivalently: their hashes)
  None          \* absence of a value

Bindings == [pdf : Contents, evidence : EvidenceSets]

Outcomes == {"READY_FOR_APPROVAL", "BLOCKED"}

Decisions == [binding : Bindings, outcome : Outcomes]

ASSUME NoneIsNoValue ==
  /\ None \notin Contents
  /\ None \notin Bindings
  /\ None \notin Decisions

WorkflowStates ==
  {"CREATED", "GENERATING", "VERIFYING", "BLOCKED", "READY_FOR_APPROVAL",
   "APPROVED", "SENDING", "SENT", "SEND_FAILED"}

Workflows ==
  [state : WorkflowStates, bound : Bindings \cup {None},
   decision : Decisions \cup {None}, approval : Bindings \cup {None}]

NewWorkflow ==
  [state |-> "CREATED", bound |-> None, decision |-> None, approval |-> None]

CanStartGeneration(w) == w.state = "CREATED"
StartGeneration(w) == [w EXCEPT !.state = "GENERATING"]

FaultyCanStartVerification(w) == w.state \in {"GENERATING", "VERIFYING"}

CanStartVerification(w) == w.state = "GENERATING"
StartVerification(w, b) == [w EXCEPT !.state = "VERIFYING", !.bound = b]

FaultyCanApplyPolicy(w, d) == w.state = "VERIFYING"

(* apply_policy refuses a decision about other bytes or other evidence. *)
CanApplyPolicy(w, d) ==
  /\ w.state = "VERIFYING"
  /\ d.binding = w.bound
ApplyPolicy(w, d) == [w EXCEPT !.state = d.outcome, !.decision = d]

FaultyCanApprove(w, a) == w.decision # None /\ a = w.decision.binding

CanApprove(w, a) ==
  /\ w.state = "READY_FOR_APPROVAL"
  /\ w.decision # None
  /\ a = w.decision.binding
FaultyApprove(w, a) == [w EXCEPT !.state = "APPROVED", !.approval = w.decision]
Approve(w, a) == [w EXCEPT !.state = "APPROVED", !.approval = a]

(* start_sending checks the approval against the decision a second time. *)
CanStartSending(w) ==
  /\ w.state = "APPROVED"
  /\ w.decision # None
  /\ w.approval # None
  /\ w.approval = w.decision.binding
StartSending(w) == [w EXCEPT !.state = "SENDING"]

CanFinishSending(w) == w.state = "SENDING"
MarkSent(w) == [w EXCEPT !.state = "SENT"]
FaultyMarkSendFailed(w) == MarkSent(w)
MarkSendFailed(w) == [w EXCEPT !.state = "SEND_FAILED"]

(* The states in which DecisionReceipt expects an approval to exist. *)
ApprovedStates == {"APPROVED", "SENDING", "SENT", "SEND_FAILED"}

(* A workflow taken from creation to its decision in one go, as            *)
(* Phase3Workflow._finish and PublicEvidenceService.enrich_result do.      *)
DecidedWorkflow(d) ==
  ApplyPolicy(StartVerification(StartGeneration(NewWorkflow), d.binding), d)
=============================================================================
