---------------------------- MODULE WorkflowCalls ----------------------------
(***************************************************************************)
(* One WorkflowRun object on its own: any public method called at any time *)
(* with any argument.  A call whose guard does not hold raises and changes *)
(* nothing.  RunControl uses the object in one order only; here every      *)
(* other order is tried too.                                               *)
(***************************************************************************)
EXTENDS WorkflowRun, TLAPS

VARIABLE wf   \* the object

CallsInit == wf = NewWorkflow

CallStartGeneration == CanStartGeneration(wf) /\ wf' = StartGeneration(wf)

CallStartVerification ==
  \E b \in Bindings : CanStartVerification(wf) /\ wf' = StartVerification(wf, b)

CallApplyPolicy ==
  \E d \in Decisions : CanApplyPolicy(wf, d) /\ wf' = ApplyPolicy(wf, d)

CallApprove == \E a \in Bindings : CanApprove(wf, a) /\ wf' = Approve(wf, a)

CallStartSending == CanStartSending(wf) /\ wf' = StartSending(wf)

CallMarkSent == CanFinishSending(wf) /\ wf' = MarkSent(wf)

CallMarkSendFailed == CanFinishSending(wf) /\ wf' = MarkSendFailed(wf)

CallsNext ==
  \/ CallStartGeneration \/ CallStartVerification \/ CallApplyPolicy
  \/ CallApprove \/ CallStartSending \/ CallMarkSent \/ CallMarkSendFailed

CallsSpec == CallsInit /\ [][CallsNext]_wf

-----------------------------------------------------------------------------
(* No order of calls reaches a send of anything but a READY decision about  *)
(* the verified bytes and evidence, under an approval bound to it.          *)
SendIsEarned ==
  wf.state \in {"SENDING", "SENT", "SEND_FAILED"} =>
    /\ wf.decision # None
    /\ wf.decision.outcome = "READY_FOR_APPROVAL"
    /\ wf.approval = wf.decision.binding
    /\ wf.bound = wf.decision.binding

(* A decision, an approval and the verified binding are never replaced.     *)
CallsNeverRewrite ==
  [][/\ wf.bound # None => wf'.bound = wf.bound
     /\ wf.decision # None => wf'.decision = wf.decision
     /\ wf.approval # None => wf'.approval = wf.approval]_wf

(* The inductive invariant: what each state of the machine implies about    *)
(* the object's other fields.                                               *)
CallsInv ==
  /\ wf \in Workflows
  /\ wf.state \in {"CREATED", "GENERATING"} => wf.bound = None
  /\ wf.state \in {"CREATED", "GENERATING", "VERIFYING"} => wf.decision = None
  /\ wf.state \notin ApprovedStates => wf.approval = None
  /\ wf.state \in ApprovedStates \cup {"READY_FOR_APPROVAL"} =>
       /\ wf.decision # None
       /\ wf.decision.outcome = "READY_FOR_APPROVAL"
       /\ wf.bound = wf.decision.binding
  /\ wf.state \in ApprovedStates => wf.approval = wf.decision.binding

-----------------------------------------------------------------------------
LEMMA CallsInitInv == CallsInit => CallsInv
BY DEF CallsInit, CallsInv, NewWorkflow, Workflows, WorkflowStates, ApprovedStates

LEMMA CallsStepInv == CallsInv /\ [CallsNext]_wf => CallsInv'
<1> SUFFICES ASSUME CallsInv, [CallsNext]_wf PROVE CallsInv'
  OBVIOUS
<1> USE DEF CallsInv, Workflows, WorkflowStates, ApprovedStates
<1>1. CASE CallStartGeneration
  BY <1>1 DEF CallStartGeneration, CanStartGeneration, StartGeneration
<1>2. CASE CallStartVerification
  BY <1>2 DEF CallStartVerification, CanStartVerification, StartVerification
<1>3. CASE CallApplyPolicy
  BY <1>3, NoneIsNoValue
  DEF CallApplyPolicy, CanApplyPolicy, ApplyPolicy, Decisions, Outcomes
<1>4. CASE CallApprove
  BY <1>4 DEF CallApprove, CanApprove, Approve
<1>5. CASE CallStartSending
  BY <1>5 DEF CallStartSending, CanStartSending, StartSending
<1>6. CASE CallMarkSent
  BY <1>6 DEF CallMarkSent, CanFinishSending, MarkSent
<1>7. CASE CallMarkSendFailed
  BY <1>7 DEF CallMarkSendFailed, CanFinishSending, MarkSendFailed
<1>8. CASE UNCHANGED wf
  BY <1>8
<1> QED
  BY <1>1, <1>2, <1>3, <1>4, <1>5, <1>6, <1>7, <1>8 DEF CallsNext

LEMMA CallsInvariant == CallsSpec => []CallsInv
BY CallsInitInv, CallsStepInv, PTL DEF CallsSpec

(* Whatever is called in whatever order, only an approved READY decision    *)
(* about what was verified is ever sent.                                    *)
THEOREM OnlyEarnedSends == CallsSpec => []SendIsEarned
<1>1. CallsInv => SendIsEarned
  BY DEF CallsInv, SendIsEarned, ApprovedStates
<1> QED
  BY <1>1, CallsInvariant, PTL

(* No method rewrites what an earlier one bound, decided or approved.       *)
THEOREM NothingIsRewritten == CallsSpec => CallsNeverRewrite
<1>1. CallsInv /\ [CallsNext]_wf =>
        [/\ wf.bound # None => wf'.bound = wf.bound
         /\ wf.decision # None => wf'.decision = wf.decision
         /\ wf.approval # None => wf'.approval = wf.approval]_wf
  BY DEF CallsInv, CallsNext, CallStartGeneration, CanStartGeneration, StartGeneration,
         CallStartVerification, CanStartVerification, StartVerification, CallApplyPolicy,
         CanApplyPolicy, ApplyPolicy, CallApprove, CanApprove, Approve, CallStartSending,
         CanStartSending, StartSending, CallMarkSent, CanFinishSending, MarkSent,
         CallMarkSendFailed, MarkSendFailed, Workflows, WorkflowStates, ApprovedStates
<1> QED
  BY <1>1, CallsInvariant, PTL DEF CallsSpec, CallsNeverRewrite
=============================================================================
