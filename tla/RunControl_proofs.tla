-------------------------- MODULE RunControl_proofs --------------------------
(***************************************************************************)
(* Theorems about RunControl, for any runs, claims and contents.           *)
(***************************************************************************)
EXTENDS RunControl, TLAPS

(* Workflow transitions keep the type and the decision of a workflow.      *)
LEMMA WorkflowSteps ==
  ASSUME NEW w \in Workflows, NEW a \in Bindings
  PROVE  /\ Approve(w, a) \in Workflows /\ Approve(w, a).decision = w.decision
         /\ StartSending(w) \in Workflows /\ StartSending(w).decision = w.decision
         /\ MarkSent(w) \in Workflows /\ MarkSent(w).decision = w.decision
         /\ MarkSendFailed(w) \in Workflows /\ MarkSendFailed(w).decision = w.decision
         /\ Approve(w, a).state = "APPROVED" /\ StartSending(w).state = "SENDING"
         /\ MarkSent(w).state = "SENT" /\ MarkSendFailed(w).state = "SEND_FAILED"
BY DEF Workflows, WorkflowStates, Approve, StartSending, MarkSent, MarkSendFailed

(* A decided workflow is a workflow, in the state of its decision.         *)
LEMMA DecidedWorkflowType ==
  ASSUME NEW d \in Decisions
  PROVE  /\ DecidedWorkflow(d) \in Workflows
         /\ DecidedWorkflow(d).decision = d
         /\ DecidedWorkflow(d).state = d.outcome
         /\ DecidedWorkflow(d).approval = None
BY DEF Decisions, Outcomes, Workflows, WorkflowStates, DecidedWorkflow, ApplyPolicy,
       StartVerification, StartGeneration, NewWorkflow

(* The results that FinishRun and SearchLand build are results.            *)
LEMMA NewResultType ==
  ASSUME NEW verdict \in [Claims -> ClaimStatuses] \cup {None},
         NEW ambiguous \in SUBSET Claims, NEW b \in Bindings, NEW o \in Outcomes
  PROVE  /\ NewResult(verdict, ambiguous, b, o) \in Results
         /\ NewResult(verdict, ambiguous, b, o).workflow.decision =
              [binding |-> b, outcome |-> o]
         /\ NewResult(verdict, ambiguous, b, o).workflow.state = o
         /\ NewResult(verdict, ambiguous, b, o).workflow \in Workflows
<1> DEFINE d == [binding |-> b, outcome |-> o]
<1>1. d \in Decisions
  BY DEF Decisions
<1>2. d # None
  BY <1>1, NoneIsNoValue
<1> QED
  BY <1>1, <1>2, DecidedWorkflowType DEF NewResult, Results

(* The baseline decides one of the two outcomes.                           *)
LEMMA PolicyOutcomeType ==
  ASSUME NEW v, NEW a, NEW b, NEW p
  PROVE  PolicyOutcome(v, a, b, p) \in Outcomes
BY DEF PolicyOutcome, Outcomes

(* Issuing a receipt, or failing to, keeps the ledger well typed.          *)
LEMMA IssueReceiptType ==
  ASSUME LedgerTypeOK, NEW r \in Runs, NEW w \in Workflows, w.decision \in Decisions,
         NEW approval \in Bindings \cup {None}, NEW esign \in ESignStatuses, NEW folder,
         IssueReceipt(r, w, approval, esign, folder)
  PROVE  LedgerTypeOK'
<1> DEFINE new == NewReceipt(r, w, approval, esign)
<1>1. new \in Receipts
  BY DEF NewReceipt, Receipts, Decisions, Workflows, LedgerTypeOK
<1>2. CASE ~ReceiptIsValid(w, approval, esign, folder)
  BY <1>2 DEF IssueReceipt, LedgerTypeOK, ledgerVars
<1>3. CASE ReceiptIsValid(w, approval, esign, folder)
  <2>1. /\ history' = [history EXCEPT ![r] = Append(@, new)]
        /\ receiptCount' = receiptCount + 1
        /\ lastReceipt' = new.hash
        /\ receiptPdf' = [receiptPdf EXCEPT ![r] = None]
        /\ receiptJob' = receiptJob
    BY <1>3 DEF IssueReceipt
  <2>2. history' \in [Runs -> Seq(Receipts)]
    BY <1>1, <2>1 DEF LedgerTypeOK
  <2>3. lastReceipt' \in Nat
    BY <1>1, <2>1 DEF Receipts
  <2> QED
    BY <2>1, <2>2, <2>3 DEF LedgerTypeOK
<1> QED
  BY <1>2, <1>3

(* Replacing the workflow of a result leaves a result.                     *)
LEMMA WithWorkflowType ==
  ASSUME TypeOK, NEW r \in Runs, result[r] # None,
         NEW w \in Workflows, w.decision # None
  PROVE  /\ WithWorkflow(r, w) \in [Runs -> Results \cup {None}]
         /\ WithWorkflow(r, w)[r].workflow = w
         /\ WithWorkflow(r, w)[r] # None
         /\ \A q \in Runs \ {r} : WithWorkflow(r, w)[q] = result[q]
<1>1. result[r] \in Results
  BY DEF TypeOK
<1>2. [result[r] EXCEPT !.workflow = w] \in Results
  BY <1>1 DEF Results
<1>3. WithWorkflow(r, w) = [result EXCEPT ![r] = [result[r] EXCEPT !.workflow = w]]
  BY DEF WithWorkflow
<1>4. /\ WithWorkflow(r, w)[r] = [result[r] EXCEPT !.workflow = w]
      /\ \A q \in Runs \ {r} : WithWorkflow(r, w)[q] = result[q]
      /\ WithWorkflow(r, w) \in [Runs -> Results \cup {None}]
  BY <1>2, <1>3 DEF TypeOK
<1>5. [result[r] EXCEPT !.workflow = w].workflow = w
  BY <1>1 DEF Results
<1> QED
  BY <1>2, <1>4, <1>5, NoneIsNoRunValue

(* What a result of a well-typed state holds.                              *)
LEMMA ResultFields ==
  ASSUME TypeOK, NEW r \in Runs, result[r] # None
  PROVE  /\ result[r] \in Results
         /\ result[r].workflow \in Workflows
         /\ Decision(r) \in Decisions
         /\ Decision(r).binding \in Bindings
         /\ Decision(r).binding.pdf \in Contents
         /\ Decision(r).binding.evidence \in SUBSET Claims
<1>1. result[r] \in Results
  BY DEF TypeOK
<1>2. result[r].workflow \in Workflows /\ result[r].workflow.decision # None
  BY <1>1 DEF Results
<1>3. Decision(r) \in Decisions
  BY <1>2 DEF Decision, Workflows
<1> QED
  BY <1>1, <1>2, <1>3, EvidenceIsPublicClaims DEF Decisions, Bindings

LEMMA InitType == Init => TypeOK
BY DEF Init, LedgerInit, TypeOK, LedgerTypeOK

LEMMA FinishRunType ==
  ASSUME TypeOK, NEW r \in Runs, FinishRun(r)
  PROVE  TypeOK'
<1>1. PICK verdict \in [Claims -> ClaimStatuses] \cup {None},
           ambiguous \in SUBSET Claims, profilePasses \in BOOLEAN :
        LET outcome == PolicyOutcome(verdict, pipeline[r], disk[r], profilePasses)
            new == NewResult(verdict, ambiguous, [pdf |-> disk[r], evidence |-> {}], outcome)
        IN /\ result' = [result EXCEPT ![r] = new]
           /\ IssueReceipt(r, new.workflow, profileApproval[r], "NOT_ATTEMPTED", NoFolder)
  BY DEF FinishRun
<1> DEFINE outcome == PolicyOutcome(verdict, pipeline[r], disk[r], profilePasses)
           b == [pdf |-> disk[r], evidence |-> {}]
           new == NewResult(verdict, ambiguous, b, outcome)
<1>2. b \in Bindings
  <2>1. disk[r] # None
    BY DEF FinishRun
  <2> QED
    BY <2>1, EvidenceIsPublicClaims DEF TypeOK, Bindings
<1>3. outcome \in Outcomes
  BY PolicyOutcomeType
<1>4. /\ new \in Results /\ new.workflow \in Workflows
      /\ new.workflow.decision \in Decisions
  <2> HIDE DEF outcome, b
  <2>1. [binding |-> b, outcome |-> outcome] \in Decisions
    BY <1>2, <1>3 DEF Decisions
  <2> QED
    BY <1>2, <1>3, <2>1, NewResultType
<1>5. profileApproval[r] \in Bindings \cup {None} /\ "NOT_ATTEMPTED" \in ESignStatuses
  BY DEF TypeOK, ESignStatuses
<1>6. IssueReceipt(r, new.workflow, profileApproval[r], "NOT_ATTEMPTED", NoFolder)
  BY <1>1
<1>7. LedgerTypeOK'
  <2> HIDE DEF new
  <2> QED
    BY <1>4, <1>5, <1>6, IssueReceiptType DEF TypeOK
<1>8. result' \in [Runs -> Results \cup {None}]
  BY <1>1, <1>4 DEF TypeOK
<1>9. /\ status' = [status EXCEPT ![r] = "COMPLETE"]
      /\ pipeline' = [pipeline EXCEPT ![r] = None]
      /\ UNCHANGED <<disk, sendAttempted, profileApproval, sendState, attempted,
                     searches, handler, viewed, outbox>>
  BY DEF FinishRun
<1> QED
  BY <1>7, <1>8, <1>9 DEF TypeOK

LEMMA ApproveBeginType ==
  ASSUME TypeOK, NEW r \in Runs, ApproveBegin(r)
  PROVE  TypeOK'
<1> DEFINE a == Decision(r).binding
           w == result[r].workflow
<1>1. result[r] # None
  BY DEF ApproveBegin, SendAllowed, Complete
<1>2. a \in Bindings /\ w \in Workflows /\ w.decision # None
  BY <1>1, ResultFields, NoneIsNoValue DEF Decision
<1>3. Approve(w, a) \in Workflows /\ Approve(w, a).decision # None
  BY <1>2, WorkflowSteps
<1>4. WithWorkflow(r, Approve(w, a)) \in [Runs -> Results \cup {None}]
  BY <1>1, <1>3, WithWorkflowType
<1>5. [run |-> r, approval |-> a, step |-> "APPROVED"] \in Handlers
  BY <1>2 DEF Handlers
<1>6. /\ result' \in [Runs -> Results \cup {None}]
      /\ handler' \in Handlers \cup {None}
  BY <1>4, <1>5 DEF ApproveBegin, TypeOK
<1> QED
  BY <1>6 DEF ApproveBegin, TypeOK, LedgerTypeOK, ledgerVars

LEMMA ApproveRecheckType ==
  ASSUME SendInv, ApproveRecheck
  PROVE  TypeOK'
<1> DEFINE r == handler.run
           w == result[r].workflow
<1>1. handler \in Handlers /\ r \in Runs /\ result[r] # None
  BY DEF ApproveRecheck, SendInv, SendSafety, TypeOK, Handlers, HandlerOwnsRun, Complete
<1>2. w \in Workflows /\ w.decision # None
  BY <1>1, ResultFields, NoneIsNoValue DEF Decision, SendInv
<1>3. WithWorkflow(r, StartSending(w)) \in [Runs -> Results \cup {None}]
  <2>1. StartSending(w) \in Workflows /\ StartSending(w).decision # None
    BY <1>2 DEF Workflows, WorkflowStates, StartSending
  <2> QED
    BY <1>1, <2>1, WithWorkflowType DEF SendInv
<1>4. [handler EXCEPT !.step = "SENDING"] \in Handlers
  BY <1>1 DEF Handlers
<1>5. /\ result' \in [Runs -> Results \cup {None}]
      /\ handler' \in Handlers \cup {None}
  BY <1>3, <1>4 DEF ApproveRecheck, SendInv, TypeOK
<1> QED
  BY <1>5 DEF ApproveRecheck, SendInv, TypeOK, LedgerTypeOK, ledgerVars

(* What the sending step does to run r, whose workflow w ends up as done.  *)
SendEffect(r, w, done, dispatched, succeeded, folder) ==
  /\ handler # None /\ r = handler.run /\ viewed[r] # None
  /\ handler.step = "SENDING"
  /\ result[r] # None /\ w = result[r].workflow
  /\ handler.approval \in Bindings
  /\ done.decision = w.decision /\ w.decision \in Decisions
  /\ done.state = (IF succeeded THEN "SENT" ELSE "SEND_FAILED")
  /\ succeeded => dispatched
  /\ dispatched => disk[r] # None
  /\ result' = WithWorkflow(r, done)
  /\ sendState' = [sendState EXCEPT ![r] = done.state]
  /\ IssueReceipt(r, done, handler.approval, done.state,
                  IF succeeded THEN folder ELSE NoFolder)
  /\ outbox' = IF dispatched
               THEN [outbox EXCEPT ![r] = Append(@,
                      [reviewed |-> viewed[r], approved |-> handler.approval,
                       sent |-> disk[r]])]
               ELSE outbox
  /\ profileApproval' = [profileApproval EXCEPT ![r] = handler.approval]
  /\ handler' = None
  /\ UNCHANGED <<status, pipeline, disk, sendAttempted, attempted, searches, viewed>>

LEMMA ApproveSendEffect ==
  ASSUME SendInv, ApproveSend
  PROVE  \E r \in Runs, w \in Workflows, done \in Workflows, dispatched \in BOOLEAN,
            succeeded \in BOOLEAN, folder \in FolderIds :
           SendEffect(r, w, done, dispatched, succeeded, folder)
<1> DEFINE r == handler.run
           w == result[r].workflow
<1>1. /\ handler # None /\ handler \in Handlers /\ handler.step = "SENDING"
      /\ r \in Runs /\ result[r] # None /\ handler.approval \in Bindings
      /\ viewed[r] # None
  BY DEF ApproveSend, SendInv, SendSafety, TypeOK, Handlers, HandlerOwnsRun, Complete
<1>2. w \in Workflows /\ w.decision \in Decisions
  BY <1>1, ResultFields DEF Decision, SendInv
<1>3. PICK dispatched \in BOOLEAN, succeeded \in BOOLEAN, folder \in FolderIds :
        /\ succeeded => dispatched
        /\ dispatched => disk[r] # None
        /\ LET done == IF succeeded THEN MarkSent(w) ELSE MarkSendFailed(w)
           IN /\ result' = WithWorkflow(r, done)
              /\ sendState' = [sendState EXCEPT ![r] = done.state]
              /\ IssueReceipt(r, done, handler.approval, done.state,
                              IF succeeded THEN folder ELSE NoFolder)
        /\ outbox' = IF dispatched
                     THEN [outbox EXCEPT ![r] = Append(@,
                            [reviewed |-> viewed[r], approved |-> handler.approval,
                             sent |-> disk[r]])]
                     ELSE outbox
        /\ profileApproval' = [profileApproval EXCEPT ![r] = handler.approval]
  BY DEF ApproveSend
<1> DEFINE done == IF succeeded THEN MarkSent(w) ELSE MarkSendFailed(w)
<1>4. /\ done \in Workflows /\ done.decision = w.decision
      /\ done.state = (IF succeeded THEN "SENT" ELSE "SEND_FAILED")
  BY <1>2 DEF Workflows, WorkflowStates, MarkSent, MarkSendFailed
<1>5. /\ handler' = None
      /\ UNCHANGED <<status, pipeline, disk, sendAttempted, attempted, searches, viewed>>
  BY DEF ApproveSend
<1>6. SendEffect(r, w, done, dispatched, succeeded, folder)
  <2>1. /\ result' = WithWorkflow(r, done)
        /\ sendState' = [sendState EXCEPT ![r] = done.state]
        /\ IssueReceipt(r, done, handler.approval, done.state,
                        IF succeeded THEN folder ELSE NoFolder)
    BY <1>3
  <2> HIDE DEF r, w, done
  <2> QED
    BY <1>1, <1>2, <1>3, <1>4, <1>5, <2>1 DEF SendEffect, r, w, done
<1> HIDE DEF r, w, done
<1> QED
  BY <1>1, <1>2, <1>4, <1>6

LEMMA ApproveSendType ==
  ASSUME SendInv, ApproveSend
  PROVE  TypeOK'
<1>1. PICK r \in Runs, w \in Workflows, done \in Workflows, dispatched \in BOOLEAN,
           succeeded \in BOOLEAN, folder \in FolderIds :
             SendEffect(r, w, done, dispatched, succeeded, folder)
  BY ApproveSendEffect
<1>2. LedgerTypeOK'
  <2>1. done.state \in ESignStatuses
    BY <1>1 DEF ESignStatuses, SendEffect
  <2> QED
    BY <1>1, <2>1, IssueReceiptType DEF SendInv, TypeOK, SendEffect
<1>3. result' \in [Runs -> Results \cup {None}]
  <2>1. TypeOK /\ result[r] # None /\ done.decision # None
    BY <1>1, NoneIsNoValue DEF SendInv, SendEffect
  <2>2. WithWorkflow(r, done) \in [Runs -> Results \cup {None}]
    BY <2>1, WithWorkflowType
  <2> QED
    BY <1>1, <2>2 DEF SendEffect
<1>4. outbox' \in [Runs -> Seq(Dispatches)]
  <2>1. CASE ~dispatched
    BY <1>1, <2>1 DEF SendInv, TypeOK, SendEffect
  <2>2. CASE dispatched
    <3> DEFINE new == [reviewed |-> viewed[r], approved |-> handler.approval, sent |-> disk[r]]
    <3>1. viewed[r] \in Bindings /\ disk[r] \in Contents
      BY <1>1, <2>2 DEF SendInv, TypeOK, SendEffect
    <3>2. new \in Dispatches
      BY <1>1, <3>1 DEF Dispatches, SendEffect
    <3>3. outbox' = [outbox EXCEPT ![r] = Append(@, new)]
      BY <1>1, <2>2 DEF SendEffect
    <3> QED
      BY <3>2, <3>3 DEF SendInv, TypeOK
  <2> QED
    BY <2>1, <2>2
<1> QED
  BY <1>1, <1>2, <1>3, <1>4 DEF SendInv, TypeOK, SendEffect

LEMMA SearchBeginType ==
  ASSUME TypeOK, NEW r \in Runs, NEW c \in Claims, SearchBegin(r, c)
  PROVE  TypeOK'
<1> DEFINE s == [claim |-> c, base |-> result[r], pdf |-> None]
<1>1. result[r] # None
  BY DEF SearchBegin, SearchAllowed, Complete
<1>2. result[r].verdict # None => s \in Searches
  BY <1>1, ResultFields DEF Searches
<1>3. searches' \in [Runs -> SUBSET Searches]
  BY <1>2 DEF SearchBegin, TypeOK
<1>4. attempted' \in [Runs -> SUBSET Claims]
  BY DEF SearchBegin, TypeOK
<1> QED
  BY <1>3, <1>4 DEF SearchBegin, TypeOK, LedgerTypeOK, ledgerVars

LEMMA SearchDiscoverType ==
  ASSUME TypeOK, NEW r \in Runs, SearchDiscover(r)
  PROVE  TypeOK'
<1>1. PICK s \in searches[r] : \E left \in AfterDiscovery(s, disk[r]) :
        searches' = [searches EXCEPT ![r] = (@ \ {s}) \cup left]
  BY DEF SearchDiscover
<1>2. s \in Searches
  BY DEF TypeOK
<1>3. \A left \in AfterDiscovery(s, disk[r]) : left \subseteq Searches
  <2>1. CASE disk[r] = None
    BY <2>1 DEF AfterDiscovery
  <2>2. CASE disk[r] # None
    <3>1. [s EXCEPT !.pdf = disk[r]] \in Searches
      BY <1>2, <2>2 DEF Searches, TypeOK
    <3> QED
      BY <3>1 DEF AfterDiscovery
  <2> QED
    BY <2>1, <2>2
<1>4. searches' \in [Runs -> SUBSET Searches]
  BY <1>1, <1>3 DEF TypeOK
<1> QED
  BY <1>4 DEF SearchDiscover, TypeOK, LedgerTypeOK, ledgerVars

(* The result a search builds is a result, in the state of its decision.   *)
LEMMA EnrichedResultType ==
  ASSUME NEW s \in Searches, s.pdf # None, NEW newStatus \in ClaimStatuses,
         NEW profilePasses \in BOOLEAN
  PROVE  LET new == EnrichedResult(s, newStatus, profilePasses)
         IN /\ new \in Results
            /\ new.workflow \in Workflows
            /\ new.workflow.decision \in Decisions
            /\ new.workflow.state = new.workflow.decision.outcome
            /\ new.workflow.decision.binding.evidence =
                 s.base.workflow.decision.binding.evidence \cup {s.claim}
<1> DEFINE verdict == [s.base.verdict EXCEPT ![s.claim] = newStatus]
           old == s.base.workflow.decision.binding.evidence
           b == [pdf |-> s.pdf, evidence |-> old \cup {s.claim}]
           o == PolicyOutcome(verdict, s.pdf, s.pdf, profilePasses)
<1>1. /\ s.base \in Results /\ s.base.verdict # None
      /\ s.claim \in Claims /\ s.pdf \in Contents
  BY DEF Searches
<1>2. verdict \in [Claims -> ClaimStatuses] /\ s.base.ambiguous \in SUBSET Claims
  BY <1>1 DEF Results
<1>3. s.base.workflow.decision \in Decisions
  BY <1>1 DEF Results, Workflows
<1>4. b \in Bindings
  BY <1>1, <1>3, EvidenceIsPublicClaims DEF Decisions, Bindings
<1>5. o \in Outcomes
  BY PolicyOutcomeType
<1>6. EnrichedResult(s, newStatus, profilePasses) =
        NewResult(verdict, s.base.ambiguous, b, o)
  BY DEF EnrichedResult
<1>7. b.evidence = old \cup {s.claim}
  OBVIOUS
<1> HIDE DEF verdict, b, o, old
<1>8. [binding |-> b, outcome |-> o] \in Decisions
  BY <1>4, <1>5 DEF Decisions
<1> QED
  BY <1>2, <1>4, <1>5, <1>6, <1>7, <1>8, NewResultType DEF old

LEMMA SearchLandType ==
  ASSUME TypeOK, NEW r \in Runs, SearchLand(r)
  PROVE  TypeOK'
<1>1. PICK s \in searches[r] :
        /\ s.pdf # None
        /\ searches' = [searches EXCEPT ![r] = @ \ {s}]
        /\ \/ UNCHANGED <<result, ledgerVars>>
           \/ \E newStatus \in ClaimStatuses, profilePasses \in BOOLEAN :
                LET new == EnrichedResult(s, newStatus, profilePasses)
                IN /\ result' = [result EXCEPT ![r] = new]
                   /\ IssueReceipt(r, new.workflow, profileApproval[r],
                                   "NOT_ATTEMPTED", NoFolder)
  BY DEF SearchLand
<1>2. searches' \in [Runs -> SUBSET Searches]
  BY <1>1 DEF TypeOK
<1>3. result' \in [Runs -> Results \cup {None}] /\ LedgerTypeOK'
  <2>1. CASE UNCHANGED <<result, ledgerVars>>
    BY <2>1 DEF TypeOK, LedgerTypeOK, ledgerVars
  <2>2. ASSUME NEW newStatus \in ClaimStatuses, NEW profilePasses \in BOOLEAN,
               NEW new, new = EnrichedResult(s, newStatus, profilePasses),
               result' = [result EXCEPT ![r] = new],
               IssueReceipt(r, new.workflow, profileApproval[r], "NOT_ATTEMPTED", NoFolder)
        PROVE  result' \in [Runs -> Results \cup {None}] /\ LedgerTypeOK'
    <3>1. s \in Searches
      BY DEF TypeOK
    <3>2. /\ new \in Results /\ new.workflow \in Workflows
          /\ new.workflow.decision \in Decisions
      BY <1>1, <2>2, <3>1, EnrichedResultType
    <3>3. LedgerTypeOK /\ profileApproval[r] \in Bindings \cup {None}
      BY DEF TypeOK
    <3>4. "NOT_ATTEMPTED" \in ESignStatuses
      BY DEF ESignStatuses
    <3>5. LedgerTypeOK'
      BY <2>2, <3>2, <3>3, <3>4, IssueReceiptType
    <3> QED
      BY <2>2, <3>2, <3>5 DEF TypeOK
  <2> QED
    BY <1>1, <2>1, <2>2
<1> QED
  BY <1>2, <1>3 DEF SearchLand, TypeOK

-----------------------------------------------------------------------------
(* Type correctness of every step.  Two steps of the approval handler need  *)
(* to know that the run it works on has a result, so the invariant is       *)
(* proved together with SendSafety.                                         *)

LEMMA TypeStep ==
  ASSUME SendInv, [Next]_vars
  PROVE  TypeOK'
<1> USE DEF SendInv
<1>1. ASSUME NEW r \in Runs, StartRun(r) PROVE TypeOK'
  BY <1>1 DEF StartRun, TypeOK, LedgerTypeOK, ledgerVars
<1>2. ASSUME NEW r \in Runs, ReadArtifact(r) PROVE TypeOK'
  BY <1>2 DEF ReadArtifact, TypeOK, LedgerTypeOK, ledgerVars
<1>3. ASSUME NEW r \in Runs, FailRun(r) PROVE TypeOK'
  BY <1>3 DEF FailRun, TypeOK, LedgerTypeOK, ledgerVars
<1>4. ASSUME NEW r \in Runs, ArtifactChanges(r) PROVE TypeOK'
  BY <1>4 DEF ArtifactChanges, TypeOK, LedgerTypeOK, ledgerVars
<1>5. ASSUME NEW r \in Runs, Review(r) PROVE TypeOK'
  <2>1. Decision(r).binding \in Bindings
    BY <1>5, ResultFields DEF Review, Complete
  <2> QED
    BY <1>5, <2>1 DEF Review, TypeOK, LedgerTypeOK, ledgerVars
<1>6. ASSUME NEW r \in Runs, BeginReceiptPdf(r) PROVE TypeOK'
  <2>1. LatestReceipt(r).hash \in Nat
    <3>1. history[r] \in Seq(Receipts) /\ history[r] # <<>>
      BY <1>6 DEF BeginReceiptPdf, StartReceiptPdf, HasReceipt, TypeOK, LedgerTypeOK
    <3>2. history[r][Len(history[r])] \in Receipts
      BY <3>1
    <3> QED
      BY <3>2 DEF LatestReceipt, Receipts
  <2> QED
    BY <1>6, <2>1 DEF BeginReceiptPdf, StartReceiptPdf, runVars, TypeOK, LedgerTypeOK
<1>7. ASSUME NEW r \in Runs, EndReceiptPdf(r) PROVE TypeOK'
  BY <1>7 DEF EndReceiptPdf, FinishReceiptPdf, runVars, TypeOK, LedgerTypeOK
<1>8. CASE UNCHANGED vars
  BY <1>8 DEF vars, runVars, ledgerVars, TypeOK, LedgerTypeOK
<1> QED
  BY <1>1, <1>2, <1>3, <1>4, <1>5, <1>6, <1>7, <1>8, FinishRunType, ApproveBeginType,
     ApproveRecheckType, ApproveSendType, SearchBeginType, SearchDiscoverType,
     SearchLandType
  DEF Next, BackgroundRun, SearchStep, SendStep

-----------------------------------------------------------------------------
(* SendSafety, step by step.                                                *)

(* Steps that leave the approval handler and what it owns alone.            *)
LEMMA UntouchedBySafety ==
  ASSUME SendInv,
         UNCHANGED <<result, handler, sendAttempted, outbox, sendState, profileApproval>>,
         handler # None => UNCHANGED status /\ UNCHANGED viewed
  PROVE  SendSafety'
BY DEF SendInv, SendSafety, HandlerOwnsRun, NothingBeforeAttempt, ReadyIsDecided,
       DispatchIsRecorded, AtMostOneDispatch, Complete, Decision

(* Steps that replace the result of a run while no handler works.           *)
LEMMA NewResultIsSafe ==
  ASSUME SendInv, NEW r \in Runs, NEW new \in Results,
         new.workflow.state = new.workflow.decision.outcome,
         result' = [result EXCEPT ![r] = new], handler = None,
         UNCHANGED <<handler, sendAttempted, outbox, sendState, profileApproval>>
  PROVE  SendSafety'
<1>1. ReadyIsDecided'
  BY DEF SendInv, SendSafety, TypeOK, ReadyIsDecided, Decision
<1> QED
  BY <1>1 DEF SendInv, SendSafety, HandlerOwnsRun, NothingBeforeAttempt,
              DispatchIsRecorded, AtMostOneDispatch

(* The result FinishRun stores.                                            *)
LEMMA FinishRunResult ==
  ASSUME TypeOK, NEW r \in Runs, FinishRun(r)
  PROVE  \E new \in Results :
           /\ result' = [result EXCEPT ![r] = new]
           /\ new.workflow.state = new.workflow.decision.outcome
<1>1. PICK verdict \in [Claims -> ClaimStatuses] \cup {None},
           ambiguous \in SUBSET Claims, profilePasses \in BOOLEAN :
        result' = [result EXCEPT ![r] =
                     NewResult(verdict, ambiguous, [pdf |-> disk[r], evidence |-> {}],
                               PolicyOutcome(verdict, pipeline[r], disk[r], profilePasses))]
  BY DEF FinishRun
<1> DEFINE o == PolicyOutcome(verdict, pipeline[r], disk[r], profilePasses)
           b == [pdf |-> disk[r], evidence |-> {}]
           new == NewResult(verdict, ambiguous, b, o)
<1>2. b \in Bindings
  <2>1. disk[r] # None
    BY DEF FinishRun
  <2> QED
    BY <2>1, EvidenceIsPublicClaims DEF TypeOK, Bindings
<1>3. o \in Outcomes
  BY PolicyOutcomeType
<1>4. result' = [result EXCEPT ![r] = new]
  BY <1>1
<1>5. new \in Results /\ new.workflow.state = new.workflow.decision.outcome
  <2> HIDE DEF o, b
  <2>1. /\ new \in Results /\ new.workflow.state = o
        /\ new.workflow.decision = [binding |-> b, outcome |-> o]
    BY <1>2, <1>3, NewResultType
  <2> HIDE DEF new
  <2> QED
    BY <2>1
<1> HIDE DEF new
<1> QED
  BY <1>4, <1>5

LEMMA FinishRunSafe ==
  ASSUME SendInv, NEW r \in Runs, FinishRun(r)
  PROVE  SendSafety'
<1>1. PICK new \in Results :
        /\ result' = [result EXCEPT ![r] = new]
        /\ new.workflow.state = new.workflow.decision.outcome
  BY FinishRunResult DEF SendInv
<1>2. /\ handler = None
      /\ UNCHANGED <<handler, sendAttempted, outbox, sendState, profileApproval>>
  BY DEF FinishRun, LoopIsFree
<1> QED
  BY <1>1, <1>2, NewResultIsSafe

(* The result SearchLand stores, when it stores one: its evidence is the    *)
(* evidence of the result the search began with, and the searched claim's.  *)
LEMMA SearchLandResult ==
  ASSUME TypeOK, NEW r \in Runs, SearchLand(r), ~UNCHANGED result
  PROVE  \E new \in Results, s \in searches[r] :
           /\ result' = [result EXCEPT ![r] = new]
           /\ new.workflow.state = new.workflow.decision.outcome
           /\ new.workflow.decision.binding.evidence =
                s.base.workflow.decision.binding.evidence \cup {s.claim}
<1>1. PICK s \in searches[r], newStatus \in ClaimStatuses, profilePasses \in BOOLEAN :
        /\ s.pdf # None
        /\ result' = [result EXCEPT ![r] = EnrichedResult(s, newStatus, profilePasses)]
  BY DEF SearchLand
<1> DEFINE new == EnrichedResult(s, newStatus, profilePasses)
<1>2. s \in Searches
  BY DEF TypeOK
<1>3. /\ new \in Results
      /\ new.workflow.state = new.workflow.decision.outcome
      /\ new.workflow.decision.binding.evidence =
           s.base.workflow.decision.binding.evidence \cup {s.claim}
  BY <1>1, <1>2, EnrichedResultType
<1>4. result' = [result EXCEPT ![r] = new]
  BY <1>1
<1> HIDE DEF new
<1> QED
  BY <1>3, <1>4

LEMMA SearchLandSafe ==
  ASSUME SendInv, NEW r \in Runs, SearchLand(r)
  PROVE  SendSafety'
<1>1. /\ handler = None
      /\ UNCHANGED <<handler, status, viewed, sendAttempted, outbox, sendState,
                     profileApproval>>
  BY DEF SearchLand, LoopIsFree
<1>2. CASE UNCHANGED result
  BY <1>1, <1>2, UntouchedBySafety
<1>3. CASE ~UNCHANGED result
  <2>1. PICK new \in Results :
          /\ result' = [result EXCEPT ![r] = new]
          /\ new.workflow.state = new.workflow.decision.outcome
    BY <1>3, SearchLandResult DEF SendInv
  <2> QED
    BY <1>1, <2>1, NewResultIsSafe
<1> QED
  BY <1>2, <1>3

LEMMA ApproveBeginSafe ==
  ASSUME SendInv, NEW r \in Runs, ApproveBegin(r)
  PROVE  SendSafety'
<1> DEFINE a == Decision(r).binding
           w == result[r].workflow
<1>1. /\ result[r] # None /\ ~sendAttempted[r] /\ handler = None /\ viewed[r] # None
      /\ Complete(r) /\ w.state = "READY_FOR_APPROVAL"
  BY DEF ApproveBegin, SendAllowed, Complete, LoopIsFree
<1>2. /\ sendAttempted' = [sendAttempted EXCEPT ![r] = TRUE]
      /\ UNCHANGED <<status, viewed, outbox, sendState, profileApproval>>
  BY DEF ApproveBegin
<1>3. outbox[r] = <<>> /\ sendState[r] = None /\ profileApproval[r] = None
  BY <1>1 DEF SendInv, SendSafety, NothingBeforeAttempt
<1>4. NothingBeforeAttempt' /\ DispatchIsRecorded' /\ AtMostOneDispatch'
  BY <1>2 DEF SendInv, SendSafety, TypeOK, NothingBeforeAttempt, DispatchIsRecorded,
              AtMostOneDispatch
<1>5. CASE UNCHANGED <<result, handler>>
  BY <1>1, <1>4, <1>5 DEF SendInv, SendSafety, HandlerOwnsRun, ReadyIsDecided, Decision
<1>6. CASE /\ result' = WithWorkflow(r, Approve(w, a))
           /\ handler' = [run |-> r, approval |-> a, step |-> "APPROVED"]
  <2> DEFINE n == Approve(w, a)
  <2>1. w \in Workflows /\ w.decision \in Decisions /\ a \in Bindings
    BY <1>1, ResultFields DEF SendInv, Decision
  <2>2. /\ n \in Workflows /\ n.decision = w.decision /\ n.decision # None
        /\ n.state = "APPROVED"
    BY <2>1, NoneIsNoValue DEF Workflows, WorkflowStates, Approve
  <2>8. result' = WithWorkflow(r, n)
    BY <1>6
  <2> HIDE DEF n
  <2>3. /\ result'[r].workflow = n /\ result'[r] # None
        /\ \A q \in Runs \ {r} : result'[q] = result[q]
    BY <1>1, <2>2, <2>8, WithWorkflowType DEF SendInv
  <2>4. w.decision.outcome = "READY_FOR_APPROVAL"
    BY <1>1 DEF SendInv, SendSafety, ReadyIsDecided, Decision
  <2>5. ReadyIsDecided'
    BY <2>2, <2>3 DEF SendInv, SendSafety, ReadyIsDecided, Decision
  <2>6. sendAttempted'[r]
    BY <1>2 DEF SendInv, TypeOK
  <2>7. HandlerOwnsRun'
    BY <1>1, <1>2, <1>3, <1>6, <2>2, <2>3, <2>4, <2>6
    DEF HandlerOwnsRun, Complete, Decision
  <2> QED
    BY <1>4, <2>5, <2>7 DEF SendSafety
<1> QED
  BY <1>5, <1>6 DEF ApproveBegin

LEMMA ApproveRecheckSafe ==
  ASSUME SendInv, ApproveRecheck
  PROVE  SendSafety'
<1> DEFINE r == handler.run
           w == result[r].workflow
           n == StartSending(w)
<1>1. /\ handler # None /\ handler \in Handlers /\ r \in Runs /\ result[r] # None
      /\ HandlerOwnsRun
  BY DEF ApproveRecheck, SendInv, SendSafety, TypeOK, Handlers, HandlerOwnsRun, Complete
<1>2. UNCHANGED <<status, viewed, sendAttempted, outbox, sendState, profileApproval>>
  BY DEF ApproveRecheck
<1>3. NothingBeforeAttempt' /\ DispatchIsRecorded' /\ AtMostOneDispatch'
  BY <1>2 DEF SendInv, SendSafety, NothingBeforeAttempt, DispatchIsRecorded,
              AtMostOneDispatch
<1>4. CASE handler' = None /\ UNCHANGED result
  BY <1>3, <1>4 DEF SendInv, SendSafety, HandlerOwnsRun, ReadyIsDecided, Decision
<1>5. CASE /\ result' = WithWorkflow(r, n)
           /\ handler' = [handler EXCEPT !.step = "SENDING"]
  <2>1. w \in Workflows /\ w.decision \in Decisions /\ Decision(r) = w.decision
    BY <1>1, ResultFields DEF SendInv, Decision
  <2>2. /\ n \in Workflows /\ n.decision = w.decision /\ n.decision # None
        /\ n.state = "SENDING"
    BY <2>1, NoneIsNoValue DEF Workflows, WorkflowStates, StartSending
  <2>3. /\ result'[r].workflow = n /\ result'[r] # None
        /\ \A q \in Runs \ {r} : result'[q] = result[q]
    <3> HIDE DEF n, w, r
    <3> QED
      BY <1>1, <1>5, <2>2, WithWorkflowType DEF SendInv
  <2>4. ReadyIsDecided'
    BY <2>2, <2>3 DEF SendInv, SendSafety, ReadyIsDecided, Decision
  <2>5. handler'.run = r /\ handler'.step = "SENDING" /\ handler'.approval = handler.approval
    BY <1>1, <1>5 DEF Handlers
  <2>6. HandlerOwnsRun'
    <3> HIDE DEF n
    <3> QED
      BY <1>1, <1>2, <2>1, <2>2, <2>3, <2>5 DEF HandlerOwnsRun, Complete, Decision
  <2> QED
    BY <1>3, <2>4, <2>6 DEF SendSafety
<1> QED
  BY <1>4, <1>5 DEF ApproveRecheck

LEMMA ApproveSendSafe ==
  ASSUME SendInv, ApproveSend
  PROVE  SendSafety'
<1>1. PICK r \in Runs, w \in Workflows, done \in Workflows, dispatched \in BOOLEAN,
           succeeded \in BOOLEAN, folder \in FolderIds :
             SendEffect(r, w, done, dispatched, succeeded, folder)
  BY ApproveSendEffect
<1>2. /\ sendAttempted[r] /\ outbox[r] = <<>> /\ handler' = None
      /\ UNCHANGED sendAttempted
      /\ done.state \in {"SENT", "SEND_FAILED"} /\ done.decision # None
      /\ sendState' = [sendState EXCEPT ![r] = done.state]
      /\ profileApproval' = [profileApproval EXCEPT ![r] = handler.approval]
  BY <1>1, NoneIsNoValue DEF SendEffect, SendInv, SendSafety, HandlerOwnsRun
<1>3. /\ outbox' \in [Runs -> Seq(Dispatches)]
      /\ \A q \in Runs \ {r} : outbox'[q] = outbox[q]
      /\ Len(outbox'[r]) <= 1
      /\ outbox'[r] # <<>> => outbox'[r][1].approved = handler.approval
      /\ done.state = "SENT" => outbox'[r] # <<>>
  <2>1. outbox' \in [Runs -> Seq(Dispatches)]
    BY ApproveSendType DEF TypeOK
  <2>2. CASE ~dispatched
    <3>1. outbox' = outbox /\ done.state = "SEND_FAILED"
      BY <1>1, <2>2 DEF SendEffect
    <3> QED
      BY <1>2, <2>1, <3>1 DEF SendInv, SendSafety, AtMostOneDispatch
  <2>3. CASE dispatched
    <3> DEFINE new == [reviewed |-> viewed[r], approved |-> handler.approval, sent |-> disk[r]]
    <3>1. outbox' = [outbox EXCEPT ![r] = Append(<<>>, new)]
      BY <1>1, <1>2, <2>3 DEF SendEffect
    <3>2. new.approved = handler.approval
      OBVIOUS
    <3> HIDE DEF new
    <3>3. outbox'[r] = <<new>>
      BY <3>1 DEF SendInv, TypeOK
    <3> QED
      BY <2>1, <3>1, <3>2, <3>3 DEF SendInv, TypeOK
  <2> QED
    BY <2>2, <2>3
<1>4. NothingBeforeAttempt'
  BY <1>2, <1>3 DEF SendInv, SendSafety, TypeOK, NothingBeforeAttempt
<1>5. AtMostOneDispatch'
  BY <1>3 DEF SendInv, SendSafety, AtMostOneDispatch
<1>6. DispatchIsRecorded'
  BY <1>2, <1>3, NoneIsNoRunValue
  DEF SendInv, SendSafety, TypeOK, AtMostOneDispatch, DispatchIsRecorded
<1>7. ReadyIsDecided'
  <2>1. /\ result'[r].workflow = done
        /\ \A q \in Runs \ {r} : result'[q] = result[q]
    <3>1. TypeOK /\ result[r] # None /\ result' = WithWorkflow(r, done)
      BY <1>1 DEF SendEffect, SendInv
    <3> QED
      BY <1>2, <3>1, WithWorkflowType
  <2> QED
    BY <1>2, <2>1 DEF SendInv, SendSafety, ReadyIsDecided, Decision
<1>8. HandlerOwnsRun'
  BY <1>2 DEF HandlerOwnsRun
<1> QED
  BY <1>4, <1>5, <1>6, <1>7, <1>8 DEF SendSafety

LEMMA SafetyStep ==
  ASSUME SendInv, [Next]_vars
  PROVE  SendSafety'
<1>1. ASSUME NEW r \in Runs, StartRun(r) PROVE SendSafety'
  BY <1>1, UntouchedBySafety DEF StartRun, LoopIsFree
<1>2. ASSUME NEW r \in Runs, ReadArtifact(r) \/ FailRun(r) PROVE SendSafety'
  BY <1>2, UntouchedBySafety DEF ReadArtifact, FailRun, LoopIsFree
<1>3. ASSUME NEW r \in Runs, ArtifactChanges(r) PROVE SendSafety'
  BY <1>3, UntouchedBySafety DEF ArtifactChanges
<1>4. ASSUME NEW r \in Runs, Review(r) PROVE SendSafety'
  BY <1>4, UntouchedBySafety DEF Review, LoopIsFree
<1>5. ASSUME NEW r \in Runs, NEW c \in Claims, SearchBegin(r, c) PROVE SendSafety'
  BY <1>5, UntouchedBySafety DEF SearchBegin, LoopIsFree
<1>6. ASSUME NEW r \in Runs, SearchDiscover(r) PROVE SendSafety'
  BY <1>6, UntouchedBySafety DEF SearchDiscover, LoopIsFree
<1>7. ASSUME NEW r \in Runs, BeginReceiptPdf(r) \/ EndReceiptPdf(r) PROVE SendSafety'
  BY <1>7, UntouchedBySafety DEF BeginReceiptPdf, EndReceiptPdf, runVars
<1>8. CASE UNCHANGED vars
  BY <1>8, UntouchedBySafety DEF vars, runVars
<1> QED
  BY <1>1, <1>2, <1>3, <1>4, <1>5, <1>6, <1>7, <1>8, FinishRunSafe, ApproveBeginSafe,
     ApproveRecheckSafe, ApproveSendSafe, SearchLandSafe
  DEF Next, BackgroundRun, SearchStep, SendStep

LEMMA InitSafe == Init => SendInv
<1>1. Init => SendSafety
  BY NoneIsNoRunValue
  DEF Init, SendSafety, HandlerOwnsRun, NothingBeforeAttempt, ReadyIsDecided,
      DispatchIsRecorded, AtMostOneDispatch
<1> QED
  BY <1>1, InitType DEF SendInv

-----------------------------------------------------------------------------
(* The invariant SendInv holds of every behaviour: the two lemmas above are *)
(* its induction step.                                                      *)
THEOREM SendInvariant == Spec => []SendInv
<1>1. SendInv /\ [Next]_vars => SendInv'
  BY TypeStep, SafetyStep DEF SendInv
<1> QED
  BY <1>1, InitSafe, PTL DEF Spec

(* Every record of a run, of its workflow and of its receipts is well       *)
(* formed, whatever the runs, claims and contents are.                      *)
THEOREM TypeCorrect == Spec => []TypeOK
<1>1. SendInv => TypeOK
  BY DEF SendInv
<1> QED
  BY <1>1, SendInvariant, PTL

(* The eSign service is called at most once for a run.                      *)
THEOREM SendsAtMostOnce == Spec => []AtMostOneDispatch
<1>1. SendInv => AtMostOneDispatch
  BY DEF SendInv, SendSafety
<1> QED
  BY <1>1, SendInvariant, PTL

(* What was dispatched is recorded, with the approval it was made under.    *)
THEOREM SendsAreRecorded == Spec => []DispatchIsRecorded
<1>1. SendInv => DispatchIsRecorded
  BY DEF SendInv, SendSafety
<1> QED
  BY <1>1, SendInvariant, PTL

-----------------------------------------------------------------------------
(* Only the sending step dispatches, and what it does then.                 *)
LEMMA OnlyApproveSendDispatches ==
  ASSUME [Next]_vars, ~UNCHANGED outbox
  PROVE  ApproveSend
BY DEF Next, BackgroundRun, SearchStep, SendStep, StartRun, ReadArtifact, FinishRun,
       FailRun, ArtifactChanges, Review, ApproveBegin, ApproveRecheck, SearchBegin,
       SearchDiscover, SearchLand, BeginReceiptPdf, EndReceiptPdf, vars, runVars

LEMMA DispatchStep ==
  ASSUME SendInv, [Next]_vars, NEW q \in Runs, outbox'[q] # outbox[q]
  PROVE  /\ Decision(q).outcome = "READY_FOR_APPROVAL"
         /\ Len(outbox'[q]) = Len(outbox[q]) + 1
         /\ outbox'[q][Len(outbox'[q])].approved = Decision(q).binding
         /\ profileApproval'[q] = Decision(q).binding
<1>1. ApproveSend
  BY OnlyApproveSendDispatches
<1>2. PICK r \in Runs, w \in Workflows, done \in Workflows, dispatched \in BOOLEAN,
           succeeded \in BOOLEAN, folder \in FolderIds :
             SendEffect(r, w, done, dispatched, succeeded, folder)
  BY <1>1, ApproveSendEffect
<1> DEFINE new == [reviewed |-> viewed[r], approved |-> handler.approval, sent |-> disk[r]]
<1>3. outbox' = [outbox EXCEPT ![r] = Append(@, new)]
  BY <1>2 DEF SendEffect
<1>4. new.approved = handler.approval
  OBVIOUS
<1>5. q = r
  BY <1>3 DEF SendInv, TypeOK
<1>6. /\ outbox[r] = <<>>
      /\ Decision(r).outcome = "READY_FOR_APPROVAL"
      /\ Decision(r).binding = handler.approval
  BY <1>2 DEF SendEffect, SendInv, SendSafety, HandlerOwnsRun
<1>7. profileApproval'[r] = handler.approval
  BY <1>2 DEF SendEffect, SendInv, TypeOK
<1> HIDE DEF new
<1>8. outbox'[r] = <<new>>
  BY <1>3, <1>6 DEF SendInv, TypeOK
<1> QED
  BY <1>4, <1>5, <1>6, <1>7, <1>8

(* A dispatch is made under the run's current READY decision and leaves the *)
(* approval of exactly that decision behind.                                *)
THEOREM DispatchesAreAuthorized == Spec => DispatchIsAuthorized
<1>1. SendInv /\ [Next]_vars =>
        [\A r \in Runs : outbox'[r] # outbox[r] =>
           /\ Decision(r).outcome = "READY_FOR_APPROVAL"
           /\ Len(outbox'[r]) = Len(outbox[r]) + 1
           /\ outbox'[r][Len(outbox'[r])].approved = Decision(r).binding
           /\ profileApproval'[r] = Decision(r).binding]_vars
  BY DispatchStep
<1> QED
  BY <1>1, SendInvariant, PTL DEF Spec, DispatchIsAuthorized

-----------------------------------------------------------------------------
(* Refinement: RunControl implements AuthorizedSend.                        *)

LEMMA InitRefines == Init => Abstract!SendInit
BY NoneIsNoRunValue
DEF Init, Abstract!SendInit, RunDecision, RunClosed, RunSent

(* A step that leaves the run's send state alone and keeps every decision   *)
(* is invisible.                                                            *)
LEMMA InvisibleStep ==
  ASSUME UNCHANGED <<result, sendAttempted, handler, outbox>>
  PROVE  UNCHANGED Abstract!sendVars
BY DEF Abstract!sendVars, RunDecision, RunClosed, RunSent, Decision

(* A step that replaces the result of a run is a new decision of it.        *)
LEMMA DecisionStep ==
  ASSUME SendInv, NEW r \in Runs, NEW new \in Results,
         result' = [result EXCEPT ![r] = new],
         UNCHANGED <<sendAttempted, handler, outbox>>
  PROVE  Abstract!Decide(r)
<1>1. /\ new # None /\ new.workflow.decision \in Decisions
  BY NoneIsNoRunValue DEF Results, Workflows
<1>2. RunDecision' = [RunDecision EXCEPT ![r] = new.workflow.decision]
  BY <1>1 DEF RunDecision, Decision, SendInv, TypeOK
<1>3. UNCHANGED <<RunClosed, RunSent>>
  BY DEF RunClosed, RunSent
<1>4. new.workflow.decision \in Abstract!Decisions
  BY <1>1 DEF Abstract!Decisions, Abstract!Bindings, Abstract!Outcomes,
              Decisions, Bindings, Outcomes
<1> QED
  BY <1>2, <1>3, <1>4 DEF Abstract!Decide

(* A step that keeps every decision and ends the attempt on r.              *)
LEMMA AttemptStep ==
  ASSUME SendInv, NEW r \in Runs, RunDecision' = RunDecision,
         ~RunClosed[r], result[r] # None,
         Decision(r).outcome = "READY_FOR_APPROVAL",
         RunClosed' = [RunClosed EXCEPT ![r] = TRUE],
         \/ RunSent' = RunSent
         \/ RunSent' = [RunSent EXCEPT ![r] = Decision(r).binding]
  PROVE  Abstract!Attempt(r)
<1>1. RunDecision[r] = Decision(r) /\ Decision(r) # None
  BY ResultFields, NoneIsNoValue DEF RunDecision, SendInv
<1> QED
  BY <1>1 DEF Abstract!Attempt

LEMMA ApproveBeginRefines ==
  ASSUME SendInv, NEW r \in Runs, ApproveBegin(r)
  PROVE  UNCHANGED Abstract!sendVars \/ Abstract!Attempt(r)
<1> DEFINE a == Decision(r).binding
           w == result[r].workflow
           n == Approve(w, a)
<1>1. /\ result[r] # None /\ ~sendAttempted[r] /\ handler = None
      /\ w.state = "READY_FOR_APPROVAL"
      /\ sendAttempted' = [sendAttempted EXCEPT ![r] = TRUE]
      /\ UNCHANGED outbox
  BY DEF ApproveBegin, SendAllowed, Complete, LoopIsFree
<1>2. RunSent' = RunSent
  BY <1>1 DEF RunSent
<1>3. CASE UNCHANGED <<result, handler>>
  <2>1. RunDecision' = RunDecision
    BY <1>3 DEF RunDecision, Decision
  <2>2. ~RunClosed[r] /\ RunClosed' = [RunClosed EXCEPT ![r] = TRUE]
    BY <1>1, <1>3 DEF RunClosed, SendInv, TypeOK
  <2>3. Decision(r).outcome = "READY_FOR_APPROVAL"
    BY <1>1 DEF SendInv, SendSafety, ReadyIsDecided
  <2> QED
    BY <1>1, <1>2, <2>1, <2>2, <2>3, AttemptStep
<1>4. CASE /\ result' = WithWorkflow(r, n)
           /\ handler' = [run |-> r, approval |-> a, step |-> "APPROVED"]
  <2>1. w \in Workflows /\ w.decision \in Decisions
    BY <1>1, ResultFields DEF SendInv, Decision
  <2>2. n \in Workflows /\ n.decision = w.decision /\ n.decision # None
    BY <1>1, ResultFields, <2>1, NoneIsNoValue
    DEF SendInv, Workflows, WorkflowStates, Approve
  <2>3. RunClosed' = RunClosed
    <3>1. handler'.run = r /\ handler' # None
      <4>1. handler' \in Handlers
        BY <1>1, <1>4, ResultFields DEF Handlers, SendInv
      <4> QED
        BY <1>4, <4>1, NoneIsNoRunValue
    <3> QED
      BY <1>1, <3>1 DEF RunClosed, SendInv, TypeOK
  <2> HIDE DEF n
  <2>4. /\ result'[r].workflow = n /\ result'[r] # None
        /\ \A q \in Runs \ {r} : result'[q] = result[q]
    BY <1>1, <1>4, <2>2, WithWorkflowType DEF SendInv
  <2>5. RunDecision' = RunDecision
    BY <1>1, <2>2, <2>4 DEF RunDecision, Decision
  <2> QED
    BY <1>2, <2>3, <2>5 DEF Abstract!sendVars
<1> QED
  BY <1>3, <1>4 DEF ApproveBegin

LEMMA ApproveRecheckRefines ==
  ASSUME SendInv, ApproveRecheck
  PROVE  UNCHANGED Abstract!sendVars \/ \E r \in Runs : Abstract!Attempt(r)
<1> DEFINE r == handler.run
           w == result[r].workflow
           n == StartSending(w)
<1>1. /\ handler # None /\ handler \in Handlers /\ r \in Runs /\ result[r] # None
      /\ sendAttempted[r] /\ Decision(r).outcome = "READY_FOR_APPROVAL"
      /\ UNCHANGED <<sendAttempted, outbox>>
  BY DEF ApproveRecheck, SendInv, SendSafety, TypeOK, Handlers, HandlerOwnsRun, Complete
<1>2. RunSent' = RunSent
  BY <1>1 DEF RunSent
<1>3. CASE handler' = None /\ UNCHANGED result
  <2>1. RunDecision' = RunDecision
    BY <1>3 DEF RunDecision, Decision
  <2>2. ~RunClosed[r] /\ RunClosed' = [RunClosed EXCEPT ![r] = TRUE]
    BY <1>1, <1>3 DEF RunClosed, SendInv, TypeOK
  <2> QED
    BY <1>1, <1>2, <2>1, <2>2, AttemptStep
<1>4. CASE /\ result' = WithWorkflow(r, n)
           /\ handler' = [handler EXCEPT !.step = "SENDING"]
  <2>1. w \in Workflows /\ w.decision \in Decisions
    BY <1>1, ResultFields DEF SendInv, Decision
  <2>2. n \in Workflows /\ n.decision = w.decision /\ n.decision # None
    BY <2>1, NoneIsNoValue DEF Workflows, WorkflowStates, StartSending
  <2>3. RunClosed' = RunClosed
    <3>1. handler'.run = r /\ handler' \in Handlers
      BY <1>1, <1>4 DEF Handlers
    <3> QED
      BY <1>1, <3>1, NoneIsNoRunValue DEF RunClosed
  <2>4. /\ result'[r].workflow = n /\ result'[r] # None
        /\ \A q \in Runs \ {r} : result'[q] = result[q]
    <3> HIDE DEF n, w, r
    <3> QED
      BY <1>1, <1>4, <2>2, WithWorkflowType DEF SendInv
  <2>5. RunDecision' = RunDecision
    <3> HIDE DEF n
    <3> QED
      BY <1>1, <2>2, <2>4 DEF RunDecision, Decision
  <2> QED
    BY <1>2, <2>3, <2>5 DEF Abstract!sendVars
<1> QED
  BY <1>3, <1>4 DEF ApproveRecheck

LEMMA ApproveSendRefines ==
  ASSUME SendInv, ApproveSend
  PROVE  \E r \in Runs : Abstract!Attempt(r)
<1>1. PICK r \in Runs, w \in Workflows, done \in Workflows, dispatched \in BOOLEAN,
           succeeded \in BOOLEAN, folder \in FolderIds :
             SendEffect(r, w, done, dispatched, succeeded, folder)
  BY ApproveSendEffect
<1>2. /\ result[r] # None /\ handler # None /\ handler.run = r /\ handler' = None
      /\ sendAttempted[r] /\ UNCHANGED sendAttempted /\ outbox[r] = <<>>
      /\ Decision(r).outcome = "READY_FOR_APPROVAL"
      /\ Decision(r).binding = handler.approval
      /\ w = result[r].workflow /\ done.decision = w.decision /\ done.decision # None
      /\ result' = WithWorkflow(r, done)
  BY <1>1, NoneIsNoValue DEF SendEffect, SendInv, SendSafety, HandlerOwnsRun
<1>3. ~RunClosed[r] /\ RunClosed' = [RunClosed EXCEPT ![r] = TRUE]
  BY <1>2 DEF RunClosed, SendInv, TypeOK
<1>4. RunDecision' = RunDecision
  <2>1. /\ result'[r].workflow = done /\ result'[r] # None
        /\ \A q \in Runs \ {r} : result'[q] = result[q]
    BY <1>2, WithWorkflowType DEF SendInv
  <2> QED
    BY <1>2, <2>1 DEF RunDecision, Decision
<1>5. \/ RunSent' = RunSent
      \/ RunSent' = [RunSent EXCEPT ![r] = Decision(r).binding]
  <2>1. CASE outbox' = outbox
    BY <2>1 DEF RunSent
  <2>2. CASE outbox' # outbox
    <3> DEFINE new == [reviewed |-> viewed[r], approved |-> handler.approval, sent |-> disk[r]]
    <3>1. outbox' = [outbox EXCEPT ![r] = Append(<<>>, new)]
      BY <1>1, <1>2, <2>2 DEF SendEffect
    <3>4. new.approved = handler.approval
      OBVIOUS
    <3> HIDE DEF new
    <3>2. new.approved = Decision(r).binding
      BY <1>2, <3>4
    <3>3. outbox'[r] = <<new>> /\ \A q \in Runs \ {r} : outbox'[q] = outbox[q]
      BY <3>1 DEF SendInv, TypeOK
    <3>5. outbox'[r] # <<>> /\ outbox'[r][1] = new
      BY <3>3
    <3>6. RunSent'[r] = Decision(r).binding
      BY <3>2, <3>5 DEF RunSent
    <3>7. \A q \in Runs \ {r} : RunSent'[q] = RunSent[q]
      BY <3>3 DEF RunSent
    <3> QED
      BY <3>6, <3>7 DEF RunSent
  <2> QED
    BY <2>1, <2>2
<1> QED
  BY <1>2, <1>3, <1>4, <1>5, AttemptStep

LEMMA StepRefines ==
  ASSUME SendInv, [Next]_vars
  PROVE  [Abstract!SendNext]_(Abstract!sendVars)
<1>1. CASE UNCHANGED <<result, sendAttempted, handler, outbox>>
  BY <1>1, InvisibleStep
<1>2. ASSUME NEW r \in Runs, FinishRun(r) PROVE Abstract!Decide(r)
  BY <1>2, FinishRunResult, DecisionStep DEF FinishRun, SendInv
<1>3. ASSUME NEW r \in Runs, SearchLand(r), ~UNCHANGED result PROVE Abstract!Decide(r)
  BY <1>3, SearchLandResult, DecisionStep DEF SearchLand, SendInv
<1>4. ASSUME NEW r \in Runs, SearchLand(r), UNCHANGED result
      PROVE UNCHANGED <<result, sendAttempted, handler, outbox>>
  BY <1>4 DEF SearchLand
<1>5. ASSUME NEW r \in Runs,
             StartRun(r) \/ ReadArtifact(r) \/ FailRun(r) \/ ArtifactChanges(r)
               \/ Review(r) \/ SearchDiscover(r) \/ (\E c \in Claims : SearchBegin(r, c))
               \/ BeginReceiptPdf(r) \/ EndReceiptPdf(r)
      PROVE UNCHANGED <<result, sendAttempted, handler, outbox>>
  BY <1>5 DEF StartRun, ReadArtifact, FailRun, ArtifactChanges, Review, SearchDiscover,
              SearchBegin, BeginReceiptPdf, EndReceiptPdf, runVars
<1>6. CASE UNCHANGED vars
  BY <1>1, <1>6 DEF vars, runVars
<1>7. CASE Next
  BY <1>1, <1>2, <1>3, <1>4, <1>5, <1>7, ApproveBeginRefines, ApproveRecheckRefines,
     ApproveSendRefines
  DEF Next, BackgroundRun, SearchStep, SendStep, Abstract!SendNext
<1> QED
  BY <1>6, <1>7

(* The run control implements AuthorizedSend: every step is a decision of   *)
(* a run, the one attempt to send it, or invisible.                         *)
THEOREM RunControlImplementsAuthorizedSend == Spec => ImplementsAuthorizedSend
<1>1. SendInv /\ [Next]_vars => [Abstract!SendNext]_(Abstract!sendVars)
  BY StepRefines
<1> QED
  BY <1>1, InitRefines, SendInvariant, PTL
  DEF Spec, ImplementsAuthorizedSend, Abstract!SendSpec
=============================================================================
