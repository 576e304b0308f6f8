----------------------------- MODULE RunControl -----------------------------
(***************************************************************************)
(* The run lifecycle of the web application (web/app.py) with the approval *)
(* and send service (application/approval.py), the public evidence service *)
(* (public_evidence/service.py) and the receipt ledger it drives.          *)
(*                                                                         *)
(* Everything runs in one asyncio event loop.  A handler is atomic between *)
(* two awaits.  approve_and_send has no await under its lock: from its     *)
(* first check to its receipt it keeps the loop, so no other handler runs; *)
(* but other processes can still change the PDF on disk between its reads. *)
(* The public evidence search awaits twice and holds its own lock          *)
(* (public_evidence_lock), which is not the send lock.                     *)
(*                                                                         *)
(* Definitions named Faulty... are seeded faults: each is a plausible bug  *)
(* in the definition that follows it, used by nothing here, and shows that *)
(* a property fails when the code has that bug.                            *)
(***************************************************************************)
EXTENDS ReceiptLedger

CONSTANTS
  Claims,     \* the material claims a run extracts
  Critical,   \* claims of a critical category: the baseline needs them SUPPORTED
  Eligible,   \* claims of a category public search accepts
  FolderIds   \* folder identifiers the eSign service may answer with

ASSUME ClaimSets == Critical \subseteq Claims /\ Eligible \subseteq Claims

(* The evidence bundle of a run is its own documents, fixed when it starts, *)
(* and the public sources accepted for some claims: the bundle, and its     *)
(* hash, is identified by those claims.                                     *)
ASSUME EvidenceIsPublicClaims == EvidenceSets = SUBSET Claims

VARIABLES
  status,         \* run -> ABSENT, RUNNING, COMPLETE or FAILED
  pipeline,       \* run -> PDF hash the background run verified, or None
  disk,           \* run -> what is at output_path, None when there is no file
  result,         \* run -> its Phase3Result, or None
  sendAttempted,  \* run -> a send was attempted
  profileApproval,\* run -> the binding a human approved, or None
  sendState,      \* run -> SENT, SEND_FAILED or None
  attempted,      \* run -> claims a public search was attempted for
  searches,       \* run -> the searches in flight, those holding public_evidence_lock
  handler,        \* the approve_and_send call that occupies the loop, or None
  viewed,         \* run -> the binding its human reviewer saw last, or None
  outbox          \* run -> what the eSign service dispatched, in order

runVars == <<status, pipeline, disk, result, sendAttempted, profileApproval,
             sendState, attempted, searches, handler, viewed, outbox>>
vars == <<runVars, ledgerVars>>

ClaimStatuses == {"SUPPORTED", "CONFLICTING", "UNSUPPORTED", "UNCERTAIN"}

(* Phase3Result: verdict is verification.results, empty (None) when the     *)
(* semantic stage failed; ambiguous are the claims of a category with an    *)
(* extraction ambiguity, whose comparisons were dropped.                    *)
Results ==
  [workflow : {w \in Workflows : w.decision # None},
   verdict : [Claims -> ClaimStatuses] \cup {None}, ambiguous : SUBSET Claims]

(* A search works on the result it found; pdf is None until it has read the *)
(* artifact again.                                                          *)
Searches ==
  [claim : Claims, base : {x \in Results : x.verdict # None},
   pdf : Contents \cup {None}]

Handlers == [run : Runs, approval : Bindings, step : {"APPROVED", "SENDING"}]

(* reviewed: what the approving human had seen; approved: the binding of    *)
(* the approval; sent: the bytes the sender itself read and uploaded.       *)
Dispatches == [reviewed : Bindings, approved : Bindings, sent : Contents]

ASSUME NoneIsNoRunValue ==
  /\ None \notin Results
  /\ None \notin [Claims -> ClaimStatuses]
  /\ None \notin Handlers
  /\ None \notin {"SENT", "SEND_FAILED"}
  /\ None \notin [verdicts : [Claims -> ClaimStatuses] \cup {None}, ambiguous : SUBSET Claims,
                  searched : SUBSET Claims, pdf : Contents, outcome : Outcomes]

-----------------------------------------------------------------------------
FaultyLoopIsFree == TRUE
LoopIsFree == handler = None

Decision(r) == result[r].workflow.decision

(* _require_receipt_run, and the first test of the approval handler.        *)
Complete(r) == status[r] = "COMPLETE" /\ result[r] # None

(* The baseline policy: a decision can be READY only if every critical      *)
(* claim is SUPPORTED and the verified bytes are the current ones.  The     *)
(* selected profile may block further (profilePasses).                      *)
PolicyOutcome(verdict, verified, current, profilePasses) ==
  IF /\ verdict # None
     /\ \A c \in Critical : verdict[c] = "SUPPORTED"
     /\ verified = current
     /\ profilePasses
  THEN "READY_FOR_APPROVAL"
  ELSE "BLOCKED"

NewResult(verdict, ambiguous, binding, outcome) ==
  [workflow |-> DecidedWorkflow([binding |-> binding, outcome |-> outcome]),
   verdict |-> verdict, ambiguous |-> ambiguous]

WithWorkflow(r, w) == [result EXCEPT ![r].workflow = w]

-----------------------------------------------------------------------------
Init ==
  /\ LedgerInit
  /\ status = [r \in Runs |-> "ABSENT"]
  /\ pipeline = [r \in Runs |-> None]
  /\ disk = [r \in Runs |-> None]
  /\ result = [r \in Runs |-> None]
  /\ sendAttempted = [r \in Runs |-> FALSE]
  /\ profileApproval = [r \in Runs |-> None]
  /\ sendState = [r \in Runs |-> None]
  /\ attempted = [r \in Runs |-> {}]
  /\ searches = [r \in Runs |-> {}]
  /\ handler = None
  /\ viewed = [r \in Runs |-> None]
  /\ outbox = [r \in Runs |-> <<>>]

(* POST /api/runs and /api/runs/document: the run is registered and its     *)
(* execution left to a background task.                                     *)
StartRun(r) ==
  /\ LoopIsFree
  /\ status[r] = "ABSENT"
  /\ status' = [status EXCEPT ![r] = "RUNNING"]
  /\ UNCHANGED <<pipeline, disk, result, sendAttempted, profileApproval,
                 sendState, attempted, searches, handler, viewed, outbox,
                 ledgerVars>>

(* The background task has the PDF generated, or copies the upload, and     *)
(* hashes the bytes it will verify.                                         *)
ReadArtifact(r) ==
  /\ LoopIsFree
  /\ status[r] = "RUNNING"
  /\ pipeline[r] = None
  /\ \E content \in Contents :
       /\ disk' = [disk EXCEPT ![r] = content]
       /\ pipeline' = [pipeline EXCEPT ![r] = content]
  /\ UNCHANGED <<status, result, sendAttempted, profileApproval, sendState,
                 attempted, searches, handler, viewed, outbox, ledgerVars>>

(* Extraction, claim extraction and evidence comparison have been awaited:  *)
(* the PDF is read again, the policy decides, the first receipt is issued.  *)
(* A semantic failure leaves no verdict and so a BLOCKED decision.          *)
FinishRun(r) ==
  /\ LoopIsFree
  /\ status[r] = "RUNNING"
  /\ pipeline[r] # None
  /\ disk[r] # None
  /\ \E verdict \in [Claims -> ClaimStatuses] \cup {None},
        ambiguous \in SUBSET Claims, profilePasses \in BOOLEAN :
       /\ verdict # None => \A c \in ambiguous : verdict[c] = "UNCERTAIN"
       /\ verdict = None => ambiguous = {}
       /\ LET outcome == PolicyOutcome(verdict, pipeline[r], disk[r], profilePasses)
              new == NewResult(verdict, ambiguous,
                               [pdf |-> disk[r], evidence |-> {}], outcome)
          IN /\ result' = [result EXCEPT ![r] = new]
             /\ IssueReceipt(r, new.workflow, profileApproval[r], "NOT_ATTEMPTED", NoFolder)
  /\ status' = [status EXCEPT ![r] = "COMPLETE"]
  /\ pipeline' = [pipeline EXCEPT ![r] = None]
  /\ UNCHANGED <<disk, sendAttempted, profileApproval, sendState, attempted,
                 searches, handler, viewed, outbox>>

(* Any exception of the background task, a missing file among them.         *)
FailRun(r) ==
  /\ LoopIsFree
  /\ status[r] = "RUNNING"
  /\ status' = [status EXCEPT ![r] = "FAILED"]
  /\ pipeline' = [pipeline EXCEPT ![r] = None]
  /\ UNCHANGED <<disk, result, sendAttempted, profileApproval, sendState,
                 attempted, searches, handler, viewed, outbox, ledgerVars>>

(* Another process writes, or removes, the file at output_path.             *)
ArtifactChanges(r) ==
  /\ status[r] # "ABSENT"
  /\ \E content \in (Contents \cup {None}) \ {disk[r]} :
       disk' = [disk EXCEPT ![r] = content]
  /\ UNCHANGED <<status, pipeline, result, sendAttempted, profileApproval,
                 sendState, attempted, searches, handler, viewed, outbox,
                 ledgerVars>>

(* GET /api/runs/{id}: a human sees the bindings approval would refer to.   *)
Review(r) ==
  /\ LoopIsFree
  /\ Complete(r)
  /\ viewed' = [viewed EXCEPT ![r] = Decision(r).binding]
  /\ UNCHANGED <<status, pipeline, disk, result, sendAttempted,
                 profileApproval, sendState, attempted, searches, handler,
                 outbox, ledgerVars>>

-----------------------------------------------------------------------------
FaultySendAllowed(r) ==
  /\ Complete(r)
  /\ result[r].workflow.state = "READY_FOR_APPROVAL"

(* The tests under send_lock; a request that fails one changes nothing.     *)
SendAllowed(r) ==
  /\ ~sendAttempted[r]
  /\ Complete(r)
  /\ result[r].workflow.state = "READY_FOR_APPROVAL"

(* _require_current_binding: the bytes on disk are the decided ones and the *)
(* approval, once there is one, is bound to the decision.  What else it     *)
(* compares (versions, profile, evidence) is part of the result itself.     *)
StillBound(r, approval) ==
  /\ disk[r] = Decision(r).binding.pdf
  /\ approval = Decision(r).binding

(* POST .../approve-and-send, by the human who saw viewed[r]: the attempt   *)
(* is spent, and ApprovalSendService goes up to workflow.approve.  A        *)
(* missing file (HTTP 500) or a changed one (HTTP 409) ends the request.    *)
ApproveBegin(r) ==
  /\ LoopIsFree
  /\ viewed[r] # None
  /\ SendAllowed(r)
  /\ sendAttempted' = [sendAttempted EXCEPT ![r] = TRUE]
  /\ LET approval == Decision(r).binding
         w == result[r].workflow
     IN IF StillBound(r, approval) /\ CanApprove(w, approval)
        THEN /\ result' = WithWorkflow(r, Approve(w, approval))
             /\ handler' = [run |-> r, approval |-> approval, step |-> "APPROVED"]
        ELSE UNCHANGED <<result, handler>>
  /\ UNCHANGED <<status, pipeline, disk, profileApproval, sendState, attempted,
                 searches, viewed, outbox, ledgerVars>>

FaultyApproveRecheck ==
  /\ handler # None
  /\ handler.step = "APPROVED"
  /\ StillBound(handler.run, handler.approval)
  /\ result' = WithWorkflow(handler.run, StartSending(result[handler.run].workflow))
  /\ handler' = [handler EXCEPT !.step = "SENDING"]
  /\ UNCHANGED <<status, pipeline, disk, sendAttempted, profileApproval,
                 sendState, attempted, searches, viewed, outbox, ledgerVars>>

(* The bindings are checked again, with a second read of the PDF, and the   *)
(* workflow starts sending; a failed check ends the request and leaves the  *)
(* workflow APPROVED.                                                       *)
ApproveRecheck ==
  /\ handler # None
  /\ handler.step = "APPROVED"
  /\ LET r == handler.run
         w == result[r].workflow
     IN IF StillBound(r, handler.approval) /\ CanStartSending(w)
        THEN /\ result' = WithWorkflow(r, StartSending(w))
             /\ handler' = [handler EXCEPT !.step = "SENDING"]
        ELSE /\ handler' = None
             /\ UNCHANGED result
  /\ UNCHANGED <<status, pipeline, disk, sendAttempted, profileApproval,
                 sendState, attempted, searches, viewed, outbox, ledgerVars>>

(* The one call of the sender, then the handler's tail.  The sender reads   *)
(* the PDF itself.  It can fail before anything is dispatched, or after (a  *)
(* timeout, an error reply): either way the run is SEND_FAILED and there is *)
(* no retry.  The receipt comes last; if it cannot be built the request     *)
(* ends in HTTP 500 with the send state already recorded.                   *)
ApproveSend ==
  /\ handler # None
  /\ handler.step = "SENDING"
  /\ LET r == handler.run
         w == result[r].workflow
     IN \E dispatched \in BOOLEAN, succeeded \in BOOLEAN, folder \in FolderIds :
          /\ succeeded => dispatched
          /\ dispatched => disk[r] # None
          /\ LET done == IF succeeded THEN MarkSent(w) ELSE MarkSendFailed(w)
             IN /\ result' = WithWorkflow(r, done)
                /\ sendState' = [sendState EXCEPT ![r] = done.state]
                /\ IssueReceipt(r, done, handler.approval, done.state,
                                IF succeeded THEN folder ELSE NoFolder)
          /\ outbox' = IF dispatched
                       THEN [outbox EXCEPT ![r] = Append(@,
                              [reviewed |-> viewed[r], approved |-> handler.approval,
                               sent |-> disk[r]])]
                       ELSE outbox
          /\ profileApproval' = [profileApproval EXCEPT ![r] = handler.approval]
  /\ handler' = None
  /\ UNCHANGED <<status, pipeline, disk, sendAttempted, attempted, searches, viewed>>

-----------------------------------------------------------------------------
FaultySearchAllowed(r, c) ==
  /\ Complete(r) /\ HasReceipt(r)
  /\ ~sendAttempted[r] /\ profileApproval[r] = None
  /\ c \in Eligible \ attempted[r]

(* The request holds public_evidence_lock, and passes the tests under it.   *)
SearchAllowed(r, c) ==
  /\ Complete(r) /\ HasReceipt(r)
  /\ searches[r] = {}
  /\ ~sendAttempted[r] /\ profileApproval[r] = None
  /\ c \in Eligible \ attempted[r]

(* POST .../claims/{c}/public-evidence up to the first await: the checks,   *)
(* the attempt mark, and enrich_result's own check that the claim is        *)
(* verified and open.  If it is not the request ends in HTTP 500, and the   *)
(* claim counts as attempted.                                               *)
SearchBegin(r, c) ==
  /\ LoopIsFree
  /\ SearchAllowed(r, c)
  /\ attempted' = [attempted EXCEPT ![r] = @ \cup {c}]
  /\ LET verdict == result[r].verdict
     IN searches' = IF verdict # None /\ verdict[c] \in {"UNSUPPORTED", "UNCERTAIN"}
                    THEN [searches EXCEPT ![r] =
                            @ \cup {[claim |-> c, base |-> result[r], pdf |-> None]}]
                    ELSE searches
  /\ UNCHANGED <<status, pipeline, disk, result, sendAttempted,
                 profileApproval, sendState, handler, viewed, outbox, ledgerVars>>

FaultyAfterDiscovery(s, content) == {{[s EXCEPT !.pdf = content]}}

(* What is left of a search when the provider has answered and the file at  *)
(* output_path is content: nothing, if no source was accepted or there is   *)
(* no file to read, or the search with the hash of the bytes just read.     *)
AfterDiscovery(s, content) ==
  {{}} \cup (IF content = None THEN {} ELSE {{[s EXCEPT !.pdf = content]}})

(* The provider answered; with accepted sources the comparison is awaited.  *)
SearchDiscover(r) ==
  /\ LoopIsFree
  /\ \E s \in searches[r] :
       /\ s.pdf = None
       /\ \E left \in AfterDiscovery(s, disk[r]) :
            searches' = [searches EXCEPT ![r] = (@ \ {s}) \cup left]
  /\ UNCHANGED <<status, pipeline, disk, result, sendAttempted,
                 profileApproval, sendState, attempted, handler, viewed,
                 outbox, ledgerVars>>

(* The projection needs a comparison for every claim; those of ambiguous    *)
(* claims were dropped and only a search for the claim itself adds some.    *)
ProjectionSucceeds(base, c) ==
  base.ambiguous \subseteq base.workflow.decision.binding.evidence \cup {c}

(* The result enrich_result builds: the searched claim's verdict is the     *)
(* comparison with the public sources, the decision is about the bytes read *)
(* after the discovery, and the workflow is a new one.                      *)
EnrichedResult(s, newStatus, profilePasses) ==
  LET verdict == [s.base.verdict EXCEPT ![s.claim] = newStatus]
      binding == [pdf |-> s.pdf,
                  evidence |-> s.base.workflow.decision.binding.evidence \cup {s.claim}]
  IN NewResult(verdict, s.base.ambiguous, binding,
               PolicyOutcome(verdict, s.pdf, s.pdf, profilePasses))

(* The comparison answered.  An invalid answer changes nothing (HTTP 200);  *)
(* an UNCERTAIN one without a quotation, a source already in the bundle or  *)
(* a claim left without comparisons raises (HTTP 500); otherwise the run's  *)
(* result is replaced and a receipt issued, with no look at what happened   *)
(* to the run during the awaits.                                            *)
SearchLand(r) ==
  /\ LoopIsFree
  /\ \E s \in searches[r] :
       /\ s.pdf # None
       /\ searches' = [searches EXCEPT ![r] = @ \ {s}]
       /\ \/ UNCHANGED <<result, ledgerVars>>
          \/ /\ ProjectionSucceeds(s.base, s.claim)
             /\ \E newStatus \in ClaimStatuses, profilePasses \in BOOLEAN :
                  LET new == EnrichedResult(s, newStatus, profilePasses)
                  IN /\ result' = [result EXCEPT ![r] = new]
                     /\ IssueReceipt(r, new.workflow, profileApproval[r],
                                     "NOT_ATTEMPTED", NoFolder)
  /\ UNCHANGED <<status, pipeline, disk, sendAttempted, profileApproval,
                 sendState, attempted, handler, viewed, outbox>>

(* The receipt PDF is generated for a complete run, off the event loop.     *)
BeginReceiptPdf(r) ==
  /\ LoopIsFree
  /\ Complete(r)
  /\ StartReceiptPdf(r)
  /\ UNCHANGED runVars

EndReceiptPdf(r) ==
  /\ LoopIsFree
  /\ FinishReceiptPdf(r)
  /\ UNCHANGED runVars

-----------------------------------------------------------------------------
BackgroundRun(r) == ReadArtifact(r) \/ FinishRun(r) \/ FailRun(r)
SearchStep(r) == SearchDiscover(r) \/ SearchLand(r)
SendStep == ApproveRecheck \/ ApproveSend

Next ==
  \/ \E r \in Runs :
       \/ StartRun(r) \/ BackgroundRun(r)
       \/ ArtifactChanges(r)
       \/ Review(r) \/ ApproveBegin(r)
       \/ SearchStep(r) \/ \E c \in Claims : SearchBegin(r, c)
       \/ BeginReceiptPdf(r) \/ EndReceiptPdf(r)
  \/ SendStep

Spec == Init /\ [][Next]_vars

(* The loop runs every task that can run.  The approval handler never       *)
(* leaves it, and the calls a search awaits (the search provider, the       *)
(* comparison model) have timeouts.  The document service calls of the      *)
(* background run and of the receipt PDF have none, and nobody is obliged   *)
(* to review or approve, so no fairness is assumed of them.                 *)
Fairness ==
  /\ WF_vars(SendStep)
  /\ \A r \in Runs : WF_vars(SearchStep(r))

FairSpec == Spec /\ Fairness

-----------------------------------------------------------------------------
(* Properties.                                                              *)

(* Every variable keeps to its type: the records of DemoRun, Phase3Result   *)
(* and WorkflowRun are never half built.                                    *)
TypeOK ==
  /\ LedgerTypeOK
  /\ status \in [Runs -> {"ABSENT", "RUNNING", "COMPLETE", "FAILED"}]
  /\ pipeline \in [Runs -> Contents \cup {None}]
  /\ disk \in [Runs -> Contents \cup {None}]
  /\ result \in [Runs -> Results \cup {None}]
  /\ sendAttempted \in [Runs -> BOOLEAN]
  /\ profileApproval \in [Runs -> Bindings \cup {None}]
  /\ sendState \in [Runs -> {"SENT", "SEND_FAILED", None}]
  /\ attempted \in [Runs -> SUBSET Claims]
  /\ searches \in [Runs -> SUBSET Searches]
  /\ handler \in Handlers \cup {None}
  /\ viewed \in [Runs -> Bindings \cup {None}]
  /\ outbox \in [Runs -> Seq(Dispatches)]

(* A send is irreversible: whatever searches, changed files, failures and   *)
(* further requests do, the eSign service is called at most once for a run. *)
AtMostOneDispatch == \A r \in Runs : Len(outbox[r]) <= 1

(* Nothing leaves the building unrecorded: when something was dispatched    *)
(* the run says it was sent or that the send failed, and holds the approval *)
(* that authorized that very dispatch; and SENT is said only of a dispatch. *)
DispatchIsRecorded ==
  \A r \in Runs :
    /\ outbox[r] # <<>> =>
         /\ sendState[r] # None
         /\ \A i \in 1..Len(outbox[r]) : outbox[r][i].approved = profileApproval[r]
    /\ sendState[r] = "SENT" => outbox[r] # <<>>

(* A run whose approval was followed by a late public evidence result: its  *)
(* workflow was replaced by one that knows nothing of the approval.         *)
Overtaken(r) ==
  profileApproval[r] # None /\ result[r].workflow.state \notin ApprovedStates

VerifiesNow(r, receipt) ==
  ReceiptVerifies(receipt, disk[r], Decision(r).binding,
                  IF receipt.approval = None THEN None ELSE profileApproval[r])

(* POST .../receipt/verify on an honest run: a complete run whose PDF is    *)
(* the decided one always has a latest receipt that verifies and tells the  *)
(* outcome of the send, through every re-evaluation, approval and send      *)
(* (Overtaken is the known exception; so is a send the service answers      *)
(* without a folder identifier, see FolderIds).                             *)
LatestReceiptIsTrue ==
  \A r \in Runs :
    Complete(r) /\ disk[r] = Decision(r).binding.pdf /\ ~Overtaken(r) =>
      /\ HasReceipt(r)
      /\ VerifiesNow(r, LatestReceipt(r))
      /\ LatestReceipt(r).esign =
           IF sendState[r] = None THEN "NOT_ATTEMPTED" ELSE sendState[r]

(* A receipt that says SENT can be relied on: there was a dispatch, made    *)
(* under the approval the receipt names, of a READY decision on the same    *)
(* binding.                                                                 *)
SentReceiptsAreEarned ==
  \A a \in IssuedReceipts : a.esign = "SENT" =>
    /\ a.outcome = "READY_FOR_APPROVAL"
    /\ a.approval = a.binding
    /\ \E i \in 1..Len(outbox[a.run]) : outbox[a.run][i].approved = a.binding

(* GET .../receipt.pdf serves the PDF of the receipt of the decision the    *)
(* run shows, never of one that a re-evaluation or a send has superseded    *)
(* while the PDF was being generated.                                       *)
ServedReceiptPdfIsCurrent ==
  \A r \in Runs : Complete(r) /\ ServedReceiptPdf(r) # None /\ ~Overtaken(r) =>
    \E i \in 1..Len(history[r]) :
      /\ history[r][i].hash = ServedReceiptPdf(r)
      /\ history[r][i].binding = Decision(r).binding
      /\ \A j \in 1..Len(history[r]) : j <= i

(* Two searches of a run never lose each other's sources: the bundle a      *)
(* result is decided on only grows.                                         *)
EvidenceOnlyGrows ==
  [][\A r \in Runs : result[r] # None =>
       /\ result'[r] # None
       /\ result[r].workflow.decision.binding.evidence
            \subseteq result'[r].workflow.decision.binding.evidence]_vars

(* What a dispatch is made under: at the step that calls the sender the     *)
(* run's current decision is READY and the approval is bound to exactly it. *)
DispatchIsAuthorized ==
  [][\A r \in Runs : outbox'[r] # outbox[r] =>
       /\ Decision(r).outcome = "READY_FOR_APPROVAL"
       /\ Len(outbox'[r]) = Len(outbox[r]) + 1
       /\ outbox'[r][Len(outbox'[r])].approved = Decision(r).binding
       /\ profileApproval'[r] = Decision(r).binding]_vars

(* A public evidence search ends, whatever the approval handler, the        *)
(* providers and the file system do meanwhile.                              *)
SearchesEnd == \A r \in Runs : searches[r] # {} ~> searches[r] = {}

(* A run that begins to be approved is settled: the request ends with the   *)
(* send recorded, or with nothing dispatched and nothing ever to be.        *)
ApprovalIsSettled ==
  \A r \in Runs : sendAttempted[r] ~>
    [](/\ (handler # None => handler.run # r)
       /\ (sendState[r] # None \/ outbox[r] = <<>>))

(* The approval boundary as AuthorizedSend sees it: a run is closed once    *)
(* its attempt is spent and no handler works on it any more.                *)
RunDecision == [r \in Runs |-> IF result[r] = None THEN None ELSE Decision(r)]
RunClosed ==
  [r \in Runs |-> sendAttempted[r] /\ (handler = None \/ handler.run # r)]
RunSent ==
  [r \in Runs |-> IF outbox[r] = <<>> THEN None ELSE outbox[r][1].approved]

Abstract == INSTANCE AuthorizedSend
              WITH decision <- RunDecision, closed <- RunClosed, sent <- RunSent

(* The run control implements the promise: every step is a decision, the    *)
(* one attempt of the run, or invisible.                                    *)
ImplementsAuthorizedSend == Abstract!SendSpec

(* Run r as RunDecisions sees it: every claim has a verdict, and a claim    *)
(* that the bundle has public sources for has been searched.                *)
InForce(r) ==
  IF result[r] = None
  THEN None
  ELSE [verdicts |-> result[r].verdict, ambiguous |-> result[r].ambiguous,
        searched |-> Decision(r).binding.evidence,
        pdf |-> Decision(r).binding.pdf, outcome |-> Decision(r).outcome]

Decided(r) == INSTANCE RunDecisions
                WITH EligibleClaims <- Eligible,
                     verified <- pipeline[r], decision <- InForce(r)

(* Every run is decided as RunDecisions says, whatever approvals, searches, *)
(* file changes and other runs come in between: in particular the sources   *)
(* and verdicts of one search are never lost to another.                    *)
ImplementsRunDecisions ==
  /\ \A r \in Runs : Decided(r)!DecisionInit
  /\ [][\A r \in Runs : [Decided(r)!DecisionNext]_(Decided(r)!decisionVars)]_vars

-----------------------------------------------------------------------------
(* The inductive invariant behind the theorems of RunControl_proofs.        *)

(* The run an approval handler works on is complete, its workflow is in the *)
(* handler's step, the approval is bound to its READY decision, and nothing *)
(* was sent or recorded yet.                                                *)
HandlerOwnsRun ==
  handler # None =>
    LET r == handler.run
    IN /\ Complete(r)
       /\ result[r].workflow.state = handler.step
       /\ Decision(r).outcome = "READY_FOR_APPROVAL"
       /\ Decision(r).binding = handler.approval
       /\ viewed[r] # None
       /\ sendAttempted[r]
       /\ outbox[r] = <<>> /\ sendState[r] = None /\ profileApproval[r] = None

NothingBeforeAttempt ==
  \A r \in Runs : ~sendAttempted[r] =>
    outbox[r] = <<>> /\ sendState[r] = None /\ profileApproval[r] = None

ReadyIsDecided ==
  \A r \in Runs :
    result[r] # None /\ result[r].workflow.state = "READY_FOR_APPROVAL"
      => Decision(r).outcome = "READY_FOR_APPROVAL"

SendSafety ==
  /\ HandlerOwnsRun /\ NothingBeforeAttempt /\ ReadyIsDecided
  /\ DispatchIsRecorded /\ AtMostOneDispatch

SendInv == TypeOK /\ SendSafety

-----------------------------------------------------------------------------
(* What the documents say, and the code does not keep (see README).         *)

(* "Public evidence cannot change an approved or sent run" (web/app.py):    *)
(* once a human's approval is recorded the result stays what was approved.  *)
ApprovedRunIsFrozen ==
  [][\A r \in Runs : profileApproval[r] # None => result'[r] = result[r]]_vars

(* "the button authorizes the exact hashes currently under review"          *)
(* (docs/devpost.md): what was approved and dispatched is what the human    *)
(* who approved had seen.                                                   *)
ReviewedIsApproved ==
  \A r \in Runs : \A i \in 1..Len(outbox[r]) :
    outbox[r][i].reviewed = outbox[r][i].approved

(* "ambiguous or insufficient extraction remains fail-closed" (README): a   *)
(* run with an ambiguous critical claim is not ready for approval.          *)
AmbiguousStaysBlocked ==
  \A r \in Runs : result[r] # None /\ result[r].ambiguous \cap Critical # {}
    => Decision(r).outcome = "BLOCKED"

(* "The current PDF differs from the PDF that was verified" is a blocker    *)
(* (domain/policy.py): a decision is only ever about the PDF whose text the *)
(* claims were extracted from.                                              *)
DecisionKeepsVerifiedPdf ==
  [][\A r \in Runs : result[r] # None =>
       result'[r].workflow.decision.binding.pdf
         = result[r].workflow.decision.binding.pdf]_vars
=============================================================================
