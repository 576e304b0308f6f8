------------------------------ MODULE RunAudit ------------------------------
(***************************************************************************)
(* What the receipts of a run still prove later: the replay of a           *)
(* historical receipt against the present state of its run                 *)
(* (replay/verifier.py, the replay handler of web/app.py) and the audit    *)
(* timeline told from the receipts alone (replay/timeline.py).  Both are   *)
(* read-only, so they are operators over the state of RunControl.          *)
(*                                                                         *)
(* A stored receipt is immutable and is selected by its own hash, so the   *)
(* integrity and selection checks never fail and INVALID_RECEIPT is left   *)
(* out.                                                                    *)
(***************************************************************************)
EXTENDS RunControl, SequencesExt

CONSTANT Drifted  \* what a drift preset puts in place of an observed hash

ASSUME DriftedIsNoHash ==
  /\ Drifted \notin Contents /\ Drifted # None
  /\ \A e \in EvidenceSets : Drifted # e
  /\ Drifted \notin Bindings
  /\ Drifted \notin Nat

Presets ==
  {"CLEAN_REPLAY", "PDF_DRIFT", "EVIDENCE_DRIFT", "POLICY_DRIFT",
   "BROKEN_CHAIN", "ACTION_PARAMETER_DRIFT"}

FaultySnapshot(r, receipt) ==
  [pdf |-> disk[r], evidence |-> receipt.binding.evidence,
   action |-> receipt.binding, approval |-> receipt.approval,
   esign |-> receipt.esign, previous |-> receipt.previous, sameProfile |-> TRUE]

(* The present, observed for one receipt: the file, the evidence and the    *)
(* signing action of the run's current result; but the approval, the eSign  *)
(* record and the chain link as they were stored beside the receipt.  The   *)
(* action's hash covers the claims, the profile and the decision's binding, *)
(* of which only the binding changes during a run.                          *)
Snapshot(r, receipt) ==
  [pdf |-> disk[r], evidence |-> Decision(r).binding.evidence,
   action |-> Decision(r).binding, approval |-> receipt.approval,
   esign |-> receipt.esign, previous |-> receipt.previous, sameProfile |-> TRUE]

(* A preset replaces one observed value, and nothing of the run.            *)
ApplyPreset(s, preset) ==
  CASE preset = "PDF_DRIFT" -> [s EXCEPT !.pdf = Drifted]
    [] preset = "EVIDENCE_DRIFT" -> [s EXCEPT !.evidence = Drifted]
    [] preset = "POLICY_DRIFT" -> [s EXCEPT !.sameProfile = FALSE]
    [] preset = "BROKEN_CHAIN" -> [s EXCEPT !.previous = Drifted]
    [] preset = "ACTION_PARAMETER_DRIFT" -> [s EXCEPT !.action = Drifted]
    [] OTHER -> s

FaultyReplayBlockers(receipt, s) ==
  LET fails ==
        [PDF_ARTIFACT_MISSING |-> s.pdf = None,
         EVIDENCE_HASH_MISMATCH |-> s.evidence # receipt.binding.evidence,
         POLICY_PROFILE_HASH_MISMATCH |-> ~s.sameProfile,
         ACTION_DRIFT |-> s.action # receipt.binding,
         APPROVAL_BINDING_MISMATCH |-> s.approval # receipt.approval,
         ESIGN_STATE_MISMATCH |-> s.esign # receipt.esign,
         PREVIOUS_RECEIPT_CHAIN_MISMATCH |-> s.previous # receipt.previous]
  IN {code \in DOMAIN fails : fails[code]}

(* ReplayVerifier.verify: every check runs, whichever failed before.  The   *)
(* source identifiers and the provenance follow the evidence.               *)
ReplayBlockers(receipt, s) ==
  LET fails ==
        [PDF_ARTIFACT_MISSING |-> s.pdf = None,
         PDF_HASH_MISMATCH |-> s.pdf # receipt.binding.pdf,
         EVIDENCE_HASH_MISMATCH |-> s.evidence # receipt.binding.evidence,
         POLICY_PROFILE_HASH_MISMATCH |-> ~s.sameProfile,
         ACTION_DRIFT |-> s.action # receipt.binding,
         APPROVAL_BINDING_MISMATCH |-> s.approval # receipt.approval,
         ESIGN_STATE_MISMATCH |-> s.esign # receipt.esign,
         PREVIOUS_RECEIPT_CHAIN_MISMATCH |-> s.previous # receipt.previous]
  IN {code \in DOMAIN fails : fails[code]}

(* ReplayVerifier._status: one status, in this order of precedence.         *)
ReplayStatus(blockers) ==
  IF blockers = {} THEN "VERIFIED"
  ELSE IF "PREVIOUS_RECEIPT_CHAIN_MISMATCH" \in blockers THEN "CHAIN_BROKEN"
  ELSE IF "PDF_ARTIFACT_MISSING" \in blockers THEN "ARTIFACT_MISSING"
  ELSE "DRIFT_DETECTED"

(* POST .../replay of a receipt of run r.                                   *)
ReplayOf(r, receipt, preset) ==
  ReplayBlockers(receipt, ApplyPreset(Snapshot(r, receipt), preset))

ReplayVerifies(r, receipt) ==
  ReplayStatus(ReplayOf(r, receipt, "CLEAN_REPLAY")) = "VERIFIED"

-----------------------------------------------------------------------------
(* The audit timeline: the kinds of its events.                             *)

(* A receipt of a send, of a decision on sources the previous receipt did   *)
(* not have, or of a verification.                                          *)
ReceiptEvent(receipts, i) ==
  LET before == IF i = 1 THEN {} ELSE receipts[i - 1].binding.evidence
  IN IF receipts[i].esign # "NOT_ATTEMPTED"
     THEN "SEND_RECEIPT"
     ELSE IF receipts[i].binding.evidence \ before # {}
          THEN "PUBLIC_EVIDENCE_REEVALUATION"
          ELSE "VERIFICATION_RECEIPT"

(* The events of the i-th receipt: the first approved receipt is preceded   *)
(* by the approval, a receipt of a send by the attempt.                     *)
EventsOf(receipts, i) ==
  LET firstApproved == /\ receipts[i].approval # None
                       /\ \A j \in 1..(i - 1) : receipts[j].approval = None
      ofSend == receipts[i].esign # "NOT_ATTEMPTED"
  IN (IF firstApproved THEN <<"HUMAN_APPROVAL">> ELSE <<>>)
     \o (IF ofSend THEN <<"ESIGN_ATTEMPT">> ELSE <<>>)
     \o <<ReceiptEvent(receipts, i)>>

(* build_audit_timeline *)
Timeline(receipts) ==
  <<"RUN_CREATED">>
    \o FlattenSeq([i \in 1..Len(receipts) |-> EventsOf(receipts, i)])

-----------------------------------------------------------------------------
(* Properties.                                                              *)

(* Two endpoints judge the newest receipt with different checks: POST       *)
(* .../replay compares it with the run's current action, POST               *)
(* .../receipt/verify with the run's current approval.  They never          *)
(* disagree, whatever searches, sends and file changes came in between.     *)
ReplayAgreesWithVerify ==
  \A r \in Runs : HasReceipt(r) =>
    (ReplayVerifies(r, LatestReceipt(r)) <=> VerifiesNow(r, LatestReceipt(r)))

(* A receipt, however old, that replays VERIFIED still speaks for the run:  *)
(* the decision in force has its binding and its outcome, and the file is   *)
(* the decided one.  A receipt that a re-evaluation superseded never does,  *)
(* nor does any receipt under a drift preset.                               *)
VerifiedReplayIsCurrent ==
  \A r \in Runs : \A i \in 1..Len(history[r]) : \A preset \in Presets :
    ReplayStatus(ReplayOf(r, history[r][i], preset)) = "VERIFIED" =>
      /\ preset = "CLEAN_REPLAY"
      /\ Decision(r).binding = history[r][i].binding
      /\ Decision(r).outcome = history[r][i].outcome
      /\ disk[r] = Decision(r).binding.pdf

(* The timeline tells the life of a run in its order: one verification,     *)
(* then re-evaluations, and last, if and only if a send was recorded, one   *)
(* approval, one attempt and one send receipt.  A search that lands after   *)
(* the send adds nothing.                                                   *)
TimelineTellsLifecycle ==
  \A r \in Runs : Complete(r) =>
    LET ending == IF sendState[r] = None THEN <<>>
                  ELSE <<"HUMAN_APPROVAL", "ESIGN_ATTEMPT", "SEND_RECEIPT">>
        before == <<"RUN_CREATED", "VERIFICATION_RECEIPT">>
        events == Timeline(history[r])
        reevaluations == Len(events) - Len(before) - Len(ending)
    IN /\ reevaluations >= 0
       /\ events = before
            \o [i \in 1..reevaluations |-> "PUBLIC_EVIDENCE_REEVALUATION"]
            \o ending
=============================================================================
