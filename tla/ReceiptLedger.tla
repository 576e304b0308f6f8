--------------------------- MODULE ReceiptLedger ---------------------------
(***************************************************************************)
(* Decision Receipts: the hash chain that RunRegistry threads through all  *)
(* runs (web/app.py), the validator every new receipt passes               *)
(* (audit/models.py), the verification of a stored receipt against the     *)
(* current state (audit/receipts.py) and the receipt PDF that is generated *)
(* for the latest receipt of a run (web/app.py, audit/pdf.py).             *)
(*                                                                         *)
(* A receipt hash covers the previous hash, the run and the issue time, so *)
(* no two receipts collide: the model numbers them.                        *)
(***************************************************************************)
EXTENDS WorkflowRun, Naturals, Sequences

CONSTANT Runs     \* run identifiers

ASSUME NoneIsNoHash == None \notin Nat

VARIABLES
  history,        \* run -> its receipts, oldest first (DemoRun.receipt_history)
  lastReceipt,    \* hash of the newest receipt of any run, 0 before the first
  receiptCount,   \* number of receipts issued
  receiptJob,     \* run -> receipt hash whose PDF is being generated, or None
  receiptPdf      \* run -> receipt hash whose PDF was generated last, or None

ledgerVars == <<history, lastReceipt, receiptCount, receiptJob, receiptPdf>>

ESignStatuses == {"NOT_ATTEMPTED", "SENT", "SEND_FAILED"}

Receipts ==
  [run : Runs, sequence : Nat, hash : Nat, previous : Nat, binding : Bindings,
   outcome : Outcomes, state : WorkflowStates,
   approval : Bindings \cup {None}, esign : ESignStatuses]

LedgerInit ==
  /\ history = [r \in Runs |-> <<>>]
  /\ lastReceipt = 0
  /\ receiptCount = 0
  /\ receiptJob = [r \in Runs |-> None]
  /\ receiptPdf = [r \in Runs |-> None]

HasReceipt(r) == history[r] # <<>>
LatestReceipt(r) == history[r][Len(history[r])]

(* The eSign status a receipt must carry in a given workflow state. *)
ExpectedESign(state) ==
  IF state \in {"SENT", "SEND_FAILED"} THEN state ELSE "NOT_ATTEMPTED"

(* The folder identifier of a receipt without one, or of an empty answer of *)
(* the eSign service: the validator treats both alike.                      *)
NoFolder == ""

FaultyReceiptIsValid(w, approval, esign, folder) ==
  /\ approval # None <=> w.state \in ApprovedStates \ {"SEND_FAILED"}
  /\ esign = ExpectedESign(w.state)
  /\ esign = "SENT" <=> folder # NoFolder

(* DecisionReceipt and ReceiptESignSummary validation: a receipt that fails *)
(* it is never built, issue_receipt raises and the request ends in HTTP 500. *)
ReceiptIsValid(w, approval, esign, folder) ==
  /\ approval # None <=> w.state \in ApprovedStates
  /\ esign = ExpectedESign(w.state)
  /\ esign = "SENT" <=> folder # NoFolder

NewReceipt(r, w, approval, esign) ==
  [run |-> r, sequence |-> receiptCount + 1, hash |-> receiptCount + 1,
   previous |-> lastReceipt, binding |-> w.decision.binding,
   outcome |-> w.decision.outcome, state |-> w.state,
   approval |-> approval, esign |-> esign]

FaultyIssueReceipt(r, w, approval, esign, folder) ==
  IF ReceiptIsValid(w, approval, esign, folder)
  THEN /\ history' = [history EXCEPT ![r] = Append(@, NewReceipt(r, w, approval, esign))]
       /\ receiptCount' = receiptCount + 1
       /\ receiptPdf' = [receiptPdf EXCEPT ![r] = None]
       /\ UNCHANGED <<lastReceipt, receiptJob>>
  ELSE UNCHANGED ledgerVars

(* RunRegistry.issue_receipt for the workflow w of run r.  The counter and  *)
(* the tail of the chain move only when the receipt could be built; the PDF *)
(* of the receipt it supersedes is forgotten.                               *)
IssueReceipt(r, w, approval, esign, folder) ==
  IF ReceiptIsValid(w, approval, esign, folder)
  THEN LET receipt == NewReceipt(r, w, approval, esign)
       IN /\ history' = [history EXCEPT ![r] = Append(@, receipt)]
          /\ receiptCount' = receiptCount + 1
          /\ lastReceipt' = receipt.hash
          /\ receiptPdf' = [receiptPdf EXCEPT ![r] = None]
          /\ UNCHANGED receiptJob
  ELSE UNCHANGED ledgerVars

(* POST .../receipt/pdf: the latest receipt is read under receipt_lock and  *)
(* the generator is awaited; a newer receipt may be issued meanwhile.       *)
StartReceiptPdf(r) ==
  /\ HasReceipt(r)
  /\ receiptJob[r] = None
  /\ receiptJob' = [receiptJob EXCEPT ![r] = LatestReceipt(r).hash]
  /\ UNCHANGED <<history, lastReceipt, receiptCount, receiptPdf>>

FinishReceiptPdf(r) ==
  /\ receiptJob[r] # None
  /\ receiptJob' = [receiptJob EXCEPT ![r] = None]
  /\ \/ receiptPdf' = [receiptPdf EXCEPT ![r] = receiptJob[r]]
     \/ UNCHANGED receiptPdf      \* the generator failed: HTTP 502
  /\ UNCHANGED <<history, lastReceipt, receiptCount>>

FaultyServedReceiptPdf(r) == IF HasReceipt(r) THEN receiptPdf[r] ELSE None

(* GET .../receipt.pdf: the receipt whose PDF is served, None for HTTP 404. *)
ServedReceiptPdf(r) ==
  IF HasReceipt(r) /\ receiptPdf[r] = LatestReceipt(r).hash
  THEN receiptPdf[r]
  ELSE None

(* verify_receipt: the bytes on disk, the evidence of the run's result and  *)
(* the approval record, each against the receipt.  The chain link is        *)
(* compared with the value stored beside the receipt when it was issued.    *)
ReceiptVerifies(receipt, diskContent, binding, approval) ==
  /\ diskContent = receipt.binding.pdf
  /\ binding.evidence = receipt.binding.evidence
  /\ receipt.approval = approval
  /\ receipt.approval # None => receipt.approval = receipt.binding

LedgerTypeOK ==
  /\ history \in [Runs -> Seq(Receipts)]
  /\ lastReceipt \in Nat
  /\ receiptCount \in Nat
  /\ receiptJob \in [Runs -> Nat \cup {None}]
  /\ receiptPdf \in [Runs -> Nat \cup {None}]

IssuedReceipts == UNION {{history[r][i] : i \in 1..Len(history[r])} : r \in Runs}

(* The receipts of all runs form one chain: sequence numbers are 1..n, each *)
(* used once, every receipt names the one issued just before it, whichever  *)
(* run that was, and the tail is the last one.                              *)
ChainIsLinear ==
  /\ \A a, b \in IssuedReceipts : a.sequence = b.sequence => a = b
  /\ {a.sequence : a \in IssuedReceipts} = 1..receiptCount
  /\ \A a \in IssuedReceipts :
        \/ a.sequence = 1 /\ a.previous = 0
        \/ \E b \in IssuedReceipts :
             b.sequence + 1 = a.sequence /\ b.hash = a.previous
  /\ \A a \in IssuedReceipts : a.sequence = receiptCount => a.hash = lastReceipt
  /\ \A r \in Runs : \A i, j \in 1..Len(history[r]) :
        i < j => history[r][i].sequence < history[r][j].sequence
=============================================================================
