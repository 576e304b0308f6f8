------------------------- MODULE RunReceipts_proofs -------------------------
(***************************************************************************)
(* Theorems about the receipts of RunControl and about their replay in     *)
(* RunAudit, for any runs, claims, contents and folder identifiers: the    *)
(* hash chain over all runs, what the receipts of a run say of it, and, on *)
(* the same invariant, that every run is decided as RunDecisions says.     *)
(***************************************************************************)
EXTENDS RunAudit, RunControl_proofs, SequenceLemmas

(* The chain, as it grows: the hash of a receipt is its number, the tail is *)
(* the last number, and every number is used, by one receipt only.          *)
ChainInv ==
  /\ lastReceipt = receiptCount
  /\ \A r \in Runs : \A i \in 1..Len(history[r]) :
       /\ history[r][i].hash = history[r][i].sequence
       /\ history[r][i].sequence \in 1..receiptCount
       /\ history[r][i].previous = history[r][i].sequence - 1
  /\ \A r \in Runs : \A i, j \in 1..Len(history[r]) :
       i < j => history[r][i].sequence < history[r][j].sequence
  /\ \A q, r \in Runs : \A i \in 1..Len(history[q]), j \in 1..Len(history[r]) :
       history[q][i].sequence = history[r][j].sequence => q = r
  /\ \A n \in 1..receiptCount :
       \E r \in Runs : \E i \in 1..Len(history[r]) : history[r][i].sequence = n

(* Before a run is complete it has no result, and nothing that needs one.   *)
NothingBeforeCompletion(r) ==
  status[r] # "COMPLETE" =>
    /\ result[r] = None /\ history[r] = <<>> /\ ~sendAttempted[r]
    /\ searches[r] = {} /\ attempted[r] = {}

(* A search works on the bundle in force, alone, for a claim whose sources  *)
(* that bundle lacks.                                                       *)
SearchesAreFresh(r) ==
  /\ result[r] # None => Decision(r).binding.evidence \subseteq attempted[r]
  /\ \A s, t \in searches[r] : s = t
  /\ \A s \in searches[r] :
       /\ result[r] # None
       /\ s.base.workflow.decision.binding.evidence = Decision(r).binding.evidence
       /\ s.claim \in attempted[r] \ Decision(r).binding.evidence

(* What any receipt a of a run says, compared with the decision d in force, *)
(* the approval p and the dispatches of the run.                            *)
HonestAbout(a, d, p, dispatches) ==
  /\ a.binding.evidence \subseteq d.binding.evidence
  /\ a.binding = d.binding => a.outcome = d.outcome
  /\ a.approval # None => a.approval = p /\ a.approval = a.binding
  /\ a.esign = "SENT" =>
       /\ a.approval # None
       /\ a.outcome = "READY_FOR_APPROVAL"
       /\ \E i \in 1..Len(dispatches) : dispatches[i].approved = a.binding

ReceiptsAreHonest(r) ==
  \A i \in 1..Len(history[r]) :
    /\ result[r] # None
    /\ history[r][i].run = r
    /\ HonestAbout(history[r][i], Decision(r), profileApproval[r], outbox[r])

(* The newest receipt is about the decision in force, unless a search was   *)
(* late; then the bundle has outgrown it.                                   *)
NewestReceiptIsCurrent(r) ==
  result[r] # None =>
    /\ HasReceipt(r)
    /\ IF Overtaken(r)
       THEN LatestReceipt(r).binding.evidence # Decision(r).binding.evidence
       ELSE LatestReceipt(r).binding = Decision(r).binding

(* The newest receipt tells the outcome of the send.                        *)
NewestReceiptTellsSend(r) ==
  result[r] # None /\ ~Overtaken(r) =>
    LatestReceipt(r).esign = IF sendState[r] = None THEN "NOT_ATTEMPTED" ELSE sendState[r]

(* The books of a run; without a folder identifier for every envelope a     *)
(* receipt of a send may be missing.                                        *)
Books(r) ==
  /\ NothingBeforeCompletion(r)
  /\ status[r] = "COMPLETE" => result[r] # None
  /\ SearchesAreFresh(r)
  /\ ReceiptsAreHonest(r)
  /\ profileApproval[r] = None <=> sendState[r] = None
  /\ NewestReceiptIsCurrent(r)
  /\ NoFolder \notin FolderIds => NewestReceiptTellsSend(r)

BooksInv == \A r \in Runs : Books(r)

-----------------------------------------------------------------------------
(* What issuing a receipt does.                                             *)

LEMMA NewReceiptFields ==
  ASSUME LedgerTypeOK, NEW r \in Runs, NEW w \in Workflows, w.decision \in Decisions,
         NEW approval \in Bindings \cup {None}, NEW esign \in ESignStatuses
  PROVE  LET new == NewReceipt(r, w, approval, esign)
         IN /\ new \in Receipts
            /\ new.run = r
            /\ new.sequence = receiptCount + 1 /\ new.hash = receiptCount + 1
            /\ new.previous = lastReceipt
            /\ new.binding = w.decision.binding /\ new.outcome = w.decision.outcome
            /\ new.approval = approval /\ new.esign = esign
BY DEF NewReceipt, Receipts, Decisions, Workflows, LedgerTypeOK

(* A receipt is appended to the receipts of its run.                        *)
LEMMA AppendedReceipt ==
  ASSUME LedgerTypeOK, NEW r \in Runs, NEW new \in Receipts,
         history' = [history EXCEPT ![r] = Append(@, new)]
  PROVE  /\ history'[r] = Append(history[r], new)
         /\ \A q \in Runs \ {r} : history'[q] = history[q]
         /\ Len(history[r]) \in Nat
         /\ Len(history'[r]) = Len(history[r]) + 1
         /\ \A i \in 1..Len(history'[r]) :
              \/ i = Len(history'[r]) /\ history'[r][i] = new
              \/ i \in 1..Len(history[r]) /\ history'[r][i] = history[r][i]
         /\ \A i \in 1..Len(history[r]) : history'[r][i] = history[r][i]
         /\ HasReceipt(r)' /\ LatestReceipt(r)' = new
<1>1. history[r] \in Seq(Receipts)
  BY DEF LedgerTypeOK
<1>2. history'[r] = Append(history[r], new)
  BY DEF LedgerTypeOK
<1>3. \A q \in Runs \ {r} : history'[q] = history[q]
  BY DEF LedgerTypeOK
<1> QED
  BY <1>1, <1>2, <1>3 DEF HasReceipt, LatestReceipt

(* The chain grows by its next number, or not at all.                       *)
LEMMA IssueKeepsChain ==
  ASSUME LedgerTypeOK, ChainInv, NEW r \in Runs, NEW w \in Workflows,
         w.decision \in Decisions, NEW approval \in Bindings \cup {None},
         NEW esign \in ESignStatuses, NEW folder,
         IssueReceipt(r, w, approval, esign, folder)
  PROVE  ChainInv'
<1> DEFINE new == NewReceipt(r, w, approval, esign)
<1>1. CASE ~ReceiptIsValid(w, approval, esign, folder)
  BY <1>1 DEF IssueReceipt, ChainInv, ledgerVars
<1>2. CASE ReceiptIsValid(w, approval, esign, folder)
  <2>1. /\ history' = [history EXCEPT ![r] = Append(@, new)]
        /\ receiptCount' = receiptCount + 1
        /\ lastReceipt' = new.hash
    BY <1>2 DEF IssueReceipt
  <2>2. /\ new \in Receipts
        /\ new.sequence = receiptCount + 1 /\ new.hash = receiptCount + 1
        /\ new.previous = lastReceipt
    BY NewReceiptFields
  <2> HIDE DEF new
  <2>3. receiptCount \in Nat
    BY DEF LedgerTypeOK
  <2>4. /\ \A q \in Runs \ {r} : history'[q] = history[q]
        /\ Len(history[r]) \in Nat
        /\ Len(history'[r]) = Len(history[r]) + 1
        /\ \A i \in 1..Len(history'[r]) :
             \/ i = Len(history'[r]) /\ history'[r][i] = new
             \/ i \in 1..Len(history[r]) /\ history'[r][i] = history[r][i]
        /\ \A i \in 1..Len(history[r]) : history'[r][i] = history[r][i]
    BY <2>1, <2>2, AppendedReceipt
  <2>5. (lastReceipt = receiptCount)'
    BY <2>1, <2>2
  <2>10. ASSUME NEW q \in Runs, NEW i \in 1..Len(history'[q])
         PROVE  \/ q = r /\ i = Len(history'[r]) /\ history'[q][i] = new
                \/ i \in 1..Len(history[q]) /\ history'[q][i] = history[q][i]
    <3>1. CASE q = r
      BY <2>4, <3>1
    <3>2. CASE q # r
      BY <2>4, <3>2
    <3> QED
      BY <3>1, <3>2
  <2>6. (\A q \in Runs : \A i \in 1..Len(history[q]) :
           /\ history[q][i].hash = history[q][i].sequence
           /\ history[q][i].sequence \in 1..receiptCount
           /\ history[q][i].previous = history[q][i].sequence - 1)'
    <3> SUFFICES ASSUME NEW q \in Runs, NEW i \in 1..Len(history'[q])
                 PROVE  /\ history'[q][i].hash = history'[q][i].sequence
                        /\ history'[q][i].sequence \in 1..receiptCount'
                        /\ history'[q][i].previous = history'[q][i].sequence - 1
      OBVIOUS
    <3>1. CASE history'[q][i] = new
      BY <2>1, <2>2, <2>3, <3>1 DEF ChainInv
    <3>2. CASE i \in 1..Len(history[q]) /\ history'[q][i] = history[q][i]
      BY <2>1, <2>3, <3>2 DEF ChainInv
    <3> QED
      BY <2>10, <3>1, <3>2
  <2>7. (\A q \in Runs : \A i, j \in 1..Len(history[q]) :
           i < j => history[q][i].sequence < history[q][j].sequence)'
    BY <2>1, <2>2, <2>3, <2>4 DEF ChainInv
  <2>8. (\A p, q \in Runs : \A i \in 1..Len(history[p]), j \in 1..Len(history[q]) :
           history[p][i].sequence = history[q][j].sequence => p = q)'
    <3>1. ASSUME NEW q \in Runs, NEW i \in 1..Len(history'[q])
          PROVE  \/ q = r /\ history'[q][i].sequence = receiptCount + 1
                 \/ /\ i \in 1..Len(history[q]) /\ history'[q][i] = history[q][i]
                    /\ history[q][i].sequence \in 1..receiptCount
      BY <2>2, <2>10 DEF ChainInv
    <3>2. \A p, q \in Runs : \A i \in 1..Len(history[p]), j \in 1..Len(history[q]) :
            history[p][i].sequence = history[q][j].sequence => p = q
      BY DEF ChainInv
    <3>3. SUFFICES ASSUME NEW p \in Runs, NEW q \in Runs, NEW i \in 1..Len(history'[p]),
                          NEW j \in 1..Len(history'[q]),
                          history'[p][i].sequence = history'[q][j].sequence
                   PROVE  p = q
      OBVIOUS
    <3>4. ~(receiptCount + 1 \in 1..receiptCount)
      BY <2>3
    <3>5. CASE p = r /\ history'[p][i].sequence = receiptCount + 1
      BY <3>1, <3>3, <3>4, <3>5
    <3>6. CASE i \in 1..Len(history[p]) /\ history'[p][i] = history[p][i]
      <4>1. history'[p][i].sequence \in 1..receiptCount
        BY <3>6 DEF ChainInv
      <4>2. j \in 1..Len(history[q]) /\ history'[q][j] = history[q][j]
        BY <3>1, <3>3, <3>4, <4>1
      <4> QED
        BY <3>2, <3>3, <3>6, <4>2
    <3> QED
      BY <3>1, <3>5, <3>6
  <2>9. (\A n \in 1..receiptCount :
           \E q \in Runs : \E i \in 1..Len(history[q]) : history[q][i].sequence = n)'
    <3> SUFFICES ASSUME NEW n \in 1..receiptCount'
                 PROVE  \E q \in Runs : \E i \in 1..Len(history'[q]) :
                          history'[q][i].sequence = n
      OBVIOUS
    <3>1. CASE n = receiptCount + 1
      <4>1. Len(history'[r]) \in 1..Len(history'[r])
        BY <2>4
      <4>2. history'[r][Len(history'[r])] = new
        BY <2>4, <4>1
      <4> QED
        BY <3>1, <2>2, <4>1, <4>2
    <3>2. CASE n \in 1..receiptCount
      <4>1. PICK q \in Runs : \E i \in 1..Len(history[q]) : history[q][i].sequence = n
        BY <3>2 DEF ChainInv
      <4>3. PICK i \in 1..Len(history[q]) : history[q][i].sequence = n
        BY <4>1
      <4>2. i \in 1..Len(history'[q]) /\ history'[q][i] = history[q][i]
        BY <2>4
      <4> QED
        BY <4>2, <4>3
    <3> QED
      BY <2>1, <2>3, <3>1, <3>2
  <2> QED
    BY <2>5, <2>6, <2>7, <2>8, <2>9 DEF ChainInv
<1> QED
  BY <1>1, <1>2

(* The chain invariant is what ChainIsLinear says, and a little more.       *)
LEMMA ChainInvIsLinear ==
  ASSUME LedgerTypeOK, ChainInv
  PROVE  ChainIsLinear
<1>1. \A a \in IssuedReceipts : \E r \in Runs : \E i \in 1..Len(history[r]) : a = history[r][i]
  BY DEF IssuedReceipts
<1>2. \A r \in Runs : \A i \in 1..Len(history[r]) : history[r][i] \in IssuedReceipts
  BY DEF IssuedReceipts
<1>3. receiptCount \in Nat /\ \A r \in Runs : Len(history[r]) \in Nat
  BY DEF LedgerTypeOK
<1>4. \A a, b \in IssuedReceipts : a.sequence = b.sequence => a = b
  <2> SUFFICES ASSUME NEW a \in IssuedReceipts, NEW b \in IssuedReceipts,
                      a.sequence = b.sequence
               PROVE  a = b
    OBVIOUS
  <2>6. PICK q \in Runs : \E i \in 1..Len(history[q]) : a = history[q][i]
    BY <1>1
  <2>1. PICK i \in 1..Len(history[q]) : a = history[q][i]
    BY <2>6
  <2>7. PICK r \in Runs : \E j \in 1..Len(history[r]) : b = history[r][j]
    BY <1>1
  <2>2. PICK j \in 1..Len(history[r]) : b = history[r][j]
    BY <2>7
  <2>3. q = r
    BY <2>1, <2>2 DEF ChainInv
  <2>4. ~(i < j) /\ ~(j < i)
    BY <2>1, <2>2, <2>3 DEF ChainInv
  <2>5. i = j
    BY <1>3, <2>3, <2>4
  <2> QED
    BY <2>1, <2>2, <2>3, <2>5
<1>5. {a.sequence : a \in IssuedReceipts} = 1..receiptCount
  <2>1. \A a \in IssuedReceipts : a.sequence \in 1..receiptCount
    BY <1>1 DEF ChainInv
  <2>2. \A n \in 1..receiptCount : \E a \in IssuedReceipts : a.sequence = n
    BY <1>2 DEF ChainInv
  <2> QED
    BY <2>1, <2>2
<1>6. \A a \in IssuedReceipts :
        \/ a.sequence = 1 /\ a.previous = 0
        \/ \E b \in IssuedReceipts : b.sequence + 1 = a.sequence /\ b.hash = a.previous
  <2> SUFFICES ASSUME NEW a \in IssuedReceipts, a.sequence # 1
               PROVE  \E b \in IssuedReceipts :
                        b.sequence + 1 = a.sequence /\ b.hash = a.previous
    BY <1>1 DEF ChainInv
  <2>1. a.sequence \in 1..receiptCount /\ a.previous = a.sequence - 1
    BY <1>1 DEF ChainInv
  <2>2. a.sequence - 1 \in 1..receiptCount
    BY <1>3, <2>1
  <2>5. PICK r \in Runs :
          \E i \in 1..Len(history[r]) : history[r][i].sequence = a.sequence - 1
    BY <2>2 DEF ChainInv
  <2>3. PICK i \in 1..Len(history[r]) : history[r][i].sequence = a.sequence - 1
    BY <2>5
  <2>4. history[r][i].hash = history[r][i].sequence
    BY DEF ChainInv
  <2> QED
    BY <1>2, <1>3, <2>1, <2>3, <2>4
<1>7. \A a \in IssuedReceipts : a.sequence = receiptCount => a.hash = lastReceipt
  BY <1>1 DEF ChainInv
<1>8. \A r \in Runs : \A i, j \in 1..Len(history[r]) :
        i < j => history[r][i].sequence < history[r][j].sequence
  BY DEF ChainInv
<1> QED
  BY <1>4, <1>5, <1>6, <1>7, <1>8 DEF ChainIsLinear

-----------------------------------------------------------------------------
(* The books of a run.                                                      *)

(* Steps that keep the decision, the receipts and the send of a run.        *)
LEMMA SameBooks ==
  ASSUME NEW q \in Runs, Books(q),
         status'[q] = "COMPLETE" <=> status[q] = "COMPLETE",
         result'[q] = None <=> result[q] = None,
         result[q] # None =>
           Decision(q)' = Decision(q) /\ (Overtaken(q)' <=> Overtaken(q)),
         status[q] # "COMPLETE" =>
           ~sendAttempted'[q] /\ searches'[q] = {} /\ attempted'[q] = {},
         SearchesAreFresh(q)',
         history'[q] = history[q], outbox'[q] = outbox[q],
         profileApproval'[q] = profileApproval[q], sendState'[q] = sendState[q]
  PROVE  Books(q)'
<1>1. HasReceipt(q)' = HasReceipt(q) /\ LatestReceipt(q)' = LatestReceipt(q)
  BY DEF HasReceipt, LatestReceipt
<1>2. NothingBeforeCompletion(q)' /\ (status[q] = "COMPLETE" => result[q] # None)'
  BY DEF Books, NothingBeforeCompletion
<1>3. ReceiptsAreHonest(q)'
  BY DEF Books, ReceiptsAreHonest
<1>4. NewestReceiptIsCurrent(q)'
  BY <1>1 DEF Books, NewestReceiptIsCurrent
<1>5. NoFolder \notin FolderIds => NewestReceiptTellsSend(q)'
  BY <1>1 DEF Books, NewestReceiptTellsSend
<1>6. (profileApproval[q] = None <=> sendState[q] = None)'
  BY DEF Books
<1> QED
  BY <1>2, <1>3, <1>4, <1>5, <1>6 DEF Books

(* A run of which nothing changed.                                          *)
LEMMA UntouchedBooks ==
  ASSUME NEW q \in Runs, Books(q),
         status'[q] = status[q], result'[q] = result[q],
         sendAttempted'[q] = sendAttempted[q], searches'[q] = searches[q],
         attempted'[q] = attempted[q], history'[q] = history[q],
         outbox'[q] = outbox[q], profileApproval'[q] = profileApproval[q],
         sendState'[q] = sendState[q]
  PROVE  Books(q)'
<1>1. Decision(q)' = Decision(q) /\ (Overtaken(q)' <=> Overtaken(q))
  BY DEF Decision, Overtaken
<1>2. SearchesAreFresh(q)'
  <2>1. SearchesAreFresh(q)
    BY DEF Books
  <2> QED
    BY <1>1, <2>1 DEF SearchesAreFresh
<1> QED
  BY <1>1, <1>2, SameBooks DEF Books, NothingBeforeCompletion

(* The receipt of a decision is valid exactly while nothing was sent.       *)
LEMMA DecisionReceiptIsValid ==
  ASSUME NEW w, w.state \in Outcomes, NEW approval
  PROVE  ReceiptIsValid(w, approval, "NOT_ATTEMPTED", NoFolder) <=> approval = None
BY DEF Outcomes, ReceiptIsValid, ApprovedStates, ExpectedESign

(* A new decision, with its receipt or after the send.                      *)
LEMMA NewDecisionBooks ==
  ASSUME SendInv, NEW r \in Runs, Books(r), NEW new \in Results,
         new.workflow.state = new.workflow.decision.outcome,
         result' = [result EXCEPT ![r] = new],
         IssueReceipt(r, new.workflow, profileApproval[r], "NOT_ATTEMPTED", NoFolder),
         status'[r] = "COMPLETE",
         new.workflow.decision.binding.evidence \subseteq attempted[r],
         result[r] # None =>
           /\ Decision(r).binding.evidence \subseteq new.workflow.decision.binding.evidence
           /\ Decision(r).binding.evidence # new.workflow.decision.binding.evidence,
         searches'[r] = {},
         UNCHANGED <<sendAttempted, profileApproval, sendState, attempted, outbox>>
  PROVE  Books(r)'
<1> DEFINE w == new.workflow
           receipt == NewReceipt(r, w, profileApproval[r], "NOT_ATTEMPTED")
<1>1. /\ new # None /\ w \in Workflows /\ w.decision \in Decisions
      /\ w.state \in Outcomes
  BY NoneIsNoRunValue DEF Results, Workflows, Decisions
<1>2. result'[r] # None /\ Decision(r)' = w.decision /\ result'[r].workflow.state = w.state
  BY <1>1 DEF SendInv, TypeOK, Decision
<1>3. TypeOK /\ LedgerTypeOK /\ profileApproval[r] \in Bindings \cup {None}
  BY DEF SendInv, TypeOK
<1>4. SearchesAreFresh(r)'
  BY <1>2 DEF SearchesAreFresh
<1>5. (profileApproval[r] = None <=> sendState[r] = None)'
  BY DEF Books
<1>6. \A i \in 1..Len(history[r]) :
        /\ result[r] # None
        /\ history[r][i].run = r
        /\ history[r][i].binding.evidence \subseteq Decision(r).binding.evidence
        /\ HonestAbout(history[r][i], Decision(r), profileApproval[r], outbox[r])
  BY DEF Books, ReceiptsAreHonest, HonestAbout
<1>7. \A i \in 1..Len(history[r]) :
        HonestAbout(history[r][i], w.decision, profileApproval[r], outbox[r])
  BY <1>2, <1>6 DEF HonestAbout
<1>8. CASE profileApproval[r] = None
  <2>1. history' = [history EXCEPT ![r] = Append(@, receipt)]
    BY <1>1, <1>8, DecisionReceiptIsValid DEF IssueReceipt
  <2>2. /\ receipt \in Receipts /\ receipt.run = r
        /\ receipt.binding = w.decision.binding /\ receipt.outcome = w.decision.outcome
        /\ receipt.approval = None /\ receipt.esign = "NOT_ATTEMPTED"
    BY <1>1, <1>3, <1>8, NewReceiptFields DEF ESignStatuses
  <2> HIDE DEF receipt
  <2>3. /\ \A i \in 1..Len(history'[r]) :
             \/ history'[r][i] = receipt
             \/ i \in 1..Len(history[r]) /\ history'[r][i] = history[r][i]
        /\ HasReceipt(r)' /\ LatestReceipt(r)' = receipt
    BY <1>3, <2>1, <2>2, AppendedReceipt
  <2>4. HonestAbout(receipt, w.decision, profileApproval[r], outbox[r])
    BY <2>2 DEF HonestAbout
  <2>5. ReceiptsAreHonest(r)'
    BY <1>2, <1>6, <1>7, <2>2, <2>3, <2>4 DEF ReceiptsAreHonest
  <2>6. ~Overtaken(r)'
    BY <1>8 DEF Overtaken
  <2>7. NewestReceiptIsCurrent(r)'
    BY <1>2, <2>2, <2>3, <2>6 DEF NewestReceiptIsCurrent
  <2>8. NewestReceiptTellsSend(r)'
    BY <1>5, <1>8, <2>2, <2>3 DEF NewestReceiptTellsSend
  <2> QED
    BY <1>2, <1>4, <1>5, <2>5, <2>7, <2>8 DEF Books, NothingBeforeCompletion
<1>9. CASE profileApproval[r] # None
  <2>1. UNCHANGED ledgerVars
    BY <1>1, <1>9, DecisionReceiptIsValid DEF IssueReceipt
  <2>2. sendAttempted[r] /\ status[r] = "COMPLETE" /\ result[r] # None
    BY <1>9 DEF SendInv, SendSafety, NothingBeforeAttempt, Books, NothingBeforeCompletion
  <2>3. history' = history /\ LatestReceipt(r)' = LatestReceipt(r) /\ HasReceipt(r)
    BY <2>1, <2>2 DEF ledgerVars, LatestReceipt, Books, NewestReceiptIsCurrent
  <2>4. Overtaken(r)'
    BY <1>1, <1>2, <1>9 DEF Overtaken, Outcomes, ApprovedStates
  <2>5. LatestReceipt(r).binding.evidence \subseteq Decision(r).binding.evidence
    <3>1. history[r] \in Seq(Receipts) /\ history[r] # <<>>
      BY <1>3, <2>3 DEF LedgerTypeOK, HasReceipt
    <3>2. Len(history[r]) \in 1..Len(history[r])
      BY <3>1
    <3> QED
      BY <1>6, <3>2 DEF LatestReceipt
  <2>6. LatestReceipt(r).binding.evidence # w.decision.binding.evidence
    BY <2>2, <2>5
  <2>7. NewestReceiptIsCurrent(r)'
    BY <1>2, <2>3, <2>4, <2>6 DEF NewestReceiptIsCurrent, HasReceipt
  <2>8. NewestReceiptTellsSend(r)'
    BY <2>4 DEF NewestReceiptTellsSend
  <2>9. ReceiptsAreHonest(r)'
    BY <1>2, <1>6, <1>7, <2>3 DEF ReceiptsAreHonest
  <2> QED
    BY <1>2, <1>4, <1>5, <2>7, <2>8, <2>9 DEF Books, NothingBeforeCompletion
<1> QED
  BY <1>8, <1>9

-----------------------------------------------------------------------------
(* The books, step by step.                                                 *)

(* Replacing the workflow of a run under the same decision, before the send *)
(* is recorded.                                                             *)
LEMMA SameDecisionBooks ==
  ASSUME SendInv, BooksInv, NEW r \in Runs, result[r] # None, NEW w \in Workflows,
         w.decision = Decision(r), result' = WithWorkflow(r, w),
         profileApproval[r] = None,
         UNCHANGED <<status, attempted, searches, profileApproval, sendState,
                     outbox, ledgerVars>>,
         \A q \in Runs : sendAttempted'[q] => sendAttempted[q] \/ q = r
  PROVE  BooksInv'
<1>1. w.decision # None
  BY ResultFields, NoneIsNoValue DEF SendInv
<1>2. /\ result'[r].workflow = w /\ result'[r] # None
      /\ \A q \in Runs \ {r} : result'[q] = result[q]
  BY <1>1, WithWorkflowType DEF SendInv
<1>3. Decision(r)' = Decision(r) /\ ~Overtaken(r) /\ ~Overtaken(r)'
  BY <1>2 DEF Decision, Overtaken
<1>4. ASSUME NEW q \in Runs PROVE Books(q)'
  <2>1. Books(q) /\ Books(r)
    BY DEF BooksInv
  <2>2. status[r] = "COMPLETE"
    BY <2>1 DEF Books, NothingBeforeCompletion
  <2>3. /\ result'[q] = None <=> result[q] = None
        /\ Decision(q)' = Decision(q) /\ (Overtaken(q)' <=> Overtaken(q))
    BY <1>2, <1>3 DEF Decision, Overtaken
  <2>4. SearchesAreFresh(q)'
    <3>1. SearchesAreFresh(q)
      BY <2>1 DEF Books
    <3> QED
      BY <2>3, <3>1 DEF SearchesAreFresh
  <2> QED
    BY <2>1, <2>2, <2>3, <2>4, SameBooks DEF Books, NothingBeforeCompletion, ledgerVars
<1> QED
  BY <1>4 DEF BooksInv

LEMMA ApproveBeginBooks ==
  ASSUME SendInv, BooksInv, NEW r \in Runs, ApproveBegin(r)
  PROVE  BooksInv'
<1> DEFINE a == Decision(r).binding
           w == result[r].workflow
<1>1. /\ result[r] # None /\ status[r] = "COMPLETE" /\ ~sendAttempted[r]
      /\ sendAttempted' = [sendAttempted EXCEPT ![r] = TRUE]
      /\ UNCHANGED <<status, attempted, searches, profileApproval, sendState,
                     outbox, ledgerVars>>
  BY DEF ApproveBegin, SendAllowed, Complete
<1>2. profileApproval[r] = None
  BY <1>1 DEF SendInv, SendSafety, NothingBeforeAttempt
<1>3. \A q \in Runs : sendAttempted'[q] => sendAttempted[q] \/ q = r
  BY <1>1 DEF SendInv, TypeOK
<1>4. CASE UNCHANGED result
  <2>1. ASSUME NEW q \in Runs PROVE Books(q)'
    <3>1. Books(q) /\ SearchesAreFresh(q)
      BY DEF BooksInv, Books
    <3>2. Decision(q)' = Decision(q) /\ (Overtaken(q)' <=> Overtaken(q))
      BY <1>1, <1>4 DEF Decision, Overtaken
    <3>3. SearchesAreFresh(q)'
      BY <1>1, <1>4, <3>1, <3>2 DEF SearchesAreFresh
    <3> QED
      BY <1>1, <1>3, <1>4, <3>1, <3>2, <3>3, SameBooks
      DEF Books, NothingBeforeCompletion, ledgerVars
  <2> QED
    BY <2>1 DEF BooksInv
<1>5. CASE result' = WithWorkflow(r, Approve(w, a))
  <2>1. w \in Workflows /\ a \in Bindings /\ w.decision = Decision(r)
    BY <1>1, ResultFields DEF SendInv, Decision
  <2>2. Approve(w, a) \in Workflows /\ Approve(w, a).decision = Decision(r)
    BY <2>1, WorkflowSteps
  <2> QED
    BY <1>1, <1>2, <1>3, <1>5, <2>2, SameDecisionBooks
<1> QED
  BY <1>4, <1>5 DEF ApproveBegin

LEMMA ApproveRecheckBooks ==
  ASSUME SendInv, BooksInv, ApproveRecheck
  PROVE  BooksInv'
<1> DEFINE r == handler.run
           w == result[r].workflow
<1>1. /\ r \in Runs /\ result[r] # None /\ profileApproval[r] = None
      /\ UNCHANGED <<status, attempted, searches, profileApproval, sendState,
                     sendAttempted, outbox, ledgerVars>>
  BY DEF ApproveRecheck, SendInv, SendSafety, TypeOK, Handlers, HandlerOwnsRun, Complete
<1>2. CASE UNCHANGED result
  BY <1>1, <1>2, UntouchedBooks DEF BooksInv, ledgerVars
<1>3. CASE result' = WithWorkflow(r, StartSending(w))
  <2>1. w \in Workflows /\ w.decision = Decision(r)
    BY <1>1, ResultFields DEF SendInv, Decision
  <2>2. StartSending(w) \in Workflows /\ StartSending(w).decision = Decision(r)
    BY <2>1 DEF Workflows, WorkflowStates, StartSending
  <2> QED
    BY <1>1, <1>3, <2>2, SameDecisionBooks
<1> QED
  BY <1>2, <1>3 DEF ApproveRecheck

LEMMA SearchBeginBooks ==
  ASSUME SendInv, BooksInv, NEW r \in Runs, NEW c \in Claims, SearchBegin(r, c)
  PROVE  BooksInv'
<1>1. /\ status[r] = "COMPLETE" /\ result[r] # None /\ searches[r] = {}
      /\ c \notin attempted[r]
      /\ attempted' = [attempted EXCEPT ![r] = @ \cup {c}]
      /\ \/ searches' = searches
         \/ searches' = [searches EXCEPT ![r] = @ \cup
                           {[claim |-> c, base |-> result[r], pdf |-> None]}]
      /\ UNCHANGED <<status, result, sendAttempted, profileApproval, sendState,
                     outbox, ledgerVars>>
  BY DEF SearchBegin, SearchAllowed, Complete
<1>2. /\ attempted'[r] = attempted[r] \cup {c}
      /\ \A q \in Runs \ {r} : attempted'[q] = attempted[q] /\ searches'[q] = searches[q]
      /\ \A s \in searches'[r] : s = [claim |-> c, base |-> result[r], pdf |-> None]
  BY <1>1 DEF SendInv, TypeOK
<1>3. ASSUME NEW q \in Runs \ {r} PROVE Books(q)'
  BY <1>1, <1>2, <1>3, UntouchedBooks DEF BooksInv, ledgerVars
<1>4. Books(r)'
  <2>1. Books(r) /\ SearchesAreFresh(r)
    BY DEF BooksInv, Books
  <2>2. Decision(r)' = Decision(r) /\ (Overtaken(r)' <=> Overtaken(r))
    BY <1>1 DEF Decision, Overtaken
  <2>3. SearchesAreFresh(r)'
    <3>1. \A s \in searches'[r] :
            /\ s.base.workflow.decision.binding.evidence = Decision(r).binding.evidence
            /\ s.claim = c
      BY <1>2 DEF Decision
    <3> QED
      BY <1>1, <1>2, <2>1, <2>2, <3>1 DEF SearchesAreFresh
  <2> QED
    BY <1>1, <2>1, <2>2, <2>3, SameBooks DEF Books, NothingBeforeCompletion, ledgerVars
<1> QED
  BY <1>3, <1>4 DEF BooksInv

LEMMA SearchDiscoverBooks ==
  ASSUME SendInv, BooksInv, NEW r \in Runs, SearchDiscover(r)
  PROVE  BooksInv'
<1>1. PICK s \in searches[r] : \E left \in AfterDiscovery(s, disk[r]) :
        searches' = [searches EXCEPT ![r] = (@ \ {s}) \cup left]
  BY DEF SearchDiscover
<1>2. UNCHANGED <<status, result, sendAttempted, profileApproval, sendState,
                  attempted, outbox, ledgerVars>>
  BY DEF SearchDiscover
<1>3. s \in Searches
  BY DEF SendInv, TypeOK
<1>4. /\ \A q \in Runs \ {r} : searches'[q] = searches[q]
      /\ \A t \in searches'[r] : t \in searches[r] \ {s} \/ t = [s EXCEPT !.pdf = disk[r]]
  BY <1>1 DEF SendInv, TypeOK, AfterDiscovery
<1>5. ASSUME NEW q \in Runs \ {r} PROVE Books(q)'
  BY <1>2, <1>4, <1>5, UntouchedBooks DEF BooksInv, ledgerVars
<1>6. Books(r)'
  <2>1. Books(r) /\ SearchesAreFresh(r)
    BY DEF BooksInv, Books
  <2>2. Decision(r)' = Decision(r) /\ (Overtaken(r)' <=> Overtaken(r))
    BY <1>2 DEF Decision, Overtaken
  <2>3. \A t \in searches'[r] : t = [s EXCEPT !.pdf = disk[r]]
    BY <1>4, <2>1 DEF SearchesAreFresh
  <2>4. \A t \in searches'[r] : t.base = s.base /\ t.claim = s.claim
    BY <1>3, <2>3 DEF Searches
  <2>5. SearchesAreFresh(r)'
    BY <1>2, <2>1, <2>2, <2>3, <2>4 DEF SearchesAreFresh
  <2>6. status[r] = "COMPLETE"
    BY <2>1 DEF Books, NothingBeforeCompletion
  <2> QED
    BY <1>2, <2>1, <2>2, <2>5, <2>6, SameBooks DEF ledgerVars
<1> QED
  BY <1>5, <1>6 DEF BooksInv

(* A step that stores the receipt of a run leaves the receipts of the       *)
(* others alone.                                                            *)
LEMMA IssueKeepsOthers ==
  ASSUME LedgerTypeOK, NEW r \in Runs, NEW w, NEW approval, NEW esign, NEW folder,
         IssueReceipt(r, w, approval, esign, folder)
  PROVE  \A q \in Runs \ {r} : history'[q] = history[q]
BY DEF IssueReceipt, LedgerTypeOK, ledgerVars

LEMMA FinishRunBooks ==
  ASSUME SendInv, BooksInv, NEW r \in Runs, FinishRun(r)
  PROVE  BooksInv'
<1>1. PICK verdict \in [Claims -> ClaimStatuses] \cup {None},
           ambiguous \in SUBSET Claims, profilePasses \in BOOLEAN :
        LET outcome == PolicyOutcome(verdict, pipeline[r], disk[r], profilePasses)
            new == NewResult(verdict, ambiguous, [pdf |-> disk[r], evidence |-> {}], outcome)
        IN /\ result' = [result EXCEPT ![r] = new]
           /\ IssueReceipt(r, new.workflow, profileApproval[r], "NOT_ATTEMPTED", NoFolder)
  BY DEF FinishRun
<1> DEFINE o == PolicyOutcome(verdict, pipeline[r], disk[r], profilePasses)
           b == [pdf |-> disk[r], evidence |-> {}]
           new == NewResult(verdict, ambiguous, b, o)
<1>2. /\ status[r] = "RUNNING" /\ status' = [status EXCEPT ![r] = "COMPLETE"]
      /\ disk[r] # None
      /\ UNCHANGED <<sendAttempted, profileApproval, sendState, attempted, searches, outbox>>
  BY DEF FinishRun
<1>3. /\ result' = [result EXCEPT ![r] = new]
      /\ IssueReceipt(r, new.workflow, profileApproval[r], "NOT_ATTEMPTED", NoFolder)
  BY <1>1
<1>4. b \in Bindings /\ b.evidence = {} /\ o \in Outcomes
  BY <1>2, EvidenceIsPublicClaims, PolicyOutcomeType DEF SendInv, TypeOK, Bindings
<1>5. /\ new \in Results /\ new.workflow.state = new.workflow.decision.outcome
      /\ new.workflow.decision.binding.evidence = {}
  <2> HIDE DEF o, b
  <2>1. /\ new \in Results /\ new.workflow.state = o
        /\ new.workflow.decision = [binding |-> b, outcome |-> o]
    BY <1>4, NewResultType
  <2> HIDE DEF new
  <2> QED
    BY <1>4, <2>1
<1>6. Books(r) /\ result[r] = None /\ searches[r] = {}
  BY <1>2 DEF BooksInv, Books, NothingBeforeCompletion
<1> HIDE DEF new
<1>7. Books(r)'
  <2>1. status'[r] = "COMPLETE"
    BY <1>2 DEF SendInv, TypeOK
  <2> QED
    BY <1>2, <1>3, <1>5, <1>6, <2>1, NewDecisionBooks
<1>8. ASSUME NEW q \in Runs \ {r} PROVE Books(q)'
  <2>1. history'[q] = history[q]
    BY <1>3, IssueKeepsOthers DEF SendInv, TypeOK
  <2>2. status'[q] = status[q] /\ result'[q] = result[q]
    BY <1>2, <1>3 DEF SendInv, TypeOK
  <2> QED
    BY <1>2, <2>1, <2>2, UntouchedBooks DEF BooksInv
<1> QED
  BY <1>7, <1>8 DEF BooksInv

LEMMA SearchLandBooks ==
  ASSUME SendInv, BooksInv, NEW r \in Runs, SearchLand(r)
  PROVE  BooksInv'
<1>1. PICK s \in searches[r] :
        /\ s.pdf # None
        /\ searches' = [searches EXCEPT ![r] = @ \ {s}]
        /\ \/ UNCHANGED <<result, ledgerVars>>
           \/ \E newStatus \in ClaimStatuses, profilePasses \in BOOLEAN :
                LET new == EnrichedResult(s, newStatus, profilePasses)
                IN /\ result' = [result EXCEPT ![r] = new]
                   /\ IssueReceipt(r, new.workflow, profileApproval[r],
                                   "NOT_ATTEMPTED", NoFolder)
  BY DEF SearchLand
<1>2. UNCHANGED <<status, sendAttempted, profileApproval, sendState, attempted, outbox>>
  BY DEF SearchLand
<1>3. /\ Books(r) /\ SearchesAreFresh(r) /\ s \in Searches
      /\ result[r] # None /\ status[r] = "COMPLETE"
      /\ s.base.workflow.decision.binding.evidence = Decision(r).binding.evidence
      /\ s.claim \in attempted[r] \ Decision(r).binding.evidence
  BY DEF BooksInv, Books, NothingBeforeCompletion, SearchesAreFresh, SendInv, TypeOK
<1>4. searches'[r] = {} /\ \A q \in Runs \ {r} : searches'[q] = searches[q]
  BY <1>1, <1>3 DEF SearchesAreFresh, SendInv, TypeOK
<1>5. CASE UNCHANGED <<result, ledgerVars>>
  <2>1. ASSUME NEW q \in Runs \ {r} PROVE Books(q)'
    BY <1>2, <1>4, <1>5, <2>1, UntouchedBooks DEF BooksInv, ledgerVars
  <2>2. Decision(r)' = Decision(r) /\ (Overtaken(r)' <=> Overtaken(r))
    BY <1>2, <1>5 DEF Decision, Overtaken
  <2>3. SearchesAreFresh(r)'
    BY <1>2, <1>3, <1>4, <1>5, <2>2 DEF SearchesAreFresh
  <2>4. Books(r)'
    BY <1>2, <1>3, <1>5, <2>2, <2>3, SameBooks DEF ledgerVars
  <2> QED
    BY <2>1, <2>4 DEF BooksInv
<1>6. ASSUME NEW newStatus \in ClaimStatuses, NEW profilePasses \in BOOLEAN,
             NEW new, new = EnrichedResult(s, newStatus, profilePasses),
             result' = [result EXCEPT ![r] = new],
             IssueReceipt(r, new.workflow, profileApproval[r], "NOT_ATTEMPTED", NoFolder)
      PROVE  BooksInv'
  <2>1. /\ new \in Results
        /\ new.workflow.state = new.workflow.decision.outcome
        /\ new.workflow.decision.binding.evidence =
             s.base.workflow.decision.binding.evidence \cup {s.claim}
    BY <1>1, <1>3, <1>6, EnrichedResultType
  <2>2. /\ new.workflow.decision.binding.evidence \subseteq attempted[r]
        /\ Decision(r).binding.evidence \subseteq new.workflow.decision.binding.evidence
        /\ Decision(r).binding.evidence # new.workflow.decision.binding.evidence
    BY <1>3, <2>1 DEF SearchesAreFresh
  <2>3. Books(r)'
    BY <1>2, <1>3, <1>4, <1>6, <2>1, <2>2, NewDecisionBooks
  <2>4. ASSUME NEW q \in Runs \ {r} PROVE Books(q)'
    <3>1. history'[q] = history[q]
      BY <1>6, IssueKeepsOthers DEF SendInv, TypeOK
    <3>2. result'[q] = result[q]
      BY <1>6 DEF SendInv, TypeOK
    <3> QED
      BY <1>2, <1>4, <3>1, <3>2, UntouchedBooks DEF BooksInv
  <2> QED
    BY <2>3, <2>4 DEF BooksInv
<1> QED
  BY <1>1, <1>5, <1>6

LEMMA ApproveSendBooks ==
  ASSUME SendInv, BooksInv, ApproveSend
  PROVE  BooksInv'
<1>1. PICK r \in Runs, w \in Workflows, done \in Workflows, dispatched \in BOOLEAN,
           succeeded \in BOOLEAN, folder \in FolderIds :
             SendEffect(r, w, done, dispatched, succeeded, folder)
  BY ApproveSendEffect
<1> DEFINE a == handler.approval
           id == IF succeeded THEN folder ELSE NoFolder
           receipt == NewReceipt(r, done, a, done.state)
<1>2. /\ result[r] # None /\ w = result[r].workflow
      /\ done.decision = Decision(r) /\ done.decision \in Decisions
      /\ done.decision.outcome = "READY_FOR_APPROVAL" /\ done.decision.binding = a
      /\ a \in Bindings /\ a # None
      /\ outbox[r] = <<>> /\ sendState[r] = None /\ profileApproval[r] = None
      /\ result' = WithWorkflow(r, done)
      /\ UNCHANGED <<status, sendAttempted, attempted, searches>>
  BY <1>1, NoneIsNoValue
  DEF SendEffect, SendInv, SendSafety, HandlerOwnsRun, Decision
<1>3. /\ done.state \in {"SENT", "SEND_FAILED"} /\ done.state \in ESignStatuses
      /\ done.state \in ApprovedStates /\ ExpectedESign(done.state) = done.state
      /\ done.state = "SENT" <=> succeeded
  BY <1>1 DEF SendEffect, ESignStatuses, ApprovedStates, ExpectedESign
<1>4. /\ result'[r].workflow = done /\ result'[r] # None
      /\ \A q \in Runs \ {r} : result'[q] = result[q]
  <2>1. done.decision # None
    BY <1>2, NoneIsNoValue
  <2> QED
    BY <1>2, <2>1, WithWorkflowType DEF SendInv
<1>5. Decision(r)' = Decision(r) /\ ~Overtaken(r) /\ ~Overtaken(r)'
  BY <1>2, <1>3, <1>4 DEF Decision, Overtaken
<1>6. /\ profileApproval'[r] = a /\ sendState'[r] = done.state
      /\ \A q \in Runs \ {r} : /\ profileApproval'[q] = profileApproval[q]
                               /\ sendState'[q] = sendState[q]
                               /\ outbox'[q] = outbox[q]
  BY <1>1 DEF SendEffect, SendInv, TypeOK
<1>7. done.state = "SENT" =>
        \E i \in 1..Len(outbox'[r]) : outbox'[r][i].approved = a
  <2> SUFFICES ASSUME done.state = "SENT"
               PROVE  \E i \in 1..Len(outbox'[r]) : outbox'[r][i].approved = a
    OBVIOUS
  <2> DEFINE new == [reviewed |-> viewed[r], approved |-> a, sent |-> disk[r]]
  <2>1. outbox' = [outbox EXCEPT ![r] = Append(<<>>, new)]
    BY <1>1, <1>2, <1>3 DEF SendEffect
  <2>2. new.approved = a
    OBVIOUS
  <2> HIDE DEF new
  <2>3. outbox'[r] = <<new>>
    BY <2>1 DEF SendInv, TypeOK
  <2> QED
    BY <2>2, <2>3
<1>8. IssueReceipt(r, done, a, done.state, id)
  BY <1>1 DEF SendEffect
<1>9. ReceiptIsValid(done, a, done.state, id) <=> ~(succeeded /\ folder = NoFolder)
  BY <1>2, <1>3 DEF ReceiptIsValid
<1>10. Books(r) /\ status[r] = "COMPLETE" /\ SearchesAreFresh(r)
  BY <1>2 DEF BooksInv, Books, NothingBeforeCompletion
<1>11. \A i \in 1..Len(history[r]) :
         /\ history[r][i].run = r
         /\ HonestAbout(history[r][i], Decision(r), a, outbox'[r])
  BY <1>2, <1>10 DEF Books, ReceiptsAreHonest, HonestAbout
<1>12. /\ receipt \in Receipts /\ receipt.run = r
       /\ receipt.binding = a /\ receipt.outcome = "READY_FOR_APPROVAL"
       /\ receipt.approval = a /\ receipt.esign = done.state
  BY <1>2, <1>3, NewReceiptFields DEF SendInv, TypeOK
<1>13. HonestAbout(receipt, Decision(r), a, outbox'[r])
  BY <1>2, <1>7, <1>12 DEF HonestAbout
<1>14. SearchesAreFresh(r)'
  BY <1>2, <1>4, <1>5, <1>10 DEF SearchesAreFresh
<1>15. (profileApproval[r] = None <=> sendState[r] = None)'
  BY <1>2, <1>3, <1>6, NoneIsNoRunValue
<1>16. NothingBeforeCompletion(r)' /\ (status[r] = "COMPLETE" => result[r] # None)'
  BY <1>2, <1>4, <1>10 DEF NothingBeforeCompletion
<1>17. Books(r)'
  <2>1. CASE ReceiptIsValid(done, a, done.state, id)
    <3>1. history' = [history EXCEPT ![r] = Append(@, receipt)]
      BY <1>8, <2>1 DEF IssueReceipt
    <3> HIDE DEF receipt
    <3>2. /\ \A i \in 1..Len(history'[r]) :
               \/ history'[r][i] = receipt
               \/ i \in 1..Len(history[r]) /\ history'[r][i] = history[r][i]
          /\ HasReceipt(r)' /\ LatestReceipt(r)' = receipt
      BY <1>12, <3>1, AppendedReceipt DEF SendInv, TypeOK
    <3>3. ReceiptsAreHonest(r)'
      BY <1>4, <1>5, <1>6, <1>11, <1>12, <1>13, <3>2 DEF ReceiptsAreHonest
    <3>4. NewestReceiptIsCurrent(r)'
      BY <1>2, <1>5, <1>12, <3>2 DEF NewestReceiptIsCurrent
    <3>5. NewestReceiptTellsSend(r)'
      BY <1>3, <1>6, <1>12, <3>2, NoneIsNoRunValue DEF NewestReceiptTellsSend
    <3> QED
      BY <1>14, <1>15, <1>16, <3>3, <3>4, <3>5 DEF Books
  <2>2. CASE ~ReceiptIsValid(done, a, done.state, id)
    <3>1. history' = history /\ NoFolder \in FolderIds
      BY <1>8, <1>9, <2>2 DEF IssueReceipt, ledgerVars
    <3>2. HasReceipt(r)' = HasReceipt(r) /\ LatestReceipt(r)' = LatestReceipt(r)
      BY <3>1 DEF HasReceipt, LatestReceipt
    <3>3. ReceiptsAreHonest(r)'
      BY <1>4, <1>5, <1>6, <1>11, <3>1 DEF ReceiptsAreHonest
    <3>4. NewestReceiptIsCurrent(r)'
      BY <1>2, <1>5, <1>10, <3>2 DEF Books, NewestReceiptIsCurrent
    <3> QED
      BY <1>14, <1>15, <1>16, <3>1, <3>3, <3>4 DEF Books
  <2> QED
    BY <2>1, <2>2
<1>18. ASSUME NEW q \in Runs \ {r} PROVE Books(q)'
  <2>1. history'[q] = history[q]
    BY <1>8, IssueKeepsOthers DEF SendInv, TypeOK
  <2> QED
    BY <1>2, <1>4, <1>6, <2>1, UntouchedBooks DEF BooksInv
<1> QED
  BY <1>17, <1>18 DEF BooksInv

(* Every other step leaves every run's books as they are.                   *)
LEMMA BooksStep ==
  ASSUME SendInv, BooksInv, [Next]_vars
  PROVE  BooksInv'
<1>1. ASSUME NEW r \in Runs, StartRun(r) \/ FailRun(r) PROVE BooksInv'
  <2>1. ASSUME NEW q \in Runs PROVE Books(q)'
    <3>1. Books(q) /\ SearchesAreFresh(q)
      BY DEF BooksInv, Books
    <3>2. UNCHANGED <<result, sendAttempted, searches, attempted, profileApproval,
                      sendState, outbox, history>>
      BY <1>1 DEF StartRun, FailRun, ledgerVars
    <3>3. status'[q] = "COMPLETE" <=> status[q] = "COMPLETE"
      BY <1>1 DEF StartRun, FailRun, SendInv, TypeOK
    <3>4. Decision(q)' = Decision(q) /\ (Overtaken(q)' <=> Overtaken(q))
      BY <3>2 DEF Decision, Overtaken
    <3>5. SearchesAreFresh(q)'
      BY <3>1, <3>2, <3>4 DEF SearchesAreFresh
    <3> QED
      BY <3>1, <3>2, <3>3, <3>4, <3>5, SameBooks DEF Books, NothingBeforeCompletion
  <2> QED
    BY <2>1 DEF BooksInv
<1>2. CASE UNCHANGED <<status, result, sendAttempted, searches, attempted,
                       profileApproval, sendState, outbox, history>>
  BY <1>2, UntouchedBooks DEF BooksInv
<1>3. ASSUME NEW r \in Runs,
             ReadArtifact(r) \/ ArtifactChanges(r) \/ Review(r) \/ BeginReceiptPdf(r)
               \/ EndReceiptPdf(r)
      PROVE  BooksInv'
  BY <1>2, <1>3 DEF ReadArtifact, ArtifactChanges, Review, BeginReceiptPdf, EndReceiptPdf,
                    StartReceiptPdf, FinishReceiptPdf, runVars, ledgerVars
<1>4. CASE UNCHANGED vars
  BY <1>2, <1>4 DEF vars, runVars, ledgerVars
<1> QED
  BY <1>1, <1>3, <1>4, FinishRunBooks, ApproveBeginBooks, ApproveRecheckBooks,
     ApproveSendBooks, SearchBeginBooks, SearchDiscoverBooks, SearchLandBooks
  DEF Next, BackgroundRun, SearchStep, SendStep

(* A step issues one receipt for a decided workflow, or none.               *)
LedgerStep ==
  \E r \in Runs, w \in Workflows, approval \in Bindings \cup {None},
     esign \in ESignStatuses, folder \in FolderIds \cup {NoFolder} :
    w.decision \in Decisions /\ IssueReceipt(r, w, approval, esign, folder)

LEMMA StepsIssueReceipts ==
  ASSUME SendInv, [Next]_vars
  PROVE  LedgerStep \/ UNCHANGED <<history, lastReceipt, receiptCount>>
<1>3. ASSUME NEW r \in Runs, FinishRun(r) PROVE LedgerStep
  <2>1. PICK verdict \in [Claims -> ClaimStatuses] \cup {None},
             ambiguous \in SUBSET Claims, profilePasses \in BOOLEAN :
          IssueReceipt(r, NewResult(verdict, ambiguous, [pdf |-> disk[r], evidence |-> {}],
                            PolicyOutcome(verdict, pipeline[r], disk[r], profilePasses)).workflow,
                       profileApproval[r], "NOT_ATTEMPTED", NoFolder)
    BY <1>3 DEF FinishRun
  <2> DEFINE o == PolicyOutcome(verdict, pipeline[r], disk[r], profilePasses)
             b == [pdf |-> disk[r], evidence |-> {}]
             new == NewResult(verdict, ambiguous, b, o)
  <2>2. b \in Bindings /\ o \in Outcomes
    BY <1>3, EvidenceIsPublicClaims, PolicyOutcomeType
    DEF FinishRun, SendInv, TypeOK, Bindings
  <2>3. new.workflow \in Workflows /\ new.workflow.decision \in Decisions
    <3> HIDE DEF o, b
    <3>1. [binding |-> b, outcome |-> o] \in Decisions
      BY <2>2 DEF Decisions
    <3> QED
      BY <2>2, <3>1, NewResultType
  <2>4. profileApproval[r] \in Bindings \cup {None} /\ "NOT_ATTEMPTED" \in ESignStatuses
    BY DEF SendInv, TypeOK, ESignStatuses
  <2>5. IssueReceipt(r, new.workflow, profileApproval[r], "NOT_ATTEMPTED", NoFolder)
    BY <2>1
  <2> HIDE DEF new
  <2> QED
    BY <2>3, <2>4, <2>5 DEF LedgerStep
<1>4. ASSUME NEW r \in Runs, SearchLand(r)
      PROVE  LedgerStep \/ UNCHANGED <<history, lastReceipt, receiptCount>>
  <2>1. CASE UNCHANGED ledgerVars
    BY <2>1 DEF ledgerVars
  <2>2. CASE ~UNCHANGED ledgerVars
    <3>1. PICK s \in searches[r], newStatus \in ClaimStatuses, profilePasses \in BOOLEAN :
            /\ s.pdf # None
            /\ IssueReceipt(r, EnrichedResult(s, newStatus, profilePasses).workflow,
                            profileApproval[r], "NOT_ATTEMPTED", NoFolder)
      BY <1>4, <2>2 DEF SearchLand
    <3> DEFINE new == EnrichedResult(s, newStatus, profilePasses)
    <3>2. new.workflow \in Workflows /\ new.workflow.decision \in Decisions
      BY <3>1, EnrichedResultType DEF SendInv, TypeOK
    <3>3. profileApproval[r] \in Bindings \cup {None} /\ "NOT_ATTEMPTED" \in ESignStatuses
      BY DEF SendInv, TypeOK, ESignStatuses
    <3> HIDE DEF new
    <3>4. IssueReceipt(r, new.workflow, profileApproval[r], "NOT_ATTEMPTED", NoFolder)
      BY <3>1 DEF new
    <3> QED
      BY <3>2, <3>3, <3>4 DEF LedgerStep
  <2> QED
    BY <2>1, <2>2
<1>5. CASE ApproveSend
  <2>1. PICK r \in Runs, w \in Workflows, done \in Workflows, dispatched \in BOOLEAN,
             succeeded \in BOOLEAN, folder \in FolderIds :
               SendEffect(r, w, done, dispatched, succeeded, folder)
    BY <1>5, ApproveSendEffect
  <2>2. /\ done.decision \in Decisions /\ done.state \in ESignStatuses
        /\ handler.approval \in Bindings \cup {None}
        /\ IssueReceipt(r, done, handler.approval, done.state,
                        IF succeeded THEN folder ELSE NoFolder)
    BY <2>1 DEF SendEffect, ESignStatuses
  <2> QED
    BY <2>2 DEF LedgerStep
<1>6. ASSUME NEW r \in Runs,
             StartRun(r) \/ ReadArtifact(r) \/ FailRun(r) \/ ArtifactChanges(r)
               \/ Review(r) \/ ApproveBegin(r) \/ SearchDiscover(r)
               \/ (\E c \in Claims : SearchBegin(r, c))
               \/ BeginReceiptPdf(r) \/ EndReceiptPdf(r)
      PROVE  UNCHANGED <<history, lastReceipt, receiptCount>>
  BY <1>6
  DEF StartRun, ReadArtifact, FailRun, ArtifactChanges, Review, ApproveBegin,
      SearchDiscover, SearchBegin, BeginReceiptPdf, EndReceiptPdf,
      StartReceiptPdf, FinishReceiptPdf, ledgerVars
<1>7. CASE ApproveRecheck
  BY <1>7 DEF ApproveRecheck, ledgerVars
<1>8. CASE UNCHANGED vars
  BY <1>8 DEF vars, ledgerVars
<1> QED
  BY <1>3, <1>4, <1>5, <1>6, <1>7, <1>8 DEF Next, BackgroundRun, SearchStep, SendStep

LEMMA ChainStep ==
  ASSUME SendInv, ChainInv, [Next]_vars
  PROVE  ChainInv'
<1>1. CASE UNCHANGED <<history, lastReceipt, receiptCount>>
  BY <1>1 DEF ChainInv
<1>2. CASE LedgerStep
  BY <1>2, IssueKeepsChain DEF LedgerStep, SendInv, TypeOK
<1> QED
  BY <1>1, <1>2, StepsIssueReceipts

LEMMA InitBooks == Init => ChainInv /\ BooksInv
<1> SUFFICES ASSUME Init PROVE ChainInv /\ BooksInv
  OBVIOUS
<1>1. \A r \in Runs : history[r] = <<>> /\ Len(history[r]) = 0
  BY DEF Init, LedgerInit
<1>2. lastReceipt = 0 /\ receiptCount = 0
  BY DEF Init, LedgerInit
<1>3. ChainInv
  BY <1>1, <1>2 DEF ChainInv
<1>4. ASSUME NEW r \in Runs PROVE Books(r)
  <2>1. /\ status[r] = "ABSENT" /\ result[r] = None /\ ~sendAttempted[r]
        /\ searches[r] = {} /\ attempted[r] = {}
        /\ profileApproval[r] = None /\ sendState[r] = None
    BY DEF Init
  <2> QED
    BY <1>1, <2>1 DEF Books, NothingBeforeCompletion, SearchesAreFresh, ReceiptsAreHonest,
                      NewestReceiptIsCurrent, NewestReceiptTellsSend
<1> QED
  BY <1>3, <1>4 DEF BooksInv

(* The chain and the books are kept in every behaviour.                     *)
THEOREM ReceiptsInvariant == Spec => [](SendInv /\ ChainInv /\ BooksInv)
<1>1. SendInv /\ ChainInv /\ BooksInv /\ [Next]_vars => (ChainInv /\ BooksInv)'
  BY ChainStep, BooksStep
<1>2. SendInv /\ [Next]_vars => SendInv'
  BY TypeStep, SafetyStep DEF SendInv
<1> QED
  BY <1>1, <1>2, InitSafe, InitBooks, PTL DEF Spec

-----------------------------------------------------------------------------
(* What follows.                                                            *)

(* The receipts of all runs form one chain, however many runs there are and *)
(* however their verifications, searches and sends interleave.              *)
THEOREM ReceiptsAreChained == Spec => []ChainIsLinear
<1>1. SendInv /\ ChainInv => ChainIsLinear
  BY ChainInvIsLinear DEF SendInv, TypeOK
<1> QED
  BY <1>1, ReceiptsInvariant, PTL

LEMMA SentReceipts ==
  ASSUME BooksInv
  PROVE  SentReceiptsAreEarned
<1> SUFFICES ASSUME NEW a \in IssuedReceipts, a.esign = "SENT"
             PROVE  /\ a.outcome = "READY_FOR_APPROVAL"
                    /\ a.approval = a.binding
                    /\ \E i \in 1..Len(outbox[a.run]) :
                         outbox[a.run][i].approved = a.binding
  BY DEF SentReceiptsAreEarned
<1>1. PICK r \in Runs : \E i \in 1..Len(history[r]) : a = history[r][i]
  BY DEF IssuedReceipts
<1>2. a.run = r /\ HonestAbout(a, Decision(r), profileApproval[r], outbox[r])
  BY <1>1 DEF BooksInv, Books, ReceiptsAreHonest
<1> QED
  BY <1>2 DEF HonestAbout

(* A receipt says SENT only of a dispatch under its own approval, of a      *)
(* READY decision on its own binding.                                       *)
THEOREM SentIsEarned == Spec => []SentReceiptsAreEarned
<1>1. BooksInv => SentReceiptsAreEarned
  BY SentReceipts
<1> QED
  BY <1>1, ReceiptsInvariant, PTL

(* The newest receipt of a run.                                             *)
LEMMA NewestReceipt ==
  ASSUME SendInv, BooksInv, NEW r \in Runs, HasReceipt(r)
  PROVE  /\ result[r] # None
         /\ Len(history[r]) \in 1..Len(history[r])
         /\ HonestAbout(LatestReceipt(r), Decision(r), profileApproval[r], outbox[r])
         /\ IF Overtaken(r)
            THEN LatestReceipt(r).binding.evidence # Decision(r).binding.evidence
            ELSE LatestReceipt(r).binding = Decision(r).binding
<1>1. history[r] \in Seq(Receipts) /\ history[r] # <<>>
  BY DEF HasReceipt, SendInv, TypeOK, LedgerTypeOK
<1>2. Len(history[r]) \in 1..Len(history[r])
  BY <1>1
<1> QED
  BY <1>2 DEF LatestReceipt, BooksInv, Books, ReceiptsAreHonest, NewestReceiptIsCurrent

LEMMA LatestReceipts ==
  ASSUME NoFolder \notin FolderIds, SendInv, BooksInv
  PROVE  LatestReceiptIsTrue
<1> SUFFICES ASSUME NEW r \in Runs, Complete(r), disk[r] = Decision(r).binding.pdf,
                    ~Overtaken(r)
             PROVE  /\ HasReceipt(r)
                    /\ VerifiesNow(r, LatestReceipt(r))
                    /\ LatestReceipt(r).esign =
                         IF sendState[r] = None THEN "NOT_ATTEMPTED" ELSE sendState[r]
  BY DEF LatestReceiptIsTrue
<1>1. HasReceipt(r)
  BY DEF Complete, BooksInv, Books, NewestReceiptIsCurrent
<1>2. VerifiesNow(r, LatestReceipt(r))
  BY <1>1, NewestReceipt DEF VerifiesNow, ReceiptVerifies, HonestAbout
<1>3. NewestReceiptTellsSend(r)
  BY DEF BooksInv, Books
<1> QED
  BY <1>1, <1>2, <1>3 DEF NewestReceiptTellsSend, Complete

(* A complete run whose file is the decided one has a newest receipt that   *)
(* verifies and tells the send, provided the eSign service never answers a  *)
(* send with an empty folder identifier.                                    *)
THEOREM LatestReceiptsAreTrue ==
  ASSUME NoFolder \notin FolderIds
  PROVE  Spec => []LatestReceiptIsTrue
<1>1. SendInv /\ BooksInv => LatestReceiptIsTrue
  BY LatestReceipts
<1> QED
  BY <1>1, ReceiptsInvariant, PTL

(* The receipt PDF that is served belongs to the decision in force.         *)
THEOREM ServedReceiptPdfsAreCurrent == Spec => []ServedReceiptPdfIsCurrent
<1>1. ASSUME SendInv, BooksInv PROVE ServedReceiptPdfIsCurrent
  <2> SUFFICES ASSUME NEW r \in Runs, ServedReceiptPdf(r) # None, ~Overtaken(r)
               PROVE  \E i \in 1..Len(history[r]) :
                        /\ history[r][i].hash = ServedReceiptPdf(r)
                        /\ history[r][i].binding = Decision(r).binding
                        /\ \A j \in 1..Len(history[r]) : j <= i
    BY DEF ServedReceiptPdfIsCurrent
  <2>1. HasReceipt(r) /\ ServedReceiptPdf(r) = LatestReceipt(r).hash
    BY DEF ServedReceiptPdf
  <2> QED
    BY <1>1, <2>1, NewestReceipt DEF LatestReceipt
<1> QED
  BY <1>1, ReceiptsInvariant, PTL

(* What a clean replay compares comes down to the file and the decision.    *)
LEMMA CleanReplay ==
  ASSUME NEW r \in Runs, NEW a
  PROVE  ReplayVerifies(r, a) <=>
           /\ disk[r] # None
           /\ disk[r] = a.binding.pdf
           /\ Decision(r).binding = a.binding
<1> DEFINE s == Snapshot(r, a)
           fails ==
             [PDF_ARTIFACT_MISSING |-> s.pdf = None,
              PDF_HASH_MISMATCH |-> s.pdf # a.binding.pdf,
              EVIDENCE_HASH_MISMATCH |-> s.evidence # a.binding.evidence,
              POLICY_PROFILE_HASH_MISMATCH |-> ~s.sameProfile,
              ACTION_DRIFT |-> s.action # a.binding,
              APPROVAL_BINDING_MISMATCH |-> s.approval # a.approval,
              ESIGN_STATE_MISMATCH |-> s.esign # a.esign,
              PREVIOUS_RECEIPT_CHAIN_MISMATCH |-> s.previous # a.previous]
           blockers == {code \in DOMAIN fails : fails[code]}
<1>1. ApplyPreset(s, "CLEAN_REPLAY") = s
  BY DEF ApplyPreset
<1>2. ReplayOf(r, a, "CLEAN_REPLAY") = blockers
  BY <1>1 DEF ReplayOf, ReplayBlockers
<1>3. ReplayVerifies(r, a) <=> blockers = {}
  <2> HIDE DEF blockers
  <2> QED
    BY <1>2 DEF ReplayVerifies, ReplayStatus
<1>4. /\ s.pdf = disk[r] /\ s.evidence = Decision(r).binding.evidence
      /\ s.action = Decision(r).binding /\ s.approval = a.approval
      /\ s.esign = a.esign /\ s.previous = a.previous /\ s.sameProfile
  BY DEF Snapshot
<1> HIDE DEF s
<1>5. /\ "PDF_ARTIFACT_MISSING" \in blockers <=> disk[r] = None
      /\ "PDF_HASH_MISMATCH" \in blockers <=> disk[r] # a.binding.pdf
      /\ "ACTION_DRIFT" \in blockers <=> Decision(r).binding # a.binding
  BY <1>4
<1>6. ASSUME disk[r] # None, disk[r] = a.binding.pdf, Decision(r).binding = a.binding
      PROVE  blockers = {}
  <2>1. DOMAIN fails =
          {"PDF_ARTIFACT_MISSING", "PDF_HASH_MISMATCH", "EVIDENCE_HASH_MISMATCH",
           "POLICY_PROFILE_HASH_MISMATCH", "ACTION_DRIFT", "APPROVAL_BINDING_MISMATCH",
           "ESIGN_STATE_MISMATCH", "PREVIOUS_RECEIPT_CHAIN_MISMATCH"}
    OBVIOUS
  <2>2. /\ ~fails.PDF_ARTIFACT_MISSING /\ ~fails.PDF_HASH_MISMATCH
        /\ ~fails.EVIDENCE_HASH_MISMATCH /\ ~fails.POLICY_PROFILE_HASH_MISMATCH
        /\ ~fails.ACTION_DRIFT /\ ~fails.APPROVAL_BINDING_MISMATCH
        /\ ~fails.ESIGN_STATE_MISMATCH /\ ~fails.PREVIOUS_RECEIPT_CHAIN_MISMATCH
    BY <1>4, <1>6
  <2> HIDE DEF fails
  <2> QED
    BY <2>1, <2>2
<1> HIDE DEF blockers
<1> QED
  BY <1>3, <1>5, <1>6

(* Every drift preset shows.                                                *)
LEMMA DriftShows ==
  ASSUME NEW r \in Runs, NEW a \in Receipts, NEW preset \in Presets \ {"CLEAN_REPLAY"}
  PROVE  ReplayStatus(ReplayOf(r, a, preset)) # "VERIFIED"
<1> DEFINE s == ApplyPreset(Snapshot(r, a), preset)
           fails ==
             [PDF_ARTIFACT_MISSING |-> s.pdf = None,
              PDF_HASH_MISMATCH |-> s.pdf # a.binding.pdf,
              EVIDENCE_HASH_MISMATCH |-> s.evidence # a.binding.evidence,
              POLICY_PROFILE_HASH_MISMATCH |-> ~s.sameProfile,
              ACTION_DRIFT |-> s.action # a.binding,
              APPROVAL_BINDING_MISMATCH |-> s.approval # a.approval,
              ESIGN_STATE_MISMATCH |-> s.esign # a.esign,
              PREVIOUS_RECEIPT_CHAIN_MISMATCH |-> s.previous # a.previous]
           blockers == {code \in DOMAIN fails : fails[code]}
<1>1. ReplayOf(r, a, preset) = blockers
  BY DEF ReplayOf, ReplayBlockers
<1>2. /\ a.binding \in Bindings /\ a.binding.pdf \in Contents
      /\ a.binding.evidence \in EvidenceSets /\ a.previous \in Nat
  BY DEF Receipts, Bindings
<1>3. \/ s.pdf # a.binding.pdf \/ s.evidence # a.binding.evidence \/ ~s.sameProfile
      \/ s.action # a.binding \/ s.previous # a.previous
  BY <1>2, DriftedIsNoHash DEF Presets, ApplyPreset, Snapshot
<1> HIDE DEF s
<1>4. /\ "PDF_HASH_MISMATCH" \in blockers <=> s.pdf # a.binding.pdf
      /\ "EVIDENCE_HASH_MISMATCH" \in blockers <=> s.evidence # a.binding.evidence
      /\ "POLICY_PROFILE_HASH_MISMATCH" \in blockers <=> ~s.sameProfile
      /\ "ACTION_DRIFT" \in blockers <=> s.action # a.binding
      /\ "PREVIOUS_RECEIPT_CHAIN_MISMATCH" \in blockers <=> s.previous # a.previous
  OBVIOUS
<1>5. blockers # {}
  BY <1>3, <1>4
<1> HIDE DEF blockers
<1> QED
  BY <1>1, <1>5 DEF ReplayStatus

(* A receipt that replays VERIFIED, however old, has the binding and the    *)
(* outcome of the decision in force, and no drift preset verifies.          *)
THEOREM VerifiedReplaysAreCurrent == Spec => []VerifiedReplayIsCurrent
<1>1. ASSUME SendInv, BooksInv PROVE VerifiedReplayIsCurrent
  <2> SUFFICES ASSUME NEW r \in Runs, NEW i \in 1..Len(history[r]), NEW preset \in Presets,
                      ReplayStatus(ReplayOf(r, history[r][i], preset)) = "VERIFIED"
               PROVE  /\ preset = "CLEAN_REPLAY"
                      /\ Decision(r).binding = history[r][i].binding
                      /\ Decision(r).outcome = history[r][i].outcome
                      /\ disk[r] = Decision(r).binding.pdf
    BY DEF VerifiedReplayIsCurrent
  <2> DEFINE a == history[r][i]
  <2>1. HonestAbout(a, Decision(r), profileApproval[r], outbox[r])
    BY <1>1 DEF BooksInv, Books, ReceiptsAreHonest
  <2>2. a \in Receipts
    BY <1>1 DEF SendInv, TypeOK, LedgerTypeOK
  <2>3. preset = "CLEAN_REPLAY"
    BY <2>2, DriftShows
  <2>4. ReplayVerifies(r, a)
    BY <2>3 DEF ReplayVerifies
  <2>5. Decision(r).binding = a.binding /\ disk[r] = a.binding.pdf
    BY <2>4, CleanReplay
  <2> QED
    BY <2>1, <2>3, <2>5 DEF HonestAbout
<1> QED
  BY <1>1, ReceiptsInvariant, PTL

(* The replay and the verification of the newest receipt never disagree.    *)
THEOREM ReplaysAgreeWithVerify == Spec => []ReplayAgreesWithVerify
<1>1. ASSUME SendInv, BooksInv PROVE ReplayAgreesWithVerify
  <2> SUFFICES ASSUME NEW r \in Runs, HasReceipt(r)
               PROVE  ReplayVerifies(r, LatestReceipt(r))
                        <=> VerifiesNow(r, LatestReceipt(r))
    BY DEF ReplayAgreesWithVerify
  <2> DEFINE a == LatestReceipt(r)
  <2>1. /\ HonestAbout(a, Decision(r), profileApproval[r], outbox[r])
        /\ a.binding.evidence = Decision(r).binding.evidence => a.binding = Decision(r).binding
        /\ result[r] # None
    BY <1>1, NewestReceipt
  <2>2. Decision(r).binding.pdf # None
    BY <1>1, <2>1, ResultFields, NoneIsNoValue DEF SendInv
  <2> HIDE DEF a
  <2>3. VerifiesNow(r, a) <=>
          /\ disk[r] = a.binding.pdf
          /\ Decision(r).binding.evidence = a.binding.evidence
    BY <2>1 DEF VerifiesNow, ReceiptVerifies, HonestAbout
  <2> QED
    BY <2>1, <2>2, <2>3, CleanReplay DEF a
<1> QED
  BY <1>1, ReceiptsInvariant, PTL

(* Which step changes the result of a run, and how.                         *)
LEMMA EvidenceStep ==
  ASSUME SendInv, BooksInv, [Next]_vars, NEW q \in Runs, result[q] # None
  PROVE  /\ result'[q] # None
         /\ result[q].workflow.decision.binding.evidence
              \subseteq result'[q].workflow.decision.binding.evidence
<1>1. CASE UNCHANGED result
  BY <1>1
<1>2. ASSUME NEW r \in Runs, FinishRun(r)
      PROVE  q # r /\ result'[q] = result[q]
  <2>1. result[r] = None
    BY <1>2 DEF FinishRun, BooksInv, Books, NothingBeforeCompletion
  <2>2. PICK new \in Results : result' = [result EXCEPT ![r] = new]
    BY <1>2, FinishRunResult DEF SendInv
  <2> QED
    BY <2>1, <2>2 DEF SendInv, TypeOK
<1>3. ASSUME NEW r \in Runs, NEW w \in Workflows, result[r] # None,
             w.decision = Decision(r), result' = WithWorkflow(r, w)
      PROVE  result'[q] # None /\ result'[q].workflow.decision = result[q].workflow.decision
  <2>1. w.decision # None
    BY <1>3, ResultFields, NoneIsNoValue DEF SendInv
  <2> QED
    BY <1>3, <2>1, WithWorkflowType DEF SendInv, Decision
<1>4. ASSUME NEW r \in Runs, ApproveBegin(r), ~UNCHANGED result
      PROVE  result'[q] # None /\ result'[q].workflow.decision = result[q].workflow.decision
  <2>1. /\ result[r] # None
        /\ result' = WithWorkflow(r, Approve(result[r].workflow, Decision(r).binding))
    BY <1>4 DEF ApproveBegin, SendAllowed, Complete
  <2>2. /\ Approve(result[r].workflow, Decision(r).binding) \in Workflows
        /\ Approve(result[r].workflow, Decision(r).binding).decision = Decision(r)
    BY <2>1, ResultFields, WorkflowSteps DEF SendInv, Decision
  <2> QED
    BY <1>3, <2>1, <2>2
<1>5. ASSUME ApproveRecheck, ~UNCHANGED result
      PROVE  result'[q] # None /\ result'[q].workflow.decision = result[q].workflow.decision
  <2> DEFINE r == handler.run
  <2>1. /\ r \in Runs /\ result[r] # None
        /\ result' = WithWorkflow(r, StartSending(result[r].workflow))
    BY <1>5 DEF ApproveRecheck, SendInv, SendSafety, TypeOK, Handlers, HandlerOwnsRun,
                Complete
  <2>2. /\ StartSending(result[r].workflow) \in Workflows
        /\ StartSending(result[r].workflow).decision = Decision(r)
    BY <2>1, ResultFields DEF SendInv, Decision, Workflows, WorkflowStates, StartSending
  <2> HIDE DEF r
  <2> QED
    BY <1>3, <2>1, <2>2
<1>6. ASSUME ApproveSend
      PROVE  result'[q] # None /\ result'[q].workflow.decision = result[q].workflow.decision
  <2>1. PICK r \in Runs, w \in Workflows, done \in Workflows, dispatched \in BOOLEAN,
             succeeded \in BOOLEAN, folder \in FolderIds :
               SendEffect(r, w, done, dispatched, succeeded, folder)
    BY <1>6, ApproveSendEffect
  <2>2. result[r] # None /\ done.decision = Decision(r) /\ result' = WithWorkflow(r, done)
    BY <2>1 DEF SendEffect, Decision
  <2> QED
    BY <1>3, <2>2
<1>7. ASSUME NEW r \in Runs, SearchLand(r), ~UNCHANGED result
      PROVE  /\ result'[q] # None
             /\ result[q].workflow.decision.binding.evidence
                  \subseteq result'[q].workflow.decision.binding.evidence
  <2>1. PICK new \in Results, s \in searches[r] :
          /\ result' = [result EXCEPT ![r] = new]
          /\ new.workflow.decision.binding.evidence =
               s.base.workflow.decision.binding.evidence \cup {s.claim}
    BY <1>7, SearchLandResult DEF SendInv
  <2>2. s.base.workflow.decision.binding.evidence = Decision(r).binding.evidence
    BY DEF BooksInv, Books, SearchesAreFresh
  <2>3. CASE q = r
    BY <2>1, <2>2, <2>3, NoneIsNoRunValue DEF SendInv, TypeOK, Decision
  <2>4. CASE q # r
    BY <2>1, <2>4 DEF SendInv, TypeOK
  <2> QED
    BY <2>3, <2>4
<1>8. ASSUME NEW r \in Runs,
             StartRun(r) \/ ReadArtifact(r) \/ FailRun(r) \/ ArtifactChanges(r)
               \/ Review(r) \/ SearchDiscover(r) \/ (\E c \in Claims : SearchBegin(r, c))
               \/ BeginReceiptPdf(r) \/ EndReceiptPdf(r)
      PROVE UNCHANGED result
  BY <1>8 DEF StartRun, ReadArtifact, FailRun, ArtifactChanges, Review, SearchDiscover,
              SearchBegin, BeginReceiptPdf, EndReceiptPdf, runVars
<1>9. CASE UNCHANGED vars
  BY <1>1, <1>9 DEF vars, runVars
<1> QED
  BY <1>1, <1>2, <1>4, <1>5, <1>6, <1>7, <1>8, <1>9
  DEF Next, BackgroundRun, SearchStep, SendStep

(* The evidence a run is decided on only grows.                             *)
THEOREM EvidenceGrows == Spec => EvidenceOnlyGrows
<1>1. SendInv /\ BooksInv /\ [Next]_vars =>
        [\A r \in Runs : result[r] # None =>
           /\ result'[r] # None
           /\ result[r].workflow.decision.binding.evidence
                \subseteq result'[r].workflow.decision.binding.evidence]_vars
  BY EvidenceStep
<1> QED
  BY <1>1, ReceiptsInvariant, PTL DEF Spec, EvidenceOnlyGrows

(* A receipt, once issued, is never rewritten.                              *)
LEMMA IssueKeepsReceipts ==
  ASSUME LedgerTypeOK, NEW r \in Runs, NEW w \in Workflows, w.decision \in Decisions,
         NEW approval \in Bindings \cup {None}, NEW esign \in ESignStatuses, NEW folder,
         IssueReceipt(r, w, approval, esign, folder)
  PROVE  \A q \in Runs : \A i \in 1..Len(history[q]) :
           i \in 1..Len(history'[q]) /\ history'[q][i] = history[q][i]
<1> DEFINE new == NewReceipt(r, w, approval, esign)
<1>1. CASE ~ReceiptIsValid(w, approval, esign, folder)
  BY <1>1 DEF IssueReceipt, ledgerVars
<1>2. CASE ReceiptIsValid(w, approval, esign, folder)
  <2>1. history' = [history EXCEPT ![r] = Append(@, new)]
    BY <1>2 DEF IssueReceipt
  <2>2. new \in Receipts
    BY NewReceiptFields
  <2> HIDE DEF new
  <2>3. /\ \A q \in Runs \ {r} : history'[q] = history[q]
        /\ Len(history[r]) \in Nat /\ Len(history'[r]) = Len(history[r]) + 1
        /\ \A i \in 1..Len(history[r]) : history'[r][i] = history[r][i]
    BY <2>1, <2>2, AppendedReceipt
  <2>4. \A i \in 1..Len(history[r]) : i \in 1..Len(history'[r])
    BY <2>3
  <2> QED
    BY <2>3, <2>4
<1> QED
  BY <1>1, <1>2

(* A receipt of a run about less evidence than the decision in force.       *)
Superseded(r, i) ==
  /\ i \in 1..Len(history[r])
  /\ history[r][i].binding.evidence # Decision(r).binding.evidence

LEMMA ReceiptsAreKept ==
  ASSUME SendInv, [Next]_vars, NEW r \in Runs, NEW i \in 1..Len(history[r])
  PROVE  i \in 1..Len(history'[r]) /\ history'[r][i] = history[r][i]
BY StepsIssueReceipts, IssueKeepsReceipts DEF LedgerStep, SendInv, TypeOK

(* A receipt that a re-evaluation superseded replays VERIFIED never again   *)
(* (replay/verifier.py): no later search, approval, send or restored file   *)
(* brings it back into force.                                               *)
THEOREM SupersededReceiptsNeverVerifyAgain ==
  ASSUME NEW r \in Runs, NEW i \in Nat
  PROVE  Spec => [](Superseded(r, i) =>
                      [](i \in 1..Len(history[r]) /\ ~ReplayVerifies(r, history[r][i])))
<1>1. SendInv /\ BooksInv /\ Superseded(r, i) /\ [Next]_vars => Superseded(r, i)'
  <2> SUFFICES ASSUME SendInv, BooksInv, Superseded(r, i), [Next]_vars
               PROVE  Superseded(r, i)'
    OBVIOUS
  <2>1. i \in 1..Len(history'[r]) /\ history'[r][i] = history[r][i]
    BY ReceiptsAreKept DEF Superseded
  <2>2. /\ result[r] # None
        /\ history[r][i].binding.evidence \subseteq Decision(r).binding.evidence
    BY DEF Superseded, BooksInv, Books, ReceiptsAreHonest, HonestAbout
  <2>3. Decision(r).binding.evidence \subseteq Decision(r)'.binding.evidence
    BY <2>2, EvidenceStep DEF Decision
  <2> QED
    BY <2>1, <2>2, <2>3 DEF Superseded
<1>2. Superseded(r, i) => i \in 1..Len(history[r]) /\ ~ReplayVerifies(r, history[r][i])
  BY CleanReplay DEF Superseded
<1> QED
  BY <1>1, <1>2, ReceiptsInvariant, PTL DEF Spec

-----------------------------------------------------------------------------
(* The timeline.                                                            *)

(* The story the receipts of a run tell, as the timeline reads it: a first  *)
(* receipt without public sources, then one with new sources for every      *)
(* search that landed, and the receipt of the send last, once it is         *)
(* recorded.  Only the last names an approval and a send.                   *)
DecisionReceipts(r) ==
  IF sendState[r] = None THEN Len(history[r]) ELSE Len(history[r]) - 1

Story(r) ==
  /\ \A i \in 1..DecisionReceipts(r) :
       history[r][i].approval = None /\ history[r][i].esign = "NOT_ATTEMPTED"
  /\ HasReceipt(r) => history[r][1].binding.evidence = {}
  /\ \A i \in 2..DecisionReceipts(r) :
       history[r][i].binding.evidence \ history[r][i - 1].binding.evidence # {}
  /\ sendState[r] # None =>
       /\ Len(history[r]) >= 2
       /\ LatestReceipt(r).approval # None /\ LatestReceipt(r).esign # "NOT_ATTEMPTED"

StoryInv == \A r \in Runs : Story(r)

LEMMA SameStory ==
  ASSUME NEW q, Story(q), history'[q] = history[q], sendState'[q] = sendState[q]
  PROVE  Story(q)'
BY DEF Story, DecisionReceipts, HasReceipt, LatestReceipt

(* The receipt of a decision, before the send.                              *)
LEMMA DecisionTold ==
  ASSUME LedgerTypeOK, NEW r \in Runs, Story(r), NEW new \in Receipts,
         history' = [history EXCEPT ![r] = Append(@, new)],
         sendState[r] = None, sendState'[r] = None,
         new.approval = None, new.esign = "NOT_ATTEMPTED",
         ~HasReceipt(r) => new.binding.evidence = {},
         HasReceipt(r) => new.binding.evidence \ LatestReceipt(r).binding.evidence # {}
  PROVE  Story(r)'
<1> DEFINE n == Len(history[r])
           next == history'[r]
<1>1. /\ n \in Nat /\ Len(next) = n + 1
      /\ \A i \in 1..Len(next) :
           \/ i = Len(next) /\ next[i] = new
           \/ i \in 1..n /\ next[i] = history[r][i]
      /\ \A i \in 1..n : next[i] = history[r][i]
      /\ HasReceipt(r)'
  BY AppendedReceipt
<1>2. history[r] \in Seq(Receipts) /\ (HasReceipt(r) <=> n # 0)
  BY DEF LedgerTypeOK, HasReceipt
<1>3. DecisionReceipts(r) = n /\ DecisionReceipts(r)' = n + 1
  BY <1>1 DEF DecisionReceipts
<1>4. next[n + 1] = new
  BY <1>1
<1> HIDE DEF next, n
<1>5. ASSUME NEW i \in 1..(n + 1) PROVE next[i].approval = None /\ next[i].esign = "NOT_ATTEMPTED"
  <2>1. CASE i = n + 1
    BY <1>4, <2>1
  <2>2. CASE i \in 1..n
    BY <1>1, <1>3, <2>2 DEF Story, n
  <2> QED
    BY <1>1, <2>1, <2>2
<1>6. next[1].binding.evidence = {}
  <2>1. CASE n = 0
    BY <1>2, <1>4, <2>1
  <2>2. CASE n # 0
    <3>1. 1 \in 1..n
      BY <1>1, <2>2
    <3> QED
      BY <1>1, <1>2, <2>2, <3>1 DEF Story, n
  <2> QED
    BY <2>1, <2>2
<1>7. ASSUME NEW i \in 2..(n + 1)
      PROVE  next[i].binding.evidence \ next[i - 1].binding.evidence # {}
  <2>1. i - 1 \in 1..n /\ n # 0
    BY <1>1
  <2>2. CASE i = n + 1
    <3>1. next[i] = new /\ next[i - 1] = history[r][n]
      BY <1>1, <1>4, <2>1, <2>2
    <3> QED
      BY <1>2, <2>1, <3>1 DEF LatestReceipt, n
  <2>3. CASE i # n + 1
    <3>1. i \in 2..n /\ i \in 1..n
      BY <1>1, <2>3
    <3>2. next[i] = history[r][i] /\ next[i - 1] = history[r][i - 1]
      BY <1>1, <2>1, <3>1
    <3>3. history[r][i].binding.evidence \ history[r][i - 1].binding.evidence # {}
      BY <1>3, <3>1 DEF Story, n
    <3> QED
      BY <3>2, <3>3
  <2> QED
    BY <2>2, <2>3
<1> QED
  BY <1>3, <1>5, <1>6, <1>7 DEF Story, next

(* The receipt of the send.                                                 *)
LEMMA SendTold ==
  ASSUME LedgerTypeOK, NEW r \in Runs, Story(r), NEW new \in Receipts,
         history' = [history EXCEPT ![r] = Append(@, new)],
         sendState[r] = None, sendState'[r] # None, HasReceipt(r),
         new.approval # None, new.esign # "NOT_ATTEMPTED"
  PROVE  Story(r)'
<1> DEFINE n == Len(history[r])
           next == history'[r]
<1>1. /\ n \in Nat /\ Len(next) = n + 1
      /\ \A i \in 1..n : next[i] = history[r][i]
      /\ HasReceipt(r)' /\ LatestReceipt(r)' = new
  BY AppendedReceipt
<1>2. n # 0 /\ 1 \in 1..n
  <2>1. history[r] \in Seq(Receipts) /\ history[r] # <<>>
    BY DEF LedgerTypeOK, HasReceipt
  <2>2. n # 0
    BY <2>1
  <2> QED
    BY <1>1, <2>2
<1>3. DecisionReceipts(r) = n /\ DecisionReceipts(r)' = n
  BY <1>1 DEF DecisionReceipts
<1> HIDE DEF next, n
<1>4. \A i \in 1..n : next[i].approval = None /\ next[i].esign = "NOT_ATTEMPTED"
  BY <1>1, <1>3 DEF Story, n
<1>5. next[1].binding.evidence = {}
  BY <1>1, <1>2 DEF Story, n
<1>6. ASSUME NEW i \in 2..n
      PROVE  next[i].binding.evidence \ next[i - 1].binding.evidence # {}
  <2>1. i \in 1..n /\ i - 1 \in 1..n
    BY <1>1
  <2>2. history[r][i].binding.evidence \ history[r][i - 1].binding.evidence # {}
    BY <1>3 DEF Story, n
  <2> QED
    BY <1>1, <2>1, <2>2
<1>7. Len(next) >= 2
  BY <1>1, <1>2
<1> QED
  BY <1>1, <1>3, <1>4, <1>5, <1>6, <1>7 DEF Story, next

(* A new decision is told, unless the send was recorded: then its receipt   *)
(* is never built.                                                          *)
LEMMA NewDecisionTold ==
  ASSUME SendInv, NEW r \in Runs, Books(r), Story(r), NEW w \in Workflows,
         w.decision \in Decisions, w.state \in Outcomes,
         IssueReceipt(r, w, profileApproval[r], "NOT_ATTEMPTED", NoFolder),
         sendState' = sendState,
         result[r] = None => w.decision.binding.evidence = {} /\ history[r] = <<>>,
         result[r] # None =>
           w.decision.binding.evidence \ Decision(r).binding.evidence # {}
  PROVE  Story(r)'
<1> DEFINE receipt == NewReceipt(r, w, profileApproval[r], "NOT_ATTEMPTED")
<1>1. TypeOK /\ LedgerTypeOK /\ profileApproval[r] \in Bindings \cup {None}
  BY DEF SendInv, TypeOK
<1>2. CASE profileApproval[r] # None
  <2>1. UNCHANGED ledgerVars
    BY <1>2, DecisionReceiptIsValid DEF IssueReceipt
  <2> QED
    BY <2>1, SameStory DEF ledgerVars
<1>3. CASE profileApproval[r] = None
  <2>1. history' = [history EXCEPT ![r] = Append(@, receipt)]
    BY <1>3, DecisionReceiptIsValid DEF IssueReceipt
  <2>2. /\ receipt \in Receipts /\ receipt.binding = w.decision.binding
        /\ receipt.approval = None /\ receipt.esign = "NOT_ATTEMPTED"
    BY <1>1, <1>3, NewReceiptFields DEF ESignStatuses
  <2> HIDE DEF receipt
  <2>3. sendState[r] = None /\ sendState'[r] = None
    BY <1>3 DEF Books
  <2>4. CASE ~HasReceipt(r)
    <3>1. result[r] = None
      BY <2>4 DEF Books, NewestReceiptIsCurrent
    <3> QED
      BY <1>1, <2>1, <2>2, <2>3, <2>4, <3>1, DecisionTold
  <2>5. CASE HasReceipt(r)
    <3>1. result[r] # None
      BY <2>5 DEF HasReceipt
    <3>2. LatestReceipt(r).binding = Decision(r).binding
      BY <1>3, <3>1 DEF Books, NewestReceiptIsCurrent, Overtaken
    <3> QED
      BY <1>1, <2>1, <2>2, <2>3, <2>5, <3>1, <3>2, DecisionTold
  <2> QED
    BY <2>4, <2>5
<1> QED
  BY <1>2, <1>3

LEMMA FinishRunStory ==
  ASSUME SendInv, BooksInv, StoryInv, NEW r \in Runs, FinishRun(r)
  PROVE  StoryInv'
<1>1. PICK verdict \in [Claims -> ClaimStatuses] \cup {None},
           ambiguous \in SUBSET Claims, profilePasses \in BOOLEAN :
        IssueReceipt(r, NewResult(verdict, ambiguous, [pdf |-> disk[r], evidence |-> {}],
                          PolicyOutcome(verdict, pipeline[r], disk[r], profilePasses)).workflow,
                     profileApproval[r], "NOT_ATTEMPTED", NoFolder)
  BY DEF FinishRun
<1> DEFINE o == PolicyOutcome(verdict, pipeline[r], disk[r], profilePasses)
           b == [pdf |-> disk[r], evidence |-> {}]
           w == NewResult(verdict, ambiguous, b, o).workflow
<1>2. /\ status[r] = "RUNNING" /\ disk[r] # None /\ UNCHANGED sendState
  BY DEF FinishRun
<1>3. b \in Bindings /\ b.evidence = {} /\ o \in Outcomes
  BY <1>2, EvidenceIsPublicClaims, PolicyOutcomeType DEF SendInv, TypeOK, Bindings
<1>4. /\ w \in Workflows /\ w.decision \in Decisions /\ w.state \in Outcomes
      /\ w.decision.binding.evidence = {}
  <2> HIDE DEF o, b
  <2>1. [binding |-> b, outcome |-> o] \in Decisions
    BY <1>3 DEF Decisions
  <2>2. w \in Workflows /\ w.state = o /\ w.decision = [binding |-> b, outcome |-> o]
    BY <1>3, <2>1, NewResultType
  <2> HIDE DEF w
  <2> QED
    BY <1>3, <2>1, <2>2
<1>5. IssueReceipt(r, w, profileApproval[r], "NOT_ATTEMPTED", NoFolder)
  BY <1>1
<1>6. Books(r) /\ result[r] = None /\ history[r] = <<>>
  BY <1>2 DEF BooksInv, Books, NothingBeforeCompletion
<1> HIDE DEF w
<1>7. Story(r)'
  BY <1>2, <1>4, <1>5, <1>6, NewDecisionTold DEF StoryInv
<1>8. ASSUME NEW q \in Runs \ {r} PROVE Story(q)'
  <2>1. history'[q] = history[q]
    BY <1>5, IssueKeepsOthers DEF SendInv, TypeOK
  <2> QED
    BY <1>2, <2>1, SameStory DEF StoryInv
<1> QED
  BY <1>7, <1>8 DEF StoryInv

LEMMA SearchLandStory ==
  ASSUME SendInv, BooksInv, StoryInv, NEW r \in Runs, SearchLand(r)
  PROVE  StoryInv'
<1>1. UNCHANGED sendState
  BY DEF SearchLand
<1>2. CASE UNCHANGED ledgerVars
  BY <1>1, <1>2, SameStory DEF StoryInv, ledgerVars
<1>3. CASE ~UNCHANGED ledgerVars
  <2>1. PICK s \in searches[r], newStatus \in ClaimStatuses, profilePasses \in BOOLEAN :
          /\ s.pdf # None
          /\ IssueReceipt(r, EnrichedResult(s, newStatus, profilePasses).workflow,
                          profileApproval[r], "NOT_ATTEMPTED", NoFolder)
    BY <1>3 DEF SearchLand
  <2> DEFINE w == EnrichedResult(s, newStatus, profilePasses).workflow
  <2>2. /\ w \in Workflows /\ w.decision \in Decisions /\ w.state = w.decision.outcome
        /\ w.decision.binding.evidence =
             s.base.workflow.decision.binding.evidence \cup {s.claim}
    BY <2>1, EnrichedResultType DEF SendInv, TypeOK
  <2>3. IssueReceipt(r, w, profileApproval[r], "NOT_ATTEMPTED", NoFolder)
    BY <2>1
  <2> HIDE DEF w
  <2>4. /\ Books(r) /\ result[r] # None
        /\ s.base.workflow.decision.binding.evidence = Decision(r).binding.evidence
        /\ s.claim \notin Decision(r).binding.evidence
    BY DEF BooksInv, Books, SearchesAreFresh
  <2>5. w.state \in Outcomes
    BY <2>2 DEF Decisions
  <2>6. w.decision.binding.evidence \ Decision(r).binding.evidence # {}
    BY <2>2, <2>4
  <2>7. Story(r)'
    BY <1>1, <2>2, <2>3, <2>4, <2>5, <2>6, NewDecisionTold DEF StoryInv
  <2>8. ASSUME NEW q \in Runs \ {r} PROVE Story(q)'
    <3>1. history'[q] = history[q]
      BY <2>3, IssueKeepsOthers DEF SendInv, TypeOK
    <3> QED
      BY <1>1, <3>1, SameStory DEF StoryInv
  <2> QED
    BY <2>7, <2>8 DEF StoryInv
<1> QED
  BY <1>2, <1>3

LEMMA ApproveSendStory ==
  ASSUME NoFolder \notin FolderIds, SendInv, BooksInv, StoryInv, ApproveSend
  PROVE  StoryInv'
<1>1. PICK r \in Runs, w \in Workflows, done \in Workflows, dispatched \in BOOLEAN,
           succeeded \in BOOLEAN, folder \in FolderIds :
             SendEffect(r, w, done, dispatched, succeeded, folder)
  BY ApproveSendEffect
<1> DEFINE a == handler.approval
           id == IF succeeded THEN folder ELSE NoFolder
           receipt == NewReceipt(r, done, a, done.state)
<1>2. /\ result[r] # None /\ a \in Bindings /\ a # None
      /\ done.decision \in Decisions
      /\ sendState[r] = None
  BY <1>1, NoneIsNoValue DEF SendEffect, SendInv, SendSafety, HandlerOwnsRun
<1>3. /\ done.state = (IF succeeded THEN "SENT" ELSE "SEND_FAILED")
      /\ done.state \in ESignStatuses /\ done.state \in ApprovedStates
      /\ done.state = ExpectedESign(done.state) /\ done.state # "NOT_ATTEMPTED"
  BY <1>1 DEF SendEffect, ESignStatuses, ApprovedStates, ExpectedESign
<1>4. /\ sendState'[r] = done.state
      /\ \A q \in Runs \ {r} : sendState'[q] = sendState[q]
      /\ IssueReceipt(r, done, a, done.state, id)
  BY <1>1 DEF SendEffect, SendInv, TypeOK
<1>5. ReceiptIsValid(done, a, done.state, id)
  BY <1>1, <1>2, <1>3 DEF ReceiptIsValid
<1>6. history' = [history EXCEPT ![r] = Append(@, receipt)]
  BY <1>4, <1>5 DEF IssueReceipt
<1>7. /\ receipt \in Receipts
      /\ receipt.approval = a /\ receipt.esign = done.state
  BY <1>2, <1>3, NewReceiptFields DEF SendInv, TypeOK
<1>8. Story(r)'
  <2>1. LedgerTypeOK /\ HasReceipt(r) /\ Story(r)
    BY <1>2 DEF SendInv, TypeOK, BooksInv, Books, NewestReceiptIsCurrent, StoryInv
  <2>2. sendState'[r] # None
    BY <1>3, <1>4, NoneIsNoRunValue
  <2> HIDE DEF receipt, a
  <2> QED
    BY <1>2, <1>3, <1>6, <1>7, <2>1, <2>2, SendTold
<1>9. ASSUME NEW q \in Runs \ {r} PROVE Story(q)'
  <2>1. history'[q] = history[q]
    BY <1>4, IssueKeepsOthers DEF SendInv, TypeOK
  <2> QED
    BY <1>4, <2>1, SameStory DEF StoryInv
<1> QED
  BY <1>8, <1>9 DEF StoryInv

LEMMA StoryStep ==
  ASSUME NoFolder \notin FolderIds, SendInv, BooksInv, StoryInv, [Next]_vars
  PROVE  StoryInv'
<1>1. CASE UNCHANGED <<history, sendState>>
  BY <1>1, SameStory DEF StoryInv
<1>2. ASSUME NEW r \in Runs,
             StartRun(r) \/ ReadArtifact(r) \/ FailRun(r) \/ ArtifactChanges(r)
               \/ Review(r) \/ ApproveBegin(r) \/ SearchDiscover(r)
               \/ (\E c \in Claims : SearchBegin(r, c))
               \/ BeginReceiptPdf(r) \/ EndReceiptPdf(r)
      PROVE  StoryInv'
  BY <1>1, <1>2
  DEF StartRun, ReadArtifact, FailRun, ArtifactChanges, Review, ApproveBegin,
      SearchDiscover, SearchBegin, BeginReceiptPdf, EndReceiptPdf,
      StartReceiptPdf, FinishReceiptPdf, ledgerVars, runVars
<1>3. CASE ApproveRecheck
  BY <1>1, <1>3 DEF ApproveRecheck, ledgerVars
<1>4. CASE UNCHANGED vars
  BY <1>1, <1>4 DEF vars, runVars, ledgerVars
<1> QED
  BY <1>2, <1>3, <1>4, FinishRunStory, SearchLandStory, ApproveSendStory
  DEF Next, BackgroundRun, SearchStep, SendStep

LEMMA InitStory == Init => StoryInv
<1> SUFFICES ASSUME Init, NEW r \in Runs PROVE Story(r)
  BY DEF StoryInv
<1>1. history[r] = <<>> /\ Len(history[r]) = 0 /\ sendState[r] = None
  BY DEF Init, LedgerInit
<1> QED
  BY <1>1 DEF Story, DecisionReceipts, HasReceipt

(* The event of the i-th receipt of a decision.                             *)
DecisionEvent(i) ==
  IF i = 1 THEN "VERIFICATION_RECEIPT" ELSE "PUBLIC_EVIDENCE_REEVALUATION"

LEMMA DecisionEvents ==
  ASSUME LedgerTypeOK, NEW r \in Runs, Story(r), HasReceipt(r),
         NEW i \in 1..DecisionReceipts(r)
  PROVE  EventsOf(history[r], i) = <<DecisionEvent(i)>>
<1> DEFINE h == history[r]
<1>1. h[i].approval = None /\ h[i].esign = "NOT_ATTEMPTED"
  BY DEF Story
<1>2. EventsOf(h, i) = <<>> \o <<>> \o <<ReceiptEvent(h, i)>>
  BY <1>1 DEF EventsOf
<1>3. ReceiptEvent(h, i) = DecisionEvent(i)
  <2>1. CASE i = 1
    <3>1. h[1].binding.evidence = {}
      BY DEF Story
    <3>2. h[1].binding.evidence \ {} = {}
      BY <3>1
    <3> QED
      BY <1>1, <2>1, <3>2 DEF ReceiptEvent, DecisionEvent
  <2>2. CASE i # 1
    <3>1. i \in 2..DecisionReceipts(r)
      BY <2>2
    <3>2. h[i].binding.evidence \ h[i - 1].binding.evidence # {}
      BY <3>1 DEF Story
    <3> QED
      BY <1>1, <2>2, <3>2 DEF ReceiptEvent, DecisionEvent
  <2> QED
    BY <2>1, <2>2
<1>4. <<>> \o <<>> \o <<ReceiptEvent(h, i)>> = <<ReceiptEvent(h, i)>>
  OBVIOUS
<1> QED
  BY <1>2, <1>3, <1>4

Kinds == {"RUN_CREATED", "VERIFICATION_RECEIPT", "PUBLIC_EVIDENCE_REEVALUATION",
          "HUMAN_APPROVAL", "ESIGN_ATTEMPT", "SEND_RECEIPT"}

SendEvents == <<"HUMAN_APPROVAL", "ESIGN_ATTEMPT", "SEND_RECEIPT">>

LEMMA SendIsTold ==
  ASSUME LedgerTypeOK, NEW r \in Runs, Story(r), sendState[r] # None
  PROVE  EventsOf(history[r], Len(history[r])) = SendEvents
<1> DEFINE h == history[r]
           n == Len(h)
<1>1. h[n].approval # None /\ h[n].esign # "NOT_ATTEMPTED"
  BY DEF Story, LatestReceipt
<1>2. \A i \in 1..(n - 1) : h[i].approval = None
  BY DEF Story, DecisionReceipts
<1>3. EventsOf(h, n) = <<"HUMAN_APPROVAL">> \o <<"ESIGN_ATTEMPT">> \o <<"SEND_RECEIPT">>
  <2>1. ReceiptEvent(h, n) = "SEND_RECEIPT"
    BY <1>1 DEF ReceiptEvent
  <2>2. h[n].approval # None /\ \A j \in 1..(n - 1) : h[j].approval = None
    BY <1>1, <1>2
  <2> HIDE DEF h, n
  <2> QED
    BY <1>1, <2>1, <2>2, Zenon DEF EventsOf
<1>4. <<"HUMAN_APPROVAL">> \o <<"ESIGN_ATTEMPT">> \o <<"SEND_RECEIPT">> = SendEvents
  <2>1. "HUMAN_APPROVAL" \in Kinds /\ "ESIGN_ATTEMPT" \in Kinds /\ "SEND_RECEIPT" \in Kinds
    BY DEF Kinds
  <2>2. Single("HUMAN_APPROVAL") \o Single("ESIGN_ATTEMPT") \o Single("SEND_RECEIPT")
          = Triple("HUMAN_APPROVAL", "ESIGN_ATTEMPT", "SEND_RECEIPT")
    BY <2>1, TripleOfSingles
  <2> QED
    BY <2>2, Zenon DEF SendEvents, Single, Triple
<1> QED
  BY <1>3, <1>4

(* The events of n decisions are the verification and n - 1 re-evaluations. *)
LEMMA DecisionsTold ==
  ASSUME NEW n \in Nat \ {0}, NEW events, \A i \in 1..n : events[i] = <<DecisionEvent(i)>>
  PROVE  FlattenSeq([i \in 1..n |-> events[i]])
           = <<"VERIFICATION_RECEIPT">> \o [i \in 1..(n - 1) |-> "PUBLIC_EVIDENCE_REEVALUATION"]
<1> DEFINE E == {"VERIFICATION_RECEIPT", "PUBLIC_EVIDENCE_REEVALUATION"}
           s == [i \in 1..n |-> DecisionEvent(i)]
           more == [i \in 1..(n - 1) |-> "PUBLIC_EVIDENCE_REEVALUATION"]
           first == <<"VERIFICATION_RECEIPT">>
<1>1. s \in [1..n -> E]
  BY DEF DecisionEvent
<1>2. \A i \in 1..n : s[i] = DecisionEvent(i)
  OBVIOUS
<1>3. more \in [1..(n - 1) -> E] /\ first \in Seq(E) /\ Len(first) = 1
  OBVIOUS
<1>4. \A i \in 1..(n - 1) : more[i] = "PUBLIC_EVIDENCE_REEVALUATION"
  OBVIOUS
<1>5. first[1] = "VERIFICATION_RECEIPT"
  OBVIOUS
<1> HIDE DEF s, more, first, E
<1>6. s \in Seq(E) /\ Len(s) = n /\ more \in Seq(E) /\ Len(more) = n - 1
  BY <1>1, <1>3
<1>7. FlattenSeq([i \in 1..n |-> <<s[i]>>]) = s
  BY <1>6, FlattenSingles
<1>8. [i \in 1..n |-> <<s[i]>>] = [i \in 1..n |-> events[i]]
  BY <1>2
<1>9. s = first \o more
  <2>1. /\ first \o more \in Seq(E) /\ Len(first \o more) = n
        /\ (first \o more)[1] = first[1]
        /\ \A i \in 1..(n - 1) : (first \o more)[1 + i] = more[i]
    <3>1. first = Single("VERIFICATION_RECEIPT")
      BY DEF first, Single
    <3>2. "VERIFICATION_RECEIPT" \in E
      BY DEF E
    <3> DEFINE a == "VERIFICATION_RECEIPT"
               t == Single(a) \o more
    <3> HIDE DEF a, t
    <3>3. t \in Seq(E) /\ Len(t) = 1 + Len(more) /\ t[1] = a
          /\ \A i \in 1..Len(more) : t[1 + i] = more[i]
      BY <1>6, <3>2, SingleThen DEF t, a
    <3>4. t = first \o more
      BY <3>1 DEF t, a
    <3>5. first[1] = a
      BY <1>5 DEF a
    <3> QED
      BY <1>6, <3>3, <3>4, <3>5
  <2>2. ASSUME NEW i \in 1..n PROVE (first \o more)[i] = s[i]
    <3>1. CASE i = 1
      BY <1>2, <1>5, <2>1, <3>1 DEF DecisionEvent
    <3>2. CASE i # 1
      <4>1. i - 1 \in 1..(n - 1) /\ 1 + (i - 1) = i
        BY <3>2
      <4>2. (first \o more)[i] = more[i - 1]
        BY <2>1, <4>1
      <4>3. s[i] = "PUBLIC_EVIDENCE_REEVALUATION"
        BY <1>2, <3>2 DEF DecisionEvent
      <4> QED
        BY <1>4, <4>1, <4>2, <4>3
    <3> QED
      BY <3>1, <3>2
  <2> DEFINE t == first \o more
  <2> HIDE DEF t
  <2>3. t \in Seq(E) /\ Len(t) = n /\ \A i \in 1..n : t[i] = s[i]
    BY <2>1, <2>2 DEF t
  <2> QED
    BY <1>6, <2>3 DEF t
<1> QED
  BY <1>7, <1>8, <1>9 DEF first, more

LEMMA StoryTold ==
  ASSUME SendInv, BooksInv, StoryInv
  PROVE  TimelineTellsLifecycle
<1> SUFFICES ASSUME NEW r \in Runs, Complete(r)
             PROVE  LET ending == IF sendState[r] = None THEN <<>> ELSE SendEvents
                        before == <<"RUN_CREATED", "VERIFICATION_RECEIPT">>
                        events == Timeline(history[r])
                        reevaluations == Len(events) - Len(before) - Len(ending)
                    IN /\ reevaluations >= 0
                       /\ events = before
                            \o [i \in 1..reevaluations |-> "PUBLIC_EVIDENCE_REEVALUATION"]
                            \o ending
  BY DEF TimelineTellsLifecycle, SendEvents
<1> DEFINE h == history[r]
           n == Len(h)
           d == DecisionReceipts(r)
           F(m) == [i \in 1..m |-> EventsOf(h, i)]
           more == [i \in 1..(d - 1) |-> "PUBLIC_EVIDENCE_REEVALUATION"]
           ending == IF sendState[r] = None THEN <<>> ELSE SendEvents
           E == Kinds
<1>1. /\ LedgerTypeOK /\ Story(r) /\ HasReceipt(r) /\ h \in Seq(Receipts)
      /\ n \in Nat \ {0}
  <2>1. LedgerTypeOK /\ Story(r) /\ HasReceipt(r)
    BY DEF SendInv, TypeOK, StoryInv, BooksInv, Books, NewestReceiptIsCurrent, Complete
  <2>2. h \in Seq(Receipts) /\ h # <<>>
    BY <2>1 DEF LedgerTypeOK, HasReceipt
  <2> QED
    BY <2>1, <2>2
<1>2. d \in Nat \ {0} /\ d = (IF sendState[r] = None THEN n ELSE n - 1)
  <2>1. sendState[r] # None => n >= 2
    BY <1>1 DEF Story
  <2>2. d = n - (IF sendState[r] = None THEN 0 ELSE 1)
    BY DEF DecisionReceipts
  <2> HIDE DEF d, n
  <2> QED
    BY <1>1, <2>1, <2>2
<1>3. \A i \in 1..d : EventsOf(h, i) = <<DecisionEvent(i)>>
  BY <1>1, DecisionEvents
<1> HIDE DEF d, n
<1>4. FlattenSeq(F(d)) = <<"VERIFICATION_RECEIPT">> \o more
  <2> DEFINE all == F(d)
  <2>1. \A i \in 1..d : all[i] = <<DecisionEvent(i)>>
    BY <1>3
  <2>2. all = [i \in 1..d |-> all[i]]
    OBVIOUS
  <2> HIDE DEF all
  <2>3. FlattenSeq([i \in 1..d |-> all[i]]) = <<"VERIFICATION_RECEIPT">> \o more
    BY <1>2, <2>1, DecisionsTold
  <2> QED
    BY <2>2, <2>3 DEF all
<1>5. F(d) \in Seq(Seq(E)) /\ Len(F(d)) = d /\ SendEvents \in Seq(E) /\ Len(SendEvents) = 3
  <2>1. \A i \in 1..d : EventsOf(h, i) \in Seq(E)
    <3>1. \A i \in 1..d : DecisionEvent(i) \in Kinds
      BY DEF DecisionEvent, Kinds
    <3>2. \A i \in 1..d : Single(DecisionEvent(i)) \in Seq(Kinds)
      BY <3>1, SingleType
    <3> QED
      BY <1>3, <3>2 DEF Single
  <2>2. F(d) \in [1..d -> Seq(E)]
    BY <2>1
  <2> DEFINE f == F(d)
  <2> HIDE DEF f
  <2>3. f \in Seq(Seq(E)) /\ Len(f) = d
    BY <1>2, <2>2 DEF f
  <2>4. SendEvents \in Seq(E) /\ Len(SendEvents) = 3
    <3>1. "HUMAN_APPROVAL" \in Kinds /\ "ESIGN_ATTEMPT" \in Kinds /\ "SEND_RECEIPT" \in Kinds
      BY DEF Kinds
    <3>2. SendEvents = Triple("HUMAN_APPROVAL", "ESIGN_ATTEMPT", "SEND_RECEIPT")
      BY DEF SendEvents, Triple
    <3> QED
      BY <3>1, <3>2, TripleType
  <2> QED
    BY <2>3, <2>4 DEF f
<1>6. FlattenSeq(F(n)) = FlattenSeq(F(d)) \o ending
  <2>1. CASE sendState[r] = None
    <3>1. n = d /\ ending = <<>>
      BY <1>2, <2>1
    <3>2. FlattenSeq(F(d)) \in Seq(E)
      BY <1>5, FlattenType
    <3> QED
      BY <3>1, <3>2
  <2>2. CASE sendState[r] # None
    <3>1. n = d + 1 /\ ending = SendEvents
      BY <1>1, <1>2, <2>2
    <3>2. EventsOf(h, n) = SendEvents
      BY <1>1, <2>2, SendIsTold DEF n
    <3>3. F(n) = Append(F(d), SendEvents)
      <4> DEFINE f == F(d)
                 g == Append(f, SendEvents)
      <4>1. \A i \in 1..d : f[i] = EventsOf(h, i)
        OBVIOUS
      <4>2. f \in Seq(Seq(E)) /\ Len(f) = d
        BY <1>5
      <4> HIDE DEF f
      <4>3. /\ g \in Seq(Seq(E)) /\ Len(g) = d + 1 /\ g[d + 1] = SendEvents
            /\ \A i \in 1..d : g[i] = f[i]
        BY <1>2, <1>5, <4>2
      <4> HIDE DEF g
      <4>4. g = [i \in 1..(d + 1) |-> g[i]]
        BY <4>3
      <4>5. \A i \in 1..(d + 1) : g[i] = EventsOf(h, i)
        BY <1>2, <3>1, <3>2, <4>1, <4>3
      <4> QED
        BY <3>1, <4>4, <4>5 DEF f, g
    <3>4. FlattenSeq(Append(F(d), SendEvents)) = FlattenSeq(F(d)) \o SendEvents
      <4> DEFINE f == F(d)
      <4>1. f \in Seq(Seq(E))
        BY <1>5
      <4> HIDE DEF f, E
      <4>2. FlattenSeq(Append(f, SendEvents)) = FlattenSeq(f) \o SendEvents
        BY <1>5, <4>1, FlattenAppend
      <4> QED
        BY <4>2 DEF f
    <3> QED
      BY <3>1, <3>3, <3>4
  <2> QED
    BY <2>1, <2>2
<1>7. Timeline(h) = <<"RUN_CREATED">> \o FlattenSeq(F(n))
  BY Zenon DEF Timeline, n
<1>8. more \in Seq(E) /\ Len(more) = d - 1 /\ ending \in Seq(E)
  <2>1. more \in [1..(d - 1) -> E]
    BY DEF Kinds
  <2>2. d - 1 \in Nat
    BY <1>2
  <2> HIDE DEF more
  <2>3. more \in Seq(E) /\ Len(more) = d - 1
    BY <2>1, <2>2
  <2>4. ending \in Seq(E)
    BY <1>5
  <2> QED
    BY <2>3, <2>4
<1> DEFINE before == <<"RUN_CREATED", "VERIFICATION_RECEIPT">>
           events == Timeline(h)
<1>9. /\ <<"RUN_CREATED">> \in Seq(E) /\ <<"VERIFICATION_RECEIPT">> \in Seq(E)
      /\ <<"RUN_CREATED">> \o <<"VERIFICATION_RECEIPT">> = before
      /\ before \in Seq(E) /\ Len(before) = 2
  <2>1. "RUN_CREATED" \in Kinds /\ "VERIFICATION_RECEIPT" \in Kinds
    BY DEF Kinds
  <2>2. Single("RUN_CREATED") = <<"RUN_CREATED">>
    BY DEF Single
  <2>3. Single("VERIFICATION_RECEIPT") = <<"VERIFICATION_RECEIPT">>
    BY DEF Single
  <2>4. Pair("RUN_CREATED", "VERIFICATION_RECEIPT") = before
    BY DEF Pair
  <2>5. Single("RUN_CREATED") \in Seq(E) /\ Single("VERIFICATION_RECEIPT") \in Seq(E)
    BY <2>1, SingleType
  <2>6. /\ Pair("RUN_CREATED", "VERIFICATION_RECEIPT") \in Seq(E)
        /\ Len(Pair("RUN_CREATED", "VERIFICATION_RECEIPT")) = 2
    BY <2>1, PairType
  <2>7. Single("RUN_CREATED") \o Single("VERIFICATION_RECEIPT")
          = Pair("RUN_CREATED", "VERIFICATION_RECEIPT")
    BY <2>1, PairOfSingles
  <2> HIDE DEF before, E
  <2> QED
    BY <2>2, <2>3, <2>4, <2>5, <2>6, <2>7, Zenon
<1>10. events = before \o more \o ending
  <2>1. events = <<"RUN_CREATED">> \o ((<<"VERIFICATION_RECEIPT">> \o more) \o ending)
    BY <1>4, <1>6, <1>7
  <2> DEFINE a == <<"RUN_CREATED">>
             b == <<"VERIFICATION_RECEIPT">>
  <2>2. events = a \o ((b \o more) \o ending) /\ a \o b = before
    BY <1>9, <2>1
  <2>3. a \in Seq(E) /\ b \in Seq(E)
    BY <1>9
  <2>4. more \in Seq(E) /\ ending \in Seq(E)
    BY <1>8
  <2> HIDE DEF a, b, events, more, ending, E, before, h, F
  <2>5. a \o ((b \o more) \o ending) = ((a \o b) \o more) \o ending
    BY <2>3, <2>4, Regroup, SMTT(40)
  <2> QED
    BY <2>2, <2>5
<1>11. Len(events) - Len(before) - Len(ending) = d - 1
  <2> HIDE DEF events, more, ending, before, E
  <2>1. before \o more \in Seq(E) /\ Len(before \o more) = Len(before) + Len(more)
    BY <1>8, <1>9, ConcatElements
  <2>2. Len(before \o more \o ending) = Len(before \o more) + Len(ending)
    BY <1>8, <2>1, ConcatElements
  <2>3. Len(before) = 2 /\ Len(more) = d - 1 /\ d - 1 \in Int
    BY <1>2, <1>8, <1>9
  <2>4. Len(ending) \in Nat
    BY <1>8
  <2> QED
    BY <1>10, <2>1, <2>2, <2>3, <2>4
<1>12. d - 1 >= 0
  BY <1>2
<1> HIDE DEF events, ending, before
<1> QED
  BY <1>10, <1>11, <1>12 DEF events, ending, before

(* build_audit_timeline tells the life of a run from its receipts alone: a  *)
(* verification, the re-evaluations, and last the approval, the attempt and *)
(* the receipt of the send that was recorded, whatever searches were late,  *)
(* provided the eSign service never answers a send with an empty folder     *)
(* identifier.                                                              *)
THEOREM TimelinesTellLifecycle ==
  ASSUME NoFolder \notin FolderIds
  PROVE  Spec => []TimelineTellsLifecycle
<1>1. SendInv /\ BooksInv /\ StoryInv /\ [Next]_vars => StoryInv'
  BY StoryStep
<1>2. SendInv /\ BooksInv /\ StoryInv => TimelineTellsLifecycle
  BY StoryTold
<1> QED
  BY <1>1, <1>2, InitStory, ReceiptsInvariant, PTL DEF Spec

-----------------------------------------------------------------------------
(* Refinement: every run is decided as RunDecisions says.                   *)

(* A result is a decision in force.                                         *)
LEMMA ResultInForce ==
  ASSUME NEW r \in Runs, NEW x \in Results
  PROVE  LET d == [verdicts |-> x.verdict, ambiguous |-> x.ambiguous,
                   searched |-> x.workflow.decision.binding.evidence,
                   pdf |-> x.workflow.decision.binding.pdf,
                   outcome |-> x.workflow.decision.outcome]
         IN d # None /\ d \in Decided(r)!DecisionsInForce
<1>1. x.workflow.decision \in Decisions
  BY DEF Results, Workflows
<1>2. /\ x.workflow.decision.binding.evidence \in SUBSET Claims
      /\ x.workflow.decision.binding.pdf \in Contents
      /\ x.workflow.decision.outcome \in Outcomes
  BY <1>1, EvidenceIsPublicClaims DEF Decisions, Bindings
<1>3. x.verdict \in [Claims -> ClaimStatuses] \cup {None} /\ x.ambiguous \in SUBSET Claims
  BY DEF Results
<1>4. x.verdict \in (UNION {[S -> ClaimStatuses] : S \in SUBSET Claims}) \cup {None}
  <2> DEFINE maps == {[S -> ClaimStatuses] : S \in SUBSET Claims}
  <2>1. [Claims -> ClaimStatuses] \in maps
    OBVIOUS
  <2> HIDE DEF maps
  <2>2. [Claims -> ClaimStatuses] \subseteq UNION maps
    BY <2>1
  <2>3. x.verdict \in (UNION maps) \cup {None}
    BY <1>3, <2>2
  <2> QED
    BY <2>3, Zenon DEF maps
<1> DEFINE d == [verdicts |-> x.verdict, ambiguous |-> x.ambiguous,
                 searched |-> x.workflow.decision.binding.evidence,
                 pdf |-> x.workflow.decision.binding.pdf,
                 outcome |-> x.workflow.decision.outcome]
<1>5. d # None
  <2>1. d \in [verdicts : [Claims -> ClaimStatuses] \cup {None}, ambiguous : SUBSET Claims,
              searched : SUBSET Claims, pdf : Contents, outcome : Outcomes]
    BY <1>2, <1>3
  <2> QED
    BY <2>1, NoneIsNoRunValue
<1>6. d \in Decided(r)!DecisionsInForce
  <2>1. Decided(r)!DecisionsInForce =
          [verdicts : (UNION {[S -> ClaimStatuses] : S \in SUBSET Claims}) \cup {None},
           ambiguous : SUBSET Claims, searched : SUBSET Claims,
           pdf : Contents, outcome : Outcomes]
    BY DEF Decided!DecisionsInForce, Decided!Verdicts, Decided!Outcomes, ClaimStatuses,
           Outcomes
  <2> QED
    BY <1>2, <1>3, <1>4, <2>1
<1> QED
  BY <1>5, <1>6

LEMMA RunInForce ==
  ASSUME TypeOK, NEW r \in Runs, result[r] # None
  PROVE  /\ InForce(r) # None
         /\ InForce(r) = [verdicts |-> result[r].verdict, ambiguous |-> result[r].ambiguous,
                          searched |-> Decision(r).binding.evidence,
                          pdf |-> Decision(r).binding.pdf, outcome |-> Decision(r).outcome]
<1>1. result[r] \in Results
  BY ResultFields
<1> QED
  BY <1>1, ResultInForce DEF InForce, Decision

(* A step of the workflow of a run keeps the decision in force.             *)
LEMMA WorkflowStepInForce ==
  ASSUME TypeOK, NEW r \in Runs, result[r] # None, NEW w \in Workflows,
         w.decision = Decision(r), result' = WithWorkflow(r, w)
  PROVE  \A q \in Runs :
           /\ InForce(q)' = InForce(q)
           /\ result'[q] = None <=> result[q] = None
<1>1. w.decision # None
  BY ResultFields, NoneIsNoValue
<1>2. /\ result'[r].workflow = w /\ result'[r] # None
      /\ \A q \in Runs \ {r} : result'[q] = result[q]
  BY <1>1, WithWorkflowType
<1>3. result'[r].verdict = result[r].verdict /\ result'[r].ambiguous = result[r].ambiguous
  BY ResultFields DEF WithWorkflow, TypeOK, Results
<1> QED
  BY <1>2, <1>3 DEF InForce, Decision

SendingStep == (\E r \in Runs : ApproveBegin(r)) \/ ApproveRecheck \/ ApproveSend

LEMMA SendingKeepsInForce ==
  ASSUME SendInv, SendingStep
  PROVE  /\ \A q \in Runs : InForce(q)' = InForce(q) /\ (result'[q] = None <=> result[q] = None)
         /\ UNCHANGED <<pipeline, searches>>
<1>1. UNCHANGED <<pipeline, searches>>
  BY DEF SendingStep, ApproveBegin, ApproveRecheck, ApproveSend
<1>2. CASE UNCHANGED result
  BY <1>1, <1>2 DEF InForce, Decision
<1>3. ASSUME NEW r \in Runs, ApproveBegin(r), ~UNCHANGED result
      PROVE  \E q \in Runs, w \in Workflows :
               result[q] # None /\ w.decision = Decision(q) /\ result' = WithWorkflow(q, w)
  <2>1. /\ result[r] # None
        /\ result' = WithWorkflow(r, Approve(result[r].workflow, Decision(r).binding))
    BY <1>3 DEF ApproveBegin, SendAllowed, Complete
  <2>2. /\ Approve(result[r].workflow, Decision(r).binding) \in Workflows
        /\ Approve(result[r].workflow, Decision(r).binding).decision = Decision(r)
    BY <2>1, ResultFields, WorkflowSteps DEF SendInv, Decision
  <2> QED
    BY <2>1, <2>2
<1>4. ASSUME ApproveRecheck, ~UNCHANGED result
      PROVE  \E q \in Runs, w \in Workflows :
               result[q] # None /\ w.decision = Decision(q) /\ result' = WithWorkflow(q, w)
  <2> DEFINE r == handler.run
  <2>1. /\ r \in Runs /\ result[r] # None
        /\ result' = WithWorkflow(r, StartSending(result[r].workflow))
    BY <1>4 DEF ApproveRecheck, SendInv, SendSafety, TypeOK, Handlers, HandlerOwnsRun,
                Complete
  <2>2. /\ StartSending(result[r].workflow) \in Workflows
        /\ StartSending(result[r].workflow).decision = Decision(r)
    BY <2>1, ResultFields DEF SendInv, Decision, Workflows, WorkflowStates, StartSending
  <2> HIDE DEF r
  <2> QED
    BY <2>1, <2>2
<1>5. ASSUME ApproveSend
      PROVE  \E q \in Runs, w \in Workflows :
               result[q] # None /\ w.decision = Decision(q) /\ result' = WithWorkflow(q, w)
  <2>1. PICK r \in Runs, w \in Workflows, done \in Workflows, dispatched \in BOOLEAN,
             succeeded \in BOOLEAN, folder \in FolderIds :
               SendEffect(r, w, done, dispatched, succeeded, folder)
    BY <1>5, ApproveSendEffect
  <2> QED
    BY <2>1 DEF SendEffect, Decision
<1>6. CASE ~UNCHANGED result
  <2>1. PICK r \in Runs, w \in Workflows :
          result[r] # None /\ w.decision = Decision(r) /\ result' = WithWorkflow(r, w)
    BY <1>3, <1>4, <1>5, <1>6 DEF SendingStep
  <2> QED
    BY <1>1, <2>1, WorkflowStepInForce DEF SendInv
<1> QED
  BY <1>2, <1>6

(* A search in flight works on the verdicts in force, for a claim that      *)
(* public search accepts and that is open.                                  *)
SearchesAreCurrent(r) ==
  \A s \in searches[r] :
    /\ result[r] # None
    /\ s.base.verdict = InForce(r).verdicts /\ s.base.ambiguous = InForce(r).ambiguous
    /\ s.claim \in Eligible
    /\ s.base.verdict[s.claim] \in {"UNSUPPORTED", "UNCERTAIN"}

SearchesInv == \A r \in Runs : SearchesAreCurrent(r)

LEMMA SameSearches ==
  ASSUME NEW q \in Runs, SearchesAreCurrent(q), searches'[q] \subseteq searches[q],
         InForce(q)' = InForce(q), result'[q] = None <=> result[q] = None
  PROVE  SearchesAreCurrent(q)'
BY DEF SearchesAreCurrent

LEMMA SearchBeginCurrent ==
  ASSUME SendInv, SearchesInv, NEW r \in Runs, NEW c \in Claims, SearchBegin(r, c)
  PROVE  SearchesInv'
<1> DEFINE new == [claim |-> c, base |-> result[r], pdf |-> None]
<1>1. /\ result[r] # None /\ c \in Eligible /\ UNCHANGED result
      /\ \/ searches' = searches
         \/ /\ searches' = [searches EXCEPT ![r] = @ \cup {new}]
            /\ result[r].verdict[c] \in {"UNSUPPORTED", "UNCERTAIN"}
  BY DEF SearchBegin, SearchAllowed, Complete
<1>2. ASSUME NEW q \in Runs PROVE InForce(q)' = InForce(q) /\ result'[q] = result[q]
  BY <1>1 DEF InForce, Decision
<1>3. new.claim = c /\ new.base = result[r]
  OBVIOUS
<1> HIDE DEF new
<1>4. /\ InForce(r).verdicts = result[r].verdict
      /\ InForce(r).ambiguous = result[r].ambiguous
  BY <1>1, RunInForce DEF SendInv
<1>5. ASSUME NEW q \in Runs, NEW s \in searches'[q]
      PROVE  \/ s \in searches[q]
             \/ q = r /\ s = new /\ result[r].verdict[c] \in {"UNSUPPORTED", "UNCERTAIN"}
  BY <1>1 DEF SendInv, TypeOK
<1> QED
  BY <1>1, <1>2, <1>3, <1>4, <1>5 DEF SearchesInv, SearchesAreCurrent

LEMMA SearchDiscoverCurrent ==
  ASSUME SendInv, SearchesInv, NEW r \in Runs, SearchDiscover(r)
  PROVE  SearchesInv'
<1>1. PICK s \in searches[r] : \E left \in AfterDiscovery(s, disk[r]) :
        searches' = [searches EXCEPT ![r] = (@ \ {s}) \cup left]
  BY DEF SearchDiscover
<1>2. UNCHANGED result /\ s \in Searches
  BY DEF SearchDiscover, SendInv, TypeOK
<1>3. /\ \A q \in Runs \ {r} : searches'[q] = searches[q]
      /\ \A t \in searches'[r] : t \in searches[r] \ {s} \/ t = [s EXCEPT !.pdf = disk[r]]
  BY <1>1 DEF SendInv, TypeOK, AfterDiscovery
<1>4. [s EXCEPT !.pdf = disk[r]].base = s.base /\ [s EXCEPT !.pdf = disk[r]].claim = s.claim
  BY <1>2 DEF Searches
<1>5. ASSUME NEW q \in Runs PROVE InForce(q)' = InForce(q) /\ result'[q] = result[q]
  BY <1>2 DEF InForce, Decision
<1>6. ASSUME NEW q \in Runs \ {r} PROVE SearchesAreCurrent(q)'
  BY <1>3, <1>5, SameSearches DEF SearchesInv
<1>7. ASSUME NEW t \in searches'[r]
      PROVE  \E u \in searches[r] : t.base = u.base /\ t.claim = u.claim
  BY <1>3, <1>4
<1>8. SearchesAreCurrent(r)'
  <2>1. SearchesAreCurrent(r)
    BY DEF SearchesInv
  <2> QED
    BY <1>5, <1>7, <2>1 DEF SearchesAreCurrent
<1> QED
  BY <1>6, <1>8 DEF SearchesInv

(* What the end of a search makes of the decision in force.                 *)
LEMMA SearchLandSettles ==
  ASSUME SendInv, BooksInv, SearchesInv, NEW r \in Runs, SearchLand(r), ~UNCHANGED result
  PROVE  /\ \E c \in Claims : Decided(r)!Settle(c)
         /\ \A q \in Runs \ {r} : InForce(q)' = InForce(q) /\ result'[q] = result[q]
<1>1. PICK s \in searches[r], newStatus \in ClaimStatuses, profilePasses \in BOOLEAN :
        /\ s.pdf # None
        /\ ProjectionSucceeds(s.base, s.claim)
        /\ result' = [result EXCEPT ![r] = EnrichedResult(s, newStatus, profilePasses)]
  BY DEF SearchLand
<1> DEFINE c == s.claim
           d == InForce(r)
           verdict == [s.base.verdict EXCEPT ![c] = newStatus]
           old == s.base.workflow.decision.binding.evidence
           b == [pdf |-> s.pdf, evidence |-> old \cup {c}]
           o == PolicyOutcome(verdict, s.pdf, s.pdf, profilePasses)
           new == NewResult(verdict, s.base.ambiguous, b, o)
<1>2. /\ s \in Searches /\ s.base \in Results /\ s.base.verdict \in [Claims -> ClaimStatuses]
      /\ c \in Claims /\ s.pdf \in Contents
  BY <1>1 DEF SendInv, TypeOK, Searches, Results
<1>3. /\ result[r] # None /\ old = Decision(r).binding.evidence /\ c \notin old
      /\ s.base.verdict = d.verdicts /\ s.base.ambiguous = d.ambiguous
      /\ c \in Eligible /\ s.base.verdict[c] \in {"UNSUPPORTED", "UNCERTAIN"}
  BY DEF BooksInv, Books, SearchesAreFresh, SearchesInv, SearchesAreCurrent
<1>4. /\ d # None /\ d.searched = old
  BY <1>3, RunInForce DEF SendInv
<1>5. /\ d.verdicts # None /\ DOMAIN d.verdicts = Claims
      /\ d.ambiguous \subseteq d.searched \cup {c}
  BY <1>1, <1>2, <1>3, <1>4, NoneIsNoRunValue DEF ProjectionSucceeds
<1>6. verdict \in [Claims -> ClaimStatuses] /\ s.base.ambiguous \in SUBSET Claims
  BY <1>2 DEF Results
<1>7. b \in Bindings /\ b.pdf = s.pdf /\ b.evidence = old \cup {c} /\ o \in Outcomes
  <2>1. old \in SUBSET Claims
    BY <1>3, ResultFields DEF SendInv
  <2> QED
    BY <1>2, <2>1, EvidenceIsPublicClaims, PolicyOutcomeType DEF Bindings
<1>8. o = "READY_FOR_APPROVAL" => Decided(r)!AllSupported(verdict)
  <2> HIDE DEF verdict
  <2> QED
    BY DEF PolicyOutcome, Decided!AllSupported
<1>9. /\ result' = [result EXCEPT ![r] = new]
      /\ verdict = [d.verdicts EXCEPT ![c] = newStatus]
  BY <1>1, <1>3 DEF EnrichedResult
<1> HIDE DEF b, o, old, c
<1>10. /\ new \in Results /\ new.verdict = verdict /\ new.ambiguous = s.base.ambiguous
       /\ new.workflow.decision = [binding |-> b, outcome |-> o]
  <2>1. new.verdict = verdict /\ new.ambiguous = s.base.ambiguous
    BY DEF NewResult
  <2> HIDE DEF verdict, new
  <2> QED
    BY <1>6, <1>7, <2>1, NewResultType DEF new
<1> HIDE DEF new, verdict
<1>11. InForce(r)' = [verdicts |-> verdict, ambiguous |-> d.ambiguous,
                      searched |-> old \cup {c}, pdf |-> s.pdf, outcome |-> o]
  <2>1. result'[r] = new /\ new # None
    BY <1>9, <1>10, NoneIsNoRunValue DEF SendInv, TypeOK
  <2>2. /\ new.workflow.decision.binding = b
        /\ new.workflow.decision.outcome = o
    BY <1>10
  <2> QED
    BY <1>3, <1>7, <1>10, <2>1, <2>2 DEF InForce, Decision
<1>12. \A q \in Runs \ {r} : InForce(q)' = InForce(q) /\ result'[q] = result[q]
  BY <1>9 DEF SendInv, TypeOK, InForce, Decision
<1>13. Decided(r)!Settle(c)
  <2>1. InForce(r)' = [verdicts |-> verdict, ambiguous |-> d.ambiguous,
                       searched |-> d.searched \cup {c}, pdf |-> s.pdf, outcome |-> o]
    BY <1>4, <1>11
  <2>2. pipeline'[r] = pipeline[r]
    BY DEF SearchLand
  <2>3. newStatus \in Decided(r)!Verdicts /\ o \in Decided(r)!Outcomes
    BY <1>7 DEF Decided!Verdicts, Decided!Outcomes, ClaimStatuses, Outcomes
  <2> QED
    BY <1>2, <1>3, <1>4, <1>5, <1>8, <1>9, <2>1, <2>2, <2>3 DEF Decided!Settle
<1>14. c \in Claims
  BY <1>2 DEF c
<1> QED
  BY <1>12, <1>13, <1>14

(* What the end of a background run makes of it.                            *)
LEMMA FinishRunVerifies ==
  ASSUME SendInv, BooksInv, NEW r \in Runs, FinishRun(r)
  PROVE  /\ Decided(r)!Verify
         /\ \A q \in Runs \ {r} : InForce(q)' = InForce(q) /\ result'[q] = result[q]
<1>1. PICK verdict \in [Claims -> ClaimStatuses] \cup {None},
           ambiguous \in SUBSET Claims, profilePasses \in BOOLEAN :
        /\ verdict # None => \A c \in ambiguous : verdict[c] = "UNCERTAIN"
        /\ verdict = None => ambiguous = {}
        /\ result' = [result EXCEPT ![r] =
                        NewResult(verdict, ambiguous, [pdf |-> disk[r], evidence |-> {}],
                                  PolicyOutcome(verdict, pipeline[r], disk[r], profilePasses))]
  BY DEF FinishRun
<1> DEFINE o == PolicyOutcome(verdict, pipeline[r], disk[r], profilePasses)
           b == [pdf |-> disk[r], evidence |-> {}]
           new == NewResult(verdict, ambiguous, b, o)
           d == [verdicts |-> verdict, ambiguous |-> ambiguous, searched |-> {},
                 pdf |-> disk[r], outcome |-> o]
<1>2. /\ status[r] = "RUNNING" /\ pipeline[r] # None /\ disk[r] # None
      /\ pipeline' = [pipeline EXCEPT ![r] = None]
  BY DEF FinishRun
<1>3. b \in Bindings /\ b.pdf = disk[r] /\ b.evidence = {} /\ o \in Outcomes
  BY <1>2, EvidenceIsPublicClaims, PolicyOutcomeType DEF SendInv, TypeOK, Bindings
<1>4. /\ o = "READY_FOR_APPROVAL" => Decided(r)!AllSupported(verdict) /\ disk[r] = pipeline[r]
  BY DEF PolicyOutcome, Decided!AllSupported
<1>5. result' = [result EXCEPT ![r] = new]
  BY <1>1
<1> HIDE DEF o, b
<1>6. /\ new \in Results /\ new.verdict = verdict /\ new.ambiguous = ambiguous
      /\ new.workflow.decision = [binding |-> b, outcome |-> o]
  <2>1. new.verdict = verdict /\ new.ambiguous = ambiguous
    BY DEF NewResult
  <2> HIDE DEF new
  <2> QED
    BY <1>3, <2>1, NewResultType DEF new
<1> HIDE DEF new
<1>7. InForce(r) = None
  BY <1>2 DEF BooksInv, Books, NothingBeforeCompletion, InForce
<1>8. InForce(r)' = d
  <2>1. result'[r] = new /\ new # None
    BY <1>5, <1>6, NoneIsNoRunValue DEF SendInv, TypeOK
  <2>2. new.workflow.decision.binding = b /\ new.workflow.decision.outcome = o
    BY <1>6
  <2> QED
    BY <1>3, <1>6, <2>1, <2>2 DEF InForce, Decision
<1>9. d \in Decided(r)!DecisionsInForce
  <2>1. /\ new.workflow.decision.binding.evidence = {}
        /\ new.workflow.decision.binding.pdf = disk[r]
        /\ new.workflow.decision.outcome = o
    BY <1>3, <1>6
  <2> QED
    BY <1>6, <2>1, ResultInForce
<1>10. /\ d.verdicts = verdict /\ d.ambiguous = ambiguous /\ d.searched = {}
       /\ d.pdf = disk[r] /\ d.outcome = o
  OBVIOUS
<1> HIDE DEF d
<1>11. Decided(r)!FirstDecision(d, pipeline[r])
  <2>1. \A c \in ambiguous : c \in DOMAIN verdict /\ verdict[c] = "UNCERTAIN"
    BY <1>1
  <2> QED
    BY <1>1, <1>4, <1>9, <1>10, <2>1 DEF Decided!FirstDecision
<1>12. pipeline'[r] = None
  BY <1>2 DEF SendInv, TypeOK
<1>13. \A q \in Runs \ {r} : InForce(q)' = InForce(q) /\ result'[q] = result[q]
  BY <1>5 DEF SendInv, TypeOK, InForce, Decision
<1> QED
  BY <1>2, <1>7, <1>8, <1>11, <1>12, <1>13 DEF Decided!Verify

LEMMA SearchesStep ==
  ASSUME SendInv, BooksInv, SearchesInv, [Next]_vars
  PROVE  SearchesInv'
<1>1. CASE UNCHANGED <<result, searches>>
  <2>1. \A q \in Runs : InForce(q)' = InForce(q) /\ result'[q] = result[q]
    BY <1>1 DEF InForce, Decision
  <2> QED
    BY <1>1, <2>1, SameSearches DEF SearchesInv
<1>2. ASSUME NEW r \in Runs, FinishRun(r) PROVE SearchesInv'
  <2>1. UNCHANGED searches /\ searches[r] = {}
    BY <1>2 DEF FinishRun, BooksInv, Books, NothingBeforeCompletion
  <2>2. ASSUME NEW q \in Runs \ {r} PROVE SearchesAreCurrent(q)'
    BY <1>2, <2>1, FinishRunVerifies, SameSearches DEF SearchesInv
  <2>3. SearchesAreCurrent(r)'
    BY <2>1 DEF SearchesAreCurrent
  <2> QED
    BY <2>2, <2>3 DEF SearchesInv
<1>3. ASSUME NEW r \in Runs, SearchLand(r) PROVE SearchesInv'
  <2>1. PICK s \in searches[r] : searches' = [searches EXCEPT ![r] = @ \ {s}]
    BY <1>3 DEF SearchLand
  <2>2. searches'[r] = {} /\ \A q \in Runs \ {r} : searches'[q] = searches[q]
    BY <2>1 DEF BooksInv, Books, SearchesAreFresh, SendInv, TypeOK
  <2>3. \A q \in Runs \ {r} : InForce(q)' = InForce(q) /\ result'[q] = result[q]
    <3>1. CASE UNCHANGED result
      BY <3>1 DEF InForce, Decision
    <3>2. CASE ~UNCHANGED result
      BY <1>3, <3>2, SearchLandSettles
    <3> QED
      BY <3>1, <3>2
  <2>4. ASSUME NEW q \in Runs \ {r} PROVE SearchesAreCurrent(q)'
    BY <2>2, <2>3, SameSearches DEF SearchesInv
  <2>5. SearchesAreCurrent(r)'
    BY <2>2 DEF SearchesAreCurrent
  <2> QED
    BY <2>4, <2>5 DEF SearchesInv
<1>4. CASE SendingStep
  BY <1>4, SendingKeepsInForce, SameSearches DEF SearchesInv
<1>5. ASSUME NEW r \in Runs,
             StartRun(r) \/ ReadArtifact(r) \/ FailRun(r) \/ ArtifactChanges(r)
               \/ Review(r) \/ BeginReceiptPdf(r) \/ EndReceiptPdf(r)
      PROVE  UNCHANGED <<result, searches>>
  BY <1>5 DEF StartRun, ReadArtifact, FailRun, ArtifactChanges, Review, BeginReceiptPdf,
              EndReceiptPdf, runVars
<1>6. CASE UNCHANGED vars
  BY <1>1, <1>6 DEF vars, runVars
<1> QED
  BY <1>1, <1>2, <1>3, <1>4, <1>5, <1>6, SearchBeginCurrent, SearchDiscoverCurrent
  DEF Next, BackgroundRun, SearchStep, SendStep, SendingStep

LEMMA SearchesInvariant == Spec => []SearchesInv
<1>1. Init => SearchesInv
  BY DEF Init, SearchesInv, SearchesAreCurrent
<1>2. SendInv /\ BooksInv /\ SearchesInv /\ [Next]_vars => SearchesInv'
  BY SearchesStep
<1> QED
  BY <1>1, <1>2, ReceiptsInvariant, PTL DEF Spec

(* A step that neither decides run q nor reads its PDF.                     *)
Hidden(q) == InForce(q)' = InForce(q) /\ pipeline'[q] = pipeline[q]

(* Every step is a step of RunDecisions for every run, or hidden from it.   *)
LEMMA StepDecides ==
  ASSUME SendInv, BooksInv, SearchesInv, [Next]_vars, NEW q \in Runs
  PROVE  [Decided(q)!DecisionNext]_(Decided(q)!decisionVars)
<1>1. CASE Hidden(q)
  BY <1>1 DEF Hidden, Decided!decisionVars
<1>2. ASSUME InForce(q)' = InForce(q), pipeline'[q] = None
      PROVE  Decided(q)!DecisionNext
  BY <1>2 DEF Decided!DecisionNext, Decided!GiveUp
<1>3. ASSUME NEW r \in Runs, ReadArtifact(r)
      PROVE  Decided(q)!DecisionNext \/ Hidden(q)
  <2>1. InForce(q)' = InForce(q)
    BY <1>3 DEF ReadArtifact, InForce, Decision
  <2>2. /\ pipeline[r] = None /\ status[r] = "RUNNING"
        /\ \E content \in Contents : pipeline' = [pipeline EXCEPT ![r] = content]
    BY <1>3 DEF ReadArtifact
  <2>3. CASE q = r
    <3>1. InForce(q) = None
      BY <2>2, <2>3 DEF BooksInv, Books, NothingBeforeCompletion, InForce
    <3>2. pipeline'[q] \in Contents
      BY <2>2, <2>3 DEF SendInv, TypeOK
    <3> QED
      BY <2>1, <2>2, <2>3, <3>1, <3>2 DEF Decided!DecisionNext, Decided!ReadPdf
  <2>4. CASE q # r
    BY <2>1, <2>2, <2>4 DEF Hidden, SendInv, TypeOK
  <2> QED
    BY <2>3, <2>4
<1>4. ASSUME NEW r \in Runs, FailRun(r)
      PROVE  Hidden(q) \/ (InForce(q)' = InForce(q) /\ pipeline'[q] = None)
  BY <1>4 DEF Hidden, FailRun, InForce, Decision, SendInv, TypeOK
<1>5. ASSUME NEW r \in Runs, FinishRun(r)
      PROVE  Decided(q)!DecisionNext \/ Hidden(q)
  <2>1. CASE q = r
    BY <1>5, <2>1, FinishRunVerifies DEF Decided!DecisionNext
  <2>2. CASE q # r
    BY <1>5, <2>2, FinishRunVerifies DEF Hidden, FinishRun, SendInv, TypeOK
  <2> QED
    BY <2>1, <2>2
<1>6. ASSUME NEW r \in Runs, SearchLand(r)
      PROVE  Decided(q)!DecisionNext \/ Hidden(q)
  <2>1. pipeline' = pipeline
    BY <1>6 DEF SearchLand
  <2>2. CASE UNCHANGED result
    BY <2>1, <2>2 DEF Hidden, InForce, Decision
  <2>3. CASE ~UNCHANGED result
    <3>1. CASE q = r
      BY <1>6, <2>3, <3>1, SearchLandSettles DEF Decided!DecisionNext
    <3>2. CASE q # r
      BY <1>6, <2>1, <2>3, <3>2, SearchLandSettles DEF Hidden
    <3> QED
      BY <3>1, <3>2
  <2> QED
    BY <2>2, <2>3
<1>7. CASE SendingStep
  BY <1>1, <1>7, SendingKeepsInForce DEF Hidden
<1>8. ASSUME UNCHANGED <<result, pipeline>>
      PROVE  Hidden(q)
  BY <1>8 DEF Hidden, InForce, Decision
<1>9. ASSUME NEW r \in Runs,
             StartRun(r) \/ ArtifactChanges(r) \/ Review(r) \/ SearchDiscover(r)
               \/ (\E c \in Claims : SearchBegin(r, c))
               \/ BeginReceiptPdf(r) \/ EndReceiptPdf(r)
      PROVE  UNCHANGED <<result, pipeline>>
  BY <1>9 DEF StartRun, ArtifactChanges, Review, SearchDiscover, SearchBegin,
              BeginReceiptPdf, EndReceiptPdf, runVars
<1>10. CASE UNCHANGED vars
  BY <1>1, <1>8, <1>10 DEF vars, runVars
<1> QED
  BY <1>1, <1>2, <1>3, <1>4, <1>5, <1>6, <1>7, <1>8, <1>9, <1>10
  DEF Next, BackgroundRun, SearchStep, SendStep, SendingStep

(* Every run is decided as RunDecisions says, whatever happens around it:   *)
(* a search replaces the verdict of its claim in the decision in force, and *)
(* nothing else ever does.                                                  *)
THEOREM RunControlImplementsRunDecisions == Spec => ImplementsRunDecisions
<1>1. Init => \A r \in Runs : Decided(r)!DecisionInit
  BY DEF Init, Decided!DecisionInit, InForce
<1>2. SendInv /\ BooksInv /\ SearchesInv /\ [Next]_vars =>
        [\A r \in Runs : [Decided(r)!DecisionNext]_(Decided(r)!decisionVars)]_vars
  BY StepDecides
<1> QED
  BY <1>1, <1>2, ReceiptsInvariant, SearchesInvariant, PTL DEF Spec, ImplementsRunDecisions

(* RunDecisions keeps a decision founded.                                   *)
LEMMA FoundedStep ==
  ASSUME NEW r \in Runs, Decided(r)!DecisionIsFounded,
         [Decided(r)!DecisionNext]_(Decided(r)!decisionVars)
  PROVE  Decided(r)!DecisionIsFounded'
<1>1. CASE InForce(r)' = InForce(r)
  BY <1>1 DEF Decided!DecisionIsFounded, Decided!AllSupported
<1>2. CASE Decided(r)!Verify
  BY <1>2 DEF Decided!Verify, Decided!FirstDecision, Decided!DecisionIsFounded,
              Decided!AllSupported
<1>3. ASSUME NEW c \in Claims, Decided(r)!Settle(c)
      PROVE  Decided(r)!DecisionIsFounded'
  <2>1. PICK verdict \in Decided(r)!Verdicts, pdf \in Contents,
             outcome \in Decided(r)!Outcomes :
          LET verdicts == [InForce(r).verdicts EXCEPT ![c] = verdict]
          IN /\ outcome = "READY_FOR_APPROVAL" => Decided(r)!AllSupported(verdicts)
             /\ InForce(r)' = [verdicts |-> verdicts, ambiguous |-> InForce(r).ambiguous,
                               searched |-> InForce(r).searched \cup {c},
                               pdf |-> pdf, outcome |-> outcome]
    BY <1>3 DEF Decided!Settle
  <2> DEFINE verdicts == [InForce(r).verdicts EXCEPT ![c] = verdict]
  <2>2. outcome = "READY_FOR_APPROVAL" => Decided(r)!AllSupported(verdicts)
    BY <2>1
  <2>3. InForce(r).ambiguous \subseteq InForce(r).searched \cup {c}
    BY <1>3 DEF Decided!Settle
  <2>4. /\ InForce(r)'.verdicts = verdicts /\ InForce(r)'.outcome = outcome
        /\ InForce(r)'.ambiguous = InForce(r).ambiguous
        /\ InForce(r)'.searched = InForce(r).searched \cup {c}
    BY <2>1
  <2> QED
    BY <2>2, <2>3, <2>4 DEF Decided!DecisionIsFounded, Decided!AllSupported
<1> QED
  BY <1>1, <1>2, <1>3
  DEF Decided!DecisionNext, Decided!ReadPdf, Decided!GiveUp, Decided!decisionVars

(* The part of the fail-closed promise of the README that the code keeps    *)
(* (compare AmbiguousStaysBlocked): a critical claim that the text leaves   *)
(* ambiguous blocks its run until that very claim has been searched for.    *)
UnsearchedAmbiguityBlocks ==
  \A r \in Runs :
    /\ result[r] # None
    /\ (result[r].ambiguous \ Decision(r).binding.evidence) \cap Critical # {}
    => Decision(r).outcome = "BLOCKED"

(* No interleaving of searches, sends and runs releases an ambiguity that   *)
(* no search was made for (phase3_workflow.py, enrich_result).              *)
THEOREM UnsearchedAmbiguityIsBlocked == Spec => []UnsearchedAmbiguityBlocks
<1> DEFINE Founded == \A r \in Runs : Decided(r)!DecisionIsFounded
<1>1. Init => Founded
  BY DEF Init, Decided!DecisionIsFounded, InForce
<1>2. SendInv /\ BooksInv /\ SearchesInv /\ Founded /\ [Next]_vars => Founded'
  BY StepDecides, FoundedStep
<1>3. SendInv /\ Founded => UnsearchedAmbiguityBlocks
  <2> SUFFICES ASSUME SendInv, Founded, NEW r \in Runs, result[r] # None,
                      NEW c \in (result[r].ambiguous \ Decision(r).binding.evidence)
                                  \cap Critical
               PROVE  Decision(r).outcome = "BLOCKED"
    BY DEF UnsearchedAmbiguityBlocks
  <2>1. /\ InForce(r) # None
        /\ InForce(r).ambiguous = result[r].ambiguous
        /\ InForce(r).searched = Decision(r).binding.evidence
        /\ InForce(r).outcome = Decision(r).outcome
    BY RunInForce DEF SendInv
  <2>2. ~Decided(r)!AllSupported(InForce(r).verdicts)
    BY <2>1 DEF Decided!DecisionIsFounded, Decided!AllSupported
  <2>3. Decision(r).outcome \in Outcomes
    BY ResultFields DEF SendInv, Decisions
  <2> QED
    BY <2>1, <2>2, <2>3 DEF Decided!DecisionIsFounded, Outcomes
<1> HIDE DEF Founded
<1> QED
  BY <1>1, <1>2, <1>3, ReceiptsInvariant, SearchesInvariant, PTL DEF Spec
=============================================================================
