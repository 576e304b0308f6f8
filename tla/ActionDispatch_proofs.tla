----------------------- MODULE ActionDispatch_proofs -----------------------
(***************************************************************************)
(* For every set of actions, files and bounds: the approval binds, what    *)
(* reaches the service, and that every call keeps SenderPromise.           *)
(***************************************************************************)
EXTENDS ActionDispatch, FiniteSetTheorems, TLAPS

-----------------------------------------------------------------------------
(* What an approval binds.                                                  *)

(* Equal bags of artifacts are empty together.                              *)
LEMMA EmptyTogether ==
  ASSUME NEW s \in Seq(Hashes), NEW t \in Seq(Hashes), ToBag(s) = ToBag(t)
  PROVE  s = <<>> <=> t = <<>>
<1>1. DOMAIN ToBag(s) = {s[i] : i \in DOMAIN s} /\ DOMAIN ToBag(t) = {t[i] : i \in DOMAIN t}
  BY DEF ToBag, Range
<1>2. DOMAIN s = {} <=> DOMAIN t = {}
  BY <1>1
<1> QED
  BY <1>2

(* Without repetitions, the bag of a sequence is decided by its elements,   *)
(* in whatever order they come.                                             *)
Repeats(s) == \E i, j \in DOMAIN s : i # j /\ s[i] = s[j]

LEMMA DistinctBag ==
  ASSUME NEW s, ~Repeats(s)
  PROVE  ToBag(s) = [x \in {s[i] : i \in DOMAIN s} |-> 1]
<1>1. ASSUME NEW x \in {s[i] : i \in DOMAIN s}
      PROVE  Cardinality({i \in DOMAIN s : s[i] = x}) = 1
  <2>1. PICK k \in DOMAIN s : s[k] = x
    OBVIOUS
  <2>2. {i \in DOMAIN s : s[i] = x} = {k}
    BY <2>1 DEF Repeats
  <2> QED
    BY <2>2, FS_Singleton
<1>2. Range(s) = {s[i] : i \in DOMAIN s}
  BY DEF Range
<1> QED
  BY <1>1, <1>2 DEF ToBag

(* What is not bound: the order of artifacts, the time of creation.         *)
LEMMA HarmlessBinding ==
  ASSUME NEW a \in Actions, NEW b \in Actions,
         a = [b EXCEPT !.artifacts = a.artifacts, !.created = a.created],
         ~Repeats(a.artifacts), ~Repeats(b.artifacts),
         {a.artifacts[i] : i \in DOMAIN a.artifacts}
           = {b.artifacts[i] : i \in DOMAIN b.artifacts}
  PROVE  BindingOf(a) = BindingOf(b)
<1>1. ToBag(a.artifacts) = ToBag(b.artifacts)
  BY DistinctBag
<1>2. /\ a.id = b.id /\ a.type = b.type /\ a.target = b.target /\ a.risk = b.risk
      /\ a.parameters = b.parameters /\ a.evidence = b.evidence /\ a.profile = b.profile
  BY DEF Actions
<1>3. Canonical(a) = Canonical(b)
  BY <1>1, <1>2 DEF Canonical
<1> QED
  BY <1>2, <1>3 DEF BindingOf

LEMMA BindingMeaning ==
  ASSUME NEW a \in Actions, NEW b \in Actions, BindingOf(a) = BindingOf(b)
  PROVE  /\ a.id = b.id /\ a.type = b.type /\ a.risk = b.risk /\ a.target = b.target
         /\ a.parameters = b.parameters /\ a.evidence = b.evidence /\ a.profile = b.profile
         /\ ToBag(a.artifacts) = ToBag(b.artifacts)
         /\ RequirementBlockers(a) = RequirementBlockers(b)
<1>1. Canonical(a) = Canonical(b)
  BY DEF BindingOf
<1>2. /\ a.id = b.id /\ a.type = b.type /\ a.risk = b.risk /\ a.target = b.target
      /\ a.parameters = b.parameters /\ a.evidence = b.evidence /\ a.profile = b.profile
      /\ ToBag(a.artifacts) = ToBag(b.artifacts)
  BY <1>1 DEF Canonical
<1>3. a.artifacts = <<>> <=> b.artifacts = <<>>
  BY <1>2, EmptyTogether, ArtifactsAreHashes DEF Actions
<1>4. RequirementBlockers(a) = RequirementBlockers(b)
  BY <1>2, <1>3 DEF RequirementBlockers, Missing
<1> QED
  BY <1>2, <1>4

-----------------------------------------------------------------------------
(* The inductive invariant: what the running call has done so far, beside   *)
(* the properties.  A call that has not made its draft has no folder; one   *)
(* that has, has the last folder, unsent.                                   *)
Running ==
  /\ step # "IDLE" =>
       /\ calls[Len(calls)].action.type = "SIGN_DOCUMENT"
       /\ calls[Len(calls)].executor = "FOXIT"
  /\ step \in {"TOKEN", "DRAFT", "SEND"} => configured
  /\ step \in {"VALIDATE", "TOKEN", "DRAFT"} =>
       \A i \in DOMAIN folders : folders[i].call # Len(calls)
  /\ step = "SEND" =>
       /\ folders # <<>>
       /\ folders[Len(folders)].call = Len(calls)
       /\ ~folders[Len(folders)].sent

DispatchInv == TypeOK /\ OnlySignaturesLeaveATrace /\ ReportsAreTrue /\ Running

Statuses == {"EXECUTED", "SIMULATED", "REFUSED", "FAILED"}

LEMMA DispatchInit == Init => DispatchInv
<1> SUFFICES ASSUME Init PROVE DispatchInv
  OBVIOUS
<1>1. action \in Actions
  BY ProposalsAreActions DEF Init
<1>2. TypeOK
  BY <1>1, PdfsAreFiles DEF Init, TypeOK
<1>3. OnlySignaturesLeaveATrace
  BY DEF Init, OnlySignaturesLeaveATrace
<1>4. ReportsAreTrue
  BY DEF Init, ReportsAreTrue
<1>5. Running
  BY DEF Init, Running
<1> QED
  BY <1>2, <1>3, <1>4, <1>5 DEF DispatchInv

(* The caller changes or approves the action, or others change the file.    *)
LEMMA CallerStep ==
  ASSUME DispatchInv, Approve \/ Edit \/ FileChanges
  PROVE  DispatchInv'
<1>1. UNCHANGED <<configured, step, calls, folders, results>>
  BY DEF Approve, Edit, FileChanges
<1>2. TypeOK'
  <2>1. CASE Approve
    BY <2>1 DEF DispatchInv, TypeOK, Approve, BindingOf, Canonical
  <2>2. CASE Edit
    <3>1. action' \in Actions
      <4>1. action \in Actions
        BY DEF DispatchInv, TypeOK
      <4>2. \A t \in Types : [action EXCEPT !.type = t] \in Actions
        BY <4>1 DEF Actions
      <4>3. \A t \in Targets : [action EXCEPT !.target = t] \in Actions
        BY <4>1 DEF Actions
      <4>4. \A p \in ParameterSets : [action EXCEPT !.parameters = p] \in Actions
        BY <4>1 DEF Actions
      <4>5. \A l \in ArtifactLists : [action EXCEPT !.artifacts = l] \in Actions
        BY <4>1 DEF Actions
      <4>6. \A h \in Hashes \cup {None} :
              [action EXCEPT !.evidence = h] \in Actions /\ [action EXCEPT !.profile = h] \in Actions
        BY <4>1 DEF Actions
      <4>7. [action EXCEPT !.created = 1 - @] \in Actions
        BY <4>1 DEF Actions
      <4> QED
        BY <2>2, <4>2, <4>3, <4>4, <4>5, <4>6, <4>7 DEF Edit
    <3> QED
      BY <1>1, <2>2, <3>1 DEF DispatchInv, TypeOK, Edit
  <2>3. CASE FileChanges
    BY <2>3 DEF DispatchInv, TypeOK, FileChanges
  <2> QED
    BY <2>1, <2>2, <2>3
<1>3. OnlySignaturesLeaveATrace'
  BY <1>1 DEF DispatchInv, OnlySignaturesLeaveATrace
<1>4. ReportsAreTrue'
  BY <1>1 DEF DispatchInv, ReportsAreTrue
<1>5. Running'
  BY <1>1 DEF DispatchInv, Running
<1> QED
  BY <1>2, <1>3, <1>4, <1>5 DEF DispatchInv

(* A call begins, or is refused or simulated at once.                       *)
LEMMA ExecuteStep ==
  ASSUME DispatchInv, NEW executor \in {"FOXIT", "SIMULATED"}, Execute(executor)
  PROVE  DispatchInv'
<1> DEFINE call == [action |-> action, executor |-> executor]
<1>1. /\ step = "IDLE"
      /\ calls' = Append(calls, call)
      /\ UNCHANGED <<action, approval, approved, edits, configured, file, folders>>
  BY DEF Execute
<1>2. /\ calls \in Seq([action : Actions, executor : {"FOXIT", "SIMULATED"}])
      /\ results \in Seq(Statuses) /\ Len(calls) = Len(results)
      /\ call \in [action : Actions, executor : {"FOXIT", "SIMULATED"}]
  BY <1>1 DEF DispatchInv, TypeOK, Statuses
<1>3. /\ calls' \in Seq([action : Actions, executor : {"FOXIT", "SIMULATED"}])
      /\ Len(calls') = Len(calls) + 1 /\ calls'[Len(calls')] = call
      /\ \A k \in DOMAIN calls : k \in DOMAIN calls' /\ calls'[k] = calls[k]
  BY <1>1, <1>2
<1>4. \/ step' = "VALIDATE" /\ UNCHANGED results /\ executor = "FOXIT" /\ FoxitAccepts(action)
      \/ /\ step' = "IDLE"
         /\ \/ /\ results' = Append(results, "SIMULATED")
               /\ SimulatorAccepts(action)
            \/ /\ results' = Append(results, "REFUSED")
               /\ executor # ExecutorFor(action.type)
  BY <1>1 DEF Execute, Report, FoxitAccepts, SimulatorAccepts, IsLive, ExecutorFor
<1>5. TypeOK'
  <2>1. /\ action' \in Actions /\ configured' \in BOOLEAN /\ file' \in Files \cup {None}
        /\ folders' \in Seq([call : Nat, document : Files, sent : BOOLEAN])
        /\ approval' # None => approved' \in Actions /\ approval' = BindingOf(approved')
    BY <1>1 DEF DispatchInv, TypeOK
  <2>2. step' \in CallSteps \cup {"IDLE"}
    BY <1>4 DEF CallSteps
  <2>3. results' \in Seq(Statuses) /\ Len(calls') = Len(results') + (IF step' = "IDLE" THEN 0 ELSE 1)
    <3>1. CASE step' = "VALIDATE" /\ UNCHANGED results
      BY <1>2, <1>3, <3>1
    <3>2. ASSUME NEW status \in {"SIMULATED", "REFUSED"}, step' = "IDLE",
                 results' = Append(results, status)
          PROVE results' \in Seq(Statuses) /\ Len(calls') = Len(results')
      <4>1. status \in Statuses
        BY DEF Statuses
      <4> QED
        BY <1>2, <1>3, <3>2, <4>1
    <3> QED
      BY <1>4, <3>1, <3>2
  <2> QED
    BY <1>3, <2>1, <2>2, <2>3 DEF TypeOK, Statuses
<1>6. OnlySignaturesLeaveATrace'
  BY <1>1, <1>3 DEF DispatchInv, OnlySignaturesLeaveATrace
<1>7. \A i \in DOMAIN folders : folders[i].call # Len(calls')
  BY <1>2, <1>3 DEF DispatchInv, OnlySignaturesLeaveATrace
<1>8. Running'
  BY <1>1, <1>3, <1>4, <1>7 DEF DispatchInv, Running, FoxitAccepts
<1>9. ReportsAreTrue'
  <2>1. \A k \in DOMAIN results : k \in DOMAIN calls /\ calls'[k] = calls[k]
    BY <1>2, <1>3
  <2>2. CASE UNCHANGED results
    BY <1>1, <2>1, <2>2 DEF DispatchInv, ReportsAreTrue
  <2>3. ASSUME NEW status \in {"SIMULATED", "REFUSED"}, results' = Append(results, status),
               status = "SIMULATED" => SimulatorAccepts(action),
               status = "REFUSED" => executor # ExecutorFor(action.type)
        PROVE ReportsAreTrue'
    <3> SUFFICES ASSUME NEW k \in DOMAIN results'
                 PROVE  LET ofCall == {i \in DOMAIN folders' : folders'[i].call = k}
                        IN /\ results'[k] = "EXECUTED" => \E i \in ofCall : folders'[i].sent
                           /\ results'[k] \in {"SIMULATED", "REFUSED"} => ofCall = {}
                           /\ results'[k] = "SIMULATED" => ~IsLive(calls'[k].action.type)
                           /\ results'[k] = "REFUSED" =>
                                calls'[k].executor # ExecutorFor(calls'[k].action.type)
      BY DEF ReportsAreTrue
    <3>1. CASE k \in DOMAIN results
      BY <1>1, <1>2, <2>1, <2>3, <3>1 DEF DispatchInv, ReportsAreTrue
    <3>2. CASE k \notin DOMAIN results
      <4>1. k = Len(calls') /\ results'[k] = status
        BY <1>2, <1>3, <2>3, <3>2
      <4>2. {i \in DOMAIN folders' : folders'[i].call = k} = {}
        BY <1>1, <1>7, <4>1
      <4> QED
        BY <1>3, <2>3, <4>1, <4>2 DEF SimulatorAccepts
    <3> QED
      BY <3>1, <3>2
  <2> QED
    BY <1>4, <2>2, <2>3
<1> QED
  BY <1>5, <1>6, <1>8, <1>9 DEF DispatchInv


FolderSet == [call : Nat, document : Files, sent : BOOLEAN]

(* Every folder stays with its call and stays dispatched, and new folders   *)
(* are of the last call.                                                    *)
FoldersStay ==
  /\ \A i \in DOMAIN folders :
       /\ i \in DOMAIN folders'
       /\ folders'[i].call = folders[i].call
       /\ folders[i].sent => folders'[i].sent
  /\ \A i \in DOMAIN folders' :
       i \in DOMAIN folders \/ folders'[i].call = Len(calls)

(* The reports of earlier calls stay true whatever the running call does,   *)
(* and its own is true if it dispatched.                                    *)
LEMMA ReportStep ==
  ASSUME DispatchInv, step # "IDLE", calls' = calls, FoldersStay,
         \/ results' = results
         \/ results' = Append(results, "FAILED")
         \/ /\ results' = Append(results, "EXECUTED")
            /\ \E i \in DOMAIN folders' : folders'[i].call = Len(calls) /\ folders'[i].sent
  PROVE  ReportsAreTrue'
<1>1. /\ results \in Seq(Statuses) /\ Len(calls) = Len(results) + 1
      /\ calls \in Seq([action : Actions, executor : {"FOXIT", "SIMULATED"}])
  BY DEF DispatchInv, TypeOK, Statuses
<1> SUFFICES ASSUME NEW k \in DOMAIN results'
             PROVE  LET ofCall == {i \in DOMAIN folders' : folders'[i].call = k}
                    IN /\ results'[k] = "EXECUTED" => \E i \in ofCall : folders'[i].sent
                       /\ results'[k] \in {"SIMULATED", "REFUSED"} => ofCall = {}
                       /\ results'[k] = "SIMULATED" => ~IsLive(calls'[k].action.type)
                       /\ results'[k] = "REFUSED" =>
                            calls'[k].executor # ExecutorFor(calls'[k].action.type)
  BY DEF ReportsAreTrue
<1>2. CASE k \in DOMAIN results
  <2>1. results'[k] = results[k] /\ k # Len(calls)
    BY <1>1, <1>2
  <2>2. {i \in DOMAIN folders' : folders'[i].call = k}
          = {i \in DOMAIN folders : folders[i].call = k}
    BY <2>1 DEF FoldersStay
  <2>3. \A i \in DOMAIN folders : folders[i].sent => folders'[i].sent
    BY DEF FoldersStay
  <2> QED
    BY <1>2, <2>1, <2>2, <2>3 DEF DispatchInv, ReportsAreTrue
<1>3. CASE k \notin DOMAIN results
  <2>1. k = Len(calls) /\ results'[k] \in {"FAILED", "EXECUTED"}
    BY <1>1, <1>3
  <2>2. results'[k] = "EXECUTED" =>
          \E i \in DOMAIN folders' : folders'[i].call = Len(calls) /\ folders'[i].sent
    BY <1>1, <1>3
  <2> QED
    BY <2>1, <2>2
<1> QED
  BY <1>2, <1>3

(* A running call that leaves the folders alone moves on or fails.          *)
LEMMA QuietStep ==
  ASSUME DispatchInv, step # "IDLE",
         UNCHANGED <<action, approval, approved, configured, file, calls, folders>>,
         \/ /\ UNCHANGED results
            /\ \/ step = "VALIDATE" /\ step' = "TOKEN" /\ configured
               \/ step = "TOKEN" /\ step' = "DRAFT"
         \/ step' = "IDLE" /\ results' = Append(results, "FAILED")
  PROVE  DispatchInv'
<1>1. /\ results \in Seq(Statuses) /\ Len(calls) = Len(results) + 1
  BY DEF DispatchInv, TypeOK, Statuses
<1>2. results' \in Seq(Statuses) /\ Len(calls') = Len(results') + (IF step' = "IDLE" THEN 0 ELSE 1)
  <2>1. CASE UNCHANGED results /\ step' # "IDLE"
    BY <1>1, <2>1
  <2>2. CASE step' = "IDLE" /\ results' = Append(results, "FAILED")
    BY <1>1, <2>2 DEF Statuses
  <2> QED
    BY <2>1, <2>2
<1>3. TypeOK'
  <2>1. step' \in CallSteps \cup {"IDLE"}
    BY DEF CallSteps
  <2>2. approval' # None => approved' \in Actions /\ approval' = BindingOf(approved')
    BY DEF DispatchInv, TypeOK
  <2> QED
    BY <1>2, <2>1, <2>2 DEF DispatchInv, TypeOK, Statuses
<1>4. OnlySignaturesLeaveATrace'
  BY DEF DispatchInv, OnlySignaturesLeaveATrace
<1>5. ReportsAreTrue'
  <2>1. FoldersStay
    BY DEF FoldersStay
  <2> QED
    BY <2>1, ReportStep
<1>6. Running'
  BY DEF DispatchInv, Running
<1> QED
  BY <1>3, <1>4, <1>5, <1>6 DEF DispatchInv


(* The service has made the draft, and the call learns its identifier or    *)
(* fails.                                                                   *)
LEMMA DraftedStep ==
  ASSUME DispatchInv, step = "DRAFT", file # None, folders' = Append(folders, Draft),
         UNCHANGED <<action, approval, approved, configured, file, calls>>,
         \/ step' = "SEND" /\ UNCHANGED results
         \/ step' = "IDLE" /\ results' = Append(results, "FAILED")
  PROVE  DispatchInv'
<1>1. /\ results \in Seq(Statuses) /\ Len(calls) = Len(results) + 1
      /\ calls \in Seq([action : Actions, executor : {"FOXIT", "SIMULATED"}])
      /\ folders \in Seq(FolderSet)
  BY DEF DispatchInv, TypeOK, Statuses, FolderSet
<1>2. Draft \in FolderSet /\ Draft.call = Len(calls) /\ ~Draft.sent
  BY <1>1 DEF Draft, FolderSet, DispatchInv, TypeOK
<1>3. /\ folders' \in Seq(FolderSet) /\ Len(folders') = Len(folders) + 1
      /\ folders'[Len(folders')] = Draft
      /\ \A i \in DOMAIN folders : i \in DOMAIN folders' /\ folders'[i] = folders[i]
      /\ \A i \in DOMAIN folders' : i \in DOMAIN folders \/ i = Len(folders')
  BY <1>1, <1>2
<1>4. results' \in Seq(Statuses) /\ Len(calls') = Len(results') + (IF step' = "IDLE" THEN 0 ELSE 1)
  <2>1. CASE UNCHANGED results /\ step' # "IDLE"
    BY <1>1, <2>1
  <2>2. CASE step' = "IDLE" /\ results' = Append(results, "FAILED")
    BY <1>1, <2>2 DEF Statuses
  <2> QED
    BY <2>1, <2>2
<1>5. TypeOK'
  <2>1. step' \in CallSteps \cup {"IDLE"}
    BY DEF CallSteps
  <2>2. approval' # None => approved' \in Actions /\ approval' = BindingOf(approved')
    BY DEF DispatchInv, TypeOK
  <2> QED
    BY <1>3, <1>4, <2>1, <2>2 DEF DispatchInv, TypeOK, Statuses, FolderSet
<1>6. /\ calls[Len(calls)].action.type = "SIGN_DOCUMENT"
      /\ calls[Len(calls)].executor = "FOXIT"
      /\ configured
      /\ \A i \in DOMAIN folders : folders[i].call # Len(calls)
      /\ Len(calls) \in DOMAIN calls
  BY <1>1 DEF DispatchInv, Running
<1>7. OnlySignaturesLeaveATrace'
  <2>1. ASSUME NEW i \in DOMAIN folders'
        PROVE /\ folders'[i].call \in DOMAIN calls
              /\ calls[folders'[i].call].action.type = "SIGN_DOCUMENT"
              /\ calls[folders'[i].call].executor = "FOXIT"
    <3>1. CASE i \in DOMAIN folders
      BY <1>3, <3>1 DEF DispatchInv, OnlySignaturesLeaveATrace
    <3>2. CASE i = Len(folders')
      BY <1>2, <1>3, <1>6, <3>2
    <3> QED
      BY <1>3, <3>1, <3>2
  <2>2. ASSUME NEW i \in DOMAIN folders', NEW j \in DOMAIN folders',
               folders'[i].call = folders'[j].call
        PROVE i = j
    <3>1. CASE i \in DOMAIN folders /\ j \in DOMAIN folders
      BY <1>3, <2>2, <3>1 DEF DispatchInv, OnlySignaturesLeaveATrace
    <3>2. CASE i = Len(folders') \/ j = Len(folders')
      BY <1>2, <1>3, <1>6, <2>2, <3>2
    <3> QED
      BY <1>3, <3>1, <3>2
  <2> QED
    BY <1>6, <2>1, <2>2 DEF OnlySignaturesLeaveATrace
<1>8. ReportsAreTrue'
  <2>1. FoldersStay
    BY <1>2, <1>3 DEF FoldersStay
  <2> QED
    BY <2>1, ReportStep
<1>9. Running'
  BY <1>2, <1>3, <1>6 DEF Running
<1> QED
  BY <1>5, <1>7, <1>8, <1>9 DEF DispatchInv

LEMMA CreateDraftStep ==
  ASSUME DispatchInv, CreateDraft
  PROVE  DispatchInv'
<1>1. /\ step = "DRAFT"
      /\ UNCHANGED <<action, approval, approved, configured, file, calls>>
  BY DEF CreateDraft
<1>2. \/ /\ step' = "IDLE" /\ results' = Append(results, "FAILED") /\ UNCHANGED folders
      \/ /\ file # None /\ folders' = Append(folders, Draft)
         /\ \/ step' = "SEND" /\ UNCHANGED results
            \/ step' = "IDLE" /\ results' = Append(results, "FAILED")
  BY RefusalsAreTold DEF CreateDraft, FailCall, Report, Replies
<1> QED
  BY <1>1, <1>2, QuietStep, DraftedStep

LEMMA SendDraftStep ==
  ASSUME DispatchInv, SendDraft
  PROVE  DispatchInv'
<1>1. /\ step = "SEND" /\ step' = "IDLE"
      /\ UNCHANGED <<action, approval, approved, configured, file, calls>>
  BY DEF SendDraft
<1>2. /\ results \in Seq(Statuses) /\ Len(calls) = Len(results) + 1
      /\ folders \in Seq(FolderSet)
      /\ folders # <<>> /\ folders[Len(folders)].call = Len(calls)
  BY <1>1 DEF DispatchInv, TypeOK, Running, Statuses, FolderSet
<1>3. \/ /\ folders' = [folders EXCEPT ![Len(folders)].sent = TRUE]
         /\ results' = Append(results, "EXECUTED") \/ results' = Append(results, "FAILED")
      \/ folders' = folders /\ results' = Append(results, "FAILED")
  BY RefusalsAreTold DEF SendDraft, Replies, SendIsAccepted, Report
<1>4. /\ folders' \in Seq(FolderSet) /\ DOMAIN folders' = DOMAIN folders
      /\ \A i \in DOMAIN folders : /\ folders'[i].call = folders[i].call
                                   /\ folders[i].sent => folders'[i].sent
  <2>1. CASE folders' = folders
    BY <1>2, <2>1
  <2>2. CASE folders' = [folders EXCEPT ![Len(folders)].sent = TRUE]
    <3>1. Len(folders) \in DOMAIN folders /\ folders[Len(folders)] \in FolderSet
      BY <1>2
    <3>2. /\ DOMAIN folders' = DOMAIN folders
          /\ folders'[Len(folders)] = [folders[Len(folders)] EXCEPT !.sent = TRUE]
          /\ \A i \in DOMAIN folders : i # Len(folders) => folders'[i] = folders[i]
      BY <1>2, <2>2, <3>1
    <3> DEFINE dispatched == [folders[Len(folders)] EXCEPT !.sent = TRUE]
    <3>3. /\ dispatched \in FolderSet /\ dispatched.sent
          /\ dispatched.call = folders[Len(folders)].call
      BY <3>1 DEF FolderSet
    <3>4. folders' \in Seq(FolderSet)
      <4>1. folders' = [folders EXCEPT ![Len(folders)] = dispatched]
        BY <2>2
      <4> HIDE DEF dispatched
      <4> QED
        BY <1>2, <3>1, <3>3, <4>1
    <3> HIDE DEF dispatched
    <3> QED
      BY <3>2, <3>3, <3>4 DEF dispatched
  <2> QED
    BY <1>3, <2>1, <2>2
<1>5. results' = Append(results, "EXECUTED") =>
        \E i \in DOMAIN folders' : folders'[i].call = Len(calls) /\ folders'[i].sent
  <2>1. Append(results, "EXECUTED") # Append(results, "FAILED")
    BY <1>2 DEF Statuses
  <2>2. CASE folders' = [folders EXCEPT ![Len(folders)].sent = TRUE]
    <3>1. Len(folders) \in DOMAIN folders
      BY <1>2
    <3>2. folders[Len(folders)] \in FolderSet
      BY <1>2, <3>1
    <3>3. folders'[Len(folders)] = [folders[Len(folders)] EXCEPT !.sent = TRUE]
      BY <1>2, <2>2, <3>1
    <3>4. folders'[Len(folders)].sent
      BY <3>2, <3>3 DEF FolderSet
    <3> QED
      BY <1>2, <1>4, <3>1, <3>4
  <2> QED
    BY <1>3, <2>1, <2>2
<1>6. results' \in Seq(Statuses) /\ Len(calls') = Len(results')
  <2>1. CASE results' = Append(results, "EXECUTED")
    BY <1>1, <1>2, <2>1 DEF Statuses
  <2>2. CASE results' = Append(results, "FAILED")
    BY <1>1, <1>2, <2>2 DEF Statuses
  <2> QED
    BY <1>3, <2>1, <2>2
<1>7. TypeOK'
  <2>1. approval' # None => approved' \in Actions /\ approval' = BindingOf(approved')
    BY <1>1 DEF DispatchInv, TypeOK
  <2> QED
    BY <1>1, <1>4, <1>6, <2>1 DEF DispatchInv, TypeOK, Statuses, FolderSet
<1>8. OnlySignaturesLeaveATrace'
  <2>1. folders # <<>> /\ DOMAIN folders' = DOMAIN folders
    BY <1>2, <1>4
  <2> QED
    BY <1>1, <1>4, <2>1 DEF DispatchInv, OnlySignaturesLeaveATrace
<1>9. ReportsAreTrue'
  <2>1. FoldersStay
    BY <1>4 DEF FoldersStay
  <2> QED
    BY <1>1, <1>3, <1>5, <2>1, ReportStep
<1>10. Running'
  BY <1>1 DEF Running
<1> QED
  BY <1>7, <1>8, <1>9, <1>10 DEF DispatchInv

LEMMA DispatchStep == DispatchInv /\ [Next]_vars => DispatchInv'
<1> SUFFICES ASSUME DispatchInv, [Next]_vars PROVE DispatchInv'
  OBVIOUS
<1>1. CASE Approve \/ Edit \/ FileChanges
  BY <1>1, CallerStep
<1>2. ASSUME NEW executor \in {"FOXIT", "SIMULATED"}, Execute(executor)
      PROVE DispatchInv'
  BY <1>2, ExecuteStep
<1>3. CASE Validate
  BY <1>3, QuietStep DEF Validate, FailCall, Report
<1>4. CASE GetAccessToken
  BY <1>4, QuietStep DEF GetAccessToken, FailCall, Report
<1>5. CASE CreateDraft
  BY <1>5, CreateDraftStep
<1>6. CASE SendDraft
  BY <1>6, SendDraftStep
<1>7. CASE UNCHANGED vars
  BY <1>7 DEF vars, DispatchInv, TypeOK, OnlySignaturesLeaveATrace, ReportsAreTrue, Running
<1> QED
  BY <1>1, <1>2, <1>3, <1>4, <1>5, <1>6, <1>7 DEF Next

-----------------------------------------------------------------------------
(* The theorems.                                                            *)

LEMMA DispatchInvariant == Spec => []DispatchInv
  BY DispatchInit, DispatchStep, PTL DEF Spec

(* Every variable keeps to its shape, and every ended call has reported.    *)
THEOREM DispatchTypes == Spec => []TypeOK
<1>1. DispatchInv => TypeOK
  BY DEF DispatchInv
<1> QED
  BY <1>1, DispatchInvariant, PTL

(* Only a signature in a configured system leaves a trace in the service,   *)
(* and one folder a call at most, whatever fails and whenever.              *)
THEOREM OnlySignaturesDispatch == Spec => []OnlySignaturesLeaveATrace
<1>1. DispatchInv => OnlySignaturesLeaveATrace
  BY DEF DispatchInv
<1> QED
  BY <1>1, DispatchInvariant, PTL

(* What executors report is true of a service that does not answer a        *)
(* refused request with an HTTP success (RefusalsAreTold).                  *)
THEOREM ReportsStayTrue == Spec => []ReportsAreTrue
<1>1. DispatchInv => ReportsAreTrue
  BY DEF DispatchInv
<1> QED
  BY <1>1, DispatchInvariant, PTL

(* A valid approval is an approval of the very action at hand: of the same  *)
(* type, target and parameters, the same documents, evidence and profile.   *)
THEOREM ApprovalsBind == Spec => []ApprovalBindsTheAction
<1>1. DispatchInv => ApprovalBindsTheAction
  BY BindingMeaning DEF DispatchInv, TypeOK, ApprovalBindsTheAction, IsApprovalValid
<1> QED
  BY <1>1, DispatchInvariant, PTL

(* An edit without a meaning, of the order of the artifacts or of the time  *)
(* of creation, keeps the approval valid.                                   *)
THEOREM HarmlessEditsKeep == Spec => []HarmlessEditsKeepTheApproval
<1>1. ASSUME DispatchInv PROVE HarmlessEditsKeepTheApproval
  <2> SUFFICES
        ASSUME approval # None,
               action = [approved EXCEPT !.artifacts = action.artifacts,
                                         !.created = action.created],
               ~Repeats(action.artifacts), ~Repeats(approved.artifacts),
               {action.artifacts[i] : i \in DOMAIN action.artifacts}
                 = {approved.artifacts[i] : i \in DOMAIN approved.artifacts}
        PROVE  IsApprovalValid(approval, action)
    BY DEF HarmlessEditsKeepTheApproval, Repeats
  <2>1. action \in Actions /\ approved \in Actions /\ approval = BindingOf(approved)
    BY <1>1 DEF DispatchInv, TypeOK
  <2> QED
    BY <2>1, HarmlessBinding DEF IsApprovalValid
<1> QED
  BY <1>1, DispatchInvariant, PTL

-----------------------------------------------------------------------------
(* Every step keeps SenderPromise.                                          *)

IsDispatched ==
  \E i \in DOMAIN folders : folders[i].call = Len(calls) /\ folders[i].sent

Reported ==
  IF step = "IDLE" /\ results # <<>> THEN results[Len(results)] ELSE "NONE"

LEMMA PromiseInit == Init => Promise!Init
  BY DEF Init, Promise!Init

(* A call that begins has dispatched nothing: no folder is of a call to     *)
(* come.                                                                    *)
LEMMA ExecuteKeepsPromise ==
  ASSUME DispatchInv, NEW executor \in {"FOXIT", "SIMULATED"}, Execute(executor)
  PROVE  Promise!Begin \/ Promise!Decline
<1>1. /\ step = "IDLE" /\ UNCHANGED folders
      /\ calls' = Append(calls, [action |-> action, executor |-> executor])
  BY DEF Execute
<1>2. /\ results \in Seq(Statuses)
      /\ calls \in Seq([action : Actions, executor : {"FOXIT", "SIMULATED"}])
      /\ [action |-> action, executor |-> executor]
           \in [action : Actions, executor : {"FOXIT", "SIMULATED"}]
  BY DEF DispatchInv, TypeOK, Statuses
<1>3. Len(calls') = Len(calls) + 1
  BY <1>1, <1>2
<1>4. \A i \in DOMAIN folders : folders[i].call # Len(calls')
  BY <1>2, <1>3 DEF DispatchInv, OnlySignaturesLeaveATrace
<1>5. IsDispatched' = FALSE
  BY <1>1, <1>4 DEF IsDispatched
<1>6. CASE step' = "VALIDATE"
  BY <1>1, <1>5, <1>6 DEF Promise!Begin, IsDispatched
<1>7. ASSUME NEW status \in {"SIMULATED", "REFUSED"}, step' = "IDLE",
             results' = Append(results, status)
      PROVE Promise!Decline
  <2>1. results' # <<>> /\ results'[Len(results')] = status
    BY <1>2, <1>7 DEF Statuses
  <2> QED
    BY <1>1, <1>5, <1>7, <2>1 DEF Promise!Decline, IsDispatched
<1>8. \/ step' = "VALIDATE"
      \/ /\ step' = "IDLE"
         /\ results' = Append(results, "SIMULATED") \/ results' = Append(results, "REFUSED")
  BY <1>1 DEF Execute, Report
<1> QED
  BY <1>6, <1>7, <1>8

LEMMA NothingDispatchedYet ==
  ASSUME DispatchInv, step # "IDLE"
  PROVE  IsDispatched = FALSE
<1>1. CASE step # "SEND"
  BY <1>1 DEF DispatchInv, TypeOK, CallSteps, Running, IsDispatched
<1>2. CASE step = "SEND"
  <2>1. folders \in Seq(FolderSet) /\ folders # <<>>
    BY <1>2 DEF DispatchInv, TypeOK, Running, FolderSet
  <2>2. Len(folders) \in DOMAIN folders
    BY <2>1
  <2>3. \A i \in DOMAIN folders : folders[i].call = Len(calls) => i = Len(folders)
    BY <1>2, <2>2 DEF DispatchInv, Running, OnlySignaturesLeaveATrace
  <2> QED
    BY <1>2, <2>3 DEF DispatchInv, Running, IsDispatched
<1> QED
  BY <1>1, <1>2

LEMMA FailureKeepsPromise ==
  ASSUME DispatchInv, step # "IDLE", step' = "IDLE", results' = Append(results, "FAILED")
  PROVE  Promise!Fail
<1>1. results' # <<>> /\ results'[Len(results')] = "FAILED"
  BY DEF DispatchInv, TypeOK
<1>2. IsDispatched = FALSE /\ IsDispatched' \in BOOLEAN
  BY NothingDispatchedYet DEF IsDispatched
<1> QED
  BY <1>1, <1>2 DEF Promise!Fail, IsDispatched

(* The requests before the dispatch are invisible unless they fail.         *)
LEMMA RequestKeepsPromise ==
  ASSUME DispatchInv, Validate \/ GetAccessToken \/ CreateDraft
  PROVE  Promise!Fail \/ UNCHANGED Promise!vars
<1>1. step # "IDLE" /\ UNCHANGED calls
  BY DEF Validate, GetAccessToken, CreateDraft
<1>2. CASE step' = "IDLE"
  <2>1. results' = Append(results, "FAILED")
    BY <1>2 DEF Validate, GetAccessToken, CreateDraft, FailCall, Report
  <2> QED
    BY <1>1, <1>2, <2>1, FailureKeepsPromise
<1>3. CASE step' # "IDLE"
  <2>1. \/ folders' = folders
        \/ folders' = Append(folders, Draft) /\ step = "DRAFT" /\ file # None
    <3>1. CASE Validate
      BY <3>1 DEF Validate, FailCall
    <3>2. CASE GetAccessToken
      BY <3>2 DEF GetAccessToken, FailCall
    <3>3. CASE CreateDraft
      BY <3>3 DEF CreateDraft, FailCall
    <3> QED
      BY <3>1, <3>2, <3>3
  <2>2. IsDispatched' = FALSE
    <3>1. CASE folders' = folders
      BY <1>1, <3>1, NothingDispatchedYet DEF IsDispatched
    <3>2. CASE folders' = Append(folders, Draft) /\ step = "DRAFT" /\ file # None
      <4>1. folders \in Seq(FolderSet) /\ Draft \in FolderSet /\ ~Draft.sent
        BY <3>2 DEF DispatchInv, TypeOK, Draft, FolderSet
      <4>2. \A i \in DOMAIN folders' :
              (i \in DOMAIN folders /\ folders'[i] = folders[i]) \/ ~folders'[i].sent
        BY <3>2, <4>1
      <4> QED
        BY <1>1, <4>2, NothingDispatchedYet DEF IsDispatched
    <3> QED
      BY <2>1, <3>1, <3>2
  <2>3. IsDispatched = FALSE
    BY <1>1, NothingDispatchedYet
  <2> QED
    BY <1>1, <1>3, <2>2, <2>3 DEF Promise!vars, IsDispatched
<1> QED
  BY <1>2, <1>3

LEMMA DispatchKeepsPromise ==
  ASSUME DispatchInv, SendDraft
  PROVE  Promise!Succeed \/ Promise!Fail
<1>1. step = "SEND" /\ step' = "IDLE" /\ UNCHANGED calls
  BY DEF SendDraft
<1>2. CASE results' = Append(results, "FAILED")
  BY <1>1, <1>2, FailureKeepsPromise
<1>3. CASE results' = Append(results, "EXECUTED")
  <2>1. results' # <<>> /\ results'[Len(results')] = "EXECUTED" /\ Len(results') = Len(calls)
    BY <1>1, <1>3 DEF DispatchInv, TypeOK
  <2>2. ReportsAreTrue' /\ Len(results') \in DOMAIN results'
    <3>1. DispatchInv'
      BY SendDraftStep
    <3>2. results' \in Seq(Statuses)
      BY <3>1 DEF DispatchInv, TypeOK, Statuses
    <3> QED
      BY <2>1, <3>1, <3>2 DEF DispatchInv
  <2>3. IsDispatched' = TRUE
    BY <1>1, <2>1, <2>2 DEF ReportsAreTrue, IsDispatched
  <2>4. IsDispatched = FALSE
    BY <1>1, NothingDispatchedYet
  <2> QED
    BY <1>1, <2>1, <2>3, <2>4 DEF Promise!Succeed, IsDispatched
<1>4. results' = Append(results, "EXECUTED") \/ results' = Append(results, "FAILED")
  BY DEF SendDraft, Report
<1> QED
  BY <1>2, <1>3, <1>4

LEMMA PromiseStep == DispatchInv /\ [Next]_vars => [Promise!Next]_(Promise!vars)
<1> SUFFICES ASSUME DispatchInv, [Next]_vars PROVE [Promise!Next]_(Promise!vars)
  OBVIOUS
<1>1. CASE UNCHANGED <<step, calls, folders, results>>
  BY <1>1 DEF Promise!vars
<1>2. CASE Approve \/ Edit \/ FileChanges \/ UNCHANGED vars
  BY <1>1, <1>2 DEF Approve, Edit, FileChanges, vars
<1>3. ASSUME NEW executor \in {"FOXIT", "SIMULATED"}, Execute(executor)
      PROVE Promise!Next
  BY <1>3, ExecuteKeepsPromise DEF Promise!Next
<1>4. CASE Validate \/ GetAccessToken \/ CreateDraft
  BY <1>4, RequestKeepsPromise DEF Promise!Next
<1>5. CASE SendDraft
  BY <1>5, DispatchKeepsPromise DEF Promise!Next
<1> QED
  BY <1>2, <1>3, <1>4, <1>5 DEF Next

(* The executors implement SenderPromise: at most one dispatch a call, and  *)
(* success is reported of nothing else, under the same assumption about the *)
(* service (RefusalsAreTold).                                               *)
THEOREM ExecutorsKeepPromise == Spec => ImplementsSenderPromise
  BY PromiseInit, PromiseStep, DispatchInvariant, PTL
  DEF Spec, ImplementsSenderPromise, Promise!Spec

=============================================================================
