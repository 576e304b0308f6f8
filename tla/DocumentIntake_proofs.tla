------------------------ MODULE DocumentIntake_proofs ------------------------
(***************************************************************************)
(* Proofs about DocumentIntake for any users, uploads, runs and lists of   *)
(* evidence: what each run in progress knows of its uploads is kept by     *)
(* every request and by every other run, and the properties follow.        *)
(***************************************************************************)
EXTENDS DocumentIntake, TLAPS

(* The predicates name the variables they read as parameters, so that they  *)
(* can be carried from a state to the next.                                 *)

Sent(id, owner, c, s) == c[id] # None /\ s[id] = owner

Current(run) == run.items[Len(run.docs) + 1]

(* A document is of its item, and whole unless the upload is gone.          *)
IsDocumentOf(doc, item, f) ==
  /\ doc.item = item /\ doc.text.of = item
  /\ doc.text.amount = "WHOLE" \/ (item # Pasted /\ f[item] = None)

UploadsAreOwn(run, c, s) ==
  /\ Sent(run.artifact, run.owner, c, s)
  /\ \A i \in DOMAIN run.items : run.items[i] # Pasted => Sent(run.items[i], run.owner, c, s)

DocumentsFollow(run, f) ==
  /\ Len(run.docs) <= Len(run.items)
  /\ \A i \in DOMAIN run.docs : IsDocumentOf(run.docs[i], run.items[i], f)

(* A run that waits for a text, or holds one, does so for an upload.        *)
WaitsForUpload(run, x) ==
  run.step \in {"ASKED", "WRITING", "WRITTEN", "READ"} =>
    /\ Len(run.docs) < Len(run.items)
    /\ Current(run) \in UploadIds
    /\ run.step \in {"WRITING", "WRITTEN"} => x[Current(run)] # None
    /\ run.step = "READ" => run.text \in Texts /\ run.text.of = Current(run)

HandedWhole(run, c) ==
  run.step = "HANDED" =>
    run.pdf = c[run.artifact] /\ Len(run.docs) = Len(run.items)

RunOK(run, c, s, f, x) ==
  /\ run \in Intakes
  /\ UploadsAreOwn(run, c, s)
  /\ DocumentsFollow(run, f)
  /\ WaitsForUpload(run, x)
  /\ HandedWhole(run, c)

(* An upload that was recorded is there in full; a text file holds the text *)
(* of its upload.                                                           *)
StoreInv ==
  /\ \A id \in UploadIds : record[id] # None =>
       file[id] = "WHOLE" /\ Sent(id, record[id].owner, content, sender)
  /\ \A id \in UploadIds : sidecar[id] # None => sidecar[id].of = id

RunsInv ==
  \A r \in Runs : intake[r] # None => RunOK(intake[r], content, sender, file, sidecar)

IntakeInv == TypeOK /\ StoreInv /\ RunsInv

-----------------------------------------------------------------------------
(* What no step takes back: an upload keeps its content and its sender, and *)
(* once deleted never returns; a text file never goes.                      *)
Lasting(c, s, f, x, c2, s2, f2, x2) ==
  \A id \in UploadIds :
    /\ c[id] # None => /\ c2[id] = c[id] /\ s2[id] = s[id]
                       /\ f[id] = None => f2[id] = None
    /\ x[id] # None => x2[id] # None

LEMMA RunLasts ==
  ASSUME NEW run, NEW c, NEW s, NEW f, NEW x, NEW c2, NEW s2, NEW f2, NEW x2,
         RunOK(run, c, s, f, x), Lasting(c, s, f, x, c2, s2, f2, x2)
  PROVE  RunOK(run, c2, s2, f2, x2)
<1>1. /\ run \in Intakes /\ run.artifact \in UploadIds
      /\ run.items \in Seq(Items) /\ run.docs \in Seq(Documents)
  BY DEF RunOK, Intakes
<1>2. \A i \in DOMAIN run.items : run.items[i] # Pasted => run.items[i] \in UploadIds
  BY <1>1 DEF Items
<1>3. UploadsAreOwn(run, c2, s2)
  BY <1>1, <1>2 DEF RunOK, UploadsAreOwn, Sent, Lasting
<1>4. DocumentsFollow(run, f2)
  <2>1. ASSUME NEW i \in DOMAIN run.docs
        PROVE  IsDocumentOf(run.docs[i], run.items[i], f2)
    <3>1. IsDocumentOf(run.docs[i], run.items[i], f) /\ Len(run.docs) <= Len(run.items)
      BY DEF RunOK, DocumentsFollow
    <3>2. i \in DOMAIN run.items
      BY <1>1, <3>1
    <3>3. run.items[i] # Pasted => c[run.items[i]] # None
      BY <3>2 DEF RunOK, UploadsAreOwn, Sent
    <3>4. QED BY <1>2, <3>1, <3>2, <3>3 DEF IsDocumentOf, Lasting
  <2>2. QED BY <2>1 DEF RunOK, DocumentsFollow
<1>5. WaitsForUpload(run, x2)
  BY DEF RunOK, WaitsForUpload, Lasting
<1>6. HandedWhole(run, c2)
  BY <1>1 DEF RunOK, HandedWhole, UploadsAreOwn, Sent, Lasting
<1>7. QED BY <1>1, <1>3, <1>4, <1>5, <1>6 DEF RunOK

LEMMA RunsLast ==
  ASSUME RunsInv, UNCHANGED intake,
         Lasting(content, sender, file, sidecar, content', sender', file', sidecar')
  PROVE  RunsInv'
<1> SUFFICES ASSUME NEW r \in Runs, intake[r] # None
             PROVE  RunOK(intake[r], content', sender', file', sidecar')
  BY DEF RunsInv
<1>1. RunOK(intake[r], content, sender, file, sidecar)
  BY DEF RunsInv
<1>2. QED BY <1>1, RunLasts

(* A step of the background task of one run.                                *)
LEMMA OneRunMoves ==
  ASSUME IntakeInv, NEW r \in Runs, NEW run,
         intake' = [intake EXCEPT ![r] = run],
         RunOK(run, content', sender', file', sidecar'),
         Lasting(content, sender, file, sidecar, content', sender', file', sidecar')
  PROVE  RunsInv' /\ intake' \in [Runs -> Intakes \cup {None}]
<1>1. run \in Intakes
  BY DEF RunOK
<1>2. intake' \in [Runs -> Intakes \cup {None}]
  BY <1>1 DEF IntakeInv, TypeOK
<1>3. intake'[r] = run
  BY DEF IntakeInv, TypeOK
<1>4. ASSUME NEW q \in Runs, intake'[q] # None
      PROVE  RunOK(intake'[q], content', sender', file', sidecar')
  <2>1. CASE q = r
    BY <1>3, <2>1
  <2>2. CASE q # r
    <3>1. intake'[q] = intake[q]
      BY <2>2 DEF IntakeInv, TypeOK
    <3>2. RunOK(intake[q], content, sender, file, sidecar)
      BY <1>4, <3>1 DEF IntakeInv, RunsInv
    <3>3. QED BY <3>1, <3>2, RunLasts
  <2>3. QED BY <2>1, <2>2
<1>5. QED BY <1>2, <1>4 DEF RunsInv

LEMMA NothingLost ==
  ASSUME UNCHANGED <<content, sender, file, sidecar>>
  PROVE  Lasting(content, sender, file, sidecar, content', sender', file', sidecar')
BY DEF Lasting

-----------------------------------------------------------------------------
(* Requests.                                                                *)

LEMMA InitKeeps == Init => IntakeInv
BY DEF Init, IntakeInv, TypeOK, StoreInv, RunsInv

LEMMA AccountKeeps ==
  ASSUME IntakeInv, NEW u \in Users, Account(u)
  PROVE  IntakeInv'
<1>1. UNCHANGED <<uploadVars, sidecar, intake>>
  BY DEF Account, Signup, Login, Logout
<1>2. accounts' \subseteq Users /\ sessions' \in [Users -> Nat]
  BY DEF Account, Signup, Login, Logout, SignedIn, IntakeInv, TypeOK
<1>3. TypeOK' /\ StoreInv'
  BY <1>1, <1>2 DEF IntakeInv, TypeOK, StoreInv, uploadVars
<1>4. RunsInv'
  BY <1>1, NothingLost, RunsLast DEF IntakeInv, uploadVars
<1>5. QED BY <1>3, <1>4 DEF IntakeInv

(* A fresh identifier is no upload of a run yet.                            *)
LEMMA SaveKeeps ==
  ASSUME IntakeInv, NEW u \in Users, NEW id \in UploadIds, SaveUpload(u, id)
  PROVE  IntakeInv'
<1>1. PICK c \in Contents, kind \in {"artifact", "evidence"},
           written \in {"PARTIAL", "WHOLE"} :
        /\ content' = [content EXCEPT ![id] = c]
        /\ sender' = [sender EXCEPT ![id] = u]
        /\ file' = [file EXCEPT ![id] = written]
        /\ record' = IF written = "WHOLE"
                     THEN [record EXCEPT ![id] = [owner |-> u, kind |-> kind]]
                     ELSE record
  BY DEF SaveUpload
<1>2. content[id] = None /\ UNCHANGED <<userVars, sidecar, intake>>
  BY DEF SaveUpload
<1>3. Lasting(content, sender, file, sidecar, content', sender', file', sidecar')
  BY <1>1, <1>2 DEF Lasting, IntakeInv, TypeOK
<1>4. TypeOK'
  BY <1>1, <1>2 DEF IntakeInv, TypeOK, userVars, Records
<1>5. StoreInv'
  <2>1. ASSUME NEW other \in UploadIds, record'[other] # None
        PROVE  file'[other] = "WHOLE" /\ Sent(other, record'[other].owner, content', sender')
    <3>1. CASE other = id
      <4>1. record[id] = None
        BY <1>2 DEF IntakeInv, StoreInv, Sent
      <4>2. written = "WHOLE"
        BY <1>1, <2>1, <3>1, <4>1
      <4>3. record'[id].owner = u
        BY <1>1, <4>2 DEF IntakeInv, TypeOK
      <4>4. QED BY <1>1, <3>1, <4>2, <4>3, NoneIsNothing DEF IntakeInv, TypeOK, Sent
    <3>2. CASE other # id
      BY <1>1, <2>1, <3>2 DEF IntakeInv, StoreInv, TypeOK, Sent
    <3>3. QED BY <3>1, <3>2
  <2>2. QED BY <1>2, <2>1 DEF IntakeInv, StoreInv
<1>6. RunsInv'
  BY <1>2, <1>3, RunsLast DEF IntakeInv
<1>7. QED BY <1>4, <1>5, <1>6 DEF IntakeInv

LEMMA DeleteKeeps ==
  ASSUME IntakeInv, NEW u \in Users, NEW id \in UploadIds, DeleteUpload(u, id)
  PROVE  IntakeInv'
<1>1. /\ file' = [file EXCEPT ![id] = None] /\ record' = [record EXCEPT ![id] = None]
      /\ UNCHANGED <<userVars, content, sender, sidecar, intake>>
  BY DEF DeleteUpload
<1>2. Lasting(content, sender, file, sidecar, content', sender', file', sidecar')
  BY <1>1 DEF Lasting, IntakeInv, TypeOK
<1>3. TypeOK' /\ StoreInv'
  BY <1>1 DEF IntakeInv, TypeOK, StoreInv, userVars, Sent
<1>4. RunsInv'
  BY <1>1, <1>2, RunsLast DEF IntakeInv
<1>5. QED BY <1>3, <1>4 DEF IntakeInv

LEMMA StartKeeps ==
  ASSUME IntakeInv, NEW u \in Users, NEW r \in Runs, StartDocumentRun(u, r)
  PROVE  IntakeInv'
<1>1. PICK artifact \in UploadIds, items \in ItemLists :
        /\ MayUse(u, artifact)
        /\ \A i \in DOMAIN items : items[i] # Pasted => MayUse(u, items[i])
        /\ intake' = [intake EXCEPT ![r] =
             [owner |-> u, artifact |-> artifact, items |-> items, docs |-> <<>>,
              step |-> "READY", pass |-> "PLAIN", text |-> None, pdf |-> None]]
  BY DEF StartDocumentRun
<1> DEFINE run == [owner |-> u, artifact |-> artifact, items |-> items, docs |-> <<>>,
                   step |-> "READY", pass |-> "PLAIN", text |-> None, pdf |-> None]
<1>2. UNCHANGED <<userVars, uploadVars, sidecar>>
  BY DEF StartDocumentRun
<1>3. items \in Seq(Items)
  BY ListsHoldItems
<1>4. run \in Intakes
  BY <1>3 DEF Intakes, Steps, Passes
<1>5. ASSUME NEW id \in UploadIds, MayUse(u, id)
      PROVE  Sent(id, u, content, sender)
  BY <1>5 DEF MayUse, IntakeInv, StoreInv
<1>6. \A i \in DOMAIN items : items[i] # Pasted => items[i] \in UploadIds
  BY <1>3 DEF Items
<1>7. UploadsAreOwn(run, content, sender)
  BY <1>1, <1>5, <1>6 DEF UploadsAreOwn
<1>8. RunOK(run, content, sender, file, sidecar)
  BY <1>3, <1>4, <1>7 DEF RunOK, DocumentsFollow, WaitsForUpload, HandedWhole
<1> HIDE DEF run
<1>9. RunsInv' /\ intake' \in [Runs -> Intakes \cup {None}]
  <2>1. RunOK(run, content', sender', file', sidecar')
    BY <1>2, <1>8 DEF uploadVars
  <2>2. Lasting(content, sender, file, sidecar, content', sender', file', sidecar')
    BY <1>2, NothingLost DEF uploadVars
  <2>3. intake' = [intake EXCEPT ![r] = run]
    BY <1>1 DEF run
  <2>4. QED BY <2>1, <2>2, <2>3, OneRunMoves
<1>10. QED BY <1>2, <1>9 DEF IntakeInv, TypeOK, StoreInv, userVars, uploadVars

-----------------------------------------------------------------------------
(* The background task.  Each step makes another record of its run, and     *)
(* that record is right.                                                    *)

Step(run, step) == [run EXCEPT !.step = step]

Failed(run) ==
  [run EXCEPT !.step = "FAILED", !.pass = "PLAIN", !.text = None, !.items = <<>>,
              !.docs = <<>>]

WithDocument(run, text) ==
  [run EXCEPT !.step = "READY", !.pass = "PLAIN", !.text = None,
              !.docs = Append(@, [item |-> Current(run), text |-> text])]

(* A step that touches only its run and, perhaps, one text file.            *)
LEMMA BackgroundKeeps ==
  ASSUME IntakeInv, NEW r \in Runs, NEW run,
         intake' = [intake EXCEPT ![r] = run],
         UNCHANGED <<userVars, uploadVars>>,
         sidecar' \in [UploadIds -> Texts \cup {None}],
         \A id \in UploadIds :
           sidecar'[id] = sidecar[id] \/ (sidecar'[id] # None /\ sidecar'[id].of = id),
         RunOK(run, content, sender, file, sidecar')
  PROVE  IntakeInv'
<1>1. UNCHANGED <<accounts, sessions, content, sender, file, record>>
  BY DEF userVars, uploadVars
<1>2. Lasting(content, sender, file, sidecar, content', sender', file', sidecar')
  BY <1>1 DEF Lasting
<1>3. RunsInv' /\ intake' \in [Runs -> Intakes \cup {None}]
  BY <1>1, <1>2, OneRunMoves
<1>4. StoreInv'
  BY <1>1 DEF IntakeInv, StoreInv
<1>5. TypeOK'
  BY <1>1, <1>3 DEF IntakeInv, TypeOK
<1>6. QED BY <1>3, <1>4, <1>5 DEF IntakeInv

LEMMA RunOf ==
  ASSUME IntakeInv, NEW r \in Runs, intake[r] # None
  PROVE  /\ RunOK(intake[r], content, sender, file, sidecar)
         /\ intake[r] \in Intakes
BY DEF IntakeInv, RunsInv, RunOK

LEMMA FailedIsOK ==
  ASSUME NEW run, NEW x, RunOK(run, content, sender, file, x)
  PROVE  RunOK(Failed(run), content, sender, file, x)
<1>1. run \in Intakes
  BY DEF RunOK
<1>2. Failed(run) \in Intakes
  <2>1. <<>> \in Seq(Items) /\ <<>> \in Seq(Documents)
    OBVIOUS
  <2>2. "FAILED" \in Steps /\ "PLAIN" \in Passes
    BY DEF Steps, Passes
  <2>3. QED BY <1>1, <2>1, <2>2 DEF Failed, Intakes
<1>3. /\ Failed(run).artifact = run.artifact /\ Failed(run).owner = run.owner
      /\ Failed(run).items = <<>> /\ Failed(run).docs = <<>> /\ Failed(run).step = "FAILED"
  BY <1>1 DEF Failed, Intakes
<1>4. UploadsAreOwn(Failed(run), content, sender)
  BY <1>3 DEF RunOK, UploadsAreOwn
<1>5. QED BY <1>2, <1>3, <1>4 DEF RunOK, DocumentsFollow, WaitsForUpload, HandedWhole

(* The next item of a run is one of its items.                              *)
LEMMA CurrentItem ==
  ASSUME NEW run \in Intakes, Len(run.docs) < Len(run.items)
  PROVE  /\ Len(run.docs) \in Nat
         /\ Len(run.docs) + 1 \in DOMAIN run.items
         /\ Current(run) \in Items
<1>1. run.items \in Seq(Items) /\ run.docs \in Seq(Documents)
  BY DEF Intakes
<1>2. QED BY <1>1 DEF Current

LEMMA AddedIsOK ==
  ASSUME NEW run, NEW x, RunOK(run, content, sender, file, x),
         Len(run.docs) < Len(run.items),
         NEW text \in Texts, text.of = Current(run),
         text.amount = "WHOLE" \/ (Current(run) # Pasted /\ file[Current(run)] = None)
  PROVE  RunOK(WithDocument(run, text), content, sender, file, x)
<1> DEFINE doc == [item |-> Current(run), text |-> text]
           next == WithDocument(run, text)
<1>1. /\ run \in Intakes /\ run.items \in Seq(Items) /\ run.docs \in Seq(Documents)
  BY DEF RunOK, Intakes
<1>2. doc \in Documents
  BY <1>1, CurrentItem DEF Documents
<1>3. Append(run.docs, doc) \in Seq(Documents)
  BY <1>1, <1>2
<1>4. next \in Intakes
  <2>1. "READY" \in Steps /\ "PLAIN" \in Passes
    BY DEF Steps, Passes
  <2>2. QED BY <1>1, <1>3, <2>1 DEF WithDocument, Intakes
<1>5. /\ next.artifact = run.artifact /\ next.owner = run.owner
      /\ next.items = run.items /\ next.docs = Append(run.docs, doc)
      /\ next.step = "READY"
  BY <1>1 DEF WithDocument, Intakes
<1> HIDE DEF next
<1>6. UploadsAreOwn(next, content, sender)
  BY <1>5 DEF RunOK, UploadsAreOwn
<1>7. DocumentsFollow(next, file)
  <2>1. Len(next.docs) = Len(run.docs) + 1 /\ Len(next.docs) <= Len(next.items)
    BY <1>1, <1>2, <1>5
  <2>2. IsDocumentOf(doc, Current(run), file)
    BY DEF IsDocumentOf
  <2>3. ASSUME NEW i \in DOMAIN next.docs
        PROVE  IsDocumentOf(next.docs[i], next.items[i], file)
    <3>1. CASE i = Len(run.docs) + 1
      BY <1>1, <1>2, <1>5, <2>2, <3>1 DEF Current
    <3>2. CASE i # Len(run.docs) + 1
      <4>1. i \in DOMAIN run.docs /\ next.docs[i] = run.docs[i]
        BY <1>1, <1>2, <1>5, <2>1, <3>2
      <4>2. QED BY <1>5, <4>1 DEF RunOK, DocumentsFollow
    <3>3. QED BY <3>1, <3>2
  <2>4. QED BY <2>1, <2>3 DEF DocumentsFollow
<1>8. QED BY <1>4, <1>5, <1>6, <1>7 DEF RunOK, WaitsForUpload, HandedWhole, next

LEMMA TakeKeeps ==
  ASSUME IntakeInv, NEW r \in Runs, TakeText(r)
  PROVE  IntakeInv'
<1> DEFINE run == intake[r]
           text == [of |-> Current(run), amount |-> "WHOLE"]
<1>1. RunOK(run, content, sender, file, sidecar) /\ run \in Intakes
  BY RunOf DEF TakeText, At
<1>2. Len(run.docs) < Len(run.items)
  BY DEF TakeText, HasNext
<1>3. text \in Texts
  BY <1>1, <1>2, CurrentItem DEF Texts, Amounts
<1>4. RunOK(WithDocument(run, text), content, sender, file, sidecar)
  BY <1>1, <1>2, <1>3, AddedIsOK
<1>5. /\ intake' = [intake EXCEPT ![r] = WithDocument(run, text)]
      /\ UNCHANGED <<userVars, uploadVars, sidecar>>
  BY DEF TakeText, AddDocument, NextItem, Current, WithDocument
<1> HIDE DEF run, text
<1>6. sidecar \in [UploadIds -> Texts \cup {None}]
  BY DEF IntakeInv, TypeOK
<1>7. QED BY <1>4, <1>5, <1>6, BackgroundKeeps

LEMMA AskKeeps ==
  ASSUME IntakeInv, NEW r \in Runs, AskService(r)
  PROVE  IntakeInv'
<1> DEFINE run == intake[r]
           next == Step(run, "ASKED")
<1>1. RunOK(run, content, sender, file, sidecar) /\ run \in Intakes
  BY RunOf DEF AskService, At
<1>2. Len(run.docs) < Len(run.items) /\ Current(run) \in UploadIds
  BY DEF AskService, HasNext, NextItem, Current
<1>3. /\ intake' = [intake EXCEPT ![r] = next]
      /\ UNCHANGED <<userVars, uploadVars, sidecar>>
  BY DEF AskService, Step
<1>4. /\ next.artifact = run.artifact /\ next.owner = run.owner
      /\ next.items = run.items /\ next.docs = run.docs /\ next.step = "ASKED"
      /\ next \in Intakes
  BY <1>1 DEF Step, Intakes, Steps
<1> HIDE DEF run, next
<1>5. RunOK(next, content, sender, file, sidecar)
  BY <1>1, <1>2, <1>4
     DEF RunOK, UploadsAreOwn, DocumentsFollow, WaitsForUpload, HandedWhole, Current
<1>6. sidecar \in [UploadIds -> Texts \cup {None}]
  BY DEF IntakeInv, TypeOK
<1>7. QED BY <1>3, <1>5, <1>6, BackgroundKeeps

(* The service empties or writes the text file of the current item.         *)
LEMMA ServiceKeeps ==
  ASSUME IntakeInv, NEW r \in Runs, NEW before \in {"ASKED", "WRITING"},
         NEW after \in {"WRITING", "WRITTEN"}, NEW amount \in Amounts,
         At(r, before), Goes(r, after),
         sidecar' = [sidecar EXCEPT
           ![SidecarOf(NextItem(r))] = [of |-> NextItem(r), amount |-> amount]],
         UNCHANGED <<userVars, uploadVars>>
  PROVE  IntakeInv'
<1> DEFINE run == intake[r]
           next == Step(run, after)
           id == Current(run)
           text == [of |-> id, amount |-> amount]
<1>1. RunOK(run, content, sender, file, sidecar) /\ run \in Intakes /\ run.step = before
  BY RunOf DEF At
<1>2. Len(run.docs) < Len(run.items) /\ id \in UploadIds
  BY <1>1 DEF RunOK, WaitsForUpload
<1>3. intake' = [intake EXCEPT ![r] = next] /\ sidecar' = [sidecar EXCEPT ![id] = text]
  BY DEF Goes, Step, SidecarOf, NextItem, Current
<1>4. text \in Texts /\ text # None /\ text.of = id
  BY <1>2, NoneIsNothing DEF Texts, Items
<1>5. /\ next.artifact = run.artifact /\ next.owner = run.owner
      /\ next.items = run.items /\ next.docs = run.docs /\ next.step = after
      /\ next \in Intakes
  BY <1>1 DEF Step, Intakes, Steps
<1> HIDE DEF run, next, text, id
<1>6. Current(next) = id
  BY <1>5 DEF Current, id
<1>7. /\ sidecar' \in [UploadIds -> Texts \cup {None}] /\ sidecar'[id] = text
      /\ \A other \in UploadIds : other # id => sidecar'[other] = sidecar[other]
  BY <1>2, <1>3, <1>4 DEF IntakeInv, TypeOK
<1>8. RunOK(next, content, sender, file, sidecar')
  <2>1. UploadsAreOwn(next, content, sender) /\ DocumentsFollow(next, file)
    BY <1>1, <1>5 DEF RunOK, UploadsAreOwn, DocumentsFollow
  <2>2. WaitsForUpload(next, sidecar')
    BY <1>2, <1>4, <1>5, <1>6, <1>7 DEF WaitsForUpload
  <2>3. HandedWhole(next, content)
    BY <1>5 DEF HandedWhole
  <2>4. QED BY <1>5, <2>1, <2>2, <2>3 DEF RunOK
<1>9. \A other \in UploadIds :
        sidecar'[other] = sidecar[other]
          \/ (sidecar'[other] # None /\ sidecar'[other].of = other)
  BY <1>4, <1>7
<1>10. QED BY <1>3, <1>7, <1>8, <1>9, BackgroundKeeps

LEMMA OpensKeeps ==
  ASSUME IntakeInv, NEW r \in Runs, ServiceOpens(r)
  PROVE  IntakeInv'
<1>1. /\ At(r, "ASKED") /\ Goes(r, "WRITING")
      /\ sidecar' = [sidecar EXCEPT
           ![SidecarOf(NextItem(r))] = [of |-> NextItem(r), amount |-> "BLANK"]]
      /\ UNCHANGED <<userVars, uploadVars>>
  BY DEF ServiceOpens
<1>2. "BLANK" \in Amounts
  BY DEF Amounts
<1>3. QED BY <1>1, <1>2, ServiceKeeps

LEMMA WritesKeeps ==
  ASSUME IntakeInv, NEW r \in Runs, ServiceWrites(r)
  PROVE  IntakeInv'
<1> DEFINE run == intake[r]
           layer == content[NextItem(r)].layer
<1>1. At(r, "WRITING") /\ Goes(r, "WRITTEN") /\ UNCHANGED <<userVars, uploadVars>>
  BY DEF ServiceWrites
<1>2. RunOK(run, content, sender, file, sidecar) /\ run \in Intakes
  BY <1>1, RunOf DEF At
<1>3. Len(run.docs) < Len(run.items) /\ Current(run) \in UploadIds
  BY <1>1, <1>2 DEF RunOK, WaitsForUpload, At
<1>4. Len(run.docs) + 1 \in DOMAIN run.items
  BY <1>2, <1>3, CurrentItem
<1>5. content[Current(run)] # None
  BY <1>2, <1>3, <1>4, PastedIsNoUpload DEF RunOK, UploadsAreOwn, Sent, Current
<1>6. layer \in Amounts
  BY <1>3, <1>5, ContentsAreFiles DEF IntakeInv, TypeOK, NextItem, Current
<1>7. PICK amount \in {layer} \cup (IF run.pass = "OCR" THEN {"WHOLE"} ELSE {}) :
        sidecar' = [sidecar EXCEPT
          ![SidecarOf(NextItem(r))] = [of |-> NextItem(r), amount |-> amount]]
  BY DEF ServiceWrites
<1>8. amount \in Amounts
  BY <1>6, <1>7 DEF Amounts
<1>9. QED BY <1>1, <1>7, <1>8, ServiceKeeps

(* The text read is the upload's own: every run that writes the file writes *)
(* a text of the same upload.                                               *)
LEMMA ReadKeeps ==
  ASSUME IntakeInv, NEW r \in Runs, ReadText(r)
  PROVE  IntakeInv'
<1> DEFINE run == intake[r]
           id == Current(run)
           text == sidecar[id]
           kept == [run EXCEPT !.step = "READ", !.text = text]
           again == [run EXCEPT !.step = "ASKED", !.pass = "OCR"]
<1>1. /\ RunOK(run, content, sender, file, sidecar) /\ run \in Intakes
      /\ run.step = "WRITTEN"
  BY RunOf DEF ReadText, At
<1>2. Len(run.docs) < Len(run.items) /\ id \in UploadIds /\ text # None
  BY <1>1 DEF RunOK, WaitsForUpload
<1>3. text \in Texts /\ text.of = id
  BY <1>2 DEF IntakeInv, TypeOK, StoreInv
<1>4. \/ intake' = [intake EXCEPT ![r] = kept]
      \/ intake' = [intake EXCEPT ![r] = again]
  BY DEF ReadText, SidecarOf, NextItem, Current
<1>5. UNCHANGED <<userVars, uploadVars, sidecar>>
  BY DEF ReadText
<1>6. /\ kept.artifact = run.artifact /\ kept.owner = run.owner
      /\ kept.items = run.items /\ kept.docs = run.docs
      /\ kept.step = "READ" /\ kept.text = text /\ kept \in Intakes
  BY <1>1, <1>3 DEF Intakes, Steps
<1>7. /\ again.artifact = run.artifact /\ again.owner = run.owner
      /\ again.items = run.items /\ again.docs = run.docs
      /\ again.step = "ASKED" /\ again \in Intakes
  BY <1>1 DEF Intakes, Steps, Passes
<1> HIDE DEF run, text, kept, again
<1>8. Current(kept) = id /\ Current(again) = id
  BY <1>6, <1>7 DEF Current
<1>9. RunOK(kept, content, sender, file, sidecar)
  <2>1. UploadsAreOwn(kept, content, sender) /\ DocumentsFollow(kept, file)
    BY <1>1, <1>6 DEF RunOK, UploadsAreOwn, DocumentsFollow
  <2>2. WaitsForUpload(kept, sidecar) /\ HandedWhole(kept, content)
    BY <1>2, <1>3, <1>6, <1>8 DEF WaitsForUpload, HandedWhole
  <2>3. QED BY <1>6, <2>1, <2>2 DEF RunOK
<1>10. RunOK(again, content, sender, file, sidecar)
  <2>1. UploadsAreOwn(again, content, sender) /\ DocumentsFollow(again, file)
    BY <1>1, <1>7 DEF RunOK, UploadsAreOwn, DocumentsFollow
  <2>2. WaitsForUpload(again, sidecar) /\ HandedWhole(again, content)
    BY <1>2, <1>7, <1>8 DEF WaitsForUpload, HandedWhole
  <2>3. QED BY <1>7, <2>1, <2>2 DEF RunOK
<1>11. sidecar \in [UploadIds -> Texts \cup {None}]
  BY DEF IntakeInv, TypeOK
<1>12. QED BY <1>4, <1>5, <1>9, <1>10, <1>11, BackgroundKeeps

(* A text that is short of its pages only passes without the file.          *)
LEMMA BuildKeeps ==
  ASSUME IntakeInv, NEW r \in Runs, BuildDocument(r)
  PROVE  IntakeInv'
<1> DEFINE run == intake[r]
<1>1. /\ RunOK(run, content, sender, file, sidecar) /\ run \in Intakes
      /\ run.step = "READ"
  BY RunOf DEF BuildDocument, At
<1>2. /\ Len(run.docs) < Len(run.items) /\ Current(run) \in UploadIds
      /\ run.text \in Texts /\ run.text.of = Current(run)
  BY <1>1 DEF RunOK, WaitsForUpload
<1>3. UNCHANGED <<userVars, uploadVars, sidecar>>
  BY DEF BuildDocument
<1>4. sidecar \in [UploadIds -> Texts \cup {None}]
  BY DEF IntakeInv, TypeOK
<1>5. CASE Enough(run.text, Current(run))
  <2>1. run.text.amount = "WHOLE" \/ (Current(run) # Pasted /\ file[Current(run)] = None)
    BY <1>2, <1>5, PastedIsNoUpload DEF Enough
  <2>2. RunOK(WithDocument(run, run.text), content, sender, file, sidecar)
    BY <1>1, <1>2, <2>1, AddedIsOK
  <2>3. intake' = [intake EXCEPT ![r] = WithDocument(run, run.text)]
    BY <1>5 DEF BuildDocument, AddDocument, NextItem, Current, WithDocument
  <2>4. QED BY <1>3, <1>4, <2>2, <2>3, BackgroundKeeps
<1>6. CASE ~Enough(run.text, Current(run))
  <2>1. RunOK(Failed(run), content, sender, file, sidecar)
    BY <1>1, FailedIsOK
  <2>2. intake' = [intake EXCEPT ![r] = Failed(run)]
    BY <1>6 DEF BuildDocument, Fails, Failed, NextItem, Current
  <2>3. QED BY <1>3, <1>4, <2>1, <2>2, BackgroundKeeps
<1>7. QED BY <1>5, <1>6

LEMMA HandOverKeeps ==
  ASSUME IntakeInv, NEW r \in Runs, HandOver(r)
  PROVE  IntakeInv'
<1> DEFINE run == intake[r]
           next == [run EXCEPT !.step = "HANDED", !.pdf = content[run.artifact]]
<1>1. /\ RunOK(run, content, sender, file, sidecar) /\ run \in Intakes
      /\ run.items \in Seq(Items) /\ run.docs \in Seq(Documents)
  BY RunOf DEF HandOver, At, Intakes
<1>2. ~(Len(run.docs) < Len(run.items))
  BY DEF HandOver, HasNext
<1>3. Len(run.docs) = Len(run.items)
  BY <1>1, <1>2 DEF RunOK, DocumentsFollow
<1>4. content[run.artifact] \in Contents
  BY <1>1 DEF RunOK, UploadsAreOwn, Sent, IntakeInv, TypeOK, Intakes
<1>5. /\ intake' = [intake EXCEPT ![r] = next]
      /\ UNCHANGED <<userVars, uploadVars, sidecar>>
  BY DEF HandOver
<1>6. /\ next.artifact = run.artifact /\ next.owner = run.owner
      /\ next.items = run.items /\ next.docs = run.docs /\ next.step = "HANDED"
      /\ next.pdf = content[run.artifact] /\ next \in Intakes
  BY <1>1, <1>4 DEF Intakes, Steps
<1> HIDE DEF run, next
<1>7. RunOK(next, content, sender, file, sidecar)
  <2>1. UploadsAreOwn(next, content, sender) /\ DocumentsFollow(next, file)
    BY <1>1, <1>6 DEF RunOK, UploadsAreOwn, DocumentsFollow
  <2>2. WaitsForUpload(next, sidecar) /\ HandedWhole(next, content)
    BY <1>3, <1>6 DEF WaitsForUpload, HandedWhole
  <2>3. QED BY <1>6, <2>1, <2>2 DEF RunOK
<1>8. sidecar \in [UploadIds -> Texts \cup {None}]
  BY DEF IntakeInv, TypeOK
<1>9. QED BY <1>5, <1>7, <1>8, BackgroundKeeps

LEMMA FailKeeps ==
  ASSUME IntakeInv, NEW r \in Runs, FailRun(r)
  PROVE  IntakeInv'
<1>1. RunOK(Failed(intake[r]), content, sender, file, sidecar)
  BY RunOf, FailedIsOK DEF FailRun
<1>2. /\ intake' = [intake EXCEPT ![r] = Failed(intake[r])]
      /\ UNCHANGED <<userVars, uploadVars, sidecar>>
  BY DEF FailRun, Fails, Failed
<1>3. sidecar \in [UploadIds -> Texts \cup {None}]
  BY DEF IntakeInv, TypeOK
<1>4. QED BY <1>1, <1>2, <1>3, BackgroundKeeps

LEMMA StutterKeeps ==
  ASSUME IntakeInv, UNCHANGED vars
  PROVE  IntakeInv'
<1>1. TypeOK' /\ StoreInv'
  BY DEF vars, IntakeInv, TypeOK, StoreInv
<1>2. RunsInv'
  BY NothingLost, RunsLast DEF vars, IntakeInv
<1>3. QED BY <1>1, <1>2 DEF IntakeInv

LEMMA BackgroundStepKeeps ==
  ASSUME IntakeInv, NEW r \in Runs, Background(r)
  PROVE  IntakeInv'
BY TakeKeeps, AskKeeps, OpensKeeps, WritesKeeps, ReadKeeps, BuildKeeps,
   HandOverKeeps, FailKeeps DEF Background

(* Requests of any users and the tasks of any runs, in any order, leave     *)
(* every run with its own uploads, whole texts and its own document.        *)
THEOREM IntakeInvariant == Spec => []IntakeInv
<1>1. Init => IntakeInv
  BY InitKeeps
<1>2. IntakeInv /\ [Next]_vars => IntakeInv'
  <2> SUFFICES ASSUME IntakeInv, [Next]_vars
               PROVE  IntakeInv'
    OBVIOUS
  <2>1. ASSUME NEW u \in Users, Account(u)
        PROVE  IntakeInv'
    BY <2>1, AccountKeeps
  <2>2. ASSUME NEW u \in Users, NEW id \in UploadIds,
               SaveUpload(u, id) \/ DeleteUpload(u, id)
        PROVE  IntakeInv'
    BY <2>2, SaveKeeps, DeleteKeeps
  <2>3. ASSUME NEW u \in Users, NEW r \in Runs, StartDocumentRun(u, r)
        PROVE  IntakeInv'
    BY <2>3, StartKeeps
  <2>4. ASSUME NEW r \in Runs, Background(r)
        PROVE  IntakeInv'
    BY <2>4, BackgroundStepKeeps
  <2>5. CASE UNCHANGED vars
    BY <2>5, StutterKeeps
  <2>6. QED BY <2>1, <2>2, <2>3, <2>4, <2>5 DEF Next
<1>3. QED BY <1>1, <1>2, PTL DEF Spec

-----------------------------------------------------------------------------
(* What follows.                                                            *)

(* Every variable keeps to its type.                                        *)
THEOREM IntakeTypes == Spec => []TypeOK
BY IntakeInvariant, PTL DEF IntakeInv

(* What the list of uploads shows is on disk, in full, and its owner's.     *)
THEOREM RecordedFilesExist == Spec => []RecordsHaveFiles
<1>1. IntakeInv => RecordsHaveFiles
  BY DEF IntakeInv, StoreInv, Sent, RecordsHaveFiles
<1>2. QED BY <1>1, IntakeInvariant, PTL

LEMMA DocumentsOf ==
  ASSUME IntakeInv, NEW r \in Runs, intake[r] # None, NEW i \in DOMAIN intake[r].docs
  PROVE  /\ i \in DOMAIN intake[r].items
         /\ IsDocumentOf(intake[r].docs[i], intake[r].items[i], file)
<1>1. RunOK(intake[r], content, sender, file, sidecar) /\ intake[r] \in Intakes
  BY RunOf
<1>2. intake[r].docs \in Seq(Documents) /\ intake[r].items \in Seq(Items)
  BY <1>1 DEF Intakes
<1>3. QED BY <1>1, <1>2 DEF RunOK, DocumentsFollow

(* No run takes anything its owner has not sent.                            *)
THEOREM RunsUseOwnUploads == Spec => []EvidenceIsOwn
<1>1. IntakeInv => EvidenceIsOwn
  <2> SUFFICES ASSUME IntakeInv, NEW r \in Runs, intake[r] # None
               PROVE  LET run == intake[r]
                      IN /\ sender[run.artifact] = run.owner
                         /\ \A i \in DOMAIN run.docs :
                              run.docs[i].text.of # Pasted =>
                                sender[run.docs[i].text.of] = run.owner
    BY DEF EvidenceIsOwn
  <2>1. RunOK(intake[r], content, sender, file, sidecar)
    BY RunOf
  <2>2. QED BY <2>1, DocumentsOf DEF RunOK, UploadsAreOwn, Sent, IsDocumentOf
<1>2. QED BY <1>1, IntakeInvariant, PTL

(* What reaches the pipeline is the document and every item, in its order   *)
(* and whole, but for uploads deleted meanwhile.                            *)
THEOREM HandedRunsAreWhole == Spec => []NothingIsLeftOut
<1>1. IntakeInv => NothingIsLeftOut
  <2> SUFFICES ASSUME IntakeInv, NEW r \in Runs, At(r, "HANDED")
               PROVE  LET run == intake[r]
                      IN /\ run.pdf = content[run.artifact] /\ run.pdf # None
                         /\ Len(run.docs) = Len(run.items)
                         /\ \A i \in DOMAIN run.docs :
                              /\ run.docs[i].item = run.items[i]
                              /\ run.docs[i].text.of = run.items[i]
                              /\ \/ run.docs[i].text.amount = "WHOLE"
                                 \/ run.items[i] # Pasted /\ file[run.items[i]] = None
    BY DEF NothingIsLeftOut
  <2>1. intake[r] # None /\ RunOK(intake[r], content, sender, file, sidecar)
    BY RunOf DEF At
  <2>2. QED BY <2>1, DocumentsOf
        DEF At, RunOK, HandedWhole, UploadsAreOwn, Sent, IsDocumentOf
<1>2. QED BY <1>1, IntakeInvariant, PTL

(* Only its owner, signed in, ends an upload; nobody replaces one.          *)
THEOREM OwnersEndUploads == Spec => UploadsAreTheirOwners
<1> DEFINE Owned ==
      \A id \in UploadIds : record[id] # None /\ record'[id] # record[id] =>
        /\ record'[id] = None /\ file'[id] = None
        /\ SignedIn(record[id].owner)
<1>1. IntakeInv /\ [Next]_vars => [Owned]_vars
  <2> SUFFICES ASSUME IntakeInv, Next, NEW id \in UploadIds,
                      record[id] # None, record'[id] # record[id]
               PROVE  /\ record'[id] = None /\ file'[id] = None
                      /\ SignedIn(record[id].owner)
    OBVIOUS
  <2>1. content[id] # None
    BY DEF IntakeInv, StoreInv, Sent
  <2>2. ASSUME NEW u \in Users, NEW other \in UploadIds, SaveUpload(u, other)
        PROVE  FALSE
    <3>1. other # id
      BY <2>1, <2>2 DEF SaveUpload
    <3>2. record'[id] = record[id]
      BY <2>2, <3>1 DEF SaveUpload, IntakeInv, TypeOK
    <3>3. QED BY <3>2
  <2>3. PICK u \in Users, other \in UploadIds : DeleteUpload(u, other)
    <3>1. ASSUME NEW u \in Users, Account(u) PROVE record' = record
      BY <3>1 DEF Account, Signup, Login, Logout, uploadVars
    <3>2. ASSUME NEW u \in Users, NEW r \in Runs, StartDocumentRun(u, r)
          PROVE  record' = record
      BY <3>2 DEF StartDocumentRun, uploadVars
    <3>3. ASSUME NEW r \in Runs, Background(r) PROVE record' = record
      BY <3>3 DEF Background, TakeText, AskService, ServiceOpens, ServiceWrites,
                  ReadText, BuildDocument, HandOver, FailRun, uploadVars
    <3>4. QED BY <2>2, <3>1, <3>2, <3>3 DEF Next
  <2>4. other = id
    BY <2>3 DEF DeleteUpload, IntakeInv, TypeOK
  <2>5. QED BY <2>3, <2>4 DEF DeleteUpload, MayUse, IntakeInv, TypeOK
<1> HIDE DEF Owned
<1>2. Spec => [][Owned]_vars
  BY <1>1, IntakeInvariant, PTL DEF Spec
<1>3. QED BY <1>2 DEF UploadsAreTheirOwners, Owned
=============================================================================
