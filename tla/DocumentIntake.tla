--------------------------- MODULE DocumentIntake ---------------------------
(***************************************************************************)
(* Everything a document run rests on before its pipeline starts: accounts *)
(* and sessions (web/auth.py), the uploaded files (web/uploads.py), the    *)
(* requests that use them and the background task that turns the evidence  *)
(* items of a run into documents (web/app.py), and the way the document    *)
(* service hands an extracted text back (integrations/foxit_pdf.py).       *)
(*                                                                         *)
(* Runs share the uploads, and one more thing: the text of an uploaded PDF *)
(* is extracted into a file named after the upload, so two runs that read  *)
(* the same evidence at the same time write and read the same file.  The   *)
(* owner may delete an upload while runs are reading it.                   *)
(*                                                                         *)
(* What is left out: passwords, names and sizes, which only make a request *)
(* fail (a rejected request changes nothing and is no step); the tokens of *)
(* a session, of which only the number matters, since none is ever reused. *)
(* Definitions named Faulty... are seeded faults, used by nothing here.    *)
(***************************************************************************)
EXTENDS Naturals, Sequences

CONSTANTS
  None,
  Users,        \* accounts that may be created, by normalised email
  UploadIds,    \* identifiers the server may draw, each at most once
  Runs,         \* run identifiers
  Contents,     \* what users upload
  Pasted,       \* an evidence item that is pasted text
  ItemLists,    \* the evidence lists a request may hold (1 to 10 items in the code)
  MaxSessions   \* most live sessions of a user (no limit in the code)

(* How much of a document a text holds: nothing legible; a little, less     *)
(* than 20 characters for each of its pages but 40 or more in all, like the *)
(* stamp a scanner prints; or all of it.                                    *)
Amounts == {"BLANK", "FAINT", "WHOLE"}

ASSUME ContentsAreFiles ==
  Contents \subseteq [form : {"pdf", "txt"}, layer : Amounts]
ASSUME TextFilesAreRead ==
  \A c \in Contents : c.form = "txt" => c.layer = "WHOLE"
Items == UploadIds \cup {Pasted}

ASSUME ListsHoldItems == ItemLists \subseteq Seq(Items) \ {<<>>}
ASSUME MaxSessionsIsNumber == MaxSessions \in Nat
ASSUME PastedIsNoUpload == Pasted \notin UploadIds

VARIABLES
  accounts,   \* the users that signed up (UserStore)
  sessions,   \* user -> number of live session tokens (SessionStore)
  content,    \* upload -> what was sent under this identifier, or None
  sender,     \* upload -> the user who sent it, or None
  file,       \* upload -> what is on disk: None, "PARTIAL" or "WHOLE"
  record,     \* upload -> its UploadRecord, or None
  sidecar,    \* upload -> the text in its .evidence.txt file, or None
  intake      \* run -> how far its background task is

vars == <<accounts, sessions, content, sender, file, record, sidecar, intake>>
userVars == <<accounts, sessions>>
uploadVars == <<content, sender, file, record>>

Records == [owner : Users, kind : {"artifact", "evidence"}]
(* A text: what it is the text of, and how much of it.                      *)
Texts == [of : Items, amount : Amounts]

ASSUME NoneIsNothing == None \notin Contents \cup Records \cup Texts

(* An evidence document: the item it was made for, and its text.            *)
Documents == [item : Items, text : Texts]

(* The steps of the background task: before an item; waiting for the        *)
(* service to convert (ASKED) and to write the text file (WRITING), in the  *)
(* plain pass or after OCR; about to read that file; with the text in hand; *)
(* handed to the pipeline; failed.                                          *)
Steps == {"READY", "ASKED", "WRITING", "WRITTEN", "READ", "HANDED", "FAILED"}
Passes == {"PLAIN", "OCR"}

Intakes ==
  [owner : Users, artifact : UploadIds, items : Seq(Items),
   docs : Seq(Documents), step : Steps, pass : Passes,
   text : Texts \cup {None}, pdf : Contents \cup {None}]

Init ==
  /\ accounts = {}
  /\ sessions = [u \in Users |-> 0]
  /\ content = [id \in UploadIds |-> None]
  /\ sender = [id \in UploadIds |-> None]
  /\ file = [id \in UploadIds |-> None]
  /\ record = [id \in UploadIds |-> None]
  /\ sidecar = [id \in UploadIds |-> None]
  /\ intake = [r \in Runs |-> None]

-----------------------------------------------------------------------------
(* Accounts and sessions.                                                   *)

SignedIn(u) == sessions[u] > 0

(* POST /api/auth/signup: an address is registered once, and its user is    *)
(* signed in.                                                               *)
Signup(u) ==
  /\ u \notin accounts
  /\ accounts' = accounts \cup {u}
  /\ sessions' = [sessions EXCEPT ![u] = @ + 1]
  /\ UNCHANGED <<uploadVars, sidecar, intake>>

(* POST /api/auth/login: one more session, the older ones stay.             *)
Login(u) ==
  /\ u \in accounts
  /\ sessions[u] < MaxSessions
  /\ sessions' = [sessions EXCEPT ![u] = @ + 1]
  /\ UNCHANGED <<accounts, uploadVars, sidecar, intake>>

FaultyLogout(u) ==
  /\ u \in accounts
  /\ sessions' = [sessions EXCEPT ![u] = IF @ > 0 THEN 0 ELSE @ - 1]
  /\ UNCHANGED <<accounts, uploadVars, sidecar, intake>>

(* POST /api/auth/logout: the session of this browser ends, and no other.   *)
Logout(u) ==
  /\ SignedIn(u)
  /\ sessions' = [sessions EXCEPT ![u] = @ - 1]
  /\ UNCHANGED <<accounts, uploadVars, sidecar, intake>>

-----------------------------------------------------------------------------
(* Uploads.                                                                 *)

FaultySaveUpload(u, id) ==
  /\ u \in accounts /\ content[id] = None
  /\ \E c \in Contents, kind \in {"artifact", "evidence"},
        written \in {"PARTIAL", "WHOLE"} :
       /\ content' = [content EXCEPT ![id] = c]
       /\ sender' = [sender EXCEPT ![id] = u]
       /\ file' = [file EXCEPT ![id] = written]
       /\ record' = [record EXCEPT ![id] = [owner |-> u, kind |-> kind]]
  /\ UNCHANGED <<userVars, sidecar, intake>>

(* POST /api/uploads after file.read(), which is awaited: the session was   *)
(* checked before it and may have ended since, so all that is known of the  *)
(* user is the account.  A fresh identifier is drawn, the file written,     *)
(* then the record stored; when writing fails (HTTP 500) some of the file   *)
(* stays behind without a record.                                           *)
SaveUpload(u, id) ==
  /\ u \in accounts /\ content[id] = None
  /\ \E c \in Contents, kind \in {"artifact", "evidence"},
        written \in {"PARTIAL", "WHOLE"} :
       /\ content' = [content EXCEPT ![id] = c]
       /\ sender' = [sender EXCEPT ![id] = u]
       /\ file' = [file EXCEPT ![id] = written]
       /\ record' = IF written = "WHOLE"
                    THEN [record EXCEPT ![id] = [owner |-> u, kind |-> kind]]
                    ELSE record
  /\ UNCHANGED <<userVars, sidecar, intake>>

FaultyMayUse(u, id) == record[id] # None

(* UploadStore.get, and the comparison of the owner every handler makes.    *)
MayUse(u, id) == record[id] # None /\ record[id].owner = u

(* DELETE /api/uploads/{id}: the file and the record go; a text extracted   *)
(* from the file stays.                                                     *)
DeleteUpload(u, id) ==
  /\ SignedIn(u)
  /\ MayUse(u, id)
  /\ file' = [file EXCEPT ![id] = None]
  /\ record' = [record EXCEPT ![id] = None]
  /\ UNCHANGED <<userVars, content, sender, sidecar, intake>>

-----------------------------------------------------------------------------
(* Document runs.                                                           *)

(* POST /api/runs/document: the document and every uploaded item must be    *)
(* the user's own; their paths are kept for the background task.            *)
StartDocumentRun(u, r) ==
  /\ SignedIn(u)
  /\ intake[r] = None
  /\ \E artifact \in UploadIds, items \in ItemLists :
       /\ MayUse(u, artifact) /\ record[artifact].kind = "artifact"
       /\ \A i \in DOMAIN items : items[i] # Pasted => MayUse(u, items[i])
       /\ intake' = [intake EXCEPT ![r] =
            [owner |-> u, artifact |-> artifact, items |-> items, docs |-> <<>>,
             step |-> "READY", pass |-> "PLAIN", text |-> None, pdf |-> None]]
  /\ UNCHANGED <<userVars, uploadVars, sidecar>>

At(r, step) == intake[r] # None /\ intake[r].step = step

HasNext(r) == Len(intake[r].docs) < Len(intake[r].items)
NextItem(r) == intake[r].items[Len(intake[r].docs) + 1]

Goes(r, step) == intake' = [intake EXCEPT ![r].step = step]

(* The task ends, and what it had gathered is gone.                         *)
Fails(r) ==
  intake' = [intake EXCEPT ![r].step = "FAILED", ![r].pass = "PLAIN",
               ![r].text = None, ![r].items = <<>>, ![r].docs = <<>>]

(* The document of the next item is ready.                                  *)
AddDocument(r, text) ==
  intake' = [intake EXCEPT ![r].step = "READY", ![r].pass = "PLAIN",
               ![r].text = None,
               ![r].docs = Append(@, [item |-> NextItem(r), text |-> text])]

(* A pasted text, or a text file that is still there, needs no service.     *)
TakeText(r) ==
  /\ At(r, "READY") /\ HasNext(r)
  /\ \/ NextItem(r) = Pasted
     \/ /\ NextItem(r) \in UploadIds
        /\ content[NextItem(r)].form = "txt" /\ file[NextItem(r)] = "WHOLE"
  /\ AddDocument(r, [of |-> NextItem(r), amount |-> "WHOLE"])
  /\ UNCHANGED <<userVars, uploadVars, sidecar>>

(* The bytes of the next PDF are read and sent to the document service.     *)
AskService(r) ==
  /\ At(r, "READY") /\ HasNext(r)
  /\ NextItem(r) \in UploadIds
  /\ content[NextItem(r)].form = "pdf" /\ file[NextItem(r)] = "WHOLE"
  /\ intake' = [intake EXCEPT ![r].step = "ASKED"]
  /\ UNCHANGED <<userVars, uploadVars, sidecar>>

FaultySidecarOf(id) == CHOOSE any \in UploadIds : TRUE

(* with_suffix(".evidence.txt") of a path that starts with the identifier:  *)
(* the text file belongs to the upload, not to the run.                      *)
SidecarOf(id) == id

(* The service's process, in its own time, empties the file ...             *)
ServiceOpens(r) ==
  /\ At(r, "ASKED")
  /\ Goes(r, "WRITING")
  /\ sidecar' = [sidecar EXCEPT
       ![SidecarOf(NextItem(r))] = [of |-> NextItem(r), amount |-> "BLANK"]]
  /\ UNCHANGED <<userVars, uploadVars>>

(* ... and writes the text layer of the PDF or, in the second pass, what it *)
(* recognised, which may be nothing more.                                   *)
ServiceWrites(r) ==
  /\ At(r, "WRITING")
  /\ Goes(r, "WRITTEN")
  /\ LET layer == content[NextItem(r)].layer
     IN \E amount \in {layer} \cup (IF intake[r].pass = "OCR" THEN {"WHOLE"} ELSE {}) :
          sidecar' = [sidecar EXCEPT
            ![SidecarOf(NextItem(r))] = [of |-> NextItem(r), amount |-> amount]]
  /\ UNCHANGED <<userVars, uploadVars>>

FaultyEnough(text, id) == TRUE

(* Both density tests count characters per page, and the pages are counted  *)
(* in the file: one page, once the file is gone.                            *)
Enough(text, id) ==
  text.amount = "WHOLE" \/ (text.amount = "FAINT" /\ file[id] = None)

(* The text file is read, whoever wrote it last.  A sparse text of the      *)
(* first pass has the service recognise the pages.                          *)
ReadText(r) ==
  /\ At(r, "WRITTEN")
  /\ LET text == sidecar[SidecarOf(NextItem(r))]
     IN IF intake[r].pass = "OCR" \/ Enough(text, NextItem(r))
        THEN intake' = [intake EXCEPT ![r].step = "READ", ![r].text = text]
        ELSE intake' = [intake EXCEPT ![r].step = "ASKED", ![r].pass = "OCR"]
  /\ UNCHANGED <<userVars, uploadVars, sidecar>>

(* The quality gate, after the service's process has ended.                 *)
BuildDocument(r) ==
  /\ At(r, "READ")
  /\ IF Enough(intake[r].text, NextItem(r))
     THEN AddDocument(r, intake[r].text)
     ELSE Fails(r)
  /\ UNCHANGED <<userVars, uploadVars, sidecar>>

(* run_from_document copies the uploaded document to the run's own path,    *)
(* and the pipeline starts on the copy.                                     *)
HandOver(r) ==
  /\ At(r, "READY") /\ ~HasNext(r)
  /\ LET artifact == intake[r].artifact
     IN /\ file[artifact] = "WHOLE"
        /\ intake' = [intake EXCEPT ![r].step = "HANDED",
                                    ![r].pdf = content[artifact]]
  /\ UNCHANGED <<userVars, uploadVars, sidecar>>

(* Any exception of the background task: a file that is gone, a failing     *)
(* service, a provider that is not configured.                              *)
FailRun(r) ==
  /\ intake[r] # None /\ intake[r].step \notin {"HANDED", "FAILED"}
  /\ Fails(r)
  /\ UNCHANGED <<userVars, uploadVars, sidecar>>

-----------------------------------------------------------------------------
Account(u) == Signup(u) \/ Login(u) \/ Logout(u)

Background(r) ==
  \/ TakeText(r) \/ AskService(r) \/ ServiceOpens(r) \/ ServiceWrites(r)
  \/ ReadText(r) \/ BuildDocument(r) \/ HandOver(r) \/ FailRun(r)

Next ==
  \/ \E u \in Users :
       \/ Account(u)
       \/ \E id \in UploadIds : SaveUpload(u, id) \/ DeleteUpload(u, id)
       \/ \E r \in Runs : StartDocumentRun(u, r)
  \/ \E r \in Runs : Background(r)

Spec == Init /\ [][Next]_vars

-----------------------------------------------------------------------------
(* Properties.                                                              *)

(* Every variable keeps to its type; an intake never has more documents     *)
(* than items.                                                              *)
TypeOK ==
  /\ accounts \subseteq Users
  /\ sessions \in [Users -> Nat]
  /\ content \in [UploadIds -> Contents \cup {None}]
  /\ sender \in [UploadIds -> Users \cup {None}]
  /\ file \in [UploadIds -> {None, "PARTIAL", "WHOLE"}]
  /\ record \in [UploadIds -> Records \cup {None}]
  /\ sidecar \in [UploadIds -> Texts \cup {None}]
  /\ intake \in [Runs -> Intakes \cup {None}]

(* Nothing of another user reaches a run, whatever is uploaded, deleted and *)
(* extracted in between: its document and every text it takes as evidence   *)
(* come from what the user who started it has sent.                         *)
EvidenceIsOwn ==
  \A r \in Runs : intake[r] # None =>
    LET run == intake[r]
    IN /\ sender[run.artifact] = run.owner
       /\ \A i \in DOMAIN run.docs :
            run.docs[i].text.of # Pasted => sender[run.docs[i].text.of] = run.owner

(* A run that reaches the pipeline took every item, in its order, and the   *)
(* whole text of each, although other runs empty and rewrite the file it    *)
(* reads the text from; and it verifies the document that was uploaded.     *)
(* The exception is an upload deleted while it was read: without the file   *)
(* the pages are not counted, and a scanner's stamp passes for the text.    *)
NothingIsLeftOut ==
  \A r \in Runs : At(r, "HANDED") =>
    LET run == intake[r]
    IN /\ run.pdf = content[run.artifact] /\ run.pdf # None
       /\ Len(run.docs) = Len(run.items)
       /\ \A i \in DOMAIN run.docs :
            /\ run.docs[i].item = run.items[i]
            /\ run.docs[i].text.of = run.items[i]
            /\ \/ run.docs[i].text.amount = "WHOLE"
               \/ run.items[i] # Pasted /\ file[run.items[i]] = None

(* What the user sees in the list of uploads is there, in full, and theirs; *)
(* a save that failed is not listed.                                        *)
RecordsHaveFiles ==
  \A id \in UploadIds : record[id] # None =>
    /\ file[id] = "WHOLE"
    /\ content[id] # None
    /\ sender[id] = record[id].owner

(* An upload stays as it was sent until its owner, signed in, deletes it.   *)
UploadsAreTheirOwners ==
  [][\A id \in UploadIds : record[id] # None /\ record'[id] # record[id] =>
       /\ record'[id] = None /\ file'[id] = None
       /\ SignedIn(record[id].owner)]_vars
=============================================================================
