--------------------------- MODULE ActionDispatch ---------------------------
(***************************************************************************)
(* A proposed action from its approval to its execution: the canonical     *)
(* hash an approval is bound to (actions/models.py, authorization.py), the *)
(* executors and the registry (adapters.py, registry.py), and the requests *)
(* of the live executor to the e-signature service                         *)
(* (integrations/foxit_esign.py), any of which may fail before or after it *)
(* took effect, while other processes write the file to be signed.         *)
(*                                                                         *)
(* The caller is the one of redteam/runner.py: it executes an action with  *)
(* an executor of its choice, if the approval is valid for it, and may     *)
(* change the action at any time before.  target stands for every field    *)
(* without a rule of its own: description, actor, policy version.          *)
(***************************************************************************)
EXTENDS Naturals, Sequences, SequencesExt

CONSTANTS
  Proposals,    \* actions as create_proposed_action makes them
  Ids,          \* their identifiers
  Types,        \* action types, members of ActionTypes
  Targets, Blank,        \* targets, one of which is only blanks
  ParameterSets,         \* parameters: functions from names to values
  ArtifactLists,         \* sequences of PDF hashes
  Hashes, None,          \* evidence and profile hashes
  Files, Pdfs,           \* contents of the file, and those that are PDFs
  RefusalReplies,        \* what the service answers when nothing took effect
  MaxEdits, MaxCalls     \* bounds

ASSUME PdfsAreFiles == Pdfs \subseteq Files /\ None \notin Files
ASSUME ArtifactsAreHashes == ArtifactLists \subseteq Seq(Hashes)
(* An assumption about the service, not about the code: a request that took *)
(* no effect is not answered with an HTTP success.  For _send_draft looks   *)
(* at the HTTP status only, so that a 200 whose body says that the folder   *)
(* was not sent would be reported as EXECUTED.                              *)
ASSUME RefusalsAreTold == RefusalReplies \subseteq {"ERROR", "LOST"}
ASSUME BoundsAreNumbers == MaxEdits \in Nat /\ MaxCalls \in Nat

VARIABLES
  action,      \* the action in the caller's hands
  approval,    \* the approval record's binding, None before
  approved,    \* the action as it was approved, None before
  edits,       \* number of changes to the action
  configured,  \* the latch, the credentials and the signer are right
  file,        \* content of the file to be signed, None when it is missing
  step,        \* the request the live executor makes next, or "IDLE"
  calls,       \* every execute() so far: the action and the executor
  folders,     \* the folders the service holds: call, document, dispatched
  results      \* what each call reported

vars == <<action, approval, approved, edits, configured, file, step, calls,
          folders, results>>

-----------------------------------------------------------------------------
(* Authorization.                                                           *)

ActionTypes == {"SIGN_DOCUMENT", "SEND_EMAIL", "DEPLOY_SOFTWARE",
                "EXECUTE_PURCHASE", "EXECUTE_PAYMENT", "DATABASE_WRITE"}

ASSUME TypesAreActionTypes == Types \subseteq ActionTypes

RiskOf(type) ==
  IF type \in {"SIGN_DOCUMENT", "EXECUTE_PAYMENT", "EXECUTE_PURCHASE"} THEN "IRREVERSIBLE"
  ELSE IF type = "SEND_EMAIL" THEN "MODERATE" ELSE "HIGH"

Risks == {"LOW", "MODERATE", "HIGH", "IRREVERSIBLE"}

Actions ==
  [id : Ids, type : Types, target : Targets, risk : Risks, parameters : ParameterSets,
   artifacts : ArtifactLists, evidence : Hashes \cup {None}, profile : Hashes \cup {None},
   created : {0, 1}]

(* create_proposed_action takes the risk from the table.                    *)
ASSUME ProposalsAreActions ==
  /\ Proposals \subseteq Actions
  /\ \A a \in Proposals : a.risk = RiskOf(a.type)

(* CAPABILITY_REGISTRY, and get_executor.                                   *)
IsLive(type) == type = "SIGN_DOCUMENT"

FaultyExecutorFor(type) ==
  IF RiskOf(type) = "IRREVERSIBLE" THEN "FOXIT" ELSE "SIMULATED"

ExecutorFor(type) == IF type = "SIGN_DOCUMENT" THEN "FOXIT" ELSE "SIMULATED"

(* REQUIREMENT_CHECKS: what keeps authorize_action from READY_FOR_APPROVAL. *)
Missing(a, names) == names \ DOMAIN a.parameters

RequirementBlockers(a) ==
  CASE a.type = "SIGN_DOCUMENT" ->
         (IF a.artifacts = <<>> THEN {"ARTIFACT_HASH"} ELSE {})
           \cup (IF a.evidence = None THEN {"EVIDENCE_HASH"} ELSE {})
           \cup (IF a.profile = None THEN {"POLICY_PROFILE"} ELSE {})
    [] a.type = "EXECUTE_PAYMENT" ->
         Missing(a, {"amount", "destination"})
           \cup (IF a.evidence = None THEN {"AUTHORITATIVE_EVIDENCE"} ELSE {})
    [] a.type = "DEPLOY_SOFTWARE" ->
         Missing(a, {"revision", "environment"})
           \cup (IF /\ "environment" \in DOMAIN a.parameters
                    /\ a.parameters["environment"] = "production"
                    /\ "human_approved_production" \notin DOMAIN a.parameters
                 THEN {"PRODUCTION_APPROVAL"} ELSE {})
    [] OTHER -> IF a.target = Blank THEN {"TARGET"} ELSE {}

FaultyCanonical(a) ==
  [id |-> a.id, type |-> a.type, target |-> a.target, risk |-> a.risk,
   parameters |-> a.parameters, evidence |-> a.evidence, profile |-> a.profile]

FaultyUnsortedCanonical(a) ==
  [id |-> a.id, type |-> a.type, target |-> a.target, risk |-> a.risk,
   parameters |-> a.parameters, artifacts |-> a.artifacts,
   evidence |-> a.evidence, profile |-> a.profile]

(* canonical_action_json stands for its hash: every field but the time of   *)
(* creation, with the artifact hashes in sorted order.                      *)
Canonical(a) ==
  [id |-> a.id, type |-> a.type, target |-> a.target, risk |-> a.risk,
   parameters |-> a.parameters, artifacts |-> ToBag(a.artifacts),
   evidence |-> a.evidence, profile |-> a.profile]

BindingOf(a) == [id |-> a.id, type |-> a.type, hash |-> Canonical(a)]

IsApprovalValid(binding, a) == binding = BindingOf(a)

-----------------------------------------------------------------------------
(* The caller.                                                              *)

Init ==
  /\ action \in Proposals
  /\ approval = None
  /\ approved = None
  /\ edits = 0
  /\ configured \in BOOLEAN
  /\ file \in Files
  /\ step = "IDLE"
  /\ calls = <<>>
  /\ folders = <<>>
  /\ results = <<>>

Approve ==
  /\ step = "IDLE"
  /\ approval' = BindingOf(action)
  /\ approved' = action
  /\ UNCHANGED <<action, edits, configured, file, step, calls, folders, results>>

(* model_copy(update=...) validates nothing: a swapped type keeps the risk  *)
(* of the old one.  Parameters may also be changed in place.                *)
Edit ==
  /\ step = "IDLE"
  /\ edits < MaxEdits
  /\ edits' = edits + 1
  /\ \/ \E t \in Types : action' = [action EXCEPT !.type = t]
     \/ \E t \in Targets : action' = [action EXCEPT !.target = t]
     \/ \E p \in ParameterSets : action' = [action EXCEPT !.parameters = p]
     \/ \E l \in ArtifactLists : action' = [action EXCEPT !.artifacts = l]
     \/ \E h \in Hashes \cup {None} : action' = [action EXCEPT !.evidence = h]
     \/ \E h \in Hashes \cup {None} : action' = [action EXCEPT !.profile = h]
     \/ action' = [action EXCEPT !.created = 1 - @]
  /\ UNCHANGED <<approval, approved, configured, file, step, calls, folders, results>>

FoxitAccepts(a) == a.type = "SIGN_DOCUMENT" /\ IsLive(a.type)

SimulatorAccepts(a) == ~IsLive(a.type)

Report(status) == results' = Append(results, status)

(* execute() of either executor: the wrong one raises ActionExecutionError. *)
Execute(executor) ==
  /\ step = "IDLE"
  /\ Len(calls) < MaxCalls
  /\ approval # None /\ IsApprovalValid(approval, action)
  /\ calls' = Append(calls, [action |-> action, executor |-> executor])
  /\ \/ /\ executor = "FOXIT" /\ FoxitAccepts(action)
        /\ step' = "VALIDATE"
        /\ UNCHANGED results
     \/ /\ executor = "SIMULATED" /\ SimulatorAccepts(action)
        /\ Report("SIMULATED")
        /\ UNCHANGED step
     \/ /\ ~(executor = "FOXIT" /\ FoxitAccepts(action))
        /\ ~(executor = "SIMULATED" /\ SimulatorAccepts(action))
        /\ Report("REFUSED")
        /\ UNCHANGED step
  /\ UNCHANGED <<action, approval, approved, edits, configured, file, folders>>

-----------------------------------------------------------------------------
(* The live executor.  Any exception of it reaches the caller as a failure. *)

(* What the service may answer, by whether the request took effect: an      *)
(* effect may be answered by a body that cannot be used, or not at all.     *)
(* OK and UNUSABLE have a successful HTTP status (see RefusalsAreTold).     *)
Replies(effect) == IF effect THEN {"OK", "UNUSABLE", "LOST"} ELSE RefusalReplies

FaultyFailCall == step' = "IDLE" /\ UNCHANGED <<results, folders>>

FailCall == step' = "IDLE" /\ Report("FAILED") /\ UNCHANGED folders

(* The latch, the credentials, the signer and the file are looked at before *)
(* anything is sent.                                                        *)
Validate ==
  /\ step = "VALIDATE"
  /\ IF configured /\ file \in Pdfs
     THEN step' = "TOKEN" /\ UNCHANGED <<folders, results>>
     ELSE FailCall
  /\ UNCHANGED <<action, approval, approved, edits, configured, file, calls>>

GetAccessToken ==
  /\ step = "TOKEN"
  /\ \E reply \in Replies(TRUE) \cup Replies(FALSE) :
       IF reply = "OK" THEN step' = "DRAFT" /\ UNCHANGED <<folders, results>>
                       ELSE FailCall
  /\ UNCHANGED <<action, approval, approved, edits, configured, file, calls>>

Draft == [call |-> Len(calls), document |-> file, sent |-> FALSE]

FaultyCreateDraft ==
  /\ step = "DRAFT"
  /\ \/ file = None /\ FailCall
     \/ /\ file # None
        /\ \E effect \in BOOLEAN : \E reply \in Replies(effect) :
             /\ folders' = IF effect THEN Append(folders, Draft) ELSE folders
             /\ IF reply = "LOST" THEN UNCHANGED <<step, results>>
                ELSE IF reply = "OK" THEN step' = "SEND" /\ UNCHANGED results
                     ELSE step' = "IDLE" /\ Report("FAILED")
  /\ UNCHANGED <<action, approval, approved, edits, configured, file, calls>>

(* The file is read again, whatever it holds now.  A draft whose identifier *)
(* is not learned stays in the service, unsent.                             *)
CreateDraft ==
  /\ step = "DRAFT"
  /\ \/ file = None /\ FailCall
     \/ /\ file # None
        /\ \E effect \in BOOLEAN : \E reply \in Replies(effect) :
             /\ folders' = IF effect THEN Append(folders, Draft) ELSE folders
             /\ IF reply = "OK" THEN step' = "SEND" /\ UNCHANGED results
                                ELSE step' = "IDLE" /\ Report("FAILED")
  /\ UNCHANGED <<action, approval, approved, edits, configured, file, calls>>

FaultySendIsAccepted(reply) == reply # "LOST"

(* Only the HTTP status of this answer is looked at.                        *)
SendIsAccepted(reply) == reply \in {"OK", "UNUSABLE"}

SendDraft ==
  /\ step = "SEND"
  /\ step' = "IDLE"
  /\ \E effect \in BOOLEAN : \E reply \in Replies(effect) :
       /\ folders' = IF effect THEN [folders EXCEPT ![Len(folders)].sent = TRUE]
                     ELSE folders
       /\ Report(IF SendIsAccepted(reply) THEN "EXECUTED" ELSE "FAILED")
  /\ UNCHANGED <<action, approval, approved, edits, configured, file, calls>>

(* Other processes write or remove the file.                                *)
FileChanges ==
  /\ file' \in Files \cup {None}
  /\ file' # file
  /\ UNCHANGED <<action, approval, approved, edits, configured, step, calls,
                 folders, results>>

Next ==
  \/ Approve \/ Edit \/ FileChanges
  \/ \E executor \in {"FOXIT", "SIMULATED"} : Execute(executor)
  \/ Validate \/ GetAccessToken \/ CreateDraft \/ SendDraft

Spec == Init /\ [][Next]_vars

-----------------------------------------------------------------------------
(* Properties.                                                              *)

CallSteps == {"VALIDATE", "TOKEN", "DRAFT", "SEND"}

(* Every variable keeps to its shape, and every call but the running one    *)
(* has reported.                                                            *)
TypeOK ==
  /\ action \in Actions
  /\ approval # None => approved \in Actions /\ approval = BindingOf(approved)
  /\ step \in CallSteps \cup {"IDLE"}
  /\ configured \in BOOLEAN
  /\ file \in Files \cup {None}
  /\ results \in Seq({"EXECUTED", "SIMULATED", "REFUSED", "FAILED"})
  /\ calls \in Seq([action : Actions, executor : {"FOXIT", "SIMULATED"}])
  /\ Len(calls) = Len(results) + (IF step = "IDLE" THEN 0 ELSE 1)
  /\ folders \in Seq([call : Nat, document : Files, sent : BOOLEAN])

(* An approval that is valid for an action is an approval of that action,   *)
(* however the action was changed in between: the two are about the same    *)
(* documents, each as often, with the same parameters, on the same evidence *)
(* and profile, so that they also meet the same requirements.               *)
ApprovalBindsTheAction ==
  approval # None /\ IsApprovalValid(approval, action) =>
    /\ action.id = approved.id
    /\ action.type = approved.type /\ action.risk = approved.risk
    /\ action.target = approved.target /\ action.parameters = approved.parameters
    /\ ToBag(action.artifacts) = ToBag(approved.artifacts)
    /\ action.evidence = approved.evidence /\ action.profile = approved.profile
    /\ RequirementBlockers(action) = RequirementBlockers(approved)

(* Only what has a meaning is bound: an action that differs from the        *)
(* approved one in the order of its artifacts or in its time of creation    *)
(* keeps the approval.                                                      *)
HarmlessEditsKeepTheApproval ==
  LET Distinct(s) == \A i, j \in DOMAIN s : i # j => s[i] # s[j]
  IN /\ approval # None
     /\ action = [approved EXCEPT !.artifacts = action.artifacts,
                                  !.created = action.created]
     /\ Distinct(action.artifacts) /\ Distinct(approved.artifacts)
     /\ {action.artifacts[i] : i \in DOMAIN action.artifacts}
          = {approved.artifacts[i] : i \in DOMAIN approved.artifacts}
     => IsApprovalValid(approval, action)

(* Only the signature of a document, in a configured system, leaves a trace *)
(* in the service, a call leaves one folder at most, and a folder is only   *)
(* dispatched under the call that made it.                                  *)
OnlySignaturesLeaveATrace ==
  /\ folders # <<>> => configured
  /\ \A i \in DOMAIN folders :
       /\ folders[i].call \in DOMAIN calls
       /\ calls[folders[i].call].action.type = "SIGN_DOCUMENT"
       /\ calls[folders[i].call].executor = "FOXIT"
       /\ \A j \in DOMAIN folders : folders[i].call = folders[j].call => i = j

(* Reports are true of a service that tells refusals (RefusalsAreTold):     *)
(* EXECUTED means that the folder of the call has been                      *)
(* dispatched, SIMULATED and REFUSED that the call left no folder; and the  *)
(* executor get_executor gives for the type of an action does not refuse    *)
(* it, nor simulate what can be executed.                                   *)
ReportsAreTrue ==
  \A k \in DOMAIN results :
    LET ofCall == {i \in DOMAIN folders : folders[i].call = k}
        call == calls[k]
    IN /\ results[k] = "EXECUTED" => \E i \in ofCall : folders[i].sent
       /\ results[k] \in {"SIMULATED", "REFUSED"} => ofCall = {}
       /\ results[k] = "SIMULATED" => ~IsLive(call.action.type)
       /\ results[k] = "REFUSED" => call.executor # ExecutorFor(call.action.type)

(* Every call keeps the promise RunControl relies on (see SenderPromise),   *)
(* if the service tells refusals.                                           *)
Promise == INSTANCE SenderPromise WITH
  sending <- step # "IDLE",
  dispatched <- \E i \in DOMAIN folders :
                  folders[i].call = Len(calls) /\ folders[i].sent,
  outcome <- IF step = "IDLE" /\ results # <<>> THEN results[Len(results)] ELSE "NONE"

ImplementsSenderPromise == Promise!Spec
=============================================================================
