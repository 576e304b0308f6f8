--------------------------- MODULE AuthorizedSend ---------------------------
(***************************************************************************)
(* What the approval boundary promises, and nothing of how: a run is       *)
(* decided, and decided again while it is open; a READY decision can be    *)
(* sent, once; after that nothing is ever sent for the run.                *)
(***************************************************************************)
EXTENDS WorkflowRun

CONSTANT Runs

VARIABLES
  decision,   \* run -> its current decision, or None
  closed,     \* run -> no send is possible any more
  sent        \* run -> the binding a dispatch was made under, or None

sendVars == <<decision, closed, sent>>

SendInit ==
  /\ decision = [r \in Runs |-> None]
  /\ closed = [r \in Runs |-> FALSE]
  /\ sent = [r \in Runs |-> None]

(* Verification, or a re-evaluation with public evidence.                  *)
Decide(r) ==
  /\ \E d \in Decisions : decision' = [decision EXCEPT ![r] = d]
  /\ UNCHANGED <<closed, sent>>

(* The one attempt: it dispatches what is decided READY, or nothing.       *)
Attempt(r) ==
  /\ ~closed[r]
  /\ decision[r] # None
  /\ decision[r].outcome = "READY_FOR_APPROVAL"
  /\ closed' = [closed EXCEPT ![r] = TRUE]
  /\ \/ sent' = [sent EXCEPT ![r] = decision[r].binding]
     \/ UNCHANGED sent
  /\ UNCHANGED decision

SendNext == \E r \in Runs : Decide(r) \/ Attempt(r)

SendSpec == SendInit /\ [][SendNext]_sendVars
=============================================================================
