--------------------------- MODULE SenderPromise ---------------------------
(***************************************************************************)
(* What an executor of actions promises its caller, call by call: a live   *)
(* call dispatches at most once, only while it runs, and reports success   *)
(* only if it did; a call that reports failure may have dispatched all the *)
(* same; a refused or simulated call dispatches nothing.  RunControl's     *)
(* send takes its outcome from this promise.                               *)
(***************************************************************************)

VARIABLES
  sending,     \* a live call is running
  dispatched,  \* the last call has dispatched its document
  outcome      \* what the last call reported, "NONE" while it runs

vars == <<sending, dispatched, outcome>>

Init ==
  /\ sending = FALSE
  /\ dispatched = FALSE
  /\ outcome = "NONE"

Begin ==
  /\ ~sending
  /\ sending' = TRUE
  /\ dispatched' = FALSE
  /\ outcome' = "NONE"

Decline ==
  /\ ~sending
  /\ outcome' \in {"REFUSED", "SIMULATED"}
  /\ dispatched' = FALSE
  /\ UNCHANGED sending

Succeed ==
  /\ sending
  /\ ~dispatched
  /\ sending' = FALSE
  /\ dispatched' = TRUE
  /\ outcome' = "EXECUTED"

Fail ==
  /\ sending
  /\ ~dispatched
  /\ sending' = FALSE
  /\ dispatched' \in BOOLEAN
  /\ outcome' = "FAILED"

Next == Begin \/ Decline \/ Succeed \/ Fail

Spec == Init /\ [][Next]_vars
=============================================================================
