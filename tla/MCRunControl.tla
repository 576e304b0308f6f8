---------------------------- MODULE MCRunControl ----------------------------
(***************************************************************************)
(* Instances of RunControl, and of RunAudit over it, for TLC.  Every       *)
(* counter of the model is bounded by the code itself (one pipeline, one   *)
(* send and one search per claim for a run), so no state constraint is     *)
(* needed.                                                                 *)
(***************************************************************************)
EXTENDS RunAudit, TLC

CONSTANTS party, amount, other

MCEvidenceSets == SUBSET Claims

(* PDF contents are interchangeable: nothing orders them.                  *)
ContentSymmetry == Permutations(Contents)
=============================================================================
