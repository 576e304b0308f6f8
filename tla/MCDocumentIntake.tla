-------------------------- MODULE MCDocumentIntake --------------------------
(***************************************************************************)
(* An instance of DocumentIntake for TLC.                                  *)
(***************************************************************************)
EXTENDS DocumentIntake, TLC

MCContents ==
  {[form |-> "pdf", layer |-> "FAINT"], [form |-> "pdf", layer |-> "WHOLE"],
   [form |-> "txt", layer |-> "WHOLE"]}

(* A pasted text and an upload, or two uploads in either order.             *)
MCItemLists ==
  {<<Pasted, id>> : id \in UploadIds}
    \cup {p \in UploadIds \X UploadIds : p[1] # p[2]}

(* Nothing orders uploads, runs or users.                                   *)
MCSymmetry == Permutations(UploadIds) \cup Permutations(Runs) \cup Permutations(Users)
=============================================================================
