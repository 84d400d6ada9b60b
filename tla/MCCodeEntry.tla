---------------------------- MODULE MCCodeEntry ----------------------------
(* CodeEntry with the bounds of the .cfg files; it has no other constants. *)
EXTENDS CodeEntry
=============================================================================
