---------------------------- MODULE MCLoginFlow ----------------------------
(* LoginFlow with the bounds of the .cfg files; it has no other constants. *)
EXTENDS LoginFlow
=============================================================================
