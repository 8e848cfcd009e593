---------------------------- MODULE MCMessenger ----------------------------
(***************************************************************************)
(* Messenger on small sets.  Names and passwords are only compared, so     *)
(* states that differ by a renaming of them are one (safety runs only).    *)
(***************************************************************************)
EXTENDS Messenger, TLC

Renamings == Permutations(User) \cup Permutations(Pass)
=============================================================================
