-------------------------- MODULE MCStellarAssist --------------------------
(***************************************************************************)
(* A bounded instance of StellarAssist: two keys that are cut to one       *)
(* folder, one of another, and "W", which leads to the program's own.      *)
(***************************************************************************)
EXTENDS StellarAssist, TLC

CONSTANTS k1, k2, k3, W, f1, f2, own

MCFolderOf == (k1 :> f1) @@ (k2 :> f1) @@ (k3 :> f2) @@ (W :> own)
MCCommands == {{"GetData"}, {"SetData"}, {"SetCode", "Exit"}, {"GetResult", "SetData"}}
=============================================================================
