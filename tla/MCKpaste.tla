------------------------------ MODULE MCKpaste ------------------------------
(***************************************************************************)
(* Kpaste on small sets: two names with one key and the empty name with    *)
(* another, and two passwords of which one is a prefix of the other.       *)
(***************************************************************************)
EXTENDS Kpaste, TLC

CONSTANTS static, bob, empty, short, hello

MCHash == (static :> 1) @@ (bob :> 1) @@ (empty :> 2)
MCPrefix == {<<p, p>> : p \in Pass} \cup {<<short, static>>}
Renamings == Permutations(Conn)
=============================================================================
