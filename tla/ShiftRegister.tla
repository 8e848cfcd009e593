--------------------------- MODULE ShiftRegister ---------------------------
(***************************************************************************)
(* What StellarAssist's shift register promises: a row of cells that is    *)
(* pushed from either end.                                                 *)
(***************************************************************************)
EXTENDS Integers

CONSTANTS Value, Size

VARIABLE cells

Index == 0 .. Size - 1

Init == cells \in [Index -> Value]

PushFront(v) == cells' = [i \in Index |-> IF i = 0 THEN v ELSE cells[i - 1]]
PushBack(v)  == cells' = [i \in Index |-> IF i = Size - 1 THEN v ELSE cells[i + 1]]

Next == \E v \in Value : PushFront(v) \/ PushBack(v)

Spec == Init /\ [][Next]_cells
=============================================================================
