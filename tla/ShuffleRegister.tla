-------------------------- MODULE ShuffleRegister --------------------------
(***************************************************************************)
(* ShuffleRegister.cs: a shift register as a ring.  The cells stay where   *)
(* they are; pushing at an end moves the two indexes, which wrap.  The     *)
(* delay line of the cipher reads it at fixed indexes and pushes at the    *)
(* head, and both sides of a session must see the same row of cells.       *)
(***************************************************************************)
EXTENDS Integers, Sequences

CONSTANTS Value,    \* what a cell holds
          Default,  \* default(TDataType)
          Size,     \* number of cells
          Filling   \* the values SetFilling is called with

ASSUME SizeAssumption    == Size \in Nat \ {0}
ASSUME ValueAssumption   == Default \in Value
ASSUME FillingAssumption == \A f \in Filling : /\ Len(f) \in Nat
                                               /\ \A i \in 1 .. Len(f) : f[i] \in Value

Index == 0 .. Size - 1

VARIABLES Counts, headCountIndex, tailCountIndex

vars == <<Counts, headCountIndex, tailCountIndex>>

\* The constructor and SetFilling, which the delay line's constructor calls: values
\* beyond the size are dropped, cells beyond the values keep the default.
Filled(f) == [i \in Index |-> IF i < Len(f) THEN f[i + 1] ELSE Default]

Init == /\ \E f \in Filling : Counts = Filled(f)
        /\ headCountIndex = 0
        /\ tailCountIndex = Size - 1

\* Mutant: the value is put over the head.
AppendCountOverHead(v) ==
   /\ Counts' = [Counts EXCEPT ![headCountIndex] = v]
   /\ headCountIndex' = tailCountIndex
   /\ tailCountIndex' = IF tailCountIndex - 1 < 0 THEN tailCountIndex - 1 + Size
                                                  ELSE tailCountIndex - 1

AppendCountToTail(v) ==
   LET wrap(i) == IF i = Size THEN i - Size ELSE i IN
   /\ Counts' = [Counts EXCEPT ![headCountIndex] = v]
   /\ headCountIndex' = wrap(headCountIndex + 1)
   /\ tailCountIndex' = wrap(tailCountIndex + 1)

AppendCountToHead(v) ==
   /\ Counts' = [Counts EXCEPT ![tailCountIndex] = v]
   /\ headCountIndex' = tailCountIndex
   /\ tailCountIndex' = IF tailCountIndex - 1 < 0 THEN tailCountIndex - 1 + Size
                                                  ELSE tailCountIndex - 1

Next == \E v \in Value : AppendCountToTail(v) \/ AppendCountToHead(v)

Spec == Init /\ [][Next]_vars

-----------------------------------------------------------------------------
\* GetcountByIndex.  The loop stops below 2 * Size, not below Size.
Reduced(index) == IF index < 2 * Size THEN index ELSE Size + (index % Size)

RealMassIndex(index) == IF headCountIndex + Reduced(index) >= Size
                        THEN headCountIndex + Reduced(index) - Size
                        ELSE headCountIndex + Reduced(index)

GetcountByIndex(index) == Counts[RealMassIndex(index)]

GetCountsAsArray == [i \in Index |-> GetcountByIndex(i)]

-----------------------------------------------------------------------------
\* The type invariant.
TypeOK == /\ Counts \in [Index -> Value]
          /\ headCountIndex \in Index
          /\ tailCountIndex \in Index

\* The tail is the cell before the head, around the ring.
Adjacent == tailCountIndex = IF headCountIndex = 0 THEN Size - 1 ELSE headCountIndex - 1

\* No read below the size leaves the array, which would end the connection in its
\* exception handler.
ReadsInside == \A i \in Index : RealMassIndex(i) \in Index

\* Read from the head on, the ring is a row of cells pushed from its ends.
Shift == INSTANCE ShiftRegister WITH cells <- GetCountsAsArray
ShiftSpec == Shift!Spec
=============================================================================
