----------------------- MODULE ShuffleRegisterProofs -----------------------
(***************************************************************************)
(* Proofs about ShuffleRegister, for every size and every kind of cell.    *)
(***************************************************************************)
EXTENDS ShuffleRegister, TLAPS

IInv == TypeOK /\ Adjacent

\* Below the size the loop of GetcountByIndex has nothing to do.
LEMMA NotReduced == \A i \in Index : Reduced(i) = i
BY SizeAssumption DEF Index, Reduced

\* The place in the ring of the cell i steps after place h.
Cell(h, i) == IF h + i >= Size THEN h + i - Size ELSE h + i

\* An index of the register is a cell of the ring, counted from the head.
LEMMA Counted ==
   ASSUME headCountIndex \in Index, NEW i \in Index
   PROVE  RealMassIndex(i) = Cell(headCountIndex, i) /\ RealMassIndex(i) \in Index
BY NotReduced, SizeAssumption DEF Index, RealMassIndex, Cell

\* A fresh register is typed and its tail is the last cell.
LEMMA InitCorrect == Init => IInv
<1>1. \A f \in Filling : Filled(f) \in [Index -> Value]
  BY ValueAssumption, FillingAssumption DEF Filled, Index
<1>2. QED
  BY <1>1, SizeAssumption DEF Init, IInv, TypeOK, Adjacent, Index

\* Both pushes keep the tail before the head.
LEMMA StepCorrect == IInv /\ [Next]_vars => IInv'
<1> SUFFICES ASSUME IInv, [Next]_vars PROVE IInv'
  OBVIOUS
<1> USE SizeAssumption DEF IInv, TypeOK, Adjacent, Index
<1>1. ASSUME NEW v \in Value, AppendCountToTail(v) PROVE IInv'
  <2>1. Counts' \in [Index -> Value]
    BY <1>1 DEF AppendCountToTail
  <2>2. headCountIndex' = IF headCountIndex + 1 = Size THEN 0 ELSE headCountIndex + 1
    BY <1>1 DEF AppendCountToTail
  <2>3. tailCountIndex' = IF tailCountIndex + 1 = Size THEN 0 ELSE tailCountIndex + 1
    BY <1>1 DEF AppendCountToTail
  <2>4. QED
    BY <2>1, <2>2, <2>3
<1>2. ASSUME NEW v \in Value, AppendCountToHead(v) PROVE IInv'
  <2>1. Counts' \in [Index -> Value]
    BY <1>2 DEF AppendCountToHead
  <2>2. /\ headCountIndex' = tailCountIndex
        /\ tailCountIndex' = IF tailCountIndex = 0 THEN Size - 1 ELSE tailCountIndex - 1
    BY <1>2 DEF AppendCountToHead
  <2>3. QED
    BY <2>1, <2>2
<1>3. CASE UNCHANGED vars
  BY <1>3 DEF vars
<1>4. QED
  BY <1>1, <1>2, <1>3 DEF Next

\* Whatever is pushed, the tail stays the cell before the head, around the ring.
THEOREM TailBeforeHead == Spec => []Adjacent
<1>1. IInv => Adjacent
  BY DEF IInv
<1>2. QED
  BY InitCorrect, StepCorrect, <1>1, PTL DEF Spec

\* No read of GetcountByIndex below the size leaves the array.
THEOREM ReadsStayInside == Spec => []ReadsInside
<1>1. IInv => ReadsInside
  BY Counted DEF IInv, TypeOK, ReadsInside
<1>2. QED
  BY InitCorrect, StepCorrect, <1>1, PTL DEF Spec

\* The row that is read is a row of values.
LEMMA RowTyped == TypeOK => GetCountsAsArray \in [Index -> Value]
BY Counted DEF TypeOK, GetCountsAsArray, GetcountByIndex

\* AppendCountToHead pushes the row that is read from the front.
LEMMA HeadPushes ==
   ASSUME IInv, IInv', NEW v \in Value, AppendCountToHead(v)
   PROVE  Shift!PushFront(v)
<1> USE SizeAssumption DEF IInv, TypeOK, Adjacent, Index
<1>1. /\ Counts' = [Counts EXCEPT ![tailCountIndex] = v]
      /\ headCountIndex' = tailCountIndex
  BY DEF AppendCountToHead
<1>2. ASSUME NEW i \in Index
      PROVE  GetcountByIndex(i)' = IF i = 0 THEN v ELSE GetcountByIndex(i - 1)
  <2>1. RealMassIndex(i)' = Cell(headCountIndex', i)
    BY NotReduced DEF RealMassIndex, Cell
  <2>2. CASE i = 0
    <3>1. RealMassIndex(i)' = tailCountIndex
      BY <1>1, <2>1, <2>2 DEF Cell
    <3>2. QED
      BY <1>1, <2>2, <3>1 DEF GetcountByIndex
  <2>3. CASE i # 0
    <3>1. i - 1 \in Index
      BY <2>3
    <3>2. RealMassIndex(i - 1) = Cell(headCountIndex, i - 1) /\ RealMassIndex(i - 1) \in Index
      BY <3>1, Counted
    <3>3. RealMassIndex(i)' = RealMassIndex(i - 1)
      BY <1>1, <2>1, <2>3, <3>2 DEF Cell
    <3>4. RealMassIndex(i - 1) # tailCountIndex
      BY <2>3, <3>1, <3>2 DEF Cell
    <3>5. QED
      BY <1>1, <2>3, <3>2, <3>3, <3>4 DEF GetcountByIndex
  <2>4. QED
    BY <2>2, <2>3
<1>3. GetCountsAsArray' = [i \in Index |-> GetcountByIndex(i)']
  BY DEF GetCountsAsArray
<1>4. \A i \in Index : i # 0 => i - 1 \in Index /\ GetCountsAsArray[i - 1] = GetcountByIndex(i - 1)
  BY DEF GetCountsAsArray
<1>5. QED
  BY <1>2, <1>3, <1>4 DEF Shift!PushFront, Shift!Index

\* AppendCountToTail pushes it from the back.
LEMMA TailPushes ==
   ASSUME IInv, IInv', NEW v \in Value, AppendCountToTail(v)
   PROVE  Shift!PushBack(v)
<1> USE SizeAssumption DEF IInv, TypeOK, Adjacent, Index
<1>1. /\ Counts' = [Counts EXCEPT ![headCountIndex] = v]
      /\ headCountIndex' = IF headCountIndex + 1 = Size THEN 0 ELSE headCountIndex + 1
  BY DEF AppendCountToTail
<1>2. ASSUME NEW i \in Index
      PROVE  GetcountByIndex(i)' = IF i = Size - 1 THEN v ELSE GetcountByIndex(i + 1)
  <2>1. RealMassIndex(i)' = Cell(headCountIndex', i)
    BY NotReduced DEF RealMassIndex, Cell
  <2>2. CASE i = Size - 1
    <3>1. RealMassIndex(i)' = headCountIndex
      BY <1>1, <2>1, <2>2 DEF Cell
    <3>2. QED
      BY <1>1, <2>2, <3>1 DEF GetcountByIndex
  <2>3. CASE i # Size - 1
    <3>1. i + 1 \in Index
      BY <2>3
    <3>2. RealMassIndex(i + 1) = Cell(headCountIndex, i + 1) /\ RealMassIndex(i + 1) \in Index
      BY <3>1, Counted
    <3>3. RealMassIndex(i)' = RealMassIndex(i + 1)
      BY <1>1, <2>1, <2>3, <3>2 DEF Cell
    <3>4. RealMassIndex(i + 1) # headCountIndex
      BY <2>3, <3>1, <3>2 DEF Cell
    <3>5. QED
      BY <1>1, <2>3, <3>2, <3>3, <3>4 DEF GetcountByIndex
  <2>4. QED
    BY <2>2, <2>3
<1>3. GetCountsAsArray' = [i \in Index |-> GetcountByIndex(i)']
  BY DEF GetCountsAsArray
<1>4. \A i \in Index : i # Size - 1 => i + 1 \in Index /\ GetCountsAsArray[i + 1] = GetcountByIndex(i + 1)
  BY DEF GetCountsAsArray
<1>5. QED
  BY <1>2, <1>3, <1>4 DEF Shift!PushBack, Shift!Index

\* The ring implements the shift register: what is read from the head on changes only
\* by pushes from the front and the back, for every size and every values pushed.
THEOREM ImplementsShiftRegister == Spec => ShiftSpec
<1>1. Init => Shift!Init
  BY InitCorrect, RowTyped DEF IInv, Shift!Init, Shift!Index, Index
<1>2. IInv /\ IInv' /\ [Next]_vars => [Shift!Next]_GetCountsAsArray
  <2> SUFFICES ASSUME IInv, IInv', [Next]_vars PROVE [Shift!Next]_GetCountsAsArray
    OBVIOUS
  <2>1. ASSUME NEW v \in Value, AppendCountToTail(v) PROVE Shift!Next
    BY <2>1, TailPushes DEF Shift!Next
  <2>2. ASSUME NEW v \in Value, AppendCountToHead(v) PROVE Shift!Next
    BY <2>2, HeadPushes DEF Shift!Next
  <2>3. CASE UNCHANGED vars
    BY <2>3 DEF vars, GetCountsAsArray, GetcountByIndex, RealMassIndex
  <2>4. QED
    BY <2>1, <2>2, <2>3 DEF Next
<1>3. QED
  BY InitCorrect, StepCorrect, <1>1, <1>2, PTL DEF Spec, ShiftSpec, Shift!Spec
=============================================================================
