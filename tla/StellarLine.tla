---------------------------- MODULE StellarLine ----------------------------
(***************************************************************************)
(* A text's way over a connection of StellarAssist: CryptoPerformer adds   *)
(* the key stream of a delay line, SendData ends the message with a line   *)
(* end, and ReadData takes what has arrived and removes the line ends.     *)
(* Characters are ASCII codes, and so is the key, a number as a text: its  *)
(* stream keeps them so, and UTF-8 changes nothing.                        *)
(***************************************************************************)
EXTENDS Integers, Sequences, Bitwise

CONSTANTS RemovalPoints, \* removalPointIndexes, a sequence
          BuffSize       \* bytes of one read

ASSUME LineAssumption == /\ \A i \in DOMAIN RemovalPoints : RemovalPoints[i] \in 0 .. 21
                         /\ BuffSize \in Nat \ {0}

Ascii == 0 .. 127

LineEnd == <<13, 10>>

-----------------------------------------------------------------------------
\* The delay line's register is a row that is pushed from its head (ShiftRegister), with a
\* cell more than the greatest removal point.
RowSize == 22

Row(key) == [i \in 1 .. RowSize |-> IF i <= Len(key) THEN key[i] ELSE 0]

\* The cells at the removal points, combined in their order.
RECURSIVE Aggregate(_, _)
Aggregate(row, points) ==
   IF points = <<>> THEN 0 ELSE Aggregate(row, Tail(points)) ^^ row[Head(points) + 1]

GetCount(row) == Aggregate(row, RemovalPoints)

Pushed(row, value) == <<value>> \o SubSeq(row, 1, RowSize - 1)

RECURSIVE Stream(_, _)
Stream(row, n) == IF n = 0 THEN <<>>
                  ELSE LET value == GetCount(row)
                       IN  <<value>> \o Stream(Pushed(row, value), n - 1)

\* A performer is made anew for every message.
Perform(key, block) == LET stream == Stream(Row(key), Len(block))
                       IN  [i \in 1 .. Len(block) |-> block[i] ^^ stream[i]]

-----------------------------------------------------------------------------
SendData(data) == data \o LineEnd

\* Mutant: what comes in later reads is not a part of the message.
FirstRead(arrived) == SubSeq(arrived, 1, IF Len(arrived) < BuffSize THEN Len(arrived)
                                                                   ELSE BuffSize)

\* Read after read of BuffSize bytes, until no data is available.
RECURSIVE AllReads(_)
AllReads(arrived) == IF Len(arrived) <= BuffSize THEN arrived
                     ELSE SubSeq(arrived, 1, BuffSize)
                          \o AllReads(SubSeq(arrived, BuffSize + 1, Len(arrived)))

\* Every line end goes, wherever it is.
RECURSIVE Unlined(_)
Unlined(message) == IF Len(message) < 2 THEN message
                    ELSE IF SubSeq(message, 1, 2) = LineEnd THEN Unlined(SubSeq(message, 3, Len(message)))
                    ELSE <<Head(message)>> \o Unlined(Tail(message))

ReadData(arrived) == Unlined(AllReads(arrived))

\* Two messages are sent one behind the other, as SetCode and the code are.  When the first
\* ReadData finds no more data, pause bytes have come; the second one has the rest.
Exchange(key, first, second, pause) ==
   LET sent == SendData(Perform(key, first)) \o SendData(Perform(key, second))
   IN  <<Perform(key, ReadData(SubSeq(sent, 1, pause))),
         Perform(key, ReadData(SubSeq(sent, pause + 1, Len(sent))))>>

-----------------------------------------------------------------------------
HasLineEnd(text) == \E i \in 1 .. Len(text) - 1 : SubSeq(text, i, i + 1) = LineEnd

\* The texts arrive as they were sent if the pause is between them and the cipher made no
\* line end of its own, and only then.
Survives(key, first, second, pause, received) ==
   LET end  == Len(first)
       kept == /\ ~HasLineEnd(Perform(key, first))
               /\ ~HasLineEnd(Perform(key, second))
               /\ pause \in {end, end + 2}
   IN  kept = (received = <<first, second>>)
=============================================================================
