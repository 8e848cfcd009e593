-------------------------------- MODULE Md5 --------------------------------
(***************************************************************************)
(* The class MD5 of md5.cpp: a context that takes a message in pieces,     *)
(* transforms it block by block, counts its bits in two words, and pads it *)
(* at the end.  What a block does to the state is a parameter (Md5Rounds   *)
(* is the code's), and so are the sizes, so that the two words' carry can  *)
(* be met with short messages.                                             *)
(***************************************************************************)
EXTENDS Integers, Sequences

CONSTANTS BlockSize,       \* blocksize: bytes in a block (64)
          WordBytes,       \* bytes in a word of the count (4)
          WordValues,      \* 2 to the bits in a word of the count, at most TLC's integers
          Start,           \* the initial state
          Transform(_, _)  \* the state after a block

ASSUME SizesAssumption == /\ BlockSize \in Nat \ {0}
                          /\ WordBytes \in Nat \ {0}
                          /\ BlockSize > 2 * WordBytes
                          /\ WordValues \in Nat /\ WordValues % 8 = 0 /\ WordValues > 0

Cell == 0 .. BlockSize - 1

init == [count |-> <<0, 0>>, state |-> Start, buffer |-> [i \in Cell |-> 0]]

\* memcpy(&buffer[at], bytes).
Copied(buffer, at, bytes) ==
   [i \in Cell |-> IF at <= i /\ i < at + Len(bytes) THEN bytes[i - at + 1] ELSE buffer[i]]

\* The count of bits: the low word wraps and carries.
Counted(count, length) ==
   LET added == (length * 8) % WordValues
       low   == (count[1] + added) % WordValues
       carry == IF low < added THEN 1 ELSE 0
   IN  <<low, (count[2] + carry + (length * 8) \div WordValues) % WordValues>>

\* The whole blocks of the input from byte i on, transformed where they are.
BlockAt(input, i) == [j \in Cell |-> input[i + j + 1]]

TransformedTo(state, input, from, blocks) ==
   LET after[n \in 0 .. blocks] ==
          IF n = 0 THEN state
          ELSE Transform(after[n - 1], BlockAt(input, from + (n - 1) * BlockSize))
   IN  after[blocks]

update(c, input) ==
   LET index     == (c.count[1] \div 8) % BlockSize
       firstpart == BlockSize - index
       blocks    == (Len(input) - firstpart) \div BlockSize
       i         == firstpart + blocks * BlockSize
       filled    == Copied(c.buffer, index, SubSeq(input, 1, firstpart))
   IN  IF Len(input) >= firstpart
       THEN [count  |-> Counted(c.count, Len(input)),
             state  |-> TransformedTo(Transform(c.state, filled), input, firstpart, blocks),
             buffer |-> Copied(filled, 0, SubSeq(input, i + 1, Len(input)))]
       ELSE [count  |-> Counted(c.count, Len(input)),
             state  |-> c.state,
             buffer |-> Copied(c.buffer, index, input)]

\* The bytes of the two words, the lowest first.
Bits(count) == [i \in 1 .. 2 * WordBytes |->
                   (count[((i - 1) \div WordBytes) + 1] \div 256^((i - 1) % WordBytes)) % 256]

Padding(length) == [i \in 1 .. length |-> IF i = 1 THEN 128 ELSE 0]

\* Mutant: a message that ends where the length begins gets no padding.
padLenLate(index) == LET room == BlockSize - 2 * WordBytes
                     IN  IF index <= room THEN room - index ELSE BlockSize + room - index

\* Up to the place of the length, in the next block if it is passed already.
padLen(index) == LET room == BlockSize - 2 * WordBytes
                 IN  IF index < room THEN room - index ELSE BlockSize + room - index

finalize(c) ==
   LET padded == update(c, Padding(padLen((c.count[1] \div 8) % BlockSize)))
   IN  update(padded, Bits(c.count)).state

\* The state that the pieces of a message leave.
DigestOf(pieces) == LET fed[n \in 0 .. Len(pieces)] ==
                           IF n = 0 THEN init ELSE update(fed[n - 1], pieces[n])
                    IN  finalize(fed[Len(pieces)])

-----------------------------------------------------------------------------
\* RFC 1321: the message, one bit, zeros up to the length's place, the length.
PaddedMessage(m) ==
   LET filled == Len(m) + 1 + 2 * WordBytes
       zeros  == (BlockSize - (filled % BlockSize)) % BlockSize
   IN  m \o Padding(1 + zeros)
         \o Bits(<<(8 * Len(m)) % WordValues, ((8 * Len(m)) \div WordValues) % WordValues>>)

Rfc1321(m) == LET padded == PaddedMessage(m)
              IN  TransformedTo(Start, padded, 0, Len(padded) \div BlockSize)
=============================================================================
