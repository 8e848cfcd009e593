------------------------------- MODULE Base64 -------------------------------
(***************************************************************************)
(* The base64 functions of vox.c, by which an archive leaves the service,  *)
(* and what RFC 4648 says they compute.  A byte is a number, a character   *)
(* its ASCII code.                                                         *)
(***************************************************************************)
EXTENDS Integers, Sequences

Byte == 0 .. 255

Equals == 61

encoding_table == [i \in 0 .. 63 |-> CASE i < 26 -> 65 + i
                                       [] 26 <= i /\ i < 52 -> 97 + (i - 26)
                                       [] 52 <= i /\ i < 62 -> 48 + (i - 52)
                                       [] i = 62 -> 43
                                       [] i = 63 -> 47]

\* Mutant: the padding of one byte and of two is exchanged.
mod_table_swapped == [i \in 0 .. 2 |-> i]

mod_table == [i \in 0 .. 2 |-> IF i = 0 THEN 0 ELSE 3 - i]

\* The entries of other characters are not set, and no property reads them.
decoding_table == [c \in {encoding_table[i] : i \in 0 .. 63} |->
                      CHOOSE i \in 0 .. 63 : encoding_table[i] = c]

-----------------------------------------------------------------------------
\* Bytes behind the end of the data count as 0 in the last triple.
octet(data, i) == IF i <= Len(data) THEN data[i] ELSE 0

triple(data, g) == octet(data, 3 * g + 1) * 65536 + octet(data, 3 * g + 2) * 256
                   + octet(data, 3 * g + 3)

base64_encode(data) ==
   LET output_length == 4 * ((Len(data) + 2) \div 3)
   IN  [j \in 1 .. output_length |->
           IF j > output_length - mod_table[Len(data) % 3] THEN Equals
           ELSE encoding_table[(triple(data, (j - 1) \div 4) \div 64^(3 - ((j - 1) % 4))) % 64]]

Null == <<-1>>

padding(data, i) == IF data[i] = Equals THEN 1 ELSE 0

sextet(data, i) == IF data[i] = Equals THEN 0 ELSE decoding_table[data[i]]

quad(data, g) == sextet(data, 4 * g + 1) * 262144 + sextet(data, 4 * g + 2) * 4096
                 + sextet(data, 4 * g + 3) * 64 + sextet(data, 4 * g + 4)

\* An empty text, for which the code reads before its first character, is not given to it.
base64_decode(data) ==
   LET output_length == (Len(data) \div 4) * 3 - padding(data, Len(data))
                        - padding(data, Len(data) - 1)
   IN  IF Len(data) % 4 # 0 THEN Null
       ELSE [j \in 1 .. output_length |->
                (quad(data, (j - 1) \div 3) \div 256^(2 - ((j - 1) % 3))) % 256]

-----------------------------------------------------------------------------
\* RFC 4648: the bits of the data in groups of six, the last one filled with zeros, then
\* as many marks as make the text a multiple of four.
Bit(data, k) == IF k \div 8 < Len(data)
                THEN (data[(k \div 8) + 1] \div 2^(7 - (k % 8))) % 2
                ELSE 0

Group(data, n) == 32 * Bit(data, 6 * n) + 16 * Bit(data, 6 * n + 1) + 8 * Bit(data, 6 * n + 2)
                  + 4 * Bit(data, 6 * n + 3) + 2 * Bit(data, 6 * n + 4) + Bit(data, 6 * n + 5)

Encoding(data) ==
   LET groups == (8 * Len(data) + 5) \div 6
       marks  == (4 - (groups % 4)) % 4
   IN  [j \in 1 .. groups + marks |->
           IF j <= groups THEN encoding_table[Group(data, j - 1)] ELSE Equals]

\* The text is the one of the RFC, and from a text of something the data comes back.
EncodesExactly(data, text) == /\ text = Encoding(data)
                              /\ data # <<>> => base64_decode(text) = data
=============================================================================
