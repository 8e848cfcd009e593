------------------------------ MODULE Crackme ------------------------------
(***************************************************************************)
(* The crackmes of the registration site: captcha.go writes random         *)
(* constants and a flag, builds a program that hashes the flag, and builds *)
(* a second one, the crackme, that hashes what is typed and compares.  The *)
(* hash is one of the sixteen in csource/hash.  All of them change buf by  *)
(* exclusive ors with constants: a hash is the sequence of those changes.  *)
(***************************************************************************)
EXTENDS Integers, SequencesExt, Bitwise

buflen == 16

Place == 0 .. buflen - 1

\* rands.h: the constants by their number.
RandNumber == 0 .. 254

\* A change: the cells, the number of the constant, how often.
One(i)      == [at |-> {i}, rand |-> i + 1, times |-> 1]
Repeated(i) == [at |-> {i}, rand |-> i + 1, times |-> buflen]
Each(k)     == [at |-> Place, rand |-> k, times |-> 1]

\* buf[first] to buf[last], one by one; every cell, those outside the set buflen times.
Ones(first, last) == [j \in 1 .. last - first + 1 |-> One(first + j - 1)]
Mixed(once)       == [j \in 1 .. buflen |-> IF j - 1 \in once THEN One(j - 1)
                                                              ELSE Repeated(j - 1)]

hash_1  == <<Each(1)>>
hash_2  == Ones(0, 15)
hash_3  == Ones(0, 15) \o <<Each(1)>>
hash_4  == <<Each(17)>> \o Ones(0, 15)
hash_5  == Ones(0, 0) \o <<Each(17)>> \o Ones(1, 15)
hash_6  == Ones(0, 1) \o <<Each(17)>> \o Ones(2, 15)
hash_7  == Ones(0, 3) \o <<Each(17)>> \o Ones(4, 9) \o <<Each(18)>> \o Ones(10, 15)
hash_8  == Ones(0, 2) \o <<Each(17)>> \o Ones(3, 15)
hash_9  == Mixed({15})
hash_10 == Mixed({13, 15})
hash_11 == Mixed({11, 13, 15})
hash_12 == Mixed({9, 11, 13, 15})
hash_13 == Mixed({6, 9, 11, 13, 15})
hash_14 == Mixed({5, 6, 9, 11, 13, 15})
hash_15 == Mixed({0, 2, 5, 6, 9, 11, 13, 15})
hash_16 == Mixed({0, 1, 2, 5, 6, 9, 11, 13, 15})

Hashes == <<hash_1, hash_2, hash_3, hash_4, hash_5, hash_6, hash_7, hash_8,
            hash_9, hash_10, hash_11, hash_12, hash_13, hash_14, hash_15, hash_16>>

-----------------------------------------------------------------------------
\* Mutant: the constant replaces the byte.
ChangedTo(buf, change, rands) == [i \in Place |-> IF i \in change.at THEN rands[change.rand]
                                                                    ELSE buf[i]]

\* Twice the same constant is nothing.
Changed(buf, change, rands) ==
   [i \in Place |-> IF i \in change.at /\ change.times % 2 = 1 THEN buf[i] ^^ rands[change.rand]
                                                             ELSE buf[i]]

hash(program, buf, rands) ==
   LET after[n \in 0 .. Len(program)] ==
          IF n = 0 THEN buf ELSE Changed(after[n - 1], program[n], rands)
   IN  after[Len(program)]

\* What scanf("%02x") takes: two digits, or a sign and one digit.
Number == -15 .. 255

\* An unsigned int is written to the address of each byte: the low byte of the number and three
\* bytes of zeros, of ones behind a negative number.
LowByte(n) == n % 256
HighByte(n) == IF n < 0 THEN 255 ELSE 0

\* The next number overwrites the three bytes.  scanf stops at the first text that is no
\* number; bytes it has not reached hold junk.
Scanned(typed, junk) ==
   [i \in Place |-> IF i < Len(typed) THEN LowByte(typed[i + 1])
                   ELSE IF 0 < Len(typed) /\ i < Len(typed) + 3 THEN HighByte(Last(typed))
                   ELSE junk]

\* A sixteenth number, and the two before it, write behind the array: where the compiler
\* left room it does not matter, elsewhere the program may end.
Outcomes(program, rands, flag, typed, junk) ==
   LET compared == hash(program, Scanned(typed, junk), rands)
       hashed   == hash(program, flag, rands)
   IN  {IF compared = hashed THEN "win" ELSE "fail"}
       \cup (IF Len(typed) + 3 > buflen THEN {"dies"} ELSE {})

-----------------------------------------------------------------------------
\* Who types all of the flag wins, if the program lives, with or without signs; who types
\* something else does not.  Of a shorter text the bytes not typed must be what scanf left there.
Decides(flag, typed, junk, outcome) ==
   LET right == \A i \in Place : IF i < Len(typed) THEN flag[i] \in {typed[i + 1], typed[i + 1] + 256}
                                ELSE IF 0 < Len(typed) /\ i < Len(typed) + 3
                                THEN flag[i] = IF Last(typed) \in 0 .. 255 THEN 0 ELSE 255
                                ELSE flag[i] = junk
   IN  outcome # "dies" => (outcome = "win") = right
=============================================================================
