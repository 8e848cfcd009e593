----------------------------- MODULE MCPrograms -----------------------------
(***************************************************************************)
(* Programs with the inputs at which each of them could go wrong.          *)
(***************************************************************************)
EXTENDS Programs

\* The small md5 keeps the blocks it was given.
NoBlocks == <<>>
BlocksAnd(blocks, block) == Append(blocks, block)

MCFilling == {<<>>, <<1>>, <<1, 2, 1, 2, 1>>}

\* Every pair of characters.
MCTexts == BoundedSeq(Character, 2)

\* Every pair of digits, and flags of the game's length: the one of vox.c's comment, one
\* digit over and over, all digits in turn.
CommentFlag == <<9, 14, 12, 1, 14, 11, 4, 10, 5, 1, 1, 14, 6, 2, 2, 13, 4, 3, 9, 6,
                 10, 10, 2, 3, 3, 4, 12, 2, 11, 4, 6, 15, 12, 13, 10, 3, 9, 3, 6, 6>>
MCFlags == TupleOf(0 .. 15, 2)
           \cup {CommentFlag, [i \in 1 .. 40 |-> 12], [i \in 1 .. 40 |-> (7 * i) % 16]}

\* Every byte alone, and up to five bytes of some patterns of bits.
MCData == {<<b>> : b \in Byte} \cup BoundedSeq({0, 62, 129, 255}, 5)

\* Messages of up to 41 bytes in two pieces and of up to 12 in three: blocks of eight bytes,
\* and a count whose first word is full at 32.
Message(n) == [i \in 1 .. n |-> i]
Cut(m, k) == <<SubSeq(m, 1, k), SubSeq(m, k + 1, Len(m))>>
MCMessages == UNION {{Cut(Message(n), k) : k \in 0 .. n} : n \in 0 .. 41}
              \cup UNION {{Cut(SubSeq(Message(n), 1, l), k) \o <<SubSeq(Message(n), l + 1, n)>> :
                             k \in 0 .. l} : <<n, l>> \in {c \in (0 .. 12) \X (0 .. 12) : c[2] <= c[1]}}

\* Texts of the test suite of RFC 1321: none, "a", "abc", and the longest one, 80 digits.
MCNames ==
   {[text |-> <<>>,
     digest |-> <<212, 29, 140, 217, 143, 0, 178, 4, 233, 128, 9, 152, 236, 248, 66, 126>>],
    [text |-> <<97>>,
     digest |-> <<12, 193, 117, 185, 192, 241, 182, 168, 49, 195, 153, 226, 105, 119, 38, 97>>],
    [text |-> <<97, 98, 99>>,
     digest |-> <<144, 1, 80, 152, 60, 210, 79, 176, 214, 150, 63, 125, 40, 225, 127, 114>>],
    [text |-> [i \in 1 .. 80 |-> 48 + (i % 10)],
     digest |-> <<87, 237, 244, 162, 43, 227, 201, 85, 172, 73, 218, 46, 33, 7, 182, 122>>]}

\* Flags of bytes at the ends of their range, one that ends in zeros and one in ones; what is
\* typed is the flag, the flag with one byte changed, the flag without its end, and each of these
\* with its last number, where a sign can, in negative form.
Rands(step) == [r \in RandNumber |-> (step * r) % 255]
FlagBytes == {[i \in Place |-> (37 * i) % 256], [i \in Place |-> IF i < 12 THEN 255 ELSE 0],
              [i \in Place |-> IF i < 12 THEN i ELSE 255]}
TypedFor(flag) ==
   LET all == [i \in 1 .. buflen |-> flag[i - 1]]
   IN  {[all EXCEPT ![i] = (@ + 1) % 256] : i \in 1 .. buflen}
       \cup {SubSeq(all, 1, n) : n \in 12 .. buflen}
Signed(typed) == IF Last(typed) - 256 \in Number
                    THEN {typed, [typed EXCEPT ![Len(typed)] = @ - 256]} ELSE {typed}
MCCrackmes == UNION {[flag : {flag}, rands : {Rands(1), Rands(7)},
                      typed : UNION {Signed(t) : t \in TypedFor(flag)}, junk : {0, 7}] : flag \in FlagBytes}

\* Digits of two bits: every dividend of up to five digits, divisors of up to three.
MCDivisions == [x : 0 .. 1023, y : 1 .. 3 \cup {4, 6, 7, 8, 11, 13, 15} \cup 16 .. 63]

\* Moduli of one to three digits, some of them no primes, bases above and below them.
MCAgreements == [p : {2, 3, 5, 7, 11, 16, 17, 31, 61}, g : {1, 2, 3, 7, 20},
                 private : {0, 1, 2, 5, 6}, secret : {1, 2, 3, 7, 30}]

\* The key 1 makes line ends of <; and the key 3Z of other texts.  The buffer of the reader is
\* four bytes; a pause may be anywhere.
MCRemovalPoints == <<21, 13, 5, 2, 1, 0>>
MCExchanges ==
   UNION {[key : {<<49>>, <<51, 90>>}, first : {f}, second : {s},
           pause : 1 .. Len(f) + Len(s) + 4] :
             f \in {<<60>>, <<60, 59>>, <<13>>, [i \in 1 .. 8 |-> 65]},
             s \in UNION {TupleOf({60, 59, 13, 10}, n) : n \in 1 .. 2}
                   \cup {<<10, 60, 59>>, [i \in 1 .. 25 |-> 65 + (i % 3)]}}
=============================================================================
