----------------------------- MODULE Md5Rounds -----------------------------
(***************************************************************************)
(* MD5::transform and the functions it is made of, on words of 32 bits.  A *)
(* word is the pair of its halves, the upper one first.                    *)
(***************************************************************************)
EXTENDS Integers, Sequences, Bitwise

Half == 65536

\* State words and message words are numbered 0 .. 3 and 0 .. 15.
InitialState == [w \in 0 .. 3 |-> CASE w = 0 -> <<\h6745, \h2301>> [] w = 1 -> <<\hefcd, \hab89>>
                                    [] w = 2 -> <<\h98ba, \hdcfe>> [] w = 3 -> <<\h1032, \h5476>>]

Plus(x, y) == LET low == x[2] + y[2]
              IN  <<(x[1] + y[1] + (low \div Half)) % Half, low % Half>>

And32(x, y) == <<x[1] & y[1], x[2] & y[2]>>

Or32(x, y) == <<x[1] | y[1], x[2] | y[2]>>

Xor32(x, y) == <<x[1] ^^ y[1], x[2] ^^ y[2]>>

Not32(x) == <<Half - 1 - x[1], Half - 1 - x[2]>>

rotate_left(x, n) ==
   LET Turned(h, l, k) == ((h * 2^k) % Half) + (l \div 2^(16 - k))
   IN  IF n < 16 THEN <<Turned(x[1], x[2], n), Turned(x[2], x[1], n)>>
                 ELSE <<Turned(x[2], x[1], n - 16), Turned(x[1], x[2], n - 16)>>

F(x, y, z) == Or32(And32(x, y), And32(Not32(x), z))

G(x, y, z) == Or32(And32(x, z), And32(y, Not32(z)))

H(x, y, z) == Xor32(Xor32(x, y), z)

I(x, y, z) == Xor32(y, Or32(x, Not32(z)))

-----------------------------------------------------------------------------
Shift == <<<<7, 12, 17, 22>>, <<5, 9, 14, 20>>, <<4, 11, 16, 23>>, <<6, 10, 15, 21>>>>

AddedConstant ==
   <<<<\hd76a, \ha478>>, <<\he8c7, \hb756>>, <<\h2420, \h70db>>, <<\hc1bd, \hceee>>,
     <<\hf57c, \h0faf>>, <<\h4787, \hc62a>>, <<\ha830, \h4613>>, <<\hfd46, \h9501>>,
     <<\h6980, \h98d8>>, <<\h8b44, \hf7af>>, <<\hffff, \h5bb1>>, <<\h895c, \hd7be>>,
     <<\h6b90, \h1122>>, <<\hfd98, \h7193>>, <<\ha679, \h438e>>, <<\h49b4, \h0821>>,
     <<\hf61e, \h2562>>, <<\hc040, \hb340>>, <<\h265e, \h5a51>>, <<\he9b6, \hc7aa>>,
     <<\hd62f, \h105d>>, <<\h0244, \h1453>>, <<\hd8a1, \he681>>, <<\he7d3, \hfbc8>>,
     <<\h21e1, \hcde6>>, <<\hc337, \h07d6>>, <<\hf4d5, \h0d87>>, <<\h455a, \h14ed>>,
     <<\ha9e3, \he905>>, <<\hfcef, \ha3f8>>, <<\h676f, \h02d9>>, <<\h8d2a, \h4c8a>>,
     <<\hfffa, \h3942>>, <<\h8771, \hf681>>, <<\h6d9d, \h6122>>, <<\hfde5, \h380c>>,
     <<\ha4be, \hea44>>, <<\h4bde, \hcfa9>>, <<\hf6bb, \h4b60>>, <<\hbebf, \hbc70>>,
     <<\h289b, \h7ec6>>, <<\heaa1, \h27fa>>, <<\hd4ef, \h3085>>, <<\h0488, \h1d05>>,
     <<\hd9d4, \hd039>>, <<\he6db, \h99e5>>, <<\h1fa2, \h7cf8>>, <<\hc4ac, \h5665>>,
     <<\hf429, \h2244>>, <<\h432a, \hff97>>, <<\hab94, \h23a7>>, <<\hfc93, \ha039>>,
     <<\h655b, \h59c3>>, <<\h8f0c, \hcc92>>, <<\hffef, \hf47d>>, <<\h8584, \h5dd1>>,
     <<\h6fa8, \h7e4f>>, <<\hfe2c, \he6e0>>, <<\ha301, \h4314>>, <<\h4e08, \h11a1>>,
     <<\hf753, \h7e82>>, <<\hbd3a, \hf235>>, <<\h2ad7, \hd2bb>>, <<\heb86, \hd391>>>>

\* The word of the message that step k of a round takes.
MessageWord(round, k) == CASE round = 1 -> k
                           [] round = 2 -> (5 * k + 1) % 16
                           [] round = 3 -> (3 * k + 5) % 16
                           [] round = 4 -> (7 * k) % 16

\* FF, GG, HH and II: the word they change is a, d, c, b in turn.
Stepped(s, x, round, k) ==
   LET a == (16 - k) % 4
       b == s[(a + 1) % 4]
       c == s[(a + 2) % 4]
       d == s[(a + 3) % 4]
       mixed == CASE round = 1 -> F(b, c, d) [] round = 2 -> G(b, c, d)
                  [] round = 3 -> H(b, c, d) [] round = 4 -> I(b, c, d)
       sum == Plus(Plus(Plus(s[a], mixed), x[MessageWord(round, k)]),
                   AddedConstant[16 * (round - 1) + k + 1])
   IN  [s EXCEPT ![a] = Plus(rotate_left(sum, Shift[round][(k % 4) + 1]), b)]

RECURSIVE Steps(_, _, _)
Steps(s, x, n) == IF n = 0 THEN s
                  ELSE Stepped(Steps(s, x, n - 1), x, ((n - 1) \div 16) + 1, (n - 1) % 16)

\* decode: four bytes are a word, the lowest first.
decode(block) == [w \in 0 .. 15 |-> <<block[4 * w + 3] * 256 + block[4 * w + 2],
                                      block[4 * w + 1] * 256 + block[4 * w]>>]

transform(state, block) == LET stepped == Steps(state, decode(block), 64)
                           IN  [w \in 0 .. 3 |-> Plus(state[w], stepped[w])]

\* encode: the digest is the state's bytes, the lowest of each word first.
Encoded(state) == [i \in 1 .. 16 |->
                      LET word == state[(i - 1) \div 4]
                          half == word[2 - (((i - 1) % 4) \div 2)]
                      IN  (half \div 256^((i - 1) % 2)) % 256]
=============================================================================
