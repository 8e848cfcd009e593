---------------------------- MODULE Base64Proofs ----------------------------
(***************************************************************************)
(* The base64 functions of vox.c, for data of every length.                *)
(***************************************************************************)
EXTENDS Base64, TLAPS

\* The bit of a byte with the given weight.
bit(x, t) == (x \div 2^t) % 2

\* Three bytes as a number.
word(a, b, c) == a * 65536 + b * 256 + c

\* Four times six bits as a number.
word6(p, q, r, s) == p * 262144 + q * 4096 + r * 64 + s

\* Six bits of a number, by the place of their character.
six(m, k) == (m \div 64^(3 - k)) % 64

\* A byte of a number, by its place.
byte(m, k) == (m \div 256^(2 - k)) % 256

bytes(m) == << byte(m, 0), byte(m, 1), byte(m, 2) >>

-----------------------------------------------------------------------------
(* The tables *)

\* No two characters of the alphabet are the same, and none is the mark.
LEMMA Alphabet ==
  /\ \A i \in 0 .. 63 : encoding_table[i] \in Int \ {Equals}
  /\ \A i, k \in 0 .. 63 : encoding_table[i] = encoding_table[k] => i = k
<1>1. \A i \in 0 .. 63 :
         /\ i < 26 => encoding_table[i] = 65 + i
         /\ 26 <= i /\ i < 52 => encoding_table[i] = 97 + (i - 26)
         /\ 52 <= i /\ i < 62 => encoding_table[i] = 48 + (i - 52)
         /\ i = 62 => encoding_table[i] = 43
         /\ i = 63 => encoding_table[i] = 47
  BY DEF encoding_table
<1>2. \A i \in 0 .. 63 : encoding_table[i] \in Int \ {Equals}
  BY <1>1 DEF Equals
<1>3. ASSUME NEW i \in 0 .. 63, NEW k \in 0 .. 63, encoding_table[i] = encoding_table[k]
      PROVE  i = k
  BY <1>1, <1>3
<1>4. QED
  BY <1>2, <1>3

\* A character's entry is its place in the alphabet.
LEMMA Entries == \A i \in 0 .. 63 : decoding_table[encoding_table[i]] = i
<1> SUFFICES ASSUME NEW i \in 0 .. 63 PROVE decoding_table[encoding_table[i]] = i
  OBVIOUS
<1>1. decoding_table[encoding_table[i]]
         = CHOOSE k \in 0 .. 63 : encoding_table[k] = encoding_table[i]
  BY DEF decoding_table
<1>2. \A k \in 0 .. 63 : encoding_table[k] = encoding_table[i] => k = i
  BY Alphabet
<1>3. QED
  BY <1>1, <1>2

-----------------------------------------------------------------------------
(* Arithmetic of lengths and bits *)

\* How many characters and marks the text of a length has: the count of the code, which
\* fills up triples and then writes the marks over them, and the one of the RFC.
LEMMA Lengths ==
  ASSUME NEW n \in Nat
  PROVE  LET groups == (8 * n + 5) \div 6
             marks  == (4 - (groups % 4)) % 4
         IN  /\ groups \in Nat /\ marks \in Nat
             /\ 4 * ((n + 2) \div 3) = groups + marks
             /\ mod_table[n % 3] = marks
<1> DEFINE q == n \div 3
<1>1. /\ q \in Nat
      /\ n = 3 * q \/ n = 3 * q + 1 \/ n = 3 * q + 2
  OBVIOUS
<1>2. mod_table[0] = 0 /\ mod_table[1] = 2 /\ mod_table[2] = 1
  BY DEF mod_table
<1> HIDE DEF q
<1>3. CASE n = 3 * q
  <2>1. n % 3 = 0 /\ (8 * n + 5) \div 6 = 4 * q /\ 4 * ((n + 2) \div 3) = 4 * q
    BY <1>1, <1>3
  <2>2. (4 - ((4 * q) % 4)) % 4 = 0
    BY <1>1
  <2>3. QED
    BY <1>1, <1>2, <2>1, <2>2
<1>4. CASE n = 3 * q + 1
  <2>1. n % 3 = 1 /\ (8 * n + 5) \div 6 = 4 * q + 2 /\ 4 * ((n + 2) \div 3) = 4 * q + 4
    BY <1>1, <1>4
  <2>2. (4 - ((4 * q + 2) % 4)) % 4 = 2
    BY <1>1
  <2>3. QED
    BY <1>1, <1>2, <2>1, <2>2
<1>5. CASE n = 3 * q + 2
  <2>1. n % 3 = 2 /\ (8 * n + 5) \div 6 = 4 * q + 3 /\ 4 * ((n + 2) \div 3) = 4 * q + 4
    BY <1>1, <1>5
  <2>2. (4 - ((4 * q + 3) % 4)) % 4 = 1
    BY <1>1
  <2>3. QED
    BY <1>1, <1>2, <2>1, <2>2
<1>6. QED
  BY <1>1, <1>3, <1>4, <1>5

\* Powers of two, as far as a byte needs them.
LEMMA Powers ==
  /\ 2^0 = 1 /\ 2^1 = 2 /\ 2^2 = 4 /\ 2^3 = 8 /\ 2^4 = 16 /\ 2^5 = 32 /\ 2^6 = 64 /\ 2^7 = 128
  /\ \A t \in 0 .. 7 : 2^t \in {1, 2, 4, 8, 16, 32, 64, 128}
  <1>1. 2^0 = 1 /\ 2^1 = 2 /\ 2^2 = 4 /\ 2^3 = 8 /\ 2^4 = 16 /\ 2^5 = 32 /\ 2^6 = 64 /\ 2^7 = 128
    OBVIOUS
  <1>2. \A t \in 0 .. 7 : t \in {0, 1, 2, 3, 4, 5, 6, 7}
    OBVIOUS
  <1>3. QED
    BY <1>1, <1>2

\* A byte is the sum of its bits.
LEMMA Bits ==
  ASSUME NEW x \in 0 .. 255
  PROVE  \E y0, y1, y2, y3, y4, y5, y6, y7 \in 0 .. 1 :
            /\ x = 128 * y7 + 64 * y6 + 32 * y5 + 16 * y4 + 8 * y3 + 4 * y2 + 2 * y1 + y0
            /\ bit(x, 0) = y0 /\ bit(x, 1) = y1 /\ bit(x, 2) = y2 /\ bit(x, 3) = y3
            /\ bit(x, 4) = y4 /\ bit(x, 5) = y5 /\ bit(x, 6) = y6 /\ bit(x, 7) = y7
<1>1. ASSUME NEW h \in Nat PROVE \E y \in 0 .. 1, k \in Nat : h = 2 * k + y
  <2>1. h \div 2 \in Nat /\ h % 2 \in 0 .. 1 /\ h = 2 * (h \div 2) + (h % 2)
    OBVIOUS
  <2>2. QED
    BY <2>1
<1>2. PICK y0 \in 0 .. 1, h1 \in Nat : x = 2 * h1 + y0
  <2>1. x \in Nat
    OBVIOUS
  <2>2. QED
    BY <1>1, <2>1
<1>3. PICK y1 \in 0 .. 1, h2 \in Nat : h1 = 2 * h2 + y1
  BY <1>1
<1>4. PICK y2 \in 0 .. 1, h3 \in Nat : h2 = 2 * h3 + y2
  BY <1>1
<1>5. PICK y3 \in 0 .. 1, h4 \in Nat : h3 = 2 * h4 + y3
  BY <1>1
<1>6. PICK y4 \in 0 .. 1, h5 \in Nat : h4 = 2 * h5 + y4
  BY <1>1
<1>7. PICK y5 \in 0 .. 1, h6 \in Nat : h5 = 2 * h6 + y5
  BY <1>1
<1>8. PICK y6 \in 0 .. 1, y7 \in Nat : h6 = 2 * y7 + y6
  BY <1>1
<1>9. /\ x = 4 * h2 + 2 * y1 + y0 /\ x = 8 * h3 + 4 * y2 + 2 * y1 + y0
      /\ x = 16 * h4 + 8 * y3 + 4 * y2 + 2 * y1 + y0
      /\ x = 32 * h5 + 16 * y4 + 8 * y3 + 4 * y2 + 2 * y1 + y0
      /\ x = 64 * h6 + 32 * y5 + 16 * y4 + 8 * y3 + 4 * y2 + 2 * y1 + y0
      /\ x = 128 * y7 + 64 * y6 + 32 * y5 + 16 * y4 + 8 * y3 + 4 * y2 + 2 * y1 + y0
  BY <1>2, <1>3, <1>4, <1>5, <1>6, <1>7, <1>8
<1>10. y7 \in 0 .. 1
  BY <1>9
<1>11. bit(x, 0) = y0
  <2>1. x \div 1 = x /\ x % 2 = y0
    BY <1>2
  <2>2. QED
    BY <2>1, Powers DEF bit
<1>12. bit(x, 1) = y1
  <2>1. x \div 2 = h1 /\ h1 % 2 = y1
    BY <1>2, <1>3
  <2>2. QED
    BY <2>1, Powers DEF bit
<1>13. bit(x, 2) = y2
  <2>1. x \div 4 = h2 /\ h2 % 2 = y2
    BY <1>4, <1>9
  <2>2. QED
    BY <2>1, Powers DEF bit
<1>14. bit(x, 3) = y3
  <2>1. x \div 8 = h3 /\ h3 % 2 = y3
    BY <1>5, <1>9
  <2>2. QED
    BY <2>1, Powers DEF bit
<1>15. bit(x, 4) = y4
  <2>1. x \div 16 = h4 /\ h4 % 2 = y4
    BY <1>6, <1>9
  <2>2. QED
    BY <2>1, Powers DEF bit
<1>16. bit(x, 5) = y5
  <2>1. x \div 32 = h5 /\ h5 % 2 = y5
    BY <1>7, <1>9
  <2>2. QED
    BY <2>1, Powers DEF bit
<1>17. bit(x, 6) = y6
  <2>1. x \div 64 = h6 /\ h6 % 2 = y6
    BY <1>8, <1>9
  <2>2. QED
    BY <2>1, Powers DEF bit
<1>18. bit(x, 7) = y7
  <2>1. x \div 128 = y7 /\ y7 % 2 = y7
    BY <1>9, <1>10
  <2>2. QED
    BY <2>1, Powers DEF bit
<1>19. QED
  BY <1>9, <1>10, <1>11, <1>12, <1>13, <1>14, <1>15, <1>16, <1>17, <1>18

\* Six bits, the first ones and the last ones of a byte.
LEMMA OuterSextets ==
  ASSUME NEW x \in 0 .. 255
  PROVE  /\ 32 * bit(x, 7) + 16 * bit(x, 6) + 8 * bit(x, 5) + 4 * bit(x, 4) + 2 * bit(x, 3)
               + bit(x, 2) = x \div 4
         /\ 32 * bit(x, 5) + 16 * bit(x, 4) + 8 * bit(x, 3) + 4 * bit(x, 2) + 2 * bit(x, 1)
               + bit(x, 0) = x % 64
<1>1. PICK y0, y1, y2, y3, y4, y5, y6, y7 \in 0 .. 1 :
         /\ x = 128 * y7 + 64 * y6 + 32 * y5 + 16 * y4 + 8 * y3 + 4 * y2 + 2 * y1 + y0
         /\ bit(x, 0) = y0 /\ bit(x, 1) = y1 /\ bit(x, 2) = y2 /\ bit(x, 3) = y3
         /\ bit(x, 4) = y4 /\ bit(x, 5) = y5 /\ bit(x, 6) = y6 /\ bit(x, 7) = y7
  BY Bits
<1>2. 32 * y7 + 16 * y6 + 8 * y5 + 4 * y4 + 2 * y3 + y2 = x \div 4
  BY <1>1
<1>3. 32 * y5 + 16 * y4 + 8 * y3 + 4 * y2 + 2 * y1 + y0 = x % 64
  BY <1>1
<1>4. /\ bit(x, 0) = y0 /\ bit(x, 1) = y1 /\ bit(x, 2) = y2 /\ bit(x, 3) = y3
      /\ bit(x, 4) = y4 /\ bit(x, 5) = y5 /\ bit(x, 6) = y6 /\ bit(x, 7) = y7
  BY <1>1
<1>5. QED
  BY <1>2, <1>3, <1>4

\* Six bits, two of one byte and four of the next, or four of one and two of the next.
LEMMA InnerSextets ==
  ASSUME NEW x \in 0 .. 255, NEW z \in 0 .. 255
  PROVE  /\ 32 * bit(x, 1) + 16 * bit(x, 0) + 8 * bit(z, 7) + 4 * bit(z, 6) + 2 * bit(z, 5)
               + bit(z, 4) = (x % 4) * 16 + z \div 16
         /\ 32 * bit(x, 3) + 16 * bit(x, 2) + 8 * bit(x, 1) + 4 * bit(x, 0) + 2 * bit(z, 7)
               + bit(z, 6) = (x % 16) * 4 + z \div 64
<1>1. PICK x0, x1, x2, x3, x4, x5, x6, x7 \in 0 .. 1 :
         /\ x = 128 * x7 + 64 * x6 + 32 * x5 + 16 * x4 + 8 * x3 + 4 * x2 + 2 * x1 + x0
         /\ bit(x, 0) = x0 /\ bit(x, 1) = x1 /\ bit(x, 2) = x2 /\ bit(x, 3) = x3
         /\ bit(x, 4) = x4 /\ bit(x, 5) = x5 /\ bit(x, 6) = x6 /\ bit(x, 7) = x7
  BY Bits
<1>2. PICK z0, z1, z2, z3, z4, z5, z6, z7 \in 0 .. 1 :
         /\ z = 128 * z7 + 64 * z6 + 32 * z5 + 16 * z4 + 8 * z3 + 4 * z2 + 2 * z1 + z0
         /\ bit(z, 0) = z0 /\ bit(z, 1) = z1 /\ bit(z, 2) = z2 /\ bit(z, 3) = z3
         /\ bit(z, 4) = z4 /\ bit(z, 5) = z5 /\ bit(z, 6) = z6 /\ bit(z, 7) = z7
  BY Bits
<1>3. x % 4 = 2 * x1 + x0 /\ x % 16 = 8 * x3 + 4 * x2 + 2 * x1 + x0
  BY <1>1
<1>4. z \div 16 = 8 * z7 + 4 * z6 + 2 * z5 + z4 /\ z \div 64 = 2 * z7 + z6
  BY <1>2
<1>5. 32 * x1 + 16 * x0 + 8 * z7 + 4 * z6 + 2 * z5 + z4 = (x % 4) * 16 + z \div 16
  BY <1>3, <1>4
<1>6. 32 * x3 + 16 * x2 + 8 * x1 + 4 * x0 + 2 * z7 + z6 = (x % 16) * 4 + z \div 64
  BY <1>3, <1>4
<1>7. /\ bit(x, 0) = x0 /\ bit(x, 1) = x1 /\ bit(x, 2) = x2 /\ bit(x, 3) = x3
      /\ bit(z, 4) = z4 /\ bit(z, 5) = z5 /\ bit(z, 6) = z6 /\ bit(z, 7) = z7
  BY <1>1, <1>2
<1>8. QED
  BY <1>5, <1>6, <1>7

\* What a shift and a mask leave of three bytes.
LEMMA Shifts ==
  ASSUME NEW a \in 0 .. 255, NEW b \in 0 .. 255, NEW c \in 0 .. 255
  PROVE  /\ six(word(a, b, c), 0) = a \div 4
         /\ six(word(a, b, c), 1) = (a % 4) * 16 + b \div 16
         /\ six(word(a, b, c), 2) = (b % 16) * 4 + c \div 64
         /\ six(word(a, b, c), 3) = c % 64
<1> DEFINE m == a * 65536 + b * 256 + c
<1>1. PICK a1 \in 0 .. 63, a0 \in 0 .. 3 : a = 4 * a1 + a0
  <2>1. a \div 4 \in 0 .. 63 /\ a % 4 \in 0 .. 3 /\ a = 4 * (a \div 4) + (a % 4)
    OBVIOUS
  <2>2. QED
    BY <2>1
<1>2. PICK b1 \in 0 .. 15, b0 \in 0 .. 15 : b = 16 * b1 + b0
  <2>1. b \div 16 \in 0 .. 15 /\ b % 16 \in 0 .. 15 /\ b = 16 * (b \div 16) + (b % 16)
    OBVIOUS
  <2>2. QED
    BY <2>1
<1>3. PICK c1 \in 0 .. 3, c0 \in 0 .. 63 : c = 64 * c1 + c0
  <2>1. c \div 64 \in 0 .. 3 /\ c % 64 \in 0 .. 63 /\ c = 64 * (c \div 64) + (c % 64)
    OBVIOUS
  <2>2. QED
    BY <2>1
<1>4. /\ a \div 4 = a1 /\ a % 4 = a0 /\ b \div 16 = b1 /\ b % 16 = b0
      /\ c \div 64 = c1 /\ c % 64 = c0
  BY <1>1, <1>2, <1>3
<1>5. m \div 262144 = a1 /\ a1 % 64 = a1
  BY <1>1
<1>6. m \div 4096 = 64 * a1 + (16 * a0 + b1) /\ (64 * a1 + (16 * a0 + b1)) % 64 = 16 * a0 + b1
  <2>1. m = 4096 * (64 * a1 + 16 * a0 + b1) + (256 * b0 + c) /\ 256 * b0 + c \in 0 .. 4095
    BY <1>1, <1>2
  <2> HIDE DEF m
  <2>2. QED
    BY <2>1
<1>7. m \div 64 = 64 * (16 * a + b1) + (4 * b0 + c1)
      /\ (64 * (16 * a + b1) + (4 * b0 + c1)) % 64 = 4 * b0 + c1
  <2>1. m = 64 * (64 * (16 * a + b1) + (4 * b0 + c1)) + c0
    BY <1>2, <1>3
  <2> HIDE DEF m
  <2>2. QED
    BY <2>1
<1>8. m \div 1 = 64 * (1024 * a + 4 * b + c1) + c0 /\ (64 * (1024 * a + 4 * b + c1) + c0) % 64 = c0
  <2>1. m = 64 * (1024 * a + 4 * b + c1) + c0
    BY <1>3
  <2> HIDE DEF m
  <2>2. QED
    BY <2>1
<1> HIDE DEF m
<1>9. m = word(a, b, c)
  BY DEF m, word
<1>10. 64^(3 - 0) = 262144 /\ 64^(3 - 1) = 4096 /\ 64^(3 - 2) = 64 /\ 64^(3 - 3) = 1
  OBVIOUS
<1>11. six(m, 0) = a1 /\ six(m, 1) = 16 * a0 + b1
  BY <1>5, <1>6, <1>10 DEF six
<1>12. six(m, 2) = 4 * b0 + c1 /\ six(m, 3) = c0
  BY <1>7, <1>8, <1>10 DEF six
<1>13. QED
  BY <1>4, <1>9, <1>11, <1>12
-----------------------------------------------------------------------------
(* One triple *)

\* What a triple is made of are bytes, and its bits are those of the RFC's text.
LEMMA Octets ==
  ASSUME NEW data \in Seq(Byte), NEW i \in Nat \ {0}
  PROVE  /\ octet(data, i) \in 0 .. 255
         /\ \A t \in 0 .. 7 : Bit(data, 8 * (i - 1) + t) = bit(octet(data, i), 7 - t)
<1>1. octet(data, i) \in 0 .. 255
  <2>1. CASE i <= Len(data)
    <3>1. data[i] \in Byte
      BY <2>1
    <3>2. QED
      BY <2>1, <3>1 DEF octet, Byte
  <2>2. CASE ~ (i <= Len(data))
    BY <2>2 DEF octet
  <2>3. QED
    BY <2>1, <2>2
<1>2. ASSUME NEW t \in 0 .. 7
      PROVE  Bit(data, 8 * (i - 1) + t) = bit(octet(data, i), 7 - t)
  <2>1. (8 * (i - 1) + t) \div 8 = i - 1 /\ (8 * (i - 1) + t) % 8 = t
    OBVIOUS
  <2>2. Bit(data, 8 * (i - 1) + t)
          = IF i <= Len(data) THEN (data[i] \div 2^(7 - t)) % 2 ELSE 0
    BY <2>1 DEF Bit
  <2>3. (0 \div 2^(7 - t)) % 2 = 0
    <3>1. 2^(7 - t) \in {1, 2, 4, 8, 16, 32, 64, 128}
      <4>1. 7 - t \in 0 .. 7
        OBVIOUS
      <4>2. QED
        BY <4>1, Powers
    <3>2. \A d \in {1, 2, 4, 8, 16, 32, 64, 128} : (0 \div d) % 2 = 0
      OBVIOUS
    <3>3. QED
      BY <3>1, <3>2
  <2>4. QED
    BY <2>2, <2>3 DEF octet, bit
<1>3. QED
  BY <1>1, <1>2

\* The three bytes of a triple.
LEMMA Triples ==
  ASSUME NEW data \in Seq(Byte), NEW g \in Nat
  PROVE  /\ octet(data, 3 * g + 1) \in 0 .. 255 /\ octet(data, 3 * g + 2) \in 0 .. 255
         /\ octet(data, 3 * g + 3) \in 0 .. 255
         /\ triple(data, g)
              = word(octet(data, 3 * g + 1), octet(data, 3 * g + 2), octet(data, 3 * g + 3))
<1>1. 3 * g + 1 \in Nat \ {0} /\ 3 * g + 2 \in Nat \ {0} /\ 3 * g + 3 \in Nat \ {0}
  OBVIOUS
<1>2. /\ octet(data, 3 * g + 1) \in 0 .. 255 /\ octet(data, 3 * g + 2) \in 0 .. 255
      /\ octet(data, 3 * g + 3) \in 0 .. 255
  BY <1>1, Octets
<1>3. triple(data, g)
        = word(octet(data, 3 * g + 1), octet(data, 3 * g + 2), octet(data, 3 * g + 3))
  BY DEF triple, word
<1>4. QED
  BY <1>2, <1>3

\* The bits of a triple's four groups.
LEMMA GroupBits ==
  ASSUME NEW data \in Seq(Byte), NEW g \in Nat, NEW a, NEW b, NEW c,
         a = octet(data, 3 * g + 1), b = octet(data, 3 * g + 2), c = octet(data, 3 * g + 3)
  PROVE  /\ Group(data, 4 * g) = 32 * bit(a, 7) + 16 * bit(a, 6) + 8 * bit(a, 5)
                                 + 4 * bit(a, 4) + 2 * bit(a, 3) + bit(a, 2)
         /\ Group(data, 4 * g + 1) = 32 * bit(a, 1) + 16 * bit(a, 0) + 8 * bit(b, 7)
                                     + 4 * bit(b, 6) + 2 * bit(b, 5) + bit(b, 4)
         /\ Group(data, 4 * g + 2) = 32 * bit(b, 3) + 16 * bit(b, 2) + 8 * bit(b, 1)
                                     + 4 * bit(b, 0) + 2 * bit(c, 7) + bit(c, 6)
         /\ Group(data, 4 * g + 3) = 32 * bit(c, 5) + 16 * bit(c, 4) + 8 * bit(c, 3)
                                     + 4 * bit(c, 2) + 2 * bit(c, 1) + bit(c, 0)
<1>1. 3 * g + 1 \in Nat \ {0} /\ 3 * g + 2 \in Nat \ {0} /\ 3 * g + 3 \in Nat \ {0}
  OBVIOUS
<1> DEFINE B(n) == Bit(data, n)
<1>3. \A t \in 0 .. 7 : /\ B(24 * g + t) = bit(a, 7 - t)
                        /\ B(24 * g + 8 + t) = bit(b, 7 - t)
                        /\ B(24 * g + 16 + t) = bit(c, 7 - t)
  <2>1. \A t \in 0 .. 7 : /\ B(8 * ((3 * g + 1) - 1) + t) = bit(a, 7 - t)
                          /\ B(8 * ((3 * g + 2) - 1) + t) = bit(b, 7 - t)
                          /\ B(8 * ((3 * g + 3) - 1) + t) = bit(c, 7 - t)
    BY <1>1, Octets
  <2>2. \A t \in 0 .. 7 : /\ 8 * ((3 * g + 1) - 1) + t = 24 * g + t
                          /\ 8 * ((3 * g + 2) - 1) + t = 24 * g + 8 + t
                          /\ 8 * ((3 * g + 3) - 1) + t = 24 * g + 16 + t
    OBVIOUS
  <2>3. QED
    BY <2>1, <2>2
<1>4. /\ B(24 * g) = bit(a, 7)      /\ B(24 * g + 1) = bit(a, 6)  /\ B(24 * g + 2) = bit(a, 5)
      /\ B(24 * g + 3) = bit(a, 4)  /\ B(24 * g + 4) = bit(a, 3)  /\ B(24 * g + 5) = bit(a, 2)
      /\ B(24 * g + 6) = bit(a, 1)  /\ B(24 * g + 7) = bit(a, 0)
  <2>1. \A t \in 0 .. 7 : B(24 * g + t) = bit(a, 7 - t)
    BY <1>3
  <2>2. QED
    BY <2>1
<1>5. /\ B(24 * g + 8) = bit(b, 7)  /\ B(24 * g + 9) = bit(b, 6)  /\ B(24 * g + 10) = bit(b, 5)
      /\ B(24 * g + 11) = bit(b, 4) /\ B(24 * g + 12) = bit(b, 3) /\ B(24 * g + 13) = bit(b, 2)
      /\ B(24 * g + 14) = bit(b, 1) /\ B(24 * g + 15) = bit(b, 0)
  <2>1. \A t \in 0 .. 7 : B(24 * g + 8 + t) = bit(b, 7 - t)
    BY <1>3
  <2>2. \A t \in 8 .. 15 : B(24 * g + t) = bit(b, 15 - t)
    <3>1. \A t \in 8 .. 15 : /\ t - 8 \in 0 .. 7 /\ 24 * g + 8 + (t - 8) = 24 * g + t
                             /\ 7 - (t - 8) = 15 - t
      OBVIOUS
    <3>2. QED
      BY <2>1, <3>1
  <2>3. QED
    BY <2>2
<1>6. /\ B(24 * g + 16) = bit(c, 7) /\ B(24 * g + 17) = bit(c, 6) /\ B(24 * g + 18) = bit(c, 5)
      /\ B(24 * g + 19) = bit(c, 4) /\ B(24 * g + 20) = bit(c, 3) /\ B(24 * g + 21) = bit(c, 2)
      /\ B(24 * g + 22) = bit(c, 1) /\ B(24 * g + 23) = bit(c, 0)
  <2>1. \A t \in 0 .. 7 : B(24 * g + 16 + t) = bit(c, 7 - t)
    BY <1>3
  <2>2. \A t \in 16 .. 23 : B(24 * g + t) = bit(c, 23 - t)
    <3>1. \A t \in 16 .. 23 : /\ t - 16 \in 0 .. 7 /\ 24 * g + 16 + (t - 16) = 24 * g + t
                              /\ 7 - (t - 16) = 23 - t
      OBVIOUS
    <3>2. QED
      BY <2>1, <3>1
  <2>3. QED
    BY <2>2
<1>7. \A m, x \in Nat : 6 * m = x =>
         Group(data, m) = 32 * B(x) + 16 * B(x + 1) + 8 * B(x + 2) + 4 * B(x + 3)
                          + 2 * B(x + 4) + B(x + 5)
  BY DEF Group
<1>8. \A x \in Nat : /\ (x + 6) + 1 = x + 7   /\ (x + 6) + 2 = x + 8   /\ (x + 6) + 3 = x + 9
                    /\ (x + 6) + 4 = x + 10  /\ (x + 6) + 5 = x + 11
                    /\ (x + 12) + 1 = x + 13 /\ (x + 12) + 2 = x + 14 /\ (x + 12) + 3 = x + 15
                    /\ (x + 12) + 4 = x + 16 /\ (x + 12) + 5 = x + 17
                    /\ (x + 18) + 1 = x + 19 /\ (x + 18) + 2 = x + 20 /\ (x + 18) + 3 = x + 21
                    /\ (x + 18) + 4 = x + 22 /\ (x + 18) + 5 = x + 23
  OBVIOUS
<1> HIDE DEF B
<1>9. Group(data, 4 * g) = 32 * bit(a, 7) + 16 * bit(a, 6) + 8 * bit(a, 5) + 4 * bit(a, 4)
                           + 2 * bit(a, 3) + bit(a, 2)
  <2>1. 4 * g \in Nat /\ 24 * g \in Nat /\ 6 * (4 * g) = 24 * g
    OBVIOUS
  <2>2. QED
    BY <1>4, <1>7, <2>1
<1>10. Group(data, 4 * g + 1) = 32 * bit(a, 1) + 16 * bit(a, 0) + 8 * bit(b, 7) + 4 * bit(b, 6)
                                + 2 * bit(b, 5) + bit(b, 4)
  <2>1. 4 * g + 1 \in Nat /\ 24 * g \in Nat /\ 24 * g + 6 \in Nat /\ 6 * (4 * g + 1) = 24 * g + 6
    OBVIOUS
  <2>2. QED
    BY <1>4, <1>5, <1>7, <1>8, <2>1
<1>11. Group(data, 4 * g + 2) = 32 * bit(b, 3) + 16 * bit(b, 2) + 8 * bit(b, 1) + 4 * bit(b, 0)
                                + 2 * bit(c, 7) + bit(c, 6)
  <2>1. 4 * g + 2 \in Nat /\ 24 * g \in Nat /\ 24 * g + 12 \in Nat /\ 6 * (4 * g + 2) = 24 * g + 12
    OBVIOUS
  <2>2. QED
    BY <1>5, <1>6, <1>7, <1>8, <2>1
<1>12. Group(data, 4 * g + 3) = 32 * bit(c, 5) + 16 * bit(c, 4) + 8 * bit(c, 3) + 4 * bit(c, 2)
                                + 2 * bit(c, 1) + bit(c, 0)
  <2>1. 4 * g + 3 \in Nat /\ 24 * g \in Nat /\ 24 * g + 18 \in Nat /\ 6 * (4 * g + 3) = 24 * g + 18
    OBVIOUS
  <2>2. QED
    BY <1>6, <1>7, <1>8, <2>1
<1>13. QED
  BY <1>9, <1>10, <1>11, <1>12

\* The four groups of a triple by its bytes.
LEMMA GroupValues ==
  ASSUME NEW data \in Seq(Byte), NEW g \in Nat, NEW a, NEW b, NEW c,
         a = octet(data, 3 * g + 1), b = octet(data, 3 * g + 2), c = octet(data, 3 * g + 3),
         a \in 0 .. 255, b \in 0 .. 255, c \in 0 .. 255
  PROVE  /\ Group(data, 4 * g) = a \div 4
         /\ Group(data, 4 * g + 1) = (a % 4) * 16 + b \div 16
         /\ Group(data, 4 * g + 2) = (b % 16) * 4 + c \div 64
         /\ Group(data, 4 * g + 3) = c % 64
<1>1. /\ Group(data, 4 * g) = 32 * bit(a, 7) + 16 * bit(a, 6) + 8 * bit(a, 5)
                              + 4 * bit(a, 4) + 2 * bit(a, 3) + bit(a, 2)
      /\ Group(data, 4 * g + 1) = 32 * bit(a, 1) + 16 * bit(a, 0) + 8 * bit(b, 7)
                                  + 4 * bit(b, 6) + 2 * bit(b, 5) + bit(b, 4)
      /\ Group(data, 4 * g + 2) = 32 * bit(b, 3) + 16 * bit(b, 2) + 8 * bit(b, 1)
                                  + 4 * bit(b, 0) + 2 * bit(c, 7) + bit(c, 6)
      /\ Group(data, 4 * g + 3) = 32 * bit(c, 5) + 16 * bit(c, 4) + 8 * bit(c, 3)
                                  + 4 * bit(c, 2) + 2 * bit(c, 1) + bit(c, 0)
  BY GroupBits
<1>2. Group(data, 4 * g) = a \div 4
  BY <1>1, OuterSextets, Zenon
<1>3. Group(data, 4 * g + 1) = (a % 4) * 16 + b \div 16
  BY <1>1, InnerSextets, Zenon
<1>4. Group(data, 4 * g + 2) = (b % 16) * 4 + c \div 64
  BY <1>1, InnerSextets, Zenon
<1>5. Group(data, 4 * g + 3) = c % 64
  BY <1>1, OuterSextets, Zenon
<1>6. QED
  BY <1>2, <1>3, <1>4, <1>5

\* What the shifts of the code leave of a triple are its groups.
LEMMA GroupShifts ==
  ASSUME NEW data \in Seq(Byte), NEW g \in Nat
  PROVE  /\ six(triple(data, g), 0) = Group(data, 4 * g)
         /\ six(triple(data, g), 1) = Group(data, 4 * g + 1)
         /\ six(triple(data, g), 2) = Group(data, 4 * g + 2)
         /\ six(triple(data, g), 3) = Group(data, 4 * g + 3)
         /\ Group(data, 4 * g) \in 0 .. 63 /\ Group(data, 4 * g + 1) \in 0 .. 63
         /\ Group(data, 4 * g + 2) \in 0 .. 63 /\ Group(data, 4 * g + 3) \in 0 .. 63
<1> DEFINE a == octet(data, 3 * g + 1)
           b == octet(data, 3 * g + 2)
           c == octet(data, 3 * g + 3)
<1>2. a \in 0 .. 255 /\ b \in 0 .. 255 /\ c \in 0 .. 255
  BY Triples
<1>3. triple(data, g) = word(a, b, c)
  BY Triples
<1>4. /\ Group(data, 4 * g) = a \div 4
      /\ Group(data, 4 * g + 1) = (a % 4) * 16 + b \div 16
      /\ Group(data, 4 * g + 2) = (b % 16) * 4 + c \div 64
      /\ Group(data, 4 * g + 3) = c % 64
  BY <1>2, GroupValues
<1> HIDE DEF a, b, c
<1>5. /\ six(word(a, b, c), 0) = a \div 4
      /\ six(word(a, b, c), 1) = (a % 4) * 16 + b \div 16
      /\ six(word(a, b, c), 2) = (b % 16) * 4 + c \div 64
      /\ six(word(a, b, c), 3) = c % 64
  BY <1>2, Shifts, ZenonT(30)
<1>6. /\ a \div 4 \in 0 .. 63 /\ (a % 4) * 16 + b \div 16 \in 0 .. 63
      /\ (b % 16) * 4 + c \div 64 \in 0 .. 63 /\ c % 64 \in 0 .. 63
  BY <1>2
<1>7. QED
  BY <1>3, <1>4, <1>5, <1>6

\* The same for any place.
LEMMA Groups ==
  ASSUME NEW data \in Seq(Byte), NEW g \in Nat, NEW k \in 0 .. 3
  PROVE  Group(data, 4 * g + k) \in 0 .. 63 /\ six(triple(data, g), k) = Group(data, 4 * g + k)
<1>1. k = 0 \/ k = 1 \/ k = 2 \/ k = 3
  OBVIOUS
<1>2. 4 * g + 0 = 4 * g
  OBVIOUS
<1>3. QED
  BY <1>1, <1>2, GroupShifts
-----------------------------------------------------------------------------
(* The text *)

\* vox.c's base64_encode, with its triples, shifts and mod_table, writes the text that the RFC
\* defines by groups of bits, for data of every length.
THEOREM EncodeIsEncoding ==
  ASSUME NEW data \in Seq(Byte)
  PROVE  base64_encode(data) = Encoding(data)
<1> DEFINE n == Len(data)
           groups == (8 * n + 5) \div 6
           marks == (4 - (groups % 4)) % 4
           length == 4 * ((n + 2) \div 3)
           code == [j \in 1 .. length |->
                      IF j > length - mod_table[n % 3] THEN Equals
                      ELSE encoding_table[six(triple(data, (j - 1) \div 4), (j - 1) % 4)]]
           rfc == [j \in 1 .. groups + marks |->
                      IF j <= groups THEN encoding_table[Group(data, j - 1)] ELSE Equals]
<1>1. base64_encode(data) = code /\ Encoding(data) = rfc
  BY DEF base64_encode, Encoding, six
<1>2. n \in Nat
  OBVIOUS
<1>3. /\ groups \in Nat /\ marks \in Nat
      /\ length = groups + marks
      /\ mod_table[n % 3] = marks
  BY <1>2, Lengths
<1> HIDE DEF n, groups, marks, length
<1>4. ASSUME NEW j \in Nat \ {0}
      PROVE  six(triple(data, (j - 1) \div 4), (j - 1) % 4) = Group(data, j - 1)
  <2>1. PICK g \in Nat, k \in 0 .. 3 : /\ j - 1 = 4 * g + k
                                       /\ (j - 1) \div 4 = g /\ (j - 1) % 4 = k
    <3>1. /\ (j - 1) \div 4 \in Nat /\ (j - 1) % 4 \in 0 .. 3
          /\ j - 1 = 4 * ((j - 1) \div 4) + ((j - 1) % 4)
      OBVIOUS
    <3>2. QED
      BY <3>1
  <2>2. QED
    BY <2>1, Groups
<1>5. ASSUME NEW j \in 1 .. length
      PROVE  code[j] = rfc[j]
  <2>1. j \in Nat \ {0} /\ j \in 1 .. groups + marks /\ (j > length - marks <=> ~(j <= groups))
    BY <1>3
  <2>2. code[j] = IF j > length - marks THEN Equals ELSE encoding_table[Group(data, j - 1)]
    BY <1>3, <1>4, <2>1
  <2>3. rfc[j] = IF j <= groups THEN encoding_table[Group(data, j - 1)] ELSE Equals
    BY <2>1
  <2>4. QED
    BY <2>1, <2>2, <2>3
<1>6. code = rfc
  BY <1>3, <1>5
<1>7. QED
  BY <1>1, <1>6
-----------------------------------------------------------------------------
(* The way back *)

\* The characters of a text, and where its marks begin.
LEMMA Characters ==
  ASSUME NEW data \in Seq(Byte)
  PROVE  LET text   == Encoding(data)
             groups == (8 * Len(data) + 5) \div 6
             length == 4 * ((Len(data) + 2) \div 3)
         IN  /\ Len(text) = length
             /\ \A j \in 1 .. length : /\ j <= groups => text[j] = encoding_table[Group(data, j - 1)]
                                       /\ ~(j <= groups) => text[j] = Equals
<1> DEFINE n == Len(data)
           groups == (8 * n + 5) \div 6
           marks == (4 - (groups % 4)) % 4
           length == 4 * ((n + 2) \div 3)
           rfc == [j \in 1 .. groups + marks |->
                      IF j <= groups THEN encoding_table[Group(data, j - 1)] ELSE Equals]
<1>1. Encoding(data) = rfc
  BY DEF Encoding
<1>2. n \in Nat
  OBVIOUS
<1>3. groups \in Nat /\ marks \in Nat /\ length = groups + marks
  BY <1>2, Lengths
<1> HIDE DEF n, groups, marks, length
<1>4. Len(rfc) = length
  BY <1>3
<1>5. ASSUME NEW j \in 1 .. length
      PROVE  /\ j <= groups => rfc[j] = encoding_table[Group(data, j - 1)]
             /\ ~(j <= groups) => rfc[j] = Equals
  BY <1>3
<1>6. /\ Len(Encoding(data)) = length
      /\ \A j \in 1 .. length :
            /\ j <= groups => Encoding(data)[j] = encoding_table[Group(data, j - 1)]
            /\ ~(j <= groups) => Encoding(data)[j] = Equals
  <2> HIDE DEF rfc
  <2>1. QED
    BY <1>1, <1>4, <1>5
<1>7. QED
  BY <1>6, Zenon DEF n, groups, length

\* Behind the last group the data has no bit.
LEMMA NothingBehind ==
  ASSUME NEW data \in Seq(Byte), NEW j \in Nat, j >= (8 * Len(data) + 5) \div 6
  PROVE  Group(data, j) = 0
<1>1. Len(data) \in Nat
  OBVIOUS
<1>2. ASSUME NEW t \in 0 .. 5 PROVE Bit(data, 6 * j + t) = 0
  <2>1. 6 * j + t >= 8 * Len(data)
    BY <1>1
  <2>2. ~((6 * j + t) \div 8 < Len(data))
    BY <1>1, <2>1
  <2>3. QED
    BY <2>2 DEF Bit
<1>3. /\ Bit(data, 6 * j + 1) = 0 /\ Bit(data, 6 * j + 2) = 0 /\ Bit(data, 6 * j + 3) = 0
      /\ Bit(data, 6 * j + 4) = 0 /\ Bit(data, 6 * j + 5) = 0 /\ Bit(data, 6 * j + 0) = 0
  BY <1>2
<1>4. 6 * j + 0 = 6 * j
  OBVIOUS
<1>5. QED
  BY <1>3, <1>4 DEF Group

\* A group is a place of the alphabet.
LEMMA GroupRange ==
  ASSUME NEW data \in Seq(Byte), NEW j \in Nat
  PROVE  Group(data, j) \in 0 .. 63
<1>1. PICK g \in Nat, k \in 0 .. 3 : j = 4 * g + k
  <2>1. j \div 4 \in Nat /\ j % 4 \in 0 .. 3 /\ j = 4 * (j \div 4) + (j % 4)
    OBVIOUS
  <2>2. QED
    BY <2>1
<1>2. QED
  BY <1>1, Groups

\* What the decoder reads in a place of the text.
LEMMA Sextets ==
  ASSUME NEW data \in Seq(Byte), NEW j \in 1 .. 4 * ((Len(data) + 2) \div 3)
  PROVE  sextet(Encoding(data), j) = Group(data, j - 1)
<1> DEFINE groups == (8 * Len(data) + 5) \div 6
<1>1. j \in Nat \ {0} /\ j - 1 \in Nat /\ groups \in Nat
  OBVIOUS
<1>2. Group(data, j - 1) \in 0 .. 63
  BY <1>1, GroupRange
<1>3. /\ j <= groups => Encoding(data)[j] = encoding_table[Group(data, j - 1)]
      /\ ~(j <= groups) => Encoding(data)[j] = Equals
  BY Characters
<1>4. CASE j <= groups
  <2>1. encoding_table[Group(data, j - 1)] # Equals
    BY <1>2, Alphabet
  <2>2. QED
    BY <1>2, <1>3, <1>4, <2>1, Entries DEF sextet
<1>5. CASE ~(j <= groups)
  <2>1. j - 1 >= groups
    BY <1>1, <1>5
  <2>2. Group(data, j - 1) = 0
    BY <1>1, <2>1, NothingBehind
  <2>3. QED
    BY <1>3, <1>5, <2>2 DEF sextet
<1>6. QED
  BY <1>4, <1>5

\* Four groups put together are the three bytes they were cut from.
LEMMA Whole ==
  ASSUME NEW a \in 0 .. 255, NEW b \in 0 .. 255, NEW c \in 0 .. 255
  PROVE  word6(a \div 4, (a % 4) * 16 + b \div 16, (b % 16) * 4 + c \div 64, c % 64)
           = word(a, b, c)
<1>1. a = 4 * (a \div 4) + (a % 4) /\ b = 16 * (b \div 16) + (b % 16)
      /\ c = 64 * (c \div 64) + (c % 64)
  OBVIOUS
<1>2. /\ a \div 4 \in Int /\ a % 4 \in Int /\ b \div 16 \in Int /\ b % 16 \in Int
      /\ c \div 64 \in Int /\ c % 64 \in Int
  OBVIOUS
<1>3. ASSUME NEW p \in Int, NEW q \in Int, NEW r \in Int, NEW s \in Int, NEW t \in Int, NEW u \in Int
      PROVE  p * 262144 + (q * 16 + r) * 4096 + (s * 4 + t) * 64 + u
               = (4 * p + q) * 65536 + (16 * r + s) * 256 + (64 * t + u)
  OBVIOUS
<1>4. QED
  BY <1>1, <1>2, <1>3 DEF word, word6

\* The decoder's shifts take the three bytes out again.
LEMMA Bytes ==
  ASSUME NEW a \in 0 .. 255, NEW b \in 0 .. 255, NEW c \in 0 .. 255
  PROVE  bytes(word(a, b, c)) = << a, b, c >>
<1> DEFINE m == a * 65536 + b * 256 + c
<1>1. 256^(2 - 0) = 65536 /\ 256^(2 - 1) = 256 /\ 256^(2 - 2) = 1
  OBVIOUS
<1>2. m \div 65536 = a
  OBVIOUS
<1>3. m \div 256 = a * 256 + b
  OBVIOUS
<1>4. m \div 1 = m
  OBVIOUS
<1>5. a % 256 = a /\ (a * 256 + b) % 256 = b
  OBVIOUS
<1>6. m % 256 = c
  OBVIOUS
<1>7. byte(word(a, b, c), 0) = a
  BY <1>1, <1>2, <1>5 DEF byte, word
<1>8. byte(word(a, b, c), 1) = b
  BY <1>1, <1>3, <1>5 DEF byte, word
<1>9. byte(word(a, b, c), 2) = c
  BY <1>1, <1>4, <1>6 DEF byte, word
<1>10. QED
  BY <1>7, <1>8, <1>9 DEF bytes

\* What the decoder puts together from a group of characters is the triple.
LEMMA Quads ==
  ASSUME NEW data \in Seq(Byte), NEW g \in Nat, g < (Len(data) + 2) \div 3
  PROVE  quad(Encoding(data), g) = triple(data, g)
<1> DEFINE a == octet(data, 3 * g + 1)
           b == octet(data, 3 * g + 2)
           c == octet(data, 3 * g + 3)
           text == Encoding(data)
<1>2. a \in 0 .. 255 /\ b \in 0 .. 255 /\ c \in 0 .. 255
  BY Triples
<1>3. triple(data, g) = word(a, b, c)
  BY Triples
<1>4. /\ Group(data, 4 * g) = a \div 4
      /\ Group(data, 4 * g + 1) = (a % 4) * 16 + b \div 16
      /\ Group(data, 4 * g + 2) = (b % 16) * 4 + c \div 64
      /\ Group(data, 4 * g + 3) = c % 64
  BY <1>2, GroupValues
<1>5. /\ sextet(text, 4 * g + 1) = Group(data, 4 * g)
      /\ sextet(text, 4 * g + 2) = Group(data, 4 * g + 1)
      /\ sextet(text, 4 * g + 3) = Group(data, 4 * g + 2)
      /\ sextet(text, 4 * g + 4) = Group(data, 4 * g + 3)
  <2> DEFINE length == 4 * ((Len(data) + 2) \div 3)
  <2>1. /\ 4 * g + 1 \in 1 .. length /\ 4 * g + 2 \in 1 .. length
        /\ 4 * g + 3 \in 1 .. length /\ 4 * g + 4 \in 1 .. length
    <3>1. Len(data) \in Nat
      OBVIOUS
    <3>2. QED
      BY <3>1
  <2>2. /\ (4 * g + 1) - 1 = 4 * g /\ (4 * g + 2) - 1 = 4 * g + 1
        /\ (4 * g + 3) - 1 = 4 * g + 2 /\ (4 * g + 4) - 1 = 4 * g + 3
    OBVIOUS
  <2>3. /\ sextet(text, 4 * g + 1) = Group(data, (4 * g + 1) - 1)
        /\ sextet(text, 4 * g + 2) = Group(data, (4 * g + 2) - 1)
        /\ sextet(text, 4 * g + 3) = Group(data, (4 * g + 3) - 1)
        /\ sextet(text, 4 * g + 4) = Group(data, (4 * g + 4) - 1)
    BY <2>1, Sextets
  <2>4. QED
    BY <2>2, <2>3
<1> HIDE DEF a, b, c, text
<1>6. quad(text, g)
        = word6(a \div 4, (a % 4) * 16 + b \div 16, (b % 16) * 4 + c \div 64, c % 64)
  BY <1>4, <1>5 DEF quad, word6
<1>7. word6(a \div 4, (a % 4) * 16 + b \div 16, (b % 16) * 4 + c \div 64, c % 64)
        = word(a, b, c)
  BY <1>2, Whole, ZenonT(30)
<1>8. QED
  BY <1>3, <1>6, <1>7, Zenon DEF text

\* Its bytes are the data's.
LEMMA QuadBytes ==
  ASSUME NEW data \in Seq(Byte), NEW j \in 1 .. Len(data)
  PROVE  byte(quad(Encoding(data), (j - 1) \div 3), (j - 1) % 3) = data[j]
<1>1. Len(data) \in Nat
  OBVIOUS
<1>2. PICK g \in Nat, k \in 0 .. 2 : /\ j - 1 = 3 * g + k
                                     /\ (j - 1) \div 3 = g /\ (j - 1) % 3 = k
  <2>1. /\ (j - 1) \div 3 \in Nat /\ (j - 1) % 3 \in 0 .. 2
        /\ j - 1 = 3 * ((j - 1) \div 3) + ((j - 1) % 3)
    BY <1>1
  <2>2. QED
    BY <2>1
<1>3. j = 3 * g + (k + 1) /\ g < (Len(data) + 2) \div 3
  BY <1>1, <1>2
<1>4. quad(Encoding(data), g) = triple(data, g)
  BY <1>3, Quads
<1> DEFINE a == octet(data, 3 * g + 1)
           b == octet(data, 3 * g + 2)
           c == octet(data, 3 * g + 3)
<1>5. a \in 0 .. 255 /\ b \in 0 .. 255 /\ c \in 0 .. 255
  BY Triples
<1>6. triple(data, g) = word(a, b, c)
  BY Triples
<1>7. /\ k = 0 => octet(data, j) = a
      /\ k = 1 => octet(data, j) = b
      /\ k = 2 => octet(data, j) = c
  BY <1>3
<1>8. byte(triple(data, g), k) = octet(data, j)
  <2> HIDE DEF a, b, c
  <2>1. k = 0 \/ k = 1 \/ k = 2
    OBVIOUS
  <2>2. /\ byte(word(a, b, c), 0) = a /\ byte(word(a, b, c), 1) = b
        /\ byte(word(a, b, c), 2) = c
    <3>1. bytes(word(a, b, c)) = << a, b, c >>
      BY <1>5, Bytes, ZenonT(30)
    <3>2. QED
      BY <3>1 DEF bytes
  <2>3. QED
    BY <1>6, <1>7, <2>1, <2>2
<1>9. octet(data, j) = data[j]
  BY <1>1 DEF octet
<1>10. QED
  BY <1>2, <1>4, <1>8, <1>9

\* How many bytes the decoder makes of a text.
LEMMA DecodedLength ==
  ASSUME NEW data \in Seq(Byte), data # << >>
  PROVE  LET text == Encoding(data)
         IN  /\ Len(text) % 4 = 0
             /\ (Len(text) \div 4) * 3 - padding(text, Len(text)) - padding(text, Len(text) - 1)
                  = Len(data)
<1> DEFINE n == Len(data)
           groups == (8 * n + 5) \div 6
           marks == (4 - (groups % 4)) % 4
           length == 4 * ((n + 2) \div 3)
           text == Encoding(data)
<1>1. n \in Nat /\ n > 0
  OBVIOUS
<1>2. /\ groups \in Nat /\ marks \in Nat
      /\ length = groups + marks
      /\ mod_table[n % 3] = marks
  BY <1>1, Lengths
<1>3. /\ marks \in 0 .. 2
      /\ 3 * ((n + 2) \div 3) = n + marks
  <2>1. /\ n % 3 = 0 => mod_table[n % 3] = 0
        /\ n % 3 = 1 => mod_table[n % 3] = 2
        /\ n % 3 = 2 => mod_table[n % 3] = 1
    BY DEF mod_table
  <2>2. n % 3 \in 0 .. 2 /\ n = 3 * (n \div 3) + (n % 3) /\ n \div 3 \in Nat
    BY <1>1
  <2> HIDE DEF n, groups, marks
  <2>3. CASE n % 3 = 0
    <3>1. (n + 2) \div 3 = n \div 3
      BY <2>2, <2>3
    <3>2. QED
      BY <1>2, <2>1, <2>2, <2>3, <3>1
  <2>4. CASE n % 3 = 1
    <3>1. (n + 2) \div 3 = (n \div 3) + 1
      BY <2>2, <2>4
    <3>2. QED
      BY <1>2, <2>1, <2>2, <2>4, <3>1
  <2>5. CASE n % 3 = 2
    <3>1. (n + 2) \div 3 = (n \div 3) + 1
      BY <2>2, <2>5
    <3>2. QED
      BY <1>2, <2>1, <2>2, <2>5, <3>1
  <2>6. QED
    BY <2>2, <2>3, <2>4, <2>5
<1>4. /\ Len(text) = length
      /\ \A j \in 1 .. length : /\ j <= groups => text[j] = encoding_table[Group(data, j - 1)]
                                /\ ~(j <= groups) => text[j] = Equals
  BY Characters
<1>5. \A j \in 1 .. length : padding(text, j) = IF j <= groups THEN 0 ELSE 1
  <2> SUFFICES ASSUME NEW j \in 1 .. length
               PROVE  padding(text, j) = IF j <= groups THEN 0 ELSE 1
    OBVIOUS
  <2>1. sextet(text, j) = Group(data, j - 1)
    BY Sextets
  <2>2. Group(data, j - 1) \in 0 .. 63
    <3>1. j - 1 \in Nat
      BY <1>1
    <3>2. QED
      BY <3>1, GroupRange
  <2>3. encoding_table[Group(data, j - 1)] # Equals
    BY <2>2, Alphabet
  <2>4. QED
    BY <1>4, <2>3 DEF padding
<1> HIDE DEF n, groups, marks, text
<1>6. length \in Nat /\ length % 4 = 0 /\ length \div 4 = (n + 2) \div 3 /\ length >= 4
  BY <1>1
<1> DEFINE triples == (n + 2) \div 3
<1>7. triples \in Nat /\ 3 * triples = n + marks
  BY <1>1, <1>3
<1> HIDE DEF length, triples
<1>8. padding(text, length) + padding(text, length - 1) = marks
  <2>1. length \in 1 .. length /\ length - 1 \in 1 .. length
    BY <1>6
  <2>2. /\ padding(text, length) = IF length <= groups THEN 0 ELSE 1
        /\ padding(text, length - 1) = IF length - 1 <= groups THEN 0 ELSE 1
    BY <1>5, <2>1
  <2>3. QED
    BY <1>2, <1>3, <1>6, <2>2
<1>9. padding(text, length) \in Int /\ padding(text, length - 1) \in Int
  BY DEF padding
<1>10. length \div 4 = triples
  BY <1>6 DEF triples
<1>11. (length \div 4) * 3 - padding(text, length) - padding(text, length - 1) = n
  BY <1>1, <1>3, <1>7, <1>8, <1>9, <1>10
<1>12. QED
  BY <1>4, <1>6, <1>11 DEF n, text

\* Every text base64_encode makes of something comes back as the data through vox.c's
\* base64_decode, and is the text of the RFC: for data of every length.
THEOREM EncodesAnyData ==
  ASSUME NEW data \in Seq(Byte)
  PROVE  EncodesExactly(data, base64_encode(data))
<1>1. base64_encode(data) = Encoding(data)
  BY EncodeIsEncoding
<1>2. ASSUME data # << >> PROVE base64_decode(Encoding(data)) = data
  <2> DEFINE text == Encoding(data)
             decoded == [j \in 1 .. Len(data) |-> byte(quad(text, (j - 1) \div 3), (j - 1) % 3)]
  <2>1. base64_decode(text) = decoded
    <3>1. /\ Len(text) % 4 = 0
          /\ (Len(text) \div 4) * 3 - padding(text, Len(text)) - padding(text, Len(text) - 1)
               = Len(data)
      BY <1>2, DecodedLength
    <3> HIDE DEF text
    <3>2. QED
      BY <3>1 DEF base64_decode, byte
  <2>2. decoded = [j \in 1 .. Len(data) |-> data[j]]
    BY QuadBytes
  <2>3. data = [j \in 1 .. Len(data) |-> data[j]]
    OBVIOUS
  <2>4. QED
    BY <2>1, <2>2, <2>3
<1>3. QED
  BY <1>1, <1>2 DEF EncodesExactly
=============================================================================
