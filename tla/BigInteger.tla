----------------------------- MODULE BigInteger -----------------------------
(***************************************************************************)
(* The algorithms of BigInt.cs that the key agreement of StellarAssist     *)
(* stands on: division, reduction and powers modulo a number, and numbers  *)
(* as texts.  A number is a row of digits of DigitBits bits (32 in the     *)
(* code), here a natural whose digits are read one by one.  Only numbers   *)
(* that are not negative are modelled, and none as long as the code's      *)
(* array of 50 digits.  Sum, difference, product and shift of whole        *)
(* numbers are those of arithmetic.                                        *)
(***************************************************************************)
EXTENDS Integers, Sequences

CONSTANTS DigitBits, \* bits of a digit of data[]
          Radix      \* KeysExchanger.Radix, less than a digit's values

Base == 2^DigitBits

ASSUME RadixAssumption == /\ DigitBits \in Nat \ {0}
                          /\ Radix \in 2 .. Base - 1

RECURSIVE dataLength(_), Correct(_, _, _, _, _), Lessen(_, _, _), LongDivision(_, _, _, _),
          ShortDivision(_, _, _), Power(_, _, _, _, _), ToDigits(_), FromDigits(_)

dataLength(x) == IF x < Base THEN 1 ELSE 1 + dataLength(x \div Base)

Digit(x, i) == (x \div Base^i) % Base

-----------------------------------------------------------------------------
\* The shift that sets the upper bit of the divisor's first digit.
NormalisingShift(y) == CHOOSE s \in 0 .. DigitBits - 1 :
   LET first == Digit(y, dataLength(y) - 1) * 2^s IN Base <= 2 * first /\ first < Base

\* A digit of the quotient is guessed from the first digits and lowered while the next digits
\* show that it is too large.
Correct(q_hat, r_hat, first, second, next) ==
   IF q_hat = Base \/ q_hat * second > r_hat * Base + next
   THEN IF r_hat + first < Base THEN Correct(q_hat - 1, r_hat + first, first, second, next)
                                ELSE q_hat - 1
   ELSE q_hat

\* Mutant: the guess is taken for the digit.
LessenNot(q, y, part) == q

\* What is still too large shows when the whole divisor is subtracted.
Lessen(q, y, part) == IF q * y > part THEN Lessen(q - 1, y, part) ELSE q

\* From position pos of the remainder down; y is the shifted divisor.
LongDivision(remainder, y, pos, quotient) ==
   LET n      == dataLength(y)
       first  == Digit(y, n - 1)
       top    == Digit(remainder, pos) * Base + Digit(remainder, pos - 1)
       guess  == Correct(top \div first, top % first, first, Digit(y, n - 2),
                         Digit(remainder, pos - 2))
       weight == Base^(pos - n)
       part   == (remainder \div weight) % Base^(n + 1)
       q_hat  == Lessen(guess, y, part)
   IN  IF pos < n THEN [quotient |-> quotient, remainder |-> remainder]
       ELSE LongDivision(remainder - q_hat * y * weight, y, pos - 1,
                         quotient * Base + (q_hat % Base))

MultiByteDivide(x, y) ==
   LET shift   == NormalisingShift(y)
       divided == LongDivision(x * 2^shift, y * 2^shift, dataLength(x), 0)
   IN  [divided EXCEPT !.remainder = @ \div 2^shift]

ShortDivision(x, y, pos) ==
   IF pos < 0 THEN [quotient |-> 0, remainder |-> 0]
   ELSE LET upper    == ShortDivision(x, y, pos - 1)
            dividend == upper.remainder * Base + Digit(x, dataLength(x) - 1 - pos)
        IN  [quotient  |-> upper.quotient * Base + (dividend \div y),
             remainder |-> dividend % y]

SingleByteDivide(x, y) == ShortDivision(x, y, dataLength(x) - 1)

\* The operators / and %.
Divide(x, y) == IF x < y THEN [quotient |-> 0, remainder |-> x]
                ELSE IF dataLength(y) = 1 THEN SingleByteDivide(x, y)
                ELSE MultiByteDivide(x, y)

-----------------------------------------------------------------------------
\* For x below Base^(2k).  The last loop takes n away as long as it can.
BarrettReduction(x, n, constant) ==
   LET k     == dataLength(n)
       above == Base^(k + 1)
       q3    == ((x \div Base^(k - 1)) * constant) \div above
       r1    == (x % above) - ((q3 * n) % above)
   IN  (IF r1 < 0 THEN r1 + above ELSE r1) % n

\* From the exponent's lowest bit on; ends early when only ones are left to multiply.
Power(result, temp, exp, n, constant) ==
   IF exp = 0 THEN result
   ELSE LET multiplied == IF exp % 2 = 1 THEN BarrettReduction(result * temp, n, constant)
                                         ELSE result
            squared    == BarrettReduction(temp * temp, n, constant)
        IN  IF squared = 1 THEN multiplied
            ELSE Power(multiplied, squared, exp \div 2, n, constant)

ModPow(x, exp, n) ==
   Power(1, Divide(x, n).remainder, exp, n, Divide(Base^(2 * dataLength(n)), n).quotient)

-----------------------------------------------------------------------------
\* ToString and the constructor from a text: the digits of the radix, the highest first.
ToDigits(x) == IF x = 0 THEN <<>>
               ELSE LET divided == SingleByteDivide(x, Radix)
                    IN  Append(ToDigits(divided.quotient), divided.remainder)

ToText(x) == IF x = 0 THEN <<0>> ELSE ToDigits(x)

FromDigits(text) == IF text = <<>> THEN 0
                    ELSE FromDigits(SubSeq(text, 1, Len(text) - 1)) * Radix + text[Len(text)]

-----------------------------------------------------------------------------
\* KeysExchanger.  Both ends know prime and base, and each has a secret.
PublicKey(p, g, secret) == ToText(ModPow(FromDigits(g), FromDigits(secret), FromDigits(p)))

GetSessionKeyString(p, g, secret, clientKey) ==
   ToText(ModPow(FromDigits(clientKey), FromDigits(secret), FromDigits(p)))

\* The handler's side of the agreement and the client's.  What is sent is texts.
Agreement(p, g, private, secret) ==
   LET clientInfo == <<ToText(p), ToText(g), PublicKey(ToText(p), ToText(g), ToText(secret))>>
       answer     == PublicKey(clientInfo[1], clientInfo[2], private)
   IN  [server |-> GetSessionKeyString(clientInfo[1], clientInfo[2], private, clientInfo[3]),
        client |-> GetSessionKeyString(ToText(p), ToText(g), ToText(secret), answer)]

-----------------------------------------------------------------------------
\* Division with remainder, and powers, as arithmetic has them.
IsDivision(x, y, answer) == /\ answer.quotient = x \div y
                            /\ answer.remainder = x % y

PowerModulo(x, exp, n) ==
   LET power[e \in 0 .. exp] == IF e = 0 THEN 1 % n ELSE (power[e - 1] * x) % n IN power[exp]

\* Both ends have one key, and it is the power of the base by both secrets.
Agreed(p, g, private, secret, keys) ==
   /\ keys.server = keys.client
   /\ FromDigits(keys.server) = PowerModulo(g, FromDigits(private) * secret, p)
=============================================================================
