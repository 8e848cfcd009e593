------------------------------ MODULE Programs ------------------------------
(***************************************************************************)
(* The sequential code of the services and of the site, called with the    *)
(* inputs the constants give: each behaviour is one call and its answer.   *)
(* Some code has more than one outcome, which depends on memory it has not *)
(* written.  Behaviours without a call are the shift register's, whose     *)
(* code is called over and over.                                           *)
(***************************************************************************)
EXTENDS VoxSpeech, Base64, Md5, Crackme, BigInteger, StellarLine, ShuffleRegister

CONSTANTS Texts,      \* what vox is asked to speak
          Flags,      \* what its checker asks it to speak
          Data,       \* what base64 is given
          Messages,   \* what md5 is given, as sequences of pieces
          Names,      \* what md5 is given in its real size, with the digests of RFC 1321
          Crackmes,   \* records of a flag, constants, what is typed, and junk
          Divisions,  \* pairs of a dividend and a divisor
          Agreements, \* prime, base, the server's secret and the client's
          Exchanges   \* key, two texts, and the bytes read before a pause

VARIABLES call, answer, answered

programVars == <<call, answer, answered>>

NoCall == [program |-> "none"]

Rounds == INSTANCE Md5Rounds

FullMd5 == INSTANCE Md5 WITH BlockSize <- 64, WordBytes <- 4, WordValues <- 2^30,
                             Start <- Rounds!InitialState, Transform <- Rounds!transform

Calls ==
   [program : {"generate"}, text : Texts]
   \cup [program : {"recognize"}, flag : Flags]
   \cup [program : {"base64"}, data : Data]
   \cup [program : {"md5"}, pieces : Messages]
   \cup [program : {"md5 name"}, name : Names]
   \cup [program : {"crackme"}, hash : DOMAIN Hashes, input : Crackmes]
   \cup [program : {"divide"}, numbers : Divisions]
   \cup [program : {"agree"}, numbers : Agreements]
   \cup [program : {"talk"}, exchange : Exchanges]

-----------------------------------------------------------------------------
Idle(f) == /\ Counts = Filled(f)
           /\ headCountIndex = 0
           /\ tailCountIndex = Size - 1

ProgramsInit == /\ answer = <<>> /\ answered = FALSE
                /\ \/ call = NoCall /\ Init
                   \/ call \in Calls /\ Idle(<<>>)

Return(value) == /\ ~answered
                 /\ answer' = value
                 /\ answered' = TRUE
                 /\ UNCHANGED <<call, vars>>

Generate == call.program = "generate" /\ Return(Archived(call.text))

\* The checker's put and get: the flag and the word for its mark are spoken.
Recognize == /\ call.program = "recognize"
             /\ Return(recognize_flag(Archived(call.flag \o EqualSign), Len(call.flag)))

Encode == call.program = "base64" /\ Return(base64_encode(call.data))

Digest == call.program = "md5" /\ Return(DigestOf(call.pieces))

NameOf == /\ call.program = "md5 name"
          /\ Return(Rounds!Encoded(FullMd5!DigestOf(<<call.name.text>>)))

Solve == /\ call.program = "crackme"
         /\ \E outcome \in Outcomes(Hashes[call.hash], call.input.rands, call.input.flag,
                                    call.input.typed, call.input.junk) : Return(outcome)

DivideNumbers == call.program = "divide" /\ Return(Divide(call.numbers.x, call.numbers.y))

Agree == /\ call.program = "agree"
         /\ Return(Agreement(call.numbers.p, call.numbers.g, ToText(call.numbers.private),
                             call.numbers.secret))

Talk == /\ call.program = "talk"
        /\ Return(Exchange(call.exchange.key, call.exchange.first, call.exchange.second,
                           call.exchange.pause))

Push == call = NoCall /\ Next /\ UNCHANGED programVars

ProgramsNext == \/ Generate \/ Recognize \/ Encode \/ Digest \/ NameOf \/ Solve
                \/ DivideNumbers \/ Agree \/ Talk \/ Push

ProgramsSpec == ProgramsInit /\ [][ProgramsNext]_<<vars, programVars>>

-----------------------------------------------------------------------------
Answered(program) == answered /\ call.program = program

\* Whatever text vox is given, its archive has the letters whole and in order but for the
\* last one, though the file is compressed before stdio has written its end, and the 64
\* bytes that get_sample skips are a header of 58 and silence; a text without letters leaves
\* no archive.
LettersAreWhole == Answered("generate") => LettersWhole(call.text, answer)

\* The checker reads from the archive the flag it had spoken: the word behind it is what
\* the unwritten end costs, the digits' recordings are one piece each, and silences that
\* meet divide them.
FlagIsRecovered == Answered("recognize") => answer = call.flag

\* Base64 of vox.c is the one of RFC 4648, with data of any length modulo three.
Base64IsExact == Answered("base64") => EncodesExactly(call.data, answer)

\* A digest is that of the message whatever the pieces it came in, also where the padding
\* needs another block and where the count of bits carries into its second word; names
\* of letters have the digests of RFC 1321.
DigestIsOfTheMessage ==
   /\ Answered("md5") => answer = Rfc1321(FlattenSeq(call.pieces))
   /\ Answered("md5 name") => answer = call.name.digest

\* With each of the sixteen hashes a crackme is won by its flag and by nothing else, also
\* though the typed bytes overlap as scanf writes them.
OnlyFlagWins == Answered("crackme") => Decides(call.input.flag, call.input.typed,
                                               call.input.junk, answer)

\* Both ends of StellarAssist compute one session key, the power of the base by both secrets,
\* from texts; the division it stands on is exact where a guessed digit is one too large.
KeysAgree ==
   /\ Answered("divide") => IsDivision(call.numbers.x, call.numbers.y, answer)
   /\ Answered("agree") => Agreed(call.numbers.p, call.numbers.g,
                                  ToText(call.numbers.private), call.numbers.secret, answer)

\* Two messages sent one behind the other arrive as they were sent if the reader's pause
\* is between them and no line end comes out of the cipher, and not otherwise.
TextsSurvive == Answered("talk") => Survives(call.exchange.key, call.exchange.first,
                                             call.exchange.second, call.exchange.pause, answer)
=============================================================================
