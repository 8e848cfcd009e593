----------------------------- MODULE VoxSpeech -----------------------------
(***************************************************************************)
(* A text's way to audio and back: vox.c puts the recordings of its        *)
(* letters one behind the other and compresses the file, the checker cuts  *)
(* the audio at the silences and names the pieces.                         *)
(*                                                                         *)
(* A character is the number it stands for in base 36, so that a flag is a *)
(* sequence of hex digits 0 .. 15; any other character is Other.  Both     *)
(* cases of a letter have one recording.  Audio is a sequence of lengths:  *)
(* silence, sound, silence, ..., silence.                                  *)
(***************************************************************************)
EXTENDS VoxSamples, SequencesExt

CONSTANT BufSize   \* what stdio keeps back of a file that is not closed

ASSUME BufSizeAssumption == BufSize \in Nat \ {0}

Other == 36

Character == 0 .. Other

NoFile == <<>>

-----------------------------------------------------------------------------
\* Audio as runs.  Recursion goes by halves, to keep TLC's stack small.
Half(s) == [first |-> SubSeq(s, 1, Len(s) \div 2), second |-> SubSeq(s, (Len(s) \div 2) + 1, Len(s))]

RECURSIVE SizeOf(_)
SizeOf(runs) == IF Len(runs) < 2 THEN (IF runs = <<>> THEN 0 ELSE runs[1])
                ELSE SizeOf(Half(runs).first) + SizeOf(Half(runs).second)

Least(a, b) == IF a < b THEN a ELSE b

\* The first n bytes, and all but them.
Taken(runs, n) == [i \in DOMAIN runs |->
                      LET before == SizeOf(SubSeq(runs, 1, i - 1))
                      IN  IF n < before THEN 0 ELSE Least(runs[i], n - before)]

Skipped(runs, n) == [i \in DOMAIN runs |-> runs[i] - Taken(runs, n)[i]]

\* One behind the other: the last silence of one runs on in the first of the next.
Joined(a, b) == IF a = <<>> THEN b ELSE IF b = <<>> THEN a
                ELSE Front(a) \o <<Last(a) + Head(b)>> \o Tail(b)

-----------------------------------------------------------------------------
\* Mutant: the header is taken to be longer than every recording's first silence.
WAV_HEADER_SIZE_Large == 96

\* The header of a recording takes 58 bytes; the code skips 64.
WAV_HEADER_SIZE == 64

get_sample(letter) == Skipped((Numbers \o Alphabet)[letter + 1].sound,
                              WAV_HEADER_SIZE - wav_header.len)

\* Letters without a recording are left out.
RECURSIVE to_audio(_)
to_audio(str) == IF str \in {<<>>, <<Other>>} THEN <<>>
                 ELSE IF Len(str) = 1 THEN get_sample(str[1])
                 ELSE Joined(to_audio(Half(str).first), to_audio(Half(str).second))

\* Nothing to write is an error, and the file is not compressed then.
string_to_vox_file(string) ==
   LET audio == to_audio(string) IN
   IF SizeOf(audio) = 0 THEN NoFile ELSE Joined(wav_header.sound, audio)

\* The file is not closed before gzip reads it: stdio has written the whole buffers of it.
Flushed(size) == IF size <= BufSize THEN 0 ELSE size - (size % BufSize)

Archived(text) == LET file == string_to_vox_file(text)
                  IN  IF file = NoFile THEN NoFile ELSE Taken(file, Flushed(SizeOf(file)))

-----------------------------------------------------------------------------
\* vox_checker.py.  A run of 100 bytes of silence divides; what is left of a longer one
\* begins the next piece.
RECURSIVE Divided(_)
Divided(runs) ==
   LET long == {i \in DOMAIN runs : i % 2 = 1 /\ runs[i] >= 100}
       middle == CHOOSE i \in long :
                    Cardinality({j \in long : j < i}) = Cardinality(long) \div 2
   IN  IF long = {} THEN <<runs>>
       ELSE Divided(SubSeq(runs, 1, middle - 1))
            \o Divided(<<runs[middle] % 100>> \o SubSeq(runs, middle + 1, Len(runs)))

Stripped(piece) == SubSeq(piece, 2, Len(piece) - (Len(piece) % 2))

get_wav_nums(content) ==
   LET Spoken(piece) == SizeOf(piece) > 1000
       pieces == SelectSeq(Divided(content), Spoken)
   IN  [i \in DOMAIN pieces |-> Stripped(pieces[i])]

\* The digit whose recording the piece is.  The checker compares fuzzy hashes of the bytes,
\* which a few more bytes before the recording do not tell apart: the header of the file
\* and the first letter may be one piece.
Voice == [digit \in 0 .. 15 |-> Head(get_wav_nums(get_sample(digit)))]

Alike(wavnum, voice) == /\ IsSuffix(voice, wavnum)
                        /\ SizeOf(wavnum) - SizeOf(voice) < 100

find_num(wavnum) == IF \E digit \in 0 .. 15 : Alike(wavnum, Voice[digit])
                    THEN CHOOSE digit \in 0 .. 15 : Alike(wavnum, Voice[digit])
                    ELSE Other

\* The first pieces, as many as a flag has digits (40 in the game).
recognize_flag(content, digits) ==
   LET nums == get_wav_nums(content)
   IN  [i \in 1 .. Least(digits, Len(nums)) |-> find_num(nums[i])]

\* Mutant: the checker leaves the mark out.
EqualSignDropped == <<>>

\* The checker says "equalsign" for the mark at the end of a flag.
EqualSign == <<14, 26, 30, 10, 21, 28, 18, 16, 23>>

-----------------------------------------------------------------------------
\* What is heard: the sounds, without the silences.
Heard(runs) == [i \in 1 .. Len(runs) \div 2 |-> runs[2 * i]]

Letters(text) == SelectSeq(text, LAMBDA c : c # Other)

RECURSIVE HeardOf(_)
HeardOf(letters) == IF letters = <<>> THEN <<>>
                    ELSE HeardOf(Front(letters))
                         \o Heard((Numbers \o Alphabet)[Last(letters) + 1].sound)

\* The archive has the header and every letter but the last whole, and nothing of another
\* letter; of the last one it has a beginning.
LettersWhole(text, archive) ==
   LET letters == Letters(text) IN
   IF letters = <<>> THEN archive = NoFile
   ELSE /\ IsPrefix(<<54>> \o HeardOf(Front(letters)), Heard(archive))
        /\ SizeOf(archive) <= SizeOf(Joined(wav_header.sound, to_audio(letters)))
=============================================================================
