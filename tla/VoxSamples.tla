----------------------------- MODULE VoxSamples -----------------------------
(***************************************************************************)
(* include/vox: one recording per digit and letter, as an array of bytes.  *)
(* What is kept of it is its length and how the bytes behind the header of *)
(* the recording fall into silence (bytes 0xff) and sound: the lengths of  *)
(* a silence, a sound, a silence, and so on to a last silence.  A silence  *)
(* inside that is shorter than the 100 bytes at which the checker divides  *)
(* a file belongs to the sound around it.                                  *)
(***************************************************************************)
EXTENDS Integers, Sequences

Sample0 == [len |-> 8262, sound |-> <<1892, 4935, 1377>>]
Sample1 == [len |-> 7352, sound |-> <<1846, 4085, 1363>>]
Sample2 == [len |-> 6478, sound |-> <<1222, 3770, 1428>>]
Sample3 == [len |-> 6778, sound |-> <<1244, 15, 652, 3433, 1376>>]
Sample4 == [len |-> 6502, sound |-> <<1208, 1, 557, 3309, 1369>>]
Sample5 == [len |-> 7818, sound |-> <<1869, 3526, 568, 1, 107, 415, 1274>>]
Sample6 == [len |-> 5580, sound |-> <<1518, 2137, 115, 754, 405, 396, 197>>]
Sample7 == [len |-> 6398, sound |-> <<1275, 1, 466, 3160, 333, 81, 1024>>]
Sample8 == [len |-> 5256, sound |-> <<1936, 1829, 748, 540, 145>>]
Sample9 == [len |-> 7516, sound |-> <<1915, 4060, 148, 51, 1284>>]
SampleA == [len |-> 5526, sound |-> <<1178, 3380, 910>>]
SampleB == [len |-> 5150, sound |-> <<33, 4, 621, 3137, 107, 6, 102, 2, 1080>>]
SampleC == [len |-> 5142, sound |-> <<11, 3868, 117, 4, 119, 1, 964>>]
SampleD == [len |-> 5620, sound |-> <<989, 3320, 1253>>]
SampleE == [len |-> 5598, sound |-> <<51, 6, 1064, 3251, 1168>>]
SampleF == [len |-> 4632, sound |-> <<1169, 3254, 151>>]
SampleG == [len |-> 5498, sound |-> <<928, 3299, 114, 77, 569, 12, 215, 6, 220>>]
SampleH == [len |-> 6272, sound |-> <<707, 12, 454, 1952, 435, 1475, 1179>>]
SampleI == [len |-> 5784, sound |-> <<1125, 3481, 1120>>]
SampleJ == [len |-> 5806, sound |-> <<929, 3773, 1046>>]
SampleK == [len |-> 6012, sound |-> <<1162, 3712, 1080>>]
SampleL == [len |-> 5450, sound |-> <<1165, 3231, 160, 44, 750, 20, 22>>]
SampleM == [len |-> 5792, sound |-> <<1141, 3499, 1094>>]
SampleN == [len |-> 5588, sound |-> <<460, 7, 267, 5, 392, 3409, 209, 1, 262, 38, 231, 57, 192>>]
SampleO == [len |-> 5532, sound |-> <<1180, 3128, 205, 5, 271, 1, 684>>]
SampleP == [len |-> 5078, sound |-> <<699, 3172, 156, 6, 634, 7, 346>>]
SampleQ == [len |-> 5284, sound |-> <<485, 3540, 122, 1, 168, 26, 193, 116, 154, 114, 307>>]
SampleR == [len |-> 5462, sound |-> <<484, 6, 663, 3050, 1201>>]
SampleS == [len |-> 4940, sound |-> <<1169, 2325, 186, 1188, 14>>]
SampleT == [len |-> 5128, sound |-> <<467, 3631, 342, 1, 629>>]
SampleU == [len |-> 5830, sound |-> <<1061, 3528, 120, 149, 914>>]
SampleV == [len |-> 6232, sound |-> <<308, 11, 541, 4190, 1124>>]
SampleW == [len |-> 6990, sound |-> <<1094, 4870, 968>>]
SampleX == [len |-> 4452, sound |-> <<321, 1, 377, 1852, 294, 1548, 1>>]
SampleY == [len |-> 6302, sound |-> <<1047, 4049, 195, 1, 952>>]
SampleZ == [len |-> 5930, sound |-> <<440, 1, 121, 4076, 1234>>]

\* wav.h: the header written once before the letters.  It ends in the length of the data,
\* which is all ones: four bytes of what the checker takes for silence.
wav_header == [len |-> 58, sound |-> <<0, 54, 4>>]

\* numbers.h and alphabet.h.
Numbers == <<Sample0, Sample1, Sample2, Sample3, Sample4,
             Sample5, Sample6, Sample7, Sample8, Sample9>>

Alphabet == <<SampleA, SampleB, SampleC, SampleD, SampleE, SampleF, SampleG,
              SampleH, SampleI, SampleJ, SampleK, SampleL, SampleM, SampleN,
              SampleO, SampleP, SampleQ, SampleR, SampleS, SampleT, SampleU,
              SampleV, SampleW, SampleX, SampleY, SampleZ>>
=============================================================================
