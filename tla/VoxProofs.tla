----------------------------- MODULE VoxProofs -----------------------------
(***************************************************************************)
(* The invariants of vox, for every set of connections, lines, words and   *)
(* accounts, and every number of lines a client sends.                     *)
(***************************************************************************)
EXTENDS Vox, SequenceTheorems, WellFoundedInduction, TLAPS

\* What a child has read by the time it is at a label.
Named == \A c \in Conn :
            /\ cpc[c] \notin {"none", "start", "login", "dead"} => login[c] \in Word
            /\ cpc[c] \notin {"none", "start", "login", "password", "dead"} => password[c] \in Word
            /\ cpc[c] \notin {"flush", "sent", "dead"} => text[c] \in Text

\* The handler and its child begin together, and what the handler has yet to write to it
\* is of a line that it has just read.
Writing == {"password_prompt", "command_prompt", "text_prompt", "success", "download", "leave"}
Born == \A c \in Conn :
           /\ hpc[c] = "accept" => cpc[c] = "none" /\ out[c] = <<>> /\ pipe[c] = <<>>
           /\ cpc[c] = "none" => hpc[c] \in {"accept", "closed"}
           /\ rest[c] # <<>> => hpc[c] \in Writing

Says(c, p) == \E i \in 1..Len(out[c]) : out[c][i] = p

-----------------------------------------------------------------------------
(* The files *)

\* One gzip at a time makes an archive, and what it reads is there until it is done.
Zipping == \A c \in Conn : cpc[c] = "zip" =>
              /\ gz[AccountOf(c)] = Partial /\ wav[AccountOf(c)] # Absent
              /\ \A d \in Conn \ {c} : cpc[d] = "zip" => AccountOf(d) # AccountOf(c)
\* No file holds an unread text, nor a sound an archive, of before or a part of one.
Pure == \A a \in Account : wav[a] \notin {Garbage, Partial, Old} /\ gz[a] # Garbage
\* A part of an archive is being made whole, or is what a killed gzip left beside the sound.
Unmade == \A a \in Account : gz[a] = Partial =>
             \/ \E c \in Conn : cpc[c] = "zip" /\ AccountOf(c) = a
             \/ a \in faults /\ wav[a] # Absent
\* A file that was opened is there, or has become an archive.
Opened == \A c \in Conn : cpc[c] \in {"write", "gzip"} =>
             wav[AccountOf(c)] # Absent \/ gz[AccountOf(c)] # Absent
\* There is an archive, or it failed and there is a sound.
Something(a) == gz[a] # Absent \/ (a \in faults /\ wav[a] # Absent)
\* Success is told by a child that goes on to make an archive.
Told == \A c \in Conn : told[c] \/ Says(c, "LATER.") =>
           /\ cpc[c] \in {"open", "write", "gzip", "zip", "done", "stopped", "failed", "dead"}
           /\ cpc[c] = "done" => Something(AccountOf(c))

-----------------------------------------------------------------------------
(* What is in the files *)

Opener == {"write", "gzip", "zip", "done", "stopped"}

Met(c) == \E d \in Conn \ {c} : cpc[d] \in Opener /\ AccountOf(d) = AccountOf(c)

LinkedOpened == \A c \in Conn : linked[c] => cpc[c] \in Opener
\* A writer that has lost its file, or finds another's, met another, or a write failed.
Rivals == \A c \in Conn :
             /\ cpc[c] \in {"write", "gzip", "zip"} /\ ~linked[c] => Met(c)
             /\ cpc[c] = "write" /\ wav[AccountOf(c)] # Empty => Met(c)
             /\ cpc[c] \in {"gzip", "zip"} /\ wav[AccountOf(c)] = Empty =>
                   Met(c) \/ AccountOf(c) \in faults
\* Sounds and archives are generated for their account.
WavOwn == \A a \in Account, x \in Content \ {Absent, Empty} : wav[a] = x => GeneratedFor(a, x)
Made(a, x) == GeneratedFor(a, x) \/ (x = Old /\ a \in Left)
GzOwn  == \A a \in Account, x \in Content \ {Absent, Partial} : gz[a] = x => Made(a, x)
\* So is what a child has read to send, and what was sent.
InHand == \A c \in Conn : Says(c, "archive") \/ cpc[c] = "flush" =>
             /\ cpc[c] \in {"flush", "sent"} /\ (Says(c, "archive") => cpc[c] = "sent")
             /\ \A a \in Account, x \in Content \ {Absent, Partial} :
                   AccountOf(c) = a /\ text[c] = x => Made(a, x)
Sent   == \A c \in Conn : file[c] # Absent =>
             /\ cpc[c] = "sent"
             /\ \A a \in Account, x \in Content \ {Absent, Partial} :
                   AccountOf(c) = a /\ file[c] = x => Made(a, x)

-----------------------------------------------------------------------------
(* The conversation *)

\* What a child prints on the way to its file, and how much of it each side has seen.
All == [i \in 1..7 |-> CASE i = 1 -> "VOX_" [] i = 2 -> "API." [] i = 3 -> "LOGIN_"
                         [] i = 4 -> "PASSWORD_" [] i = 5 -> "COMMAND_"
                         [] i = 6 -> "DOWNLOAD|GENERATE_" [] i = 7 -> "TEXT_"]
Printed == [start |-> 0, login |-> 3, password |-> 4, command |-> 6, text |-> 7]
WordsRead == [start |-> 0, login |-> 0, password |-> 1, command |-> 2, text |-> 3,
              stat |-> 3, flush |-> 3]
Consumed == [banner |-> 0, login_prompt |-> 2, login |-> 3, password_prompt |-> 3,
             password |-> 4, command_prompt |-> 4, command_rest |-> 5, command |-> 6,
             text_prompt |-> 6, text |-> 7, success |-> 7]
Passed == [banner |-> 0, login_prompt |-> 0, login |-> 0, password_prompt |-> 1,
           password |-> 1, command_prompt |-> 2, command_rest |-> 2, command |-> 2,
           text_prompt |-> 3, text |-> 3, success |-> 4, download |-> 3, leave |-> 3]

Talks(c) == hpc[c] \in DOMAIN Consumed /\ cpc[c] \in DOMAIN Printed

\* The words on their way to the child.
Due(c) == Len(pipe[c]) + Len(rest[c])

\* What is in the pipe is what the child printed and the handler has not taken; and it has
\* had a word for every line, unless one had no word.
Right(c) == /\ Len(out[c]) = Printed[cpc[c]] - Consumed[hpc[c]]
            /\ \A i \in 1..Len(out[c]) : out[c][i] = All[Consumed[hpc[c]] + i]
            /\ ~blank[c] => Passed[hpc[c]] <= WordsRead[cpc[c]] + Due(c)

\* So it is while the child reads.
Placed == \A c \in Conn : Talks(c) => Right(c)

\* Without a line of several words it has had no more words than lines.
Tight == \A c \in Conn :
            hpc[c] \in DOMAIN Passed /\ cpc[c] \in DOMAIN WordsRead /\ ~crowded[c] =>
               WordsRead[cpc[c]] + Due(c) <= Passed[hpc[c]]

-----------------------------------------------------------------------------
(* Sequences *)

\* A set of numbers has a least one.
LEMMA Least ==
  ASSUME NEW S \in SUBSET Nat, S # {}
  PROVE  \E m \in S : \A k \in S : m <= k
<1> DEFINE R == {p \in Nat \X Nat : p[1] < p[2]}
<1>1. IsWellFoundedOn(R, Nat)
  BY NatLessThanWellFounded DEF OpToRel
<1>2. PICK m \in S : \A k \in S : ~(<<k, m>> \in R)
  BY <1>1, WFMin, Zenon
<1>3. SUFFICES ASSUME NEW k \in S PROVE m <= k
  BY <1>2
<1>4. ~(<<k, m>> \in R)
  BY <1>2
<1>5. <<k, m>> \in Nat \X Nat /\ <<k, m>>[1] = k /\ <<k, m>>[2] = m
  OBVIOUS
<1>6. QED
  BY <1>4, <1>5

\* EndOf is the place of the first piece that ends a read.
LEMMA FirstPlace ==
  ASSUME NEW c \in Conn, out[c] \in Seq(Piece), NEW ends
  PROVE  /\ EndOf(c, ends) \in 0..Len(out[c])
         /\ EndOf(c, ends) = 0 => \A j \in 1..Len(out[c]) : out[c][j] \notin ends
         /\ EndOf(c, ends) > 0 => /\ out[c][EndOf(c, ends)] \in ends
                                  /\ \A j \in 1..EndOf(c, ends) - 1 : out[c][j] \notin ends
<1> DEFINE I == {i \in 1..Len(out[c]) : out[c][i] \in ends}
<1>1. Len(out[c]) \in Nat
  BY LenProperties
<1>2. EndOf(c, ends) = IF I # {} THEN Min(I) ELSE 0
  BY DEF EndOf, SelectInSeq
<1>3. ASSUME I # {}
      PROVE  Min(I) \in I /\ \A k \in I : Min(I) <= k
  <2>1. I \in SUBSET Nat
    BY <1>1
  <2> HIDE DEF I
  <2>2. \E m \in I : \A k \in I : m <= k
    BY <1>3, <2>1, Least
  <2>3. QED
    BY <2>2 DEF Min
<1>4. CASE I = {}
  BY <1>1, <1>2, <1>4
<1>5. CASE I # {}
  <2>1. EndOf(c, ends) \in I /\ \A k \in I : EndOf(c, ends) <= k
    BY <1>2, <1>3, <1>5
  <2>2. QED
    BY <1>1, <2>1
<1>6. QED
  BY <1>4, <1>5

\* Every line is a sequence of words.
LEMMA LinesOfWords == \A l \in Line : l.words \in Seq(Word)
<1> SUFFICES ASSUME NEW l \in Line PROVE l.words \in Seq(Word)
  OBVIOUS
<1>1. l.words \in Seq(STRING)
  BY ScriptAssumption
<1>2. \A i \in 1..Len(l.words) : l.words[i] \in Word
  BY <1>1, LenProperties DEF Word, Range
<1>3. l.words = SubSeq(l.words, 1, Len(l.words))
  BY <1>1, SubSeqFull
<1>4. Len(l.words) \in Nat
  BY <1>1, LenProperties
<1>5. QED
  BY <1>2, <1>3, <1>4, SubSeqProperties

\* What a child prints is made of pieces.
LEMMA Printable ==
  \A s \in {Banner, Password, Command, TextIs, Success, Nothing, Unknown, Archive} :
     s \in Seq(Piece)
<1> USE DEF Piece, Lined, Spaced
<1>1. Banner \in Seq(Piece) /\ Password \in Seq(Piece) /\ Command \in Seq(Piece)
  BY DEF Banner, Password, Command
<1>2. TextIs \in Seq(Piece) /\ Archive \in Seq(Piece)
  BY DEF TextIs, Archive
<1>3. Success \in Seq(Piece)
  BY DEF Success
<1>4. Nothing \in Seq(Piece) /\ Unknown \in Seq(Piece)
  BY DEF Nothing, Unknown
<1>5. QED
  BY <1>1, <1>2, <1>3, <1>4

\* Printing adds at the end.
LEMMA Appended ==
  ASSUME NEW s \in Seq(Piece), NEW t \in Seq(Piece)
  PROVE  /\ s \o t \in Seq(Piece) /\ Len(s \o t) = Len(s) + Len(t)
         /\ \A i \in 1..Len(s) + Len(t) : (s \o t)[i] = IF i <= Len(s) THEN s[i] ELSE t[i - Len(s)]
  BY ConcatProperties

\* Reading takes from the front.
LEMMA Taken ==
  ASSUME NEW s \in Seq(Piece), NEW n \in 0..Len(s)
  PROVE  /\ SubSeq(s, n + 1, Len(s)) \in Seq(Piece) /\ Len(SubSeq(s, n + 1, Len(s))) = Len(s) - n
         /\ \A i \in 1..Len(s) - n : SubSeq(s, n + 1, Len(s))[i] = s[n + i]
<1>1. Len(s) \in Nat /\ \A i \in n + 1..Len(s) : s[i] \in Piece
  BY LenProperties
<1>2. QED
  BY <1>1, SubSeqProperties

-----------------------------------------------------------------------------
(* Types *)

Step(c) == Accept(c) \/ Send(c) \/ Handler(c) \/ Child(c) \/ Orphan(c)

\* The reads of the child, what follows them, and where each ends.
LEMMA Labels ==
  /\ DOMAIN Ends = {"banner", "login_prompt", "password_prompt", "command_prompt",
                    "command_rest", "text_prompt", "success"}
  /\ After["banner"] = "login_prompt" /\ After["login_prompt"] = "login"
  /\ After["login"] = "password_prompt" /\ After["password_prompt"] = "password"
  /\ After["password"] = "command_prompt" /\ After["command_prompt"] = "command_rest"
  /\ After["command_rest"] = "command" /\ After["text_prompt"] = "text"
  /\ After["text"] = "success" /\ After["success"] = "closed"
  /\ Ends["banner"] = Lined /\ Ends["success"] = Lined
  /\ \A r \in {"login_prompt", "password_prompt", "command_prompt", "command_rest",
               "text_prompt"} : Ends[r] = Spaced
<1>1. /\ DOMAIN Ends = {"banner", "login_prompt", "password_prompt", "command_prompt",
                        "command_rest", "text_prompt", "success"}
      /\ Ends["banner"] = Lined /\ Ends["success"] = Lined
  BY DEF Ends
<1>2. \A r \in {"login_prompt", "password_prompt", "command_prompt", "command_rest",
                "text_prompt"} : Ends[r] = Spaced
  BY DEF Ends
<1>3. /\ After["banner"] = "login_prompt" /\ After["login_prompt"] = "login"
      /\ After["login"] = "password_prompt" /\ After["password_prompt"] = "password"
      /\ After["password"] = "command_prompt" /\ After["command_prompt"] = "command_rest"
      /\ After["command_rest"] = "command" /\ After["text_prompt"] = "text"
      /\ After["text"] = "success" /\ After["success"] = "closed"
  BY DEF After
<1>4. QED
  BY <1>1, <1>2, <1>3

\* A word goes to the pipe at its end, and leaves a sequence from the front.
LEMMA PipeTyped ==
  ASSUME NEW s \in Seq(Word)
  PROVE  /\ \A w \in Word : Append(s, w) \in Seq(Word) /\ Len(Append(s, w)) = Len(s) + 1
         /\ s # <<>> => /\ Head(s) \in Word /\ Tail(s) \in Seq(Word)
                        /\ Len(s) \in Nat /\ Len(s) > 0 /\ Len(Tail(s)) = Len(s) - 1
<1>1. \A w \in Word : Append(s, w) \in Seq(Word) /\ Len(Append(s, w)) = Len(s) + 1
  BY AppendProperties
<1>2. s # <<>> => /\ Head(s) \in Word /\ Tail(s) \in Seq(Word)
                  /\ Len(s) \in Nat /\ Len(s) > 0 /\ Len(Tail(s)) = Len(s) - 1
  BY HeadTailProperties, EmptySeq, LenProperties
<1>3. QED
  BY <1>1, <1>2

\* What a client sends is a line.
LEMMA SentLines ==
  ASSUME TypeOK, NEW c \in Conn, Send(c)
  PROVE  arrived' \in [Conn -> Seq(Line)] /\ lines' \in [Conn -> 0..MaxLines]
<1>1. PICK l \in Line : arrived' = [arrived EXCEPT ![c] = Append(@, l)]
  <2>1. PICK l \in IF Patient THEN Script[hpc[c]] ELSE Line :
           arrived' = [arrived EXCEPT ![c] = Append(@, l)]
    BY DEF Send
  <2>2. l \in Line
    BY <2>1 DEF Send, Line
  <2>3. QED
    BY <2>1, <2>2
<1>2. arrived[c] \in Seq(Line)
  BY DEF TypeOK
<1>3. Append(arrived[c], l) \in Seq(Line)
  BY <1>2, AppendProperties
<1>4. arrived' \in [Conn -> Seq(Line)]
  BY <1>1, <1>3 DEF TypeOK
<1>5. lines' \in [Conn -> 0..MaxLines]
  BY BoundsAssumption DEF Send, TypeOK
<1>6. QED
  BY <1>4, <1>5

\* What a child says goes behind what it said, and it goes on or is dead.
LEMMA SayTyped ==
  ASSUME TypeOK, NEW c \in Conn, NEW next,
         NEW s \in {Banner, Password, Command, TextIs, Success, Nothing, Unknown, Archive},
         Say(c, s, next)
  PROVE  /\ out' \in [Conn -> Seq(Piece)]
         /\ cpc' = Set(cpc, c, next) \/ cpc' = Set(cpc, c, "dead")
<1>1. out[c] \in Seq(Piece) /\ s \in Seq(Piece)
  BY Printable DEF TypeOK
<1>2. out[c] \o s \in Seq(Piece)
  BY <1>1, Appended
<1>3. QED
  BY <1>2 DEF Say, TypeOK

\* The steps of a handler keep the types.
LEMMA HandlerTypes ==
  ASSUME TypeOK, NEW c \in Conn, Accept(c) \/ Send(c) \/ Handler(c)
  PROVE  TypeOK'
<1> USE DEF relay, passed, child, client, disk, Set
<1>1. CASE Accept(c)
  <2>1. hpc' \in [Conn -> {"accept", "closed", "download", "leave"} \cup DOMAIN Ends \cup Reads]
    BY <1>1, Labels DEF Accept, TypeOK
  <2>2. cpc' \in [Conn -> Reads \cup {"none", "start", "stat", "flush", "open", "write", "gzip",
                                    "zip", "done", "sent", "stopped", "failed", "dead"}]
    BY <1>1 DEF Accept, TypeOK
  <2>3. QED
    BY <1>1, <2>1, <2>2 DEF Accept, TypeOK
<1>2. CASE Send(c)
  <2>1. arrived' \in [Conn -> Seq(Line)] /\ lines' \in [Conn -> 0..MaxLines]
    BY <1>2, SentLines
  <2>2. QED
    BY <1>2, <2>1 DEF Send, TypeOK
<1> DEFINE left(i) == SubSeq(out[c], i + 1, Len(out[c]))
<1>3. \A i \in 0..Len(out[c]) : left(i) \in Seq(Piece)
  <2>1. out[c] \in Seq(Piece)
    BY DEF TypeOK
  <2>2. QED
    BY <2>1, Taken
<1>4. \A ends : EndOf(c, ends) \in 0..Len(out[c])
  <2>1. out[c] \in Seq(Piece)
    BY DEF TypeOK
  <2>2. QED
    BY <2>1, FirstPlace
<1>5. CASE Relay(c)
  <2> DEFINE i == EndOf(c, Ends[hpc[c]])
  <2>1. hpc[c] \in DOMAIN Ends
    BY <1>5 DEF Relay
  <2>2. /\ UNCHANGED <<file, blank, crowded, rest, arrived, lines, cpc, login, password, text,
                       linked, pipe, wav, gz, faults>>
        /\ \/ Relayed(c, i) /\ hpc' = Set(hpc, c, After[hpc[c]])
           \/ hpc' = Set(hpc, c, "closed") /\ UNCHANGED <<told, out>>
    BY <1>5 DEF Relay
  <2>3. left(i) \in Seq(Piece)
    BY <1>3, <1>4
  <2>4. After[hpc[c]] \in {"closed"} \cup DOMAIN Ends \cup Reads
    BY <2>1, Labels DEF Reads
  <2> HIDE DEF i
  <2>5. told' \in [Conn -> BOOLEAN]
    BY <2>2 DEF Relayed, TypeOK
  <2>6. out' \in [Conn -> Seq(Piece)]
    <3>1. out' = out \/ out' = Set(out, c, left(i))
      BY <2>2 DEF Relayed
    <3>2. out \in [Conn -> Seq(Piece)]
      BY DEF TypeOK
    <3> HIDE DEF left
    <3>3. QED
      BY <2>3, <3>1, <3>2
  <2>7. hpc' \in [Conn -> {"accept", "closed", "download", "leave"} \cup DOMAIN Ends \cup Reads]
    BY <2>2, <2>4 DEF TypeOK
  <2>8. QED
    BY <2>2, <2>5, <2>6, <2>7 DEF TypeOK
<1>6. CASE Download(c)
  <2> DEFINE i == EndOf(c, Spaced)
  <2>1. left(i) \in Seq(Piece)
    BY <1>3, <1>4
  <2>2. out' \in [Conn -> Seq(Piece)]
    <3>1. out' = Set(out, c, IF i = 0 THEN <<>> ELSE left(i))
      BY <1>6 DEF Download
    <3> HIDE DEF left, i
    <3>2. QED
      BY <3>1, <2>1 DEF TypeOK
  <2>3. file' \in [Conn -> Content]
    <3>1. \E b \in BOOLEAN : file' = Set(file, c, IF b THEN text[c] ELSE Absent)
      BY <1>6 DEF Download
    <3>2. QED
      BY <3>1 DEF TypeOK, Content
  <2>4. hpc' \in [Conn -> {"accept", "closed", "download", "leave"} \cup DOMAIN Ends \cup Reads]
    BY <1>6 DEF Download, TypeOK
  <2>5. QED
    BY <1>6, <2>2, <2>3, <2>4 DEF Download, TypeOK
<1>7. CASE ReadLine(c)
  <2>1. PICK l \in Line : arrived' = Set(arrived, c, <<>>) /\ rest' = Set(rest, c, l.words)
    <3>1. Head(arrived[c]) \in Line
      BY <1>7, HeadTailProperties DEF ReadLine, TypeOK
    <3>2. QED
      BY <1>7, <3>1 DEF ReadLine
  <2>2. rest' \in [Conn -> Seq(Word)]
    BY <2>1, LinesOfWords DEF TypeOK
  <2>3. arrived' \in [Conn -> Seq(Line)]
    BY <2>1 DEF TypeOK
  <2>4. blank' \in [Conn -> BOOLEAN] /\ crowded' \in [Conn -> BOOLEAN]
    BY <1>7 DEF ReadLine, TypeOK
  <2>5. hpc' \in [Conn -> {"accept", "closed", "download", "leave"} \cup DOMAIN Ends \cup Reads]
    <3>1. PICK h \in {"leave", "download"} \cup DOMAIN Ends : hpc' = Set(hpc, c, h)
      BY <1>7, Labels DEF ReadLine, Reads
    <3>2. QED
      BY <3>1 DEF TypeOK
  <2>6. QED
    BY <1>7, <2>2, <2>3, <2>4, <2>5 DEF ReadLine, TypeOK
<1>8. CASE PassOn(c)
  <2>1. /\ Head(rest[c]) \in Word /\ Tail(rest[c]) \in Seq(Word)
        /\ Append(pipe[c], Head(rest[c])) \in Seq(Word)
        /\ Len(Append(pipe[c], Head(rest[c]))) = Len(pipe[c]) + 1
    BY <1>8, PipeTyped DEF PassOn, TypeOK
  <2> DEFINE longer == Append(pipe[c], Head(rest[c]))
  <2>2. \/ /\ rest' = Set(rest, c, Tail(rest[c])) /\ pipe' = Set(pipe, c, longer)
           /\ Len(pipe[c]) < PipeSize
        \/ rest' = Set(rest, c, <<>>) /\ UNCHANGED pipe
    BY <1>8 DEF PassOn
  <2>3. Len(pipe[c]) \in Nat /\ PipeSize \in Nat
    BY PipeAssumption, LenProperties DEF TypeOK
  <2>4. longer \in Seq(Word) /\ Len(longer) = Len(pipe[c]) + 1
    BY <2>1
  <2> HIDE DEF longer
  <2>5. rest' \in [Conn -> Seq(Word)] /\ pipe' \in [Conn -> Seq(Word)]
    <3>1. <<>> \in Seq(Word)
      OBVIOUS
    <3>2. rest \in [Conn -> Seq(Word)] /\ pipe \in [Conn -> Seq(Word)]
      BY DEF TypeOK
    <3>3. Tail(rest[c]) \in Seq(Word)
      BY <2>1
    <3> DEFINE fewer == Tail(rest[c])
    <3> HIDE DEF fewer
    <3>4. /\ rest' = Set(rest, c, fewer) \/ rest' = Set(rest, c, <<>>)
          /\ pipe' = Set(pipe, c, longer) \/ pipe' = pipe
      BY <2>2 DEF fewer
    <3>5. fewer \in Seq(Word)
      BY <3>3 DEF fewer
    <3>6. QED
      BY <2>4, <3>1, <3>2, <3>4, <3>5
  <2>6. \A d \in Conn : Len(pipe'[d]) <= PipeSize
    <3>1. pipe \in [Conn -> Seq(Word)] /\ \A d \in Conn : Len(pipe[d]) <= PipeSize
      BY DEF TypeOK
    <3>2. pipe' = pipe \/ (pipe' = Set(pipe, c, longer) /\ Len(longer) <= PipeSize)
      BY <2>2, <2>3, <2>4
    <3>3. QED
      BY <3>1, <3>2
  <2>7. QED
    BY <1>8, <2>5, <2>6 DEF PassOn, TypeOK
<1>9. CASE Leave(c)
  BY <1>9 DEF Leave, TypeOK
<1>10. CASE Deadline(c)
  BY <1>10 DEF Deadline, TypeOK
<1>11. QED
  BY <1>1, <1>2, <1>5, <1>6, <1>7, <1>8, <1>9, <1>10 DEF Handler

\* The steps of a child keep the types.
LEMMA ChildTypes ==
  ASSUME TypeOK, Named, NEW c \in Conn, Child(c) \/ Orphan(c)
  PROVE  TypeOK'
<1> USE DEF relay, passed, child, client, disk, Set
<1> DEFINE L == Reads \cup {"none", "start", "stat", "flush", "open", "write", "gzip", "zip",
                            "done", "sent", "stopped", "failed", "dead"}
<1>1. CASE Begin(c)
  <2>1. out' \in [Conn -> Seq(Piece)] /\ cpc' \in [Conn -> L]
    <3>1. Say(c, Banner, "login")
      BY <1>1 DEF Begin
    <3>2. /\ out' \in [Conn -> Seq(Piece)]
          /\ cpc' = Set(cpc, c, "login") \/ cpc' = Set(cpc, c, "dead")
      BY <3>1, SayTyped
    <3>3. QED
      BY <3>2 DEF TypeOK, Reads
  <2>2. QED
    BY <1>1, <2>1 DEF Begin, TypeOK
<1>2. CASE Scan(c)
  <2>1. /\ pipe[c] # <<>> /\ pipe' = [pipe EXCEPT ![c] = Tail(@)]
        /\ UNCHANGED <<hpc, told, file, blank, crowded, rest, arrived, lines, linked, wav, gz,
                       faults>>
    BY <1>2 DEF Scan
  <2>2. /\ Head(pipe[c]) \in Word /\ Tail(pipe[c]) \in Seq(Word)
        /\ Len(pipe[c]) \in Nat /\ Len(Tail(pipe[c])) = Len(pipe[c]) - 1
    BY <2>1, PipeTyped DEF TypeOK
  <2>3. pipe' \in [Conn -> Seq(Word)] /\ \A d \in Conn : Len(pipe'[d]) <= PipeSize
    BY <2>1, <2>2, PipeAssumption DEF TypeOK
  <2>4. out' \in [Conn -> Seq(Piece)] /\ cpc' \in [Conn -> L]
    <3>1. \/ Say(c, Password, "password") \/ Say(c, Command, "command") \/ Say(c, TextIs, "text")
          \/ Say(c, Unknown, "failed") \/ Say(c, Success, "open")
          \/ cpc' = Set(cpc, c, "stat") /\ UNCHANGED out
      BY <1>2 DEF Scan
    <3>2. CASE cpc' = Set(cpc, c, "stat") /\ UNCHANGED out
      BY <3>2 DEF TypeOK
    <3>3. CASE ~(cpc' = Set(cpc, c, "stat") /\ UNCHANGED out)
      <4>1. /\ out' \in [Conn -> Seq(Piece)]
            /\ \E l \in {"password", "command", "text", "failed", "open", "dead"} :
                  cpc' = Set(cpc, c, l)
        BY <3>1, <3>3, SayTyped
      <4>2. QED
        BY <4>1 DEF TypeOK, Reads
    <3>4. QED
      BY <3>2, <3>3
  <2>5. login' \in [Conn -> Text] /\ password' \in [Conn -> Text] /\ text' \in [Conn -> Content]
    <3> DEFINE w == Head(pipe[c])
    <3>1. /\ login' = login \/ login' = Set(login, c, w)
          /\ password' = password \/ password' = Set(password, c, w)
          /\ text' = text \/ text' = Set(text, c, w)
      BY <1>2 DEF Scan
    <3>2. w \in Text /\ w \in Content
      BY <2>2 DEF Text, Content
    <3>3. login \in [Conn -> Text] /\ password \in [Conn -> Text] /\ text \in [Conn -> Content]
      BY DEF TypeOK
    <3> HIDE DEF w
    <3>4. login' \in [Conn -> Text] /\ password' \in [Conn -> Text]
      BY <3>1, <3>2, <3>3
    <3>5. text' \in [Conn -> Content]
      BY <3>1, <3>2, <3>3
    <3>6. QED
      BY <3>4, <3>5
  <2>6. QED
    BY <2>1, <2>3, <2>4, <2>5 DEF TypeOK
<1>3. CASE Stat(c)
  <2>1. AccountOf(c) \in Account
    BY <1>3, DirAssumption DEF Stat, Named, AccountOf
  <2>2. text' \in [Conn -> Content]
    <3>1. text' = text \/ text' = Set(text, c, gz[AccountOf(c)])
      BY <1>3 DEF Stat
    <3>2. gz[AccountOf(c)] \in Content /\ text \in [Conn -> Content]
      BY <2>1 DEF TypeOK
    <3>3. QED
      BY <3>1, <3>2
  <2>3. out' \in [Conn -> Seq(Piece)] /\ cpc' \in [Conn -> L]
    <3>1. \/ Say(c, Nothing, "sent") \/ Say(c, Archive, "sent")
          \/ cpc' \in {Set(cpc, c, "failed"), Set(cpc, c, "flush")} /\ UNCHANGED out
      BY <1>3 DEF Stat
    <3>2. ASSUME Say(c, Nothing, "sent") \/ Say(c, Archive, "sent")
          PROVE  /\ out' \in [Conn -> Seq(Piece)]
                 /\ cpc' = Set(cpc, c, "sent") \/ cpc' = Set(cpc, c, "dead")
      BY <3>2, SayTyped
    <3>3. QED
      BY <3>1, <3>2 DEF TypeOK
  <2>4. QED
    BY <1>3, <2>2, <2>3 DEF Stat, TypeOK
<1>4. CASE Open(c)
  <2>1. wav' \in [Account -> Content] /\ linked' \in [Conn -> BOOLEAN] /\ cpc' \in [Conn -> L]
    BY <1>4 DEF Open, TypeOK, Content
  <2>2. QED
    BY <1>4, <2>1 DEF Open, TypeOK
<1>5. CASE Write(c)
  <2>1. text[c] \in Content /\ Mixed \in Content
    BY DEF TypeOK, Content
  <2>2. wav' = wav \/ \E v \in Content : wav' = [wav EXCEPT ![AccountOf(c)] = v]
    BY <1>5, <2>1 DEF Write
  <2>3. wav' \in [Account -> Content]
    BY <2>2 DEF TypeOK
  <2>4. cpc' \in [Conn -> L]
    BY <1>5 DEF Write, TypeOK
  <2>5. faults' \subseteq Failing
    BY <1>5 DEF Write, Fault, TypeOK
  <2>6. QED
    BY <1>5, <2>3, <2>4, <2>5 DEF Write, TypeOK
<1>6. CASE Gzip(c)
  <2>1. gz' = gz \/ gz' = [gz EXCEPT ![AccountOf(c)] = Partial]
    BY <1>6 DEF Gzip
  <2>2. gz' \in [Account -> Content]
    BY <2>1 DEF TypeOK, Content
  <2>3. cpc' \in [Conn -> L]
    <3>1. cpc' = Set(cpc, c, "zip") \/ cpc' = Set(cpc, c, "done")
      BY <1>6 DEF Gzip
    <3>2. QED
      BY <3>1 DEF TypeOK
  <2>4. faults' \subseteq Failing
    BY <1>6 DEF Gzip, Fault, TypeOK
  <2>5. QED
    BY <1>6, <2>2, <2>3, <2>4 DEF Gzip, TypeOK
<1>7. CASE Compress(c)
  <2>1. AccountOf(c) \in Account
    BY <1>7, DirAssumption DEF Compress, Named, AccountOf
  <2>2. gz' \in [Account -> Content]
    BY <1>7, <2>1 DEF Compress, TypeOK, Content
  <2>3. wav' \in [Account -> Content] /\ linked' \in [Conn -> BOOLEAN] /\ cpc' \in [Conn -> L]
    BY <1>7 DEF Compress, TypeOK, Content
  <2>4. QED
    BY <1>7, <2>2, <2>3 DEF Compress, TypeOK
<1>8. CASE CompressFails(c)
  <2>1. gz' \in [Account -> Content] /\ cpc' \in [Conn -> L] /\ faults' \subseteq Failing
    BY <1>8 DEF CompressFails, Fault, TypeOK, Content
  <2>2. QED
    BY <1>8, <2>1 DEF CompressFails, TypeOK
<1>9. CASE Flush(c)
  <2>1. out' \in [Conn -> Seq(Piece)]
    <3>1. out[c] \o Archive \in Seq(Piece)
      BY Printable, Appended DEF TypeOK
    <3>2. QED
      BY <1>9, <3>1 DEF Flush, TypeOK
  <2>2. cpc' \in [Conn -> L]
    BY <1>9 DEF Flush, TypeOK
  <2>3. QED
    BY <1>9, <2>1, <2>2 DEF Flush, TypeOK
<1>10. CASE Orphan(c)
  <2>1. cpc' \in [Conn -> L]
    BY <1>10 DEF Orphan, TypeOK
  <2>2. QED
    BY <1>10, <2>1 DEF Orphan, TypeOK
<1>11. QED
  BY <1>1, <1>2, <1>3, <1>4, <1>5, <1>6, <1>7, <1>8, <1>9, <1>10 DEF Child

\* A step is a step of one connection: the others keep all that is theirs.
LEMMA OthersStay ==
  ASSUME TypeOK, NEW c \in Conn, Step(c), NEW d \in Conn, d # c
  PROVE  /\ hpc'[d] = hpc[d] /\ cpc'[d] = cpc[d] /\ out'[d] = out[d] /\ pipe'[d] = pipe[d]
         /\ login'[d] = login[d] /\ password'[d] = password[d] /\ text'[d] = text[d]
         /\ told'[d] = told[d] /\ file'[d] = file[d]
         /\ blank'[d] = blank[d] /\ crowded'[d] = crowded[d] /\ rest'[d] = rest[d]
<1> USE DEF relay, passed, child, client, disk, Set
<1>1. CASE Accept(c)
  BY <1>1 DEF Accept, TypeOK
<1>2. CASE Send(c)
  BY <1>2 DEF Send, TypeOK
<1>3. CASE Relay(c)
  BY <1>3 DEF Relay, Relayed, TypeOK
<1>4. CASE Download(c)
  BY <1>4 DEF Download, TypeOK
<1>5. CASE ReadLine(c)
  BY <1>5 DEF ReadLine, TypeOK
<1>6. CASE Deadline(c)
  BY <1>6 DEF Deadline, TypeOK
<1>7. CASE Begin(c)
  BY <1>7 DEF Begin, Say, TypeOK
<1>8. CASE Scan(c)
  BY <1>8 DEF Scan, Say, TypeOK
<1>9. CASE Orphan(c)
  BY <1>9 DEF Orphan, TypeOK
<1>10. CASE Stat(c)
  BY <1>10 DEF Stat, Say, TypeOK
<1>11. CASE Open(c)
  BY <1>11 DEF Open, TypeOK
<1>12. CASE Write(c)
  BY <1>12 DEF Write, TypeOK
<1>13. CASE Gzip(c)
  BY <1>13 DEF Gzip, TypeOK
<1>14. CASE Compress(c)
  BY <1>14 DEF Compress, TypeOK
<1>15. CASE PassOn(c)
  BY <1>15 DEF PassOn, TypeOK
<1>16. CASE Leave(c)
  BY <1>16 DEF Leave, TypeOK
<1>17. CASE Flush(c)
  BY <1>17 DEF Flush, TypeOK
<1>18. CASE CompressFails(c)
  BY <1>18 DEF CompressFails, TypeOK
<1>19. QED
  BY <1>1, <1>2, <1>3, <1>4, <1>5, <1>6, <1>7, <1>8, <1>9, <1>10, <1>11, <1>12, <1>13, <1>14,
     <1>15, <1>16, <1>17, <1>18 DEF Step, Handler, Child

\* The ways of a child.
Course == {<<"none", "start">>, <<"start", "login">>, <<"login", "password">>,
           <<"password", "command">>, <<"command", "stat">>, <<"command", "text">>,
           <<"command", "failed">>, <<"text", "open">>, <<"stat", "sent">>, <<"stat", "flush">>,
           <<"stat", "failed">>, <<"flush", "sent">>, <<"open", "write">>,
           <<"open", "failed">>, <<"write", "gzip">>, <<"write", "stopped">>,
           <<"gzip", "zip">>, <<"gzip", "done">>, <<"zip", "done">>}
Killable == Reads \cup {"start", "stat", "flush"}

\* A child goes its way or is killed by what it prints, and what it has read it keeps.
LEMMA ChildCourse ==
  ASSUME TypeOK, Born, NEW c \in Conn, Step(c)
  PROVE  /\ \/ cpc'[c] = cpc[c]
            \/ <<cpc[c], cpc'[c]>> \in Course
            \/ cpc[c] \in Killable /\ cpc'[c] = "dead"
         /\ \/ login'[c] = login[c] /\ ~(cpc[c] = "login" /\ cpc'[c] = "password")
            \/ cpc[c] = "login" /\ login'[c] \in Word
         /\ \/ password'[c] = password[c] /\ ~(cpc[c] = "password" /\ cpc'[c] = "command")
            \/ cpc[c] = "password" /\ password'[c] \in Word
         /\ \/ text'[c] = text[c]
            \/ cpc[c] = "text" /\ text'[c] \in Word
            \/ cpc[c] = "stat" /\ cpc'[c] \in {"flush", "sent", "dead"}
<1> USE DEF relay, passed, child, client, disk, Set
<1>1. CASE Accept(c) \/ Send(c) \/ Handler(c)
  <2>1. UNCHANGED <<login, password, text>>
    BY <1>1 DEF Accept, Send, Handler, Relay, Download, ReadLine, PassOn, Leave, Deadline
  <2>2. cpc'[c] = cpc[c] \/ (cpc[c] = "none" /\ cpc'[c] = "start")
    <3>1. cpc \in [Conn -> Reads \cup {"none", "start", "stat", "flush", "open", "write", "gzip",
                                      "zip", "done", "sent", "stopped", "failed", "dead"}]
      BY DEF TypeOK
    <3>2. CASE Accept(c)
      <4>1. cpc[c] = "none"
        BY <3>2 DEF Accept, Born
      <4>2. cpc' = cpc \/ cpc' = Set(cpc, c, "start")
        BY <3>2 DEF Accept
      <4>3. QED
        BY <3>1, <4>1, <4>2
    <3>3. CASE ~Accept(c)
      <4>1. UNCHANGED cpc
        BY <1>1, <3>3 DEF Send, Handler, Relay, Download, ReadLine, PassOn, Leave, Deadline
      <4>2. QED
        BY <4>1
    <3>4. QED
      BY <3>2, <3>3
  <2>3. <<"none", "start">> \in Course
    BY DEF Course
  <2>4. cpc[c] # "login" \/ cpc'[c] # "password"
    BY <2>2
  <2>5. cpc[c] # "password" \/ cpc'[c] # "command"
    BY <2>2
  <2>6. QED
    BY <2>1, <2>2, <2>3, <2>4, <2>5
<1>2. CASE Begin(c)
  <2>1. cpc[c] = "start" /\ cpc'[c] \in {"login", "dead"} /\ UNCHANGED <<login, password, text>>
    BY <1>2 DEF Begin, Say, TypeOK
  <2>2. QED
    BY <2>1 DEF Course, Killable
<1>3. CASE Scan(c)
  <2>1. Head(pipe[c]) \in Word
    BY <1>3, PipeTyped DEF Scan, TypeOK
  <2> DEFINE w == Head(pipe[c])
  <2>2. \/ /\ cpc[c] = "login" /\ cpc'[c] \in {"password", "dead"} /\ login'[c] = w
           /\ UNCHANGED <<password, text>>
        \/ /\ cpc[c] = "password" /\ cpc'[c] \in {"command", "dead"} /\ password'[c] = w
           /\ UNCHANGED <<login, text>>
        \/ /\ cpc[c] = "command" /\ cpc'[c] \in {"stat", "text", "failed", "dead"}
           /\ UNCHANGED <<login, password, text>>
        \/ /\ cpc[c] = "text" /\ cpc'[c] \in {"open", "dead"} /\ text'[c] = w
           /\ UNCHANGED <<login, password>>
    BY <1>3 DEF Scan, Say, TypeOK
  <2> HIDE DEF w
  <2>3. w \in Word
    BY <2>1 DEF w
  <2>4. QED
    BY <2>2, <2>3 DEF Course, Killable, Reads
<1>4. CASE Stat(c)
  <2>1. /\ cpc[c] = "stat" /\ UNCHANGED <<login, password>>
        /\ cpc'[c] \in {"flush", "sent", "dead"} \/ (cpc'[c] = "failed" /\ UNCHANGED text)
    BY <1>4 DEF Stat, Say, TypeOK
  <2>2. QED
    BY <2>1 DEF Course, Killable
<1>5. CASE Open(c) \/ Write(c) \/ Gzip(c) \/ Compress(c) \/ CompressFails(c)
  <2>1. UNCHANGED <<login, password, text>>
    BY <1>5 DEF Open, Write, Gzip, Compress, CompressFails
  <2>2. <<cpc[c], cpc'[c]>> \in Course /\ cpc[c] \in {"open", "write", "gzip", "zip"}
    BY <1>5 DEF Open, Write, Gzip, Compress, CompressFails, TypeOK, Course
  <2>3. QED
    BY <2>1, <2>2
<1>6. CASE Orphan(c)
  <2>1. /\ cpc[c] \in Reads /\ UNCHANGED <<login, password, text>>
        /\ cpc'[c] = "dead" \/ (cpc[c] = "text" /\ cpc'[c] = "open")
    BY <1>6 DEF Orphan, Waits, TypeOK
  <2>2. QED
    BY <2>1 DEF Course, Killable
<1>7. CASE Flush(c)
  <2>1. cpc[c] = "flush" /\ cpc'[c] \in {"sent", "dead"} /\ UNCHANGED <<login, password, text>>
    BY <1>7 DEF Flush, TypeOK
  <2>2. QED
    BY <2>1 DEF Course, Killable
<1>8. QED
  BY <1>1, <1>2, <1>3, <1>4, <1>5, <1>6, <1>7 DEF Step, Child

\* A child that has read a word has it for good.
LEMMA NamedStep ==
  ASSUME TypeOK, Named, Born, NEW c \in Conn, Step(c)
  PROVE  Named'
<1> SUFFICES ASSUME NEW d \in Conn
             PROVE  /\ cpc'[d] \notin {"none", "start", "login", "dead"} => login'[d] \in Word
                    /\ cpc'[d] \notin {"none", "start", "login", "password", "dead"}
                          => password'[d] \in Word
                    /\ cpc'[d] \notin {"flush", "sent", "dead"} => text'[d] \in Text
  BY DEF Named
<1>1. CASE d # c
  BY <1>1, OthersStay DEF Named
<1>2. CASE d = c
  <2>1. Word \subseteq Text
    BY DEF Text
  <2>2. cpc'[c] \notin {"none", "start", "login", "dead"} => login'[c] \in Word
    BY ChildCourse DEF Named, Course
  <2>3. cpc'[c] \notin {"none", "start", "login", "password", "dead"} => password'[c] \in Word
    BY ChildCourse DEF Named, Course
  <2>4. cpc'[c] \notin {"flush", "sent", "dead"} => text'[c] \in Text
    BY ChildCourse, <2>1 DEF Named, Course
  <2>5. QED
    BY <1>2, <2>2, <2>3, <2>4
<1>3. QED
  BY <1>1, <1>2

\* A handler that waits for its connection has no child, and a child has a handler.
LEMMA BornStep ==
  ASSUME TypeOK, Born, NEW c \in Conn, Step(c)
  PROVE  Born'
<1> USE DEF relay, passed, child, client, disk, Set
<1> SUFFICES ASSUME NEW d \in Conn
             PROVE  /\ hpc'[d] = "accept" => cpc'[d] = "none" /\ out'[d] = <<>> /\ pipe'[d] = <<>>
                    /\ cpc'[d] = "none" => hpc'[d] \in {"accept", "closed"}
                    /\ rest'[d] # <<>> => hpc'[d] \in Writing
  BY DEF Born
<1>1. CASE d # c
  BY <1>1, OthersStay DEF Born
<1>2. CASE d = c
  <2>1. CASE Accept(c)
    BY <1>2, <2>1 DEF Accept, TypeOK, Born, Writing
  <2>2. CASE Send(c)
    BY <1>2, <2>2 DEF Send, Born
  <2>3. CASE Handler(c)
    <3>1. hpc[c] \notin {"accept", "closed"} /\ UNCHANGED cpc
      BY <2>3, Labels DEF Handler, Relay, Download, ReadLine, PassOn, Leave, Deadline, Reads,
                          Born, Writing
    <3>2. cpc[c] # "none"
      BY <3>1 DEF Born
    <3>3. hpc'[c] # "accept" /\ (rest'[c] # <<>> => hpc'[c] \in Writing)
      <4>1. CASE Relay(c)
        <5>1. hpc[c] \in DOMAIN Ends /\ After[hpc[c]] # "accept"
          BY <4>1, Labels DEF Relay
        <5>2. /\ hpc' = Set(hpc, c, After[hpc[c]]) \/ hpc' = Set(hpc, c, "closed")
              /\ rest'[c] = <<>>
          BY <4>1 DEF Relay
        <5>3. QED
          BY <5>1, <5>2 DEF TypeOK
      <4>2. CASE ReadLine(c)
        <5>1. hpc[c] \in Reads /\ (hpc[c] # "command" => After[hpc[c]] \in Writing)
          BY <4>2, Labels DEF ReadLine, Reads, Writing
        <5>2. \/ hpc[c] # "command" /\ hpc' = Set(hpc, c, After[hpc[c]])
              \/ \E h \in {"download", "text_prompt", "leave"} : hpc' = Set(hpc, c, h)
          BY <4>2 DEF ReadLine
        <5>3. hpc'[c] \in Writing
          BY <5>1, <5>2 DEF TypeOK, Writing
        <5>4. QED
          BY <5>3 DEF Writing
      <4>3. CASE Download(c) \/ Leave(c)
        BY <4>3 DEF Download, Leave, TypeOK
      <4>4. CASE Deadline(c)
        <5>1. hpc'[c] = "closed" /\ rest'[c] = rest[c] /\ hpc[c] \notin Writing
          BY <4>4 DEF Deadline, TypeOK, Reads, Writing
        <5>2. QED
          BY <5>1 DEF Born
      <4>5. CASE PassOn(c)
        BY <3>1, <4>5 DEF PassOn, Born
      <4>6. QED
        BY <2>3, <4>1, <4>2, <4>3, <4>4, <4>5 DEF Handler
    <3>4. QED
      BY <1>2, <3>1, <3>2, <3>3
  <2>4. CASE Child(c) \/ Orphan(c)
    <3>1. UNCHANGED <<hpc, rest>> /\ cpc[c] # "none"
      BY <2>4 DEF Child, Begin, Scan, Stat, Flush, Open, Write, Gzip, Compress, CompressFails,
                  Orphan, Waits, Reads
    <3>2. hpc[c] # "accept"
      BY <3>1 DEF Born
    <3>3. cpc'[c] # "none"
      BY <3>1, ChildCourse DEF Course
    <3>4. QED
      BY <1>2, <3>1, <3>2, <3>3 DEF Born
  <2>5. QED
    BY <2>1, <2>2, <2>3, <2>4 DEF Step
<1>3. QED
  BY <1>1, <1>2

\* The base of the other invariants.
Base == TypeOK /\ Named /\ Born

\* It holds at first.
LEMMA BaseInit == Init => Base
<1> SUFFICES ASSUME Init PROVE Base
  OBVIOUS
<1>1. TypeOK
  <2>1. Garbage \in Text /\ Garbage \in Content /\ Absent \in Content
    BY DEF Text, Content
  <2>0. Old \in Content /\ PipeSize \in Nat
    BY PipeAssumption DEF Content
  <2>2. 0 \in 0..MaxLines
    BY BoundsAssumption
  <2>3. <<>> \in Seq(Line) /\ <<>> \in Seq(Word) /\ <<>> \in Seq(Piece)
    OBVIOUS
  <2>4. /\ hpc \in [Conn -> {"accept", "closed", "download", "leave"} \cup DOMAIN Ends \cup Reads]
        /\ cpc \in [Conn -> Reads \cup {"none", "start", "stat", "flush", "open", "write", "gzip",
                                       "zip", "done", "sent", "stopped", "failed", "dead"}]
    BY DEF Init
  <2>5. /\ arrived \in [Conn -> Seq(Line)] /\ lines \in [Conn -> 0..MaxLines]
        /\ blank \in [Conn -> BOOLEAN] /\ crowded \in [Conn -> BOOLEAN]
        /\ told \in [Conn -> BOOLEAN] /\ rest \in [Conn -> Seq(Word)]
        /\ pipe \in [Conn -> Seq(Word)] /\ out \in [Conn -> Seq(Piece)]
        /\ \A c \in Conn : Len(pipe[c]) <= PipeSize
    BY <2>2, <2>3, <2>0, EmptySeq DEF Init
  <2>6. /\ login \in [Conn -> Text] /\ password \in [Conn -> Text]
        /\ text \in [Conn -> Content] /\ file \in [Conn -> Content]
        /\ wav \in [Account -> Content] /\ gz \in [Account -> Content]
        /\ linked \in [Conn -> BOOLEAN] /\ faults \subseteq Failing
    BY <2>0, <2>1 DEF Init
  <2>7. QED
    BY <2>4, <2>5, <2>6 DEF TypeOK
<1>2. Named /\ Born
  BY DEF Init, Named, Born, Text
<1>3. QED
  BY <1>1, <1>2 DEF Base

\* And every step keeps it.
LEMMA BaseStep == Base /\ [Next]_vars => Base'
<1> SUFFICES ASSUME Base, [Next]_vars PROVE Base'
  OBVIOUS
<1>1. CASE UNCHANGED vars
  BY <1>1 DEF vars, Base, TypeOK, Named, Born
<1>2. CASE \E c \in Conn : Step(c)
  <2>1. PICK c \in Conn : Step(c)
    BY <1>2
  <2>2. TypeOK'
    BY <2>1, HandlerTypes, ChildTypes DEF Step, Base
  <2>3. Named' /\ Born'
    BY <2>1, NamedStep, BornStep DEF Base
  <2>4. QED
    BY <2>2, <2>3 DEF Base
<1>3. QED
  BY <1>1, <1>2 DEF Next, Step

\* What a child has read of its account does not change once it has read it.
LEMMA AccountsStay ==
  ASSUME Base, NEW c \in Conn, Step(c), NEW d \in Conn, cpc[d] \notin {"login", "password"}
  PROVE  login'[d] = login[d] /\ password'[d] = password[d] /\ AccountOf(d)' = AccountOf(d)
<1>1. login'[d] = login[d] /\ password'[d] = password[d]
  <2>1. CASE d = c
    BY <2>1, ChildCourse DEF Base
  <2>2. CASE d # c
    BY <2>2, OthersStay DEF Base
  <2>3. QED
    BY <2>1, <2>2
<1>2. QED
  BY <1>1 DEF AccountOf

\* A child that is past its second word has an account.
LEMMA AccountKnown ==
  ASSUME Base, NEW c \in Conn, cpc[c] \in {"stat", "flush", "open", "sent"} \cup Opener
  PROVE  AccountOf(c) \in Account
<1>1. login[c] \in Word /\ password[c] \in Word
  BY DEF Base, Named, Opener
<1>2. QED
  BY <1>1, DirAssumption DEF AccountOf

-----------------------------------------------------------------------------
(* What is printed *)

\* "LATER." is printed with the line of success only, and the archive alone.
LEMMA WhoSays ==
  /\ \A s \in {Banner, Password, Command, TextIs, Nothing, Unknown} :
        \A i \in 1..Len(s) : s[i] \notin {"LATER.", "archive"}
  /\ \A i \in 1..Len(Success) : Success[i] # "archive"
  /\ \A i \in 1..Len(Archive) : Archive[i] # "LATER."
<1>1. \A i \in 1..Len(Banner) : Banner[i] \notin {"LATER.", "archive"}
  BY DEF Banner
<1>2. \A i \in 1..Len(Password) : Password[i] \notin {"LATER.", "archive"}
  BY DEF Password
<1>3. \A i \in 1..Len(Command) : Command[i] \notin {"LATER.", "archive"}
  BY DEF Command
<1>4. \A i \in 1..Len(TextIs) : TextIs[i] \notin {"LATER.", "archive"}
  BY DEF TextIs
<1>5. \A i \in 1..Len(Nothing) : Nothing[i] \notin {"LATER.", "archive"}
  BY DEF Nothing
<1>6. \A i \in 1..Len(Unknown) : Unknown[i] \notin {"LATER.", "archive"}
  BY DEF Unknown
<1>7. \A i \in 1..Len(Success) : Success[i] # "archive"
  BY DEF Success
<1>8. \A i \in 1..Len(Archive) : Archive[i] # "LATER."
  BY DEF Archive
<1>9. QED
  BY <1>1, <1>2, <1>3, <1>4, <1>5, <1>6, <1>7, <1>8

\* Whoever says something has said it before, or says it now.
LEMMA SayAdds ==
  ASSUME TypeOK, NEW c \in Conn, NEW next, NEW p,
         NEW s \in {Banner, Password, Command, TextIs, Success, Nothing, Unknown, Archive},
         Say(c, s, next), Says(c, p)'
  PROVE  Says(c, p) \/ (cpc'[c] = next /\ \E i \in 1..Len(s) : s[i] = p)
<1>1. out[c] \in Seq(Piece) /\ s \in Seq(Piece)
  BY Printable DEF TypeOK
<1>2. PICK i \in 1..Len(out'[c]) : out'[c][i] = p
  BY DEF Says
<1>3. Len(out[c]) \in Nat /\ Len(s) \in Nat
  BY <1>1, LenProperties
<1>4. CASE out'[c] = out[c]
  BY <1>2, <1>4 DEF Says
<1>5. CASE out'[c] = out[c] \o s /\ cpc'[c] = next
  <2>1. CASE i <= Len(out[c])
    <3>1. i \in 1..Len(out[c]) /\ out[c][i] = p
      BY <1>1, <1>2, <1>3, <1>5, <2>1, Appended
    <3>2. QED
      BY <3>1 DEF Says
  <2>2. CASE i > Len(out[c])
    <3>1. Len(out[c] \o s) = Len(out[c]) + Len(s)
      BY <1>1, Appended
    <3>2. i \in 1..Len(out[c]) + Len(s)
      BY <1>2, <1>5, <3>1
    <3>3. i - Len(out[c]) \in 1..Len(s)
      BY <1>3, <2>2, <3>2
    <3>4. s[i - Len(out[c])] = p
      BY <1>1, <1>2, <1>3, <1>5, <2>2, <3>2, Appended
    <3>5. QED
      BY <1>5, <3>3, <3>4
  <2>3. QED
    BY <1>2, <1>3, <2>1, <2>2
<1>6. QED
  BY <1>4, <1>5 DEF Say, Set, TypeOK

\* Whoever says anything else says neither.
LEMMA SaysNeither ==
  ASSUME TypeOK, NEW c \in Conn, NEW next, NEW p \in {"LATER.", "archive"},
         NEW s \in {Banner, Password, Command, TextIs, Nothing, Unknown},
         Say(c, s, next), Says(c, p)'
  PROVE  Says(c, p)
<1>1. \A t \in {Banner, Password, Command, TextIs, Success, Nothing, Unknown, Archive} :
         Say(c, t, next) => Says(c, p) \/ (cpc'[c] = next /\ \E i \in 1..Len(t) : t[i] = p)
  BY SayAdds, SMTT(30)
<1>2. Says(c, p) \/ (cpc'[c] = next /\ \E i \in 1..Len(s) : s[i] = p)
  BY <1>1
<1>3. \A i \in 1..Len(s) : s[i] # p
  BY WhoSays
<1>4. QED
  BY <1>2, <1>3

\* Whatever is left of what was said was said.
LEMMA TakeKeeps ==
  ASSUME TypeOK, NEW c \in Conn, NEW n \in 0..Len(out[c]), NEW p,
         out'[c] = SubSeq(out[c], n + 1, Len(out[c])), Says(c, p)'
  PROVE  Says(c, p)
<1>1. out[c] \in Seq(Piece)
  BY DEF TypeOK
<1>2. Len(out[c]) \in Nat
  BY <1>1, LenProperties
<1>3. PICK i \in 1..Len(out'[c]) : out'[c][i] = p
  BY DEF Says
<1>4. i \in 1..Len(out[c]) - n /\ out[c][n + i] = p
  BY <1>1, <1>3, Taken
<1>5. n + i \in 1..Len(out[c])
  BY <1>2, <1>4
<1>6. QED
  BY <1>4, <1>5 DEF Says

\* Only a child that has read its text says "LATER.", only DOWNLOAD says the archive,
\* and the client is told what was said.
LEMMA SaysStep ==
  ASSUME Base, NEW c \in Conn, Step(c)
  PROVE  /\ Says(c, "LATER.")' => Says(c, "LATER.") \/ (cpc[c] = "text" /\ cpc'[c] = "open")
         /\ Says(c, "archive")' => \/ Says(c, "archive")
                                   \/ /\ Stat(c) /\ cpc'[c] = "sent"
                                      /\ gz[AccountOf(c)] # Absent /\ text'[c] = gz[AccountOf(c)]
                                   \/ cpc[c] = "flush" /\ cpc'[c] = "sent" /\ text'[c] = text[c]
         /\ told'[c] => told[c] \/ Says(c, "LATER.")
<1> USE DEF relay, passed, child, client, disk, Set
<1>1. TypeOK
  BY DEF Base
<1>2. CASE Relay(c) \/ Download(c)
  <2>1. out[c] \in Seq(Piece)
    BY <1>1 DEF TypeOK
  <2>2. Len(out[c]) \in Nat
    BY <2>1, LenProperties
  <2>3. PICK n \in 0..Len(out[c]) :
           /\ \/ out'[c] = out[c]
              \/ out'[c] = <<>>
              \/ out'[c] = SubSeq(out[c], n + 1, Len(out[c]))
           /\ told'[c] => told[c] \/ "LATER." \in Range(SubSeq(out[c], 1, n))
    <3>1. CASE Relay(c)
      <4> DEFINE i == EndOf(c, Ends[hpc[c]])
      <4>1. i \in 0..Len(out[c])
        BY <2>1, FirstPlace
      <4>2. Relayed(c, i) \/ UNCHANGED <<told, out>>
        BY <3>1 DEF Relay
      <4> HIDE DEF i
      <4>3. CASE Relayed(c, i)
        <5>1. out'[c] = SubSeq(out[c], i + 1, Len(out[c]))
          BY <1>1, <4>3 DEF Relayed, TypeOK
        <5>2. told'[c] => told[c] \/ "LATER." \in Range(SubSeq(out[c], 1, i))
          BY <1>1, <4>3 DEF Relayed, TypeOK
        <5>3. QED
          BY <4>1, <5>1, <5>2
      <4>4. QED
        BY <4>1, <4>2, <4>3
    <3>2. CASE Download(c)
      <4> DEFINE i == EndOf(c, Spaced)
      <4>1. i \in 0..Len(out[c])
        BY <2>1, FirstPlace
      <4>2. /\ out' = Set(out, c, IF i = 0 THEN <<>> ELSE SubSeq(out[c], i + 1, Len(out[c])))
            /\ UNCHANGED told
        BY <3>2 DEF Download
      <4> HIDE DEF i
      <4>3. out'[c] = <<>> \/ out'[c] = SubSeq(out[c], i + 1, Len(out[c]))
        BY <1>1, <4>2 DEF TypeOK
      <4>4. QED
        BY <4>1, <4>2, <4>3
    <3>3. QED
      BY <1>2, <3>1, <3>2
  <2>4. ASSUME NEW p, Says(c, p)'
        PROVE  Says(c, p)
    <3>1. CASE out'[c] = out[c]
      BY <2>4, <3>1 DEF Says
    <3>2. CASE out'[c] = <<>>
      <4>1. Len(<<>>) = 0
        OBVIOUS
      <4>2. QED
        BY <2>4, <3>2, <4>1 DEF Says
    <3>3. CASE out'[c] = SubSeq(out[c], n + 1, Len(out[c]))
      BY <1>1, <2>4, <3>3, TakeKeeps
    <3>4. QED
      BY <2>3, <3>1, <3>2, <3>3
  <2>5. "LATER." \in Range(SubSeq(out[c], 1, n)) => Says(c, "LATER.")
    <3> SUFFICES ASSUME "LATER." \in Range(SubSeq(out[c], 1, n)) PROVE Says(c, "LATER.")
      OBVIOUS
    <3> DEFINE f == SubSeq(out[c], 1, n)
    <3>1. \A i \in 1..n : out[c][i] \in Piece
      BY <2>1, <2>2, LenProperties
    <3>2. f \in Seq(Piece) /\ Len(f) = n /\ \A i \in 1..n : f[i] = out[c][i]
      BY <2>1, <2>2, <3>1, SubSeqProperties
    <3>3. DOMAIN f = 1..n
      BY <3>2, LenProperties
    <3> HIDE DEF f
    <3>4. PICK i \in 1..n : f[i] = "LATER."
      BY <3>3 DEF f, Range
    <3>5. i \in 1..Len(out[c])
      BY <2>2
    <3>6. QED
      BY <3>2, <3>4, <3>5 DEF Says
  <2>6. QED
    BY <2>3, <2>4, <2>5
<1>3. CASE Begin(c)
  <2>1. Say(c, Banner, "login") /\ UNCHANGED told
    BY <1>3 DEF Begin
  <2>2. \A p \in {"LATER.", "archive"} : Says(c, p)' => Says(c, p)
    BY <1>1, <2>1, SaysNeither
  <2>3. QED
    BY <2>1, <2>2
<1>4. CASE Scan(c)
  <2>1. UNCHANGED told
    BY <1>4 DEF Scan
  <2>2. CASE \/ Say(c, Password, "password") \/ Say(c, Command, "command")
             \/ Say(c, TextIs, "text") \/ Say(c, Unknown, "failed")
    <3>1. \A p \in {"LATER.", "archive"} : Says(c, p)' => Says(c, p)
      BY <1>1, <2>2, SaysNeither
    <3>2. QED
      BY <2>1, <3>1
  <2>3. CASE cpc[c] = "text" /\ Say(c, Success, "open")
    <3>1. Says(c, "archive")' => Says(c, "archive")
      BY <1>1, <2>3, SayAdds, WhoSays
    <3>2. Says(c, "LATER.")' => Says(c, "LATER.") \/ cpc'[c] = "open"
      BY <1>1, <2>3, SayAdds
    <3>3. QED
      BY <2>1, <2>3, <3>1, <3>2
  <2>4. CASE UNCHANGED out
    BY <2>1, <2>4 DEF Says
  <2>5. QED
    BY <1>4, <2>2, <2>3, <2>4 DEF Scan
<1>5. CASE Stat(c)
  <2>1. UNCHANGED told
    BY <1>5 DEF Stat
  <2>2. CASE UNCHANGED out
    BY <2>1, <2>2 DEF Says
  <2>3. CASE Say(c, Nothing, "sent")
    <3>1. \A p \in {"LATER.", "archive"} : Says(c, p)' => Says(c, p)
      BY <1>1, <2>3, SaysNeither
    <3>2. QED
      BY <2>1, <3>1
  <2>4. CASE /\ Say(c, Archive, "sent") /\ gz[AccountOf(c)] # Absent
             /\ text' = Set(text, c, gz[AccountOf(c)])
    <3>0. Say(c, Archive, "sent")
      BY <2>4
    <3>1. Says(c, "LATER.")' => Says(c, "LATER.")
      BY <1>1, <3>0, SayAdds, WhoSays
    <3>2. Says(c, "archive")' => Says(c, "archive") \/ cpc'[c] = "sent"
      BY <1>1, <3>0, SayAdds
    <3>3. text'[c] = gz[AccountOf(c)]
      BY <1>1, <2>4 DEF TypeOK
    <3>4. QED
      BY <1>5, <2>1, <2>4, <3>1, <3>2, <3>3
  <2>5. QED
    BY <1>5, <2>2, <2>3, <2>4 DEF Stat
<1>6. CASE Flush(c)
  <2>1. Say(c, Archive, "sent") /\ cpc[c] = "flush" /\ UNCHANGED <<told, text>>
    BY <1>6 DEF Flush, Say
  <2>2. Says(c, "LATER.")' => Says(c, "LATER.")
    BY <1>1, <2>1, SayAdds, WhoSays
  <2>3. Says(c, "archive")' => Says(c, "archive") \/ cpc'[c] = "sent"
    BY <1>1, <2>1, SayAdds
  <2>4. QED
    BY <2>1, <2>2, <2>3
<1>7. CASE \/ Accept(c) \/ Send(c) \/ ReadLine(c) \/ PassOn(c) \/ Leave(c) \/ Deadline(c)
           \/ Orphan(c) \/ Open(c) \/ Write(c) \/ Gzip(c) \/ Compress(c) \/ CompressFails(c)
  <2>1. UNCHANGED <<told, out>>
    BY <1>7 DEF Accept, Send, ReadLine, PassOn, Leave, Deadline, Orphan, Open, Write, Gzip,
                Compress, CompressFails
  <2>2. QED
    BY <2>1 DEF Says
<1>8. QED
  BY <1>2, <1>3, <1>4, <1>5, <1>6, <1>7 DEF Step, Handler, Child

-----------------------------------------------------------------------------
(* What is there *)

\* What a step does to the files: nothing, or sound is there and stays, or an archive is
\* begun or made.
LEMMA FilesStep ==
  ASSUME Base, NEW c \in Conn, Step(c)
  PROVE  \/ /\ UNCHANGED gz
            /\ \A a \in Account : wav[a] # Absent => wav'[a] # Absent
            /\ cpc[c] = "open" /\ cpc'[c] = "write" => wav'[AccountOf(c)] # Absent
            /\ cpc'[c] # "zip" \/ cpc[c] = "zip"
            /\ cpc'[c] # "done" \/ cpc[c] = "done"
         \/ Gzip(c)
         \/ Compress(c)
         \/ CompressFails(c)
<1> USE DEF relay, passed, child, client, disk, Set
<1>1. CASE Open(c)
  <2>1. UNCHANGED gz /\ cpc[c] = "open" /\ cpc'[c] \in {"write", "failed"}
    BY <1>1 DEF Open, Base, TypeOK
  <2>2. AccountOf(c) \in Account
    BY <2>1, AccountKnown
  <2>3. wav' = [wav EXCEPT ![AccountOf(c)] = Empty] \/ (cpc' = Set(cpc, c, "failed") /\ wav' = wav)
    BY <1>1 DEF Open
  <2>4. wav \in [Account -> Content] /\ Empty # Absent
    BY ValuesAssumption DEF Base, TypeOK
  <2>5. \A a \in Account : wav[a] # Absent => wav'[a] # Absent
    BY <2>2, <2>3, <2>4
  <2>6. cpc'[c] = "write" => wav'[AccountOf(c)] # Absent
    BY <2>2, <2>3, <2>4 DEF Base, TypeOK
  <2>7. QED
    BY <2>1, <2>5, <2>6
<1>2. CASE Write(c)
  <2>1. UNCHANGED gz /\ cpc[c] = "write" /\ cpc'[c] \in {"gzip", "stopped"}
    BY <1>2 DEF Write, Base, TypeOK
  <2>2. AccountOf(c) \in Account /\ text[c] \in Text
    BY <2>1, AccountKnown DEF Opener, Base, Named
  <2>3. text[c] # Absent /\ Mixed # Absent
    BY <2>2, ValuesAssumption
  <2>4. wav' = wav \/ \E v \in {text[c], Mixed} : wav' = [wav EXCEPT ![AccountOf(c)] = v]
    BY <1>2 DEF Write
  <2>5. \A a \in Account : wav[a] # Absent => wav'[a] # Absent
    BY <2>3, <2>4 DEF Base, TypeOK
  <2>6. QED
    BY <2>1, <2>5
<1>3. CASE \/ Accept(c) \/ Send(c) \/ Handler(c) \/ Begin(c) \/ Scan(c) \/ Stat(c) \/ Flush(c)
           \/ Orphan(c)
  <2>1. UNCHANGED <<wav, gz>>
    BY <1>3 DEF Accept, Send, Handler, Relay, Download, ReadLine, PassOn, Leave, Deadline, Begin,
                Scan, Stat, Flush, Orphan
  <2>2. \/ cpc'[c] = cpc[c]
        \/ cpc'[c] \notin {"write", "zip", "done"}
    <3>1. CASE Accept(c)
      BY <3>1 DEF Accept, Base, TypeOK
    <3>2. CASE Send(c) \/ Handler(c)
      BY <3>2 DEF Send, Handler, Relay, Download, ReadLine, PassOn, Leave, Deadline
    <3>3. CASE Begin(c) \/ Stat(c) \/ Flush(c) \/ Orphan(c)
      BY <3>3 DEF Begin, Stat, Flush, Orphan, Say, Base, TypeOK
    <3>4. CASE Scan(c)
      BY <3>4 DEF Scan, Say, Base, TypeOK
    <3>5. QED
      BY <1>3, <3>1, <3>2, <3>3, <3>4
  <2>3. QED
    BY <2>1, <2>2
<1>4. QED
  BY <1>1, <1>2, <1>3 DEF Step, Child

\* What has failed stays known.
LEMMA FaultsGrow ==
  ASSUME NEW c \in Conn, Step(c)
  PROVE  faults \subseteq faults'
BY DEF Step, Accept, Send, Handler, Relay, Download, ReadLine, PassOn, Leave, Deadline, Child, Begin,
       Scan, Stat, Flush, Open, Write, Gzip, Compress, CompressFails, Orphan, Fault, disk

\* What gzip does: nothing if there is an archive, or no sound, or it fails.
LEMMA GzipStep ==
  ASSUME Base, NEW c \in Conn, Gzip(c)
  PROVE  /\ AccountOf(c) \in Account /\ cpc[c] = "gzip" /\ UNCHANGED wav
         /\ \/ /\ wav[AccountOf(c)] # Absent /\ gz[AccountOf(c)] = Absent /\ cpc'[c] = "zip"
               /\ gz' = [gz EXCEPT ![AccountOf(c)] = Partial] /\ UNCHANGED faults
            \/ /\ wav[AccountOf(c)] = Absent \/ gz[AccountOf(c)] # Absent
               /\ cpc'[c] = "done" /\ UNCHANGED <<gz, faults>>
            \/ cpc'[c] = "done" /\ UNCHANGED gz /\ faults' = faults \cup {AccountOf(c)}
<1> USE DEF Set
<1>1. cpc[c] = "gzip" /\ UNCHANGED wav
  BY DEF Gzip
<1>2. AccountOf(c) \in Account
  BY <1>1, AccountKnown DEF Opener
<1>3. QED
  BY <1>1, <1>2 DEF Gzip, Fault, Base, TypeOK

\* What it does when it fails later: its part of an archive is gone, or stays.
LEMMA CompressFailsStep ==
  ASSUME Base, NEW c \in Conn, CompressFails(c)
  PROVE  /\ AccountOf(c) \in Account /\ cpc[c] = "zip" /\ cpc'[c] = "done"
         /\ UNCHANGED <<wav, linked>> /\ faults' = faults \cup {AccountOf(c)}
         /\ UNCHANGED gz \/ gz' = [gz EXCEPT ![AccountOf(c)] = Absent]
<1>1. cpc[c] = "zip" /\ UNCHANGED <<wav, linked>>
  BY DEF CompressFails
<1>2. AccountOf(c) \in Account
  BY <1>1, AccountKnown DEF Opener
<1>3. cpc'[c] = "done"
  BY DEF CompressFails, Set, Base, TypeOK
<1>4. QED
  BY <1>1, <1>2, <1>3 DEF CompressFails, Fault

\* What it does then: the archive is what it found, or a mixture, and the sound is gone.
LEMMA CompressStep ==
  ASSUME Base, NEW c \in Conn, Compress(c)
  PROVE  /\ AccountOf(c) \in Account /\ cpc[c] = "zip" /\ cpc'[c] = "done"
         /\ wav' = [wav EXCEPT ![AccountOf(c)] = Absent]
         /\ gz' = [gz EXCEPT ![AccountOf(c)] = gz'[AccountOf(c)]]
         /\ \/ gz'[AccountOf(c)] = wav[AccountOf(c)]
            \/ /\ gz'[AccountOf(c)] = Mixed
               /\ \E d \in Conn \ {c} : linked[d] /\ AccountOf(d) = AccountOf(c)
<1>1. cpc[c] = "zip" /\ wav' = [wav EXCEPT ![AccountOf(c)] = Absent]
  BY DEF Compress
<1>2. AccountOf(c) \in Account
  BY <1>1, AccountKnown DEF Opener
<1>3. cpc'[c] = "done"
  BY DEF Compress, Set, Base, TypeOK
<1>4. gz \in [Account -> Content]
  BY DEF Base, TypeOK
<1>5. \/ gz' = [gz EXCEPT ![AccountOf(c)] = wav[AccountOf(c)]]
      \/ /\ gz' = [gz EXCEPT ![AccountOf(c)] = Mixed]
         /\ \E d \in Conn \ {c} : linked[d] /\ AccountOf(d) = AccountOf(c)
  BY DEF Compress
<1>6. QED
  BY <1>1, <1>2, <1>3, <1>4, <1>5

\* What a step does to the sounds.
LEMMA SoundStep ==
  ASSUME Base, NEW c \in Conn, Step(c)
  PROVE  \/ /\ cpc[c] = "open" /\ cpc'[c] = "write" /\ AccountOf(c) \in Account
            /\ wav' = [wav EXCEPT ![AccountOf(c)] = Empty] /\ UNCHANGED gz
            /\ \A d \in Conn : linked'[d] <=> d = c \/ (linked[d] /\ ~Ended(d))
         \/ /\ cpc[c] = "write" /\ cpc'[c] = "gzip" /\ AccountOf(c) \in Account
            /\ linked[c] /\ UNCHANGED <<linked, gz>>
            /\ \/ text[c] # Garbage /\ wav' = [wav EXCEPT ![AccountOf(c)] = text[c]]
               \/ /\ wav' = [wav EXCEPT ![AccountOf(c)] = Mixed]
                  /\ \/ wav[AccountOf(c)] # Empty
                     \/ text[c] = Garbage
                     \/ AccountOf(c) \in faults'
         \/ Compress(c)
         \/ /\ UNCHANGED <<wav, linked>>
            /\ cpc'[c] # "write" \/ cpc[c] = "write"
            /\ cpc'[c] \in {"gzip", "zip"} =>
                  \/ cpc[c] \in {"gzip", "zip"}
                  \/ cpc[c] = "write" /\ (~linked[c] \/ AccountOf(c) \in faults')
<1> USE DEF relay, passed, child, client, disk, Set
<1>1. CASE Open(c)
  <2>1. AccountOf(c) \in Account /\ cpc[c] = "open"
    BY <1>1, AccountKnown DEF Open
  <2>2. CASE cpc' = Set(cpc, c, "failed") /\ UNCHANGED <<wav, linked>>
    BY <2>2 DEF Base, TypeOK
  <2>3. CASE /\ wav' = [wav EXCEPT ![AccountOf(c)] = Empty]
             /\ linked' = [d \in Conn |-> d = c \/ (linked[d] /\ ~Ended(d))]
             /\ cpc' = Set(cpc, c, "write")
    <3>1. cpc'[c] = "write" /\ UNCHANGED gz
      BY <1>1, <2>3 DEF Open, Base, TypeOK
    <3>2. \A d \in Conn : linked'[d] <=> d = c \/ (linked[d] /\ ~Ended(d))
      BY <2>3
    <3>3. QED
      BY <2>1, <2>3, <3>1, <3>2
  <2>4. QED
    BY <1>1, <2>2, <2>3 DEF Open
<1>2. CASE Write(c)
  <2>1. AccountOf(c) \in Account /\ cpc[c] = "write" /\ UNCHANGED <<linked, gz>>
    BY <1>2, AccountKnown DEF Write, Opener
  <2>2. CASE /\ wav' = IF ~linked[c] THEN wav
                       ELSE [wav EXCEPT ![AccountOf(c)] =
                                IF @ = Empty /\ text[c] # Garbage THEN text[c] ELSE Mixed]
             /\ cpc' = Set(cpc, c, "gzip")
    <3>1. cpc'[c] = "gzip"
      BY <2>2 DEF Base, TypeOK
    <3>2. CASE linked[c]
      BY <2>1, <2>2, <3>1, <3>2 DEF Base, TypeOK
    <3>3. CASE ~linked[c]
      BY <2>1, <2>2, <3>1, <3>3
    <3>4. QED
      BY <3>2, <3>3
  <2>3. CASE cpc' = Set(cpc, c, "stopped") /\ UNCHANGED wav
    BY <2>1, <2>3 DEF Base, TypeOK
  <2>4. CASE /\ Fault(c) /\ cpc' = Set(cpc, c, "gzip")
             /\ \/ UNCHANGED wav
                \/ linked[c] /\ wav' = [wav EXCEPT ![AccountOf(c)] = Mixed]
    <3>1. cpc'[c] = "gzip" /\ AccountOf(c) \in faults'
      BY <2>4 DEF Fault, Base, TypeOK
    <3>2. QED
      BY <2>1, <2>4, <3>1
  <2>5. QED
    BY <1>2, <2>2, <2>3, <2>4 DEF Write
<1>3. CASE Gzip(c)
  <2>1. cpc[c] = "gzip" /\ cpc'[c] \in {"zip", "done"} /\ UNCHANGED <<wav, linked>>
    BY <1>3, GzipStep DEF Gzip
  <2>2. QED
    BY <2>1
<1>4. CASE \/ Accept(c) \/ Send(c) \/ Handler(c) \/ Begin(c) \/ Scan(c) \/ Stat(c) \/ Flush(c)
           \/ Orphan(c)
  <2>1. UNCHANGED <<wav, linked>>
    BY <1>4 DEF Accept, Send, Handler, Relay, Download, ReadLine, PassOn, Leave, Deadline, Begin,
                Scan, Stat, Flush, Orphan
  <2>2. \/ cpc'[c] = cpc[c]
        \/ cpc'[c] \notin {"write", "gzip", "zip"}
    <3>1. CASE Accept(c)
      BY <3>1 DEF Accept, Base, TypeOK
    <3>2. CASE Send(c) \/ Handler(c)
      BY <3>2 DEF Send, Handler, Relay, Download, ReadLine, PassOn, Leave, Deadline
    <3>3. CASE Begin(c) \/ Stat(c) \/ Flush(c) \/ Orphan(c)
      BY <3>3 DEF Begin, Stat, Flush, Orphan, Say, Base, TypeOK
    <3>4. CASE Scan(c)
      BY <3>4 DEF Scan, Say, Base, TypeOK
    <3>5. QED
      BY <1>4, <3>1, <3>2, <3>3, <3>4
  <2>3. QED
    BY <2>1, <2>2
<1>5. CASE CompressFails(c)
  <2>1. cpc'[c] = "done" /\ UNCHANGED <<wav, linked>>
    BY <1>5, CompressFailsStep
  <2>2. QED
    BY <2>1
<1>6. QED
  BY <1>1, <1>2, <1>3, <1>4, <1>5 DEF Step, Child

\* One archive is made at a time, out of a sound that is there.
LEMMA ZippingStep ==
  ASSUME Base, Zipping, NEW c \in Conn, Step(c)
  PROVE  Zipping'
<1>1. gz \in [Account -> Content] /\ wav \in [Account -> Content] /\ Partial # Absent
  BY ValuesAssumption DEF Base, TypeOK
<1>2. \A d \in Conn : cpc[d] = "zip" =>
         /\ AccountOf(d) \in Account /\ AccountOf(d)' = AccountOf(d)
         /\ gz[AccountOf(d)] = Partial /\ wav[AccountOf(d)] # Absent
  BY AccountKnown, AccountsStay DEF Opener, Zipping
<1>3. \A d \in Conn \ {c} : cpc'[d] = cpc[d]
  BY OthersStay DEF Base
<1>4. \A d, e \in Conn : cpc[d] = "zip" /\ cpc[e] = "zip" /\ d # e => AccountOf(d) # AccountOf(e)
  BY DEF Zipping
<1>5. SUFFICES ASSUME NEW d \in Conn, cpc'[d] = "zip"
               PROVE  /\ gz'[AccountOf(d)'] = Partial /\ wav'[AccountOf(d)'] # Absent
                      /\ \A e \in Conn \ {d} : cpc'[e] = "zip" => AccountOf(e)' # AccountOf(d)'
  BY DEF Zipping
<1>6. CASE Gzip(c)
  <2>1. AccountOf(c)' = AccountOf(c)
    BY <1>6, GzipStep, AccountsStay
  <2>2. CASE d = c
    <3>1. /\ wav[AccountOf(c)] # Absent /\ gz[AccountOf(c)] = Absent
          /\ gz' = [gz EXCEPT ![AccountOf(c)] = Partial]
          /\ AccountOf(c) \in Account /\ UNCHANGED wav
      BY <1>5, <1>6, <2>2, GzipStep
    <3>2. gz'[AccountOf(c)] = Partial /\ wav'[AccountOf(c)] # Absent
      BY <1>1, <3>1
    <3>3. \A e \in Conn \ {c} : cpc[e] = "zip" => AccountOf(e) # AccountOf(c)
      BY <1>1, <1>2, <3>1
    <3>4. QED
      BY <1>2, <1>3, <2>1, <2>2, <3>2, <3>3
  <2>3. CASE d # c
    <3>1. cpc[d] = "zip"
      BY <1>3, <1>5, <2>3
    <3>2. gz'[AccountOf(d)] = Partial /\ wav'[AccountOf(d)] # Absent
      BY <1>1, <1>2, <1>6, <3>1, GzipStep
    <3>3. cpc'[c] = "zip" => AccountOf(c) # AccountOf(d)
      BY <1>1, <1>2, <1>6, <3>1, GzipStep
    <3>4. \A e \in Conn \ {d} : cpc'[e] = "zip" => AccountOf(e)' # AccountOf(d)
      BY <1>2, <1>3, <1>4, <2>1, <3>1, <3>3
    <3>5. QED
      BY <1>2, <3>1, <3>2, <3>4
  <2>4. QED
    BY <2>2, <2>3
<1>7. CASE Compress(c)
  <2>1. cpc[c] = "zip" /\ cpc'[c] = "done" /\ AccountOf(c) \in Account
    BY <1>7, CompressStep
  <2>2. d # c /\ cpc[d] = "zip"
    BY <1>3, <1>5, <2>1
  <2>3. AccountOf(d) # AccountOf(c)
    BY <1>4, <2>1, <2>2
  <2>4. gz'[AccountOf(d)] = Partial /\ wav'[AccountOf(d)] # Absent
    BY <1>1, <1>2, <1>7, <2>2, <2>3, CompressStep
  <2>5. \A e \in Conn \ {d} : cpc'[e] = "zip" => cpc[e] = "zip"
    BY <1>3, <2>1
  <2>6. QED
    BY <1>2, <1>4, <2>2, <2>4, <2>5
<1>8. CASE CompressFails(c)
  <2>1. cpc[c] = "zip" /\ cpc'[c] = "done" /\ AccountOf(c) \in Account
    BY <1>8, CompressFailsStep
  <2>2. d # c /\ cpc[d] = "zip"
    BY <1>3, <1>5, <2>1
  <2>3. AccountOf(d) # AccountOf(c)
    BY <1>4, <2>1, <2>2
  <2>4. gz'[AccountOf(d)] = Partial /\ wav'[AccountOf(d)] # Absent
    BY <1>1, <1>2, <1>8, <2>2, <2>3, CompressFailsStep
  <2>5. \A e \in Conn \ {d} : cpc'[e] = "zip" => cpc[e] = "zip"
    BY <1>3, <2>1
  <2>6. QED
    BY <1>2, <1>4, <2>2, <2>4, <2>5
<1>9. CASE ~Gzip(c) /\ ~Compress(c) /\ ~CompressFails(c)
  <2>1. /\ UNCHANGED gz /\ \A a \in Account : wav[a] # Absent => wav'[a] # Absent
        /\ cpc'[c] # "zip" \/ cpc[c] = "zip"
    BY <1>9, FilesStep
  <2>2. \A e \in Conn : cpc'[e] = "zip" => cpc[e] = "zip"
    BY <1>3, <2>1
  <2>3. QED
    BY <1>2, <1>4, <1>5, <2>1, <2>2
<1>10. QED
  BY <1>6, <1>7, <1>8, <1>9

\* Files are made of texts that were read.
LEMMA PureStep ==
  ASSUME Base, Zipping, Pure, NEW c \in Conn, Step(c)
  PROVE  Pure'
<1>1. SUFFICES ASSUME NEW a \in Account
               PROVE  wav'[a] \notin {Garbage, Partial, Old} /\ gz'[a] # Garbage
  BY DEF Pure
<1>2. wav \in [Account -> Content] /\ gz \in [Account -> Content]
  BY DEF Base, TypeOK
<1>3. /\ Garbage \notin {Absent, Empty, Mixed, Partial} /\ Partial \notin {Absent, Empty, Mixed}
      /\ Old \notin {Absent, Empty, Mixed}
  BY ValuesAssumption DEF Text
<1>4. wav[a] \notin {Garbage, Partial, Old} /\ gz[a] # Garbage
  BY DEF Pure
<1>5. wav'[a] \notin {Garbage, Partial, Old}
  <2>1. CASE cpc[c] = "open" /\ wav' = [wav EXCEPT ![AccountOf(c)] = Empty]
    BY <1>2, <1>3, <1>4, <2>1
  <2>2. CASE cpc[c] = "write" /\ text[c] # Garbage /\ wav' = [wav EXCEPT ![AccountOf(c)] = text[c]]
    <3>1. text[c] \in Text /\ Partial \notin Text /\ Old \notin Text
      BY <2>2, ValuesAssumption DEF Base, Named
    <3>2. QED
      BY <1>2, <1>3, <1>4, <2>2, <3>1
  <2>3. CASE wav' = [wav EXCEPT ![AccountOf(c)] = Mixed]
    BY <1>2, <1>3, <1>4, <2>3
  <2>4. CASE Compress(c)
    BY <1>2, <1>3, <1>4, <2>4, CompressStep
  <2>5. CASE UNCHANGED wav
    BY <1>4, <2>5
  <2>6. QED
    BY <2>1, <2>2, <2>3, <2>4, <2>5, SoundStep
<1>6. gz'[a] # Garbage
  <2>1. CASE Gzip(c)
    BY <1>2, <1>3, <1>4, <2>1, GzipStep
  <2>2. CASE Compress(c)
    <3>1. AccountOf(c) \in Account /\ wav[AccountOf(c)] # Garbage
      BY <2>2, CompressStep DEF Pure
    <3>2. QED
      BY <1>2, <1>3, <1>4, <2>2, <3>1, CompressStep
  <2>3. CASE CompressFails(c)
    BY <1>2, <1>3, <1>4, <2>3, CompressFailsStep
  <2>4. CASE UNCHANGED gz
    BY <1>4, <2>4
  <2>5. QED
    BY <2>1, <2>2, <2>3, <2>4, FilesStep
<1>7. QED
  BY <1>5, <1>6

\* An archive that was made stays what it is; only the part a failing gzip made goes, and
\* then the sound is left.
LEMMA ArchivesStay ==
  ASSUME Base, Zipping, NEW c \in Conn, Step(c), NEW a \in Account
  PROVE  /\ gz[a] # Absent => gz'[a] # Absent \/ (a \in faults' /\ wav'[a] # Absent)
         /\ gz[a] \notin {Absent, Partial} => gz'[a] = gz[a]
<1>1. gz \in [Account -> Content] /\ Partial # Absent /\ Mixed # Absent
  BY ValuesAssumption DEF Base, TypeOK
<1>2. CASE Gzip(c)
  BY <1>1, <1>2, GzipStep
<1>3. CASE Compress(c)
  <2>1. gz[AccountOf(c)] = Partial /\ wav[AccountOf(c)] # Absent
    BY <1>3, CompressStep DEF Zipping
  <2>2. gz'[AccountOf(c)] # Absent
    BY <1>1, <1>3, <2>1, CompressStep
  <2>3. a # AccountOf(c) => gz'[a] = gz[a]
    BY <1>1, <1>3, CompressStep
  <2>4. QED
    BY <2>1, <2>2, <2>3
<1>4. CASE CompressFails(c)
  <2>1. gz[AccountOf(c)] = Partial /\ wav[AccountOf(c)] # Absent
    BY <1>4, CompressFailsStep DEF Zipping
  <2>2. QED
    BY <1>1, <1>4, <2>1, CompressFailsStep
<1>5. QED
  BY <1>2, <1>3, <1>4, FilesStep

\* Where there is something there stays something.
LEMMA SomethingStays ==
  ASSUME Base, Zipping, NEW c \in Conn, Step(c), NEW a \in Account, Something(a)
  PROVE  gz'[a] # Absent \/ (a \in faults' /\ wav'[a] # Absent)
<1>1. CASE gz[a] # Absent
  BY <1>1, ArchivesStay
<1>2. CASE gz[a] = Absent
  <2>1. a \in faults' /\ wav[a] # Absent
    BY <1>2, FaultsGrow DEF Something
  <2>2. CASE Compress(c)
    <3>1. a # AccountOf(c)
      BY <1>2, <2>2, CompressStep, ValuesAssumption DEF Zipping
    <3>2. QED
      BY <2>1, <2>2, <3>1, CompressStep DEF Base, TypeOK
  <2>3. CASE ~Compress(c)
    BY <2>1, <2>3, FilesStep, GzipStep, CompressFailsStep
  <2>4. QED
    BY <2>2, <2>3
<1>3. QED
  BY <1>1, <1>2

\* A part of an archive that nobody completes is what a failing gzip left.
LEMMA UnmadeStep ==
  ASSUME Base, Zipping, Pure, Unmade, NEW c \in Conn, Step(c)
  PROVE  Unmade'
<1>1. SUFFICES ASSUME NEW a \in Account, gz'[a] = Partial
               PROVE  \/ \E d \in Conn : cpc'[d] = "zip" /\ AccountOf(d)' = a
                      \/ a \in faults' /\ wav'[a] # Absent
  BY DEF Unmade
<1>2. gz \in [Account -> Content] /\ wav \in [Account -> Content]
  BY DEF Base, TypeOK
<1>3. \A d \in Conn \ {c} : cpc[d] = "zip" => cpc'[d] = "zip" /\ AccountOf(d)' = AccountOf(d)
  BY OthersStay, AccountsStay DEF Base
<1>4. Partial \notin {Absent, Mixed} /\ wav[a] # Partial
  BY ValuesAssumption DEF Pure
<1>5. CASE Gzip(c)
  <2>1. AccountOf(c)' = AccountOf(c)
    BY <1>5, GzipStep, AccountsStay
  <2>2. CASE gz[a] = Partial
    <3>1. \/ \E d \in Conn : cpc[d] = "zip" /\ AccountOf(d) = a
          \/ a \in faults /\ wav[a] # Absent
      BY <2>2 DEF Unmade
    <3>2. \A d \in Conn : cpc[d] = "zip" => d # c
      BY <1>5, GzipStep
    <3>3. QED
      BY <1>3, <1>5, <3>1, <3>2, GzipStep, FaultsGrow
  <2>3. CASE gz[a] # Partial
    BY <1>1, <1>2, <1>5, <2>1, <2>3, GzipStep
  <2>4. QED
    BY <2>2, <2>3
<1>6. CASE Compress(c)
  <2>1. a # AccountOf(c)
    <3>1. a = AccountOf(c) => gz'[a] \in {wav[a], Mixed}
      BY <1>6, CompressStep
    <3>2. QED
      BY <1>1, <1>4, <3>1
  <2>2. gz[a] = Partial /\ wav'[a] = wav[a]
    BY <1>1, <1>2, <1>6, <2>1, CompressStep
  <2>3. \/ \E d \in Conn : cpc[d] = "zip" /\ AccountOf(d) = a
        \/ a \in faults /\ wav[a] # Absent
    BY <2>2 DEF Unmade
  <2>4. QED
    BY <1>3, <2>1, <2>2, <2>3, FaultsGrow
<1>7. CASE CompressFails(c)
  <2>1. CASE a = AccountOf(c)
    BY <1>7, <2>1, CompressFailsStep DEF Zipping
  <2>2. CASE a # AccountOf(c)
    <3>1. gz[a] = Partial /\ UNCHANGED wav
      BY <1>1, <1>2, <1>7, <2>2, CompressFailsStep
    <3>2. \/ \E d \in Conn : cpc[d] = "zip" /\ AccountOf(d) = a
          \/ a \in faults /\ wav[a] # Absent
      BY <3>1 DEF Unmade
    <3>3. QED
      BY <1>3, <2>2, <3>1, <3>2, FaultsGrow
  <2>3. QED
    BY <2>1, <2>2
<1>8. CASE ~Gzip(c) /\ ~Compress(c) /\ ~CompressFails(c)
  <2>1. /\ gz[a] = Partial /\ (wav[a] # Absent => wav'[a] # Absent)
        /\ cpc'[c] # "done" \/ cpc[c] = "done"
    BY <1>1, <1>8, FilesStep
  <2>2. cpc[c] = "zip" => cpc'[c] = "zip" /\ AccountOf(c)' = AccountOf(c)
    BY <2>1, ChildCourse, AccountsStay DEF Course, Killable, Reads, Base
  <2>3. \/ \E d \in Conn : cpc[d] = "zip" /\ AccountOf(d) = a
        \/ a \in faults /\ wav[a] # Absent
    BY <2>1 DEF Unmade
  <2>4. QED
    BY <1>3, <2>1, <2>2, <2>3, FaultsGrow
<1>9. QED
  BY <1>5, <1>6, <1>7, <1>8

\* A child that has opened its file will have an archive.
LEMMA OpenedStep ==
  ASSUME Base, Zipping, Opened, NEW c \in Conn, Step(c)
  PROVE  Opened'
<1>1. gz \in [Account -> Content] /\ wav \in [Account -> Content]
  BY DEF Base, TypeOK
<1>2. SUFFICES ASSUME NEW d \in Conn, cpc'[d] \in {"write", "gzip"}
               PROVE  wav'[AccountOf(d)'] # Absent \/ gz'[AccountOf(d)'] # Absent
  BY DEF Opened
<1>3. \/ cpc[d] \in {"write", "gzip"}
      \/ d = c /\ cpc[c] = "open" /\ cpc'[c] = "write"
  <2>1. CASE d = c
    BY <1>2, <2>1, ChildCourse DEF Course, Base
  <2>2. CASE d # c
    BY <1>2, <2>2, OthersStay DEF Base
  <2>3. QED
    BY <2>1, <2>2
<1>4. AccountOf(d) \in Account /\ AccountOf(d)' = AccountOf(d)
  BY <1>3, AccountKnown, AccountsStay DEF Opener
<1>5. CASE gz[AccountOf(d)] # Absent
  BY <1>4, <1>5, ArchivesStay
<1>6. CASE cpc[d] \in {"write", "gzip"} /\ gz[AccountOf(d)] = Absent
  <2>1. wav[AccountOf(d)] # Absent
    BY <1>6 DEF Opened
  <2>2. CASE Compress(c) /\ AccountOf(c) = AccountOf(d)
    BY <1>6, <2>2, CompressStep, ValuesAssumption DEF Zipping
  <2>3. CASE Compress(c) /\ AccountOf(c) # AccountOf(d)
    BY <1>1, <1>4, <2>1, <2>3, CompressStep
  <2>4. CASE ~Compress(c)
    BY <1>4, <2>1, <2>4, FilesStep, GzipStep, CompressFailsStep
  <2>5. QED
    BY <2>2, <2>3, <2>4
<1>7. CASE d = c /\ cpc[c] = "open" /\ cpc'[c] = "write"
  <2>1. ~Gzip(c) /\ ~Compress(c) /\ ~CompressFails(c)
    BY <1>7 DEF Gzip, Compress, CompressFails
  <2>2. QED
    BY <1>4, <1>7, <2>1, FilesStep
<1>8. QED
  BY <1>3, <1>5, <1>6, <1>7

\* Who has told success is making the archive, and is not done without one, unless it failed.
LEMMA ToldStep ==
  ASSUME Base, Zipping, Opened, Told, NEW c \in Conn, Step(c)
  PROVE  Told'
<1> DEFINE L == {"open", "write", "gzip", "zip", "done", "stopped", "failed", "dead"}
<1>1. SUFFICES ASSUME NEW d \in Conn, told'[d] \/ Says(d, "LATER.")'
               PROVE  /\ cpc'[d] \in L
                      /\ cpc'[d] = "done" => Something(AccountOf(d))'
  BY DEF Told
<1>2. CASE d # c
  <2>1. cpc'[d] = cpc[d] /\ (told[d] \/ Says(d, "LATER."))
    BY <1>1, <1>2, OthersStay DEF Says, Base
  <2>2. cpc[d] \in L /\ (cpc[d] = "done" => Something(AccountOf(d)))
    BY <2>1 DEF Told
  <2>3. CASE cpc[d] = "done"
    <3>1. AccountOf(d) \in Account /\ AccountOf(d)' = AccountOf(d)
      BY <2>3, AccountKnown, AccountsStay DEF Opener
    <3>2. QED
      BY <2>1, <2>2, <2>3, <3>1, SomethingStays DEF Something
  <2>4. QED
    BY <2>1, <2>2, <2>3
<1>3. CASE d = c
  <2>1. told[c] \/ Says(c, "LATER.") \/ (cpc[c] = "text" /\ cpc'[c] = "open")
    BY <1>1, <1>3, SaysStep
  <2>2. CASE cpc[c] = "text" /\ cpc'[c] = "open"
    BY <1>3, <2>2
  <2>3. CASE told[c] \/ Says(c, "LATER.")
    <3>1. cpc[c] \in L /\ (cpc[c] = "done" => Something(AccountOf(c)))
      BY <2>3 DEF Told
    <3>2. cpc'[c] \in L
      BY <3>1, ChildCourse DEF Course, Killable, Base
    <3>3. ASSUME cpc'[c] = "done"
          PROVE  Something(AccountOf(c))'
      <4>1. cpc[c] \in {"gzip", "zip", "done"}
        BY <3>1, <3>3, ChildCourse DEF Course, Base
      <4>2. AccountOf(c) \in Account /\ AccountOf(c)' = AccountOf(c)
        BY <4>1, AccountKnown, AccountsStay DEF Opener
      <4>3. CASE Something(AccountOf(c))
        BY <4>2, <4>3, SomethingStays DEF Something
      <4>4. CASE ~Something(AccountOf(c))
        <5>1. gz[AccountOf(c)] = Absent
          BY <4>4 DEF Something
        <5>2. cpc[c] = "gzip"
          BY <3>1, <4>1, <4>4, <5>1, ValuesAssumption DEF Zipping
        <5>3. wav[AccountOf(c)] # Absent
          BY <5>1, <5>2 DEF Opened
        <5>4. ~Compress(c) /\ ~CompressFails(c)
          BY <5>2 DEF Compress, CompressFails
        <5>5. Gzip(c)
          BY <3>3, <5>2, <5>4, FilesStep
        <5>6. UNCHANGED wav /\ AccountOf(c) \in faults'
          BY <3>3, <5>1, <5>3, <5>5, GzipStep
        <5>7. QED
          BY <4>2, <5>3, <5>6 DEF Something
      <4>5. QED
        BY <4>3, <4>4
    <3>4. QED
      BY <1>3, <3>2, <3>3
  <2>4. QED
    BY <2>1, <2>2, <2>3
<1>4. QED
  BY <1>2, <1>3

\* The inductive invariant of the files.
There == Base /\ Zipping /\ Pure /\ Unmade /\ Opened /\ Told

\* It holds at first.
LEMMA ThereInit == Init => There
<1> SUFFICES ASSUME Init PROVE There
  OBVIOUS
<1>1. Base
  BY BaseInit
<1>2. \A c \in Conn : cpc[c] = "none" /\ ~told[c] /\ out[c] = <<>>
  BY DEF Init
<1>3. Len(<<>>) = 0
  OBVIOUS
<1>4. Zipping /\ Opened /\ Told
  BY <1>2, <1>3 DEF Zipping, Opened, Told, Says
<1>5. \A a \in Account : wav[a] = Absent /\ gz[a] \in {Absent, Old}
  BY DEF Init
<1>6. /\ Absent \notin {Garbage, Partial, Old} /\ Old \notin {Garbage, Partial}
  BY ValuesAssumption DEF Text
<1>7. Pure /\ Unmade
  BY <1>5, <1>6 DEF Pure, Unmade
<1>8. QED
  BY <1>1, <1>4, <1>7 DEF There

\* What stuttering leaves alone.
LEMMA Still ==
  ASSUME UNCHANGED vars
  PROVE  UNCHANGED <<hpc, cpc, blank, crowded, rest, pipe, out, login, password, text, told, file,
                     wav, gz, faults, linked>>
BY DEF vars

\* Every step keeps the invariant of the files.
LEMMA ThereStep == There /\ [Next]_vars => There'
<1> SUFFICES ASSUME There, [Next]_vars PROVE There'
  OBVIOUS
<1>1. Base'
  BY BaseStep DEF There
<1>2. CASE UNCHANGED vars
  <2>1. UNCHANGED <<hpc, cpc, blank, pipe, out, login, password, text, told, file, wav, gz, faults,
                    linked>>
    BY <1>2, Still
  <2>2. QED
    BY <1>1, <2>1 DEF There, Zipping, Pure, Unmade, Opened, Told, Something, Says, AccountOf
<1>3. CASE \E c \in Conn : Step(c)
  <2>1. PICK c \in Conn : Step(c)
    BY <1>3
  <2>2. Zipping' /\ Pure' /\ Unmade'
    BY <2>1, ZippingStep, PureStep, UnmadeStep DEF There
  <2>3. Opened' /\ Told'
    BY <2>1, OpenedStep, ToldStep DEF There
  <2>4. QED
    BY <1>1, <2>2, <2>3 DEF There
<1>4. QED
  BY <1>2, <1>3 DEF Next, Step

-----------------------------------------------------------------------------
(* Theorems of the files *)

\* Every value stays in its type: what is in a pipe is a word, what is on the way to a
\* client is a piece, whatever order handlers and children move in.
THEOREM TypeCorrect == Spec => []TypeOK
<1>1. Base => TypeOK
  BY DEF Base
<1>2. QED
  BY BaseInit, BaseStep, <1>1, PTL DEF Spec

\* Success is told before there is a file, but if the child ends as it should there is an
\* archive, its own or one that was there, or a gzip at work; or the disk or gzip failed for
\* that directory and the sound is left.  It is so for every disk that fails at any write.
THEOREM SuccessIsWorthIt == Spec => []SuccessLeavesArchive
<1>1. ASSUME There, NEW c \in Conn, told[c], cpc[c] = "done"
      PROVE  \/ gz[AccountOf(c)] \notin {Absent, Partial}
             \/ /\ gz[AccountOf(c)] = Partial
                /\ \E d \in Conn : cpc[d] = "zip" /\ AccountOf(d) = AccountOf(c)
             \/ AccountOf(c) \in faults /\ wav[AccountOf(c)] # Absent
  <2>1. AccountOf(c) \in Account
    BY <1>1, AccountKnown DEF There, Opener
  <2>2. Something(AccountOf(c))
    BY <1>1 DEF There, Told
  <2>3. QED
    BY <1>1, <2>1, <2>2 DEF There, Unmade, Something
<1>2. There => SuccessLeavesArchive
  BY <1>1 DEF SuccessLeavesArchive
<1>3. QED
  BY ThereInit, ThereStep, <1>2, PTL DEF Spec

\* No generation changes an archive that was made, however generations overlap or fail.
THEOREM ArchivesKept == Spec => ArchiveIsKept
<1>1. ASSUME There, [Next]_vars
      PROVE  \A a \in Account : gz[a] \notin {Absent, Partial} => gz'[a] = gz[a]
  <2>1. CASE UNCHANGED vars
    BY <2>1, Still
  <2>2. CASE \E c \in Conn : Step(c)
    BY <1>1, <2>2, ArchivesStay DEF There
  <2>3. QED
    BY <1>1, <2>1, <2>2 DEF Next, Step
<1>2. There /\ [Next]_vars
         => [\A a \in Account : gz[a] \notin {Absent, Partial} => gz'[a] = gz[a]]_vars
  BY <1>1
<1>3. QED
  BY ThereInit, ThereStep, <1>2, PTL DEF Spec, ArchiveIsKept

-----------------------------------------------------------------------------
(* Whose the archives are *)

\* Who generates goes on generating, with its text and its account.
LEMMA GeneratorsStay ==
  ASSUME Base, NEW c \in Conn, Step(c), NEW d \in Conn, cpc[d] \in Opener
  PROVE  cpc'[d] \in Opener /\ AccountOf(d)' = AccountOf(d) /\ text'[d] = text[d]
<1>1. AccountOf(d)' = AccountOf(d)
  BY AccountsStay DEF Opener
<1>2. CASE d = c
  <2>1. cpc'[c] \in Opener
    BY <1>2, ChildCourse DEF Course, Killable, Reads, Opener, Base
  <2>2. text'[c] = text[c]
    BY <1>2, ChildCourse DEF Opener, Base
  <2>3. QED
    BY <1>1, <1>2, <2>1, <2>2
<1>3. CASE d # c
  BY <1>1, <1>3, OthersStay DEF Base
<1>4. QED
  BY <1>2, <1>3

\* What was generated for an account stays generated for it.
LEMMA GeneratedStays ==
  ASSUME Base, NEW c \in Conn, Step(c), NEW a, NEW x, GeneratedFor(a, x)
  PROVE  GeneratedFor(a, x)'
<1>1. \A d \in Generators(a) : d \in Generators(a)' /\ text'[d] = text[d]
  BY GeneratorsStay DEF Generators, Opener
<1>2. PICK d \in Generators(a) : \/ text[d] = x
                                 \/ x \in {Empty, Mixed} /\ (Generators(a) \ {d} # {} \/ a \in faults)
                                 \/ x = Mixed /\ text[d] = Garbage
  BY DEF GeneratedFor
<1>3. d \in Generators(a)' /\ text'[d] = text[d]
  BY <1>1
<1>4. Generators(a) \ {d} # {} => Generators(a)' \ {d} # {}
  BY <1>1
<1>5. a \in faults => a \in faults'
  BY FaultsGrow
<1>6. QED
  BY <1>2, <1>3, <1>4, <1>5 DEF GeneratedFor

\* So does what was there before.
LEMMA MadeStays ==
  ASSUME Base, NEW c \in Conn, Step(c), NEW a, NEW x, Made(a, x)
  PROVE  Made(a, x)'
BY GeneratedStays DEF Made

\* A child that met another has met it.
LEMMA MetStays ==
  ASSUME Base, NEW c \in Conn, Step(c), NEW d \in Conn, cpc[d] \in Opener, Met(d)
  PROVE  Met(d)'
<1>1. PICK e \in Conn \ {d} : cpc[e] \in Opener /\ AccountOf(e) = AccountOf(d)
  BY DEF Met
<1>2. cpc'[e] \in Opener /\ AccountOf(e)' = AccountOf(d)'
  BY <1>1, GeneratorsStay
<1>3. QED
  BY <1>1, <1>2 DEF Met

\* What a child makes of its own text, or of a file where it met another or something failed,
\* is generated for its account.
LEMMA OwnIsGenerated ==
  ASSUME NEW c \in Conn, cpc[c] \in Opener, NEW x,
         \/ text[c] = x
         \/ x \in {Empty, Mixed} /\ (Met(c) \/ AccountOf(c) \in faults)
         \/ x = Mixed /\ text[c] = Garbage
  PROVE  GeneratedFor(AccountOf(c), x)
<1> DEFINE a == AccountOf(c)
<1>1. c \in Generators(a)
  BY DEF Generators, Opener
<1>2. Met(c) => Generators(a) \ {c} # {}
  BY DEF Met, Generators, Opener
<1>3. QED
  BY <1>1, <1>2 DEF GeneratedFor

\* Who has a file open has opened it.
LEMMA LinkedOpenedStep ==
  ASSUME Base, LinkedOpened, NEW c \in Conn, Step(c)
  PROVE  LinkedOpened'
<1>1. SUFFICES ASSUME NEW d \in Conn, linked'[d] PROVE cpc'[d] \in Opener
  BY DEF LinkedOpened
<1>2. linked[d] \/ (d = c /\ cpc'[c] = "write")
  <2>1. CASE Open(c)
    BY <1>1, <2>1 DEF Open, Set, Base, TypeOK
  <2>2. CASE Compress(c)
    BY <1>1, <2>2 DEF Compress
  <2>3. CASE ~Open(c) /\ ~Compress(c)
    BY <1>1, <2>3
       DEF Step, Accept, Send, Handler, Relay, Download, ReadLine, PassOn, Leave, Deadline, Orphan,
           Child, Begin, Scan, Stat, Flush, Write, Gzip, CompressFails, child
  <2>4. QED
    BY <2>1, <2>2, <2>3
<1>3. QED
  BY <1>2, GeneratorsStay DEF LinkedOpened, Opener

\* Two children of one account have met.
LEMMA MeetsOther ==
  ASSUME NEW c \in Conn, NEW d \in Conn, d # c, cpc'[c] \in Opener, AccountOf(c)' = AccountOf(d)'
  PROVE  Met(d)'
BY DEF Met

\* A writer that has lost its file, or finds another's in its place, met another.
LEMMA RivalsStep ==
  ASSUME Base, LinkedOpened, Rivals, NEW c \in Conn, Step(c)
  PROVE  Rivals'
<1>1. SUFFICES ASSUME NEW d \in Conn, ~Met(d)'
               PROVE  /\ cpc'[d] \in {"write", "gzip", "zip"} => linked'[d]
                      /\ cpc'[d] = "write" => wav'[AccountOf(d)'] = Empty
                      /\ cpc'[d] \in {"gzip", "zip"} =>
                            wav'[AccountOf(d)'] # Empty \/ AccountOf(d)' \in faults'
  BY DEF Rivals
<1>2. wav \in [Account -> Content] /\ Empty \notin {Absent, Mixed} /\ Empty \notin Text
  BY ValuesAssumption DEF Base, TypeOK
<1>3. cpc[d] \in Opener =>
         /\ AccountOf(d) \in Account /\ AccountOf(d)' = AccountOf(d)
         /\ cpc[d] \in {"write", "gzip", "zip"} => linked[d]
         /\ cpc[d] = "write" => wav[AccountOf(d)] = Empty
         /\ cpc[d] \in {"gzip", "zip"} => wav[AccountOf(d)] # Empty \/ AccountOf(d) \in faults'
  BY <1>1, AccountKnown, AccountsStay, MetStays, FaultsGrow DEF Rivals, Opener
<1>4. d # c => cpc'[d] = cpc[d]
  BY OthersStay DEF Base
<1>5. d # c /\ cpc'[c] \in Opener => AccountOf(c)' # AccountOf(d)'
  BY <1>1, MeetsOther
<1>6. CASE /\ cpc[c] = "open" /\ cpc'[c] = "write" /\ AccountOf(c) \in Account
           /\ wav' = [wav EXCEPT ![AccountOf(c)] = Empty]
           /\ \A e \in Conn : linked'[e] <=> e = c \/ (linked[e] /\ ~Ended(e))
  <2>1. AccountOf(c)' = AccountOf(c)
    BY <1>6, AccountsStay
  <2>2. CASE d = c
    BY <1>2, <1>6, <2>1, <2>2
  <2>3. CASE d # c
    <3>1. cpc[d] \in Opener => AccountOf(c) # AccountOf(d)
      BY <1>3, <1>5, <1>6, <2>1, <2>3 DEF Opener
    <3>2. cpc[d] \in {"write", "gzip", "zip"} => linked'[d]
      BY <1>3, <1>6 DEF Opener, Ended
    <3>3. cpc[d] \in Opener => wav'[AccountOf(d)] = wav[AccountOf(d)]
      BY <1>2, <1>3, <1>6, <3>1
    <3>4. QED
      BY <1>3, <1>4, <2>3, <3>2, <3>3 DEF Opener
  <2>4. QED
    BY <2>2, <2>3
<1>7. CASE /\ cpc[c] = "write" /\ cpc'[c] = "gzip" /\ AccountOf(c) \in Account
           /\ linked[c] /\ UNCHANGED linked
           /\ \E v \in {text[c], Mixed} : wav' = [wav EXCEPT ![AccountOf(c)] = v]
  <2>1. AccountOf(c)' = AccountOf(c)
    BY <1>7, AccountsStay
  <2>2. text[c] \in Text
    BY <1>7 DEF Base, Named
  <2>3. CASE d = c
    BY <1>2, <1>7, <2>1, <2>2, <2>3
  <2>4. CASE d # c
    <3>1. cpc[d] \in Opener => AccountOf(c) # AccountOf(d)
      BY <1>3, <1>5, <1>7, <2>1, <2>4 DEF Opener
    <3>2. cpc[d] \in Opener => wav'[AccountOf(d)] = wav[AccountOf(d)]
      BY <1>2, <1>3, <1>7, <3>1
    <3>3. QED
      BY <1>3, <1>4, <1>7, <2>4, <3>2 DEF Opener
  <2>5. QED
    BY <2>3, <2>4
<1>8. CASE Compress(c)
  <2>1. cpc[c] = "zip" /\ cpc'[c] = "done" /\ wav' = [wav EXCEPT ![AccountOf(c)] = Absent]
    BY <1>8, CompressStep
  <2>2. AccountOf(c)' = AccountOf(c)
    BY <2>1, AccountsStay
  <2>3. CASE d # c
    <3>1. cpc[d] \in Opener => AccountOf(c) # AccountOf(d)
      BY <1>3, <1>5, <2>1, <2>2, <2>3 DEF Opener
    <3>2. cpc[d] \in Opener => linked'[d] = linked[d]
      BY <1>8, <3>1 DEF Compress, Base, TypeOK
    <3>3. cpc[d] \in Opener => wav'[AccountOf(d)] = wav[AccountOf(d)]
      BY <1>2, <1>3, <2>1, <3>1
    <3>4. QED
      BY <1>3, <1>4, <2>3, <3>2, <3>3 DEF Opener
  <2>4. QED
    BY <2>1, <2>3
<1>9. CASE /\ UNCHANGED <<wav, linked>>
           /\ cpc'[c] # "write" \/ cpc[c] = "write"
           /\ cpc'[c] \in {"gzip", "zip"} =>
                 \/ cpc[c] \in {"gzip", "zip"}
                 \/ cpc[c] = "write" /\ (~linked[c] \/ AccountOf(c) \in faults')
  BY <1>3, <1>4, <1>9 DEF Opener
<1>10. QED
  BY <1>6, <1>7, <1>8, <1>9, SoundStep

\* A sound is a text generated for its account, or a mixture of several.
LEMMA WavOwnStep ==
  ASSUME Base, Rivals, WavOwn, NEW c \in Conn, Step(c)
  PROVE  WavOwn'
<1>1. SUFFICES ASSUME NEW a \in Account, NEW x \in Content \ {Absent, Empty}, wav'[a] = x
               PROVE  GeneratedFor(a, x)'
  BY DEF WavOwn
<1>2. GeneratedFor(a, x) => GeneratedFor(a, x)'
  BY GeneratedStays
<1>3. wav \in [Account -> Content]
  BY DEF Base, TypeOK
<1>4. CASE wav'[a] = wav[a]
  BY <1>1, <1>2, <1>4 DEF WavOwn
<1>5. CASE wav'[a] # wav[a]
  <2>1. /\ cpc[c] = "write" /\ cpc'[c] = "gzip" /\ a = AccountOf(c)
        /\ \/ x = text[c]
           \/ x = Mixed /\ (wav[a] # Empty \/ text[c] = Garbage \/ a \in faults')
    <3>1. ~Compress(c)
      BY <1>1, <1>3, <1>5, CompressStep
    <3>2. CASE /\ cpc[c] = "open" /\ wav' = [wav EXCEPT ![AccountOf(c)] = Empty]
      BY <1>1, <1>3, <1>5, <3>2
    <3>3. QED
      BY <1>1, <1>3, <1>5, <3>1, <3>2, SoundStep
  <2>2. CASE x = text[c] \/ (x = Mixed /\ text[c] = Garbage)
    BY <1>2, <2>1, <2>2, OwnIsGenerated DEF Opener
  <2>3. CASE x = Mixed /\ wav[a] # Empty
    <3>1. Met(c)
      BY <2>1, <2>3 DEF Rivals
    <3>2. QED
      BY <1>2, <2>1, <2>3, <3>1, OwnIsGenerated DEF Opener
  <2>4. CASE x = Mixed /\ a \in faults'
    <3>1. AccountOf(c)' = a
      BY <2>1, AccountsStay
    <3>2. c \in Generators(a)'
      BY <2>1, <3>1 DEF Generators
    <3>3. QED
      BY <2>4, <3>2 DEF GeneratedFor
  <2>5. QED
    BY <2>1, <2>2, <2>3, <2>4
<1>6. QED
  BY <1>4, <1>5

\* So is an archive.
LEMMA GzOwnStep ==
  ASSUME Base, Zipping, LinkedOpened, Rivals, WavOwn, GzOwn, NEW c \in Conn, Step(c)
  PROVE  GzOwn'
<1>1. SUFFICES ASSUME NEW a \in Account, NEW x \in Content \ {Absent, Partial}, gz'[a] = x
               PROVE  Made(a, x)'
  BY DEF GzOwn
<1>2. SUFFICES Made(a, x)
  BY MadeStays
<1>3. gz \in [Account -> Content]
  BY DEF Base, TypeOK
<1>4. CASE gz'[a] = gz[a]
  BY <1>1, <1>4 DEF GzOwn
<1>5. CASE gz'[a] # gz[a]
  <2>1. Compress(c)
    <3>1. ~Gzip(c) /\ ~CompressFails(c)
      BY <1>1, <1>3, <1>5, GzipStep, CompressFailsStep
    <3>2. QED
      BY <1>5, <3>1, FilesStep
  <2>2. a = AccountOf(c) /\ cpc[c] = "zip"
    BY <1>3, <1>5, <2>1, CompressStep
  <2>3. CASE x = wav[a]
    <3>1. x # Absent
      BY <2>2, <2>3 DEF Zipping
    <3>2. CASE x = Empty
      <4>1. Met(c) \/ AccountOf(c) \in faults
        BY <2>2, <2>3, <3>2 DEF Rivals
      <4>2. QED
        BY <2>2, <3>2, <4>1, OwnIsGenerated DEF Opener, Made
    <3>3. CASE x # Empty
      BY <2>3, <3>1, <3>3 DEF WavOwn, Made
    <3>4. QED
      BY <3>2, <3>3
  <2>4. CASE x = Mixed /\ \E d \in Conn \ {c} : linked[d] /\ AccountOf(d) = AccountOf(c)
    <3>1. Met(c)
      BY <2>4 DEF Met, LinkedOpened
    <3>2. QED
      BY <2>2, <2>4, <3>1, OwnIsGenerated DEF Opener, Made
  <2>5. QED
    BY <1>1, <2>1, <2>2, <2>3, <2>4, CompressStep
<1>6. QED
  BY <1>4, <1>5

\* A child has an archive in hand when it has read the one of its account.
LEMMA HandFrom ==
  ASSUME Base, NEW c \in Conn, Step(c), ~Says(c, "archive"), cpc[c] # "flush",
         Says(c, "archive")' \/ cpc'[c] = "flush"
  PROVE  /\ cpc[c] = "stat" /\ cpc'[c] \in {"flush", "sent"} /\ text'[c] = gz[AccountOf(c)]
         /\ Says(c, "archive")' => cpc'[c] = "sent"
<1>1. CASE Says(c, "archive")'
  BY <1>1, SaysStep DEF Stat
<1>2. CASE ~Says(c, "archive")' /\ cpc'[c] = "flush"
  <2>1. cpc[c] = "stat"
    BY <1>2, ChildCourse DEF Course, Base
  <2>2. Stat(c)
    BY <1>2, <2>1
       DEF Step, Accept, Send, Handler, Relay, Download, ReadLine, PassOn, Leave, Deadline, Orphan,
           Child, Begin, Scan, Flush, Open, Write, Gzip, Compress, CompressFails, Waits, Reads,
           child, Base, Born
  <2>3. QED
    BY <1>2, <2>1, <2>2 DEF Stat, Say, Set, Base, TypeOK
<1>3. QED
  BY <1>1, <1>2

\* And what a child has read to send.
LEMMA InHandStep ==
  ASSUME Base, GzOwn, InHand, NEW c \in Conn, Step(c)
  PROVE  InHand'
<1>1. SUFFICES ASSUME NEW d \in Conn, Says(d, "archive")' \/ cpc'[d] = "flush"
               PROVE  /\ cpc'[d] \in {"flush", "sent"}
                      /\ Says(d, "archive")' => cpc'[d] = "sent"
                      /\ \A a \in Account, x \in Content \ {Absent, Partial} :
                            AccountOf(d)' = a /\ text'[d] = x => Made(a, x)'
  BY DEF InHand
<1>2. CASE Says(d, "archive") \/ cpc[d] = "flush"
  <2>1. /\ cpc[d] \in {"flush", "sent"} /\ (Says(d, "archive") => cpc[d] = "sent")
        /\ \A a \in Account, x \in Content \ {Absent, Partial} :
              AccountOf(d) = a /\ text[d] = x => Made(a, x)
    BY <1>2 DEF InHand
  <2>2. AccountOf(d)' = AccountOf(d)
    BY <2>1, AccountsStay
  <2>3. CASE d # c
    <3>1. cpc'[d] = cpc[d] /\ text'[d] = text[d] /\ (Says(d, "archive")' <=> Says(d, "archive"))
      BY <2>3, OthersStay DEF Says, Base
    <3>2. QED
      BY <2>1, <2>2, <3>1, MadeStays
  <2>4. CASE d = c
    <3>1. text'[c] = text[c]
      BY <2>1, <2>4, ChildCourse DEF Base
    <3>2. cpc'[c] \in {"flush", "sent", "dead"} /\ (cpc[c] = "sent" => cpc'[c] = "sent")
      BY <2>1, <2>4, ChildCourse DEF Course, Killable, Reads, Base
    <3>3. Says(c, "archive")' => Says(c, "archive") \/ cpc'[c] = "sent"
      BY SaysStep
    <3>4. QED
      BY <1>1, <2>1, <2>2, <2>4, <3>1, <3>2, <3>3, MadeStays
  <2>5. QED
    BY <2>3, <2>4
<1>3. CASE ~Says(d, "archive") /\ cpc[d] # "flush"
  <2>1. d = c
    BY <1>1, <1>3, OthersStay DEF Says, Base
  <2>2. /\ cpc[c] = "stat" /\ cpc'[c] \in {"flush", "sent"} /\ text'[c] = gz[AccountOf(c)]
        /\ Says(c, "archive")' => cpc'[c] = "sent"
    BY <1>1, <1>3, <2>1, HandFrom
  <2>3. AccountOf(c)' = AccountOf(c) /\ AccountOf(c) \in Account
    BY <2>2, AccountKnown, AccountsStay
  <2>4. \A x \in Content \ {Absent, Partial} :
           gz[AccountOf(c)] = x => Made(AccountOf(c), x)
    BY <2>3 DEF GzOwn
  <2>5. QED
    BY <2>1, <2>2, <2>3, <2>4, MadeStays
<1>4. QED
  BY <1>2, <1>3

\* And what the client is sent.
LEMMA SentStep ==
  ASSUME Base, InHand, Sent, NEW c \in Conn, Step(c)
  PROVE  Sent'
<1>1. SUFFICES ASSUME NEW d \in Conn, file'[d] # Absent
               PROVE  /\ cpc'[d] = "sent"
                      /\ \A a \in Account, x \in Content \ {Absent, Partial} :
                            AccountOf(d)' = a /\ file'[d] = x => Made(a, x)'
  BY DEF Sent
<1>2. /\ cpc[d] = "sent"
      /\ \A a \in Account, x \in Content \ {Absent, Partial} :
            AccountOf(d) = a /\ file'[d] = x => Made(a, x)
  <2>1. CASE file'[d] = file[d]
    BY <1>1, <2>1 DEF Sent
  <2>2. CASE file'[d] # file[d]
    <3>1. d = c
      BY <2>2, OthersStay DEF Base
    <3>2. Download(c)
      BY <2>2
         DEF Step, Accept, Send, Handler, Relay, ReadLine, PassOn, Leave, Deadline, Orphan, Child,
             Begin, Scan, Stat, Flush, Open, Write, Gzip, Compress, CompressFails, relay
    <3>3. out[c] = Archive /\ file'[c] = text[c]
      BY <1>1, <3>1, <3>2 DEF Download, Set, Base, TypeOK
    <3>4. Says(c, "archive")
      <4>1. Len(out[c]) = 1 /\ out[c][1] = "archive"
        BY <3>3 DEF Archive
      <4>2. QED
        BY <4>1 DEF Says
    <3>5. QED
      BY <3>1, <3>3, <3>4 DEF InHand
  <2>3. QED
    BY <2>1, <2>2
<1>3. cpc'[d] = "sent" /\ AccountOf(d)' = AccountOf(d)
  <2>1. AccountOf(d)' = AccountOf(d)
    BY <1>2, AccountsStay
  <2>2. CASE d = c
    BY <1>2, <2>1, <2>2, ChildCourse DEF Course, Killable, Reads, Base
  <2>3. CASE d # c
    BY <1>2, <2>1, <2>3, OthersStay DEF Base
  <2>4. QED
    BY <2>2, <2>3
<1>4. QED
  BY <1>2, <1>3, MadeStays

\* The inductive invariant of what is in the files.
Own == There /\ LinkedOpened /\ Rivals /\ WavOwn /\ GzOwn /\ InHand /\ Sent

\* It holds at first.
LEMMA OwnInit == Init => Own
<1> SUFFICES ASSUME Init PROVE Own
  OBVIOUS
<1>1. There
  BY ThereInit
<1>2. \A c \in Conn : cpc[c] = "none" /\ out[c] = <<>> /\ file[c] = Absent /\ ~linked[c]
  BY DEF Init
<1>3. \A a \in Account : wav[a] = Absent /\ (gz[a] = Absent \/ (gz[a] = Old /\ a \in Left))
  BY DEF Init
<1>4. Len(<<>>) = 0
  OBVIOUS
<1>5. LinkedOpened /\ Rivals /\ WavOwn /\ GzOwn
  BY <1>2, <1>3 DEF LinkedOpened, Rivals, WavOwn, GzOwn, Made
<1>6. InHand /\ Sent
  BY <1>2, <1>4 DEF InHand, Sent, Says
<1>7. QED
  BY <1>1, <1>5, <1>6 DEF Own

\* And every step keeps it.
LEMMA OwnStep == Own /\ [Next]_vars => Own'
<1> SUFFICES ASSUME Own, [Next]_vars PROVE Own'
  OBVIOUS
<1>1. There' /\ Base /\ Zipping
  BY ThereStep DEF Own, There
<1>2. CASE UNCHANGED vars
  <2>1. UNCHANGED <<hpc, cpc, blank, pipe, out, login, password, text, told, file, wav, gz, faults,
                    linked>>
    BY <1>2, Still
  <2>2. LinkedOpened' /\ Rivals'
    BY <2>1 DEF Own, LinkedOpened, Rivals, Met, AccountOf
  <2>3. \A a, x : GeneratedFor(a, x)' <=> GeneratedFor(a, x)
    BY <2>1 DEF GeneratedFor, Generators, AccountOf
  <2>4. WavOwn' /\ GzOwn'
    BY <2>1, <2>3 DEF Own, WavOwn, GzOwn, Made
  <2>5. InHand' /\ Sent'
    BY <2>1, <2>3 DEF Own, InHand, Sent, Made, Says, AccountOf
  <2>6. QED
    BY <1>1, <2>2, <2>4, <2>5 DEF Own
<1>3. CASE \E c \in Conn : Step(c)
  <2>1. PICK c \in Conn : Step(c)
    BY <1>3
  <2>2. LinkedOpened' /\ Rivals'
    BY <1>1, <2>1, LinkedOpenedStep, RivalsStep DEF Own
  <2>3. WavOwn' /\ GzOwn'
    BY <1>1, <2>1, WavOwnStep, GzOwnStep DEF Own
  <2>4. InHand' /\ Sent'
    BY <1>1, <2>1, InHandStep, SentStep DEF Own
  <2>5. QED
    BY <1>1, <2>2, <2>3, <2>4 DEF Own
<1>4. QED
  BY <1>2, <1>3 DEF Next, Step

\* What a client is sent was there before, or was generated with a login and a password that
\* spell the same directory: by nobody else, whatever DirOf makes of them, and if not a whole
\* text then for one of the reasons GeneratedFor names.
THEOREM DownloadsOwn == Spec => []DownloadIsOwn
<1>1. ASSUME Own
      PROVE  DownloadIsOwn
  <2>1. SUFFICES ASSUME NEW c \in Conn, file[c] \notin {Absent, Partial}
                 PROVE  Made(AccountOf(c), file[c])
    BY DEF DownloadIsOwn, Made
  <2>2. cpc[c] = "sent"
    BY <1>1, <2>1 DEF Own, Sent
  <2>3. AccountOf(c) \in Account
    BY <1>1, <2>2, AccountKnown DEF Own, There
  <2>4. file[c] \in Content
    BY <1>1 DEF Own, There, Base, TypeOK
  <2>5. QED
    BY <1>1, <2>1, <2>3, <2>4 DEF Own, Sent
<1>2. QED
  BY OwnInit, OwnStep, <1>1, PTL DEF Spec

-----------------------------------------------------------------------------
(* The archives as a store *)

\* A child has no text before the client sends one, and what it sends is one.
Unread == \A c \in Conn : cpc[c] \in {"none", "start", "stat"} \cup Reads => text[c] = Garbage
Worth  == \A c \in Conn : Says(c, "archive") \/ cpc[c] = "flush" => text[c] # Garbage
\* A client is sent one archive, and then nothing.
Once   == \A c \in Conn : hpc[c] # "closed" => file[c] = Absent

\* A text is read once, at its prompt.
LEMMA UnreadStep ==
  ASSUME Base, Unread, NEW c \in Conn, Step(c)
  PROVE  Unread'
<1>1. SUFFICES ASSUME NEW d \in Conn, cpc'[d] \in {"none", "start", "stat"} \cup Reads
               PROVE  text'[d] = Garbage
  BY DEF Unread
<1>2. CASE d # c
  BY <1>1, <1>2, OthersStay DEF Base, Unread
<1>3. CASE d = c
  <2>1. CASE cpc'[c] = cpc[c] /\ text'[c] = text[c]
    BY <1>1, <1>3, <2>1 DEF Unread
  <2>2. CASE Scan(c)
    <3>1. cpc[c] = "text" => cpc'[c] \in {"open", "dead"}
      BY <2>2 DEF Scan, Say, Set, Base, TypeOK
    <3>2. cpc[c] # "text" => text'[c] = text[c]
      BY <2>2 DEF Scan, Reads
    <3>3. cpc[c] \in Reads
      BY <2>2 DEF Scan, Waits
    <3>4. QED
      BY <1>1, <1>3, <3>1, <3>2, <3>3 DEF Unread, Reads
  <2>3. CASE ~Scan(c)
    <3>1. cpc[c] = "text" => cpc'[c] \in {"text", "open", "dead"}
      BY ChildCourse DEF Course, Base
    <3>2. cpc[c] = "stat" => cpc'[c] \in {"stat", "flush", "sent", "failed", "dead"}
      BY ChildCourse DEF Course, Base
    <3>3. cpc[c] \in {"none", "start", "stat"} \cup Reads
      BY <1>1, <1>3, ChildCourse DEF Course, Killable, Reads, Base
    <3>4. UNCHANGED text \/ Stat(c)
      BY <2>3
         DEF Step, Accept, Send, Handler, Relay, Download, ReadLine, PassOn, Leave, Deadline, Orphan,
             Child, Begin, Flush, Open, Write, Gzip, Compress, CompressFails, child
    <3>5. Stat(c) => cpc'[c] \in {"flush", "sent", "failed", "dead"}
      BY DEF Stat, Say, Set, Base, TypeOK
    <3>6. QED
      BY <1>1, <1>3, <3>3, <3>4, <3>5 DEF Unread, Reads
  <2>4. QED
    BY <2>2, <2>3
<1>4. QED
  BY <1>2, <1>3

\* What a child sends is an archive it has read.
LEMMA WorthStep ==
  ASSUME Base, InHand, Pure, Worth, NEW c \in Conn, Step(c)
  PROVE  Worth'
<1>1. SUFFICES ASSUME NEW d \in Conn, Says(d, "archive")' \/ cpc'[d] = "flush"
               PROVE  text'[d] # Garbage
  BY DEF Worth
<1>2. CASE d # c
  BY <1>1, <1>2, OthersStay DEF Base, Worth, Says
<1>3. CASE d = c /\ (Says(c, "archive") \/ cpc[c] = "flush")
  <2>1. cpc[c] \in {"flush", "sent"} /\ text[c] # Garbage
    BY <1>3 DEF InHand, Worth
  <2>2. text'[c] = text[c]
    BY <2>1, ChildCourse DEF Base
  <2>3. QED
    BY <1>3, <2>1, <2>2
<1>4. CASE d = c /\ ~Says(c, "archive") /\ cpc[c] # "flush"
  <2>1. cpc[c] = "stat" /\ text'[c] = gz[AccountOf(c)]
    BY <1>1, <1>4, HandFrom
  <2>2. AccountOf(c) \in Account
    BY <2>1, AccountKnown
  <2>3. QED
    BY <1>4, <2>1, <2>2 DEF Pure
<1>5. QED
  BY <1>2, <1>3, <1>4

\* The handler returns when it has sent an archive.
LEMMA OnceStep ==
  ASSUME Base, Once, NEW c \in Conn, Step(c)
  PROVE  Once'
<1>1. SUFFICES ASSUME NEW d \in Conn, hpc'[d] # "closed"
               PROVE  file'[d] = Absent
  BY DEF Once
<1>2. CASE d # c
  BY <1>1, <1>2, OthersStay DEF Base, Once
<1>3. CASE d = c
  <2>1. hpc[c] = "closed" => hpc'[c] = "closed"
    <3>1. ASSUME hpc[c] = "closed" PROVE UNCHANGED hpc
      BY <3>1
         DEF Step, Accept, Send, Handler, Relay, Download, ReadLine, PassOn, Leave, Deadline, Orphan,
             Child, Begin, Scan, Stat, Flush, Open, Write, Gzip, Compress, CompressFails, Ends, Reads,
             relay
    <3>2. QED
      BY <3>1
  <2>2. UNCHANGED file \/ Download(c)
    BY DEF Step, Accept, Send, Handler, Relay, ReadLine, PassOn, Leave, Deadline, Orphan, Child,
           Begin, Scan, Stat, Flush, Open, Write, Gzip, Compress, CompressFails, relay
  <2>3. Download(c) => hpc'[c] = "closed"
    BY DEF Download, Set, Base, TypeOK
  <2>4. QED
    BY <1>1, <1>3, <2>1, <2>2, <2>3 DEF Once
<1>4. QED
  BY <1>2, <1>3

\* The inductive invariant of the store.
Kept == Own /\ Unread /\ Worth /\ Once

\* It holds at first.
LEMMA KeptInit == Init => Kept
<1> SUFFICES ASSUME Init PROVE Kept
  OBVIOUS
<1>1. Own
  BY OwnInit
<1>2. \A c \in Conn : text[c] = Garbage /\ out[c] = <<>> /\ file[c] = Absent /\ cpc[c] = "none"
  BY DEF Init
<1>3. Len(<<>>) = 0
  OBVIOUS
<1>4. Unread /\ Worth /\ Once
  BY <1>2, <1>3 DEF Unread, Worth, Once, Says
<1>5. QED
  BY <1>1, <1>4 DEF Kept

\* And every step keeps it.
LEMMA KeptStep == Kept /\ [Next]_vars => Kept'
<1> SUFFICES ASSUME Kept, [Next]_vars PROVE Kept'
  OBVIOUS
<1>1. Own' /\ Base /\ Pure /\ InHand
  BY OwnStep DEF Kept, Own, There
<1>2. CASE UNCHANGED vars
  <2>1. UNCHANGED <<hpc, cpc, blank, pipe, out, login, password, text, told, file, wav, gz, faults,
                    linked>>
    BY <1>2, Still
  <2>2. QED
    BY <1>1, <2>1 DEF Kept, Unread, Worth, Once, Says
<1>3. CASE \E c \in Conn : Step(c)
  BY <1>1, <1>3, UnreadStep, WorthStep, OnceStep DEF Kept
<1>4. QED
  BY <1>2, <1>3 DEF Next, Step

Tickets == [c \in Conn |-> Held(c)]

\* What a child is there for, by its label.
LEMMA TicketAt ==
  ASSUME NEW c \in Conn
  PROVE  /\ cpc[c] \in {"write", "gzip", "stopped"} =>
               Held(c) = [state |-> "ordered", account |-> AccountOf(c), content |-> text[c]]
         /\ cpc[c] = "zip" =>
               Held(c) = [state |-> "making", account |-> AccountOf(c), content |-> text[c]]
         /\ cpc[c] = "done" =>
               Held(c) = [state |-> "over", account |-> AccountOf(c), content |-> text[c]]
         /\ cpc[c] \in {"flush", "sent"} =>
               Held(c) = [state |-> "taken", account |-> AccountOf(c), content |-> text[c]]
         /\ cpc[c] \notin Opener \cup {"flush", "sent"} => Held(c) = [state |-> "none"]
BY DEF Held, Opener

\* The others keep theirs.
LEMMA TicketsMove ==
  ASSUME Base, NEW c \in Conn, Step(c)
  PROVE  /\ Tickets' = [Tickets EXCEPT ![c] = Held(c)']
         /\ Tickets[c] = Held(c) /\ Tickets'[c] = Held(c)'
<1>1. \A d \in Conn \ {c} : Held(d)' = Held(d)
  BY OthersStay DEF Held, AccountOf, Base
<1>2. QED
  BY <1>1 DEF Tickets

\* A ticket changes at five labels.
LEMMA TicketsStay ==
  ASSUME Base, NEW c \in Conn, Step(c), ~Open(c), ~Stat(c), ~Flush(c), ~Gzip(c), ~Compress(c),
         ~CompressFails(c)
  PROVE  Tickets' = Tickets
<1>1. SUFFICES Held(c)' = Held(c)
  BY <1>1, TicketsMove DEF Tickets
<1>2. CASE cpc[c] \notin Opener \cup {"flush", "sent"}
  <2>1. cpc'[c] \notin Opener \cup {"flush", "sent"}
    <3>1. CASE cpc[c] \notin {"open", "stat"}
      BY <1>2, <3>1, ChildCourse DEF Course, Opener, Base
    <3>2. CASE cpc[c] \in {"open", "stat"}
      <4>1. UNCHANGED cpc
        BY <3>2
           DEF Step, Accept, Send, Handler, Relay, Download, ReadLine, PassOn, Leave, Deadline,
               Orphan, Child, Begin, Scan, Waits, Write, Reads, child, Base, Born
      <4>2. QED
        BY <1>2, <4>1
    <3>3. QED
      BY <3>1, <3>2
  <2>2. QED
    BY <1>2, <2>1 DEF Held, Opener
<1>3. CASE cpc[c] \in Opener \cup {"flush", "sent"}
  <2>1. AccountOf(c)' = AccountOf(c) /\ text'[c] = text[c]
    BY <1>3, AccountsStay, ChildCourse DEF Opener, Base
  <2>2. cpc'[c] = cpc[c] \/ (cpc[c] = "write" /\ cpc'[c] \in {"gzip", "stopped"})
    BY <1>3
       DEF Step, Accept, Send, Handler, Relay, Download, ReadLine, PassOn, Leave, Deadline, Orphan,
           Child, Begin, Scan, Waits, Write, Reads, child, Opener, Set, Base, TypeOK, Born
  <2>3. QED
    BY <2>1, <2>2 DEF Held
<1>4. QED
  BY <1>2, <1>3

\* Opening the file is an order.
LEMMA OpenOrders ==
  ASSUME Base, NEW c \in Conn, Step(c), Open(c)
  PROVE  Store!Order(c) \/ UNCHANGED <<Tickets, gz, faults, file>>
<1>1. cpc[c] = "open" /\ cpc'[c] \in {"write", "failed"} /\ UNCHANGED <<gz, faults, file, text>>
  BY DEF Open, Set, Base, TypeOK, relay
<1>2. AccountOf(c) \in Account /\ AccountOf(c)' = AccountOf(c) /\ text[c] \in Text
  BY <1>1, AccountKnown, AccountsStay DEF Base, Named
<1>3. Held(c) = [state |-> "none"]
  BY <1>1, TicketAt DEF Opener
<1>4. CASE cpc'[c] = "write"
  <2>1. Held(c)' = [state |-> "ordered", account |-> AccountOf(c), content |-> text[c]]
    BY <1>1, <1>2, <1>4 DEF Held
  <2>2. Held(c)' \in Store!Ticket
    BY <1>2, <2>1 DEF Store!Ticket, Store!Contents
  <2>3. QED
    BY <1>1, <1>2, <1>3, <2>1, <2>2, TicketsMove
       DEF Tickets, Store!Order, Store!Gets, Store!Holds
<1>5. CASE cpc'[c] = "failed"
  <2>1. Held(c)' = Held(c)
    BY <1>3, <1>5 DEF Held
  <2>2. QED
    BY <1>1, <2>1, TicketsMove DEF Tickets
<1>6. QED
  BY <1>1, <1>4, <1>5

\* A write that fails leaves the order as it is.
LEMMA WriteFails ==
  ASSUME Base, NEW c \in Conn, Step(c), Write(c)
  PROVE  Store!Fail(c) \/ UNCHANGED <<Tickets, gz, faults, file>>
<1>1. cpc[c] = "write" /\ UNCHANGED <<gz, file>>
  BY DEF Write, relay
<1>2. Tickets' = Tickets
  BY <1>1, TicketsStay DEF Open, Stat, Flush, Gzip, Compress, CompressFails
<1>3. Held(c) = [state |-> "ordered", account |-> AccountOf(c), content |-> text[c]]
  BY <1>1, TicketAt
<1>4. Tickets[c].state = "ordered" /\ Tickets[c].account = AccountOf(c)
  BY <1>3, TicketsMove
<1>5. UNCHANGED faults \/ faults' = faults \cup {AccountOf(c)}
  BY DEF Write, Fault
<1>6. QED
  BY <1>1, <1>2, <1>4, <1>5 DEF Tickets, Store!Fail, Store!Holds

\* gzip begins an archive, or leaves the one that is there, or fails.
LEMMA GzipBegins ==
  ASSUME Base, Opened, NEW c \in Conn, Step(c), Gzip(c)
  PROVE  Store!Begin(c) \/ Store!Leave(c) \/ Store!Fail(c)
<1>1. cpc[c] = "gzip" /\ UNCHANGED <<file, text>>
  BY DEF Gzip, relay
<1>2. AccountOf(c) \in Account /\ AccountOf(c)' = AccountOf(c)
  BY <1>1, AccountKnown, AccountsStay DEF Opener
<1>3. Held(c) = [state |-> "ordered", account |-> AccountOf(c), content |-> text[c]]
  BY <1>1, TicketAt
<1>4. CASE /\ gz[AccountOf(c)] = Absent /\ cpc'[c] = "zip" /\ UNCHANGED faults
           /\ gz' = [gz EXCEPT ![AccountOf(c)] = Partial]
  <2>1. Held(c)' = [Held(c) EXCEPT !.state = "making"]
    BY <1>1, <1>2, <1>3, <1>4 DEF Held
  <2>2. Tickets[c].state = "ordered" /\ Tickets[c].account = AccountOf(c)
    BY <1>3, TicketsMove
  <2>3. Tickets' = [Tickets EXCEPT ![c].state = "making"]
    BY <2>1, TicketsMove
  <2>4. Store!Begin(c)
    BY <1>1, <1>4, <2>2, <2>3 DEF Tickets, Store!Begin, Store!Holds, Store!Becomes
  <2>5. QED
    BY <2>4
<1>5. CASE cpc'[c] = "done" /\ UNCHANGED gz
  <2>1. Held(c)' = [Held(c) EXCEPT !.state = "over"]
    BY <1>1, <1>2, <1>3, <1>5 DEF Held
  <2>2. Tickets[c].state = "ordered" /\ Tickets[c].account = AccountOf(c)
    BY <1>3, TicketsMove
  <2>3. Tickets' = [Tickets EXCEPT ![c].state = "over"]
    BY <2>1, TicketsMove
  <2>4. CASE gz[AccountOf(c)] # Absent /\ UNCHANGED faults
    BY <1>1, <1>5, <2>2, <2>3, <2>4 DEF Tickets, Store!Leave, Store!Holds, Store!Becomes
  <2>5. CASE faults' = faults \cup {AccountOf(c)}
    BY <1>1, <1>5, <2>2, <2>3, <2>5 DEF Tickets, Store!Fail, Store!Holds, Store!Becomes
  <2>6. QED
    BY <1>1, <1>5, <2>4, <2>5, GzipStep DEF Opened
<1>6. QED
  BY <1>4, <1>5, GzipStep

\* A gzip that fails ends its order without an archive, or with a part of one.
LEMMA CompressingFails ==
  ASSUME Base, NEW c \in Conn, Step(c), CompressFails(c)
  PROVE  Store!Fail(c)
<1>1. cpc[c] = "zip" /\ cpc'[c] = "done" /\ UNCHANGED <<file, text>>
  BY CompressFailsStep DEF CompressFails, relay
<1>2. AccountOf(c)' = AccountOf(c)
  BY <1>1, AccountsStay
<1>3. Held(c) = [state |-> "making", account |-> AccountOf(c), content |-> text[c]]
  BY <1>1, TicketAt
<1>4. Held(c)' = [Held(c) EXCEPT !.state = "over"]
  BY <1>1, <1>2, <1>3 DEF Held
<1>5. Tickets[c].state = "making" /\ Tickets[c].account = AccountOf(c)
  BY <1>3, TicketsMove
<1>6. Tickets' = [Tickets EXCEPT ![c].state = "over"]
  BY <1>4, TicketsMove
<1>7. faults' = faults \cup {AccountOf(c)}
  BY CompressFailsStep
<1>8. UNCHANGED gz \/ gz' = [gz EXCEPT ![AccountOf(c)] = Absent]
  BY CompressFailsStep
<1>9. QED
  BY <1>1, <1>5, <1>6, <1>7, <1>8 DEF Tickets, Store!Fail, Store!Holds, Store!Becomes

\* Who has ordered is who generates.
LEMMA OrdersAre ==
  ASSUME NEW a
  PROVE  /\ Store!Orders(a) = Generators(a)
         /\ \A x : GeneratedFor(a, x) => Store!MadeFor(a, x)
<1>1. \A d \in Conn : /\ d \in Generators(a) <=> d \in Store!Orders(a)
                      /\ d \in Generators(a) => Held(d).content = text[d]
  <2>1. SUFFICES ASSUME NEW d \in Conn
                 PROVE  /\ d \in Generators(a) <=> d \in Store!Orders(a)
                        /\ d \in Generators(a) => Held(d).content = text[d]
    OBVIOUS
  <2>2. CASE cpc[d] \in Opener
    BY <2>2, TicketAt DEF Generators, Store!Orders, Opener
  <2>3. CASE cpc[d] \notin Opener
    <3>1. Held(d).state \notin {"ordered", "making", "over"}
      BY <2>3, TicketAt
    <3>2. QED
      BY <2>3, <3>1 DEF Generators, Store!Orders, Opener
  <2>4. QED
    BY <2>2, <2>3
<1>2. Store!Orders(a) = Generators(a)
  BY <1>1 DEF Generators, Store!Orders
<1>3. \A d \in Generators(a) : d \in Conn
  BY DEF Generators
<1>4. QED
  BY <1>1, <1>2, <1>3 DEF GeneratedFor, Store!MadeFor

\* gzip finishes it with what was generated.
LEMMA CompressFinishes ==
  ASSUME Kept, NEW c \in Conn, Step(c), Compress(c)
  PROVE  Store!Finish(c)
<1>1. Base /\ Zipping /\ GzOwn' /\ Pure
  <2>1. Base /\ Zipping /\ LinkedOpened /\ Rivals /\ WavOwn /\ GzOwn /\ Pure
    BY DEF Kept, Own, There
  <2>2. QED
    BY <2>1, GzOwnStep
<1>2. cpc[c] = "zip" /\ cpc'[c] = "done" /\ UNCHANGED <<file, text, login, password, faults>>
  BY <1>1, CompressStep DEF Compress, relay
<1>3. AccountOf(c) \in Account /\ \A d \in Conn : AccountOf(d)' = AccountOf(d)
  BY <1>1, <1>2, AccountKnown DEF Opener, AccountOf
<1>4. Held(c) = [state |-> "making", account |-> AccountOf(c), content |-> text[c]]
  BY <1>2, TicketAt
<1>5. Held(c)' = [Held(c) EXCEPT !.state = "over"]
  BY <1>2, <1>3, <1>4 DEF Held
<1>6. PICK a, x : a = AccountOf(c) /\ x = gz'[a]
  OBVIOUS
<1>7. x \in (Text \ {Garbage}) \cup {Empty, Mixed}
  <2>1. wav[a] \in Content /\ wav[a] \notin {Absent, Garbage, Partial, Old}
    BY <1>6, <1>1, <1>2, <1>3 DEF Base, TypeOK, Zipping, Pure
  <2>2. x = wav[a] \/ x = Mixed
    BY <1>6, <1>1, CompressStep
  <2>3. QED
    BY <2>1, <2>2 DEF Content
<1>8. GeneratedFor(a, x)
  <2>1. GeneratedFor(a, x)'
    <3>1. x \in Content \ {Absent, Partial}
      BY <1>7, ValuesAssumption DEF Content
    <3>2. a \in Account /\ gz'[a] = x
      BY <1>6, <1>3
    <3>3. x # Old
      BY <1>7, ValuesAssumption
    <3>4. QED
      BY <1>1, <3>1, <3>2, <3>3 DEF GzOwn, Made
  <2>2. \A d \in Conn : cpc'[d] \in Opener <=> cpc[d] \in Opener
    BY <1>1, <1>2, OthersStay DEF Opener, Base
  <2>3. \A b : Generators(b)' = Generators(b)
    BY <1>3, <2>2 DEF Generators, Opener
  <2>4. QED
    BY <1>2, <1>3, <2>1, <2>3 DEF GeneratedFor
<1>9. gz' = [gz EXCEPT ![a] = x]
  BY <1>6, <1>1, CompressStep
<1>10. Store!MadeFor(a, x)
  BY <1>8, OrdersAre
<1>11. Tickets[c].state = "making" /\ Tickets[c].account = a
  BY <1>6, <1>1, <1>4, TicketsMove
<1>12. Tickets' = [Tickets EXCEPT ![c].state = "over"]
  BY <1>1, <1>5, TicketsMove
<1>13. QED
  BY <1>2, <1>7, <1>9, <1>10, <1>11, <1>12 DEF Tickets, Store!Finish, Store!Holds, Store!Becomes

\* DOWNLOAD takes what is there.
LEMMA StatTakes ==
  ASSUME Kept, NEW c \in Conn, Step(c), Stat(c)
  PROVE  Store!Take(c) \/ UNCHANGED <<Tickets, gz, faults, file>>
<1>1. Base /\ text[c] = Garbage
  BY DEF Kept, Own, There, Unread, Stat
<1>2. cpc[c] = "stat" /\ UNCHANGED <<gz, faults, file>>
  BY DEF Stat, relay, disk
<1>3. AccountOf(c) \in Account /\ AccountOf(c)' = AccountOf(c)
  BY <1>1, <1>2, AccountKnown, AccountsStay
<1>4. Held(c) = [state |-> "none"]
  BY <1>2, TicketAt DEF Opener
<1>5. \/ cpc'[c] \in {"dead", "failed"}
      \/ /\ cpc'[c] \in {"flush", "sent"}
         /\ text'[c] = IF gz[AccountOf(c)] = Absent THEN Garbage ELSE gz[AccountOf(c)]
  BY <1>1 DEF Stat, Say, Set, Base, TypeOK
<1>6. CASE cpc'[c] \in {"flush", "sent"}
  <2>1. Held(c)' = [state |-> "taken", account |-> AccountOf(c), content |-> text'[c]]
    BY <1>3, <1>6 DEF Held
  <2>2. text'[c] \in Text \cup {Absent, Empty, Partial, Mixed, Old, Garbage}
    BY <1>1, <1>3, <1>5, <1>6 DEF Base, TypeOK, Content
  <2>3. Held(c)' \in Store!Ticket
    BY <1>3, <2>1, <2>2 DEF Store!Ticket, Store!Contents
  <2>4. Tickets[c].state = "none" /\ Tickets'[c] = Held(c)'
    BY <1>1, <1>4, TicketsMove
  <2>5. Tickets' = [Tickets EXCEPT ![c] = Tickets'[c]]
    BY <1>1, TicketsMove
  <2>6. QED
    BY <1>2, <1>5, <1>6, <2>1, <2>3, <2>4, <2>5
       DEF Tickets, Store!Take, Store!Gets, Store!Holds
<1>7. CASE cpc'[c] \in {"dead", "failed"}
  <2>1. Held(c)' = Held(c)
    BY <1>4, <1>7 DEF Held
  <2>2. QED
    BY <1>1, <1>2, <2>1, TicketsMove DEF Tickets
<1>8. QED
  BY <1>5, <1>6, <1>7

\* A child that cannot get rid of it drops it with its life.
LEMMA FlushDrops ==
  ASSUME Base, NEW c \in Conn, Step(c), Flush(c)
  PROVE  Store!Drop(c) \/ UNCHANGED <<Tickets, gz, faults, file>>
<1>1. cpc[c] = "flush" /\ cpc'[c] \in {"sent", "dead"} /\ UNCHANGED <<gz, faults, file, text>>
  BY DEF Flush, relay, disk, Set, Base, TypeOK
<1>2. AccountOf(c)' = AccountOf(c)
  BY <1>1, AccountsStay
<1>3. Held(c) = [state |-> "taken", account |-> AccountOf(c), content |-> text[c]]
  BY <1>1, TicketAt
<1>4. CASE cpc'[c] = "sent"
  <2>1. Held(c)' = Held(c)
    BY <1>1, <1>2, <1>3, <1>4 DEF Held
  <2>2. QED
    BY <1>1, <2>1, TicketsMove DEF Tickets
<1>5. CASE cpc'[c] = "dead"
  <2>1. Held(c)' = [state |-> "none"]
    BY <1>5 DEF Held
  <2>2. Tickets[c].state = "taken" /\ Tickets' = [Tickets EXCEPT ![c] = [state |-> "none"]]
    BY <1>3, <2>1, TicketsMove
  <2>3. QED
    BY <1>1, <2>2 DEF Tickets, Store!Drop, Store!Holds, Store!NoTicket
<1>6. QED
  BY <1>1, <1>4, <1>5

\* The relay gives it to the client.
LEMMA DownloadGives ==
  ASSUME Kept, NEW c \in Conn, Step(c), Download(c)
  PROVE  Store!Give(c) \/ UNCHANGED <<Tickets, gz, faults, file>>
<1>1. Base /\ InHand
  BY DEF Kept, Own, There
<1>2. file[c] = Absent /\ UNCHANGED <<gz, faults, cpc, login, password, text>>
  BY DEF Kept, Once, Download, child, disk
<1>3. Tickets' = Tickets
  BY <1>2 DEF Tickets, Held, AccountOf
<1>4. CASE out[c] = Archive
  <2>1. Says(c, "archive")
    <3>1. Len(out[c]) = 1 /\ out[c][1] = "archive"
      BY <1>4 DEF Archive
    <3>2. QED
      BY <3>1 DEF Says
  <2>2. cpc[c] = "sent" /\ text[c] # Garbage
    BY <1>1, <2>1 DEF InHand, Kept, Worth
  <2>3. Tickets[c].state = "taken" /\ Tickets[c].content = text[c]
    BY <2>2, TicketAt DEF Tickets
  <2>4. file' = [file EXCEPT ![c] = text[c]] \/ file' = [file EXCEPT ![c] = Absent]
    BY DEF Download, Set
  <2>5. CASE file' = [file EXCEPT ![c] = text[c]]
    BY <1>2, <1>3, <2>2, <2>3, <2>5 DEF Tickets, Store!Give, Store!Holds
  <2>6. CASE file' = [file EXCEPT ![c] = Absent]
    BY <1>1, <1>2, <1>3, <2>6 DEF Base, TypeOK
  <2>7. QED
    BY <2>4, <2>5, <2>6
<1>5. CASE out[c] # Archive
  <2>1. file' = [file EXCEPT ![c] = Absent]
    BY <1>5 DEF Download, Set
  <2>2. QED
    BY <1>1, <1>2, <1>3, <2>1 DEF Base, TypeOK
<1>6. QED
  BY <1>4, <1>5

\* Every step is one of the store, or leaves it alone.
LEMMA StepOfStore ==
  ASSUME Kept, NEW c \in Conn, Step(c)
  PROVE  Store!Move \/ UNCHANGED <<Tickets, gz, faults, file>>
<1>1. Base /\ Opened
  BY DEF Kept, Own, There
<1>2. CASE Open(c)
  BY <1>1, <1>2, OpenOrders DEF Store!Move
<1>3. CASE Gzip(c)
  BY <1>1, <1>3, GzipBegins DEF Store!Move
<1>4. CASE Compress(c)
  BY <1>4, CompressFinishes DEF Store!Move
<1>5. CASE Stat(c)
  BY <1>5, StatTakes DEF Store!Move
<1>6. CASE Download(c)
  BY <1>6, DownloadGives DEF Store!Move
<1>7. CASE Write(c)
  BY <1>1, <1>7, WriteFails DEF Store!Move
<1>8. CASE CompressFails(c)
  BY <1>1, <1>8, CompressingFails DEF Store!Move
<1>9. CASE Flush(c)
  BY <1>1, <1>9, FlushDrops DEF Store!Move
<1>10. CASE ~(Open(c) \/ Gzip(c) \/ Compress(c) \/ Stat(c) \/ Download(c) \/ Write(c)
                \/ CompressFails(c) \/ Flush(c))
  <2>1. UNCHANGED <<gz, faults, file>>
    BY <1>10
       DEF Step, Accept, Send, Handler, Relay, ReadLine, PassOn, Leave, Deadline, Orphan, Child,
           Begin, Scan, relay, disk
  <2>2. QED
    BY <1>1, <1>10, <2>1, TicketsStay
<1>11. QED
  BY <1>2, <1>3, <1>4, <1>5, <1>6, <1>7, <1>8, <1>9, <1>10

\* However generations and downloads overlap or fail, the files are a store of archives: one for
\* each directory that a login and a password spell, made once, of what was ordered for it, and
\* sent to who asks for that directory.
THEOREM ImplementsArchiveStore == Spec => ArchiveSpec
<1>1. Init => Store!Init
  <2>1. SUFFICES ASSUME Init PROVE Store!Init
    OBVIOUS
  <2>2. \A c \in Conn : Held(c) = [state |-> "none"]
    BY <2>1 DEF Init, Held
  <2>3. QED
    BY <2>1, <2>2 DEF Init, Store!Init, Store!NoTicket
<1>2. Kept /\ [Next]_vars => [Store!Next]_<<Tickets, gz, faults, file>>
  <2>1. SUFFICES ASSUME Kept, [Next]_vars PROVE Store!Move \/ UNCHANGED <<Tickets, gz, faults, file>>
    BY DEF Store!Next, Store!storeVars, Tickets
  <2>2. CASE UNCHANGED vars
    BY <2>2, Still DEF Tickets, Held, AccountOf
  <2>3. CASE \E c \in Conn : Step(c)
    BY <2>1, <2>3, StepOfStore
  <2>4. QED
    BY <2>1, <2>2, <2>3 DEF Next, Step
<1>3. QED
  BY KeptInit, KeptStep, <1>1, <1>2, PTL DEF Spec, ArchiveSpec, Store!Spec, Store!storeVars, Tickets

-----------------------------------------------------------------------------
(* The conversation *)

\* The tables of the conversation, entry by entry: what the child prints,
LEMMA AllTable ==
  /\ All[1] = "VOX_" /\ All[2] = "API." /\ All[3] = "LOGIN_" /\ All[4] = "PASSWORD_"
  /\ All[5] = "COMMAND_" /\ All[6] = "DOWNLOAD|GENERATE_" /\ All[7] = "TEXT_"
BY DEF All

\* how much of it and how many words it has read, by its label,
LEMMA ChildTable ==
  /\ DOMAIN Printed = {"start", "login", "password", "command", "text"}
  /\ Printed["start"] = 0 /\ Printed["login"] = 3 /\ Printed["password"] = 4
  /\ Printed["command"] = 6 /\ Printed["text"] = 7
  /\ WordsRead["start"] = 0 /\ WordsRead["login"] = 0 /\ WordsRead["password"] = 1
  /\ WordsRead["command"] = 2 /\ WordsRead["text"] = 3
  /\ DOMAIN WordsRead = {"start", "login", "password", "command", "text", "stat", "flush"}
  /\ WordsRead["stat"] = 3 /\ WordsRead["flush"] = 3
BY DEF Printed, WordsRead

\* how much of it the handler has taken, by its label,
LEMMA HandlerTable ==
  /\ DOMAIN Consumed = {"banner", "login_prompt", "login", "password_prompt", "password",
                        "command_prompt", "command_rest", "command", "text_prompt", "text",
                        "success"}
  /\ Consumed["banner"] = 0 /\ Consumed["login_prompt"] = 2 /\ Consumed["login"] = 3
  /\ Consumed["password_prompt"] = 3 /\ Consumed["password"] = 4
  /\ Consumed["command_prompt"] = 4 /\ Consumed["command_rest"] = 5 /\ Consumed["command"] = 6
  /\ Consumed["text_prompt"] = 6 /\ Consumed["text"] = 7 /\ Consumed["success"] = 7
BY DEF Consumed

\* and how many lines it has passed on.
LEMMA PassedTable ==
  /\ Passed["banner"] = 0 /\ Passed["login_prompt"] = 0 /\ Passed["login"] = 0
  /\ Passed["password_prompt"] = 1 /\ Passed["password"] = 1 /\ Passed["command_prompt"] = 2
  /\ Passed["command_rest"] = 2 /\ Passed["command"] = 2 /\ Passed["text_prompt"] = 3
  /\ Passed["text"] = 3 /\ Passed["success"] = 4
  /\ Passed["download"] = 3 /\ Passed["leave"] = 3
  /\ DOMAIN Passed = {"banner", "login_prompt", "login", "password_prompt", "password",
                      "command_prompt", "command_rest", "command", "text_prompt", "text",
                      "success", "download", "leave"}
BY DEF Passed

\* The words on their way are counted; a line that is read is on its way, a word that is
\* passed on stays so until the child reads it.
LEMMA Counted ==
  ASSUME TypeOK, NEW c \in Conn
  PROVE  /\ pipe[c] \in Seq(Word) /\ Len(pipe[c]) \in Nat
         /\ rest[c] \in Seq(Word) /\ Len(rest[c]) \in Nat /\ Due(c) \in Nat
         /\ (pipe[c] = <<>> => Len(pipe[c]) = 0) /\ (rest[c] = <<>> => Len(rest[c]) = 0)
         /\ rest[c] # <<>> => Len(rest[c]) > 0
<1>1. pipe[c] \in Seq(Word) /\ rest[c] \in Seq(Word)
  BY DEF TypeOK
<1>2. Len(pipe[c]) \in Nat /\ Len(rest[c]) \in Nat
  BY <1>1, LenProperties
<1>3. Len(<<>>) = 0
  OBVIOUS
<1>4. rest[c] # <<>> => Len(rest[c]) # 0
  BY <1>1, EmptySeq
<1>5. (pipe[c] = <<>> => Len(pipe[c]) = 0) /\ (rest[c] = <<>> => Len(rest[c]) = 0)
  BY <1>3, Zenon
<1>6. Due(c) \in Nat
  <2>1. \A m, n \in Nat : m + n \in Nat
    OBVIOUS
  <2>2. QED
    BY <1>2, <2>1, Zenon DEF Due
<1>7. rest[c] # <<>> => Len(rest[c]) > 0
  BY <1>2, <1>4
<1>8. QED
  BY <1>1, <1>2, <1>5, <1>6, <1>7

LEMMA ReadCounts ==
  ASSUME TypeOK, Born, NEW c \in Conn, ReadLine(c)
  PROVE  LET w == Head(arrived[c]).words IN
         /\ Due(c)' = Due(c) + Len(w) /\ Len(w) \in Nat /\ (w # <<>> => Len(w) > 0)
         /\ (~blank'[c] => ~blank[c] /\ w # <<>>) /\ (~crowded'[c] => ~crowded[c] /\ Len(w) <= 1)
<1> USE DEF child, disk, Set
<1> DEFINE w == Head(arrived[c]).words
<1>1. hpc[c] \in Reads /\ arrived[c] # <<>> /\ UNCHANGED pipe
  BY DEF ReadLine
<1>2. Head(arrived[c]) \in Line
  BY <1>1, HeadTailProperties DEF TypeOK
<1>3. w \in Seq(Word)
  BY <1>2, LinesOfWords
<1>4. Len(w) \in Nat /\ (w # <<>> => Len(w) # 0)
  BY <1>3, LenProperties, EmptySeq
<1>5. rest[c] = <<>>
  BY <1>1 DEF Born, Writing, Reads
<1>6. rest'[c] = w
  BY DEF ReadLine, TypeOK
<1>7. /\ ~blank'[c] => ~blank[c] /\ w # <<>>
      /\ ~crowded'[c] => ~crowded[c] /\ ~(Len(w) > 1)
  BY DEF ReadLine, TypeOK
<1> HIDE DEF w
<1>8. Due(c)' = Due(c) + Len(w)
  BY <1>1, <1>4, <1>5, <1>6, Counted DEF Due
<1>9. QED
  BY <1>4, <1>7, <1>8 DEF w

LEMMA PassOnCounts ==
  ASSUME TypeOK, NEW c \in Conn, PassOn(c), ~Ended(c)
  PROVE  Due(c)' = Due(c)
<1> USE DEF child, client, disk, Set
<1>1. /\ rest[c] # <<>> /\ pipe'[c] = Append(pipe[c], Head(rest[c]))
      /\ rest'[c] = Tail(rest[c])
  BY DEF PassOn, TypeOK
<1>2. Head(rest[c]) \in Word /\ Len(Tail(rest[c])) = Len(rest[c]) - 1
  BY <1>1, Counted, PipeTyped
<1>3. Len(Append(pipe[c], Head(rest[c]))) = Len(pipe[c]) + 1
  BY <1>2, Counted, PipeTyped
<1>4. Len(pipe'[c]) = Len(pipe[c]) + 1 /\ Len(rest'[c]) = Len(rest[c]) - 1
  BY <1>1, <1>2, <1>3, Zenon
<1>5. Len(pipe[c]) \in Nat /\ Len(rest[c]) \in Nat
  BY Counted
<1>6. \A m, n \in Nat : (m + 1) + (n - 1) = m + n
  OBVIOUS
<1>7. QED
  BY <1>4, <1>5, <1>6, Zenon DEF Due

LEMMA ScanCounts ==
  ASSUME TypeOK, NEW c \in Conn, Scan(c)
  PROVE  Due(c)' = Due(c) - 1 /\ Due(c) \in Nat
<1> USE DEF relay, passed, client, disk, Set
<1>1. pipe[c] # <<>> /\ pipe'[c] = Tail(pipe[c]) /\ rest'[c] = rest[c]
  BY DEF Scan, TypeOK
<1>2. Len(Tail(pipe[c])) = Len(pipe[c]) - 1
  BY <1>1, Counted, PipeTyped
<1>3. Len(pipe'[c]) = Len(pipe[c]) - 1 /\ Len(rest'[c]) = Len(rest[c])
  BY <1>1, <1>2, Zenon
<1>4. Len(pipe[c]) \in Nat /\ Len(rest[c]) \in Nat
  BY Counted
<1>5. \A m, n \in Nat : (m - 1) + n = (m + n) - 1
  OBVIOUS
<1>6. Due(c)' = Due(c) - 1
  BY <1>3, <1>4, <1>5, Zenon DEF Due
<1>7. QED
  BY <1>6, Counted

\* While the child talks, a read of a prompt takes what the next label has consumed.
LEMMA ReadEnds ==
  ASSUME TypeOK, Placed, NEW c \in Conn, Talks(c), hpc[c] \in DOMAIN Ends, hpc[c] # "success",
         EndOf(c, Ends[hpc[c]]) > 0
  PROVE  /\ Consumed[After[hpc[c]]] = Consumed[hpc[c]] + EndOf(c, Ends[hpc[c]])
         /\ Passed[After[hpc[c]]] = Passed[hpc[c]]
<1> DEFINE i == EndOf(c, Ends[hpc[c]])
           k == Consumed[hpc[c]]
<1>1. out[c] \in Seq(Piece)
  BY DEF TypeOK
<1>2. Len(out[c]) \in Nat
  BY <1>1, LenProperties
<1>3. /\ i \in 1..Len(out[c]) /\ out[c][i] \in Ends[hpc[c]]
      /\ \A j \in 1..i - 1 : out[c][j] \notin Ends[hpc[c]]
  BY <1>1, <1>2, FirstPlace
<1>4. /\ Len(out[c]) <= 7 - k
      /\ \A j \in 1..Len(out[c]) : out[c][j] = All[k + j]
  <2>1. Len(out[c]) = Printed[cpc[c]] - k
    BY DEF Placed, Right
  <2>2. \A j \in 1..Len(out[c]) : out[c][j] = All[k + j]
    BY DEF Placed, Right
  <2>3. Printed[cpc[c]] \in 0..7
    BY ChildTable DEF Talks
  <2>4. k \in Nat
    BY HandlerTable DEF Talks
  <2> HIDE DEF k
  <2>5. \A x, y, z \in Int : x = y - z /\ y \in 0..7 => x <= 7 - z
    OBVIOUS
  <2>6. Len(out[c]) \in Int /\ Printed[cpc[c]] \in Int /\ k \in Int
    BY <1>2, <2>3, <2>4
  <2>7. Len(out[c]) <= 7 - k
    BY <2>1, <2>3, <2>5, <2>6
  <2>8. QED
    BY <2>2, <2>7
<1> HIDE DEF i
<1>5. CASE hpc[c] = "banner"
  <2>1. k = 0 /\ Ends[hpc[c]] = Lined
    BY <1>5, HandlerTable, Labels
  <2>2. All[1] \notin Lined /\ All[2] \in Lined
    BY AllTable DEF Lined
  <2>3. i # 1
    BY <1>3, <1>4, <2>1, <2>2
  <2>4. i <= 2
    <3>1. SUFFICES ASSUME i > 2 PROVE FALSE
      BY <1>3
    <3>2. 2 \in 1..i - 1 /\ 2 \in 1..Len(out[c])
      BY <1>2, <1>3, <3>1
    <3>3. out[c][2] = All[2]
      BY <1>4, <2>1, <3>2
    <3>4. QED
      BY <1>3, <2>1, <2>2, <3>2, <3>3
  <2>5. i = 2
    BY <1>3, <2>3, <2>4
  <2>6. QED
    BY <1>5, <2>5, HandlerTable, PassedTable, Labels DEF i
<1>6. CASE hpc[c] # "banner"
  <2>1. /\ hpc[c] \in {"login_prompt", "password_prompt", "command_prompt", "command_rest",
                       "text_prompt"}
        /\ Ends[hpc[c]] = Spaced
    BY <1>6, Labels
  <2>2. k \in 2..6
    BY <2>1, HandlerTable
  <2>3. All[k + 1] \in Spaced
    BY <2>2, AllTable DEF Spaced
  <2>4. 1 \in 1..Len(out[c])
    BY <1>2, <1>3
  <2>5. out[c][1] \in Spaced
    BY <1>4, <2>3, <2>4
  <2>6. i = 1
    <3>1. SUFFICES ASSUME i # 1 PROVE FALSE
      OBVIOUS
    <3>2. 1 \in 1..i - 1
      BY <1>2, <1>3, <3>1
    <3>3. QED
      BY <1>3, <2>1, <2>5, <3>2
  <2>7. Consumed[After[hpc[c]]] = k + 1
    BY <2>1, HandlerTable, Labels
  <2>8. Passed[After[hpc[c]]] = Passed[hpc[c]]
    BY <2>1, PassedTable, Labels
  <2>9. QED
    BY <2>6, <2>7, <2>8 DEF i
<1>7. QED
  BY <1>5, <1>6

\* What the child says is the next of what it has to say.
LEMMA SayPlaced ==
  ASSUME TypeOK, Placed, NEW c \in Conn, Talks(c), NEW next \in DOMAIN Printed,
         NEW s \in {Banner, Password, Command, TextIs},
         out'[c] = out[c] \o s, Printed[next] = Printed[cpc[c]] + Len(s),
         \A k \in 1..Len(s) : s[k] = All[Printed[cpc[c]] + k]
  PROVE  /\ Len(out'[c]) = Printed[next] - Consumed[hpc[c]]
         /\ \A i \in 1..Len(out'[c]) : out'[c][i] = All[Consumed[hpc[c]] + i]
<1>1. out[c] \in Seq(Piece) /\ s \in Seq(Piece)
  BY Printable DEF TypeOK
<1>2. Len(out[c]) \in Nat /\ Len(s) \in Nat
  BY <1>1, LenProperties
<1>3. Printed[cpc[c]] \in Nat /\ Consumed[hpc[c]] \in Nat
  BY ChildTable, HandlerTable DEF Talks
<1>4. Len(out[c]) = Printed[cpc[c]] - Consumed[hpc[c]]
  BY DEF Placed, Right
<1>5. \A i \in 1..Len(out[c]) : out[c][i] = All[Consumed[hpc[c]] + i]
  BY DEF Placed, Right
<1>6. /\ Len(out'[c]) = Len(out[c]) + Len(s)
      /\ \A i \in 1..Len(out[c]) + Len(s) :
            out'[c][i] = IF i <= Len(out[c]) THEN out[c][i] ELSE s[i - Len(out[c])]
  BY <1>1, Appended
<1>7. ASSUME NEW i \in 1..Len(out[c]) + Len(s)
      PROVE  out'[c][i] = All[Consumed[hpc[c]] + i]
  <2>1. CASE i <= Len(out[c])
    BY <1>2, <1>5, <1>6, <2>1
  <2>2. CASE i > Len(out[c])
    <3>1. i - Len(out[c]) \in 1..Len(s)
      BY <1>2, <2>2
    <3>2. s[i - Len(out[c])] = All[Printed[cpc[c]] + (i - Len(out[c]))]
      BY <3>1
    <3>3. Printed[cpc[c]] + (i - Len(out[c])) = Consumed[hpc[c]] + i
      <4>1. \A x, y, z, j \in Int : z = x - y => x + (j - z) = y + j
        OBVIOUS
      <4>2. /\ Printed[cpc[c]] \in Int /\ Consumed[hpc[c]] \in Int
            /\ Len(out[c]) \in Int /\ i \in Int
        BY <1>2, <1>3
      <4>3. QED
        BY <1>4, <4>1, <4>2
    <3>4. out'[c][i] = s[i - Len(out[c])]
      BY <1>2, <1>6, <2>2
    <3>5. QED
      BY <3>2, <3>3, <3>4
  <2>3. QED
    BY <1>2, <2>1, <2>2
<1>8. Len(out'[c]) = Printed[next] - Consumed[hpc[c]]
  BY <1>2, <1>3, <1>4, <1>6
<1>9. Len(out'[c]) = Len(out[c]) + Len(s)
  BY <1>6
<1>10. QED
  BY <1>7, <1>8, <1>9

\* What each of them says.
LEMMA Lengths ==
  /\ Len(Banner) = 3 /\ Banner[1] = All[1] /\ Banner[2] = All[2] /\ Banner[3] = All[3]
  /\ Len(Password) = 1 /\ Password[1] = All[4]
  /\ Len(Command) = 2 /\ Command[1] = All[5] /\ Command[2] = All[6]
  /\ Len(TextIs) = 1 /\ TextIs[1] = All[7]
<1>1. Len(Banner) = 3 /\ Banner[1] = All[1] /\ Banner[2] = All[2] /\ Banner[3] = All[3]
  BY AllTable DEF Banner
<1>2. Len(Password) = 1 /\ Password[1] = All[4]
  BY AllTable DEF Password
<1>3. Len(Command) = 2 /\ Command[1] = All[5] /\ Command[2] = All[6]
  BY AllTable DEF Command
<1>4. Len(TextIs) = 1 /\ TextIs[1] = All[7]
  BY AllTable DEF TextIs
<1>5. QED
  BY <1>1, <1>2, <1>3, <1>4

\* The child begins, or reads a word and says what comes next.
LEMMA ChildPlaced ==
  ASSUME TypeOK, Placed, NEW c \in Conn, Begin(c) \/ Scan(c), Talks(c)'
  PROVE  Right(c)'
<1> USE DEF relay, passed, child, client, disk, Set
<1>1. UNCHANGED <<hpc, blank, rest>>
  BY DEF Begin, Scan
<1>2. hpc[c] \in DOMAIN Consumed /\ cpc'[c] \in DOMAIN Printed
  BY <1>1 DEF Talks
<1>3. hpc[c] # "closed"
  BY <1>2, HandlerTable
<1>6. CASE Begin(c)
  <2>1. /\ cpc[c] = "start" /\ cpc'[c] = "login" /\ out'[c] = out[c] \o Banner
        /\ UNCHANGED pipe
    BY <1>3, <1>6 DEF Begin, Say, TypeOK
  <2>2. Talks(c)
    BY <1>2, <2>1, ChildTable DEF Talks
  <2>3. /\ Len(out'[c]) = Printed["login"] - Consumed[hpc[c]]
        /\ \A i \in 1..Len(out'[c]) : out'[c][i] = All[Consumed[hpc[c]] + i]
    <3>1. \A k \in 1..Len(Banner) : Banner[k] = All[Printed[cpc[c]] + k]
      BY <2>1, Lengths, ChildTable
    <3>2. Printed["login"] = Printed[cpc[c]] + Len(Banner)
      BY <2>1, Lengths, ChildTable
    <3>3. "login" \in DOMAIN Printed
      BY ChildTable
    <3>4. QED
      BY <2>1, <2>2, <3>1, <3>2, <3>3, SayPlaced
  <2>4. ~blank'[c] => Passed[hpc[c]] <= WordsRead["login"] + Due(c)'
    BY <1>1, <2>1, <2>2, ChildTable DEF Placed, Right, Due
  <2>5. QED
    BY <1>1, <2>1, <2>3, <2>4 DEF Right
<1>7. CASE Scan(c)
  <2>2. Due(c)' = Due(c) - 1 /\ Due(c) \in Nat
    BY <1>7, ScanCounts
  <2>3. \/ cpc[c] = "login" /\ cpc'[c] = "password" /\ out'[c] = out[c] \o Password
        \/ cpc[c] = "password" /\ cpc'[c] = "command" /\ out'[c] = out[c] \o Command
        \/ cpc[c] = "command" /\ cpc'[c] = "text" /\ out'[c] = out[c] \o TextIs
        \/ cpc'[c] \in {"stat", "failed", "open"}
    <3>1. \A s, l : Say(c, s, l) => cpc'[c] = l /\ out'[c] = out[c] \o s
      BY <1>3 DEF Say, TypeOK
    <3>2. \A l : cpc' = Set(cpc, c, l) => cpc'[c] = l
      BY DEF TypeOK
    <3>3. QED
      BY <1>7, <3>1, <3>2 DEF Scan
  <2> DEFINE Following(s) == /\ out'[c] = out[c] \o s
                             /\ cpc[c] \in {"login", "password", "command"}
                             /\ Printed[cpc'[c]] = Printed[cpc[c]] + Len(s)
                             /\ WordsRead[cpc'[c]] = WordsRead[cpc[c]] + 1
                             /\ WordsRead[cpc[c]] \in Nat
                             /\ \A k \in 1..Len(s) : s[k] = All[Printed[cpc[c]] + k]
  <2>4. \E s \in {Password, Command, TextIs} : Following(s)
    <3>1. ASSUME cpc[c] = "login", cpc'[c] = "password", out'[c] = out[c] \o Password
          PROVE  Following(Password)
      <4>1. \A k \in 1..Len(Password) : Password[k] = All[Printed[cpc[c]] + k]
        BY <3>1, Lengths, ChildTable
      <4>2. QED
        BY <3>1, <4>1, Lengths, ChildTable
    <3>2. ASSUME cpc[c] = "password", cpc'[c] = "command", out'[c] = out[c] \o Command
          PROVE  Following(Command)
      <4>1. \A k \in 1..Len(Command) : Command[k] = All[Printed[cpc[c]] + k]
        BY <3>2, Lengths, ChildTable
      <4>2. QED
        BY <3>2, <4>1, Lengths, ChildTable
    <3>3. ASSUME cpc[c] = "command", cpc'[c] = "text", out'[c] = out[c] \o TextIs
          PROVE  Following(TextIs)
      <4>1. \A k \in 1..Len(TextIs) : TextIs[k] = All[Printed[cpc[c]] + k]
        BY <3>3, Lengths, ChildTable
      <4>2. QED
        BY <3>3, <4>1, Lengths, ChildTable
    <3>4. cpc'[c] \notin {"stat", "failed", "open"}
      BY <1>2, ChildTable
    <3> HIDE DEF Following
    <3>5. QED
      BY <2>3, <3>1, <3>2, <3>3, <3>4
  <2>5. PICK s \in {Password, Command, TextIs} : Following(s)
    BY <2>4
  <2>6. Talks(c)
    BY <1>2, <2>5, ChildTable DEF Talks
  <2>7. s \in {Banner, Password, Command, TextIs}
    OBVIOUS
  <2>8. /\ Len(out'[c]) = Printed[cpc'[c]] - Consumed[hpc[c]]
        /\ \A i \in 1..Len(out'[c]) : out'[c][i] = All[Consumed[hpc[c]] + i]
    BY <1>2, <2>5, <2>6, <2>7, SayPlaced
  <2>9. ~blank'[c] => Passed[hpc[c]] <= WordsRead[cpc'[c]] + Due(c)'
    <3>1. ~blank[c] => Passed[hpc[c]] <= WordsRead[cpc[c]] + Due(c)
      BY <2>6 DEF Placed, Right
    <3>2. WordsRead[cpc'[c]] = WordsRead[cpc[c]] + 1 /\ WordsRead[cpc[c]] \in Nat
      BY <2>5
    <3>3. WordsRead[cpc'[c]] + Due(c)' = WordsRead[cpc[c]] + Due(c)
      BY <2>2, <3>2
    <3>4. QED
      BY <1>1, <3>1, <3>3
  <2>10. QED
    BY <1>1, <2>8, <2>9 DEF Right
<1>8. QED
  BY <1>6, <1>7

\* The handler takes what ends its read.
LEMMA RelayPlaced ==
  ASSUME TypeOK, Placed, NEW c \in Conn, Relay(c), Talks(c)'
  PROVE  Right(c)'
<1> USE DEF child, client, passed, disk, Set
<1> DEFINE i == EndOf(c, Ends[hpc[c]])
<1>1. hpc[c] \in DOMAIN Ends /\ UNCHANGED <<cpc, pipe, blank, rest>>
  BY DEF Relay
<1>2. out[c] \in Seq(Piece)
  BY DEF TypeOK
<1>3. Len(out[c]) \in Nat /\ i \in 0..Len(out[c])
  BY <1>2, FirstPlace, LenProperties
<1>4. /\ i > 0 /\ hpc'[c] = After[hpc[c]]
      /\ out'[c] = SubSeq(out[c], i + 1, Len(out[c]))
  <2>1. hpc'[c] # "closed"
    BY HandlerTable DEF Talks
  <2>2. i > 0 /\ Relayed(c, i) /\ hpc' = Set(hpc, c, After[hpc[c]])
    BY <2>1 DEF Relay, TypeOK
  <2> HIDE DEF i
  <2>3. QED
    BY <2>2 DEF Relayed, TypeOK
<1>5. Talks(c) /\ hpc[c] # "success"
  <2>1. hpc'[c] \in DOMAIN Consumed /\ cpc'[c] \in DOMAIN Printed
    BY DEF Talks
  <2>2. QED
    BY <1>1, <1>4, <2>1, HandlerTable, Labels DEF Talks
<1>6. /\ Consumed[After[hpc[c]]] = Consumed[hpc[c]] + i
      /\ Passed[After[hpc[c]]] = Passed[hpc[c]]
  BY <1>1, <1>4, <1>5, ReadEnds
<1> HIDE DEF i
<1>7. /\ Len(out'[c]) = Len(out[c]) - i
      /\ \A j \in 1..Len(out[c]) - i : out'[c][j] = out[c][i + j]
  BY <1>2, <1>3, <1>4, Taken
<1>8. /\ Len(out[c]) = Printed[cpc[c]] - Consumed[hpc[c]]
      /\ \A j \in 1..Len(out[c]) : out[c][j] = All[Consumed[hpc[c]] + j]
      /\ ~blank[c] => Passed[hpc[c]] <= WordsRead[cpc[c]] + Due(c)
  BY <1>5 DEF Placed, Right
<1>9. Printed[cpc[c]] \in Nat /\ Consumed[hpc[c]] \in Nat
  BY <1>5, ChildTable, HandlerTable DEF Talks
<1>10. Len(out'[c]) = Printed[cpc'[c]] - Consumed[hpc'[c]]
  BY <1>1, <1>3, <1>4, <1>6, <1>7, <1>8, <1>9
<1>11. ASSUME NEW j \in 1..Len(out'[c])
       PROVE  out'[c][j] = All[Consumed[hpc'[c]] + j]
  <2>1. i + j \in 1..Len(out[c]) /\ out'[c][j] = out[c][i + j]
    BY <1>3, <1>7
  <2>2. out[c][i + j] = All[Consumed[hpc[c]] + (i + j)]
    BY <1>8, <2>1
  <2>3. Consumed[hpc[c]] + (i + j) = Consumed[hpc'[c]] + j
    BY <1>3, <1>4, <1>6, <1>7, <1>9
  <2>4. QED
    BY <2>1, <2>2, <2>3
<1>12. ~blank'[c] => Passed[hpc'[c]] <= WordsRead[cpc'[c]] + Due(c)'
  BY <1>1, <1>4, <1>6, <1>8 DEF Due
<1>13. QED
  BY <1>10, <1>11, <1>12 DEF Right

\* The handler reads a line: a word at least, unless the line is blank.
LEMMA ReadLinePlaced ==
  ASSUME TypeOK, Born, Placed, NEW c \in Conn, ReadLine(c), Talks(c)'
  PROVE  Right(c)'
<1> USE DEF child, client, disk, Set
<1>1. hpc[c] \in Reads /\ UNCHANGED <<cpc, out>>
  BY DEF ReadLine
<1>2. PICK n \in Nat : /\ Due(c)' = Due(c) + n
                       /\ ~blank'[c] => ~blank[c] /\ n > 0
  BY ReadCounts
<1>3. Talks(c)
  <2>1. cpc[c] \in DOMAIN Printed
    BY <1>1 DEF Talks
  <2>2. QED
    BY <1>1, <2>1, HandlerTable DEF Talks, Reads
<1>4. /\ Consumed[hpc'[c]] = Consumed[hpc[c]]
      /\ Passed[hpc'[c]] = Passed[hpc[c]] + 1 /\ Passed[hpc[c]] \in Nat
  <2>1. hpc'[c] \in DOMAIN Consumed
    BY DEF Talks
  <2>2. hpc'[c] \notin {"leave", "download"}
    BY <2>1, HandlerTable
  <2>3. hpc'[c] = IF hpc[c] # "command" THEN After[hpc[c]] ELSE "text_prompt"
    BY <2>2 DEF ReadLine, TypeOK
  <2>4. QED
    BY <1>1, <2>3, HandlerTable, PassedTable, Labels DEF Reads
<1>5. /\ Len(out[c]) = Printed[cpc[c]] - Consumed[hpc[c]]
      /\ \A j \in 1..Len(out[c]) : out[c][j] = All[Consumed[hpc[c]] + j]
      /\ ~blank[c] => Passed[hpc[c]] <= WordsRead[cpc[c]] + Due(c)
  BY <1>3 DEF Placed, Right
<1>6. WordsRead[cpc[c]] \in Nat /\ Due(c) \in Nat
  BY <1>3, ChildTable, Counted DEF Talks
<1>7. ~blank'[c] => Passed[hpc'[c]] <= WordsRead[cpc'[c]] + Due(c)'
  BY <1>1, <1>2, <1>4, <1>5, <1>6
<1>8. QED
  BY <1>1, <1>4, <1>5, <1>7 DEF Right

\* It passes on a word.
LEMMA PassOnPlaced ==
  ASSUME TypeOK, Placed, NEW c \in Conn, PassOn(c), Talks(c)'
  PROVE  Right(c)'
<1> USE DEF child, client, disk
<1>1. UNCHANGED <<hpc, cpc, out, blank>>
  BY DEF PassOn
<1>2. Talks(c) /\ ~Ended(c)
  BY <1>1, ChildTable DEF Talks, Ended
<1>3. Due(c)' = Due(c)
  BY <1>2, PassOnCounts
<1>4. Right(c)
  BY <1>2 DEF Placed
<1>5. QED
  BY <1>1, <1>3, <1>4 DEF Right

\* What the child says and what the handler takes stay in step.
LEMMA PlacedStep ==
  ASSUME Base, Placed, NEW c \in Conn, Step(c)
  PROVE  Placed'
<1> USE DEF relay, passed, child, client, disk, Set
<1>1. SUFFICES ASSUME NEW d \in Conn, Talks(d)' PROVE Right(d)'
  BY DEF Placed, Right
<1>2. TypeOK /\ Born
  BY DEF Base
<1>3. ASSUME UNCHANGED <<hpc, cpc, out, rest, pipe, blank>> \/ d # c
      PROVE  Right(d)'
  <2>1. /\ hpc'[d] = hpc[d] /\ cpc'[d] = cpc[d] /\ out'[d] = out[d] /\ pipe'[d] = pipe[d]
        /\ blank'[d] = blank[d] /\ rest'[d] = rest[d]
    BY <1>2, <1>3, OthersStay
  <2>2. Talks(d)
    BY <1>1, <2>1 DEF Talks
  <2>3. Right(d)
    BY <2>2 DEF Placed, Right
  <2>4. QED
    BY <2>1, <2>3 DEF Right, Due
<1>4. CASE d = c
  <2>1. hpc'[c] \in DOMAIN Consumed /\ cpc'[c] \in DOMAIN Printed
    BY <1>1, <1>4 DEF Talks
  <2>2. /\ hpc'[c] # "closed"
        /\ cpc'[c] \notin {"none", "dead", "open", "flush"} \cup Opener \cup {"sent", "failed"}
    BY <2>1, HandlerTable, ChildTable DEF Opener
  <2>3. CASE Accept(c)
    <3>1. /\ hpc'[c] = "banner" /\ cpc'[c] = "start" /\ UNCHANGED <<out, pipe, rest>>
          /\ out[c] = <<>>
      BY <1>2, <2>2, <2>3 DEF Accept, Born, TypeOK
    <3>2. Len(<<>>) = 0
      OBVIOUS
    <3>3. Due(c)' = Due(c) /\ Due(c) \in Nat
      BY <1>2, <3>1, Counted DEF Due
    <3>4. QED
      BY <1>4, <3>1, <3>2, <3>3, HandlerTable, ChildTable, PassedTable DEF Right
  <2>4. CASE Send(c)
    BY <1>3, <2>4 DEF Send
  <2>5. CASE Handler(c)
    <3>1. ~Download(c) /\ ~Leave(c) /\ ~Deadline(c)
      BY <1>2, <2>2 DEF Download, Leave, Deadline, TypeOK
    <3>2. QED
      BY <1>1, <1>2, <1>4, <2>5, <3>1, RelayPlaced, ReadLinePlaced, PassOnPlaced DEF Handler
  <2>6. CASE Child(c)
    <3>1. ~Stat(c) /\ ~Flush(c) /\ ~Open(c)
      BY <1>2, <2>2 DEF Stat, Flush, Say, Open, TypeOK, Opener
    <3>2. ~Write(c) /\ ~Gzip(c) /\ ~Compress(c) /\ ~CompressFails(c)
      BY <1>2, <2>2 DEF Write, Gzip, Compress, CompressFails, TypeOK, Opener
    <3>3. QED
      BY <1>1, <1>2, <1>4, <2>6, <3>1, <3>2, ChildPlaced DEF Child
  <2>7. CASE Orphan(c)
    BY <1>2, <2>2, <2>7 DEF Orphan, TypeOK
  <2>8. QED
    BY <2>3, <2>4, <2>5, <2>6, <2>7 DEF Step
<1>5. QED
  BY <1>3, <1>4

\* What passes for a line of one word keeps to that, and what the child reads, too.
LEMMA TightStep ==
  ASSUME Base, Tight, NEW c \in Conn, Step(c)
  PROVE  Tight'
<1> USE DEF relay, passed, child, client, disk, Set
<1> DEFINE Here(d) == hpc[d] \in DOMAIN Passed /\ cpc[d] \in DOMAIN WordsRead /\ ~crowded[d]
           Holds(d) == WordsRead[cpc[d]] + Due(d) <= Passed[hpc[d]]
<1>1. SUFFICES ASSUME NEW d \in Conn, Here(d)' PROVE Holds(d)'
  BY DEF Tight
<1>2. TypeOK /\ Born
  BY DEF Base
<1>3. Here(d) => Holds(d)
  BY DEF Tight
<1>4. ASSUME UNCHANGED <<hpc, cpc, rest, pipe, crowded>> \/ d # c
      PROVE  Holds(d)'
  <2>1. /\ hpc'[d] = hpc[d] /\ cpc'[d] = cpc[d] /\ pipe'[d] = pipe[d]
        /\ crowded'[d] = crowded[d] /\ rest'[d] = rest[d]
    BY <1>2, <1>4, OthersStay
  <2>2. QED
    BY <1>1, <1>3, <2>1 DEF Due
<1>5. CASE d = c
  <2>1. /\ hpc'[c] # "closed" /\ cpc'[c] \in DOMAIN WordsRead /\ ~crowded'[c]
        /\ cpc'[c] \notin {"none", "dead", "open"} \cup Opener \cup {"sent", "failed"}
    BY <1>1, <1>5, PassedTable, ChildTable DEF Opener
  <2>2. Due(c) \in Nat
    BY <1>2, Counted
  <2>3. CASE Accept(c)
    <3>1. /\ hpc'[c] = "banner" /\ cpc'[c] = "start" /\ UNCHANGED <<pipe, rest>>
          /\ hpc[c] = "accept"
      BY <1>2, <2>1, <2>3 DEF Accept, TypeOK
    <3>2. pipe[c] = <<>> /\ rest[c] = <<>>
      BY <1>2, <3>1 DEF Born, Writing
    <3>3. Due(c)' = 0
      BY <1>2, <3>1, <3>2, Counted DEF Due
    <3>4. QED
      BY <1>5, <3>1, <3>3, ChildTable, PassedTable
  <2>4. CASE Send(c)
    BY <1>4, <2>4 DEF Send
  <2>5. CASE Relay(c)
    <3>1. /\ UNCHANGED <<cpc, crowded, pipe, rest>> /\ hpc[c] \in DOMAIN Ends
          /\ hpc'[c] = After[hpc[c]] \/ hpc'[c] = "closed"
      BY <1>2, <2>5 DEF Relay, TypeOK
    <3>2. hpc[c] \in DOMAIN Passed /\ Passed[hpc'[c]] = Passed[hpc[c]]
      BY <2>1, <3>1, Labels, PassedTable
    <3>3. QED
      BY <1>3, <1>5, <2>1, <3>1, <3>2 DEF Due
  <2>6. CASE ReadLine(c)
    <3>1. PICK n \in Nat : Due(c)' = Due(c) + n /\ ~crowded[c] /\ n <= 1
      BY <1>2, <2>1, <2>6, ReadCounts
    <3>2. UNCHANGED cpc /\ hpc[c] \in Reads
      BY <2>6 DEF ReadLine
    <3>3. \/ hpc[c] # "command" /\ hpc'[c] = After[hpc[c]]
          \/ hpc[c] = "command" /\ hpc'[c] \in {"download", "text_prompt", "leave"}
      BY <1>2, <2>6 DEF ReadLine, TypeOK
    <3>4. /\ hpc[c] \in DOMAIN Passed /\ Passed[hpc[c]] \in Nat
          /\ Passed[hpc'[c]] = Passed[hpc[c]] + 1
      BY <3>2, <3>3, Labels, PassedTable DEF Reads
    <3>5. WordsRead[cpc[c]] + Due(c) <= Passed[hpc[c]] /\ WordsRead[cpc[c]] \in Nat
      BY <1>3, <1>5, <2>1, <3>1, <3>2, <3>4, ChildTable
    <3>6. WordsRead[cpc'[c]] + Due(c)' <= Passed[hpc'[c]]
      BY <2>2, <3>1, <3>2, <3>4, <3>5
    <3>7. QED
      BY <1>5, <3>6
  <2>7. CASE PassOn(c)
    <3>1. UNCHANGED <<hpc, cpc, crowded>>
      BY <2>7 DEF PassOn
    <3>2. ~Ended(c)
      BY <2>1, <3>1, ChildTable DEF Ended
    <3>3. Due(c)' = Due(c)
      BY <1>2, <2>7, <3>2, PassOnCounts
    <3>4. QED
      BY <1>1, <1>3, <1>5, <3>1, <3>3
  <2>8. CASE Begin(c)
    <3>1. UNCHANGED <<hpc, crowded, pipe, rest>>
      BY <2>8 DEF Begin
    <3>2. cpc[c] = "start" /\ cpc'[c] = "login"
      BY <1>2, <2>1, <2>8 DEF Begin, Say, TypeOK
    <3>3. QED
      BY <1>1, <1>3, <1>5, <3>1, <3>2, ChildTable DEF Due
  <2>9. CASE Scan(c)
    <3>1. UNCHANGED <<hpc, crowded>> /\ cpc[c] \in Reads
      BY <2>9 DEF Scan, Waits
    <3>2. \/ cpc[c] = "login" /\ cpc'[c] = "password"
          \/ cpc[c] = "password" /\ cpc'[c] = "command"
          \/ cpc[c] = "command" /\ cpc'[c] \in {"text", "stat"}
      <4>1. \A t, l : Say(c, t, l) => cpc'[c] = l \/ cpc'[c] = "dead"
        BY <1>2 DEF Say, TypeOK
      <4>2. \A l : cpc' = Set(cpc, c, l) => cpc'[c] = l
        BY <1>2 DEF TypeOK
      <4>3. QED
        BY <2>1, <2>9, <4>1, <4>2 DEF Scan
    <3>3. Due(c)' = Due(c) - 1
      BY <1>2, <2>9, ScanCounts
    <3>4. /\ WordsRead[cpc'[c]] = WordsRead[cpc[c]] + 1 /\ WordsRead[cpc[c]] \in Nat
          /\ cpc[c] \in DOMAIN WordsRead
      BY <3>2, ChildTable
    <3>5. WordsRead[cpc'[c]] + Due(c)' = WordsRead[cpc[c]] + Due(c)
      BY <2>2, <3>3, <3>4
    <3>6. WordsRead[cpc[c]] + Due(c) <= Passed[hpc[c]]
      BY <1>1, <1>3, <1>5, <3>1, <3>4
    <3>7. QED
      BY <1>5, <3>1, <3>5, <3>6
  <2>10. CASE Stat(c)
    <3>1. UNCHANGED <<hpc, crowded, pipe, rest>>
      BY <2>10 DEF Stat
    <3>2. cpc[c] = "stat" /\ cpc'[c] = "flush"
      BY <1>2, <2>1, <2>10 DEF Stat, Say, TypeOK
    <3>3. QED
      BY <1>1, <1>3, <1>5, <3>1, <3>2, ChildTable DEF Due
  <2>11. /\ ~Download(c) /\ ~Leave(c) /\ ~Deadline(c)
         /\ ~Flush(c) /\ ~Open(c) /\ ~Orphan(c)
    <3>1. ~Download(c) /\ ~Leave(c) /\ ~Deadline(c)
      BY <1>2, <2>1 DEF Download, Leave, Deadline, TypeOK
    <3>2. ~Flush(c)
      BY <1>2, <2>1 DEF Flush, TypeOK
    <3>3. ~Open(c) /\ ~Orphan(c)
      BY <1>2, <2>1 DEF Open, Orphan, TypeOK, Opener
    <3>4. QED
      BY <3>1, <3>2, <3>3
  <2>12. ~Write(c) /\ ~Gzip(c) /\ ~Compress(c) /\ ~CompressFails(c)
    BY <1>2, <2>1 DEF Write, Gzip, Compress, CompressFails, TypeOK, Opener
  <2>13. QED
    BY <2>3, <2>4, <2>5, <2>6, <2>7, <2>8, <2>9, <2>10, <2>11, <2>12 DEF Step, Handler, Child
<1>6. QED
  BY <1>4, <1>5

\* Both read only after a blank line, whatever is sent and whenever: else what the child has
\* still to say ends the read.
LEMMA PlacedMeans ==
  ASSUME TypeOK, Placed, NEW c \in Conn, Starved(c)
  PROVE  blank[c]
<1>1. SUFFICES ASSUME hpc[c] \in DOMAIN Ends, EndOf(c, Ends[hpc[c]]) = 0,
                      Waits(c), pipe[c] = <<>>, rest[c] = <<>>, ~blank[c]
               PROVE  FALSE
  BY DEF Starved
<1>2. cpc[c] \in {"login", "password", "command", "text"}
  BY <1>1 DEF Waits, Reads
<1>3. Talks(c)
  BY <1>1, <1>2, HandlerTable, ChildTable, Labels DEF Talks
<1>4. Due(c) = 0
  BY <1>1, Counted DEF Due
<1>5. /\ Len(out[c]) = Printed[cpc[c]] - Consumed[hpc[c]]
      /\ \A j \in 1..Len(out[c]) : out[c][j] = All[Consumed[hpc[c]] + j]
      /\ Passed[hpc[c]] <= WordsRead[cpc[c]]
  BY <1>1, <1>2, <1>3, <1>4, ChildTable DEF Placed, Right
<1>6. out[c] \in Seq(Piece)
  BY DEF TypeOK
<1>7. \A j \in 1..Len(out[c]) : out[c][j] \notin Ends[hpc[c]]
  BY <1>1, <1>6, FirstPlace
<1>8. CASE hpc[c] = "banner"
  <2>1. Len(out[c]) >= 3 /\ Consumed[hpc[c]] = 0
    BY <1>2, <1>5, <1>8, HandlerTable, ChildTable
  <2>2. out[c][2] = "API."
    BY <1>5, <2>1, AllTable
  <2>3. "API." \in Ends[hpc[c]]
    BY <1>8, Labels DEF Lined
  <2>4. QED
    BY <1>7, <2>1, <2>2, <2>3
<1>9. CASE hpc[c] = "success"
  BY <1>2, <1>5, <1>9, PassedTable, ChildTable
<1>10. CASE hpc[c] \notin {"banner", "success"}
  <2>1. /\ hpc[c] \in {"login_prompt", "password_prompt", "command_prompt", "command_rest",
                       "text_prompt"}
        /\ Ends[hpc[c]] = Spaced
    BY <1>1, <1>10, Labels
  <2>2. Len(out[c]) >= 1 /\ Consumed[hpc[c]] \in 2..6
    BY <1>2, <1>5, <2>1, HandlerTable, ChildTable, PassedTable
  <2>3. out[c][1] = All[Consumed[hpc[c]] + 1]
    BY <1>5, <2>2
  <2>4. All[Consumed[hpc[c]] + 1] \in Spaced
    BY <2>2, AllTable DEF Spaced
  <2>5. QED
    BY <1>7, <2>1, <2>2, <2>3, <2>4
<1>11. QED
  BY <1>8, <1>9, <1>10

\* Both write only after a line of several words: else the child has read all there can be.
LEMMA TightMeans ==
  ASSUME TypeOK, Born, Tight, NEW c \in Conn, Clogged(c)
  PROVE  crowded[c]
<1>1. SUFFICES ASSUME ~crowded[c] PROVE FALSE
  OBVIOUS
<1>2. rest[c] # <<>> /\ Len(pipe[c]) = PipeSize /\ cpc[c] = "flush"
  BY DEF Clogged
<1>3. hpc[c] \in DOMAIN Passed /\ Passed[hpc[c]] <= 4 /\ Passed[hpc[c]] \in Nat
  BY <1>2, PassedTable DEF Born, Writing
<1>4. 3 + Due(c) <= Passed[hpc[c]]
  BY <1>1, <1>2, <1>3, ChildTable DEF Tight
<1>5. Due(c) >= 2 /\ Due(c) \in Nat
  BY <1>2, Counted, PipeAssumption DEF Due
<1>6. QED
  BY <1>3, <1>4, <1>5

\* The relay and the child never read from each other at once unless a line without a word
\* was passed on, and never write to each other at once unless a line of several was:
\* however many words a pipe holds.
THEOREM NobodyWaitsForEver == Spec => []NoMutualWait
<1>1. Init => Base /\ Placed /\ Tight
  <2>1. ASSUME Init PROVE Placed /\ Tight
    <3>1. \A c \in Conn : cpc[c] = "none"
      BY <2>1 DEF Init
    <3>2. QED
      BY <3>1, ChildTable DEF Placed, Tight, Talks
  <2>2. QED
    BY <2>1, BaseInit
<1>2. Base /\ Placed /\ Tight /\ [Next]_vars => Base' /\ Placed' /\ Tight'
  <2>1. SUFFICES ASSUME Base, Placed, Tight, [Next]_vars PROVE Placed' /\ Tight'
    BY BaseStep
  <2>2. CASE UNCHANGED vars
    <3>1. UNCHANGED <<hpc, cpc, out, rest, pipe, blank, crowded>>
      BY <2>2, Still
    <3>2. \A c \in Conn : (Talks(c)' <=> Talks(c)) /\ (Right(c)' <=> Right(c)) /\ Due(c)' = Due(c)
      BY <3>1 DEF Right, Talks, Due
    <3>3. QED
      BY <2>1, <3>1, <3>2 DEF Placed, Tight
  <2>3. CASE \E c \in Conn : Step(c)
    BY <2>1, <2>3, PlacedStep, TightStep
  <2>4. QED
    BY <2>1, <2>2, <2>3 DEF Next, Step
<1>3. Base /\ Placed /\ Tight => NoMutualWait
  BY PlacedMeans, TightMeans DEF Base, NoMutualWait
<1>4. QED
  BY <1>1, <1>2, <1>3, PTL DEF Spec
=============================================================================
