-------------------------------- MODULE Vox --------------------------------
(***************************************************************************)
(* vox: run.go starts a goroutine and a child process ./vox for each       *)
(* connection and relays prompts and lines between them through pipes;     *)
(* vox.c reads words, not lines, and keeps one archive in each directory   *)
(* "login:password" of the file system, where all children meet.           *)
(*                                                                         *)
(* Abstracted: addresses (one), the bytes of prompts (the pieces the       *)
(* relay's reads end at), audio (the text it speaks), base64.  A pipe      *)
(* holds PipeSize words; blanks take no room in it (a run of them that     *)
(* fills it is like more words), and all prompts together fit into one.    *)
(* What a child's exit flushes is left out: it is cut off from an archive  *)
(* that is made already, or goes to a file that no gzip will take.         *)
(***************************************************************************)
EXTENDS Integers, FiniteSets, Sequences, SequencesExt

CONSTANTS Conn,
          Script,    \* lines clients send at each prompt: words, and whether not
                     \* between blanks
          Patient,   \* whether clients wait for the prompt
          Silent,    \* words of which no character has a sample
          Absent, Empty, Partial, Mixed,  \* contents of files that are no text
          Garbage,   \* what an uninitialised pointer points to
          Account, DirOf,  \* directories; the one a login and a password spell
          Old, Left, \* an archive of an earlier process; the directories with one
          Failing,   \* directories in which a write or a gzip may fail
          PipeSize,  \* words a pipe holds
          MaxLines   \* bound: lines a client sends

Reads == {"login", "password", "command", "text"}
Line  == UNION {Script[r] : r \in Reads}

ASSUME ScriptAssumption == /\ DOMAIN Script = Reads
                           /\ \A l \in Line : l.words \in Seq(STRING) /\ l.neat \in BOOLEAN
ASSUME BoundsAssumption == MaxLines \in Nat /\ Patient \in BOOLEAN

Word == UNION {Range(l.words) : l \in Line}
Text == Word \cup {Garbage}

\* sprintf "%s:%s": "a:b" with "c" and "a" with "b:c" are one directory.
ASSUME DirAssumption == DirOf \in [Word \X Word -> Account] 
ASSUME DisksAssumption == Failing \subseteq Account /\ Left \subseteq Account
ASSUME PipeAssumption == PipeSize \in Nat \ {0}
ASSUME ValuesAssumption == /\ {Absent, Empty, Partial, Mixed, Old} \cap Text = {}
                           /\ Absent \notin {Empty, Partial, Mixed, Old}
                           /\ Partial \notin {Empty, Mixed, Old} /\ Old \notin {Empty, Mixed}
                           /\ Empty # Mixed

\* What a child prints, cut after each blank and each line end.
Banner   == <<"VOX_", "API.", "LOGIN_">>
Password == <<"PASSWORD_">>
Command  == <<"COMMAND_", "DOWNLOAD|GENERATE_">>
TextIs   == <<"TEXT_">>
Success  == <<"SUCCESS_", "TAKE_", "YOU_", "FILE_", "LATER.">>
Nothing  == <<"NOTHING_", "FOR_", "YOU.">>
Unknown  == <<"NOT_", "SUPPORTED.">>
Archive  == <<"archive">>
Lined    == {"API.", "LATER.", "YOU.", "SUPPORTED."}
Spaced   == {"VOX_", "LOGIN_", "PASSWORD_", "COMMAND_", "DOWNLOAD|GENERATE_", "TEXT_",
             "SUCCESS_", "TAKE_", "YOU_", "FILE_", "NOTHING_", "FOR_", "NOT_"}

VARIABLES hpc, cpc, \* what the handler and its child do next
          arrived,  \* lines in the socket
          lines,    \* lines the client has sent
          blank,    \* history: a line without a word was passed on
          crowded,  \* history: a line of several words was
          rest,     \* what the relay has yet to write of a line
          pipe,     \* words on the child's standard input
          out,      \* pieces on its standard output
          login, password, \* what the child has read
          text,     \* the text it speaks, or the archive it sends
          told,     \* the client was sent the line of success
          file,     \* the archive the client was sent
          wav, gz,  \* vox.wav and vox.wav.gz of each account
          faults,   \* history: accounts where a write or a gzip failed
          linked    \* the file the child opened is the one the name leads to, and
                    \* nobody has opened it since the child ended

vars   == <<hpc, cpc, arrived, lines, blank, crowded, rest, pipe, out, login,
            password, text, told, file, wav, gz, faults, linked>>
client == <<arrived, lines>>
passed == <<blank, crowded, rest>>
relay  == <<hpc, told, file, passed>>
child  == <<cpc, login, password, text, linked>>
disk   == <<wav, gz, faults>>

AccountOf(c) == DirOf[<<login[c], password[c]>>]
Ended(c)  == cpc[c] \in {"done", "sent", "stopped", "failed", "dead"}
Set(f, c, v) == [f EXCEPT ![c] = v]

Init == /\ hpc = [c \in Conn |-> "accept"] /\ cpc = [c \in Conn |-> "none"]
        /\ arrived = [c \in Conn |-> <<>>] /\ lines = [c \in Conn |-> 0]
        /\ blank = [c \in Conn |-> FALSE] /\ crowded = [c \in Conn |-> FALSE]
        /\ rest = [c \in Conn |-> <<>>]
        /\ pipe = [c \in Conn |-> <<>>] /\ out = [c \in Conn |-> <<>>]
        /\ login = [c \in Conn |-> Garbage] /\ password = [c \in Conn |-> Garbage]
        /\ text = [c \in Conn |-> Garbage]
        /\ told = [c \in Conn |-> FALSE] /\ file = [c \in Conn |-> Absent]
        /\ wav = [a \in Account |-> Absent] 
        /\ gz = [a \in Account |-> IF a \in Left THEN Old ELSE Absent]
        /\ faults = {}
        /\ linked = [c \in Conn |-> FALSE]

-----------------------------------------------------------------------------
(* run.go *)

\* A connection is refused within a millisecond after one that was not; time is any.
Accept(c) == /\ hpc[c] = "accept"
             /\ \/ /\ hpc' = Set(hpc, c, "banner")
                   /\ cpc' = Set(cpc, c, "start")
                \/ /\ \E d \in Conn : cpc[d] # "none"
                   /\ hpc' = Set(hpc, c, "closed")
                   /\ UNCHANGED cpc
             /\ UNCHANGED <<client, told, file, passed, pipe, out, login, password, text, linked, disk>>

Send(c) == /\ hpc[c] # "closed" /\ lines[c] < MaxLines
           /\ Patient => hpc[c] \in Reads /\ arrived[c] = <<>>
           /\ \E l \in IF Patient THEN Script[hpc[c]] ELSE Line :
                 arrived' = [arrived EXCEPT ![c] = Append(@, l)]
           /\ lines' = [lines EXCEPT ![c] = @ + 1]
           /\ UNCHANGED <<relay, child, pipe, out, disk>>

\* The handler's reads of the child: where each ends and what comes next.
Ends  == [banner |-> Lined, login_prompt |-> Spaced, password_prompt |-> Spaced,
          command_prompt |-> Spaced, command_rest |-> Spaced, text_prompt |-> Spaced,
          success |-> Lined]
After == [banner |-> "login_prompt", login_prompt |-> "login", login |-> "password_prompt",
          password_prompt |-> "password", password |-> "command_prompt",
          command_prompt |-> "command_rest", command_rest |-> "command",
          text_prompt |-> "text", text |-> "success", success |-> "closed"]
\* The place of the first piece that ends a read, or 0.
EndOf(c, ends) == SelectInSeq(out[c], LAMBDA p : p \in ends)

Relayed(c, i) == /\ told' = Set(told, c, told[c] \/ "LATER." \in Range(SubSeq(out[c], 1, i)))
                 /\ out' = Set(out, c, SubSeq(out[c], i + 1, Len(out[c])))

\* The child's end ends a read with an error, and with it the connection.
Relay(c) == /\ hpc[c] \in DOMAIN Ends /\ rest[c] = <<>>
            /\ LET i == EndOf(c, Ends[hpc[c]]) IN
               \/ i > 0 /\ Relayed(c, i) /\ hpc' = Set(hpc, c, After[hpc[c]])
               \/ /\ i = 0 /\ Ended(c)
                  /\ hpc' = Set(hpc, c, "closed") /\ UNCHANGED <<told, out>>
            /\ UNCHANGED <<file, passed, client, child, pipe, disk>>

\* Mutant: the handler does not return when it has sent what it read.
DownloadGoesOn(c) ==
   /\ hpc[c] = "download" /\ rest[c] = <<>>
   /\ LET i == EndOf(c, Spaced) IN
      /\ i > 0 \/ Ended(c)
      /\ file' = Set(file, c, IF i = 0 /\ out[c] = Archive THEN text[c] ELSE Absent)
      /\ out' = Set(out, c, IF i = 0 THEN <<>> ELSE SubSeq(out[c], i + 1, Len(out[c])))
   /\ UNCHANGED <<hpc, told, passed, client, child, pipe, disk>>

\* After DOWNLOAD the error is not looked at: what was read is sent.
Download(c) == /\ hpc[c] = "download" /\ rest[c] = <<>>
               /\ LET i == EndOf(c, Spaced) IN
                  /\ i > 0 \/ Ended(c)
                  /\ file' = Set(file, c, IF i = 0 /\ out[c] = Archive THEN text[c] ELSE Absent)
                  /\ out' = Set(out, c, IF i = 0 THEN <<>> ELSE SubSeq(out[c], i + 1, Len(out[c])))
               /\ hpc' = Set(hpc, c, "closed")
               /\ UNCHANGED <<told, passed, client, child, pipe, disk>>

\* Mutant: the password is not passed on.
ReadLineForgets(c) ==
   /\ hpc[c] \in Reads /\ arrived[c] # <<>>
   /\ arrived' = Set(arrived, c, <<>>)
   /\ rest' = Set(rest, c, IF hpc[c] = "password" THEN <<>> ELSE Head(arrived[c]).words)
   /\ blank' = Set(blank, c, blank[c] \/ Head(arrived[c]).words = <<>>)
   /\ hpc' = Set(hpc, c, IF hpc[c] # "command" THEN After[hpc[c]] ELSE "text_prompt")
   /\ UNCHANGED <<told, file, crowded, lines, child, pipe, out, disk>>

\* Each read of a line has a buffer of its own: it takes all that has arrived,
\* writes the first line to the child and drops the rest.
ReadLine(c) == /\ hpc[c] \in Reads /\ arrived[c] # <<>>
               /\ LET l == Head(arrived[c]) IN
                  /\ arrived' = Set(arrived, c, <<>>)
                  /\ rest' = Set(rest, c, l.words)
                  /\ blank' = Set(blank, c, blank[c] \/ l.words = <<>>)
                  /\ crowded' = Set(crowded, c, crowded[c] \/ Len(l.words) > 1)
                  /\ hpc' = Set(hpc, c,
                        IF hpc[c] # "command" THEN After[hpc[c]]
                        ELSE IF l = [words |-> <<"DOWNLOAD">>, neat |-> TRUE] THEN "download"
                        ELSE IF l = [words |-> <<"GENERATE">>, neat |-> TRUE] THEN "text_prompt"
                        ELSE "leave")
               /\ UNCHANGED <<told, file, lines, child, pipe, out, disk>>

\* The write waits for room, without a deadline.  The child's end ends it with an error
\* that is not looked at.
PassOn(c) == /\ rest[c] # <<>>
             /\ \/ /\ ~Ended(c) /\ Len(pipe[c]) < PipeSize
                   /\ pipe' = [pipe EXCEPT ![c] = Append(@, Head(rest[c]))]
                   /\ rest' = [rest EXCEPT ![c] = Tail(@)]
                \/ Ended(c) /\ rest' = Set(rest, c, <<>>) /\ UNCHANGED pipe
             /\ UNCHANGED <<hpc, told, file, blank, crowded, client, child, out, disk>>

\* A command that is none of the two ends the connection.
Leave(c) == /\ hpc[c] = "leave" /\ rest[c] = <<>>
            /\ hpc' = Set(hpc, c, "closed")
            /\ UNCHANGED <<told, file, passed, client, child, pipe, out, disk>>

\* Mutant: the deadline holds for the first line only.
DeadlineOnce(c) == /\ hpc[c] = "login"
                   /\ hpc' = Set(hpc, c, "closed") /\ arrived' = Set(arrived, c, <<>>)
                   /\ UNCHANGED <<told, file, passed, lines, child, pipe, out, disk>>

\* Ten seconds after it began the connection cannot be read any more.  Only reads of
\* the connection notice: the pipes have no deadline.
Deadline(c) == /\ hpc[c] \in Reads
               /\ hpc' = Set(hpc, c, "closed") /\ arrived' = Set(arrived, c, <<>>)
               /\ UNCHANGED <<told, file, passed, lines, child, pipe, out, disk>>

-----------------------------------------------------------------------------
(* vox.c *)

\* A child whose handler has returned may be killed by what it prints.
Say(c, pieces, next) ==
        \/ out' = [out EXCEPT ![c] = @ \o pieces] /\ cpc' = Set(cpc, c, next)
        \/ hpc[c] = "closed" /\ cpc' = Set(cpc, c, "dead") /\ UNCHANGED out

Waits(c) == cpc[c] \in Reads

Begin(c) == /\ cpc[c] = "start"
            /\ Say(c, Banner, "login")
            /\ UNCHANGED <<relay, client, pipe, login, password, text, linked, disk>>

\* scanf skips blanks and line ends to the next word.
Scan(c) == /\ Waits(c) /\ pipe[c] # <<>>
           /\ LET w == Head(pipe[c]) IN
              \/ /\ cpc[c] = "login" /\ login' = Set(login, c, w) /\ UNCHANGED <<password, text>>
                 /\ Say(c, Password, "password")
              \/ /\ cpc[c] = "password" /\ password' = Set(password, c, w) /\ UNCHANGED <<login, text>>
                 /\ Say(c, Command, "command")
              \/ /\ cpc[c] = "command" /\ UNCHANGED <<login, password, text>>
                 /\ CASE w = "DOWNLOAD" -> cpc' = Set(cpc, c, "stat") /\ UNCHANGED out
                      [] w = "GENERATE" -> Say(c, TextIs, "text")
                      [] OTHER          -> Say(c, Unknown, "failed")
              \/ /\ cpc[c] = "text" /\ text' = Set(text, c, w) /\ UNCHANGED <<login, password>>
                 /\ Say(c, Success, "open")
           /\ pipe' = [pipe EXCEPT ![c] = Tail(@)]
           /\ UNCHANGED <<relay, client, linked, disk>>

\* The collector closes the pipes of a handler that has returned, the input perhaps
\* before the output: scanf fails and leaves its pointer as it was.
Orphan(c) == /\ hpc[c] = "closed" /\ Waits(c) /\ pipe[c] = <<>>
             /\ \/ cpc' = Set(cpc, c, "dead")
                \/ cpc[c] = "text" /\ cpc' = Set(cpc, c, "open")
             /\ UNCHANGED <<relay, client, login, password, text, linked, pipe, out, disk>>

\* Mutant: the directory's name is made of the login twice.
StatLoginTwice(c) ==
   /\ cpc[c] = "stat"
   /\ LET there == gz[DirOf[<<login[c], login[c]>>]] IN
      IF there = Absent THEN Say(c, Nothing, "sent") /\ UNCHANGED text
                        ELSE Say(c, Archive, "sent") /\ text' = Set(text, c, there)
   /\ UNCHANGED <<relay, client, pipe, login, password, linked, disk>>

\* DOWNLOAD: the archive as it is, even while gzip writes it.  It may not fit the pipe.
\* One that a failed gzip removes after it was found is read from a wild pointer, without end.
Stat(c) == /\ cpc[c] = "stat"
           /\ LET there == gz[AccountOf(c)] IN
              \/ there = Absent /\ Say(c, Nothing, "sent") /\ UNCHANGED text
              \/ /\ there = Absent /\ AccountOf(c) \in faults
                 /\ cpc' = Set(cpc, c, "failed") /\ UNCHANGED <<text, out>>
              \/ /\ there # Absent /\ text' = Set(text, c, there)
                 /\ Say(c, Archive, "sent") \/ (cpc' = Set(cpc, c, "flush") /\ UNCHANGED out)
           /\ UNCHANGED <<relay, client, pipe, login, password, linked, disk>>

\* What does not fit is taken by a relay that reads on: an archive ends none of its reads.
Drains(c) == /\ rest[c] = <<>>
             /\ \/ hpc[c] \in DOMAIN Ends /\ EndOf(c, Ends[hpc[c]]) = 0
                \/ hpc[c] = "download" /\ EndOf(c, Spaced) = 0
Flush(c) == /\ cpc[c] = "flush"
            /\ \/ Drains(c) /\ out' = [out EXCEPT ![c] = @ \o Archive] /\ cpc' = Set(cpc, c, "sent")
               \/ hpc[c] = "closed" /\ cpc' = Set(cpc, c, "dead") /\ UNCHANGED out
            /\ UNCHANGED <<relay, client, pipe, login, password, text, linked, disk>>

\* Mutants: the result of fopen is not looked at, or that of string_to_vox_file.
OpenNull(c) == /\ cpc[c] = "open"
               /\ cpc' = Set(cpc, c, "crashed")
               /\ UNCHANGED <<relay, client, pipe, out, login, password, text, linked, disk>>
OpenRegardless(c) == /\ cpc[c] = "open"
                     /\ cpc' = Set(cpc, c, "gzip")
                     /\ UNCHANGED <<relay, client, pipe, out, login, password, text, linked, disk>>

\* GENERATE, after the line of success: mkdir and fopen, which empties the file of
\* whoever is writing it.
Open(c) == /\ cpc[c] = "open"
           /\ \/ /\ wav' = [wav EXCEPT ![AccountOf(c)] = Empty]
                 /\ linked' = [d \in Conn |-> d = c \/ (linked[d] /\ ~Ended(d))]
                 /\ cpc' = Set(cpc, c, "write")
              \/ cpc' = Set(cpc, c, "failed") /\ UNCHANGED <<wav, linked>>
           /\ UNCHANGED <<relay, client, pipe, out, login, password, text, gz, faults>>

\* Something fails in the directory, and the code does not look at it.
Fault(c) == /\ AccountOf(c) \in Failing
            /\ faults' = faults \cup {AccountOf(c)}

\* An empty audio is a failed write to the code, and an unread text may be a fault.
\* Two children that write one file write over each other.  On a full disk a part is
\* written, or nothing: fwrite has put some into its buffer and returns that much.
Write(c) == /\ cpc[c] = "write"
            /\ \/ /\ text[c] \notin Silent
                  /\ wav' = IF ~linked[c] THEN wav
                            ELSE [wav EXCEPT ![AccountOf(c)] =
                                    IF @ = Empty /\ text[c] # Garbage THEN text[c] ELSE Mixed]
                  /\ cpc' = Set(cpc, c, "gzip")
                  /\ UNCHANGED faults
               \/ /\ text[c] \notin Silent /\ Fault(c)
                  /\ \/ UNCHANGED wav
                     \/ linked[c] /\ wav' = [wav EXCEPT ![AccountOf(c)] = Mixed]
                  /\ cpc' = Set(cpc, c, "gzip")
               \/ /\ text[c] \in Silent \cup {Garbage}
                  /\ cpc' = Set(cpc, c, "stopped")
                  /\ UNCHANGED <<wav, faults>>
            /\ UNCHANGED <<relay, client, pipe, out, login, password, text, linked, gz>>

\* gzip writes over no archive: it asks a terminal, and the pipe is none.  It may not start.
Gzip(c) == /\ cpc[c] = "gzip"
           /\ \/ /\ wav[AccountOf(c)] # Absent /\ gz[AccountOf(c)] = Absent
                 /\ gz' = [gz EXCEPT ![AccountOf(c)] = Partial]
                 /\ cpc' = Set(cpc, c, "zip")
                 /\ UNCHANGED faults
              \/ /\ wav[AccountOf(c)] = Absent \/ gz[AccountOf(c)] # Absent
                 /\ cpc' = Set(cpc, c, "done") /\ UNCHANGED <<gz, faults>>
              \/ Fault(c) /\ cpc' = Set(cpc, c, "done") /\ UNCHANGED gz
           /\ UNCHANGED <<relay, client, pipe, out, login, password, text, linked, wav>>

\* It compresses what it finds, whoever wrote that in the meantime, and unlinks.
Compress(c) == /\ cpc[c] = "zip"
               /\ \/ gz' = [gz EXCEPT ![AccountOf(c)] = wav[AccountOf(c)]]
                  \/ /\ \E d \in Conn \ {c} : linked[d] /\ AccountOf(d) = AccountOf(c)
                     /\ gz' = [gz EXCEPT ![AccountOf(c)] = Mixed]
               /\ wav' = [wav EXCEPT ![AccountOf(c)] = Absent]
               /\ linked' = [d \in Conn |-> linked[d] /\ AccountOf(d) # AccountOf(c)]
               /\ cpc' = Set(cpc, c, "done")
               /\ UNCHANGED <<relay, client, pipe, out, login, password, text, faults>>

\* A gzip that fails removes what it has made, unless it was killed.
CompressFails(c) == /\ cpc[c] = "zip" /\ Fault(c)
                    /\ gz' = [gz EXCEPT ![AccountOf(c)] = Absent] \/ UNCHANGED gz
                    /\ cpc' = Set(cpc, c, "done")
                    /\ UNCHANGED <<relay, client, pipe, out, login, password, text, linked, wav>>

-----------------------------------------------------------------------------
Handler(c) == Relay(c) \/ Download(c) \/ ReadLine(c) \/ PassOn(c) \/ Leave(c) \/ Deadline(c)
Child(c)   == \/ Begin(c) \/ Scan(c) \/ Stat(c) \/ Flush(c)
              \/ Open(c) \/ Write(c) \/ Gzip(c) \/ Compress(c) \/ CompressFails(c)

Next == \E c \in Conn : Accept(c) \/ Send(c) \/ Handler(c) \/ Child(c) \/ Orphan(c)

Spec == Init /\ [][Next]_vars

\* Goroutines and processes are scheduled, and the deadline comes.
FairSpec == Spec /\ \A c \in Conn : WF_vars(Handler(c)) /\ WF_vars(Child(c))

-----------------------------------------------------------------------------
Content == Text \cup {Empty, Partial, Mixed, Absent, Old}
Piece   == Lined \cup Spaced \cup {"archive"}

\* The type invariant.
TypeOK == /\ hpc \in [Conn -> {"accept", "closed", "download", "leave"} \cup DOMAIN Ends \cup Reads]
          /\ cpc \in [Conn -> Reads \cup {"none", "start", "stat", "flush", "open", "write", "gzip",
                                          "zip", "done", "sent", "stopped", "failed", "dead"}]
          /\ arrived \in [Conn -> Seq(Line)] /\ lines \in [Conn -> 0..MaxLines]
          /\ blank \in [Conn -> BOOLEAN] /\ crowded \in [Conn -> BOOLEAN]
          /\ told \in [Conn -> BOOLEAN] /\ rest \in [Conn -> Seq(Word)]
          /\ pipe \in [Conn -> Seq(Word)] /\ out \in [Conn -> Seq(Piece)]
          /\ \A c \in Conn : Len(pipe[c]) <= PipeSize
          /\ login \in [Conn -> Text] /\ password \in [Conn -> Text]
          /\ text \in [Conn -> Content] /\ file \in [Conn -> Content]
          /\ wav \in [Account -> Content] /\ gz \in [Account -> Content]
          /\ faults \subseteq Failing
          /\ linked \in [Conn -> BOOLEAN]

\* Relay and child wait for each other, for ever, in two ways only.  Both read: then a line
\* without a word was passed on, and reads by line and reads by word are out of step.  Both
\* write, the relay to a full pipe and the child an archive that does not fit its own: then
\* a line of several words was, of which the child has read a part.
Starved(c) == /\ hpc[c] \in DOMAIN Ends /\ EndOf(c, Ends[hpc[c]]) = 0 /\ rest[c] = <<>>
              /\ Waits(c) /\ pipe[c] = <<>>
Clogged(c) == /\ rest[c] # <<>> /\ Len(pipe[c]) = PipeSize
              /\ cpc[c] = "flush"
NoMutualWait == \A c \in Conn : /\ Starved(c) => blank[c]
                                /\ Clogged(c) => crowded[c]

\* Every accepted connection is closed, whatever its client sends or does not send,
\* unless a line without a word was passed on, or both sides write to full pipes.
ConnectionCloses ==
   \A c \in Conn : hpc[c] = "banner" ~> hpc[c] = "closed" \/ blank[c] \/ Clogged(c)

\* Who was sent "SUCCESS! TAKE YOU FILE LATER!" and whose child came to its end has an
\* archive, or somebody's gzip is at it; or writing or gzip failed there, which nobody was
\* told, but then a sound is left that a later gzip may take.  Success is told before there
\* is a file, so this is what the line is worth.
SuccessLeavesArchive ==
   \A c \in Conn : told[c] /\ cpc[c] = "done" =>
      LET a == AccountOf(c) IN
      \/ gz[a] \notin {Absent, Partial}
      \/ gz[a] = Partial /\ \E d \in Conn : cpc[d] = "zip" /\ AccountOf(d) = a
      \/ a \in faults /\ wav[a] # Absent

\* An archive that was made is never changed: not by a second text for the account,
\* not by a generation that overlaps or fails.
ArchiveIsKept ==
   [][\A a \in Account : gz[a] \notin {Absent, Partial} => gz'[a] = gz[a]]_vars

\* What a client is sent was there before, or is a text generated with a login and password
\* that spell the same directory; if not a whole one, then because it was read while it was made,
\* because several generations met, because the text was never read, or because writing
\* failed there.
Generators(a) == {c \in Conn : /\ cpc[c] \in {"write", "gzip", "zip", "done", "stopped"}
                               /\ AccountOf(c) = a}
GeneratedFor(a, content) ==
   \E d \in Generators(a) :
      \/ text[d] = content
      \/ content \in {Empty, Mixed} /\ (Generators(a) \ {d} # {} \/ a \in faults)
      \/ content = Mixed /\ text[d] = Garbage
DownloadIsOwn ==
   \A c \in Conn : file[c] \notin {Absent, Partial} =>
      GeneratedFor(AccountOf(c), file[c]) \/ (file[c] = Old /\ AccountOf(c) \in Left)

\* The archives are made and sent as ArchiveStore says.  A child is an order once it has
\* opened the file, and its order is over when gzip is through; a child that was asked for
\* the archive has taken it when it has read it.
Held(c) ==
   LET Of(state) == [state |-> state, account |-> AccountOf(c), content |-> text[c]]
   IN  CASE cpc[c] \in {"write", "gzip", "stopped"} -> Of("ordered")
         [] cpc[c] = "zip"  -> Of("making")
         [] cpc[c] = "done" -> Of("over")
         [] cpc[c] \in {"flush", "sent"} -> Of("taken")
         [] OTHER -> [state |-> "none"]
Store == INSTANCE ArchiveStore WITH ticket <- [c \in Conn |-> Held(c)], archive <- gz,
                                    given <- file, Nothing <- Garbage
ArchiveSpec == Store!Spec
=============================================================================
