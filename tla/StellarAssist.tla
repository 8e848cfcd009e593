--------------------------- MODULE StellarAssist ---------------------------
(***************************************************************************)
(* StellarAssist: Server.cs hands each connection to a pool of threads; a  *)
(* thread (ClientConnectionHandler.cs) agrees on a key and carries out     *)
(* commands on the folder of its client (Client.cs), which other           *)
(* connections of the client share.  A file that is open for writing       *)
(* cannot be opened by another connection, nor one open for reading be     *)
(* opened for writing: the attempt throws, and an exception that is not    *)
(* caught below ends the connection.                                       *)
(*                                                                         *)
(* Abstracted: the key agreement and the cipher, the text of commands      *)
(* (which words they contain) and of answers.  A message that arrives in   *)
(* pieces is several messages.  A compiler that outlives the process is    *)
(* taken to have ended before it.  A program of a client prints, does not  *)
(* end or does not compile, and leaves the files alone: the service runs   *)
(* it as itself, so a program that writes into other folders can do there  *)
(* whatever it likes, and nothing here holds for them.                     *)
(***************************************************************************)
EXTENDS Integers, FiniteSets

CONSTANTS Conn,
          PublicKey, Folder,
          FolderOf,     \* the folder of a key: ten characters of it
          Home,         \* folders there were before, the program's own: the key "W"
          Commands,     \* the sets of words that commands contain
          PoolSize,     \* SetMaxThreads
          Absent, Empty,\* a file that is missing, or truncated and not written
          None,         \* no file open, nothing known
          MaxCommands,  \* bound: commands of a connection
          MaxDeaths,    \* bound: times the process dies
          MaxFaults     \* bound: streams, folders and processes that cannot be made

Word == {"GetData", "GetResult", "SetData", "SetCode", "Exit"}
Kind == {"prints", "hangs", "wrong"}   \* what a program does; "wrong" does not compile

ASSUME FolderAssumption == FolderOf \in [PublicKey -> Folder] /\ Home \subseteq Folder
ASSUME WordAssumption   == Commands \subseteq SUBSET Word
ASSUME BoundsAssumption == PoolSize \in Nat \ {0} /\ {MaxCommands, MaxDeaths, MaxFaults} \subseteq Nat

\* Contents: what a connection sent, or a program it had compiled printed.
Content == [kind : {"data", "output"}, by : Conn]
Program == [kind : Kind, by : Conn]
Handle  == [file : {"key", "data", "code"}, how : {"read", "write"}]

ASSUME ValuesAssumption == /\ Absent # Empty /\ Absent # "private"
                           /\ {Absent, Empty, None} \cap (Content \cup Program) = {}
                           /\ None \notin Folder \cup Handle

VARIABLES pc,       \* what the thread of a connection does next
          folder,   \* client.ClientFolder
          cmd,      \* words of the command that are still to be looked for
          opened,   \* the file the thread has open, and how
          prog,     \* the program it sends, or runs
          dir,      \* Directory.Exists
          key, data, code, exe,   \* session.key, data.dat, code.cs, code.exe
          unkeyed,  \* history: folders whose maker failed, or died, before session.key
          wrote,    \* history: what the connection's last write was to leave in data.dat
          met,      \* history: another connection has opened data.dat since, or it failed
          told,     \* history: its last answer from data.dat since then
          commands, deaths, faults

vars    == <<pc, folder, cmd, opened, prog, dir, key, data, code, exe, unkeyed, wrote, met, told,
             commands, deaths, faults>>
disk    == <<dir, key, data, code, exe>>
history == <<unkeyed, wrote, met, told>>
bounds  == <<commands, deaths, faults>>

Running == {c \in Conn : pc[c] \notin {"idle", "queued", "closed"}}

Init == /\ pc = [c \in Conn |-> "idle"] /\ folder = [c \in Conn |-> None]
        /\ cmd = [c \in Conn |-> {}] /\ opened = [c \in Conn |-> None]
        /\ prog = [c \in Conn |-> None]
        /\ dir = [f \in Folder |-> f \in Home]
        /\ key = [f \in Folder |-> Absent] /\ data = [f \in Folder |-> Absent]
        /\ code = [f \in Folder |-> Absent] /\ exe = [f \in Folder |-> Absent]
        /\ unkeyed = {}
        /\ wrote = [c \in Conn |-> None] /\ met = [c \in Conn |-> FALSE]
        /\ told = [c \in Conn |-> None]
        /\ commands = [c \in Conn |-> 0] /\ deaths = 0 /\ faults = 0

At(c, label)   == pc[c] = label
GoTo(c, label) == pc' = [pc EXCEPT ![c] = label]

\* An exception, the end of transmission, or Exit: finally closes the connection, and
\* using closes the file.
Finish(c) == /\ GoTo(c, "closed")
             /\ opened' = [opened EXCEPT ![c] = None]
             /\ cmd' = [cmd EXCEPT ![c] = {}]
             /\ prog' = [prog EXCEPT ![c] = None]

Fail(c) == Finish(c) /\ UNCHANGED <<folder, disk, history, bounds>>

-----------------------------------------------------------------------------
(* Server.cs *)

AcceptTcpClient(c) == /\ At(c, "idle") /\ GoTo(c, "queued")
                      /\ UNCHANGED <<folder, cmd, opened, prog, disk, history, bounds>>

ClientThread(c) == /\ At(c, "queued") /\ Cardinality(Running) < PoolSize
                   /\ GoTo(c, "hello")
                   /\ UNCHANGED <<folder, cmd, opened, prog, disk, history, bounds>>

\* The process dies; when it is started again the folders are as they were left.
Die == /\ deaths < MaxDeaths /\ deaths' = deaths + 1
       /\ pc' = [c \in Conn |-> IF At(c, "idle") THEN "idle" ELSE "closed"]
       /\ opened' = [c \in Conn |-> None] /\ cmd' = [c \in Conn |-> {}]
       /\ prog' = [c \in Conn |-> None]
       /\ unkeyed' = unkeyed \cup {folder[c] : c \in {d \in Conn : At(d, "create_key")}}
       /\ UNCHANGED <<folder, disk, wrote, met, told, commands, faults>>

-----------------------------------------------------------------------------
(* Files *)

Others(c) == {d \in Conn \ {c} : folder[d] = folder[c] /\ opened[d] # None}
CanRead(c, file)  == \A d \in Others(c) : opened[d] # [file |-> file, how |-> "write"]
CanWrite(c, file) == \A d \in Others(c) : opened[d].file # file

Open(c, file, how) == opened' = [opened EXCEPT ![c] = [file |-> file, how |-> how]]
Close(c) == opened' = [opened EXCEPT ![c] = None]
Put(file, c, v) == [file EXCEPT ![folder[c]] = v]

\* Others of the folder have met a connection that opens data.dat.
Meet(c) == met' = [d \in Conn |-> met[d] \/ (d # c /\ folder[d] = folder[c])]

-----------------------------------------------------------------------------
(* ClientConnectionHandler.cs, Client.cs: recognising a client *)

\* A message with fewer than three parts is passed over, a wrong number throws, and so may
\* sending the own key, which a client that does not read it holds up.
Hello(c) == /\ At(c, "hello")
            /\ \/ \E k \in PublicKey : folder' = [folder EXCEPT ![c] = FolderOf[k]]
                  /\ GoTo(c, "client") /\ UNCHANGED <<cmd, opened, prog, disk, history, bounds>>
               \/ Fail(c)

\* new Client, before every command.
FindFolder(c) == /\ At(c, "client")
                 /\ GoTo(c, IF dir[folder[c]] THEN "open_key" ELSE "mkdir")
                 /\ UNCHANGED <<folder, cmd, opened, prog, disk, history, bounds>>

\* Mutant: the key is left to the first who needs it.
MakeFolderOnly(c) == /\ At(c, "mkdir")
                     /\ dir' = Put(dir, c, TRUE)
                     /\ GoTo(c, "command")
                     /\ UNCHANGED <<folder, cmd, opened, prog, key, data, code, exe, history, bounds>>

MakeFolder(c) == /\ At(c, "mkdir")
                 /\ dir' = Put(dir, c, TRUE)
                 /\ GoTo(c, "create_key")
                 /\ UNCHANGED <<folder, cmd, opened, prog, key, data, code, exe, history, bounds>>

CreateKey(c) == /\ At(c, "create_key") /\ CanWrite(c, "key")
                /\ Open(c, "key", "write") /\ key' = Put(key, c, Empty)
                /\ GoTo(c, "write_key")
                /\ UNCHANGED <<folder, cmd, prog, dir, data, code, exe, history, bounds>>

WriteKey(c) == /\ At(c, "write_key")
               /\ key' = Put(key, c, "private") /\ Close(c)
               /\ GoTo(c, "command")
               /\ UNCHANGED <<folder, cmd, prog, dir, data, code, exe, history, bounds>>

OpenKey(c) == /\ At(c, "open_key") /\ key[folder[c]] # Absent /\ CanRead(c, "key")
              /\ Open(c, "key", "read") /\ GoTo(c, "read_key")
              /\ UNCHANGED <<folder, cmd, prog, disk, history, bounds>>

\* An empty file is as good: the property falls back on the private key.
ReadKey(c) == /\ At(c, "read_key")
              /\ Close(c) /\ GoTo(c, "command")
              /\ UNCHANGED <<folder, cmd, prog, disk, history, bounds>>

KeyFails(c) == /\ \/ At(c, "create_key") /\ ~CanWrite(c, "key")
                  \/ At(c, "open_key") /\ (key[folder[c]] = Absent \/ ~CanRead(c, "key"))
               /\ Fail(c)

-----------------------------------------------------------------------------
(* ClientConnectionHandler.cs, Client.cs: commands *)

Command(c) == /\ At(c, "command")
              /\ \/ /\ commands[c] < MaxCommands
                    /\ commands' = [commands EXCEPT ![c] = @ + 1]
                    /\ \E words \in Commands : cmd' = [cmd EXCEPT ![c] = words]
                    /\ GoTo(c, "perform")
                    /\ UNCHANGED <<folder, opened, prog, disk, history, deaths, faults>>
                 \/ Fail(c)

\* The words are looked for in this order, whatever their order in the command.
Order == <<"GetData", "GetResult", "SetData", "SetCode", "Exit">>
Performs(c, word) == /\ At(c, "perform") /\ word \in cmd[c]
                     /\ \A i, j \in 1..5 : Order[i] \in cmd[c] /\ Order[j] = word => j <= i

Performed(c, word) == /\ cmd' = [cmd EXCEPT ![c] = @ \ {word}]
                      /\ GoTo(c, "send")
                      /\ prog' = [prog EXCEPT ![c] = None]

\* SendData has no timeout: a client that does not read holds the thread.
Send(c) == /\ At(c, "send")
           /\ \/ GoTo(c, "perform")
                 /\ UNCHANGED <<folder, cmd, opened, prog, disk, history, bounds>>
              \/ Fail(c)

\* No word is left: the next command, of a client looked up anew.
Loop(c) == /\ At(c, "perform") /\ cmd[c] = {}
           /\ GoTo(c, "client")
           /\ UNCHANGED <<folder, cmd, opened, prog, disk, history, bounds>>

Exit(c) == Performs(c, "Exit") /\ Fail(c)

\* Mutant: the file is opened for reading whoever writes it.
OpenDataShared(c) == /\ Performs(c, "GetData") \/ At(c, "reload")
                     /\ data[folder[c]] # Absent
                     /\ Open(c, "data", "read") /\ Meet(c)
                     /\ GoTo(c, IF At(c, "reload") THEN "reread_data" ELSE "read_data")
                     /\ UNCHANGED <<folder, cmd, prog, disk, unkeyed, wrote, told, bounds>>

\* ReadClientData, for GetData and after the program of GetResult.
OpenData(c) == /\ Performs(c, "GetData") \/ At(c, "reload")
               /\ data[folder[c]] # Absent /\ CanRead(c, "data")
               /\ Open(c, "data", "read") /\ Meet(c)
               /\ GoTo(c, IF At(c, "reload") THEN "reread_data" ELSE "read_data")
               /\ UNCHANGED <<folder, cmd, prog, disk, unkeyed, wrote, told, bounds>>

\* Mutant: missing data is waited for.
OpenDataFailsShared(c) == /\ Performs(c, "GetData") \/ At(c, "reload")
                          /\ ~CanRead(c, "data")
                          /\ Fail(c)

OpenDataFails(c) == /\ Performs(c, "GetData") \/ At(c, "reload")
                    /\ data[folder[c]] = Absent \/ ~CanRead(c, "data")
                    /\ Fail(c)

ReadData(c) == /\ pc[c] \in {"read_data", "reread_data"}
               /\ told' = [told EXCEPT ![c] = data[folder[c]]]
               /\ Close(c)
               /\ Performed(c, IF At(c, "read_data") THEN "GetData" ELSE "GetResult")
               /\ UNCHANGED <<folder, disk, unkeyed, wrote, met, bounds>>

\* ExecuteClientCode: mono without a program prints nothing.
Execute(c) == /\ Performs(c, "GetResult")
              /\ prog' = [prog EXCEPT ![c] = exe[folder[c]]]
              /\ GoTo(c, "running")
              /\ UNCHANGED <<folder, cmd, opened, disk, history, bounds>>

Hangs(c)  == At(c, "running") /\ prog[c] # Absent /\ prog[c].kind = "hangs"
Output(c) == IF prog[c] = Absent THEN Empty ELSE [kind |-> "output", by |-> prog[c].by]

\* The output is read to its end before the limit of 2500 ms is looked at.
Exited(c) == /\ At(c, "running") /\ ~Hangs(c)
             /\ wrote' = [wrote EXCEPT ![c] = Output(c)]
             /\ met' = [met EXCEPT ![c] = ~CanWrite(c, "data")]
             /\ told' = [told EXCEPT ![c] = None]
             /\ GoTo(c, "store")
             /\ UNCHANGED <<folder, cmd, opened, prog, disk, unkeyed, bounds>>

\* Mutant: the output is not stored.
OpenStoreDropped(c) == /\ At(c, "store") /\ GoTo(c, "reload")
                       /\ UNCHANGED <<folder, cmd, opened, prog, disk, history, bounds>>

\* WriteClientData of the output; its exception is caught, and the output dropped.
OpenStore(c) == /\ At(c, "store")
                /\ IF CanWrite(c, "data")
                   THEN /\ Open(c, "data", "write") /\ Meet(c) /\ data' = Put(data, c, Empty)
                        /\ GoTo(c, "write_output")
                   ELSE GoTo(c, "reload") /\ UNCHANGED <<opened, met, data>>
                /\ UNCHANGED <<folder, cmd, prog, dir, key, code, exe, unkeyed, wrote, told, bounds>>

WriteOutput(c) == /\ At(c, "write_output")
                  /\ data' = Put(data, c, Output(c)) /\ Close(c)
                  /\ GoTo(c, "reload")
                  /\ UNCHANGED <<folder, cmd, prog, dir, key, code, exe, history, bounds>>

\* The commands that carry data wait for it first.
Receive(c) == /\ \/ Performs(c, "SetData") /\ GoTo(c, "set_data") /\ UNCHANGED prog
                 \/ /\ Performs(c, "SetCode") /\ GoTo(c, "set_code")
                    /\ \E k \in Kind : prog' = [prog EXCEPT ![c] = [kind |-> k, by |-> c]]
              /\ UNCHANGED <<folder, cmd, opened, disk, history, bounds>>

NothingReceived(c) == (Performs(c, "SetData") \/ Performs(c, "SetCode")) /\ Fail(c)

\* WriteClientData of a client's data: here the exception ends the connection.
CreateData(c) == /\ At(c, "set_data") /\ CanWrite(c, "data")
                 /\ Open(c, "data", "write") /\ data' = Put(data, c, Empty)
                 /\ wrote' = [wrote EXCEPT ![c] = [kind |-> "data", by |-> c]]
                 /\ met' = [d \in Conn |-> d # c /\ (met[d] \/ folder[d] = folder[c])]
                 /\ told' = [told EXCEPT ![c] = None]
                 /\ GoTo(c, "write_data")
                 /\ UNCHANGED <<folder, cmd, prog, dir, key, code, exe, unkeyed, bounds>>

WriteData(c) == /\ At(c, "write_data")
                /\ data' = Put(data, c, [kind |-> "data", by |-> c]) /\ Close(c)
                /\ Performed(c, "SetData")
                /\ UNCHANGED <<folder, dir, key, code, exe, history, bounds>>

\* WriteClientCode: the source, the compiler, which reads what is there by then, and
\* the removal of the source.
CreateCode(c) == /\ At(c, "set_code") /\ CanWrite(c, "code")
                 /\ Open(c, "code", "write") /\ code' = Put(code, c, Empty)
                 /\ GoTo(c, "write_code")
                 /\ UNCHANGED <<folder, cmd, prog, dir, key, data, exe, history, bounds>>

CreateFails(c) == /\ \/ At(c, "set_data") /\ ~CanWrite(c, "data")
                     \/ At(c, "set_code") /\ ~CanWrite(c, "code")
                  /\ Fail(c)

WriteCode(c) == /\ At(c, "write_code")
                /\ code' = Put(code, c, prog[c]) /\ Close(c)
                /\ GoTo(c, "compile")
                /\ UNCHANGED <<folder, cmd, prog, dir, key, data, exe, history, bounds>>

\* Mutant: what there is becomes the program.
CompileAnything(c) == /\ At(c, "compile")
                      /\ exe' = Put(exe, c, code[folder[c]])
                      /\ GoTo(c, "delete")
                      /\ UNCHANGED <<folder, cmd, opened, prog, dir, key, data, code, history, bounds>>

Compile(c) == /\ At(c, "compile")
              /\ LET source == code[folder[c]] IN
                 exe' = IF source \in {Absent, Empty} THEN exe
                        ELSE IF source.kind = "wrong" THEN exe ELSE Put(exe, c, source)
              /\ GoTo(c, "delete")
              /\ UNCHANGED <<folder, cmd, opened, prog, dir, key, data, code, history, bounds>>

\* If another connection has the source open the answer is null, which the cipher
\* does not take.
Delete(c) == /\ At(c, "delete")
             /\ \/ /\ CanWrite(c, "code")
                   /\ code' = Put(code, c, Absent) /\ Performed(c, "SetCode")
                   /\ UNCHANGED <<folder, opened, dir, key, data, exe, history, bounds>>
                \/ ~CanWrite(c, "code") /\ Fail(c)

\* A folder, a stream or a process cannot be made, or the stream fails: no permission, no
\* descriptor, no room.  A file that was truncated stays so.  What goes wrong with a client's
\* program is caught, and the data is answered as it is.
Streams == {"mkdir", "create_key", "write_key", "open_key", "read_key", "reload", "read_data",
            "reread_data", "set_data", "write_data", "set_code", "write_code", "compile", "delete"}
Fault(c) == /\ faults < MaxFaults /\ faults' = faults + 1
            /\ \/ /\ pc[c] \in Streams \/ Performs(c, "GetData")
                  /\ unkeyed' = unkeyed \cup (IF At(c, "create_key") THEN {folder[c]} ELSE {})
                  /\ Finish(c) /\ UNCHANGED met
               \/ /\ pc[c] \in {"store", "write_output"} \/ Performs(c, "GetResult")
                  /\ met' = [met EXCEPT ![c] = @ \/ At(c, "store") \/ At(c, "write_output")]
                  /\ Close(c) /\ GoTo(c, "reload") /\ UNCHANGED <<cmd, prog, unkeyed>>
            /\ UNCHANGED <<folder, disk, wrote, told, commands, deaths>>

-----------------------------------------------------------------------------
\* What a thread does when nobody has to send it anything, or to read what it sends.
Thread(c) == \/ FindFolder(c) \/ MakeFolder(c) \/ CreateKey(c) \/ WriteKey(c) \/ OpenKey(c)
             \/ ReadKey(c) \/ KeyFails(c) \/ Loop(c) \/ Exit(c)
             \/ OpenData(c) \/ OpenDataFails(c) \/ ReadData(c)
             \/ Execute(c) \/ Exited(c) \/ OpenStore(c) \/ WriteOutput(c)
             \/ CreateData(c) \/ WriteData(c) \/ CreateFails(c)
             \/ CreateCode(c) \/ WriteCode(c) \/ Compile(c) \/ Delete(c)

Client(c) == Hello(c) \/ Command(c) \/ Receive(c) \/ NothingReceived(c) \/ Send(c)

Next == Die \/ \E c \in Conn : \/ AcceptTcpClient(c) \/ ClientThread(c) \/ Thread(c)
                               \/ Fault(c) \/ Client(c)

Spec == Init /\ [][Next]_vars

\* The system schedules the threads of the pool.
FairSpec == Spec /\ \A c \in Conn : WF_vars(Thread(c))

-----------------------------------------------------------------------------
Labels == {"idle", "queued", "hello", "client", "mkdir", "create_key", "write_key", "open_key",
           "read_key", "command", "perform", "read_data", "running", "store", "write_output",
           "reload", "reread_data", "set_data", "write_data", "set_code", "write_code",
           "compile", "delete", "send", "closed"}

\* The type invariant; the pool runs no more threads than it may.
TypeOK == /\ pc \in [Conn -> Labels] /\ Cardinality(Running) <= PoolSize
          /\ folder \in [Conn -> Folder \cup {None}]
          /\ cmd \in [Conn -> SUBSET Word]
          /\ opened \in [Conn -> Handle \cup {None}]
          /\ prog \in [Conn -> Program \cup {None, Absent}]
          /\ dir \in [Folder -> BOOLEAN]
          /\ key \in [Folder -> {Absent, Empty, "private"}]
          /\ data \in [Folder -> Content \cup {Absent, Empty}]
          /\ code \in [Folder -> Program \cup {Absent, Empty}]
          /\ exe \in [Folder -> Program \cup {Absent}]
          /\ unkeyed \subseteq Folder
          /\ wrote \in [Conn -> Content \cup {Empty, None}]
          /\ met \in [Conn -> BOOLEAN]
          /\ told \in [Conn -> Content \cup {Empty, None}]
          /\ commands \in [Conn -> 0 .. MaxCommands] /\ deaths \in 0 .. MaxDeaths
          /\ faults \in 0 .. MaxFaults

\* A folder without session.key, in which every later connection of the client ends
\* before its first command, is one of those that were there before, or its maker failed or
\* died between the two: connections that make the same folder at once leave none.
KeylessByFailure ==
   \A f \in Folder : dir[f] /\ key[f] = Absent =>
      \/ f \in Home \cup unkeyed
      \/ \E c \in Conn : folder[c] = f /\ At(c, "create_key")

\* "Stores clients' data, gives it out on request, runs the program and sends what it
\* printed" (README): a connection is answered with what it last sent, or with the
\* output of the program it ran, unless another connection of the folder opened
\* data.dat, be it for reading: a result that cannot be stored then is dropped and
\* the older data is answered.  So it is with one that a failing disk does not take.
LastWriteIsRead ==
   \A c \in Conn : told[c] # None /\ wrote[c] # None /\ ~met[c] => told[c] = wrote[c]

\* A command that was read is carried out, or ends the connection, whatever the other
\* connections do and whatever fails, unless its program does not end, which the limit does
\* not stop, or its client does not take an answer, for which there is no limit.
CommandEnds ==
   \A c \in Conn : At(c, "perform") ~>
      \/ pc[c] \in {"command", "send", "closed"}
      \/ Performs(c, "SetData") \/ Performs(c, "SetCode") \/ Hangs(c)

\* A folder's data.dat is a store of whole data, and code.exe its program (ClientStore): a
\* put is done when the file is truncated, as nobody can open it before it is written.
Writers(f)  == {c \in Conn : folder[c] = f /\ pc[c] \in {"write_output", "write_data"}}
Written(c)  == IF At(c, "write_data") THEN [kind |-> "data", by |-> c] ELSE Output(c)
HeldIn(f)   == IF Writers(f) = {} THEN data[f] ELSE Written(CHOOSE c \in Conn : c \in Writers(f))
Does(c) == CASE pc[c] \in {"set_code", "write_code", "compile"} -> "sends"
             [] At(c, "running") -> "runs"
             [] At(c, "store") -> "stores"
             [] pc[c] \in {"write_output", "write_data"} -> "puts"
             [] OTHER -> "rests"
About(c) == CASE Does(c) \in {"sends", "runs"} -> prog[c]
              [] Does(c) = "stores" -> Output(c)
              [] Does(c) = "puts" -> Written(c)
              [] OTHER -> None
Store == INSTANCE ClientStore WITH client <- folder,
                                   task <- [c \in Conn |-> [does |-> Does(c), what |-> About(c)]],
                                   held <- [f \in Folder |-> HeldIn(f)],
                                   installed <- exe,
                                   given <- told
ClientSpec == Store!Spec
=============================================================================
