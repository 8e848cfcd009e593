------------------------ MODULE StellarAssistProofs ------------------------
(***************************************************************************)
(* The invariants of StellarAssist's service, for every set of             *)
(* connections, keys, folders and commands and every bound.                *)
(***************************************************************************)
EXTENDS StellarAssist, FiniteSetTheorems, TLAPS

\* A connection has the folder of its client from Hello on.
Homed == \A c \in Conn :
   /\ pc[c] \in {"idle", "queued", "hello"} => folder[c] = None /\ wrote[c] = None
   /\ pc[c] \notin {"idle", "queued", "hello", "closed"} => folder[c] \in Folder

\* Which file a thread has open follows from what it does next.
Using == \A c \in Conn :
   /\ At(c, "write_key") => opened[c] = [file |-> "key", how |-> "write"]
   /\ At(c, "read_key") => opened[c] = [file |-> "key", how |-> "read"]
   /\ pc[c] \in {"read_data", "reread_data"} => opened[c] = [file |-> "data", how |-> "read"]
   /\ pc[c] \in {"write_output", "write_data"} => opened[c] = [file |-> "data", how |-> "write"]
   /\ At(c, "write_code") => opened[c] = [file |-> "code", how |-> "write"]
   /\ pc[c] \notin {"write_key", "read_key", "read_data", "reread_data", "write_output",
                    "write_data", "write_code"} => opened[c] = None

\* What is open is there.
There == \A c \in Conn :
   /\ pc[c] \in {"write_key", "read_key"} => key[folder[c]] # Absent
   /\ pc[c] \in {"read_data", "reread_data"} => data[folder[c]] # Absent

\* The program a thread runs is one, or is missing; the one it sends is its own.
Carried == \A c \in Conn :
   /\ pc[c] \in {"running", "store", "write_output"} => prog[c] \in Program \cup {Absent}
   /\ pc[c] \in {"set_code", "write_code"} => prog[c] \in [kind : Kind, by : {c}]

\* Sources and running programs stay in the folder of the connection that sent them.
Sources == /\ \A f \in Folder : code[f] \in Program => folder[code[f].by] = f
           /\ \A c \in Conn :
                 pc[c] \in {"running", "store", "write_output"} /\ prog[c] \in Program =>
                    folder[prog[c].by] = folder[c]

\* While no other connection has opened data.dat since c wrote, none has it open, and it
\* holds what c wrote, or c is about to write it.
Writing == {"store", "write_output", "write_data"}
Unmet == \A c \in Conn :
   /\ pc[c] \in Writing => told[c] = None
   /\ wrote[c] # None /\ ~met[c] /\ ~At(c, "closed") =>
        /\ CanWrite(c, "data")
        /\ pc[c] \in {"store", "write_output"} => wrote[c] = Output(c)
        /\ At(c, "write_data") => wrote[c] = [kind |-> "data", by |-> c]
        /\ pc[c] \notin Writing => data[folder[c]] = wrote[c]

-----------------------------------------------------------------------------
(* The steps. *)

\* A thread ends its connection; before it has made the key, only if the key is open
\* elsewhere or cannot be made.
Ends(c) == /\ pc[c] \in {"hello", "command", "perform", "send"} \cup Streams
           /\ \/ unkeyed' = unkeyed /\ (At(c, "create_key") => ~CanWrite(c, "key"))
              \/ unkeyed' = unkeyed \cup {folder[c]} /\ At(c, "create_key")
           /\ Finish(c)
           /\ faults' = faults \/ (faults < MaxFaults /\ faults' = faults + 1)
           /\ UNCHANGED <<folder, disk, wrote, met, told, commands, deaths>>

\* A failure that is caught.
Recovers(c) == /\ pc[c] \in {"perform", "store", "write_output"}
               /\ met' = [met EXCEPT ![c] = @ \/ At(c, "store") \/ At(c, "write_output")]
               /\ Close(c) /\ GoTo(c, "reload")
               /\ faults < MaxFaults /\ faults' = faults + 1
               /\ UNCHANGED <<folder, cmd, prog, disk, unkeyed, wrote, told, commands, deaths>>

\* The steps of a connection that do not end it, by what they touch.
Sent(c)    == /\ At(c, "send") /\ GoTo(c, "perform")
              /\ UNCHANGED <<folder, cmd, opened, prog, disk, history, bounds>>
Looks(c)   == AcceptTcpClient(c) \/ ClientThread(c) \/ FindFolder(c) \/ Loop(c) \/ Sent(c)
Greets(c)  == /\ At(c, "hello") /\ GoTo(c, "client")
              /\ \E k \in PublicKey : folder' = [folder EXCEPT ![c] = FolderOf[k]]
              /\ UNCHANGED <<cmd, opened, prog, disk, history, bounds>>
Orders(c)  == /\ At(c, "command") /\ GoTo(c, "perform")
              /\ commands[c] < MaxCommands /\ commands' = [commands EXCEPT ![c] = @ + 1]
              /\ \E words \in Commands : cmd' = [cmd EXCEPT ![c] = words]
              /\ UNCHANGED <<folder, opened, prog, disk, history, deaths, faults>>
Removes(c) == /\ At(c, "delete") /\ CanWrite(c, "code")
              /\ code' = Put(code, c, Absent) /\ Performed(c, "SetCode")
              /\ UNCHANGED <<folder, opened, dir, key, data, exe, history, bounds>>
Keys(c)    == MakeFolder(c) \/ CreateKey(c) \/ WriteKey(c) \/ OpenKey(c) \/ ReadKey(c)
Reads(c)   == OpenData(c) \/ ReadData(c)
Runs(c)    == Execute(c) \/ Exited(c) \/ OpenStore(c) \/ WriteOutput(c)
Sets(c)    == CreateData(c) \/ WriteData(c)
Compiles(c) == Receive(c) \/ CreateCode(c) \/ WriteCode(c) \/ Compile(c) \/ Removes(c)

Step(c) == \/ Ends(c) \/ Looks(c) \/ Greets(c) \/ Orders(c) \/ Keys(c) \/ Reads(c) \/ Runs(c)
           \/ Sets(c) \/ Compiles(c) \/ Recovers(c)

\* These are all the steps.
LEMMA Steps == [Next]_vars => UNCHANGED vars \/ Die \/ \E c \in Conn : Step(c)
<1> SUFFICES ASSUME NEW c \in Conn,
                    AcceptTcpClient(c) \/ ClientThread(c) \/ Thread(c) \/ Fault(c) \/ Client(c)
             PROVE  Step(c)
  BY DEF Next
<1> USE DEF Step, Ends, At
<1>1. CASE AcceptTcpClient(c) \/ ClientThread(c) \/ FindFolder(c) \/ Loop(c)
  BY <1>1 DEF Looks
<1>2. ASSUME Fail(c), pc[c] \in {"hello", "command", "perform", "send"} \cup Streams,
             At(c, "create_key") => ~CanWrite(c, "key")
      PROVE  Ends(c)
  BY <1>2 DEF Fail, history, bounds
<1>3. CASE Hello(c) \/ Command(c) \/ Send(c)
  BY <1>2, <1>3 DEF Hello, Greets, Command, Orders, Send, Sent, Looks
<1>8. CASE KeyFails(c) \/ Exit(c) \/ OpenDataFails(c) \/ CreateFails(c) \/ NothingReceived(c)
  BY <1>2, <1>8 DEF KeyFails, Exit, OpenDataFails, CreateFails, NothingReceived, Performs, Streams
<1>9. CASE Fault(c)
  <2>1. CASE pc[c] \in Streams \/ Performs(c, "GetData")
    BY <1>9, <2>1 DEF Fault, Recovers, Performs, Streams
  <2>2. CASE ~(pc[c] \in Streams \/ Performs(c, "GetData"))
    BY <1>9, <2>2 DEF Fault, Recovers, Performs
  <2>3. QED
    BY <2>1, <2>2
<1>4. CASE MakeFolder(c) \/ CreateKey(c) \/ WriteKey(c) \/ OpenKey(c) \/ ReadKey(c)
  BY <1>4 DEF Keys
<1>5. CASE \/ OpenData(c) \/ ReadData(c) \/ Execute(c) \/ Exited(c) \/ OpenStore(c)
           \/ WriteOutput(c) \/ CreateData(c) \/ WriteData(c)
  BY <1>5 DEF Reads, Runs, Sets
<1>6. CASE Receive(c) \/ CreateCode(c) \/ WriteCode(c) \/ Compile(c) \/ Delete(c)
  BY <1>2, <1>6 DEF Compiles, Delete, Removes, Streams
<1>7. QED
  BY <1>1, <1>3, <1>4, <1>5, <1>6, <1>8, <1>9 DEF Thread, Client

-----------------------------------------------------------------------------
(* What a step leaves alone. *)

\* Every variable is a function of connections or of folders.
Shapes == /\ pc \in [Conn -> Labels] /\ folder \in [Conn -> Folder \cup {None}]
          /\ DOMAIN cmd = Conn /\ DOMAIN opened = Conn /\ DOMAIN prog = Conn
          /\ DOMAIN wrote = Conn /\ DOMAIN met = Conn /\ DOMAIN told = Conn
          /\ DOMAIN commands = Conn
          /\ DOMAIN dir = Folder /\ DOMAIN key = Folder /\ DOMAIN data = Folder
          /\ DOMAIN code = Folder /\ DOMAIN exe = Folder

Same(d) == /\ pc'[d] = pc[d] /\ folder'[d] = folder[d] /\ cmd'[d] = cmd[d]
           /\ opened'[d] = opened[d] /\ prog'[d] = prog[d] /\ wrote'[d] = wrote[d]
           /\ told'[d] = told[d] /\ commands'[d] = commands[d]

SameFiles(f) == /\ dir'[f] = dir[f] /\ key'[f] = key[f] /\ data'[f] = data[f]
                /\ code'[f] = code[f] /\ exe'[f] = exe[f]

\* A step of a connection is not seen in the others, but in what they have met, nor in
\* the folders of others; a connection gets its folder once.
LEMMA Frame ==
  ASSUME Shapes, NEW c \in Conn, Step(c)
  PROVE  /\ deaths' = deaths /\ unkeyed \subseteq unkeyed'
         /\ \A d \in Conn \ {c} : Same(d)
         /\ \A f \in Folder \ {folder[c]} : SameFiles(f)
         /\ folder'[c] = folder[c] \/ At(c, "hello")
<1> USE DEF Shapes, Same, SameFiles, At, GoTo, Put, Open, Close, disk, history, bounds
<1>1. CASE Ends(c) \/ Recovers(c)
  BY <1>1 DEF Ends, Finish, Recovers
<1>2. CASE Looks(c)
  BY <1>2 DEF Looks, AcceptTcpClient, ClientThread, FindFolder, Loop, Sent
<1>3. CASE Greets(c) \/ Orders(c)
  BY <1>3 DEF Greets, Orders
<1>4. CASE Keys(c)
  BY <1>4 DEF Keys, MakeFolder, CreateKey, WriteKey, OpenKey, ReadKey
<1>5. CASE Reads(c)
  BY <1>5 DEF Reads, OpenData, ReadData, Performed
<1>6. CASE Runs(c)
  BY <1>6 DEF Runs, Execute, Exited, OpenStore, WriteOutput
<1>7. CASE Sets(c)
  BY <1>7 DEF Sets, CreateData, WriteData, Performed
<1>8. CASE Compiles(c)
  BY <1>8 DEF Compiles, Receive, CreateCode, WriteCode, Compile, Removes, Performed
<1>9. QED
  BY <1>1, <1>2, <1>3, <1>4, <1>5, <1>6, <1>7, <1>8 DEF Step

-----------------------------------------------------------------------------
(* Types. *)

\* The type invariant with what it needs to be inductive.
Typed == TypeOK /\ IsFiniteSet(Running) /\ Homed /\ There /\ Carried

\* What is typed is a function.
LEMMA TypedShapes == Typed => Shapes
  BY DEF Typed, TypeOK, Shapes

\* No connection has come yet.
LEMMA TypedInit == Init => Typed
<1> SUFFICES ASSUME Init PROVE Typed
  OBVIOUS
<1>1. Running = {}
  BY DEF Init, Running
<1>2. IsFiniteSet(Running) /\ Cardinality(Running) = 0
  BY <1>1, FS_EmptySet
<1>3. TypeOK
  BY <1>2, BoundsAssumption DEF Init, TypeOK, Labels
<1>4. Homed /\ There /\ Carried
  BY DEF Init, Homed, There, Carried
<1>5. QED
  BY <1>2, <1>3, <1>4 DEF Typed

\* The pool runs one more thread only when it has room for it.
LEMMA PoolStep ==
  ASSUME Typed, NEW c \in Conn, Step(c), pc' \in [Conn -> Labels]
  PROVE  IsFiniteSet(Running') /\ Cardinality(Running') <= PoolSize
<1>1. pc \in [Conn -> Labels] /\ IsFiniteSet(Running) /\ Cardinality(Running) <= PoolSize
  BY DEF Typed, TypeOK
<1>2. \A d \in Conn \ {c} : pc'[d] = pc[d]
  BY Frame, TypedShapes DEF Same
<1>3. CASE ClientThread(c)
  <2>1. Running' = Running \cup {c} /\ c \notin Running /\ Cardinality(Running) < PoolSize
    BY <1>1, <1>2, <1>3 DEF ClientThread, Running, At, GoTo
  <2>2. /\ IsFiniteSet(Running \cup {c})
        /\ Cardinality(Running \cup {c}) = Cardinality(Running) + 1
    BY <1>1, <2>1, FS_AddElement
  <2>3. Cardinality(Running) \in Nat
    BY <1>1, FS_CardinalityType
  <2>4. QED
    BY <2>1, <2>2, <2>3, BoundsAssumption
<1>4. CASE ~ ClientThread(c)
  <2>1. pc[c] \in {"idle", "queued", "closed"} => pc'[c] \in {"idle", "queued", "closed"}
    <3>1. CASE Looks(c)
      BY <1>1, <1>4, <3>1 DEF Looks, AcceptTcpClient, FindFolder, Loop, Sent, At, GoTo
    <3>2. CASE Ends(c) \/ Recovers(c) \/ Greets(c) \/ Orders(c) \/ Keys(c)
      BY <3>2 DEF Ends, Streams, Recovers, Greets, Orders, Keys, MakeFolder, CreateKey, WriteKey, OpenKey, ReadKey, At
    <3>3. CASE Reads(c) \/ Runs(c) \/ Sets(c) \/ Compiles(c)
      BY <3>3 DEF Reads, Runs, Sets, Compiles, OpenData, ReadData, Execute, Exited, OpenStore,
                  WriteOutput, CreateData, WriteData, Receive, CreateCode, WriteCode, Compile,
                  Removes, Performs, At
    <3>4. QED
      BY <3>1, <3>2, <3>3 DEF Step
  <2>2. Running' \subseteq Running
    BY <1>2, <2>1 DEF Running
  <2>3. IsFiniteSet(Running') /\ Cardinality(Running') <= Cardinality(Running)
    BY <1>1, <2>2, FS_Subset
  <2>4. Cardinality(Running) \in Nat /\ Cardinality(Running') \in Nat
    BY <1>1, <2>3, FS_CardinalityType
  <2>5. QED
    BY <1>1, <2>3, <2>4, BoundsAssumption
<1>5. QED
  BY <1>3, <1>4

\* What the program of a thread prints is an output, or nothing.
LEMMA OutputType ==
  ASSUME Typed, NEW c \in Conn, pc[c] \in {"running", "store", "write_output"}
  PROVE  Output(c) \in Content \cup {Empty} /\ Output(c) # Absent
<1>1. prog[c] \in Program \cup {Absent}
  BY DEF Typed, Carried
<1>2. Output(c) \in Content \cup {Empty}
  BY <1>1 DEF Output, Program, Content
<1>3. QED
  BY <1>2, ValuesAssumption

\* The variables of the threads keep their types.
LEMMA ThreadTypes ==
  ASSUME Typed, NEW c \in Conn, Step(c)
  PROVE  /\ pc' \in [Conn -> Labels] /\ folder' \in [Conn -> Folder \cup {None}]
         /\ cmd' \in [Conn -> SUBSET Word] /\ opened' \in [Conn -> Handle \cup {None}]
         /\ prog' \in [Conn -> Program \cup {None, Absent}]
         /\ commands' \in [Conn -> 0 .. MaxCommands] /\ faults' \in 0 .. MaxFaults
<1>1. /\ pc \in [Conn -> Labels] /\ folder \in [Conn -> Folder \cup {None}]
      /\ cmd \in [Conn -> SUBSET Word] /\ opened \in [Conn -> Handle \cup {None}]
      /\ prog \in [Conn -> Program \cup {None, Absent}]
      /\ exe \in [Folder -> Program \cup {Absent}]
      /\ commands \in [Conn -> 0 .. MaxCommands] /\ MaxCommands \in Nat
      /\ faults \in 0 .. MaxFaults /\ MaxFaults \in Nat
  BY BoundsAssumption DEF Typed, TypeOK
<1> USE DEF GoTo, Open, Close, Labels, Handle, history, bounds
<1>2. CASE Ends(c) \/ Recovers(c)
  BY <1>1, <1>2 DEF Ends, Finish, Recovers
<1>3. CASE Looks(c)
  BY <1>1, <1>3 DEF Looks, AcceptTcpClient, ClientThread, FindFolder, Loop, Sent
<1>4. CASE Greets(c)
  BY <1>1, <1>4, FolderAssumption DEF Greets
<1>5. CASE Orders(c)
  BY <1>1, <1>5, WordAssumption DEF Orders
<1>6. CASE Keys(c)
  <2>1. CASE MakeFolder(c) \/ WriteKey(c) \/ ReadKey(c)
    BY <1>1, <2>1 DEF MakeFolder, WriteKey, ReadKey
  <2>2. CASE CreateKey(c) \/ OpenKey(c)
    BY <1>1, <2>2 DEF CreateKey, OpenKey
  <2>3. QED
    BY <1>6, <2>1, <2>2 DEF Keys
<1>7. CASE Reads(c)
  BY <1>1, <1>7 DEF Reads, OpenData, ReadData, Performed
<1>8. CASE Execute(c)
  <2>1. exe[folder[c]] \in Program \cup {Absent}
    BY <1>1, <1>8 DEF Execute, Performs, At, Typed, Homed
  <2>2. QED
    BY <1>1, <1>8, <2>1 DEF Execute
<1>9. CASE Exited(c) \/ OpenStore(c) \/ WriteOutput(c)
  BY <1>1, <1>9 DEF Exited, OpenStore, WriteOutput
<1>10. CASE Sets(c)
  BY <1>1, <1>10 DEF Sets, CreateData, WriteData, Performed
<1>11. CASE Compiles(c)
  BY <1>1, <1>11 DEF Compiles, Receive, CreateCode, WriteCode, Compile, Removes, Performed, Program
<1>12. QED
  BY <1>2, <1>3, <1>4, <1>5, <1>6, <1>7, <1>8, <1>9, <1>10, <1>11 DEF Step, Runs

\* The folders keep their types, and neither a key nor data ever goes.
LEMMA FolderTypes ==
  ASSUME Typed, NEW c \in Conn, Step(c)
  PROVE  /\ dir' \in [Folder -> BOOLEAN] /\ key' \in [Folder -> {Absent, Empty, "private"}]
         /\ data' \in [Folder -> Content \cup {Absent, Empty}]
         /\ code' \in [Folder -> Program \cup {Absent, Empty}]
         /\ exe' \in [Folder -> Program \cup {Absent}]
         /\ \A f \in Folder : /\ key[f] # Absent => key'[f] # Absent
                              /\ data[f] # Absent => data'[f] # Absent
<1>1. /\ dir \in [Folder -> BOOLEAN] /\ key \in [Folder -> {Absent, Empty, "private"}]
      /\ data \in [Folder -> Content \cup {Absent, Empty}]
      /\ code \in [Folder -> Program \cup {Absent, Empty}]
      /\ exe \in [Folder -> Program \cup {Absent}]
  BY DEF Typed, TypeOK
<1>2. Empty # Absent /\ "private" # Absent /\ Absent \notin Content
  BY ValuesAssumption
<1> USE DEF disk, Put
<1>3. CASE Ends(c) \/ Recovers(c) \/ Looks(c) \/ Greets(c) \/ Orders(c) \/ Reads(c)
  BY <1>1, <1>3 DEF Ends, Recovers, Looks, AcceptTcpClient, ClientThread, FindFolder, Loop, Sent, Greets,
                    Orders, Reads, OpenData, ReadData
<1>4. CASE Keys(c)
  BY <1>1, <1>2, <1>4 DEF Keys, MakeFolder, CreateKey, WriteKey, OpenKey, ReadKey
<1>5. CASE Runs(c)
  <2>1. CASE WriteOutput(c)
    BY <1>1, <1>2, <2>1, OutputType DEF WriteOutput, At
  <2>2. CASE Execute(c) \/ Exited(c) \/ OpenStore(c)
    BY <1>1, <1>2, <2>2 DEF Execute, Exited, OpenStore
  <2>3. QED
    BY <1>5, <2>1, <2>2 DEF Runs
<1>6. CASE Sets(c)
  BY <1>1, <1>2, <1>6 DEF Sets, CreateData, WriteData, Content
<1>7. CASE Compiles(c)
  <2>1. CASE WriteCode(c)
    <3>1. prog[c] \in Program
      BY <2>1 DEF WriteCode, At, Typed, Carried, Program
    <3>2. QED
      BY <1>1, <2>1, <3>1 DEF WriteCode
  <2>2. CASE Compile(c)
    <3>1. folder[c] \in Folder
      BY <2>2 DEF Compile, At, Typed, Homed
    <3>2. code[folder[c]] \in Program \cup {Absent, Empty}
      BY <1>1, <3>1
    <3>3. exe' = exe \/ (code[folder[c]] \in Program /\ exe' = Put(exe, c, code[folder[c]]))
      BY <2>2, <3>2 DEF Compile
    <3>4. QED
      BY <1>1, <2>2, <3>3 DEF Compile
  <2>3. CASE Receive(c) \/ CreateCode(c) \/ Removes(c)
    BY <1>1, <2>3 DEF Receive, CreateCode, Removes
  <2>4. QED
    BY <1>7, <2>1, <2>2, <2>3 DEF Compiles
<1>8. QED
  BY <1>3, <1>4, <1>5, <1>6, <1>7 DEF Step

\* What a connection has written, met and been told keeps its type.
LEMMA HistoryTypes ==
  ASSUME Typed, NEW c \in Conn, Step(c)
  PROVE  /\ wrote' \in [Conn -> Content \cup {Empty, None}] /\ met' \in [Conn -> BOOLEAN]
         /\ told' \in [Conn -> Content \cup {Empty, None}] /\ unkeyed' \subseteq Folder
<1>1. /\ wrote \in [Conn -> Content \cup {Empty, None}] /\ met \in [Conn -> BOOLEAN]
      /\ told \in [Conn -> Content \cup {Empty, None}]
      /\ data \in [Folder -> Content \cup {Absent, Empty}] /\ unkeyed \subseteq Folder
  BY DEF Typed, TypeOK
<1> USE DEF history, Meet
<1>9. CASE Ends(c)
  <2>1. At(c, "create_key") => folder[c] \in Folder
    BY DEF Typed, Homed, At
  <2>2. QED
    BY <1>1, <1>9, <2>1 DEF Ends
<1>10. CASE Recovers(c)
  BY <1>1, <1>10 DEF Recovers
<1>2. CASE Looks(c) \/ Greets(c) \/ Orders(c) \/ Keys(c) \/ Compiles(c)
  BY <1>1, <1>2 DEF Looks, AcceptTcpClient, ClientThread, FindFolder, Loop, Sent, Greets,
                    Orders, Keys, MakeFolder, CreateKey, WriteKey, OpenKey, ReadKey, Compiles,
                    Receive, CreateCode, WriteCode, Compile, Removes
<1>3. CASE OpenData(c)
  BY <1>1, <1>3 DEF OpenData
<1>4. CASE ReadData(c)
  <2>1. data[folder[c]] \in Content \cup {Empty}
    BY <1>1, <1>4 DEF ReadData, Typed, Homed, There
  <2>2. QED
    BY <1>1, <1>4, <2>1 DEF ReadData
<1>5. CASE Exited(c)
  <2>1. Output(c) \in Content \cup {Empty}
    BY <1>5, OutputType DEF Exited, At
  <2>2. QED
    BY <1>1, <1>5, <2>1 DEF Exited
<1>6. CASE Execute(c) \/ OpenStore(c) \/ WriteOutput(c)
  BY <1>1, <1>6 DEF Execute, OpenStore, WriteOutput
<1>7. CASE Sets(c)
  <2>1. CASE CreateData(c)
    <3>1. met' \in [Conn -> BOOLEAN]
      BY <2>1 DEF CreateData
    <3>2. [kind |-> "data", by |-> c] \in Content
      BY DEF Content
    <3>3. QED
      BY <1>1, <2>1, <3>1, <3>2 DEF CreateData
  <2>2. CASE WriteData(c)
    BY <1>1, <2>2 DEF WriteData
  <2>3. QED
    BY <1>7, <2>1, <2>2 DEF Sets
<1>8. QED
  BY <1>2, <1>3, <1>4, <1>5, <1>6, <1>7, <1>9, <1>10 DEF Step, Reads, Runs

\* After a step of a connection its folder, its open file and its program are what its
\* next step needs.
LEMMA OwnStep ==
  ASSUME Typed, NEW c \in Conn, Step(c)
  PROVE  /\ pc'[c] \in {"idle", "queued", "hello"} => folder'[c] = None /\ wrote'[c] = None
         /\ pc'[c] \notin {"idle", "queued", "hello", "closed"} => folder'[c] \in Folder
         /\ pc'[c] \in {"write_key", "read_key"} => key'[folder'[c]] # Absent
         /\ pc'[c] \in {"read_data", "reread_data"} => data'[folder'[c]] # Absent
         /\ pc'[c] \in {"running", "store", "write_output"} => prog'[c] \in Program \cup {Absent}
         /\ pc'[c] \in {"set_code", "write_code"} => prog'[c] \in [kind : Kind, by : {c}]
<1>1. /\ pc \in [Conn -> Labels] /\ folder \in [Conn -> Folder \cup {None}]
      /\ prog \in [Conn -> Program \cup {None, Absent}]
      /\ key \in [Folder -> {Absent, Empty, "private"}]
      /\ exe \in [Folder -> Program \cup {Absent}]
  BY DEF Typed, TypeOK
<1>2. /\ pc[c] \in {"idle", "queued", "hello"} => folder[c] = None /\ wrote[c] = None
      /\ pc[c] \notin {"idle", "queued", "hello", "closed"} => folder[c] \in Folder
  BY DEF Typed, Homed
<1>3. /\ pc[c] \in {"running", "store", "write_output"} => prog[c] \in Program \cup {Absent}
      /\ pc[c] \in {"set_code", "write_code"} => prog[c] \in [kind : Kind, by : {c}]
  BY DEF Typed, Carried
<1> USE DEF At, GoTo, Performed, Performs, Put, disk, history
<1>4. CASE Ends(c) \/ Recovers(c)
  BY <1>1, <1>2, <1>4 DEF Ends, Finish, Recovers, Close
<1>5. CASE Looks(c)
  BY <1>1, <1>2, <1>5 DEF Looks, AcceptTcpClient, ClientThread, FindFolder, Loop, Sent
<1>6. CASE Greets(c)
  BY <1>1, <1>6, FolderAssumption DEF Greets
<1>7. CASE Orders(c)
  BY <1>1, <1>2, <1>7 DEF Orders
<1>8. CASE Keys(c)
  BY <1>1, <1>2, <1>8, ValuesAssumption
     DEF Keys, MakeFolder, CreateKey, WriteKey, OpenKey, ReadKey
<1>9. CASE Reads(c)
  BY <1>1, <1>2, <1>9 DEF Reads, OpenData, ReadData
<1>10. CASE Runs(c)
  BY <1>1, <1>2, <1>3, <1>10 DEF Runs, Execute, Exited, OpenStore, WriteOutput
<1>11. CASE Sets(c)
  BY <1>1, <1>2, <1>11 DEF Sets, CreateData, WriteData
<1>12. CASE Compiles(c)
  BY <1>1, <1>2, <1>3, <1>12 DEF Compiles, Receive, CreateCode, WriteCode, Compile, Removes
<1>13. QED
  BY <1>4, <1>5, <1>6, <1>7, <1>8, <1>9, <1>10, <1>11, <1>12 DEF Step

\* Every step keeps the types and what the threads have at hand.
LEMMA TypedStep == Typed /\ [Next]_vars => Typed'
<1> SUFFICES ASSUME Typed, [Next]_vars PROVE Typed'
  OBVIOUS
<1>1. ASSUME NEW c \in Conn, Step(c) PROVE Typed'
  <2>1. \A d \in Conn \ {c} : Same(d)
    BY <1>1, Frame, TypedShapes
  <2>2. TypeOK' /\ IsFiniteSet(Running')
    <3>1. deaths' \in 0 .. MaxDeaths
      BY <1>1, Frame, TypedShapes DEF Typed, TypeOK
    <3>2. QED
      BY <1>1, <3>1, ThreadTypes, FolderTypes, HistoryTypes, PoolStep DEF TypeOK
  <2>3. Homed' /\ Carried'
    BY <1>1, <2>1, OwnStep DEF Typed, Homed, Carried, Same
  <2>4. There'
    <3>1. \A f \in Folder : /\ key[f] # Absent => key'[f] # Absent
                            /\ data[f] # Absent => data'[f] # Absent
      BY <1>1, FolderTypes
    <3>2. QED
      BY <1>1, <2>1, <3>1, OwnStep DEF Typed, There, Homed, Same
  <2>5. QED
    BY <2>2, <2>3, <2>4 DEF Typed
<1>2. CASE Die
  <2>1. \A c \in Conn : pc'[c] \in {"idle", "closed"} /\ (pc'[c] = "idle" => pc[c] = "idle")
    BY <1>2 DEF Die, At
  <2>2. Running' = {}
    BY <2>1 DEF Running
  <2>3. IsFiniteSet(Running') /\ Cardinality(Running') = 0
    BY <2>2, FS_EmptySet
  <2>4. TypeOK'
    <3>1. unkeyed' \subseteq Folder
      BY <1>2 DEF Die, Typed, TypeOK, Homed, At
    <3>2. QED
      BY <1>2, <2>3, <3>1, BoundsAssumption DEF Die, Typed, TypeOK, Labels, disk
  <2>5. Homed' /\ There' /\ Carried'
    BY <1>2, <2>1 DEF Die, Typed, Homed, There, Carried
  <2>6. QED
    BY <2>3, <2>4, <2>5 DEF Typed
<1>3. CASE UNCHANGED vars
  BY <1>3 DEF vars, Typed, TypeOK, Homed, There, Carried, Running
<1>4. QED
  BY <1>1, <1>2, <1>3, Steps

\* Type correctness: among others, the pool never runs more threads than it may.
THEOREM TypeCorrect == Spec => []TypeOK
<1>1. Typed => TypeOK
  BY DEF Typed
<1>2. QED
  BY <1>1, TypedInit, TypedStep, PTL DEF Spec

-----------------------------------------------------------------------------
(* Files that are open. *)

\* Every step leaves open what the next step of its thread closes.
LEMMA UsingStep == Typed /\ Using /\ [Next]_vars => Using'
<1> SUFFICES ASSUME Typed, Using, [Next]_vars PROVE Using'
  OBVIOUS
<1>1. pc \in [Conn -> Labels] /\ opened \in [Conn -> Handle \cup {None}]
  BY DEF Typed, TypeOK
<1> DEFINE Own(c) ==
      /\ At(c, "write_key") => opened[c] = [file |-> "key", how |-> "write"]
      /\ At(c, "read_key") => opened[c] = [file |-> "key", how |-> "read"]
      /\ pc[c] \in {"read_data", "reread_data"} => opened[c] = [file |-> "data", how |-> "read"]
      /\ pc[c] \in {"write_output", "write_data"}
            => opened[c] = [file |-> "data", how |-> "write"]
      /\ At(c, "write_code") => opened[c] = [file |-> "code", how |-> "write"]
      /\ pc[c] \notin {"write_key", "read_key", "read_data", "reread_data", "write_output",
                       "write_data", "write_code"} => opened[c] = None
<1>2. \A c \in Conn : Own(c)
  BY DEF Using
<1>3. ASSUME NEW c \in Conn, Step(c) PROVE Using'
  <2>1. \A d \in Conn \ {c} : Own(d)'
    BY <1>2, <1>3, Frame, TypedShapes DEF Same, At
  <2>2. Own(c)'
    <3> USE DEF At, GoTo, Open, Close, Performed, Performs
    <3>1. CASE Ends(c) \/ Recovers(c)
      BY <1>1, <3>1 DEF Ends, Finish, Recovers
    <3>2. CASE Looks(c) \/ Greets(c) \/ Orders(c)
      BY <1>1, <1>2, <3>2 DEF Looks, AcceptTcpClient, ClientThread, FindFolder, Loop, Sent, Greets, Orders
    <3>3. CASE Keys(c)
      BY <1>1, <1>2, <3>3 DEF Keys, MakeFolder, CreateKey, WriteKey, OpenKey, ReadKey
    <3>4. CASE Reads(c) \/ Sets(c)
      BY <1>1, <1>2, <3>4 DEF Reads, OpenData, ReadData, Sets, CreateData, WriteData
    <3>5. CASE Runs(c)
      BY <1>1, <1>2, <3>5 DEF Runs, Execute, Exited, OpenStore, WriteOutput
    <3>6. CASE Compiles(c)
      BY <1>1, <1>2, <3>6 DEF Compiles, Receive, CreateCode, WriteCode, Compile, Removes
    <3>7. QED
      BY <1>3, <3>1, <3>2, <3>3, <3>4, <3>5, <3>6 DEF Step
  <2>3. QED
    BY <2>1, <2>2 DEF Using
<1>4. CASE Die
  BY <1>4 DEF Die, Using, At
<1>5. CASE UNCHANGED vars
  BY <1>5 DEF vars, Using, At
<1>6. QED
  BY <1>3, <1>4, <1>5, Steps

-----------------------------------------------------------------------------
(* The key of a folder. *)

\* Who has a key open has it there.
LEMMA OpenKeyIsThere ==
  ASSUME Typed, Using, NEW c \in Conn, ~CanWrite(c, "key")
  PROVE  key[folder[c]] # Absent
<1>1. PICK d \in Conn : folder[d] = folder[c] /\ opened[d] # None /\ opened[d].file = "key"
  BY DEF CanWrite, Others
<1>2. pc[d] \in {"write_key", "read_key"}
  BY <1>1 DEF Using, At
<1>3. QED
  BY <1>1, <1>2 DEF Typed, There

\* A step leaves no folder without a key and without a maker, unless the maker fails or dies.
LEMMA KeylessStep == Typed /\ Using /\ KeylessByFailure /\ [Next]_vars => KeylessByFailure'
<1> SUFFICES ASSUME Typed, Using, KeylessByFailure, [Next]_vars,
                    NEW f \in Folder \ Home, f \notin unkeyed', dir'[f], key'[f] = Absent
             PROVE  \E d \in Conn : folder'[d] = f /\ pc'[d] = "create_key"
  BY DEF KeylessByFailure, At
<1>2. dir[f] /\ key[f] = Absent /\ f \notin unkeyed
        => \E d \in Conn : folder[d] = f /\ pc[d] = "create_key"
  BY DEF KeylessByFailure, At
<1>3. ASSUME NEW c \in Conn, Step(c)
      PROVE  \E d \in Conn : folder'[d] = f /\ pc'[d] = "create_key"
  <2>1. /\ f \notin unkeyed /\ \A d \in Conn \ {c} : Same(d)
        /\ \A g \in Folder \ {folder[c]} : SameFiles(g)
        /\ folder'[c] = folder[c] \/ At(c, "hello")
    BY <1>3, Frame, TypedShapes
  <2>2. key[f] = Absent
    BY <1>3, FolderTypes
  <2>3. CASE MakeFolder(c) /\ folder[c] = f
    <3>1. pc \in [Conn -> Labels]
      BY DEF Typed, TypeOK
    <3>2. QED
      BY <2>3, <3>1 DEF MakeFolder, GoTo
  <2>4. CASE ~ (MakeFolder(c) /\ folder[c] = f)
    <3>1. dir[f]
      <4>1. CASE folder[c] # f
        BY <2>1, <4>1 DEF SameFiles
      <4>2. CASE folder[c] = f
        <5>1. ~ MakeFolder(c)
          BY <2>4, <4>2
        <5>2. UNCHANGED dir
          BY <1>3, <5>1
             DEF Step, Ends, Looks, AcceptTcpClient, ClientThread, FindFolder, Loop, Sent, Greets,
                 Orders, Keys, CreateKey, WriteKey, OpenKey, ReadKey, Reads, OpenData, ReadData,
                 Runs, Execute, Exited, OpenStore, WriteOutput, Sets, CreateData, WriteData,
                 Compiles, Receive, CreateCode, WriteCode, Compile, Removes, Recovers, disk
        <5>3. QED
          BY <5>2
      <4>3. QED
        BY <4>1, <4>2
    <3>2. PICK d \in Conn : folder[d] = f /\ pc[d] = "create_key"
      BY <1>2, <2>1, <2>2, <3>1
    <3>3. CASE d = c
      <4>1. CanWrite(c, "key")
        BY <2>2, <3>2, <3>3, OpenKeyIsThere
      <4>2. CreateKey(c)
        BY <1>3, <3>2, <3>3, <4>1
           DEF Step, Ends, Looks, AcceptTcpClient, ClientThread, FindFolder, Loop, Sent, Greets, Orders,
               Keys, MakeFolder, WriteKey, OpenKey, ReadKey, Reads, OpenData, ReadData, Runs,
               Execute, Exited, OpenStore, WriteOutput, Sets, CreateData, WriteData, Compiles,
               Receive, CreateCode, WriteCode, Compile, Removes, Recovers, Performs, At
      <4>3. key'[f] = Empty
        BY <3>2, <3>3, <4>2 DEF CreateKey, Put, Typed, TypeOK
      <4>4. QED
        BY <4>3, ValuesAssumption
    <3>4. QED
      BY <2>1, <3>2, <3>3 DEF Same
  <2>5. QED
    BY <2>3, <2>4
<1>4. CASE Die
  BY <1>2, <1>4 DEF Die, disk, At
<1>5. CASE UNCHANGED vars
  BY <1>2, <1>5 DEF vars
<1>6. QED
  BY <1>3, <1>4, <1>5, Steps

\* A folder whose key nobody is about to make was there before the service, or is one where
\* making the key failed or the process died just then: however many connections make the
\* folder at once, and whatever fails elsewhere.
THEOREM KeylessOnlyByFailure == Spec => []KeylessByFailure
<1> DEFINE I == Typed /\ Using /\ KeylessByFailure
<1>1. Init => I
  BY TypedInit DEF Init, Using, KeylessByFailure, At
<1>2. I /\ [Next]_vars => I'
  BY TypedStep, UsingStep, KeylessStep
<1>3. I => KeylessByFailure
  OBVIOUS
<1> HIDE DEF I
<1>4. QED
  BY <1>1, <1>2, <1>3, PTL DEF Spec

-----------------------------------------------------------------------------
(* What a folder holds. *)

\* The folder of a connection that has one is its folder for ever.
LEMMA FolderStays ==
  ASSUME Typed, [Next]_vars, NEW c \in Conn, folder[c] # None
  PROVE  folder'[c] = folder[c]
<1>1. ASSUME NEW d \in Conn, Step(d) PROVE folder'[c] = folder[c]
  BY <1>1, Frame, TypedShapes DEF Same, Typed, Homed, At
<1>2. QED
  BY <1>1, Steps DEF Die, vars

\* Content and programs that were sent in a folder stay of that folder.
LEMMA SenderStays ==
  ASSUME Typed, [Next]_vars, NEW f \in Folder, NEW v \in Content \cup Program, folder[v.by] = f
  PROVE  folder'[v.by] = f
<1>1. v.by \in Conn
  BY DEF Content, Program
<1>2. QED
  BY <1>1, FolderStays, ValuesAssumption

\* What a folder holds, and what is answered from it, was sent by a connection of that
\* folder or printed by a program it sent; what is run was compiled.
FoldersApart ==
   /\ \A f \in Folder :
         /\ data[f] \in Content => folder[data[f].by] = f
         /\ exe[f] \in Program => folder[exe[f].by] = f /\ exe[f].kind # "wrong"
   /\ \A c \in Conn : told[c] \in Content => folder[told[c].by] = folder[c]

\* With what that needs to be inductive: an answer is of a connection that has its folder.
Apart == /\ Sources /\ FoldersApart
         /\ \A c \in Conn : told[c] \in Content => folder[c] \in Folder

\* Every step stores, compiles, runs and answers only what was sent in the folder.
LEMMA ApartStep == Typed /\ Apart /\ [Next]_vars => Apart'
<1> SUFFICES ASSUME Typed, Apart, [Next]_vars PROVE Apart'
  OBVIOUS
<1> DEFINE DataOK(f) == data[f] \in Content => folder[data[f].by] = f
           ExeOK(f)  == exe[f] \in Program => folder[exe[f].by] = f /\ exe[f].kind # "wrong"
           CodeOK(f) == code[f] \in Program => folder[code[f].by] = f
           FilesOK(f) == DataOK(f) /\ ExeOK(f) /\ CodeOK(f)
           ProgOK(c) == pc[c] \in {"running", "store", "write_output"} /\ prog[c] \in Program
                          => folder[prog[c].by] = folder[c]
           ToldOK(c) == told[c] \in Content
                          => folder[c] \in Folder /\ folder[told[c].by] = folder[c]
<1>1. (\A f \in Folder : FilesOK(f)) /\ (\A c \in Conn : ProgOK(c) /\ ToldOK(c))
  BY DEF Apart, Sources, FoldersApart
<1>2. /\ pc \in [Conn -> Labels] /\ folder \in [Conn -> Folder \cup {None}] /\ Shapes
      /\ data \in [Folder -> Content \cup {Absent, Empty}]
      /\ code \in [Folder -> Program \cup {Absent, Empty}]
      /\ exe \in [Folder -> Program \cup {Absent}]
      /\ None \notin Folder
  BY ValuesAssumption, TypedShapes DEF Typed, TypeOK
<1>3. /\ Absent \notin Program /\ Empty \notin Program /\ None \notin Program
      /\ Absent \notin Content /\ Empty \notin Content /\ None \notin Content
  BY ValuesAssumption
<1>4. \A c \in Conn : /\ folder[c] # None => folder'[c] = folder[c]
                      /\ pc[c] \notin {"idle", "queued", "hello", "closed"} => folder[c] \in Folder
  BY FolderStays DEF Typed, Homed
<1> DEFINE Busy == {"running", "store", "write_output"}
<1>5. ASSUME NEW f \in Folder, data'[f] \in {data[f], Empty}, exe'[f] = exe[f],
             code'[f] \in {code[f], Empty, Absent}
      PROVE  FilesOK(f)'
  BY <1>1, <1>2, <1>3, <1>5, SenderStays
<1>6. ASSUME NEW c \in Conn, told'[c] \in {told[c], None},
             pc'[c] \in Busy => pc[c] \in Busy /\ prog'[c] = prog[c]
      PROVE  ProgOK(c)' /\ ToldOK(c)'
  <2>1. ToldOK(c)'
    BY <1>1, <1>2, <1>3, <1>4, <1>6, SenderStays
  <2>2. ProgOK(c)'
    BY <1>1, <1>2, <1>4, <1>6, SenderStays
  <2>3. QED
    BY <2>1, <2>2
<1>7. ASSUME NEW c \in Conn, Step(c)
      PROVE  (\A f \in Folder : FilesOK(f)') /\ (\A d \in Conn : ProgOK(d)' /\ ToldOK(d)')
  <2>1. /\ \A d \in Conn \ {c} : Same(d)
        /\ \A f \in Folder \ {folder[c]} : SameFiles(f)
    BY <1>2, <1>7, Frame
  <2>2. \A d \in Conn \ {c} : ProgOK(d)' /\ ToldOK(d)'
    BY <1>6, <2>1 DEF Same
  <2>3. \A f \in Folder \ {folder[c]} : FilesOK(f)'
    BY <1>5, <2>1 DEF SameFiles
  <2> USE DEF At, GoTo, Put, Performs, Performed, disk, history
  <2>4. ProgOK(c)' /\ ToldOK(c)'
    <3>1. CASE Execute(c)
      <4>1. /\ prog'[c] = exe[folder[c]] /\ folder[c] \in Folder /\ folder'[c] = folder[c]
            /\ told'[c] = told[c]
        BY <1>2, <1>4, <3>1 DEF Execute, Shapes
      <4>2. ProgOK(c)'
        BY <1>1, <4>1, SenderStays
      <4>3. ToldOK(c)'
        BY <1>1, <4>1, SenderStays
      <4>4. QED
        BY <4>2, <4>3
    <3>2. CASE ReadData(c)
      <4>1. /\ told'[c] = data[folder[c]] /\ folder[c] \in Folder /\ folder'[c] = folder[c]
            /\ pc'[c] = "send"
        BY <1>2, <1>4, <3>2 DEF ReadData, Shapes
      <4>2. ToldOK(c)'
        BY <1>1, <4>1, SenderStays
      <4>3. QED
        BY <4>1, <4>2
    <3>3. ASSUME ~ Execute(c), ~ ReadData(c)
          PROVE  told'[c] \in {told[c], None}
                 /\ (pc'[c] \in Busy => pc[c] \in Busy /\ prog'[c] = prog[c])
      <4>1. CASE Ends(c) \/ Recovers(c) \/ Looks(c) \/ Greets(c) \/ Orders(c)
        BY <1>2, <4>1 DEF Ends, Finish, Recovers, Looks, AcceptTcpClient, ClientThread, FindFolder,
                          Loop, Sent, Greets, Orders
      <4>2. CASE Keys(c) \/ OpenData(c) \/ Sets(c)
        BY <1>2, <4>2 DEF Keys, MakeFolder, CreateKey, WriteKey, OpenKey, ReadKey, OpenData, Sets,
                          CreateData, WriteData, Shapes
      <4>3. CASE Exited(c) \/ OpenStore(c) \/ WriteOutput(c)
        BY <1>2, <4>3 DEF Exited, OpenStore, WriteOutput, Shapes
      <4>4. CASE Compiles(c)
        BY <1>2, <4>4 DEF Compiles, Receive, CreateCode, WriteCode, Compile, Removes
      <4>5. QED
        BY <1>7, <3>3, <4>1, <4>2, <4>3, <4>4 DEF Step, Reads, Runs
    <3>4. QED
      BY <1>6, <3>1, <3>2, <3>3
  <2>5. ASSUME NEW f \in Folder, folder[c] = f PROVE FilesOK(f)'
    <3>1. CASE WriteOutput(c)
      <4>1. data'[f] = Output(c) /\ exe'[f] = exe[f] /\ code'[f] = code[f]
        BY <1>2, <2>5, <3>1 DEF WriteOutput
      <4>2. prog[c] = Absent \/ (prog[c] \in Program /\ folder[prog[c].by] = f)
        BY <1>1, <2>5, <3>1 DEF WriteOutput, Typed, Carried
      <4>3. CASE prog[c] = Absent
        BY <1>5, <2>5, <4>1, <4>3 DEF Output
      <4>4. CASE prog[c] # Absent
        <5>1. Output(c) \in Content /\ Output(c).by = prog[c].by
          BY <4>2, <4>4 DEF Output, Content, Program
        <5>2. DataOK(f)'
          BY <2>5, <4>1, <4>2, <4>4, <5>1, SenderStays
        <5>3. (ExeOK(f) /\ CodeOK(f))'
          BY <1>1, <2>5, <4>1, SenderStays
        <5>4. QED
          BY <5>2, <5>3
      <4>5. QED
        BY <4>3, <4>4
    <3>2. CASE WriteData(c)
      <4>1. data'[f] = [kind |-> "data", by |-> c] /\ exe'[f] = exe[f] /\ code'[f] = code[f]
        BY <1>2, <2>5, <3>2 DEF WriteData
      <4>2. folder'[c] = f
        BY <1>2, <1>4, <2>5
      <4>3. (ExeOK(f) /\ CodeOK(f))'
        BY <1>1, <2>5, <4>1, SenderStays
      <4>4. QED
        BY <4>1, <4>2, <4>3
    <3>3. CASE WriteCode(c)
      <4>1. code'[f] = prog[c] /\ exe'[f] = exe[f] /\ data'[f] = data[f]
        BY <1>2, <2>5, <3>3 DEF WriteCode
      <4>2. prog[c].by = c /\ folder'[c] = f
        BY <1>2, <1>4, <2>5, <3>3 DEF WriteCode, Typed, Carried
      <4>3. (ExeOK(f) /\ DataOK(f))'
        BY <1>1, <2>5, <4>1, SenderStays
      <4>4. QED
        BY <4>1, <4>2, <4>3
    <3>4. CASE Compile(c)
      <4>1. code'[f] = code[f] /\ data'[f] = data[f]
        BY <3>4 DEF Compile
      <4>2. \/ exe'[f] = exe[f]
            \/ exe'[f] = code[f] /\ code[f] \in Program /\ code[f].kind # "wrong"
        BY <1>2, <2>5, <3>4 DEF Compile
      <4>3. (CodeOK(f) /\ DataOK(f))'
        BY <1>1, <2>5, <4>1, SenderStays
      <4>4. ExeOK(f)'
        BY <1>1, <2>5, <4>2, SenderStays
      <4>5. QED
        BY <4>3, <4>4
    <3>5. ASSUME ~ WriteOutput(c), ~ WriteData(c), ~ WriteCode(c), ~ Compile(c)
          PROVE  /\ data'[f] \in {data[f], Empty} /\ exe'[f] = exe[f]
                 /\ code'[f] \in {code[f], Empty, Absent}
      <4>1. CASE \/ Ends(c) \/ Recovers(c) \/ Looks(c) \/ Greets(c) \/ Orders(c) \/ Keys(c)
                 \/ Reads(c)
        BY <4>1 DEF Ends, Recovers, Looks, AcceptTcpClient, ClientThread, FindFolder, Loop, Sent, Greets,
                    Orders, Keys, MakeFolder, CreateKey, WriteKey, OpenKey, ReadKey, Reads,
                    OpenData, ReadData
      <4>2. CASE Execute(c) \/ Exited(c) \/ OpenStore(c) \/ CreateData(c)
        BY <1>2, <2>5, <4>2 DEF Execute, Exited, OpenStore, CreateData
      <4>3. CASE Receive(c) \/ CreateCode(c) \/ Removes(c)
        BY <1>2, <2>5, <4>3 DEF Receive, CreateCode, Removes
      <4>4. QED
        BY <1>7, <3>5, <4>1, <4>2, <4>3 DEF Step, Runs, Sets, Compiles
    <3>6. QED
      BY <1>5, <2>5, <3>1, <3>2, <3>3, <3>4, <3>5
  <2>6. QED
    BY <2>2, <2>3, <2>4, <2>5
<1>8. ASSUME Die \/ UNCHANGED vars
      PROVE  (\A f \in Folder : FilesOK(f)') /\ (\A c \in Conn : ProgOK(c)' /\ ToldOK(c)')
  <2>1. \A f \in Folder : data'[f] = data[f] /\ exe'[f] = exe[f] /\ code'[f] = code[f]
    BY <1>8 DEF Die, vars, disk
  <2>2. \A c \in Conn : /\ told'[c] = told[c]
                        /\ pc'[c] \in Busy => pc[c] \in Busy /\ prog'[c] = prog[c]
    BY <1>8 DEF Die, vars
  <2>3. QED
    BY <1>5, <1>6, <2>1, <2>2
<1>9. (\A f \in Folder : FilesOK(f)') /\ (\A c \in Conn : ProgOK(c)' /\ ToldOK(c)')
  BY <1>7, <1>8, Steps
<1>10. QED
  BY <1>9 DEF Apart, Sources, FoldersApart

-----------------------------------------------------------------------------
(* The last write of a connection. *)

\* A thread that writes data.dat keeps the others of its folder from writing it.
LEMMA WriterBlocks ==
  ASSUME Typed, Using, NEW c \in Conn, NEW x \in Conn \ {c}, folder[x] = folder[c],
         pc[c] \in {"write_output", "write_data"}
  PROVE  ~CanWrite(x, "data")
<1>1. opened[c] = [file |-> "data", how |-> "write"]
  BY DEF Using
<1>2. opened[c] # None /\ opened[c].file = "data"
  BY <1>1, ValuesAssumption DEF Handle
<1>3. QED
  BY <1>2 DEF CanWrite, Others

\* What a step of one connection may do to what another has met and to data.dat.
LEMMA OthersSee ==
  ASSUME Typed, Using, NEW c \in Conn, Step(c), NEW x \in Conn \ {c}, ~met'[x],
         CanWrite(x, "data"), folder[x] \in Folder
  PROVE  ~met[x] /\ data'[folder[x]] = data[folder[x]] /\ CanWrite(x, "data")'
<1>1. /\ pc \in [Conn -> Labels] /\ opened \in [Conn -> Handle \cup {None}] /\ DOMAIN met = Conn
      /\ data \in [Folder -> Content \cup {Absent, Empty}]
  BY DEF Typed, TypeOK
<1>2. /\ \A d \in Conn \ {c} : Same(d)
      /\ folder'[c] = folder[c] \/ At(c, "hello")
  BY Frame, TypedShapes
<1>3. /\ At(c, "hello") => opened[c] = None
      /\ pc[c] \in {"write_output", "write_data"} => folder[c] # folder[x]
  BY WriterBlocks DEF Using, At
<1> DEFINE Opens == OpenData(c) \/ (OpenStore(c) /\ CanWrite(c, "data")) \/ CreateData(c)
<1>4. CASE Opens
  <2>1. ~met[x] /\ folder[x] # folder[c]
    BY <1>1, <1>4 DEF OpenData, OpenStore, CreateData, Meet
  <2>2. folder'[c] = folder[c]
    BY <1>4 DEF OpenData, OpenStore, CreateData
  <2>3. data'[folder[x]] = data[folder[x]]
    BY <2>1, Frame, TypedShapes DEF SameFiles
  <2>4. CanWrite(x, "data")'
    BY <1>2, <2>1, <2>2 DEF CanWrite, Others, Same
  <2>5. QED
    BY <2>1, <2>3, <2>4
<1>5. CASE ~Opens
  <2> DEFINE Fine == /\ met'[x] = met[x]
                     /\ opened'[c] \in {opened[c], None} \/ opened'[c].file # "data"
                     /\ data'[folder[x]] = data[folder[x]]
  <2>1. Fine
    <3> USE DEF Open, Close, Put, disk, history
    <3>8. CASE Ends(c)
      BY <1>1, <3>8 DEF Ends, Finish
    <3>9. CASE Recovers(c)
      BY <1>1, <3>9 DEF Recovers
    <3>1. CASE Looks(c) \/ Greets(c) \/ Orders(c)
      BY <1>1, <3>1 DEF Looks, AcceptTcpClient, ClientThread, FindFolder, Loop, Sent,
                        Greets, Orders
    <3>2. CASE Keys(c)
      BY <1>1, <3>2 DEF Keys, MakeFolder, CreateKey, WriteKey, OpenKey, ReadKey
    <3>3. CASE ReadData(c) \/ Execute(c) \/ Exited(c)
      BY <1>1, <3>3 DEF ReadData, Execute, Exited
    <3>4. CASE OpenStore(c)
      BY <1>5, <3>4 DEF OpenStore
    <3>5. CASE WriteOutput(c) \/ WriteData(c)
      BY <1>1, <1>3, <3>5 DEF WriteOutput, WriteData, At
    <3>6. CASE Compiles(c)
      BY <1>1, <3>6 DEF Compiles, Receive, CreateCode, WriteCode, Compile, Removes
    <3>7. QED
      BY <1>5, <3>1, <3>2, <3>3, <3>4, <3>5, <3>6, <3>8, <3>9 DEF Step, Reads, Runs, Sets
  <2>2. opened'[c] = opened[c] \/ opened'[c] = None \/ opened'[c].file # "data"
    BY <2>1
  <2>3. ASSUME At(c, "hello") PROVE opened'[c] = None
    BY <1>1, <1>3, <2>3
       DEF Step, Ends, Finish, Recovers, Looks, AcceptTcpClient, ClientThread, FindFolder, Loop, Sent, Greets,
           Orders, Keys, MakeFolder, CreateKey, WriteKey, OpenKey, ReadKey, Reads, OpenData,
           ReadData, Runs, Execute, Exited, OpenStore, WriteOutput, Sets, CreateData, WriteData,
           Compiles, Receive, CreateCode, WriteCode, Compile, Removes, Performs, At
  <2>4. CanWrite(x, "data")'
    BY <1>2, <2>2, <2>3 DEF CanWrite, Others, Same
  <2>5. QED
    BY <2>1, <2>4
<1>6. QED
  BY <1>4, <1>5

\* What a connection's own steps leave of its last write.
LEMMA OwnWrite ==
  ASSUME Typed, Using, Unmet, LastWriteIsRead, NEW c \in Conn, Step(c)
  PROVE  /\ pc'[c] \in Writing => told'[c] = None
         /\ wrote'[c] # None /\ ~met'[c] /\ pc'[c] # "closed" =>
              /\ CanWrite(c, "data")'
              /\ pc'[c] \in {"store", "write_output"} => wrote'[c] = Output(c)'
              /\ pc'[c] = "write_data" => wrote'[c] = [kind |-> "data", by |-> c]
              /\ pc'[c] \notin Writing => data'[folder'[c]] = wrote'[c]
         /\ told'[c] # None /\ wrote'[c] # None /\ ~met'[c] => told'[c] = wrote'[c]
<1>1. /\ Shapes /\ data \in [Folder -> Content \cup {Absent, Empty}]
      /\ pc[c] \notin {"idle", "queued", "hello", "closed"} => folder[c] \in Folder
      /\ pc[c] \in {"idle", "queued", "hello"} => wrote[c] = None
  BY TypedShapes DEF Typed, TypeOK, Homed
<1>2. /\ pc[c] \in Writing => told[c] = None
      /\ wrote[c] # None /\ ~met[c] /\ pc[c] # "closed" =>
           /\ CanWrite(c, "data")
           /\ pc[c] \in {"store", "write_output"} => wrote[c] = Output(c)
           /\ pc[c] = "write_data" => wrote[c] = [kind |-> "data", by |-> c]
           /\ pc[c] \notin Writing => data[folder[c]] = wrote[c]
      /\ told[c] # None /\ wrote[c] # None /\ ~met[c] => told[c] = wrote[c]
  BY DEF Unmet, At, LastWriteIsRead
<1>3. folder'[c] = folder[c] => CanWrite(c, "data")' = CanWrite(c, "data")
  <2>1. \A d \in Conn \ {c} : folder'[d] = folder[d] /\ opened'[d] = opened[d]
    BY <1>1, Frame DEF Same
  <2>2. ASSUME folder'[c] = folder[c] PROVE Others(c)' = Others(c)
    BY <2>1, <2>2 DEF Others
  <2>3. ASSUME folder'[c] = folder[c] PROVE CanWrite(c, "data")' = CanWrite(c, "data")
    <3>1. \A d \in Others(c) : opened'[d] = opened[d]
      BY <2>1 DEF Others
    <3>2. QED
      BY <2>2, <2>3, <3>1 DEF CanWrite
  <2>4. QED
    BY <2>3
<1> USE DEF Shapes, Writing, At, GoTo, Put, Performs, Performed, disk, history
<1>4. CASE Ends(c)
  BY <1>1, <1>2, <1>4 DEF Ends, Finish
<1>18. CASE Recovers(c)
  <2>1. pc'[c] = "reload" /\ UNCHANGED <<folder, data, wrote, told>>
    BY <1>1, <1>18 DEF Recovers
  <2>2. CASE pc[c] \in {"store", "write_output"}
    <3>1. met'[c]
      BY <1>1, <1>18, <2>2 DEF Recovers, Typed, TypeOK
    <3>2. QED
      BY <2>1, <3>1
  <2>3. CASE pc[c] \notin {"store", "write_output"}
    <3>1. met'[c] = met[c] /\ pc[c] = "perform"
      BY <1>1, <1>18, <2>3 DEF Recovers, Typed, TypeOK
    <3>2. QED
      BY <1>2, <1>3, <2>1, <3>1
  <2>4. QED
    BY <2>2, <2>3
<1>5. CASE Greets(c)
  BY <1>1, <1>2, <1>5 DEF Greets
<1>6. CASE Looks(c) \/ Orders(c)
  BY <1>1, <1>2, <1>3, <1>6
     DEF Looks, AcceptTcpClient, ClientThread, FindFolder, Loop, Sent, Orders
<1>7. CASE Keys(c)
  BY <1>1, <1>2, <1>3, <1>7 DEF Keys, MakeFolder, CreateKey, WriteKey, OpenKey, ReadKey
<1>8. CASE OpenData(c)
  BY <1>1, <1>2, <1>3, <1>8 DEF OpenData, Meet
<1>9. CASE ReadData(c)
  BY <1>1, <1>2, <1>3, <1>9 DEF ReadData
<1>10. CASE Execute(c)
  BY <1>1, <1>2, <1>3, <1>10 DEF Execute
<1>11. CASE Exited(c)
  BY <1>1, <1>3, <1>11 DEF Exited, Output
<1>12. CASE OpenStore(c)
  BY <1>1, <1>2, <1>3, <1>12 DEF OpenStore, Meet, Output
<1>13. CASE WriteOutput(c)
  BY <1>1, <1>2, <1>3, <1>13 DEF WriteOutput
<1>14. CASE CreateData(c)
  BY <1>1, <1>3, <1>14 DEF CreateData
<1>15. CASE WriteData(c)
  BY <1>1, <1>2, <1>3, <1>15 DEF WriteData
<1>16. CASE Compiles(c)
  BY <1>1, <1>2, <1>3, <1>16 DEF Compiles, Receive, CreateCode, WriteCode, Compile, Removes
<1>17. QED
  BY <1>4, <1>5, <1>6, <1>7, <1>8, <1>9, <1>10, <1>11, <1>12, <1>13, <1>14, <1>15, <1>16, <1>18
     DEF Step, Reads, Runs, Sets

\* Every step keeps what is known of the last writes.
LEMMA UnmetStep == Typed /\ Using /\ Unmet /\ LastWriteIsRead /\ [Next]_vars
                     => Unmet' /\ LastWriteIsRead'
<1> SUFFICES ASSUME Typed, Using, Unmet, LastWriteIsRead, [Next]_vars
             PROVE  Unmet' /\ LastWriteIsRead'
  OBVIOUS
<1>1. ASSUME NEW c \in Conn, Step(c) PROVE Unmet' /\ LastWriteIsRead'
  <2> SUFFICES ASSUME NEW x \in Conn \ {c}
               PROVE  /\ pc'[x] \in Writing => told'[x] = None
                      /\ wrote'[x] # None /\ ~met'[x] /\ pc'[x] # "closed" =>
                           /\ CanWrite(x, "data")'
                           /\ pc'[x] \in {"store", "write_output"} => wrote'[x] = Output(x)'
                           /\ pc'[x] = "write_data" => wrote'[x] = [kind |-> "data", by |-> x]
                           /\ pc'[x] \notin Writing => data'[folder'[x]] = wrote'[x]
                      /\ told'[x] # None /\ wrote'[x] # None /\ ~met'[x] => told'[x] = wrote'[x]
    BY <1>1, OwnWrite DEF Unmet, LastWriteIsRead, At
  <2>1. Same(x) /\ Output(x)' = Output(x)
    BY <1>1, Frame, TypedShapes DEF Same, Output
  <2>2. /\ pc[x] \in Writing => told[x] = None
        /\ wrote[x] # None /\ ~met[x] /\ pc[x] # "closed" =>
             /\ CanWrite(x, "data")
             /\ pc[x] \in {"store", "write_output"} => wrote[x] = Output(x)
             /\ pc[x] = "write_data" => wrote[x] = [kind |-> "data", by |-> x]
             /\ pc[x] \notin Writing => data[folder[x]] = wrote[x]
        /\ told[x] # None /\ wrote[x] # None /\ ~met[x] => told[x] = wrote[x]
    BY DEF Unmet, LastWriteIsRead, At
  <2>3. ~met'[x] => ~met[x]
    <3>1. x # c /\ DOMAIN met = Conn
      BY DEF Typed, TypeOK
    <3>2. QED
      BY <1>1, <3>1
         DEF Step, Ends, Recovers, Looks, AcceptTcpClient, ClientThread, FindFolder, Loop, Sent,
             Greets, Orders, Keys, MakeFolder, CreateKey, WriteKey, OpenKey, ReadKey, Reads, OpenData,
             ReadData, Runs, Execute, Exited, OpenStore, WriteOutput, Sets, CreateData, WriteData,
             Compiles, Receive, CreateCode, WriteCode, Compile, Removes, Meet, history
  <2>4. wrote[x] # None /\ pc[x] # "closed" => folder[x] \in Folder
    BY DEF Typed, Homed
  <2>5. ASSUME wrote[x] # None, ~met'[x], pc[x] # "closed"
        PROVE  data'[folder[x]] = data[folder[x]] /\ CanWrite(x, "data")'
    BY <1>1, <2>2, <2>3, <2>4, <2>5, OthersSee
  <2>6. QED
    BY <2>1, <2>2, <2>3, <2>5 DEF Same
<1>2. CASE Die
  <2>1. /\ \A c \in Conn : pc'[c] = "closed" \/ (pc'[c] = "idle" /\ wrote[c] = None)
        /\ UNCHANGED <<wrote, met, told>>
    BY <1>2 DEF Die, At, Typed, Homed
  <2>2. QED
    BY <2>1 DEF Unmet, LastWriteIsRead, Writing, At
<1>3. CASE UNCHANGED vars
  BY <1>3 DEF vars, Unmet, LastWriteIsRead, At, CanWrite, Others, Output
<1>4. QED
  BY <1>1, <1>2, <1>3, Steps

\* A connection is answered with its last write, unless another has opened the file since.
THEOREM LastWriteRead == Spec => []LastWriteIsRead
<1> DEFINE I == Typed /\ Using /\ Unmet /\ LastWriteIsRead
<1>1. Init => I
  BY TypedInit DEF Init, Using, Unmet, Writing, LastWriteIsRead, At
<1>2. I /\ [Next]_vars => I'
  BY TypedStep, UsingStep, UnmetStep
<1>3. I => LastWriteIsRead
  OBVIOUS
<1> HIDE DEF I
<1>4. QED
  BY <1>1, <1>2, <1>3, PTL DEF Spec

-----------------------------------------------------------------------------
(* A store of a client's data and program. *)

Puts == {"write_output", "write_data"}
Gets == {"read_data", "reread_data"}

\* Who writes data.dat has emptied it, and nobody else of the folder has it open.
Exclusive == \A c \in Conn : pc[c] \in Puts =>
   /\ data[folder[c]] = Empty
   /\ \A d \in Conn \ {c} : folder[d] = folder[c] => pc[d] \notin Puts \cup Gets

\* What is compiled is what the connection sent, or another connection did.
OwnSource == \A c \in Conn :
   At(c, "compile") /\ code[folder[c]] \in Program /\ code[folder[c]].by = c
      => code[folder[c]] = prog[c]

\* Who may open data.dat meets nobody who writes it, nor, to write it, who reads it.
LEMMA SeesNoWriter ==
  ASSUME Using, NEW c \in Conn, NEW d \in Conn \ {c}, folder[d] = folder[c]
  PROVE  /\ CanRead(c, "data") => pc[d] \notin Puts
         /\ CanWrite(c, "data") => pc[d] \notin Puts \cup Gets
<1>1. /\ pc[d] \in Puts => opened[d] = [file |-> "data", how |-> "write"]
      /\ pc[d] \in Gets => opened[d] = [file |-> "data", how |-> "read"]
  BY DEF Using, Puts, Gets
<1>2. None \notin Handle
  BY ValuesAssumption
<1>3. [file |-> "data", how |-> "write"] \in Handle /\ [file |-> "data", how |-> "read"] \in Handle
  BY DEF Handle
<1>4. pc[d] \in Puts \cup Gets => d \in Others(c)
  BY <1>1, <1>2, <1>3 DEF Others
<1>5. QED
  BY <1>1, <1>4 DEF CanRead, CanWrite

\* Where a thread comes to open data.dat from, and what it leaves there.
LEMMA OpensData ==
  ASSUME Typed, Using, Exclusive, NEW c \in Conn, Step(c)
  PROVE  /\ pc'[c] \in Gets => CanRead(c, "data") /\ folder'[c] = folder[c]
         /\ pc'[c] \in Puts => /\ CanWrite(c, "data") /\ folder'[c] = folder[c]
                               /\ pc[c] \notin Puts /\ data' = Put(data, c, Empty)
         /\ pc'[c] \notin Puts /\ pc[c] \notin Puts => data' = data
<1>1. /\ pc \in [Conn -> Labels] /\ DOMAIN data = Folder
  BY DEF Typed, TypeOK
<1> USE DEF At, GoTo, Puts, Gets, disk, Performed, Performs
<1>8. CASE Ends(c) \/ Recovers(c)
  BY <1>1, <1>8 DEF Ends, Finish, Recovers
<1>2. CASE Looks(c) \/ Greets(c) \/ Orders(c)
  BY <1>1, <1>2 DEF Looks, AcceptTcpClient, ClientThread, FindFolder, Loop, Sent,
                    Greets, Orders
<1>3. CASE Keys(c)
  BY <1>1, <1>3 DEF Keys, MakeFolder, CreateKey, WriteKey, OpenKey, ReadKey
<1>4. CASE Reads(c) \/ Sets(c)
  BY <1>1, <1>4 DEF Reads, OpenData, ReadData, Sets, CreateData, WriteData
<1>5. CASE Runs(c)
  BY <1>1, <1>5 DEF Runs, Execute, Exited, OpenStore, WriteOutput
<1>6. CASE Compiles(c)
  BY <1>1, <1>6 DEF Compiles, Receive, CreateCode, WriteCode, Compile, Removes
<1>7. QED
  BY <1>2, <1>3, <1>4, <1>5, <1>6, <1>8 DEF Step

\* Every step leaves a writer alone with an empty file.
LEMMA ExclusiveStep == Typed /\ Using /\ Exclusive /\ [Next]_vars => Exclusive'
<1> SUFFICES ASSUME Typed, Using, Exclusive, [Next]_vars PROVE Exclusive'
  OBVIOUS
<1>1. ASSUME NEW c \in Conn, Step(c) PROVE Exclusive'
  <2>1. /\ \A d \in Conn \ {c} : Same(d)
        /\ \A f \in Folder \ {folder[c]} : SameFiles(f)
        /\ folder'[c] = folder[c] \/ At(c, "hello")
    BY <1>1, Frame, TypedShapes
  <2>2. /\ \A d \in Conn : pc[d] \in Puts \cup Gets => folder[d] \in Folder
        /\ DOMAIN data = Folder
    BY DEF Typed, TypeOK, Homed, Puts, Gets
  <2>3. ASSUME NEW x \in Conn, pc'[x] \in Puts, NEW d \in Conn \ {x}, folder'[d] = folder'[x],
               pc'[d] \in Puts \cup Gets
        PROVE  FALSE
    <3>1. CASE x = c
      <4>1. folder[d] = folder[c] /\ pc[d] \in Puts \cup Gets /\ CanWrite(c, "data")
        BY <1>1, <2>1, <2>3, <3>1, OpensData DEF Same
      <4>2. QED
        BY <2>3, <3>1, <4>1, SeesNoWriter
    <3>2. CASE d = c
      <4>1. folder[x] = folder[c] /\ pc[x] \in Puts
        BY <1>1, <2>1, <2>3, <3>2, OpensData DEF Same
      <4>2. CanRead(c, "data") \/ CanWrite(c, "data")
        BY <1>1, <2>3, <3>2, OpensData
      <4>3. QED
        BY <2>3, <3>2, <4>1, <4>2, SeesNoWriter
    <3>3. CASE x # c /\ d # c
      BY <2>1, <2>3, <3>3 DEF Same, Exclusive
    <3>4. QED
      BY <3>1, <3>2, <3>3
  <2>4. ASSUME NEW x \in Conn, pc'[x] \in Puts PROVE data'[folder'[x]] = Empty
    <3>1. CASE x = c
      <4>1. folder'[c] = folder[c] /\ data' = Put(data, c, Empty)
        BY <1>1, <2>4, <3>1, OpensData
      <4>2. folder'[c] \in Folder
        BY <1>1, <2>4, <3>1, TypedStep DEF Typed, Homed, Puts
      <4>3. QED
        BY <2>2, <3>1, <4>1, <4>2 DEF Put
    <3>2. CASE x # c
      <4>1. pc[x] \in Puts /\ folder'[x] = folder[x] /\ data[folder[x]] = Empty /\ folder[x] \in Folder
        BY <2>1, <2>2, <2>4, <3>2 DEF Same, Exclusive
      <4>2. CASE folder[x] # folder[c]
        BY <2>1, <4>1, <4>2 DEF SameFiles
      <4>3. CASE folder[x] = folder[c]
        <5>1. pc[c] \notin Puts
          BY <3>2, <4>1, <4>3 DEF Exclusive
        <5>2. data' = data \/ data' = Put(data, c, Empty)
          BY <1>1, <5>1, OpensData
        <5>3. QED
          BY <2>2, <4>1, <4>3, <5>2 DEF Put
      <4>4. QED
        BY <4>2, <4>3
    <3>3. QED
      BY <3>1, <3>2
  <2>5. QED
    BY <2>3, <2>4 DEF Exclusive
<1>2. CASE Die
  BY <1>2 DEF Die, Exclusive, Puts, At
<1>3. CASE UNCHANGED vars
  BY <1>3 DEF vars, Exclusive
<1>4. QED
  BY <1>1, <1>2, <1>3, Steps

\* A source changes when it is created, written or removed.
LEMMA CodeChanges ==
  ASSUME Shapes, NEW c \in Conn, Step(c)
  PROVE  /\ code' = code \/ code' = Put(code, c, Empty) \/ code' = Put(code, c, Absent)
            \/ (code' = Put(code, c, prog[c]) /\ At(c, "write_code"))
         /\ pc'[c] = "compile" => /\ code' = Put(code, c, prog[c]) /\ At(c, "write_code")
                                  /\ prog'[c] = prog[c] /\ folder'[c] = folder[c]
<1> USE DEF Shapes, At, GoTo, disk, Performed, Performs
<1>1. CASE Ends(c) \/ Recovers(c) \/ Looks(c) \/ Greets(c) \/ Orders(c)
  BY <1>1 DEF Ends, Finish, Recovers, Looks, AcceptTcpClient, ClientThread, FindFolder, Loop, Sent,
              Greets, Orders
<1>2. CASE Keys(c)
  BY <1>2 DEF Keys, MakeFolder, CreateKey, WriteKey, OpenKey, ReadKey
<1>3. CASE Reads(c) \/ Sets(c)
  BY <1>3 DEF Reads, OpenData, ReadData, Sets, CreateData, WriteData
<1>4. CASE Runs(c)
  BY <1>4 DEF Runs, Execute, Exited, OpenStore, WriteOutput
<1>5. CASE Compiles(c)
  BY <1>5 DEF Compiles, Receive, CreateCode, WriteCode, Compile, Removes
<1>6. QED
  BY <1>1, <1>2, <1>3, <1>4, <1>5 DEF Step

\* Every step leaves a source of a connection only as the connection wrote it.
LEMMA OwnSourceStep == Typed /\ OwnSource /\ [Next]_vars => OwnSource'
<1> SUFFICES ASSUME Typed, OwnSource, [Next]_vars PROVE OwnSource'
  OBVIOUS
<1>1. ASSUME NEW c \in Conn, Step(c), NEW x \in Conn, pc'[x] = "compile",
             code'[folder'[x]] \in Program, code'[folder'[x]].by = x
      PROVE  code'[folder'[x]] = prog'[x]
  <2>1. \A d \in Conn \ {c} : Same(d)
    BY <1>1, Frame, TypedShapes
  <2>2. Shapes /\ DOMAIN code = Folder /\ Empty \notin Program /\ Absent \notin Program
    BY TypedShapes, ValuesAssumption DEF Typed, TypeOK
  <2>3. folder'[x] \in Folder
    BY <1>1, TypedStep DEF Typed, Homed
  <2>4. CASE x = c
    BY <1>1, <2>2, <2>3, <2>4, CodeChanges DEF Put
  <2>5. CASE x # c
    <3>1. pc[x] = "compile" /\ folder'[x] = folder[x] /\ prog'[x] = prog[x]
      BY <1>1, <2>1, <2>5 DEF Same
    <3>2. At(c, "write_code") => prog[c].by = c
      BY DEF Typed, Carried, At
    <3>3. code'[folder[x]] = code[folder[x]]
      BY <1>1, <2>2, <2>3, <2>5, <3>1, <3>2, CodeChanges DEF Put
    <3>4. QED
      BY <1>1, <3>1, <3>3 DEF OwnSource, At
  <2>6. QED
    BY <2>4, <2>5
<1>2. ASSUME NEW c \in Conn, Step(c) PROVE OwnSource'
  BY <1>1, <1>2 DEF OwnSource, At
<1>3. CASE Die
  BY <1>3 DEF Die, OwnSource, At
<1>4. CASE UNCHANGED vars
  BY <1>4 DEF vars, OwnSource, At
<1>5. QED
  BY <1>2, <1>3, <1>4, Steps

\* The store as StellarAssist keeps it.
Tasks == [c \in Conn |-> [does |-> Does(c), what |-> About(c)]]
Holds == [f \in Folder |-> HeldIn(f)]
Promised == <<folder, Tasks, Holds, exe, told>>

\* What is known when a step is taken.
Kept == Typed /\ Using /\ Exclusive /\ Apart /\ OwnSource /\ Unmet /\ LastWriteIsRead

\* What a thread is about, by its label.
Busy == {"set_code", "write_code", "compile", "running", "store"} \cup Puts
TaskByLabel == \A c \in Conn :
   /\ pc[c] \in {"set_code", "write_code", "compile"}
         => Tasks[c] = [does |-> "sends", what |-> prog[c]]
   /\ At(c, "running") => Tasks[c] = [does |-> "runs", what |-> prog[c]]
   /\ At(c, "store") => Tasks[c] = [does |-> "stores", what |-> Output(c)]
   /\ pc[c] \in Puts => Tasks[c] = [does |-> "puts", what |-> Written(c)]
   /\ pc[c] \notin Busy => Tasks[c] = [does |-> "rests", what |-> None]

\* The mapping says just that.
LEMMA TaskIs == TaskByLabel
<1> SUFFICES ASSUME NEW c \in Conn
             PROVE  /\ pc[c] \in {"set_code", "write_code", "compile"}
                          => Tasks[c] = [does |-> "sends", what |-> prog[c]]
                    /\ At(c, "running") => Tasks[c] = [does |-> "runs", what |-> prog[c]]
                    /\ At(c, "store") => Tasks[c] = [does |-> "stores", what |-> Output(c)]
                    /\ pc[c] \in Puts => Tasks[c] = [does |-> "puts", what |-> Written(c)]
                    /\ pc[c] \notin Busy => Tasks[c] = [does |-> "rests", what |-> None]
  BY DEF TaskByLabel
<1> USE DEF Busy
<1>1. Tasks[c] = [does |-> Does(c), what |-> About(c)]
  BY DEF Tasks
<1>2. CASE pc[c] \in {"set_code", "write_code", "compile"}
  <2>1. Does(c) = "sends"
    BY <1>2 DEF Does, At
  <2>2. About(c) = prog[c]
    BY <2>1 DEF About
  <2>3. QED
    BY <1>1, <1>2, <2>1, <2>2 DEF At, Puts
<1>3. CASE At(c, "running")
  <2>1. Does(c) = "runs"
    BY <1>3 DEF Does, At
  <2>2. About(c) = prog[c]
    BY <2>1 DEF About
  <2>3. QED
    BY <1>1, <1>3, <2>1, <2>2 DEF At, Puts
<1>4. CASE At(c, "store")
  <2>1. Does(c) = "stores"
    BY <1>4 DEF Does, At
  <2>2. About(c) = Output(c)
    BY <2>1 DEF About
  <2>3. QED
    BY <1>1, <1>4, <2>1, <2>2 DEF At, Puts
<1>5. CASE pc[c] \in Puts
  <2>1. Does(c) = "puts"
    BY <1>5 DEF Does, At, Puts
  <2>2. About(c) = Written(c)
    BY <2>1 DEF About
  <2>3. QED
    BY <1>1, <1>5, <2>1, <2>2 DEF At, Puts
<1>6. CASE pc[c] \notin Busy
  <2>1. Does(c) = "rests"
    BY <1>6 DEF Does, At, Puts
  <2>2. About(c) = None
    BY <2>1 DEF About
  <2>3. QED
    BY <1>1, <1>6, <2>1, <2>2 DEF At, Puts
<1>7. QED
  BY <1>2, <1>3, <1>4, <1>5, <1>6 DEF At

\* So it does in the next state.
LEMMA NextTaskIs == TaskByLabel'
  BY TaskIs, PTL

\* The others keep what they are about.
LEMMA OthersTasks ==
  ASSUME Typed, NEW c \in Conn, Step(c)
  PROVE  Tasks' = [Tasks EXCEPT ![c] = Tasks'[c]]
<1>1. \A d \in Conn \ {c} : pc'[d] = pc[d] /\ prog'[d] = prog[d]
  BY Frame, TypedShapes DEF Same
<1>2. \A d \in Conn \ {c} : Does(d)' = Does(d) /\ Written(d)' = Written(d) /\ Output(d)' = Output(d)
  BY <1>1 DEF Does, Written, Output, At
<1>3. \A d \in Conn \ {c} : About(d)' = About(d)
  BY <1>1, <1>2 DEF About
<1>4. QED
  BY <1>2, <1>3 DEF Tasks

\* A folder is free when nobody writes its data.
LEMMA FreeIs ==
  ASSUME NEW f \in Folder
  PROVE  Store!Free(f) <=> Writers(f) = {}
<1>1. \A c \in Conn : Tasks[c].does = Does(c)
  BY DEF Tasks
<1>2. QED
  BY <1>1 DEF Store!Free, Store!Does, Tasks, Writers, Does, At

\* What is held while it is written.
HeldByWriter == \A c \in Conn : pc[c] \in Puts =>
   Writers(folder[c]) = {c} /\ HeldIn(folder[c]) = Written(c)
LEMMA HeldIsWritten == Exclusive => HeldByWriter
<1> SUFFICES ASSUME Exclusive, NEW c \in Conn, pc[c] \in Puts
             PROVE  Writers(folder[c]) = {c} /\ HeldIn(folder[c]) = Written(c)
  BY DEF HeldByWriter
<1>1. Writers(folder[c]) = {c}
  BY DEF Exclusive, Writers, Puts
<1>2. QED
  BY <1>1 DEF HeldIn

\* So it is in the next state.
LEMMA NextHeldIsWritten == Exclusive' => HeldByWriter'
  BY HeldIsWritten, PTL

\* Folders that a step does not write, and whose writers stay, hold what they held.
LEMMA OthersHold ==
  ASSUME Typed, NEW c \in Conn, Step(c), folder'[c] = folder[c],
         NEW f \in Folder, f # folder[c]
  PROVE  HeldIn(f)' = HeldIn(f)
<1>1. /\ \A d \in Conn \ {c} : Same(d)
      /\ \A g \in Folder \ {folder[c]} : SameFiles(g)
  BY Frame, TypedShapes
<1>2. Writers(f)' = Writers(f) /\ c \notin Writers(f) /\ data'[f] = data[f]
  BY <1>1 DEF Writers, Same, SameFiles
<1>3. \A d \in Writers(f) : Written(d)' = Written(d)
  BY <1>1, <1>2 DEF Writers, Written, Output, Same, At
<1>4. (CHOOSE d \in Conn : d \in Writers(f))' = (CHOOSE d \in Conn : d \in Writers(f))
  BY <1>2
<1>5. ASSUME Writers(f) # {} PROVE (CHOOSE d \in Conn : d \in Writers(f)) \in Writers(f)
  BY <1>5 DEF Writers
<1>6. QED
  BY <1>2, <1>3, <1>4, <1>5 DEF HeldIn

\* A step that writes no data and neither begins nor ends to write any changes nothing held.
LEMMA HoldsStay ==
  ASSUME Typed, NEW c \in Conn, Step(c), data' = data, pc[c] \notin Puts, pc'[c] \notin Puts
  PROVE  Holds' = Holds
<1>1. \A d \in Conn \ {c} : Same(d)
  BY Frame, TypedShapes
<1>2. \A f \in Folder : Writers(f)' = Writers(f) /\ c \notin Writers(f)
  BY <1>1 DEF Writers, Puts, Same
<1>3. ASSUME NEW f \in Folder PROVE HeldIn(f)' = HeldIn(f)
  <2>1. \A d \in Writers(f) : Written(d)' = Written(d)
    BY <1>1, <1>2 DEF Writers, Written, Output, Same, At
  <2>2. (CHOOSE d \in Conn : d \in Writers(f))' = (CHOOSE d \in Conn : d \in Writers(f))
    BY <1>2
  <2>3. ASSUME Writers(f) # {} PROVE (CHOOSE d \in Conn : d \in Writers(f)) \in Writers(f)
    BY <2>3 DEF Writers
  <2>4. QED
    BY <1>2, <2>1, <2>2, <2>3 DEF HeldIn
<1>4. QED
  BY <1>3 DEF Holds

\* A writer that begins in a free folder, or ends, changes what is held there only.
LEMMA HoldsNew ==
  ASSUME Typed, NEW c \in Conn, Step(c), folder'[c] = folder[c]
  PROVE  Holds' = [Holds EXCEPT ![folder[c]] = HeldIn(folder[c])']
<1>1. \A f \in Folder \ {folder[c]} : HeldIn(f)' = HeldIn(f)
  BY OthersHold
<1>2. QED
  BY <1>1 DEF Holds

\* Who does not write the data ends, fails, looks, or makes a key: nothing that was promised
\* changes, but that a program is not compiled, or an output not stored.
Quiet(c) == /\ pc[c] \notin Puts
            /\ Ends(c) \/ Recovers(c) \/ Looks(c) \/ Orders(c) \/ Keys(c)
LEMMA QuietSteps ==
  ASSUME Kept, NEW c \in Conn, Quiet(c)
  PROVE  Store!Drop(c) \/ UNCHANGED Promised
<1>1. Step(c) /\ Typed /\ pc \in [Conn -> Labels]
  BY DEF Quiet, Step, Kept, Typed, TypeOK
<1>2. UNCHANGED <<folder, data, exe, told>>
  BY DEF Quiet, Ends, Recovers, Looks, AcceptTcpClient, ClientThread, FindFolder, Loop, Sent,
         Orders, Keys, MakeFolder, CreateKey, WriteKey, OpenKey, ReadKey, disk, history
<1> DEFINE Drops == {"set_code", "write_code", "compile", "store"}
<1>3. pc[c] \notin Busy \ Drops /\ pc'[c] \notin Busy
  <2>1. CASE Ends(c) \/ Recovers(c)
    BY <1>1, <2>1 DEF Quiet, Ends, Streams, Finish, Recovers, At, GoTo, Busy, Puts
  <2>2. CASE Looks(c) \/ Orders(c) \/ Keys(c)
    BY <1>1, <2>2 DEF Looks, AcceptTcpClient, ClientThread, FindFolder, Loop, Sent, Orders, Keys,
                      MakeFolder, CreateKey, WriteKey, OpenKey, ReadKey, At, GoTo, Busy, Puts
  <2>3. QED
    BY <2>1, <2>2 DEF Quiet
<1>4. Holds' = Holds
  BY <1>1, <1>2, <1>3, HoldsStay DEF Quiet, Busy
<1>5. Tasks'[c] = [does |-> "rests", what |-> None]
  BY <1>3, NextTaskIs DEF TaskByLabel
<1>6. CASE pc[c] \in Drops
  <2>1. Tasks[c].does \in {"sends", "stores"}
    BY <1>6 DEF Tasks, Does, At
  <2>2. Tasks' = [Tasks EXCEPT ![c] = [does |-> "rests", what |-> None]]
    BY <1>1, <1>5, OthersTasks
  <2>3. QED
    BY <1>2, <1>4, <2>1, <2>2
       DEF Store!Drop, Store!Does, Store!Turns, Store!Rest, Store!Task, Tasks, Holds
<1>7. CASE pc[c] \notin Drops
  <2>1. Tasks[c] = [does |-> "rests", what |-> None]
    BY <1>3, <1>7, TaskIs DEF TaskByLabel
  <2>2. Tasks' = Tasks
    BY <1>1, <1>5, <2>1, OthersTasks DEF Tasks
  <2>3. QED
    BY <1>2, <1>4, <2>2 DEF Promised
<1>8. QED
  BY <1>6, <1>7

\* A client is known from Hello on.
LEMMA GreetsJoins ==
  ASSUME Kept, NEW c \in Conn, Greets(c)
  PROVE  Store!Join(c)
<1>1. Step(c) /\ Typed /\ pc \in [Conn -> Labels]
  BY DEF Step, Kept, Typed, TypeOK
<1>2. UNCHANGED <<data, exe, told>> /\ pc[c] = "hello" /\ pc'[c] = "client"
  BY <1>1 DEF Greets, disk, history, At, GoTo
<1>3. Tasks' = Tasks
  <2>1. Tasks[c] = [does |-> "rests", what |-> None] /\ Tasks'[c] = Tasks[c]
    BY <1>2, TaskIs, NextTaskIs DEF TaskByLabel, Busy, Puts
  <2>2. QED
    BY <1>1, <2>1, OthersTasks DEF Tasks
<1>4. Holds' = Holds
  BY <1>1, <1>2, HoldsStay DEF Puts
<1>5. folder[c] = None
  BY <1>1, <1>2 DEF Typed, Homed
<1>6. \E f \in Folder : folder' = [folder EXCEPT ![c] = f]
  BY FolderAssumption DEF Greets
<1>7. QED
  BY <1>2, <1>3, <1>4, <1>5, <1>6 DEF Store!Join, Tasks, Holds

\* Data is given when it is read: it was there when the file was opened, and nobody
\* could write it since.
LEMMA ReadingGives ==
  ASSUME Kept, NEW c \in Conn, ReadData(c)
  PROVE  Store!Give(c)
<1>1. Step(c) /\ Typed /\ pc \in [Conn -> Labels] /\ Exclusive
  BY DEF Step, Reads, Kept, Typed, TypeOK
<1>2. /\ UNCHANGED <<folder, data, exe>> /\ pc[c] \in Gets /\ pc'[c] = "send"
      /\ told' = [told EXCEPT ![c] = data[folder[c]]]
  BY <1>1 DEF ReadData, disk, Performed, GoTo, Gets
<1>3. folder[c] \in Folder /\ data[folder[c]] # Absent
  BY <1>1, <1>2 DEF Typed, Homed, There, Gets
<1>4. Tasks[c] = [does |-> "rests", what |-> None] /\ Tasks' = Tasks
  <2>1. Tasks[c] = [does |-> "rests", what |-> None] /\ Tasks'[c] = Tasks[c]
    BY <1>2, TaskIs, NextTaskIs DEF TaskByLabel, Busy, Puts, Gets
  <2>2. QED
    BY <1>1, <2>1, OthersTasks DEF Tasks
<1>5. Holds' = Holds
  BY <1>1, <1>2, HoldsStay DEF Puts, Gets
<1>6. Writers(folder[c]) = {}
  BY <1>1, <1>2 DEF Exclusive, Writers, Puts, Gets
<1>7. Store!Free(folder[c]) /\ Holds[folder[c]] = data[folder[c]]
  BY <1>3, <1>6, FreeIs DEF Holds, HeldIn
<1>8. QED
  BY <1>2, <1>3, <1>4, <1>5, <1>7 DEF Store!Give, Store!Does, Tasks, Holds

\* A program is run as it is installed at that moment, and what it prints is its output.
LEMMA RunningRuns ==
  ASSUME Kept, NEW c \in Conn, Execute(c) \/ Exited(c)
  PROVE  Store!Run(c) \/ Store!Prints(c)
<1>1. Step(c) /\ Typed /\ pc \in [Conn -> Labels] /\ DOMAIN prog = Conn
  BY DEF Step, Runs, Kept, Typed, TypeOK
<1>2. UNCHANGED <<folder, data, exe>>
  BY DEF Execute, Exited, disk
<1>3. CASE Execute(c)
  <2>1. /\ pc[c] = "perform" /\ pc'[c] = "running" /\ told' = told
        /\ prog'[c] = exe[folder[c]]
    BY <1>1, <1>3 DEF Execute, Performs, At, GoTo, history
  <2>2. /\ Tasks[c] = [does |-> "rests", what |-> None]
        /\ Tasks'[c] = [does |-> "runs", what |-> exe[folder[c]]]
    BY <2>1, TaskIs, NextTaskIs DEF TaskByLabel, Busy, Puts, At
  <2>3. Tasks' = [Tasks EXCEPT ![c] = [does |-> "runs", what |-> exe[folder[c]]]]
    BY <1>1, <2>2, OthersTasks
  <2>4. Holds' = Holds
    BY <1>1, <1>2, <2>1, HoldsStay DEF Puts
  <2>5. folder[c] \in Folder
    BY <1>1, <2>1 DEF Typed, Homed
  <2>6. QED
    BY <1>2, <2>1, <2>2, <2>3, <2>4, <2>5
       DEF Store!Run, Store!Does, Store!Turns, Store!Task, Tasks, Holds
<1>4. CASE Exited(c)
  <2>1. /\ pc[c] = "running" /\ pc'[c] = "store" /\ prog'[c] = prog[c] /\ ~Hangs(c)
        /\ told' = [told EXCEPT ![c] = None]
    BY <1>1, <1>4 DEF Exited, At, GoTo
  <2>2. /\ Tasks[c] = [does |-> "runs", what |-> prog[c]]
        /\ Tasks'[c] = [does |-> "stores", what |-> Output(c)]
    BY <2>1, TaskIs, NextTaskIs DEF TaskByLabel, At, Output
  <2>3. Tasks' = [Tasks EXCEPT ![c] = [does |-> "stores", what |-> Output(c)]]
    BY <1>1, <2>2, OthersTasks
  <2>4. Holds' = Holds
    BY <1>1, <1>2, <2>1, HoldsStay DEF Puts
  <2>5. Store!Output(prog[c]) = Output(c) /\ (prog[c] # Absent => prog[c].kind # "hangs")
    BY <2>1 DEF Store!Output, Output, Hangs, At
  <2>6. Tasks[c].does = "runs" /\ Tasks[c].what = prog[c]
    BY <2>2
  <2>7. QED
    BY <1>2, <2>1, <2>3, <2>4, <2>5, <2>6
       DEF Store!Prints, Store!Does, Store!Turns, Store!Task, Tasks, Holds
<1>5. QED
  BY <1>3, <1>4

\* Data is put when the file is emptied: who opens it next finds it written.
LEMMA OpeningPuts ==
  ASSUME Kept, NEW c \in Conn,
         \/ CreateData(c)
         \/ OpenStore(c) /\ CanWrite(c, "data")
  PROVE  Store!Put(c)
<1>1. /\ Step(c) /\ Typed /\ pc \in [Conn -> Labels] /\ Using /\ Exclusive
      /\ told \in [Conn -> Content \cup {Empty, None}]
  BY DEF Step, Runs, Sets, Kept, Typed, TypeOK
<1>2. UNCHANGED <<folder, prog, exe>> /\ CanWrite(c, "data") /\ folder[c] \in Folder
  BY <1>1 DEF CreateData, OpenStore, At, Typed, Homed
<1>3. /\ pc[c] \in {"set_data", "store"} /\ pc'[c] \in Puts /\ c \notin Writers(folder[c])
      /\ pc'[c] = "write_data" <=> pc[c] = "set_data"
  BY <1>1 DEF CreateData, OpenStore, At, GoTo, Puts, Writers
<1>4. told' = [told EXCEPT ![c] = None]
  <2>1. At(c, "store") => told[c] = None
    BY DEF Kept, Unmet, Writing, At
  <2>2. QED
    BY <1>1, <2>1 DEF CreateData, OpenStore
<1>5. Store!Free(folder[c])
  <2>1. \A d \in Conn \ {c} : folder[d] = folder[c] => pc[d] \notin Puts
    BY <1>1, <1>2, SeesNoWriter
  <2>2. Writers(folder[c]) = {}
    BY <1>3, <2>1 DEF Writers, Puts
  <2>3. QED
    BY <1>2, <2>2, FreeIs
<1>6. PICK v : v = Written(c)'
  OBVIOUS
<1>7. Tasks' = [Tasks EXCEPT ![c] = [does |-> "puts", what |-> v]]
  BY <1>1, <1>3, <1>6, NextTaskIs, OthersTasks DEF TaskByLabel
<1>8. Holds' = [Holds EXCEPT ![folder[c]] = v]
  <2>1. Exclusive'
    <3>1. Next
      BY DEF Next, Thread
    <3>2. QED
      BY <1>1, <3>1, ExclusiveStep
  <2>2. HeldIn(folder[c])' = v
    BY <1>2, <1>3, <1>6, <2>1, NextHeldIsWritten DEF HeldByWriter
  <2>3. QED
    BY <1>1, <1>2, <2>2, HoldsNew
<1>9. CASE At(c, "set_data")
  <2>1. v = [kind |-> "data", by |-> c] /\ Tasks[c] = [does |-> "rests", what |-> None]
    BY <1>3, <1>6, <1>9, TaskIs DEF TaskByLabel, Written, At, Busy, Puts
  <2>2. v \in Store!Data(c)
    BY <2>1 DEF Store!Data, Store!Does, Tasks
  <2>3. QED
    BY <1>2, <1>4, <1>5, <1>7, <1>8, <2>2
       DEF Store!Put, Store!Turns, Store!Task, Tasks, Holds
<1>10. CASE At(c, "store")
  <2>1. v = Output(c) /\ Tasks[c] = [does |-> "stores", what |-> Output(c)]
    BY <1>2, <1>3, <1>6, <1>10, TaskIs DEF TaskByLabel, Written, Output, At
  <2>2. v \in Store!Data(c)
    BY <2>1 DEF Store!Data, Store!Does, Tasks
  <2>3. QED
    BY <1>2, <1>4, <1>5, <1>7, <1>8, <2>2
       DEF Store!Put, Store!Turns, Store!Task, Tasks, Holds
<1>11. QED
  BY <1>3, <1>9, <1>10 DEF At

\* The file is written with what was put.
LEMMA WritingIsDone ==
  ASSUME Kept, NEW c \in Conn, WriteOutput(c) \/ WriteData(c)
  PROVE  Store!Done(c)
<1>1. Step(c) /\ Typed /\ pc \in [Conn -> Labels] /\ Exclusive /\ DOMAIN data = Folder
  BY DEF Step, Runs, Sets, Kept, Typed, TypeOK
<1>2. /\ UNCHANGED <<folder, exe, told>> /\ pc[c] \in Puts /\ pc'[c] \notin Busy
      /\ data' = Put(data, c, Written(c)) /\ folder[c] \in Folder
  BY <1>1 DEF WriteOutput, WriteData, Performed, At, GoTo, Puts, Busy, Written, Typed, Homed, history
<1>3. Tasks[c].does = "puts" /\ Tasks' = [Tasks EXCEPT ![c] = [does |-> "rests", what |-> None]]
  <2>1. Does(c) = "puts"
    BY <1>2 DEF Does, At, Puts
  <2>2. QED
    BY <1>1, <1>2, <2>1, NextTaskIs, OthersTasks DEF TaskByLabel, Tasks
<1>4. Holds' = Holds
  <2>1. Writers(folder[c]) = {c} /\ HeldIn(folder[c]) = Written(c)
    BY <1>1, <1>2, HeldIsWritten DEF HeldByWriter
  <2>2. Writers(folder[c])' = {}
    <3>1. \A d \in Conn \ {c} : pc'[d] = pc[d]
      BY <1>1, Frame, TypedShapes DEF Same
    <3>2. QED
      BY <1>2, <2>1, <3>1 DEF Writers, Busy, Puts
  <2>3. HeldIn(folder[c])' = HeldIn(folder[c])
    BY <1>1, <1>2, <2>1, <2>2 DEF HeldIn, Put
  <2>4. QED
    BY <1>1, <1>2, <2>3, HoldsNew DEF Holds
<1>5. QED
  BY <1>2, <1>3, <1>4 DEF Store!Done, Store!Does, Store!Turns, Store!Rest, Store!Task, Tasks, Holds

\* If writing fails what was put is lost.
LEMMA FailingLoses ==
  ASSUME Kept, NEW c \in Conn, Ends(c) \/ Recovers(c), pc[c] \in Puts
  PROVE  Store!Lose(c)
<1>1. Step(c) /\ Typed /\ pc \in [Conn -> Labels] /\ Exclusive /\ DOMAIN data = Folder
  BY DEF Step, Kept, Typed, TypeOK
<1>2. UNCHANGED <<folder, data, exe, told>> /\ pc'[c] \notin Busy /\ folder[c] \in Folder
  BY <1>1 DEF Ends, Finish, Recovers, GoTo, Puts, Busy, Typed, Homed, disk
<1>3. Tasks[c].does = "puts" /\ Tasks' = [Tasks EXCEPT ![c] = [does |-> "rests", what |-> None]]
  <2>1. Does(c) = "puts"
    BY DEF Does, At, Puts
  <2>2. QED
    BY <1>1, <1>2, <2>1, NextTaskIs, OthersTasks DEF TaskByLabel, Tasks
<1>4. Holds' = [Holds EXCEPT ![folder[c]] = Empty]
  <2>1. Writers(folder[c]) = {c} /\ data[folder[c]] = Empty
    BY <1>1, HeldIsWritten DEF HeldByWriter, Exclusive
  <2>2. Writers(folder[c])' = {}
    <3>1. \A d \in Conn \ {c} : pc'[d] = pc[d]
      BY <1>1, Frame, TypedShapes DEF Same
    <3>2. QED
      BY <1>2, <2>1, <3>1 DEF Writers, Busy, Puts
  <2>3. HeldIn(folder[c])' = Empty
    BY <1>2, <2>1, <2>2 DEF HeldIn
  <2>4. QED
    BY <1>1, <1>2, <2>3, HoldsNew
<1>5. QED
  BY <1>2, <1>3, <1>4 DEF Store!Lose, Store!Does, Store!Turns, Store!Rest, Store!Task, Tasks, Holds

\* Opening the file to read it gives nothing yet, and an output that cannot be stored is
\* dropped.
LEMMA OpeningGivesNothing ==
  ASSUME Kept, NEW c \in Conn,
         \/ OpenData(c)
         \/ OpenStore(c) /\ ~CanWrite(c, "data")
  PROVE  Store!Drop(c) \/ UNCHANGED Promised
<1>1. Step(c) /\ Typed /\ pc \in [Conn -> Labels]
  BY DEF Step, Reads, Runs, Kept, Typed, TypeOK
<1>2. UNCHANGED <<folder, data, exe, told>>
  BY DEF OpenData, OpenStore, disk
<1>3. /\ pc[c] \in {"perform", "reload", "store"} /\ pc'[c] \notin Busy
      /\ pc[c] = "store" <=> OpenStore(c)
  BY <1>1 DEF OpenData, OpenStore, Performs, At, GoTo, Busy, Puts
<1>4. Holds' = Holds
  BY <1>1, <1>2, <1>3, HoldsStay DEF Busy, Puts
<1>5. Tasks' = [Tasks EXCEPT ![c] = [does |-> "rests", what |-> None]]
  BY <1>1, <1>3, NextTaskIs, OthersTasks DEF TaskByLabel
<1>6. CASE pc[c] = "store"
  <2>1. Tasks[c].does = "stores"
    BY <1>6 DEF Tasks, Does, At
  <2>2. QED
    BY <1>2, <1>4, <1>5, <2>1
       DEF Store!Drop, Store!Does, Store!Turns, Store!Rest, Store!Task, Tasks, Holds
<1>7. CASE pc[c] # "store"
  <2>1. Tasks[c] = [does |-> "rests", what |-> None]
    BY <1>3, <1>7, TaskIs DEF TaskByLabel, Busy, Puts
  <2>2. QED
    BY <1>2, <1>4, <1>5, <2>1 DEF Promised, Tasks
<1>8. QED
  BY <1>6, <1>7

\* A program is sent when it is received, whole; writing the source and removing it is the
\* folder's own affair.
LEMMA SendingSends ==
  ASSUME Kept, NEW c \in Conn, Receive(c) \/ CreateCode(c) \/ WriteCode(c) \/ Removes(c)
  PROVE  Store!Send(c) \/ UNCHANGED Promised
<1>1. Step(c) /\ Typed /\ pc \in [Conn -> Labels] /\ DOMAIN prog = Conn
  BY DEF Step, Compiles, Kept, Typed, TypeOK
<1>2. UNCHANGED <<folder, data, exe, told>>
  BY DEF Receive, CreateCode, WriteCode, Removes, disk, history
<1>3. /\ pc[c] \in {"perform", "set_code", "write_code", "delete"}
      /\ pc'[c] \in {"send", "set_data", "set_code", "write_code", "compile"}
  BY <1>1 DEF Receive, CreateCode, WriteCode, Removes, Performs, Performed, At, GoTo
<1>4. Holds' = Holds
  BY <1>1, <1>2, <1>3, HoldsStay DEF Puts
<1>5. CASE Performs(c, "SetCode") /\ pc'[c] = "set_code"
  <2>1. pc[c] = "perform" /\ \E k \in Kind : prog'[c] = [kind |-> k, by |-> c]
    BY <1>1, <1>5 DEF Receive, CreateCode, WriteCode, Removes, Performs, Performed, At, GoTo
  <2>2. PICK p \in Program : p.by = c /\ prog'[c] = p
    BY <2>1 DEF Program
  <2>3. /\ Tasks[c] = [does |-> "rests", what |-> None]
        /\ Tasks'[c] = [does |-> "sends", what |-> p]
    BY <1>5, <2>1, <2>2, TaskIs, NextTaskIs DEF TaskByLabel, Busy, Puts
  <2>4. Tasks' = [Tasks EXCEPT ![c] = [does |-> "sends", what |-> p]]
    BY <1>1, <2>3, OthersTasks
  <2>5. QED
    BY <1>2, <1>4, <2>2, <2>3, <2>4
       DEF Store!Send, Store!Does, Store!Turns, Store!Task, Tasks, Holds
<1>6. CASE ~(Performs(c, "SetCode") /\ pc'[c] = "set_code")
  <2>1. \/ /\ pc[c] \in {"perform", "delete"} /\ pc'[c] \notin Busy
        \/ /\ pc[c] \in {"set_code", "write_code"} /\ pc'[c] \in {"write_code", "compile"}
           /\ prog' = prog
    BY <1>1, <1>6 DEF Receive, CreateCode, WriteCode, Removes, Performs, Performed, At, GoTo,
                      Busy, Puts
  <2>2. Tasks'[c] = Tasks[c]
    BY <2>1, TaskIs, NextTaskIs DEF TaskByLabel, Busy, Puts
  <2>3. QED
    BY <1>1, <1>2, <1>4, <2>2, OthersTasks DEF Promised, Tasks
<1>7. QED
  BY <1>5, <1>6

\* What is compiled, if it is, is the program sent, or that of another connection of the
\* folder that sends at the same time.
LEMMA CompilingInstalls ==
  ASSUME Kept, NEW c \in Conn, Compile(c)
  PROVE  Store!Install(c) \/ Store!Drop(c)
<1>1. /\ Step(c) /\ Typed /\ pc \in [Conn -> Labels] /\ Apart /\ OwnSource
      /\ code \in [Folder -> Program \cup {Absent, Empty}]
  BY DEF Step, Compiles, Kept, Typed, TypeOK
<1>2. /\ UNCHANGED <<folder, data, told>> /\ pc[c] = "compile" /\ pc'[c] = "delete"
      /\ folder[c] \in Folder
  BY <1>1 DEF Compile, At, GoTo, history, Typed, Homed
<1>3. /\ Tasks[c] = [does |-> "sends", what |-> prog[c]]
      /\ Tasks' = [Tasks EXCEPT ![c] = [does |-> "rests", what |-> None]]
  BY <1>1, <1>2, TaskIs, NextTaskIs, OthersTasks DEF TaskByLabel, Busy, Puts
<1>4. Holds' = Holds
  BY <1>1, <1>2, HoldsStay DEF Puts
<1>5. CASE exe' = exe
  BY <1>2, <1>3, <1>4, <1>5
     DEF Store!Drop, Store!Does, Store!Turns, Store!Rest, Store!Task, Tasks, Holds
<1>6. CASE exe' # exe
  <2>1. PICK p \in Program : /\ p = code[folder[c]] /\ p.kind # "wrong"
                             /\ exe' = [exe EXCEPT ![folder[c]] = p]
    BY <1>1, <1>2, <1>6 DEF Compile, Put
  <2>2. folder[p.by] = folder[c] /\ (p.by = c => p = prog[c])
    BY <1>1, <1>2, <2>1 DEF Apart, Sources, OwnSource, At
  <2>3. p = Tasks[c].what \/ (p.by # c /\ folder[p.by] = folder[c])
    BY <1>3, <2>2
  <2>4. Tasks[c].does = "sends"
    BY <1>3
  <2>5. QED
    BY <1>2, <1>3, <1>4, <2>1, <2>3, <2>4
       DEF Store!Install, Store!Does, Store!Turns, Store!Rest, Store!Task, Tasks, Holds
<1>7. QED
  BY <1>5, <1>6

\* A death loses what is being written: the file is empty then.
LEMMA DyingLoses ==
  ASSUME Kept, Die
  PROVE  Store!Die
<1>1. UNCHANGED <<folder, data, exe, told>> /\ \A c \in Conn : pc'[c] \in {"idle", "closed"}
  BY DEF Die, disk, At
<1>2. Tasks' = [c \in Conn |-> [does |-> "rests", what |-> None]]
  BY <1>1, NextTaskIs DEF TaskByLabel, Busy, Puts, Tasks
<1>3. \A f \in Folder : HeldIn(f)' = data[f]
  <2>1. \A f \in Folder : Writers(f)' = {}
    BY <1>1 DEF Writers
  <2>2. QED
    BY <1>1, <2>1 DEF HeldIn
<1>4. ASSUME NEW f \in Folder PROVE data[f] = IF Store!Free(f) THEN Holds[f] ELSE Empty
  <2>1. CASE Writers(f) = {}
    BY <2>1, FreeIs DEF Holds, HeldIn
  <2>2. CASE Writers(f) # {}
    <3>1. data[f] = Empty
      BY <2>2 DEF Kept, Exclusive, Writers, Puts
    <3>2. QED
      BY <2>2, <3>1, FreeIs
  <2>3. QED
    BY <2>1, <2>2
<1>5. Holds' = [f \in Folder |-> IF Store!Free(f) THEN Holds[f] ELSE Empty]
  BY <1>3, <1>4 DEF Holds
<1>6. QED
  BY <1>1, <1>2, <1>5 DEF Store!Die, Store!Rest, Store!Task, Tasks, Holds

\* However connections of a client meet in its files, and whenever the process dies, they are
\* the steps of a store: data is put and given whole, a program is run as it was installed
\* at that moment, its output replaces the data, and a failure or a death loses only what is
\* being put.
THEOREM ImplementsClientStore == Spec => ClientSpec
<1>1. Init => Store!Init
  <2>1. SUFFICES ASSUME Init PROVE Store!Init
    OBVIOUS
  <2>2. \A c \in Conn : Does(c) = "rests" /\ About(c) = None
    <3>1. \A c \in Conn : Does(c) = "rests"
      BY <2>1 DEF Init, Does, At
    <3>2. QED
      BY <3>1 DEF About
  <2>3. \A f \in Folder : HeldIn(f) = Absent
    BY <2>1 DEF Init, HeldIn, Writers
  <2>4. QED
    BY <2>1, <2>2, <2>3 DEF Init, Store!Init, Store!Rest, Store!Task
<1>2. Kept /\ [Next]_vars => [Store!Next]_Promised
  <2>1. SUFFICES ASSUME Kept, [Next]_vars PROVE Store!Move \/ UNCHANGED Promised
    BY DEF Store!Next, Store!clientVars, Promised, Tasks, Holds
  <2>2. CASE UNCHANGED vars
    BY <2>2 DEF vars, Promised, Tasks, Holds, Does, About, Written, Output, HeldIn, Writers, At
  <2>3. CASE Die
    BY <2>1, <2>3, DyingLoses DEF Store!Move
  <2>4. ASSUME NEW c \in Conn, Step(c) PROVE Store!Move \/ UNCHANGED Promised
    <3>1. CASE Quiet(c)
      BY <2>1, <3>1, QuietSteps DEF Store!Move
    <3>8. CASE (Ends(c) \/ Recovers(c)) /\ pc[c] \in Puts
      BY <2>1, <3>8, FailingLoses DEF Store!Move
    <3>9. CASE Looks(c) \/ Orders(c) \/ Keys(c)
      <4>1. pc[c] \notin Puts
        BY <3>9 DEF Looks, AcceptTcpClient, ClientThread, FindFolder, Loop, Sent, Orders, Keys,
                    MakeFolder, CreateKey, WriteKey, OpenKey, ReadKey, At, Puts
      <4>2. QED
        BY <3>1, <3>9, <4>1 DEF Quiet
    <3>2. CASE Greets(c)
      BY <2>1, <3>2, GreetsJoins DEF Store!Move
    <3>3. CASE Reads(c)
      BY <2>1, <3>3, ReadingGives, OpeningGivesNothing DEF Reads, Store!Move
    <3>4. CASE Runs(c)
      BY <2>1, <3>4, RunningRuns, OpeningPuts, OpeningGivesNothing, WritingIsDone
         DEF Runs, Store!Move
    <3>5. CASE Sets(c)
      BY <2>1, <3>5, OpeningPuts, WritingIsDone DEF Sets, Store!Move
    <3>6. CASE Compiles(c)
      BY <2>1, <3>6, SendingSends, CompilingInstalls DEF Compiles, Store!Move
    <3>7. QED
      BY <2>4, <3>1, <3>2, <3>3, <3>4, <3>5, <3>6, <3>8, <3>9 DEF Step, Quiet
  <2>5. QED
    BY <2>1, <2>2, <2>3, <2>4, Steps
<1>3. Init => Kept
  BY TypedInit, ValuesAssumption
     DEF Init, Kept, Using, Exclusive, Puts, Apart, Sources, FoldersApart, OwnSource, Unmet,
         Writing, LastWriteIsRead, At
<1>4. Kept /\ [Next]_vars => Kept'
  BY TypedStep, UsingStep, ExclusiveStep, ApartStep, OwnSourceStep, UnmetStep DEF Kept
<1>5. QED
  BY <1>1, <1>2, <1>3, <1>4, PTL
     DEF Spec, ClientSpec, Store!Spec, Store!clientVars, Promised, Tasks, Holds
=============================================================================
