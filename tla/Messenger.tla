----------------------------- MODULE Messenger -----------------------------
(***************************************************************************)
(* dumb_messenger: one thread accepts one client at a time and carries out *)
(* its requests on a directory per account (user_config, in_box, out_box). *)
(* A handler is modelled one system call or file write per step, because   *)
(* the process may die after each of them (main.cpp ends with the handler  *)
(* running) and finds the directories again when it is started.            *)
(*                                                                         *)
(* Abstracted: the texts of requests and answers, md5 (injective here),    *)
(* the order in which readdir lists a box (any letter may be the n-th).    *)
(***************************************************************************)
EXTENDS Integers, FiniteSets

CONSTANTS User, Pass, Text,
          Absent, Torn,   \* user_config is missing; a file opened and not yet written
          NoUser,         \* autorized_user == NULL
          MaxTime,        \* bound: the clock's last second
          MaxSends,       \* bound: message send requests
          MaxStarts,      \* bound: times the dead process is started again
          DiskMayFail     \* whether opening and writing files may fail

ASSUME ValuesAssumption == /\ NoUser \notin User
                           /\ {Absent, Torn} \cap (Pass \cup Text) = {}
                           /\ Absent # Torn
ASSUME BoundsAssumption == /\ {MaxTime, MaxSends, MaxStarts} \subseteq Nat
                           /\ DiskMayFail \in BOOLEAN

Time   == 0..MaxTime
Box    == {"in", "out"}
Dir    == {"top", "in", "out"}
Letter == [peer : User, at : Time, text : Text \cup {Torn}]

\* The requests a client may send.  "bare" is a lone first word: the request is
\* then shorter than the offset process_request takes the rest from.
Request == [op : {"add", "login", "remove"}, user : User, pass : Pass]
      \cup [op : {"send"}, user : User, text : Text]
      \cup [op : {"get", "expunge"}, box : Box \cup {"other"}, num : 0..2]
      \cup [op : {"expunge_all"}, box : Box \cup {"other"}]
      \cup [op : {"users", "malformed", "bare_user", "bare_message"}]
NoRequest == [op |-> "none"]

VARIABLES config,   \* user_config: a password, Absent or Torn
          dir,      \* the directories made for an account
          box,      \* the letters in in_box and out_box
          now,      \* seconds of the clock
          pc,       \* what connection_thread does next
          req,      \* the request in progress
          answer,   \* what the handler is about to answer
          auth,     \* autorized_user
          dangling, \* its message list points to a deleted object
          at,       \* message::time_stamp of the message being saved
          sends, starts

disk    == <<config, dir, box>>
session == <<auth, dangling>>
bounds  == <<sends, starts>>
vars    == <<config, dir, box, now, pc, req, answer, auth, dangling, at, sends, starts>>

NoLetters == [b \in Box |-> {}]

Filed(letters, m) == {n \in letters : <<n.peer, n.at>> # <<m.peer, m.at>>} \cup {m}

Init == /\ config = [u \in User |-> Absent]
        /\ dir = [u \in User |-> {}]
        /\ box = [u \in User |-> NoLetters]
        /\ now = 0 /\ at = 0
        /\ pc = "accept" /\ req = NoRequest /\ answer = "none"
        /\ auth = NoUser /\ dangling = FALSE
        /\ sends = 0 /\ starts = 0

-----------------------------------------------------------------------------
(* The process *)

\* What the process keeps in memory is gone; files stay as they are.
Die == /\ pc' = "down" /\ req' = NoRequest /\ answer' = "none"
       /\ auth' = NoUser /\ dangling' = FALSE /\ at' = 0

\* main returns from getchar, or the process is killed, wherever the handler is.
Stop == /\ pc # "down"
        /\ Die
        /\ UNCHANGED <<disk, now, bounds>>

Start == /\ pc = "down" /\ starts < MaxStarts
         /\ pc' = "accept"
         /\ starts' = starts + 1
         /\ UNCHANGED <<disk, now, req, answer, session, at, sends>>

Tick == /\ now < MaxTime
        /\ now' = now + 1
        /\ UNCHANGED <<disk, pc, req, answer, session, at, bounds>>

\* The running process aborts in the middle of a request.
Abort == Die /\ UNCHANGED <<now, bounds>>

\* Only this client is served until it leaves: there is no receive timeout.
Accept == /\ pc = "accept"
          /\ pc' = "read"
          /\ UNCHANGED <<disk, now, req, answer, session, at, bounds>>

Read == /\ pc = "read"
        /\ \E r \in Request : /\ req' = r
                              /\ r.op = "send" => sends < MaxSends
                              /\ sends' = sends + IF r.op = "send" THEN 1 ELSE 0
        /\ pc' = "process"
        /\ UNCHANGED <<disk, now, answer, session, at, starts>>

\* "quit", an empty read or an error; ~client deletes the authorised user.
Quit == /\ pc = "read"
        /\ \/ /\ pc' = "accept"
              /\ auth' = NoUser /\ dangling' = FALSE
              /\ UNCHANGED <<now, req, answer, at, bounds>>
           \/ dangling /\ Abort
        /\ UNCHANGED disk

Write == /\ pc = "answer"
         /\ pc' = "read" /\ req' = NoRequest /\ answer' = "none" /\ at' = 0
         /\ UNCHANGED <<disk, now, session, bounds>>

-----------------------------------------------------------------------------
(* Requests.  A handler starts at pc = "process" and ends in an answer.     *)

Handle(ops) == pc = "process" /\ req.op \in ops

Answer(a) == pc' = "answer" /\ answer' = a /\ UNCHANGED <<req, now, bounds>>

GoTo(label) == pc' = label /\ UNCHANGED <<req, now, answer, bounds>>

Authorised(ops) == Handle(ops) /\ auth # NoUser

\* Mutant: a message request before login gets no answer.
RefuseSilently == /\ Handle({"users", "malformed"}) /\ Answer("Other")
                  /\ UNCHANGED <<disk, session, at>>

\* Nothing is touched: a malformed request, or a message request before login.
Refuse == /\ \/ Handle({"users", "malformed"}) /\ Answer("Other")
             \/ /\ Handle({"send", "get", "expunge", "expunge_all", "bare_message"})
                /\ auth = NoUser
                /\ Answer("Autorize_first")
          /\ UNCHANGED <<disk, session, at>>

\* string::substr throws out_of_range and nothing catches it.
Bare == /\ Handle({"bare_user"}) \/ Authorised({"bare_message"})
        /\ Abort
        /\ UNCHANGED disk

\* user::save runs mkdir -p three times and looks at no result ...
MakeDir(label, made, next) ==
        /\ pc = label
        /\ \/ dir' = [dir EXCEPT ![req.user] = @ \cup made]
           \/ DiskMayFail /\ UNCHANGED dir
        /\ GoTo(next)
        /\ UNCHANGED <<config, box, session, at>>

\* Mutant: user_config before the boxes.
AddTopThenConfig == req.op = "add" /\ MakeDir("process", {"top"}, "open_config")

AddTop == req.op = "add" /\ MakeDir("process", {"top"}, "mkdir_in")
AddIn  == MakeDir("mkdir_in", {"top", "in"}, "mkdir_out")
AddOut == MakeDir("mkdir_out", {"top", "out"}, "open_config")

\* ... then opens user_config, whoever's it was; cleanup() if that fails.
Remove(u) == /\ config' = [config EXCEPT ![u] = Absent]
             /\ dir' = [dir EXCEPT ![u] = {}]
             /\ box' = [box EXCEPT ![u] = NoLetters]

\* Mutants: a re-registration empties the boxes; the contents are never written.
OpenConfigAfresh ==
        /\ pc = "open_config" /\ "top" \in dir[req.user]
        /\ config' = [config EXCEPT ![req.user] = Torn]
        /\ box' = [box EXCEPT ![req.user] = NoLetters]
        /\ GoTo("write_config")
        /\ UNCHANGED <<dir, session, at>>
OpenConfigOnly ==
        /\ pc = "open_config" /\ "top" \in dir[req.user]
        /\ config' = [config EXCEPT ![req.user] = Torn]
        /\ Answer("Success")
        /\ UNCHANGED <<dir, box, session, at>>

OpenConfig ==
        /\ pc = "open_config"
        /\ \/ /\ "top" \in dir[req.user]
              /\ config' = [config EXCEPT ![req.user] = Torn]
              /\ GoTo("write_config")
              /\ UNCHANGED <<dir, box>>
           \/ /\ "top" \notin dir[req.user] \/ DiskMayFail
              /\ Remove(req.user)
              /\ Answer("Add_user_error")
        /\ UNCHANGED <<session, at>>

\* The writes' results are not looked at either.
WriteConfig ==
        /\ pc = "write_config"
        /\ \/ config' = [config EXCEPT ![req.user] = req.pass]
           \/ DiskMayFail /\ UNCHANGED config
        /\ Answer("Success")
        /\ UNCHANGED <<dir, box, session, at>>

-----------------------------------------------------------------------------
(* Accounts *)

\* Mutant: a configuration without a hash lets any password in.
LogsInTorn == config[req.user] \in {req.pass, Torn}

LogsIn == config[req.user] = req.pass

\* refresh_message_list reads the boxes; an authorised user's list is replaced.
Login == /\ Handle({"login"}) /\ LogsIn
         /\ auth' = req.user /\ dangling' = FALSE
         /\ Answer("Success")
         /\ UNCHANGED <<disk, at>>

WrongPassword == /\ Handle({"login", "remove"}) /\ ~LogsIn
                 /\ Answer("Invalid_user_name_or_password")
                 /\ UNCHANGED <<disk, session, at>>

\* rm -r, then the session ends if it is the removed user's.
RemoveUser == /\ Handle({"remove"}) /\ LogsIn
              /\ Remove(req.user)
              /\ IF auth = req.user
                 THEN \/ auth' = NoUser /\ dangling' = FALSE /\ Answer("Success") /\ UNCHANGED at
                      \/ dangling /\ Abort
                 ELSE Answer("Success") /\ UNCHANGED <<session, at>>

RemoveUserError == /\ DiskMayFail
                   /\ Handle({"remove"}) /\ LogsIn
                   /\ Answer("Remove_user_error")
                   /\ UNCHANGED <<disk, session, at>>

-----------------------------------------------------------------------------
(* Letters *)

NoReceiver == /\ Authorised({"send"}) /\ config[req.user] = Absent
              /\ Answer("User_does_not_exist")
              /\ UNCHANGED <<disk, session, at>>

Unsent == /\ Answer("Send_message_error")
          /\ UNCHANGED <<disk, session, at>>

\* Mutant: no check for an authorised user.
SendBeginAnyone == /\ Handle({"send"}) /\ config[req.user] # Absent
                   /\ at' = now
                   /\ GoTo("open_in_box")
                   /\ UNCHANGED <<disk, session>>

\* message::save reads the clock once; both copies carry that second.
SendBegin == /\ Authorised({"send"}) /\ config[req.user] # Absent
             /\ at' = now
             /\ GoTo("open_in_box")
             /\ UNCHANGED <<disk, session>>

File(u, b, peer, text) ==
        box' = [box EXCEPT ![u][b] = Filed(@, [peer |-> peer, at |-> at, text |-> text])]

\* Opening creates the file, or empties the one of the same second and peer;
\* it needs the directory.
Open(u, b, peer, next) ==
        \/ /\ {"top", b} \subseteq dir[u]
           /\ File(u, b, peer, Torn)
           /\ GoTo(next)
           /\ UNCHANGED <<config, dir, session, at>>
        \/ /\ ~ {"top", b} \subseteq dir[u] \/ DiskMayFail
           /\ Unsent

Fill(u, b, peer) ==
        /\ \/ File(u, b, peer, req.text)
           \/ DiskMayFail /\ UNCHANGED box
        /\ UNCHANGED <<config, dir, session, at>>

OpenIn   == pc = "open_in_box" /\ Open(req.user, "in", auth, "write_in_box")

\* Mutant: Success as soon as the receiver has the letter.
WriteInOnly == pc = "write_in_box" /\ Fill(req.user, "in", auth) /\ Answer("Success")

WriteIn  == pc = "write_in_box" /\ Fill(req.user, "in", auth) /\ GoTo("open_out_box")
OpenOut  == pc = "open_out_box" /\ Open(auth, "out", req.user, "write_out_box")
WriteOut == pc = "write_out_box" /\ Fill(auth, "out", req.user) /\ Answer("Success")

\* Every get and remove reads the boxes again: the old list is deleted first.
Count(b) == IF b \in Box THEN Cardinality(box[auth][b]) ELSE 0

Get == /\ Authorised({"get"})
       /\ dangling' = FALSE
       /\ \/ req.num \in 1..Count(req.box) /\ Answer("Letter")
          \/ req.box \in Box /\ req.num \notin 1..Count(req.box) /\ Answer("Invalid_message_num")
          \/ req.box = "other" /\ Answer("No_messages")
       /\ UNCHANGED <<disk, auth, at>>

\* The n-th letter's file is removed and its object deleted, not its pointer.
\* An unknown direction is answered by a string literal taken as true.
Expunge == /\ Authorised({"expunge"})
           /\ \/ /\ req.num \in 1..Count(req.box)
                 /\ \E m \in box[auth][req.box] : box' = [box EXCEPT ![auth][req.box] = @ \ {m}]
                 /\ dangling' = TRUE
                 /\ Answer("Success")
              \/ /\ req.box \in Box /\ req.num \notin 1..Count(req.box)
                 /\ dangling' = FALSE
                 /\ Answer("Error_removing_message")
                 /\ UNCHANGED box
              \/ /\ req.box = "other"
                 /\ dangling' = FALSE
                 /\ Answer("Success")
                 /\ UNCHANGED box
           /\ UNCHANGED <<config, dir, auth, at>>

\* erase inside the iteration skips every other letter; with an odd number the
\* iterator passes end() and the loop runs until the process faults.
Halved(n) == (n + 1) \div 2

ExpungeAll == /\ Authorised({"expunge_all"})
              /\ IF req.box \in Box
                 THEN \E gone \in SUBSET box[auth][req.box] :
                        /\ Cardinality(gone) = Halved(Count(req.box))
                        /\ box' = [box EXCEPT ![auth][req.box] = @ \ gone]
                 ELSE UNCHANGED box
              /\ IF Count(req.box) % 2 = 0
                 THEN Answer("Success") /\ dangling' = FALSE /\ UNCHANGED <<auth, at>>
                 ELSE Abort
              /\ UNCHANGED <<config, dir>>

\* Deleting a list that holds a deleted object is undefined: it may go unnoticed
\* (the actions above) or abort the process.
DoubleDelete == /\ dangling
                /\ \/ Authorised({"get", "expunge", "expunge_all"})
                   \/ Handle({"login"}) /\ LogsIn
                /\ Abort
                /\ UNCHANGED disk

-----------------------------------------------------------------------------
Handler == \/ Refuse \/ Bare
           \/ AddTop \/ AddIn \/ AddOut \/ OpenConfig \/ WriteConfig
           \/ Login \/ WrongPassword \/ RemoveUser \/ RemoveUserError
           \/ NoReceiver \/ SendBegin \/ OpenIn \/ WriteIn \/ OpenOut \/ WriteOut
           \/ Get \/ Expunge \/ ExpungeAll \/ DoubleDelete
           \/ Write

Next == Handler \/ Accept \/ Read \/ Quit \/ Stop \/ Start \/ Tick

Spec == Init /\ [][Next]_vars

\* The one thread runs on whenever it does not wait for a client.
FairSpec == Spec /\ WF_vars(Handler)
-----------------------------------------------------------------------------
AddLabels  == {"mkdir_in", "mkdir_out", "open_config", "write_config"}
SendLabels == {"open_in_box", "write_in_box", "open_out_box", "write_out_box"}
Labels == {"down", "accept", "read", "process", "answer"} \cup AddLabels \cup SendLabels

Answers == {"none", "Success", "Autorize_first", "Invalid_user_name_or_password",
            "Add_user_error", "Remove_user_error", "User_does_not_exist",
            "Send_message_error", "Letter", "No_messages", "Invalid_message_num",
            "Error_removing_message", "Other"}

DiskOK == /\ config \in [User -> Pass \cup {Absent, Torn}]
          /\ dir \in [User -> SUBSET Dir]
          /\ box \in [User -> [Box -> SUBSET Letter]]

\* Each label of a handler belongs to one kind of request.
ControlOK == /\ pc \in Labels
             /\ req \in Request \cup {NoRequest}
             /\ auth \in User \cup {NoUser}
             /\ pc \in {"process", "answer"} => req # NoRequest
             /\ pc \in AddLabels => req.op = "add"
             /\ pc \in SendLabels => req.op = "send" /\ auth # NoUser

CountOK == now \in Time /\ at \in Time /\ sends \in Nat /\ starts \in Nat

\* The type invariant.
TypeOK == DiskOK /\ ControlOK /\ CountOK /\ dangling \in BOOLEAN /\ answer \in Answers

\* The authorised user of the session in progress has an account: no request of
\* the session, and no death and restart in between, leaves autorized_user
\* behind with its directory gone.  Holds while the disk does not fail: the
\* cleanup() of a failed re-registration removes the directory of a user who may
\* be logged in.
AuthorisedExists == auth # NoUser => config[auth] # Absent

\* An account has all its directories: user_config is made last, so a process
\* that died in user::save left no account that cannot receive letters.
MailboxReady == \A u \in User : config[u] # Absent => dir[u] = Dir

\* A letter to an existing account is never answered with Send_message_error
\* (the answer that may leave a copy in in_box and none in out_box).
SendSucceeds == answer # "Send_message_error"

\* An account can be used as long as it is there: by its session, by those who write to
\* it, and without a letter that only one of the two has.
AccountsUsable == AuthorisedExists /\ MailboxReady /\ SendSucceeds

\* What was answered with Success is on the disk when the answer is written:
\* the password, the two copies of the letter, the removal of the account.
LetterTo(peer) == [peer |-> peer, at |-> at, text |-> req.text]
SuccessIsStored ==
   pc = "answer" /\ answer = "Success" =>
      /\ req.op = "add" => config[req.user] = req.pass /\ dir[req.user] = Dir
      /\ req.op = "send" => /\ LetterTo(auth) \in box[req.user]["in"]
                            /\ LetterTo(req.user) \in box[auth]["out"]
      /\ req.op = "remove" => config[req.user] = Absent /\ auth # req.user

\* A user_config without a password, which no login opens any more, or a letter
\* without a text is left behind only by a process that died while writing it.
TornOnlyByDeath ==
   starts = 0 /\ pc # "down" =>
      \A u \in User :
         /\ config[u] = Torn => pc = "write_config" /\ req.user = u
         /\ \A b \in Box : \A m \in box[u][b] :
               m.text = Torn =>
                  \/ pc = "write_in_box" /\ b = "in" /\ req.user = u
                  \/ pc = "write_out_box" /\ b = "out" /\ auth = u

\* A letter leaves a box only because its owner removes letters of that box,
\* because the account is removed with its password, because the sender sends
\* the same user another letter in the same second, or (on a failing disk) because
\* a registration under the name could not open user_config.
LossIsAccounted ==
   [][\A u \in User, b \in Box : \A m \in box[u][b] \ box'[u][b] :
        \/ auth = u /\ req.op \in {"expunge", "expunge_all"} /\ req.box = b
        \/ req.op = "remove" /\ req.user = u /\ req.pass = config[u]
        \/ req.op = "send" /\ \E n \in box'[u][b] : n.peer = m.peer /\ n.at = m.at /\ at = n.at
        \/ DiskMayFail /\ req.op = "add" /\ req.user = u]_vars

\* Every request that was read is answered unless the process dies: no early
\* return of a handler leaves the connection without an answer.
RequestAnswered == pc = "process" ~> pc \in {"answer", "down"}

\* The files are kept as MailStore says, whatever the requests and the deaths.
Store == INSTANCE MailStore
StoreSpec == Store!Spec
=============================================================================
