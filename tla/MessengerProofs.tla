-------------------------- MODULE MessengerProofs --------------------------
(***************************************************************************)
(* The messenger's invariants for every set of users, passwords and texts  *)
(* and every bound, and that it implements MailStore on a healthy disk.    *)
(***************************************************************************)
EXTENDS Messenger, TLAPS

\* The fields a request has.
LEMMA RequestFields ==
  ASSUME NEW r \in Request \cup {NoRequest}
  PROVE  /\ r.op \in {"add", "login", "remove"} => r.user \in User /\ r.pass \in Pass
         /\ r.op = "send" => r.user \in User /\ r.text \in Text
         /\ r.op \in {"get", "expunge"} => r.box \in Box \cup {"other"} /\ r.num \in 0..2
         /\ r.op = "expunge_all" => r.box \in Box \cup {"other"}
<1>1. CASE r \in [op : {"add", "login", "remove"}, user : User, pass : Pass]
  BY <1>1
<1>2. CASE r \in [op : {"send"}, user : User, text : Text]
  BY <1>2
<1>3. CASE r \in [op : {"get", "expunge"}, box : Box \cup {"other"}, num : 0..2]
  BY <1>3
<1>4. CASE r \in [op : {"expunge_all"}, box : Box \cup {"other"}]
  BY <1>4
<1>5. CASE r \in [op : {"users", "malformed", "bare_user", "bare_message"}]
  BY <1>5
<1>6. CASE r = NoRequest
  BY <1>6 DEF NoRequest
<1>7. QED
  BY <1>1, <1>2, <1>3, <1>4, <1>5, <1>6 DEF Request

\* The first states are typed.
LEMMA TypeInit == Init => TypeOK
<1> SUFFICES ASSUME Init PROVE TypeOK
  OBVIOUS
<1>1. DiskOK
  BY DEF Init, DiskOK, NoLetters
<1>2. ControlOK
  BY DEF Init, ControlOK, Labels, AddLabels, SendLabels
<1>3. CountOK
  BY BoundsAssumption DEF Init, CountOK, Time
<1>4. QED
  BY <1>1, <1>2, <1>3 DEF Init, TypeOK, Answers

\* The clock, the counters and the request in progress keep their types.
LEMMA CountStep == CountOK /\ [Next]_vars => CountOK'
<1> SUFFICES ASSUME CountOK, [Next]_vars PROVE CountOK'
  OBVIOUS
<1> USE BoundsAssumption DEF CountOK, Time, Answer, GoTo, Die, Abort, bounds
<1>1. CASE Handler
  <2>1. CASE Refuse \/ Bare \/ Login \/ WrongPassword \/ RemoveUserError \/ NoReceiver \/ Write
    BY <2>1 DEF Refuse, Bare, Login, WrongPassword, RemoveUserError, NoReceiver, Write
  <2>2. CASE RemoveUser \/ SendBegin
    BY <2>2 DEF RemoveUser, SendBegin
  <2>3. CASE AddTop \/ AddIn \/ AddOut \/ OpenConfig \/ WriteConfig
    BY <2>3 DEF AddTop, AddIn, AddOut, MakeDir, OpenConfig, WriteConfig
  <2>4. CASE OpenIn \/ OpenOut \/ WriteIn \/ WriteOut
    BY <2>4 DEF OpenIn, OpenOut, WriteIn, WriteOut, Open, Unsent, Fill
  <2>5. CASE Get \/ Expunge \/ ExpungeAll \/ DoubleDelete
    BY <2>5 DEF Get, Expunge, ExpungeAll, DoubleDelete
  <2>6. QED
    BY <1>1, <2>1, <2>2, <2>3, <2>4, <2>5 DEF Handler
<1>2. CASE Accept \/ Read \/ Quit \/ Stop \/ Start \/ Tick
  BY <1>2 DEF Accept, Read, Quit, Stop, Start, Tick
<1>3. CASE UNCHANGED vars
  BY <1>3 DEF vars
<1>4. QED
  BY <1>1, <1>2, <1>3 DEF Next

\* A label of a handler stays with its kind of request.
LEMMA ControlStep == ControlOK /\ [Next]_vars => ControlOK'
<1> SUFFICES ASSUME ControlOK, [Next]_vars PROVE ControlOK'
  OBVIOUS
<1> USE DEF ControlOK, Labels, AddLabels, SendLabels, Answer, GoTo, Die, Abort,
                          Handle, Authorised, session
<1>1. CASE Refuse \/ Bare
  BY <1>1 DEF Refuse, Bare
<1>2. CASE AddTop \/ AddIn \/ AddOut
  BY <1>2 DEF AddTop, AddIn, AddOut, MakeDir
<1>3. CASE OpenConfig \/ WriteConfig
  BY <1>3 DEF OpenConfig, WriteConfig, NoRequest
<1>4. CASE Login \/ WrongPassword
  BY <1>4, RequestFields DEF Login, WrongPassword
<1>5. CASE RemoveUser \/ RemoveUserError
  BY <1>5 DEF RemoveUser, RemoveUserError
<1>6. CASE NoReceiver \/ SendBegin
  BY <1>6 DEF NoReceiver, SendBegin
<1>7. CASE OpenIn \/ OpenOut
  BY <1>7 DEF OpenIn, OpenOut, Open, Unsent, NoRequest
<1>8. CASE WriteIn \/ WriteOut
  BY <1>8 DEF WriteIn, WriteOut, Fill, NoRequest
<1>9. CASE Get \/ Expunge
  BY <1>9 DEF Get, Expunge
<1>10. CASE ExpungeAll \/ DoubleDelete
  BY <1>10 DEF ExpungeAll, DoubleDelete
<1>11. CASE Write \/ Accept \/ Read \/ Quit
  BY <1>11 DEF Write, Accept, Read, Quit, NoRequest, Request
<1>12. CASE Stop \/ Start \/ Tick
  BY <1>12 DEF Stop, Start, Tick
<1>13. CASE UNCHANGED vars
  BY <1>13 DEF vars
<1>14. QED
  BY <1>1, <1>2, <1>3, <1>4, <1>5, <1>6, <1>7, <1>8, <1>9, <1>10, <1>11, <1>12, <1>13
     DEF Next, Handler

\* Filing a letter in a box of letters gives a box of letters.
LEMMA FiledLetters ==
  ASSUME NEW letters \in SUBSET Letter, NEW m \in Letter
  PROVE  Filed(letters, m) \in SUBSET Letter /\ m \in Filed(letters, m)
  BY DEF Filed

\* Filing into one box types, and leaves the other boxes alone.
LEMMA FileStep ==
  ASSUME DiskOK, CountOK, NEW u \in User, NEW b \in Box, NEW peer \in User,
         NEW text \in Text \cup {Torn}, File(u, b, peer, text)
  PROVE  /\ box' \in [User -> [Box -> SUBSET Letter]]
         /\ box'[u][b] = Filed(box[u][b], [peer |-> peer, at |-> at, text |-> text])
         /\ \A v \in User, c \in Box : v # u \/ c # b => box'[v][c] = box[v][c]
<1> DEFINE m == [peer |-> peer, at |-> at, text |-> text]
<1>1. m \in Letter
  BY DEF CountOK, Letter
<1>2. box[u] \in [Box -> SUBSET Letter] /\ box[u][b] \in SUBSET Letter
  BY DEF DiskOK
<1>3. Filed(box[u][b], m) \in SUBSET Letter
  BY <1>1, <1>2, FiledLetters
<1>4. box' = [box EXCEPT ![u] = [box[u] EXCEPT ![b] = Filed(box[u][b], m)]]
  BY DEF File
<1> HIDE DEF m
<1>5. QED
  <2>1. box \in [User -> [Box -> SUBSET Letter]]
    BY DEF DiskOK
  <2>2. QED
    BY <1>2, <1>3, <1>4, <2>1 DEF m

\* Files, directories and boxes keep their types.
LEMMA DiskStep == DiskOK /\ ControlOK /\ CountOK /\ [Next]_vars => DiskOK'
<1> SUFFICES ASSUME DiskOK, ControlOK, CountOK, [Next]_vars PROVE DiskOK'
  OBVIOUS
<1> USE DEF disk
<1>1. req \in Request \cup {NoRequest}
  BY DEF ControlOK
<1>2. CASE AddTop \/ AddIn \/ AddOut
  BY <1>2 DEF DiskOK, AddTop, AddIn, AddOut, MakeDir, Dir
<1>3. CASE OpenConfig
  <2>1. ASSUME Remove(req.user) PROVE DiskOK'
    BY <2>1 DEF DiskOK, Remove, NoLetters
  <2>2. QED
    BY <1>3, <2>1 DEF OpenConfig, DiskOK
<1>4. CASE WriteConfig
  <2>1. req.pass \in Pass
    BY <1>1, <1>4, RequestFields DEF WriteConfig, ControlOK, AddLabels
  <2>2. QED
    BY <1>4, <2>1 DEF WriteConfig, DiskOK
<1>5. CASE RemoveUser
  BY <1>5 DEF RemoveUser, Remove, NoLetters, DiskOK
<1>6. CASE OpenIn \/ OpenOut \/ WriteIn \/ WriteOut
  <2>1. req.user \in User /\ req.text \in Text /\ auth \in User
    BY <1>1, <1>6, RequestFields
       DEF OpenIn, OpenOut, WriteIn, WriteOut, ControlOK, SendLabels
  <2>2. ASSUME NEW u \in User, NEW b \in Box, NEW peer \in User,
               NEW text \in Text \cup {Torn}, File(u, b, peer, text)
        PROVE  box' \in [User -> [Box -> SUBSET Letter]]
    BY <2>2, FileStep
  <2>3. box' \in [User -> [Box -> SUBSET Letter]]
    <3>1. CASE UNCHANGED box
      BY <3>1 DEF DiskOK
    <3>2. CASE ~ UNCHANGED box
      <4>1. \/ File(req.user, "in", auth, Torn) \/ File(auth, "out", req.user, Torn)
            \/ File(req.user, "in", auth, req.text) \/ File(auth, "out", req.user, req.text)
        BY <1>6, <3>2 DEF OpenIn, OpenOut, WriteIn, WriteOut, Open, Unsent, Fill
      <4>2. QED
        BY <2>1, <2>2, <4>1 DEF Box
    <3>3. QED
      BY <3>1, <3>2
  <2>4. UNCHANGED <<config, dir>>
    BY <1>6 DEF OpenIn, OpenOut, WriteIn, WriteOut, Open, Unsent, Fill
  <2>5. QED
    BY <2>3, <2>4 DEF DiskOK
<1>7. CASE Expunge
  BY <1>7 DEF Expunge, DiskOK
<1>8. CASE ExpungeAll
  BY <1>8 DEF ExpungeAll, DiskOK
<1>9. CASE \/ Refuse \/ Bare \/ Login \/ WrongPassword \/ RemoveUserError \/ NoReceiver
           \/ SendBegin \/ Get \/ DoubleDelete \/ Write
  BY <1>9 DEF Refuse, Bare, Login, WrongPassword, RemoveUserError, NoReceiver, SendBegin, Get,
              DoubleDelete, Write, DiskOK
<1>10. CASE Accept \/ Read \/ Quit \/ Stop \/ Start \/ Tick
  BY <1>10 DEF Accept, Read, Quit, Stop, Start, Tick, DiskOK
<1>11. CASE UNCHANGED vars
  BY <1>11 DEF vars, DiskOK
<1>12. QED
  BY <1>2, <1>3, <1>4, <1>5, <1>6, <1>7, <1>8, <1>9, <1>10, <1>11 DEF Next, Handler

\* Answers stay among those the handlers give.
LEMMA AnswerStep ==
  ASSUME dangling \in BOOLEAN, answer \in Answers, [Next]_vars
  PROVE  dangling' \in BOOLEAN /\ answer' \in Answers
<1> USE DEF Answers, Answer, GoTo, Die, Abort, session
<1>1. CASE Refuse \/ Bare \/ AddTop \/ AddIn \/ AddOut \/ OpenConfig \/ WriteConfig
  BY <1>1 DEF Refuse, Bare, AddTop, AddIn, AddOut, MakeDir, OpenConfig, WriteConfig
<1>2. CASE Login \/ WrongPassword \/ RemoveUser \/ RemoveUserError \/ NoReceiver \/ SendBegin
  BY <1>2 DEF Login, WrongPassword, RemoveUser, RemoveUserError, NoReceiver, SendBegin
<1>3. CASE OpenIn \/ OpenOut \/ WriteIn \/ WriteOut
  BY <1>3 DEF OpenIn, OpenOut, WriteIn, WriteOut, Open, Unsent, Fill
<1>4. CASE Get \/ Expunge \/ ExpungeAll \/ DoubleDelete
  BY <1>4 DEF Get, Expunge, ExpungeAll, DoubleDelete
<1>5. CASE Write \/ Accept \/ Read \/ Quit \/ Stop \/ Start \/ Tick
  BY <1>5 DEF Write, Accept, Read, Quit, Stop, Start, Tick
<1>6. CASE UNCHANGED vars
  BY <1>6 DEF vars
<1>7. QED
  BY <1>1, <1>2, <1>3, <1>4, <1>5, <1>6 DEF Next, Handler

\* Type correctness on any disk, healthy or not.
THEOREM TypeCorrect == Spec => []TypeOK
<1>1. TypeOK /\ [Next]_vars => TypeOK'
  BY DiskStep, ControlStep, CountStep, AnswerStep DEF TypeOK
<1>2. QED
  BY TypeInit, <1>1, PTL DEF Spec

-----------------------------------------------------------------------------
(***************************************************************************)
(* A healthy disk.  The three invariants are not inductive by themselves:  *)
(* what a handler has established by each of its steps is added.           *)
(***************************************************************************)

\* user::save makes the directories one after the other, then the file.
Saving == /\ pc = "mkdir_in" => "top" \in dir[req.user]
          /\ pc = "mkdir_out" => {"top", "in"} \subseteq dir[req.user]
          /\ pc \in {"open_config", "write_config"} => dir[req.user] = Dir
          /\ pc = "write_config" => config[req.user] = Torn

\* message::save runs between two accounts that exist.
Sending == pc \in SendLabels => config[auth] # Absent /\ config[req.user] # Absent

Healthy == /\ TypeOK
           /\ AuthorisedExists /\ MailboxReady /\ SendSucceeds
           /\ Saving /\ Sending

\* With no account yet there is nothing to be unhealthy.
LEMMA HealthyInit == Init => Healthy
<1> SUFFICES ASSUME Init PROVE Healthy
  OBVIOUS
<1>1. QED
  BY TypeInit DEF Init, Healthy, AuthorisedExists, MailboxReady, SendSucceeds, Saving, Sending,
                  SendLabels

\* No step of a handler, and no death or restart, breaks the accounts on a disk that works.
LEMMA HealthyStep ==
  ASSUME ~DiskMayFail, Healthy, [Next]_vars
  PROVE  Healthy'
<1>1. TypeOK'
  BY DiskStep, ControlStep, CountStep, AnswerStep DEF Healthy, TypeOK
<1> DEFINE Rest == AuthorisedExists /\ MailboxReady /\ SendSucceeds /\ Saving /\ Sending
<1>2. req \in Request \cup {NoRequest} /\ auth \in User \cup {NoUser}
  BY DEF Healthy, TypeOK, ControlOK
<1>3. /\ config \in [User -> Pass \cup {Absent, Torn}]
      /\ dir \in [User -> SUBSET Dir]
      /\ pc \in AddLabels => req.op = "add"
      /\ pc \in SendLabels => req.op = "send" /\ auth # NoUser
  BY DEF Healthy, TypeOK, ControlOK, DiskOK
<1>4. Absent \notin Pass /\ Torn \notin Pass /\ Absent # Torn /\ NoUser \notin User
  BY ValuesAssumption
<1>5. Rest
  BY DEF Healthy
<1> HIDE DEF Healthy
<1> USE DEF AuthorisedExists, MailboxReady, SendSucceeds, Saving, Sending,
            AddLabels, SendLabels, disk, session, Answer, GoTo, Die, Abort, Handle, Authorised,
            LogsIn
<1>6. Rest'
  <2>1. CASE Refuse \/ Bare \/ Login \/ WrongPassword \/ RemoveUserError
    BY <1>2, <1>3, <1>4, <1>5, <2>1, RequestFields
       DEF Refuse, Bare, Login, WrongPassword, RemoveUserError
  <2>2. CASE AddTop \/ AddIn \/ AddOut
    <3>1. req.user \in User
      BY <1>2, <1>3, <2>2, RequestFields DEF AddTop, AddIn, AddOut, MakeDir
    <3>2. QED
      BY <1>3, <1>5, <2>2, <3>1 DEF AddTop, AddIn, AddOut, MakeDir, Dir
  <2>3. CASE OpenConfig \/ WriteConfig
    <3>1. req.user \in User /\ req.pass \in Pass
      BY <1>2, <1>3, <2>3, RequestFields DEF OpenConfig, WriteConfig
    <3>2. UNCHANGED <<dir, auth, req>> /\ dir[req.user] = Dir
      BY <1>5, <2>3 DEF OpenConfig, WriteConfig, Dir
    <3>3. \/ /\ config' = [config EXCEPT ![req.user] = Torn]
             /\ pc' = "write_config" /\ answer' = answer
          \/ /\ config' = [config EXCEPT ![req.user] = req.pass]
             /\ pc' = "answer" /\ answer' = "Success"
      BY <1>5, <2>3 DEF OpenConfig, WriteConfig, Dir
    <3>4. QED
      BY <1>2, <1>3, <1>4, <1>5, <3>1, <3>2, <3>3
  <2>4. CASE RemoveUser
    <3>1. req.user \in User
      BY <1>2, <2>4, RequestFields DEF RemoveUser
    <3>2. /\ config' = [config EXCEPT ![req.user] = Absent]
          /\ dir' = [dir EXCEPT ![req.user] = {}]
      BY <2>4 DEF RemoveUser, Remove
    <3>3. auth' = NoUser \/ (auth' = auth /\ auth # req.user)
      BY <2>4 DEF RemoveUser
    <3>4. pc' = "down" \/ pc' = "answer"
      BY <2>4 DEF RemoveUser
    <3>5. answer' \in {"none", "Success"}
      BY <2>4 DEF RemoveUser
    <3>6. QED
      BY <1>2, <1>3, <1>4, <1>5, <3>1, <3>2, <3>3, <3>4, <3>5
  <2>5. CASE NoReceiver \/ SendBegin
    BY <1>3, <1>5, <2>5 DEF NoReceiver, SendBegin
  <2>6. CASE OpenIn \/ OpenOut \/ WriteIn \/ WriteOut
    <3>1. req.user \in User /\ auth \in User
      BY <1>2, <1>3, <2>6, RequestFields DEF OpenIn, OpenOut, WriteIn, WriteOut
    <3>2. dir[req.user] = Dir /\ dir[auth] = Dir
      BY <1>5, <2>6, <3>1 DEF OpenIn, OpenOut, WriteIn, WriteOut
    <3>3. UNCHANGED <<config, dir, auth>>
      BY <2>6 DEF OpenIn, OpenOut, WriteIn, WriteOut, Open, Unsent, Fill
    <3>4. pc' \in SendLabels \/ (pc' = "answer" /\ answer' = "Success")
      BY <2>6, <3>2 DEF OpenIn, OpenOut, WriteIn, WriteOut, Open, Unsent, Fill, Dir
    <3>5. req' = req /\ (answer' = answer \/ answer' = "Success")
      BY <2>6, <3>2 DEF OpenIn, OpenOut, WriteIn, WriteOut, Open, Unsent, Fill, Dir
    <3>6. pc \in SendLabels
      BY <2>6 DEF OpenIn, OpenOut, WriteIn, WriteOut
    <3>7. QED
      BY <1>5, <3>3, <3>4, <3>5, <3>6
  <2>7. CASE Get \/ Expunge \/ ExpungeAll \/ DoubleDelete
    BY <1>5, <2>7 DEF Get, Expunge, ExpungeAll, DoubleDelete
  <2>8. CASE Write \/ Accept \/ Read \/ Quit
    BY <1>5, <2>8 DEF Write, Accept, Read, Quit
  <2>9. CASE Stop \/ Start \/ Tick
    BY <1>5, <2>9 DEF Stop, Start, Tick
  <2>10. CASE UNCHANGED vars
    BY <1>5, <2>10 DEF vars
  <2>11. QED
    BY <2>1, <2>2, <2>3, <2>4, <2>5, <2>6, <2>7, <2>8, <2>9, <2>10 DEF Next, Handler
<1>7. QED
  BY <1>1, <1>6 DEF Healthy

\* On a healthy disk, for every number of users, letters, deaths and restarts: the
\* authorised user has an account, an account has its directories, and no letter
\* to an existing account fails.
THEOREM HealthyDisk ==
  ASSUME ~DiskMayFail
  PROVE  Spec => []AccountsUsable
<1>1. Healthy /\ [Next]_vars => Healthy'
  BY HealthyStep
<1>2. Healthy => AccountsUsable
  BY DEF Healthy, AccountsUsable
<1>3. QED
  BY HealthyInit, <1>1, <1>2, PTL DEF Spec

-----------------------------------------------------------------------------
(* What was answered with Success is on the disk. *)

\* The receiver's copy is whole when the sender's is begun.
Delivered == pc \in {"open_out_box", "write_out_box"} =>
                LetterTo(auth) \in box[req.user]["in"]

Stored == Healthy /\ Delivered /\ SuccessIsStored

\* What the typing says of the fields a handler uses.
LEMMA SendFields ==
  ASSUME Healthy, pc \in SendLabels
  PROVE  /\ req.op = "send" /\ req.user \in User /\ req.text \in Text /\ auth \in User
         /\ DiskOK /\ CountOK
  BY RequestFields DEF Healthy, TypeOK, ControlOK

\* What is answered with Success was written by the steps before.
LEMMA ToldStep ==
  ASSUME ~DiskMayFail, Stored, [Next]_vars
  PROVE  (Delivered /\ SuccessIsStored)'
<1>1. Healthy /\ Delivered /\ SuccessIsStored
  BY DEF Stored
<1>2. req \in Request \cup {NoRequest}
  BY <1>1 DEF Healthy, TypeOK, ControlOK
<1> USE DEF disk, session, Answer, GoTo, Die, Abort, Handle, Authorised
<1>3. ASSUME UNCHANGED <<pc, req, answer, auth, at, config, dir, box>> PROVE (Delivered /\ SuccessIsStored)'
  BY <1>1, <1>3 DEF Delivered, SuccessIsStored, LetterTo
<1>4. ASSUME pc' \notin {"answer", "open_out_box", "write_out_box"} PROVE (Delivered /\ SuccessIsStored)'
  BY <1>4 DEF Delivered, SuccessIsStored
<1>5. ASSUME pc' = "answer", req' = req,
             answer' # "Success" \/ req.op \notin {"add", "send", "remove"} PROVE (Delivered /\ SuccessIsStored)'
  BY <1>5 DEF Delivered, SuccessIsStored
<1>6. CASE Refuse \/ Login \/ WrongPassword \/ RemoveUserError \/ NoReceiver \/ Get
  BY <1>5, <1>6 DEF Refuse, Login, WrongPassword, RemoveUserError, NoReceiver, Get
<1>7. CASE Bare \/ AddTop \/ AddIn \/ AddOut \/ SendBegin \/ DoubleDelete
  BY <1>4, <1>7 DEF Bare, AddTop, AddIn, AddOut, MakeDir, SendBegin, DoubleDelete
<1>8. CASE OpenConfig
  BY <1>4, <1>5, <1>8 DEF OpenConfig
<1>9. CASE WriteConfig
  <2>1. req.op = "add" /\ req.user \in User /\ config \in [User -> Pass \cup {Absent, Torn}]
    BY <1>1, <1>2, <1>9, RequestFields
       DEF WriteConfig, Healthy, TypeOK, ControlOK, DiskOK, AddLabels
  <2>2. config'[req.user] = req.pass
    BY <1>9, <2>1 DEF WriteConfig
  <2>3. dir'[req.user] = Dir
    BY <1>1, <1>9 DEF WriteConfig, Healthy, Saving
  <2>4. pc' = "answer" /\ req' = req
    BY <1>9 DEF WriteConfig
  <2>5. QED
    BY <2>1, <2>2, <2>3, <2>4 DEF Delivered, SuccessIsStored
<1>10. CASE RemoveUser
  <2>1. req.op = "remove" /\ req.user \in User /\ config \in [User -> Pass \cup {Absent, Torn}]
    BY <1>1, <1>2, <1>10, RequestFields DEF RemoveUser, Healthy, TypeOK, DiskOK
  <2>2. config'[req.user] = Absent
    BY <1>10, <2>1 DEF RemoveUser, Remove
  <2>3. auth' # req.user
    BY <1>10, <2>1, ValuesAssumption DEF RemoveUser
  <2>4. pc' = "down" \/ (pc' = "answer" /\ req' = req)
    BY <1>10 DEF RemoveUser
  <2>5. QED
    BY <1>4, <2>1, <2>2, <2>3, <2>4 DEF Delivered, SuccessIsStored
<1>11. CASE OpenIn
  BY <1>4, <1>5, <1>11 DEF OpenIn, Open, Unsent
<1>12. CASE WriteIn
  <2>1. pc \in SendLabels
    BY <1>12 DEF WriteIn, SendLabels
  <2>2. File(req.user, "in", auth, req.text) /\ pc' = "open_out_box" /\ UNCHANGED <<req, auth, at>>
    BY <1>12 DEF WriteIn, Fill
  <2>3. LetterTo(auth) \in box'[req.user]["in"]
    BY <1>1, <2>1, <2>2, SendFields, FileStep DEF Box, Filed, LetterTo
  <2>4. QED
    BY <2>2, <2>3 DEF Delivered, SuccessIsStored, LetterTo
<1>13. CASE OpenOut
  <2>1. CASE Unsent
    BY <1>5, <2>1 DEF Unsent
  <2>2. CASE ~Unsent
    <3>1. pc \in SendLabels
      BY <1>13 DEF OpenOut, SendLabels
    <3>2. File(auth, "out", req.user, Torn) /\ pc = "open_out_box" /\ pc' = "write_out_box"
          /\ UNCHANGED <<req, auth, at>>
      BY <1>13, <2>2 DEF OpenOut, Open
    <3>3. box'[req.user]["in"] = box[req.user]["in"]
      BY <1>1, <3>1, <3>2, SendFields, FileStep DEF Box
    <3>4. QED
      BY <1>1, <3>2, <3>3 DEF Delivered, SuccessIsStored, LetterTo
  <2>3. QED
    BY <2>1, <2>2
<1>14. CASE WriteOut
  <2>1. pc \in SendLabels
    BY <1>14 DEF WriteOut, SendLabels
  <2>2. File(auth, "out", req.user, req.text) /\ pc = "write_out_box" /\ pc' = "answer"
        /\ UNCHANGED <<req, auth, at>>
    BY <1>14 DEF WriteOut, Fill
  <2>3. LetterTo(req.user) \in box'[auth]["out"]
    BY <1>1, <2>1, <2>2, SendFields, FileStep DEF Box, Filed, LetterTo
  <2>4. box'[req.user]["in"] = box[req.user]["in"]
    BY <1>1, <2>1, <2>2, SendFields, FileStep DEF Box
  <2>5. req.op = "send"
    BY <1>1, <2>1, SendFields
  <2>6. QED
    BY <1>1, <2>2, <2>3, <2>4, <2>5 DEF Delivered, SuccessIsStored, LetterTo
<1>15. CASE Expunge
  BY <1>5, <1>15 DEF Expunge
<1>16. CASE ExpungeAll
  BY <1>4, <1>5, <1>16 DEF ExpungeAll
<1>17. CASE Write \/ Accept \/ Read \/ Quit \/ Stop \/ Start
  BY <1>4, <1>17 DEF Write, Accept, Read, Quit, Stop, Start
<1>18. CASE Tick \/ UNCHANGED vars
  BY <1>3, <1>18 DEF Tick, vars
<1>19. QED
  BY <1>6, <1>7, <1>8, <1>9, <1>10, <1>11, <1>12, <1>13, <1>14, <1>15, <1>16, <1>17, <1>18
     DEF Next, Handler

\* The answer Success to add, send and remove tells the truth about the disk.
THEOREM SuccessTold ==
  ASSUME ~DiskMayFail
  PROVE  Spec => []SuccessIsStored
<1>1. Init => Stored
  BY HealthyInit DEF Stored, Init, Delivered, SuccessIsStored
<1>2. Stored /\ [Next]_vars => Stored'
  BY HealthyStep, ToldStep DEF Stored
<1>3. Stored => SuccessIsStored
  BY DEF Stored
<1>4. QED
  BY <1>1, <1>2, <1>3, PTL DEF Spec

-----------------------------------------------------------------------------
(* The messenger implements MailStore. *)

\* One step of Messenger is a step of MailStore, or leaves its variables alone.
LEMMA StoreStep ==
  ASSUME ~DiskMayFail, Stored, [Next]_vars
  PROVE  [Store!Next]_<<config, box>>
<1>1. /\ req \in Request \cup {NoRequest} /\ auth \in User \cup {NoUser}
      /\ DiskOK /\ CountOK /\ ControlOK
      /\ AuthorisedExists /\ MailboxReady /\ Saving /\ Sending /\ Delivered
  BY DEF Stored, Healthy, TypeOK, ControlOK
<1> USE DEF disk, Handle, Authorised
<1>2. CASE UNCHANGED <<config, box>>
  BY <1>2
<1>3. CASE OpenConfig
  <2>1. req.user \in User
    BY <1>1, <1>3, RequestFields DEF OpenConfig, ControlOK, AddLabels
  <2>2. Store!Empty(req.user)
    BY <1>1, <1>3 DEF OpenConfig, Saving, Dir, Store!Empty
  <2>3. QED
    BY <2>1, <2>2 DEF Store!Next
<1>4. CASE WriteConfig
  <2>1. req.user \in User /\ req.pass \in Pass
    BY <1>1, <1>4, RequestFields DEF WriteConfig, ControlOK, AddLabels
  <2>2. Store!SetPass(req.user, req.pass)
    BY <1>1, <1>4 DEF WriteConfig, Saving, Store!SetPass
  <2>3. QED
    BY <2>1, <2>2 DEF Store!Next
<1>5. CASE RemoveUser
  <2>1. req.user \in User /\ req.pass \in Pass
    BY <1>1, <1>5, RequestFields DEF RemoveUser
  <2>2. Store!Close(req.user)
    BY <1>5, <2>1 DEF RemoveUser, Remove, LogsIn, NoLetters, Box, Store!Box, Store!Close
  <2>3. QED
    BY <2>1, <2>2 DEF Store!Next
<1>6. CASE /\ OpenIn \/ WriteIn \/ OpenOut \/ WriteOut
           /\ ~ UNCHANGED box
  <2> DEFINE Mail(peer, text) == [peer |-> peer, at |-> at, text |-> text]
  <2>1. pc \in SendLabels
    BY <1>6 DEF OpenIn, WriteIn, OpenOut, WriteOut, SendLabels
  <2>2. /\ req.user \in User /\ req.text \in Text /\ auth \in User
        /\ config[auth] # Absent /\ config[req.user] # Absent
    BY <1>1, <2>1, SendFields DEF Stored, Sending
  <2>3. ASSUME NEW peer \in User, NEW text \in Text \cup {Torn}
        PROVE  Mail(peer, text) \in Store!Letter
    BY <1>1, <2>3 DEF CountOK, Time, Store!Letter, Store!Time
  <2>4. UNCHANGED config
    BY <1>6 DEF OpenIn, WriteIn, OpenOut, WriteOut, Open, Unsent, Fill
  <2>5. ASSUME NEW text \in {Torn, req.text}, File(req.user, "in", auth, text)
        PROVE  Store!Next
    <3>1. Store!Deliver(Mail(auth, text), req.user)
      BY <2>2, <2>4, <2>5 DEF File, Filed, Store!Deliver, Store!Exists, Store!Filed
    <3>2. QED
      BY <2>2, <2>3, <3>1 DEF Store!Next
  <2>6. ASSUME NEW text \in {Torn, req.text}, File(auth, "out", req.user, text),
               LetterTo(auth) \in box[req.user]["in"]
        PROVE  Store!Next
    <3>1. Store!Keep(auth, Mail(req.user, text))
      BY <2>2, <2>4, <2>6 DEF File, Filed, LetterTo, Store!Keep, Store!Exists, Store!Filed
    <3>2. QED
      BY <2>2, <2>3, <3>1 DEF Store!Next
  <2>7. CASE OpenIn \/ WriteIn
    BY <1>6, <2>5, <2>7 DEF OpenIn, WriteIn, Open, Unsent, Fill
  <2>8. CASE OpenOut \/ WriteOut
    <3>1. LetterTo(auth) \in box[req.user]["in"]
      BY <1>1, <2>8 DEF OpenOut, WriteOut, Delivered
    <3>2. QED
      BY <1>6, <2>6, <2>8, <3>1 DEF OpenOut, WriteOut, Open, Unsent, Fill
  <2>9. QED
    BY <1>6, <2>7, <2>8
<1>7. CASE /\ Expunge \/ ExpungeAll
           /\ ~ UNCHANGED box
  <2>1. auth \in User /\ UNCHANGED config /\ config[auth] # Absent
    BY <1>1, <1>7 DEF Expunge, ExpungeAll, AuthorisedExists
  <2>2. req.box \in Box
    <3>1. req.box \in Box \cup {"other"}
      BY <1>1, <1>7, RequestFields DEF Expunge, ExpungeAll
    <3>2. ASSUME req.box \notin Box, Expunge PROVE UNCHANGED box
      <4>1. 1..Count(req.box) = {}
        BY <3>2 DEF Count
      <4>2. QED
        BY <3>2, <4>1 DEF Expunge
    <3>3. ASSUME req.box \notin Box, ExpungeAll PROVE UNCHANGED box
      BY <3>3 DEF ExpungeAll
    <3>4. QED
      BY <1>7, <3>1, <3>2, <3>3
  <2>3. \E gone \in SUBSET box[auth][req.box] :
           box' = [box EXCEPT ![auth][req.box] = @ \ gone]
    <3>1. CASE Expunge
      <4>1. PICK m \in box[auth][req.box] : box' = [box EXCEPT ![auth][req.box] = @ \ {m}]
        BY <1>7, <3>1 DEF Expunge
      <4>2. {m} \in SUBSET box[auth][req.box]
        BY <4>1
      <4>3. QED
        BY <4>1, <4>2
    <3>2. CASE ExpungeAll
      BY <2>2, <3>2 DEF ExpungeAll
    <3>3. QED
      BY <1>7, <3>1, <3>2
  <2>4. Store!Expunge(auth, req.box)
    BY <2>1, <2>3 DEF Store!Expunge, Store!Exists
  <2>5. QED
    BY <2>1, <2>2, <2>4 DEF Store!Next, Box, Store!Box
<1>8. CASE \/ Refuse \/ Bare \/ AddTop \/ AddIn \/ AddOut \/ Login \/ WrongPassword
           \/ RemoveUserError \/ NoReceiver \/ SendBegin \/ Get \/ DoubleDelete \/ Write
  BY <1>2, <1>8 DEF Refuse, Bare, AddTop, AddIn, AddOut, MakeDir, Login, WrongPassword,
     RemoveUserError, NoReceiver, SendBegin, Get, DoubleDelete, Write
<1>9. CASE Accept \/ Read \/ Quit \/ Stop \/ Start \/ Tick
  BY <1>2, <1>9 DEF Accept, Read, Quit, Stop, Start, Tick
<1>10. CASE UNCHANGED vars
  BY <1>2, <1>10 DEF vars
<1>11. ASSUME OpenIn \/ WriteIn \/ OpenOut \/ WriteOut \/ Expunge \/ ExpungeAll
       PROVE  UNCHANGED config
  BY <1>11 DEF OpenIn, WriteIn, OpenOut, WriteOut, Open, Unsent, Fill, Expunge, ExpungeAll
<1>12. QED
  BY <1>2, <1>3, <1>4, <1>5, <1>6, <1>7, <1>8, <1>9, <1>10, <1>11 DEF Next, Handler

\* Whatever the requests, the deaths and the restarts, the files of the accounts
\* change only as MailStore allows.
THEOREM ImplementsMailStore ==
  ASSUME ~DiskMayFail
  PROVE  Spec => StoreSpec
<1>1. Init => Stored
  BY HealthyInit DEF Stored, Init, Delivered, SuccessIsStored
<1>2. Stored /\ [Next]_vars => Stored'
  BY HealthyStep, ToldStep DEF Stored
<1>3. Init => Store!Init
  BY DEF Init, Store!Init, NoLetters, Box, Store!Box
<1>4. Stored /\ [Next]_vars => [Store!Next]_<<config, box>>
  BY StoreStep
<1>5. QED
  BY <1>1, <1>2, <1>3, <1>4, PTL DEF Spec, StoreSpec, Store!Spec, Store!storeVars

-----------------------------------------------------------------------------
(* Torn files: what is half written belongs to the step in progress. *)

\* The letter a handler has opened and not yet written.
Opened(u, b, m) == \/ /\ pc = "write_in_box" /\ b = "in" /\ req.user = u
                      /\ m.peer = auth /\ m.at = at
                   \/ /\ pc = "write_out_box" /\ b = "out" /\ auth = u
                      /\ m.peer = req.user /\ m.at = at

\* Until the process has died once, nothing else is torn.
TornAccounts == \A u \in User : config[u] = Torn => pc = "write_config" /\ req.user = u
TornLetters  == \A u \in User, b \in Box : \A m \in box[u][b] : m.text = Torn => Opened(u, b, m)
Tidy         == starts = 0 /\ pc # "down" => TornAccounts /\ TornLetters

\* A write replaces the letter of its second and peer, torn or not.
LEMMA WriteMends ==
  ASSUME Healthy, TornLetters, NEW u \in User, NEW b \in Box, NEW peer \in User,
         File(u, b, peer, req.text), req.text \in Text,
         \A v \in User, c \in Box : \A m \in box[v][c] :
            Opened(v, c, m) => v = u /\ c = b /\ m.peer = peer /\ m.at = at
  PROVE  \A v \in User, c \in Box : \A m \in box'[v][c] : m.text # Torn
<1> DEFINE n == [peer |-> peer, at |-> at, text |-> req.text]
<1>1. /\ box'[u][b] = Filed(box[u][b], n)
      /\ \A v \in User, c \in Box : v # u \/ c # b => box'[v][c] = box[v][c]
  BY FileStep DEF Healthy, TypeOK
<1>2. n.text # Torn /\ n.peer = peer /\ n.at = at
  BY ValuesAssumption
<1> HIDE DEF n
<1>3. \A m \in box'[u][b] : m = n \/ (m \in box[u][b] /\ <<m.peer, m.at>> # <<peer, at>>)
  BY <1>1, <1>2 DEF Filed
<1>4. \A v \in User, c \in Box : \A m \in box[v][c] :
         m.text = Torn => v = u /\ c = b /\ m.peer = peer /\ m.at = at
  BY DEF TornLetters
<1>5. QED
  BY <1>1, <1>2, <1>3, <1>4

\* The file a handler opens is the one it has opened.
LEMMA OpenTears ==
  ASSUME Healthy, NEW u \in User, NEW b \in Box, NEW peer \in User,
         File(u, b, peer, Torn), \A v \in User, c \in Box : \A m \in box[v][c] : m.text # Torn
  PROVE  \A v \in User, c \in Box : \A m \in box'[v][c] :
            m.text = Torn => v = u /\ c = b /\ m.peer = peer /\ m.at = at
<1> DEFINE n == [peer |-> peer, at |-> at, text |-> Torn]
<1>1. /\ box'[u][b] = Filed(box[u][b], n)
      /\ \A v \in User, c \in Box : v # u \/ c # b => box'[v][c] = box[v][c]
  BY FileStep DEF Healthy, TypeOK
<1>2. n.peer = peer /\ n.at = at
  OBVIOUS
<1> HIDE DEF n
<1>3. \A m \in box'[u][b] : m = n \/ m \in box[u][b]
  BY <1>1 DEF Filed
<1>4. QED
  BY <1>1, <1>2, <1>3

\* Every step but a death leaves only its own file torn.
LEMMA TidyStep ==
  ASSUME ~DiskMayFail, Healthy, Healthy', Tidy, [Next]_vars
  PROVE  Tidy'
<1> SUFFICES ASSUME starts' = 0, pc' # "down"
             PROVE  TornAccounts' /\ TornLetters'
  BY DEF Tidy
<1> DEFINE Goal == TornAccounts' /\ TornLetters'
<1>1. /\ req \in Request \cup {NoRequest} /\ config \in [User -> Pass \cup {Absent, Torn}]
      /\ box \in [User -> [Box -> SUBSET Letter]] /\ starts \in Nat /\ auth \in User \cup {NoUser}
      /\ pc \in AddLabels => req.op = "add"
  BY DEF Healthy, TypeOK, ControlOK, DiskOK, CountOK
<1>2. Absent # Torn /\ Torn \notin Pass /\ Torn \notin Text
  BY ValuesAssumption
<1> USE DEF disk, session, bounds, Answer, GoTo, Die, Abort, Handle, Authorised
<1>3. ~Start
  BY <1>1 DEF Start
<1>4. starts = 0 /\ pc # "down"
  <2>1. CASE Handler
    BY <2>1 DEF Handler, Refuse, Bare, AddTop, AddIn, AddOut, MakeDir, OpenConfig, WriteConfig,
                Login, WrongPassword, RemoveUser, RemoveUserError, NoReceiver, SendBegin,
                OpenIn, OpenOut, WriteIn, WriteOut, Open, Unsent, Fill, Get, Expunge,
                ExpungeAll, DoubleDelete, Write
  <2>2. CASE Accept \/ Read \/ Quit \/ Stop \/ Tick
    BY <2>2 DEF Accept, Read, Quit, Stop, Tick
  <2>3. CASE UNCHANGED vars
    BY <2>3 DEF vars
  <2>4. QED
    BY <1>3, <2>1, <2>2, <2>3 DEF Next
<1>5. TornAccounts /\ TornLetters
  BY <1>4 DEF Tidy
<1>6. ASSUME UNCHANGED <<pc, req, auth, at, config, box>> PROVE Goal
  BY <1>5, <1>6 DEF TornAccounts, TornLetters, Opened
<1>7. ASSUME pc \notin {"write_config", "write_in_box", "write_out_box"},
             \A u \in User : config'[u] = Torn => config[u] = Torn,
             \A u \in User, b \in Box : box'[u][b] \subseteq box[u][b]
      PROVE  Goal
  <2>1. /\ \A u \in User : config[u] # Torn
        /\ \A u \in User, b \in Box : \A m \in box[u][b] : m.text # Torn
    BY <1>5, <1>7 DEF TornAccounts, TornLetters, Opened
  <2>2. QED
    BY <1>7, <2>1 DEF TornAccounts, TornLetters
<1>8. CASE \/ Refuse \/ Bare \/ AddTop \/ AddIn \/ AddOut \/ Login \/ WrongPassword
           \/ RemoveUserError \/ NoReceiver \/ SendBegin \/ Get \/ DoubleDelete \/ Write
  BY <1>7, <1>8 DEF Refuse, Bare, AddTop, AddIn, AddOut, MakeDir, Login, WrongPassword,
                    RemoveUserError, NoReceiver, SendBegin, Get, DoubleDelete, Write
<1>9. CASE Accept \/ Read \/ Quit \/ Tick \/ Stop
  BY <1>6, <1>7, <1>9 DEF Accept, Read, Quit, Tick, Stop
<1>10. CASE OpenConfig
  <2>1. /\ config' = [config EXCEPT ![req.user] = Torn] /\ pc' = "write_config"
        /\ UNCHANGED <<box, req, auth, at>>
    BY <1>10 DEF OpenConfig, Healthy, Saving, Dir
  <2>2. \A u \in User : config[u] # Torn
    BY <1>5, <1>10 DEF TornAccounts, OpenConfig
  <2>3. \A u \in User, b \in Box : \A m \in box[u][b] : m.text # Torn
    BY <1>5, <1>10 DEF TornLetters, Opened, OpenConfig
  <2>4. QED
    BY <1>1, <2>1, <2>2, <2>3 DEF TornAccounts, TornLetters
<1>11. CASE WriteConfig
  <2>1. req.pass \in Pass /\ req.user \in User
    BY <1>1, <1>11, RequestFields DEF WriteConfig, AddLabels
  <2>2. config' = [config EXCEPT ![req.user] = req.pass] /\ box' = box
    BY <1>11 DEF WriteConfig
  <2>3. \A u \in User : config'[u] # Torn
    BY <1>1, <1>2, <1>5, <2>1, <2>2 DEF TornAccounts
  <2>4. \A u \in User, b \in Box : \A m \in box[u][b] : m.text # Torn
    BY <1>5, <1>11 DEF TornLetters, Opened, WriteConfig
  <2>5. QED
    BY <2>2, <2>3, <2>4 DEF TornAccounts, TornLetters
<1>12. CASE RemoveUser
  <2>1. /\ pc = "process" /\ config' = [config EXCEPT ![req.user] = Absent]
        /\ box' = [box EXCEPT ![req.user] = NoLetters]
    BY <1>12 DEF RemoveUser, Remove
  <2>2. \A u \in User, b \in Box : box'[u][b] \subseteq box[u][b]
    BY <1>1, <2>1 DEF NoLetters
  <2>3. \A u \in User : config'[u] = Torn => config[u] = Torn
    BY <1>1, <1>2, <2>1
  <2>4. QED
    BY <1>7, <2>1, <2>2, <2>3
<1>13. ASSUME OpenIn \/ OpenOut PROVE Goal
  <2>1. pc \in SendLabels /\ pc \in {"open_in_box", "open_out_box"}
    BY <1>13 DEF OpenIn, OpenOut, SendLabels
  <2>2. req.user \in User /\ auth \in User
    BY <2>1, SendFields
  <2>3. \A u \in User, b \in Box : \A m \in box[u][b] : m.text # Torn
    BY <1>5, <2>1 DEF TornLetters, Opened
  <2>4. UNCHANGED <<config, req, auth, at>> /\ \A u \in User : config[u] # Torn
    BY <1>5, <1>13, <2>1 DEF TornAccounts, OpenIn, OpenOut, Open, Unsent
  <2>5. CASE UNCHANGED box
    BY <2>3, <2>4, <2>5 DEF TornAccounts, TornLetters
  <2>6. CASE pc' = "write_in_box" /\ File(req.user, "in", auth, Torn)
    <3>1. "in" \in Box
      BY DEF Box
    <3>2. \A v \in User, c \in Box : \A m \in box'[v][c] :
             m.text = Torn => v = req.user /\ c = "in" /\ m.peer = auth /\ m.at = at
      BY <2>2, <2>3, <2>6, <3>1, OpenTears
    <3>3. QED
      BY <2>4, <2>6, <3>2 DEF TornAccounts, TornLetters, Opened
  <2>7. CASE pc' = "write_out_box" /\ File(auth, "out", req.user, Torn)
    <3>1. "out" \in Box
      BY DEF Box
    <3>2. \A v \in User, c \in Box : \A m \in box'[v][c] :
             m.text = Torn => v = auth /\ c = "out" /\ m.peer = req.user /\ m.at = at
      BY <2>2, <2>3, <2>7, <3>1, OpenTears
    <3>3. QED
      BY <2>4, <2>7, <3>2 DEF TornAccounts, TornLetters, Opened
  <2>8. QED
    BY <1>13, <2>5, <2>6, <2>7 DEF OpenIn, OpenOut, Open, Unsent
<1>14. ASSUME WriteIn \/ WriteOut PROVE Goal
  <2>1. pc \in SendLabels /\ pc \in {"write_in_box", "write_out_box"}
    BY <1>14 DEF WriteIn, WriteOut, SendLabels
  <2>2. req.user \in User /\ auth \in User /\ req.text \in Text
    BY <2>1, SendFields
  <2>3. UNCHANGED config /\ \A u \in User : config[u] # Torn
    BY <1>5, <1>14, <2>1 DEF TornAccounts, WriteIn, WriteOut, Fill
  <2>4. "in" \in Box /\ "out" \in Box
    BY DEF Box
  <2>5. \A v \in User, c \in Box : \A m \in box'[v][c] : m.text # Torn
    <3>1. CASE WriteIn
      BY <1>5, <2>2, <2>4, <3>1, WriteMends DEF WriteIn, Fill, Opened
    <3>2. CASE WriteOut
      BY <1>5, <2>2, <2>4, <3>2, WriteMends DEF WriteOut, Fill, Opened
    <3>3. QED
      BY <1>14, <3>1, <3>2
  <2>6. QED
    BY <2>3, <2>5 DEF TornAccounts, TornLetters
<1>15. CASE Expunge
  BY <1>1, <1>7, <1>15 DEF Expunge
<1>16. CASE ExpungeAll
  BY <1>1, <1>7, <1>16 DEF ExpungeAll
<1>17. CASE UNCHANGED vars
  BY <1>6, <1>17 DEF vars
<1>18. QED
  BY <1>3, <1>8, <1>9, <1>10, <1>11, <1>12, <1>13, <1>14, <1>15, <1>16, <1>17 DEF Next, Handler

\* A half-written user_config or letter is left behind only by a death in the middle
\* of writing it.
THEOREM TornByDeath ==
  ASSUME ~DiskMayFail
  PROVE  Spec => []TornOnlyByDeath
<1>1. Init => Tidy
  BY ValuesAssumption DEF Init, Tidy, TornAccounts, TornLetters, NoLetters
<1>2. Healthy /\ [Next]_vars => Healthy'
  BY HealthyStep
<1>3. Healthy /\ Healthy' /\ Tidy /\ [Next]_vars => Tidy'
  BY TidyStep
<1>4. Tidy => TornOnlyByDeath
  BY DEF Tidy, TornAccounts, TornLetters, Opened, TornOnlyByDeath
<1>5. QED
  BY <1>1, <1>2, <1>3, <1>4, HealthyInit, PTL DEF Spec

-----------------------------------------------------------------------------
(* Losses: who may make a letter disappear, on any disk. *)

\* What may take letter m out of box b of user u.
Accounted(u, b, m) ==
   \/ auth = u /\ req.op \in {"expunge", "expunge_all"} /\ req.box = b
   \/ req.op = "remove" /\ req.user = u /\ req.pass = config[u]
   \/ req.op = "send" /\ \E n \in box'[u][b] : n.peer = m.peer /\ n.at = m.at /\ at = n.at
   \/ DiskMayFail /\ req.op = "add" /\ req.user = u

\* Every step accounts for what it takes.
LEMMA LossStep ==
  ASSUME TypeOK, ~DiskMayFail => Healthy, [Next]_vars,
         NEW u \in User, NEW b \in Box, NEW m \in box[u][b] \ box'[u][b]
  PROVE  Accounted(u, b, m)
<1>1. /\ box \in [User -> [Box -> SUBSET Letter]] /\ req \in Request \cup {NoRequest}
      /\ pc \in AddLabels => req.op = "add"
      /\ pc \in SendLabels => req.op = "send" /\ auth # NoUser
      /\ auth \in User \cup {NoUser} /\ DiskOK /\ CountOK
  BY DEF TypeOK, ControlOK, DiskOK
<1>2. box' # box
  OBVIOUS
<1> USE DEF disk, Answer, GoTo, Abort, Handle, Authorised
<1>3. CASE \/ Refuse \/ Bare \/ AddTop \/ AddIn \/ AddOut \/ WriteConfig \/ Login
           \/ WrongPassword \/ RemoveUserError \/ NoReceiver \/ SendBegin \/ Get
           \/ DoubleDelete \/ Write
  BY <1>2, <1>3 DEF Refuse, Bare, AddTop, AddIn, AddOut, MakeDir, WriteConfig, Login,
     WrongPassword, RemoveUserError, NoReceiver, SendBegin, Get, DoubleDelete, Write
<1>4. CASE Accept \/ Read \/ Quit \/ Stop \/ Start \/ Tick
  BY <1>2, <1>4 DEF Accept, Read, Quit, Stop, Start, Tick
<1>5. CASE UNCHANGED vars
  BY <1>2, <1>5 DEF vars
<1>6. CASE OpenConfig
  <2>1. req.op = "add" /\ req.user = u
    BY <1>1, <1>2, <1>6 DEF OpenConfig, Remove, AddLabels
  <2>2. DiskMayFail
    BY <1>2, <1>6 DEF OpenConfig, Healthy, Saving, Dir
  <2>3. QED
    BY <2>1, <2>2 DEF Accounted
<1>7. CASE RemoveUser
  BY <1>1, <1>7 DEF RemoveUser, LogsIn, Remove, Accounted
<1>8. ASSUME NEW v \in User, NEW c \in Box, NEW peer \in User, NEW text \in Text \cup {Torn},
             File(v, c, peer, text), req.op = "send"
      PROVE  Accounted(u, b, m)
  <2> DEFINE n == [peer |-> peer, at |-> at, text |-> text]
  <2>1. /\ box'[v][c] = Filed(box[v][c], n)
        /\ \A w \in User, d \in Box : w # v \/ d # c => box'[w][d] = box[w][d]
    BY <1>1, <1>8, FileStep
  <2>2. u = v /\ b = c
    BY <2>1
  <2>3. n.peer = peer /\ n.at = at
    OBVIOUS
  <2> HIDE DEF n
  <2>4. n \in box'[u][b] /\ <<m.peer, m.at>> = <<n.peer, n.at>>
    BY <2>1, <2>2 DEF Filed
  <2>5. QED
    BY <1>8, <2>3, <2>4 DEF Accounted
<1>9. CASE OpenIn \/ OpenOut \/ WriteIn \/ WriteOut
  <2>1. pc \in SendLabels
    BY <1>9 DEF OpenIn, OpenOut, WriteIn, WriteOut, SendLabels
  <2>2. /\ req.op = "send" /\ req.user \in User /\ req.text \in Text /\ auth \in User
        /\ "in" \in Box /\ "out" \in Box
    BY <1>1, <2>1, RequestFields DEF Box
  <2>3. \/ File(req.user, "in", auth, Torn) \/ File(auth, "out", req.user, Torn)
        \/ File(req.user, "in", auth, req.text) \/ File(auth, "out", req.user, req.text)
    BY <1>2, <1>9 DEF OpenIn, OpenOut, WriteIn, WriteOut, Open, Unsent, Fill
  <2>4. QED
    BY <1>8, <2>2, <2>3
<1>10. CASE Expunge \/ ExpungeAll
  <2>1. /\ req.op \in {"expunge", "expunge_all"}
        /\ \E gone : box' = [box EXCEPT ![auth][req.box] = @ \ gone]
    BY <1>2, <1>10 DEF Expunge, ExpungeAll
  <2>2. auth = u /\ req.box = b
    BY <1>1, <2>1
  <2>3. QED
    BY <2>1, <2>2 DEF Accounted
<1>11. QED
  BY <1>3, <1>4, <1>5, <1>6, <1>7, <1>9, <1>10 DEF Next, Handler

\* On any disk, a letter leaves a box only by its owner's removal, with the account by
\* its password, for another of the same second and peer, or (on a failing disk) by a
\* registration under the name that could not open user_config.
THEOREM LossesAccounted == Spec => LossIsAccounted
<1> DEFINE Inv == TypeOK /\ (~DiskMayFail => Healthy)
<1>1. Init => Inv
  BY TypeInit, HealthyInit
<1>2. Inv /\ [Next]_vars => Inv'
  BY DiskStep, ControlStep, CountStep, AnswerStep, HealthyStep DEF TypeOK
<1>3. Inv /\ [Next]_vars =>
        [\A u \in User, b \in Box : \A m \in box[u][b] \ box'[u][b] :
           \/ auth = u /\ req.op \in {"expunge", "expunge_all"} /\ req.box = b
           \/ req.op = "remove" /\ req.user = u /\ req.pass = config[u]
           \/ req.op = "send" /\ \E n \in box'[u][b] : n.peer = m.peer /\ n.at = m.at /\ at = n.at
           \/ DiskMayFail /\ req.op = "add" /\ req.user = u]_vars
  BY LossStep DEF Accounted
<1> HIDE DEF Inv
<1>4. QED
  BY <1>1, <1>2, <1>3, PTL DEF Spec, LossIsAccounted
=============================================================================
