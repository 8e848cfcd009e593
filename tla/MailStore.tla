----------------------------- MODULE MailStore -----------------------------
(***************************************************************************)
(* What the messenger promises about the files it keeps: which accounts    *)
(* exist, and how a letter may come into a box or leave it.  It knows no   *)
(* connection, no request and no step of a handler; Messenger implements   *)
(* it (see MCMessenger, and MessengerProofs for every value of the         *)
(* constants).                                                             *)
(***************************************************************************)
EXTENDS Integers

CONSTANTS User, Pass, Text,
          MaxTime,    \* bound: the clock's last second
          Absent,     \* no user_config file
          Torn        \* a file that was created and never got its contents

Time == 0..MaxTime
Box  == {"in", "out"}
Letter == [peer : User, at : Time, text : Text \cup {Torn}]

VARIABLES config,     \* [User -> Pass \cup {Absent, Torn}]: the user_config files
          box         \* [User -> [Box -> SUBSET Letter]]: in_box and out_box

storeVars == <<config, box>>

\* A box holds one file per peer and second: a second letter takes the place.
Filed(letters, m) == {n \in letters : <<n.peer, n.at>> # <<m.peer, m.at>>} \cup {m}

Exists(u) == config[u] # Absent

Init == /\ config = [u \in User |-> Absent]
        /\ box = [u \in User |-> [b \in Box |-> {}]]

\* Registering a name, new or taken, first empties its configuration file and
\* then writes the password.  The letters kept under the name stay.
Empty(u) == /\ config' = [config EXCEPT ![u] = Torn]
            /\ UNCHANGED box

SetPass(u, p) == /\ config[u] = Torn
                 /\ config' = [config EXCEPT ![u] = p]
                 /\ UNCHANGED box

\* Removing an account takes the letters with it, and needs its password.
Close(u) == /\ config[u] \in Pass
            /\ config' = [config EXCEPT ![u] = Absent]
            /\ box' = [box EXCEPT ![u] = [b \in Box |-> {}]]

\* A letter goes from an existing account to an existing account.
Deliver(m, to) == /\ Exists(m.peer) /\ Exists(to)
                  /\ box' = [box EXCEPT ![to]["in"] = Filed(@, m)]
                  /\ UNCHANGED config

\* The sender's copy is made of a letter that lies whole in the receiver's box.
Keep(from, m) == /\ Exists(from) /\ Exists(m.peer)
                 /\ \E n \in box[m.peer]["in"] :
                       n.peer = from /\ n.at = m.at /\ n.text \in Text /\ m.text \in {n.text, Torn}
                 /\ box' = [box EXCEPT ![from]["out"] = Filed(@, m)]
                 /\ UNCHANGED config

\* Letters are only ever removed from the boxes of an existing account.
Expunge(u, b) == /\ Exists(u)
                 /\ \E gone \in SUBSET box[u][b] : box' = [box EXCEPT ![u][b] = @ \ gone]
                 /\ UNCHANGED config

Next == \E u \in User :
          \/ Empty(u)
          \/ \E p \in Pass : SetPass(u, p)
          \/ Close(u)
          \/ \E m \in Letter : Deliver(m, u) \/ Keep(u, m)
          \/ \E b \in Box : Expunge(u, b)

Spec == Init /\ [][Next]_storeVars
=============================================================================
