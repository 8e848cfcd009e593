---------------------------- MODULE ClientStore ----------------------------
(***************************************************************************)
(* What StellarAssist promises a client: data that is put and given as a   *)
(* whole, and a program whose output replaces it.  It knows no files, no   *)
(* sharing of them and no threads; StellarAssist implements it.            *)
(***************************************************************************)
CONSTANTS Conn, Folder, Content,
          Program,         \* what is compiled
          Absent, Empty,   \* nothing was put; what was put is lost, or printed nothing
          None             \* no client known, no answer

VARIABLES client,    \* the folder of a connection
          task,      \* what a connection is about
          held,      \* the data of a client
          installed, \* the program of a client
          given      \* the last answer to a connection since it put something

clientVars == <<client, task, held, installed, given>>

Task(does, what) == [does |-> does, what |-> what]
Rest == Task("rests", None)

Does(c, does)   == task[c].does = does
Turns(c, next)  == task' = [task EXCEPT ![c] = next]
Output(program) == IF program = Absent THEN Empty ELSE [kind |-> "output", by |-> program.by]
Free(f) == \A d \in Conn : client[d] = f => ~Does(d, "puts")

Init == /\ client = [c \in Conn |-> None]
        /\ task = [c \in Conn |-> Rest]
        /\ held = [f \in Folder |-> Absent]
        /\ installed = [f \in Folder |-> Absent]
        /\ given = [c \in Conn |-> None]

Join(c) == /\ client[c] = None
           /\ \E f \in Folder : client' = [client EXCEPT ![c] = f]
           /\ UNCHANGED <<task, held, installed, given>>

\* Data is what the client sends, or a program has printed.  It is put at once; until
\* that is done nobody of the client is given it, nor puts other data.
Data(c) == IF Does(c, "stores") THEN {task[c].what}
           ELSE IF Does(c, "rests") THEN {[kind |-> "data", by |-> c]} ELSE {}
Put(c) == /\ client[c] \in Folder /\ Free(client[c])
          /\ \E v \in Data(c) : /\ held' = [held EXCEPT ![client[c]] = v]
                                /\ Turns(c, Task("puts", v))
          /\ given' = [given EXCEPT ![c] = None]
          /\ UNCHANGED <<client, installed>>

Done(c) == Does(c, "puts") /\ Turns(c, Rest) /\ UNCHANGED <<client, held, installed, given>>

Give(c) == /\ client[c] \in Folder /\ Does(c, "rests")
           /\ Free(client[c]) /\ held[client[c]] # Absent
           /\ given' = [given EXCEPT ![c] = held[client[c]]]
           /\ UNCHANGED <<client, task, held, installed>>

\* A program is the connection's own or, if another one of the client sends too, that one's.
Send(c) == /\ Does(c, "rests")
           /\ \E p \in Program : p.by = c /\ Turns(c, Task("sends", p))
           /\ UNCHANGED <<client, held, installed, given>>

Install(c) == /\ Does(c, "sends") /\ client[c] \in Folder
              /\ \E p \in Program :
                    /\ p = task[c].what \/ (p.by # c /\ client[p.by] = client[c])
                    /\ p.kind # "wrong"
                    /\ installed' = [installed EXCEPT ![client[c]] = p]
              /\ Turns(c, Rest)
              /\ UNCHANGED <<client, held, given>>

Run(c) == /\ Does(c, "rests") /\ client[c] \in Folder
          /\ Turns(c, Task("runs", installed[client[c]]))
          /\ UNCHANGED <<client, held, installed, given>>

Prints(c) == /\ Does(c, "runs")
             /\ task[c].what # Absent => task[c].what.kind # "hangs"
             /\ Turns(c, Task("stores", Output(task[c].what)))
             /\ given' = [given EXCEPT ![c] = None]
             /\ UNCHANGED <<client, held, installed>>

\* What was sent does not compile, what was printed meets another connection, or either fails.
Drop(c) == /\ Does(c, "sends") \/ Does(c, "stores")
           /\ Turns(c, Rest)
           /\ UNCHANGED <<client, held, installed, given>>

\* What is being put does not get there.
Lose(c) == /\ Does(c, "puts") /\ client[c] \in Folder
           /\ held' = [held EXCEPT ![client[c]] = Empty]
           /\ Turns(c, Rest)
           /\ UNCHANGED <<client, installed, given>>

\* A death loses what is being put, and nothing else.
Die == /\ held' = [f \in Folder |-> IF Free(f) THEN held[f] ELSE Empty]
       /\ task' = [c \in Conn |-> Rest]
       /\ UNCHANGED <<client, installed, given>>

Move == \/ Die
        \/ \E c \in Conn : \/ Join(c) \/ Put(c) \/ Done(c) \/ Give(c) \/ Send(c)
                           \/ Install(c) \/ Run(c) \/ Prints(c) \/ Drop(c) \/ Lose(c)

\* A move that changes nothing is a stutter: TLC need not look which one it is.
Next == clientVars' # clientVars /\ Move

Spec == Init /\ [][Next]_clientVars
=============================================================================
