----------------------------- MODULE PasteBoard -----------------------------
(***************************************************************************)
(* What kpaste promises: a user and a paste for each key, and requests     *)
(* that are served as if each were served at once.  It knows no tree, no   *)
(* objects and no sockets; Kpaste implements it where insertions do not    *)
(* overlap (see MCKpaste, and KpasteProofs for every value of the          *)
(* constants).                                                             *)
(***************************************************************************)
EXTENDS Integers

CONSTANTS Conn, Key,
          Login, Post,   \* the requests: a name and a password, or a name and a text
          NoName,        \* the name of who gives none
          Hash, Prefix, NoPaste,
          Nothing, Free  \* no request, no user

VARIABLES asked,  \* what was read of a request
          stage,  \* how far it is served
          users,  \* of each key
          page    \* the paste shown

boardVars == <<asked, stage, users, page>>

KeyOf(c)  == Hash[asked[c].name]
UserOf(c) == users[KeyOf(c)]
Fits(c)   == <<asked[c].pass, UserOf(c).pass>> \in Prefix

Waits(c, kind)  == stage[c] = "waiting" /\ asked[c].kind = kind
Becomes(c, next) == stage' = [stage EXCEPT ![c] = next]

Init == /\ asked = [c \in Conn |-> Nothing]
        /\ stage = [c \in Conn |-> "waiting"]
        /\ users = [k \in Key |-> Free]
        /\ page = [c \in Conn |-> NoPaste]

\* A client asks once.
Ask(c) == /\ asked[c] = Nothing
          /\ asked'[c] \in Login \cup Post
          /\ asked' = [asked EXCEPT ![c] = asked'[c]]
          /\ UNCHANGED <<stage, users, page>>

\* Who comes first with a key has it, and the password, for good.
Register(c) == /\ Waits(c, "login") /\ UserOf(c) = Free
               /\ users' = [users EXCEPT ![KeyOf(c)] =
                              [state |-> "used", name |-> asked[c].name,
                               pass |-> asked[c].pass, paste |-> NoPaste]]
               /\ Becomes(c, "registered")
               /\ UNCHANGED <<asked, page>>

\* A page is the paste of the key at this moment, for who knows the password.
Show(c) == /\ Waits(c, "login") \/ stage[c] = "registered"
           /\ UserOf(c) # Free /\ Fits(c)
           /\ page' = [page EXCEPT ![c] = UserOf(c).paste]
           /\ Becomes(c, "shown")
           /\ UNCHANGED <<asked, users>>

\* A password is refused only by a user, a text only where there is none or without a name.
Refuse(c) == /\ \/ Waits(c, "login") /\ UserOf(c) # Free /\ ~Fits(c)
                \/ Waits(c, "text") /\ (UserOf(c) = Free \/ asked[c].name = NoName)
             /\ Becomes(c, "refused")
             /\ UNCHANGED <<asked, users, page>>

\* A text is stored once.
Store(c) == /\ Waits(c, "text") /\ UserOf(c) # Free
            /\ users' = [users EXCEPT ![KeyOf(c)].paste = asked[c].text]
            /\ Becomes(c, "posted")
            /\ UNCHANGED <<asked, page>>

Next == \E c \in Conn : Ask(c) \/ Register(c) \/ Show(c) \/ Refuse(c) \/ Store(c)

Spec == Init /\ [][Next]_boardVars
=============================================================================
