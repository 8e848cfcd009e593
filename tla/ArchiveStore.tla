---------------------------- MODULE ArchiveStore ----------------------------
(***************************************************************************)
(* What vox promises about its archives: each account gets one, once, from *)
(* the texts ordered for it, and a client is sent the archive of its own   *)
(* account as it was when it asked.  Making it may fail, and whose order   *)
(* that was is not told.  It knows no relay, no pipe and no sound file;    *)
(* Vox implements it (see MCVox, and VoxProofs for every value of the      *)
(* constants).                                                             *)
(***************************************************************************)
EXTENDS Integers

CONSTANTS Conn, Account, Text,
          Absent, Empty, Partial, Mixed,  \* contents that are no text
          Old, Left, \* an archive there from before; the accounts with one
          Garbage,   \* the text of an order whose client has gone before it sent one
          Nothing    \* what is taken when there is no archive

VARIABLES ticket,    \* what a client is there for: an order, or an archive taken
          archive,   \* of each account
          faults,    \* accounts for which something failed
          given      \* what a client was sent

storeVars == <<ticket, archive, faults, given>>

Contents == Text \cup {Absent, Empty, Partial, Mixed, Old, Nothing}
NoTicket == [state |-> "none"]
Ticket   == {NoTicket} \cup [state : {"ordered", "making", "over", "taken"},
                             account : Account, content : Contents]

Holds(c, state) == ticket[c].state = state
Becomes(c, state) == ticket' = [ticket EXCEPT ![c].state = state]

\* A client comes for something.
Gets(c, state) == /\ Holds(c, "none")
                  /\ ticket'[c].state = state /\ ticket'[c] \in Ticket
                  /\ ticket' = [ticket EXCEPT ![c] = ticket'[c]]

Init == /\ ticket = [c \in Conn |-> NoTicket]
        /\ archive = [a \in Account |-> IF a \in Left THEN Old ELSE Absent]
        /\ faults = {}
        /\ given = [c \in Conn |-> Absent]

\* Orders are taken as they come; they need not end.
Order(c) == /\ Gets(c, "ordered") /\ ticket'[c].content \in Text
            /\ UNCHANGED <<archive, faults, given>>

\* One order makes the archive of an account, if there is none yet.
Begin(c) == /\ Holds(c, "ordered") /\ archive[ticket[c].account] = Absent
            /\ archive' = [archive EXCEPT ![ticket[c].account] = Partial]
            /\ Becomes(c, "making")
            /\ UNCHANGED <<faults, given>>

Orders(a) == {c \in Conn : /\ ticket[c].state \in {"ordered", "making", "over"}
                           /\ ticket[c].account = a}

\* An archive is a text ordered for the account.  Only where several were ordered, or one
\* without a text, or something failed, it may be none.
MadeFor(a, content) ==
   \E c \in Orders(a) : \/ ticket[c].content = content
                        \/ content \in {Empty, Mixed} /\ (Orders(a) \ {c} # {} \/ a \in faults)
                        \/ content = Mixed /\ ticket[c].content = Garbage

Finish(c) == /\ Holds(c, "making") /\ Becomes(c, "over")
             /\ \E content \in (Text \ {Garbage}) \cup {Empty, Mixed} :
                   /\ MadeFor(ticket[c].account, content)
                   /\ archive' = [archive EXCEPT ![ticket[c].account] = content]
             /\ UNCHANGED <<faults, given>>

\* The orders that come later leave the archive as it is.
Leave(c) == /\ Holds(c, "ordered") /\ archive[ticket[c].account] # Absent
            /\ Becomes(c, "over")
            /\ UNCHANGED <<archive, faults, given>>

\* Something fails: an order goes on, or is over without an archive; one that was being
\* made is gone, or stays a part for good.
Fail(c) == /\ Holds(c, "ordered") \/ Holds(c, "making")
           /\ faults' = faults \cup {ticket[c].account}
           /\ \/ Holds(c, "ordered") /\ UNCHANGED <<ticket, archive>>
              \/ Becomes(c, "over") /\ UNCHANGED archive
              \/ /\ Holds(c, "making") /\ Becomes(c, "over")
                 /\ archive' = [archive EXCEPT ![ticket[c].account] = Absent]
           /\ UNCHANGED given

\* What a client asks for is read at once, but sent later.
Take(c) == /\ Gets(c, "taken")
           /\ LET there == archive[ticket'[c].account]
              IN  ticket'[c].content = IF there = Absent THEN Nothing ELSE there
           /\ UNCHANGED <<archive, faults, given>>

Give(c) == /\ Holds(c, "taken") /\ ticket[c].content # Nothing /\ given[c] = Absent
           /\ given' = [given EXCEPT ![c] = ticket[c].content]
           /\ UNCHANGED <<ticket, archive, faults>>

\* Who goes before it is sent gets nothing.
Drop(c) == /\ Holds(c, "taken") /\ ticket' = [ticket EXCEPT ![c] = NoTicket]
           /\ UNCHANGED <<archive, faults, given>>

Move == \E c \in Conn : \/ Order(c) \/ Begin(c) \/ Finish(c) \/ Leave(c)
                        \/ Fail(c) \/ Take(c) \/ Give(c) \/ Drop(c)

\* A move that changes nothing is a stutter: TLC need not look which one it is.
Next == storeVars' # storeVars /\ Move

Spec == Init /\ [][Next]_storeVars
=============================================================================
