------------------------------- MODULE Kpaste -------------------------------
(***************************************************************************)
(* kpaste.c: a listener starts a kernel thread per connection; the thread  *)
(* polls for the request, handles it and closes.  All threads share the    *)
(* radix tree "users" and the objects it points to, without a lock.        *)
(*                                                                         *)
(* Abstracted: the text of requests and pages (a request is what the       *)
(* parser makes of it), and the tree's nodes.  radix_tree_insert is the    *)
(* kernel's and wants a lock: insertions that overlap without one, which   *)
(* may each raise the root and fill nodes the other does not see, leave    *)
(* the tree in any state for good.  Memory does not run out.               *)
(***************************************************************************)
EXTENDS Integers, Sequences, Functions

CONSTANTS Conn,        \* connections; the object a thread allocates is named for it
          Name, NoName,\* user names and cookies; NoName is the empty string
          Static,      \* the name and password used when a request has no line end
          Pass, Text,
          Key, Hash,   \* jhash of a name: distinct names may have one key
          Prefix,      \* <<p, q>>: password p is a prefix of q (strncmp by p's length)
          Nil,         \* no object
          Wild,        \* a pointer to none (a node of a torn tree taken for an item)
          MaxPolls,    \* bound for the 100 polls of kpaste_recv
          Segmented,   \* whether a request may arrive in pieces
          Racing       \* whether insertions may overlap

\* The pastebin of a new user.  Text holds the texts a page can tell from it, those
\* that are not empty.
NoPaste == "empty"

ASSUME NamesAssumption == /\ NoName \in Name /\ Static \in Name \cap Pass
                          /\ Hash \in [Name -> Key]
                          /\ Prefix \subseteq Pass \X Pass
                          /\ \A p \in Pass : <<p, p>> \in Prefix
                          /\ {Nil, Wild} \cap Conn = {} /\ Nil # Wild
                          /\ NoPaste \notin Text
ASSUME BoundsAssumption == MaxPolls \in Nat /\ {Segmented, Racing} \subseteq BOOLEAN

\* What kpaste_interaction distinguishes: GET /, POST /paste with a user name, with
\* a text (its cookie may be missing), with anything else, without any line end, and
\* what is none of these.
Login   == [kind : {"login"}, name : Name, pass : Pass]
Post    == [kind : {"text"}, name : Name, text : Text]
Plain   == [kind : {"root", "other", "bare", "unknown"}]
Request == Login \cup Post \cup Plain
Status  == {200, 403, 404}

VARIABLES listening,  \* kpaste_listener runs
          pc,         \* what the thread of a connection does next
          polls,      \* times kpaste_recv looked
          req,        \* what the client sends
          got,        \* what the first successful recv returned of it
          tree,       \* radix tree: Key -> object, Nil or Wild
          heap,       \* the objects: name, password, pastebin
          user,       \* the thread's local pointer
          raced,      \* history: two insertions have overlapped
          sent,       \* status lines sent
          shown,      \* the paste in the page sent
          broken      \* sending failed

vars == <<listening, pc, polls, req, got, tree, heap, user, raced, sent, shown, broken>>
shared == <<tree, heap, raced>>
locals == <<polls, req, got, user>>
output == <<sent, shown, broken>>

Nothing == [kind |-> "nothing"]
Free    == [state |-> "free"]
KeyOf(c) == Hash[got[c].name]

Init == /\ listening = TRUE
        /\ pc = [c \in Conn |-> "idle"]
        /\ polls = [c \in Conn |-> 0]
        /\ req = [c \in Conn |-> Nothing] /\ got = [c \in Conn |-> Nothing]
        /\ tree = [k \in Key |-> Nil]
        /\ heap = [c \in Conn |-> Free]
        /\ user = [c \in Conn |-> Nil]
        /\ raced = FALSE
        /\ sent = [c \in Conn |-> <<>>]
        /\ shown = [c \in Conn |-> NoPaste]
        /\ broken = [c \in Conn |-> FALSE]

At(c, label) == pc[c] = label
GoTo(c, label) == pc' = [pc EXCEPT ![c] = label]

-----------------------------------------------------------------------------
(* Connections *)

Connect(c) == /\ At(c, "idle")
              /\ GoTo(c, "queued")
              /\ UNCHANGED <<listening, locals, shared, output>>

Accept(c) == /\ listening /\ At(c, "queued")
             /\ GoTo(c, "recv")
             /\ UNCHANGED <<listening, locals, shared, output>>

\* Any error but EAGAIN (no memory, no socket) ends the listener for good.
ListenerExits == /\ listening
                 /\ listening' = FALSE
                 /\ UNCHANGED <<pc, locals, shared, output>>

\* The client's request arrives; nothing makes a client send one.
Arrive(c) == /\ pc[c] \in {"queued", "recv"} /\ req[c] = Nothing
             /\ \E r \in Request : req' = [req EXCEPT ![c] = r]
             /\ UNCHANGED <<listening, pc, polls, got, user, shared, output>>

\* A piece of a POST that ends before its body is a POST with other parameters; one
\* that ends in the request line is unknown.
Pieces(r) == {r} \cup IF Segmented THEN {[kind |-> "other"], [kind |-> "unknown"]} ELSE {}

\* One recv takes what has arrived and is never followed by another.
Recv(c) == /\ At(c, "recv") /\ polls[c] < MaxPolls /\ req[c] # Nothing
           /\ \E r \in Pieces(req[c]) :
                /\ got' = [got EXCEPT ![c] = r]
                /\ GoTo(c, IF r.kind = "login" THEN "lookup" ELSE r.kind)
           /\ UNCHANGED <<listening, polls, req, user, shared, output>>

\* Mutants: one poll too many; the time that passed is not subtracted.
PollOnceMore(c) == /\ At(c, "recv") /\ polls[c] <= MaxPolls /\ req[c] = Nothing
                   /\ polls' = [polls EXCEPT ![c] = @ + 1]
                   /\ UNCHANGED <<listening, pc, req, got, user, shared, output>>
PollForever(c)  == At(c, "recv") /\ req[c] = Nothing /\ UNCHANGED vars

Poll(c) == /\ At(c, "recv") /\ polls[c] < MaxPolls /\ req[c] = Nothing
           /\ polls' = [polls EXCEPT ![c] = @ + 1]
           /\ UNCHANGED <<listening, pc, req, got, user, shared, output>>

RecvTimeout(c) == /\ At(c, "recv") /\ polls[c] = MaxPolls
                  /\ GoTo(c, "done")
                  /\ UNCHANGED <<listening, locals, shared, output>>

\* Two sends, the status line and the page; an error of either closes the connection.
Respond(c, status, page, next) ==
           /\ \/ /\ sent' = [sent EXCEPT ![c] = Append(@, status)]
                 /\ shown' = [shown EXCEPT ![c] = page]
                 /\ GoTo(c, next)
                 /\ UNCHANGED broken
              \/ /\ broken' = [broken EXCEPT ![c] = TRUE]
                 /\ sent' = [sent EXCEPT ![c] = Append(@, status)] \/ UNCHANGED sent
                 /\ GoTo(c, "done")
                 /\ UNCHANGED shown
           /\ UNCHANGED <<listening, locals, shared>>

Root(c) == At(c, "root") /\ Respond(c, 200, NoPaste, "done")

\* Other parameters are answered with the status line alone.
Other(c) == /\ At(c, "other")
            /\ \/ sent' = [sent EXCEPT ![c] = Append(@, 200)] /\ UNCHANGED broken
               \/ broken' = [broken EXCEPT ![c] = TRUE] /\ UNCHANGED sent
            /\ GoTo(c, "done")
            /\ UNCHANGED <<listening, locals, shared, shown>>

Unknown(c) == At(c, "unknown") /\ Respond(c, 404, NoPaste, "done")

\* Without a line end the parameters are a string literal, and the parser writes
\* into it: a fault that leaves the thread dead and the connection open, or, where
\* the literal is writable, the user "static".
Bare(c) == /\ At(c, "bare")
           /\ \/ GoTo(c, "oops") /\ UNCHANGED got
              \/ /\ got' = [got EXCEPT ![c] = [kind |-> "login", name |-> Static, pass |-> Static]]
                 /\ GoTo(c, "lookup")
           /\ UNCHANGED <<listening, polls, req, user, shared, output>>

-----------------------------------------------------------------------------
(* POST /paste with a user name *)

\* A name whose key is not in the tree is registered.
Lookup(c) == /\ At(c, "lookup")
             /\ user' = [user EXCEPT ![c] = tree[KeyOf(c)]]
             /\ IF tree[KeyOf(c)] = Nil
                THEN /\ heap' = [heap EXCEPT ![c] = [state |-> "used", name |-> got[c].name,
                                                     pass |-> got[c].pass, paste |-> NoPaste]]
                     /\ GoTo(c, "insert")
                ELSE GoTo(c, "check") /\ UNCHANGED heap
             /\ UNCHANGED <<listening, polls, req, got, tree, raced, output>>

\* Mutant: the freed object is answered with.
InsertExistsGoesOn(c) == /\ At(c, "insert") /\ tree[KeyOf(c)] # Nil
                         /\ heap' = [heap EXCEPT ![c] = Free]
                         /\ user' = [user EXCEPT ![c] = c]
                         /\ GoTo(c, "welcome")
                         /\ UNCHANGED <<listening, polls, req, got, tree, raced, output>>

\* radix_tree_insert refuses a key that has come into the tree since the lookup (in a
\* torn tree, any key): the object is freed and the connection shut down without an answer.
InsertExists(c) == /\ \/ At(c, "insert") /\ tree[KeyOf(c)] # Nil
                      \/ At(c, "place") /\ raced
                   /\ heap' = [heap EXCEPT ![c] = Free]
                   /\ GoTo(c, "done")
                   /\ UNCHANGED <<listening, locals, tree, raced, output>>

InsertBegin(c) == /\ Racing
                  /\ At(c, "insert") /\ tree[KeyOf(c)] = Nil
                  /\ raced' = (raced \/ \E d \in Conn : At(d, "place"))
                  /\ GoTo(c, "place")
                  /\ UNCHANGED <<listening, locals, tree, heap, output>>

\* Mutant: an insertion takes a key that is in use.
PlaceOver(c) == /\ At(c, "insert")
                /\ tree' = [tree EXCEPT ![KeyOf(c)] = c]
                /\ user' = [user EXCEPT ![c] = c]
                /\ GoTo(c, "welcome")
                /\ UNCHANGED <<listening, polls, req, got, heap, raced, output>>

\* Where insertions have overlapped, an item is lost or under another key, or is a node,
\* or the thread dies on what it meets.
Torn(c) == [Key -> Range(tree) \cup {c, Nil, Wild}]
Place(c) == /\ \/ At(c, "place")
               \/ ~Racing /\ At(c, "insert") /\ tree[KeyOf(c)] = Nil
            /\ tree' \in IF raced THEN Torn(c) ELSE {[tree EXCEPT ![KeyOf(c)] = c]}
            /\ \/ user' = [user EXCEPT ![c] = c] /\ GoTo(c, "welcome")
               \/ raced /\ GoTo(c, "oops") /\ UNCHANGED user
            /\ UNCHANGED <<listening, polls, req, got, heap, raced, output>>

\* Mutant: no shutdown after the new user's page.
WelcomeAndCheck(c) == At(c, "welcome") /\ Respond(c, 200, heap[user[c]].paste, "check")

Welcome(c) == At(c, "welcome") /\ Respond(c, 200, heap[user[c]].paste, "done")

\* Mutant: the characters compared are counted by the stored password.
CheckByStored(c) == /\ At(c, "check") /\ user[c] # Wild
                    /\ IF <<heap[user[c]].pass, got[c].pass>> \in Prefix
                       THEN Respond(c, 200, heap[user[c]].paste, "done")
                       ELSE Respond(c, 403, NoPaste, "done")

Check(c) == /\ At(c, "check") /\ user[c] # Wild
            /\ IF <<got[c].pass, heap[user[c]].pass>> \in Prefix
               THEN Respond(c, 200, heap[user[c]].paste, "done")
               ELSE Respond(c, 403, NoPaste, "done")

-----------------------------------------------------------------------------
(* POST /paste with a text *)

\* Without a cookie 403 is sent and the handler goes on as if it had found one.
TextCookie(c) == /\ At(c, "text")
                 /\ IF got[c].name = NoName
                    THEN Respond(c, 403, NoPaste, "find")
                    ELSE /\ GoTo(c, "find")
                         /\ UNCHANGED <<listening, locals, shared, output>>

\* Mutant: the key is not the cookie's.
TextFindAny(c) == /\ At(c, "find")
                  /\ \E k \in Key : /\ user' = [user EXCEPT ![c] = tree[k]]
                                    /\ GoTo(c, IF tree[k] = Nil THEN "forbid" ELSE "store")
                  /\ UNCHANGED <<listening, polls, req, got, shared, output>>

TextFind(c) == /\ At(c, "find")
               /\ user' = [user EXCEPT ![c] = tree[KeyOf(c)]]
               /\ GoTo(c, IF tree[KeyOf(c)] = Nil THEN "forbid" ELSE "store")
               /\ UNCHANGED <<listening, polls, req, got, shared, output>>

\* The old paste is not freed, so no reader holds a freed one.
TextStore(c) == /\ At(c, "store") /\ user[c] # Wild
                /\ heap' = [heap EXCEPT ![user[c]].paste = got[c].text]
                /\ GoTo(c, "root")
                /\ UNCHANGED <<listening, locals, tree, raced, output>>

Forbid(c) == At(c, "forbid") /\ Respond(c, 403, NoPaste, "done")

\* What is no object is used as one: a fault, any password, any page, a write anywhere in
\* the tree's nodes.
Stray(c) == /\ user[c] = Wild
            /\ \/ pc[c] \in {"check", "store"} /\ GoTo(c, "oops")
                  /\ UNCHANGED <<listening, locals, shared, output>>
               \/ At(c, "check") /\ Respond(c, 403, NoPaste, "done")
               \/ At(c, "check") /\ \E page \in Text \cup {NoPaste} : Respond(c, 200, page, "done")
               \/ /\ At(c, "store") /\ GoTo(c, "root")
                  /\ tree' \in [Key -> Range(tree) \cup {Nil, Wild}]
                  /\ UNCHANGED <<listening, locals, heap, raced, output>>

-----------------------------------------------------------------------------
Thread(c) == \/ Recv(c) \/ Poll(c) \/ RecvTimeout(c)
             \/ Root(c) \/ Other(c) \/ Unknown(c) \/ Bare(c)
             \/ Lookup(c) \/ InsertExists(c) \/ InsertBegin(c) \/ Place(c) \/ Welcome(c) \/ Check(c)
             \/ TextCookie(c) \/ TextFind(c) \/ TextStore(c) \/ Forbid(c) \/ Stray(c)

Next == \/ ListenerExits
        \/ \E c \in Conn : Connect(c) \/ Accept(c) \/ Arrive(c) \/ Thread(c)

Spec == Init /\ [][Next]_vars

\* The kernel schedules every thread; the listener accepts while it runs.
FairSpec == Spec /\ \A c \in Conn : WF_vars(Thread(c)) /\ WF_vars(Accept(c))

-----------------------------------------------------------------------------
Labels == {"idle", "queued", "recv", "root", "other", "unknown", "bare", "lookup", "insert",
           "place", "welcome", "check", "text", "find", "store", "forbid", "done", "oops"}
Object == [state : {"used"}, name : Name, pass : Pass, paste : Text \cup {NoPaste}]

\* The type invariant.
TypeOK == /\ listening \in BOOLEAN
          /\ pc \in [Conn -> Labels]
          /\ polls \in [Conn -> 0..MaxPolls]
          /\ req \in [Conn -> Request \cup {Nothing}]
          /\ got \in [Conn -> Request \cup {Nothing}]
          /\ tree \in [Key -> Conn \cup {Nil, Wild}]
          /\ heap \in [Conn -> Object \cup {Free}]
          /\ user \in [Conn -> Conn \cup {Nil, Wild}]
          /\ raced \in BOOLEAN
          /\ sent \in [Conn -> Seq(Status)]
          /\ shown \in [Conn -> Text \cup {NoPaste}]
          /\ broken \in [Conn -> BOOLEAN]

\* Until two insertions overlap, and whatever lookups, texts and refused insertions come
\* between the steps of one, the tree holds only complete objects that were not freed, each
\* under the key of its name, and a thread uses only such an object.
TreeSound == ~raced =>
   /\ \A k \in Key : tree[k] # Nil =>
         tree[k] \in Conn /\ heap[tree[k]] # Free /\ Hash[heap[tree[k]].name] = k
   /\ \A c \in Conn : pc[c] \in {"welcome", "check", "store"} =>
         user[c] \in Conn /\ heap[user[c]] # Free

\* Until then a page shows, and an object keeps, only a text that was posted under a name
\* with the same key: nothing moves between users but by a collision of jhash.
PostedUnder(k) == {got[d].text : d \in {e \in Conn : got[e].kind = "text" /\ Hash[got[e].name] = k}}
PastesStay == ~raced =>
   /\ \A c \in Conn : heap[c] # Free =>
         heap[c].paste \in {NoPaste} \cup PostedUnder(Hash[heap[c].name])
   /\ \A c \in Conn : shown[c] # NoPaste =>
         got[c].kind = "login" /\ shown[c] \in PostedUnder(KeyOf(c))

\* A connection gets one status line, but for a text posted without a cookie (403 and
\* the answer for the empty name), whatever insertions overlap.  It is closed without one
\* only if it timed out, a send failed, or the key was refused: another connection had
\* registered it, unless the tree was torn.
OneAnswer ==
   \A c \in Conn :
      /\ Len(sent[c]) > 1 => got[c].kind = "text" /\ got[c].name = NoName /\ sent[c][1] = 403
      /\ pc[c] = "done" /\ sent[c] = <<>> =>
            \/ broken[c] \/ got[c] = Nothing
            \/ /\ got[c].kind = "login" /\ user[c] = Nil
               /\ raced \/ \E d \in Conn \ {c} : heap[d] # Free /\ Hash[heap[d].name] = KeyOf(c)

\* Every connection that was accepted comes to an end, answered or timed out after
\* the last poll, whatever its client does (or its thread died at the literal).
EveryConnectionEnds ==
   \A c \in Conn : pc[c] = "queued" ~> pc[c] \in {"done", "oops"} \/ ~listening

\* "One can register with a pair login:password and then log in" (README): who was
\* answered 200 on registering is in the tree with that password.
RegisteredCanLogin ==
   \A c \in Conn : pc[c] = "done" /\ user[c] = c /\ sent[c] = <<200>> =>
      LET o == tree[KeyOf(c)] IN o \in Conn /\ <<got[c].pass, heap[o].pass>> \in Prefix

\* "A user may create a record and then view it" (README): a text that was sent with
\* a cookie and answered 200 was stored, there or by a later post.
AnsweredTextIsStored ==
   \A c \in Conn : pc[c] = "done" /\ req[c].kind = "text" /\ sent[c] = <<200>> =>
      user[c] \in Conn /\ heap[user[c]].paste # NoPaste

\* Where insertions do not overlap, requests are served as PasteBoard says, each at one of
\* the thread's steps: a registration when the tree takes it, a page when it is sent, a text
\* when the object takes it, a refusal when the name was not found or the password does not fit.
Asked(c) == IF got[c].kind \in {"login", "text"} THEN got[c] ELSE Nothing
Stage(c) ==
   CASE got[c].kind = "login" -> CASE sent[c] = <<200>> /\ ~broken[c] -> "shown"
                                   [] sent[c] = <<403>> -> "refused"
                                   [] OTHER -> IF user[c] = c THEN "registered" ELSE "waiting"
     [] got[c].kind = "text"  -> CASE user[c] # Nil /\ pc[c] # "store" -> "posted"
                                   [] user[c] = Nil /\ pc[c] \in {"forbid", "done"} -> "refused"
                                   [] OTHER -> "waiting"
     [] OTHER -> "waiting"
Board == INSTANCE PasteBoard WITH asked <- [c \in Conn |-> Asked(c)],
                                  stage <- [c \in Conn |-> Stage(c)],
                                  users <- [k \in Key |-> IF tree[k] = Nil THEN Free
                                                          ELSE heap[tree[k]]],
                                  page <- shown
BoardSpec == Board!Spec
=============================================================================
