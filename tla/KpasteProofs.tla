---------------------------- MODULE KpasteProofs ----------------------------
(***************************************************************************)
(* The kernel module's invariants, for every set of connections, names and *)
(* texts, every hash and every number of polls.                            *)
(***************************************************************************)
EXTENDS Kpaste, SequenceTheorems, TLAPS

\* The labels up to which a thread has allocated nothing (a text never does).
Early == {"idle", "queued", "recv", "bare", "lookup", "text", "find"}

\* What was read by the time a label is reached.
Read == \A c \in Conn :
           /\ pc[c] \in {"idle", "queued", "recv"} => got[c] = Nothing
           /\ pc[c] \in {"lookup", "insert", "place", "welcome", "check"} => got[c] \in Login
           /\ pc[c] \in {"text", "find", "store", "forbid"} => got[c] \in Post
           /\ pc[c] \in {"bare", "unknown", "other"} => got[c] \in Plain
           /\ pc[c] = "root" => got[c] # Nothing

\* A thread's object is its own until it is in the tree.
Allocates == \A c \in Conn : pc[c] \in Early => heap[c] = Free
Owns      == \A c \in Conn : pc[c] \in {"insert", "place"} =>
                /\ heap[c] \in Object /\ user[c] = Nil
                /\ heap[c].name = got[c].name /\ heap[c].pass = got[c].pass
Unseen    == \A d \in Conn : heap[d] = Free \/ pc[d] \in {"insert", "place"} =>
                /\ \A k \in Key : tree[k] # d
                /\ \A c \in Conn : user[c] # d

\* What the tree and the threads point to is an object, and until insertions overlap one
\* with the key it was found by.
Linked == \A k \in Key :
             /\ tree[k] \in Conn => heap[tree[k]] \in Object
             /\ ~raced /\ tree[k] # Nil => tree[k] \in Conn /\ Hash[heap[tree[k]].name] = k
Uses   == \A c \in Conn :
             /\ pc[c] = "welcome" => user[c] = c /\ heap[c] \in Object
             /\ pc[c] \in {"check", "store"} =>
                   user[c] # Nil /\ (user[c] \in Conn => heap[user[c]] \in Object)
             /\ ~raced /\ pc[c] \in {"welcome", "check", "store"} =>
                   user[c] \in Conn /\ Hash[heap[user[c]].name] = KeyOf(c)

Sound == Allocates /\ Owns /\ Unseen /\ Linked /\ Uses

\* Nothing is sent before the answer, but 403 for a text without a cookie.
Bars(c)  == sent[c] = << 403 >> /\ got[c] \in Post /\ got[c].name = NoName
Silent   == \A c \in Conn :
               /\ pc[c] \in (Early \ {"find"}) \cup {"unknown", "insert", "place", "welcome", "check"}
                     => sent[c] = <<>>
               /\ pc[c] \in {"root", "other", "find", "store", "forbid"} => sent[c] = <<>> \/ Bars(c)
               /\ got[c] = Nothing => sent[c] = <<>>
Twice    == \A c \in Conn : Len(sent[c]) > 1 =>
               got[c] \in Post /\ got[c].name = NoName /\ sent[c][1] = 403
\* Who was refused by the tree was so for an object that is there for good.
Beaten(c) == \E d \in Conn \ {c} : /\ heap[d] # Free /\ pc[d] \notin {"insert", "place"}
                                   /\ Hash[heap[d].name] = KeyOf(c)
Excused  == \A c \in Conn : At(c, "done") /\ sent[c] = <<>> =>
               \/ broken[c] \/ got[c] = Nothing
               \/ got[c] \in Login /\ user[c] = Nil /\ (raced \/ Beaten(c))

\* Where insertions do not overlap, a user that was registered stays in the tree.
Registered == /\ ~raced
              /\ \A c \in Conn :
                 /\ pc[c] # "place"
                 /\ user[c] = c => /\ got[c] \in Login /\ tree[KeyOf(c)] = c
                                   /\ heap[c] \in Object /\ heap[c].pass = got[c].pass

\* Where also a request arrives in one piece, what was read is the request (or "static").
Whole  == \A c \in Conn : got[c] \in {Nothing, req[c]} \/ (got[c] \in Login /\ req[c] \in Plain)
Stored == \A c \in Conn :
             got[c] \in Post /\ (pc[c] = "root" \/ (pc[c] = "done" /\ sent[c] = << 200 >>)) =>
                user[c] \in Conn /\ heap[user[c]] \in Object /\ heap[user[c]].paste # NoPaste

-----------------------------------------------------------------------------
(* Types, and what was read *)

\* The kinds of requests have fields of their own.
LEMMA Kinds ==
  /\ \A r \in Login : r.kind = "login" /\ r.name \in Name /\ r.pass \in Pass /\ r # Nothing
  /\ \A r \in Post : r.kind = "text" /\ r.name \in Name /\ r.text \in Text /\ r # Nothing
  /\ \A r \in Plain : r.kind \in {"root", "other", "bare", "unknown"} /\ r # Nothing
  /\ \A o \in Object : o # Free /\ o.name \in Name /\ o.pass \in Pass
  BY DEF Login, Post, Plain, Nothing, Object, Free

\* A step of one connection leaves what belongs to the others alone.
LEMMA Frame ==
  ASSUME TypeOK, NEW c \in Conn, Connect(c) \/ Accept(c) \/ Arrive(c) \/ Thread(c)
  PROVE  /\ listening' = listening
         /\ (raced => raced') /\ (~Racing => raced' = raced)
         /\ \A d \in Conn \ {c} :
               /\ pc'[d] = pc[d] /\ req'[d] = req[d] /\ got'[d] = got[d] /\ user'[d] = user[d]
               /\ sent'[d] = sent[d] /\ shown'[d] = shown[d] /\ broken'[d] = broken[d]
<1> USE DEF TypeOK, GoTo, At, Respond, locals, shared, output
<1>1. CASE Connect(c) \/ Accept(c) \/ Arrive(c)
  BY <1>1 DEF Connect, Accept, Arrive
<1>2. CASE Recv(c) \/ Poll(c) \/ RecvTimeout(c) \/ Bare(c)
  BY <1>2 DEF Recv, Poll, RecvTimeout, Bare
<1>3. CASE Root(c) \/ Other(c) \/ Unknown(c) \/ Welcome(c) \/ Check(c) \/ Forbid(c) \/ TextCookie(c)
  BY <1>3 DEF Root, Other, Unknown, Welcome, Check, Forbid, TextCookie
<1>4. CASE Lookup(c) \/ InsertExists(c) \/ InsertBegin(c) \/ Place(c)
  BY <1>4 DEF Lookup, InsertExists, InsertBegin, Place
<1>5. CASE TextFind(c) \/ TextStore(c) \/ Stray(c)
  BY <1>5 DEF TextFind, TextStore, Stray
<1>6. QED
  BY <1>1, <1>2, <1>3, <1>4, <1>5 DEF Thread

\* An answer keeps the types.
LEMMA RespondTypes ==
  ASSUME TypeOK, NEW c \in Conn, NEW status \in Status, NEW page \in Text \cup {NoPaste},
         NEW next \in Labels, Respond(c, status, page, next)
  PROVE  TypeOK'
<1>1. Append(sent[c], status) \in Seq(Status)
  BY AppendProperties DEF TypeOK
<1>2. pc' \in [Conn -> Labels]
  BY DEF TypeOK, Respond, GoTo, Labels
<1>3. shown' \in [Conn -> Text \cup {NoPaste}]
  BY DEF TypeOK, Respond
<1>4. sent' \in [Conn -> Seq(Status)]
  BY <1>1 DEF TypeOK, Respond
<1>5. broken' \in [Conn -> BOOLEAN]
  BY DEF TypeOK, Respond
<1>6. QED
  BY <1>2, <1>3, <1>4, <1>5 DEF TypeOK, Respond, locals, shared

\* Every step keeps the types.
LEMMA TypeStep == TypeOK /\ Read /\ Sound /\ [Next]_vars => TypeOK'
<1> SUFFICES ASSUME TypeOK, Read, Sound, [Next]_vars PROVE TypeOK'
  OBVIOUS
<1>1. /\ listening \in BOOLEAN /\ pc \in [Conn -> Labels] /\ polls \in [Conn -> 0..MaxPolls]
      /\ req \in [Conn -> Request \cup {Nothing}] /\ got \in [Conn -> Request \cup {Nothing}]
      /\ tree \in [Key -> Conn \cup {Nil, Wild}] /\ heap \in [Conn -> Object \cup {Free}]
      /\ user \in [Conn -> Conn \cup {Nil, Wild}] /\ raced \in BOOLEAN
      /\ sent \in [Conn -> Seq(Status)] /\ shown \in [Conn -> Text \cup {NoPaste}]
      /\ broken \in [Conn -> BOOLEAN]
  BY DEF TypeOK
<1>2. /\ 200 \in Status /\ 403 \in Status /\ 404 \in Status
      /\ "done" \in Labels /\ "find" \in Labels /\ NoPaste \in Text \cup {NoPaste}
  BY DEF Status, Labels
<1>3. CASE UNCHANGED vars
  BY <1>3 DEF vars, TypeOK
<1>4. CASE ListenerExits
  BY <1>4 DEF ListenerExits, locals, shared, output, TypeOK
<1>5. ASSUME NEW c \in Conn, Connect(c) \/ Accept(c) \/ Arrive(c) \/ Thread(c)
      PROVE  TypeOK'
  <2> USE DEF GoTo, At, locals, shared, output
  <2>0. /\ \A label \in Labels : [pc EXCEPT ![c] = label] \in [Conn -> Labels]
        /\ {"queued", "recv", "done", "root", "other", "unknown", "bare", "oops", "lookup",
            "insert", "place", "welcome", "check", "text", "find", "store", "forbid"} \subseteq Labels
    BY <1>1 DEF Labels
  <2>1. ASSUME Connect(c) \/ Accept(c) \/ Arrive(c) PROVE TypeOK'
    <3>1. CASE Connect(c)
      BY <1>1, <2>0, <3>1 DEF Connect, TypeOK
    <3>2. CASE Accept(c)
      BY <1>1, <2>0, <3>2 DEF Accept, TypeOK
    <3>3. CASE Arrive(c)
      BY <1>1, <2>0, <3>3 DEF Arrive, TypeOK
    <3>4. QED
      BY <2>1, <3>1, <3>2, <3>3
  <2>2. ASSUME Recv(c) PROVE TypeOK'
    <3>1. PICK r \in Pieces(req[c]) : /\ got' = [got EXCEPT ![c] = r]
                                      /\ GoTo(c, IF r.kind = "login" THEN "lookup" ELSE r.kind)
      BY <2>2 DEF Recv
    <3>2. r \in Request
      BY <1>1, <2>2 DEF Recv, Pieces, Request, Plain
    <3>3. (IF r.kind = "login" THEN "lookup" ELSE r.kind) \in Labels
      BY <3>2, Kinds DEF Request, Labels
    <3>4. pc' \in [Conn -> Labels] /\ got' \in [Conn -> Request \cup {Nothing}]
      BY <1>1, <2>0, <3>1, <3>2, <3>3
    <3>5. QED
      BY <1>1, <2>2, <3>4 DEF Recv, TypeOK
  <2>3. ASSUME Poll(c) PROVE TypeOK'
    BY <1>1, <2>3, BoundsAssumption DEF Poll, TypeOK
  <2>4. ASSUME RecvTimeout(c) PROVE TypeOK'
    BY <1>1, <2>0, <2>4 DEF RecvTimeout, TypeOK
  <2>5. ASSUME Root(c) \/ Other(c) \/ Unknown(c) \/ Forbid(c) PROVE TypeOK'
    <3>1. CASE Root(c) \/ Unknown(c) \/ Forbid(c)
      BY <1>2, <3>1, RespondTypes DEF Root, Unknown, Forbid
    <3>2. CASE Other(c)
      <4>1. Append(sent[c], 200) \in Seq(Status)
        BY <1>1, <1>2, AppendProperties
      <4>2. QED
        BY <1>1, <2>0, <3>2, <4>1 DEF Other, TypeOK
    <3>3. QED
      BY <2>5, <3>1, <3>2
  <2>6. ASSUME Bare(c) PROVE TypeOK'
    <3>1. [kind |-> "login", name |-> Static, pass |-> Static] \in Request
      BY NamesAssumption DEF Request, Login
    <3>2. got' \in [Conn -> Request \cup {Nothing}] /\ pc' \in [Conn -> Labels]
      BY <1>1, <2>0, <2>6, <3>1, ZenonT(30) DEF Bare
    <3>3. QED
      BY <1>1, <2>6, <3>2 DEF Bare, TypeOK
  <2>7. ASSUME Lookup(c) PROVE TypeOK'
    <3>1. got[c] \in Login
      BY <2>7 DEF Lookup, Read
    <3>2. [state |-> "used", name |-> got[c].name, pass |-> got[c].pass, paste |-> NoPaste]
             \in Object
      BY <3>1, Kinds DEF Object
    <3>3. KeyOf(c) \in Key
      BY <3>1, Kinds, NamesAssumption DEF KeyOf
    <3>4. QED
      BY <1>1, <2>0, <2>7, <3>2, <3>3, ZenonT(30) DEF Lookup, TypeOK
  <2>8. ASSUME InsertExists(c) PROVE TypeOK'
    BY <1>1, <2>0, <2>8 DEF InsertExists, TypeOK
  <2>9. ASSUME InsertBegin(c) PROVE TypeOK'
    BY <1>1, <2>0, <2>9 DEF InsertBegin, TypeOK
  <2>10. ASSUME Place(c) PROVE TypeOK'
    <3>1. tree' \in [Key -> Conn \cup {Nil, Wild}]
      <4>1. CASE raced
        <5>1. Range(tree) \cup {c, Nil, Wild} \subseteq Conn \cup {Nil, Wild}
          BY <1>1 DEF Range
        <5>2. QED
          BY <2>10, <4>1, <5>1 DEF Place, Torn
      <4>2. CASE ~raced
        <5>1. tree' = [tree EXCEPT ![KeyOf(c)] = c]
          BY <2>10, <4>2 DEF Place
        <5>2. QED
          BY <1>1, <5>1
      <4>3. QED
        BY <4>1, <4>2
    <3>2. QED
      <4>1. pc' \in [Conn -> Labels] /\ user' \in [Conn -> Conn \cup {Nil, Wild}]
        BY <1>1, <2>0, <2>10 DEF Place
      <4>2. QED
        BY <1>1, <2>10, <3>1, <4>1 DEF Place, TypeOK
  <2>11. ASSUME Welcome(c) \/ Check(c) PROVE TypeOK'
    <3>1. heap[user[c]].paste \in Text \cup {NoPaste}
      <4>1. user[c] \in Conn /\ heap[user[c]] \in Object
        BY <1>1, <2>11 DEF Welcome, Check, Sound, Uses
      <4>2. QED
        BY <4>1 DEF Object
    <3>2. QED
      BY <1>2, <2>11, <3>1, RespondTypes DEF Welcome, Check
  <2>12. ASSUME TextCookie(c) PROVE TypeOK'
    <3>1. CASE got[c].name = NoName
      BY <1>2, <2>12, <3>1, RespondTypes DEF TextCookie
    <3>2. CASE got[c].name # NoName
      <4>1. GoTo(c, "find") /\ UNCHANGED <<listening, locals, shared, output>>
        BY <2>12, <3>2 DEF TextCookie
      <4>2. QED
        BY <1>1, <2>0, <4>1 DEF TypeOK
    <3>3. QED
      BY <3>1, <3>2
  <2>13. ASSUME TextFind(c) PROVE TypeOK'
    <3>1. KeyOf(c) \in Key
      BY <2>13, Kinds, NamesAssumption DEF TextFind, Read, KeyOf
    <3>2. QED
      BY <1>1, <2>0, <2>13, <3>1 DEF TextFind, TypeOK
  <2>14. ASSUME TextStore(c) PROVE TypeOK'
    <3>1. user[c] \in Conn /\ heap[user[c]] \in Object /\ got[c].text \in Text
      BY <1>1, <2>14, Kinds DEF TextStore, Sound, Uses, Read
    <3>2. [heap[user[c]] EXCEPT !.paste = got[c].text] \in Object
      BY <3>1 DEF Object
    <3>3. heap' \in [Conn -> Object \cup {Free}]
      BY <1>1, <2>14, <3>1, <3>2 DEF TextStore
    <3>4. QED
      BY <1>1, <2>0, <2>14, <3>3 DEF TextStore, TypeOK
  <2>15. ASSUME Stray(c) PROVE TypeOK'
    <3>1. CASE pc[c] \in {"check", "store"} /\ GoTo(c, "oops")
               /\ UNCHANGED <<listening, locals, shared, output>>
      BY <1>1, <2>0, <3>1 DEF TypeOK
    <3>2. CASE Respond(c, 403, NoPaste, "done")
      BY <1>2, <3>2, RespondTypes
    <3>3. CASE \E page \in Text \cup {NoPaste} : Respond(c, 200, page, "done")
      BY <1>2, <3>3, RespondTypes
    <3>4. CASE /\ At(c, "store") /\ GoTo(c, "root")
               /\ tree' \in [Key -> Range(tree) \cup {Nil, Wild}]
               /\ UNCHANGED <<listening, locals, heap, raced, output>>
      <4>1. tree' \in [Key -> Conn \cup {Nil, Wild}]
        BY <1>1, <3>4 DEF Range
      <4>2. QED
        BY <1>1, <2>0, <3>4, <4>1 DEF TypeOK
    <3>5. QED
      BY <2>15, <3>1, <3>2, <3>3, <3>4 DEF Stray
  <2>16. QED
    BY <1>5, <2>1, <2>2, <2>3, <2>4, <2>5, <2>6, <2>7, <2>8, <2>9, <2>10, <2>11, <2>12, <2>13,
       <2>14, <2>15 DEF Thread
<1>6. QED
  BY <1>3, <1>4, <1>5 DEF Next

\* What was read changes once, or becomes the user "static" where nothing was to be read.
LEMMA ReadOnce ==
  ASSUME TypeOK, Read, NEW c \in Conn, Connect(c) \/ Accept(c) \/ Arrive(c) \/ Thread(c)
  PROVE  \/ got'[c] = got[c]
         \/ At(c, "recv") /\ got[c] = Nothing
         \/ At(c, "bare") /\ got[c] \in Plain
<1> USE DEF TypeOK, GoTo, At, Respond, locals, shared, output
<1>1. CASE Connect(c) \/ Accept(c) \/ Arrive(c)
  BY <1>1 DEF Connect, Accept, Arrive
<1>2. CASE Recv(c) \/ Poll(c) \/ RecvTimeout(c) \/ Bare(c)
  BY <1>2 DEF Recv, Poll, RecvTimeout, Bare, Read
<1>3. CASE Root(c) \/ Other(c) \/ Unknown(c) \/ Welcome(c) \/ Check(c) \/ Forbid(c) \/ TextCookie(c)
  BY <1>3 DEF Root, Other, Unknown, Welcome, Check, Forbid, TextCookie
<1>4. CASE Lookup(c) \/ InsertExists(c) \/ InsertBegin(c) \/ Place(c)
  BY <1>4 DEF Lookup, InsertExists, InsertBegin, Place
<1>5. CASE TextFind(c) \/ TextStore(c) \/ Stray(c)
  BY <1>5 DEF TextFind, TextStore, Stray
<1>6. QED
  BY <1>1, <1>2, <1>3, <1>4, <1>5 DEF Thread

\* Every step keeps what was read by the time a label is reached.
LEMMA ReadStep == TypeOK /\ Read /\ [Next]_vars => Read'
<1> SUFFICES ASSUME TypeOK, Read, [Next]_vars PROVE Read'
  OBVIOUS
<1>1. CASE UNCHANGED vars
  BY <1>1 DEF vars, Read
<1>2. CASE ListenerExits
  BY <1>2 DEF ListenerExits, locals, Read
<1>3. ASSUME NEW c \in Conn, Connect(c) \/ Accept(c) \/ Arrive(c) \/ Thread(c)
      PROVE  Read'
  <2> DEFINE Known == /\ pc'[c] \in {"idle", "queued", "recv"} => got'[c] = Nothing
                      /\ pc'[c] \in {"lookup", "insert", "place", "welcome", "check"}
                            => got'[c] \in Login
                      /\ pc'[c] \in {"text", "find", "store", "forbid"} => got'[c] \in Post
                      /\ pc'[c] \in {"bare", "unknown", "other"} => got'[c] \in Plain
                      /\ pc'[c] = "root" => got'[c] # Nothing
  <2>1. Known => Read'
    BY <1>3, Frame DEF Read
  <2> USE DEF GoTo, At, locals, shared, output
  <2>2. pc \in [Conn -> Labels] /\ got \in [Conn -> Request \cup {Nothing}]
        /\ req \in [Conn -> Request \cup {Nothing}]
    BY DEF TypeOK
  <2>3. ASSUME Connect(c) \/ Accept(c) \/ Arrive(c) PROVE Known
    BY <2>2, <2>3 DEF Connect, Accept, Arrive, Read
  <2>4. ASSUME Recv(c) PROVE Known
    <3>1. PICK r \in Pieces(req[c]) : /\ got' = [got EXCEPT ![c] = r]
                                      /\ GoTo(c, IF r.kind = "login" THEN "lookup" ELSE r.kind)
      BY <2>4 DEF Recv
    <3>2. r \in Login \/ r \in Post \/ r \in Plain
      BY <2>2, <2>4 DEF Recv, Pieces, Request, Plain
    <3>3. got'[c] = r /\ pc'[c] = (IF r.kind = "login" THEN "lookup" ELSE r.kind)
      BY <2>2, <3>1
    <3>4. CASE r \in Login
      BY <3>3, <3>4, Kinds
    <3>5. CASE r \in Post
      BY <3>3, <3>5, Kinds
    <3>6. CASE r \in Plain
      BY <3>3, <3>6, Kinds
    <3>7. QED
      BY <3>2, <3>4, <3>5, <3>6
  <2>5. ASSUME Poll(c) \/ RecvTimeout(c) PROVE Known
    BY <2>2, <2>5 DEF Poll, RecvTimeout, Read
  <2>6. ASSUME Root(c) \/ Other(c) \/ Unknown(c) \/ Welcome(c) \/ Check(c) \/ Forbid(c) PROVE Known
    BY <2>2, <2>6 DEF Root, Other, Unknown, Welcome, Check, Forbid, Respond
  <2>7. ASSUME Bare(c) PROVE Known
    <3>1. [kind |-> "login", name |-> Static, pass |-> Static] \in Login
      BY NamesAssumption DEF Login
    <3>2. QED
      BY <2>2, <2>7, <3>1 DEF Bare
  <2>8. ASSUME Lookup(c) \/ InsertExists(c) \/ InsertBegin(c) PROVE Known
    BY <2>2, <2>8 DEF Lookup, InsertExists, InsertBegin, Read
  <2>9. ASSUME Place(c) PROVE Known
    BY <2>2, <2>9 DEF Place, Read
  <2>10. ASSUME TextCookie(c) \/ TextFind(c) \/ TextStore(c) PROVE Known
    BY <2>2, <2>10, Kinds DEF TextCookie, TextFind, TextStore, Respond, Read
  <2>11. ASSUME Stray(c) PROVE Known
    BY <2>2, <2>11, Kinds DEF Stray, Respond, Read
  <2>12. QED
    BY <1>3, <2>1, <2>3, <2>4, <2>5, <2>6, <2>7, <2>8, <2>9, <2>10, <2>11 DEF Thread
<1>4. QED
  BY <1>1, <1>2, <1>3 DEF Next

-----------------------------------------------------------------------------
(* The tree, the objects and the pointers *)

\* Most steps touch none of them, nor bring a thread to where it may use them.
Calm(c) == /\ UNCHANGED <<tree, heap, user>> /\ (raced => raced')
           /\ pc'[c] \notin {"welcome", "check", "store"}
           /\ pc'[c] \in {"insert", "place"} => pc[c] \in {"insert", "place"} /\ got'[c] = got[c]
           /\ pc'[c] \in Early => pc[c] \in Early
           /\ pc'[c] = "place" => Racing \/ pc[c] = "place"

\* All steps but six are calm.
LEMMA CalmSteps ==
  ASSUME TypeOK, NEW c \in Conn,
         \/ Connect(c) \/ Accept(c) \/ Arrive(c) \/ Recv(c) \/ Poll(c) \/ RecvTimeout(c)
         \/ Root(c) \/ Other(c) \/ Unknown(c) \/ Bare(c) \/ InsertBegin(c) \/ Welcome(c) \/ Check(c)
         \/ TextCookie(c) \/ Forbid(c)
  PROVE  Calm(c)
<1> USE DEF GoTo, At, locals, shared, output, Calm, Early
<1>1. /\ pc \in [Conn -> Labels] /\ got \in [Conn -> Request \cup {Nothing}]
      /\ req \in [Conn -> Request \cup {Nothing}]
  BY DEF TypeOK
<1>2. CASE Connect(c) \/ Accept(c) \/ Arrive(c)
  BY <1>1, <1>2 DEF Connect, Accept, Arrive
<1>3. ASSUME Recv(c) PROVE Calm(c)
  <2>1. PICK r \in Pieces(req[c]) : /\ got' = [got EXCEPT ![c] = r]
                                    /\ GoTo(c, IF r.kind = "login" THEN "lookup" ELSE r.kind)
    BY <1>3 DEF Recv
  <2>2. r \in Login \/ r \in Post \/ r \in Plain
    BY <1>1, <1>3 DEF Recv, Pieces, Request, Plain
  <2>3. pc'[c] \in {"lookup", "text", "root", "other", "bare", "unknown"}
    BY <1>1, <2>1, <2>2, Kinds
  <2>4. QED
    BY <1>3, <2>3 DEF Recv
<1>4. CASE Poll(c) \/ RecvTimeout(c)
  BY <1>1, <1>4 DEF Poll, RecvTimeout
<1>5. CASE Bare(c)
  BY <1>1, <1>5 DEF Bare
<1>6. CASE Root(c) \/ Other(c) \/ Unknown(c) \/ Welcome(c) \/ Check(c) \/ Forbid(c)
  BY <1>1, <1>6 DEF Root, Other, Unknown, Welcome, Check, Forbid, Respond
<1>7. CASE InsertBegin(c)
  BY <1>1, <1>7 DEF InsertBegin
<1>8. CASE TextCookie(c)
  BY <1>1, <1>8 DEF TextCookie, Respond
<1>9. QED
  BY <1>2, <1>3, <1>4, <1>5, <1>6, <1>7, <1>8

\* Every step keeps the tree and the pointers sound.
LEMMA SoundStep == TypeOK /\ Read /\ Sound /\ Read' /\ [Next]_vars => Sound'
<1> SUFFICES ASSUME TypeOK, Read, Sound, Read', [Next]_vars PROVE Sound'
  OBVIOUS
<1>1. /\ pc \in [Conn -> Labels] /\ got \in [Conn -> Request \cup {Nothing}]
      /\ tree \in [Key -> Conn \cup {Nil, Wild}] /\ heap \in [Conn -> Object \cup {Free}]
      /\ user \in [Conn -> Conn \cup {Nil, Wild}]
  BY DEF TypeOK
<1>2. Allocates /\ Owns /\ Unseen /\ Linked /\ Uses
  BY DEF Sound
<1>3. CASE UNCHANGED vars
  BY <1>3 DEF vars, Sound, Allocates, Owns, Unseen, Linked, Uses, KeyOf
<1>4. CASE ListenerExits
  BY <1>4 DEF ListenerExits, locals, shared, Sound, Allocates, Owns, Unseen, Linked, Uses, KeyOf
<1>5. ASSUME NEW c \in Conn, Connect(c) \/ Accept(c) \/ Arrive(c) \/ Thread(c)
      PROVE  Sound'
  <2> USE DEF GoTo, At, locals, shared, output
  <2>1. \A d \in Conn \ {c} : pc'[d] = pc[d] /\ got'[d] = got[d] /\ user'[d] = user[d]
    BY <1>5, Frame
  <2>2. ASSUME Calm(c) PROVE Sound'
    <3>1. UNCHANGED <<tree, heap, user>>
      BY <2>2 DEF Calm
    <3>2. Allocates'
      BY <1>2, <2>1, <2>2 DEF Calm, Allocates
    <3>3. Owns'
      BY <1>2, <2>1, <2>2 DEF Calm, Owns
    <3>4. Unseen' /\ Linked'
      BY <1>2, <2>1, <2>2 DEF Calm, Unseen, Linked
    <3>5. Uses'
      BY <1>2, <2>1, <2>2 DEF Calm, Uses, KeyOf
    <3>6. QED
      BY <3>2, <3>3, <3>4, <3>5 DEF Sound
  <2>3. ASSUME Lookup(c) PROVE Sound'
    <3>1. /\ got'[c] = got[c] /\ UNCHANGED <<tree, raced>> /\ got[c] \in Login /\ KeyOf(c) \in Key
          /\ pc[c] = "lookup" /\ heap[c] = Free /\ user'[c] = tree[KeyOf(c)]
      BY <1>1, <1>2, <2>3, Kinds, NamesAssumption DEF Lookup, Read, KeyOf, Allocates, Early
    <3>2. (\A k \in Key : tree[k] # c) /\ \A d \in Conn : user[d] # c
      BY <1>2, <3>1 DEF Unseen
    <3>3. \A d \in Conn \ {c} : heap'[d] = heap[d]
      BY <1>1, <2>3 DEF Lookup
    <3>4. CASE tree[KeyOf(c)] = Nil
      <4>1. /\ pc'[c] = "insert" /\ user'[c] = Nil /\ user'[c] # c
            /\ heap'[c] = [state |-> "used", name |-> got[c].name, pass |-> got[c].pass,
                           paste |-> NoPaste]
        BY <1>1, <2>3, <3>1, <3>4, NamesAssumption DEF Lookup
      <4>2. heap'[c] \in Object
        BY <3>1, <4>1, Kinds DEF Object
      <4>3. Allocates' /\ Owns'
        BY <1>2, <2>1, <3>1, <3>3, <4>1, <4>2 DEF Allocates, Owns, Early
      <4>4. Unseen'
        BY <1>2, <2>1, <3>1, <3>2, <3>3, <4>1, NamesAssumption DEF Unseen
      <4>5. Linked'
        BY <1>1, <1>2, <3>1, <3>2, <3>3 DEF Linked
      <4>6. Uses'
        BY <1>1, <1>2, <2>1, <3>1, <3>2, <3>3, <4>1 DEF Uses, KeyOf
      <4>7. QED
        BY <4>3, <4>4, <4>5, <4>6 DEF Sound
    <3>5. CASE tree[KeyOf(c)] # Nil
      <4>1. pc'[c] = "check" /\ heap' = heap
        BY <1>1, <2>3, <3>5 DEF Lookup
      <4>2. /\ tree[KeyOf(c)] \in Conn => heap[tree[KeyOf(c)]] \in Object
            /\ ~raced' => tree[KeyOf(c)] \in Conn /\ Hash[heap[tree[KeyOf(c)]].name] = KeyOf(c)
        BY <1>2, <2>3, <3>1, <3>5 DEF Lookup, Linked
      <4>3. Allocates' /\ Owns' /\ Linked'
        BY <1>2, <2>1, <3>1, <4>1 DEF Allocates, Owns, Linked, Early
      <4>4. Unseen'
        BY <1>2, <2>1, <3>1, <4>1 DEF Unseen
      <4>5. Uses'
        BY <1>2, <2>1, <3>1, <3>5, <4>1, <4>2 DEF Uses, KeyOf
      <4>6. QED
        BY <4>3, <4>4, <4>5 DEF Sound
    <3>6. QED
      BY <3>4, <3>5
  <2>4. ASSUME InsertExists(c) PROVE Sound'
    <3>1. /\ pc[c] \in {"insert", "place"} /\ pc'[c] = "done" /\ heap'[c] = Free
          /\ UNCHANGED <<tree, user, got, raced>>
          /\ \A d \in Conn \ {c} : heap'[d] = heap[d]
      BY <1>1, <2>4 DEF InsertExists
    <3>2. (\A k \in Key : tree[k] # c) /\ \A d \in Conn : user[d] # c
      BY <1>2, <3>1 DEF Unseen
    <3>3. Allocates' /\ Owns'
      BY <1>2, <2>1, <3>1 DEF Allocates, Owns, Early
    <3>4. Unseen'
      BY <1>2, <2>1, <3>1, <3>2 DEF Unseen
    <3>5. Linked'
      BY <1>1, <1>2, <3>1, <3>2 DEF Linked
    <3>6. Uses'
      BY <1>1, <1>2, <2>1, <3>1, <3>2 DEF Uses, KeyOf
    <3>7. QED
      BY <3>3, <3>4, <3>5, <3>6 DEF Sound
  <2>5. ASSUME Place(c) PROVE Sound'
    <3>1. /\ pc[c] \in {"insert", "place"} /\ UNCHANGED <<heap, got, raced>>
          /\ \/ pc'[c] = "welcome" /\ user'[c] = c
             \/ pc'[c] = "oops" /\ user'[c] = user[c] /\ raced
      BY <1>1, <2>5 DEF Place
    <3>2. \A k \in Key : \/ tree'[k] \in {c, Nil, Wild}
                         \/ \E j \in Key : tree'[k] = tree[j]
      <4>1. CASE raced
        BY <1>1, <2>5, <4>1 DEF Place, Torn, Range
      <4>2. CASE ~raced
        <5>1. tree' = [tree EXCEPT ![KeyOf(c)] = c]
          BY <2>5, <4>2 DEF Place
        <5>2. QED
          BY <1>1, <5>1
      <4>3. QED
        BY <4>1, <4>2
    <3>3. ~raced => \A k \in Key : tree'[k] = IF k = KeyOf(c) THEN c ELSE tree[k]
      BY <1>1, <2>5 DEF Place
    <3>4. heap[c] \in Object /\ Hash[heap[c].name] = KeyOf(c)
      BY <1>2, <3>1 DEF Owns, KeyOf
    <3>5. Allocates' /\ Owns'
      BY <1>2, <2>1, <3>1 DEF Allocates, Owns, Early
    <3>6. Unseen'
      <4>1. SUFFICES ASSUME NEW d \in Conn, heap'[d] = Free \/ pc'[d] \in {"insert", "place"}
                     PROVE  (\A k \in Key : tree'[k] # d) /\ \A e \in Conn : user'[e] # d
        BY DEF Unseen
      <4>2. d # c /\ (heap[d] = Free \/ pc[d] \in {"insert", "place"})
        BY <2>1, <3>1, <3>4, <4>1, Kinds
      <4>3. (\A k \in Key : tree[k] # d) /\ \A e \in Conn : user[e] # d
        BY <1>2, <4>2 DEF Unseen
      <4>4. QED
        BY <2>1, <3>1, <3>2, <4>2, <4>3, NamesAssumption
    <3>7. Linked'
      <4>1. \A k \in Key : tree'[k] \in Conn => heap'[tree'[k]] \in Object
        BY <1>2, <3>1, <3>2, <3>4, NamesAssumption DEF Linked
      <4>2. \A k \in Key : ~raced /\ tree'[k] # Nil => tree'[k] \in Conn /\ Hash[heap[tree'[k]].name] = k
        BY <1>2, <3>3, <3>4 DEF Linked
      <4>3. QED
        BY <3>1, <4>1, <4>2 DEF Linked
    <3>8. Uses'
      BY <1>2, <2>1, <3>1, <3>4, NamesAssumption DEF Uses, KeyOf
    <3>9. QED
      BY <3>5, <3>6, <3>7, <3>8 DEF Sound
  <2>6. ASSUME TextFind(c) PROVE Sound'
    <3>1. /\ UNCHANGED <<tree, heap, got, raced>>
          /\ pc[c] = "find" /\ pc'[c] = (IF tree[KeyOf(c)] = Nil THEN "forbid" ELSE "store")
          /\ user'[c] = tree[KeyOf(c)] /\ KeyOf(c) \in Key
      BY <1>1, <2>6, Kinds, NamesAssumption DEF TextFind, Read, KeyOf
    <3>2. Allocates' /\ Owns' /\ Linked'
      BY <1>2, <2>1, <3>1 DEF Allocates, Owns, Linked, Early
    <3>3. Unseen'
      BY <1>2, <2>1, <3>1 DEF Unseen
    <3>4. Uses'
      BY <1>2, <2>1, <3>1 DEF Uses, Linked, KeyOf
    <3>5. QED
      BY <3>2, <3>3, <3>4 DEF Sound
  <2>7. ASSUME TextStore(c) PROVE Sound'
    <3>1. /\ UNCHANGED <<tree, user, got, raced>> /\ pc[c] = "store" /\ pc'[c] = "root"
          /\ user[c] \in Conn /\ heap[user[c]] \in Object /\ got[c].text \in Text
      BY <1>1, <1>2, <2>7, Kinds DEF TextStore, Uses, Read
    <3>2. /\ heap'[user[c]] \in Object
          /\ heap'[user[c]].name = heap[user[c]].name /\ heap'[user[c]].pass = heap[user[c]].pass
      BY <1>1, <2>7, <3>1 DEF TextStore, Object
    <3>3. \A d \in Conn : d # user[c] => heap'[d] = heap[d]
      BY <1>1, <2>7, <3>1 DEF TextStore
    <3>4. pc[user[c]] \notin {"insert", "place"} /\ pc[user[c]] \notin Early
      BY <1>2, <3>1, Kinds DEF Unseen, Allocates
    <3>5. Allocates' /\ Owns'
      BY <1>2, <2>1, <3>1, <3>3, <3>4 DEF Allocates, Owns, Early
    <3>6. Unseen'
      BY <1>2, <2>1, <3>1, <3>2, <3>3, Kinds DEF Unseen
    <3>7. Linked'
      BY <1>1, <1>2, <3>1, <3>2, <3>3 DEF Linked
    <3>8. Uses'
      BY <1>1, <1>2, <2>1, <3>1, <3>2, <3>3 DEF Uses, KeyOf
    <3>9. QED
      BY <3>5, <3>6, <3>7, <3>8 DEF Sound
  <2>8. ASSUME Stray(c) PROVE Sound'
    <3>1. /\ UNCHANGED <<heap, got, user, raced>> /\ pc[c] \in {"check", "store"}
          /\ pc'[c] \in {"oops", "done", "root"} /\ raced
      BY <1>1, <1>2, <2>8, NamesAssumption DEF Stray, Respond, Uses
    <3>2. \A k \in Key : tree'[k] \in {Nil, Wild} \/ \E j \in Key : tree'[k] = tree[j]
      BY <1>1, <2>8 DEF Stray, Respond, Range
    <3>3. Allocates' /\ Owns'
      BY <1>2, <2>1, <3>1 DEF Allocates, Owns, Early
    <3>4. Unseen'
      BY <1>2, <2>1, <3>1, <3>2, NamesAssumption DEF Unseen
    <3>5. Linked' /\ Uses'
      BY <1>2, <2>1, <3>1, <3>2, NamesAssumption DEF Linked, Uses
    <3>6. QED
      BY <3>3, <3>4, <3>5 DEF Sound
  <2>9. QED
    BY <1>5, <2>2, <2>3, <2>4, <2>5, <2>6, <2>7, <2>8, CalmSteps DEF Thread
<1>6. QED
  BY <1>3, <1>4, <1>5 DEF Next

\* What the next two invariants rest on.
Base == TypeOK /\ Read /\ Sound

\* No thread runs at first.
LEMMA BaseInit == Init => Base
<1> SUFFICES ASSUME Init PROVE Base
  OBVIOUS
<1>1. TypeOK
  <2>1. sent \in [Conn -> Seq(Status)]
    BY EmptySeq DEF Init
  <2>2. listening \in BOOLEAN /\ raced \in BOOLEAN /\ broken \in [Conn -> BOOLEAN]
    BY Zenon DEF Init
  <2>3. /\ pc \in [Conn -> Labels] /\ polls \in [Conn -> 0..MaxPolls]
        /\ tree \in [Key -> Conn \cup {Nil, Wild}] /\ user \in [Conn -> Conn \cup {Nil, Wild}]
        /\ heap \in [Conn -> Object \cup {Free}] /\ shown \in [Conn -> Text \cup {NoPaste}]
        /\ req \in [Conn -> Request \cup {Nothing}] /\ got \in [Conn -> Request \cup {Nothing}]
    BY BoundsAssumption DEF Init, Labels
  <2>4. QED
    BY <2>1, <2>2, <2>3 DEF TypeOK
<1>2. Read /\ Allocates /\ Owns
  BY DEF Init, Read, Allocates, Owns
<1>3. Unseen /\ Linked /\ Uses
  BY NamesAssumption DEF Init, Unseen, Linked, Uses
<1>4. QED
  BY <1>1, <1>2, <1>3 DEF Base, Sound

\* Every step keeps the base.
LEMMA BaseStep == Base /\ [Next]_vars => Base'
  BY TypeStep, ReadStep, SoundStep DEF Base

\* The type invariant.
THEOREM TypeCorrect == Spec => []TypeOK
<1>1. Base => TypeOK
  BY DEF Base
<1>2. QED
  BY <1>1, BaseInit, BaseStep, PTL DEF Spec

\* Until two insertions overlap, the tree leads only to whole objects that were not freed,
\* each under the key of its name, and a thread uses only such.
THEOREM TreeStaysSound == Spec => []TreeSound
<1>1. Base => TreeSound
  BY Kinds DEF Base, Sound, Linked, Uses, TreeSound
<1>2. QED
  BY <1>1, BaseInit, BaseStep, PTL DEF Spec

-----------------------------------------------------------------------------
(* Pastes stay with their key *)

\* What was posted under a key stays so: a request is not forgotten.
LEMMA PostsRemain ==
  ASSUME Base, NEW c \in Conn, Connect(c) \/ Accept(c) \/ Arrive(c) \/ Thread(c)
  PROVE  \A k \in Key : PostedUnder(k) \subseteq PostedUnder(k)'
<1>1. \A d \in Conn : got[d].kind = "text" => got'[d] = got[d]
  BY Frame, ReadOnce, Kinds DEF Base, Nothing
<1>2. QED
  BY <1>1 DEF PostedUnder

\* A page shows nothing, or what the thread's object holds, if it has one.
LEMMA Pages ==
  ASSUME TypeOK, NEW c \in Conn, Connect(c) \/ Accept(c) \/ Arrive(c) \/ Thread(c)
  PROVE  \/ shown'[c] \in {shown[c], NoPaste}
         \/ pc[c] \in {"welcome", "check"} /\ shown'[c] = heap[user[c]].paste
         \/ pc[c] = "check" /\ user[c] = Wild
<1> USE DEF TypeOK, GoTo, At, Respond, locals, shared, output
<1>1. CASE Connect(c) \/ Accept(c) \/ Arrive(c)
  BY <1>1 DEF Connect, Accept, Arrive
<1>2. CASE Recv(c) \/ Poll(c) \/ RecvTimeout(c) \/ Bare(c)
  BY <1>2 DEF Recv, Poll, RecvTimeout, Bare
<1>3. CASE Root(c) \/ Other(c) \/ Unknown(c) \/ Welcome(c) \/ Check(c) \/ Forbid(c) \/ TextCookie(c)
  BY <1>3 DEF Root, Other, Unknown, Welcome, Check, Forbid, TextCookie
<1>4. CASE Lookup(c) \/ InsertExists(c) \/ InsertBegin(c) \/ Place(c)
  BY <1>4 DEF Lookup, InsertExists, InsertBegin, Place
<1>5. CASE TextFind(c) \/ TextStore(c) \/ Stray(c)
  BY <1>5 DEF TextFind, TextStore, Stray
<1>6. QED
  BY <1>1, <1>2, <1>3, <1>4, <1>5 DEF Thread

\* What objects keep comes from posts under their key.
LEMMA ObjectsKeep ==
  ASSUME Base, Base', PastesStay, ~raced, NEW c \in Conn, Connect(c) \/ Accept(c) \/ Arrive(c) \/ Thread(c),
         NEW d \in Conn, heap'[d] # Free, NEW k \in Key, Hash[heap'[d].name] = k
  PROVE  heap'[d].paste \in {NoPaste} \cup PostedUnder(k)'
<1> DEFINE Goal == heap'[d].paste \in {NoPaste} \cup PostedUnder(k)'
<1>1. heap \in [Conn -> Object \cup {Free}] /\ heap'[d] \in Object
  BY DEF Base, TypeOK
<1>2. PostedUnder(k) \subseteq PostedUnder(k)'
  BY PostsRemain
<1>3. ASSUME heap[d] # Free, heap'[d].name = heap[d].name, heap'[d].paste = heap[d].paste
      PROVE  Goal
  <2>1. heap[d].paste \in {NoPaste} \cup PostedUnder(k)
    BY <1>3 DEF PastesStay
  <2>2. QED
    BY <1>2, <1>3, <2>1
<1>4. CASE heap'[d] = heap[d]
  BY <1>3, <1>4
<1>5. ASSUME Calm(c) PROVE Goal
  BY <1>4, <1>5 DEF Calm
<1>6. ASSUME Lookup(c) PROVE Goal
  <2>1. heap'[d] = heap[d] \/ heap'[d].paste = NoPaste
    BY <1>1, <1>6 DEF Lookup
  <2>2. QED
    BY <1>4, <2>1
<1>7. ASSUME InsertExists(c) PROVE Goal
  BY <1>1, <1>4, <1>7 DEF InsertExists
<1>8. ASSUME Place(c) \/ TextFind(c) \/ Stray(c) PROVE Goal
  BY <1>4, <1>8 DEF Place, TextFind, Stray, Respond, shared
<1>9. ASSUME TextStore(c) PROVE Goal
  <2>1. /\ pc[c] = "store" /\ got[c] \in Post /\ got' = got /\ got[c].text \in Text
        /\ user[c] \in Conn /\ heap[user[c]] \in Object /\ Hash[heap[user[c]].name] = KeyOf(c)
    BY <1>9, Kinds DEF TextStore, At, locals, Base, TypeOK, Read, Sound, Uses
  <2>2. CASE d = user[c]
    <3>1. heap'[d].paste = got[c].text /\ Hash[heap'[d].name] = KeyOf(c)
      BY <1>1, <1>9, <2>1, <2>2 DEF TextStore, Object
    <3>2. got[c].text \in PostedUnder(k)'
      BY <2>1, <3>1, Kinds DEF PostedUnder, KeyOf
    <3>3. QED
      BY <3>1, <3>2
  <2>3. CASE d # user[c]
    BY <1>1, <1>4, <1>9, <2>1, <2>3 DEF TextStore
  <2>4. QED
    BY <2>2, <2>3
<1>10. QED
  BY <1>5, <1>6, <1>7, <1>8, <1>9, CalmSteps DEF Thread, Base

\* Insertions that have overlapped have done so for good.
LEMMA RacedStays == TypeOK /\ [Next]_vars => (raced => raced')
  BY Frame, BoundsAssumption DEF Next, vars, ListenerExits, shared

\* Every step keeps the pastes with their key.
LEMMA PastesStep == Base /\ Base' /\ PastesStay /\ [Next]_vars => PastesStay'
<1> SUFFICES ASSUME Base, Base', PastesStay, [Next]_vars, ~raced' PROVE PastesStay'
  BY DEF PastesStay
<1>0. ~raced
  BY RacedStays DEF Base
<1>1. CASE UNCHANGED vars
  BY <1>0, <1>1 DEF vars, PastesStay, PostedUnder, KeyOf
<1>2. CASE ListenerExits
  BY <1>0, <1>2 DEF ListenerExits, locals, shared, output, PastesStay, PostedUnder, KeyOf
<1>3. ASSUME NEW c \in Conn, Connect(c) \/ Accept(c) \/ Arrive(c) \/ Thread(c)
      PROVE  PastesStay'
  <2>1. ASSUME NEW d \in Conn, shown'[d] # NoPaste
        PROVE  got'[d].kind = "login" /\ shown'[d] \in PostedUnder(KeyOf(d))'
    <3>1. CASE shown'[d] = shown[d]
      <4>1. got[d].kind = "login" /\ shown[d] \in PostedUnder(KeyOf(d))
        BY <1>0, <2>1, <3>1 DEF PastesStay
      <4>2. got'[d] = got[d] /\ got[d] \in Login
        <5>1. got[d] \in Login \cup Post \cup Plain \cup {Nothing}
          BY DEF Base, TypeOK, Request
        <5>2. got[d] \in Login /\ got[d] # Nothing /\ got[d] \notin Plain
          BY <4>1, <5>1, Kinds DEF Nothing
        <5>3. d # c => got'[d] = got[d]
          BY <1>3, Frame DEF Base
        <5>4. d = c => got'[d] = got[d]
          BY <1>3, <5>2, ReadOnce DEF Base
        <5>5. QED
          BY <5>2, <5>3, <5>4
      <4>3. PICK k \in Key : KeyOf(d) = k /\ KeyOf(d)' = k
        BY <4>2, Kinds, NamesAssumption DEF KeyOf
      <4>4. PostedUnder(k) \subseteq PostedUnder(k)'
        BY <1>3, PostsRemain
      <4>5. QED
        BY <3>1, <4>1, <4>2, <4>3, <4>4 DEF PostedUnder
    <3>2. CASE shown'[d] # shown[d]
      <4>1. d = c /\ pc[c] \in {"welcome", "check"} /\ shown'[c] = heap[user[c]].paste
        BY <1>0, <1>3, <2>1, <3>2, Frame, Pages, NamesAssumption DEF Base, Sound, Uses
      <4>2. got[c] \in Login /\ got'[c] = got[c]
        BY <1>3, <4>1, ReadOnce, Kinds DEF Base, Read, At
      <4>3. user[c] \in Conn /\ heap[user[c]] # Free /\ Hash[heap[user[c]].name] = KeyOf(c)
        BY <1>0, <4>1, Kinds DEF Base, TypeOK, Sound, Uses
      <4>4. shown'[c] \in PostedUnder(KeyOf(c))
        BY <1>0, <2>1, <4>1, <4>3 DEF PastesStay
      <4>5. PICK k \in Key : KeyOf(c) = k /\ KeyOf(c)' = k
        BY <4>2, Kinds, NamesAssumption DEF KeyOf
      <4>6. PostedUnder(k) \subseteq PostedUnder(k)'
        BY <1>3, PostsRemain
      <4>7. QED
        BY <4>1, <4>2, <4>4, <4>5, <4>6, Kinds DEF PostedUnder
    <3>3. QED
      BY <3>1, <3>2
  <2>2. ASSUME NEW d \in Conn, heap'[d] # Free
        PROVE  heap'[d].paste \in {NoPaste} \cup PostedUnder(Hash[heap[d].name])'
    <3>1. PICK k \in Key : Hash[heap'[d].name] = k
      BY <2>2, Kinds, NamesAssumption DEF Base, TypeOK
    <3>2. QED
      BY <1>0, <1>3, <2>2, <3>1, ObjectsKeep DEF PostedUnder
  <2>3. QED
    BY <2>1, <2>2 DEF PastesStay
<1>4. QED
  BY <1>1, <1>2, <1>3 DEF Next

\* Nothing moves between users but by a collision of jhash: what an object keeps and
\* what a page shows was posted under a name with the key.
THEOREM PastesKept == Spec => []PastesStay
<1>1. Init => PastesStay
  BY DEF Init, PastesStay
<1>2. QED
  BY <1>1, BaseInit, BaseStep, PastesStep, PTL DEF Spec

-----------------------------------------------------------------------------
(* One answer *)

\* An object that is in the tree, or was, is there for good under its name.
LEMMA ObjectsStay ==
  ASSUME Base, NEW c \in Conn, Connect(c) \/ Accept(c) \/ Arrive(c) \/ Thread(c),
         NEW d \in Conn, heap[d] # Free, pc[d] \notin {"insert", "place"}
  PROVE  /\ heap'[d] # Free /\ pc'[d] \notin {"insert", "place"}
         /\ heap'[d].name = heap[d].name
<1> USE DEF GoTo, At, locals, shared, output
<1>1. /\ pc \in [Conn -> Labels] /\ heap \in [Conn -> Object \cup {Free}]
      /\ heap[d] \in Object
      /\ d # c => pc'[d] = pc[d]
  BY Frame DEF Base, TypeOK
<1>2. CASE Calm(c)
  BY <1>1, <1>2, Kinds DEF Calm
<1>3. CASE Lookup(c)
  BY <1>1, <1>3, Kinds DEF Lookup, Base, Sound, Allocates, Early
<1>4. CASE InsertExists(c)
  BY <1>1, <1>4, Kinds DEF InsertExists
<1>5. CASE Place(c) \/ TextFind(c) \/ Stray(c)
  BY <1>1, <1>5, Kinds DEF Place, TextFind, Stray, Respond
<1>6. CASE TextStore(c)
  <2>1. user[c] \in Conn /\ heap[user[c]] \in Object
    BY <1>6 DEF TextStore, Base, TypeOK, Sound, Uses
  <2>2. heap'[d] # Free /\ heap'[d].name = heap[d].name
    BY <1>1, <1>6, <2>1, Kinds DEF TextStore, Object, Free
  <2>3. QED
    BY <1>1, <1>6, <2>2 DEF TextStore
<1>7. QED
  BY <1>2, <1>3, <1>4, <1>5, <1>6, CalmSteps DEF Thread, Base

Answers == Silent /\ Twice /\ Excused

\* What Answers says of one connection.
AnswersOf(c) ==
   /\ pc[c] \in (Early \ {"find"}) \cup {"unknown", "insert", "place", "welcome", "check"}
         => sent[c] = <<>>
   /\ pc[c] \in {"root", "other", "find", "store", "forbid"} => sent[c] = <<>> \/ Bars(c)
   /\ got[c] = Nothing => sent[c] = <<>>
   /\ Len(sent[c]) > 1 => got[c] \in Post /\ got[c].name = NoName /\ sent[c][1] = 403
   /\ At(c, "done") /\ sent[c] = <<>> =>
         \/ broken[c] \/ got[c] = Nothing
         \/ got[c] \in Login /\ user[c] = Nil /\ (raced \/ Beaten(c))

\* The last answer of a connection, after none or the 403 for a missing cookie.
LEMMA LastAnswer ==
  ASSUME TypeOK, NEW c \in Conn, NEW status \in Status, NEW page, got[c] # Nothing,
         sent[c] = <<>> \/ Bars(c), Respond(c, status, page, "done")
  PROVE  AnswersOf(c)'
<1>1. pc'[c] = "done" /\ got' = got /\ user' = user
  BY DEF TypeOK, Respond, GoTo, locals
<1>2. \/ sent'[c] = Append(sent[c], status)
      \/ broken'[c] = TRUE /\ sent'[c] = sent[c]
  BY DEF TypeOK, Respond
<1>3. sent[c] \in Seq(Status)
  BY DEF TypeOK
<1>4. /\ Append(sent[c], status) # <<>> /\ Len(Append(sent[c], status)) = Len(sent[c]) + 1
      /\ \A i \in 1..Len(sent[c]) : Append(sent[c], status)[i] = sent[c][i]
  BY <1>3, AppendProperties
<1>5. sent[c] = <<>> => Len(sent[c]) = 0
  BY <1>3
<1>6. Bars(c) => Len(sent[c]) = 1 /\ sent[c][1] = 403
  BY DEF Bars
<1>7. Len(sent'[c]) > 1 => got'[c] \in Post /\ got'[c].name = NoName /\ sent'[c][1] = 403
  BY <1>1, <1>2, <1>4, <1>5, <1>6 DEF Bars
<1>8. sent'[c] = <<>> => broken'[c]
  BY <1>2, <1>4
<1>9. QED
  BY <1>1, <1>7, <1>8 DEF AnswersOf, Early, At

\* A step of a connection keeps what Answers says of it.
LEMMA OwnAnswers ==
  ASSUME Base, NEW c \in Conn, AnswersOf(c), Connect(c) \/ Accept(c) \/ Arrive(c) \/ Thread(c)
  PROVE  AnswersOf(c)'
<1>1. /\ pc \in [Conn -> Labels] /\ got \in [Conn -> Request \cup {Nothing}]
      /\ req \in [Conn -> Request \cup {Nothing}]
      /\ user \in [Conn -> Conn \cup {Nil, Wild}] /\ sent \in [Conn -> Seq(Status)]
      /\ broken \in [Conn -> BOOLEAN]
  BY DEF Base, TypeOK
<1>2. TypeOK /\ Read /\ Sound /\ 200 \in Status /\ 403 \in Status /\ 404 \in Status
  BY DEF Base, Status
<1>3. ~(Len(<<>>) > 1)
  OBVIOUS
<1> USE DEF GoTo, At, locals, shared, output
<1>4. ASSUME Connect(c) \/ Accept(c) \/ Arrive(c) PROVE AnswersOf(c)'
  BY <1>1, <1>3, <1>4 DEF Connect, Accept, Arrive, AnswersOf, Early
<1>5. ASSUME Recv(c) PROVE AnswersOf(c)'
  <2>1. Calm(c) /\ sent[c] = <<>> /\ sent' = sent
    BY <1>2, <1>5, CalmSteps DEF Recv, AnswersOf, Early
  <2>2. PICK r \in Pieces(req[c]) : GoTo(c, IF r.kind = "login" THEN "lookup" ELSE r.kind)
    BY <1>5 DEF Recv
  <2>3. r \in Login \/ r \in Post \/ r \in Plain
    BY <1>1, <1>5 DEF Recv, Pieces, Request, Plain
  <2>4. pc'[c] # "done"
    BY <1>1, <2>2, <2>3, Kinds
  <2>5. QED
    BY <1>3, <2>1, <2>4 DEF AnswersOf
<1>6. ASSUME Poll(c) \/ RecvTimeout(c) PROVE AnswersOf(c)'
  BY <1>1, <1>2, <1>3, <1>6 DEF Poll, RecvTimeout, AnswersOf, Read, Early
<1>7. ASSUME Bare(c) PROVE AnswersOf(c)'
  BY <1>1, <1>3, <1>7 DEF Bare, AnswersOf, Early
<1>8. ASSUME Root(c) \/ Other(c) \/ Unknown(c) \/ Forbid(c) PROVE AnswersOf(c)'
  <2>1. got[c] # Nothing
    BY <1>2, <1>8, Kinds DEF Root, Other, Unknown, Forbid, Read
  <2>2. sent[c] = <<>> \/ Bars(c)
    BY <1>8 DEF Root, Other, Unknown, Forbid, AnswersOf
  <2>3. QED
    <3>1. CASE Root(c) \/ Unknown(c) \/ Forbid(c)
      BY <1>2, <2>1, <2>2, <3>1, LastAnswer DEF Root, Unknown, Forbid
    <3>2. CASE Other(c)
      <4>1. /\ got' = got /\ pc'[c] = "done"
            /\ sent'[c] = Append(sent[c], 200) \/ (broken'[c] = TRUE /\ sent'[c] = sent[c])
        BY <1>1, <3>2 DEF Other
      <4>2. sent[c] \in Seq(Status) /\ Bars(c) = FALSE
        BY <1>1, <1>2, <3>2, Kinds DEF Other, Read, Bars, Post, Plain
      <4>3. sent[c] = <<>>
        BY <2>2, <4>2
      <4>4. sent'[c] = << 200 >> \/ (broken'[c] = TRUE /\ sent'[c] = <<>>)
        BY <4>1, <4>3
      <4>5. QED
        <5>1. << 200 >> # <<>> /\ ~(Len(<< 200 >>) > 1) /\ got[c] # Nothing
          BY <2>1
        <5>2. QED
          BY <1>3, <4>1, <4>4, <5>1 DEF AnswersOf, Early
    <3>3. QED
      BY <1>8, <3>1, <3>2
<1>9. ASSUME Welcome(c) \/ Check(c) PROVE AnswersOf(c)'
  <2>1. got[c] # Nothing /\ sent[c] = <<>>
    BY <1>2, <1>9, Kinds DEF Welcome, Check, Read, AnswersOf
  <2>2. QED
    BY <1>2, <1>9, <2>1, LastAnswer DEF Welcome, Check
<1>10. ASSUME Lookup(c) \/ InsertBegin(c) \/ Place(c) PROVE AnswersOf(c)'
  <2>1. /\ sent[c] = <<>> /\ sent' = sent
        /\ pc'[c] \in {"insert", "check", "place", "welcome", "oops"}
    BY <1>1, <1>10 DEF Lookup, InsertBegin, Place, AnswersOf, Early
  <2>2. QED
    BY <1>3, <2>1 DEF AnswersOf
<1>11. ASSUME InsertExists(c) PROVE AnswersOf(c)'
  <2>1. /\ pc[c] \in {"insert", "place"} /\ pc'[c] = "done"
        /\ UNCHANGED <<got, user, raced, sent>> /\ sent[c] = <<>>
    BY <1>1, <1>11 DEF InsertExists, AnswersOf
  <2>2. got[c] \in Login /\ user[c] = Nil /\ KeyOf(c) \in Key
    BY <1>2, <2>1, Kinds, NamesAssumption DEF Read, Sound, Owns, KeyOf
  <2>3. ~raced => Beaten(c)'
    <3>1. SUFFICES ASSUME ~raced PROVE Beaten(c)'
      OBVIOUS
    <3>2. PICK d \in Conn : d = tree[KeyOf(c)]
      BY <1>2, <1>11, <2>2, <3>1 DEF InsertExists, Sound, Linked
    <3>3. /\ d # c /\ heap[d] \in Object /\ Hash[heap[d].name] = KeyOf(c)
          /\ pc[d] \notin {"insert", "place"}
      BY <1>2, <2>1, <2>2, <3>1, <3>2, NamesAssumption DEF Sound, Unseen, Linked
    <3>4. heap'[d] = heap[d] /\ pc'[d] = pc[d]
      BY <1>1, <1>11, <3>3 DEF InsertExists, Base, TypeOK
    <3>5. QED
      BY <2>1, <3>3, <3>4, Kinds DEF Beaten, KeyOf
  <2>4. QED
    BY <1>3, <2>1, <2>2, <2>3 DEF AnswersOf, Early
<1>12. ASSUME TextCookie(c) PROVE AnswersOf(c)'
  <2>1. /\ sent[c] = <<>> /\ got[c] \in Post /\ got' = got /\ got[c] # Nothing
        /\ pc[c] = "text"
    BY <1>2, <1>12, Kinds DEF TextCookie, AnswersOf, Read, Respond, Early
  <2>2. CASE sent' = sent /\ pc'[c] = "find"
    BY <1>3, <2>1, <2>2 DEF AnswersOf, Early
  <2>3. CASE sent' = sent /\ pc'[c] = "done" /\ broken'[c]
    BY <1>3, <2>1, <2>3 DEF AnswersOf, Early
  <2>4. CASE /\ got[c].name = NoName /\ sent'[c] = Append(sent[c], 403)
             /\ pc'[c] \in {"find", "done"}
    <3>1. sent'[c] = << 403 >> /\ Len(sent'[c]) = 1
      BY <2>1, <2>4
    <3>2. QED
      BY <2>1, <2>4, <3>1 DEF AnswersOf, Early, Bars
  <2>5. QED
    BY <1>1, <1>12, <2>2, <2>3, <2>4 DEF TextCookie, Respond
<1>13. ASSUME TextFind(c) \/ TextStore(c) PROVE AnswersOf(c)'
  <2>1. /\ got' = got /\ sent' = sent /\ pc[c] \in {"find", "store"}
        /\ pc'[c] \in {"forbid", "store", "root"}
    BY <1>1, <1>13 DEF TextFind, TextStore
  <2>2. QED
    BY <2>1 DEF AnswersOf, Early, Bars
<1>14. ASSUME Stray(c) PROVE AnswersOf(c)'
  <2>1. CASE pc[c] = "check"
    <3>1. got[c] # Nothing /\ sent[c] = <<>>
      BY <1>2, <2>1, Kinds DEF Read, AnswersOf
    <3>2. CASE UNCHANGED output /\ pc'[c] = "oops"
      BY <1>3, <3>1, <3>2 DEF AnswersOf, Early
    <3>3. CASE Respond(c, 403, NoPaste, "done")
      BY <1>2, <3>1, <3>3, LastAnswer
    <3>4. CASE \E page \in Text \cup {NoPaste} : Respond(c, 200, page, "done")
      BY <1>2, <3>1, <3>4, LastAnswer
    <3>5. QED
      BY <1>1, <1>14, <2>1, <3>2, <3>3, <3>4 DEF Stray
  <2>2. CASE pc[c] = "store"
    <3>1. got' = got /\ sent' = sent /\ pc'[c] \in {"oops", "root"}
      BY <1>1, <1>14, <2>2 DEF Stray
    <3>2. QED
      BY <2>2, <3>1 DEF AnswersOf, Early, Bars
  <2>3. QED
    BY <1>14, <2>1, <2>2 DEF Stray
<1>15. QED
  BY <1>4, <1>5, <1>6, <1>7, <1>8, <1>9, <1>10, <1>11, <1>12, <1>13, <1>14 DEF Thread

\* A step of another connection too.
LEMMA OthersAnswers ==
  ASSUME Base, NEW c \in Conn, NEW d \in Conn \ {c}, AnswersOf(d),
         Connect(c) \/ Accept(c) \/ Arrive(c) \/ Thread(c)
  PROVE  AnswersOf(d)'
<1>1. /\ pc'[d] = pc[d] /\ got'[d] = got[d] /\ user'[d] = user[d]
      /\ sent'[d] = sent[d] /\ broken'[d] = broken[d] /\ (raced => raced')
  BY Frame DEF Base
<1>2. Beaten(d) => Beaten(d)'
  <2>1. SUFFICES ASSUME Beaten(d) PROVE Beaten(d)'
    OBVIOUS
  <2>2. PICK e \in Conn \ {d} : /\ heap[e] # Free /\ pc[e] \notin {"insert", "place"}
                                /\ Hash[heap[e].name] = KeyOf(d)
    BY <2>1 DEF Beaten
  <2>3. heap'[e] # Free /\ pc'[e] \notin {"insert", "place"} /\ heap'[e].name = heap[e].name
    BY <2>2, ObjectsStay
  <2>4. QED
    BY <1>1, <2>2, <2>3 DEF Beaten, KeyOf
<1>3. QED
  BY <1>1, <1>2 DEF AnswersOf, At, Bars

\* Every step keeps Answers.
LEMMA AnswersStep == Base /\ Answers /\ [Next]_vars => Answers'
<1> SUFFICES ASSUME Base, Answers, [Next]_vars PROVE Answers'
  OBVIOUS
<1>1. \A d \in Conn : AnswersOf(d)
  BY DEF Answers, Silent, Twice, Excused, AnswersOf
<1>2. CASE UNCHANGED vars
  <2>1. \A d \in Conn : AnswersOf(d)'
    BY <1>1, <1>2 DEF vars, AnswersOf, Bars, Beaten, KeyOf, At
  <2>2. QED
    BY <2>1 DEF Answers, Silent, Twice, Excused, AnswersOf
<1>3. CASE ListenerExits
  BY <1>3 DEF ListenerExits, locals, shared, output, Answers, Silent, Twice, Excused, Bars,
              Beaten, KeyOf, At
<1>4. ASSUME NEW c \in Conn, Connect(c) \/ Accept(c) \/ Arrive(c) \/ Thread(c)
      PROVE  Answers'
  <2>1. \A d \in Conn : AnswersOf(d)'
    BY <1>1, <1>4, OwnAnswers, OthersAnswers
  <2>2. QED
    BY <2>1 DEF Answers, Silent, Twice, Excused, AnswersOf
<1>5. QED
  BY <1>2, <1>3, <1>4 DEF Next

\* Nothing is sent at first.
LEMMA AnswersInit == Init => Answers
  BY DEF Init, Answers, Silent, Twice, Excused, Early, At

\* A connection gets one status line, but for a text without a cookie; it is closed
\* without one only after a timeout or a failed send, or when another took its key or
\* insertions that overlapped had torn the tree.
THEOREM AnsweredOnce == Spec => []OneAnswer
<1>1. ASSUME Answers, NEW c \in Conn, Len(sent[c]) > 1
      PROVE  got[c].kind = "text" /\ got[c].name = NoName /\ sent[c][1] = 403
  BY <1>1, Kinds DEF Answers, Twice
<1>2. ASSUME Answers, NEW c \in Conn, pc[c] = "done", sent[c] = <<>>
      PROVE  \/ broken[c] \/ got[c] = Nothing
             \/ /\ got[c].kind = "login" /\ user[c] = Nil
                /\ raced \/ \E d \in Conn \ {c} : heap[d] # Free /\ Hash[heap[d].name] = KeyOf(c)
  BY <1>2, Kinds DEF Answers, Excused, At, Beaten
<1>3. Answers => OneAnswer
  BY <1>1, <1>2, ZenonT(30) DEF OneAnswer
<1>4. QED
  BY <1>3, BaseInit, BaseStep, AnswersInit, AnswersStep, PTL DEF Spec

-----------------------------------------------------------------------------
(* Where insertions do not overlap, registering works *)

\* No user is registered at first.
LEMMA RegisteredInit == Init => Registered
  BY NamesAssumption DEF Init, Registered

\* Every step keeps registered users in the tree, if insertions do not overlap.
LEMMA RegisteredStep ==
  ASSUME ~Racing
  PROVE  Base /\ Registered /\ [Next]_vars => Registered'
<1> SUFFICES ASSUME Base, Registered, [Next]_vars PROVE Registered'
  OBVIOUS
<1>1. /\ pc \in [Conn -> Labels] /\ got \in [Conn -> Request \cup {Nothing}]
      /\ tree \in [Key -> Conn \cup {Nil, Wild}] /\ heap \in [Conn -> Object \cup {Free}]
      /\ user \in [Conn -> Conn \cup {Nil, Wild}] /\ TypeOK /\ Read
  BY DEF Base, TypeOK
<1>2. Allocates /\ Owns /\ Unseen /\ Linked /\ Uses
  BY DEF Base, Sound
<1>3. CASE UNCHANGED vars
  BY <1>3 DEF vars, Registered, KeyOf
<1>4. CASE ListenerExits
  BY <1>4 DEF ListenerExits, locals, shared, Registered, KeyOf
<1>0. ~raced
  BY DEF Registered
<1>5. ASSUME NEW c \in Conn, Connect(c) \/ Accept(c) \/ Arrive(c) \/ Thread(c)
      PROVE  Registered'
  <2> USE DEF GoTo, At, locals, shared, output
  <2>1. /\ ~raced'
        /\ \A d \in Conn \ {c} : pc'[d] = pc[d] /\ got'[d] = got[d] /\ user'[d] = user[d]
    BY <1>0, <1>5, Frame DEF Base
  <2>2. \A d \in Conn : user[d] = d => got'[d] = got[d]
    BY <1>1, <1>5, <2>1, ReadOnce, Kinds DEF Registered
  <2>3. ASSUME Calm(c) PROVE Registered'
    <3>1. pc'[c] # "place"
      BY <1>1, <2>3 DEF Calm, Registered
    <3>2. tree' = tree /\ heap' = heap /\ user' = user
      BY <2>3 DEF Calm
    <3>3. QED
      BY <2>1, <2>2, <3>1, <3>2 DEF Registered, KeyOf
  <2>4. ASSUME Lookup(c) PROVE Registered'
    <3>1. got[c] \in Login /\ KeyOf(c) \in Key /\ heap[c] = Free
      BY <1>1, <1>2, <2>4, Kinds, NamesAssumption DEF Lookup, Read, KeyOf, Allocates, Early
    <3>2. tree[KeyOf(c)] # c /\ user[c] # c
      BY <1>2, <3>1 DEF Unseen
    <3>3. user'[c] # c /\ pc'[c] # "place" /\ tree' = tree
      BY <1>1, <2>4, <3>2 DEF Lookup
    <3>4. \A d \in Conn \ {c} : heap'[d] = heap[d]
      BY <1>1, <2>4 DEF Lookup
    <3>5. QED
      BY <2>1, <2>2, <3>3, <3>4 DEF Registered, KeyOf
  <2>5. ASSUME InsertExists(c) PROVE Registered'
    <3>1. /\ UNCHANGED <<tree, user, got>> /\ pc'[c] = "done"
          /\ \A d \in Conn \ {c} : heap'[d] = heap[d]
      BY <1>1, <2>5 DEF InsertExists
    <3>2. user[c] # c
      BY <1>2, <2>5, NamesAssumption DEF InsertExists, Owns
    <3>3. QED
      BY <2>1, <3>1, <3>2 DEF Registered, KeyOf
  <2>6. ASSUME Place(c) PROVE Registered'
    <3>1. pc[c] = "insert" /\ tree[KeyOf(c)] = Nil
      BY <2>6 DEF Place, Registered
    <3>2. /\ pc'[c] = "welcome" /\ user'[c] = c /\ got' = got /\ heap' = heap
      BY <1>0, <1>1, <2>6 DEF Place
    <3>3. \A k \in Key : tree'[k] = (IF k = KeyOf(c) THEN c ELSE tree[k])
      BY <1>0, <1>1, <2>6, <3>1 DEF Place
    <3>4. got[c] \in Login /\ KeyOf(c) \in Key
      BY <1>1, <3>1, Kinds, NamesAssumption DEF Read, KeyOf
    <3>5. ASSUME NEW d \in Conn \ {c}, user[d] = d
          PROVE  got[d] \in Login /\ tree'[KeyOf(d)] = d
      <4>1. got[d] \in Login /\ tree[KeyOf(d)] = d /\ KeyOf(d) \in Key
        BY <3>5, Kinds, NamesAssumption DEF Registered, KeyOf
      <4>2. KeyOf(d) # KeyOf(c)
        BY <3>1, <4>1, NamesAssumption
      <4>3. QED
        BY <3>3, <4>1, <4>2
    <3>6. tree'[KeyOf(c)] = c /\ heap[c] \in Object /\ heap[c].pass = got[c].pass
      BY <1>2, <3>1, <3>3, <3>4 DEF Owns
    <3>7. QED
      BY <2>1, <3>2, <3>4, <3>5, <3>6 DEF Registered, KeyOf
  <2>7. ASSUME TextFind(c) PROVE Registered'
    <3>1. got[c] \in Post /\ KeyOf(c) \in Key /\ heap[c] = Free
      BY <1>1, <1>2, <2>7, Kinds, NamesAssumption DEF TextFind, Read, KeyOf, Allocates, Early
    <3>2. tree[KeyOf(c)] # c
      BY <1>2, <3>1 DEF Unseen
    <3>3. user'[c] # c /\ pc'[c] # "place" /\ tree' = tree /\ heap' = heap
      BY <1>1, <2>7, <3>2 DEF TextFind
    <3>4. QED
      BY <2>1, <2>2, <3>3 DEF Registered, KeyOf
  <2>8. ASSUME TextStore(c) PROVE Registered'
    <3>1. user[c] \in Conn /\ heap[user[c]] \in Object /\ got[c].text \in Text
      BY <1>1, <1>2, <2>8, Kinds DEF TextStore, Uses, Read
    <3>2. /\ heap'[user[c]] \in Object /\ heap'[user[c]].pass = heap[user[c]].pass
          /\ \A d \in Conn \ {user[c]} : heap'[d] = heap[d]
      BY <1>1, <2>8, <3>1 DEF TextStore, Object
    <3>3. UNCHANGED <<tree, user, got>> /\ pc'[c] = "root"
      BY <1>1, <2>8 DEF TextStore
    <3>4. QED
      BY <2>1, <3>2, <3>3 DEF Registered, KeyOf
  <2>9. ~Stray(c)
    BY <1>0, <1>2, NamesAssumption DEF Stray, Uses
  <2>10. QED
    BY <1>1, <1>5, <2>3, <2>4, <2>5, <2>6, <2>7, <2>8, <2>9, CalmSteps DEF Thread
<1>6. QED
  BY <1>3, <1>4, <1>5 DEF Next

\* Where insertions do not overlap, who was answered 200 on registering is in the tree
\* with the password given.
THEOREM RegisteringWorks ==
  ASSUME ~Racing
  PROVE  Spec => []RegisteredCanLogin
<1>1. ASSUME Base, Registered, NEW c \in Conn, user[c] = c
      PROVE  /\ tree[KeyOf(c)] \in Conn
             /\ <<got[c].pass, heap[tree[KeyOf(c)]].pass>> \in Prefix
  BY <1>1, Kinds, NamesAssumption DEF Registered
<1>2. Base /\ Registered => RegisteredCanLogin
  BY <1>1 DEF RegisteredCanLogin
<1>3. Base /\ Registered /\ [Next]_vars => Registered'
  BY RegisteredStep
<1>4. QED
  BY <1>2, <1>3, BaseInit, BaseStep, RegisteredInit, PTL DEF Spec

-----------------------------------------------------------------------------
(* Where also a request arrives in one piece, an answered text is stored *)

\* Nothing was read at first.
LEMMA StoredInit == Init => Whole /\ Stored
  BY Kinds DEF Init, Whole, Stored, Nothing

\* A user that has a paste keeps having one.
LEMMA PasteStays ==
  ASSUME Base, NEW c \in Conn, Connect(c) \/ Accept(c) \/ Arrive(c) \/ Thread(c),
         NEW d \in Conn, (\E e \in Conn : user[e] = d), heap[d] \in Object,
         heap[d].paste # NoPaste
  PROVE  heap'[d] \in Object /\ heap'[d].paste # NoPaste
<1> USE DEF GoTo, At, locals, shared, output
<1>1. heap[d] # Free /\ pc[d] \notin {"insert", "place"}
  BY Kinds DEF Base, Sound, Unseen
<1>2. TypeOK' /\ heap'[d] # Free
  BY <1>1, ObjectsStay, BaseStep DEF Base, Next
<1>3. heap'[d] \in Object /\ heap \in [Conn -> Object \cup {Free}]
  BY <1>2 DEF Base, TypeOK
<1>4. CASE Calm(c) \/ Lookup(c) \/ InsertExists(c)
  BY <1>1, <1>3, <1>4, Kinds
     DEF Calm, Lookup, InsertExists, Base, TypeOK, Sound, Allocates, Early
<1>5. CASE Place(c) \/ TextFind(c) \/ Stray(c)
  BY <1>3, <1>5 DEF Place, TextFind, Stray, Respond
<1>6. CASE TextStore(c)
  <2>1. user[c] \in Conn /\ heap[user[c]] \in Object /\ got[c].text \in Text
    BY <1>6, Kinds DEF TextStore, Base, TypeOK, Sound, Uses, Read
  <2>2. heap'[d].paste \in {heap[d].paste, got[c].text}
    BY <1>3, <1>6, <2>1 DEF TextStore, Object
  <2>3. QED
    BY <1>3, <2>1, <2>2, NamesAssumption
<1>7. QED
  BY <1>3, <1>4, <1>5, <1>6, CalmSteps DEF Thread, Base

\* Nothing but an object is used as one until insertions overlap.
LEMMA NoStray ==
  ASSUME Base, ~raced, NEW c \in Conn
  PROVE  ~Stray(c)
BY NamesAssumption DEF Stray, Base, Sound, Uses, At

\* Every step keeps what was read the request, if it comes in one piece.
LEMMA WholeStep ==
  ASSUME ~Segmented
  PROVE  Base /\ Whole /\ [Next]_vars => Whole'
<1> SUFFICES ASSUME Base, Whole, [Next]_vars PROVE Whole'
  OBVIOUS
<1>1. /\ pc \in [Conn -> Labels] /\ got \in [Conn -> Request \cup {Nothing}]
      /\ req \in [Conn -> Request \cup {Nothing}] /\ TypeOK /\ Read
  BY DEF Base, TypeOK
<1>2. CASE UNCHANGED vars
  BY <1>2 DEF vars, Whole
<1>3. CASE ListenerExits
  BY <1>3 DEF ListenerExits, locals, Whole
<1>4. ASSUME NEW c \in Conn, Connect(c) \/ Accept(c) \/ Arrive(c) \/ Thread(c)
      PROVE  Whole'
  <2> USE DEF GoTo, At, locals, shared, output
  <2> DEFINE Goal == got'[c] \in {Nothing, req'[c]} \/ (got'[c] \in Login /\ req'[c] \in Plain)
  <2>1. Goal => Whole'
    BY <1>4, Frame DEF Base, Whole
  <2>2. CASE got'[c] = got[c] /\ req'[c] = req[c]
    BY <2>1, <2>2 DEF Whole
  <2>3. CASE Arrive(c)
    BY <1>1, <2>1, <2>3 DEF Arrive, Read
  <2>4. CASE Recv(c)
    BY <1>1, <2>1, <2>4 DEF Recv, Pieces
  <2>5. CASE Bare(c)
    <3>1. req[c] \in Plain
      BY <1>1, <2>5, Kinds DEF Bare, Read, Whole
    <3>2. [kind |-> "login", name |-> Static, pass |-> Static] \in Login
      BY NamesAssumption DEF Login
    <3>3. QED
      BY <1>1, <2>1, <2>2, <2>5, <3>1, <3>2 DEF Bare
  <2>6. CASE Connect(c) \/ Accept(c) \/ Poll(c) \/ RecvTimeout(c)
    BY <2>2, <2>6 DEF Connect, Accept, Poll, RecvTimeout
  <2>7. CASE Root(c) \/ Other(c) \/ Unknown(c) \/ Welcome(c) \/ Check(c) \/ Forbid(c) \/ TextCookie(c)
    BY <2>2, <2>7 DEF Root, Other, Unknown, Welcome, Check, Forbid, TextCookie, Respond
  <2>8. CASE Lookup(c) \/ InsertExists(c) \/ InsertBegin(c) \/ Place(c)
    BY <2>2, <2>8 DEF Lookup, InsertExists, InsertBegin, Place
  <2>9. CASE TextFind(c) \/ TextStore(c) \/ Stray(c)
    BY <2>2, <2>9 DEF TextFind, TextStore, Stray, Respond
  <2>10. QED
    BY <1>4, <2>3, <2>4, <2>5, <2>6, <2>7, <2>8, <2>9 DEF Thread
<1>5. QED
  BY <1>2, <1>3, <1>4 DEF Next

\* What Stored says of one connection.
Done(c) == got[c] \in Post /\ (pc[c] = "root" \/ (pc[c] = "done" /\ sent[c] = << 200 >>))
Has(c)  == user[c] \in Conn /\ heap[user[c]] \in Object /\ heap[user[c]].paste # NoPaste

\* A connection comes to be done with a text only by storing it.
LEMMA OnlyByStoring ==
  ASSUME Base, Answers, ~raced, NEW c \in Conn,
         Connect(c) \/ Accept(c) \/ Arrive(c) \/ Thread(c), ~TextStore(c), Done(c)'
  PROVE  Done(c) /\ user'[c] = user[c]
<1>1. /\ pc \in [Conn -> Labels] /\ got \in [Conn -> Request \cup {Nothing}]
      /\ req \in [Conn -> Request \cup {Nothing}] /\ sent \in [Conn -> Seq(Status)]
      /\ TypeOK /\ Read
  BY DEF Base, TypeOK
<1>2. got'[c] \in Post /\ (pc'[c] = "root" \/ (pc'[c] = "done" /\ sent'[c] = << 200 >>))
  BY DEF Done
<1>3. AnswersOf(c)
  BY DEF Answers, Silent, Twice, Excused, AnswersOf
<1>4. <<>> # << 200 >> /\ << 403 >> # << 200 >> /\ \A s \in Seq(Status), x \in Status :
         /\ Append(s, x) = << 200 >> => s = <<>> /\ x = 200
  <2>1. ASSUME NEW s \in Seq(Status), NEW x \in Status,
               Append(s, x) = << 200 >>
        PROVE  s = <<>> /\ x = 200
    <3>1. Len(Append(s, x)) = Len(s) + 1 /\ Append(s, x)[Len(s) + 1] = x
      BY AppendProperties
    <3>2. Len(s) = 0 /\ Len(s) \in Nat
      BY <2>1, <3>1, LenProperties
    <3>3. QED
      BY <2>1, <3>1, <3>2, EmptySeq
  <2>2. QED
    BY <2>1
<1> USE DEF GoTo, At, locals, shared, output
<1>5. CASE Connect(c) \/ Accept(c) \/ Arrive(c) \/ Poll(c) \/ RecvTimeout(c)
  BY <1>1, <1>2, <1>5, Kinds DEF Connect, Accept, Arrive, Poll, RecvTimeout, Read, Done
<1>6. CASE Recv(c)
  <2>1. PICK r \in Pieces(req[c]) : /\ got' = [got EXCEPT ![c] = r]
                                    /\ GoTo(c, IF r.kind = "login" THEN "lookup" ELSE r.kind)
    BY <1>6 DEF Recv
  <2>2. r \in Post
    BY <1>1, <1>2, <2>1
  <2>3. pc'[c] = "text"
    BY <1>1, <2>1, <2>2, Kinds
  <2>4. QED
    BY <1>2, <2>3
<1>7. CASE Bare(c)
  BY <1>1, <1>2, <1>7 DEF Bare
<1>8. CASE Root(c)
  <2>1. got' = got /\ user' = user /\ pc[c] \in {"root", "other"}
    BY <1>8 DEF Root, Respond
  <2>2. pc[c] = "root"
    BY <1>1, <1>2, <2>1, Kinds DEF Read, Plain, Post
  <2>3. QED
    BY <1>2, <2>1, <2>2 DEF Done
<1>9. CASE Unknown(c) \/ Forbid(c)
  <2>1. /\ got' = got /\ pc[c] \in {"unknown", "forbid"} /\ pc'[c] = "done"
        /\ sent'[c] = sent[c] \/ \E x \in {403, 404} : sent'[c] = Append(sent[c], x)
    BY <1>1, <1>9 DEF Unknown, Forbid, Respond
  <2>2. sent[c] # << 200 >>
    <3>1. sent[c] = <<>> \/ sent[c] = << 403 >>
      BY <1>3, <2>1 DEF AnswersOf, Bars
    <3>2. QED
      BY <1>4, <3>1
  <2>3. sent[c] \in Seq(Status) /\ 403 \in Status /\ 404 \in Status
    BY <1>1 DEF Status
  <2>4. sent'[c] # << 200 >>
    BY <1>4, <2>1, <2>2, <2>3
  <2>5. QED
    BY <1>2, <2>1, <2>4
<1>10. CASE Welcome(c) \/ Check(c)
  <2>1. got' = got /\ pc[c] \in {"welcome", "check"}
    BY <1>10 DEF Welcome, Check, Respond
  <2>2. QED
    BY <1>1, <1>2, <2>1, Kinds DEF Read
<1>11. CASE Lookup(c) \/ InsertExists(c) \/ InsertBegin(c) \/ Place(c)
  <2>1. /\ pc[c] \in {"lookup", "insert", "place"} /\ got' = got
    BY <1>11 DEF Lookup, InsertExists, InsertBegin, Place
  <2>2. QED
    BY <1>1, <1>2, <2>1, Kinds DEF Read
<1>12. CASE TextCookie(c)
  <2>1. /\ pc[c] = "text" /\ pc'[c] \in {"find", "done"}
        /\ pc'[c] = "done" => sent'[c] = sent[c] \/ sent'[c] = Append(sent[c], 403)
    BY <1>1, <1>12 DEF TextCookie, Respond
  <2>2. sent[c] = <<>>
    BY <1>3, <2>1 DEF AnswersOf, Early
  <2>3. sent'[c] # << 200 >> \/ pc'[c] = "find"
    BY <1>4, <2>1, <2>2
  <2>4. QED
    BY <1>2, <2>1, <2>3
<1>13. CASE TextFind(c)
  BY <1>1, <1>2, <1>13 DEF TextFind
<1>14. QED
  <2>1. ~Stray(c)
    BY NoStray
  <2>2. CASE Other(c)
    <3>1. got' = got /\ pc[c] = "other"
      BY <2>2 DEF Other
    <3>2. QED
      BY <1>1, <1>2, <3>1, Kinds DEF Read, Plain, Post
  <2>3. QED
    BY <1>5, <1>6, <1>7, <1>8, <1>9, <1>10, <1>11, <1>12, <1>13, <2>1, <2>2 DEF Thread

\* Every step keeps that an answered text was stored.
LEMMA StoredStep == Base /\ Answers /\ Registered /\ Stored /\ [Next]_vars => Stored'
<1> SUFFICES ASSUME Base, Answers, ~raced, Stored, [Next]_vars PROVE Stored'
  BY DEF Registered
<1>1. CASE UNCHANGED vars
  BY <1>1 DEF vars, Stored
<1>2. CASE ListenerExits
  BY <1>2 DEF ListenerExits, locals, shared, output, Stored
<1>3. ASSUME NEW c \in Conn, Connect(c) \/ Accept(c) \/ Arrive(c) \/ Thread(c)
      PROVE  Stored'
  <2>1. ASSUME NEW d \in Conn, Done(d)'
        PROVE  Has(d)'
    <3>1. ASSUME Done(d), user'[d] = user[d]
          PROVE  Has(d)'
      <4>1. Has(d)
        BY <3>1 DEF Stored, Done, Has
      <4>2. user[d] \in Conn
        BY <4>1 DEF Has, Base, TypeOK
      <4>3. heap'[user[d]] \in Object /\ heap'[user[d]].paste # NoPaste
        BY <1>3, <4>1, <4>2, PasteStays DEF Has
      <4>4. QED
        BY <3>1, <4>1, <4>3 DEF Has
    <3>2. CASE d # c
      <4>1. /\ pc'[d] = pc[d] /\ got'[d] = got[d] /\ user'[d] = user[d] /\ sent'[d] = sent[d]
        BY <1>3, <3>2, Frame DEF Base
      <4>2. QED
        BY <2>1, <3>1, <4>1 DEF Done
    <3>3. CASE d = c /\ ~TextStore(c)
      BY <1>3, <2>1, <3>1, <3>3, OnlyByStoring
    <3>4. CASE d = c /\ TextStore(c)
      <4>1. user[c] \in Conn /\ heap[user[c]] \in Object /\ got[c].text \in Text
        BY <3>4, Kinds DEF TextStore, At, Base, TypeOK, Sound, Uses, Read
      <4>2. user' = user /\ heap'[user[c]] \in Object /\ heap'[user[c]].paste = got[c].text
        BY <3>4, <4>1 DEF TextStore, locals, Base, TypeOK, Object
      <4>3. QED
        BY <3>4, <4>1, <4>2, NamesAssumption DEF Has
    <3>5. QED
      BY <3>2, <3>3, <3>4
  <2>2. QED
    BY <2>1 DEF Stored, Done, Has
<1>4. QED
  BY <1>1, <1>2, <1>3 DEF Next

\* Where insertions do not overlap and requests arrive in one piece, a text that was
\* answered 200 was stored, there or by a later post.
THEOREM AnsweredIsStored ==
  ASSUME ~Racing, ~Segmented
  PROVE  Spec => []AnsweredTextIsStored
<1>1. ASSUME TypeOK, Answers, Whole, Stored, NEW c \in Conn, pc[c] = "done",
             req[c].kind = "text", sent[c] = << 200 >>
      PROVE  user[c] \in Conn /\ heap[user[c]].paste # NoPaste
  <2>1. got[c] # Nothing
    BY <1>1 DEF Answers, Silent
  <2>2. req[c] \notin Plain
    BY <1>1, Kinds
  <2>3. got[c] = req[c]
    BY <1>1, <2>1, <2>2 DEF Whole
  <2>4. got[c] \in Post
    <3>1. req[c] \in Request
      BY <1>1, <2>1, <2>3 DEF TypeOK
    <3>2. QED
      BY <1>1, <2>3, <3>1, Kinds DEF Request
  <2>5. QED
    BY <1>1, <2>4 DEF Stored
<1>2. Base /\ Answers /\ Whole /\ Stored => AnsweredTextIsStored
  BY <1>1 DEF Base, AnsweredTextIsStored
<1>3. Base /\ Whole /\ [Next]_vars => Whole'
  BY WholeStep
<1>4. Base /\ Registered /\ [Next]_vars => Registered'
  BY RegisteredStep
<1>5. QED
  BY <1>2, <1>3, <1>4, BaseInit, BaseStep, AnswersInit, AnswersStep, RegisteredInit, StoredInit,
     StoredStep, PTL DEF Spec

-----------------------------------------------------------------------------
(* Where insertions do not overlap, requests are served as by a board *)

\* A thread that has found or made a user has the one the tree has, then and later; pages are
\* shown at the end, and a
\* user on its way into the tree has none.
PinnedOf(c) ==
   /\ user[c] # Nil => got[c] \in Login \cup Post /\ tree[KeyOf(c)] = user[c]
   /\ pc[c] \in Early \cup {"insert", "forbid"} => user[c] = Nil
   /\ pc[c] = "welcome" => user[c] = c
   /\ pc[c] = "check" => user[c] # c
   /\ pc[c] = "root" => got[c] \in Plain \/ (got[c] \in Post /\ user[c] # Nil)
   /\ pc[c] # "done" => shown[c] = NoPaste /\ ~broken[c]
   /\ pc[c] = "insert" => heap[c].paste = NoPaste
Pinned == \A c \in Conn : PinnedOf(c)

\* What is in the tree stays there.
LEMMA TreeGrows ==
  ASSUME Base, Registered, NEW c \in Conn, Connect(c) \/ Accept(c) \/ Arrive(c) \/ Thread(c),
         NEW k \in Key, tree[k] # Nil
  PROVE  tree'[k] = tree[k]
<1>1. CASE Calm(c)
  BY <1>1 DEF Calm
<1>2. CASE Lookup(c) \/ InsertExists(c) \/ TextFind(c) \/ TextStore(c)
  BY <1>2 DEF Lookup, InsertExists, TextFind, TextStore, shared
<1>3. CASE Place(c)
  <2>1. pc[c] = "insert" /\ tree[KeyOf(c)] = Nil
    BY <1>3 DEF Place, Registered, At
  <2>2. ~raced /\ tree \in [Key -> Conn \cup {Nil, Wild}]
    BY DEF Registered, Base, TypeOK
  <2>3. tree'[k] = IF k = KeyOf(c) THEN c ELSE tree[k]
    BY <1>3, <2>1, <2>2 DEF Place, At
  <2>4. QED
    BY <2>1, <2>3
<1>4. ~Stray(c)
  BY NoStray DEF Registered
<1>5. QED
  BY <1>1, <1>2, <1>3, <1>4, CalmSteps DEF Thread, Base

\* The facts about a request's fields, for use in the next proofs.
LEMMA KeyTyped ==
  ASSUME NEW c \in Conn, got[c] \in Login \cup Post
  PROVE  KeyOf(c) \in Key /\ got[c].name \in Name
BY Kinds, NamesAssumption DEF KeyOf

\* A step of a connection keeps what Pinned says of it.
LEMMA OwnPinned ==
  ASSUME ~Racing, Base, Answers, Registered, NEW c \in Conn, PinnedOf(c),
         Connect(c) \/ Accept(c) \/ Arrive(c) \/ Thread(c)
  PROVE  PinnedOf(c)'
<1>1. /\ pc \in [Conn -> Labels] /\ got \in [Conn -> Request \cup {Nothing}]
      /\ req \in [Conn -> Request \cup {Nothing}]
      /\ user \in [Conn -> Conn \cup {Nil, Wild}] /\ sent \in [Conn -> Seq(Status)]
      /\ shown \in [Conn -> Text \cup {NoPaste}] /\ tree \in [Key -> Conn \cup {Nil, Wild}]
      /\ TypeOK /\ Read /\ Sound /\ Nil \notin Conn
  BY NamesAssumption DEF Base, TypeOK
<1> USE DEF GoTo, At, locals, shared, output
<1>2. got'[c] = got[c] \/ user[c] = Nil
  BY <1>1, ReadOnce DEF PinnedOf, Early
<1>3. user[c] # Nil => got'[c] \in Login \cup Post /\ tree'[KeyOf(c)'] = user[c]
  <2>1. SUFFICES ASSUME user[c] # Nil
                 PROVE  got'[c] \in Login \cup Post /\ tree'[KeyOf(c)'] = user[c]
    OBVIOUS
  <2>2. KeyOf(c)' = KeyOf(c) /\ KeyOf(c) \in Key /\ got'[c] = got[c]
    BY <1>2, <2>1, KeyTyped DEF PinnedOf, KeyOf
  <2>3. QED
    BY <2>1, <2>2, TreeGrows DEF PinnedOf
<1>4. ASSUME Connect(c) \/ Accept(c) \/ Arrive(c) \/ Poll(c) \/ RecvTimeout(c)
      PROVE  PinnedOf(c)'
  <2>1. UNCHANGED <<user, got, shown, sent, broken>> /\ pc[c] \in Early /\ pc'[c] \in Early \cup {"done"}
    BY <1>1, <1>4 DEF Connect, Accept, Arrive, Poll, RecvTimeout, Early, Read
  <2>2. pc'[c] # "find" /\ pc[c] # "done"
    BY <1>1, <1>4 DEF Connect, Accept, Arrive, Poll, RecvTimeout
  <2>3. QED
    BY <1>3, <2>1, <2>2 DEF PinnedOf, Early, KeyOf
<1>5. ASSUME Recv(c) PROVE PinnedOf(c)'
  <2>1. UNCHANGED <<user, shown, broken>> /\ user[c] = Nil /\ shown[c] = NoPaste /\ ~broken[c]
    BY <1>5 DEF Recv, PinnedOf, Early
  <2>2. PICK r \in Pieces(req[c]) : /\ got' = [got EXCEPT ![c] = r]
                                    /\ GoTo(c, IF r.kind = "login" THEN "lookup" ELSE r.kind)
    BY <1>5 DEF Recv
  <2>3. r \in Login \/ r \in Post \/ r \in Plain
    BY <1>1, <1>5 DEF Recv, Pieces, Request, Plain
  <2>4. got'[c] = r /\ \/ pc'[c] = "lookup" /\ r \in Login
                       \/ pc'[c] = "text" /\ r \in Post
                       \/ pc'[c] \in {"root", "other", "bare", "unknown"} /\ r \in Plain
    BY <1>1, <2>2, <2>3, Kinds
  <2>5. QED
    BY <2>1, <2>4 DEF PinnedOf, Early
<1>6. ASSUME Bare(c) PROVE PinnedOf(c)'
  <2>1. UNCHANGED <<user, shown, broken>> /\ user[c] = Nil /\ shown[c] = NoPaste /\ ~broken[c]
    BY <1>6 DEF Bare, PinnedOf, Early
  <2>2. pc'[c] \in {"oops", "lookup"}
    BY <1>1, <1>6 DEF Bare
  <2>3. QED
    BY <2>1, <2>2 DEF PinnedOf, Early
<1>7. ASSUME Root(c) \/ Other(c) \/ Unknown(c) \/ Welcome(c) \/ Check(c) \/ Forbid(c) PROVE PinnedOf(c)'
  <2>1. UNCHANGED <<user, got>> /\ pc'[c] = "done"
    BY <1>1, <1>7 DEF Root, Other, Unknown, Welcome, Check, Forbid, Respond
  <2>2. QED
    BY <1>3, <2>1 DEF PinnedOf, Early
<1>8. ASSUME TextCookie(c) PROVE PinnedOf(c)'
  <2>1. UNCHANGED <<user, got>> /\ pc[c] = "text" /\ pc'[c] \in {"find", "done"}
    BY <1>1, <1>8 DEF TextCookie, Respond
  <2>2. user[c] = Nil /\ shown[c] = NoPaste /\ sent[c] = <<>> /\ got[c] \in Post /\ ~broken[c]
    BY <1>1, <2>1 DEF PinnedOf, Early, Answers, Silent, Read
  <2>3. pc'[c] = "find" => shown'[c] = NoPaste /\ ~broken'[c]
    <3>1. CASE got[c].name = NoName
      <4>1. Respond(c, 403, NoPaste, "find")
        BY <1>8, <3>1 DEF TextCookie
      <4>2. \/ pc'[c] = "done"
            \/ UNCHANGED broken /\ shown'[c] = NoPaste
        BY <1>1, <4>1 DEF Respond
      <4>3. QED
        BY <2>2, <4>2
    <3>2. CASE got[c].name # NoName
      <4>1. UNCHANGED <<shown, broken>>
        BY <1>8, <3>2 DEF TextCookie
      <4>2. QED
        BY <2>2, <3>2, <4>1
    <3>3. QED
      BY <3>1, <3>2
  <2>4. QED
    BY <2>1, <2>2, <2>3 DEF PinnedOf, Early
<1>9. ASSUME Lookup(c) PROVE PinnedOf(c)'
  <2>1. UNCHANGED <<got, tree, shown, broken>> /\ shown[c] = NoPaste /\ ~broken[c] /\ got[c] \in Login
    BY <1>1, <1>9 DEF Lookup, PinnedOf, Read
  <2>2. KeyOf(c) \in Key /\ tree[KeyOf(c)] # c
    BY <1>1, <1>9, <2>1, KeyTyped DEF Lookup, Sound, Unseen, Allocates, Early
  <2>3. user'[c] = tree[KeyOf(c)] /\ pc'[c] = IF tree[KeyOf(c)] = Nil THEN "insert" ELSE "check"
    BY <1>1, <1>9 DEF Lookup
  <2>4. tree[KeyOf(c)] = Nil => heap'[c].paste = NoPaste
    BY <1>1, <1>9 DEF Lookup, TypeOK
  <2>5. QED
    BY <2>1, <2>2, <2>3, <2>4 DEF PinnedOf, Early, KeyOf
<1>10. ASSUME InsertExists(c) PROVE PinnedOf(c)'
  <2>1. UNCHANGED <<user, got>> /\ pc'[c] = "done"
    BY <1>1, <1>10 DEF InsertExists
  <2>2. QED
    BY <1>3, <2>1 DEF PinnedOf, Early
<1>11. ASSUME Place(c) PROVE PinnedOf(c)'
  <2>1. UNCHANGED <<got, shown, broken>> /\ pc[c] = "insert" /\ pc'[c] = "welcome" /\ user'[c] = c
    BY <1>1, <1>11 DEF Place, Registered
  <2>2. got[c] \in Login /\ KeyOf(c) \in Key /\ shown[c] = NoPaste /\ ~broken[c]
    BY <1>1, <2>1, KeyTyped DEF Read, PinnedOf
  <2>3. tree'[KeyOf(c)] = c
    BY <1>1, <1>11, <2>1, <2>2 DEF Place, Registered
  <2>4. QED
    BY <2>1, <2>2, <2>3 DEF PinnedOf, Early, KeyOf
<1>12. ASSUME TextFind(c) PROVE PinnedOf(c)'
  <2>1. UNCHANGED <<got, tree, shown, broken>> /\ shown[c] = NoPaste /\ ~broken[c] /\ got[c] \in Post
    BY <1>1, <1>12 DEF TextFind, PinnedOf, Read
  <2>2. user'[c] = tree[KeyOf(c)] /\ pc'[c] = IF tree[KeyOf(c)] = Nil THEN "forbid" ELSE "store"
    BY <1>1, <1>12 DEF TextFind
  <2>3. QED
    BY <2>1, <2>2 DEF PinnedOf, Early, KeyOf
<1>13. ASSUME TextStore(c) PROVE PinnedOf(c)'
  <2>1. /\ UNCHANGED <<got, user, shown, broken>> /\ pc[c] = "store" /\ pc'[c] = "root"
        /\ shown[c] = NoPaste /\ ~broken[c]
    BY <1>1, <1>13 DEF TextStore, PinnedOf
  <2>2. got[c] \in Post /\ user[c] # Nil
    BY <1>1, <2>1 DEF Read, Sound, Uses
  <2>3. QED
    BY <1>3, <2>1, <2>2 DEF PinnedOf, Early
<1>14. ~Stray(c)
  BY NoStray DEF Registered
<1>15. QED
  BY <1>4, <1>5, <1>6, <1>7, <1>8, <1>9, <1>10, <1>11, <1>12, <1>13, <1>14 DEF Thread, InsertBegin

\* Nobody touches an object on its way into the tree.
LEMMA OnItsWay ==
  ASSUME Base, ~raced, NEW c \in Conn, Connect(c) \/ Accept(c) \/ Arrive(c) \/ Thread(c),
         NEW d \in Conn \ {c}, pc[d] = "insert"
  PROVE  heap'[d] = heap[d]
<1>1. CASE Calm(c) \/ Place(c) \/ TextFind(c)
  BY <1>1 DEF Calm, Place, TextFind, shared
<1>2. CASE Lookup(c) \/ InsertExists(c)
  BY <1>2 DEF Lookup, InsertExists, Base, TypeOK
<1>3. CASE TextStore(c)
  <2>1. user[c] # d
    BY DEF Base, Sound, Unseen
  <2>2. QED
    BY <1>3, <2>1 DEF TextStore, Base, TypeOK
<1>4. QED
  BY <1>1, <1>2, <1>3, CalmSteps, NoStray DEF Thread, Base

\* Every step keeps Pinned.
LEMMA PinnedStep ==
  ASSUME ~Racing
  PROVE  Base /\ Answers /\ Registered /\ Pinned /\ [Next]_vars => Pinned'
<1> SUFFICES ASSUME Base, Answers, Registered, Pinned, [Next]_vars PROVE Pinned'
  OBVIOUS
<1>1. CASE UNCHANGED vars
  BY <1>1 DEF vars, Pinned, PinnedOf, KeyOf
<1>2. CASE ListenerExits
  BY <1>2 DEF ListenerExits, locals, shared, output, Pinned, PinnedOf, KeyOf
<1>3. ASSUME NEW c \in Conn, Connect(c) \/ Accept(c) \/ Arrive(c) \/ Thread(c)
      PROVE  Pinned'
  <2>1. PinnedOf(c)'
    BY <1>3, OwnPinned DEF Pinned
  <2>2. ASSUME NEW d \in Conn \ {c} PROVE PinnedOf(d)'
    <3>1. /\ pc'[d] = pc[d] /\ got'[d] = got[d] /\ user'[d] = user[d]
          /\ shown'[d] = shown[d] /\ broken'[d] = broken[d] /\ PinnedOf(d)
      BY <1>3, Frame DEF Base, Pinned
    <3>2. KeyOf(d)' = KeyOf(d)
      BY <3>1 DEF KeyOf
    <3>3. user[d] # Nil => tree'[KeyOf(d)] = user[d]
      BY <1>3, <3>1, TreeGrows, KeyTyped DEF PinnedOf
    <3>4. pc[d] = "insert" => heap'[d] = heap[d]
      BY <1>3, OnItsWay DEF Registered
    <3>5. QED
      BY <3>1, <3>2, <3>3, <3>4 DEF PinnedOf
  <2>3. QED
    BY <2>1, <2>2 DEF Pinned
<1>4. QED
  BY <1>1, <1>2, <1>3 DEF Next

Asks   == [c \in Conn |-> Asked(c)]
Stages == [c \in Conn |-> Stage(c)]
Users  == [k \in Key |-> IF tree[k] = Nil THEN Free ELSE heap[tree[k]]]
Asides == <<Asks, Stages, Users, shown>>

\* What has been asked, by its kind.
LEMMA AskedIs ==
  ASSUME NEW c \in Conn
  PROVE  /\ got[c] \in Login => Asked(c) = got[c] /\ got[c].kind = "login"
         /\ got[c] \in Post => Asked(c) = got[c] /\ got[c].kind = "text"
         /\ got[c] \in Plain \cup {Nothing} => Asked(c) = Nothing /\ Stage(c) = "waiting"
  BY Kinds DEF Asked, Stage, Nothing, Plain

\* A stage of a login or of a text.
LEMMA StageOf ==
  ASSUME NEW c \in Conn
  PROVE  /\ got[c] \in Login =>
               /\ sent[c] = << 200 >> /\ ~broken[c] => Stage(c) = "shown"
               /\ sent[c] = << 403 >> => Stage(c) = "refused"
               /\ sent[c] = <<>> /\ user[c] = c => Stage(c) = "registered"
               /\ sent[c] = <<>> /\ user[c] # c => Stage(c) = "waiting"
         /\ got[c] \in Post =>
               /\ user[c] # Nil /\ pc[c] # "store" => Stage(c) = "posted"
               /\ user[c] # Nil /\ pc[c] = "store" => Stage(c) = "waiting"
               /\ user[c] = Nil /\ pc[c] \notin {"forbid", "done"} => Stage(c) = "waiting"
               /\ user[c] = Nil /\ pc[c] \in {"forbid", "done"} => Stage(c) = "refused"
<1>1. << 200 >> # << 403 >> /\ << 200 >> # <<>> /\ << 403 >> # <<>>
  OBVIOUS
<1>2. got[c] \in Login => got[c].kind = "login"
  BY Kinds
<1>3. got[c] \in Post => got[c].kind = "text"
  BY Kinds
<1>4. ASSUME got[c] \in Login
      PROVE  Stage(c) = CASE sent[c] = << 200 >> /\ ~broken[c] -> "shown" [] sent[c] = << 403 >> -> "refused"
                          [] OTHER -> IF user[c] = c THEN "registered" ELSE "waiting"
  BY <1>2, <1>4 DEF Stage
<1>5. ASSUME got[c] \in Post
      PROVE  Stage(c) = CASE user[c] # Nil /\ pc[c] # "store" -> "posted"
                          [] user[c] = Nil /\ pc[c] \in {"forbid", "done"} -> "refused"
                          [] OTHER -> "waiting"
  BY <1>3, <1>5 DEF Stage
<1>6. QED
  BY <1>1, <1>4, <1>5

\* The others keep what they asked, and its stage.
LEMMA OthersServed ==
  ASSUME Base, NEW c \in Conn, Connect(c) \/ Accept(c) \/ Arrive(c) \/ Thread(c)
  PROVE  /\ Asks' = [Asks EXCEPT ![c] = Asked(c)'] /\ Asks[c] = Asked(c) /\ Asks'[c] = Asked(c)'
         /\ Stages' = [Stages EXCEPT ![c] = Stage(c)'] /\ Stages[c] = Stage(c)
<1>1. \A d \in Conn \ {c} : Asked(d)' = Asked(d) /\ Stage(d)' = Stage(d)
  BY Frame DEF Asked, Stage, Base
<1>2. QED
  BY <1>1 DEF Asks, Stages

\* Users are what the tree leads to; an object that is on its way into it is none.
LEMMA UsersStay ==
  ASSUME Base, ~raced, NEW c \in Conn,
         \/ Calm(c) \/ Lookup(c) \/ InsertExists(c) \/ TextFind(c)
  PROVE  Users' = Users
<1>1. tree' = tree /\ \A d \in Conn : heap'[d] = heap[d] \/ (d = c /\ \A k \in Key : tree[k] # c)
  <2>1. CASE Calm(c) \/ TextFind(c)
    BY <2>1 DEF Calm, TextFind, shared
  <2>2. CASE Lookup(c)
    <3>1. heap[c] = Free
      BY <2>2 DEF Lookup, At, Base, Sound, Allocates, Early
    <3>2. \A d \in Conn \ {c} : heap'[d] = heap[d]
      BY <2>2 DEF Lookup, Base, TypeOK
    <3>3. \A k \in Key : tree[k] # c
      BY <3>1 DEF Base, Sound, Unseen
    <3>4. QED
      BY <2>2, <3>2, <3>3 DEF Lookup
  <2>3. CASE InsertExists(c)
    <3>1. \A d \in Conn \ {c} : heap'[d] = heap[d]
      BY <2>3 DEF InsertExists, Base, TypeOK
    <3>2. \A k \in Key : tree[k] # c
      BY <2>3 DEF InsertExists, At, Base, Sound, Unseen
    <3>3. QED
      BY <2>3, <3>1, <3>2 DEF InsertExists
  <2>4. QED
    BY <2>1, <2>2, <2>3
<1>2. \A k \in Key : tree[k] = Nil \/ heap'[tree[k]] = heap[tree[k]]
  BY <1>1 DEF Base, Sound, Linked
<1>3. QED
  BY <1>1, <1>2 DEF Users

\* The user of a key, as the board and the thread see it.
LEMMA UserIs ==
  ASSUME Base, ~raced, NEW c \in Conn, got[c] \in Login \cup Post
  PROVE  /\ Asks[c] = got[c] /\ Hash[Asks[c].name] = KeyOf(c) /\ KeyOf(c) \in Key
         /\ tree[KeyOf(c)] = Nil => Users[KeyOf(c)] = Free
         /\ tree[KeyOf(c)] # Nil => /\ Users[KeyOf(c)] = heap[tree[KeyOf(c)]]
                                    /\ Users[KeyOf(c)] \in Object /\ Users[KeyOf(c)] # Free
<1>1. Asks[c] = got[c] /\ KeyOf(c) \in Key
  BY AskedIs, KeyTyped DEF Asks
<1>2. Hash[Asks[c].name] = KeyOf(c)
  BY <1>1 DEF KeyOf
<1>3. QED
  BY <1>1, <1>2, Kinds DEF Users, Base, Sound, Linked

Served == Base /\ Answers /\ Registered /\ Pinned

\* A request is asked when it is read.
LEMMA ReadingAsks ==
  ASSUME Served, NEW c \in Conn, Recv(c) \/ Bare(c)
  PROVE  Board!Ask(c) \/ UNCHANGED Asides
<1> USE DEF GoTo, At, locals, shared, output
<1>1. /\ got \in [Conn -> Request \cup {Nothing}] /\ req \in [Conn -> Request \cup {Nothing}]
      /\ Base /\ ~raced /\ Thread(c) /\ UNCHANGED <<user, shown, sent>>
  BY DEF Served, Base, Registered, TypeOK, Thread, Recv, Bare
<1>2. got[c] \in Plain \cup {Nothing} /\ user[c] = Nil /\ sent[c] = <<>> /\ Nil # c
  BY NamesAssumption
     DEF Served, Base, Read, Pinned, PinnedOf, Answers, Silent, Early, Recv, Bare
<1>3. Users' = Users
  BY <1>1, CalmSteps, UsersStay DEF Base
<1>4. Asked(c) = Nothing /\ Stage(c) = "waiting"
  BY <1>2, AskedIs
<1>5. got'[c] \in Login \cup Post \cup Plain /\ pc'[c] \notin {"forbid", "done", "store"}
  <2>1. CASE Recv(c)
    <3>1. PICK r \in Pieces(req[c]) : /\ got' = [got EXCEPT ![c] = r]
                                      /\ GoTo(c, IF r.kind = "login" THEN "lookup" ELSE r.kind)
      BY <2>1 DEF Recv
    <3>2. r \in Login \/ r \in Post \/ r \in Plain
      BY <1>1, <2>1 DEF Recv, Pieces, Request, Plain
    <3>3. QED
      BY <1>1, <3>1, <3>2, Kinds DEF Base, TypeOK
  <2>2. CASE Bare(c)
    <3>1. [kind |-> "login", name |-> Static, pass |-> Static] \in Login
      BY NamesAssumption DEF Login
    <3>2. got[c] \in Plain
      BY <2>2 DEF Bare, Base, Served, Read
    <3>3. QED
      BY <1>1, <2>2, <3>1, <3>2 DEF Bare, Base, TypeOK
  <2>3. QED
    BY <2>1, <2>2
<1>6. CASE got'[c] \in Plain
  <2>1. Asked(c)' = Nothing /\ Stage(c)' = "waiting"
    BY <1>6, AskedIs, Kinds DEF Asked, Stage
  <2>2. QED
    BY <1>1, <1>3, <1>4, <2>1, OthersServed DEF Asides, Asks, Stages
<1>7. CASE got'[c] \in Login \cup Post
  <2>1. Asked(c)' \in Login \cup Post
    BY <1>7, Kinds DEF Asked
  <2>2. Stage(c)' = "waiting"
    <3>1. CASE got'[c] \in Login
      BY <1>1, <1>2, <3>1, Kinds DEF Stage
    <3>2. CASE got'[c] \in Post
      BY <1>1, <1>2, <1>5, <3>2, Kinds DEF Stage
    <3>3. QED
      BY <1>7, <3>1, <3>2
  <2>3. Stages' = Stages
    BY <1>1, <1>4, <2>2, OthersServed DEF Stages
  <2>4. Asks' = [Asks EXCEPT ![c] = Asks'[c]] /\ Asks[c] = Nothing /\ Asks'[c] \in Login \cup Post
    BY <1>1, <1>4, <2>1, OthersServed
  <2>5. QED
    BY <1>1, <1>3, <2>3, <2>4 DEF Board!Ask, Asks, Stages, Users
<1>8. QED
  BY <1>5, <1>6, <1>7

\* A user is registered when the tree takes it.
LEMMA PlacingRegisters ==
  ASSUME Served, NEW c \in Conn, Place(c)
  PROVE  Board!Register(c)
<1> USE DEF GoTo, At, locals, shared, output
<1>1. Base /\ ~raced /\ Thread(c) /\ UNCHANGED <<got, heap, shown, sent>>
  BY DEF Served, Registered, Thread, Place
<1>2. pc[c] = "insert" /\ tree[KeyOf(c)] = Nil /\ ~raced
  BY DEF Place, Served, Registered
<1>3. got[c] \in Login /\ sent[c] = <<>> /\ user[c] = Nil /\ user'[c] = c /\ Nil # c
  BY <1>2, NamesAssumption DEF Place, Served, Base, TypeOK, Read, Answers, Silent, Sound, Owns
<1>4. /\ heap[c] = [state |-> "used", name |-> got[c].name, pass |-> got[c].pass, paste |-> NoPaste]
  <2>1. heap[c] \in Object /\ heap[c].name = got[c].name /\ heap[c].pass = got[c].pass
    BY <1>2 DEF Served, Base, Sound, Owns
  <2>2. heap[c].paste = NoPaste
    BY <1>2 DEF Served, Pinned, PinnedOf
  <2>3. QED
    BY <2>1, <2>2 DEF Object
<1>5. Stage(c) = "waiting" /\ Asks[c] = got[c] /\ got[c].kind = "login"
  BY <1>3, StageOf, AskedIs DEF Asks
<1>6. Stage(c)' = "registered" /\ Asked(c)' = Asked(c)
  BY <1>1, <1>3, Kinds DEF Stage, Asked
<1>7. Asks' = Asks /\ Stages' = [Stages EXCEPT ![c] = "registered"] /\ Stages[c] = "waiting"
  BY <1>1, <1>5, <1>6, OthersServed DEF Asks
<1>8. KeyOf(c) \in Key /\ Users[KeyOf(c)] = Free /\ Hash[Asks[c].name] = KeyOf(c)
  BY <1>1, <1>2, <1>3, UserIs
<1>9. \A k \in Key : tree'[k] = (IF k = KeyOf(c) THEN c ELSE tree[k])
  BY <1>2 DEF Place, Served, Base, TypeOK
<1>10. Users' = [Users EXCEPT ![KeyOf(c)] = heap[c]]
  BY <1>1, <1>3, <1>8, <1>9 DEF Users
<1>11. QED
  BY <1>1, <1>4, <1>5, <1>7, <1>8, <1>10
     DEF Board!Register, Board!Waits, Board!UserOf, Board!KeyOf, Board!Becomes, Asks, Stages, Users

\* A page is shown, or a password refused, when the answer is sent.
LEMMA AnsweringServes ==
  ASSUME Served, NEW c \in Conn, Welcome(c) \/ Check(c)
  PROVE  Board!Show(c) \/ Board!Refuse(c) \/ UNCHANGED Asides
<1> USE DEF GoTo, At, locals, shared, output
<1>1. Base /\ ~raced /\ Thread(c) /\ Calm(c)
  BY CalmSteps DEF Served, Base, Registered, Thread
<1>2. UNCHANGED <<got, tree, heap, user>> /\ Users' = Users
  BY <1>1, UsersStay DEF Welcome, Check, Respond
<1>3. got[c] \in Login /\ sent[c] = <<>> /\ shown[c] = NoPaste /\ ~broken[c]
  BY DEF Served, Base, Read, Answers, Silent, Pinned, PinnedOf, Welcome, Check
<1>4. user[c] # Nil /\ tree[KeyOf(c)] = user[c]
  BY NamesAssumption DEF Served, Base, Sound, Uses, Pinned, PinnedOf, Welcome, Check
<1> DEFINE u == heap[user[c]]
<1>5. /\ Asks[c] = got[c] /\ Hash[Asks[c].name] = KeyOf(c) /\ Users[KeyOf(c)] = u /\ u # Free
  BY <1>1, <1>3, <1>4, UserIs
<1>6. Asks' = Asks
  BY <1>1, <1>2, OthersServed DEF Asked, Asks
<1>7. ASSUME Respond(c, 200, u.paste, "done"), <<got[c].pass, u.pass>> \in Prefix
      PROVE  Board!Show(c) \/ UNCHANGED Asides
  <2>1. CASE /\ sent' = [sent EXCEPT ![c] = Append(sent[c], 200)]
             /\ shown' = [shown EXCEPT ![c] = u.paste] /\ ~broken'[c]
    <3>1. sent'[c] = << 200 >>
      BY <1>3, <2>1 DEF Served, Base, TypeOK
    <3>2. Stage(c)' = "shown"
      BY <1>2, <1>3, <2>1, <3>1, Kinds DEF Stage
    <3>3. Stages' = [Stages EXCEPT ![c] = "shown"]
      BY <1>1, <3>2, OthersServed
    <3>4. Stages[c] \in {"waiting", "registered"} /\ Asks[c].kind = "login"
      BY <1>3, <1>5, StageOf, Kinds DEF Stages
    <3>5. QED
      BY <1>2, <1>5, <1>6, <1>7, <2>1, <3>3, <3>4
         DEF Board!Show, Board!Waits, Board!UserOf, Board!KeyOf, Board!Fits, Board!Becomes,
             Asks, Stages, Users
  <2>2. CASE UNCHANGED shown /\ broken'[c] /\ sent'[c] \in {<<>>, << 200 >>}
    <3>1. Stage(c)' = Stage(c)
      BY <1>2, <1>3, <2>2, Kinds DEF Stage
    <3>2. QED
      BY <1>1, <1>2, <1>6, <2>2, <3>1, OthersServed DEF Asides, Stages
  <2>3. CASE UNCHANGED broken /\ broken[c]
    <3>1. FALSE
      BY <1>1, <1>3, <2>3 DEF Served
    <3>2. QED
      BY <3>1
  <2>4. QED
    BY <1>3, <1>7, <2>1, <2>2, <2>3 DEF Respond, Served, Base, TypeOK
<1>8. ASSUME Respond(c, 403, NoPaste, "done"), <<got[c].pass, u.pass>> \notin Prefix, user[c] # c
      PROVE  Board!Refuse(c) \/ UNCHANGED Asides
  <2>1. shown' = shown
    BY <1>3, <1>8 DEF Respond, Served, Base, TypeOK
  <2>2. CASE sent' = [sent EXCEPT ![c] = Append(sent[c], 403)]
    <3>1. sent'[c] = << 403 >> /\ << 403 >> # << 200 >>
      BY <1>3, <2>2 DEF Served, Base, TypeOK
    <3>2. Stage(c)' = "refused"
      BY <1>2, <1>3, <3>1, Kinds DEF Stage
    <3>3. Stages' = [Stages EXCEPT ![c] = "refused"]
      BY <1>1, <3>2, OthersServed
    <3>4. Stages[c] = "waiting" /\ Asks[c].kind = "login"
      BY <1>3, <1>5, <1>8, StageOf, Kinds DEF Stages
    <3>5. QED
      BY <1>2, <1>5, <1>6, <1>8, <2>1, <3>3, <3>4
         DEF Board!Refuse, Board!Waits, Board!UserOf, Board!KeyOf, Board!Fits, Board!Becomes,
             Asks, Stages, Users
  <2>3. CASE UNCHANGED sent
    <3>1. Stage(c)' = Stage(c)
      BY <1>2, <1>3, <2>3, Kinds DEF Stage
    <3>2. QED
      BY <1>1, <1>2, <1>6, <2>1, <3>1, OthersServed DEF Asides, Stages
  <2>4. QED
    BY <1>8, <2>2, <2>3 DEF Respond
<1>9. CASE Welcome(c)
  <2>1. user[c] = c /\ <<got[c].pass, u.pass>> \in Prefix
    BY <1>3, <1>9, Kinds, NamesAssumption DEF Welcome, Served, Pinned, PinnedOf, Registered
  <2>2. QED
    BY <1>7, <1>9, <2>1 DEF Welcome
<1>10. CASE Check(c)
  BY <1>7, <1>8, <1>10 DEF Check, Served, Pinned, PinnedOf
<1>11. QED
  BY <1>9, <1>10

\* A text is refused when the name is not found.
LEMMA FindingRefuses ==
  ASSUME Served, NEW c \in Conn, TextFind(c)
  PROVE  Board!Refuse(c) \/ UNCHANGED Asides
<1> USE DEF GoTo, At, locals, shared, output
<1>1. Base /\ ~raced /\ Thread(c) /\ UNCHANGED <<got, shown, sent>> /\ Users' = Users
  BY UsersStay DEF Served, Registered, Thread, TextFind
<1>2. got[c] \in Post /\ user[c] = Nil /\ pc[c] = "find"
  BY DEF TextFind, Served, Base, Read, Pinned, PinnedOf, Early
<1>3. Stage(c) = "waiting" /\ Asks' = Asks
  BY <1>1, <1>2, StageOf, OthersServed DEF Asks, Asked
<1>4. user'[c] = tree[KeyOf(c)] /\ pc'[c] = IF tree[KeyOf(c)] = Nil THEN "forbid" ELSE "store"
  BY <1>1 DEF TextFind, Base, TypeOK
<1>5. got'[c].kind = "text" /\ got'[c].kind # "login"
  BY <1>1, <1>2, Kinds
<1>6. CASE tree[KeyOf(c)] = Nil
  <2>1. Stage(c)' = "refused"
    BY <1>2, <1>4, <1>5, <1>6 DEF Stage
  <2>2. Stages' = [Stages EXCEPT ![c] = "refused"] /\ Stages[c] = "waiting"
    BY <1>1, <1>3, <2>1, OthersServed
  <2>3. /\ Asks[c].kind = "text" /\ Hash[Asks[c].name] = KeyOf(c) /\ Users[KeyOf(c)] = Free
    BY <1>1, <1>2, <1>6, UserIs, Kinds
  <2>4. QED
    BY <1>1, <1>3, <2>2, <2>3
       DEF Board!Refuse, Board!Waits, Board!UserOf, Board!KeyOf, Board!Becomes, Asks, Stages, Users
<1>7. CASE tree[KeyOf(c)] # Nil
  <2>1. Stage(c)' = "waiting"
    BY <1>4, <1>5, <1>7 DEF Stage
  <2>2. QED
    BY <1>1, <1>3, <2>1, OthersServed DEF Asides, Stages
<1>8. QED
  BY <1>6, <1>7

\* A text without a cookie may be refused, and no more, where the sending fails.
LEMMA CookieRefuses ==
  ASSUME Served, NEW c \in Conn, TextCookie(c)
  PROVE  Board!Refuse(c) \/ UNCHANGED Asides
<1> USE DEF GoTo, At, locals, shared, output
<1>1. Base /\ ~raced /\ Thread(c) /\ Calm(c) /\ UNCHANGED <<got, user>>
  BY CalmSteps DEF Served, Base, Registered, Thread, TextCookie, Respond
<1>2. /\ got[c] \in Post /\ user[c] = Nil /\ pc[c] = "text" /\ shown[c] = NoPaste
      /\ pc \in [Conn -> Labels] /\ shown \in [Conn -> Text \cup {NoPaste}]
  BY DEF TextCookie, Served, Base, TypeOK, Read, Pinned, PinnedOf, Early
<1>3. Users' = Users /\ Asks' = Asks /\ Stage(c) = "waiting" /\ Stages[c] = "waiting"
  BY <1>1, <1>2, UsersStay, StageOf, OthersServed DEF Asks, Asked
<1>4. shown' = shown
  BY <1>2 DEF TextCookie, Respond
<1>5. got'[c] \in Post /\ got'[c].kind = "text" /\ got'[c].kind # "login"
  BY <1>1, <1>2, Kinds
<1>6. pc'[c] = "find" \/ (pc'[c] = "done" /\ got[c].name = NoName)
  BY <1>2 DEF TextCookie, Respond
<1>7. CASE pc'[c] = "find"
  <2>1. Stage(c)' = "waiting"
    BY <1>1, <1>2, <1>5, <1>7 DEF Stage
  <2>2. QED
    BY <1>1, <1>3, <1>4, <2>1, OthersServed DEF Asides, Stages
<1>8. CASE pc'[c] = "done" /\ got[c].name = NoName
  <2>1. Stage(c)' = "refused"
    BY <1>1, <1>2, <1>5, <1>8 DEF Stage
  <2>2. Stages' = [Stages EXCEPT ![c] = "refused"]
    BY <1>1, <2>1, OthersServed
  <2>3. Asks[c] = got[c] /\ Asks[c].kind = "text"
    BY <1>1, <1>2, UserIs, Kinds
  <2>4. QED
    BY <1>3, <1>4, <1>8, <2>2, <2>3
       DEF Board!Refuse, Board!Waits, Board!Becomes, Asks, Stages, Users
<1>9. QED
  BY <1>6, <1>7, <1>8

\* A text is stored when the object takes it.
LEMMA StoringStores ==
  ASSUME Served, NEW c \in Conn, TextStore(c)
  PROVE  Board!Store(c)
<1> USE DEF GoTo, At, locals, shared, output
<1>1. Base /\ ~raced /\ Thread(c) /\ UNCHANGED <<got, tree, user, shown, sent>>
  BY DEF Served, Registered, Thread, TextStore
<1>2. pc[c] = "store" /\ pc'[c] = "root" /\ heap' = [heap EXCEPT ![user[c]].paste = got[c].text]
  BY DEF TextStore, Served, Base, TypeOK
<1>3. got[c] \in Post /\ user[c] # Nil /\ tree[KeyOf(c)] = user[c]
  BY <1>2 DEF Served, Base, Read, Sound, Uses, Pinned, PinnedOf
<1>4. Stage(c) = "waiting" /\ Asks' = Asks
  BY <1>1, <1>2, <1>3, StageOf, OthersServed DEF Asks, Asked
<1>5. Stage(c)' = "posted"
  BY <1>1, <1>2, <1>3, Kinds DEF Stage
<1>6. Stages' = [Stages EXCEPT ![c] = "posted"] /\ Stages[c] = "waiting"
  BY <1>1, <1>4, <1>5, OthersServed
<1>7. /\ Asks[c] = got[c] /\ Hash[Asks[c].name] = KeyOf(c) /\ KeyOf(c) \in Key
      /\ Users[KeyOf(c)] # Free /\ Asks[c].kind = "text"
  BY <1>1, <1>3, UserIs, Kinds
<1>8. \A k \in Key \ {KeyOf(c)} : tree[k] = Nil \/ tree[k] # user[c]
  <2>1. Hash[heap[user[c]].name] = KeyOf(c)
    BY <1>1, <1>3, <1>7 DEF Base, Sound, Linked
  <2>2. \A k \in Key : tree[k] # Nil => Hash[heap[tree[k]].name] = k
    BY <1>1 DEF Base, Sound, Linked
  <2>3. QED
    BY <2>1, <2>2
<1>9. Users' = [Users EXCEPT ![KeyOf(c)].paste = got[c].text]
  <2>1. /\ heap \in [Conn -> Object \cup {Free}] /\ user[c] \in Conn
        /\ \A k \in Key : tree[k] # Nil => tree[k] \in Conn
    BY <1>1, <1>3, <1>7 DEF Base, TypeOK, Sound, Linked
  <2>2. \A k \in Key \ {KeyOf(c)} : tree[k] # Nil => heap'[tree[k]] = heap[tree[k]]
    BY <1>2, <1>8, <2>1
  <2>3. heap'[user[c]] = [heap[user[c]] EXCEPT !.paste = got[c].text]
    BY <1>2, <2>1
  <2>4. \A k \in Key : Users'[k] = IF k = KeyOf(c) THEN [Users[k] EXCEPT !.paste = got[c].text] ELSE Users[k]
    BY <1>1, <1>3, <1>7, <2>2, <2>3 DEF Users
  <2>5. Users' = [k \in Key |-> Users'[k]] /\ DOMAIN Users = Key
    BY DEF Users
  <2>6. QED
    BY <2>4, <2>5
<1>10. QED
  BY <1>1, <1>4, <1>6, <1>7, <1>9
     DEF Board!Store, Board!Waits, Board!UserOf, Board!KeyOf, Board!Becomes, Asks, Stages, Users

\* The other steps serve nothing.
LEMMA OthersServeNothing ==
  ASSUME ~Racing, Served, NEW c \in Conn,
         \/ Connect(c) \/ Accept(c) \/ Arrive(c) \/ Poll(c) \/ RecvTimeout(c) \/ Root(c) \/ Other(c) \/ Unknown(c)
         \/ Lookup(c) \/ InsertExists(c) \/ Forbid(c)
  PROVE  UNCHANGED Asides
<1> USE DEF GoTo, At, locals, shared, output
<1>1. Base /\ ~raced /\ (Connect(c) \/ Accept(c) \/ Arrive(c) \/ Thread(c))
  BY DEF Served, Registered, Thread
<1>2. Users' = Users
  BY <1>1, CalmSteps, UsersStay DEF Base
<1>3. UNCHANGED got
  BY DEF Connect, Accept, Arrive, Poll, RecvTimeout, Root, Other, Unknown, Lookup, InsertExists,
         Forbid, Respond
<1>4. Asks' = Asks
  BY <1>1, <1>3, OthersServed DEF Asked, Asks
<1>5. shown' = shown
  <2>1. shown[c] = NoPaste
    BY DEF Connect, Accept, Arrive, Poll, RecvTimeout, Root, Other, Unknown, Lookup, InsertExists,
           Forbid, Served, Pinned, PinnedOf
  <2>2. UNCHANGED shown \/ shown' = [shown EXCEPT ![c] = NoPaste]
    BY DEF Connect, Accept, Arrive, Poll, RecvTimeout, Root, Other, Unknown, Lookup, InsertExists,
           Forbid, Respond
  <2>3. QED
    BY <1>1, <2>1, <2>2 DEF Base, TypeOK
<1>6. Stage(c)' = Stage(c)
  <2>1. CASE got[c] \in Plain \cup {Nothing}
    BY <1>3, <2>1, Kinds DEF Stage, Nothing
  <2>2. CASE got[c] \in Login
    <3>1. got'[c].kind = "login" /\ got[c].kind = "login"
      BY <1>3, <2>2, Kinds
    <3>2. UNCHANGED <<sent, broken>>
      BY <2>2, Kinds
         DEF Connect, Accept, Arrive, Poll, RecvTimeout, Root, Other, Unknown, Lookup, InsertExists,
             Forbid, Served, Base, Read, Pinned, PinnedOf, Login, Post, Plain
    <3>3. (user'[c] = c) <=> (user[c] = c)
      <4>1. CASE Lookup(c)
        <5>1. heap[c] = Free /\ user[c] = Nil /\ Nil # c
          BY <4>1, NamesAssumption
             DEF Lookup, Served, Base, Sound, Allocates, Early, Pinned, PinnedOf
        <5>2. user'[c] = tree[KeyOf(c)] /\ KeyOf(c) \in Key
          BY <1>1, <2>2, <4>1, KeyTyped DEF Lookup, Base, TypeOK
        <5>3. QED
          BY <1>1, <5>1, <5>2 DEF Base, Sound, Unseen
      <4>2. CASE ~Lookup(c)
        BY <4>2 DEF Connect, Accept, Arrive, Poll, RecvTimeout, Root, Other, Unknown, InsertExists,
                    Forbid, Respond
      <4>3. QED
        BY <4>1, <4>2
    <3>4. QED
      BY <3>1, <3>2, <3>3 DEF Stage
  <2>3. CASE got[c] \in Post
    <3>1. got'[c].kind = "text" /\ got[c].kind = "text" /\ got[c] # Nothing
      BY <1>3, <2>3, Kinds
    <3>2. CASE Root(c)
      <4>1. user[c] # Nil /\ pc[c] # "store" /\ pc'[c] = "done" /\ UNCHANGED user
        BY <1>1, <2>3, <3>2, Kinds
           DEF Root, Respond, Served, Base, TypeOK, Read, Pinned, PinnedOf, Post, Plain
      <4>2. QED
        BY <3>1, <4>1 DEF Stage
    <3>3. CASE Forbid(c)
      <4>1. user[c] = Nil /\ UNCHANGED user /\ pc[c] = "forbid" /\ pc'[c] = "done"
        BY <1>1, <3>3 DEF Forbid, Respond, Served, Pinned, PinnedOf, Early, Base, TypeOK
      <4>2. QED
        BY <3>1, <4>1 DEF Stage
    <3>4. CASE Connect(c) \/ Accept(c) \/ Arrive(c)
      <4>1. UNCHANGED <<user, sent>> /\ {pc[c], pc'[c]} \cap {"forbid", "done", "store"} = {}
        BY <1>1, <3>4 DEF Connect, Accept, Arrive, Base, TypeOK
      <4>2. QED
        BY <3>1, <4>1 DEF Stage
    <3>5. ~(Other(c) \/ Poll(c) \/ RecvTimeout(c) \/ Unknown(c) \/ Lookup(c) \/ InsertExists(c))
      BY <2>3, <3>1, Kinds
         DEF Other, Poll, RecvTimeout, Unknown, Lookup, InsertExists, Served, Base, Read, Login,
             Post, Plain
    <3>6. QED
      BY <3>2, <3>3, <3>4, <3>5
  <2>4. QED
    BY <1>1, <2>1, <2>2, <2>3 DEF Base, TypeOK, Request
<1>7. Stages' = Stages
  BY <1>1, <1>6, OthersServed DEF Stages
<1>8. QED
  BY <1>2, <1>4, <1>5, <1>7 DEF Asides

\* Every step is one of the board, or leaves it alone.
LEMMA StepOfBoard ==
  ASSUME ~Racing, Served, NEW c \in Conn, Connect(c) \/ Accept(c) \/ Arrive(c) \/ Thread(c)
  PROVE  Board!Next \/ UNCHANGED Asides
<1>1. CASE Recv(c) \/ Bare(c)
  BY <1>1, ReadingAsks DEF Board!Next
<1>2. CASE Place(c)
  BY <1>2, PlacingRegisters DEF Board!Next
<1>3. CASE Welcome(c) \/ Check(c)
  BY <1>3, AnsweringServes DEF Board!Next
<1>4. CASE TextFind(c)
  BY <1>4, FindingRefuses DEF Board!Next
<1>5. CASE TextStore(c)
  BY <1>5, StoringStores DEF Board!Next
<1>6. CASE TextCookie(c)
  BY <1>6, CookieRefuses DEF Board!Next
<1>7. ~Stray(c)
  BY NoStray DEF Served, Registered
<1>8. QED
  BY <1>1, <1>2, <1>3, <1>4, <1>5, <1>6, <1>7, OthersServeNothing DEF Thread, InsertBegin

\* No thread has found anything at first.
LEMMA PinnedInit == Init => Pinned
  BY Kinds DEF Init, Pinned, PinnedOf, Early, Nothing

\* Where insertions do not overlap, threads that look up, insert, compare and write in any
\* order serve their requests as if each were served at once: the first to register a key has
\* it, a page is the paste of the moment for a password that fits, a text is stored once.
THEOREM ImplementsPasteBoard ==
  ASSUME ~Racing
  PROVE  Spec => BoardSpec
<1>1. Init => Board!Init
  <2>1. SUFFICES ASSUME Init PROVE Board!Init
    OBVIOUS
  <2>2. \A c \in Conn : Asked(c) = Nothing /\ Stage(c) = "waiting"
    BY <2>1, AskedIs DEF Init
  <2>3. QED
    BY <2>1, <2>2 DEF Init, Board!Init
<1>2. Served /\ [Next]_vars => [Board!Next]_Asides
  <2>1. SUFFICES ASSUME Served, [Next]_vars PROVE [Board!Next]_Asides
    OBVIOUS
  <2>2. CASE UNCHANGED vars
    BY <2>2 DEF vars, Asides, Asks, Stages, Users, Asked, Stage
  <2>3. CASE ListenerExits
    BY <2>3
       DEF ListenerExits, locals, shared, output, Asides, Asks, Stages, Users, Asked, Stage
  <2>4. CASE \E c \in Conn : Connect(c) \/ Accept(c) \/ Arrive(c) \/ Thread(c)
    BY <2>1, <2>4, StepOfBoard
  <2>5. QED
    BY <2>1, <2>2, <2>3, <2>4 DEF Next
<1>3. Base /\ Registered /\ [Next]_vars => Registered'
  BY RegisteredStep
<1>4. Base /\ Answers /\ Registered /\ Pinned /\ [Next]_vars => Pinned'
  BY PinnedStep
<1>5. Served /\ [Next]_vars => Served'
  BY <1>3, <1>4, BaseStep, AnswersStep DEF Served
<1>6. Init => Served
  BY BaseInit, AnswersInit, RegisteredInit, PinnedInit DEF Served
<1>7. QED
  BY <1>1, <1>2, <1>5, <1>6, PTL
     DEF Spec, BoardSpec, Board!Spec, Board!boardVars, Asides, Asks, Stages, Users
=============================================================================
