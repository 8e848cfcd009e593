------------------------------- MODULE Signup -------------------------------
(***************************************************************************)
(* The registration site: net/http runs each request in a goroutine of its *)
(* own.  captchaHandler builds a crackme, serves it and then stores its    *)
(* answer in an SQLite table; authHandler checks a form against the files  *)
(* under teams/ and that table, marks the answer used and writes the       *)
(* team's file.  Queries are atomic, handlers are not.  Files and table    *)
(* outlive the process.                                                    *)
(*                                                                         *)
(* Abstracted: sha512 and md5 (injective here), the contents of a team's   *)
(* file (named for the request that wrote it), the compiling of a crackme. *)
(***************************************************************************)
EXTENDS Naturals, FiniteSets

CONSTANTS Form,       \* requests to /auth.brainfuck
          Crack,      \* requests to /crackme
          Name, NoName, LongName,
          Captcha,    \* the 16 random bytes: they may come again
          Absent, Empty, Mixed,   \* a file that is missing, truncated, of two writers
          MaxDeaths,  \* bound: times the process dies and is started again
          DbMayFail   \* whether queries may fail (database is locked)

ASSUME ValuesAssumption == /\ {Absent, Empty, Mixed} \cap Form = {}
                           /\ Cardinality({Absent, Empty, Mixed}) = 3
                           /\ {NoName, LongName} \cap Name = {} /\ NoName # LongName
                           /\ Form \cap Crack = {}
ASSUME BoundsAssumption == MaxDeaths \in Nat /\ DbMayFail \in BOOLEAN

\* complete: email, about and captcha are filled in and there is a cookie.
Request == [name : Name \cup {NoName, LongName}, complete : BOOLEAN,
            captcha : Captcha, cookie : Captcha]
NoForm == [kind |-> "none"]
NoFlag == "none"

VARIABLES teams,     \* the file of each name
          stored,    \* captchas with a row
          used,      \* captchas whose row says used
          workdirs,  \* /tmp/revcaptcha_*, named for the request
          pc,        \* what each handler does next
          req,       \* the form sent
          flag,      \* the captcha made for a crackme
          page,      \* the page a form was redirected to
          misread,   \* history: a query of the request failed and counted as false
          start,     \* history: names and captchas taken when the request came
          deaths

vars  == <<teams, stored, used, workdirs, pc, req, flag, page, misread, start, deaths>>
table == <<stored, used>>
forms == <<req, page, misread, start>>
disk  == <<teams, table, workdirs>>

Handler == Form \cup Crack
Nobody  == [names |-> {}, spent |-> {}, known |-> {}]

Init == /\ teams = [n \in Name |-> Absent]
        /\ stored = {} /\ used = {} /\ workdirs = {}
        /\ pc = [h \in Handler |-> "idle"]
        /\ req = [h \in Form |-> NoForm]
        /\ flag = [k \in Crack |-> NoFlag]
        /\ page = [h \in Form |-> "none"]
        /\ misread = [h \in Form |-> FALSE]
        /\ start = [h \in Form |-> Nobody]
        /\ deaths = 0

At(h, label) == pc[h] = label
GoTo(h, label) == pc' = [pc EXCEPT ![h] = label]

-----------------------------------------------------------------------------
(* captchaHandler *)

\* Mutant: the answer is stored although there is no crackme.
GiveUpAndAdd(k) == /\ pc[k] \in {"tempdir", "make", "remove"}
                   /\ GoTo(k, "add")
                   /\ UNCHANGED <<disk, forms, flag, deaths>>

\* An error is logged and the handler returns; the directory stays.
GiveUp(k) == /\ pc[k] \in {"tempdir", "make", "remove"}
             /\ GoTo(k, "done")
             /\ UNCHANGED <<disk, forms, flag, deaths>>

Ask(k) == /\ At(k, "idle")
          /\ GoTo(k, "tempdir")
          /\ UNCHANGED <<disk, forms, flag, deaths>>

TempDir(k) == /\ At(k, "tempdir")
              /\ workdirs' = workdirs \cup {k}
              /\ GoTo(k, "make")
              /\ UNCHANGED <<teams, table, forms, flag, deaths>>

\* The crackme and its cookie go to the client, who may answer from here on.
MakeAndServe(k) == /\ At(k, "make")
                   /\ \E c \in Captcha : flag' = [flag EXCEPT ![k] = c]
                   /\ GoTo(k, "remove")
                   /\ UNCHANGED <<disk, forms, deaths>>

RemoveAll(k) == /\ At(k, "remove")
                /\ workdirs' = workdirs \ {k}
                /\ GoTo(k, "add")
                /\ UNCHANGED <<teams, table, forms, flag, deaths>>

\* Mutant: a captcha that comes again replaces its row.
AddCaptchaAgain(k) == /\ At(k, "add")
                      /\ stored' = stored \cup {flag[k]} /\ used' = used \ {flag[k]}
                      /\ GoTo(k, "done")
                      /\ UNCHANGED <<teams, workdirs, forms, flag, deaths>>

\* The column is UNIQUE: a captcha that comes again is an error and changes nothing.
AddCaptcha(k) == /\ At(k, "add")
                 /\ \/ stored' = stored \cup {flag[k]}
                    \/ DbMayFail /\ UNCHANGED stored
                 /\ GoTo(k, "done")
                 /\ UNCHANGED <<teams, used, workdirs, forms, flag, deaths>>

-----------------------------------------------------------------------------
(* authHandler *)

Redirect(h, p) == /\ page' = [page EXCEPT ![h] = p]
                  /\ GoTo(h, "done")
                  /\ UNCHANGED <<req, misread, start, flag, deaths>>

Proceed(h, label) == GoTo(h, label) /\ UNCHANGED <<req, page, misread, start, flag, deaths>>

Submit(h) == /\ At(h, "idle")
             /\ \E r \in Request : req' = [req EXCEPT ![h] = r]
             /\ start' = [start EXCEPT ![h] = [names |-> {n \in Name : teams[n] # Absent},
                                               spent |-> used, known |-> stored]]
             /\ GoTo(h, "name")
             /\ UNCHANGED <<disk, page, misread, flag, deaths>>

CheckName(h) == /\ At(h, "name")
                /\ CASE req[h].name = NoName   -> Redirect(h, "home")
                     [] req[h].name = LongName -> Redirect(h, "invalid_name")
                     [] OTHER                  -> Proceed(h, "stat")
                /\ UNCHANGED disk

\* Mutant: the name is not looked up.
StatNothing(h) == /\ At(h, "stat")
                  /\ IF req[h].complete THEN Proceed(h, "used") ELSE Redirect(h, "home")
                  /\ UNCHANGED disk

\* os.Stat of the file, then the other fields and the cookie's hash.
Stat(h) == /\ At(h, "stat")
           /\ IF teams[req[h].name] # Absent THEN Redirect(h, "already_registered")
              ELSE IF ~req[h].complete THEN Redirect(h, "home")
              ELSE IF req[h].cookie # req[h].captcha THEN Redirect(h, "invalid_captcha")
              ELSE Proceed(h, "used")
           /\ UNCHANGED disk

\* Mutant: the rows' "used" is not looked at.
NeverUsed(h) == /\ At(h, "used")
                /\ GoTo(h, "exists")
                /\ UNCHANGED <<disk, forms, flag, deaths>>

\* A query that fails counts as false: as "not used" here ...
IsCaptchaUsed(h) == /\ At(h, "used")
                    /\ \E failed \in {FALSE, DbMayFail} :
                         /\ misread' = [misread EXCEPT ![h] = failed]
                         /\ IF req[h].captcha \in used /\ ~failed
                            THEN page' = [page EXCEPT ![h] = "invalid_captcha"] /\ GoTo(h, "done")
                            ELSE GoTo(h, "exists") /\ UNCHANGED page
                    /\ UNCHANGED <<disk, req, start, flag, deaths>>

\* Mutant: a stored captcha is refused.
ExistsUnused(h) == /\ At(h, "exists")
                   /\ Redirect(h, "invalid_captcha")
                   /\ UNCHANGED disk

\* ... and as "does not exist".
IsCaptchaExists(h) == /\ At(h, "exists")
                      /\ \E failed \in {FALSE, DbMayFail} :
                           /\ misread' = [misread EXCEPT ![h] = @ \/ failed]
                           /\ IF req[h].captcha \in stored /\ ~failed
                              THEN GoTo(h, "use") /\ UNCHANGED page
                              ELSE page' = [page EXCEPT ![h] = "invalid_captcha"] /\ GoTo(h, "done")
                      /\ UNCHANGED <<disk, req, start, flag, deaths>>

\* Mutant: the captcha is not spent.
UseNothing(h) == At(h, "use") /\ Proceed(h, "open") /\ UNCHANGED disk

\* The UPDATE looks neither at "used" nor at how many rows it changed.
UseCaptcha(h) == /\ At(h, "use")
                 /\ \/ /\ used' = used \cup (stored \cap {req[h].captcha})
                       /\ Proceed(h, "open")
                    \/ /\ DbMayFail /\ UNCHANGED used
                       /\ Redirect(h, "home")
                 /\ UNCHANGED <<teams, stored, workdirs>>

\* ioutil.WriteFile truncates the file, whoever's it is ...
OpenFile(h) == /\ At(h, "open")
               /\ \/ /\ teams' = [teams EXCEPT ![req[h].name] = Empty]
                     /\ Proceed(h, "write")
                  \/ UNCHANGED teams /\ Redirect(h, "fail")
               /\ UNCHANGED <<table, workdirs>>

\* ... and writes from its beginning: of a longer text already there the end stays.
WriteFile(h) == /\ At(h, "write")
                /\ \/ /\ teams' = [teams EXCEPT ![req[h].name] = h]
                      /\ Redirect(h, "success")
                   \/ /\ teams[req[h].name] # Empty
                      /\ teams' = [teams EXCEPT ![req[h].name] = Mixed]
                      /\ Redirect(h, "success")
                   \/ UNCHANGED teams /\ Redirect(h, "fail")
                /\ UNCHANGED <<table, workdirs>>

-----------------------------------------------------------------------------
\* The process dies with its handlers and is started again on the same files.
Die == /\ deaths < MaxDeaths
       /\ deaths' = deaths + 1
       /\ pc' = [h \in Handler |-> IF pc[h] \in {"idle", "done"} THEN pc[h] ELSE "dead"]
       /\ UNCHANGED <<disk, forms, flag>>

Next == \/ \E k \in Crack : \/ Ask(k) \/ TempDir(k) \/ MakeAndServe(k) \/ RemoveAll(k)
                            \/ AddCaptcha(k) \/ GiveUp(k)
        \/ \E h \in Form : \/ Submit(h) \/ CheckName(h) \/ Stat(h)
                           \/ IsCaptchaUsed(h) \/ IsCaptchaExists(h) \/ UseCaptcha(h)
                           \/ OpenFile(h) \/ WriteFile(h)
        \/ Die

Spec == Init /\ [][Next]_vars

-----------------------------------------------------------------------------
Labels == {"idle", "tempdir", "make", "remove", "add", "name", "stat", "used", "exists",
           "use", "open", "write", "done", "dead"}
Pages  == {"none", "home", "invalid_name", "already_registered", "invalid_captcha",
           "success", "fail"}

\* The type invariant; only a stored captcha is marked used.
TypeOK == /\ teams \in [Name -> Form \cup {Absent, Empty, Mixed}]
          /\ stored \subseteq Captcha /\ used \subseteq stored
          /\ workdirs \subseteq Crack
          /\ pc \in [Handler -> Labels]
          /\ req \in [Form -> Request \cup {NoForm}]
          /\ flag \in [Crack -> Captcha \cup {NoFlag}]
          /\ page \in [Form -> Pages]
          /\ misread \in [Form -> BOOLEAN]
          /\ start \in [Form -> [names : SUBSET Name, spent : SUBSET Captcha,
                                 known : SUBSET Captcha]]
          /\ deaths \in 0..MaxDeaths

Succeeded == {h \in Form : page[h] = "success"}

\* A registration succeeds only under a name that had no file, and with a captcha
\* that was not used, when its request came: registrations one after the other
\* share neither (those that overlap may), unless the query for "used" failed.
NothingTakenTwice ==
   \A h \in Succeeded : /\ req[h].name \notin start[h].names
                        /\ req[h].captcha \notin start[h].spent \/ misread[h]

\* A registration is paid for before it is filed: whoever reached the file, and died
\* there or not, answered a captcha the site had given out, and it is spent.
FiledIsPaid ==
   \A n \in Name : teams[n] # Absent =>
      \E h \in Form : /\ req[h] # NoForm /\ req[h].name = n
                      /\ req[h].captcha = req[h].cookie /\ req[h].captcha \in used
                      /\ \E k \in Crack : flag[k] = req[h].captcha

\* A right answer with the cookie of its crackme is refused as an invalid captcha only
\* if it is spent, if its crackme's handler had not stored it when the form came, or
\* if a query failed.
RightAnswerIsAccepted ==
   \A h \in Form : page[h] = "invalid_captcha" /\ req[h].cookie = req[h].captcha =>
      req[h].captcha \notin start[h].known \/ req[h].captcha \in used \/ misread[h]

\* The file of a team that was told "success" is that team's, unless another request
\* with the name came before the file was there: nobody who comes later changes it,
\* and no death of the process takes it away.
RegistrationIsKept ==
   \A h \in Succeeded : LET n == req[h].name IN
      \/ teams[n] = h
      \/ \E g \in Form \ {h} : req[g] # NoForm /\ req[g].name = n /\ n \notin start[g].names

\* A spent captcha stays spent, even if the generator makes it again, and every spent
\* captcha was spent by a form that got as far as its file.
Reached == {h \in Form : page[h] \in {"success", "fail"} \/ pc[h] \in {"open", "write", "dead"}}
SpentStaysSpent ==
   [][used \subseteq used' /\ used' \subseteq {req'[h].captcha : h \in Reached'}]_vars

\* "Already registered. Try again with another name" (already_registered.html): no two
\* teams are told "success" under one name.
OneTeamPerName ==
   \A g, h \in Succeeded : req[g].name = req[h].name => g = h
=============================================================================
