---------------------------- MODULE SignupProofs ----------------------------
(***************************************************************************)
(* The registration site's invariants, for every set of forms, crackmes,   *)
(* names and captchas, every number of deaths and queries that may fail.   *)
(***************************************************************************)
EXTENDS Signup, FiniteSetTheorems, TLAPS

\* What the handler of a crackme holds, and what it has put in the table.
Made   == \A k \in Crack : pc[k] \in {"remove", "add"} => flag[k] \in Captcha
Issued == \A c \in stored : \E k \in Crack : pc[k] = "done" /\ flag[k] = c

\* A form is read once, and nothing of it changes after its answer.
Fresh    == \A h \in Form : At(h, "idle") <=> req[h] = NoForm
Answered == \A h \in Form : page[h] # "none" => At(h, "done")

\* Form h has come as far as one of the labels, and no death or refusal stopped it before.
Past(h, labels) == pc[h] \in labels \/ page[h] \in {"success", "fail"}

\* What each step of authHandler has established for the steps that follow it.
Sent    == \A h \in Form :
              Past(h, {"name", "stat", "used", "exists", "use", "open", "write"})
                 => req[h] \in Request
Named   == \A h \in Form :
              Past(h, {"stat", "used", "exists", "use", "open", "write"}) => req[h].name \in Name
Checked == \A h \in Form : Past(h, {"used", "exists", "use", "open", "write"}) =>
              req[h].name \notin start[h].names /\ req[h].captcha = req[h].cookie
Unspent == \A h \in Form : Past(h, {"exists", "use", "open", "write"}) =>
              req[h].captcha \notin start[h].spent \/ misread[h]
Known   == \A h \in Form : Past(h, {"use", "open", "write"}) => req[h].captcha \in stored
Paid    == \A h \in Form : Past(h, {"open", "write"}) => req[h].captcha \in used

\* Names and captchas are only ever taken: what a form found taken still is.
Grown == \A h \in Form : /\ start[h].spent \subseteq used
                         /\ start[h].known \subseteq stored
                         /\ \A n \in start[h].names : teams[n] # Absent

\* Another form with the name came before the name had a file.
Rival(h) == \E g \in Form \ {h} : /\ req[g] # NoForm /\ req[g].name = req[h].name
                                  /\ req[h].name \notin start[g].names
\* Between the opening of a team's file and its writing the file is the team's.
Held == \A h \in Form : At(h, "write") => teams[req[h].name] = Empty \/ Rival(h)

\* Every spent captcha was spent by a form that got as far as its file.
Spenders == \A c \in used : \E h \in Reached : req[h].captcha = c

\* The type invariant with what it needs to be inductive.
Typed == TypeOK /\ Made /\ Fresh /\ Answered /\ Sent /\ Named

\* No handler runs at first.
LEMMA TypedInit == Init => Typed
  BY BoundsAssumption
     DEF Init, Typed, TypeOK, Made, Fresh, Answered, Sent, Named, Past, At, Labels, Pages, Nobody,
         Handler

\* The fields of a form.
LEMMA RequestFields ==
  ASSUME NEW r \in Request
  PROVE  /\ r # NoForm /\ r.name \in Name \cup {NoName, LongName}
         /\ r.captcha \in Captcha /\ r.cookie \in Captcha
<1>1. "name" \in DOMAIN r /\ "name" \notin DOMAIN NoForm
  BY DEF Request, NoForm
<1>2. QED
  BY <1>1 DEF Request

\* A step of a crackme's handler leaves the forms and the teams alone.
LEMMA CrackFrame ==
  ASSUME Typed, NEW k \in Crack,
         \/ Ask(k) \/ TempDir(k) \/ MakeAndServe(k) \/ RemoveAll(k) \/ AddCaptcha(k) \/ GiveUp(k)
  PROVE  /\ UNCHANGED <<teams, used, req, page, misread, start, deaths>>
         /\ stored' \in {stored, stored \cup {flag[k]}}
         /\ \A h \in Form : pc'[h] = pc[h]
         /\ pc' \in [Handler -> Labels]
         /\ \A j \in Crack \ {k} : pc'[j] = pc[j] /\ flag'[j] = flag[j]
<1>1. k \in Handler /\ k \notin Form
  BY ValuesAssumption DEF Handler
<1>2. pc \in [Handler -> Labels] /\ flag \in [Crack -> Captcha \cup {NoFlag}]
  BY DEF Typed, TypeOK
<1>3. QED
  BY <1>1, <1>2 DEF Ask, TempDir, MakeAndServe, RemoveAll, AddCaptcha, GiveUp, GoTo, At, disk,
                    table, forms, Labels, Handler

\* A step of a form's handler leaves the crackmes and the other forms alone.
LEMMA FormFrame ==
  ASSUME Typed, NEW h \in Form,
         \/ Submit(h) \/ CheckName(h) \/ Stat(h) \/ IsCaptchaUsed(h) \/ IsCaptchaExists(h)
         \/ UseCaptcha(h) \/ OpenFile(h) \/ WriteFile(h)
  PROVE  /\ UNCHANGED <<stored, workdirs, flag, deaths>>
         /\ pc' \in [Handler -> Labels]
         /\ \A k \in Crack : pc'[k] = pc[k]
         /\ \A g \in Form \ {h} : /\ pc'[g] = pc[g] /\ req'[g] = req[g] /\ page'[g] = page[g]
                                  /\ misread'[g] = misread[g] /\ start'[g] = start[g]
<1>1. h \in Handler /\ h \notin Crack
  BY ValuesAssumption DEF Handler
<1>2. /\ pc \in [Handler -> Labels]
      /\ req \in [Form -> Request \cup {NoForm}]
      /\ page \in [Form -> Pages]
      /\ misread \in [Form -> BOOLEAN]
      /\ start \in [Form -> [names : SUBSET Name, spent : SUBSET Captcha, known : SUBSET Captcha]]
  BY DEF Typed, TypeOK
<1> USE DEF GoTo, At, disk, table, forms, Redirect, Proceed, Handler, Labels
<1>3. CASE Submit(h)
  BY <1>1, <1>2, <1>3 DEF Submit
<1>4. CASE CheckName(h)
  BY <1>1, <1>2, <1>4 DEF CheckName
<1>5. CASE Stat(h)
  BY <1>1, <1>2, <1>5 DEF Stat
<1>6. CASE IsCaptchaUsed(h)
  BY <1>1, <1>2, <1>6 DEF IsCaptchaUsed
<1>7. CASE IsCaptchaExists(h)
  BY <1>1, <1>2, <1>7 DEF IsCaptchaExists
<1>8. CASE UseCaptcha(h)
  BY <1>1, <1>2, <1>8 DEF UseCaptcha
<1>9. CASE OpenFile(h)
  BY <1>1, <1>2, <1>9 DEF OpenFile
<1>10. CASE WriteFile(h)
  BY <1>1, <1>2, <1>10 DEF WriteFile
<1>11. QED
  BY <1>3, <1>4, <1>5, <1>6, <1>7, <1>8, <1>9, <1>10

\* Every step keeps the types, what a crackme's handler made and what a form is.
LEMMA TypedStep == Typed /\ [Next]_vars => Typed'
<1> SUFFICES ASSUME Typed, [Next]_vars PROVE Typed'
  OBVIOUS
<1>1. /\ teams \in [Name -> Form \cup {Absent, Empty, Mixed}]
      /\ stored \subseteq Captcha /\ used \subseteq stored /\ workdirs \subseteq Crack
      /\ pc \in [Handler -> Labels]
      /\ req \in [Form -> Request \cup {NoForm}]
      /\ flag \in [Crack -> Captcha \cup {NoFlag}]
      /\ page \in [Form -> Pages] /\ misread \in [Form -> BOOLEAN]
      /\ start \in [Form -> [names : SUBSET Name, spent : SUBSET Captcha,
                             known : SUBSET Captcha]]
      /\ deaths \in 0..MaxDeaths
  BY DEF Typed, TypeOK
<1>2. Made /\ Fresh /\ Answered /\ Sent /\ Named
  BY DEF Typed
<1>3. ASSUME NEW k \in Crack,
             \/ Ask(k) \/ TempDir(k) \/ MakeAndServe(k) \/ RemoveAll(k) \/ AddCaptcha(k)
             \/ GiveUp(k)
      PROVE  Typed'
  <2>1. /\ UNCHANGED <<teams, used, req, page, misread, start, deaths>>
        /\ stored' \in {stored, stored \cup {flag[k]}}
        /\ \A h \in Form : pc'[h] = pc[h]
        /\ pc' \in [Handler -> Labels]
        /\ \A j \in Crack \ {k} : pc'[j] = pc[j] /\ flag'[j] = flag[j]
    BY <1>3, CrackFrame
  <2>2. stored' # stored => At(k, "add")
    BY <1>3 DEF Ask, TempDir, MakeAndServe, RemoveAll, AddCaptcha, GiveUp, disk, table, At
  <2>3. workdirs' \subseteq Crack /\ flag' \in [Crack -> Captcha \cup {NoFlag}]
    BY <1>1, <1>3 DEF Ask, TempDir, MakeAndServe, RemoveAll, AddCaptcha, GiveUp, disk
  <2>4. pc'[k] \in {"remove", "add"} => flag'[k] \in Captcha
    BY <1>1, <1>2, <1>3 DEF Ask, TempDir, MakeAndServe, RemoveAll, AddCaptcha, GiveUp, GoTo, At,
                            Handler, Made
  <2>5. TypeOK'
    BY <1>1, <1>2, <2>1, <2>2, <2>3 DEF TypeOK, Made, At
  <2>6. Made'
    BY <1>2, <2>1, <2>4 DEF Made
  <2>7. Fresh' /\ Answered' /\ Sent' /\ Named'
    BY <1>2, <2>1 DEF Fresh, Answered, Sent, Named, Past, At
  <2>8. QED
    BY <2>5, <2>6, <2>7 DEF Typed
<1>4. ASSUME NEW h \in Form,
             \/ Submit(h) \/ CheckName(h) \/ Stat(h) \/ IsCaptchaUsed(h) \/ IsCaptchaExists(h)
             \/ UseCaptcha(h) \/ OpenFile(h) \/ WriteFile(h)
      PROVE  Typed'
  <2>1. /\ UNCHANGED <<stored, workdirs, flag, deaths>>
        /\ pc' \in [Handler -> Labels]
        /\ \A k \in Crack : pc'[k] = pc[k]
        /\ \A g \in Form \ {h} : /\ pc'[g] = pc[g] /\ req'[g] = req[g] /\ page'[g] = page[g]
                                 /\ misread'[g] = misread[g] /\ start'[g] = start[g]
    BY <1>4, FormFrame
  <2>2. Made'
    BY <1>2, <2>1 DEF Made
  <2> DEFINE Own == /\ pc'[h] # "idle" /\ req'[h] # NoForm
                    /\ (page'[h] # "none" => pc'[h] = "done")
                    /\ (Past(h, {"name", "stat", "used", "exists", "use", "open", "write"})'
                          => req'[h] \in Request)
                    /\ (Past(h, {"stat", "used", "exists", "use", "open", "write"})'
                          => req'[h].name \in Name)
  <2> USE DEF GoTo, At, disk, table, forms, Redirect, Proceed, Handler, Labels, Pages
  <2>3. ASSUME Submit(h) PROVE TypeOK' /\ Own
    <3>1. TypeOK'
      BY <1>1, <1>2, <2>1, <2>3 DEF Submit, TypeOK
    <3>2. Own
      BY <1>1, <1>2, <2>3, RequestFields DEF Submit, Answered, Past
    <3>3. QED
      BY <3>1, <3>2
  <2>4. ASSUME CheckName(h) PROVE TypeOK' /\ Own
    <3>1. TypeOK'
      BY <1>1, <1>2, <2>1, <2>4 DEF CheckName, TypeOK
    <3>2. Own
      BY <1>1, <1>2, <2>4, RequestFields DEF CheckName, Answered, Sent, Past
    <3>3. QED
      BY <3>1, <3>2
  <2>5. ASSUME Stat(h) PROVE TypeOK' /\ Own
    <3>1. TypeOK'
      BY <1>1, <1>2, <2>1, <2>5 DEF Stat, TypeOK
    <3>2. Own
      BY <1>1, <1>2, <2>5 DEF Stat, Fresh, Answered, Sent, Named, Past
    <3>3. QED
      BY <3>1, <3>2
  <2>6. ASSUME IsCaptchaUsed(h) PROVE TypeOK' /\ Own
    <3>1. TypeOK'
      <4>1. PICK failed \in {FALSE, DbMayFail} : misread' = [misread EXCEPT ![h] = failed]
        BY <2>6 DEF IsCaptchaUsed
      <4>2. failed \in BOOLEAN
        BY BoundsAssumption
      <4>3. misread' \in [Form -> BOOLEAN]
        BY <1>1, <4>1, <4>2, Zenon
      <4>4. page' \in [Form -> Pages]
        BY <1>1, <2>6 DEF IsCaptchaUsed
      <4>5. UNCHANGED <<teams, used, req, start>>
        BY <2>6 DEF IsCaptchaUsed
      <4>6. QED
        BY <1>1, <2>1, <4>3, <4>4, <4>5 DEF TypeOK
    <3>2. Own
      BY <1>1, <1>2, <2>6 DEF IsCaptchaUsed, Fresh, Answered, Sent, Named, Past
    <3>3. QED
      BY <3>1, <3>2
  <2>7. ASSUME IsCaptchaExists(h) PROVE TypeOK' /\ Own
    <3>1. TypeOK'
      BY <1>1, <1>2, <2>1, <2>7 DEF IsCaptchaExists, TypeOK
    <3>2. Own
      BY <1>1, <1>2, <2>7 DEF IsCaptchaExists, Fresh, Answered, Sent, Named, Past
    <3>3. QED
      BY <3>1, <3>2
  <2>8. ASSUME UseCaptcha(h) PROVE TypeOK' /\ Own
    <3>1. TypeOK'
      BY <1>1, <1>2, <2>1, <2>8 DEF UseCaptcha, TypeOK
    <3>2. Own
      BY <1>1, <1>2, <2>8 DEF UseCaptcha, Fresh, Answered, Sent, Named, Past
    <3>3. QED
      BY <3>1, <3>2
  <2>9. ASSUME OpenFile(h) PROVE TypeOK' /\ Own
    <3>1. TypeOK'
      BY <1>1, <1>2, <2>1, <2>9 DEF OpenFile, TypeOK, Named, Past
    <3>2. Own
      BY <1>1, <1>2, <2>9 DEF OpenFile, Fresh, Answered, Sent, Named, Past
    <3>3. QED
      BY <3>1, <3>2
  <2>10. ASSUME WriteFile(h) PROVE TypeOK' /\ Own
    <3>1. TypeOK'
      BY <1>1, <1>2, <2>1, <2>10 DEF WriteFile, TypeOK, Named, Past
    <3>2. Own
      BY <1>1, <1>2, <2>10 DEF WriteFile, Fresh, Answered, Sent, Named, Past
    <3>3. QED
      BY <3>1, <3>2
  <2>11. TypeOK' /\ Own
    BY <1>4, <2>3, <2>4, <2>5, <2>6, <2>7, <2>8, <2>9, <2>10
  <2>12. Fresh' /\ Answered' /\ Sent' /\ Named'
    BY <1>2, <2>1, <2>11 DEF Fresh, Answered, Sent, Named, Past
  <2>13. QED
    BY <2>2, <2>11, <2>12 DEF Typed
<1>5. CASE Die
  <2>1. TypeOK'
    BY <1>1, <1>5, BoundsAssumption DEF Die, TypeOK, disk, table, forms, Labels
  <2>2. Made' /\ Fresh' /\ Answered' /\ Sent' /\ Named'
    BY <1>1, <1>2, <1>5 DEF Die, Made, Fresh, Answered, Sent, Named, Past, At, disk, table, forms,
                            Handler
  <2>3. QED
    BY <2>1, <2>2 DEF Typed
<1>6. CASE UNCHANGED vars
  BY <1>1, <1>2, <1>6 DEF vars, Typed, TypeOK, Made, Fresh, Answered, Sent, Named, Past, At
<1>7. QED
  BY <1>3, <1>4, <1>5, <1>6 DEF Next

\* A missing, an empty and a mixed file are three states of a file.
LEMMA FileStates == Absent # Empty /\ Absent # Mixed /\ Absent \notin Form
<1>1. ASSUME NEW a, NEW b PROVE Cardinality({a, b}) # 3
  <2>1. IsFiniteSet({a}) /\ Cardinality({a}) = 1
    BY FS_Singleton
  <2>2. Cardinality({a} \cup {b}) \in {1, 2}
    BY <2>1, FS_AddElement
  <2>3. {a} \cup {b} = {a, b}
    OBVIOUS
  <2>4. QED
    BY <2>2, <2>3
<1>2. Absent # Empty
  <2>1. Absent = Empty => {Absent, Empty, Mixed} = {Empty, Mixed}
    OBVIOUS
  <2>2. QED
    BY <1>1, <2>1, ValuesAssumption
<1>3. Absent # Mixed
  <2>1. Absent = Mixed => {Absent, Empty, Mixed} = {Empty, Mixed}
    OBVIOUS
  <2>2. QED
    BY <1>1, <2>1, ValuesAssumption
<1>4. QED
  BY <1>2, <1>3, ValuesAssumption

\* The table only grows, and a team's file is never taken away.
LEMMA TableGrows ==
  ASSUME Typed, [Next]_vars
  PROVE  /\ stored \subseteq stored' /\ used \subseteq used'
         /\ \A n \in Name : teams[n] # Absent => teams'[n] # Absent
<1>0. teams \in [Name -> Form \cup {Absent, Empty, Mixed}]
  BY DEF Typed, TypeOK
<1> USE DEF disk, table, Redirect, Proceed
<1>1. CASE \E k \in Crack : \/ Ask(k) \/ TempDir(k) \/ MakeAndServe(k) \/ RemoveAll(k)
                            \/ AddCaptcha(k) \/ GiveUp(k)
  BY <1>1 DEF Ask, TempDir, MakeAndServe, RemoveAll, AddCaptcha, GiveUp
<1>2. CASE \E h \in Form : \/ Submit(h) \/ CheckName(h) \/ Stat(h) \/ IsCaptchaUsed(h)
                           \/ IsCaptchaExists(h) \/ UseCaptcha(h) \/ OpenFile(h) \/ WriteFile(h)
  <2>1. PICK h \in Form : \/ Submit(h) \/ CheckName(h) \/ Stat(h) \/ IsCaptchaUsed(h)
                         \/ IsCaptchaExists(h) \/ UseCaptcha(h) \/ OpenFile(h) \/ WriteFile(h)
    BY <1>2
  <2>2. stored \subseteq stored' /\ used \subseteq used'
    BY <2>1 DEF Submit, CheckName, Stat, IsCaptchaUsed, IsCaptchaExists, UseCaptcha, OpenFile,
                WriteFile
  <2>3. \/ UNCHANGED teams
        \/ \E f \in {Empty, Mixed, h} : teams' = [teams EXCEPT ![req[h].name] = f]
    BY <2>1 DEF Submit, CheckName, Stat, IsCaptchaUsed, IsCaptchaExists, UseCaptcha, OpenFile,
                WriteFile
  <2>4. QED
    BY <1>0, <2>2, <2>3, FileStates
<1>3. CASE Die \/ UNCHANGED vars
  BY <1>3 DEF Die, vars
<1>4. QED
  BY <1>1, <1>2, <1>3 DEF Next

\* Steps that touch no form: those of the crackmes' handlers, a death, a stutter.
LEMMA OtherSteps ==
  ASSUME Typed, [Next]_vars
  PROVE  \/ \E h \in Form : \/ Submit(h) \/ CheckName(h) \/ Stat(h) \/ IsCaptchaUsed(h)
                            \/ IsCaptchaExists(h) \/ UseCaptcha(h) \/ OpenFile(h) \/ WriteFile(h)
         \/ /\ UNCHANGED <<teams, used, req, page, misread, start>>
            /\ \A h \in Form : \/ pc'[h] = pc[h]
                               \/ pc'[h] = "dead" /\ pc[h] \notin {"idle", "done"}
<1>1. CASE \E k \in Crack : \/ Ask(k) \/ TempDir(k) \/ MakeAndServe(k) \/ RemoveAll(k)
                            \/ AddCaptcha(k) \/ GiveUp(k)
  BY <1>1, CrackFrame
<1>2. CASE Die
  BY <1>2 DEF Die, disk, table, forms, Handler
<1>3. CASE UNCHANGED vars
  BY <1>3 DEF vars
<1>4. QED
  BY <1>1, <1>2, <1>3 DEF Next

\* What a form has established stays so.
Judged == Checked /\ Unspent /\ Known /\ Paid /\ Grown /\ RightAnswerIsAccepted

\* Every step keeps what the forms have established.
LEMMA JudgedStep == Typed /\ Judged /\ [Next]_vars => Judged'
<1> SUFFICES ASSUME Typed, Judged, [Next]_vars PROVE Judged'
  OBVIOUS
<1>1. /\ stored \subseteq stored' /\ used \subseteq used'
      /\ \A n \in Name : teams[n] # Absent => teams'[n] # Absent
  BY TableGrows
<1>2. Checked /\ Unspent /\ Known /\ Paid /\ Grown /\ RightAnswerIsAccepted
  BY DEF Judged
<1>3. /\ pc \in [Handler -> Labels] /\ Form \subseteq Handler
      /\ req \in [Form -> Request \cup {NoForm}]
      /\ page \in [Form -> Pages] /\ misread \in [Form -> BOOLEAN]
      /\ start \in [Form -> [names : SUBSET Name, spent : SUBSET Captcha,
                             known : SUBSET Captcha]]
      /\ used \subseteq stored
  BY DEF Typed, TypeOK, Handler
<1>4. Answered /\ Sent /\ Named
  BY DEF Typed
<1> DEFINE Fine(h) ==
      /\ Past(h, {"used", "exists", "use", "open", "write"})'
            => req'[h].name \notin start'[h].names /\ req'[h].captcha = req'[h].cookie
      /\ Past(h, {"exists", "use", "open", "write"})'
            => req'[h].captcha \notin start'[h].spent \/ misread'[h]
      /\ Past(h, {"use", "open", "write"})' => req'[h].captcha \in stored'
      /\ Past(h, {"open", "write"})' => req'[h].captcha \in used'
      /\ start'[h].spent \subseteq used' /\ start'[h].known \subseteq stored'
      /\ \A n \in start'[h].names : teams'[n] # Absent
      /\ page'[h] = "invalid_captcha" /\ req'[h].cookie = req'[h].captcha =>
            \/ req'[h].captcha \notin start'[h].known \/ req'[h].captcha \in used' \/ misread'[h]
<1>5. ASSUME NEW g \in Form, \/ pc'[g] = pc[g]
                             \/ pc'[g] = "dead" /\ pc[g] \notin {"idle", "done"},
             req'[g] = req[g] /\ page'[g] = page[g] /\ misread'[g] = misread[g],
             start'[g] = start[g]
      PROVE  Fine(g)
  BY <1>1, <1>2, <1>3, <1>5 DEF Checked, Unspent, Known, Paid, Grown, RightAnswerIsAccepted, Past
<1>6. ASSUME NEW h \in Form,
             \/ Submit(h) \/ CheckName(h) \/ Stat(h) \/ IsCaptchaUsed(h) \/ IsCaptchaExists(h)
             \/ UseCaptcha(h) \/ OpenFile(h) \/ WriteFile(h)
      PROVE  \A g \in Form : Fine(g)
  <2> USE DEF Past, At, GoTo, Redirect, Proceed, disk, table
  <2>1. \A g \in Form \ {h} : Fine(g)
    BY <1>5, <1>6, FormFrame
  <2>2. Fine(h)
    <3>1. CASE Submit(h)
      BY <1>1, <1>3, <1>4, <3>1 DEF Submit, Answered
    <3>2. CASE CheckName(h)
      BY <1>1, <1>2, <1>3, <1>4, <3>2 DEF CheckName, Grown, Answered
    <3>3. CASE Stat(h)
      BY <1>1, <1>2, <1>3, <1>4, <3>3 DEF Stat, Grown, Answered
    <3>4. CASE IsCaptchaUsed(h)
      BY <1>1, <1>2, <1>3, <1>4, <3>4 DEF IsCaptchaUsed, Grown, Answered, Checked
    <3>5. CASE IsCaptchaExists(h)
      BY <1>1, <1>2, <1>3, <1>4, <3>5 DEF IsCaptchaExists, Grown, Answered, Checked, Unspent
    <3>6. CASE UseCaptcha(h)
      BY <1>1, <1>2, <1>3, <1>4, <3>6 DEF UseCaptcha, Grown, Answered, Checked, Unspent, Known
    <3>7. CASE OpenFile(h)
      BY <1>1, <1>2, <1>3, <1>4, <3>7 DEF OpenFile, Grown, Answered, Checked, Unspent, Known, Paid
    <3>8. CASE WriteFile(h)
      BY <1>1, <1>2, <1>3, <1>4, <3>8 DEF WriteFile, Grown, Answered, Checked, Unspent, Known, Paid
    <3>9. QED
      BY <1>6, <3>1, <3>2, <3>3, <3>4, <3>5, <3>6, <3>7, <3>8
  <2>3. QED
    BY <2>1, <2>2
<1>7. \A g \in Form : Fine(g)
  BY <1>5, <1>6, OtherSteps
<1>8. QED
  BY <1>7 DEF Judged, Checked, Unspent, Known, Paid, Grown, RightAnswerIsAccepted

\* Every row of the table was made for a crackme, whose handler ended with it.
LEMMA IssuedStep == Typed /\ Issued /\ [Next]_vars => Issued'
<1> SUFFICES ASSUME Typed, Issued, [Next]_vars PROVE Issued'
  OBVIOUS
<1>1. pc \in [Handler -> Labels] /\ flag \in [Crack -> Captcha \cup {NoFlag}]
  BY DEF Typed, TypeOK
<1>2. CASE \E k \in Crack : \/ Ask(k) \/ TempDir(k) \/ MakeAndServe(k) \/ RemoveAll(k)
                            \/ AddCaptcha(k) \/ GiveUp(k)
  <2>1. PICK k \in Crack : \/ Ask(k) \/ TempDir(k) \/ MakeAndServe(k) \/ RemoveAll(k)
                           \/ AddCaptcha(k) \/ GiveUp(k)
    BY <1>2
  <2>2. \A j \in Crack \ {k} : pc'[j] = pc[j] /\ flag'[j] = flag[j]
    BY <2>1, CrackFrame
  <2>3. pc[k] # "done"
    BY <2>1 DEF Ask, TempDir, MakeAndServe, RemoveAll, AddCaptcha, GiveUp, At
  <2>4. \/ stored' = stored
        \/ stored' = stored \cup {flag[k]} /\ flag' = flag /\ pc'[k] = "done"
    BY <1>1, <2>1 DEF Ask, TempDir, MakeAndServe, RemoveAll, AddCaptcha, GiveUp, disk, table, GoTo,
                      Handler
  <2>5. QED
    BY <2>2, <2>3, <2>4 DEF Issued
<1>3. CASE \E h \in Form : \/ Submit(h) \/ CheckName(h) \/ Stat(h) \/ IsCaptchaUsed(h)
                           \/ IsCaptchaExists(h) \/ UseCaptcha(h) \/ OpenFile(h) \/ WriteFile(h)
  <2>1. UNCHANGED <<stored, flag>> /\ \A k \in Crack : pc'[k] = pc[k]
    BY <1>3, FormFrame
  <2>2. QED
    BY <2>1 DEF Issued
<1>4. CASE Die
  BY <1>4 DEF Die, Issued, disk, table, Handler
<1>5. CASE UNCHANGED vars
  BY <1>5 DEF vars, Issued
<1>6. QED
  BY <1>2, <1>3, <1>4, <1>5 DEF Next

\* A form that has been read stays the form it is, with what was taken when it came.
LEMMA FormStays ==
  ASSUME Typed, [Next]_vars, NEW h \in Form, req[h] # NoForm
  PROVE  req'[h] = req[h] /\ start'[h] = start[h]
<1>1. ASSUME NEW g \in Form,
             \/ Submit(g) \/ CheckName(g) \/ Stat(g) \/ IsCaptchaUsed(g) \/ IsCaptchaExists(g)
             \/ UseCaptcha(g) \/ OpenFile(g) \/ WriteFile(g)
      PROVE  req'[h] = req[h] /\ start'[h] = start[h]
  <2>1. CASE g = h
    <3>1. ~ Submit(h)
      BY DEF Submit, Typed, Fresh
    <3>2. UNCHANGED <<req, start>>
      BY <1>1, <2>1, <3>1 DEF CheckName, Stat, IsCaptchaUsed, IsCaptchaExists, UseCaptcha,
                              OpenFile, WriteFile, Redirect, Proceed
    <3>3. QED
      BY <3>2
  <2>2. CASE g # h
    BY <1>1, <2>2, FormFrame
  <2>3. QED
    BY <2>1, <2>2
<1>2. QED
  BY <1>1, OtherSteps

\* A form that got as far as its file has got there for ever.
LEMMA ReachedStays ==
  ASSUME Typed, [Next]_vars, NEW h \in Form, h \in Reached
  PROVE  h \in Reached'
<1>1. pc \in [Handler -> Labels] /\ page \in [Form -> Pages] /\ h \in Handler
  BY DEF Typed, TypeOK, Handler
<1>2. page[h] \in {"success", "fail"} => At(h, "done")
  BY DEF Typed, Answered
<1>3. ASSUME NEW g \in Form,
             \/ Submit(g) \/ CheckName(g) \/ Stat(g) \/ IsCaptchaUsed(g) \/ IsCaptchaExists(g)
             \/ UseCaptcha(g) \/ OpenFile(g) \/ WriteFile(g)
      PROVE  h \in Reached'
  <2>1. CASE g = h
    BY <1>1, <1>2, <1>3, <2>1
       DEF Submit, CheckName, Stat, IsCaptchaUsed, IsCaptchaExists, UseCaptcha, OpenFile, WriteFile,
           Redirect, Proceed, GoTo, At, Reached
  <2>2. CASE g # h
    BY <1>3, <2>2, FormFrame DEF Reached
  <2>3. QED
    BY <2>1, <2>2
<1>4. QED
  BY <1>2, <1>3, OtherSteps DEF Reached, At

\* A rival that came before there was a file remains one.
LEMMA RivalStays ==
  ASSUME Typed, [Next]_vars, NEW h \in Form, req[h] # NoForm, Rival(h)
  PROVE  Rival(h)'
  BY FormStays DEF Rival

\* Only UseCaptcha spends, and the form that spends goes on to its file.
LEMMA SpendersStep == Typed /\ Spenders /\ [Next]_vars => Spenders'
<1> SUFFICES ASSUME Typed, Spenders, [Next]_vars, NEW c \in used'
             PROVE  \E h \in Reached' : req'[h].captcha = c
  BY DEF Spenders
<1>1. \A h \in Reached : req[h] # NoForm
  BY DEF Reached, Typed, Fresh, Answered, At
<1>2. pc \in [Handler -> Labels] /\ Form \subseteq Handler
  BY DEF Typed, TypeOK, Handler
<1>3. CASE c \in used
  <2>1. PICK h \in Reached : req[h].captcha = c
    BY <1>3 DEF Spenders
  <2>2. h \in Form /\ req[h] # NoForm
    BY <1>1 DEF Reached
  <2>3. QED
    BY <2>1, <2>2, FormStays, ReachedStays
<1>4. CASE c \notin used
  <2>1. PICK h \in Form : UseCaptcha(h)
    BY <1>4, OtherSteps
       DEF Submit, CheckName, Stat, IsCaptchaUsed, IsCaptchaExists, OpenFile, WriteFile, disk, table
  <2>2. req[h].captcha = c /\ req'[h] = req[h] /\ pc'[h] = "open"
    BY <1>2, <1>4, <2>1 DEF UseCaptcha, Proceed, GoTo
  <2>3. QED
    BY <2>2 DEF Reached
<1>5. QED
  BY <1>3, <1>4

\* The form that is at its file has come before the file and paid.
LEMMA Payer ==
  ASSUME Typed, Judged, NEW h \in Form, pc[h] \in {"open", "write"}
  PROVE  /\ req[h] \in Request /\ req[h] # NoForm /\ req[h].name \in Name
         /\ req[h].name \notin start[h].names
         /\ req[h].captcha = req[h].cookie /\ req[h].captcha \in used
<1>1. req[h] \in Request /\ req[h].name \in Name
  BY DEF Typed, Sent, Named, Past
<1>2. /\ req[h].name \notin start[h].names /\ req[h].captcha = req[h].cookie
      /\ req[h].captcha \in used
  BY DEF Judged, Checked, Paid, Past
<1>3. QED
  BY <1>1, <1>2, RequestFields

\* Who opens or writes a file of which name.
LEMMA TeamsStep ==
  ASSUME Typed, [Next]_vars, NEW n \in Name, teams'[n] # teams[n]
  PROVE  \E h \in Form : /\ pc[h] \in {"open", "write"} /\ req[h].name = n
                         /\ OpenFile(h) \/ WriteFile(h)
<1>1. PICK h \in Form : OpenFile(h) \/ WriteFile(h)
  BY OtherSteps
     DEF Submit, CheckName, Stat, IsCaptchaUsed, IsCaptchaExists, UseCaptcha, disk, Redirect
<1>2. pc[h] \in {"open", "write"}
  BY <1>1 DEF OpenFile, WriteFile, At
<1>3. teams \in [Name -> Form \cup {Absent, Empty, Mixed}]
  BY DEF Typed, TypeOK
<1>4. req[h].name = n
  BY <1>1, <1>3 DEF OpenFile, WriteFile
<1>5. QED
  BY <1>1, <1>2, <1>4

\* A file that is there was paid for by a form that got as far as opening it.
LEMMA FiledStep ==
  ASSUME Typed, Judged, Issued, FiledIsPaid, [Next]_vars
  PROVE  FiledIsPaid'
<1> SUFFICES ASSUME NEW n \in Name, teams'[n] # Absent
             PROVE  \E h \in Form : /\ req'[h] # NoForm /\ req'[h].name = n
                                    /\ req'[h].captcha = req'[h].cookie /\ req'[h].captcha \in used'
                                    /\ \E k \in Crack : flag'[k] = req'[h].captcha
  BY DEF FiledIsPaid
<1>1. PICK h \in Form : /\ req[h] # NoForm /\ req[h].name = n
                        /\ req[h].captcha = req[h].cookie /\ req[h].captcha \in used
  <2>1. CASE teams[n] # Absent
    BY <2>1 DEF FiledIsPaid
  <2>2. CASE teams[n] = Absent
    <3>1. PICK h \in Form : pc[h] \in {"open", "write"} /\ req[h].name = n
      BY <2>2, TeamsStep
    <3>2. QED
      BY <3>1, Payer
  <2>3. QED
    BY <2>1, <2>2
<1>2. req'[h] = req[h] /\ used \subseteq used'
  BY <1>1, FormStays, TableGrows
<1>3. used' \subseteq stored'
  BY TypedStep DEF Typed, TypeOK
<1>4. \E k \in Crack : flag'[k] = req[h].captcha
  BY <1>1, <1>2, <1>3, IssuedStep DEF Issued
<1>5. QED
  BY <1>1, <1>2, <1>4

\* Whoever else opens or writes the file of a team came before there was one.
LEMMA Intruder ==
  ASSUME Typed, Judged, [Next]_vars, NEW h \in Form, req[h].name \in Name, NEW g \in Form \ {h},
         OpenFile(g) \/ WriteFile(g), req[g].name = req[h].name
  PROVE  Rival(h)
<1>1. pc[g] \in {"open", "write"}
  BY DEF OpenFile, WriteFile, At
<1>2. QED
  BY <1>1, Payer DEF Rival

\* The file of a form at its writing, and of a form that succeeded, is its own or a rival's.
Kept == Held /\ RegistrationIsKept

\* No step but a rival's changes the file of a form that writes or has succeeded.
LEMMA KeptStep == Typed /\ Judged /\ Kept /\ [Next]_vars => Kept'
<1> SUFFICES ASSUME Typed, Judged, Kept, [Next]_vars, NEW h \in Form
             PROVE  /\ pc'[h] = "write" => teams'[req'[h].name] = Empty \/ Rival(h)'
                    /\ page'[h] = "success" => teams'[req'[h].name] = h \/ Rival(h)'
  BY DEF Kept, Held, RegistrationIsKept, Succeeded, Rival, At
<1>1. /\ pc[h] = "write" => teams[req[h].name] = Empty \/ Rival(h)
      /\ page[h] = "success" => teams[req[h].name] = h \/ Rival(h)
  BY DEF Kept, Held, RegistrationIsKept, Succeeded, Rival, At
<1>2. /\ teams \in [Name -> Form \cup {Absent, Empty, Mixed}]
      /\ pc \in [Handler -> Labels] /\ page \in [Form -> Pages] /\ Form \subseteq Handler
  BY DEF Typed, TypeOK, Handler
<1>3. /\ page[h] # "none" => pc[h] = "done"
      /\ pc[h] = "write" \/ page[h] = "success" => req[h] # NoForm /\ req[h].name \in Name
  <2>1. pc[h] = "write" \/ page[h] = "success" => req[h] \in Request /\ req[h].name \in Name
    BY DEF Typed, Sent, Named, Past
  <2>2. QED
    BY <2>1, RequestFields DEF Typed, Answered, At
<1>4. CASE pc'[h] = pc[h] /\ page'[h] = page[h] /\ (pc[h] = "write" \/ page[h] = "success")
           \* nothing of the form changes: a change of the file is an intruder's
  <2>1. req'[h] = req[h]
    BY <1>3, <1>4, FormStays
  <2>2. CASE teams'[req[h].name] = teams[req[h].name]
    BY <1>1, <1>3, <1>4, <2>1, <2>2, RivalStays
  <2>3. CASE teams'[req[h].name] # teams[req[h].name]
    <3>1. PICK g \in Form : /\ pc[g] \in {"open", "write"} /\ req[g].name = req[h].name
                            /\ OpenFile(g) \/ WriteFile(g)
      BY <1>3, <1>4, <2>3, TeamsStep
    <3>2. g # h
      BY <1>2, <1>3, <1>4, <3>1 DEF OpenFile, WriteFile, At, GoTo, Proceed, Redirect
    <3>3. Rival(h)
      BY <1>3, <1>4, <3>1, <3>2, Intruder
    <3>4. QED
      BY <1>3, <1>4, <3>3, RivalStays
  <2>4. QED
    BY <2>2, <2>3
<1>5. CASE OpenFile(h)
  <2>1. req'[h] = req[h] /\ req[h].name \in Name
    BY <1>5, Payer DEF OpenFile, Proceed, Redirect, At
  <2>2. page'[h] # "success" /\ (pc'[h] = "write" => teams'[req[h].name] = Empty)
    BY <1>2, <1>3, <1>5, <2>1 DEF OpenFile, Proceed, Redirect, At, GoTo
  <2>3. QED
    BY <2>1, <2>2
<1>6. CASE WriteFile(h)
  <2>1. pc[h] = "write" /\ req'[h] = req[h] /\ pc'[h] = "done"
    BY <1>2, <1>6 DEF WriteFile, Redirect, At, GoTo
  <2>2. CASE Rival(h)
    BY <1>3, <2>1, <2>2, RivalStays
  <2>3. CASE teams[req[h].name] = Empty
    <3>1. page'[h] = "success" => teams'[req[h].name] = h
      BY <1>2, <1>3, <1>6, <2>1, <2>3 DEF WriteFile, Redirect
    <3>2. QED
      BY <2>1, <3>1
  <2>4. QED
    BY <1>1, <2>1, <2>2, <2>3
<1>7. CASE pc'[h] # "write" /\ page'[h] # "success"
  BY <1>7
<1>8. ASSUME ~ OpenFile(h), ~ WriteFile(h), pc'[h] = "write" \/ page'[h] = "success"
      PROVE  pc'[h] = pc[h] /\ page'[h] = page[h] /\ (pc[h] = "write" \/ page[h] = "success")
  <2>1. CASE \/ Submit(h) \/ CheckName(h) \/ Stat(h) \/ IsCaptchaUsed(h) \/ IsCaptchaExists(h)
             \/ UseCaptcha(h)
    BY <1>2, <1>3, <1>8, <2>1
       DEF Submit, CheckName, Stat, IsCaptchaUsed, IsCaptchaExists, UseCaptcha, At, GoTo, Proceed,
           Redirect
  <2>2. CASE /\ page'[h] = page[h]
             /\ pc'[h] = pc[h] \/ (pc'[h] = "dead" /\ pc[h] \notin {"idle", "done"})
    BY <1>3, <1>8, <2>2
  <2>3. QED
    BY <1>8, <2>1, <2>2, OtherSteps, FormFrame
<1>9. QED
  BY <1>4, <1>5, <1>6, <1>7, <1>8

-----------------------------------------------------------------------------
\* The inductive invariant.
IInv == Typed /\ Judged /\ Issued /\ Spenders /\ FiledIsPaid /\ Kept

\* It holds at first, and every step keeps it.
LEMMA Invariance == Spec => []IInv
<1>1. Init => IInv
  <2> SUFFICES ASSUME Init PROVE IInv
    OBVIOUS
  <2> USE DEF Init, Past, Nobody, At, Handler
  <2>1. Judged
    BY DEF Judged, Checked, Unspent, Known, Paid, Grown, RightAnswerIsAccepted
  <2>2. Issued /\ Spenders /\ FiledIsPaid /\ Kept
    BY DEF Issued, Spenders, FiledIsPaid, Kept, Held, RegistrationIsKept, Succeeded
  <2>3. QED
    BY <2>1, <2>2, TypedInit DEF IInv
<1>2. IInv /\ [Next]_vars => IInv'
  BY TypedStep, JudgedStep, IssuedStep, SpendersStep, FiledStep, KeptStep DEF IInv
<1>3. QED
  BY <1>1, <1>2, PTL DEF Spec

\* Type correctness: nothing but a stored captcha is ever marked used.
THEOREM TypeCorrect == Spec => []TypeOK
<1>1. IInv => TypeOK
  BY DEF IInv, Typed
<1>2. QED
  BY <1>1, Invariance, PTL

\* A team is registered only under a name that was free and with a captcha that was
\* unspent when its form came, whatever forms are handled at the same time.
THEOREM Untaken == Spec => []NothingTakenTwice
<1>1. IInv => NothingTakenTwice
  BY DEF IInv, Judged, Checked, Unspent, Past, NothingTakenTwice, Succeeded
<1>2. QED
  BY <1>1, Invariance, PTL

\* No file without a spent captcha that the site had given out, whoever died where.
THEOREM PaidFirst == Spec => []FiledIsPaid
<1>1. IInv => FiledIsPaid
  BY DEF IInv
<1>2. QED
  BY <1>1, Invariance, PTL

\* A right answer is refused only if it is spent, came too early or was misread.
THEOREM RightAnswers == Spec => []RightAnswerIsAccepted
<1>1. IInv => RightAnswerIsAccepted
  BY DEF IInv, Judged
<1>2. QED
  BY <1>1, Invariance, PTL

\* Only a rival that came before there was a file can take a team's registration away.
THEOREM RegistrationKept == Spec => []RegistrationIsKept
<1>1. IInv => RegistrationIsKept
  BY DEF IInv, Kept
<1>2. QED
  BY <1>1, Invariance, PTL

\* A spent captcha stays spent, and was spent by a form that got as far as its file.
THEOREM SpentForGood == Spec => SpentStaysSpent
<1>1. IInv /\ [Next]_vars => used \subseteq used' /\ Spenders'
  BY TableGrows, SpendersStep DEF IInv
<1>2. IInv /\ [Next]_vars =>
        [used \subseteq used' /\ used' \subseteq {req'[h].captcha : h \in Reached'}]_vars
  BY <1>1 DEF Spenders
<1>3. QED
  BY <1>2, Invariance, PTL DEF Spec, SpentStaysSpent
=============================================================================
