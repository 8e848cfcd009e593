# Verification of the PenzaCTF 2016 quals services

TLA+ models of the game's services and of its registration site, TLC runs on
small instances, and TLAPS proofs. All paths below are relative to the
repository. Every definition that stands for code is listed in `PROJECT.json`
under `map` with the lines it models.

## 1. Inventory

### dumb_messenger (`src/services/dumb_messenger/dumb_messenger`)
* State: a directory per account (`user_config`, `in_box/`, `out_box/`, one
  file per letter named for md5(peer + second)); in memory one client,
  `autorized_user` and its message lists.
* Operations: user add, login, remove, list; message send, get, remove,
  remove all, count; quit.
* Interaction: `main` waits for a key while a detached thread accepts one
  client after the other and serves it until it leaves.
* Hard: the process may end after any system call of a handler, since `main`
  does not wait for the thread; files stay, memory goes. Errors in the middle
  of making an account or a letter. Objects deleted and still listed.
  A short request throws out of the thread.
* Correct if: success is told only of what is on the disk, letters are lost only
  for a reason their owner or sender gave, a half-made account cannot receive
  letters, and every request gets an answer.

### kpaste (`src/services/kpaste/kpaste.c`)
* State: the radix tree `users` of objects (name, password, paste) keyed by
  `jhash` of the name; a buffer per connection.
* Operations: register or log in (one request), post a text under a cookie, view.
* Interaction: a listener thread starts a kernel thread per connection. All
  threads use the tree without a lock.
* Hard: insertions that overlap, which may do anything to the tree; a lookup that is stale
  when the insertion comes; requests that arrive in pieces; polling with a limit; two names with one
  key; an early answer (403) after which the handler goes on.
* Correct if: as long as insertions do not overlap the tree holds only live, complete
  objects, pastes stay with the key they were posted under, and who registered can log in;
  and each connection gets one answer and an end in any case.

### Registration site (`src/common/signup/server.go`, `captcha.go`)
* State: files `teams/<md5 of name>`, an SQLite table of captcha answers, temporary
  directories.
* Operations: serve a crackme (build it, serve it, store its answer); take a
  form (check name, file, captcha; spend the captcha; write the file).
* Interaction: a goroutine per request, over one table and one directory.
* Hard: handlers interleave between their queries and files; queries fail and count
  as "no"; the generator may repeat itself; death between truncation and write.
* Correct if: later registrations take nothing taken, what is filed is paid for,
  right answers are accepted, registrations are kept.

### vox (`src/services/vox/src/run.go`, `vox.c`)
* State: per connection a handler goroutine and a child process joined by pipes;
  in the file system `login:password/vox.wav` and its `.gz`.
* Operations: GENERATE (write the audio of a text, compress it), DOWNLOAD.
* Interaction: the handler relays prompts by line or by blank and passes lines on;
  the child reads words. Children of one account meet in its directory.
* Hard: reader and writer that cut the stream differently; a buffer per read that
  swallows what came early; a deadline that covers the socket and not the pipes; both
  pipes full at once; success told before the work, and results of `fwrite` and `gzip` that
  nobody looks at; `gzip` and `fopen` of several children in one directory, which two
  pairs of login and password may spell.
* Correct if: every connection is closed but those that are known not to be, archives once made
  stay and belong to the directory of who asks for them, success leaves an archive
  unless the disk fails.

### StellarAssist (`src/services/StellarAssist/StellarAssist/StellarAssist`)
* State: a folder per client (`session.key`, `data.dat`, `code.cs`,
  `code.exe`), a session key and a cipher per connection; the cipher is a delay
  line over a shift register.
* Operations: key agreement; SetData, GetData, SetCode (compile), GetResult (run
  and replace the data), Exit.
* Interaction: a pool of threads, one per connection; connections of one client
  share its folder.
* Hard: files that two connections write; a folder without its key after a
  death or an error; programs that do not end; clients that do not read their answers;
  messages cut or altered on the way; the ring's indexes.
* Correct if: both ends read the same key stream, a client gets its own data, a
  connection ends.

### Sequential code
Code that has no state of its own between calls, and is called by the parts above or
by the game's clients of them:
* Audio of vox: `vox.c` puts the recordings in `include/vox` one behind the other; its
  checker (`vox_checker.py`) cuts the audio at silences and names the pieces. Hard: the
  file is compressed before it is closed, more is skipped of a recording than its header,
  recordings have silences inside. Correct if the checker reads what it had spoken.
* base64 of `vox.c`, `md5.cpp` of the messenger. Hard: the last, incomplete group or
  block; the count in two words. Correct if they compute what RFC 4648 and RFC 1321 say.
* The crackmes (`csource`): a program hashes a flag with one of sixteen hashes, another
  one hashes what is typed and compares. Hard: `scanf` writes four bytes per byte, and takes
  signs.
  Correct if the flag wins and nothing else does.
* Key agreement of StellarAssist (`KeysExchanger.cs` over `BigInt.cs`). Hard: a digit of a
  quotient is guessed; differences below zero. Correct if both ends get one key.
* A text's way over its connections (`CryptoPerformer.cs`, `DelayLine.cs`, `SendData`,
  `ReadData`). Hard: messages have no length, and the line end is removed before the
  text is deciphered. Correct if texts arrive as they were sent; they do not always,
  and the model says when.

### Not modelled
* The generation of primes and their tests in `BigInt.cs` (`GenPseudoPrime` and what it calls)
  and `StrongNumberProvider.cs`: the keys' primes are inputs here. Operators of `BigInt.cs` that
  the agreement does not use.
* The file of `CryptoKeys.cs`, which is read once: the private key is a constant.
* The scripts around the checkers' calls: each talks to a service line by line, and the
  models of the services let clients do more.
* Pages and third-party assets of the site, VPN keys, notes on the machine image.
* What a client's program of StellarAssist does beside printing. It runs as the service itself, so
  it may do to every folder whatever the service may, and nothing that is said here of
  folders holds against such a program.
* `printf("%s")` of a base64 text without an end (vox.c:440): what follows it in memory
  may follow it in the answer.

## 2. Modules

| module | models | state and actions |
|---|---|---|
| `MailStore` | abstract: what the messenger promises about its files | `config`, `box`; an account is emptied, gets a password, is closed; a letter is delivered, copied to the sender, expunged |
| `Messenger` | main, server, client, user, message .cpp | files (`config`, `dir`, `box`), the handler's place (`pc`, `req`, `answer`), the session (`auth`, `dangling`); one action per system call or write of a handler, `Stop`/`Start` of the process |
| `MCMessenger`, `MessengerProofs` | instance; proofs | |
| `PasteBoard` | abstract: what kpaste promises its clients | `asked`, `stage` of a connection, `users` by key, `page` shown; a client asks, is registered, is shown a page, is refused, has its text stored |
| `Kpaste` | kpaste.c | `tree`, `heap`; per thread `pc`, the request, the pointer; an insertion is two steps when insertions may overlap, and `raced` remembers that two did |
| `MCKpaste`, `KpasteProofs` | instance: two names with one key, a password that is a prefix of another; proofs | |
| `Signup` | server.go, captcha.go | `teams` files, `stored`/`used` rows, a `pc` per request; a query or a file operation per step |
| `MCSignup`, `SignupProofs` | instance; proofs | |
| `ArchiveStore` | abstract: what vox promises about archives | `ticket` of a connection, `archive` of an account, `given`; an order is taken, an archive begun and finished, one is asked for and given, a connection leaves |
| `Vox` | run.go, vox.c | handler `hpc`, child `cpc`, socket, pipes (`arrived`, `rest` of a line that is being written, `pipe`, `out`), files `wav`, `gz`; `blank`, `crowded` and `faults` remember lines without a word and with several, and failures of a directory; a child ends `done` (gzip is through), `sent` (it answered a DOWNLOAD), `stopped` (no audio), `failed` or `dead` |
| `MCVox`, `VoxProofs` | instances: lines of any kind; answers to the prompts; proofs | |
| `ClientStore` | abstract: what StellarAssist promises a client | `client` and `task` of a connection, `held` data and `installed` program of a folder, `given` answers; data is put, put for good, lost in between, given; a program is sent, installed, run, prints; the process dies |
| `StellarAssist` | Program.cs, Server.cs, ClientConnectionHandler.cs, Client.cs | per connection `pc`, `cmd`, `opened` file, `prog`; per folder `dir`, `key`, `data`, `code`, `exe`; opening a file and working on it are two steps, sending the answer a third; `Fault` is a stream, a folder or a process that cannot be made |
| `MCStellarAssist`, `StellarAssistProofs` | instance: two keys with one folder, one with another, and "W", which leads to the program's own folder; proofs | |
| `ShiftRegister` | abstract: a row of cells pushed from its ends | `cells` |
| `ShuffleRegister` | ShuffleRegister.cs | `Counts`, `headCountIndex`, `tailCountIndex`; the two appends, reads as operators |
| `ShuffleRegisterProofs` | proofs | |
| `VoxSamples` | include/vox | per recording its length and the lengths of its silences and sounds |
| `VoxSpeech` | vox.c (`get_sample`, `to_audio`, `string_to_vox_file`), vox_checker.py | operators: the archive of a text, the flag read from audio |
| `Base64`, `Base64Proofs` | vox.c | operators; proofs |
| `Md5`, `Md5Rounds` | md5.cpp | operators: the context with any block function and size; the block function on 32-bit words |
| `Crackme` | csource, captcha.go | operators: the hashes, and the outcomes of a crackme |
| `BigInteger` | BigInt.cs, KeysExchanger.cs, the handler's and the checker's side | operators: division, powers, texts, the agreement |
| `StellarLine` | CryptoPerformer.cs, DelayLine.cs, `SendData`, `ReadData` | operators: the cipher, two messages on one line |
| `Programs` | calls of all these | `call`, `answer`, `answered`: a behaviour is one call of one program, or pushes of the shift register |
| `MCPrograms` | the inputs of each program | |

The modules of sequential code but `Base64` and `ShuffleRegister` belong with recursive or
bitwise operators and are for TLC only; the modules with theorems do not reach them.

Refinements:
* `Messenger` implements `MailStore` with its own `config` and `box`.
* `Kpaste` implements `PasteBoard` where insertions do not overlap. Each request is served
  at one step of its thread: a registration when the tree takes the object, a page when it is
  sent, a refusal when the password is compared or the name not found, a text when it is
  stored. `users` is what the tree leads to, `Stage` reads how far a request is from
  what was sent and found.
* `Vox` implements `ArchiveStore`: `Held` reads from a child's label what its connection is there
  for (an order from the open file on, an archive from the moment it was read into memory), the
  archive is the `.gz` that gzip has begun or made, and what is given is `file`.
* `StellarAssist` implements `ClientStore`: data is put when `data.dat` is truncated, because
  no other connection can open it until it is written, so `HeldIn` is what the writer will have
  written; the installed program is `code.exe`.
* `ShuffleRegister` implements `ShiftRegister` with `cells` read from the head on
  (`GetCountsAsArray`).

### Abstractions to keep in mind
* Names, passwords, texts, captchas are compared only. md5 and sha512 are taken as
  injective; jhash is not (`Hash` maps two names to one key).
* VoxSpeech: a recording is kept as lengths of silence (bytes 0xff) and sound, which is
  all the checker's splitting depends on; a letter's case is left out, as the code has one
  recording for both. The comparison of fuzzy hashes is taken for equality up to fewer
  than 100 bytes before the recording. stdio is taken to write whole buffers of 4096 bytes and
  to keep the rest until the child exits, when gzip has read the file already.
* Md5: blocks of eight bytes and words of eight bits, so that the count's carry is met with
  33 bytes; the real sizes and rounds run on four texts of RFC 1321.
* Crackme: a typed number is a byte, or with a sign the negative of one digit, of which the bytes
  behind are ones. Bytes `scanf` does not reach are any byte (`junk`); what it writes behind
  the array may end the program or do nothing.
* BigInteger: digits of two bits and the radix 3, for the code's 32 bits and 36; numbers
  that are not negative. The digits of the quotient, Barrett's differences and the texts
  go through the code's steps; sums and products of whole numbers do not.
* StellarLine: ASCII keys and texts, whose stream is ASCII, so that UTF-8 is the identity on
  them; a reader's buffer of four bytes for 24, and any pause of the sender.
* Messenger: the clock moves between any two steps; any letter may be the n-th
  of a listing, as readdir has no order; `rm -r` is one step; failures other than
  opening and writing files (memory, unlink) are left out.
* Kpaste: the kernel's radix tree is not here. One insertion at a time it takes an object under
  its key or refuses it; from two that overlap on (`raced`) each insertion may leave any item
  under any key, or none, or a node in place of an item (`Wild`), refuse its key, or kill its
  thread, and who follows a `Wild` pointer may die, be shown or refused anything, or write into
  the tree (`Stray`). Heap blocks other than the tree's nodes are taken to stay whole. `MaxPolls` stands for the
  hundred polls. A request in pieces is one of which the first recv returns a part.
* Signup: SQLite executes one query at a time; building a crackme is one step that may
  fail or repeat a captcha.
* Vox: a prompt is a sequence of the pieces at which the relay's reads end; an
  audio is the text it speaks, `Mixed` when two children or a failing disk wrote it. An unset pointer
  holds `Garbage`. What the child's exit flushes is left out: it is cut off from
  an archive that is made already, or goes to a file that no gzip will take. A pipe holds
  `PipeSize` words and blanks take no room in it; the output pipe holds all the prompts of a
  connection (they are less than a hundred bytes), while an archive may fit it or wait for the reader (`Flush`).
  A directory is what `DirOf` makes of login and password, two pairs may have one. Its disk may
  fail if it is one of `Failing`: writes are short or missing, gzip does not start or ends without
  an archive, or with a part of one if it was killed. Only one address connects, so a connection
  may be refused whenever another one was not.
* StellarAssist: a command is the set of words it contains, since the code looks
  for each word in turn. Opening a file that another connection writes, or
  writing one that another reads, throws, as System.IO does within a process;
  mcs and mono are other processes and not bound by it. A program prints, does not end, or does
  not compile (see "Not modelled"). The key agreement always
  works or throws, and the cipher gives back what it was given (`BigInteger` and `StellarLine` are about the two). mcs and mono are ended
  with the process.
* ShuffleRegister: reads at or above the size are not checked, no caller makes
  them (the register has one cell more than the greatest removal point).

## 3. Runs

| run | instance | shows |
|---|---|---|
| `messenger` | 2 users, 2 passwords, 1 text, 2 seconds, 2 sends, 1 restart, disk works | typing; accounts can be used (`AccountsUsable`); success is on the disk; torn files come from deaths only; losses have a reason; the files follow `MailStore` |
| `messenger_disk` | the same users, disk may fail, no restart | every request is answered or the process dies; losses have a reason |
| `kpaste` | 3 connections, pieces and overlapping insertions | until insertions overlap the tree is sound and pastes stay; one answer each, whatever overlaps tear |
| `kpaste_whole` | 2 connections, whole requests, one insertion at a time | who registered can log in, every connection ends; the requests are served as by `PasteBoard`, each at once |
| `kpaste_race` | 2 connections, overlapping insertions | **violated**: `RegisteredCanLogin` |
| `kpaste_segments` | 2 connections, requests in pieces | **violated**: `AnsweredTextIsStored` |
| `signup` | 2 forms, 2 crackmes, 2 captchas, 1 name, queries may fail, 1 death | nothing is taken twice, filed is paid, right answers accepted, registrations kept |
| `signup_race` | 2 forms that overlap | **violated**: `OneTeamPerName` |
| `vox_talk` | 1 client, up to 4 lines of any kind at any time, pipes of one word | relay and child wait for each other only after a line without a word, or at full pipes after one of several words; every other connection closes |
| `vox_files` | 3 clients that answer the prompts, 2 directories, one with an archive, one on a failing disk, 2 texts | downloads are of the directory, success leaves an archive unless the disk fails; the steps are those of `ArchiveStore`, where an archive is never replaced |
| `stellar_assist` | 2 connections, 2 commands each, 2 folders and the program's own, 1 death, 1 fault | what was written last is read, but for another connection at the file or a fault; keys are missing after deaths and faults only; commands end unless the program does not or its answer is not taken; the steps are those of `ClientStore` |
| `programs` | all inputs of MCPrograms; register of size 4, 3 values | letters are whole but for the last, the checker reads every flag, base64 and md5 compute what the RFCs say, only the flag wins a crackme, both ends get one key, texts survive exactly when they can; the ring is a shift register |

Why the bounds suffice. The messenger serves one client at a time, so two users
give every pairing of sender and receiver (also oneself), two letters in one
second the clash of names, and one restart every state a death leaves for a later
process; more restarts start from such states again. In Kpaste three
threads are the least in which an insertion is undone while another looks it up;
two names of one key and one of another give equal and different slots. The
board is checked with two of them, one that posts or logs in while another registers,
and proved for any number. In Signup the handlers
of a name race in pairs, and the second crackme may repeat the first one's captcha.
In Vox a single client is enough for what relay and child do to each other, since
connections share no pipe; three are two generations that overlap and a download
that overlaps both, and two directories show that they share no file. A pipe of one word is
filled by a line of two; the proof is for pipes of every size. Pairs of login and password that
spell one directory are not in the instance, which has no room for them: there two connections of one
directory have one login and password, and the proofs, which are for every `DirOf`, show that it
makes no difference. In StellarAssist every conflict over a file is between two
connections, and two commands let one of them read what it or the other wrote; the
limit of the pool is not reached by two, so that half of `TypeOK` rests on its proof. Four lines are all the handler reads. A ring
of four has a cell that is neither head, tail nor wrap; for other sizes there is
the proof.

Fairness. `FairSpec` of Messenger asks weak fairness of the handler's steps (a
thread that can go on does, or the process stops), of Kpaste of each thread and
its accept, of Vox of each handler and each child, of StellarAssist of each thread that waits for no message and sends none: they are threads, goroutines
and processes the system schedules. Nothing is asked of clients. The deadline of
ten seconds in run.go is part of the handler's fairness, because the clock
brings it. No run assumes that a message arrives, that an answer is taken, or that a process starts again.

Properties that look surprising are meant as written:
* `NoMutualWait` and `ConnectionCloses` except a line without a word, for which the relay and
  the child wait for each other for ever (the pipes have no deadline), and full pipes: after
  DOWNLOAD with a long tail the relay writes to a child that writes an archive, and neither reads.
* `AccountsUsable` holds on a disk that works, and `LossIsAccounted` names what a failing one loses.
* `TreeSound` and `PastesStay` end where two insertions overlap. What they say before that is about
  lookups, logins, texts and refused insertions between the steps of one; what an overlap
  can do is what `kpaste_race` shows. `OneAnswer` holds behind it too.
* `SuccessLeavesArchive` excepts a directory in which a write or gzip failed: the child ends as if
  it had not, and only the sound is left, for the next gzip.
* `DownloadIsOwn` and `ArchiveSpec` speak of directories: "a:b" with "c" and "a" with "b:c" share an
  archive, as the code spells both `a:b:c`.
* `LastWriteIsRead` speaks of folders and not of clients, because the code cuts a public key to ten
  characters and two clients may share a folder. A result that cannot be stored, because another
  connection just reads `data.dat` or the disk fails, is dropped and the older data is answered:
  the property names that case.
* `KeylessByFailure` excepts the program's own folder, to which the key "W" leads: it is there from
  the beginning and has no `session.key`.
* `CommandEnds` excepts a program that does not end and an answer that the client does not take: no
  stream has a timeout.

### Findings
1. `kpaste_race`: two insertions that overlap may lose or misplace one of two users who were
   both answered 200 (kpaste.c:247), against "register, then log in" of
   `src/services/kpaste/README.md`.
2. `kpaste_segments`: a POST whose body comes in a second segment is answered 200
   and its text is dropped (kpaste.c:367).
3. `signup_race`: two forms of one name both pass `os.Stat` (server.go:155), both
   are sent to the page of success, and the second file replaces the first, against the
   page `already_registered.html`.

## 4. Proofs

Every invariant and action property of the services' and the site's runs is also a
theorem, for every value of the constants: any number of connections, threads, handlers,
users, texts and bounds. The assumptions are the `ASSUME`s of the modules (sets of
names and values that are distinct where the code tells them apart, bounds that are
naturals; TLC evaluates them on every run) and, where a theorem says so, one hypothesis
about the surroundings: a disk that works (`~DiskMayFail`), one insertion at a time
(`~Racing`), requests that come in one piece (`~Segmented`). In `AnsweredOnce`, and in the theorems of Vox and
StellarAssist, overlaps and failures are within. The last two are needed:
without them `kpaste_race` and `kpaste_segments` show the property violated.

Each proof has the same shape. A frame lemma says what a step of one thread leaves to the
others; the typing and the facts about labels come first; then each part of the
inductive invariant gets a lemma that a step keeps it; the theorem combines them. Every
invariant was checked by TLC on the run's instance before it was proved.

`MessengerProofs`:
* `TypeCorrect`: `TypeOK`, on any disk. `ControlOK` ties each label of a handler
  to its kind of request; without it the fields a step reads are not typed.
* `HealthyDisk` (assumes `~DiskMayFail`): `AccountsUsable`, that is, the authorised user
  exists (`AuthorisedExists`), an account has its directories (`MailboxReady`), and a letter to
  an account is not refused (`SendSucceeds`). They are not inductive: a send is refused if a directory is
  missing, and directories are made over several steps. `Healthy` adds which
  directories exist at each label of a registration (`Saving`) and that sender and
  receiver of a letter in progress have accounts (`Sending`).
* `SuccessTold` (same assumption): `SuccessIsStored`. `Stored` adds
  `Delivered`: the receiver's copy is whole while the sender's is written.
* `TornByDeath` (same assumption): `TornOnlyByDeath`. `Tidy` says where an empty file may be
  while the process lives: at the account or the letter the handler is just writing
  (`TornAccounts`, `TornLetters`).
* `LossesAccounted` (any disk; the runs check a working one and a failing one): `LossIsAccounted`, an action property. On a disk that works
  it needs `Healthy`, since a registration starts over an account only if it has none.
* `ImplementsMailStore` (assumes `~DiskMayFail`): every step is a `MailStore` step
  or leaves the files alone. The assumption is needed: a registration that cannot open the
  file removes an account without its password.

`KpasteProofs`:
* `TypeCorrect`, `TreeStaysSound`, `PastesKept` rest on `Base`: what a thread has read by its
  label (`Read`), and `Sound`: objects in the tree were stored by a thread past its
  insertion (`Allocates`, `Owns`, `Linked`), under the key of their name, nobody uses an
  object before that (`Unseen`), and what a cookie's thread found has the cookie's key
  (`Uses`), all as long as `raced` is false. `TreeSound` alone is not inductive, because an insertion looks
  up a key some steps before it takes it, and refusing it frees the object.
* `AnsweredOnce`: `OneAnswer`. `Answers` says at which labels nothing is sent yet
  (`Silent`), who may be sent two lines (`Twice`) and why one is closed without (`Excused`);
  a torn tree and stray pointers are steps of its proof like the others.
* `RegisteringWorks` (assumes `~Racing`) and `AnsweredIsStored` (assumes `~Racing` and `~Segmented`): what
  `kpaste_race` and `kpaste_segments` show violated without the assumption.
* `ImplementsPasteBoard` (assumes `~Racing`): every step is a step of `PasteBoard` or is not seen
  there. `Served` joins what is above and `Pinned`: what a thread has found is still the user of its
  key when it compares, shows or stores, since the tree only grows (`TreeGrows`), and an object
  on its way into the tree has no paste, since nobody else uses it (`OnItsWay`). With overlapping insertions a tree loses users and the board does not, as
  `kpaste_race` shows; pieces of requests do not matter, since the board speaks of what was read.

`SignupProofs`:
* `TypeCorrect`, `Untaken`, `PaidFirst`, `RightAnswers`, `RegistrationKept`, `SpentForGood`.
  The invariant `IInv` says, besides the types, what a form has checked by its label (`Judged`), that a row of
  the table was made for a crackme whose handler is past it (`Issued`), that
  a spent captcha has a spender at that label or later (`Spenders`), and whose a file on
  the way is (`Kept`). Each of them looks at the handler and at the disk or table, since the
  query and the step that acts on its answer are apart.

`VoxProofs`:
* `TypeCorrect`: with what a child has read by its label (`Named`) and that handler and child
  begin together (`Born`).
* Each theorem is for every `DirOf`, `Failing`, `Left` and `PipeSize`: pairs that spell one
  directory, failing disks, archives of earlier processes and pipes of any size are within.
* `SuccessIsWorthIt` and `ArchivesKept` (an archive never changes once it is made, which
  `ArchiveSpec` also says) from `There`: one gzip at a time makes an archive, from
  a sound that is there (`Zipping`); who has opened its file finds a sound or an archive
  (`Opened`); the line of success comes only from a child on that way (`Told`), wherever
  the line is between child and client.
* `DownloadsOwn` from `Own`: sounds, archives, what a child has read to send and what was
  sent are generated for their directory or were there before (`WavOwn`, `GzOwn`, `InHand`, `Sent`). The step that needs
  more is a child that writes into a file another one has emptied, or compresses one that
  is empty: `Rivals` and `LinkedOpened` say that it met another generator of its directory, which
  is, with failing writes, what `DownloadIsOwn` allows for.
* `ImplementsArchiveStore`: every step of a handler or a child is a step of `ArchiveStore` or is not seen
  there. `Kept` adds to `Own` that a child has no text before one is sent (`Unread`), that an
  archive is sent only if it is one (`Worth`) and once (`Once`), and that no file holds a text nobody
  sent, nor a sound a part of an archive (`Pure`). `Zipping` makes the archive's beginning
  and end steps of one child, and `Rivals` accounts for one that is no text.
* `NobodyWaitsForEver`: `NoMutualWait`. `Placed` gives the exact place of both ends in their
  conversation: what is in the output pipe is what the child has printed and the handler
  has not taken, and the lines passed on are at most the words read and those in the
  input pipe and in the relay's hand. That is why a line without a word, and nothing else, lets both
  wait for words. `Tight` counts the other way: without a line of several words the child
  has had no more words than there were lines, so it writes an archive only when the relay has
  nothing left to write.

`StellarAssistProofs`:
* `TypeCorrect`, `KeylessOnlyByFailure`, `LastWriteRead` (by `Unmet`; `Apart` says that contents and
  programs are of connections of the folder). A folder's files
  change between a connection's check, its opening and its work, so the invariants
  say at each label what the connection has open and what others cannot have opened
  meanwhile.
* `ImplementsClientStore`: every step is a step of `ClientStore` or is not seen there. It needs two facts
  more: who writes `data.dat` has emptied it and is alone with it (`Exclusive`), which makes a put
  that takes two steps one, a read a read of the whole, and a death or a fault the loss of just that put;
  and a source is its sender's program as long as no other connection wrote one (`OwnSource`).

`ShuffleRegisterProofs`, for any size and values:
* `TailBeforeHead`: the tail is the cell before the head. With the typing it is
  inductive, and it is what makes the overwritten cell the one that falls out.
* `ReadsStayInside`: no read below the size leaves the array.
* `ImplementsShiftRegister`: a push at the head shifts the row that is read by one
  from the front, a push at the tail from the back.

`Base64Proofs`, for data of every length (`programs` checks lengths up to five):
* `EncodeIsEncoding`: `base64_encode` is `Encoding`, the text as RFC 4648 defines it. `Lengths`
  compares the code's count of characters and marks with the RFC's for each remainder modulo
  three, `Octets` and `GroupValues` turn bits into quotients, and `Shifts` says what the
  code's shifts leave of a triple.
* `EncodesAnyData`: `EncodesExactly`, the right side of `Base64IsExact`: the decoder gives the
  data back too. Behind the data a group is zero (`NothingBehind`), as the decoder takes a
  mark to be (`Sextets`); so four characters are the triple (`Quads`), and the number of bytes is
  right because the marks are counted at the end (`DecodedLength`). `Programs`, in which the
  property is a run's, uses recursive operators, so the theorem is about the operators.

Only model-checked:
* Liveness (`RequestAnswered`, `EveryConnectionEnds`, `ConnectionCloses`, `CommandEnds`):
  temporal reasoning with fairness and ENABLED is beyond the proof system's back ends.
  `NobodyWaitsForEver` is the safety part of `ConnectionCloses`.
* The algorithms of `programs` but base64 and the shift register: recursive operators over
  data, and bitwise operators.

## 5. Plan

Done: Messenger, Kpaste, Signup, Vox, the service of StellarAssist, its shift register,
base64, each with proofs of all their safety properties; the stores that Messenger, Kpaste, Vox and
StellarAssist implement, with proofs of the refinements; and the sequential code: speech and
its recognition, md5, the crackmes, the key agreement, the texts on the line.

Next: the queue of StellarAssist's pool (which connections wait while programs that do not
end hold its threads), and an abstract registry for the site, implemented where forms of one name do
not overlap.

Not planned: what section 1 lists as not modelled.
