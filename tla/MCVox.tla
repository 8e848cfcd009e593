------------------------------- MODULE MCVox -------------------------------
(* Bounded instances of Vox. *)
EXTENDS Vox, TLC

Neat(words) == [words |-> words, neat |-> TRUE]

\* "login:password", where the words hold no colon and where they do.
Spell == [p \in Word \X Word |-> p[1] \o ":" \o p[2]]
Spelled == {Spell[p] : p \in DOMAIN Spell}

\* Any kind of line at any prompt: no word, one, two, three, blanks around it.
AnyLine == [r \in Reads |->
              {Neat(<<>>), Neat(<<"ann">>), Neat(<<"ann", "ann">>), Neat(<<"DOWNLOAD", "ann", "ann">>),
               Neat(<<"DOWNLOAD">>),
               Neat(<<"GENERATE">>), [words |-> <<"GENERATE">>, neat |-> FALSE]}]

\* Answers to the prompts, two accounts, two texts.
OneWord == [login    |-> {Neat(<<"ann">>)},
            password |-> {Neat(<<"ann">>), Neat(<<"bob">>)},
            command  |-> {Neat(<<"DOWNLOAD">>), Neat(<<"GENERATE">>)},
            text     |-> {Neat(<<"ann">>), Neat(<<"bob">>)}]
\* In the first instance a text too.
MCSilent == {"DOWNLOAD"}

\* One directory with an archive from before, the other on a failing disk.
Before == {"ann:bob"}
Broken == {"ann:ann"}

Renamings == Permutations(Conn)
=============================================================================
