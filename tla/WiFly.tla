------------------------------- MODULE WiFly -------------------------------
(***************************************************************************)
(* The WiFly driver (WiFly/WiFly/Main.cs): Setup and JoinNetwork send      *)
(* commands to the radio module and wait for its answers, character by     *)
(* character and without a time-out.  WaitForResponse counts the           *)
(* characters of the expected answer wherever they appear, other           *)
(* characters between them or not, and looks for "ERR" only while it has   *)
(* counted none.                                                           *)
(*                                                                         *)
(* The radio module is external: it echoes a command, answers it, and      *)
(* prompts.  A text is the sequence of those of its characters that some   *)
(* expected answer holds; "." stands for any number of others and "<>" for *)
(* the prompt.                                                             *)
(***************************************************************************)
EXTENDS Naturals, Sequences, SequencesExt

CONSTANT Phrases      \* passphrases, as texts

\* The commands and the characters of the texts.
Names == {"", "exit", "$$$", "set", "phrase", "save", "reboot", "ver", "join", "get"}
Chars == {"A", "O", "K", ".", "<>", "CR", "LF", "C", "M", "D", "S", "g", "E", "X",
          "*", "R", "b", "v", "p", "s", "!"}

Newline == <<"CR", "LF">>
ERR == <<"E", "R", "R">>

ASSUME PhrasesAssumption ==
  \A p \in Phrases : p \in Seq({"A", "O", "K", "."})

VARIABLES
  phrase,    \* the passphrase
  step,      \* the step of Script under way
  phase,     \* what it does: send, wait, swallow, line, flush; or how all ended
  offset, errOffset,   \* of WaitForResponse
  reply,     \* of ReadResponse
  commands,  \* what the module has not answered yet
  out,       \* what it has to print
  fifo,      \* what has arrived
  online,    \* the module is in command mode
  refused    \* the steps whose command it refused

driver == <<phrase, step, phase, offset, errOffset, reply>>
module == <<commands, out, online, refused>>
wiflyVars == <<phrase, step, phase, offset, errOffset, reply, commands, out, fifo,
               online, refused>>
-----------------------------------------------------------------------------
(* What Setup and JoinNetwork do, in order: the commands they send, the    *)
(* answer they wait for, whether they look at the result, and what follows *)

Do(send, wait, checked, then) ==
  [send |-> send, wait |-> wait, checked |-> checked, then |-> then]

Enter(then) == Do(<<"", "exit", "$$$">>, <<"C", "M", "D">>, TRUE, then)
Set(c, checked) == Do(<<c>>, <<"A", "O", "K">>, checked, "next")
Save == Do(<<"save">>, <<"S", "g">>, FALSE, "next")
Exit == Do(<<"exit">>, <<"E", "X">>, FALSE, "next")

Setup ==
  << Enter("next"),
     Set("set", FALSE),
     Save,
     Do(<<"reboot">>, <<"*", "R", "b">>, FALSE, "next"),
     Do(<< >>, <<"*", "R", "E">>, FALSE, "next"),
     Enter("flush"),
     Do(<<"ver">>, <<"v">>, FALSE, "line"),
     Exit >>

\* mutant: one setting is sent without waiting for its answer
JoinNetworkHasty ==
  << Enter("next"), Do(<<"set">>, << >>, FALSE, "next"), Set("phrase", TRUE), Save >>

JoinNetwork ==
  << Enter("next"), Set("set", TRUE), Set("phrase", TRUE),
     Set("set", TRUE), Set("set", TRUE), Set("set", TRUE),
     Do(<<"join">>, <<"A", "s", "!">>, FALSE, "next"),
     Set("set", TRUE),
     Enter("next"),
     Do(<<"set", "set", "set">>, << >>, FALSE, "flush"),
     Save >>

GetIPAddress ==
  << Do(<< >>, <<"<>">>, FALSE, "next"),
     Do(<<"get">>, <<"g", "p">>, FALSE, "line") >>

Script == Setup \o JoinNetwork \o GetIPAddress \o <<Exit>>

Now == Script[step]

WiFlyTypeOK ==
  /\ phrase \in Phrases
  /\ step \in 1 .. Len(Script)
  /\ phase \in {"send", "wait", "swallow", "line", "flush", "joined", "failed"}
  /\ offset \in 0 .. Len(Now.wait) /\ errOffset \in 0 .. 3
  /\ commands \in Seq([name : Names, of : 1 .. step])
  /\ {out, fifo, reply} \subseteq Seq([c : Chars, of : 1 .. step])
  /\ online \in BOOLEAN /\ refused \subseteq 1 .. step

WiFlyInit ==
  /\ phrase \in Phrases
  /\ step = 1 /\ phase = "send"
  /\ offset = 0 /\ errOffset = 0 /\ reply = << >>
  /\ commands = << >> /\ out = << >> /\ fifo = << >>
  /\ online \in BOOLEAN /\ refused = {}
-----------------------------------------------------------------------------
(* The program                                                             *)

Goto(s) == /\ offset' = 0 /\ errOffset' = 0 /\ reply' = << >>
           /\ IF s > Len(Script) THEN phase' = "joined" /\ step' = step
              ELSE phase' = "send" /\ step' = s

\* What follows an answer.
After == IF Now.then = "next" THEN Goto(step + 1)
         ELSE phase' = Now.then /\ UNCHANGED <<step, offset, errOffset, reply>>

\* SendCommand, and the call of WaitForResponse after the last one.
Send ==
  /\ phase = "send"
  /\ commands' = commands \o [i \in DOMAIN Now.send |->
                                [name |-> Now.send[i], of |-> step]]
  /\ IF Now.wait = << >> THEN After
     ELSE phase' = "wait" /\ UNCHANGED <<step, offset, errOffset, reply>>
  /\ UNCHANGED <<phrase, out, fifo, online, refused>>

Matches == Now.wait[offset + 1] = Head(fifo).c

\* mutant: refusals are not looked for
WaitForResponseOnly ==
  /\ phase = "wait" /\ fifo # << >>
  /\ fifo' = Tail(fifo)
  /\ offset' = IF Matches THEN offset + 1 ELSE offset
  /\ phase' = IF offset' = Len(Now.wait) THEN "swallow" ELSE "wait"
  /\ UNCHANGED <<phrase, step, errOffset, reply, module>>

\* One character of WaitForResponse.
WaitForResponse ==
  /\ phase = "wait" /\ fifo # << >>
  /\ fifo' = Tail(fifo)
  /\ offset' = IF Matches THEN offset + 1 ELSE offset
  /\ errOffset' = IF ERR[errOffset + 1] = Head(fifo).c /\ offset' = 0
                  THEN errOffset + 1 ELSE errOffset
  /\ phase' = IF offset' = Len(Now.wait) \/ errOffset' = 3
              THEN "swallow" ELSE "wait"
  /\ UNCHANGED <<phrase, step, reply, module>>

\* mutant: the result of the wait is not looked at
SwallowOnly ==
  /\ phase = "swallow"
  /\ fifo' = SubSeq(fifo, 3, Len(fifo))
  /\ After
  /\ UNCHANGED <<phrase, module>>

\* Two characters, if they have arrived, are read away.  A false result of
\* a checked wait is an exception.
Swallow ==
  /\ phase = "swallow"
  /\ fifo' = SubSeq(fifo, 3, Len(fifo))
  /\ IF errOffset = 3 /\ Now.checked
     THEN phase' = "failed" /\ UNCHANGED <<step, offset, errOffset, reply>>
     ELSE After
  /\ UNCHANGED <<phrase, module>>

\* while ((version = ReadResponse()) == "") ;
ReadResponse ==
  /\ phase = "line" /\ fifo # << >>
  /\ LET e == Head(fifo) IN
       IF e.c # "CR"
       THEN /\ reply' = IF e.c = "LF" THEN reply ELSE Append(reply, e)
            /\ fifo' = Tail(fifo)
            /\ UNCHANGED <<step, phase, offset, errOffset>>
       ELSE /\ fifo' = SubSeq(fifo, 3, Len(fifo))
            /\ IF reply = << >>
               THEN UNCHANGED <<step, phase, offset, errOffset, reply>>
               ELSE Goto(step + 1)
  /\ UNCHANGED <<phrase, module>>

FlushRX ==
  /\ phase = "flush"
  /\ IF fifo = << >> THEN Goto(step + 1) /\ UNCHANGED fifo
     ELSE fifo' = Tail(fifo) /\ UNCHANGED <<step, phase, offset, errOffset, reply>>
  /\ UNCHANGED <<phrase, module>>

Driver == Send \/ WaitForResponse \/ Swallow \/ ReadResponse \/ FlushRX
-----------------------------------------------------------------------------
(* The module                                                              *)

Good(name) ==
  CASE name = "save" -> <<".", "S", "g">> \o Newline \o <<"<>">>
    [] name = "reboot" -> <<".", "*", "R", "b">> \o Newline \o <<".", "*", "R", "E">> \o Newline
    [] name = "exit" -> <<".", "E", "X">> \o Newline
    [] name = "ver" -> <<"v">> \o Newline \o <<".">> \o Newline \o <<"<>">>
    [] name = "get" -> <<"g", "p">> \o Newline \o <<".">> \o Newline \o <<"<>">>
    [] name = "join" -> <<".", "A", "s">> \o Newline \o <<"A", "s", "!">> \o Newline
    [] name = "phrase" -> phrase \o Newline \o <<"A", "O", "K">> \o Newline \o <<"<>">>
    [] name = "set" -> <<".">> \o Newline \o <<"A", "O", "K">> \o Newline \o <<"<>">>
    [] OTHER -> <<"<>">>

Bad(name) ==
  CASE name = "join" -> <<".", "A", "s">> \o Newline \o <<".">> \o Newline
    [] name = "phrase" -> phrase \o Newline \o ERR \o <<".">> \o Newline \o <<"<>">>
    [] OTHER -> <<".">> \o Newline \o ERR \o <<".">> \o Newline \o <<"<>">>

Say(text, of) == out' = [i \in DOMAIN text |-> [c |-> text[i], of |-> of]]

\* In command mode a command is answered, and some may be refused.  Out of
\* it only the escape sequence is; all else goes to a peer, if any.
AnswerCommand ==
  /\ commands # << >> /\ out = << >>
  /\ commands' = Tail(commands)
  /\ LET name == Head(commands).name   of == Head(commands).of IN
       \/ /\ name = "$$$"
          /\ Say(<<"C", "M", "D">> \o Newline, of)
          /\ online' = TRUE /\ UNCHANGED refused
       \/ /\ name # "$$$" /\ ~online
          /\ UNCHANGED <<out, online, refused>>
       \/ /\ name # "$$$" /\ online
          /\ Say(Good(name), of)
          /\ online' = (name \notin {"exit", "reboot"}) /\ UNCHANGED refused
       \/ /\ name \in {"set", "phrase", "join"} /\ online
          /\ Say(Bad(name), of)
          /\ refused' = refused \cup {of} /\ UNCHANGED online
  /\ UNCHANGED <<driver, fifo>>

Arrive ==
  /\ out # << >>
  /\ fifo' = Append(fifo, Head(out)) /\ out' = Tail(out)
  /\ UNCHANGED <<driver, commands, online, refused>>

WiFlyNext == Driver \/ AnswerCommand \/ Arrive

WiFlySpec == /\ WiFlyInit /\ [][WiFlyNext]_wiflyVars
             /\ WF_wiflyVars(Driver) /\ WF_wiflyVars(AnswerCommand) /\ WF_wiflyVars(Arrive)
-----------------------------------------------------------------------------
(* Properties                                                              *)

\* The passphrase itself, which the module echoes, spells the answer.
Spelled == \E i, j, k \in DOMAIN phrase :
             i < j /\ j < k /\ <<phrase[i], phrase[j], phrase[k]>> = <<"A", "O", "K">>

\* JoinNetwork returns only if the module took every setting whose answer
\* the code looks at.
SettingsTaken ==
  phase = "joined" /\ ~Spelled =>
    \A s \in refused : ~Script[s].checked

\* What the driver goes by is what the module was told.
JoinedAsTold == WiFlyTypeOK /\ SettingsTaken

\* An answer is taken for the command it answers: what is left over from the
\* commands before never completes a wait.
AnswerIsOwn ==
  [][ WaitForResponse /\ offset' = Len(Now.wait) /\ Now.send # << >> /\ ~Spelled
        => Head(fifo).of = step ]_wiflyVars

\* A refusal is on its way that no wait expects: of the settings after the
\* association, which are sent without waiting.
Unawaited == \E s \in refused : Script[s].wait = << >>

\* The version and the address are read from the line that answers the
\* request, whatever part of the echo has arrived when its end is swallowed,
\* unless a refusal that no one waits for is taken for an answer to it.
LineIsAnswer ==
  [][ ReadResponse /\ step' # step /\ ~Spelled /\ ~Unawaited =>
        \A i \in DOMAIN reply : reply[i].of = step /\ reply[i].c = "." ]_wiflyVars

\* Neither a wait nor a line that is read takes the answer to another command.
AnswersAreOwn == AnswerIsOwn /\ LineIsAnswer

\* A refusal that comes when some character of the expected answer has been
\* seen is not noticed.
Masked == phase = "wait" /\ step \in refused /\ offset > 0

\* Setup and JoinNetwork return or throw, unless a refusal is masked: by a
\* passphrase with an A in it, or by the report of the scan before a failure
\* to associate.
EndsUnlessMasked == <>(phase \in {"joined", "failed"} \/ Masked)
=============================================================================
