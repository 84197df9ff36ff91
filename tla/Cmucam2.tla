------------------------------ MODULE Cmucam2 ------------------------------
(***************************************************************************)
(* The CMUcam2 emulation (projects/cmucam2/cmucam2.c): it prompts, reads a *)
(* command from the UART (hal/lpc2106-cmucam3-burt/serial.c), and streams  *)
(* packets until a carriage return comes.  While it streams it only polls  *)
(* the UART: cc3_uart_has_data is true when nothing has come, and what it  *)
(* reads is lost to the commands.                                          *)
(*                                                                         *)
(* A command arrives as its first letter, its second with the arguments of *)
(* a line (the argument count in raw mode stands alone, with its           *)
(* arguments), and the carriage return of a line.  Pixels are abstracted:  *)
(* a frame has an object on either side of the centre or none.             *)
(***************************************************************************)
EXTENDS Integers, Sequences, SequencesExt

CONSTANTS
  Commands,    \* what the host may send: [name, arg]
  Rows,        \* rows of a frame
  FifoLen,     \* characters the UART holds
  MaxCmds,     \* bound: commands sent
  StopCRs,     \* carriage returns the host sends at a time to stop a stream
  SERVO_MAX, ServoStep

CR == [n |-> 0, part |-> 0]
SERVO_MIN == 0
SERVO_MID == SERVO_MAX \div 2

VARIABLES
  settings,    \* what the commands of their own names set
  coi, window, \* of cc3_g_pixbuf_frame: channel; full, half or set by VW
  old,         \* old_coi
  servo,       \* servo_settings: positions
  t_step,      \* of the tracking: 0 when none runs
  at,          \* where the last object tracked stood vertically
  heap,        \* blocks allocated for a command and not freed
  demo,        \* demo_mode
  phase,       \* lock, prompt, read, exec, begin, frame, row, mid, end
  line,        \* characters of the command being read
  cmd,         \* number of the command under way
  jobs,        \* loops it has still to run
  row,         \* rows of the frame read
  fifo,
  sent,        \* the commands sent
  prompted,    \* the last the host has seen is a prompt
  ahead,       \* commands sent when the program was not waiting for one
  done         \* the commands carried out

frameVars == <<coi, window, old>>
streamVars == <<jobs, row, servo, t_step, at, heap>>
loopVars == <<settings, frameVars, jobs, row, t_step, at, heap, demo>>
hostVars == <<sent, prompted, ahead>>
vars == <<settings, frameVars, streamVars, demo, phase, line, cmd, fifo,
          hostVars, done>>

SettingNames == {"PM", "FS", "LM", "DC", "RM", "ST", "HC", "SM"}

\* Bounds are in order (ordered) or not (inverted), bins fit into memory (few)
\* or not (many); SM names the servos under control.
Default == [[s \in SettingNames |-> "0"] EXCEPT
             !.DC = "1", !.ST = "ordered", !.HC = "few", !.SM = "none"]

Bounds == {"ordered", "inverted"}
Channels == {"0", "1", "2", "3", "4", "ALL"}
Places == {"far+", "near+", "centre", "near-", "far-"}
Controls(axis) == settings.SM \in {axis, "xy"}

LoopNames == {"TC", "TW", "GM", "GH", "FD", "LF", "SF"}
CommandNames == SettingNames \cup LoopNames \cup {"VW", "HR", "RS", "bad"}

Arguments == {"0", "1", "ordered", "inverted", "few", "none", "xy"} \cup {c.arg : c \in Commands}

\* Arguments out of range are those of "bad".
ASSUME CommandsAssumption ==
  \A c \in Commands :
    /\ c \in [name : CommandNames, arg : Arguments]
    /\ c.name = "RM" => c.arg \in {"0", "4"}
    /\ c.name = "ST" => c.arg \in Bounds
    /\ c.name = "DC" => c.arg \in Channels

ASSUME SizesAssumption ==
  /\ Rows \in Nat /\ FifoLen \in Nat /\ MaxCmds \in Nat /\ StopCRs \in Nat
  /\ SERVO_MAX \in Nat /\ ServoStep \in Nat
-----------------------------------------------------------------------------
Jobs == {"mean", "track", "hist", "diff", "load", "send"}
Character == [n : Nat, part : Nat]

SettingsOK ==
  /\ settings \in [SettingNames -> Arguments]
  /\ settings.RM \in {"0", "4"} /\ settings.ST \in Bounds /\ settings.DC \in Channels

FrameOK ==
  coi \in Channels /\ old \in Channels /\ window \in {"full", "half", "set"}

ServosOK ==
  /\ servo \in [{"x", "y"} -> SERVO_MIN .. SERVO_MAX]
  /\ t_step \in -ServoStep .. ServoStep /\ at \in Places \cup {"none"}

PlaceOK ==
  /\ phase \in {"lock", "prompt", "read", "exec", "begin", "frame", "row", "mid", "end"}
  /\ row \in 0 .. Rows /\ heap \in Nat /\ demo \in BOOLEAN /\ jobs \in Seq(Jobs)
  /\ phase \in {"begin", "frame", "row", "mid", "end"} => jobs # << >>

HostOK ==
  /\ sent \in Seq(Commands) /\ Len(sent) <= MaxCmds /\ ahead \subseteq 1 .. MaxCmds
  /\ prompted \in BOOLEAN /\ done \in Seq(Nat) /\ cmd \in Nat
  /\ fifo \in Seq(Character) /\ Len(fifo) <= FifoLen /\ line \in Seq(Character)

TypeOK == SettingsOK /\ FrameOK /\ ServosOK /\ PlaceOK /\ HostOK

\* The button pressed at start-up sets the demonstration going, with both
\* servos under control.  The step variable of the tracking is on the stack.
Init ==
  /\ demo \in BOOLEAN
  /\ settings = [Default EXCEPT !.SM = IF demo THEN "xy" ELSE "none"]
  /\ coi = "ALL" /\ old = "ALL" /\ window = "full"
  /\ servo = [s \in {"x", "y"} |-> SERVO_MID] /\ t_step = 0 /\ at = "none"
  /\ heap = 0 /\ line = << >> /\ cmd = 0 /\ jobs = << >> /\ row = 0
  /\ phase = IF demo THEN "lock" ELSE "prompt"
  /\ fifo = << >> /\ sent = << >> /\ prompted = FALSE /\ ahead = {} /\ done = << >>
-----------------------------------------------------------------------------
(* The host                                                                *)

Characters(n) ==
  LET P(k) == [n |-> n, part |-> k] IN
  IF settings.RM = "4" THEN <<P(1), P(2), P(3)>> ELSE <<P(1), P(2), CR>>

\* The UART keeps what fits.
Receive(s) ==
  LET all == fifo \o s IN
  fifo' = IF Len(all) <= FifoLen THEN all ELSE SubSeq(all, 1, FifoLen)

SendCommand ==
  /\ Len(sent) < MaxCmds /\ prompted
  /\ \E c \in Commands : sent' = Append(sent, c)
  /\ Receive(Characters(Len(sent')))
  /\ ahead' = IF phase = "read" /\ line = << >> /\ fifo = << >> THEN ahead
              ELSE ahead \cup {Len(sent')}
  /\ prompted' = FALSE
  /\ UNCHANGED <<settings, frameVars, streamVars, demo, phase, line, cmd, done>>

\* The host sees no prompt and wants one.
SendStop ==
  /\ ~prompted /\ fifo = << >> /\ phase # "read"
  /\ Receive([i \in 1 .. StopCRs |-> CR])
  /\ UNCHANGED <<settings, frameVars, streamVars, demo, phase, line, cmd, hostVars, done>>
-----------------------------------------------------------------------------
(* The loop of main                                                        *)

\* The second press of the button, in demonstration mode.
Lock ==
  /\ phase = "lock" /\ phase' = "prompt"
  /\ UNCHANGED <<settings, frameVars, streamVars, demo, line, cmd, fifo, hostVars, done>>

Prompt ==
  /\ phase = "prompt"
  /\ prompted' = TRUE
  /\ IF demo THEN phase' = "begin" /\ jobs' = <<"mean", "track">>
     ELSE phase' = "read" /\ UNCHANGED jobs
  /\ UNCHANGED <<settings, frameVars, row, servo, t_step, at, heap, demo, line, cmd,
                 fifo, sent, ahead, done>>

IsCommand(l, k) ==
  /\ Len(l) = k /\ l[1].n # 0
  /\ \A i \in 1 .. k : l[i] = [n |-> l[1].n, part |-> i]

Read == /\ phase = "read" /\ fifo # << >> /\ fifo' = Tail(fifo)
        /\ UNCHANGED <<settings, frameVars, streamVars, demo, hostVars, done>>

\* mutant: an empty line is taken for the command before
cmucam2_get_commandAgain ==
  /\ Read /\ settings.RM = "0"
  /\ IF Head(fifo) # CR
     THEN line' = Append(line, Head(fifo)) /\ UNCHANGED <<phase, cmd>>
     ELSE /\ line' = << >>
          /\ IF IsCommand(line, 2) THEN phase' = "exec" /\ cmd' = line[1].n
             ELSE /\ UNCHANGED cmd
                  /\ phase' = IF line = << >> /\ cmd # 0 THEN "exec" ELSE "prompt"

\* A line that is no command is answered and forgotten, an empty one too.
cmucam2_get_command ==
  /\ Read /\ settings.RM = "0"
  /\ IF Head(fifo) # CR
     THEN line' = Append(line, Head(fifo)) /\ UNCHANGED <<phase, cmd>>
     ELSE /\ line' = << >>
          /\ IF IsCommand(line, 2) THEN phase' = "exec" /\ cmd' = line[1].n
             ELSE phase' = "prompt" /\ UNCHANGED cmd

\* Two letters; then, if they are a command, a count and its arguments.
cmucam2_get_command_raw ==
  /\ Read /\ settings.RM = "4"
  /\ LET l == Append(line, Head(fifo)) IN
       \/ /\ (Len(l) < 2 \/ IsCommand(l, 2))
          /\ line' = l /\ UNCHANGED <<phase, cmd>>
       \/ /\ IsCommand(l, 3)
          /\ line' = << >> /\ phase' = "exec" /\ cmd' = l[1].n
       \/ /\ Len(l) >= 2 /\ ~IsCommand(l, 2) /\ ~IsCommand(l, 3)
          /\ line' = << >> /\ phase' = "prompt" /\ UNCHANGED cmd

Now == sent[cmd]
Took == done' = Append(done, cmd)
Exec(names) == phase = "exec" /\ Now.name \in names /\ UNCHANGED <<line, cmd, fifo, hostVars, demo>>

\* Commands that set one setting.
SetSetting ==
  /\ Exec(SettingNames)
  /\ settings' = [settings EXCEPT ![Now.name] = Now.arg]
  /\ phase' = "prompt" /\ Took
  /\ UNCHANGED <<frameVars, streamVars>>

\* A wrong number of arguments, or one out of range.
Refuse ==
  /\ Exec({"bad"})
  /\ phase' = "prompt" /\ Took
  /\ UNCHANGED <<settings, frameVars, streamVars>>

SetWindow ==
  /\ Exec({"VW"})
  /\ window' = "set"
  /\ phase' = "prompt" /\ Took
  /\ UNCHANGED <<settings, coi, old, streamVars>>

\* A camera setter sets the frame back.
SetResolution ==
  /\ Exec({"HR"})
  /\ window' = "full" /\ coi' = "ALL"
  /\ phase' = "prompt" /\ Took
  /\ UNCHANGED <<settings, old, streamVars>>

\* goto cmucam2_start: the masks of the servos stay.
Reset ==
  /\ Exec({"RS"})
  /\ settings' = [Default EXCEPT !.SM = settings.SM]
  /\ servo' = [s \in {"x", "y"} |-> SERVO_MID]
  /\ window' = "full" /\ coi' = "ALL"
  /\ phase' = "prompt" /\ Took
  /\ UNCHANGED <<old, jobs, row, t_step, at, heap>>

Loops(name) ==
  CASE name = "TW" -> <<"mean", "track">>
    [] name = "TC" -> <<"track">>
    [] name = "GM" -> <<"mean">>
    [] name = "GH" -> <<"hist">>
    [] name = "FD" -> <<"diff">>
    [] name = "LF" -> <<"load">>
    [] name = "SF" -> <<"send">>
    [] OTHER -> << >>

\* TC takes new bounds, SF a channel; TW leaves bounds that are in order.
Start ==
  /\ Exec(LoopNames)
  /\ settings' = [settings EXCEPT !.ST = IF Now.name = "TC" /\ Now.arg \in Bounds THEN Now.arg
                                         ELSE settings.ST]
  /\ old' = coi
  /\ coi' = IF Now.name = "SF" /\ Now.arg \in Channels THEN Now.arg ELSE coi
  /\ jobs' = Loops(Now.name)
  /\ phase' = "begin" /\ Took
  /\ UNCHANGED <<window, row, servo, t_step, at, heap>>
-----------------------------------------------------------------------------
(* The loops; what they print is the last the host sees.                   *)

Job == Head(jobs)
Window == demo \/ Now.name = "TW"

Running(p) ==
  /\ phase = p
  /\ prompted' = FALSE
  /\ UNCHANGED <<line, cmd, sent, ahead, done>>

\* What follows a loop; the loop of TW's mean ends with bounds that are in
\* order and the full window, its tracking ends the demonstration.
Next1 ==
  /\ jobs' = Tail(jobs) /\ row' = 0 /\ old' = "ALL" /\ t_step' = 0 /\ at' = "none"
  /\ phase' = IF Len(jobs) > 1 THEN "begin" ELSE "prompt"
  /\ IF Window /\ Job = "mean"
     THEN window' = "full" /\ settings' = [settings EXCEPT !.ST = "ordered"]
     ELSE UNCHANGED <<window, settings>>
  /\ demo' = (demo /\ Job # "track")

Blocks == CASE Job \in {"hist", "diff"} -> 2
            [] OTHER -> 1

\* mutant: the carriage return that stops a difference leaves the channel
LeaveKeepsCoi ==
  /\ heap' = heap - Blocks
  /\ coi' = IF Job \in {"load", "send"} THEN old ELSE coi
  /\ Next1

\* mutant: the second buffer is forgotten
LeaveForgets ==
  /\ heap' = heap - 1
  /\ coi' = IF Job \in {"diff", "load", "send"} THEN old ELSE coi
  /\ Next1

\* All is freed, and the channel is set back where the loop changed it.
Leave ==
  /\ heap' = heap - Blocks
  /\ coi' = IF Job \in {"diff", "load", "send"} THEN old ELSE coi
  /\ Next1

\* Buffers, channel and window of a loop.  Two early returns free nothing.
Begin ==
  /\ Running("begin")
  /\ \/ /\ Job = "hist" /\ settings.HC = "many"
        /\ heap' = heap + 1
        /\ Next1 /\ UNCHANGED coi
     \/ /\ Job = "track" /\ settings.ST = "inverted"
        /\ heap' = heap + 1
        /\ Next1 /\ UNCHANGED coi
     \/ /\ ~(Job = "hist" /\ settings.HC = "many")
        /\ ~(Job = "track" /\ settings.ST = "inverted")
        /\ heap' = heap + Blocks
        /\ old' = IF Job \in {"diff", "load"} THEN coi ELSE old
        /\ coi' = IF Job \in {"diff", "load"} THEN settings.DC ELSE coi
        /\ window' = IF Window /\ Job = "mean" THEN "half" ELSE window
        /\ phase' = "frame"
        /\ t_step' \in (IF Job = "track" THEN {-ServoStep, 0, ServoStep} ELSE {t_step})
        /\ UNCHANGED <<settings, jobs, row, demo, at>>
  /\ UNCHANGED <<servo, fifo>>

\* A frame is loaded or rewound.
Frame ==
  /\ Running("frame")
  /\ row' = 0 /\ phase' = "row"
  /\ UNCHANGED <<settings, frameVars, jobs, servo, t_step, at, heap, demo, fifo>>

\* A look at the UART: nothing has come, or one character is read.
Quiet == fifo = << >> /\ UNCHANGED fifo
Hears == fifo # << >> /\ fifo' = Tail(fifo)
Stopped == Hears /\ Head(fifo) = CR

\* In line mode each row of a tracking drains the UART.
Row ==
  /\ Running("row")
  /\ \/ /\ row < Rows /\ (Job = "track" /\ settings.LM # "0" => fifo = << >>)
        /\ row' = row + 1
        /\ UNCHANGED <<settings, frameVars, jobs, t_step, at, heap, demo, phase, fifo>>
     \/ /\ row < Rows /\ Job = "track" /\ settings.LM # "0"
        /\ Hears
        /\ IF Head(fifo) = CR THEN Leave
           ELSE UNCHANGED <<loopVars, phase>>
     \/ /\ row = Rows
        /\ phase' = IF Job \in {"load", "send"} THEN "end" ELSE "mid"
        /\ UNCHANGED <<loopVars, fifo>>
  /\ UNCHANGED servo

Clamped(p) ==
  IF p > SERVO_MAX THEN SERVO_MAX ELSE IF p < SERVO_MIN THEN SERVO_MIN ELSE p

Moved(place) == CASE place = "far+" -> ServoStep
               [] place = "near+" -> ServoStep \div 2
               [] place = "near-" -> -(ServoStep \div 2)
               [] place = "far-" -> -ServoStep

\* mutant: t_step is not set back after the pan
ServosCarryOver(ax, ay) ==
  LET sx == IF ax = "centre" THEN 0 ELSE Moved(ax)
      before == IF Controls("x") THEN sx ELSE t_step
      sy == IF ay = "centre" THEN before ELSE Moved(ay)
  IN /\ servo' = [servo EXCEPT !["x"] = IF Controls("x") THEN Clamped(@ - sx) ELSE @,
                               !["y"] = IF Controls("y") THEN Clamped(@ - sy) ELSE @]
     /\ t_step' = IF Controls("y") THEN sy ELSE before

\* The step of the pan starts from 0 and is set back to 0; the tilt of an
\* object at its centre takes what is in t_step.
Servos(ax, ay) ==
  LET sx == IF ax = "centre" THEN 0 ELSE Moved(ax)
      before == IF Controls("x") THEN 0 ELSE t_step
      sy == IF ay = "centre" THEN before ELSE Moved(ay)
  IN /\ servo' = [servo EXCEPT !["x"] = IF Controls("x") THEN Clamped(@ - sx) ELSE @,
                               !["y"] = IF Controls("y") THEN Clamped(@ - sy) ELSE @]
     /\ t_step' = IF Controls("y") THEN sy ELSE before

\* mutant: no look at the UART before the packet
MidDeaf ==
  /\ Running("mid")
  /\ phase' = "end" /\ UNCHANGED <<loopVars, fifo, servo>>

\* The UART is drained before the packet; a carriage return ends the loop.
\* A tracking of an object that is dense enough moves the servos.
Mid ==
  /\ Running("mid")
  /\ \/ /\ Quiet /\ phase' = "end"
        /\ \/ UNCHANGED <<servo, t_step, at>>
           \/ /\ Job = "track"
              /\ \E ax, ay \in Places : Servos(ax, ay) /\ at' = ay
        /\ UNCHANGED <<settings, frameVars, jobs, row, heap, demo>>
     \/ /\ Hears
        /\ IF Head(fifo) = CR THEN Leave ELSE UNCHANGED <<loopVars, phase>>
        /\ UNCHANGED servo

\* while (!poll_mode), while (frame_stream_mode)
Again ==
  CASE Job = "load" -> FALSE
    [] Job = "send" -> settings.FS = "1"
    [] Job = "mean" /\ Window -> FALSE
    [] OTHER -> settings.PM = "0"

Loop == IF Again
        THEN /\ phase' = "frame" /\ at' = "none"
             /\ UNCHANGED <<settings, frameVars, jobs, row, t_step, heap, demo>>
        ELSE Leave

\* After the packet: the loops but the tracking look at one character.  The
\* tracking drains the UART, and its break leaves only the draining.
End ==
  /\ Running("end")
  /\ \/ Job = "load" /\ Leave /\ UNCHANGED fifo
     \/ Job # "load" /\ Quiet /\ Loop
     \/ Job \notin {"load", "track"} /\ Stopped /\ Leave
     \/ Job \notin {"load", "track"} /\ Hears /\ Head(fifo) # CR /\ Loop
     \/ Job = "track" /\ Stopped /\ Loop
     \/ Job = "track" /\ Hears /\ Head(fifo) # CR /\ UNCHANGED <<loopVars, phase>>
  /\ UNCHANGED servo

GetCommand == cmucam2_get_command \/ cmucam2_get_command_raw

Execute == SetSetting \/ Refuse \/ SetWindow \/ SetResolution \/ Reset \/ Start

Camera == Prompt \/ GetCommand \/ Execute \/ Begin \/ Frame \/ Row \/ Mid \/ End

Next == SendCommand \/ SendStop \/ Lock \/ Camera

Spec == Init /\ [][Next]_vars /\ WF_vars(Camera) /\ WF_vars(SendStop)
-----------------------------------------------------------------------------
(* Properties                                                              *)

\* Whenever the program waits for a command, on whatever way it came from the
\* last, all channels are selected and no half window is left of TW.
FrameRestored == phase = "read" => coi = "ALL" /\ window # "half"

\* What a command allocated is freed on every way out of it, but for the
\* bounds in the wrong order and the histogram too large to allocate.
MemoryReturned ==
  phase = "read" /\ heap > 0 =>
    \E i \in DOMAIN done :
      sent[done[i]].arg \in {"inverted", "many"}

\* A command is carried out at most once and in its turn, and a command sent
\* when the program waits for one is carried out, whatever the carriage
\* returns around it.
InTurn ==
  /\ \A i, j \in DOMAIN done : i < j => done[i] < done[j]
  /\ phase = "read" /\ fifo = << >> =>
       \A n \in DOMAIN sent : n \in ahead \/ n \in ToSet(done)

\* A servo does not tilt for an object at the centre while the pan is under
\* control too: the step of the pan is not taken for the tilt.
StillAtCentre ==
  [][ phase = "mid" /\ at' = "centre" /\ Controls("x")
        => servo'["y"] = servo["y"] ]_vars

\* A host that sends two carriage returns at a time gets a prompt, however
\* they meet the looks at the UART.
PromptReturns == []<>(phase \in {"read", "lock"})

\* The inductive invariant behind FrameRestored, MemoryReturned and
\* StillAtCentre: where a loop may have another channel or half a window;
\* what it holds of the heap; which bounds and bins make it forget; and
\* numbers of characters and commands that are those of commands sent.
Looping == phase \in {"frame", "row", "mid", "end"}

FrameInv ==
  /\ old = "ALL"
  /\ ~Looping => window # "half" /\ (coi = "ALL" \/ (phase = "begin" /\ Job = "send"))
  /\ Looping => /\ ~prompted
                /\ coi = "ALL" \/ Job \in {"diff", "load", "send"}
                /\ window = "half" => Window /\ Job = "mean"

HeapInv == Looping => heap >= Blocks

Forgetful == \E i \in DOMAIN done : sent[done[i]].arg \in {"inverted", "many"}
Tidy == /\ settings.HC # "many" /\ settings.ST # "inverted"
        /\ heap = IF Looping THEN Blocks ELSE 0
MemoryInv == Forgetful \/ Tidy

UpTo(s, n) == \A i \in DOMAIN s : s[i].n <= n
OriginInv ==
  /\ UpTo(fifo, Len(sent)) /\ UpTo(line, Len(sent))
  /\ \A i \in DOMAIN done : done[i] \in 1 .. Len(sent)
  /\ phase = "exec" => cmd \in 1 .. Len(sent)

IInv == TypeOK /\ FrameInv /\ HeapInv /\ MemoryInv /\ OriginInv
=============================================================================
