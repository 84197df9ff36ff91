------------------------------- MODULE Motors -------------------------------
(***************************************************************************)
(* The joystick loop of Burt/Burt/Program.cs and the motor controller on   *)
(* its second serial port.  The program samples the joystick and sends one *)
(* command per wheel, each when it has read the prompt "> " or nothing for *)
(* the time-out of the port.  The five bytes of a command are one static   *)
(* buffer and so is the array replies are read into.                       *)
(*                                                                         *)
(* The controller is external.  As the program uses it, it reads a line up *)
(* to a carriage return, motor, direction and speed (high byte, low byte;  *)
(* no low byte for 0), answers and prompts.  It may be slow.  The line to  *)
(* it may lose a byte.                                                     *)
(***************************************************************************)
EXTENDS Integers, Sequences, SequencesExt

CONSTANTS Demands,   \* what the joystick asks of the wheels
          Answer,    \* what the controller says before it prompts
          ReplyMax,  \* size of rx_byte
          LineMax,   \* bound on the bytes on their way to the controller
          MaxLost    \* bound on the bytes lost there

CR == 13
Prompt == <<62, 32>>                  \* "> "
Wheels == {49, 50}                    \* '1', '2'
Forward == 102                        \* 'f'
Backward == 114                        \* 'r'
Stop == [dir |-> Forward, speed |-> 0]
Speed == 0 .. 32767                   \* a command's, a short
TwoBytes == 65535                     \* the largest number in two bytes
AnySpeed == 0 .. TwoBytes             \* a speed as the controller reads it
Command == [dir : {Forward, Backward}, speed : Speed]
Motion == [dir : {Forward, Backward}, speed : AnySpeed]

ASSUME DemandsAssumption == Demands \subseteq [Wheels -> Command]
ASSUME SizesAssumption ==
  /\ ReplyMax \in Nat \ {0} /\ LineMax \in Nat \ (0 .. 4) /\ MaxLost \in Nat
ASSUME AnswerAssumption == Answer \in Seq(0 .. 255)

VARIABLES
  stick,     \* what the joystick asks for now
  sample,    \* what the program read from it
  pc,        \* what the program does next
  wheel,     \* the wheel it commands
  tx_data, rx_byte,  \* the buffers; of rx_byte its first byte
  up, down,  \* bytes on their way to the controller and from it
  line, text,        \* what the controller has read and has to print
  wheels,    \* what it makes the wheels do
  issued,    \* the commands constructed for a wheel so far
  lost       \* number of bytes lost

program == <<sample, pc, wheel, tx_data, rx_byte, issued>>
controller == <<line, text, wheels>>
vars == <<stick, sample, pc, wheel, tx_data, rx_byte, up, down, line, text,
          wheels, issued, lost>>

Byte == 0 .. 255

TypeOK ==
  /\ stick \in Demands /\ sample \in Demands
  /\ pc \in {"sample", "construct", "poll", "write", "reply"}
  /\ wheel \in Wheels
  /\ tx_data \in [1 .. 5 -> Byte] /\ rx_byte \in Byte
  /\ up \in Seq(Byte) /\ Len(up) <= LineMax
  /\ \A s \in {down, line, text} : s \in Seq(Byte)
  /\ wheels \in [Wheels -> Motion]
  /\ issued \in [Wheels -> SUBSET Command]
  /\ lost \in 0 .. MaxLost

Init ==
  /\ stick \in Demands /\ sample = stick
  /\ pc = "sample" /\ wheel = 49
  /\ tx_data = <<0, 0, 0, 0, 0>> /\ rx_byte = 0
  /\ up = << >> /\ down = << >>
  /\ line = << >> /\ text = Prompt
  /\ wheels = [w \in Wheels |-> Stop]
  /\ issued = [w \in Wheels |-> {Stop}]
  /\ lost = 0
-----------------------------------------------------------------------------
(* The program                                                             *)

\* One round of Test_Nunchuck: the joystick is read, the wheels follow.
Sample ==
  /\ pc = "sample"
  /\ sample' = stick
  /\ pc' = "construct" /\ wheel' = 49
  /\ UNCHANGED <<stick, tx_data, rx_byte, up, down, controller, issued, lost>>

\* mutant: the low byte first
BytesSwapped(data, w, c) ==
  LET set == <<w, c.dir, c.speed % 256, c.speed \div 256, data[5]>>
  IN  IF c.speed = 0 THEN [set EXCEPT ![4] = CR] ELSE [set EXCEPT ![5] = CR]

\* ConstructMotorCommand over the buffer as the command before left it.
Bytes(data, w, c) ==
  LET set == <<w, c.dir, c.speed \div 256, c.speed % 256, data[5]>>
  IN  IF c.speed = 0 THEN [set EXCEPT ![4] = CR] ELSE [set EXCEPT ![5] = CR]

Construct ==
  /\ pc = "construct"
  /\ tx_data' = Bytes(tx_data, wheel, sample[wheel])
  /\ issued' = [issued EXCEPT ![wheel] = @ \cup {sample[wheel]}]
  /\ pc' = "poll"
  /\ UNCHANGED <<stick, sample, wheel, rx_byte, up, down, controller, lost>>

\* One round of the loop of MC_WriteCommand that reads a byte.
PollByte ==
  /\ pc = "poll" /\ down # << >>
  /\ rx_byte' = Head(down) /\ down' = Tail(down)
  /\ pc' = IF <<rx_byte, rx_byte'>> = Prompt THEN "write" ELSE "poll"
  /\ UNCHANGED <<stick, sample, wheel, tx_data, up, controller, issued, lost>>

\* mutant: the prompt is awaited for ever
PollTimeoutWaits ==
  /\ pc = "poll" /\ down = << >>
  /\ UNCHANGED vars

\* One that times out.
PollTimeout ==
  /\ pc = "poll" /\ down = << >>
  /\ pc' = "write"
  /\ UNCHANGED <<stick, sample, wheel, tx_data, rx_byte, up, down, controller,
                 issued, lost>>

Write ==
  /\ pc = "write" /\ Len(up) + 5 <= LineMax
  /\ up' = up \o tx_data
  /\ pc' = "reply"
  /\ UNCHANGED <<stick, sample, wheel, tx_data, rx_byte, down, controller,
                 issued, lost>>

\* What has come when the array is full or the time is over.  Then the next
\* wheel or the next sample.
Reply ==
  /\ pc = "reply"
  /\ LET n == IF Len(down) < ReplyMax THEN Len(down) ELSE ReplyMax IN
       /\ rx_byte' = IF n = 0 THEN rx_byte ELSE Head(down)
       /\ down' = SubSeq(down, n + 1, Len(down))
  /\ IF wheel = 49 THEN wheel' = 50 /\ pc' = "construct"
     ELSE pc' = "sample" /\ UNCHANGED wheel
  /\ UNCHANGED <<stick, sample, tx_data, up, controller, issued, lost>>

Program == Sample \/ Construct \/ PollByte \/ PollTimeout \/ Write \/ Reply
-----------------------------------------------------------------------------
(* The controller, the joystick and the line                               *)

\* The command of a line, as the program means it.
Obeyed(l) ==
  IF Len(l) \in {3, 4} /\ l[1] \in Wheels /\ l[2] \in {Forward, Backward}
  THEN [wheels EXCEPT ![l[1]] =
          [dir |-> l[2], speed |-> 256 * l[3] + IF Len(l) = 4 THEN l[4] ELSE 0]]
  ELSE wheels

CtlRead ==
  /\ up # << >> /\ text = << >>
  /\ up' = Tail(up)
  /\ IF Head(up) = CR
     THEN /\ wheels' = Obeyed(line)
          /\ line' = << >> /\ text' = Answer \o Prompt
     ELSE line' = Append(line, Head(up)) /\ UNCHANGED <<wheels, text>>
  /\ UNCHANGED <<stick, program, down, lost>>

CtlPrint ==
  /\ text # << >>
  /\ down' = Append(down, Head(text)) /\ text' = Tail(text)
  /\ UNCHANGED <<stick, program, up, line, wheels, lost>>

Move ==
  /\ \E d \in Demands : d # stick /\ stick' = d
  /\ UNCHANGED <<program, up, down, controller, lost>>

Lose ==
  /\ lost < MaxLost
  /\ \E i \in DOMAIN up : up' = RemoveAt(up, i)
  /\ lost' = lost + 1
  /\ UNCHANGED <<stick, program, down, controller>>

Next == Program \/ CtlRead \/ CtlPrint \/ Move \/ Lose

\* The program never waits without a time-out and the controller goes on.
Spec == Init /\ [][Next]_vars
             /\ WF_vars(Program) /\ WF_vars(CtlRead) /\ WF_vars(CtlPrint)
-----------------------------------------------------------------------------
(* Properties                                                              *)

\* What a command tells its wheel.  A low byte of 13 is the carriage return
\* itself: the line ends before it and the wheel hears the high byte alone,
\* of 269 only 256 and of 13 nothing but 0.
Heard(c) ==
  [c EXCEPT !.speed = IF c.speed % 256 = CR THEN 256 * (c.speed \div 256) ELSE c.speed]

\* While no byte is lost a wheel does only what one of its commands tells
\* it: bytes of two commands never make a third.
OnlyIssued ==
  lost = 0 => \A w \in Wheels : wheels[w] \in {Heard(c) : c \in issued[w]}

\* The byte that speed 0 leaves over at the end of the buffer is a carriage
\* return as soon as any wheel has been asked to move: from then on every
\* command that is sent ends its line.
LinesEnd ==
  pc = "write" /\ (\E w \in Wheels : \E c \in issued[w] : c.speed # 0)
    => tx_data[5] = CR

\* The controller gets whole commands, each on a line of its own.
CommandsWhole == TypeOK /\ OnlyIssued /\ LinesEnd

\* With the joystick held still each wheel does in the end what the command
\* for it tells it, whatever prompts were missed and bytes lost before.  That
\* is what was asked of it but for the speeds with a low byte of 13.  In
\* particular, let go, the joystick stops the robot.  A high byte of 13 (a
\* speed from 3328 on, more than the joystick asks for) leaves a line without
\* a speed, which tells the wheel nothing.
Follows ==
  \A d \in Demands : <>[](stick = d) =>
     <>[](\A w \in Wheels : d[w].speed \div 256 # CR =>
            /\ wheels[w].speed = Heard(d[w]).speed
            /\ d[w].speed # 0 => wheels[w].dir = d[w].dir)
=============================================================================
