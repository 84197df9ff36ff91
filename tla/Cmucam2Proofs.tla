--------------------------- MODULE Cmucam2Proofs ---------------------------
(***************************************************************************)
(* Proofs about Cmucam2: for every set of commands, every UART and every   *)
(* number of rows, a command that ends leaves the frame and the memory as  *)
(* it found them, commands are carried out in their turn, and the servos   *)
(* keep still for an object at the centre.                                 *)
(***************************************************************************)
EXTENDS Cmucam2, SequenceTheorems, TLAPS

LEMMA DefaultTyped ==
  /\ Default \in [SettingNames -> Arguments]
  /\ Default.RM = "0" /\ Default.ST = "ordered" /\ Default.DC = "1" /\ Default.HC = "few"
<1>1. {"0", "1", "ordered", "few", "none"} \subseteq Arguments
  BY DEF Arguments
<1>2. QED
  BY <1>1 DEF Default, SettingNames

(* Setting one servo mask changes no other setting. *)
LEMMA MaskTyped ==
  ASSUME NEW a \in Arguments, NEW new, new = [Default EXCEPT !.SM = a]
  PROVE  /\ new \in [SettingNames -> Arguments]
         /\ new.RM = "0" /\ new.ST = "ordered" /\ new.DC = "1" /\ new.HC = "few"
BY DefaultTyped DEF SettingNames

LEMMA InitIInv == Init => IInv
<1>0. SUFFICES ASSUME Init PROVE IInv
  OBVIOUS
<1>1. /\ settings \in [SettingNames -> Arguments]
      /\ settings.RM = "0" /\ settings.ST = "ordered" /\ settings.DC = "1"
      /\ settings.HC = "few"
  <2>1. PICK a \in {"xy", "none"} : settings = [Default EXCEPT !.SM = a]
    BY <1>0, Zenon DEF Init
  <2>2. a \in Arguments
    BY DEF Arguments
  <2>3. QED
    BY <2>1, <2>2, MaskTyped
<1>3. SERVO_MID \in SERVO_MIN .. SERVO_MAX /\ 0 \in -ServoStep .. ServoStep
  BY SizesAssumption DEF SERVO_MID, SERVO_MIN
<1>4. TypeOK
  <2>1. servo \in [{"x", "y"} -> SERVO_MIN .. SERVO_MAX]
    BY <1>0, <1>3 DEF Init
  <2>2. /\ jobs \in Seq(Jobs) /\ line \in Seq(Character) /\ fifo \in Seq(Character)
        /\ sent \in Seq(Commands) /\ done \in Seq(Nat)
        /\ Len(fifo) = 0 /\ Len(sent) = 0
    BY <1>0 DEF Init
  <2>3. settings.RM \in {"0", "4"} /\ settings.ST \in Bounds /\ settings.DC \in Channels
    BY <1>1 DEF Bounds, Channels
  <2>4. /\ coi \in Channels /\ old \in Channels /\ window \in {"full", "half", "set"}
        /\ at \in Places \cup {"none"}
        /\ phase \in {"lock", "prompt", "read", "exec", "begin", "frame", "row", "mid", "end"}
    BY <1>0 DEF Init, Channels
  <2>5. /\ t_step \in -ServoStep .. ServoStep /\ heap \in Nat /\ row \in 0 .. Rows /\ cmd \in Nat
        /\ Len(fifo) <= FifoLen /\ Len(sent) <= MaxCmds
    BY <1>0, <1>3, <2>2, SizesAssumption DEF Init
  <2>6. ahead \subseteq 1 .. MaxCmds /\ prompted \in BOOLEAN /\ demo \in BOOLEAN
    BY <1>0 DEF Init
  <2>7. phase \in {"lock", "prompt"}
    BY <1>0 DEF Init
  <2>8. QED
    BY <1>1, <2>1, <2>2, <2>3, <2>4, <2>5, <2>6, <2>7 DEF TypeOK, SettingsOK, FrameOK, ServosOK, PlaceOK, HostOK
<1>5. ~Looping
  BY <1>0 DEF Init, Looping
<1>6. FrameInv /\ HeapInv /\ OriginInv
  BY <1>0, <1>5 DEF Init, FrameInv, HeapInv, OriginInv, UpTo
<1>7. MemoryInv
  BY <1>0, <1>1, <1>5 DEF Init, MemoryInv, Tidy
<1>8. QED
  BY <1>4, <1>6, <1>7 DEF IInv

LEMMA CommandsTyped ==
  ASSUME NEW c \in Commands
  PROVE  /\ c.name \in CommandNames /\ c.arg \in Arguments
         /\ c.name = "RM" => c.arg \in {"0", "4"}
         /\ c.name = "ST" => c.arg \in Bounds
         /\ c.name = "DC" => c.arg \in Channels
BY CommandsAssumption

(* The command carried out is one that was sent. *)
LEMMA NowIsCommand ==
  ASSUME HostOK, OriginInv, phase = "exec"
  PROVE  Now \in Commands
BY DEF HostOK, OriginInv, Now

(* The steps of a loop: they leave the settings alone, but for the bounds.   *)
LEMMA LoopSettings ==
  ASSUME Begin \/ Frame \/ Row \/ Mid \/ End
  PROVE  settings' = settings \/ settings' = [settings EXCEPT !.ST = "ordered"]
<1>1. Next1 => settings' = settings \/ settings' = [settings EXCEPT !.ST = "ordered"]
  BY DEF Next1
<1>2. Leave => Next1
  BY DEF Leave
<1>3. CASE Begin
  BY <1>1, <1>3, Zenon DEF Begin
<1>4. CASE Frame
  BY <1>4 DEF Frame
<1>5. CASE Row
  BY <1>1, <1>2, <1>5, Zenon DEF Row, loopVars
<1>6. CASE Mid
  BY <1>1, <1>2, <1>6, Zenon DEF Mid, loopVars
<1>7. CASE End
  BY <1>1, <1>2, <1>7, Zenon DEF End, Loop, loopVars
<1>8. QED
  BY <1>3, <1>4, <1>5, <1>6, <1>7

LEMMA LoopPhase ==
  ASSUME Begin \/ Frame \/ Row \/ Mid \/ End
  PROVE  phase' \in {"begin", "prompt", "frame", "row", "mid", "end"}
<1>1. Next1 => phase' \in {"begin", "prompt"}
  BY DEF Next1
<1>2. Leave => Next1
  BY DEF Leave
<1>3. QED
  BY <1>1, <1>2, Zenon DEF Begin, Frame, Row, Mid, End, Loop, Running

(* Only commands of their own, RS, TC and the end of TW's mean set a setting. *)
LEMMA SettingsStep == IInv /\ [Next]_vars => SettingsOK'
<1>0. SUFFICES ASSUME IInv, [Next]_vars PROVE SettingsOK'
  OBVIOUS
<1>1. SettingsOK /\ (phase = "exec" => Now \in Commands)
  BY <1>0, NowIsCommand DEF IInv, TypeOK
<1>2. CASE UNCHANGED settings
  BY <1>1, <1>2 DEF SettingsOK
<1>3. CASE SetSetting
  <2>1. settings' = [settings EXCEPT ![Now.name] = Now.arg] /\ Now.name \in SettingNames
    BY <1>3 DEF SetSetting, Exec
  <2>2. Now \in Commands
    BY <1>1, <1>3 DEF SetSetting, Exec
  <2>3. QED
    BY <1>1, <2>1, <2>2, CommandsTyped DEF SettingsOK, SettingNames
<1>4. CASE Reset
  <2>1. settings' = [Default EXCEPT !.SM = settings.SM] /\ settings.SM \in Arguments
    BY <1>1, <1>4 DEF Reset, SettingsOK, SettingNames
  <2>2. QED
    BY <2>1, MaskTyped DEF SettingsOK, Bounds, Channels
<1>5. CASE Start
  <2>1. PICK b \in Bounds : settings' = [settings EXCEPT !.ST = b]
    BY <1>1, <1>5 DEF Start, SettingsOK
  <2>2. b \in Arguments
    BY DEF Arguments, Bounds
  <2>3. QED
    BY <1>1, <2>1, <2>2 DEF SettingsOK, SettingNames
<1>6. CASE Begin \/ Frame \/ Row \/ Mid \/ End
  BY <1>1, <1>2, <1>6, LoopSettings DEF SettingsOK, SettingNames, Bounds, Arguments
<1>7. CASE SendCommand \/ SendStop \/ Lock \/ Prompt \/ GetCommand \/ Refuse \/ SetWindow
            \/ SetResolution \/ UNCHANGED vars
  BY <1>2, <1>7, Zenon DEF SendCommand, SendStop, Lock, Prompt, GetCommand, cmucam2_get_command,
       cmucam2_get_command_raw, Read, Refuse, SetWindow, SetResolution, vars
<1>8. QED
  BY <1>0, <1>3, <1>4, <1>5, <1>6, <1>7, Zenon DEF Next, Camera, Execute

(* What a loop does to the channel, the window and the heap on its way out.  *)
LEMMA LeaveEffect ==
  ASSUME IInv, Looping, Leave
  PROVE  /\ old' = "ALL" /\ coi' = "ALL" /\ window' \in {"full", "set"}
         /\ ~Looping' /\ heap' = heap - Blocks /\ heap' \in Nat
<1>1. /\ old = "ALL" /\ heap >= Blocks /\ heap \in Nat
      /\ coi = "ALL" \/ Job \in {"diff", "load", "send"}
      /\ window \in {"full", "half", "set"} /\ (window = "half" => Window /\ Job = "mean")
  BY DEF IInv, FrameInv, HeapInv, TypeOK, FrameOK, PlaceOK
<1>2. Next1 /\ heap' = heap - Blocks /\ coi' = IF Job \in {"diff", "load", "send"} THEN old ELSE coi
  BY DEF Leave
<1>3. coi' = "ALL"
  BY <1>1, <1>2
<1>4. old' = "ALL" /\ window' \in {"full", "set"}
  BY <1>1, <1>2, Zenon DEF Next1
<1>5. phase' \in {"begin", "prompt"}
  BY <1>2 DEF Next1
<1>6. heap' \in Nat
  BY <1>1, <1>2 DEF Blocks
<1>7. QED
  BY <1>2, <1>3, <1>4, <1>5, <1>6 DEF Looping

(* A step of a loop either leaves it or leaves channel and window alone.     *)
LEMMA LoopStays ==
  ASSUME Frame \/ Row \/ Mid \/ End
  PROVE  /\ Looping
         /\ \/ Leave
            \/ /\ Looping' /\ prompted' = FALSE
               /\ UNCHANGED <<frameVars, settings, jobs, demo, heap, cmd, sent, done>>
<1>1. CASE Frame
  BY <1>1, Zenon DEF Frame, Running, Looping, frameVars
<1>2. CASE Row
  BY <1>2, Zenon DEF Row, Running, Looping, frameVars, loopVars
<1>3. CASE Mid
  BY <1>3, Zenon DEF Mid, Running, Looping, frameVars, loopVars
<1>4. CASE End
  BY <1>4, Zenon DEF End, Loop, Running, Looping, frameVars, loopVars
<1>5. QED
  BY <1>1, <1>2, <1>3, <1>4

(* The first step of a loop takes its buffers, or refuses and goes on.       *)
LEMMA BeginEffect ==
  ASSUME IInv, Begin
  PROVE  \/ /\ phase' = "frame" /\ ~prompted' /\ heap' = heap + Blocks
            /\ UNCHANGED <<settings, jobs, demo, cmd, sent, done>>
            /\ old' = "ALL" /\ coi' \in Channels
            /\ coi' = "ALL" \/ Job \in {"diff", "load", "send"}
            /\ window' \in {"full", "half", "set"} /\ (window' = "half" => Window /\ Job = "mean")
         \/ /\ settings.HC = "many" \/ settings.ST = "inverted"
            /\ phase' \in {"begin", "prompt"} /\ heap' = heap + 1
            /\ old' = "ALL" /\ coi' = "ALL" /\ window' \in {"full", "set"}
<1>1. /\ old = "ALL" /\ window \in {"full", "set"} /\ phase = "begin"
      /\ coi = "ALL" \/ Job = "send"
      /\ coi \in Channels /\ settings.DC \in Channels
  BY DEF IInv, FrameInv, Looping, TypeOK, FrameOK, SettingsOK, Begin, Running
<1>2. CASE /\ settings.HC = "many" \/ settings.ST = "inverted"
           /\ Job \in {"hist", "track"}
           /\ heap' = heap + 1 /\ Next1 /\ UNCHANGED coi
  <2>1. coi = "ALL"
    BY <1>1, <1>2
  <2>2. QED
    BY <1>1, <1>2, <2>1, Zenon DEF Next1
<1>3. CASE /\ heap' = heap + Blocks
           /\ old' = IF Job \in {"diff", "load"} THEN coi ELSE old
           /\ coi' = IF Job \in {"diff", "load"} THEN settings.DC ELSE coi
           /\ window' = IF Window /\ Job = "mean" THEN "half" ELSE window
           /\ phase' = "frame"
           /\ UNCHANGED <<settings, jobs, row, demo, at>>
           /\ Running("begin")
  BY <1>1, <1>3, Zenon DEF Running
<1>4. QED
  BY <1>2, <1>3, Zenon DEF Begin, Running

LEMMA FrameStep == IInv /\ [Next]_vars => FrameOK' /\ FrameInv'
<1>0. SUFFICES ASSUME IInv, [Next]_vars PROVE FrameOK' /\ FrameInv'
  OBVIOUS
<1>1. FrameOK /\ FrameInv
  BY <1>0 DEF IInv, TypeOK
<1> USE DEF FrameOK, FrameInv, Looping
<1>2. CASE Begin
  <2>1. (Job' = Job /\ Window' = Window) \/ phase' \in {"begin", "prompt"}
    BY <1>0, <1>2, BeginEffect DEF Job, Window, Now
  <2>2. QED
    BY <1>0, <1>2, <2>1, BeginEffect DEF Channels
<1>3. CASE Frame \/ Row \/ Mid \/ End
  <2>1. CASE Leave
    BY <1>0, <1>3, <2>1, LoopStays, LeaveEffect DEF Channels
  <2>2. CASE ~Leave
    BY <1>1, <1>3, <2>2, LoopStays DEF frameVars, Job, Window, Now
  <2>3. QED
    BY <2>1, <2>2
<1>4. CASE Start
  BY <1>1, <1>4 DEF Start, Exec, Loops, LoopNames, Job, Channels
<1>5. CASE SetResolution \/ Reset \/ SetWindow
  BY <1>1, <1>5 DEF SetResolution, Reset, SetWindow, Exec, Channels
<1>6. CASE SetSetting \/ Refuse \/ GetCommand \/ Prompt \/ Lock
  BY <1>1, <1>6, Zenon DEF SetSetting, Refuse, Exec, GetCommand, cmucam2_get_command,
     cmucam2_get_command_raw, Read, Prompt, Lock, frameVars
<1>7. CASE SendCommand \/ SendStop \/ UNCHANGED vars
  BY <1>1, <1>7 DEF SendCommand, SendStop, vars, frameVars, streamVars, hostVars, Job, Window, Now
<1>8. QED
  BY <1>0, <1>2, <1>3, <1>4, <1>5, <1>6, <1>7, Zenon DEF Next, Camera, Execute

LEMMA ClampedInRange ==
  ASSUME NEW p \in Int
  PROVE  /\ Clamped(p) \in SERVO_MIN .. SERVO_MAX
         /\ p \in SERVO_MIN .. SERVO_MAX => Clamped(p) = p
BY SizesAssumption DEF Clamped, SERVO_MIN

LEMMA MovedInRange ==
  ASSUME NEW place \in Places \ {"centre"}
  PROVE  Moved(place) \in -ServoStep .. ServoStep
BY SizesAssumption DEF Moved, Places

(* The servos take a step each and stay within their range.                  *)
LEMMA ServosEffect ==
  ASSUME ServosOK, NEW ax \in Places, NEW ay \in Places, Servos(ax, ay)
  PROVE  /\ servo' \in [{"x", "y"} -> SERVO_MIN .. SERVO_MAX]
         /\ t_step' \in -ServoStep .. ServoStep
         /\ ay = "centre" /\ Controls("x") => servo'["y"] = servo["y"]
<1> DEFINE sx == IF ax = "centre" THEN 0 ELSE Moved(ax)
           before == IF Controls("x") THEN 0 ELSE t_step
           sy == IF ay = "centre" THEN before ELSE Moved(ay)
<1>1. /\ sx \in -ServoStep .. ServoStep /\ before \in -ServoStep .. ServoStep
      /\ sy \in -ServoStep .. ServoStep
  BY MovedInRange, SizesAssumption DEF ServosOK
<1>2. /\ servo["x"] \in SERVO_MIN .. SERVO_MAX /\ servo["y"] \in SERVO_MIN .. SERVO_MAX
      /\ servo \in [{"x", "y"} -> SERVO_MIN .. SERVO_MAX]
  BY DEF ServosOK
<1>3. /\ servo["x"] - sx \in Int /\ servo["y"] - sy \in Int
  BY <1>1, <1>2, SizesAssumption DEF SERVO_MIN
<1>4. /\ servo' = [servo EXCEPT !["x"] = IF Controls("x") THEN Clamped(@ - sx) ELSE @,
                               !["y"] = IF Controls("y") THEN Clamped(@ - sy) ELSE @]
      /\ t_step' = IF Controls("y") THEN sy ELSE before
  BY DEF Servos
<1> HIDE DEF sx, before, sy
<1>5. /\ Clamped(servo["x"] - sx) \in SERVO_MIN .. SERVO_MAX
      /\ Clamped(servo["y"] - sy) \in SERVO_MIN .. SERVO_MAX
      /\ Clamped(servo["y"] - 0) = servo["y"]
  <2>1. servo["y"] - 0 = servo["y"] /\ servo["y"] \in Int
    BY <1>2, SizesAssumption DEF SERVO_MIN
  <2>2. QED
    BY <1>2, <1>3, <2>1, ClampedInRange
<1>6. ay = "centre" /\ Controls("x") => sy = 0
  BY DEF sy, before
<1>7. QED
  BY <1>1, <1>2, <1>4, <1>5, <1>6

(* Of the loops only the step before a packet moves the servos.              *)
LEMMA LoopServos ==
  ASSUME ServosOK, Begin \/ Frame \/ Row \/ Mid \/ End
  PROVE  /\ ServosOK'
         /\ Mid /\ at' = "centre" /\ Controls("x") => servo'["y"] = servo["y"]
<1>1. Next1 => t_step' = 0 /\ at' = "none"
  BY DEF Next1
<1>2. Leave => Next1
  BY DEF Leave
<1>3. 0 \in -ServoStep .. ServoStep /\ {-ServoStep, 0, ServoStep} \subseteq -ServoStep .. ServoStep
  BY SizesAssumption
<1>4. CASE /\ servo' = servo
           /\ t_step' = t_step \/ t_step' \in {-ServoStep, 0, ServoStep}
           /\ at' \in {at, "none"}
  BY <1>3, <1>4 DEF ServosOK
<1>5. CASE Begin
  BY <1>1, <1>4, <1>5, Zenon DEF Begin, Running, Mid, frameVars
<1>6. CASE Frame \/ Row
  BY <1>1, <1>2, <1>4, <1>6, Zenon DEF Frame, Row, loopVars
<1>7. CASE Mid
  <2>1. CASE \E ax, ay \in Places : Servos(ax, ay) /\ at' = ay
    BY <2>1, ServosEffect DEF ServosOK
  <2>2. CASE /\ servo' = servo
             /\ t_step' = t_step \/ t_step' \in {-ServoStep, 0, ServoStep}
             /\ at' \in {at, "none"}
    BY <1>4, <2>2
  <2>3. QED
    BY <1>1, <1>2, <1>7, <2>1, <2>2, Zenon DEF Mid, loopVars
<1>8. CASE End
  BY <1>1, <1>2, <1>4, <1>8, Zenon DEF End, Loop, loopVars
<1>9. QED
  BY <1>5, <1>6, <1>7, <1>8

LEMMA ServosStep == IInv /\ [Next]_vars => ServosOK'
<1>0. SUFFICES ASSUME IInv, [Next]_vars PROVE ServosOK'
  OBVIOUS
<1>1. ServosOK
  BY <1>0 DEF IInv, TypeOK
<1>2. CASE Begin \/ Frame \/ Row \/ Mid \/ End
  BY <1>1, <1>2, LoopServos
<1>3. CASE Reset
  <2>1. SERVO_MID \in SERVO_MIN .. SERVO_MAX
    BY SizesAssumption DEF SERVO_MID, SERVO_MIN
  <2>2. QED
    BY <1>1, <1>3, <2>1 DEF Reset, ServosOK
<1>4. CASE UNCHANGED <<servo, t_step, at>>
  BY <1>1, <1>4 DEF ServosOK
<1>5. QED
  BY <1>0, <1>2, <1>3, <1>4, Zenon DEF Next, Camera, Execute, SendCommand, SendStop, Lock, Prompt,
     GetCommand, cmucam2_get_command, cmucam2_get_command_raw, Read, SetSetting, Refuse, SetWindow,
     SetResolution, Start, streamVars, vars

(* The loop that ends leaves the rest of them.                               *)
LEMMA NextJobs ==
  ASSUME PlaceOK, phase \in {"begin", "frame", "row", "mid", "end"}, Next1
  PROVE  /\ jobs' \in Seq(Jobs) /\ phase' \in {"begin", "prompt"} /\ row' \in 0 .. Rows
         /\ phase' = "begin" => jobs' # << >>
         /\ demo' \in BOOLEAN
<1>1. jobs \in Seq(Jobs) /\ jobs # << >>
  BY DEF PlaceOK
<1>2. jobs' = Tail(jobs) /\ phase' = (IF Len(jobs) > 1 THEN "begin" ELSE "prompt") /\ row' = 0
      /\ demo' = (demo /\ Job # "track")
  BY DEF Next1
<1>3. jobs' \in Seq(Jobs) /\ Len(jobs') = Len(jobs) - 1
  BY <1>1, <1>2, HeadTailProperties
<1>4. phase' = "begin" => jobs' # << >>
  <2>1. phase' = "begin" => Len(jobs') > 0
    BY <1>1, <1>2, <1>3
  <2>2. Len(<< >>) = 0
    OBVIOUS
  <2>3. QED
    BY <2>1, <2>2
<1>5. QED
  BY <1>2, <1>3, <1>4, SizesAssumption

LEMMA LoopPlace ==
  ASSUME IInv, Begin \/ Frame \/ Row \/ Mid \/ End
  PROVE  PlaceOK'
<1>1. PlaceOK /\ phase \in {"begin", "frame", "row", "mid", "end"}
  BY DEF IInv, TypeOK, Begin, Frame, Row, Mid, End, Running
<1>2. Next1 => /\ jobs' \in Seq(Jobs) /\ phase' \in {"begin", "prompt"} /\ row' \in 0 .. Rows
               /\ phase' = "begin" => jobs' # << >>
               /\ demo' \in BOOLEAN
  BY <1>1, NextJobs
<1>3. Looping /\ Leave => Next1 /\ heap' \in Nat
  BY LeaveEffect DEF Leave
<1>4. heap \in Nat /\ heap + 1 \in Nat /\ heap + Blocks \in Nat
  BY <1>1 DEF PlaceOK, Blocks
<1>5. CASE Next1 /\ heap' \in Nat
  BY <1>2, <1>5 DEF PlaceOK
<1>6. CASE /\ phase' \in {"frame", "row", "mid", "end"} /\ UNCHANGED <<jobs, demo>>
           /\ heap' \in Nat /\ row' \in 0 .. Rows
  BY <1>1, <1>6 DEF PlaceOK
<1>7. CASE Begin
  BY <1>1, <1>4, <1>5, <1>6, <1>7, Zenon DEF Begin, PlaceOK
<1>8. row \in 0 .. Rows /\ (row < Rows => row + 1 \in 0 .. Rows) /\ 0 \in 0 .. Rows
  BY <1>1, SizesAssumption DEF PlaceOK
<1>9. CASE Frame
  BY <1>1, <1>6, <1>8, <1>9, Zenon DEF Frame, PlaceOK
<1>10. CASE Row
  BY <1>1, <1>3, <1>5, <1>6, <1>8, <1>10, Zenon DEF Row, Running, Looping, PlaceOK, loopVars
<1>11. CASE Mid
  BY <1>1, <1>3, <1>5, <1>6, <1>8, <1>11, Zenon DEF Mid, Running, Looping, PlaceOK, loopVars
<1>12. CASE End
  BY <1>1, <1>3, <1>5, <1>6, <1>8, <1>12, Zenon DEF End, Loop, Running, Looping, PlaceOK, loopVars
<1>13. QED
  BY <1>7, <1>9, <1>10, <1>11, <1>12

LEMMA PlaceStep == IInv /\ [Next]_vars => PlaceOK'
<1>0. SUFFICES ASSUME IInv, [Next]_vars PROVE PlaceOK'
  OBVIOUS
<1>1. PlaceOK
  BY <1>0 DEF IInv, TypeOK
<1>2. CASE Begin \/ Frame \/ Row \/ Mid \/ End
  BY <1>0, <1>2, LoopPlace
<1>3. CASE Start
  <2>1. jobs' \in Seq(Jobs) /\ jobs' # << >>
    <3>1. jobs' = Loops(Now.name) /\ Now.name \in LoopNames
      BY <1>3 DEF Start, Exec
    <3>2. PICK s \in Jobs : jobs' = <<s>> \/ jobs' = <<"mean", "track">>
      BY <3>1 DEF Loops, LoopNames, Jobs
    <3>3. <<s>> \in Seq(Jobs) /\ <<s>> # << >>
      OBVIOUS
    <3>4. <<"mean", "track">> \in Seq(Jobs) /\ <<"mean", "track">> # << >>
      BY DEF Jobs
    <3>5. QED
      BY <3>2, <3>3, <3>4
  <2>2. QED
    BY <1>1, <1>3, <2>1 DEF Start, PlaceOK, Exec
<1>4. CASE Prompt
  <2>1. <<"mean", "track">> \in Seq(Jobs) /\ <<"mean", "track">> # << >>
    BY DEF Jobs
  <2>2. QED
    BY <1>1, <1>4, <2>1 DEF Prompt, PlaceOK
<1>5. CASE SetSetting \/ Refuse \/ SetWindow \/ SetResolution \/ Reset
  BY <1>1, <1>5 DEF SetSetting, Refuse, SetWindow, SetResolution, Reset, Exec, PlaceOK, streamVars
<1>6. CASE GetCommand \/ Lock
  BY <1>1, <1>6 DEF GetCommand, cmucam2_get_command, cmucam2_get_command_raw, Read, Lock, PlaceOK,
     streamVars
<1>7. CASE SendCommand \/ SendStop \/ UNCHANGED vars
  BY <1>1, <1>7 DEF SendCommand, SendStop, vars, PlaceOK, streamVars
<1>8. QED
  BY <1>0, <1>2, <1>3, <1>4, <1>5, <1>6, <1>7, Zenon DEF Next, Camera, Execute

LEMMA HeapStep == IInv /\ [Next]_vars => HeapInv'
<1>0. SUFFICES ASSUME IInv, [Next]_vars, Looping' PROVE heap' >= Blocks'
  BY DEF HeapInv
<1>1. heap \in Nat /\ Blocks \in Nat
  BY <1>0 DEF IInv, TypeOK, PlaceOK, Blocks
<1>2. CASE Begin
  <2>1. heap' = heap + Blocks /\ jobs' = jobs
    BY <1>0, <1>2, BeginEffect DEF Looping
  <2>2. QED
    BY <1>1, <2>1 DEF Blocks, Job
<1>3. CASE Frame \/ Row \/ Mid \/ End
  <2>1. Looping /\ heap' = heap /\ jobs' = jobs
    BY <1>0, <1>3, LoopStays, LeaveEffect
  <2>2. QED
    BY <1>0, <2>1 DEF IInv, HeapInv, Blocks, Job
<1>4. CASE Looping /\ UNCHANGED <<heap, jobs>>
  BY <1>0, <1>4 DEF IInv, HeapInv, Blocks, Job
<1>5. phase' # phase => phase' \notin {"lock", "prompt", "read", "exec", "begin"}
  BY <1>0 DEF Looping
<1>6. CASE SendCommand \/ SendStop \/ UNCHANGED vars
  BY <1>0, <1>4, <1>6, Zenon DEF SendCommand, SendStop, vars, streamVars, Looping
<1>7. CASE Execute \/ GetCommand \/ Prompt \/ Lock
  <2>1. phase' \in {"lock", "prompt", "read", "exec", "begin"}
    BY <1>7 DEF Execute, SetSetting, Refuse, SetWindow, SetResolution, Reset, Start, Exec,
       GetCommand, cmucam2_get_command, cmucam2_get_command_raw, Read, Prompt, Lock
  <2>2. QED
    BY <1>0, <2>1 DEF Looping
<1>8. QED
  BY <1>0, <1>2, <1>3, <1>6, <1>7, Zenon DEF Next, Camera
-----------------------------------------------------------------------------
(* What the host sends and the program has carried out                     *)

LEMMA CharactersTyped ==
  ASSUME NEW n \in Nat
  PROVE  /\ Characters(n) \in Seq(Character)
         /\ \A i \in DOMAIN Characters(n) : Characters(n)[i].n \in {0, n}
<1> DEFINE P(k) == [n |-> n, part |-> k]
<1>1. P(1) \in Character /\ P(2) \in Character /\ P(3) \in Character /\ CR \in Character
  BY DEF Character, CR
<1>2. P(1).n = n /\ P(2).n = n /\ P(3).n = n /\ CR.n = 0
  BY DEF CR
<1>3. Characters(n) = <<P(1), P(2), P(3)>> \/ Characters(n) = <<P(1), P(2), CR>>
  BY DEF Characters
<1> HIDE DEF P
<1>4. CASE Characters(n) = <<P(1), P(2), P(3)>>
  BY <1>1, <1>2, <1>4
<1>5. CASE Characters(n) = <<P(1), P(2), CR>>
  BY <1>1, <1>2, <1>5
<1>6. QED
  BY <1>3, <1>4, <1>5

(* The UART keeps the first characters that fit, in their order.             *)
LEMMA ReceiveTyped ==
  ASSUME fifo \in Seq(Character), NEW s \in Seq(Character), Receive(s)
  PROVE  /\ fifo' \in Seq(Character) /\ Len(fifo') <= FifoLen
         /\ \A i \in DOMAIN fifo' :
              \/ i \in DOMAIN fifo /\ fifo'[i] = fifo[i]
              \/ i - Len(fifo) \in DOMAIN s /\ fifo'[i] = s[i - Len(fifo)]
<1> DEFINE all == fifo \o s
<1>1. /\ all \in Seq(Character) /\ Len(all) = Len(fifo) + Len(s)
      /\ \A i \in 1 .. Len(all) : all[i] = IF i <= Len(fifo) THEN fifo[i] ELSE s[i - Len(fifo)]
  BY ConcatProperties
<1>2. fifo' = IF Len(all) <= FifoLen THEN all ELSE SubSeq(all, 1, FifoLen)
  BY DEF Receive
<1> HIDE DEF all
<1>3. /\ fifo' \in Seq(Character) /\ Len(fifo') <= FifoLen /\ Len(fifo') <= Len(all)
      /\ \A i \in 1 .. Len(fifo') : fifo'[i] = all[i]
  BY <1>1, <1>2, SizesAssumption
<1>4. ASSUME NEW i \in 1 .. Len(fifo')
      PROVE  \/ i \in 1 .. Len(fifo) /\ fifo'[i] = fifo[i]
             \/ i - Len(fifo) \in 1 .. Len(s) /\ fifo'[i] = s[i - Len(fifo)]
  BY <1>1, <1>3, <1>4
<1>5. DOMAIN fifo = 1 .. Len(fifo) /\ DOMAIN fifo' = 1 .. Len(fifo') /\ DOMAIN s = 1 .. Len(s)
  BY <1>3
<1>6. QED
  BY <1>3, <1>4, <1>5

LEMMA UpToTail ==
  ASSUME NEW s \in Seq(Character), NEW n \in Nat, UpTo(s, n), s # << >>
  PROVE  /\ Tail(s) \in Seq(Character) /\ Len(Tail(s)) = Len(s) - 1 /\ UpTo(Tail(s), n)
         /\ Head(s) \in Character /\ Head(s).n <= n
BY HeadTailProperties DEF UpTo

LEMMA UpToAppend ==
  ASSUME NEW s \in Seq(Character), NEW n \in Nat, UpTo(s, n), NEW c \in Character, c.n <= n
  PROVE  Append(s, c) \in Seq(Character) /\ UpTo(Append(s, c), n)
BY AppendProperties DEF UpTo

LEMMA UpToMore ==
  ASSUME NEW s \in Seq(Character), NEW n \in Nat, UpTo(s, n)
  PROVE  UpTo(s, n + 1)
<1>1. ASSUME NEW i \in DOMAIN s PROVE s[i].n <= n + 1
  <2>1. s[i].n \in Nat /\ s[i].n <= n
    <3>1. s[i] \in Character
      BY <1>1
    <3>2. QED
      BY <1>1, <3>1 DEF UpTo, Character
  <2>2. QED
    BY <2>1
<1>2. QED
  BY <1>1 DEF UpTo

LEMMA SendHost ==
  ASSUME IInv, SendCommand
  PROVE  HostOK' /\ OriginInv'
<1>1. HostOK /\ OriginInv /\ Len(sent) \in Nat
  BY DEF IInv, TypeOK, HostOK
<1>2. PICK c \in Commands : sent' = Append(sent, c)
  BY DEF SendCommand
<1>3. sent' \in Seq(Commands) /\ Len(sent') = Len(sent) + 1 /\ Len(sent') <= MaxCmds
  BY <1>1, <1>2, SizesAssumption DEF SendCommand, HostOK
<1>4. /\ Characters(Len(sent')) \in Seq(Character)
      /\ \A i \in DOMAIN Characters(Len(sent')) : Characters(Len(sent'))[i].n \in {0, Len(sent')}
  BY <1>1, <1>3, CharactersTyped
<1>5. Receive(Characters(Len(sent')))
  BY DEF SendCommand
<1>6. /\ fifo' \in Seq(Character) /\ Len(fifo') <= FifoLen
      /\ \A i \in DOMAIN fifo' :
           \/ i \in DOMAIN fifo /\ fifo'[i] = fifo[i]
           \/ fifo'[i].n \in {0, Len(sent')}
  BY <1>1, <1>4, <1>5, ReceiveTyped DEF HostOK
<1>7. UpTo(fifo, Len(sent')) /\ UpTo(line, Len(sent'))
  BY <1>1, <1>3, UpToMore DEF OriginInv, HostOK
<1>8. UpTo(fifo', Len(sent'))
  BY <1>1, <1>3, <1>6, <1>7 DEF UpTo
<1>9. ahead' \subseteq 1 .. MaxCmds
  <2>1. Len(sent') \in 1 .. MaxCmds /\ ahead \subseteq 1 .. MaxCmds
    BY <1>1, <1>3, SizesAssumption DEF HostOK
  <2>2. ahead' = ahead \/ ahead' = ahead \cup {Len(sent')}
    BY Zenon DEF SendCommand
  <2>3. QED
    BY <2>1, <2>2
<1>10. UNCHANGED <<phase, line, cmd, done>> /\ prompted' = FALSE
  BY DEF SendCommand
<1>11. HostOK'
  BY <1>1, <1>3, <1>6, <1>9, <1>10 DEF HostOK
<1>12. OriginInv'
  BY <1>1, <1>3, <1>7, <1>8, <1>10 DEF OriginInv
<1>13. QED
  BY <1>11, <1>12

LEMMA StopHost ==
  ASSUME IInv, SendStop
  PROVE  HostOK' /\ OriginInv'
<1>1. HostOK /\ OriginInv /\ Len(sent) \in Nat
  BY DEF IInv, TypeOK, HostOK
<1> DEFINE stop == [i \in 1 .. StopCRs |-> CR]
<1>2. stop \in Seq(Character) /\ \A i \in DOMAIN stop : stop[i].n = 0
  BY SizesAssumption DEF CR, Character
<1>3. Receive(stop) /\ UNCHANGED <<hostVars, phase, line, cmd, done>>
  BY DEF SendStop
<1> HIDE DEF stop
<1>4. /\ fifo' \in Seq(Character) /\ Len(fifo') <= FifoLen
      /\ \A i \in DOMAIN fifo' :
           \/ i \in DOMAIN fifo /\ fifo'[i] = fifo[i]
           \/ fifo'[i].n = 0
  BY <1>1, <1>2, <1>3, ReceiveTyped DEF HostOK
<1>5. UpTo(fifo', Len(sent))
  BY <1>1, <1>4 DEF UpTo, OriginInv
<1>6. QED
  BY <1>1, <1>3, <1>4, <1>5 DEF HostOK, OriginInv, hostVars

(* A command that is read is one that was sent.                              *)
LEMMA ReadHost ==
  ASSUME IInv, GetCommand
  PROVE  HostOK' /\ OriginInv'
<1>1. HostOK /\ OriginInv /\ Len(sent) \in Nat
  BY DEF IInv, TypeOK, HostOK
<1>2. /\ fifo # << >> /\ fifo' = Tail(fifo)
      /\ UNCHANGED <<hostVars, done>>
  BY DEF GetCommand, cmucam2_get_command, cmucam2_get_command_raw, Read
<1>3. /\ fifo' \in Seq(Character) /\ Len(fifo') <= FifoLen /\ UpTo(fifo', Len(sent))
      /\ Head(fifo) \in Character /\ Head(fifo).n <= Len(sent)
  BY <1>1, <1>2, UpToTail, SizesAssumption DEF HostOK, OriginInv
<1> DEFINE l == Append(line, Head(fifo))
<1>4. l \in Seq(Character) /\ UpTo(l, Len(sent)) /\ line \in Seq(Character) /\ UpTo(line, Len(sent))
  BY <1>1, <1>3, UpToAppend DEF HostOK, OriginInv
<1>5. ASSUME NEW s \in Seq(Character), UpTo(s, Len(sent)), NEW k \in {2, 3}, IsCommand(s, k)
      PROVE  s[1].n \in 1 .. Len(sent)
  <2>1. s[1] \in Character /\ s[1].n # 0 /\ s[1].n <= Len(sent)
    BY <1>5 DEF IsCommand, UpTo
  <2>2. QED
    BY <1>1, <2>1 DEF Character
<1>6. /\ line' \in {l, << >>}
      /\ \/ phase' \in {"read", "prompt"} /\ cmd' = cmd
         \/ IsCommand(line, 2) /\ cmd' = line[1].n
         \/ IsCommand(l, 3) /\ cmd' = l[1].n
  <2>1. CASE cmucam2_get_command
    BY <2>1 DEF cmucam2_get_command, Read
  <2>2. CASE cmucam2_get_command_raw
    BY <2>2 DEF cmucam2_get_command_raw, Read
  <2>3. QED
    BY <2>1, <2>2 DEF GetCommand
<1> HIDE DEF l
<1>7. phase' = "exec" => cmd' \in 1 .. Len(sent)
  BY <1>4, <1>5, <1>6
<1>8. cmd' \in Nat
  BY <1>1, <1>4, <1>5, <1>6 DEF HostOK
<1>9. line' \in Seq(Character) /\ UpTo(line', Len(sent))
  <2>1. << >> \in Seq(Character) /\ UpTo(<< >>, Len(sent))
    BY DEF UpTo
  <2>2. QED
    BY <1>4, <1>6, <2>1
<1>10. QED
  BY <1>1, <1>2, <1>3, <1>7, <1>8, <1>9 DEF HostOK, OriginInv, hostVars

(* A command carried out joins those carried out before.                     *)
LEMMA ExecuteHost ==
  ASSUME IInv, Execute
  PROVE  HostOK' /\ OriginInv'
<1>1. HostOK /\ OriginInv /\ cmd \in 1 .. Len(sent)
  BY DEF IInv, TypeOK, OriginInv, Execute, SetSetting, Refuse, SetWindow, SetResolution, Reset, Start,
     Exec
<1>2. /\ done' = Append(done, cmd) /\ phase' \in {"prompt", "begin"}
      /\ UNCHANGED <<line, cmd, fifo, hostVars>>
  BY DEF Execute, SetSetting, Refuse, SetWindow, SetResolution, Reset, Start, Exec, Took
<1>3. done' \in Seq(Nat) /\ \A i \in DOMAIN done' : done'[i] \in 1 .. Len(sent)
  BY <1>1, <1>2, AppendProperties DEF HostOK, OriginInv
<1>4. QED
  BY <1>1, <1>2, <1>3 DEF HostOK, OriginInv, hostVars

(* A loop reads characters and forgets them.                                 *)
LEMMA LoopHost ==
  ASSUME IInv, Begin \/ Frame \/ Row \/ Mid \/ End
  PROVE  HostOK' /\ OriginInv'
<1>1. HostOK /\ OriginInv /\ Len(sent) \in Nat
  BY DEF IInv, TypeOK, HostOK
<1>2. prompted' = FALSE /\ UNCHANGED <<line, cmd, sent, ahead, done>>
  BY DEF Begin, Frame, Row, Mid, End, Running
<1>3. fifo' = fifo \/ (fifo # << >> /\ fifo' = Tail(fifo))
  BY Zenon DEF Begin, Frame, Row, Mid, End, Quiet, Hears, Stopped
<1>4. fifo' \in Seq(Character) /\ Len(fifo') <= FifoLen /\ UpTo(fifo', Len(sent))
  <2>1. fifo \in Seq(Character) /\ Len(fifo) <= FifoLen /\ UpTo(fifo, Len(sent))
    BY <1>1 DEF HostOK, OriginInv
  <2>2. CASE fifo # << >> /\ fifo' = Tail(fifo)
    BY <1>1, <2>1, <2>2, UpToTail, SizesAssumption
  <2>3. QED
    BY <1>3, <2>1, <2>2
<1>5. phase' # "exec"
  BY LoopPhase
<1>6. QED
  BY <1>1, <1>2, <1>4, <1>5 DEF HostOK, OriginInv

LEMMA HostStep == IInv /\ [Next]_vars => HostOK' /\ OriginInv'
<1>0. SUFFICES ASSUME IInv, [Next]_vars PROVE HostOK' /\ OriginInv'
  OBVIOUS
<1>1. HostOK /\ OriginInv
  BY <1>0 DEF IInv, TypeOK
<1>2. CASE Prompt \/ Lock
  BY <1>1, <1>2 DEF Prompt, Lock, HostOK, OriginInv, hostVars
<1>3. CASE UNCHANGED vars
  BY <1>1, <1>3 DEF vars, HostOK, OriginInv, hostVars
<1>4. QED
  BY <1>0, <1>2, <1>3, SendHost, StopHost, ReadHost, ExecuteHost, LoopHost, Zenon DEF Next, Camera
-----------------------------------------------------------------------------
(* The memory                                                              *)

(* Nothing that was sent or carried out is taken back.                       *)
LEMMA ForgetfulKept ==
  ASSUME HostOK, OriginInv, Forgetful,
         sent' = sent \/ (\E c \in Commands : sent' = Append(sent, c)),
         done' = done \/ done' = Append(done, cmd)
  PROVE  Forgetful'
<1>1. PICK i \in DOMAIN done : sent[done[i]].arg \in {"inverted", "many"}
  BY DEF Forgetful
<1>2. i \in DOMAIN done' /\ done'[i] = done[i] /\ done[i] \in 1 .. Len(sent)
  <2>1. done \in Seq(Nat) /\ cmd \in Nat /\ i \in 1 .. Len(done)
    BY <1>1 DEF HostOK
  <2>2. /\ Len(Append(done, cmd)) = Len(done) + 1
        /\ Append(done, cmd)[i] = done[i] /\ DOMAIN Append(done, cmd) = 1 .. Len(done) + 1
    BY <2>1, AppendProperties
  <2>3. i \in DOMAIN done' /\ done'[i] = done[i]
    BY <2>1, <2>2, <1>1
  <2>4. QED
    BY <1>1, <2>3 DEF OriginInv
<1>3. sent'[done[i]] = sent[done[i]]
  BY <1>2 DEF HostOK
<1>4. QED
  BY <1>1, <1>2, <1>3 DEF Forgetful

(* The command carried out is remembered.                                    *)
LEMMA NowForgetful ==
  ASSUME HostOK, sent' = sent, done' = Append(done, cmd), Now.arg \in {"inverted", "many"}
  PROVE  Forgetful'
<1>1. Len(done) + 1 \in DOMAIN done' /\ done'[Len(done) + 1] = cmd
  BY DEF HostOK
<1>2. sent'[done'[Len(done) + 1]].arg \in {"inverted", "many"}
  BY <1>1 DEF Now
<1>3. QED
  BY <1>1, <1>2 DEF Forgetful

LEMMA MemoryStep == IInv /\ [Next]_vars => MemoryInv'
<1>0. SUFFICES ASSUME IInv, [Next]_vars PROVE MemoryInv'
  OBVIOUS
<1>1. HostOK /\ OriginInv /\ SettingsOK /\ heap \in Nat /\ Blocks \in Nat /\ MemoryInv
  BY <1>0 DEF IInv, TypeOK, PlaceOK, Blocks
<1>2. /\ sent' = sent \/ (\E c \in Commands : sent' = Append(sent, c))
      /\ done' = done \/ done' = Append(done, cmd)
  BY <1>0, Zenon DEF Next, Camera, Execute, SendCommand, SendStop, Lock, Prompt, GetCommand,
     cmucam2_get_command, cmucam2_get_command_raw, Read, SetSetting, Refuse, SetWindow, SetResolution,
     Reset, Start, Exec, Took, Begin, Frame, Row, Mid, End, Running, hostVars, vars
<1>3. CASE Forgetful
  BY <1>1, <1>2, <1>3, ForgetfulKept DEF MemoryInv
<1>4. CASE Tidy
  <2>1. CASE SetSetting
    <3>1. /\ settings' = [settings EXCEPT ![Now.name] = Now.arg] /\ UNCHANGED <<sent, heap>>
          /\ done' = Append(done, cmd) /\ ~Looping /\ ~Looping'
      BY <2>1 DEF SetSetting, Exec, Took, hostVars, streamVars, Looping
    <3>2. CASE Now.arg \in {"inverted", "many"}
      BY <1>1, <3>1, <3>2, NowForgetful DEF MemoryInv
    <3>3. CASE Now.arg \notin {"inverted", "many"}
      BY <1>1, <1>4, <3>1, <3>3 DEF MemoryInv, Tidy, SettingsOK, SettingNames
    <3>4. QED
      BY <3>2, <3>3
  <2>2. CASE Start
    <3>1. /\ UNCHANGED <<sent, heap>> /\ done' = Append(done, cmd) /\ ~Looping /\ ~Looping'
          /\ settings' = [settings EXCEPT !.ST = IF Now.name = "TC" /\ Now.arg \in Bounds THEN Now.arg
                                                ELSE settings.ST]
      BY <2>2 DEF Start, Exec, Took, hostVars, Looping
    <3>2. CASE Now.arg \in {"inverted", "many"}
      BY <1>1, <3>1, <3>2, NowForgetful DEF MemoryInv
    <3>3. CASE Now.arg \notin {"inverted", "many"}
      BY <1>1, <1>4, <3>1, <3>3 DEF MemoryInv, Tidy, SettingsOK, SettingNames
    <3>4. QED
      BY <3>2, <3>3
  <2>3. CASE Reset
    <3>1. /\ heap' = heap /\ ~Looping /\ ~Looping' /\ settings.SM \in Arguments
          /\ settings' = [Default EXCEPT !.SM = settings.SM]
      BY <1>1, <2>3 DEF Reset, Exec, Looping, SettingsOK, SettingNames
    <3>2. QED
      BY <1>4, <3>1, MaskTyped DEF MemoryInv, Tidy
  <2>4. CASE Begin
    <3>1. /\ phase' = "frame" /\ heap' = heap + Blocks /\ UNCHANGED <<settings, jobs>>
          /\ phase = "begin"
      BY <1>0, <1>4, <2>4, BeginEffect DEF Tidy, Begin, Running
    <3>2. QED
      BY <1>1, <1>4, <3>1 DEF MemoryInv, Tidy, Looping, Blocks, Job
  <2>5. CASE Frame \/ Row \/ Mid \/ End
    <3>1. CASE Leave
      <4>1. ~Looping' /\ heap' = heap - Blocks /\ Looping
        BY <1>0, <2>5, <3>1, LoopStays, LeaveEffect
      <4>2. settings'.HC = settings.HC /\ settings'.ST \in {settings.ST, "ordered"}
        BY <1>1, <2>5, LoopSettings DEF SettingsOK, SettingNames
      <4>3. QED
        BY <1>1, <1>4, <4>1, <4>2 DEF MemoryInv, Tidy
    <3>2. CASE ~Leave
      BY <1>4, <2>5, <3>2, LoopStays DEF MemoryInv, Tidy, Blocks, Job
    <3>3. QED
      BY <3>1, <3>2
  <2>6. CASE Refuse \/ SetWindow \/ SetResolution \/ GetCommand \/ Prompt \/ Lock
    <3>1. UNCHANGED <<settings, heap>> /\ ~Looping /\ ~Looping'
      BY <2>6 DEF Refuse, SetWindow, SetResolution, Exec, GetCommand, cmucam2_get_command,
         cmucam2_get_command_raw, Read, Prompt, Lock, streamVars, Looping
    <3>2. QED
      BY <1>4, <3>1 DEF MemoryInv, Tidy
  <2>7. CASE SendCommand \/ SendStop \/ UNCHANGED vars
    BY <1>4, <2>7 DEF SendCommand, SendStop, vars, streamVars, MemoryInv, Tidy, Looping, Blocks, Job
  <2>8. QED
    BY <1>0, <2>1, <2>2, <2>3, <2>4, <2>5, <2>6, <2>7, Zenon DEF Next, Camera, Execute
<1>5. QED
  BY <1>1, <1>3, <1>4 DEF MemoryInv
-----------------------------------------------------------------------------
(* The theorems                                                            *)

(* What the prompt, the commands and the ways out of the streams leave of    *)
(* each other's variables, at each place of main and its loops.              *)
THEOREM IInvInvariant == Spec => []IInv
<1>1. IInv /\ [Next]_vars => IInv'
  BY SettingsStep, FrameStep, ServosStep, PlaceStep, HostStep, HeapStep, MemoryStep DEF IInv, TypeOK
<1>2. QED
  BY <1>1, InitIInv, PTL DEF Spec

(* A program that waits for a command has all channels and a whole window.   *)
(* However cmucam2_get_mean, _frame_diff and the other streams end, the      *)
(* channel and the window are given back before the next command is read.    *)
THEOREM FrameRestoredHolds == Spec => []FrameRestored
<1>1. IInv => FrameRestored
  BY DEF IInv, FrameInv, FrameRestored, Looping
<1>2. QED
  BY <1>1, IInvInvariant, PTL

(* Memory is lost only to bounds in the wrong order and too many bins.       *)
(* What the streams malloc is freed before the next command is read, but for *)
(* the two returns of cmucam2_track_color and cmucam2_get_histogram.         *)
THEOREM MemoryReturnedHolds == Spec => []MemoryReturned
<1>1. IInv => MemoryReturned
  BY DEF IInv, MemoryInv, Tidy, Forgetful, MemoryReturned, Looping
<1>2. QED
  BY <1>1, IInvInvariant, PTL

(* cmucam2_track_color: the tilt keeps still for an object at the centre.    *)
(* cmucam2_track_color resets t_step between pan and tilt: an object at the  *)
(* vertical centre leaves the tilt alone, whatever the pan did.              *)
THEOREM StillAtCentreHolds == Spec => StillAtCentre
<1>1. IInv /\ [Next]_vars =>
        [phase = "mid" /\ at' = "centre" /\ Controls("x") => servo'["y"] = servo["y"]]_vars
  <2>0. SUFFICES ASSUME IInv, [Next]_vars, phase = "mid", at' = "centre", Controls("x")
                 PROVE  servo'["y"] = servo["y"]
    OBVIOUS
  <2>1. CASE Mid
    BY <2>0, <2>1, LoopServos DEF IInv, TypeOK
  <2>2. CASE SendCommand \/ SendStop \/ UNCHANGED vars
    BY <2>2 DEF SendCommand, SendStop, vars, streamVars
  <2>3. QED
    BY <2>0, <2>1, <2>2, Zenon DEF Next, Camera, Execute, Lock, Prompt, GetCommand, Read,
       cmucam2_get_command, cmucam2_get_command_raw, SetSetting, Refuse, SetWindow, SetResolution,
       Reset, Start, Exec, Begin, Frame, Row, End, Running
<1>2. QED
  BY <1>1, IInvInvariant, PTL DEF Spec, StillAtCentre
-----------------------------------------------------------------------------
(* Commands in their turn                                                    *)
(*                                                                           *)
(* What the program has of the line and what the UART holds are characters   *)
(* of commands in the order they were sent, all of them of later commands    *)
(* than those carried out, but for the rest of the last.  A command sent to  *)
(* a program that waits is whole until it has been read.                     *)
Stream == line \o fifo

Before(c, d) == c.n < d.n \/ (c.n = d.n /\ c.part < d.part)
Ordered(s) ==
  \A i, j \in DOMAIN s : i < j /\ s[i].n # 0 /\ s[j].n # 0 => Before(s[i], s[j])
ToCome(s, n) == \A i \in DOMAIN s : s[i].n # 0 /\ s[i].part = 1 => n < s[i].n

OrderInv ==
  /\ phase # "read" => line = << >>
  /\ Ordered(Stream) /\ \A i \in DOMAIN done : ToCome(Stream, done[i])
  /\ \A i, j \in DOMAIN done : i < j => done[i] < done[j]
  /\ phase = "exec" => ToCome(fifo, cmd) /\ \A i \in DOMAIN done : done[i] < cmd

AsSent(n) == phase = "read" /\ ~prompted /\ fifo # << >> /\ Stream = Characters(n)
PendingInv ==
  \A n \in DOMAIN sent :
    n \in ahead \/ n \in ToSet(done) \/ (phase = "exec" /\ cmd = n) \/ AsSent(n)


LEMMA Concat ==
  ASSUME NEW s \in Seq(Character), NEW t \in Seq(Character)
  PROVE  /\ s \o t \in Seq(Character) /\ Len(s \o t) = Len(s) + Len(t)
         /\ Len(s) \in Nat /\ Len(t) \in Nat
         /\ \A i \in 1 .. Len(s) : (s \o t)[i] = s[i]
         /\ \A i \in 1 .. Len(t) : (s \o t)[Len(s) + i] = t[i]
<1>1. /\ s \o t \in Seq(Character) /\ Len(s \o t) = Len(s) + Len(t)
      /\ \A i \in 1 .. Len(s) + Len(t) : (s \o t)[i] = IF i <= Len(s) THEN s[i] ELSE t[i - Len(s)]
  BY ConcatProperties
<1>2. Len(s) \in Nat /\ Len(t) \in Nat
  BY LenProperties
<1>3. QED
  BY <1>1, <1>2

(* The character read last goes from the UART to the line.                   *)
LEMMA Shifted ==
  ASSUME NEW s \in Seq(Character), NEW t \in Seq(Character), t # << >>
  PROVE  Append(s, Head(t)) \o Tail(t) = s \o t
<1>1. /\ Head(t) \in Character /\ Tail(t) \in Seq(Character) /\ <<Head(t)>> \in Seq(Character)
      /\ t = <<Head(t)>> \o Tail(t)
  BY HeadTailProperties
<1>2. Append(s, Head(t)) = s \o <<Head(t)>>
  BY <1>1, AppendIsConcat
<1>3. (s \o <<Head(t)>>) \o Tail(t) = s \o (<<Head(t)>> \o Tail(t))
  BY <1>1, ConcatAssociative
<1>4. QED
  BY <1>1, <1>2, <1>3

(* What has been read or forgotten leaves the rest in order.                 *)
LEMMA Rest ==
  ASSUME NEW s \in Seq(Character), NEW t \in Seq(Character), NEW m \in Nat,
         Len(s) = m + Len(t), \A i \in 1 .. Len(t) : t[i] = s[m + i], Ordered(s)
  PROVE  /\ Ordered(t) /\ \A n \in Nat : ToCome(s, n) => ToCome(t, n)
         /\ m > 0 /\ s[1].n # 0 /\ s[1].part = 1 => ToCome(t, s[1].n)
<1>1. Len(s) \in Nat /\ Len(t) \in Nat /\ DOMAIN s = 1 .. Len(s) /\ DOMAIN t = 1 .. Len(t)
  BY LenProperties
<1>2. ASSUME NEW i \in 1 .. Len(t)
      PROVE  m + i \in 1 .. Len(s) /\ t[i] = s[m + i]
  BY <1>1
<1>3. Ordered(t)
  <2>1. ASSUME NEW i \in 1 .. Len(t), NEW j \in 1 .. Len(t), i < j, t[i].n # 0, t[j].n # 0
        PROVE  Before(t[i], t[j])
    <3>1. m + i < m + j
      BY <2>1
    <3>2. QED
      BY <1>1, <1>2, <2>1, <3>1 DEF Ordered
  <2>2. QED
    BY <1>1, <2>1 DEF Ordered
<1>4. ASSUME NEW n \in Nat, ToCome(s, n)
      PROVE  ToCome(t, n)
  BY <1>1, <1>2, <1>4 DEF ToCome
<1>5. ASSUME m > 0, s[1].n # 0, s[1].part = 1
      PROVE  ToCome(t, s[1].n)
  <2>1. ASSUME NEW i \in 1 .. Len(t), t[i].n # 0, t[i].part = 1
        PROVE  s[1].n < t[i].n
    <3>1. 1 \in 1 .. Len(s) /\ 1 < m + i
      BY <1>1, <1>5
    <3>2. Before(s[1], t[i])
      BY <1>1, <1>2, <1>5, <2>1, <3>1 DEF Ordered
    <3>3. QED
      BY <1>5, <2>1, <3>2 DEF Before
  <2>2. QED
    BY <1>1, <2>1 DEF ToCome
<1>6. QED
  BY <1>3, <1>4, <1>5

(* The characters of the next command come behind those of the ones before.  *)
LEMMA More ==
  ASSUME NEW s \in Seq(Character), NEW t \in Seq(Character), NEW last \in Nat, UpTo(s, last),
         Ordered(s),
         \A i \in 1 .. Len(t) :
           \/ i \in 1 .. Len(s) /\ t[i] = s[i]
           \/ i > Len(s) /\ (t[i].n = 0 \/ (t[i].n = last + 1 /\ t[i].part = i - Len(s)))
  PROVE  Ordered(t) /\ \A n \in 0 .. last : ToCome(s, n) => ToCome(t, n)
<1>1. Len(s) \in Nat /\ Len(t) \in Nat /\ DOMAIN s = 1 .. Len(s) /\ DOMAIN t = 1 .. Len(t)
  BY LenProperties
<1>2. ASSUME NEW i \in 1 .. Len(s)
      PROVE  s[i].n \in Nat /\ s[i].n <= last
  <2>1. s[i] \in Character
    BY <1>1
  <2>2. QED
    BY <1>1, <2>1 DEF UpTo, Character
<1>3. Ordered(t)
  <2>1. ASSUME NEW i \in 1 .. Len(t), NEW j \in 1 .. Len(t), i < j, t[i].n # 0, t[j].n # 0
        PROVE  Before(t[i], t[j])
    <3>1. CASE j \in 1 .. Len(s) /\ t[j] = s[j]
      <4>1. i \in 1 .. Len(s) /\ t[i] = s[i]
        BY <1>1, <2>1, <3>1
      <4>2. QED
        BY <1>1, <2>1, <3>1, <4>1 DEF Ordered
    <3>2. CASE j > Len(s) /\ t[j].n = last + 1 /\ t[j].part = j - Len(s)
      <4>1. CASE i \in 1 .. Len(s) /\ t[i] = s[i]
        BY <1>2, <3>2, <4>1 DEF Before
      <4>2. CASE i > Len(s) /\ t[i].n = last + 1 /\ t[i].part = i - Len(s)
        <5>1. i - Len(s) < j - Len(s)
          BY <1>1, <2>1
        <5>2. QED
          BY <3>2, <4>2, <5>1 DEF Before
      <4>3. QED
        BY <2>1, <4>1, <4>2
    <3>3. QED
      BY <2>1, <3>1, <3>2
  <2>2. QED
    BY <1>1, <2>1 DEF Ordered
<1>4. ASSUME NEW n \in 0 .. last, ToCome(s, n)
      PROVE  ToCome(t, n)
  <2>1. ASSUME NEW i \in 1 .. Len(t), t[i].n # 0, t[i].part = 1
        PROVE  n < t[i].n
    <3>1. CASE i \in 1 .. Len(s) /\ t[i] = s[i]
      BY <1>1, <1>4, <2>1, <3>1 DEF ToCome
    <3>2. CASE i > Len(s) /\ t[i].n = last + 1
      <4>1. n < last + 1
        OBVIOUS
      <4>2. QED
        BY <3>2, <4>1
    <3>3. QED
      BY <2>1, <3>1, <3>2
  <2>2. QED
    BY <1>1, <2>1 DEF ToCome
<1>5. QED
  BY <1>3, <1>4

LEMMA InitTurn == Init => OrderInv /\ PendingInv
<1> SUFFICES ASSUME Init
             PROVE  OrderInv /\ PendingInv
  OBVIOUS
<1>1. line = << >> /\ fifo = << >> /\ done = << >> /\ sent = << >> /\ phase # "exec"
  BY DEF Init
<1>2. Stream = << >>
  <2>1. << >> \in Seq(Character) /\ << >> \o << >> = << >>
    BY ConcatEmptySeq
  <2>2. QED
    BY <1>1, <2>1 DEF Stream
<1>3. DOMAIN Stream = {} /\ DOMAIN done = {} /\ DOMAIN sent = {}
  BY <1>1, <1>2
<1>4. QED
  BY <1>1, <1>3 DEF OrderInv, Ordered, ToCome, PendingInv

(* What holds of the stream of characters whenever nothing is carried out.   *)
LEMMA StreamTyped ==
  ASSUME IInv
  PROVE  /\ line \in Seq(Character) /\ fifo \in Seq(Character) /\ Stream \in Seq(Character)
         /\ Len(Stream) = Len(line) + Len(fifo) /\ Len(line) \in Nat /\ Len(fifo) \in Nat
         /\ (\A i \in 1 .. Len(line) : Stream[i] = line[i])
         /\ (\A i \in 1 .. Len(fifo) : Stream[Len(line) + i] = fifo[i])
         /\ (line = << >> => Stream = fifo)
         /\ done \in Seq(Nat) /\ (\A i \in DOMAIN done : done[i] \in 1 .. Len(sent))
         /\ Len(sent) \in Nat /\ UpTo(Stream, Len(sent))
<1>1. /\ line \in Seq(Character) /\ fifo \in Seq(Character) /\ UpTo(line, Len(sent)) /\ UpTo(fifo, Len(sent))
      /\ done \in Seq(Nat) /\ (\A i \in DOMAIN done : done[i] \in 1 .. Len(sent)) /\ Len(sent) \in Nat
  BY DEF IInv, TypeOK, HostOK, OriginInv
<1>2. /\ Stream \in Seq(Character) /\ Len(Stream) = Len(line) + Len(fifo)
      /\ Len(line) \in Nat /\ Len(fifo) \in Nat
      /\ (\A i \in 1 .. Len(line) : Stream[i] = line[i])
      /\ (\A i \in 1 .. Len(fifo) : Stream[Len(line) + i] = fifo[i])
  BY <1>1, Concat DEF Stream
<1>3. line = << >> => Stream = fifo
  BY <1>1, ConcatEmptySeq DEF Stream
<1>4. DOMAIN Stream = 1 .. Len(Stream) /\ DOMAIN line = 1 .. Len(line) /\ DOMAIN fifo = 1 .. Len(fifo)
  BY <1>1, <1>2, LenProperties
<1>5. UpTo(Stream, Len(sent))
  <2>1. ASSUME NEW i \in 1 .. Len(Stream)
        PROVE  Stream[i].n <= Len(sent)
    <3>1. CASE i <= Len(line)
      <4>1. i \in 1 .. Len(line)
        BY <1>2, <3>1
      <4>2. line[i].n <= Len(sent)
        BY <1>1, <1>4, <4>1 DEF UpTo
      <4>3. QED
        BY <1>2, <4>1, <4>2
    <3>2. CASE i > Len(line)
      <4>1. i - Len(line) \in 1 .. Len(fifo) /\ Len(line) + (i - Len(line)) = i
        BY <1>2, <3>2
      <4>2. Stream[Len(line) + (i - Len(line))] = fifo[i - Len(line)]
        BY <1>2, <4>1
      <4>3. fifo[i - Len(line)].n <= Len(sent)
        BY <1>1, <1>4, <4>1 DEF UpTo
      <4>4. QED
        BY <4>1, <4>2, <4>3
    <3>3. QED
      BY <1>2, <3>1, <3>2
  <2>2. QED
    BY <1>4, <2>1 DEF UpTo
<1>6. QED
  BY <1>1, <1>2, <1>3, <1>5

(* A character of the UART is forgotten, and what was read of the line.      *)
LEMMA Forgotten ==
  ASSUME IInv, fifo # << >>
  PROVE  /\ Tail(fifo) \in Seq(Character) /\ Len(Stream) = (Len(line) + 1) + Len(Tail(fifo))
         /\ Len(Tail(fifo)) = Len(fifo) - 1
         /\ \A i \in 1 .. Len(Tail(fifo)) : Tail(fifo)[i] = Stream[(Len(line) + 1) + i]
         /\ Head(fifo) \in Character /\ Head(fifo) = Stream[Len(line) + 1]
         /\ << >> \o Tail(fifo) = Tail(fifo)
<1> DEFINE t == Tail(fifo)
<1>1. /\ t \in Seq(Character) /\ Len(t) = Len(fifo) - 1 /\ \A i \in 1 .. Len(t) : t[i] = fifo[i + 1]
      /\ Head(fifo) \in Character /\ << >> \o t = t
  BY StreamTyped, HeadTailProperties, ConcatEmptySeq
<1>2. Len(fifo) > 0 /\ Head(fifo) = fifo[1]
  BY StreamTyped, EmptySeq
<1> HIDE DEF t
<1>3. Head(fifo) = Stream[Len(line) + 1]
  <2>1. 1 \in 1 .. Len(fifo)
    BY <1>2, StreamTyped
  <2>2. QED
    BY <1>2, <2>1, StreamTyped
<1>4. ASSUME NEW i \in 1 .. Len(t)
      PROVE  t[i] = Stream[(Len(line) + 1) + i]
  <2>1. i + 1 \in 1 .. Len(fifo) /\ Len(line) + (i + 1) = (Len(line) + 1) + i
    BY <1>1, StreamTyped
  <2>2. Stream[Len(line) + (i + 1)] = fifo[i + 1]
    BY <2>1, StreamTyped
  <2>3. QED
    BY <1>1, <2>1, <2>2
<1>5. Len(Stream) = (Len(line) + 1) + Len(t)
  <2>1. Len(Stream) = Len(line) + Len(fifo) /\ Len(line) \in Nat /\ Len(fifo) \in Nat
    BY StreamTyped
  <2>2. QED
    BY <1>1, <2>1
<1>6. QED
  BY <1>1, <1>3, <1>4, <1>5 DEF t

(* Characters that arrive come behind the others.                            *)
LEMMA Arrived ==
  ASSUME IInv, NEW s \in Seq(Character), Receive(s), line' = line
  PROVE  /\ Stream' \in Seq(Character)
         /\ \A i \in 1 .. Len(Stream') :
              \/ i \in 1 .. Len(Stream) /\ Stream'[i] = Stream[i]
              \/ /\ i > Len(Stream) /\ i - Len(Stream) \in DOMAIN s
                 /\ Stream'[i] = s[i - Len(Stream)]
<1>1. /\ fifo' \in Seq(Character) /\ Len(fifo') \in Nat
      /\ \A i \in DOMAIN fifo' :
           \/ i \in DOMAIN fifo /\ fifo'[i] = fifo[i]
           \/ i - Len(fifo) \in DOMAIN s /\ fifo'[i] = s[i - Len(fifo)]
  BY StreamTyped, ReceiveTyped, LenProperties
<1>2. /\ Stream' \in Seq(Character) /\ Len(Stream') = Len(line) + Len(fifo')
      /\ (\A i \in 1 .. Len(line) : Stream'[i] = line[i])
      /\ (\A i \in 1 .. Len(fifo') : Stream'[Len(line) + i] = fifo'[i])
  BY <1>1, StreamTyped, Concat DEF Stream
<1>3. DOMAIN fifo = 1 .. Len(fifo) /\ DOMAIN fifo' = 1 .. Len(fifo') /\ DOMAIN s = 1 .. Len(s) /\ Len(s) \in Nat
  BY <1>1, StreamTyped, LenProperties
<1>0. /\ Len(Stream) = Len(line) + Len(fifo) /\ Len(line) \in Nat /\ Len(fifo) \in Nat
      /\ \A j \in 1 .. Len(fifo) : Stream[Len(line) + j] = fifo[j]
  BY StreamTyped
<1>4. ASSUME NEW i \in 1 .. Len(Stream')
      PROVE  \/ i \in 1 .. Len(Stream) /\ Stream'[i] = Stream[i]
             \/ /\ i > Len(Stream) /\ i - Len(Stream) \in DOMAIN s
                /\ Stream'[i] = s[i - Len(Stream)]
  <2>1. CASE i <= Len(line)
    BY <1>2, <2>1, StreamTyped
  <2>2. CASE i > Len(line)
    <3> DEFINE k == i - Len(line)
    <3>1. k \in 1 .. Len(fifo') /\ Len(line) + k = i
      BY <1>1, <1>2, <2>2, StreamTyped
    <3>2. Stream'[i] = fifo'[k]
      BY <1>2, <3>1
    <3>3. CASE k \in 1 .. Len(fifo) /\ fifo'[k] = fifo[k]
      <4>1. Stream[Len(line) + k] = fifo[k]
        BY <1>0, <3>3
      <4>2. i \in 1 .. Len(Stream)
        <5>1. \A p, q \in Nat : \A j \in 1 .. q : p + j \in 1 .. p + q
          OBVIOUS
        <5>2. Len(line) + k \in 1 .. Len(line) + Len(fifo)
          BY <1>0, <3>3, <5>1
        <5>3. QED
          BY <1>0, <3>1, <5>2
      <4>3. QED
        BY <3>1, <3>2, <3>3, <4>1, <4>2
    <3>4. CASE k - Len(fifo) \in DOMAIN s /\ fifo'[k] = s[k - Len(fifo)]
      <4>1. k - Len(fifo) = i - Len(Stream) /\ i > Len(Stream)
        BY <1>0, <1>3, <3>1, <3>4
      <4>2. QED
        BY <3>2, <3>4, <4>1
    <3>5. QED
      BY <1>1, <1>3, <3>1, <3>3, <3>4
  <2>3. QED
    BY <1>2, <2>1, <2>2, StreamTyped
<1>5. QED
  BY <1>2, <1>4

(* A step that leaves the characters, the place and what was done alone.     *)
LEMMA OrderKept ==
  ASSUME OrderInv, UNCHANGED <<line, fifo, done, cmd>>, phase' = phase
  PROVE  OrderInv'
BY DEF OrderInv, Stream

LEMMA OrderSend ==
  ASSUME IInv, OrderInv, SendCommand \/ SendStop
  PROVE  OrderInv'
<1>1. Len(sent) \in Nat /\ UpTo(Stream, Len(sent)) /\ Stream \in Seq(Character) /\ fifo \in Seq(Character)
      /\ (line = << >> => Stream = fifo) /\ \A i \in DOMAIN done : done[i] \in 1 .. Len(sent)
  BY StreamTyped
<1>2. UNCHANGED <<line, phase, cmd, done>>
  BY DEF SendCommand, SendStop
<1>3. PICK s \in Seq(Character) :
        /\ Receive(s)
        /\ \A i \in DOMAIN s : s[i].n = 0 \/ (s[i].n = Len(sent) + 1 /\ s[i].part = i)
  <2>1. CASE SendCommand
    <3> DEFINE n == Len(sent) + 1
               s == Characters(n)
    <3>1. n \in Nat /\ Len(sent') = n
      <4>1. PICK c \in Commands : sent' = Append(sent, c)
        BY <2>1 DEF SendCommand
      <4>2. sent \in Seq(Commands)
        BY DEF IInv, TypeOK, HostOK
      <4>3. QED
        BY <1>1, <4>1, <4>2, AppendProperties
    <3>2. Receive(s)
      BY <2>1, <3>1 DEF SendCommand
    <3>3. s \in Seq(Character)
      BY <3>1, CharactersTyped
    <3>4. \A i \in DOMAIN s : s[i].n = 0 \/ (s[i].n = n /\ s[i].part = i)
      <4> HIDE DEF n
      <4>1. CR.n = 0
        BY DEF CR
      <4>2. QED
        BY <4>1 DEF Characters
    <3>5. QED
      BY <3>2, <3>3, <3>4
  <2>2. CASE SendStop
    <3> DEFINE s == [i \in 1 .. StopCRs |-> CR]
    <3>1. s \in Seq(Character) /\ \A i \in DOMAIN s : s[i].n = 0
      BY SizesAssumption DEF CR, Character
    <3>2. QED
      BY <2>2, <3>1 DEF SendStop
  <2>3. QED
    BY <2>1, <2>2
<1>4. /\ Stream' \in Seq(Character)
      /\ \A i \in 1 .. Len(Stream') :
           \/ i \in 1 .. Len(Stream) /\ Stream'[i] = Stream[i]
           \/ i > Len(Stream) /\ (Stream'[i].n = 0 \/ (Stream'[i].n = Len(sent) + 1 /\ Stream'[i].part = i - Len(Stream)))
  BY <1>2, <1>3, Arrived
<1>5. Ordered(Stream) /\ (phase # "read" => line = << >>)
  BY DEF OrderInv
<1>6. Ordered(Stream') /\ \A n \in 0 .. Len(sent) : ToCome(Stream, n) => ToCome(Stream', n)
  BY <1>1, <1>4, <1>5, More
<1>7. \A i \in DOMAIN done : ToCome(Stream', done[i])
  BY <1>1, <1>6 DEF OrderInv
<1>8. phase = "exec" => ToCome(fifo', cmd)
  <2> SUFFICES ASSUME phase = "exec"
               PROVE  ToCome(fifo', cmd)
    OBVIOUS
  <2>1. line = << >> /\ ToCome(fifo, cmd) /\ cmd \in 1 .. Len(sent)
    BY DEF OrderInv, IInv, OriginInv
  <2>2. ToCome(Stream', cmd)
    BY <1>1, <1>6, <2>1
  <2>3. Stream' = fifo'
    <3>1. fifo' \in Seq(Character)
      BY <1>1, <1>3, ReceiveTyped
    <3>2. QED
      BY <1>2, <2>1, <3>1, ConcatEmptySeq DEF Stream
  <2>4. QED
    BY <2>2, <2>3
<1>9. QED
  BY <1>2, <1>5, <1>6, <1>7, <1>8 DEF OrderInv

(* A command is read behind those carried out and before those to come.      *)
LEMMA OrderRead ==
  ASSUME IInv, OrderInv, GetCommand
  PROVE  OrderInv'
<1> DEFINE l == Append(line, Head(fifo))
           t == Tail(fifo)
           m == Len(line) + 1
<1>1. /\ fifo # << >> /\ fifo' = t /\ phase = "read" /\ UNCHANGED done
      /\ line' \in {l, << >>} /\ (phase' = "read" => line' = l) /\ (phase' # "read" => line' = << >>)
      /\ phase' = "exec" =>
           \/ IsCommand(line, 2) /\ cmd' = line[1].n
           \/ IsCommand(l, 3) /\ cmd' = l[1].n
  <2>1. CASE cmucam2_get_command
    BY <2>1 DEF cmucam2_get_command, Read
  <2>2. CASE cmucam2_get_command_raw
    BY <2>2 DEF cmucam2_get_command_raw, Read
  <2>3. QED
    BY <2>1, <2>2 DEF GetCommand
<1>2. /\ line \in Seq(Character) /\ fifo \in Seq(Character) /\ Stream \in Seq(Character) /\ Len(line) \in Nat
      /\ (\A i \in 1 .. Len(line) : Stream[i] = line[i])
      /\ done \in Seq(Nat) /\ Len(sent) \in Nat
  BY StreamTyped
<1>3. /\ t \in Seq(Character) /\ Len(Stream) = m + Len(t)
      /\ \A i \in 1 .. Len(t) : t[i] = Stream[m + i]
      /\ Head(fifo) \in Character /\ Head(fifo) = Stream[m] /\ << >> \o t = t
  BY <1>1, Forgotten
<1>4. l \o t = Stream
  BY <1>1, <1>2, Shifted DEF Stream
<1>5. /\ Len(l) = m /\ \A i \in 1 .. m : l[i] = Stream[i]
  <2>1. Len(l) = m /\ (\A i \in 1 .. Len(line) : l[i] = line[i]) /\ l[m] = Head(fifo)
    BY <1>2, <1>3, AppendProperties
  <2>2. \A i \in 1 .. m : i \in 1 .. Len(line) \/ i = m
    BY <1>2
  <2>3. QED
    BY <1>2, <1>3, <2>1, <2>2
<1>6. m \in Nat /\ m > 0 /\ Ordered(Stream) /\ \A i \in DOMAIN done : ToCome(Stream, done[i])
  BY <1>2 DEF OrderInv
<1> HIDE DEF l, t, m
<1>7. /\ Ordered(t) /\ (\A n \in Nat : ToCome(Stream, n) => ToCome(t, n))
      /\ (Stream[1].n # 0 /\ Stream[1].part = 1 => ToCome(t, Stream[1].n))
  BY <1>2, <1>3, <1>6, Rest
<1>8. \A i \in DOMAIN done : ToCome(t, done[i])
  BY <1>2, <1>6, <1>7
<1>9. Stream' \in {Stream, t}
  BY <1>1, <1>3, <1>4 DEF Stream
<1>10. phase' = "exec" => ToCome(t, cmd') /\ \A i \in DOMAIN done : done[i] < cmd'
  <2> SUFFICES ASSUME phase' = "exec"
               PROVE  ToCome(t, cmd') /\ \A i \in DOMAIN done : done[i] < cmd'
    OBVIOUS
  <2>1. Stream[1].n # 0 /\ Stream[1].part = 1 /\ cmd' = Stream[1].n
    <3>1. CASE IsCommand(line, 2) /\ cmd' = line[1].n
      <4>1. 1 \in 1 .. Len(line) /\ line[1].n # 0 /\ line[1] = [n |-> line[1].n, part |-> 1]
        BY <3>1 DEF IsCommand
      <4>2. line[1].part = 1
        BY <4>1
      <4>3. QED
        BY <1>2, <3>1, <4>1, <4>2
    <3>2. CASE IsCommand(l, 3) /\ cmd' = l[1].n
      <4>1. l[1].n # 0 /\ l[1] = [n |-> l[1].n, part |-> 1]
        BY <3>2 DEF IsCommand
      <4>2. l[1].part = 1 /\ 1 \in 1 .. m
        BY <1>6, <4>1
      <4>3. QED
        BY <1>5, <3>2, <4>1, <4>2
    <3>3. QED
      BY <1>1, <3>1, <3>2
  <2>2. ToCome(t, cmd')
    BY <1>7, <2>1
  <2>3. 1 \in DOMAIN Stream
    <3>1. 1 \in 1 .. Len(Stream)
      <4>1. Len(t) \in Nat
        BY <1>3, LenProperties
      <4>2. QED
        BY <1>3, <1>6, <4>1
    <3>2. QED
      BY <1>2, <3>1
  <2>4. \A i \in DOMAIN done : done[i] < cmd'
    BY <1>6, <2>1, <2>3 DEF ToCome
  <2>5. QED
    BY <2>2, <2>4
<1>11. QED
  BY <1>1, <1>6, <1>7, <1>8, <1>9, <1>10 DEF OrderInv

LEMMA OrderExecute ==
  ASSUME IInv, OrderInv, Execute
  PROVE  OrderInv'
<1>1. /\ done' = Append(done, cmd) /\ phase' \in {"prompt", "begin"} /\ phase = "exec"
      /\ UNCHANGED <<line, cmd, fifo>>
  BY DEF Execute, SetSetting, Refuse, SetWindow, SetResolution, Reset, Start, Exec, Took
<1>2. /\ done \in Seq(Nat) /\ (line = << >> => Stream = fifo) /\ cmd \in Nat
      /\ \A i \in DOMAIN done : done[i] \in Nat
  BY StreamTyped DEF IInv, TypeOK, HostOK
<1>3. /\ Len(done') = Len(done) + 1 /\ DOMAIN done' = 1 .. Len(done) + 1 /\ done'[Len(done) + 1] = cmd
      /\ DOMAIN done = 1 .. Len(done) /\ Len(done) \in Nat /\ \A i \in 1 .. Len(done) : done'[i] = done[i]
  BY <1>1, <1>2, AppendProperties, LenProperties
<1>4. /\ line = << >> /\ Ordered(Stream) /\ (\A i \in 1 .. Len(done) : ToCome(Stream, done[i]))
      /\ (\A i, j \in 1 .. Len(done) : i < j => done[i] < done[j])
      /\ ToCome(fifo, cmd) /\ \A i \in 1 .. Len(done) : done[i] < cmd
  BY <1>1, <1>3 DEF OrderInv
<1>5. \A i \in 1 .. Len(done) + 1 : i \in 1 .. Len(done) \/ i = Len(done) + 1
  BY <1>3
<1>6. \A i \in 1 .. Len(done) + 1 : ToCome(Stream, done'[i])
  BY <1>2, <1>3, <1>4, <1>5
<1>7. ASSUME NEW i \in 1 .. Len(done) + 1, NEW j \in 1 .. Len(done) + 1, i < j
      PROVE  done'[i] < done'[j]
  <2>1. i \in 1 .. Len(done)
    BY <1>3, <1>7
  <2>2. QED
    BY <1>3, <1>4, <1>5, <1>7, <2>1
<1>8. Stream' = Stream
  BY <1>1 DEF Stream
<1>9. QED
  BY <1>1, <1>3, <1>4, <1>6, <1>7, <1>8 DEF OrderInv

LEMMA OrderLoop ==
  ASSUME IInv, OrderInv, Begin \/ Frame \/ Row \/ Mid \/ End
  PROVE  OrderInv'
<1>1. UNCHANGED <<line, cmd, done>> /\ phase # "read"
  BY DEF Begin, Frame, Row, Mid, End, Running
<1>2. fifo' = fifo \/ (fifo # << >> /\ fifo' = Tail(fifo))
  BY Zenon DEF Begin, Frame, Row, Mid, End, Quiet, Hears, Stopped
<1>3. phase' \notin {"exec", "read"}
  BY LoopPhase
<1>4. line = << >> /\ Ordered(Stream) /\ \A i \in DOMAIN done : ToCome(Stream, done[i])
  BY <1>1 DEF OrderInv
<1>5. Ordered(Stream') /\ \A i \in DOMAIN done : ToCome(Stream', done[i])
  <2>1. CASE fifo' = fifo
    BY <1>1, <1>4, <2>1 DEF Stream
  <2>2. CASE fifo # << >> /\ fifo' = Tail(fifo)
    <3> DEFINE t == Tail(fifo)
               m == Len(line) + 1
    <3>1. /\ t \in Seq(Character) /\ Len(Stream) = m + Len(t) /\ << >> \o t = t
          /\ \A i \in 1 .. Len(t) : t[i] = Stream[m + i]
      BY <2>2, Forgotten
    <3>2. m \in Nat /\ Stream \in Seq(Character) /\ done \in Seq(Nat)
      BY StreamTyped
    <3>3. Stream' = t
      BY <1>1, <1>4, <2>2, <3>1 DEF Stream
    <3> HIDE DEF t, m
    <3>4. Ordered(t) /\ \A n \in Nat : ToCome(Stream, n) => ToCome(t, n)
      BY <1>4, <3>1, <3>2, Rest
    <3>5. QED
      BY <1>4, <3>2, <3>3, <3>4
  <2>3. QED
    BY <1>2, <2>1, <2>2
<1>6. QED
  BY <1>1, <1>3, <1>4, <1>5 DEF OrderInv

LEMMA OrderStep ==
  ASSUME IInv, OrderInv, [Next]_vars
  PROVE  OrderInv'
<1>1. CASE Prompt \/ Lock
  <2>1. UNCHANGED <<line, fifo, done>> /\ phase \notin {"read", "exec"} /\ phase' # "exec"
    BY <1>1 DEF Prompt, Lock
  <2>2. QED
    BY <2>1 DEF OrderInv, Stream
<1>2. CASE UNCHANGED vars
  BY <1>2, OrderKept DEF vars
<1>3. QED
  BY <1>1, <1>2, OrderSend, OrderRead, OrderExecute, OrderLoop, Zenon DEF Next, Camera

(* A command the program waits for is whole, and the next to be carried out. *)
LEMMA PendingSend ==
  ASSUME IInv, PendingInv, SendCommand, FifoLen >= 3
  PROVE  PendingInv'
<1>1. PICK c \in Commands : sent' = Append(sent, c)
  BY DEF SendCommand
<1>2. sent \in Seq(Commands) /\ fifo \in Seq(Character) /\ Len(sent) \in Nat
  BY DEF IInv, TypeOK, HostOK
<1>0. PICK n \in Nat : n = Len(sent) + 1
  BY <1>2
<1>3. Len(sent') = n /\ DOMAIN sent' = 1 .. n /\ DOMAIN sent = 1 .. Len(sent) /\ n \in Nat
  BY <1>0, <1>1, <1>2, AppendProperties
<1>4. /\ prompted /\ prompted' = FALSE /\ UNCHANGED <<settings, phase, line, cmd, done>>
      /\ Receive(Characters(n))
      /\ ahead' = IF phase = "read" /\ line = << >> /\ fifo = << >> THEN ahead ELSE ahead \cup {n}
  BY <1>3 DEF SendCommand
<1>5. ASSUME NEW k \in DOMAIN sent
      PROVE  k \in ahead' \/ k \in ToSet(done') \/ (phase' = "exec" /\ cmd' = k)
  BY <1>4, <1>5 DEF PendingInv, AsSent, ToSet
<1>6. n \in ahead' \/ AsSent(n)'
  <2> SUFFICES ASSUME phase = "read", line = << >>, fifo = << >>
               PROVE  AsSent(n)'
    BY <1>4
  <2>1. Characters(n) \in Seq(Character) /\ Characters(n)' = Characters(n) /\ Len(Characters(n)) = 3
    <3>1. Characters(n) \in Seq(Character)
      BY CharactersTyped
    <3>2. Characters(n)' = Characters(n)
      BY <1>4 DEF Characters
    <3>3. Len(Characters(n)) = 3
      BY DEF Characters
    <3>4. QED
      BY <3>1, <3>2, <3>3
  <2>2. << >> \o Characters(n) = Characters(n)
    BY <2>1, ConcatEmptySeq
  <2>3. fifo' = Characters(n)
    <3>1. Len(fifo \o Characters(n)) <= FifoLen
      BY <2>1, <2>2, SizesAssumption
    <3>2. QED
      BY <1>4, <2>2, <3>1 DEF Receive
  <2>4. fifo' # << >> /\ Stream' = Characters(n)
    BY <1>4, <2>1, <2>2, <2>3 DEF Stream
  <2>5. QED
    BY <1>4, <2>1, <2>4 DEF AsSent
<1>7. \A k \in 1 .. n : k \in 1 .. Len(sent) \/ k = n
  BY <1>0, <1>2
<1>8. \A k \in 1 .. n : k \in ahead' \/ k \in ToSet(done') \/ (phase' = "exec" /\ cmd' = k) \/ AsSent(k)'
  BY <1>3, <1>5, <1>6, <1>7
<1>9. QED
  BY <1>3, <1>8 DEF PendingInv, ToSet

LEMMA PendingRead ==
  ASSUME IInv, PendingInv, GetCommand
  PROVE  PendingInv'
<1> DEFINE l == Append(line, Head(fifo))
           t == Tail(fifo)
<1>1. /\ fifo # << >> /\ fifo' = t /\ phase = "read"
      /\ UNCHANGED <<settings, prompted, sent, ahead, done>>
  BY DEF GetCommand, cmucam2_get_command, cmucam2_get_command_raw, Read, hostVars
<1>2. line \in Seq(Character) /\ fifo \in Seq(Character) /\ sent \in Seq(Commands)
  BY DEF IInv, TypeOK, HostOK
<1>3. ASSUME NEW n \in DOMAIN sent, AsSent(n)
      PROVE  (phase' = "exec" /\ cmd' = n) \/ AsSent(n)'
  <2> DEFINE P(k) == [n |-> n, part |-> k]
  <2>0. n # 0 /\ n \in Nat
    <3>1. DOMAIN sent = 1 .. Len(sent) /\ Len(sent) \in Nat
      BY <1>2, LenProperties
    <3>2. QED
      BY <1>3, <3>1
  <2>1. Stream = Characters(n) /\ ~prompted /\ Characters(n)' = Characters(n)
    BY <1>1, <1>3 DEF AsSent, Characters
  <2>2. /\ Head(fifo) \in Character /\ t \in Seq(Character) /\ l \in Seq(Character)
        /\ Len(l) = Len(line) + 1 /\ Len(line) \in Nat /\ Len(Stream) = Len(l) + Len(t) /\ Len(t) \in Nat
        /\ l \o t = Stream /\ l[Len(line) + 1] = Head(fifo)
        /\ (\A i \in 1 .. Len(l) : l[i] = Stream[i]) /\ (\A i \in 1 .. Len(line) : line[i] = Stream[i])
    <3>1. /\ Head(fifo) \in Character /\ t \in Seq(Character) /\ l \in Seq(Character)
          /\ Len(l) = Len(line) + 1 /\ Len(line) \in Nat /\ l[Len(line) + 1] = Head(fifo)
          /\ \A i \in 1 .. Len(line) : l[i] = line[i]
      BY <1>1, <1>2, HeadTailProperties, AppendProperties, LenProperties
    <3>2. l \o t = Stream
      BY <1>1, <1>2, Shifted DEF Stream
    <3> HIDE DEF l, t
    <3>3. Len(Stream) = Len(l) + Len(t) /\ Len(t) \in Nat /\ \A i \in 1 .. Len(l) : l[i] = Stream[i]
      BY <3>1, <3>2, Concat
    <3>4. \A i \in 1 .. Len(line) : line[i] = Stream[i]
      BY <3>1, <3>3
    <3>5. QED
      BY <3>1, <3>2, <3>3, <3>4
  <2> HIDE DEF l, t
  <2>9. /\ Len(l) = Len(line) + 1 /\ Len(line) \in Nat /\ Len(Stream) = Len(l) + Len(t) /\ Len(t) \in Nat
    BY <2>2
  <2>3. /\ Len(Stream) = 3 /\ Stream[1] = P(1) /\ Stream[2] = P(2)
        /\ Stream[3] = IF settings.RM = "4" THEN P(3) ELSE CR
    BY <2>1 DEF Characters
  <2>4. /\ P(1).n = n /\ P(2).n = n /\ P(1).part = 1 /\ CR.n = 0 /\ P(1) # CR /\ P(2) # CR
    BY <2>0 DEF CR
  <2>5. CASE Len(line) = 2
    <3>1. /\ line[1] = P(1) /\ line[2] = P(2) /\ Head(fifo) = Stream[3] /\ Len(l) = 3
          /\ l[1] = P(1) /\ l[2] = P(2) /\ l[3] = Stream[3]
      BY <2>2, <2>3, <2>5
    <3> HIDE DEF P
    <3>2. line[1].n = n /\ l[1].n = n
      BY <2>4, <3>1
    <3>3. IsCommand(line, 2)
      <4>1. \A i \in 1 .. 2 : i = 1 \/ i = 2
        OBVIOUS
      <4>2. line[1] = [n |-> line[1].n, part |-> 1] /\ line[2] = [n |-> line[1].n, part |-> 2]
        BY <3>1, <3>2 DEF P
      <4>3. QED
        BY <2>0, <2>5, <3>2, <4>1, <4>2 DEF IsCommand
    <3>4. CASE cmucam2_get_command
      <4>1. settings.RM # "4"
        BY <3>4 DEF cmucam2_get_command
      <4>2. Head(fifo) = CR
        BY <2>3, <3>1, <4>1
      <4>3. phase' = "exec" /\ cmd' = line[1].n
        BY <3>3, <3>4, <4>2, Zenon DEF cmucam2_get_command
      <4>4. QED
        BY <3>2, <4>3
    <3>5. CASE cmucam2_get_command_raw
      <4>1. settings.RM = "4" /\ l[3] = P(3)
        BY <2>3, <3>1, <3>5 DEF cmucam2_get_command_raw
      <4>2. IsCommand(l, 3)
        <5>1. \A i \in 1 .. 3 : i = 1 \/ i = 2 \/ i = 3
          OBVIOUS
        <5>2. /\ l[1] = [n |-> l[1].n, part |-> 1] /\ l[2] = [n |-> l[1].n, part |-> 2]
              /\ l[3] = [n |-> l[1].n, part |-> 3]
          BY <3>1, <3>2, <4>1 DEF P
        <5>3. QED
          BY <2>0, <3>1, <3>2, <5>1, <5>2 DEF IsCommand
      <4>3. ~(Len(l) < 2 \/ IsCommand(l, 2))
        BY <3>1 DEF IsCommand
      <4>4. phase' = "exec" /\ cmd' = l[1].n
        BY <3>5, <4>2, <4>3, Zenon DEF cmucam2_get_command_raw, l
      <4>5. QED
        BY <3>2, <4>4
    <3>6. QED
      BY <3>4, <3>5 DEF GetCommand
  <2>6. CASE Len(line) < 2
    <3>1. t # << >>
      <4>1. Len(t) > 0
        <5>1. Len(Stream) = 3
          BY <2>3
        <5>2. \A p, q \in Nat : p < 2 /\ 3 = (p + 1) + q => q > 0
          OBVIOUS
        <5>3. QED
          BY <2>6, <2>9, <5>1, <5>2
      <4>2. Len(<< >>) = 0
        OBVIOUS
      <4>3. QED
        BY <4>1, <4>2
    <3>2. line' = l /\ phase' = phase
      <4>1. CASE cmucam2_get_command
        <5>1. Head(fifo) # CR
          <6>1. Len(l) \in {1, 2} /\ Head(fifo) = Stream[Len(l)]
            BY <2>2, <2>6
          <6>2. QED
            BY <2>3, <2>4, <6>1
        <5>2. QED
          BY <4>1, <5>1, Zenon DEF cmucam2_get_command, l
      <4>2. CASE cmucam2_get_command_raw
        <5>1. Len(l) < 2 \/ IsCommand(l, 2)
          <6>1. CASE Len(l) = 2
            <7>0. 1 \in 1 .. Len(l) /\ 2 \in 1 .. Len(l)
              BY <6>1
            <7>1. l[1] = P(1) /\ l[2] = P(2)
              BY <2>2, <2>3, <7>0
            <7> HIDE DEF P
            <7>2. l[1].n = n
              BY <2>4, <7>1
            <7>3. l[1] = [n |-> l[1].n, part |-> 1] /\ l[2] = [n |-> l[1].n, part |-> 2]
              BY <7>1, <7>2 DEF P
            <7>4. \A i \in 1 .. 2 : i = 1 \/ i = 2
              OBVIOUS
            <7>5. QED
              BY <2>0, <6>1, <7>2, <7>3, <7>4 DEF IsCommand
          <6>2. QED
            BY <2>2, <2>6, <6>1
        <5>2. ~IsCommand(l, 3) /\ ~(Len(l) >= 2 /\ ~IsCommand(l, 2))
          <6>1. Len(l) < 3
            BY <2>2, <2>6
          <6>2. QED
            BY <2>2, <5>1, <6>1 DEF IsCommand
        <5>3. QED
          BY <4>2, <5>2, Zenon DEF cmucam2_get_command_raw, l
      <4>3. QED
        BY <4>1, <4>2 DEF GetCommand
    <3>3. Stream' = Stream
      BY <1>1, <2>2, <3>2 DEF Stream
    <3>4. QED
      BY <1>1, <2>1, <3>1, <3>2, <3>3 DEF AsSent
  <2>7. Len(line) <= 2
    <3>1. Len(line) + Len(fifo) = 3 /\ Len(fifo) > 0 /\ Len(fifo) \in Nat
      BY <1>1, <1>2, <2>3, StreamTyped, EmptySeq
    <3>2. QED
      BY <2>2, <3>1
  <2>8. Len(line) = 2 \/ Len(line) < 2
    <3>1. \A p \in Nat : p <= 2 => p = 2 \/ p < 2
      OBVIOUS
    <3>2. QED
      BY <2>7, <2>9, <3>1
  <2>10. QED
    BY <2>5, <2>6, <2>8
<1>4. ASSUME NEW n \in DOMAIN sent
      PROVE  n \in ahead' \/ n \in ToSet(done') \/ (phase' = "exec" /\ cmd' = n) \/ AsSent(n)'
  <2>1. n \in ahead \/ n \in ToSet(done) \/ AsSent(n)
    BY <1>1 DEF PendingInv
  <2>2. QED
    BY <1>1, <1>3, <2>1 DEF ToSet
<1>5. QED
  BY <1>1, <1>4 DEF PendingInv

LEMMA PendingExecute ==
  ASSUME IInv, PendingInv, Execute
  PROVE  PendingInv'
<1>1. /\ done' = Append(done, cmd) /\ phase = "exec" /\ UNCHANGED <<cmd, hostVars>>
  BY DEF Execute, SetSetting, Refuse, SetWindow, SetResolution, Reset, Start, Exec, Took
<1>2. done \in Seq(Nat) /\ cmd \in Nat
  BY DEF IInv, TypeOK, HostOK
<1>3. /\ Len(done) \in Nat /\ DOMAIN done' = 1 .. Len(done) + 1 /\ DOMAIN done = 1 .. Len(done)
      /\ done'[Len(done) + 1] = cmd /\ \A i \in 1 .. Len(done) : done'[i] = done[i]
  BY <1>1, <1>2, AppendProperties, LenProperties
<1>4. ToSet(done) \subseteq ToSet(done') /\ cmd \in ToSet(done')
  BY <1>3 DEF ToSet
<1>5. QED
  BY <1>1, <1>4 DEF PendingInv, AsSent, hostVars

LEMMA PendingStep ==
  ASSUME IInv, PendingInv, [Next]_vars, FifoLen >= 3
  PROVE  PendingInv'
<1>1. CASE Prompt \/ Lock
  BY <1>1 DEF Prompt, Lock, hostVars, PendingInv, AsSent, ToSet
<1>2. CASE Begin \/ Frame \/ Row \/ Mid \/ End
  <2>1. phase \notin {"read", "exec"} /\ UNCHANGED <<sent, ahead, done>>
    BY <1>2 DEF Begin, Frame, Row, Mid, End, Running
  <2>2. QED
    BY <2>1 DEF PendingInv, AsSent, ToSet
<1>3. CASE SendStop
  <2>1. phase # "read" /\ UNCHANGED <<phase, cmd, sent, ahead, done>>
    BY <1>3 DEF SendStop, hostVars
  <2>2. QED
    BY <2>1 DEF PendingInv, AsSent, ToSet
<1>4. CASE UNCHANGED vars
  BY <1>4 DEF vars, hostVars, PendingInv, AsSent, ToSet, Stream, Characters
<1>5. QED
  BY <1>1, <1>2, <1>3, <1>4, PendingSend, PendingRead, PendingExecute, Zenon DEF Next, Camera

(* The program's place in the order of commands, whatever the UART holds.    *)
LEMMA OrderInvariant == Spec => [](IInv /\ OrderInv)
<1>1. IInv /\ OrderInv /\ [Next]_vars => OrderInv'
  BY OrderStep
<1>2. Init => OrderInv
  BY InitTurn
<1>3. QED
  BY <1>1, <1>2, IInvInvariant, PTL DEF Spec

(* A command is carried out at most once and in the order sent, whatever is  *)
(* lost: what the loops read of the UART is never taken for the rest of a    *)
(* line, and the line is emptied by whatever ends it.                        *)
THEOREM InOrderHolds ==
  Spec => [](\A i, j \in DOMAIN done : i < j => done[i] < done[j])
<1>1. OrderInv => \A i, j \in DOMAIN done : i < j => done[i] < done[j]
  BY DEF OrderInv
<1>2. QED
  BY <1>1, OrderInvariant, PTL

(* Of a UART that holds a command: one sent to a program that waits is       *)
(* carried out, in its turn, whatever carriage returns stop the streams.     *)
THEOREM InTurnHolds ==
  ASSUME FifoLen >= 3
  PROVE  Spec => []InTurn
<1>1. IInv /\ PendingInv /\ [Next]_vars => PendingInv'
  BY PendingStep
<1>2. Init => PendingInv
  BY InitTurn
<1>3. OrderInv /\ PendingInv => InTurn
  BY DEF OrderInv, PendingInv, AsSent, InTurn
<1>4. QED
  BY <1>1, <1>2, <1>3, OrderInvariant, PTL DEF Spec
=============================================================================
