-------------------------------- MODULE Servo --------------------------------
(***************************************************************************)
(* The servo outputs: timer 1, its interrupt handler _cc3_servo_int, and   *)
(* the calls by which the main program moves servos and gives their pins   *)
(* another mode.                                                           *)
(*                                                                         *)
(* Time is the counter of timer 1.  A pulse should last RES ticks (1 ms)   *)
(* and one more for each unit of the position; the handler lowers pins and *)
(* sets the match register for the next edge.  A match register behind the *)
(* counter matches only after 2^32 ticks, which here is never.             *)
(*                                                                         *)
(* The main program runs with IRQs on, one register access per step.  The  *)
(* handler is two steps, the read of the counter and the rest, because the *)
(* counter goes on in between.                                             *)
(***************************************************************************)
EXTENDS Integers, FiniteSets

CONSTANTS
  Servos,      \* 0..MAX_SERVOS-1
  RES,         \* SERVO_RESOLUTION, 255 in the code
  PERIOD,      \* SERVO_PERIOD, 18 in the code
  Positions,   \* bound: the positions the program sets, within a byte
  Modes,       \* bound: the modes the program asks for
  MaxLate,     \* bound: ticks from a request to the handler's read of TC
  MaxService   \* bound: ticks from that read to the end of the handler

ASSUME ServoAssumption ==
  /\ RES \in Nat /\ RES > 0 /\ RES <= 255    \* so that safety is 1
  /\ PERIOD \in Nat
  /\ Positions \subseteq 0..RES
  /\ Modes \subseteq {"INPUT", "OUTPUT", "SERVO"}
  /\ MaxLate \in Nat /\ MaxService \in Nat
  /\ PERIOD * RES > 2 * RES + MaxLate + MaxService   \* 4590 and about 510
  /\ IsFiniteSet(Servos) /\ Servos # {} /\ Modes # {}

VARIABLES
  tc, mr0, running,   \* TIMER1_TC, TIMER1_MR0, TIMER1_TCR
  ir,        \* TIMER1_IR
  vic,       \* the timer may interrupt (VICIntEnable)
  mask,      \* servo_mask
  val, tmp,  \* servo_val, servo_tmp
  latch,     \* the pins whose output latch is high
  out,       \* the pins that are outputs (GPIO_IODIR)
  pc, arg,   \* what main executes next, and the pin and mode of its call
  ct,        \* the counter as the handler read it, or -1 outside of it
  late,      \* history: ticks since the request, or since the handler began
  pulse,     \* history: ticks since the handler raised the pin, or -1
  raced      \* history: the handler ran inside servo_init

timer == <<tc, mr0, running, ir>>
pins  == <<latch, out>>
vars == <<tc, mr0, running, ir, vic, mask, val, tmp, latch, out, pc, arg, ct,
          late, pulse, raced>>

CYCLE == RES * PERIOD
Slack == MaxLate + MaxService
MaxTC == CYCLE + Slack + 1     \* bound: the counter matters no more
LongPulse == 2 * RES + Slack + 1

NoCall == [pin |-> CHOOSE s \in Servos : TRUE, mode |-> CHOOSE m \in Modes : TRUE]
InitPcs == {"init_stop", "init_ir", "init_mr0", "init_go", "init_vic"}
Pc == {"idle", "off_mask", "off_vic", "off_lo", "on_mask", "dir"} \cup InitPcs

Init ==      \* after cc3_camera_init; nothing before it touches timer 1
  /\ tc = 0 /\ mr0 = 0 /\ running = FALSE /\ ir = FALSE /\ vic = FALSE
  /\ mask = {} /\ val = [s \in Servos |-> RES \div 2]
  /\ tmp = [s \in Servos |-> 0]
  /\ latch = {} /\ out = Servos /\ ct = -1 /\ late = 0
  /\ pc = "idle" /\ arg = NoCall
  /\ pulse = [s \in Servos |-> -1]
  /\ raced = FALSE

-----------------------------------------------------------------------------
(* Timer 1. *)

IrqPending == vic /\ ir
InHandler == ct # -1

(* A tick does not come when the handler is overdue, by the two bounds, nor  *)
(* between the start of the timer, prescaler at 0, and the next statement.   *)
Tick ==
  /\ running /\ pc # "init_vic"
  /\ InHandler => late < MaxService
  /\ ~InHandler /\ IrqPending => late < MaxLate
  /\ tc' = IF tc = MaxTC THEN tc ELSE tc + 1
  /\ ir' = IF tc' = mr0 /\ tc # MaxTC THEN TRUE ELSE ir
  /\ late' = IF InHandler \/ IrqPending THEN late + 1 ELSE 0
  /\ pulse' = [s \in Servos |-> IF pulse[s] \in {-1, LongPulse} THEN pulse[s]
                                ELSE pulse[s] + 1]
  /\ UNCHANGED <<mr0, running, vic, mask, val, tmp, pins, pc, arg, ct, raced>>

-----------------------------------------------------------------------------
(* interrupt() and _cc3_servo_int. *)

(* interrupt() calls the handler when TIMER1_IR is set, also if it runs for  *)
(* another interrupt while the servo interrupt is disabled.                  *)
Enter ==
  /\ ~InHandler /\ ir
  /\ ct' = tc /\ late' = 0
  /\ raced' = (raced \/ pc \in {"init_stop", "init_ir"})
  /\ UNCHANGED <<timer, vic, mask, val, tmp, pins, pc, arg, pulse>>

TimerIrq == IrqPending /\ Enter
OtherIrq == ~vic /\ Enter

(* Rising edge: a new cycle, from the positions as they are now. *)
Rise ==
  /\ tc' = 0 /\ mr0' = RES
  /\ latch' = latch \cup mask
  /\ tmp' = val
  /\ pulse' = [s \in Servos |->
                 IF s \in mask /\ pulse[s] = -1 THEN 0 ELSE pulse[s]]

(* mutant: no safety margin *)
PassedExact == IF ct < RES THEN 255 * RES ELSE ct - RES

(* ct - SERVO_RESOLUTION + safety, unsigned. *)
Passed == IF ct + 1 < RES THEN 255 * RES ELSE ct + 1 - RES

LowersVal(s) == val[s] <= Passed /\ s \in mask     \* mutant: no copy

Lowers(s) == tmp[s] <= Passed /\ s \in mask

(* Falling edges: lower what is due and wait for the next servo due, or, if  *)
(* there is none, for the next cycle.                                        *)
Fall ==
  LET due == {s \in Servos : Lowers(s)}
      next == {tmp[s] : s \in {t \in Servos : tmp[t] > Passed}}
  IN /\ latch' = latch \ due
     /\ pulse' = [s \in Servos |-> IF s \in due THEN -1 ELSE pulse[s]]
     /\ \/ next = {} /\ mr0' = CYCLE
        \/ \E m \in next : (\A n \in next : m <= n) /\ mr0' = RES + m
     /\ UNCHANGED <<tc, tmp>>

NewCycleExact == ct = CYCLE      \* mutant: what the comment says it used to be

NewCycle == ct >= CYCLE

Leave ==
  /\ InHandler
  /\ IF NewCycle THEN Rise ELSE Fall
  /\ ir' = FALSE
  /\ ct' = -1 /\ late' = 0
  /\ UNCHANGED <<running, vic, mask, val, out, pc, arg, raced>>

-----------------------------------------------------------------------------
(* The main program, held up while an interrupt is pending or served. *)

Main(from, to) ==
  /\ pc = from /\ pc' = to
  /\ ~InHandler /\ ~IrqPending

(* cc3_gpio_set_servo_position *)
SetPosition(s, p) ==
  /\ Main("idle", "idle")
  /\ val' = [val EXCEPT ![s] = p]
  /\ UNCHANGED <<timer, vic, mask, tmp, pins, arg, ct, late, pulse, raced>>

(* cc3_gpio_set_value, and cc3_led_set_state for the LEDs on servo pins. *)
SetValue(s, high) ==
  /\ Main("idle", "idle")
  /\ latch' = IF high THEN latch \cup {s} ELSE latch \ {s}
  /\ pulse' = IF high THEN pulse ELSE [pulse EXCEPT ![s] = -1]
  /\ UNCHANGED <<timer, vic, mask, val, tmp, out, arg, ct, late, raced>>

(* cc3_gpio_set_mode *)
SetMode(s, m) ==
  /\ Main("idle", IF m = "SERVO" THEN "on_mask" ELSE "off_mask")
  /\ arg' = [pin |-> s, mode |-> m]
  /\ UNCHANGED <<timer, vic, mask, val, tmp, pins, ct, late, pulse, raced>>

(* mutant: only the last servo is lowered *)
OffMaskReturns ==
  /\ Main("off_mask", IF mask \ {arg.pin} = {} THEN "off_vic" ELSE "dir")
  /\ mask' = mask \ {arg.pin}
  /\ UNCHANGED <<timer, vic, val, tmp, pins, arg, ct, late, pulse, raced>>

(* _cc3_servo_enable (pin, false) *)
OffMask ==
  /\ Main("off_mask", IF mask \ {arg.pin} = {} THEN "off_vic" ELSE "off_lo")
  /\ mask' = mask \ {arg.pin}
  /\ UNCHANGED <<timer, vic, val, tmp, pins, arg, ct, late, pulse, raced>>

OffVic ==
  /\ Main("off_vic", "off_lo")
  /\ vic' = FALSE
  /\ UNCHANGED <<timer, mask, val, tmp, pins, arg, ct, late, pulse, raced>>

OffLow ==
  /\ Main("off_lo", "dir")
  /\ latch' = latch \ {arg.pin}
  /\ pulse' = [pulse EXCEPT ![arg.pin] = -1]
  /\ UNCHANGED <<timer, vic, mask, val, tmp, out, arg, ct, late, raced>>

(* _cc3_servo_enable (pin, true): the first servo starts the timer anew. *)
OnMask ==
  /\ Main("on_mask", IF mask = {} THEN "init_stop" ELSE "dir")
  /\ mask' = mask \cup {arg.pin}
  /\ UNCHANGED <<timer, vic, val, tmp, pins, arg, ct, late, pulse, raced>>

InitStop ==
  /\ Main("init_stop", "init_ir")
  /\ running' = FALSE /\ tc' = 0
  /\ UNCHANGED <<mr0, ir, vic, mask, val, tmp, pins, arg, ct, late, pulse, raced>>

InitIr ==
  /\ Main("init_ir", "init_mr0")
  /\ ir' = FALSE
  /\ UNCHANGED <<tc, mr0, running, vic, mask, val, tmp, pins, arg, ct, late,
                 pulse, raced>>

InitMr0 ==
  /\ Main("init_mr0", "init_go")
  /\ mr0' = CYCLE
  /\ UNCHANGED <<tc, ir, running, vic, mask, val, tmp, pins, arg, ct, late,
                 pulse, raced>>

InitGo ==
  /\ Main("init_go", "init_vic")
  /\ running' = TRUE
  /\ UNCHANGED <<tc, mr0, ir, vic, mask, val, tmp, pins, arg, ct, late, pulse,
                 raced>>

InitVic ==
  /\ Main("init_vic", "dir")
  /\ vic' = TRUE
  /\ UNCHANGED <<timer, mask, val, tmp, pins, arg, ct, late, pulse, raced>>

ServoInit == InitStop \/ InitIr \/ InitMr0 \/ InitGo \/ InitVic

SetDir ==
  /\ Main("dir", "idle")
  /\ out' = IF arg.mode = "INPUT" THEN out \ {arg.pin} ELSE out \cup {arg.pin}
  /\ arg' = NoCall
  /\ UNCHANGED <<timer, vic, mask, val, tmp, latch, ct, late, pulse, raced>>

CameraPinsFloat ==     \* mutant: the constant leaves the servo pins out
  /\ Main("idle", "idle")
  /\ out' = {}
  /\ UNCHANGED <<timer, vic, mask, val, tmp, latch, arg, ct, late, pulse, raced>>

(* The camera setters write all of GPIO_IODIR, servo pins as outputs. *)
CameraPins ==
  /\ Main("idle", "idle")
  /\ out' = Servos
  /\ UNCHANGED <<timer, vic, mask, val, tmp, latch, arg, ct, late, pulse, raced>>

Call ==
  \/ \E s \in Servos, p \in Positions : SetPosition(s, p)
  \/ \E s \in Servos, h \in BOOLEAN : SetValue(s, h)
  \/ \E s \in Servos, m \in Modes : SetMode(s, m)
  \/ CameraPins

InCall == OffMask \/ OffVic \/ OffLow \/ OnMask \/ ServoInit \/ SetDir

Next == Tick \/ TimerIrq \/ OtherIrq \/ Leave \/ Call \/ InCall

Spec == Init /\ [][Next]_vars

(* The timer runs, the processor takes the request, the handler returns, and *)
(* main finishes its calls: it runs, if only between two interrupts.         *)
FairSpec ==
  /\ Spec
  /\ WF_vars(Tick) /\ WF_vars(TimerIrq) /\ WF_vars(Leave) /\ SF_vars(InCall)

-----------------------------------------------------------------------------
(* Properties. *)

TypeOK ==
  /\ tc \in 0..MaxTC /\ mr0 \in 0..CYCLE /\ running \in BOOLEAN
  /\ ir \in BOOLEAN /\ vic \in BOOLEAN
  /\ mask \subseteq Servos /\ latch \subseteq Servos /\ out \subseteq Servos
  /\ val \in [Servos -> 0..RES] /\ tmp \in [Servos -> 0..RES]
  /\ pc \in Pc /\ arg \in [pin : Servos, mode : Modes]
  /\ ct \in -1..MaxTC /\ late \in 0..Slack
  /\ pulse \in [Servos -> -1..LongPulse]
  /\ raced \in BOOLEAN

(* No pulse is longer than a full one and the handler's delay, unless the    *)
(* handler ran inside servo_init: with a servo commanded by pulse width, a   *)
(* longer pulse is a wrong position.                                         *)
PulseBounded == \A s \in mask : ~raced => pulse[s] <= 2 * RES + Slack

(* A pulse the handler ends has the length of the position it was started    *)
(* with, short by at most the tick of safety and long by the delay.          *)
PulseIsPosition ==
  [][\A s \in Servos :
       Leave /\ ~raced /\ pulse[s] >= 0 /\ pulse'[s] = -1
         => RES + tmp[s] - 1 <= pulse[s] /\ pulse[s] <= RES + tmp[s] + Slack]_vars

(* Between calls, a pin that is no servo is left alone by the handler.       *)
HandlerSparesOthers ==
  [][Leave => \A s \in Servos \ mask : s \in latch <=> s \in latch']_vars

(* A pin taken away from the servos is low when cc3_gpio_set_mode returns,   *)
(* whenever the handler ran in between.                                      *)
OffIsLow == pc = "dir" /\ arg.mode # "SERVO" => arg.pin \notin latch

(* The comparison was changed from == "but one day the servos stopped        *)
(* working": a servo that stays enabled is raised and lowered for ever.      *)
ServosKeepMoving ==
  \A s \in Servos :
    <>[](s \in mask) => []<>(pulse[s] >= 0) /\ []<>(s \notin latch)

(* Between calls every servo pin drives: cc3_gpio_set_mode and the camera    *)
(* code, which writes all of GPIO_IODIR from a constant, do not undo each    *)
(* other.  (An input they do undo: the constant makes it an output again.)   *)
ServosDrive == pc = "idle" => mask \subseteq out

(* The handler ends within the one tick of safety that it adds to the        *)
(* counter it read.                                                          *)
Punctual == MaxService <= 1

(* The inductive invariant behind all but the last: which call main is in;   *)
(* the timer runs while a servo is enabled; only a servo, or a pin about to  *)
(* be lowered, has a pulse; and while it has one, the match register has not *)
(* passed and is not behind the counter.                                     *)
CallInv ==
  /\ pc \in {"off_mask", "off_vic", "off_lo"} => arg.mode # "SERVO"
  /\ pc \in InitPcs \cup {"on_mask"} => arg.mode = "SERVO"
  /\ pc \in {"off_vic", "off_lo"} \/ (pc = "dir" /\ arg.mode # "SERVO")
       => arg.pin \notin mask
  /\ pc = "off_vic" => mask = {}
  /\ mask \subseteq (IF pc = "idle" THEN out ELSE out \cup {arg.pin})

TimerInv ==
  /\ mask # {} /\ pc \notin InitPcs => vic /\ running
  /\ pc = "init_vic" => running
  /\ pc \in {"init_mr0", "init_go", "init_vic"} => ~ir /\ ~InHandler
  /\ pc \in {"init_ir", "init_mr0", "init_go"} => ~running

RestInv ==
  \A s \in Servos : pulse[s] # -1 =>
    s \in mask \/ (pc \in {"off_vic", "off_lo"} /\ s = arg.pin)

Falling(s) ==
  /\ pulse[s] = tc
  /\ InHandler => /\ RES <= ct /\ ct <= RES + tmp[s] + MaxLate
                  /\ tc = ct + late /\ late <= MaxService
  /\ ~InHandler => /\ RES <= mr0 /\ mr0 <= RES + tmp[s]
                   /\ IF ir THEN tc = mr0 + late /\ late <= MaxLate ELSE tc < mr0

PulseInv ==
  ~raced =>
    /\ pc \in InitPcs => ~InHandler /\ \A s \in Servos : pulse[s] = -1
    /\ \A s \in mask : pulse[s] # -1 => Falling(s)

IInv == TypeOK /\ CallInv /\ TimerInv /\ RestInv /\ PulseInv
=============================================================================
