----------------------------- MODULE ServoProofs -----------------------------
(***************************************************************************)
(* Theorems about Servo, for any number of servos, resolution, period and  *)
(* lateness of the handler.                                                *)
(***************************************************************************)
EXTENDS Servo, TLAPS

(* The cycle is longer than the longest pulse and every delay.               *)
LEMMA Sizes ==
  /\ RES \in Nat /\ RES > 0 /\ MaxLate \in Nat /\ MaxService \in Nat
  /\ CYCLE \in Nat /\ CYCLE > 2 * RES + MaxLate + MaxService
  /\ Slack = MaxLate + MaxService /\ Slack \in Nat
  /\ MaxTC = CYCLE + Slack + 1 /\ MaxTC \in Nat
  /\ LongPulse = 2 * RES + Slack + 1 /\ LongPulse \in Nat
<1>1. RES * PERIOD \in Nat /\ RES * PERIOD > 2 * RES + MaxLate + MaxService
  BY ServoAssumption
<1>2. QED
  BY <1>1, ServoAssumption DEF CYCLE, Slack, MaxTC, LongPulse

LEMMA NoCallType == NoCall \in [pin : Servos, mode : Modes]
BY ServoAssumption DEF NoCall

(* Every step keeps the types.                                               *)
LEMMA TypeStep == TypeOK /\ [Next]_vars => TypeOK'
<1>0. SUFFICES ASSUME TypeOK, [Next]_vars PROVE TypeOK'
  OBVIOUS
<1>1. CASE Tick
  <2>1. tc' \in 0..MaxTC
    BY <1>0, <1>1, Sizes DEF TypeOK, Tick
  <2>2. ir' \in BOOLEAN
    BY <1>0, <1>1, Zenon DEF TypeOK, Tick
  <2>3. late' \in 0..Slack
    BY <1>0, <1>1, Sizes DEF TypeOK, Tick, InHandler, IrqPending
  <2>4. pulse' \in [Servos -> -1..LongPulse]
    <3>1. ASSUME NEW s \in Servos
          PROVE  (IF pulse[s] \in {-1, LongPulse} THEN pulse[s] ELSE pulse[s] + 1)
                   \in -1..LongPulse
      BY <1>0, Sizes DEF TypeOK
    <3>2. QED BY <1>1, <3>1 DEF Tick
  <2>5. QED
    BY <1>0, <1>1, <2>1, <2>2, <2>3, <2>4 DEF TypeOK, Tick, pins
<1>2. CASE TimerIrq \/ OtherIrq
  BY <1>0, <1>2, Sizes DEF TypeOK, TimerIrq, OtherIrq, Enter, timer, pins
<1>3. CASE Leave
  <2>0. ct' \in -1..MaxTC /\ late' \in 0..Slack /\ ir' \in BOOLEAN
    <3>1. ct' = -1 /\ late' = 0 /\ ir' = FALSE
      BY <1>3, Zenon DEF Leave
    <3>2. ct' \in -1..MaxTC /\ late' \in 0..Slack
      BY <3>1, Sizes
    <3>3. ir' \in BOOLEAN
      BY <3>1, Zenon
    <3>4. QED BY <3>2, <3>3
  <2>1. CASE NewCycle
    <3>1. tc' \in 0..MaxTC /\ mr0' \in 0..CYCLE /\ latch' \subseteq Servos
      BY <1>0, <1>3, <2>1, Sizes DEF TypeOK, Leave, Rise
    <3>2. pulse' \in [Servos -> -1..LongPulse]
      <4>1. 0 \in -1..LongPulse
        BY Sizes
      <4>2. QED BY <1>0, <1>3, <2>1, <4>1 DEF TypeOK, Leave, Rise
    <3>3. QED
      BY <1>0, <1>3, <2>1, <2>0, <3>1, <3>2 DEF TypeOK, Leave, Rise
  <2>2. CASE ~NewCycle
    <3>1. mr0' \in 0..CYCLE
      BY <1>0, <1>3, <2>2, Sizes DEF TypeOK, Leave, Fall
    <3>2. pulse' \in [Servos -> -1..LongPulse]
      <4>1. -1 \in -1..LongPulse
        BY Sizes
      <4>2. QED BY <1>0, <1>3, <2>2, <4>1 DEF TypeOK, Leave, Fall
    <3>3. tc' \in 0..MaxTC /\ latch' \subseteq Servos /\ tmp' = tmp
      BY <1>0, <1>3, <2>2 DEF TypeOK, Leave, Fall
    <3>4. QED
      BY <1>0, <1>3, <2>0, <3>1, <3>2, <3>3 DEF TypeOK, Leave
  <2>3. QED BY <2>1, <2>2
<1>4. CASE Call
  <2>1. CASE \E s \in Servos, p \in Positions : SetPosition(s, p)
    BY <1>0, <2>1, ServoAssumption DEF TypeOK, SetPosition, Main, Pc, timer, pins
  <2>2. CASE \E s \in Servos, h \in BOOLEAN : SetValue(s, h)
    BY <1>0, <2>2, Sizes DEF TypeOK, SetValue, Main, Pc, timer
  <2>3. CASE \E s \in Servos, m \in Modes : SetMode(s, m)
    BY <1>0, <2>3 DEF TypeOK, SetMode, Main, Pc, timer, pins
  <2>4. CASE CameraPins
    BY <1>0, <2>4 DEF TypeOK, CameraPins, Main, Pc, timer
  <2>5. QED BY <1>4, <2>1, <2>2, <2>3, <2>4 DEF Call
<1>5. CASE InCall
  <2>1. CASE OffMask
    BY <1>0, <2>1 DEF TypeOK, OffMask, Main, Pc, timer, pins
  <2>2. CASE OffVic
    BY <1>0, <2>2 DEF TypeOK, OffVic, Main, Pc, timer, pins
  <2>3. CASE OffLow
    BY <1>0, <2>3, Sizes DEF TypeOK, OffLow, Main, Pc, timer
  <2>4. CASE OnMask
    BY <1>0, <2>4 DEF TypeOK, OnMask, Main, Pc, InitPcs, timer, pins
  <2>5. CASE ServoInit
    <3>1. tc' \in 0..MaxTC /\ mr0' \in 0..CYCLE
      BY <1>0, <2>5, Sizes DEF TypeOK, ServoInit, InitStop, InitIr, InitMr0, InitGo, InitVic,
         timer
    <3>2. QED
      BY <1>0, <2>5, <3>1 DEF TypeOK, ServoInit, InitStop, InitIr, InitMr0, InitGo, InitVic,
         Main, Pc, InitPcs, timer, pins
  <2>6. CASE SetDir
    BY <1>0, <2>6, NoCallType DEF TypeOK, SetDir, Main, Pc, timer
  <2>7. QED BY <1>5, <2>1, <2>2, <2>3, <2>4, <2>5, <2>6 DEF InCall
<1>6. CASE UNCHANGED vars
  BY <1>0, <1>6 DEF TypeOK, vars
<1>7. QED
  BY <1>0, <1>1, <1>2, <1>3, <1>4, <1>5, <1>6 DEF Next

(* Every step keeps what main's place says of its call and of the pins.      *)
LEMMA CallStep == TypeOK /\ CallInv /\ [Next]_vars => CallInv'
<1>0. SUFFICES ASSUME TypeOK, CallInv, [Next]_vars PROVE CallInv'
  OBVIOUS
<1>1. CASE Tick \/ TimerIrq \/ OtherIrq \/ Leave \/ UNCHANGED vars
  <2>1. UNCHANGED <<pc, arg, mask, out>>
    BY <1>1 DEF Tick, TimerIrq, OtherIrq, Enter, Leave, vars, pins
  <2>2. QED BY <1>0, <2>1 DEF CallInv, InitPcs
<1>2. CASE Call
  <2>1. CASE \E s \in Servos, p \in Positions : SetPosition(s, p)
    BY <1>0, <2>1 DEF CallInv, SetPosition, Main, InitPcs, pins
  <2>2. CASE \E s \in Servos, h \in BOOLEAN : SetValue(s, h)
    BY <1>0, <2>2 DEF CallInv, SetValue, Main, InitPcs
  <2>3. CASE \E s \in Servos, m \in Modes : SetMode(s, m)
    BY <1>0, <2>3 DEF TypeOK, CallInv, SetMode, Main, InitPcs, pins
  <2>4. CASE CameraPins
    BY <1>0, <2>4 DEF TypeOK, CallInv, CameraPins, Main, InitPcs
  <2>5. QED BY <1>2, <2>1, <2>2, <2>3, <2>4 DEF Call
<1>3. CASE InCall
  <2>1. CASE OffMask
    BY <1>0, <2>1 DEF TypeOK, CallInv, OffMask, Main, InitPcs, pins
  <2>2. CASE OffVic
    BY <1>0, <2>2 DEF CallInv, OffVic, Main, InitPcs, pins
  <2>3. CASE OffLow
    BY <1>0, <2>3 DEF CallInv, OffLow, Main, InitPcs
  <2>4. CASE OnMask
    BY <1>0, <2>4 DEF TypeOK, CallInv, OnMask, Main, InitPcs, pins
  <2>5. CASE ServoInit
    BY <1>0, <2>5 DEF CallInv, ServoInit, InitStop, InitIr, InitMr0, InitGo, InitVic,
       Main, InitPcs, pins
  <2>6. CASE SetDir
    BY <1>0, <2>6 DEF TypeOK, CallInv, SetDir, Main, InitPcs
  <2>7. QED BY <1>3, <2>1, <2>2, <2>3, <2>4, <2>5, <2>6 DEF InCall
<1>4. QED
  BY <1>0, <1>1, <1>2, <1>3 DEF Next

(* Every step keeps the timer running while a servo is enabled.              *)
LEMMA TimerStep == TypeOK /\ CallInv /\ TimerInv /\ [Next]_vars => TimerInv'
<1>0. SUFFICES ASSUME TypeOK, CallInv, TimerInv, [Next]_vars PROVE TimerInv'
  OBVIOUS
<1>1. CASE Tick
  BY <1>0, <1>1 DEF TypeOK, TimerInv, Tick, InHandler, InitPcs
<1>2. CASE TimerIrq \/ OtherIrq
  BY <1>0, <1>2 DEF TimerInv, TimerIrq, OtherIrq, Enter, InitPcs, timer
<1>3. CASE Leave
  BY <1>0, <1>3 DEF TimerInv, Leave, InHandler, InitPcs
<1>4. CASE Call
  BY <1>0, <1>4 DEF TimerInv, Call, SetPosition, SetValue, SetMode, CameraPins, Main,
     InHandler, InitPcs, timer
<1>5. CASE InCall
  <2>1. CASE OffMask \/ OffVic \/ OffLow \/ SetDir
    BY <1>0, <2>1 DEF CallInv, TimerInv, OffMask, OffVic, OffLow, SetDir, Main, InHandler,
       InitPcs, timer
  <2>2. CASE OnMask
    BY <1>0, <2>2 DEF CallInv, TimerInv, OnMask, Main, InHandler, InitPcs, timer
  <2>3. CASE InitStop \/ InitIr \/ InitMr0
    BY <1>0, <2>3 DEF TimerInv, InitStop, InitIr, InitMr0, Main, InHandler, InitPcs, timer
  <2>4. CASE InitGo \/ InitVic
    BY <1>0, <2>4 DEF TimerInv, InitGo, InitVic, Main, InHandler, InitPcs, timer
  <2>5. QED BY <1>5, <2>1, <2>2, <2>3, <2>4 DEF InCall, ServoInit
<1>6. CASE UNCHANGED vars
  BY <1>0, <1>6 DEF TimerInv, InHandler, InitPcs, vars
<1>7. QED
  BY <1>0, <1>1, <1>2, <1>3, <1>4, <1>5, <1>6 DEF Next

(* Every step keeps pins that are no servo without a pulse.                  *)
LEMMA RestStep == TypeOK /\ CallInv /\ RestInv /\ [Next]_vars => RestInv'
<1>0. SUFFICES ASSUME TypeOK, CallInv, RestInv, [Next]_vars PROVE RestInv'
  OBVIOUS
<1>1. CASE Tick
  <2>1. \A s \in Servos : pulse[s] = -1 => pulse'[s] = -1
    BY <1>0, <1>1 DEF TypeOK, Tick
  <2>2. QED BY <1>0, <1>1, <2>1 DEF RestInv, Tick
<1>2. CASE TimerIrq \/ OtherIrq \/ UNCHANGED vars
  BY <1>0, <1>2 DEF RestInv, TimerIrq, OtherIrq, Enter, vars
<1>3. CASE Leave
  <2>1. \A s \in Servos \ mask : pulse[s] = -1 => pulse'[s] = -1
    BY <1>0, <1>3 DEF TypeOK, Leave, Rise, Fall
  <2>2. \A s \in Servos \ mask : pulse'[s] # -1 => pulse[s] # -1
    BY <2>1
  <2>3. QED BY <1>0, <1>3, <2>2 DEF RestInv, Leave
<1>4. CASE Call
  BY <1>0, <1>4 DEF TypeOK, RestInv, Call, SetPosition, SetValue, SetMode, CameraPins, Main
<1>5. CASE InCall
  <2>1. CASE OffMask
    BY <1>0, <2>1 DEF TypeOK, CallInv, RestInv, OffMask, Main
  <2>2. CASE OffVic
    BY <1>0, <2>2 DEF RestInv, OffVic, Main
  <2>3. CASE OffLow
    BY <1>0, <2>3 DEF TypeOK, RestInv, OffLow, Main
  <2>4. CASE OnMask \/ ServoInit \/ SetDir
    BY <1>0, <2>4 DEF RestInv, OnMask, ServoInit, InitStop, InitIr, InitMr0, InitGo,
       InitVic, SetDir, Main
  <2>5. QED BY <1>5, <2>1, <2>2, <2>3, <2>4 DEF InCall
<1>6. QED
  BY <1>0, <1>1, <1>2, <1>3, <1>4, <1>5 DEF Next

(* A pulse that is falling is no longer than a full one and the delay.       *)
LEMMA FallingBound ==
  ASSUME TypeOK, NEW s \in Servos, Falling(s)
  PROVE  /\ tmp[s] \in 0..RES /\ tc \in Nat /\ mr0 \in Nat /\ late \in Nat
         /\ pulse[s] = tc /\ tc <= 2 * RES + Slack
<1>1. tmp[s] \in 0..RES /\ tc \in Nat /\ mr0 \in Nat /\ late \in Nat /\ ct \in Int
  BY Sizes DEF TypeOK
<1>2. pulse[s] = tc
  BY DEF Falling
<1>3. CASE InHandler
  BY <1>1, <1>2, <1>3, Sizes DEF Falling
<1>4. CASE ~InHandler
  BY <1>1, <1>2, <1>4, Sizes DEF Falling
<1>5. QED BY <1>1, <1>2, <1>3, <1>4

(* The counter moves on under a pulse.                                       *)
LEMMA TickPulse ==
  ASSUME IInv, Tick, ~raced, NEW s \in mask, pulse'[s] # -1
  PROVE  Falling(s)'
<1>1. s \in Servos /\ pulse[s] # -1
  BY DEF IInv, TypeOK, Tick
<1>2. Falling(s)
  BY <1>1 DEF IInv, PulseInv
<1>3. /\ tmp[s] \in 0..RES /\ tc \in Nat /\ mr0 \in Nat /\ late \in Nat /\ ct \in Int
      /\ pulse[s] = tc /\ tc <= 2 * RES + Slack
  BY <1>1, <1>2, FallingBound DEF IInv, TypeOK
<1>4. tc # MaxTC /\ pulse[s] # LongPulse
  BY <1>3, Sizes
<1>5. tc' = tc + 1 /\ pulse'[s] = tc'
  BY <1>1, <1>3, <1>4 DEF Tick, IInv, TypeOK
<1>6. pc \notin InitPcs /\ vic
  BY <1>1 DEF IInv, PulseInv, TimerInv
<1>7. UNCHANGED <<mr0, tmp, ct>> /\ (InHandler' <=> InHandler)
  BY DEF Tick, InHandler
<1>8. CASE InHandler
  <2>1. late' = late + 1 /\ late' <= MaxService
    BY <1>3, <1>8, Sizes DEF Tick
  <2>2. QED
    BY <1>2, <1>3, <1>5, <1>7, <1>8, <2>1 DEF Falling
<1>9. CASE ~InHandler /\ ir
  <2>1. late' = late + 1 /\ late' <= MaxLate
    BY <1>3, <1>6, <1>9, Sizes DEF Tick, IrqPending
  <2>2. ir'
    BY <1>9, Zenon DEF Tick
  <2>3. QED
    BY <1>2, <1>3, <1>5, <1>7, <1>9, <2>1, <2>2 DEF Falling
<1>10. CASE ~InHandler /\ ~ir
  <2>1. tc < mr0 /\ RES <= mr0 /\ mr0 <= RES + tmp[s]
    BY <1>2, <1>10 DEF Falling
  <2>2. CASE tc' = mr0
    <3>1. ir'
      BY <1>4, <2>2, Zenon DEF Tick
    <3>2. late' = 0
      BY <1>10 DEF Tick, IrqPending
    <3>3. QED
      BY <1>3, <1>5, <1>7, <1>10, <2>1, <2>2, <3>1, <3>2, Sizes DEF Falling
  <2>3. CASE tc' # mr0
    <3>1. ~ir'
      BY <1>10, <2>3, Zenon DEF Tick
    <3>2. QED
      BY <1>3, <1>5, <1>7, <1>10, <2>1, <2>3, <3>1 DEF Falling
  <2>4. QED BY <2>2, <2>3
<1>11. QED BY <1>8, <1>9, <1>10

(* The handler is called when the match was met.                             *)
LEMMA EnterPulse ==
  ASSUME IInv, Enter, ~raced, NEW s \in mask, pulse[s] # -1
  PROVE  Falling(s)'
<1>1. s \in Servos /\ Falling(s)
  BY DEF IInv, TypeOK, PulseInv
<1>2. /\ tmp[s] \in 0..RES /\ tc \in Nat /\ mr0 \in Nat /\ late \in Nat
      /\ pulse[s] = tc
  BY <1>1, FallingBound DEF IInv
<1>3. RES <= mr0 /\ mr0 <= RES + tmp[s] /\ tc = mr0 + late /\ late <= MaxLate
  BY <1>1 DEF Enter, Falling
<1>4. InHandler'
  BY <1>2 DEF Enter, InHandler
<1>5. QED
  BY <1>2, <1>3, <1>4, Sizes DEF Enter, Falling, timer

(* The handler ends: a pulse under way keeps its edge ahead of the counter,  *)
(* and a new one gets it.                                                    *)
LEMMA LeavePulse ==
  ASSUME IInv, Punctual, Leave, ~raced, NEW s \in mask, pulse'[s] # -1
  PROVE  Falling(s)'
<1>1. s \in Servos /\ TypeOK /\ ~InHandler' /\ ~ir' /\ InHandler
  BY DEF IInv, TypeOK, Leave, InHandler
<1>2. CASE NewCycle
  <2>1. pulse[s] = -1
    <3>1. SUFFICES ASSUME pulse[s] # -1 PROVE FALSE
      OBVIOUS
    <3>2. Falling(s)
      BY <3>1 DEF IInv, PulseInv
    <3>3. tmp[s] \in 0..RES /\ ct \in Int /\ ct <= RES + tmp[s] + MaxLate
      BY <1>1, <3>2, FallingBound DEF Falling, TypeOK
    <3>4. QED
      BY <1>2, <3>3, Sizes DEF NewCycle
  <2>2. tc' = 0 /\ mr0' = RES /\ pulse'[s] = 0 /\ tmp'[s] = val[s]
    BY <1>1, <1>2, <2>1 DEF Leave, Rise, TypeOK
  <2>3. val[s] \in 0..RES
    BY <1>1 DEF TypeOK
  <2>4. QED
    BY <1>1, <2>2, <2>3, Sizes DEF Falling
<1>3. CASE ~NewCycle
  <2>1. Fall
    BY <1>3 DEF Leave
  <2>2. pulse'[s] = pulse[s] /\ ~Lowers(s)
    BY <1>1, <2>1 DEF Fall, TypeOK
  <2>3. Falling(s)
    BY <2>2 DEF IInv, PulseInv
  <2>4. /\ tmp[s] \in 0..RES /\ ct \in Int /\ tc \in Nat /\ late \in Nat /\ pulse[s] = tc
        /\ RES <= ct /\ tc = ct + late /\ late <= 1
    BY <1>1, <2>3, FallingBound, Sizes DEF Falling, TypeOK, Punctual
  <2>5. Passed = ct + 1 - RES
    BY <2>4, Sizes DEF Passed
  <2>6. tmp[s] > Passed
    BY <2>2, <2>4, <2>5, Sizes DEF Lowers
  <2>7. PICK m \in {tmp[t] : t \in {u \in Servos : tmp[u] > Passed}} :
          m <= tmp[s] /\ mr0' = RES + m
    BY <1>1, <2>1, <2>6 DEF Fall
  <2>8. m \in 0..RES /\ m > Passed
    BY <1>1, <2>7 DEF TypeOK
  <2>9. tc' = tc /\ tmp' = tmp
    BY <2>1 DEF Fall
  <2>10. QED
    BY <1>1, <2>2, <2>4, <2>5, <2>7, <2>8, <2>9, Sizes DEF Falling
<1>4. QED BY <1>2, <1>3

(* A step that leaves the timer and the handler alone leaves the pulses of   *)
(* the servos that stay.                                                     *)
LEMMA StillPulse ==
  ASSUME IInv, ~raced, UNCHANGED <<timer, tmp, ct, late>>,
         \A s \in mask' : pulse'[s] # -1 => s \in mask /\ pulse'[s] = pulse[s]
  PROVE  \A s \in mask' : pulse'[s] # -1 => Falling(s)'
<1>1. SUFFICES ASSUME NEW s \in mask', pulse'[s] # -1 PROVE Falling(s)'
  OBVIOUS
<1>2. Falling(s) /\ pulse'[s] = pulse[s]
  BY <1>1 DEF IInv, PulseInv
<1>3. QED
  BY <1>2 DEF Falling, InHandler, timer

(* Every step of a handler that is punctual keeps the pulses.                *)
LEMMA PulseStep == IInv /\ Punctual /\ [Next]_vars => PulseInv'
<1>0. SUFFICES ASSUME IInv, Punctual, [Next]_vars, ~raced' PROVE PulseInv'
  BY DEF PulseInv
<1>1. CASE Tick
  <2>1. ~raced /\ mask' = mask /\ pc' = pc /\ ct' = ct
    BY <1>0, <1>1 DEF Tick
  <2>2. \A s \in Servos : pulse[s] = -1 => pulse'[s] = -1
    BY <1>0, <1>1 DEF IInv, TypeOK, Tick
  <2>3. \A s \in mask : pulse'[s] # -1 => Falling(s)'
    BY <1>0, <1>1, <2>1, TickPulse
  <2>4. QED
    BY <1>0, <2>1, <2>2, <2>3 DEF IInv, PulseInv, InHandler, InitPcs
<1>2. CASE TimerIrq \/ OtherIrq
  <2>1. Enter
    BY <1>2 DEF TimerIrq, OtherIrq
  <2>2. ~raced /\ pc \notin InitPcs /\ pc' = pc /\ mask' = mask /\ pulse' = pulse
    BY <1>0, <2>1 DEF Enter, IInv, TimerInv, InitPcs
  <2>3. \A s \in mask : pulse[s] # -1 => Falling(s)'
    BY <1>0, <2>1, <2>2, EnterPulse
  <2>4. QED
    BY <2>2, <2>3 DEF PulseInv, InitPcs
<1>3. CASE Leave
  <2>1. ~raced /\ mask' = mask /\ pc' = pc
    BY <1>0, <1>3 DEF Leave
  <2>2. pc \notin InitPcs
    BY <1>0, <1>3, <2>1 DEF Leave, IInv, PulseInv
  <2>3. \A s \in mask : pulse'[s] # -1 => Falling(s)'
    BY <1>0, <1>3, <2>1, LeavePulse
  <2>4. QED
    BY <2>1, <2>2, <2>3 DEF PulseInv, InitPcs
<1>4. CASE Call
  <2>1. UNCHANGED <<timer, tmp, ct, late, mask>> /\ raced' = raced /\ pc' \notin InitPcs
    BY <1>4 DEF Call, SetPosition, SetValue, SetMode, CameraPins, Main, InitPcs
  <2>2. \A s \in Servos : pulse'[s] # -1 => pulse'[s] = pulse[s]
    BY <1>0, <1>4 DEF IInv, TypeOK, Call, SetPosition, SetValue, SetMode, CameraPins
  <2>3. \A s \in mask' : pulse'[s] # -1 => Falling(s)'
    BY <1>0, <2>1, <2>2, StillPulse DEF IInv, TypeOK
  <2>4. QED BY <2>1, <2>3 DEF PulseInv
<1>5. CASE InCall
  <2>1. CASE OffMask \/ OffVic \/ OffLow \/ SetDir
    <3>1. /\ UNCHANGED <<timer, tmp, ct, late>> /\ raced' = raced /\ pc' \notin InitPcs
          /\ mask' \subseteq mask
      BY <2>1 DEF OffMask, OffVic, OffLow, SetDir, Main, InitPcs
    <3>2. \A s \in Servos : pulse'[s] # -1 => pulse'[s] = pulse[s]
      BY <1>0, <2>1 DEF IInv, TypeOK, OffMask, OffVic, OffLow, SetDir
    <3>3. \A s \in mask' : pulse'[s] # -1 => Falling(s)'
      BY <1>0, <3>1, <3>2, StillPulse DEF IInv, TypeOK
    <3>4. QED BY <3>1, <3>3 DEF PulseInv
  <2>2. CASE OnMask
    <3>1. /\ UNCHANGED <<timer, tmp, ct, late, pulse>> /\ raced' = raced /\ ~InHandler
          /\ mask' = mask \cup {arg.pin} /\ pc = "on_mask"
          /\ pc' = (IF mask = {} THEN "init_stop" ELSE "dir")
      BY <2>2 DEF OnMask, Main
    <3>2. \A s \in Servos \ mask : pulse[s] = -1
      BY <1>0, <3>1 DEF IInv, RestInv
    <3>3. arg.pin \in Servos
      BY <1>0 DEF IInv, TypeOK
    <3>4. \A s \in mask' : pulse'[s] # -1 => Falling(s)'
      BY <1>0, <3>1, <3>2, <3>3, StillPulse
    <3>5. pc' \in InitPcs => ~InHandler' /\ \A s \in Servos : pulse'[s] = -1
      BY <3>1, <3>2 DEF InHandler, InitPcs
    <3>6. QED BY <3>4, <3>5 DEF PulseInv
  <2>3. CASE ServoInit
    <3>1. /\ UNCHANGED <<mask, pulse, ct>> /\ raced' = raced /\ pc \in InitPcs
      BY <2>3 DEF ServoInit, InitStop, InitIr, InitMr0, InitGo, InitVic, Main, InitPcs
    <3>2. ~InHandler /\ \A s \in Servos : pulse[s] = -1
      BY <1>0, <3>1 DEF IInv, PulseInv
    <3>3. QED
      BY <1>0, <3>1, <3>2 DEF PulseInv, InHandler, IInv, TypeOK
  <2>4. QED BY <1>5, <2>1, <2>2, <2>3 DEF InCall
<1>6. CASE UNCHANGED vars
  BY <1>0, <1>6 DEF IInv, PulseInv, Falling, InHandler, InitPcs, vars
<1>7. QED
  BY <1>0, <1>1, <1>2, <1>3, <1>4, <1>5, <1>6 DEF Next

LEMMA InitIInv == Init => IInv
<1>0. SUFFICES ASSUME Init PROVE IInv
  OBVIOUS
<1>1. TypeOK
  <2>1. [s \in Servos |-> RES \div 2] \in [Servos -> 0..RES]
    BY Sizes
  <2>2. [s \in Servos |-> -1] \in [Servos -> -1..LongPulse]
    BY Sizes
  <2>3. arg \in [pin : Servos, mode : Modes]
    BY <1>0, NoCallType DEF Init
  <2>4. val \in [Servos -> 0..RES] /\ pulse \in [Servos -> -1..LongPulse]
    BY <1>0, <2>1, <2>2, Zenon DEF Init
  <2>5. running \in BOOLEAN /\ ir \in BOOLEAN /\ vic \in BOOLEAN /\ raced \in BOOLEAN
    BY <1>0, Zenon DEF Init
  <2>6. /\ tc \in 0..MaxTC /\ mr0 \in 0..CYCLE /\ ct \in -1..MaxTC /\ late \in 0..Slack
        /\ tmp \in [Servos -> 0..RES]
    BY <1>0, Sizes DEF Init
  <2>7. mask \subseteq Servos /\ latch \subseteq Servos /\ out \subseteq Servos /\ pc \in Pc
    BY <1>0 DEF Init, Pc
  <2>8. QED
    BY <2>3, <2>4, <2>5, <2>6, <2>7 DEF TypeOK
<1>2. CallInv /\ TimerInv /\ RestInv /\ PulseInv
  BY <1>0 DEF Init, CallInv, TimerInv, RestInv, PulseInv, InitPcs
<1>3. QED BY <1>1, <1>2 DEF IInv

(* The invariant, for a handler that is punctual.                            *)
THEOREM IInvInvariant == ASSUME Punctual PROVE Spec => []IInv
<1>1. IInv /\ [Next]_vars => IInv'
  BY TypeStep, CallStep, TimerStep, RestStep, PulseStep DEF IInv
<1>2. QED
  BY <1>1, InitIInv, PTL DEF Spec

(* Types, calls and pins do not depend on how long the handler takes.        *)
LEMMA CallsHold == Spec => [](TypeOK /\ CallInv)
<1>1. Init => TypeOK /\ CallInv
  BY InitIInv DEF IInv
<1>2. TypeOK /\ CallInv /\ [Next]_vars => (TypeOK /\ CallInv)'
  BY TypeStep, CallStep
<1>3. QED
  BY <1>1, <1>2, PTL DEF Spec

(* servo.c, _cc3_servo_int and the calls: every register and variable keeps  *)
(* its range; in particular the match register stays within a cycle.         *)
THEOREM TypeOKHolds == Spec => []TypeOK
BY CallsHold, PTL

(* Every step keeps a pin taken from the servos low until the call ends: it  *)
(* is out of the mask by then, so the handler does not raise it.             *)
LEMMA OffIsLowStep == TypeOK /\ CallInv /\ OffIsLow /\ [Next]_vars => OffIsLow'
<1>0. SUFFICES ASSUME TypeOK, CallInv, OffIsLow, [Next]_vars,
                      pc' = "dir" /\ arg'.mode # "SERVO"
               PROVE  arg'.pin \notin latch'
  BY DEF OffIsLow
<1>1. CASE Tick \/ TimerIrq \/ OtherIrq \/ UNCHANGED vars
  <2>1. UNCHANGED <<pc, arg, latch>>
    BY <1>1 DEF Tick, TimerIrq, OtherIrq, Enter, vars, pins
  <2>2. QED BY <1>0, <2>1 DEF OffIsLow
<1>2. CASE Leave
  <2>1. pc = "dir" /\ arg' = arg /\ arg.mode # "SERVO"
    BY <1>0, <1>2 DEF Leave
  <2>2. arg.pin \notin latch /\ arg.pin \notin mask
    BY <1>0, <2>1 DEF OffIsLow, CallInv
  <2>3. latch' \subseteq latch \cup mask
    BY <1>2 DEF Leave, Rise, Fall
  <2>4. QED BY <2>1, <2>2, <2>3
<1>3. CASE Call
  BY <1>0, <1>3 DEF Call, SetPosition, SetValue, SetMode, CameraPins, Main
<1>4. CASE InCall
  <2>1. CASE OffLow
    BY <2>1 DEF OffLow
  <2>2. CASE OffMask \/ OffVic \/ SetDir
    BY <1>0, <2>2 DEF OffMask, OffVic, SetDir, Main
  <2>3. CASE OnMask \/ ServoInit
    BY <1>0, <2>3 DEF CallInv, OnMask, ServoInit, InitStop, InitIr, InitMr0, InitGo,
       InitVic, Main, InitPcs
  <2>4. QED BY <1>4, <2>1, <2>2, <2>3 DEF InCall
<1>5. QED
  BY <1>0, <1>1, <1>2, <1>3, <1>4 DEF Next

(* _cc3_servo_enable (pin, false): the pin is low when the mode is set,      *)
(* however often and late the handler ran.                                   *)
THEOREM OffIsLowHolds == Spec => []OffIsLow
<1>1. Init => OffIsLow
  BY DEF Init, OffIsLow
<1>2. QED
  BY <1>1, OffIsLowStep, CallsHold, PTL DEF Spec

(* cc3_gpio_set_mode and the camera setters, which share GPIO_IODIR, leave   *)
(* every servo pin an output between calls.                                  *)
THEOREM ServosDriveHolds == Spec => []ServosDrive
<1>1. CallInv => ServosDrive
  BY DEF CallInv, ServosDrive
<1>2. QED
  BY <1>1, CallsHold, PTL

(* _cc3_servo_int: the handler neither raises nor lowers a pin outside the   *)
(* mask it reads.                                                            *)
THEOREM HandlerSparesOthersHolds == Spec => HandlerSparesOthers
<1>1. [Next]_vars =>
        [Leave => \A s \in Servos \ mask : s \in latch <=> s \in latch']_vars
  BY DEF Leave, Rise, Fall, Lowers
<1>2. QED
  BY <1>1, PTL DEF Spec, HandlerSparesOthers

(* _cc3_servo_int: with the handler punctual, no pulse outlasts the longest  *)
(* one and the delay: the edge that ends it is always ahead of the counter.  *)
THEOREM PulseBoundedHolds == ASSUME Punctual PROVE Spec => []PulseBounded
<1>1. IInv => PulseBounded
  <2>1. SUFFICES ASSUME IInv, NEW s \in mask, ~raced PROVE pulse[s] <= 2 * RES + Slack
    BY DEF PulseBounded
  <2>2. s \in Servos
    BY <2>1 DEF IInv, TypeOK
  <2>3. CASE pulse[s] = -1
    BY <2>3, Sizes
  <2>4. CASE pulse[s] # -1
    BY <2>1, <2>2, <2>4, FallingBound DEF IInv, PulseInv
  <2>5. QED BY <2>3, <2>4
<1>2. QED
  BY <1>1, IInvInvariant, PTL

(* _cc3_servo_int: with the handler punctual, a pulse that it ends has the   *)
(* length of the position in servo_tmp, within the margins named.            *)
THEOREM PulseIsPositionHolds == ASSUME Punctual PROVE Spec => PulseIsPosition
<1>1. ASSUME IInv, Leave, ~raced, NEW s \in Servos, pulse[s] >= 0, pulse'[s] = -1
      PROVE  RES + tmp[s] - 1 <= pulse[s] /\ pulse[s] <= RES + tmp[s] + Slack
  <2>0. TypeOK /\ pulse[s] \in Int /\ InHandler
    BY <1>1 DEF IInv, TypeOK, Leave
  <2>1. ~NewCycle
    <3>1. SUFFICES ASSUME NewCycle PROVE FALSE
      OBVIOUS
    <3>2. pulse'[s] \in {0, pulse[s]}
      BY <1>1, <2>0, <3>1 DEF Leave, Rise
    <3>3. QED BY <1>1, <2>0, <3>2
  <2>2. Lowers(s)
    BY <1>1, <2>0, <2>1 DEF Leave, Fall
  <2>3. Falling(s)
    BY <1>1, <2>0, <2>2 DEF IInv, PulseInv, Lowers
  <2>4. /\ tmp[s] \in 0..RES /\ ct \in Int /\ late \in Nat /\ pulse[s] = tc
        /\ RES <= ct /\ ct <= RES + tmp[s] + MaxLate
        /\ tc = ct + late /\ late <= MaxService
    BY <2>0, <2>3, FallingBound DEF Falling, TypeOK
  <2>5. tmp[s] <= ct + 1 - RES
    BY <2>2, <2>4, Sizes DEF Lowers, Passed
  <2>6. QED
    BY <2>4, <2>5, Sizes
<1>2. IInv /\ [Next]_vars =>
        [\A s \in Servos :
           Leave /\ ~raced /\ pulse[s] >= 0 /\ pulse'[s] = -1
             => RES + tmp[s] - 1 <= pulse[s] /\ pulse[s] <= RES + tmp[s] + Slack]_vars
  BY <1>1
<1>3. QED
  BY <1>2, IInvInvariant, PTL DEF Spec, PulseIsPosition
=============================================================================
