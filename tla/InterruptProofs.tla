--------------------------- MODULE InterruptProofs ---------------------------
(***************************************************************************)
(* Proofs about the two sources that interrupt() of lib/cc3/interrupt.c    *)
(* serves: Capture (EINT0), for every number of lines, and Button (EINT1). *)
(* For each the inductive invariant IInv and what follows from it.         *)
(***************************************************************************)
EXTENDS Capture, Button, TLAPS

LEMMA InitIInv == Init => IInv
<1>0. SUFFICES ASSUME Init PROVE IInv
  OBVIOUS
<1>1. PinsOK
  BY <1>0, Zenon DEF Init, PinsOK
<1>2. store \in [Line -> Content]
  BY <1>0 DEF Init, Content
<1>3. TypeOK
  BY <1>0, <1>1, <1>2, CaptureAssumption DEF Init, TypeOK, Line, Content
<1>4. SignalInv /\ StartInv
  BY <1>0 DEF Init, SignalInv, StartInv
<1>5. OneFrame
  BY <1>0 DEF Init, OneFrame
<1>6. OpenInv
  BY <1>0, CaptureAssumption DEF Init, OpenInv
<1>7. QED
  BY <1>3, <1>4, <1>5, <1>6 DEF IInv

(* Every step keeps the pins, flags and histories Boolean.                   *)
LEMMA PinsOKStep == PinsOK /\ [Next]_vars => PinsOK'
<1>0. SUFFICES ASSUME PinsOK, [Next]_vars PROVE PinsOK'
  OBVIOUS
<1> USE DEF PinsOK, camera, irq, writer, main
<1>1. CASE VsyncFall
  BY <1>0, <1>1, Zenon DEF VsyncFall
<1>2. CASE VsyncRise
  BY <1>0, <1>2, Zenon DEF VsyncRise
<1>3. CASE HrefRise
  BY <1>0, <1>3, Zenon DEF HrefRise
<1>4. CASE HrefFall
  BY <1>0, <1>4, Zenon DEF HrefFall
<1>5. CASE Latch
  BY <1>0, <1>5, Zenon DEF Latch
<1>6. CASE VrefIrq
  BY <1>0, <1>6, Zenon DEF VrefIrq
<1>7. CASE Load
  BY <1>0, <1>7, Zenon DEF Load
<1>8. CASE SawHigh
  BY <1>0, <1>8, Zenon DEF SawHigh
<1>9. CASE SawLow
  BY <1>0, <1>9, Zenon DEF SawLow
<1>10. CASE Open
  BY <1>0, <1>10, Zenon DEF Open
<1>11. CASE Enable
  BY <1>0, <1>11, Zenon DEF Enable
<1>12. CASE LineBegins
  BY <1>0, <1>12, Zenon DEF LineBegins
<1>13. CASE LineEnds
  BY <1>0, <1>13, Zenon DEF LineEnds
<1>14. CASE Rewind
  BY <1>0, <1>14, Zenon DEF Rewind
<1>15. CASE ReadLine
  BY <1>0, <1>15, Zenon DEF ReadLine
<1>16. CASE UNCHANGED vars
  BY <1>0, <1>16, Zenon DEF vars
<1>17. QED
  BY <1>0, <1>1, <1>2, <1>3, <1>4, <1>5, <1>6, <1>7, <1>8, <1>9, <1>10, <1>11, <1>12, <1>13, <1>14, <1>15, <1>16
     DEF Next, Camera, InLoad

(* Every step keeps the other variables in their types.                      *)
LEMMA TypeOKStep == TypeOK /\ SignalInv /\ StartInv /\ [Next]_vars => TypeOK'
<1>0. SUFFICES ASSUME TypeOK, SignalInv, StartInv, [Next]_vars PROVE TypeOK'
  OBVIOUS
<1>p. PinsOK'
  BY <1>0, PinsOKStep DEF TypeOK
<1> USE CaptureAssumption DEF TypeOK, camera, irq, writer, main, Main
<1>1. CASE VsyncFall
  BY <1>0, <1>p, <1>1 DEF VsyncFall
<1>2. CASE VsyncRise
  BY <1>0, <1>p, <1>2 DEF VsyncRise
<1>3. CASE HrefRise
  BY <1>0, <1>p, <1>3 DEF HrefRise
<1>4. CASE HrefFall
  BY <1>0, <1>p, <1>4 DEF HrefFall, Line, Content, SignalInv
<1>5. CASE Latch
  BY <1>0, <1>p, <1>5 DEF Latch
<1>6. CASE VrefIrq
  BY <1>0, <1>p, <1>6 DEF VrefIrq, Line
<1>7. CASE Load
  BY <1>0, <1>p, <1>7 DEF Load, Line, Content, Old, Later
<1>8. CASE SawHigh
  BY <1>0, <1>p, <1>8 DEF SawHigh
<1>9. CASE SawLow
  BY <1>0, <1>p, <1>9 DEF SawLow
<1>10. CASE Open
  BY <1>0, <1>p, <1>10 DEF Open
<1>11. CASE Enable
  BY <1>0, <1>p, <1>11 DEF Enable
<1>12. CASE LineBegins
  BY <1>0, <1>p, <1>12 DEF LineBegins
<1>13. CASE LineEnds
  BY <1>0, <1>p, <1>13 DEF LineEnds, StartInv
<1>14. CASE Rewind
  BY <1>0, <1>p, <1>14 DEF Rewind, StartInv
<1>15. CASE ReadLine
  BY <1>0, <1>p, <1>15 DEF ReadLine, Line
<1>16. CASE UNCHANGED vars
  BY <1>0, <1>p, <1>16 DEF vars
<1>17. QED
  BY <1>0, <1>1, <1>2, <1>3, <1>4, <1>5, <1>6, <1>7, <1>8, <1>9, <1>10, <1>11, <1>12, <1>13, <1>14, <1>15, <1>16
     DEF Next, Camera, InLoad

(* Every step keeps the signals in order.                                    *)
LEMMA SignalInvStep == IInv /\ [Next]_vars => SignalInv'
<1>0. SUFFICES ASSUME IInv, [Next]_vars PROVE SignalInv'
  OBVIOUS
<1> USE CaptureAssumption DEF IInv, TypeOK, PinsOK, camera, irq, writer, main, Main,
    SignalInv, CameraTurn, IrqPending, Waits, Unlatched
<1>1. CASE VsyncFall
  BY <1>0, <1>1 DEF VsyncFall
<1>2. CASE VsyncRise
  BY <1>0, <1>2 DEF VsyncRise
<1>3. CASE HrefRise
  BY <1>0, <1>3 DEF HrefRise
<1>4. CASE HrefFall
  BY <1>0, <1>4 DEF HrefFall
<1>5. CASE Latch
  BY <1>0, <1>5 DEF Latch
<1>6. CASE VrefIrq
  BY <1>0, <1>6 DEF VrefIrq
<1>7. CASE Load
  BY <1>0, <1>7 DEF Load
<1>8. CASE SawHigh
  BY <1>0, <1>8 DEF SawHigh
<1>9. CASE SawLow
  BY <1>0, <1>9 DEF SawLow
<1>10. CASE Open
  BY <1>0, <1>10 DEF Open
<1>11. CASE Enable
  BY <1>0, <1>11 DEF Enable
<1>12. CASE LineBegins
  BY <1>0, <1>12 DEF LineBegins
<1>13. CASE LineEnds
  BY <1>0, <1>13 DEF LineEnds
<1>14. CASE Rewind
  BY <1>0, <1>14 DEF Rewind
<1>15. CASE ReadLine
  BY <1>0, <1>15 DEF ReadLine
<1>16. CASE UNCHANGED vars
  BY <1>0, <1>16 DEF vars
<1>17. QED
  BY <1>0, <1>1, <1>2, <1>3, <1>4, <1>5, <1>6, <1>7, <1>8, <1>9, <1>10, <1>11, <1>12, <1>13, <1>14, <1>15, <1>16
     DEF Next, Camera, InLoad

(* Every step keeps the FIFO closed and its pointer at 0 before the frame.   *)
LEMMA StartInvStep == IInv /\ [Next]_vars => StartInv'
<1>0. SUFFICES ASSUME IInv, [Next]_vars PROVE StartInv'
  OBVIOUS
<1> USE CaptureAssumption DEF IInv, TypeOK, PinsOK, camera, irq, writer, main, Main,
    StartInv, SignalInv, CameraTurn, IrqPending, Waits, Unlatched
<1>1. CASE VsyncFall
  BY <1>0, <1>1 DEF VsyncFall
<1>2. CASE VsyncRise
  BY <1>0, <1>2 DEF VsyncRise
<1>3. CASE HrefRise
  BY <1>0, <1>3 DEF HrefRise
<1>4. CASE HrefFall
  BY <1>0, <1>4 DEF HrefFall
<1>5. CASE Latch
  BY <1>0, <1>5 DEF Latch
<1>6. CASE VrefIrq
  BY <1>0, <1>6 DEF VrefIrq
<1>7. CASE Load
  BY <1>0, <1>7 DEF Load
<1>8. CASE SawHigh
  BY <1>0, <1>8 DEF SawHigh
<1>9. CASE SawLow
  BY <1>0, <1>9 DEF SawLow
<1>10. CASE Open
  BY <1>0, <1>10 DEF Open
<1>11. CASE Enable
  BY <1>0, <1>11 DEF Enable
<1>12. CASE LineBegins
  BY <1>0, <1>12 DEF LineBegins
<1>13. CASE LineEnds
  BY <1>0, <1>13 DEF LineEnds
<1>14. CASE Rewind
  BY <1>0, <1>14 DEF Rewind
<1>15. CASE ReadLine
  BY <1>0, <1>15 DEF ReadLine
<1>16. CASE UNCHANGED vars
  BY <1>0, <1>16 DEF vars
<1>17. QED
  BY <1>0, <1>1, <1>2, <1>3, <1>4, <1>5, <1>6, <1>7, <1>8, <1>9, <1>10, <1>11, <1>12, <1>13, <1>14, <1>15, <1>16
     DEF Next, Camera, InLoad

(* Every line the FIFO takes is that line of the picture.                    *)
LEMMA OneFrameStep == IInv /\ [Next]_vars => OneFrame'
<1>0. SUFFICES ASSUME IInv, [Next]_vars PROVE OneFrame'
  OBVIOUS
<1> USE CaptureAssumption DEF IInv, TypeOK, PinsOK, camera, irq, writer, main, Main,
    OneFrame
<1>1. CASE VsyncFall
  BY <1>0, <1>1 DEF VsyncFall
<1>2. CASE VsyncRise
  BY <1>0, <1>2 DEF VsyncRise
<1>3. CASE HrefRise
  BY <1>0, <1>3 DEF HrefRise
<1>4. CASE HrefFall
  BY <1>0, <1>4 DEF HrefFall, OpenInv, Opening, Filling, Closing, SignalInv, Line
<1>5. CASE Latch
  BY <1>0, <1>5 DEF Latch
<1>6. CASE VrefIrq
  BY <1>0, <1>6 DEF VrefIrq
<1>7. CASE Load
  BY <1>0, <1>7 DEF Load
<1>8. CASE SawHigh
  BY <1>0, <1>8 DEF SawHigh
<1>9. CASE SawLow
  BY <1>0, <1>9 DEF SawLow
<1>10. CASE Open
  BY <1>0, <1>10 DEF Open
<1>11. CASE Enable
  BY <1>0, <1>11 DEF Enable
<1>12. CASE LineBegins
  BY <1>0, <1>12 DEF LineBegins
<1>13. CASE LineEnds
  BY <1>0, <1>13 DEF LineEnds
<1>14. CASE Rewind
  BY <1>0, <1>14 DEF Rewind
<1>15. CASE ReadLine
  BY <1>0, <1>15 DEF ReadLine
<1>16. CASE UNCHANGED vars
  BY <1>0, <1>16 DEF vars
<1>17. QED
  BY <1>0, <1>1, <1>2, <1>3, <1>4, <1>5, <1>6, <1>7, <1>8, <1>9, <1>10, <1>11, <1>12, <1>13, <1>14, <1>15, <1>16
     DEF Next, Camera, InLoad

(* Every step keeps what is known of the open FIFO.                          *)
LEMMA OpenInvStep == IInv /\ [Next]_vars => OpenInv'
<1>0. SUFFICES ASSUME IInv, [Next]_vars PROVE OpenInv'
  OBVIOUS
<1> USE CaptureAssumption DEF IInv, TypeOK, PinsOK, camera, irq, writer, main, Main,
    OpenInv, Opening, Filling, Closing, Reading, Taken, Full,
    SignalInv, StartInv, CameraTurn, IrqPending, Waits, Unlatched
<1>1. CASE VsyncFall
  <2>1. CASE wee
    <3>1. Filling
      BY <1>0, <1>1, <2>1 DEF VsyncFall
    <3>2. Closing'
      BY <1>0, <1>1, <3>1 DEF VsyncFall, Line
    <3>3. wee' /\ more'
      BY <1>1, <2>1, Zenon DEF VsyncFall
    <3>4. QED
      BY <3>2, <3>3
  <2>2. CASE ~wee
    <3>1. more' = more /\ ~wee'
      BY <1>0, <1>1, <2>2, Zenon DEF VsyncFall
    <3>2. QED
      BY <1>0, <1>1, <2>2, <3>1 DEF VsyncFall
  <2>3. QED
    BY <1>0, <2>1, <2>2
<1>2. CASE VsyncRise
  BY <1>0, <1>2 DEF VsyncRise
<1>3. CASE HrefRise
  BY <1>0, <1>3 DEF HrefRise
<1>4. CASE HrefFall
  <2>1. CASE wee
    <3>1. ~more /\ Filling
      BY <1>0, <1>4, <2>1 DEF HrefFall
    <3>2. /\ wptr = row /\ row < Lines /\ row \in Line
          /\ store' = [store EXCEPT ![row] = row] /\ row' = row + 1
          /\ wptr' = IF row + 1 = Lines THEN 0 ELSE row + 1
      BY <1>0, <1>4, <2>1, <3>1 DEF HrefFall, Line
    <3>3. Taken'
      BY <1>0, <3>1, <3>2 DEF Line
    <3>4. /\ UNCHANGED <<pc, vic, vsync>> /\ UNCHANGED <<wee, more, raced, rptr>>
      BY <1>4, Zenon DEF HrefFall
    <3>5. Filling'
      BY <1>0, <3>1, <3>2, <3>3, <3>4
    <3>6. QED
      BY <2>1, <3>1, <3>4, <3>5
  <2>2. CASE ~wee
    BY <1>0, <1>4, <2>2 DEF HrefFall
  <2>3. QED
    BY <1>0, <2>1, <2>2
<1>5. CASE Latch
  BY <1>0, <1>5 DEF Latch
<1>6. CASE VrefIrq
  BY <1>0, <1>6 DEF VrefIrq
<1>7. CASE Load
  BY <1>0, <1>7 DEF Load
<1>8. CASE SawHigh
  BY <1>0, <1>8 DEF SawHigh
<1>9. CASE SawLow
  BY <1>0, <1>9 DEF SawLow
<1>10. CASE Open
  BY <1>0, <1>10 DEF Open
<1>11. CASE Enable
  <2>1. CASE wee
    <3>1. Opening /\ ~more
      BY <1>0, <1>11, <2>1 DEF Enable
    <3>2. Filling' /\ ~more'
      BY <1>0, <1>11, <3>1 DEF Enable, Line
    <3>3. QED
      BY <1>11, <2>1, <3>2 DEF Enable
  <2>2. CASE ~wee
    BY <1>0, <1>11, <2>2 DEF Enable
  <2>3. QED
    BY <1>0, <2>1, <2>2
<1>12. CASE LineBegins
  BY <1>0, <1>12 DEF LineBegins
<1>13. CASE LineEnds
  BY <1>0, <1>13 DEF LineEnds
<1>14. CASE Rewind
  BY <1>0, <1>14 DEF Rewind
<1>15. CASE ReadLine
  BY <1>0, <1>15 DEF ReadLine
<1>16. CASE UNCHANGED vars
  BY <1>0, <1>16 DEF vars
<1>17. QED
  BY <1>0, <1>1, <1>2, <1>3, <1>4, <1>5, <1>6, <1>7, <1>8, <1>9, <1>10, <1>11, <1>12, <1>13, <1>14, <1>15, <1>16
     DEF Next, Camera, InLoad

LEMMA IInvStep == IInv /\ [Next]_vars => IInv'
<1>0. SUFFICES ASSUME IInv, [Next]_vars PROVE IInv'
  OBVIOUS
<1>1. TypeOK'
  BY <1>0, TypeOKStep DEF IInv
<1>2. QED
  BY <1>0, <1>1, SignalInvStep, StartInvStep, OneFrameStep, OpenInvStep DEF IInv

(* Whatever the number of lines, IInv holds in every state.                  *)
THEOREM IInvInvariant == Spec => []IInv
<1>1. Init => IInv
  BY InitIInv
<1>2. IInv /\ [Next]_vars => IInv'
  BY IInvStep
<1>3. QED
  BY <1>1, <1>2, PTL DEF Spec

(* The variables keep to their types.                                        *)
THEOREM TypeOKHolds == Spec => []TypeOK
<1>1. IInv => TypeOK
  BY DEF IInv
<1>2. QED
  BY <1>1, IInvInvariant, PTL

(* The FIFO never mixes two frames and never starts within one.              *)
THEOREM OneFrameHolds == Spec => []OneFrame
<1>1. IInv => OneFrame
  BY DEF IInv
<1>2. QED
  BY <1>1, IInvInvariant, PTL

(* Only the end of the frame closes the FIFO, but for the race and the next  *)
(* load.                                                                     *)
THEOREM ClosedAtEndHolds == Spec => ClosedAtEnd
<1>1. IInv /\ [Next]_vars => [wee /\ ~wee' => pc' = "high" \/ more \/ raced']_vars
  <2>0. SUFFICES ASSUME IInv, [Next]_vars, wee, ~wee', ~more, pc' # "high"
                 PROVE  raced'
    OBVIOUS
  <2>1. VrefIrq \/ Load
    BY <2>0, Zenon DEF Next, Camera, InLoad, VsyncFall, VsyncRise, HrefRise,
       HrefFall, Latch, SawHigh, SawLow, Open, Enable, LineBegins, LineEnds,
       Rewind, ReadLine, vars, writer
  <2>2. ~Load
    BY <2>0 DEF Load, Main
  <2>3. VrefIrq /\ flag
    BY <2>1, <2>2, Zenon DEF VrefIrq, IrqPending
  <2>4. ~vsync
    BY <2>0, <2>3, Zenon DEF IInv, SignalInv
  <2>5. Opening
    BY <2>0, <2>4, Zenon DEF IInv, OpenInv, Filling
  <2>6. QED
    BY <2>3, <2>5, Zenon DEF VrefIrq, Opening
<1>2. QED
  BY <1>1, IInvInvariant, PTL DEF Spec, ClosedAtEnd

(* A program that does not overtake the writer reads the picture, each line  *)
(* in its place, after every load that was not raced.                        *)
THEOREM ReadIsPictureHolds == Spec => ReadIsPicture
<1>1. IInv /\ [Next]_vars =>
        [rptr' = rptr + 1 /\ pc = "idle" /\ Behind /\ ~raced => got' = rptr]_vars
  <2>0. SUFFICES ASSUME IInv, [Next]_vars, rptr' = rptr + 1, pc = "idle", Behind,
                        ~raced
                 PROVE  got' = rptr
    OBVIOUS
  <2>1. rptr \in Nat
    BY <2>0, CaptureAssumption DEF IInv, TypeOK
  <2>2. ReadLine
    BY <2>0, <2>1 DEF Next, Camera, InLoad, VsyncFall, VsyncRise, HrefRise,
       HrefFall, Latch, VrefIrq, Load, SawHigh, SawLow, Open, Enable,
       LineBegins, LineEnds, Rewind, vars, main, Main
  <2>3. rptr \in Line
    BY <2>1, <2>2, CaptureAssumption DEF ReadLine, Line
  <2>4. store[rptr] = rptr
    <3>1. CASE wee
      <4>1. Filling \/ Closing
        BY <2>0, <3>1, Zenon DEF IInv, OpenInv, Opening
      <4>2. rptr < wptr
        BY <2>0, <3>1 DEF Behind
      <4>3. QED
        BY <2>0, <2>1, <2>3, <4>1, <4>2, CaptureAssumption
           DEF Filling, Closing, Taken, IInv, TypeOK
    <3>2. CASE ~wee
      BY <2>0, <2>2, <2>3, <3>2 DEF IInv, OpenInv, Full, Reading, ReadLine
    <3>3. QED
      BY <3>1, <3>2
  <2>5. QED
    BY <2>2, <2>4 DEF ReadLine
<1>2. QED
  BY <1>1, IInvInvariant, PTL DEF Spec, ReadIsPicture

-----------------------------------------------------------------------------
(* The button.                                                               *)

(* Every step keeps the variables in their types.                            *)
LEMMA ButtonVarTypesStep == VarTypes /\ [ButtonNext]_buttonVars => VarTypes'
<1> SUFFICES ASSUME VarTypes PROVE [ButtonNext]_buttonVars => VarTypes'
  OBVIOUS
<1>0. SUFFICES ASSUME [ButtonNext]_buttonVars PROVE VarTypes'
  OBVIOUS
<1> USE DEF VarTypes, hw, hist
<1>1. CASE Press
  BY <1>1 DEF Press, Eint1Latch
<1>2. CASE Release
  BY <1>2, Zenon DEF Release
<1>3. CASE ButtonIrq \/ OtherIrq
  BY <1>3 DEF ButtonIrq, OtherIrq, ServeButton, PinFunction
<1>4. CASE GetAndResetTrigger
  <2>1. CASE Sample
    BY <2>1 DEF Sample, MainFrom, Pc, SelectPcs, UnselectPcs,
        ResetPcs
  <2>2. CASE ClearTrigger
    BY <2>2, Zenon DEF ClearTrigger, MainFrom, Pc, SelectPcs, UnselectPcs,
        ResetPcs
  <2>3. CASE TestResult
    BY <2>3 DEF TestResult, MainFrom, Pc, SelectPcs, UnselectPcs,
        ResetPcs
  <2>4. CASE SelectEint("gr_eint", "gr_vic")
    BY <2>4 DEF SelectEint, Eint1Latch, PinFunction, MainFrom, Pc, SelectPcs,
           UnselectPcs,
        ResetPcs
  <2>5. CASE EnableVic("gr_vic", "idle")
    BY <2>5 DEF EnableVic, MainFrom, Pc, SelectPcs, UnselectPcs,
        ResetPcs
  <2>6. QED
    BY <1>4, <2>1, <2>2, <2>3, <2>4, <2>5 DEF GetAndResetTrigger
<1>5. CASE SpiRead
  BY <1>5 DEF SpiRead, MainFrom, Pc, SelectPcs, UnselectPcs,
        ResetPcs
<1>6. CASE SpiWrite
  BY <1>6 DEF SpiWrite, Eint1Latch, PinFunction, MainFrom, Pc, SelectPcs,
         UnselectPcs,
        ResetPcs
<1>7. CASE SelectMMC
  <2>1. CASE SelectMaskVic
    BY <2>1, Zenon DEF SelectMaskVic, MainFrom, Pc, SelectPcs, UnselectPcs,
        ResetPcs
  <2>2. CASE SelectGpio
    BY <2>2 DEF SelectGpio, PinFunction, MainFrom, Pc, SelectPcs, UnselectPcs,
        ResetPcs
  <2>3. CASE SelectClear
    BY <2>3 DEF SelectClear, Eint1Latch, MainFrom, Pc, SelectPcs, UnselectPcs,
        ResetPcs
  <2>4. CASE SelectDir
    BY <2>4 DEF SelectDir, MainFrom, Pc, SelectPcs, UnselectPcs,
        ResetPcs
  <2>5. CASE SelectLow
    BY <2>5 DEF SelectLow, MainFrom, Pc, SelectPcs, UnselectPcs,
        ResetPcs
  <2>6. QED
    BY <1>7, <2>1, <2>2, <2>3, <2>4, <2>5 DEF SelectMMC
<1>8. CASE UnselectMMC
  <2>1. CASE EndTransfer
    BY <2>1 DEF EndTransfer, MainFrom, Pc, SelectPcs, UnselectPcs,
        ResetPcs
  <2>2. CASE UnselectHigh
    BY <2>2, Zenon DEF UnselectHigh, MainFrom, Pc, SelectPcs, UnselectPcs,
        ResetPcs
  <2>3. CASE UnselectDir
    BY <2>3, Zenon DEF UnselectDir, MainFrom, Pc, SelectPcs, UnselectPcs,
        ResetPcs
  <2>4. CASE UnselectTest
    BY <2>4 DEF UnselectTest, MainFrom, Pc, SelectPcs, UnselectPcs,
        ResetPcs
  <2>5. CASE SelectEint("un_eint", "un_vic")
    BY <2>5 DEF SelectEint, Eint1Latch, PinFunction, MainFrom, Pc, SelectPcs,
           UnselectPcs,
        ResetPcs
  <2>6. CASE EnableVic("un_vic", "idle")
    BY <2>6 DEF EnableVic, MainFrom, Pc, SelectPcs, UnselectPcs,
        ResetPcs
  <2>7. QED
    BY <1>8, <2>1, <2>2, <2>3, <2>4, <2>5, <2>6 DEF UnselectMMC
<1>9. CASE UNCHANGED buttonVars
  BY <1>9 DEF buttonVars
<1>10. QED
  BY <1>0, <1>1, <1>2, <1>3, <1>4, <1>5, <1>6, <1>7, <1>8, <1>9 DEF ButtonNext, MainStep

LEMMA UndoneStep == undone \in BOOLEAN /\ [ButtonNext]_buttonVars => undone' \in BOOLEAN
<1> SUFFICES ASSUME undone \in BOOLEAN, [ButtonNext]_buttonVars PROVE undone' \in BOOLEAN
  OBVIOUS
<1>1. CASE ButtonIrq \/ OtherIrq
  BY <1>1 DEF ButtonIrq, OtherIrq, ServeButton
<1>2. CASE Press \/ Release \/ MainStep \/ UNCHANGED buttonVars
  <2>1. undone' = undone
    BY <1>2, Zenon DEF buttonVars, hist, Press, Release, MainStep,
           GetAndResetTrigger,
      Sample, ClearTrigger, TestResult, SelectEint, EnableVic, SpiRead, SpiWrite,
      SelectMMC, SelectMaskVic, SelectGpio, SelectClear, SelectDir, SelectLow,
      UnselectMMC, EndTransfer, UnselectHigh, UnselectDir, UnselectTest
  <2>2. QED
    BY <2>1
<1>3. QED
  BY <1>1, <1>2 DEF ButtonNext

LEMMA ButtonTypeOKStep == ButtonTypeOK /\ [ButtonNext]_buttonVars => ButtonTypeOK'
  BY ButtonVarTypesStep, UndoneStep, Zenon DEF ButtonTypeOK

(* Every step of the main program, the user or the handler preserves the     *)
(* facts about the places of the main program.                               *)
LEMMA PlaceInvStep == ButtonInv /\ [ButtonNext]_buttonVars => PlaceInv'
<1> SUFFICES ASSUME ButtonTypeOK, PlaceInv PROVE [ButtonNext]_buttonVars => PlaceInv'
  BY DEF ButtonInv
<1>0. SUFFICES ASSUME [ButtonNext]_buttonVars PROVE PlaceInv'
  OBVIOUS
<1> USE DEF ButtonTypeOK, VarTypes, PlaceInv, LatchInv, CsInv, RearmInv,
       ResetInv, SpiInv,
            DeafOnlyByRace, Armed, Eint1Pending, Eint1Latch, hw, hist, PinFunction
<1>1. CASE Press
  BY <1>1 DEF Press
<1>2. CASE Release
  BY <1>2 DEF Release
<1>3. CASE ButtonIrq \/ OtherIrq
  <2>1. ServeButton
    BY <1>3 DEF ButtonIrq, OtherIrq
  <2>2. LatchInv' /\ CsInv' /\ RearmInv' /\ DeafOnlyByRace'
    BY <2>1 DEF ServeButton
  <2>3. ResetInv' /\ SpiInv'
    BY <2>1 DEF ServeButton
  <2>4. QED
    BY <2>2, <2>3
<1>4. CASE GetAndResetTrigger
  <2>1. CASE Sample
    BY <2>1 DEF Sample, MainFrom
  <2>2. CASE ClearTrigger
    BY <2>2 DEF ClearTrigger, MainFrom
  <2>3. CASE TestResult
    BY <2>3 DEF TestResult, MainFrom
  <2>4. CASE SelectEint("gr_eint", "gr_vic")
    BY <2>4 DEF SelectEint, MainFrom
  <2>5. CASE EnableVic("gr_vic", "idle")
    BY <2>5 DEF EnableVic, MainFrom
  <2>6. QED
    BY <1>4, <2>1, <2>2, <2>3, <2>4, <2>5 DEF GetAndResetTrigger
<1>5. CASE SpiRead
  BY <1>5 DEF SpiRead, MainFrom
<1>6. CASE SpiWrite
  BY <1>6 DEF SpiWrite, MainFrom
<1>7. CASE SelectMMC
  <2>1. CASE SelectMaskVic
    BY <2>1 DEF SelectMaskVic, MainFrom
  <2>2. CASE SelectGpio
    BY <2>2 DEF SelectGpio, MainFrom
  <2>3. CASE SelectClear
    BY <2>3 DEF SelectClear, MainFrom
  <2>4. CASE SelectDir
    BY <2>4 DEF SelectDir, MainFrom
  <2>5. CASE SelectLow
    BY <2>5 DEF SelectLow, MainFrom
  <2>6. QED
    BY <1>7, <2>1, <2>2, <2>3, <2>4, <2>5 DEF SelectMMC
<1>8. CASE UnselectMMC
  <2>1. CASE EndTransfer
    BY <2>1 DEF EndTransfer, MainFrom
  <2>2. CASE UnselectHigh
    BY <2>2 DEF UnselectHigh, MainFrom
  <2>3. CASE UnselectDir
    BY <2>3 DEF UnselectDir, MainFrom
  <2>4. CASE UnselectTest
    BY <2>4 DEF UnselectTest, MainFrom
  <2>5. CASE SelectEint("un_eint", "un_vic")
    BY <2>5 DEF SelectEint, MainFrom
  <2>6. CASE EnableVic("un_vic", "idle")
    BY <2>6 DEF EnableVic, MainFrom
  <2>7. QED
    BY <1>8, <2>1, <2>2, <2>3, <2>4, <2>5, <2>6 DEF UnselectMMC
<1>9. CASE UNCHANGED buttonVars
  BY <1>9 DEF buttonVars
<1>10. QED
  BY <1>0, <1>1, <1>2, <1>3, <1>4, <1>5, <1>6, <1>7, <1>8, <1>9 DEF ButtonNext, MainStep

(* IInv is an invariant: types, the latch, the chip select and the arming of *)
(* EINT1 at every place of the main program.                                 *)
THEOREM ButtonIInvInvariant == ButtonSpec => []ButtonInv
<1>1. ButtonInit => ButtonInv
  <2>1. ButtonInit => ButtonTypeOK
    <3>1. None \in [val : BOOLEAN, heard : BOOLEAN, held : BOOLEAN]
      BY DEF None
    <3>2. QED
      BY <3>1, Zenon DEF ButtonInit, ButtonTypeOK, VarTypes, PinFunction, Pc
  <2>2. ButtonInit => PlaceInv
    BY DEF ButtonInit, PlaceInv, LatchInv, CsInv, RearmInv, ResetInv, SpiInv,
           DeafOnlyByRace, Armed
  <2>3. QED
    BY <2>1, <2>2 DEF ButtonInv
<1>2. QED
  BY <1>1, ButtonTypeOKStep, PlaceInvStep, PTL DEF ButtonSpec, ButtonInv

(* The button goes deaf only by the race of                                  *)
(* cc3_button_get_and_reset_trigger.                                         *)
THEOREM DeafOnlyByRaceHolds == ButtonSpec => []DeafOnlyByRace
<1>1. ButtonInv => DeafOnlyByRace
  BY DEF ButtonInv, PlaceInv
<1>2. QED
  BY <1>1, ButtonIInvInvariant, PTL

(* The chip select is never driven while the pin is an interrupt input.      *)
THEOREM CsOnlyInGpioHolds == ButtonSpec => []CsOnlyInGpio
<1>1. ButtonInv => CsOnlyInGpio
  BY DEF ButtonInv, PlaceInv, CsInv, CsOnlyInGpio
<1>2. QED
  BY <1>1, ButtonIInvInvariant, PTL

(* cc3_button_get_state tells the state of the button at rest.               *)
THEOREM StateIsTruthHolds == ButtonSpec => []StateIsTruth
<1>1. ButtonInv => StateIsTruth
  BY DEF ButtonInv, PlaceInv, ButtonTypeOK, VarTypes, DeafOnlyByRace, LatchInv,
         StateIsTruth, GetState, Armed,
         Eint1Pending
<1>2. QED
  BY <1>1, ButtonIInvInvariant, PTL

(* Every unselectMMC leaves the button recorded or armed.                    *)
THEOREM UnselectRearmsHolds == ButtonSpec => UnselectRearms
<1>1. ASSUME ButtonInv, [ButtonNext]_buttonVars, step \in UnselectPcs, step' = "idle"
      PROVE  trigger' \/ Armed'
  <2>1. CASE UnselectTest
    BY <2>1, <1>1 DEF UnselectTest, MainFrom, hw, UnselectPcs
  <2>2. CASE EnableVic("un_vic", "idle")
    BY <2>2, <1>1 DEF EnableVic, MainFrom, ButtonInv, PlaceInv, ButtonTypeOK, VarTypes,
       RearmInv, Armed
  <2>3. QED
    BY <1>1, <2>1, <2>2 DEF UnselectPcs, buttonVars, ButtonNext, Press, Release,
           ButtonIrq,
       OtherIrq, ServeButton, MainStep, MainFrom, GetAndResetTrigger, Sample,
       ClearTrigger, TestResult, SelectEint, EnableVic, SpiRead, SpiWrite,
       SelectMMC, SelectMaskVic, SelectGpio, SelectClear, SelectDir, SelectLow,
       UnselectMMC, EndTransfer, UnselectHigh, UnselectDir
<1>2. ButtonInv /\ [ButtonNext]_buttonVars
        => [(step \in UnselectPcs /\ step' = "idle") => (trigger' \/ Armed')]_buttonVars
  BY <1>1
<1>3. QED
  BY <1>2, ButtonIInvInvariant, PTL DEF ButtonSpec, UnselectRearms

(* Every step keeps what is set a sign of a press since the last sample.     *)
LEMMA FreshInvStep == ButtonInv /\ FreshInv /\ [ButtonNext]_buttonVars => FreshInv'
<1> SUFFICES ASSUME ButtonTypeOK, PlaceInv, FreshInv PROVE [ButtonNext]_buttonVars => FreshInv'
  BY DEF ButtonInv
<1>0. SUFFICES ASSUME [ButtonNext]_buttonVars PROVE FreshInv'
  OBVIOUS
<1> USE DEF ButtonTypeOK, VarTypes, PlaceInv, CsInv, FreshInv, Eint1Pending,
       Eint1Latch, hw, hist, PinFunction
<1>1. CASE Press
  BY <1>1 DEF Press
<1>2. CASE Release
  BY <1>2 DEF Release
<1>3. CASE ButtonIrq \/ OtherIrq
  <2>1. ServeButton
    BY <1>3 DEF ButtonIrq, OtherIrq
  <2>2. QED
    BY <2>1 DEF ServeButton
<1>4. CASE GetAndResetTrigger
  <2>1. CASE Sample
    BY <2>1 DEF Sample, MainFrom
  <2>2. CASE ClearTrigger
    BY <2>2 DEF ClearTrigger, MainFrom
  <2>3. CASE TestResult
    BY <2>3 DEF TestResult, MainFrom
  <2>4. CASE SelectEint("gr_eint", "gr_vic")
    BY <2>4 DEF SelectEint, MainFrom
  <2>5. CASE EnableVic("gr_vic", "idle")
    BY <2>5 DEF EnableVic, MainFrom
  <2>6. QED
    BY <1>4, <2>1, <2>2, <2>3, <2>4, <2>5 DEF GetAndResetTrigger
<1>5. CASE SpiRead
  BY <1>5 DEF SpiRead, MainFrom
<1>6. CASE SpiWrite
  BY <1>6 DEF SpiWrite, MainFrom
<1>7. CASE SelectMMC
  <2>1. CASE SelectMaskVic
    BY <2>1 DEF SelectMaskVic, MainFrom
  <2>2. CASE SelectGpio
    BY <2>2 DEF SelectGpio, MainFrom
  <2>3. CASE SelectClear
    BY <2>3 DEF SelectClear, MainFrom
  <2>4. CASE SelectDir
    BY <2>4 DEF SelectDir, MainFrom
  <2>5. CASE SelectLow
    BY <2>5 DEF SelectLow, MainFrom
  <2>6. QED
    BY <1>7, <2>1, <2>2, <2>3, <2>4, <2>5 DEF SelectMMC
<1>8. CASE UnselectMMC
  <2>1. CASE EndTransfer
    BY <2>1 DEF EndTransfer, MainFrom
  <2>2. CASE UnselectHigh
    BY <2>2 DEF UnselectHigh, MainFrom
  <2>3. CASE UnselectDir
    BY <2>3 DEF UnselectDir, MainFrom
  <2>4. CASE UnselectTest
    BY <2>4 DEF UnselectTest, MainFrom
  <2>5. CASE SelectEint("un_eint", "un_vic")
    BY <2>5 DEF SelectEint, MainFrom
  <2>6. CASE EnableVic("un_vic", "idle")
    BY <2>6 DEF EnableVic, MainFrom
  <2>7. QED
    BY <1>8, <2>1, <2>2, <2>3, <2>4, <2>5, <2>6 DEF UnselectMMC
<1>9. CASE UNCHANGED buttonVars
  BY <1>9 DEF buttonVars
<1>10. QED
  BY <1>0, <1>1, <1>2, <1>3, <1>4, <1>5, <1>6, <1>7, <1>8, <1>9 DEF ButtonNext, MainStep

(* What cc3_button_get_and_reset_trigger returns is a press since the last   *)
(* call, never one returned before, unless it came inside spi0_init.         *)
THEOREM ReportIsFreshHolds == ButtonSpec => []ReportIsFresh
<1>1. ButtonInit => FreshInv
  BY DEF ButtonInit, FreshInv, None
<1>2. FreshInv => ReportIsFresh
  BY Zenon DEF FreshInv, ReportIsFresh
<1>3. QED
  BY <1>1, <1>2, FreshInvStep, ButtonIInvInvariant, PTL DEF ButtonSpec
=============================================================================
