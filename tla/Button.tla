------------------------------- MODULE Button -------------------------------
(***************************************************************************)
(* The push button of the camera board and the chip select of the MMC      *)
(* card, which share pin P0.14.                                            *)
(*                                                                         *)
(* The main program runs with IRQs on and is modelled one register or      *)
(* variable access at a time; step is the next.  interrupt() runs with     *)
(* IRQs masked, so it is one action, and main executes nothing while a     *)
(* request is pending.                                                     *)
(*                                                                         *)
(* EINT1 is level sensitive (neither EXTMODE nor EXTPOLAR is written): its *)
(* flag sets whenever the pin has the EINT1 function and is low, and can   *)
(* be cleared only while that is not so.                                   *)
(***************************************************************************)

VARIABLES
  trigger,  \* _cc3_button_trigger
  vic15,    \* bit 15 of VICIntEnable: EINT1 may interrupt
  pinsel,   \* function of P0.14 in PCB_PINSEL0
  extint,   \* the EINT1 flag of SYSCON_EXTINT
  pressed,  \* the user holds the button down
  csOut,    \* P0.14 is an output (GPIO_IODIR)
  csLow,    \* the output latch of P0.14 is low
  step,     \* what the main program executes next
  tmp,      \* the value main read: trigger, or the pin function of PINSEL0
  heard,    \* history: EINT1 was served since trigger was last sampled
  held,     \* history: the button was down since trigger was last sampled
  resetRaced,  \* history: EINT1 was served between sampling and clearing trigger
  undone,   \* history: EINT1 was served between the accesses of spi0_init
  report    \* the last completed cc3_button_get_and_reset_trigger

hw   == <<vic15, pinsel, extint, csOut, csLow>>
hist == <<heard, held, resetRaced, undone>>
buttonVars == <<trigger, vic15, pinsel, extint, pressed, csOut, csLow, step, tmp,
                heard, held, resetRaced, undone, report>>

PinFunction == {"GPIO", "EINT1"}

SelectPcs   == {"sel_sel", "sel_clr", "sel_dir", "sel_low"}
UnselectPcs == {"un_high", "un_dir", "un_test", "un_eint", "un_vic"}
ResetPcs    == {"gr_clear", "gr_test", "gr_eint", "gr_vic"}
Pc == {"idle", "spi_write", "transfer"} \cup SelectPcs \cup UnselectPcs
        \cup ResetPcs

None == [val |-> FALSE, heard |-> FALSE, held |-> FALSE]

ButtonInit ==   \* main() starts after _cc3_system_setup enabled the interrupt
  /\ trigger = FALSE /\ vic15 = TRUE /\ pinsel = "EINT1" /\ extint = FALSE
  /\ pressed = FALSE /\ csOut = FALSE /\ csLow = FALSE
  /\ step = "idle" /\ tmp = FALSE /\ report = None
  /\ heard = FALSE /\ held = FALSE /\ resetRaced = FALSE /\ undone = FALSE

(* The flag after a step that leaves the pin with function f. *)
Eint1Latch(f, down, flag) == IF f = "EINT1" /\ down THEN TRUE ELSE flag

Eint1Pending == vic15 /\ extint

Armed == vic15 /\ pinsel = "EINT1"

-----------------------------------------------------------------------------
(* The user and the interrupt handler. *)

Press ==
  /\ ~pressed
  /\ pressed' = TRUE /\ held' = TRUE
  /\ extint' = Eint1Latch(pinsel, TRUE, extint)
  /\ UNCHANGED <<trigger, vic15, pinsel, csOut, csLow, step, tmp, heard, resetRaced,
                 undone, report>>

Release ==
  /\ pressed
  /\ pressed' = FALSE
  /\ UNCHANGED <<trigger, hw, step, tmp, hist, report>>

(* The part of interrupt() about VICRawIntr bit 15, with                    *)
(* disable_button_interrupt inlined.  The raw bit ignores the enable bit.   *)
ServeButton ==
  /\ extint
  /\ trigger' = TRUE
  /\ vic15' = FALSE /\ pinsel' = "GPIO" /\ extint' = FALSE
  /\ heard' = TRUE
  /\ resetRaced' = IF step = "gr_clear" THEN TRUE ELSE resetRaced
  /\ undone' = IF step = "spi_write" THEN TRUE ELSE undone
  /\ UNCHANGED <<pressed, csOut, csLow, step, tmp, held, report>>

ButtonIrq == Eint1Pending /\ ServeButton

(* The servo timer or VREF interrupts instead: the same handler runs, and   *)
(* sees the raw EINT1 bit even while the VIC masks it.                      *)
OtherIrq == ~vic15 /\ ServeButton

-----------------------------------------------------------------------------
(* The main program. *)

MainFrom(from, to) == step = from /\ ~Eint1Pending /\ step' = to

EnableVicForgets(from, to) ==   \* mutant: the pin is switched, not the VIC
  /\ MainFrom(from, to)
  /\ resetRaced' = FALSE
  /\ UNCHANGED <<trigger, hw, pressed, tmp, heard, held, undone, report>>

(* enable_button_interrupt: pin function, then the VIC.  It also ends the   *)
(* deafness a raced reset may have left behind.                             *)
SelectEint(from, to) ==
  /\ MainFrom(from, to)
  /\ pinsel' = "EINT1" /\ extint' = Eint1Latch("EINT1", pressed, extint)
  /\ UNCHANGED <<trigger, vic15, csOut, csLow, pressed, tmp, hist, report>>

EnableVic(from, to) ==
  /\ MainFrom(from, to)
  /\ vic15' = TRUE /\ resetRaced' = FALSE
  /\ UNCHANGED <<trigger, pinsel, extint, csOut, csLow, pressed, tmp, heard,
                 held, undone, report>>

(* cc3_button_get_and_reset_trigger: sample, clear, re-enable if set. *)
Sample ==
  /\ MainFrom("idle", "gr_clear")
  /\ tmp' = trigger
  /\ report' = [val |-> trigger, heard |-> heard, held |-> held]
  /\ heard' = FALSE /\ held' = pressed
  /\ UNCHANGED <<trigger, hw, pressed, resetRaced, undone>>

ClearTriggerKeeps ==     \* mutant: the trigger is not cleared
  /\ MainFrom("gr_clear", "gr_test")
  /\ UNCHANGED <<trigger, hw, pressed, tmp, hist, report>>

ClearTrigger ==
  /\ MainFrom("gr_clear", "gr_test")
  /\ trigger' = FALSE
  /\ UNCHANGED <<hw, pressed, tmp, hist, report>>

TestResultForgets ==     \* mutant: the interrupt is not re-enabled
  /\ MainFrom("gr_test", "idle")
  /\ UNCHANGED <<trigger, hw, pressed, tmp, hist, report>>

TestResult ==
  /\ MainFrom("gr_test", IF tmp THEN "gr_eint" ELSE "idle")
  /\ UNCHANGED <<trigger, hw, pressed, tmp, hist, report>>

GetAndResetTrigger ==
  Sample \/ ClearTrigger \/ TestResult
    \/ SelectEint("gr_eint", "gr_vic") \/ EnableVic("gr_vic", "idle")

(* The read-modify-writes of PCB_PINSEL0 by spi0_init and _cc3_mmc_idle     *)
(* write the button's field back as they read it.                           *)
SpiRead ==
  /\ MainFrom("idle", "spi_write")
  /\ tmp' = IF pinsel = "EINT1" THEN TRUE ELSE FALSE
  /\ UNCHANGED <<trigger, hw, pressed, hist, report>>

SpiWrite ==
  /\ MainFrom("spi_write", "idle")
  /\ pinsel' = IF tmp THEN "EINT1" ELSE "GPIO"
  /\ extint' = Eint1Latch(pinsel', pressed, extint)
  /\ UNCHANGED <<trigger, vic15, csOut, csLow, pressed, tmp, hist, report>>

(* selectMMC: disable_button_interrupt, then drive the chip select low. *)
SelectMaskVic ==
  /\ MainFrom("idle", "sel_sel")
  /\ vic15' = FALSE
  /\ UNCHANGED <<trigger, pinsel, extint, csOut, csLow, pressed, tmp, hist,
                 report>>

SelectGpio ==
  /\ MainFrom("sel_sel", "sel_clr")
  /\ pinsel' = "GPIO"
  /\ UNCHANGED <<trigger, vic15, extint, csOut, csLow, pressed, tmp, hist,
                 report>>

SelectClear ==
  /\ MainFrom("sel_clr", "sel_dir")
  /\ extint' = Eint1Latch(pinsel, pressed, FALSE)
  /\ UNCHANGED <<trigger, vic15, pinsel, csOut, csLow, pressed, tmp, hist,
                 report>>

SelectDir ==
  /\ MainFrom("sel_dir", "sel_low")
  /\ csOut' = TRUE
  /\ UNCHANGED <<trigger, vic15, pinsel, extint, csLow, pressed, tmp, hist,
                 report>>

SelectLow ==
  /\ MainFrom("sel_low", "transfer")
  /\ csLow' = TRUE
  /\ UNCHANGED <<trigger, vic15, pinsel, extint, csOut, pressed, tmp, hist,
                 report>>

SelectMMC == SelectMaskVic \/ SelectGpio \/ SelectClear \/ SelectDir
               \/ SelectLow

(* unselectMMC.  A transfer ends with it, and mmcInit begins with it. *)
EndTransfer ==
  /\ \/ MainFrom("transfer", "un_high")
     \/ MainFrom("idle", "un_high")
  /\ UNCHANGED <<trigger, hw, pressed, tmp, hist, report>>

UnselectHigh ==
  /\ MainFrom("un_high", "un_dir")
  /\ csLow' = FALSE
  /\ UNCHANGED <<trigger, vic15, pinsel, extint, csOut, pressed, tmp, hist,
                 report>>

UnselectDir ==
  /\ MainFrom("un_dir", "un_test")
  /\ csOut' = FALSE
  /\ UNCHANGED <<trigger, vic15, pinsel, extint, csLow, pressed, tmp, hist,
                 report>>

UnselectTest ==
  /\ MainFrom("un_test", IF trigger THEN "idle" ELSE "un_eint")
  /\ UNCHANGED <<trigger, hw, pressed, tmp, hist, report>>

UnselectMMC ==
  EndTransfer \/ UnselectHigh \/ UnselectDir \/ UnselectTest
    \/ SelectEint("un_eint", "un_vic")
    \/ EnableVic("un_vic", "idle")

MainStep ==
  GetAndResetTrigger \/ SpiRead \/ SpiWrite \/ SelectMMC \/ UnselectMMC

ButtonNext == Press \/ Release \/ ButtonIrq \/ OtherIrq \/ MainStep

ButtonSpec == ButtonInit /\ [][ButtonNext]_buttonVars

(* Hardware takes an unmasked request, and main executes its calls to the   *)
(* end; nothing obliges the user to press or main to make a call.           *)
ButtonFairSpec ==
  /\ ButtonSpec
  /\ WF_buttonVars(ButtonIrq)
  /\ WF_buttonVars(step # "idle" /\ MainStep)

GetStateOfTrigger == trigger    \* mutant: the record instead of the pin

(* cc3_button_get_state, callable at "idle". *)
GetState == trigger /\ pressed

-----------------------------------------------------------------------------
(* Properties. *)

VarTypes ==
  /\ trigger \in BOOLEAN /\ vic15 \in BOOLEAN /\ pinsel \in PinFunction
  /\ extint \in BOOLEAN /\ pressed \in BOOLEAN
  /\ csOut \in BOOLEAN /\ csLow \in BOOLEAN
  /\ step \in Pc /\ tmp \in BOOLEAN
  /\ heard \in BOOLEAN /\ held \in BOOLEAN /\ resetRaced \in BOOLEAN
  /\ report \in [val : BOOLEAN, heard : BOOLEAN, held : BOOLEAN]

ButtonTypeOK == VarTypes /\ undone \in BOOLEAN

(* Whenever main is between calls, a press is already recorded or can still  *)
(* interrupt, unless an interrupt was served between the two accesses of     *)
(* cc3_button_get_and_reset_trigger and nothing has re-armed EINT1 since.    *)
DeafOnlyByRace == step = "idle" /\ ~resetRaced => trigger \/ Armed

(* selectMMC drives the chip select only while the pin has its GPIO function *)
(* and its interrupt is masked; otherwise the card would not be selected, or *)
(* selecting it would count as a press.                                      *)
CsOnlyInGpio == csOut => pinsel = "GPIO" /\ ~vic15

(* Every unselectMMC leaves the button recorded or armed, even when a raced  *)
(* reset had left it deaf.                                                   *)
UnselectRearms ==
  [][(step \in UnselectPcs /\ step' = "idle") => (trigger' \/ Armed')]_buttonVars

(* cc3_button_get_state reads the pin only if trigger is set, and yet tells  *)
(* the state of the button, at rest and unless a reset was raced.            *)
StateIsTruth ==
  step = "idle" /\ ~Eint1Pending /\ ~resetRaced => (GetState <=> pressed)

(* A program that keeps polling sees a button that stays down again and      *)
(* again, whatever it does with the card in between.                         *)
HeldIsReported ==
  <>[](pressed /\ ~resetRaced) /\ []<>(step = "gr_clear") => []<>report.val

(* What cc3.h says of cc3_button_get_and_reset_trigger, one way: a press     *)
(* that interrupted since the last call is returned.                         *)
ReportIsHeard == report.heard => report.val

(* And the other way: what is returned is a press since the last call, and   *)
(* no press is returned twice, unless one was served inside spi0_init's      *)
(* read-modify-write of PCB_PINSEL0, which then undoes the handler's.        *)
ReportIsFresh == ~undone => (report.val => report.held)

(* The inductive invariant behind the first four properties: what holds at   *)
(* each place of the main program.                                           *)
LatchInv == pinsel = "EINT1" /\ pressed => extint

CsInv ==
  /\ csOut => step \in {"sel_low", "transfer", "un_high", "un_dir"}
  /\ step = "sel_sel" => ~vic15
  /\ step \in {"sel_clr", "sel_dir", "sel_low", "transfer"} \/ csOut
       => ~vic15 /\ pinsel = "GPIO"

RearmInv == step \in {"gr_vic", "un_vic"} => trigger \/ pinsel = "EINT1"

ResetInv ==
  /\ step \in {"gr_eint", "gr_vic"} => tmp
  /\ step \in {"gr_clear", "gr_test"} /\ ~tmp /\ ~resetRaced => trigger \/ Armed
  /\ step = "gr_clear" /\ ~tmp /\ ~resetRaced => Armed

SpiInv == step = "spi_write" /\ ~resetRaced => trigger \/ (vic15 /\ tmp)

PlaceInv == LatchInv /\ CsInv /\ RearmInv /\ ResetInv /\ SpiInv
              /\ DeafOnlyByRace

ButtonInv == ButtonTypeOK /\ PlaceInv

(* The invariant behind ReportIsFresh: a set flag or trigger stands for a     *)
(* press since the last sample: while EINT1 is masked the pin is a GPIO, and  *)
(* spi0_init cannot set the trigger, outside the calls' own few places.       *)
FreshInv ==
  /\ pressed => held
  /\ ~undone =>
       /\ report.val => report.held
       /\ extint => held
       /\ (trigger /\ step # "gr_clear") => held
       /\ ~vic15 => \/ step \in {"sel_sel", "sel_clr", "gr_vic", "un_vic"}
                    \/ pinsel = "GPIO" /\ ~extint
       /\ (~vic15 /\ step = "spi_write") => ~tmp
=============================================================================
