----------------------------- MODULE RowSource ------------------------------
(***************************************************************************)
(* What the pixel buffer promises a program that reads a frame row by row: *)
(* a window of lines of the frame, chosen before the first row is read,    *)
(* comes out one line per read, from the top, each once; the read after    *)
(* the last line says so.  PixbufPass implements it.                       *)
(***************************************************************************)
EXTENDS Integers, Sequences

CONSTANTS Lines,   \* lines of a frame, a natural number
          None     \* a read that delivered nothing, not a natural number

VARIABLES
  window,    \* the lines of the frame to deliver, in order
  done,      \* how many of them were delivered
  got,       \* the line the last read delivered
  reading    \* the program is in its read loop

srcVars == <<window, done, got, reading>>

(* A window starts somewhere in the frame and goes down by a constant step. *)
Window(first, step, count) == [i \in 1..count |-> first + (i - 1) * step]

IsWindow(w) ==
  \E first \in 0..Lines, step \in 1..Lines + 1 :
    /\ w = Window(first, step, Len(w))
    /\ \A i \in 1..Len(w) : w[i] < Lines

SrcInit == IsWindow(window) /\ done = 0 /\ got = None /\ reading = FALSE

(* Choosing a window starts a pass. *)
Select ==
  /\ ~reading /\ reading' = FALSE
  /\ IsWindow(window') /\ done' = 0 /\ got' = None

(* A new frame, or the same again: the window stays. *)
Restart ==
  /\ ~reading
  /\ done' = 0 /\ got' = None
  /\ UNCHANGED <<window, reading>>

Begin ==
  /\ ~reading /\ reading' = TRUE
  /\ UNCHANGED <<window, done, got>>

Deliver ==
  /\ reading /\ done < Len(window)
  /\ got' = window[done + 1] /\ done' = done + 1
  /\ UNCHANGED <<window, reading>>

Finish ==
  /\ reading /\ done = Len(window)
  /\ reading' = FALSE /\ got' = None
  /\ UNCHANGED <<window, done>>

SrcNext == Select \/ Restart \/ Begin \/ Deliver \/ Finish

SrcSpec == SrcInit /\ [][SrcNext]_srcVars /\ WF_srcVars(Deliver \/ Finish)
=============================================================================
