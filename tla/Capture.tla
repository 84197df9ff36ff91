------------------------------- MODULE Capture -------------------------------
(***************************************************************************)
(* How a frame gets from the camera into the FIFO: cc3_pixbuf_load polls   *)
(* VSYNC to start on a whole frame, opens the FIFO for writing and returns *)
(* after three lines; the VREF branch of interrupt() closes the FIFO when  *)
(* the frame is over, while the program reads rows.                        *)
(*                                                                         *)
(* VSYNC is also the pin of EINT0, which is level sensitive: its flag sets *)
(* when the pin is low and has that function.  The camera is slow against  *)
(* the processor: its signals wait while main can go on.  The flag comes   *)
(* some cycles after the pin, so main may have executed the two            *)
(* instructions that follow the poll for the same edge.                    *)
(***************************************************************************)
EXTENDS Integers

CONSTANTS
  Lines,     \* lines of a frame, and of the part of the FIFO that is watched
  Headstart  \* lines cc3_pixbuf_load waits for, 3 in the code

ASSUME CaptureAssumption ==
  /\ Lines \in Nat /\ Headstart \in Nat /\ Headstart < Lines /\ Headstart > 1

VARIABLES
  vsync, href,  \* the pins, TRUE when high
  row,          \* lines of this frame the camera has sent
  wee, wptr,    \* FIFO: write enable, and the line written next
  store,        \* FIFO: what each line holds (see Content)
  eint,         \* the pin function of P0.16 is EINT0 (PCB_PINSEL1)
  vic, flag,    \* EINT0 may interrupt (VICIntEnable); its flag in EXTINT
  pc, n,        \* where main is in cc3_pixbuf_load, and its line counter
  rptr,         \* FIFO: the line main reads next
  got,          \* what main read last
  more,         \* history: the camera has finished the frame load waited for
  raced         \* history: the handler ended the capture of the frame before
                \* after main had begun this one

camera == <<vsync, href, row>>
irq    == <<eint, vic, flag>>
writer == <<wee, wptr, store>>
main   == <<pc, n, rptr, got>>
vars   == <<vsync, href, row, wee, wptr, store, eint, vic, flag, pc, n, rptr,
            got, more, raced>>

(* A line of the FIFO holds a line of the frame the last load waited for, of *)
(* one before, or of one after it.                                           *)
Line == 0 .. Lines - 1
Old == -1
Later == Lines
Content == Line \cup {Old, Later}

Init ==      \* after cc3_camera_init; the camera is somewhere in a frame
  /\ vsync = TRUE /\ href = FALSE /\ row \in 0..Lines
  /\ wee = FALSE /\ wptr = 0 /\ store = [l \in Line |-> Old]
  /\ eint = FALSE /\ vic = FALSE /\ flag = FALSE
  /\ pc = "idle" /\ n = 0 /\ rptr = Lines /\ got = Old
  /\ more = FALSE /\ raced = FALSE

IrqPending == vic /\ flag
Unlatched  == eint /\ ~vsync /\ ~flag

(* The polls of cc3_pixbuf_load end when the pin is what they wait for. *)
Waits ==
  \/ pc \in {"high", "begun"} /\ ~vsync
  \/ pc = "low" /\ vsync
  \/ pc = "line" /\ ~href
  \/ pc = "line_end" /\ href

-----------------------------------------------------------------------------
(* The camera. *)

CameraTurn == (pc = "idle" \/ Waits) /\ ~IrqPending /\ ~Unlatched

VsyncFall ==
  /\ CameraTurn
  /\ vsync /\ ~href /\ row = Lines
  /\ vsync' = FALSE /\ row' = 0
  /\ more' = (more \/ wee)
  /\ UNCHANGED <<href, writer, irq, main, raced>>

VsyncRise ==
  /\ CameraTurn
  /\ ~vsync /\ vsync' = TRUE
  /\ UNCHANGED <<href, row, writer, irq, main, more, raced>>

HrefRise ==
  /\ CameraTurn
  /\ vsync /\ ~href /\ row < Lines
  /\ href' = TRUE
  /\ UNCHANGED <<vsync, row, writer, irq, main, more, raced>>

(* At the end of a line the FIFO has it, if it is open. *)
HrefFall ==
  /\ CameraTurn
  /\ href /\ href' = FALSE
  /\ row' = row + 1
  /\ IF wee
       THEN /\ store' = [store EXCEPT ![wptr] = IF more THEN Later ELSE row]
            /\ wptr' = IF wptr + 1 = Lines THEN 0 ELSE wptr + 1
       ELSE UNCHANGED <<wptr, store>>
  /\ UNCHANGED <<vsync, wee, irq, main, more, raced>>

Camera == VsyncFall \/ VsyncRise \/ HrefRise \/ HrefFall

Latch ==
  /\ Unlatched
  /\ flag' = TRUE
  /\ UNCHANGED <<camera, writer, eint, vic, main, more, raced>>

-----------------------------------------------------------------------------
(* interrupt(): close the FIFO, rewind its write pointer, disable EINT0. *)

VrefIrq ==
  /\ IrqPending
  /\ wee' = FALSE /\ wptr' = 0
  /\ vic' = FALSE /\ eint' = FALSE /\ flag' = FALSE
  /\ raced' = (raced \/ pc = "begun")
  /\ UNCHANGED <<camera, store, main, more>>

-----------------------------------------------------------------------------
(* cc3_pixbuf_load. *)

Main(from, to) == pc = from /\ ~Waits /\ ~IrqPending /\ pc' = to

(* The write pointer is rewound; from here on the picture is the frame to    *)
(* come.                                                                     *)
Load ==
  /\ Main("idle", "high") /\ ~Unlatched
  /\ wee' = FALSE /\ wptr' = 0
  /\ store' = [l \in Line |-> Old]
  /\ more' = FALSE /\ raced' = FALSE
  /\ UNCHANGED <<camera, irq, n, rptr, got>>

SawHighOpens ==         \* mutant: the falling edge is not waited for
  /\ Main("high", "open") /\ ~Unlatched
  /\ UNCHANGED <<camera, irq, writer, n, rptr, got, more, raced>>

SawHigh ==
  /\ Main("high", "low") /\ ~Unlatched
  /\ UNCHANGED <<camera, irq, writer, n, rptr, got, more, raced>>

SawLow ==
  /\ Main("low", "open")
  /\ UNCHANGED <<camera, irq, writer, n, rptr, got, more, raced>>

Open ==
  /\ Main("open", "begun")
  /\ wee' = TRUE
  /\ UNCHANGED <<camera, irq, wptr, store, n, rptr, got, more, raced>>

EnableEarly ==          \* mutant: EINT0 is enabled while VSYNC is still low
  /\ pc = "begun" /\ ~IrqPending /\ ~eint /\ pc' = "line"
  /\ eint' = TRUE /\ vic' = TRUE
  /\ n' = 0
  /\ UNCHANGED <<camera, flag, writer, rptr, got, more, raced>>

(* enable_ext_interrupt, once VSYNC is high again. *)
Enable ==
  /\ Main("begun", "line") /\ ~Unlatched
  /\ eint' = TRUE /\ vic' = TRUE
  /\ n' = 0
  /\ UNCHANGED <<camera, flag, writer, rptr, got, more, raced>>

LineBegins ==
  /\ Main("line", "line_end") /\ ~Unlatched
  /\ UNCHANGED <<camera, irq, writer, n, rptr, got, more, raced>>

LineEndsUncounted ==    \* mutant: the lines are not counted
  /\ Main("line_end", IF n + 1 < Headstart THEN "line" ELSE "rewind")
  /\ n' = n
  /\ UNCHANGED <<camera, irq, writer, rptr, got, more, raced>>

LineEnds ==
  /\ Main("line_end", IF n + 1 < Headstart THEN "line" ELSE "rewind")
  /\ n' = n + 1
  /\ UNCHANGED <<camera, irq, writer, rptr, got, more, raced>>

(* cc3_pixbuf_rewind leaves the blue line behind. *)
Rewind ==
  /\ Main("rewind", "idle")
  /\ rptr' = 1 /\ n' = 0
  /\ UNCHANGED <<camera, irq, writer, got, more, raced>>

InLoad == SawHigh \/ SawLow \/ Open \/ Enable \/ LineBegins \/ LineEnds \/ Rewind

(* cc3_pixbuf_read_rows, one line of the FIFO at a time; it is the program's *)
(* concern not to read past the frame.                                       *)
ReadLine ==
  /\ Main("idle", "idle")
  /\ rptr < Lines
  /\ got' = store[rptr] /\ rptr' = rptr + 1
  /\ UNCHANGED <<camera, irq, writer, n, more, raced>>

Next == Camera \/ Latch \/ VrefIrq \/ Load \/ InLoad \/ ReadLine

Spec == Init /\ [][Next]_vars

(* The camera runs, requests are latched and served, main executes its call. *)
FairSpec ==
  Spec /\ WF_vars(Camera) /\ WF_vars(Latch) /\ WF_vars(VrefIrq) /\ WF_vars(InLoad)

-----------------------------------------------------------------------------
(* Properties. *)

PinsOK ==
  /\ vsync \in BOOLEAN /\ href \in BOOLEAN /\ wee \in BOOLEAN
  /\ eint \in BOOLEAN /\ vic \in BOOLEAN /\ flag \in BOOLEAN
  /\ more \in BOOLEAN /\ raced \in BOOLEAN

TypeOK ==
  /\ PinsOK
  /\ row \in 0..Lines /\ wptr \in Line /\ store \in [Line -> Content]
  /\ pc \in {"idle", "high", "low", "open", "begun", "line", "line_end", "rewind"}
  /\ n \in 0..Headstart /\ rptr \in 0..Lines /\ got \in Content

(* Whatever load and interrupt do in whatever order, a line of the FIFO is   *)
(* that line of the frame load waited for, or was there before.              *)
OneFrame == \A l \in Line : store[l] \in {l, Old}

(* The interrupt closes the FIFO only when the camera has sent all of the    *)
(* frame, unless it was the one of the frame before, late.                   *)
ClosedAtEnd ==
  [][wee /\ ~wee' => pc' = "high" \/ more \/ raced']_vars

(* What a program reads behind the writer is the picture, unless the load    *)
(* was raced.                                                                *)
Behind == wee => rptr < wptr
ReadIsPicture ==
  [][rptr' = rptr + 1 /\ pc = "idle" /\ Behind /\ ~raced => got' = rptr]_vars

(* Load returns, whatever the camera was sending and whatever capture was    *)
(* under way when it was called.                                             *)
LoadReturns == pc = "high" ~> pc = "idle"

(* The inductive invariant behind OneFrame, ClosedAtEnd and ReadIsPicture:   *)
(* the signals; EINT0 is requested only while VSYNC is low; before the FIFO  *)
(* is opened its pointer is at 0; while it is open it has taken the lines    *)
(* sent; and once it was closed it holds them all.                           *)
SignalInv ==
  /\ href => vsync /\ row < Lines
  /\ ~vsync => row = 0
  /\ eint = vic /\ (flag => vic /\ ~vsync)

StartInv ==
  /\ pc \in {"high", "low", "open"} => ~wee /\ ~more /\ wptr = 0
  /\ pc = "open" => ~vsync
  /\ pc \in {"line", "line_end"} => n < Headstart

Taken == \A l \in Line : l < row => store[l] = l
Full  == \A l \in Line : store[l] = l
Reading == pc \in {"line", "line_end", "rewind", "idle"}

Opening == pc = "begun" /\ row = 0 /\ wptr = 0 /\ ~href
Filling ==
  Reading /\ vic /\ vsync /\ wptr = (IF row = Lines THEN 0 ELSE row) /\ Taken
Closing == Reading /\ vic /\ ~vsync /\ wptr = 0 /\ Full

OpenInv ==
  /\ wee /\ ~more => Opening \/ Filling
  /\ wee /\ more => Closing
  /\ ~wee /\ ~raced /\ (pc = "begun" \/ Reading) /\ (pc = "idle" => rptr < Lines)
       => Full

IInv == TypeOK /\ SignalInv /\ StartInv /\ OpenInv /\ OneFrame
=============================================================================
