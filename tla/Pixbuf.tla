------------------------------- MODULE Pixbuf -------------------------------
(***************************************************************************)
(* The pixel buffer of the camera board: cc3_g_pixbuf_frame (region of     *)
(* interest, subsampling, channel), the read side of the frame FIFO and    *)
(* the camera settings that reset them.  The program has one thread, so a  *)
(* call is a step; Capture takes cc3_pixbuf_load apart.                    *)
(*                                                                         *)
(* The FIFO holds a frame as pixel pairs (G R G B, four bytes); positions  *)
(* in it are counted in pairs.  Its first line is blue and is skipped.     *)
(* Pixel values are left out: what matters is which pairs a call reads.    *)
(***************************************************************************)
EXTENDS Integers

CONSTANTS
  LoWidth, LoHeight, HiWidth, HiHeight,   \* CC3_LO_RES_*, CC3_HI_RES_*
  MaxShort,    \* INT16_MAX: the coordinates of cc3_pixbuf_frame_set_roi
  MaxByte,     \* UINT8_MAX: the steps of cc3_pixbuf_frame_set_subsample
  Coords,      \* bound: the coordinates the program passes
  Steps,       \* bound: the steps the program passes
  Channels,    \* bound: the channels the program passes
  RowCounts,   \* bound: the numbers of rows the program asks for
  MaxPairs     \* bound: reading stops when the FIFO position has passed it

All == 3       \* CC3_CHANNEL_ALL

ASSUME SizeAssumption ==
  /\ \A w \in {LoWidth, HiWidth} : w \in Nat /\ w > 0 /\ w % 2 = 0
  /\ \A h \in {LoHeight, HiHeight} : h \in Nat /\ h > 0
  /\ MaxShort \in Nat /\ MaxShort % 2 = 1
  /\ \A n \in {LoWidth, LoHeight, HiWidth, HiHeight} : n < MaxShort
ASSUME InputAssumption ==
  /\ Coords \subseteq (-MaxShort)..MaxShort
  /\ MaxByte \in Nat /\ MaxByte % 2 = 1 /\ Steps \subseteq 0..MaxByte
  /\ Channels \subseteq Nat /\ RowCounts \subseteq Nat
  /\ MaxPairs \in Nat

VARIABLES
  frame,   \* cc3_g_pixbuf_frame
  res,     \* _cc3_g_current_camera_state.resolution
  sensor,  \* the resolution the camera chip is in
  power,   \* the camera is not in power down
  fifo,    \* pairs read since the read pointer of the FIFO was reset
  line,    \* pairs per line of the frame in the FIFO
  synced   \* history: the frame was read by the rules (see Aligned)

vars == <<frame, res, sensor, power, fifo, line, synced>>

Resolution == {"LOW", "HIGH"}
Width(r)  == IF r = "LOW" THEN LoWidth ELSE HiWidth
Height(r) == IF r = "LOW" THEN LoHeight ELSE HiHeight

(* C arithmetic: int16_t, uint16_t and uint8_t wrap; division truncates,    *)
(* and the run-time library answers 0 to a division by 0.                   *)
Short(v)  == IF v > MaxShort THEN v - 2 * (MaxShort + 1) ELSE v
UShort(v) == v % (2 * (MaxShort + 1))
Byte(v)   == v % (MaxByte + 1)
Quot(a, b) == IF b = 0 THEN 0 ELSE IF a >= 0 THEN a \div b ELSE -((-a) \div b)

Clamp(v, hi) == IF v < 0 THEN 0 ELSE IF v > hi THEN hi ELSE v

(* _cc3_update_frame_bounds *)
UpdateBounds(f) ==
  [f EXCEPT !.width  = UShort(Quot(f.x1 - f.x0, f.xstep)),
            !.height = UShort(Quot(f.y1 - f.y0, f.ystep))]

(* cc3_pixbuf_frame_reset, in a frame whose raw size is w x h. *)
ResetFrame(w, h) ==
  [rawW |-> w, rawH |-> h, x0 |-> 0, y0 |-> 0, x1 |-> w, y1 |-> h,
   yloc |-> 0, xstep |-> 1, ystep |-> 1, coi |-> All, channels |-> 3,
   width |-> w, height |-> h]

Init ==         \* after a cc3_camera_init that succeeded
  /\ res = "LOW" /\ sensor = "LOW" /\ power = TRUE
  /\ frame = ResetFrame(LoWidth, LoHeight)
  /\ fifo = 0 /\ line = 0 /\ synced = FALSE

-----------------------------------------------------------------------------
(* Capturing and rewinding. *)

(* cc3_pixbuf_rewind leaves the blue line behind. *)
Rewound(f) == [f EXCEPT !.yloc = 0]

LoadNoRewind ==        \* mutant: the read pointer stays where it was
  /\ IF power
       THEN /\ line' = Width(sensor) \div 2
            /\ frame' = Rewound(frame)
            /\ synced' = (Width(sensor) = frame.rawW)
       ELSE UNCHANGED <<line, frame, synced>>
  /\ UNCHANGED <<res, sensor, power, fifo>>

(* cc3_pixbuf_load: nothing in power down. *)
Load ==
  /\ IF power
       THEN /\ line' = Width(sensor) \div 2
            /\ frame' = Rewound(frame)
            /\ fifo' = frame.rawW \div 2
            /\ synced' = (Width(sensor) = frame.rawW)
       ELSE UNCHANGED <<line, frame, fifo, synced>>
  /\ UNCHANGED <<res, sensor, power>>

Rewind ==
  /\ frame' = Rewound(frame)
  /\ fifo' = frame.rawW \div 2
  /\ synced' = (line = frame.rawW \div 2)
  /\ UNCHANGED <<res, sensor, power, line>>

-----------------------------------------------------------------------------
(* Frame parameters. *)

(* x0 is made even after it was found not to be negative. *)
EvenUp(x0) == IF x0 % 2 = 1 THEN Short(x0 + 1) ELSE x0

ConstrainX0(x0, w) ==
  LET even == EvenUp(IF x0 < 0 THEN 0 ELSE x0)
  IN IF even > w THEN w ELSE even

(* cc3_pixbuf_frame_set_roi *)
SetRoi(x0, y0, x1, y1) ==
  LET cx0 == ConstrainX0(x0, frame.rawW)
      cx1 == Clamp(x1, frame.rawW)
      cy0 == Clamp(y0, frame.rawH)
      cy1 == Clamp(y1, frame.rawH)
  IN /\ cx0 < cx1 /\ cy0 < cy1          \* otherwise it returns false
     /\ frame' = UpdateBounds([frame EXCEPT
                   !.x0 = UShort(cx0), !.y0 = cy0, !.x1 = cx1, !.y1 = cy1])
     /\ UNCHANGED <<res, sensor, power, fifo, line, synced>>

(* The x step is made 1 or even, in a uint8_t. *)
XStep(s) == IF s = 0 THEN 1 ELSE IF s # 1 /\ s % 2 # 0 THEN Byte(s + 1) ELSE s
YStep(s) == IF s = 0 THEN 1 ELSE s

(* cc3_pixbuf_frame_set_subsample *)
SetSubsample(xs, ys) ==
  /\ frame' = UpdateBounds([frame EXCEPT !.xstep = XStep(xs), !.ystep = YStep(ys)])
  /\ UNCHANGED <<res, sensor, power, fifo, line, synced>>

(* cc3_pixbuf_frame_set_coi: 4 is accepted and selects no channel. *)
SetCoi(chan) ==
  /\ chan <= 4                          \* otherwise it returns false
  /\ frame' = [frame EXCEPT !.coi = chan,
                            !.channels = IF chan = All THEN 3 ELSE 1]
  /\ UNCHANGED <<res, sensor, power, fifo, line, synced>>

(* cc3_pixbuf_frame_reset by itself: y_loc returns to 0, the FIFO does not. *)
FrameReset ==
  /\ frame' = ResetFrame(frame.rawW, frame.rawH)
  /\ synced' = (synced /\ frame.yloc = 0)
  /\ UNCHANGED <<res, sensor, power, fifo, line>>

-----------------------------------------------------------------------------
(* Camera settings.  Every setter ends in _cc3_set_register_state, which    *)
(* writes register 0x14 twice for a high resolution: low first, then high.  *)
(* A write is tried four times; when none is acknowledged only              *)
(* cc3_camera_init tells its caller.                                        *)
SensorAfter(r, ack1, ack2) ==
  IF ack2 THEN r ELSE IF ack1 THEN "LOW" ELSE sensor

SetRegistersNoReset(r, ack1, ack2) ==    \* mutant: the frame is kept
  /\ res' = r
  /\ sensor' = SensorAfter(r, ack1, ack2)
  /\ frame' = [frame EXCEPT !.rawW = Width(r), !.rawH = Height(r)]
  /\ synced' = (synced /\ frame.yloc = 0 /\ frame.rawW = Width(r))
  /\ UNCHANGED <<fifo, line>>

SetRegisters(r, ack1, ack2) ==
  /\ res' = r
  /\ sensor' = SensorAfter(r, ack1, ack2)
  /\ frame' = ResetFrame(Width(r), Height(r))
  /\ synced' = (synced /\ frame.yloc = 0 /\ frame.rawW = Width(r))
  /\ UNCHANGED <<fifo, line>>

SetResolution(r) ==
  /\ \E a, b \in BOOLEAN : SetRegisters(r, a, b)
  /\ UNCHANGED power

(* cc3_camera_set_colorspace, _framerate_divider, _auto_exposure,           *)
(* _auto_white_balance, _brightness and _contrast.                          *)
SetOther ==
  /\ \E a, b \in BOOLEAN : SetRegisters(res, a, b)
  /\ UNCHANGED power

SetPower(on) ==
  /\ power' = on
  /\ \E a, b \in BOOLEAN : SetRegisters(res, a, b)

(* cc3_camera_init resets the chip and both FIFO pointers, then does the    *)
(* same; the chip's own default resolution is not in the code.              *)
CameraInit ==
  /\ \E a, b \in BOOLEAN, s \in Resolution :
       /\ sensor' = IF b THEN res ELSE IF a THEN "LOW" ELSE s
       /\ frame' = ResetFrame(Width(res), Height(res))
  /\ fifo' = 0 /\ synced' = FALSE
  /\ UNCHANGED <<res, power, line>>

-----------------------------------------------------------------------------
(* Reading rows. *)

RowsGivenOverrun(n) ==       \* mutant: one row too many at the bottom
  LET q == Quot(frame.y1 - frame.yloc, frame.ystep) + 1
  IN IF q >= 0 /\ q < n THEN q ELSE n

(* row_limit is unsigned: a negative quotient limits nothing. *)
RowsGiven(n) ==
  LET q == Quot(frame.y1 - frame.yloc, frame.ystep)
  IN IF q >= 0 /\ q < n THEN q ELSE n

(* Where the rows of a call start: the first read of a pass skips the y0    *)
(* rows above the region.                                                   *)
SeekLoc  == IF frame.yloc < frame.y0 THEN frame.y0 ELSE frame.yloc
SeekFifo == IF frame.yloc < frame.y0
              THEN fifo + (frame.rawW \div 2) * frame.y0 ELSE fifo

(* Pairs read by the pixel loop of a row, and the x it ends at.             *)
PixelPairs(f) ==
  IF f.coi > All THEN 0
  ELSE IF f.xstep = 1 THEN (f.width + 1) \div 2
  ELSE f.width * (1 + (f.xstep - 1) \div 2)
EndX(f) == IF f.coi > All THEN f.x0 ELSE f.x0 + f.width * f.xstep

(* The pairs a row takes from its line, and then the lines it skips.        *)
RowPairs(f) ==
  f.x0 \div 2 + PixelPairs(f) + (f.rawW - EndX(f)) \div 2

RowAdvanceDense(f) == RowPairs(f)   \* mutant: the lines between are kept

RowAdvance(f) == RowPairs(f) + ((f.ystep - 1) * f.rawW) \div 2

(* Where the k-th row of the call starts in the FIFO, k from 0. *)
RowStart(k) == SeekFifo + k * RowAdvance(frame)

(* A region outside the raw frame makes the count of pairs to skip wrap,    *)
(* and the call does not come back.                                         *)
Readable == frame.x0 < frame.x1 /\ frame.x1 <= frame.rawW

(* cc3_pixbuf_read_rows *)
ReadRows(n) ==
  /\ Readable /\ fifo <= MaxPairs
  /\ LET rows == RowsGiven(n)
     IN /\ fifo' = RowStart(rows)
        /\ frame' = [frame EXCEPT !.yloc = SeekLoc + rows * frame.ystep]
  /\ synced' = (synced /\ (frame.yloc < frame.y0 => frame.yloc = 0))
  /\ UNCHANGED <<res, sensor, power, line>>

SetFrame ==
  \/ \E x0, y0, x1, y1 \in Coords : SetRoi(x0, y0, x1, y1)
  \/ \E xs, ys \in Steps : SetSubsample(xs, ys)
  \/ \E c \in Channels : SetCoi(c)
  \/ FrameReset

SetCamera ==
  \/ \E r \in Resolution : SetResolution(r)
  \/ SetOther
  \/ \E on \in BOOLEAN : SetPower(on)
  \/ CameraInit

Next == Load \/ Rewind \/ SetFrame \/ SetCamera
          \/ \E n \in RowCounts : ReadRows(n)

Spec == Init /\ [][Next]_vars

-----------------------------------------------------------------------------
(* Properties. *)

Frame == [rawW : Nat, rawH : Nat, x0 : Nat, y0 : Nat, x1 : Nat, y1 : Nat,
          yloc : Nat, xstep : Nat, ystep : Nat, coi : Nat, channels : Nat,
          width : Nat, height : Nat]

TypeOK ==
  /\ frame \in Frame
  /\ res \in Resolution /\ sensor \in Resolution /\ power \in BOOLEAN
  /\ fifo \in Nat /\ line \in Nat /\ synced \in BOOLEAN

(* The program passes neither the largest int16_t nor the largest uint8_t,   *)
(* which the code cannot round up to an even number.                         *)
NoEdge == MaxShort \notin Coords /\ MaxByte \notin Steps

(* The region lies in the frame, starts on a pixel pair and the steps are    *)
(* ones the pixel loops can follow ("only allow even subsampling (or 1)").   *)
RegionInv ==
  /\ frame.x0 < frame.x1 /\ frame.x1 <= frame.rawW /\ frame.x0 % 2 = 0
  /\ frame.y0 < frame.y1 /\ frame.y1 <= frame.rawH

StepInv ==
  /\ frame.xstep > 0 /\ (frame.xstep = 1 \/ frame.xstep % 2 = 0)
  /\ frame.ystep > 0

(* The derived fields, from which programs size their buffers, agree with    *)
(* the fields they derive from, whatever was set in whatever order.          *)
DerivedInv ==
  /\ frame.rawW = Width(res) /\ frame.rawH = Height(res)
  /\ frame.width = (frame.x1 - frame.x0) \div frame.xstep
  /\ frame.height = (frame.y1 - frame.y0) \div frame.ystep
  /\ frame.channels = IF frame.coi = All THEN 3 ELSE 1

GeometryInv == RegionInv /\ StepInv /\ DerivedInv

(* Whatever the region, the steps and the channel, reading a row takes whole *)
(* lines from the FIFO: the next row starts at the start of a line.          *)
RowIsWholeLines == 2 * RowAdvance(frame) = frame.ystep * frame.rawW

(* While the program keeps to the rules (a frame loaded or rewound at the    *)
(* sensor's resolution, and y_loc never below y0 but at the start), y_loc is *)
(* the line the FIFO is about to deliver.                                    *)
Aligned == synced => fifo = (1 + frame.yloc) * line

(* The inductive invariant: Aligned needs the line length of the FIFO too.   *)
LineInv == synced => line = frame.rawW \div 2
IInv == TypeOK /\ GeometryInv /\ LineInv /\ Aligned

(* Then a row asked for by itself is a row of the region.                    *)
RowAtFifo(k) == RowStart(k) \div line - 1
SingleRowInRegion ==
  synced /\ frame.yloc <= frame.y1 /\ (frame.yloc < frame.y0 => frame.yloc = 0)
    /\ RowsGiven(1) = 1
    => RowAtFifo(0) \in frame.y0 .. frame.y1 - 1
=============================================================================
