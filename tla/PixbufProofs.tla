---------------------------- MODULE PixbufProofs ----------------------------
(***************************************************************************)
(* What holds of the pixel buffer for every size of frame and every bound, *)
(* as long as the program passes neither the largest coordinate nor the    *)
(* largest step (NoEdge); that the row loop over it is a row source: for   *)
(* every size of frame, region and step each of its steps is a step of     *)
(* RowSource or none of its business; and that what the image library      *)
(* computes row by row is what it promises of the region, for every scene  *)
(* and every order of configuring, loading and computing.  That the loop   *)
(* ends is left to TLC.                                                    *)
(*                                                                         *)
(* The sums and counts of the image library are taken over finite sets;    *)
(* the facts about them rest on an induction that is proved here from the  *)
(* least element of a set of numbers, with a set where the library's       *)
(* theorems have an operator.                                              *)
(***************************************************************************)
EXTENDS Image, FiniteSetTheorems, TLAPS

-----------------------------------------------------------------------------
(* Integer division and the C conversions, as the lemmas below use them. *)

LEMMA DivBounds ==
  ASSUME NEW a \in Nat, NEW b \in Nat, b > 0
  PROVE  a \div b \in Nat /\ a \div b <= a /\ b * (a \div b) <= a
  OBVIOUS

LEMMA EvenHalves ==
  ASSUME NEW a \in Nat, a % 2 = 0
  PROVE  a \div 2 \in Nat /\ 2 * (a \div 2) = a
  OBVIOUS

(* An odd number of pixels ends inside a pair, which is read whole. *)
LEMMA LineSplits ==
  ASSUME NEW x \in Nat, NEW p \in Nat, NEW w \in Nat,
         x % 2 = 0, w % 2 = 0, x + p <= w
  PROVE  x \div 2 + (p + 1) \div 2 + (w - (x + p)) \div 2 = w \div 2
  <1>1. PICK h \in Nat, k \in Nat : x = 2 * h /\ w = 2 * k
    BY EvenHalves
  <1>2. CASE p % 2 = 0
    <2>1. PICK q \in Nat : p = 2 * q
      BY <1>2, EvenHalves
    <2>2. (p + 1) \div 2 = q /\ (w - (x + p)) \div 2 = k - (h + q)
      BY <1>1, <2>1
    <2> QED BY <1>1, <2>1, <2>2
  <1>3. CASE p % 2 = 1
    <2>1. PICK q \in Nat : p = 2 * q + 1
      <3>1. (p - 1) \in Nat /\ (p - 1) % 2 = 0
        BY <1>3
      <3>2. (p - 1) \div 2 \in Nat /\ 2 * ((p - 1) \div 2) = p - 1
        BY <3>1, EvenHalves
      <3> QED BY <3>2
    <2>2. (p + 1) \div 2 = q + 1 /\ (w - (x + p)) \div 2 = k - (h + q + 1)
      BY <1>1, <2>1
    <2> QED BY <1>1, <2>1, <2>2
  <1> QED BY <1>2, <1>3

LEMMA SizeFacts ==
  ASSUME NEW r \in Resolution
  PROVE  /\ Width(r) \in Nat /\ Width(r) > 0 /\ Width(r) % 2 = 0
         /\ Width(r) < MaxShort
         /\ Height(r) \in Nat /\ Height(r) > 0 /\ Height(r) < MaxShort
  BY SizeAssumption DEF Resolution, Width, Height

LEMMA ClampRange ==
  ASSUME NEW v \in Int, NEW hi \in Nat
  PROVE  Clamp(v, hi) \in Nat /\ Clamp(v, hi) <= hi
  BY DEF Clamp

LEMMA UShortKeeps ==
  ASSUME NEW v \in Nat, v <= MaxShort
  PROVE  UShort(v) = v
  BY SizeAssumption DEF UShort

(* An x0 the program may pass becomes even and stays within the frame. *)
LEMMA X0Range ==
  ASSUME NoEdge, NEW v \in Coords, NEW w \in Nat, w % 2 = 0
  PROVE  /\ ConstrainX0(v, w) \in Nat /\ ConstrainX0(v, w) <= w
         /\ ConstrainX0(v, w) % 2 = 0
  <1>1. v \in Int /\ v < MaxShort
    BY InputAssumption, SizeAssumption DEF NoEdge
  <1>2. CASE v < 0
    BY <1>1, <1>2, SizeAssumption DEF ConstrainX0, EvenUp
  <1>3. CASE v >= 0
    BY <1>1, <1>3, SizeAssumption DEF ConstrainX0, EvenUp, Short
  <1> QED BY <1>1, <1>2, <1>3

LEMMA StepRange ==
  ASSUME NoEdge, NEW s \in Steps
  PROVE  /\ XStep(s) \in Nat /\ XStep(s) > 0
         /\ XStep(s) = 1 \/ XStep(s) % 2 = 0
         /\ YStep(s) \in Nat /\ YStep(s) > 0
  <1>1. s \in Nat /\ s < MaxByte /\ MaxByte \in Nat
    BY InputAssumption DEF NoEdge
  <1> QED BY <1>1 DEF XStep, YStep, Byte

(* _cc3_update_frame_bounds computes the quotients it is meant to. *)
LEMMA BoundsQuotient ==
  ASSUME NEW a \in Nat, NEW b \in Nat, a <= b, b < MaxShort,
         NEW s \in Nat, s > 0
  PROVE  UShort(Quot(b - a, s)) = (b - a) \div s /\ (b - a) \div s \in Nat
  <1> DEFINE d == b - a
  <1>1. d \in Nat /\ d < MaxShort
    BY SizeAssumption
  <1>2. d \div s \in Nat /\ d \div s <= d
    BY <1>1, DivBounds
  <1>3. Quot(d, s) = d \div s
    BY <1>1 DEF Quot
  <1> QED BY <1>1, <1>2, <1>3, UShortKeeps, SizeAssumption

-----------------------------------------------------------------------------
(* A row takes whole lines: the pairs before the region, in it and after it *)
(* make half the raw width.                                                 *)
LEMMA RowPairsIsLine ==
  ASSUME TypeOK, GeometryInv
  PROVE  RowPairs(frame) = frame.rawW \div 2
  <1> DEFINE W == frame.rawW
             X == frame.x0
             P == frame.width
  <1>1. W \in Nat /\ X \in Nat /\ P \in Nat /\ X <= W /\ W % 2 = 0 /\ X % 2 = 0
    BY SizeFacts DEF TypeOK, Frame, GeometryInv, RegionInv, DerivedInv
  <1>2. frame.x1 - X \in Nat /\ frame.x1 <= W /\ frame.xstep \in Nat
          /\ frame.xstep > 0 /\ frame.x1 \in Nat
    BY <1>1 DEF TypeOK, Frame, GeometryInv, RegionInv, StepInv
  <1>3. frame.xstep * P <= frame.x1 - X
    BY <1>2, DivBounds DEF GeometryInv, DerivedInv
  <1>4. CASE frame.coi > All
    BY <1>1, <1>4 DEF RowPairs, PixelPairs, EndX
  <1>5. CASE ~(frame.coi > All) /\ frame.xstep = 1
    <2>1. X + P <= W
      BY <1>1, <1>2, <1>3, <1>5
    <2>2. X \div 2 + (P + 1) \div 2 + (W - (X + P)) \div 2 = W \div 2
      BY <1>1, <2>1, LineSplits
    <2> QED BY <1>1, <1>5, <2>2 DEF RowPairs, PixelPairs, EndX
  <1>6. CASE ~(frame.coi > All) /\ frame.xstep # 1
    <2>1. PICK k \in Nat : frame.xstep = 2 * k /\ k > 0
      <3>1. frame.xstep % 2 = 0
        BY <1>6 DEF GeometryInv, StepInv
      <3>2. frame.xstep \div 2 \in Nat /\ 2 * (frame.xstep \div 2) = frame.xstep
        BY <1>2, <3>1, EvenHalves
      <3> QED BY <1>2, <3>2
    <2> DEFINE M == P * k
    <2>2. M \in Nat /\ frame.xstep * P = 2 * M /\ P * frame.xstep = 2 * M
      BY <1>1, <2>1
    <2>3. (frame.xstep - 1) \div 2 = k - 1
      BY <2>1
    <2>4. PixelPairs(frame) = M
      BY <1>1, <1>6, <2>1, <2>3 DEF PixelPairs
    <2>5. EndX(frame) = X + 2 * M
      BY <1>6, <2>2 DEF EndX
    <2>6. X + 2 * M <= W
      BY <1>1, <1>2, <1>3, <2>2
    <2> HIDE DEF M
    <2>7. X \div 2 + M + (W - (X + 2 * M)) \div 2 = W \div 2
      BY <1>1, <2>2, <2>6
    <2> QED BY <2>4, <2>5, <2>7 DEF RowPairs
  <1> QED BY <1>4, <1>5, <1>6

LEMMA RowAdvanceIsLines ==
  ASSUME TypeOK, GeometryInv
  PROVE  /\ 2 * RowAdvance(frame) = frame.ystep * frame.rawW
         /\ RowAdvance(frame) = frame.ystep * (frame.rawW \div 2)
  <1> DEFINE W == frame.rawW
             S == frame.ystep
  <1>1. W \in Nat /\ W % 2 = 0 /\ S \in Nat /\ S > 0
    BY SizeFacts DEF TypeOK, Frame, GeometryInv, StepInv, DerivedInv
  <1>2. PICK h \in Nat : W = 2 * h /\ W \div 2 = h
    BY <1>1, EvenHalves
  <1>3. ((S - 1) * W) \div 2 = (S - 1) * h
    <2>1. (S - 1) * W = 2 * ((S - 1) * h) /\ (S - 1) * h \in Nat
      BY <1>1, <1>2
    <2> QED BY <2>1
  <1>4. RowAdvance(frame) = h + (S - 1) * h
    BY <1>2, <1>3, RowPairsIsLine DEF RowAdvance
  <1>5. h + (S - 1) * h = S * h /\ 2 * (S * h) = S * W
    BY <1>1, <1>2
  <1> QED BY <1>2, <1>4, <1>5

-----------------------------------------------------------------------------
(* The invariant, action by action. *)

LEMMA InitIInv == Init => IInv
  <1> SUFFICES ASSUME Init PROVE IInv
    OBVIOUS
  <1>1. LoWidth \in Nat /\ LoWidth > 0 /\ LoWidth % 2 = 0
          /\ LoHeight \in Nat /\ LoHeight > 0
    BY SizeAssumption
  <1>2. TypeOK
    BY <1>1 DEF Init, TypeOK, Frame, Resolution, ResetFrame, All
  <1>3. RegionInv /\ StepInv
    BY <1>1 DEF Init, RegionInv, StepInv, ResetFrame
  <1>4. DerivedInv
    BY <1>1 DEF Init, DerivedInv, ResetFrame, Width, Height, All
  <1> QED BY <1>2, <1>3, <1>4 DEF Init, IInv, GeometryInv, LineInv, Aligned

(* A reset frame has a lawful geometry, whatever the resolution. *)
LEMMA ResetGeometry ==
  ASSUME NEW r \in Resolution, frame' = ResetFrame(Width(r), Height(r)), res' = r
  PROVE  frame' \in Frame /\ GeometryInv'
  <1>1. /\ Width(r) \in Nat /\ Width(r) > 0 /\ Width(r) % 2 = 0
        /\ Height(r) \in Nat /\ Height(r) > 0
    BY SizeFacts
  <1>2. frame' \in Frame
    BY <1>1 DEF Frame, ResetFrame, All
  <1>3. RegionInv' /\ StepInv'
    BY <1>1 DEF RegionInv, StepInv, ResetFrame
  <1>4. DerivedInv'
    BY <1>1 DEF DerivedInv, ResetFrame, All
  <1> QED BY <1>2, <1>3, <1>4 DEF GeometryInv

LEMMA LoadStep == IInv /\ (Load \/ Rewind) => IInv'
  <1> SUFFICES ASSUME IInv, Load \/ Rewind PROVE IInv'
    OBVIOUS
  <1> DEFINE H == frame.rawW \div 2
  <1>1. H \in Nat /\ Width(sensor) \div 2 \in Nat
    BY SizeFacts, EvenHalves DEF IInv, TypeOK, GeometryInv, DerivedInv
  <1>2. CASE UNCHANGED <<frame, line, fifo, synced, res, sensor, power>>
    BY <1>2 DEF IInv, TypeOK, GeometryInv, RegionInv, StepInv, DerivedInv,
                LineInv, Aligned
  <1>3. CASE frame' = Rewound(frame) /\ fifo' = H
    <2>1. TypeOK'
      BY <1>1, <1>3 DEF IInv, TypeOK, Frame, Rewound, Load, Rewind
    <2>2. GeometryInv'
      BY <1>3 DEF IInv, TypeOK, Frame, GeometryInv, RegionInv, StepInv,
                  DerivedInv, Rewound, Load, Rewind
    <2>3. synced' => line' = H
      <3>1. CASE Load
        BY <1>2, <3>1 DEF Load, IInv, LineInv
      <3>2. CASE Rewind
        BY <3>2 DEF Rewind
      <3> QED BY <3>1, <3>2
    <2>4. frame'.rawW = frame.rawW /\ frame'.yloc = 0
      BY <1>3 DEF IInv, TypeOK, Frame, Rewound
    <2>5. LineInv' /\ Aligned'
      BY <1>1, <1>3, <2>3, <2>4 DEF LineInv, Aligned
    <2> QED BY <2>1, <2>2, <2>5 DEF IInv
  <1> QED BY <1>2, <1>3 DEF Load, Rewind

(* A change of the frame that moves neither y_loc nor the FIFO.             *)
LEMMA StillAligned ==
  ASSUME IInv, frame'.yloc = frame.yloc, frame'.rawW = frame.rawW,
         UNCHANGED <<fifo, line, synced>>
  PROVE  LineInv' /\ Aligned'
  BY DEF IInv, LineInv, Aligned

(* What a setter must have made of the frame before it updates the bounds.  *)
BoundedBy(g) ==
  /\ g.x0 < g.x1 /\ g.x1 <= g.rawW /\ g.x0 % 2 = 0
  /\ g.y0 < g.y1 /\ g.y1 <= g.rawH
  /\ g.xstep > 0 /\ (g.xstep = 1 \/ g.xstep % 2 = 0) /\ g.ystep > 0
  /\ g.rawW < MaxShort /\ g.rawH < MaxShort

LEMMA BoundsStep ==
  ASSUME IInv, NEW g \in Frame, BoundedBy(g), frame' = UpdateBounds(g),
         g.rawW = frame.rawW, g.rawH = frame.rawH, g.yloc = frame.yloc,
         g.coi = frame.coi, g.channels = frame.channels,
         UNCHANGED <<res, sensor, power, fifo, line, synced>>
  PROVE  IInv'
  <1>0. /\ g.x0 \in Nat /\ g.x1 \in Nat /\ g.x0 <= g.x1 /\ g.x1 < MaxShort
        /\ g.y0 \in Nat /\ g.y1 \in Nat /\ g.y0 <= g.y1 /\ g.y1 < MaxShort
        /\ g.xstep \in Nat /\ g.xstep > 0 /\ g.ystep \in Nat /\ g.ystep > 0
    BY SizeAssumption DEF BoundedBy, Frame
  <1>1. /\ UShort(Quot(g.x1 - g.x0, g.xstep)) = (g.x1 - g.x0) \div g.xstep
        /\ (g.x1 - g.x0) \div g.xstep \in Nat
    BY <1>0, BoundsQuotient
  <1>2. /\ UShort(Quot(g.y1 - g.y0, g.ystep)) = (g.y1 - g.y0) \div g.ystep
        /\ (g.y1 - g.y0) \div g.ystep \in Nat
    BY <1>0, BoundsQuotient
  <1>3. frame' = [g EXCEPT !.width = (g.x1 - g.x0) \div g.xstep,
                           !.height = (g.y1 - g.y0) \div g.ystep]
    BY <1>1, <1>2 DEF UpdateBounds
  <1>4. TypeOK'
    BY <1>1, <1>2, <1>3 DEF IInv, TypeOK, Frame
  <1>5. RegionInv' /\ StepInv'
    BY <1>3 DEF Frame, BoundedBy, RegionInv, StepInv
  <1>6. DerivedInv'
    BY <1>3 DEF IInv, GeometryInv, DerivedInv, Frame
  <1>7. LineInv' /\ Aligned'
    BY <1>3, StillAligned DEF Frame
  <1> QED BY <1>4, <1>5, <1>6, <1>7 DEF IInv, GeometryInv

LEMMA RoiStep ==
  ASSUME NoEdge, IInv, NEW x0 \in Coords, NEW y0 \in Coords, NEW x1 \in Coords,
         NEW y1 \in Coords, SetRoi(x0, y0, x1, y1)
  PROVE  IInv'
  <1> DEFINE cx0 == ConstrainX0(x0, frame.rawW)
             cx1 == Clamp(x1, frame.rawW)
             cy0 == Clamp(y0, frame.rawH)
             cy1 == Clamp(y1, frame.rawH)
             g == [frame EXCEPT !.x0 = UShort(cx0), !.y0 = cy0,
                                !.x1 = cx1, !.y1 = cy1]
  <1>1. /\ frame.rawW \in Nat /\ frame.rawW % 2 = 0 /\ frame.rawW < MaxShort
        /\ frame.rawH \in Nat /\ frame.rawH < MaxShort /\ MaxShort \in Nat
    BY SizeFacts, SizeAssumption DEF IInv, TypeOK, GeometryInv, DerivedInv
  <1>2. /\ x0 \in Int /\ y0 \in Int /\ x1 \in Int /\ y1 \in Int
    BY InputAssumption, SizeAssumption
  <1>3. /\ cx0 \in Nat /\ cx0 <= frame.rawW /\ cx0 % 2 = 0
        /\ cx1 \in Nat /\ cx1 <= frame.rawW
        /\ cy0 \in Nat /\ cy1 \in Nat /\ cy1 <= frame.rawH
    BY <1>1, <1>2, X0Range, ClampRange
  <1>4. cx0 < cx1 /\ cy0 < cy1 /\ frame' = UpdateBounds(g)
    BY DEF SetRoi
  <1>5. UShort(cx0) = cx0
    BY <1>1, <1>3, UShortKeeps
  <1> HIDE DEF cx0, cx1, cy0, cy1
  <1>6. /\ g \in Frame /\ g.x0 = cx0 /\ g.x1 = cx1 /\ g.y0 = cy0 /\ g.y1 = cy1
        /\ g.xstep = frame.xstep /\ g.ystep = frame.ystep
        /\ g.rawW = frame.rawW /\ g.rawH = frame.rawH /\ g.yloc = frame.yloc
        /\ g.coi = frame.coi /\ g.channels = frame.channels
    BY <1>3, <1>5 DEF IInv, TypeOK, Frame
  <1> HIDE DEF g
  <1>7. BoundedBy(g)
    BY <1>1, <1>3, <1>4, <1>6 DEF BoundedBy, IInv, GeometryInv, StepInv, DerivedInv
  <1>8. UNCHANGED <<res, sensor, power, fifo, line, synced>>
    BY DEF SetRoi
  <1> QED BY <1>4, <1>6, <1>7, <1>8, BoundsStep

LEMMA SubsampleStep ==
  ASSUME NoEdge, IInv, NEW xs \in Steps, NEW ys \in Steps, SetSubsample(xs, ys)
  PROVE  IInv'
  <1> DEFINE g == [frame EXCEPT !.xstep = XStep(xs), !.ystep = YStep(ys)]
  <1>1. /\ XStep(xs) \in Nat /\ XStep(xs) > 0
        /\ XStep(xs) = 1 \/ XStep(xs) % 2 = 0
        /\ YStep(ys) \in Nat /\ YStep(ys) > 0
    BY StepRange
  <1>2. frame' = UpdateBounds(g)
          /\ UNCHANGED <<res, sensor, power, fifo, line, synced>>
    BY DEF SetSubsample
  <1>3. /\ g \in Frame /\ g.xstep = XStep(xs) /\ g.ystep = YStep(ys)
        /\ g.x0 = frame.x0 /\ g.x1 = frame.x1 /\ g.y0 = frame.y0 /\ g.y1 = frame.y1
        /\ g.rawW = frame.rawW /\ g.rawH = frame.rawH /\ g.yloc = frame.yloc
        /\ g.coi = frame.coi /\ g.channels = frame.channels
    BY <1>1 DEF IInv, TypeOK, Frame
  <1> HIDE DEF g
  <1>4. BoundedBy(g)
    BY <1>1, <1>3, SizeFacts
       DEF BoundedBy, IInv, TypeOK, GeometryInv, RegionInv, DerivedInv
  <1> QED BY <1>2, <1>3, <1>4, BoundsStep

LEMMA CoiStep ==
  ASSUME IInv, NEW c \in Channels, SetCoi(c)
  PROVE  IInv'
  <1>1. c \in Nat
    BY InputAssumption
  <1>2. TypeOK'
    BY <1>1 DEF IInv, TypeOK, Frame, SetCoi
  <1>3. GeometryInv'
    BY <1>1 DEF IInv, TypeOK, Frame, GeometryInv, RegionInv, StepInv,
                DerivedInv, SetCoi
  <1>4. LineInv' /\ Aligned'
    BY StillAligned DEF SetCoi, IInv, TypeOK, Frame
  <1> QED BY <1>2, <1>3, <1>4 DEF IInv

LEMMA ResetStep ==
  ASSUME IInv, NEW r \in Resolution, res' = r,
         frame' = ResetFrame(Width(r), Height(r)),
         sensor' \in Resolution, power' \in BOOLEAN,
         \/ /\ synced' = (synced /\ frame.yloc = 0 /\ frame.rawW = Width(r))
            /\ UNCHANGED <<fifo, line>>
         \/ synced' = FALSE /\ fifo' = 0 /\ UNCHANGED line
  PROVE  IInv'
  <1>1. frame' \in Frame /\ GeometryInv'
    BY ResetGeometry
  <1>2. fifo' \in Nat /\ line' \in Nat
    BY DEF IInv, TypeOK
  <1>5. synced' \in BOOLEAN
    BY Zenon
  <1>3. frame'.yloc = 0 /\ frame'.rawW = Width(r)
    BY DEF ResetFrame
  <1>4. LineInv' /\ Aligned'
    BY <1>3 DEF IInv, LineInv, Aligned
  <1> QED BY <1>1, <1>2, <1>4, <1>5 DEF IInv, TypeOK

LEMMA FrameStep ==
  ASSUME NoEdge, IInv, SetFrame
  PROVE  IInv'
  <1>1. CASE FrameReset
    <2>1. frame.rawW = Width(res) /\ frame.rawH = Height(res)
            /\ res \in Resolution /\ sensor \in Resolution /\ power \in BOOLEAN
      BY DEF IInv, TypeOK, GeometryInv, DerivedInv
    <2> QED BY <1>1, <2>1, ResetStep DEF FrameReset
  <1> QED BY <1>1, RoiStep, SubsampleStep, CoiStep DEF SetFrame

LEMMA CameraStep ==
  ASSUME IInv, SetCamera
  PROVE  IInv'
  <1>1. res \in Resolution /\ sensor \in Resolution /\ power \in BOOLEAN
    BY DEF IInv, TypeOK
  <1>2. ASSUME NEW r \in Resolution, NEW a \in BOOLEAN, NEW b \in BOOLEAN
        PROVE  SensorAfter(r, a, b) \in Resolution
    BY <1>1, <1>2 DEF SensorAfter, Resolution
  <1>3. ASSUME NEW r \in Resolution, SetResolution(r) PROVE IInv'
    BY <1>1, <1>2, <1>3, ResetStep DEF SetResolution, SetRegisters
  <1>4. CASE SetOther
    BY <1>1, <1>2, <1>4, ResetStep DEF SetOther, SetRegisters
  <1>5. ASSUME NEW on \in BOOLEAN, SetPower(on) PROVE IInv'
    BY <1>1, <1>2, <1>5, ResetStep DEF SetPower, SetRegisters
  <1>6. CASE CameraInit
    BY <1>1, <1>6, ResetStep DEF CameraInit, Resolution
  <1> QED BY <1>3, <1>4, <1>5, <1>6 DEF SetCamera

LEMMA RowsGivenNat ==
  ASSUME TypeOK, NEW n \in Nat
  PROVE  RowsGiven(n) \in Nat
  <1> DEFINE a == frame.y1 - frame.yloc
  <1>1. a \in Int /\ frame.ystep \in Nat
    BY DEF TypeOK, Frame
  <1>2. Quot(a, frame.ystep) \in Int
    BY <1>1 DEF Quot
  <1> QED BY <1>2 DEF RowsGiven

LEMMA ReadStep ==
  ASSUME IInv, NEW n \in Nat, ReadRows(n)
  PROVE  IInv'
  <1> DEFINE h == frame.rawW \div 2
             s == frame.ystep
             y == frame.yloc
             t == frame.y0
             k == RowsGiven(n)
  <1>1. h \in Nat /\ s \in Nat /\ y \in Nat /\ t \in Nat /\ fifo \in Nat
    BY SizeFacts, EvenHalves DEF IInv, TypeOK, Frame, GeometryInv, DerivedInv
  <1>2. k \in Nat
    BY RowsGivenNat DEF IInv
  <1>3. RowAdvance(frame) = s * h
    BY RowAdvanceIsLines DEF IInv
  <1> HIDE DEF k, h
  <1>4. fifo' = SeekFifo + k * (s * h)
    BY <1>3 DEF ReadRows, RowStart, k
  <1>5. SeekLoc \in Nat /\ SeekFifo \in Nat /\ k * s \in Nat /\ k * (s * h) \in Nat
    BY <1>1, <1>2 DEF SeekLoc, SeekFifo, h
  <1>6. /\ frame' = [frame EXCEPT !.yloc = SeekLoc + k * s]
        /\ UNCHANGED <<res, sensor, power, line>>
    BY DEF ReadRows, k
  <1>7. synced' \in BOOLEAN
    <2>1. synced' = (synced /\ (frame.yloc < frame.y0 => frame.yloc = 0))
      BY DEF ReadRows
    <2> QED BY <2>1, Zenon
  <1>8. TypeOK'
    BY <1>4, <1>5, <1>6, <1>7 DEF IInv, TypeOK, Frame
  <1>9. GeometryInv'
    BY <1>6 DEF IInv, TypeOK, Frame, GeometryInv, RegionInv, StepInv, DerivedInv
  <1>10. synced' => synced /\ (y < t => y = 0)
    BY DEF ReadRows
  <1>11. frame'.yloc = SeekLoc + k * s /\ frame'.rawW = frame.rawW
    BY <1>6 DEF IInv, TypeOK, Frame
  <1>12. LineInv'
    BY <1>6, <1>10, <1>11 DEF IInv, LineInv
  <1>13. ASSUME synced' PROVE fifo' = (1 + frame'.yloc) * line'
    <2>1. line' = h /\ fifo = (1 + y) * h
      BY <1>6, <1>10, <1>13 DEF IInv, LineInv, Aligned, h
    <2>2. SeekFifo = (1 + SeekLoc) * h
      <3>1. CASE y < t
        <4>1. y = 0
          BY <1>10, <1>13, <3>1
        <4>2. SeekFifo = h + h * t /\ SeekLoc = t
          BY <1>1, <2>1, <3>1, <4>1 DEF SeekFifo, SeekLoc, h
        <4> QED BY <1>1, <4>2
      <3>2. CASE ~(y < t)
        BY <2>1, <3>2 DEF SeekFifo, SeekLoc
      <3> QED BY <3>1, <3>2
    <2>3. (1 + SeekLoc) * h + k * (s * h) = (1 + (SeekLoc + k * s)) * h
      BY <1>1, <1>2, <1>5
    <2> QED BY <1>4, <1>11, <2>1, <2>2, <2>3
  <1> QED BY <1>8, <1>9, <1>12, <1>13 DEF IInv, Aligned

-----------------------------------------------------------------------------
(* The theorems. *)

(* Each call of cc3.c keeps what the others rely on of cc3_g_pixbuf_frame.   *)
THEOREM IInvInvariant == ASSUME NoEdge PROVE Spec => []IInv
  <1>1. IInv /\ [Next]_vars => IInv'
    <2>0. SUFFICES ASSUME IInv, [Next]_vars PROVE IInv'
      OBVIOUS
    <2>1. CASE Load \/ Rewind
      BY <2>0, <2>1, LoadStep
    <2>2. CASE SetFrame
      BY <2>0, <2>2, FrameStep
    <2>3. CASE SetCamera
      BY <2>0, <2>3, CameraStep
    <2>4. CASE \E n \in RowCounts : ReadRows(n)
      BY <2>0, <2>4, ReadStep, InputAssumption
    <2>5. CASE UNCHANGED vars
      BY <2>0, <2>5 DEF vars, IInv, TypeOK, GeometryInv, RegionInv, StepInv,
                        DerivedInv, LineInv, Aligned
    <2> QED BY <2>0, <2>1, <2>2, <2>3, <2>4, <2>5 DEF Next
  <1> QED BY <1>1, InitIInv, PTL DEF Spec

(* Whatever sequence of calls the program makes, the region lies in the      *)
(* frame and the sizes programs allocate by are those of the region.         *)
THEOREM GeometryHolds == ASSUME NoEdge PROVE Spec => []GeometryInv
  <1>1. IInv => GeometryInv
    BY DEF IInv
  <1> QED BY <1>1, IInvInvariant, PTL

(* The row loops consume whole lines of the FIFO, for every region, step and *)
(* channel they can meet.                                                    *)
THEOREM RowIsWholeLinesHolds == ASSUME NoEdge PROVE Spec => []RowIsWholeLines
  <1>1. IInv => RowIsWholeLines
    BY RowAdvanceIsLines DEF IInv, RowIsWholeLines
  <1> QED BY <1>1, IInvInvariant, PTL

(* A program that keeps to the rules reads where y_loc says it reads. *)
THEOREM AlignedHolds == ASSUME NoEdge PROVE Spec => []Aligned
  <1>1. IInv => Aligned
    BY DEF IInv
  <1> QED BY <1>1, IInvInvariant, PTL

LEMMA DivCancels ==
  ASSUME NEW a \in Nat, NEW b \in Nat, b > 0
  PROVE  (a * b) \div b = a
  OBVIOUS

LEMMA ModCancels ==
  ASSUME NEW a \in Nat, NEW b \in Nat, b > 0
  PROVE  (a * b) % b = 0
  OBVIOUS

(* A row asked for by itself is a row of the region, and is read from where  *)
(* the FIFO holds it.                                                        *)
THEOREM SingleRowInRegionHolds ==
  ASSUME NoEdge PROVE Spec => []SingleRowInRegion
  <1>1. IInv => SingleRowInRegion
    <2>0. SUFFICES ASSUME IInv, synced, frame.yloc <= frame.y1,
                          frame.yloc < frame.y0 => frame.yloc = 0,
                          RowsGiven(1) = 1
                   PROVE  RowAtFifo(0) \in frame.y0 .. frame.y1 - 1
      BY DEF SingleRowInRegion
    <2> DEFINE h == frame.rawW \div 2
               d == frame.y1 - frame.yloc
               q == d \div frame.ystep
    <2>1. /\ frame.yloc \in Nat /\ frame.y0 \in Nat /\ frame.y1 \in Nat
          /\ frame.y0 < frame.y1 /\ frame.ystep \in Nat /\ frame.ystep > 0
          /\ d \in Nat
      BY <2>0 DEF IInv, TypeOK, Frame, GeometryInv, RegionInv, StepInv
    <2>2. line = h /\ h \in Nat /\ h > 0 /\ fifo = (1 + frame.yloc) * line
      <3>1. frame.rawW \in Nat /\ frame.rawW > 0 /\ frame.rawW % 2 = 0
        BY <2>0, SizeFacts DEF IInv, TypeOK, GeometryInv, DerivedInv
      <3>2. h \in Nat /\ h > 0
        BY <3>1, EvenHalves
      <3> QED BY <2>0, <3>2 DEF IInv, LineInv, Aligned
    <2>3. frame.yloc < frame.y1
      <3>1. q \in Nat /\ q <= d
        BY <2>1, DivBounds
      <3>2. Quot(d, frame.ystep) = q
        BY <2>1 DEF Quot
      <3>3. q # 0
        BY <2>0, <3>1, <3>2 DEF RowsGiven
      <3> QED BY <2>1, <3>1, <3>3
    <2>4. SeekLoc \in Nat /\ SeekLoc \in frame.y0 .. frame.y1 - 1
      BY <2>1, <2>3 DEF SeekLoc
    <2>5. RowStart(0) = (1 + SeekLoc) * line
      <3>1. SeekFifo = (1 + SeekLoc) * h
        <4>1. CASE frame.yloc < frame.y0
          BY <2>0, <2>1, <2>2, <4>1 DEF SeekFifo, SeekLoc
        <4>2. CASE ~(frame.yloc < frame.y0)
          BY <2>2, <4>2 DEF SeekFifo, SeekLoc
        <4> QED BY <4>1, <4>2
      <3>2. RowAdvance(frame) \in Int /\ SeekFifo \in Int
        BY <2>0, <2>1, <2>2, <2>4, <3>1, RowAdvanceIsLines DEF IInv
      <3> QED BY <2>2, <3>1, <3>2 DEF RowStart
    <2>6. ((1 + SeekLoc) * line) \div line = 1 + SeekLoc
      BY <2>2, <2>4, DivCancels
    <2> QED BY <2>4, <2>5, <2>6 DEF RowAtFifo
  <1> QED BY <1>1, IInvInvariant, PTL

-----------------------------------------------------------------------------
(* The row loop. *)

Lines == IF HiHeight > LoHeight THEN HiHeight ELSE LoHeight
RegionWindow == [i \in 1..RegionRows |-> frame.y0 + (i - 1) * frame.ystep]
Delivered == IF got = -1 THEN -1 ELSE got \div line - 1

(* Where the loop is: at the top, or some rows down the region.  A region   *)
(* without rows is left at its first line.                                  *)
PlaceInv ==
  \/ frame.yloc = 0
  \/ RegionRows = 0 /\ frame.yloc = frame.y0
  \/ \E k \in 1..RegionRows : frame.yloc = frame.y0 + k * frame.ystep

LoopInv ==
  /\ reading \in BOOLEAN /\ got \in Nat \cup {-1}
  /\ reading => synced
  /\ ~reading => got = -1

PassInv == IInv /\ PlaceInv /\ LoopInv

LEMMA FrameFacts ==
  ASSUME IInv
  PROVE  /\ frame.y0 \in Nat /\ frame.y1 \in Nat /\ frame.yloc \in Nat
         /\ frame.ystep \in Nat /\ frame.ystep > 0 /\ frame.height \in Nat
         /\ frame.y0 < frame.y1 /\ frame.y1 <= Lines /\ Lines \in Nat
         /\ frame.ystep * frame.height <= frame.y1 - frame.y0
         /\ frame.height = 0 => frame.y1 - frame.y0 < frame.ystep
  <1>1. /\ frame.y0 \in Nat /\ frame.y1 \in Nat /\ frame.yloc \in Nat
        /\ frame.ystep \in Nat /\ frame.ystep > 0 /\ frame.height \in Nat
        /\ frame.y0 < frame.y1 /\ frame.y1 <= frame.rawH
        /\ frame.height = (frame.y1 - frame.y0) \div frame.ystep
    BY DEF IInv, TypeOK, Frame, GeometryInv, RegionInv, StepInv, DerivedInv
  <1>2. frame.rawH <= Lines /\ Lines \in Nat
    <2>1. LoHeight \in Nat /\ HiHeight \in Nat
      BY SizeAssumption
    <2>2. frame.rawH = LoHeight \/ frame.rawH = HiHeight
      BY DEF IInv, GeometryInv, DerivedInv, Height
    <2>3. QED
      BY <2>1, <2>2 DEF Lines
  <1>3. frame.ystep * frame.height <= frame.y1 - frame.y0
    BY <1>1, DivBounds
  <1>4. frame.height = 0 => frame.y1 - frame.y0 < frame.ystep
    BY <1>1
  <1>5. frame.y1 <= Lines
    <2>1. frame.rawH \in Nat
      BY DEF IInv, TypeOK, Frame
    <2>2. QED
      BY <1>1, <1>2, <2>1
  <1>6. QED
    BY <1>1, <1>2, <1>3, <1>4, <1>5

LEMMA RegionRowsNat == IInv => RegionRows \in Nat
  BY FrameFacts DEF RegionRows

(* The lines of the region are a window of the source. *)
LEMMA WindowIsWindow ==
  ASSUME IInv
  PROVE  Source!IsWindow(RegionWindow) /\ Len(RegionWindow) = RegionRows
         /\ \A i \in 1..RegionRows : RegionWindow[i] = frame.y0 + (i - 1) * frame.ystep
  <1> DEFINE n == RegionRows
             w == RegionWindow
  <1>1. n \in Nat
    BY RegionRowsNat
  <1>2. \A i \in 1..n : frame.y0 + (i - 1) * frame.ystep \in Nat
    BY FrameFacts, <1>1
  <1>3. Len(w) = n /\ DOMAIN w = 1..n
    BY <1>1, <1>2 DEF RegionWindow
  <1>4. \A i \in 1..n : w[i] = frame.y0 + (i - 1) * frame.ystep
    BY DEF RegionWindow
  <1>5. \A i \in 1..n : w[i] < Lines
    <2>1. TAKE i \in 1..n
    <2>2. CASE n = 1
      <3>1. w[i] = frame.y0
        BY <1>4, <2>2, FrameFacts
      <3>2. QED
        BY <3>1, FrameFacts
    <2>3. CASE n # 1
      <3>1. n = frame.height
        BY <1>1, <2>1, <2>3 DEF RegionRows
      <3>2. (i - 1) * frame.ystep <= (n - 1) * frame.ystep
        BY <1>1, FrameFacts
      <3>3. (n - 1) * frame.ystep = frame.ystep * frame.height - frame.ystep
        BY <1>1, <3>1, FrameFacts
      <3>4. QED
        BY <1>1, <1>2, <1>4, <3>2, <3>3, FrameFacts
    <2>4. QED
      BY <2>2, <2>3
  <1>6. Source!IsWindow(w)
    <2>1. CASE n <= 1
      <3>1. w = Source!Window(frame.y0, 1, n)
        BY <1>1, <2>1, FrameFacts DEF Source!Window, RegionWindow
      <3>2. QED
        BY <1>3, <1>5, <3>1, FrameFacts DEF Source!IsWindow, Lines
    <2>2. CASE n > 1
      <3>1. n = frame.height
        BY <1>1, <2>2 DEF RegionRows
      <3>2. frame.ystep <= frame.ystep * frame.height
        BY <1>1, <2>2, <3>1, FrameFacts
      <3>3. frame.ystep \in 1..Lines + 1 /\ frame.y0 \in 0..Lines
        BY <3>2, FrameFacts
      <3>4. w = Source!Window(frame.y0, frame.ystep, n)
        BY DEF Source!Window, RegionWindow
      <3>5. QED
        BY <1>3, <1>5, <3>3, <3>4 DEF Source!IsWindow, Lines
    <2>3. QED
      BY <1>1, <2>1, <2>2
  <1>7. QED
    BY <1>3, <1>4, <1>6

(* A pass that is at the top of the frame has delivered nothing. *)
LEMMA TopDeliversNothing ==
  ASSUME IInv, frame.yloc = 0
  PROVE  RowsRead = 0 /\ PlaceInv
  BY FrameFacts DEF RowsRead, PlaceInv

-----------------------------------------------------------------------------
(* One row. *)

(* The row at hand is the one after those delivered, the region has one more *)
(* exactly when the code gives one, and it is taken from its own line.       *)
LEMMA RowAtHand ==
  ASSUME PassInv, synced
  PROVE  /\ RowsRead \in 0..RegionRows
         /\ RowsGiven(1) = (IF RowsRead < RegionRows THEN 1 ELSE 0)
         /\ RowsRead < RegionRows => SeekLoc = frame.y0 + RowsRead * frame.ystep
         /\ RowStart(0) \in Nat /\ RowStart(0) \div line - 1 = SeekLoc /\ RowStart(0) % line = 0
  <1> DEFINE s == frame.ystep
             n == RegionRows
             d == frame.y1 - frame.yloc
  <1>0. IInv
    BY DEF PassInv
  <1>1. n \in Nat
    BY <1>0, RegionRowsNat
  <1>2. SeekLoc \in Nat
    BY <1>0, FrameFacts DEF SeekLoc
  <1>3. frame.yloc < frame.y0 => frame.yloc = 0
    <2>1. ASSUME NEW k \in 1..n, frame.yloc = frame.y0 + k * s
          PROVE  frame.yloc >= frame.y0
      BY <1>0, <1>1, <2>1, FrameFacts
    <2>2. QED
      BY <1>0, <2>1, FrameFacts DEF PassInv, PlaceInv
  <1>4. RowStart(0) \in Nat /\ RowStart(0) \div line - 1 = SeekLoc /\ RowStart(0) % line = 0
    <2> DEFINE h == frame.rawW \div 2
    <2>1. line = h /\ h \in Nat /\ h > 0 /\ fifo = (1 + frame.yloc) * h
      <3>1. frame.rawW \in Nat /\ frame.rawW > 0 /\ frame.rawW % 2 = 0
        BY <1>0, SizeFacts DEF IInv, TypeOK, GeometryInv, DerivedInv
      <3>2. h \in Nat /\ h > 0
        BY <3>1, EvenHalves
      <3>3. QED
        BY <1>0, <3>2 DEF IInv, LineInv, Aligned
    <2> HIDE DEF h
    <2>2. SeekFifo = (1 + SeekLoc) * h
      <3>1. CASE frame.yloc < frame.y0
        <4>1. SeekFifo = h + h * frame.y0 /\ SeekLoc = frame.y0
          BY <1>0, <1>3, <2>1, <3>1, FrameFacts DEF SeekFifo, SeekLoc, h
        <4>2. QED
          BY <1>0, <2>1, <4>1, FrameFacts
      <3>2. CASE ~(frame.yloc < frame.y0)
        BY <2>1, <3>2 DEF SeekFifo, SeekLoc
      <3>3. QED
        BY <3>1, <3>2
    <2>3. RowStart(0) = (1 + SeekLoc) * h
      <3>1. RowAdvance(frame) \in Int
        BY <1>0, <2>1, RowAdvanceIsLines, FrameFacts DEF IInv, h
      <3>2. SeekFifo \in Int
        BY <1>2, <2>1, <2>2
      <3>3. QED
        BY <2>2, <3>1, <3>2 DEF RowStart
    <2>4. QED
      BY <1>2, <2>1, <2>3, DivCancels, ModCancels
  <1>5. CASE frame.yloc = 0
    <2>1. RowsRead = 0 /\ SeekLoc = frame.y0
      BY <1>0, <1>5, FrameFacts DEF RowsRead, SeekLoc
    <2>2. Quot(d, s) = frame.y1 \div s
      BY <1>0, <1>5, FrameFacts DEF Quot
    <2>3. frame.height = 0 => (frame.y0 > 0 /\ frame.y1 >= s <=> n > 0) /\ n <= 1
      BY <1>0, FrameFacts DEF RegionRows
    <2>4. frame.height > 0 => n = frame.height
      BY DEF RegionRows
    <2>5. frame.y1 \div s = 0 <=> frame.y1 < s
      BY <1>0, FrameFacts
    <2>6. frame.y1 \div s \in Nat
      BY <1>0, FrameFacts, DivBounds
    <2>7. frame.height > 0 => frame.y1 >= s
      <3>1. frame.height > 0 => s * frame.height >= s
        BY <1>0, FrameFacts
      <3>2. s * frame.height \in Nat
        BY <1>0, FrameFacts
      <3>3. QED
        BY <1>0, <3>1, <3>2, FrameFacts
    <2>8. RowsGiven(1) = IF frame.y1 < s THEN 0 ELSE 1
      BY <2>2, <2>5, <2>6 DEF RowsGiven
    <2>9. frame.y1 < s <=> n = 0
      BY <1>0, <1>1, <2>3, <2>4, <2>7, FrameFacts
    <2>10. QED
      BY <1>0, <1>1, <1>4, <2>1, <2>8, <2>9, FrameFacts
  <1>6. CASE n = 0 /\ frame.yloc = frame.y0 /\ frame.yloc # 0
    <2>1. RowsRead = 0
      BY <1>0, <1>6, FrameFacts DEF RowsRead
    <2>2. d \in Nat /\ d < s
      BY <1>0, <1>6, FrameFacts DEF RegionRows
    <2>3. Quot(d, s) = 0
      BY <1>0, <2>2, FrameFacts DEF Quot
    <2>4. RowsGiven(1) = 0
      BY <2>3 DEF RowsGiven
    <2>5. QED
      BY <1>4, <1>6, <2>1, <2>4
  <1>7. ASSUME NEW k \in 1..n, frame.yloc = frame.y0 + k * s
        PROVE  /\ RowsRead \in 0..n
               /\ RowsGiven(1) = (IF RowsRead < n THEN 1 ELSE 0)
               /\ RowsRead < n => SeekLoc = frame.y0 + RowsRead * s
    <2>1. k * s \in Nat /\ k * s >= s /\ k \in Nat
      BY <1>0, <1>1, FrameFacts
    <2>2. (k * s) \div s = k
      BY <1>0, <2>1, FrameFacts, DivCancels
    <2>3. frame.yloc > frame.y0 /\ frame.yloc - frame.y0 = k * s
      BY <1>0, <1>7, <2>1, FrameFacts
    <2>4. RowsRead = k
      BY <2>2, <2>3, <1>0, FrameFacts DEF RowsRead
    <2>5. SeekLoc = frame.yloc
      BY <1>0, <2>3, FrameFacts DEF SeekLoc
    <2>6. CASE frame.height > 0
      <3>1. n = frame.height
        BY <2>6 DEF RegionRows
      <3>2. CASE k < n
        <4>1. (k + 1) * s <= s * n
          BY <1>0, <1>1, <2>1, <3>2, FrameFacts
        <4>2. k * s + s <= frame.y1 - frame.y0
          BY <1>0, <1>1, <2>1, <3>1, <4>1, FrameFacts
        <4>3. d \in Nat /\ d >= s
          BY <1>0, <1>7, <2>1, <4>2, FrameFacts
        <4>4. Quot(d, s) \in Nat /\ Quot(d, s) >= 1
          BY <1>0, <4>3, FrameFacts DEF Quot
        <4>5. RowsGiven(1) = 1
          BY <4>4 DEF RowsGiven
        <4>6. QED
          BY <1>1, <1>7, <2>1, <2>4, <2>5, <3>2, <4>5
      <3>3. CASE k = n
        <4>1. frame.y1 - frame.y0 < s * (n + 1)
          <5>1. n = (frame.y1 - frame.y0) \div s
            BY <1>0, <3>1 DEF IInv, GeometryInv, DerivedInv
          <5>2. QED
            BY <1>0, <5>1, FrameFacts
        <4>2. s * (n + 1) = k * s + s
          BY <1>0, <1>1, <3>3, FrameFacts
        <4>3. s * frame.height = k * s
          BY <1>0, <3>1, <3>3, FrameFacts
        <4>4. d \in Nat /\ d < s
          BY <1>0, <1>7, <2>1, <4>1, <4>2, <4>3, FrameFacts
        <4>5. Quot(d, s) = 0
          BY <1>0, <4>4, FrameFacts DEF Quot
        <4>6. QED
          BY <1>1, <2>4, <3>3, <4>5 DEF RowsGiven
      <3>4. QED
        BY <1>1, <3>2, <3>3
    <2>7. CASE frame.height = 0
      <3>1. n = 1 /\ k = 1
        BY <1>0, <1>1, <2>7, FrameFacts DEF RegionRows
      <3>2. d = (frame.y1 - frame.y0) - s /\ d \in Int /\ d < 0 /\ -d < s
        BY <1>0, <1>7, <2>7, <3>1, FrameFacts
      <3>3. Quot(d, s) = 0
        <4>1. -d \in Nat /\ (-d) \div s = 0
          BY <1>0, <3>2, FrameFacts
        <4>2. QED
          BY <1>0, <3>2, <4>1, FrameFacts DEF Quot
      <3>4. QED
        BY <2>4, <3>1, <3>3 DEF RowsGiven
    <2>8. QED
      BY <1>0, <2>6, <2>7, FrameFacts
  <1>8. QED
    BY <1>4, <1>5, <1>6, <1>7 DEF PassInv, PlaceInv

(* What a call of cc3_pixbuf_read_rows (pix, 1) does to the loop. *)
LEMMA RowRead ==
  ASSUME PassInv, synced, ReadRows(1)
  PROVE  /\ frame'.yloc = SeekLoc + RowsGiven(1) * frame.ystep
         /\ RegionRows' = RegionRows /\ RegionWindow' = RegionWindow
         /\ line' = line /\ synced'
         /\ RowsGiven(1) = 1 => RowsRead' = RowsRead + 1
         /\ RowsGiven(1) = 0 => RowsRead' = RowsRead
         /\ PlaceInv'
  <1> DEFINE n == RegionRows
             s == frame.ystep
             k == RowsRead
  <1>0. IInv
    BY DEF PassInv
  <1>1. /\ frame' = [frame EXCEPT !.yloc = SeekLoc + RowsGiven(1) * s]
        /\ line' = line
    BY DEF ReadRows
  <1>2. frame \in Frame
    BY <1>0 DEF IInv, TypeOK
  <1>3. /\ frame'.yloc = SeekLoc + RowsGiven(1) * s
        /\ frame'.y0 = frame.y0 /\ frame'.y1 = frame.y1
        /\ frame'.ystep = s /\ frame'.height = frame.height
    BY <1>1, <1>2 DEF Frame
  <1>4. RegionRows' = n
    BY <1>3 DEF RegionRows
  <1>5. RegionWindow' = RegionWindow
    BY <1>3, <1>4 DEF RegionWindow
  <1>6. synced'
    <2>1. frame.yloc < frame.y0 => frame.yloc = 0
      <3>1. ASSUME NEW i \in 1..n, frame.yloc = frame.y0 + i * s
            PROVE  frame.yloc >= frame.y0
        BY <1>0, <3>1, RegionRowsNat, FrameFacts
      <3>2. QED
        BY <1>0, <3>1, FrameFacts DEF PassInv, PlaceInv
    <2>2. QED
      BY <2>1 DEF ReadRows
  <1>7. n \in Nat /\ k \in 0..n /\ RowsGiven(1) = IF k < n THEN 1 ELSE 0
    BY <1>0, RegionRowsNat, RowAtHand
  <1>8. CASE k < n
    <2>1. frame'.yloc = frame.y0 + (k + 1) * s
      <3>1. SeekLoc = frame.y0 + k * s /\ RowsGiven(1) = 1
        BY <1>7, <1>8, RowAtHand
      <3>2. frame'.yloc = SeekLoc + 1 * s
        BY <1>3, <3>1
      <3>3. k \in Nat /\ k * s \in Nat /\ (k + 1) * s = k * s + s
        BY <1>0, <1>7, FrameFacts
      <3>4. QED
        BY <1>0, <3>1, <3>2, <3>3, FrameFacts
    <2>2. (k + 1) * s \in Nat /\ (k + 1) * s > 0 /\ k + 1 \in 1..n
      BY <1>0, <1>7, <1>8, FrameFacts
    <2>3. ((k + 1) * s) \div s = k + 1
      BY <1>0, <1>7, DivCancels, FrameFacts
    <2>4. frame'.yloc > frame'.y0 /\ frame'.yloc - frame'.y0 = (k + 1) * s
      BY <1>0, <1>3, <2>1, <2>2, FrameFacts
    <2>5. RowsRead' = k + 1
      <3>1. frame'.yloc \in Nat /\ frame'.y0 \in Nat /\ ~(frame'.yloc <= frame'.y0)
        BY <1>0, <1>3, <2>1, <2>2, <2>4, FrameFacts
      <3>2. QED
        BY <1>3, <2>3, <2>4, <3>1 DEF RowsRead
    <2>6. PlaceInv'
      BY <1>3, <1>4, <2>1, <2>2 DEF PlaceInv
    <2>7. QED
      BY <1>1, <1>3, <1>4, <1>5, <1>6, <1>7, <1>8, <2>5, <2>6
  <1>9. CASE k = n
    <2>1. RowsGiven(1) = 0 /\ frame'.yloc = SeekLoc
      <3>1. RowsGiven(1) = 0
        BY <1>7, <1>9
      <3>2. SeekLoc \in Nat
        BY <1>0, FrameFacts DEF SeekLoc
      <3>3. QED
        BY <1>0, <1>3, <3>1, <3>2, FrameFacts
    <2>2. CASE frame.yloc < frame.y0
      <3>1. frame'.yloc = frame'.y0
        BY <1>3, <2>1, <2>2 DEF SeekLoc
      <3>2. k = 0
        BY <1>0, <2>2, FrameFacts DEF RowsRead
      <3>3. RowsRead' = 0
        BY <1>0, <1>3, <3>1, FrameFacts DEF RowsRead
      <3>4. PlaceInv'
        BY <1>3, <1>4, <1>9, <3>1, <3>2 DEF PlaceInv
      <3>5. QED
        BY <1>1, <1>3, <1>4, <1>5, <1>6, <2>1, <3>2, <3>3, <3>4
    <2>3. CASE ~(frame.yloc < frame.y0)
      <3>1. frame'.yloc = frame.yloc
        BY <2>1, <2>3 DEF SeekLoc
      <3>2. RowsRead' = RowsRead
        BY <1>3, <3>1 DEF RowsRead
      <3>3. PlaceInv'
        BY <1>3, <1>4, <3>1 DEF PassInv, PlaceInv
      <3>4. QED
        BY <1>1, <1>3, <1>4, <1>5, <1>6, <2>1, <3>2, <3>3
    <2>4. QED
      BY <2>2, <2>3
  <1>10. QED
    BY <1>7, <1>8, <1>9

(* A call outside the loop returns to the top of the frame, or does nothing. *)
LEMMA OutsideReturns ==
  ASSUME PassInv, IInv', Prepare
  PROVE  /\ ~reading /\ ~reading' /\ reading' = reading /\ got' = -1
         /\ frame'.yloc = 0 \/ UNCHANGED frame
  <1>1. frame \in Frame /\ frame.yloc \in Nat
    BY DEF PassInv, IInv, TypeOK, Frame
  <1>2. ASSUME Load \/ Rewind
        PROVE  frame'.yloc = 0 \/ UNCHANGED frame
    BY <1>1, <1>2 DEF Load, Rewind, Rewound, Frame
  <1>3. ASSUME frame.yloc = 0, SetFrame
        PROVE  frame'.yloc = 0
    <2>1. ASSUME NEW g \in Frame, frame' = UpdateBounds(g), g.yloc = 0
          PROVE  frame'.yloc = 0
      BY <2>1 DEF UpdateBounds, Frame
    <2>2. CASE \E x0, y0, x1, y1 \in Coords : SetRoi(x0, y0, x1, y1)
      <3>1. PICK x0, y0, x1, y1 \in Coords : SetRoi(x0, y0, x1, y1)
        BY <2>2
      <3>2. QED
        BY <1>1, <1>3, <3>1 DEF SetRoi, UpdateBounds, Frame
    <2>3. CASE \E xs, ys \in Steps : SetSubsample(xs, ys)
      BY <1>1, <1>3, <2>3 DEF SetSubsample, UpdateBounds, Frame
    <2>4. CASE \E c \in Channels : SetCoi(c)
      BY <1>1, <1>3, <2>4 DEF SetCoi, Frame
    <2>5. CASE FrameReset
      BY <2>5 DEF FrameReset, ResetFrame
    <2>6. QED
      BY <1>3, <2>2, <2>3, <2>4, <2>5 DEF SetFrame
  <1>4. ASSUME SetCamera
        PROVE  frame'.yloc = 0
    BY <1>4 DEF SetCamera, SetResolution, SetOther, SetPower, SetRegisters, CameraInit, ResetFrame
  <1>5. QED
    BY <1>2, <1>3, <1>4 DEF Prepare, Grab, Adjust, Outside, PassInv, LoopInv

LEMMA PassStep ==
  ASSUME NoEdge, PassInv, [PassNext]_passVars
  PROVE  PassInv'
  <1>0. IInv'
    <2>1. CASE Load \/ Rewind
      BY <2>1, LoadStep DEF PassInv
    <2>2. CASE SetFrame
      BY <2>2, FrameStep DEF PassInv
    <2>3. CASE SetCamera
      BY <2>3, CameraStep DEF PassInv
    <2>4. CASE ReadRows(1)
      BY <2>4, ReadStep DEF PassInv
    <2>5. CASE UNCHANGED vars
      BY <2>5 DEF PassInv, vars, IInv, TypeOK, GeometryInv, RegionInv, StepInv,
                  DerivedInv, LineInv, Aligned
    <2>6. QED
      BY <2>1, <2>2, <2>3, <2>4, <2>5
         DEF PassNext, Prepare, Grab, Adjust, BeginLoop, LoopRead, passVars
  <1>1. CASE Prepare
    <2>1. LoopInv'
      <3>1. ~reading' /\ reading' = reading /\ got' = -1
        BY <1>0, <1>1, OutsideReturns
      <3>2. reading' \in BOOLEAN
        BY <3>1 DEF PassInv, LoopInv
      <3>3. QED
        BY <3>1, <3>2 DEF LoopInv
    <2>2. PlaceInv'
      <3>1. frame'.yloc = 0 => PlaceInv'
        BY DEF PlaceInv
      <3>2. UNCHANGED frame => PlaceInv'
        BY DEF PassInv, PlaceInv, RegionRows
      <3>3. QED
        BY <1>0, <1>1, <3>1, <3>2, OutsideReturns
    <2>3. QED
      BY <1>0, <2>1, <2>2 DEF PassInv
  <1>2. CASE BeginLoop \/ UNCHANGED passVars
    <2>1. UNCHANGED frame /\ UNCHANGED synced /\ UNCHANGED got
      BY <1>2 DEF BeginLoop, passVars, vars
    <2>2. PlaceInv'
      BY <2>1 DEF PassInv, PlaceInv, RegionRows
    <2>3. LoopInv'
      <3>1. CASE BeginLoop
        BY <2>1, <3>1, Zenon DEF PassInv, LoopInv, BeginLoop
      <3>2. CASE UNCHANGED passVars
        <4>1. reading' = reading
          BY <3>2 DEF passVars
        <4>2. QED
          BY <2>1, <4>1, Zenon DEF PassInv, LoopInv
      <3>3. QED
        BY <1>2, <3>1, <3>2
    <2>4. QED
      BY <1>0, <2>2, <2>3 DEF PassInv
  <1>3. CASE LoopRead
    <2>1. synced /\ ReadRows(1)
      BY <1>3 DEF LoopRead, PassInv, LoopInv
    <2>2. PlaceInv' /\ synced'
      BY <2>1, RowRead
    <2>3. LoopInv'
      <3>1. CASE RowsGiven(1) = 1
        <4>1. got' = RowStart(0) /\ reading' = reading /\ reading
          BY <1>3, <3>1, Zenon DEF LoopRead
        <4>2. got' \in Nat
          BY <2>1, <4>1, RowAtHand
        <4>3. QED
          BY <2>2, <4>1, <4>2, Zenon DEF PassInv, LoopInv
      <3>2. CASE RowsGiven(1) # 1
        <4>1. got' = -1 /\ reading' = FALSE
          BY <1>3, <3>2, Zenon DEF LoopRead
        <4>2. QED
          BY <4>1 DEF LoopInv
      <3>3. QED
        BY <3>1, <3>2
    <2>4. QED
      BY <1>0, <2>2, <2>3 DEF PassInv
  <1>4. QED
    BY <1>1, <1>2, <1>3 DEF PassNext

-----------------------------------------------------------------------------
(* Every step is a step of the source, or leaves it alone. *)
LEMMA PassSimulates ==
  ASSUME NoEdge, PassInv, PassInv', [PassNext]_passVars
  PROVE  [Source!SrcNext]_(Source!srcVars)
  <1>0. IInv /\ IInv'
    BY DEF PassInv
  <1>1. CASE Prepare
    <2>1. ~reading /\ ~reading' /\ got = -1 /\ got' = -1
      BY <1>0, <1>1, OutsideReturns DEF PassInv, LoopInv
    <2>2. CASE UNCHANGED frame
      BY <1>1, <2>1, <2>2 DEF Source!srcVars, RegionRows, RowsRead, PassInv, LoopInv,
         Prepare, Grab, Adjust, Outside
    <2>3. CASE frame'.yloc = 0
      <3>1. RowsRead' = 0
        <4>1. (IInv => frame.y0 \in Nat)'
          BY FrameFacts, PTL
        <4>2. QED
          BY <1>0, <2>3, <4>1 DEF RowsRead
      <3>2. (IInv => Source!IsWindow(RegionWindow))'
        BY WindowIsWindow, PTL
      <3>3. QED
        BY <1>0, <2>1, <3>1, <3>2 DEF Source!SrcNext, Source!Select, RegionWindow
    <2>4. QED
      BY <1>0, <1>1, <2>2, <2>3, OutsideReturns
  <1>2. CASE BeginLoop
    BY <1>2 DEF BeginLoop, vars, Source!SrcNext, Source!Begin, RegionRows, RowsRead
  <1>3. CASE LoopRead
    <2>1. synced /\ ReadRows(1) /\ reading /\ line' = line
      BY <1>3 DEF LoopRead, PassInv, LoopInv, ReadRows
    <2>2. /\ RowsRead \in 0..RegionRows /\ RegionRows \in Nat
          /\ Len(RegionWindow) = RegionRows /\ RegionWindow' = RegionWindow
      BY <1>0, <2>1, RowAtHand, RowRead, RegionRowsNat, WindowIsWindow
    <2>3. CASE RowsRead < RegionRows
      <3>1. RowsGiven(1) = 1 /\ RowsRead' = RowsRead + 1
        BY <2>1, <2>3, RowAtHand, RowRead
      <3>2. got' = RowStart(0) /\ reading' = reading
        BY <1>3, <3>1 DEF LoopRead
      <3>3. Delivered' = RegionWindow[RowsRead + 1]
        <4>1. RegionWindow[RowsRead + 1] = frame.y0 + RowsRead * frame.ystep
          BY <1>0, <2>2, <2>3, FrameFacts, WindowIsWindow
        <4>2. got' # -1 /\ got' \div line' - 1 = SeekLoc
          BY <2>1, <3>2, RowAtHand
        <4>3. QED
          BY <2>1, <2>3, <4>1, <4>2, RowAtHand DEF Delivered
      <3>4. Source!Deliver
        BY <2>1, <2>2, <2>3, <3>1, <3>2, <3>3 DEF Source!Deliver, RegionWindow, Delivered
      <3>5. QED
        BY <3>4 DEF Source!SrcNext
    <2>4. CASE RowsRead = RegionRows
      <3>1. RowsGiven(1) = 0 /\ RowsRead' = RowsRead
        BY <2>1, <2>2, <2>4, RowAtHand, RowRead
      <3>2. got' = -1 /\ reading' = FALSE
        <4>1. RowsGiven(1) # 1
          BY <3>1
        <4>2. QED
          BY <1>3, <4>1, Zenon DEF LoopRead
      <3>3. Source!Finish
        BY <2>1, <2>2, <2>4, <3>1, <3>2 DEF Source!Finish, RegionWindow
      <3>4. QED
        BY <3>3 DEF Source!SrcNext
    <2>5. QED
      BY <2>2, <2>3, <2>4
  <1>4. CASE UNCHANGED passVars
    BY <1>4 DEF passVars, vars, Source!srcVars, RegionRows, RowsRead
  <1>5. QED
    BY <1>1, <1>2, <1>3, <1>4 DEF PassNext

(* Between two calls of cc3_pixbuf_read_rows (pix, 1) y_loc is a whole       *)
(* number of steps below the region's first line, or at the top.             *)
THEOREM PassInvInvariant == ASSUME NoEdge PROVE PassSpec => []PassInv
<1>1. PassInit => PassInv
  <2>1. SUFFICES ASSUME PassInit PROVE PassInv
    OBVIOUS
  <2>2. Init /\ reading = FALSE /\ got = -1
    BY <2>1 DEF PassInit
  <2>3. frame.yloc = 0
    BY <2>2 DEF Init, ResetFrame
  <2>4. QED
    BY <2>2, <2>3, InitIInv DEF PassInv, PlaceInv, LoopInv
<1>2. PassInv /\ [PassNext]_passVars => PassInv'
  BY PassStep
<1>3. QED
  BY <1>1, <1>2, PTL DEF PassSpec

LEMMA PassStartsSource == PassInit => Source!SrcInit
<1>1. SUFFICES ASSUME PassInit PROVE Source!SrcInit
  OBVIOUS
<1>2. Init /\ reading = FALSE /\ got = -1
  BY <1>1 DEF PassInit
<1>3. IInv /\ frame.yloc = 0
  BY <1>2, InitIInv DEF Init, ResetFrame
<1>4. RowsRead = 0 /\ Source!IsWindow(RegionWindow)
  BY <1>3, TopDeliversNothing, WindowIsWindow
<1>5. QED
  BY <1>2, <1>4 DEF Source!SrcInit, RegionWindow

(* Reading row by row delivers the rows of the region, from the top, each    *)
(* once and from the right place in the FIFO, and says so at the end: the    *)
(* loop implements the safety part of RowSource.                             *)
THEOREM PassImplementsRowSource ==
  ASSUME NoEdge
  PROVE  PassSpec => Source!SrcInit /\ [][Source!SrcNext]_(Source!srcVars)
<1>1. PassInit => Source!SrcInit
  BY PassStartsSource
<1>2. PassInv /\ PassInv' /\ [PassNext]_passVars => [Source!SrcNext]_(Source!srcVars)
  BY PassSimulates
<1>3. QED
  BY <1>1, <1>2, PassInvInvariant, PTL DEF PassSpec

-----------------------------------------------------------------------------
(* Least elements and induction over finite sets. *)

LEMMA Least ==
  ASSUME NEW S \in SUBSET Nat, S # {}
  PROVE  \E m \in S : \A n \in S : m <= n
<1> DEFINE R == OpToRel(<, Nat)
<1>1. IsWellFoundedOn(R, Nat)
  BY NatLessThanWellFounded
<1>2. \A x, y \in Nat : <<x, y>> \in R <=> x < y
  BY DEF OpToRel
<1> HIDE DEF R
<1>3. \E m \in S : \A n \in S : ~(<<n, m>> \in R)
  BY <1>1, WFMin
<1>4. PICK m \in S : \A n \in S : ~(<<n, m>> \in R)
  BY <1>3
<1>5. ASSUME NEW n \in S
      PROVE  m <= n
  <2>1. n \in Nat /\ m \in Nat
    OBVIOUS
  <2>2. ~(n < m)
    BY <1>2, <1>4, <2>1, Zenon
  <2>3. QED
    BY <2>1, <2>2
<1>6. QED
  BY <1>5

-----------------------------------------------------------------------------
(* Sums over finite sets. *)

One(s) == CHOOSE x \in s : TRUE
Less(s) == s \ {One(s)}
IsTally(f, A, g) == g = [s \in SUBSET A |-> IF s = {} THEN 0 ELSE f[One(s)] + g[Less(s)]]

LEMMA LessIs ==
  ASSUME NEW s, IsFiniteSet(s), s # {}
  PROVE  /\ One(s) \in s /\ Less(s) \subseteq s /\ s = Less(s) \cup {One(s)} /\ One(s) \notin Less(s)
         /\ IsFiniteSet(Less(s)) /\ Cardinality(s) \in Nat /\ Cardinality(Less(s)) \in Nat
         /\ Cardinality(Less(s)) = Cardinality(s) - 1 /\ Cardinality(s) # 0
<1>1. One(s) \in s
  BY DEF One
<1>2. QED
  BY <1>1, FS_RemoveElement, FS_CardinalityType, FS_EmptySet DEF Less

LEMMA TalliesAgree ==
  ASSUME NEW f, NEW A, NEW B, NEW g, NEW h, IsTally(f, A, g), IsTally(f, B, h),
         NEW s, IsFiniteSet(s), s \subseteq A, s \subseteq B
  PROVE  g[s] = h[s]
<1> DEFINE S == {n \in Nat : \E t \in SUBSET s : Cardinality(t) = n /\ g[t] # h[t]}
<1>1. CASE S = {}
  <2>1. Cardinality(s) \in Nat
    BY FS_CardinalityType
  <2>2. QED
    BY <1>1, <2>1
<1>2. CASE S # {}
  <2>1. PICK m \in S : \A n \in S : m <= n
    BY <1>2, Least
  <2>2. PICK t \in SUBSET s : Cardinality(t) = m /\ g[t] # h[t]
    BY <2>1
  <2>3. IsFiniteSet(t)
    BY FS_Subset
  <2>4. /\ g[t] = IF t = {} THEN 0 ELSE f[One(t)] + g[Less(t)]
        /\ h[t] = IF t = {} THEN 0 ELSE f[One(t)] + h[Less(t)]
    <3>1. t \in SUBSET A /\ t \in SUBSET B
      OBVIOUS
    <3>2. QED
      BY <3>1 DEF IsTally
  <2>5. CASE t = {}
    BY <2>2, <2>4, <2>5
  <2>6. CASE t # {}
    <3>1. Less(t) \in SUBSET s /\ Cardinality(Less(t)) \in Nat /\ Cardinality(Less(t)) < m
      BY <2>1, <2>2, <2>3, <2>6, LessIs
    <3>2. Cardinality(Less(t)) \notin S
      BY <2>1, <3>1
    <3>3. g[Less(t)] = h[Less(t)]
      BY <3>1, <3>2
    <3>4. QED
      BY <2>2, <2>4, <2>6, <3>3
  <2>7. QED
    BY <2>5, <2>6
<1>3. QED
  BY <1>1, <1>2

Sum(f, A) == SumFunctionOnSet(f, A)

LEMMA SumOfTally ==
  ASSUME NEW f, NEW A, \E g : IsTally(f, A, g)
  PROVE  \E g : IsTally(f, A, g) /\ Sum(f, A) = g[A]
<1> DEFINE g == CHOOSE it : it = [s \in SUBSET A |-> IF s = {} THEN 0
                                   ELSE f[CHOOSE x \in s : TRUE] + it[s \ {CHOOSE x \in s : TRUE}]]
<1>1. IsTally(f, A, g)
  BY DEF IsTally, One, Less
<1>2. Sum(f, A) = g[A]
  BY DEF Sum, SumFunctionOnSet, FoldFunctionOnSet, MapThenFoldSet
<1>3. QED
  BY <1>1, <1>2

LEMMA TallyExists ==
  ASSUME NEW f, NEW A, IsFiniteSet(A)
  PROVE  \E g : IsTally(f, A, g)
<1> DEFINE Bad(t) == ~\E g : IsTally(f, t, g)
           S == {n \in Nat : \E t \in SUBSET A : Cardinality(t) = n /\ Bad(t)}
<1>1. CASE S = {}
  <2>1. Cardinality(A) \in Nat
    BY FS_CardinalityType
  <2>2. QED
    BY <1>1, <2>1
<1>2. CASE S # {}
  <2>1. PICK m \in S : \A n \in S : m <= n
    BY <1>2, Least
  <2>2. PICK t \in SUBSET A : Cardinality(t) = m /\ Bad(t)
    BY <2>1
  <2>3. IsFiniteSet(t)
    BY FS_Subset
  <2>4. \A u \in SUBSET t : u # t => \E g : IsTally(f, u, g)
    <3>1. ASSUME NEW u \in SUBSET t, u # t
          PROVE  \E g : IsTally(f, u, g)
      <4>1. Cardinality(u) \in Nat /\ Cardinality(u) < m
        <5>1. IsFiniteSet(u) /\ Cardinality(u) <= Cardinality(t) /\ Cardinality(t) # Cardinality(u)
          BY <2>3, <3>1, FS_Subset
        <5>2. QED
          BY <2>2, <2>3, <5>1, FS_CardinalityType
      <4>2. Cardinality(u) \notin S
        BY <2>1, <4>1
      <4>3. QED
        BY <4>1, <4>2
    <3>2. QED
      BY <3>1
  <2> DEFINE g == [s \in SUBSET t |-> IF s = {} THEN 0 ELSE f[One(s)] + Sum(f, Less(s))]
  <2>5. ASSUME NEW s \in SUBSET t
        PROVE  g[s] = IF s = {} THEN 0 ELSE f[One(s)] + g[Less(s)]
    <3>1. CASE s = {}
      BY <3>1
    <3>2. CASE s # {}
      <4>0. IsFiniteSet(s)
        BY <2>3, FS_Subset
      <4>1. Less(s) \in SUBSET t /\ Less(s) # t /\ IsFiniteSet(Less(s)) /\ Less(s) \subseteq Less(s)
        BY <3>2, <4>0, LessIs
      <4>2. PICK h : IsTally(f, Less(s), h) /\ Sum(f, Less(s)) = h[Less(s)]
        BY <2>4, <4>1, SumOfTally
      <4>3. g[s] = f[One(s)] + h[Less(s)]
        BY <3>2, <4>2
      <4>4. h[Less(s)] = g[Less(s)]
        <5> DEFINE r == Less(s)
        <5>1. h[r] = IF r = {} THEN 0 ELSE f[One(r)] + h[Less(r)]
          BY <4>1, <4>2 DEF IsTally
        <5>2. g[r] = IF r = {} THEN 0 ELSE f[One(r)] + Sum(f, Less(r))
          BY <4>1
        <5>3. ASSUME r # {} PROVE Sum(f, Less(r)) = h[Less(r)]
          <6>1. Less(r) \in SUBSET t /\ Less(r) # t /\ IsFiniteSet(Less(r)) /\ Less(r) \subseteq r /\ Less(r) \subseteq Less(r)
            BY <4>1, <5>3, LessIs
          <6>2. PICK k : IsTally(f, Less(r), k) /\ Sum(f, Less(r)) = k[Less(r)]
            BY <2>4, <6>1, SumOfTally
          <6>3. QED
            BY <4>2, <6>1, <6>2, TalliesAgree
        <5>4. QED
          BY <5>1, <5>2, <5>3
      <4>5. QED
        BY <3>2, <4>3, <4>4
    <3>3. QED
      BY <3>1, <3>2
  <2>6. IsTally(f, t, g)
    <3>1. g = [s \in SUBSET t |-> IF s = {} THEN 0 ELSE f[One(s)] + g[Less(s)]]
      BY <2>5
    <3>2. QED
      BY <3>1 DEF IsTally
  <2>7. QED
    BY <2>2, <2>6
<1>3. QED
  BY <1>1, <1>2

LEMMA SumIs ==
  ASSUME NEW f, NEW A, IsFiniteSet(A)
  PROVE  /\ A = {} => Sum(f, A) = 0
         /\ A # {} => Sum(f, A) = f[One(A)] + Sum(f, Less(A))
<1>1. PICK g : IsTally(f, A, g) /\ Sum(f, A) = g[A]
  BY TallyExists, SumOfTally
<1>2. g[A] = IF A = {} THEN 0 ELSE f[One(A)] + g[Less(A)]
  BY <1>1 DEF IsTally
<1>3. ASSUME A # {} PROVE g[Less(A)] = Sum(f, Less(A))
  <2>1. IsFiniteSet(Less(A)) /\ Less(A) \subseteq A /\ Less(A) \subseteq Less(A)
    BY <1>3, LessIs
  <2>2. PICK h : IsTally(f, Less(A), h) /\ Sum(f, Less(A)) = h[Less(A)]
    BY <2>1, TallyExists, SumOfTally
  <2>3. QED
    BY <1>1, <2>1, <2>2, TalliesAgree
<1>4. QED
  BY <1>1, <1>2, <1>3

LEMMA SumNone == ASSUME NEW f PROVE Sum(f, {}) = 0
  BY SumIs, FS_EmptySet

(* Induction over the subsets of a finite set. *)
LEMMA SetInduction ==
  ASSUME NEW A, IsFiniteSet(A), NEW G, {} \in G,
         \A s \in SUBSET A : \A x \in A \ s : s \in G => s \cup {x} \in G
  PROVE  A \in G
<1> DEFINE S == {n \in Nat : \E t \in SUBSET A : Cardinality(t) = n /\ t \notin G}
<1>1. CASE S = {}
  <2>1. Cardinality(A) \in Nat
    BY FS_CardinalityType
  <2>2. QED
    BY <1>1, <2>1
<1>2. CASE S # {}
  <2>1. PICK m \in S : \A n \in S : m <= n
    BY <1>2, Least
  <2>2. PICK t \in SUBSET A : Cardinality(t) = m /\ t \notin G
    BY <2>1
  <2>3. IsFiniteSet(t) /\ t # {}
    BY <2>2, FS_Subset
  <2>4. /\ One(t) \in t /\ Less(t) \subseteq t /\ t = Less(t) \cup {One(t)} /\ One(t) \notin Less(t)
        /\ Cardinality(Less(t)) \in Nat /\ Cardinality(Less(t)) < m
    BY <2>1, <2>2, <2>3, LessIs
  <2>5. Less(t) \in G
    <3>1. Cardinality(Less(t)) \notin S
      BY <2>1, <2>4
    <3>2. QED
      BY <2>4, <3>1
  <2>6. QED
    BY <2>2, <2>4, <2>5
<1>3. QED
  BY <1>1, <1>2

LEMMA SumType ==
  ASSUME NEW f, NEW A, IsFiniteSet(A), \A x \in A : f[x] \in Nat
  PROVE  Sum(f, A) \in Nat
<1> DEFINE S == {n \in Nat : \E t \in SUBSET A : Cardinality(t) = n /\ Sum(f, t) \notin Nat}
<1>1. CASE S = {}
  <2>1. Cardinality(A) \in Nat
    BY FS_CardinalityType
  <2>2. QED
    BY <1>1, <2>1
<1>2. CASE S # {}
  <2>1. PICK m \in S : \A n \in S : m <= n
    BY <1>2, Least
  <2>2. PICK t \in SUBSET A : Cardinality(t) = m /\ Sum(f, t) \notin Nat
    BY <2>1
  <2>3. IsFiniteSet(t)
    BY FS_Subset
  <2>4. t # {}
    BY <2>2, SumNone
  <2>5. /\ One(t) \in t /\ Less(t) \subseteq t
        /\ Cardinality(Less(t)) \in Nat /\ Cardinality(Less(t)) < m
    BY <2>1, <2>2, <2>3, <2>4, LessIs
  <2>6. Sum(f, Less(t)) \in Nat
    <3>1. Cardinality(Less(t)) \notin S
      BY <2>1, <2>5
    <3>2. QED
      BY <2>5, <3>1
  <2>7. Sum(f, t) = f[One(t)] + Sum(f, Less(t)) /\ f[One(t)] \in Nat
    BY <2>3, <2>4, <2>5, SumIs
  <2>8. QED
    BY <2>2, <2>6, <2>7
<1>3. QED
  BY <1>1, <1>2

(* Any element may be taken first. *)
LEMMA SumLess ==
  ASSUME NEW f, NEW A, IsFiniteSet(A), \A x \in A : f[x] \in Nat, NEW x \in A
  PROVE  Sum(f, A) = f[x] + Sum(f, A \ {x})
<1> DEFINE Bad(t) == \E y \in t : Sum(f, t) # f[y] + Sum(f, t \ {y})
           S == {n \in Nat : \E t \in SUBSET A : Cardinality(t) = n /\ Bad(t)}
<1>1. CASE S = {}
  <2>1. Cardinality(A) \in Nat
    BY FS_CardinalityType
  <2>2. QED
    BY <1>1, <2>1
<1>2. CASE S # {}
  <2>1. PICK m \in S : \A n \in S : m <= n
    BY <1>2, Least
  <2>2. PICK t \in SUBSET A : Cardinality(t) = m /\ Bad(t)
    BY <2>1
  <2>3. PICK y \in t : Sum(f, t) # f[y] + Sum(f, t \ {y})
    BY <2>2
  <2>4. IsFiniteSet(t)
    BY FS_Subset
  <2> DEFINE z == One(t)
  <2>5. z \in t /\ Less(t) = t \ {z} /\ Sum(f, t) = f[z] + Sum(f, t \ {z})
    BY <2>3, <2>4, LessIs, SumIs DEF Less
  <2> HIDE DEF z
  <2>6. y # z
    BY <2>3, <2>5
  <2>7. ASSUME NEW w \in t, NEW v \in t \ {w}
        PROVE  Sum(f, t \ {w}) = f[v] + Sum(f, (t \ {w}) \ {v})
    <3>1. IsFiniteSet(t \ {w}) /\ Cardinality(t \ {w}) \in Nat /\ Cardinality(t \ {w}) < m
      <4>1. IsFiniteSet(t \ {w}) /\ Cardinality(t \ {w}) = Cardinality(t) - 1
        BY <2>4, FS_RemoveElement
      <4>2. Cardinality(t \ {w}) \in Nat /\ Cardinality(t) \in Nat
        BY <2>4, <4>1, FS_CardinalityType
      <4>3. QED
        BY <2>2, <4>1, <4>2
    <3>2. Cardinality(t \ {w}) \notin S
      <4>0. m \in Nat
        BY <2>1
      <4> DEFINE k == Cardinality(t \ {w})
      <4> HIDE DEF S, k
      <4>1. k < m /\ k \in Nat
        BY <3>1 DEF k
      <4>2. k \in S => m <= k
        BY <2>1
      <4>3. k \notin S
        BY <4>0, <4>1, <4>2
      <4>4. QED
        BY <4>3 DEF k
    <3>3. ~Bad(t \ {w})
      <4>1. t \ {w} \in SUBSET A
        OBVIOUS
      <4>2. QED
        BY <3>1, <3>2, <4>1
    <3>4. QED
      BY <3>3
  <2>8. Sum(f, t \ {z}) = f[y] + Sum(f, (t \ {z}) \ {y})
    BY <2>5, <2>6, <2>7
  <2>9. Sum(f, t \ {y}) = f[z] + Sum(f, (t \ {y}) \ {z})
    BY <2>5, <2>6, <2>7
  <2>10. (t \ {y}) \ {z} = (t \ {z}) \ {y}
    OBVIOUS
  <2>11. Sum(f, (t \ {z}) \ {y}) \in Nat /\ f[y] \in Nat /\ f[z] \in Nat
    <3>1. IsFiniteSet((t \ {z}) \ {y}) /\ (t \ {z}) \ {y} \subseteq A
      BY <2>4, FS_Subset
    <3>2. QED
      BY <2>5, <3>1, SumType
  <2>12. Sum(f, t) = f[z] + (f[y] + Sum(f, (t \ {z}) \ {y}))
    BY <2>5, <2>8
  <2>13. f[y] + Sum(f, t \ {y}) = f[y] + (f[z] + Sum(f, (t \ {z}) \ {y}))
    BY <2>9, <2>10
  <2>14. QED
    BY <2>3, <2>11, <2>12, <2>13
<1>3. QED
  BY <1>1, <1>2

LEMMA SumAdd ==
  ASSUME NEW f, NEW A, IsFiniteSet(A), NEW x, x \notin A,
         \A y \in A : f[y] \in Nat, f[x] \in Nat
  PROVE  Sum(f, A \cup {x}) = f[x] + Sum(f, A)
<1>1. IsFiniteSet(A \cup {x})
  BY FS_AddElement
<1>2. (A \cup {x}) \ {x} = A /\ x \in A \cup {x} /\ \A y \in A \cup {x} : f[y] \in Nat
  OBVIOUS
<1>3. Sum(f, A \cup {x}) = f[x] + Sum(f, (A \cup {x}) \ {x})
  BY <1>1, <1>2, SumLess
<1>4. QED
  BY <1>2, <1>3

LEMMA SumUnion ==
  ASSUME NEW f, NEW A, NEW B, IsFiniteSet(A), IsFiniteSet(B), A \cap B = {},
         \A y \in A \cup B : f[y] \in Nat
  PROVE  Sum(f, A \cup B) = Sum(f, A) + Sum(f, B)
<1> DEFINE G == {s \in SUBSET B : Sum(f, A \cup s) = Sum(f, A) + Sum(f, s)}
<1>1. {} \in G
  <2>1. Sum(f, {}) = 0 /\ Sum(f, A) \in Nat /\ A \cup {} = A
    BY SumNone, SumType
  <2>2. QED
    BY <2>1
<1>2. ASSUME NEW s \in SUBSET B, NEW x \in B \ s, s \in G
      PROVE  s \cup {x} \in G
  <2>1. IsFiniteSet(s) /\ IsFiniteSet(A \cup s)
    BY FS_Subset, FS_Union
  <2>2. x \notin A \cup s /\ f[x] \in Nat /\ \A y \in A \cup s : f[y] \in Nat
    OBVIOUS
  <2>3. Sum(f, (A \cup s) \cup {x}) = f[x] + Sum(f, A \cup s)
    BY <2>1, <2>2, SumAdd
  <2>4. Sum(f, s \cup {x}) = f[x] + Sum(f, s)
    BY <2>1, <2>2, SumAdd
  <2>5. Sum(f, s) \in Nat /\ Sum(f, A) \in Nat
    BY <2>1, SumType
  <2>6. Sum(f, A \cup s) = Sum(f, A) + Sum(f, s)
    BY <1>2
  <2>7. (A \cup s) \cup {x} = A \cup (s \cup {x})
    OBVIOUS
  <2>8. QED
    BY <2>2, <2>3, <2>4, <2>5, <2>6, <2>7
<1> HIDE DEF G
<1>3. B \in G
  BY <1>1, <1>2, SetInduction
<1>4. QED
  BY <1>3 DEF G

ImageOf(g, A) == {g[x] : x \in A}

(* The sum over the places f is taken at. *)
LEMMA SumImage ==
  ASSUME NEW f, NEW h, NEW g, NEW A, IsFiniteSet(A),
         \A x \in A : h[x] \in Nat /\ f[g[x]] = h[x],
         \A x, y \in A : g[x] = g[y] => x = y
  PROVE  Sum(f, ImageOf(g, A)) = Sum(h, A)
<1> DEFINE At(s) == {g[x] : x \in s}
           G == {s \in SUBSET A : IsFiniteSet(At(s)) /\ Sum(f, At(s)) = Sum(h, s)}
<1>1. {} \in G
  <2>1. At({}) = {}
    OBVIOUS
  <2>2. QED
    BY <2>1, SumNone, FS_EmptySet
<1>2. ASSUME NEW s \in SUBSET A, NEW x \in A \ s, s \in G
      PROVE  s \cup {x} \in G
  <2>1. IsFiniteSet(s) /\ IsFiniteSet(At(s)) /\ Sum(f, At(s)) = Sum(h, s)
    BY <1>2, FS_Subset
  <2>2. At(s \cup {x}) = At(s) \cup {g[x]} /\ g[x] \notin At(s)
    OBVIOUS
  <2>3. f[g[x]] = h[x] /\ h[x] \in Nat /\ (\A y \in At(s) : f[y] \in Nat) /\ \A y \in s : h[y] \in Nat
    OBVIOUS
  <2> HIDE DEF At
  <2>4. Sum(f, At(s) \cup {g[x]}) = f[g[x]] + Sum(f, At(s))
    BY <2>1, <2>2, <2>3, SumAdd
  <2>5. Sum(h, s \cup {x}) = h[x] + Sum(h, s)
    BY <2>1, <2>3, SumAdd
  <2>6. IsFiniteSet(At(s) \cup {g[x]})
    BY <2>1, FS_AddElement
  <2>7. QED
    BY <2>1, <2>2, <2>3, <2>4, <2>5, <2>6
<1> HIDE DEF G
<1>3. A \in G
  BY <1>1, <1>2, SetInduction
<1>4. At(A) = ImageOf(g, A)
  BY DEF ImageOf
<1>5. QED
  BY <1>3, <1>4 DEF G

LEMMA SumSame ==
  ASSUME NEW f, NEW h, NEW A, IsFiniteSet(A), \A x \in A : h[x] \in Nat /\ f[x] = h[x]
  PROVE  Sum(f, A) = Sum(h, A)
<1> DEFINE g == [x \in A |-> x]
<1>1. ImageOf(g, A) = A /\ (\A x \in A : f[g[x]] = h[x]) /\ \A x, y \in A : g[x] = g[y] => x = y
  BY DEF ImageOf
<1> HIDE DEF g
<1>2. QED
  BY <1>1, SumImage

LEMMA SumBounds ==
  ASSUME NEW f, NEW A, IsFiniteSet(A), NEW lo \in Nat, NEW hi \in Nat,
         \A x \in A : f[x] \in lo .. hi
  PROVE  /\ lo * Cardinality(A) <= Sum(f, A) /\ Sum(f, A) <= hi * Cardinality(A)
         /\ Sum(f, A) \in Nat /\ Cardinality(A) \in Nat
<1> DEFINE G == {s \in SUBSET A : /\ lo * Cardinality(s) <= Sum(f, s)
                                 /\ Sum(f, s) <= hi * Cardinality(s)}
<1>1. {} \in G
  <2>1. Cardinality({}) = 0 /\ Sum(f, {}) = 0
    BY FS_EmptySet, SumNone
  <2>2. QED
    BY <2>1
<1>2. ASSUME NEW s \in SUBSET A, NEW x \in A \ s, s \in G
      PROVE  s \cup {x} \in G
  <2>1. IsFiniteSet(s) /\ Cardinality(s) \in Nat /\ Cardinality(s \cup {x}) = Cardinality(s) + 1
    BY FS_Subset, FS_AddElement, FS_CardinalityType
  <2>2. f[x] \in Nat /\ (\A y \in s : f[y] \in Nat) /\ f[x] >= lo /\ f[x] <= hi
    OBVIOUS
  <2>3. Sum(f, s \cup {x}) = f[x] + Sum(f, s) /\ Sum(f, s) \in Nat
    BY <2>1, <2>2, SumAdd, SumType
  <2>4. /\ lo * Cardinality(s) <= Sum(f, s) /\ Sum(f, s) <= hi * Cardinality(s)
    BY <1>2
  <2>5. /\ lo * (Cardinality(s) + 1) = lo * Cardinality(s) + lo
        /\ hi * (Cardinality(s) + 1) = hi * Cardinality(s) + hi
        /\ lo * Cardinality(s) \in Nat /\ hi * Cardinality(s) \in Nat
    BY <2>1
  <2>6. lo * Cardinality(s \cup {x}) <= Sum(f, s \cup {x}) /\ Sum(f, s \cup {x}) <= hi * Cardinality(s \cup {x})
    BY <2>1, <2>2, <2>3, <2>4, <2>5
  <2>7. QED
    BY <2>6
<1> HIDE DEF G
<1>3. A \in G
  BY <1>1, <1>2, SetInduction
<1>4. QED
  <2>1. \A x \in A : f[x] \in Nat
    OBVIOUS
  <2>2. Sum(f, A) \in Nat /\ Cardinality(A) \in Nat
    BY <2>1, SumType, FS_CardinalityType
  <2>3. QED
    BY <1>3, <2>2 DEF G

(* Counted bin by bin, all are counted. *)
InBins(P, b, I) == {p \in P : b[p] \in I}

LEMMA SumCount ==
  ASSUME NEW P, IsFiniteSet(P), NEW b, NEW I, IsFiniteSet(I), NEW h,
         \A i \in I : h[i] = Cardinality(InBins(P, b, {i}))
  PROVE  Sum(h, I) = Cardinality(InBins(P, b, I))
<1> DEFINE In(s) == InBins(P, b, s)
           G == {s \in SUBSET I : Sum(h, s) = Cardinality(In(s))}
<1>0. \A s \in SUBSET I : IsFiniteSet(s) /\ IsFiniteSet(In(s)) /\ Cardinality(In(s)) \in Nat
  BY FS_Subset, FS_CardinalityType DEF InBins
<1>1. {} \in G
  <2>1. In({}) = {}
    BY DEF InBins
  <2>2. QED
    BY <2>1, FS_EmptySet, SumNone
<1>2. ASSUME NEW s \in SUBSET I, NEW x \in I \ s, s \in G
      PROVE  s \cup {x} \in G
  <2>1. In(s \cup {x}) = In(s) \cup In({x}) /\ In(s) \cap In({x}) = {}
    BY DEF InBins
  <2>2. IsFiniteSet(s) /\ IsFiniteSet(In(s)) /\ IsFiniteSet(In({x})) /\ Cardinality(In(s)) \in Nat
          /\ Cardinality(In({x})) \in Nat
    BY <1>0
  <2>3. h[x] = Cardinality(In({x}))
    OBVIOUS
  <2>4. \A y \in s : h[y] \in Nat
    <3>1. ASSUME NEW y \in s PROVE h[y] \in Nat
      <4>1. h[y] = Cardinality(In({y})) /\ {y} \in SUBSET I
        OBVIOUS
      <4>2. QED
        BY <1>0, <4>1
    <3>2. QED
      BY <3>1
  <2> HIDE DEF In
  <2>5. Cardinality(In(s) \cup In({x})) = Cardinality(In(s)) + Cardinality(In({x}))
    <3>1. Cardinality(In(s) \cap In({x})) = 0
      BY <2>1, FS_EmptySet
    <3>2. Cardinality(In(s) \cup In({x})) =
            Cardinality(In(s)) + Cardinality(In({x})) - Cardinality(In(s) \cap In({x}))
      BY <2>2, FS_Union
    <3>3. QED
      BY <2>2, <3>1, <3>2
  <2>6. Sum(h, s \cup {x}) = h[x] + Sum(h, s)
    BY <2>2, <2>3, <2>4, SumAdd
  <2>7. Sum(h, s) = Cardinality(In(s))
    BY <1>2
  <2>8. Sum(h, s \cup {x}) = Cardinality(In(s \cup {x}))
    <3>1. Cardinality(In(s \cup {x})) = Cardinality(In(s)) + Cardinality(In({x}))
      BY <2>1, <2>5
    <3>2. Sum(h, s \cup {x}) = Cardinality(In({x})) + Cardinality(In(s))
      BY <2>3, <2>6, <2>7
    <3>3. QED
      BY <2>2, <3>1, <3>2
  <2>9. QED
    BY <2>8
<1> HIDE DEF G
<1>3. I \in G
  BY <1>1, <1>2, SetInduction
<1>4. QED
  BY <1>3 DEF G

LEMMA MinIs ==
  ASSUME NEW A \in SUBSET Nat, A # {}
  PROVE  /\ Min(A) \in A /\ Min(A) \in Nat /\ \A y \in A : Min(A) <= y
         /\ \A m \in A : (\A y \in A : m <= y) => m = Min(A)
<1>1. \E x \in A : \A y \in A : x =< y
  BY Least
<1>2. Min(A) \in A /\ \A y \in A : Min(A) <= y
  BY <1>1, Zenon DEF Min
<1>3. ASSUME NEW m \in A, \A y \in A : m <= y
      PROVE  m = Min(A)
  <2>1. m <= Min(A) /\ Min(A) <= m /\ m \in Nat /\ Min(A) \in Nat
    BY <1>2, <1>3
  <2>2. QED
    BY <2>1
<1>4. QED
  BY <1>2, <1>3

LEMMA MaxIs ==
  ASSUME NEW N \in Nat, NEW A \in SUBSET (0 .. N), A # {}
  PROVE  /\ Max(A) \in A /\ Max(A) \in Nat /\ Max(A) <= N /\ \A y \in A : y <= Max(A)
         /\ \A m \in A : (\A y \in A : y <= m) => m = Max(A)
<1>1. \E x \in A : \A y \in A : x >= y
  <2> DEFINE B == {N - x : x \in A}
  <2>1. B \in SUBSET Nat /\ B # {}
    <3>1. \A x \in A : x \in Int /\ N - x \in Nat
      OBVIOUS
    <3>2. QED
      BY <3>1
  <2>2. PICK m \in B : \A n \in B : m <= n
    BY <2>1, Least
  <2>3. PICK x \in A : m = N - x
    BY <2>2
  <2>4. ASSUME NEW y \in A PROVE x >= y
    <3>1. N - y \in B
      OBVIOUS
    <3>2. N - x <= N - y
      BY <2>2, <2>3, <3>1
    <3>3. x \in Nat /\ y \in Nat
      OBVIOUS
    <3>4. QED
      BY <3>2, <3>3
  <2>5. QED
    BY <2>4
<1>2. Max(A) \in A /\ \A y \in A : Max(A) >= y
  BY <1>1, Zenon DEF Max
<1>3. ASSUME NEW m \in A, \A y \in A : y <= m
      PROVE  m = Max(A)
  <2>0. \A y \in A : y \in Nat
    OBVIOUS
  <2>1. m <= Max(A) /\ Max(A) <= m /\ m \in Nat /\ Max(A) \in Nat
    BY <1>2, <1>3, <2>0
  <2>2. QED
    BY <2>1
<1>4. \A y \in A : y \in Nat /\ y <= N
  OBVIOUS
<1>5. QED
  BY <1>2, <1>3, <1>4

LEMMA MinJoin ==
  ASSUME NEW A \in SUBSET Nat, A # {}, NEW B \in SUBSET Nat
  PROVE  Min({Min(A)} \cup B) = Min(A \cup B)
<1>1. Min(A) \in A /\ Min(A) \in Nat /\ \A y \in A : Min(A) <= y
  BY MinIs
<1> DEFINE C == {Min(A)} \cup B
           m == Min(C)
<1>2. C \in SUBSET Nat /\ C # {} /\ A \cup B \in SUBSET Nat /\ A \cup B # {}
  BY <1>1
<1>3. m \in C /\ m \in Nat /\ \A y \in C : m <= y
  BY <1>2, MinIs
<1>4. m \in A \cup B
  BY <1>1, <1>3
<1>5. \A y \in A \cup B : m <= y
  BY <1>1, <1>3
<1> HIDE DEF C, m
<1>6. m = Min(A \cup B)
  BY <1>2, <1>4, <1>5, MinIs
<1>7. QED
  BY <1>6 DEF m, C

LEMMA MaxJoin ==
  ASSUME NEW N \in Nat, NEW A \in SUBSET (0 .. N), A # {}, NEW B \in SUBSET (0 .. N)
  PROVE  Max({Max(A)} \cup B) = Max(A \cup B)
<1>1. Max(A) \in A /\ Max(A) \in Nat /\ \A y \in A : y <= Max(A)
  BY MaxIs
<1> DEFINE C == {Max(A)} \cup B
           m == Max(C)
<1>2. C \in SUBSET (0 .. N) /\ C # {} /\ A \cup B \in SUBSET (0 .. N) /\ A \cup B # {}
  BY <1>1
<1>3. m \in C /\ m \in Nat /\ \A y \in C : y <= m
  BY <1>2, MaxIs
<1>4. m \in A \cup B
  BY <1>1, <1>3
<1>5. \A y \in A \cup B : y <= m
  BY <1>1, <1>3
<1> HIDE DEF C, m
<1>6. m = Max(A \cup B)
  BY <1>2, <1>4, <1>5, MaxIs
<1>7. QED
  BY <1>6 DEF m, C

LEMMA CardImage ==
  ASSUME NEW A, IsFiniteSet(A), NEW g, \A x, y \in A : g[x] = g[y] => x = y
  PROVE  IsFiniteSet(ImageOf(g, A)) /\ Cardinality(ImageOf(g, A)) = Cardinality(A)
<1> DEFINE At(s) == {g[x] : x \in s}
           G == {s \in SUBSET A : IsFiniteSet(At(s)) /\ Cardinality(At(s)) = Cardinality(s)}
<1>1. {} \in G
  <2>1. At({}) = {}
    OBVIOUS
  <2>2. QED
    BY <2>1, FS_EmptySet
<1>2. ASSUME NEW s \in SUBSET A, NEW x \in A \ s, s \in G
      PROVE  s \cup {x} \in G
  <2>1. IsFiniteSet(s) /\ IsFiniteSet(At(s)) /\ Cardinality(At(s)) = Cardinality(s)
    BY <1>2, FS_Subset
  <2>2. At(s \cup {x}) = At(s) \cup {g[x]} /\ g[x] \notin At(s)
    OBVIOUS
  <2> HIDE DEF At
  <2>3. IsFiniteSet(At(s) \cup {g[x]}) /\ Cardinality(At(s) \cup {g[x]}) = Cardinality(At(s)) + 1
    BY <2>1, <2>2, FS_AddElement
  <2>4. Cardinality(s \cup {x}) = Cardinality(s) + 1
    BY <2>1, FS_AddElement
  <2>5. IsFiniteSet(At(s \cup {x})) /\ Cardinality(At(s \cup {x})) = Cardinality(s \cup {x})
    BY <2>1, <2>2, <2>3, <2>4
  <2>6. QED
    BY <2>5
<1> HIDE DEF G
<1>3. A \in G
  BY <1>1, <1>2, SetInduction
<1>4. At(A) = ImageOf(g, A)
  BY DEF ImageOf
<1>5. QED
  BY <1>3, <1>4 DEF G

LEMMA CardUnion ==
  ASSUME NEW A, NEW B, IsFiniteSet(A), IsFiniteSet(B), A \cap B = {}
  PROVE  /\ Cardinality(A \cup B) = Cardinality(A) + Cardinality(B) /\ IsFiniteSet(A \cup B)
         /\ Cardinality(A) \in Nat /\ Cardinality(B) \in Nat
<1>1. Cardinality(A \cap B) = 0
  BY FS_EmptySet
<1>2. Cardinality(A) \in Nat /\ Cardinality(B) \in Nat
  BY FS_CardinalityType
<1>3. Cardinality(A \cup B) = Cardinality(A) + Cardinality(B) - Cardinality(A \cap B)
  BY FS_Union
<1>4. QED
  BY <1>1, <1>2, <1>3, FS_Union
-----------------------------------------------------------------------------
(* The picture, row by row. *)

Grid(w, n) == (0 .. w - 1) \X (0 .. n - 1)
RowOf(w, k) == {<<x, k>> : x \in 0 .. w - 1}

LEMMA GridGrows ==
  ASSUME NEW w \in Nat, NEW k \in Nat
  PROVE  /\ Grid(w, k + 1) = Grid(w, k) \cup RowOf(w, k) /\ Grid(w, k) \cap RowOf(w, k) = {}
         /\ IsFiniteSet(Grid(w, k)) /\ IsFiniteSet(RowOf(w, k)) /\ IsFiniteSet(0 .. w - 1)
         /\ Grid(w, 0) = {}
<1>1. Grid(w, k + 1) = Grid(w, k) \cup RowOf(w, k) /\ Grid(w, k) \cap RowOf(w, k) = {}
  <2>1. 0 .. (k + 1) - 1 = (0 .. k - 1) \cup {k} /\ k \notin 0 .. k - 1
    OBVIOUS
  <2> DEFINE R == 0 .. (k + 1) - 1
             Q == 0 .. k - 1
             W == 0 .. w - 1
  <2>2. R = Q \cup {k} /\ k \notin Q
    BY <2>1
  <2> HIDE DEF R, Q, W
  <2>3. W \X R = (W \X Q) \cup {<<x, k>> : x \in W} /\ (W \X Q) \cap {<<x, k>> : x \in W} = {}
    BY <2>2
  <2>4. QED
    BY <2>3 DEF Grid, RowOf, R, Q, W
<1>2. IsFiniteSet(0 .. w - 1) /\ IsFiniteSet(0 .. k - 1)
  BY FS_Interval
<1>3. IsFiniteSet(Grid(w, k))
  BY <1>2, FS_Product DEF Grid
<1>4. IsFiniteSet(RowOf(w, k))
  <2> DEFINE g == [x \in 0 .. w - 1 |-> <<x, k>>]
  <2>1. RowOf(w, k) = ImageOf(g, 0 .. w - 1) /\ \A x, y \in 0 .. w - 1 : g[x] = g[y] => x = y
    BY DEF RowOf, ImageOf
  <2> HIDE DEF g
  <2>2. QED
    BY <1>2, <2>1, CardImage
<1>5. Grid(w, 0) = {}
  BY DEF Grid
<1>6. QED
  BY <1>1, <1>2, <1>3, <1>4, <1>5

LEMMA NatSetInduction ==
  ASSUME NEW G, 0 \in G, \A n \in Nat : n \in G => n + 1 \in G
  PROVE  \A n \in Nat : n \in G
<1> DEFINE S == {n \in Nat : n \notin G}
<1>1. CASE S = {}
  BY <1>1
<1>2. CASE S # {}
  <2>1. PICK m \in S : \A n \in S : m <= n
    BY <1>2, Least
  <2>2. m # 0 /\ m \in Nat
    BY <2>1
  <2>3. m - 1 \in Nat /\ m - 1 < m /\ (m - 1) + 1 = m
    BY <2>2
  <2>4. m - 1 \notin S
    BY <2>1, <2>3
  <2>5. m - 1 \in G
    BY <2>3, <2>4
  <2>6. QED
    BY <2>1, <2>3, <2>5
<1>3. QED
  BY <1>1, <1>2

-----------------------------------------------------------------------------
(* Colour tracking. *)

IsRun(row, g) ==
  g = [x \in -1 .. frame.width - 1 |->
         IF x = -1 THEN 0 ELSE IF Good(row[x]) THEN g[x - 1] + 1 ELSE 0]

(* The run that ends at a place starts after the last bad pixel before it. *)
LEMMA RunIs ==
  ASSUME NEW row, frame.width \in Nat
  PROVE  IsRun(row, RunLengths(row))
<1> DEFINE w == frame.width
           Bads(x) == {0} \cup {i \in 1 .. x + 1 : ~Good(row[i - 1])}
           g == [x \in -1 .. w - 1 |-> (x + 1) - Max(Bads(x))]
<1>1. ASSUME NEW x \in -1 .. w - 1
      PROVE  /\ Max(Bads(x)) \in Bads(x) /\ \A y \in Bads(x) : y <= Max(Bads(x))
             /\ \A m \in Bads(x) : (\A y \in Bads(x) : y <= m) => m = Max(Bads(x))
  <2>1. Bads(x) \in SUBSET (0 .. w) /\ Bads(x) # {}
    OBVIOUS
  <2> HIDE DEF Bads
  <2>2. QED
    BY <2>1, MaxIs
<1>2. ASSUME NEW x \in -1 .. w - 1
      PROVE  g[x] = IF x = -1 THEN 0 ELSE IF Good(row[x]) THEN g[x - 1] + 1 ELSE 0
  <2>1. CASE x = -1
    <3>1. Bads(x) = {0}
      BY <2>1
    <3>2. Max(Bads(x)) = 0
      BY <1>1, <3>1
    <3>3. QED
      BY <2>1, <3>2
  <2>2. CASE x # -1 /\ Good(row[x])
    <3>1. x - 1 \in -1 .. w - 1 /\ x \in Nat
      BY <2>2
    <3>2. Bads(x) = Bads(x - 1)
      <4>1. \A i \in 1 .. x + 1 : i \in 1 .. (x - 1) + 1 \/ i = x + 1
        BY <3>1
      <4>2. \A i \in 1 .. (x - 1) + 1 : i \in 1 .. x + 1
        BY <3>1
      <4>3. (x + 1) - 1 = x
        BY <3>1
      <4>4. QED
        BY <2>2, <4>1, <4>2, <4>3
    <3>3. Max(Bads(x)) \in Int
      <4>1. Max(Bads(x)) \in Bads(x) /\ \A y \in Bads(x) : y \in Int
        BY <1>1
      <4>2. QED
        BY <4>1
    <3> DEFINE m == Max(Bads(x))
    <3>4. g[x] = (x + 1) - m /\ g[x - 1] = ((x - 1) + 1) - m
      BY <3>1, <3>2
    <3> HIDE DEF m, g
    <3>5. m \in Int
      BY <3>3 DEF m
    <3>6. QED
      BY <2>2, <3>1, <3>4, <3>5
  <2>3. CASE x # -1 /\ ~Good(row[x])
    <3>1. x + 1 \in 1 .. x + 1 /\ (x + 1) - 1 = x /\ x \in Nat
      BY <2>3
    <3>2. x + 1 \in Bads(x) /\ \A y \in Bads(x) : y <= x + 1
      BY <2>3, <3>1
    <3>3. Max(Bads(x)) = x + 1
      BY <1>1, <3>2
    <3>4. QED
      BY <2>3, <3>1, <3>3
  <2>4. QED
    BY <2>1, <2>2, <2>3
<1> HIDE DEF g
<1>3. g = [x \in -1 .. w - 1 |-> g[x]]
  BY DEF g
<1>4. IsRun(row, g)
  BY <1>2, <1>3 DEF IsRun
<1>5. \E h : IsRun(row, h)
  BY <1>4
<1>6. RunLengths(row) = CHOOSE h : IsRun(row, h)
  BY DEF RunLengths, IsRun
<1>7. QED
  BY <1>5, <1>6

(* A pixel counts when it and as many to its left as the filter asks for    *)
(* are good.                                                                *)
LEMMA RunFinds ==
  ASSUME NEW row, frame.width \in Nat, NEW x \in 0 .. frame.width - 1, NEW n \in Nat
  PROVE  RunLengths(row)[x] > n <=> \A k \in 0 .. n : x >= k /\ Good(row[x - k])
<1> DEFINE w == frame.width
           g == RunLengths(row)
           All0(y, m) == \A k \in 0 .. m : y >= k /\ Good(row[y - k])
           P(y) == g[y] \in Nat /\ \A m \in Nat : g[y] > m <=> All0(y, m)
           G == {i \in Nat : i <= w => P(i - 1)}
<1> HIDE DEF g
<1>1. \A y \in -1 .. w - 1 : g[y] = IF y = -1 THEN 0 ELSE IF Good(row[y]) THEN g[y - 1] + 1 ELSE 0
  BY RunIs DEF IsRun, g
<1>2. 0 \in G
  <2>1. g[-1] = 0
    BY <1>1
  <2>2. ~(-1 >= 0)
    OBVIOUS
  <2>3. P(-1)
    BY <2>1, <2>2
  <2>4. QED
    BY <2>3
<1>3. ASSUME NEW i \in Nat, i \in G
      PROVE  i + 1 \in G
  <2>0. SUFFICES ASSUME i + 1 <= w PROVE P(i)
    OBVIOUS
  <2>1. P(i - 1) /\ i \in 0 .. w - 1 /\ i # -1
    BY <1>3, <2>0
  <2>2. g[i] = IF Good(row[i]) THEN g[i - 1] + 1 ELSE 0
    BY <1>1, <2>1
  <2>3. CASE ~Good(row[i])
    <3>1. \A m \in Nat : ~All0(i, m)
      <4>1. \A m \in Nat : 0 \in 0 .. m /\ i - 0 = i
        OBVIOUS
      <4>2. QED
        BY <2>3, <4>1
    <3>2. QED
      BY <2>2, <2>3, <3>1
  <2>4. CASE Good(row[i])
    <3>1. g[i] \in Nat /\ g[i] = g[i - 1] + 1 /\ g[i - 1] \in Nat
      BY <2>1, <2>2, <2>4
    <3>2. ASSUME NEW m \in Nat
          PROVE  g[i] > m <=> All0(i, m)
      <4>1. CASE m = 0
        <5>1. g[i] > m
          BY <3>1, <4>1
        <5>2. \A k \in 0 .. m : k = 0 /\ i - k = i /\ i >= k
          BY <4>1
        <5>3. All0(i, m)
          BY <2>4, <5>2
        <5>4. QED
          BY <5>1, <5>3
      <4>2. CASE m # 0
        <5>1. m - 1 \in Nat
          BY <4>2
        <5>2. g[i] > m <=> g[i - 1] > m - 1
          BY <3>1
        <5>3. g[i - 1] > m - 1 <=> All0(i - 1, m - 1)
          BY <2>1, <5>1
        <5>4. ASSUME All0(i - 1, m - 1) PROVE All0(i, m)
          <6>1. SUFFICES ASSUME NEW k \in 0 .. m PROVE i >= k /\ Good(row[i - k])
            OBVIOUS
          <6>2. CASE k = 0
            <7>1. i - k = i /\ i >= k
              BY <6>2
            <7>2. QED
              BY <2>4, <7>1
          <6>3. CASE k # 0
            <7>1. k - 1 \in 0 .. m - 1 /\ (i - 1) - (k - 1) = i - k
              BY <6>3
            <7>2. i - 1 >= k - 1 /\ Good(row[(i - 1) - (k - 1)])
              BY <5>4, <7>1
            <7>3. QED
              BY <7>1, <7>2
          <6>4. QED
            BY <6>2, <6>3
        <5>5. ASSUME All0(i, m) PROVE All0(i - 1, m - 1)
          <6>1. SUFFICES ASSUME NEW k \in 0 .. m - 1 PROVE i - 1 >= k /\ Good(row[(i - 1) - k])
            OBVIOUS
          <6>2. k + 1 \in 0 .. m /\ i - (k + 1) = (i - 1) - k
            OBVIOUS
          <6>3. i >= k + 1 /\ Good(row[i - (k + 1)])
            BY <5>5, <6>2
          <6>4. QED
            BY <6>2, <6>3
        <5>6. QED
          BY <5>2, <5>3, <5>4, <5>5
      <4>3. QED
        BY <4>1, <4>2
    <3>3. QED
      BY <3>1, <3>2
  <2>5. QED
    BY <2>3, <2>4
<1> HIDE DEF G
<1>4. \A i \in Nat : i \in G
  BY <1>2, <1>3, NatSetInduction
<1>5. x + 1 \in G /\ x + 1 <= w /\ (x + 1) - 1 = x
  BY <1>4
<1>6. P(x)
  BY <1>5 DEF G
<1>7. QED
  BY <1>6 DEF g

(* The places a picture shows, small enough for a box. *)
Places(S) == IsFiniteSet(S) /\ S \subseteq (0 .. UINT16_MAX) \X (0 .. UINT16_MAX)
Xs(S) == {p[1] : p \in S}
Ys(S) == {p[2] : p \in S}

LEMMA UIntNat == UINT16_MAX \in Nat
  BY SizeAssumption DEF UINT16_MAX

LEMMA PlacesFacts ==
  ASSUME NEW S, Places(S)
  PROVE  /\ Xs(S) \in SUBSET (0 .. UINT16_MAX) /\ Ys(S) \in SUBSET (0 .. UINT16_MAX)
         /\ S # {} => Xs(S) # {} /\ Ys(S) # {}
         /\ \A p \in S : p[1] \in 0 .. UINT16_MAX /\ p[2] \in 0 .. UINT16_MAX
         /\ Cardinality(S) \in Nat /\ (S # {} => Cardinality(S) > 0)
<1>1. \A p \in S : p[1] \in 0 .. UINT16_MAX /\ p[2] \in 0 .. UINT16_MAX
  BY DEF Places
<1>2. Cardinality(S) \in Nat /\ (S # {} => Cardinality(S) # 0)
  BY FS_CardinalityType, FS_EmptySet DEF Places
<1>3. QED
  BY <1>1, <1>2 DEF Xs, Ys

(* Summing a coordinate. *)
XSum(S) == SumFunction([p \in S |-> p[1]])
YSum(S) == SumFunction([p \in S |-> p[2]])

LEMMA CoordinateSums ==
  ASSUME NEW S, Places(S), NEW T, Places(T), S \cap T = {}
  PROVE  /\ XSum(S) \in Nat /\ YSum(S) \in Nat /\ XSum(T) \in Nat /\ YSum(T) \in Nat
         /\ XSum(S \cup T) = XSum(S) + XSum(T) /\ YSum(S \cup T) = YSum(S) + YSum(T)
<1> DEFINE A == S \cup T
           fx == [p \in A |-> p[1]]
           fy == [p \in A |-> p[2]]
<1>1. \A p \in A : fx[p] \in Nat /\ fy[p] \in Nat
  <2>1. \A p \in A : p[1] \in Nat /\ p[2] \in Nat
    BY PlacesFacts, UIntNat
  <2>2. QED
    BY <2>1
<1>2. ASSUME NEW R, R \subseteq A, IsFiniteSet(R)
      PROVE  XSum(R) = Sum(fx, R) /\ YSum(R) = Sum(fy, R)
  <2> DEFINE gx == [p \in R |-> p[1]]
             gy == [p \in R |-> p[2]]
  <2>1. DOMAIN gx = R /\ DOMAIN gy = R
    OBVIOUS
  <2>2. XSum(R) = Sum(gx, R) /\ YSum(R) = Sum(gy, R)
    BY <2>1 DEF XSum, YSum, SumFunction, Sum
  <2>3. \A p \in R : gx[p] = fx[p] /\ gy[p] = fy[p]
    BY <1>2
  <2> HIDE DEF gx, gy, fx, fy
  <2>4. Sum(gx, R) = Sum(fx, R) /\ Sum(gy, R) = Sum(fy, R)
    BY <1>1, <1>2, <2>3, SumSame
  <2>5. QED
    BY <2>2, <2>4
<1> HIDE DEF fx, fy
<1>3. IsFiniteSet(S) /\ IsFiniteSet(T) /\ IsFiniteSet(A)
  BY FS_Union DEF Places
<1>4. Sum(fx, A) = Sum(fx, S) + Sum(fx, T) /\ Sum(fy, A) = Sum(fy, S) + Sum(fy, T)
  BY <1>1, <1>3, SumUnion
<1>5. XSum(A) = Sum(fx, A) /\ XSum(S) = Sum(fx, S) /\ XSum(T) = Sum(fx, T)
  BY <1>2, <1>3
<1>6. YSum(A) = Sum(fy, A) /\ YSum(S) = Sum(fy, S) /\ YSum(T) = Sum(fy, T)
  BY <1>2, <1>3
<1>7. Sum(fx, S) \in Nat /\ Sum(fx, T) \in Nat /\ Sum(fy, S) \in Nat /\ Sum(fy, T) \in Nat
  BY <1>1, <1>3, SumType
<1>8. QED
  BY <1>4, <1>5, <1>6, <1>7

Low(a, P) == Min({a} \cup P)
High(a, P) == Max({a} \cup P)

BoxRecord(x0, y0, x1, y1, cx, cy, num) ==
  [x0 |-> x0, y0 |-> y0, x1 |-> x1, y1 |-> y1, cx |-> cx, cy |-> cy, num |-> num, density |-> 0]

LEMMA BoxUpdate ==
  ASSUME NEW a, NEW b, NEW c, NEW d, NEW e, NEW f, NEW g, NEW r, r = BoxRecord(a, b, c, d, e, f, g),
         NEW S, S # {}, NEW s, s = Take(r, S)
  PROVE  s = BoxRecord(Low(a, Xs(S)), Low(b, Ys(S)), High(c, Xs(S)), High(d, Ys(S)),
                       e + XSum(S), f + YSum(S), g + Cardinality(S))
<1>1. s = [r EXCEPT !.x0 = Min({@} \cup Xs(S)), !.y0 = Min({@} \cup Ys(S)),
                    !.x1 = Max({@} \cup Xs(S)), !.y1 = Max({@} \cup Ys(S)),
                    !.cx = @ + XSum(S), !.cy = @ + YSum(S), !.num = @ + Cardinality(S)]
  BY DEF Take, Xs, Ys, XSum, YSum
<1>2. r.x0 = a /\ r.y0 = b /\ r.x1 = c /\ r.y1 = d /\ r.cx = e /\ r.cy = f /\ r.num = g
  BY DEF BoxRecord
<1>3. PICK p, q, t, u, v, w, x :
        /\ p = Low(a, Xs(S)) /\ q = Low(b, Ys(S))
        /\ t = High(c, Xs(S)) /\ u = High(d, Ys(S))
        /\ v = e + XSum(S) /\ w = f + YSum(S) /\ x = g + Cardinality(S)
  OBVIOUS
<1>4. s = [r EXCEPT !.x0 = p, !.y0 = q, !.x1 = t, !.y1 = u, !.cx = v, !.cy = w, !.num = x]
  BY <1>1, <1>2, <1>3 DEF Low, High
<1>5. s = BoxRecord(p, q, t, u, v, w, x)
  BY <1>4 DEF BoxRecord
<1>6. QED
  BY <1>3, <1>5

Below(P, M) == P \subseteq 0 .. M

LEMMA JoinBounds ==
  ASSUME NEW M \in Nat, NEW P, Below(P, M), NEW Q, Below(Q, M), NEW R, R = P \cup Q
  PROVE  /\ Low(Low(M, P), Q) = Low(M, R)
         /\ High(High(0, P), Q) = High(0, R)
<1>1. /\ {M} \cup P \in SUBSET Nat /\ {M} \cup P # {} /\ Q \in SUBSET Nat
      /\ {0} \cup P \in SUBSET (0 .. M) /\ {0} \cup P # {} /\ Q \in SUBSET (0 .. M)
  BY DEF Below
<1>2. Min({Min({M} \cup P)} \cup Q) = Min(({M} \cup P) \cup Q)
  BY <1>1, MinJoin
<1>3. Max({Max({0} \cup P)} \cup Q) = Max(({0} \cup P) \cup Q)
  BY <1>1, MaxJoin
<1>4. ({M} \cup P) \cup Q = {M} \cup (P \cup Q) /\ ({0} \cup P) \cup Q = {0} \cup (P \cup Q)
  OBVIOUS
<1>5. QED
  BY <1>2, <1>3, <1>4 DEF Low, High

(* A box that takes in places, and one that takes in none. *)
LEMMA TakeIs ==
  ASSUME NEW S, Places(S)
  PROVE  Take(EmptyBox, S) =
           BoxRecord(Low(UINT16_MAX, Xs(S)), Low(UINT16_MAX, Ys(S)),
                     High(0, Xs(S)), High(0, Ys(S)), XSum(S), YSum(S), Cardinality(S))
<1>0. UINT16_MAX \in Nat
  BY UIntNat
<1>1. CASE S = {}
  <2>1. Xs(S) = {} /\ Ys(S) = {}
    BY <1>1 DEF Xs, Ys
  <2>2. Min({UINT16_MAX}) = UINT16_MAX /\ Max({0}) = 0
    <3>1. {UINT16_MAX} \in SUBSET Nat /\ {UINT16_MAX} # {} /\ {0} \in SUBSET (0 .. 0) /\ {0} # {}
      BY <1>0
    <3>2. Min({UINT16_MAX}) \in {UINT16_MAX} /\ Max({0}) \in {0}
      BY <3>1, MinIs, MaxIs
    <3>3. QED
      BY <3>2
  <2>3. XSum(S) = 0 /\ YSum(S) = 0 /\ Cardinality(S) = 0
    <3>1. DOMAIN [p \in S |-> p[1]] = {} /\ DOMAIN [p \in S |-> p[2]] = {}
      BY <1>1
    <3>2. XSum(S) = Sum([p \in S |-> p[1]], {}) /\ YSum(S) = Sum([p \in S |-> p[2]], {})
      BY <3>1 DEF XSum, YSum, SumFunction, Sum
    <3>3. QED
      BY <1>1, <3>2, SumNone, FS_EmptySet
  <2>4. Take(EmptyBox, S) = EmptyBox
    BY <1>1 DEF Take
  <2>5. {UINT16_MAX} \cup Xs(S) = {UINT16_MAX} /\ {UINT16_MAX} \cup Ys(S) = {UINT16_MAX}
          /\ {0} \cup Xs(S) = {0} /\ {0} \cup Ys(S) = {0}
    BY <2>1
  <2>6. QED
    BY <2>2, <2>3, <2>4, <2>5 DEF EmptyBox, BoxRecord, Low, High
<1>2. CASE S # {}
  <2>1. XSum(S) \in Nat /\ YSum(S) \in Nat /\ Cardinality(S) \in Nat
    <3>1. Places({}) /\ S \cap {} = {}
      BY FS_EmptySet DEF Places
    <3>2. QED
      BY <3>1, CoordinateSums, PlacesFacts
  <2>2. EmptyBox = BoxRecord(UINT16_MAX, UINT16_MAX, 0, 0, 0, 0, 0)
    BY DEF EmptyBox, BoxRecord
  <2>3. 0 + XSum(S) = XSum(S) /\ 0 + YSum(S) = YSum(S) /\ 0 + Cardinality(S) = Cardinality(S)
    BY <2>1
  <2>4. QED
    BY <1>2, <2>2, <2>3, BoxUpdate
<1>3. QED
  BY <1>1, <1>2

LEMMA TakeMore ==
  ASSUME NEW S, Places(S), NEW T, Places(T), S \cap T = {}
  PROVE  Places(S \cup T) /\ Take(Take(EmptyBox, S), T) = Take(EmptyBox, S \cup T)
<1> DEFINE A == S \cup T
           b == Take(EmptyBox, S)
<1>0. UINT16_MAX \in Nat
  BY UIntNat
<1>1. Places(A)
  BY FS_Union DEF Places
<1>2. CASE T = {}
  <2>1. Take(b, T) = b /\ A = S
    BY <1>2 DEF Take
  <2>2. QED
    BY <1>1, <2>1
<1>3. CASE T # {}
  <2>1. b = BoxRecord(Low(UINT16_MAX, Xs(S)), Low(UINT16_MAX, Ys(S)),
                      High(0, Xs(S)), High(0, Ys(S)), XSum(S), YSum(S), Cardinality(S))
    BY TakeIs
  <2>3. Take(b, T) =
          BoxRecord(Low(Low(UINT16_MAX, Xs(S)), Xs(T)),
                    Low(Low(UINT16_MAX, Ys(S)), Ys(T)),
                    High(High(0, Xs(S)), Xs(T)), High(High(0, Ys(S)), Ys(T)),
                    XSum(S) + XSum(T), YSum(S) + YSum(T), Cardinality(S) + Cardinality(T))
    BY <1>3, <2>1, BoxUpdate
  <2>4. /\ Below(Xs(S), UINT16_MAX) /\ Below(Ys(S), UINT16_MAX)
        /\ Below(Xs(T), UINT16_MAX) /\ Below(Ys(T), UINT16_MAX)
        /\ Xs(A) = Xs(S) \cup Xs(T) /\ Ys(A) = Ys(S) \cup Ys(T)
    <3>1. Xs(A) = Xs(S) \cup Xs(T) /\ Ys(A) = Ys(S) \cup Ys(T)
      BY DEF Xs, Ys
    <3>2. QED
      BY <3>1, PlacesFacts DEF Below
  <2>5. ASSUME NEW P, Below(P, UINT16_MAX), NEW Q, Below(Q, UINT16_MAX), NEW R, R = P \cup Q
        PROVE  /\ Low(Low(UINT16_MAX, P), Q) = Low(UINT16_MAX, R)
               /\ High(High(0, P), Q) = High(0, R)
    BY <1>0, <2>5, JoinBounds
  <2> HIDE DEF A
  <2>6. /\ Low(Low(UINT16_MAX, Xs(S)), Xs(T)) = Low(UINT16_MAX, Xs(A))
        /\ High(High(0, Xs(S)), Xs(T)) = High(0, Xs(A))
    BY <2>4, <2>5
  <2>7. /\ Low(Low(UINT16_MAX, Ys(S)), Ys(T)) = Low(UINT16_MAX, Ys(A))
        /\ High(High(0, Ys(S)), Ys(T)) = High(0, Ys(A))
    BY <2>4, <2>5
  <2>8. Cardinality(A) = Cardinality(S) + Cardinality(T)
    BY CardUnion DEF Places, A
  <2>9. XSum(A) = XSum(S) + XSum(T) /\ YSum(A) = YSum(S) + YSum(T)
    BY CoordinateSums DEF A
  <2>10. Take(EmptyBox, A) =
           BoxRecord(Low(UINT16_MAX, Xs(A)), Low(UINT16_MAX, Ys(A)),
                     High(0, Xs(A)), High(0, Ys(A)), XSum(A), YSum(A), Cardinality(A))
    BY <1>1, TakeIs
  <2> HIDE DEF A, b
  <2>11. Take(b, T) = Take(EmptyBox, A)
    BY <2>3, <2>6, <2>7, <2>8, <2>9, <2>10
  <2>12. QED
    BY <1>1, <2>11 DEF A, b
<1>4. QED
  BY <1>2, <1>3

LEMMA DivAtLeast ==
  ASSUME NEW a \in Nat, NEW n \in Nat, n > 0, NEW lo \in Nat, lo * n <= a
  PROVE  a \div n \in Nat /\ lo <= a \div n
<1>1. (lo * n) \div n = lo
  BY DivCancels
<1>2. lo * n \in Nat
  OBVIOUS
<1> DEFINE q == a \div n
<1>3. q \in Nat /\ a < n * (q + 1)
  OBVIOUS
<1> HIDE DEF q
<1>4. lo <= q
  <2>1. SUFFICES ASSUME lo >= q + 1 PROVE FALSE
    BY <1>3
  <2>2. n * (q + 1) <= n * lo
    BY <1>3, <2>1
  <2>3. n * lo = lo * n /\ n * (q + 1) \in Nat
    BY <1>3
  <2>4. QED
    BY <1>2, <1>3, <2>2, <2>3
<1>5. QED
  BY <1>3, <1>4 DEF q

LEMMA DivAtMost ==
  ASSUME NEW a \in Nat, NEW n \in Nat, n > 0, NEW hi \in Nat, a <= hi * n
  PROVE  a \div n \in Nat /\ a \div n <= hi
<1> DEFINE q == a \div n
<1>1. q \in Nat /\ n * q <= a
  BY DivBounds
<1> HIDE DEF q
<1>2. q <= hi
  <2>1. SUFFICES ASSUME q >= hi + 1 PROVE FALSE
    BY <1>1
  <2>2. n * (hi + 1) <= n * q
    BY <1>1, <2>1
  <2>3. n * (hi + 1) = hi * n + n /\ n * q \in Nat /\ hi * n \in Nat
    BY <1>1
  <2>4. QED
    BY <1>1, <2>2, <2>3
<1>3. QED
  BY <1>1, <1>2 DEF q

(* What bounds from outside is bounded by its own least and largest.        *)
LEMMA OwnBounds ==
  ASSUME NEW M \in Nat, NEW P, Below(P, M), P # {}
  PROVE  /\ Low(M, P) = Min(P) /\ High(0, P) = Max(P) /\ Min(P) \in P /\ Max(P) \in P
         /\ \A y \in P : y \in Nat /\ Min(P) <= y /\ y <= Max(P)
<1>0. P \in SUBSET (0 .. M)
  BY DEF Below
<1>1. /\ Min(P) \in P /\ \A y \in P : Min(P) <= y
      /\ Max(P) \in P /\ \A y \in P : y <= Max(P)
  <2>1. P \in SUBSET Nat
    BY <1>0
  <2>2. QED
    BY <1>0, <2>1, MinIs, MaxIs
<1>2. \A y \in P : y \in Nat /\ y <= M /\ 0 <= y
  BY <1>0
<1>3. {M} \cup P \in SUBSET Nat /\ {0} \cup P \in SUBSET (0 .. M)
  BY <1>0, <1>2
<1>4. Min(P) = Min({M} \cup P)
  <2>1. Min(P) \in {M} \cup P /\ \A y \in {M} \cup P : Min(P) <= y
    BY <1>1, <1>2
  <2>2. QED
    BY <1>3, <2>1, MinIs
<1>5. Max(P) = Max({0} \cup P)
  <2>1. Max(P) \in {0} \cup P /\ \A y \in {0} \cup P : y <= Max(P)
    BY <1>1, <1>2
  <2>2. QED
    BY <1>3, <2>1, MaxIs
<1>6. QED
  BY <1>1, <1>2, <1>4, <1>5 DEF Low, High

(* The bounds of the box of some places are those of the places. *)
LEMMA BoundsAre ==
  ASSUME NEW P \in SUBSET (0 .. UINT16_MAX), P # {}
  PROVE  /\ Low(UINT16_MAX, P) = Min(P) /\ High(0, P) = Max(P) /\ Min(P) \in P /\ Max(P) \in P
         /\ \A y \in P : y \in Nat /\ Min(P) <= y /\ y <= Max(P)
<1>1. Below(P, UINT16_MAX)
  BY DEF Below
<1>2. QED
  BY <1>1, UIntNat, OwnBounds

(* The mean of a coordinate lies between its bounds. *)
LEMMA MeanBetween ==
  ASSUME NEW S, Places(S), S # {}
  PROVE  /\ XSum(S) \div Cardinality(S) \in Min(Xs(S)) .. Max(Xs(S))
         /\ YSum(S) \div Cardinality(S) \in Min(Ys(S)) .. Max(Ys(S))
<1> DEFINE n == Cardinality(S)
<1>1. n \in Nat /\ n > 0 /\ IsFiniteSet(S)
  BY PlacesFacts DEF Places
<1>2. ASSUME NEW f, DOMAIN f = S, NEW lo \in Nat, NEW hi \in Nat, \A p \in S : f[p] \in lo .. hi
      PROVE  SumFunction(f) \div n \in lo .. hi
  <2>1. SumFunction(f) = Sum(f, S)
    BY <1>2 DEF SumFunction, Sum
  <2>2. lo * n <= Sum(f, S) /\ Sum(f, S) <= hi * n /\ Sum(f, S) \in Nat
    BY <1>1, <1>2, SumBounds
  <2>3. QED
    BY <1>1, <2>1, <2>2, DivAtLeast, DivAtMost
<1>3. /\ Xs(S) \in SUBSET (0 .. UINT16_MAX) /\ Xs(S) # {}
      /\ Ys(S) \in SUBSET (0 .. UINT16_MAX) /\ Ys(S) # {}
  BY PlacesFacts
<1>4. \A p \in S : p[1] \in Xs(S) /\ p[2] \in Ys(S)
  BY DEF Xs, Ys
<1>5. /\ Min(Xs(S)) \in Nat /\ Max(Xs(S)) \in Nat /\ \A p \in S : p[1] \in Min(Xs(S)) .. Max(Xs(S))
      /\ Min(Ys(S)) \in Nat /\ Max(Ys(S)) \in Nat /\ \A p \in S : p[2] \in Min(Ys(S)) .. Max(Ys(S))
  <2>1. ASSUME NEW P \in SUBSET (0 .. UINT16_MAX), P # {}
        PROVE  Min(P) \in Nat /\ Max(P) \in Nat /\ \A y \in P : y \in Min(P) .. Max(P)
    <3>1. /\ Min(P) \in P /\ Max(P) \in P
          /\ \A y \in P : y \in Nat /\ Min(P) <= y /\ y <= Max(P)
      BY <2>1, BoundsAre
    <3>2. Min(P) \in Nat /\ Max(P) \in Nat
      BY <3>1
    <3>3. QED
      BY <3>1, <3>2
  <2>2. QED
    BY <1>3, <1>4, <2>1
<1>6. XSum(S) \div n \in Min(Xs(S)) .. Max(Xs(S))
  <2> DEFINE f == [p \in S |-> p[1]]
  <2>1. DOMAIN f = S /\ \A p \in S : f[p] \in Min(Xs(S)) .. Max(Xs(S))
    BY <1>5
  <2> HIDE DEF f, n
  <2>2. QED
    BY <1>2, <1>5, <2>1 DEF XSum, f
<1>7. YSum(S) \div n \in Min(Ys(S)) .. Max(Ys(S))
  <2> DEFINE f == [p \in S |-> p[2]]
  <2>1. DOMAIN f = S /\ \A p \in S : f[p] \in Min(Ys(S)) .. Max(Ys(S))
    BY <1>5
  <2> HIDE DEF f, n
  <2>2. QED
    BY <1>2, <1>5, <2>1 DEF YSum, f
<1>8. QED
  BY <1>6, <1>7

(* Places within the larger frame. *)
InFrame(S) == Places(S) /\ S \subseteq (0 .. HiWidth) \X (0 .. HiHeight)

LEMMA OpenBox ==
  ASSUME NEW S, InFrame(S)
  PROVE  Take(EmptyBox, S) \in Box
<1>1. Places(S)
  BY DEF InFrame
<1>2. XSum(S) \in Nat /\ YSum(S) \in Nat /\ Cardinality(S) \in Nat
  <2>1. Places({}) /\ S \cap {} = {}
    BY FS_EmptySet DEF Places
  <2>2. QED
    BY <1>1, <2>1, CoordinateSums, PlacesFacts
<1>3. ASSUME NEW H \in Nat, NEW P \in SUBSET (0 .. UINT16_MAX), P \subseteq 0 .. H
      PROVE  Low(UINT16_MAX, P) \in 0 .. UINT16_MAX /\ High(0, P) \in 0 .. H
  <2>1. {UINT16_MAX} \cup P \in SUBSET Nat /\ {UINT16_MAX} \cup P # {}
    BY UIntNat
  <2>2. {0} \cup P \in SUBSET (0 .. H) /\ {0} \cup P # {}
    BY <1>3
  <2>3. Min({UINT16_MAX} \cup P) \in {UINT16_MAX} \cup P /\ Max({0} \cup P) \in {0} \cup P
    BY <2>1, <2>2, MinIs, MaxIs
  <2>4. UINT16_MAX \in 0 .. UINT16_MAX /\ 0 \in 0 .. H
    BY UIntNat
  <2>5. Min({UINT16_MAX} \cup P) \in 0 .. UINT16_MAX
    BY <2>3, <2>4
  <2>6. Max({0} \cup P) \in 0 .. H
    BY <1>3, <2>3, <2>4
  <2>7. QED
    BY <2>5, <2>6 DEF Low, High
<1>4. /\ Xs(S) \in SUBSET (0 .. UINT16_MAX) /\ Xs(S) \subseteq 0 .. HiWidth
      /\ Ys(S) \in SUBSET (0 .. UINT16_MAX) /\ Ys(S) \subseteq 0 .. HiHeight
  <2>1. Xs(S) \subseteq 0 .. HiWidth /\ Ys(S) \subseteq 0 .. HiHeight
    BY DEF InFrame, Xs, Ys
  <2>2. QED
    BY <1>1, <2>1, PlacesFacts
<1>5. HiWidth \in Nat /\ HiHeight \in Nat
  BY SizeAssumption
<1>6. /\ Low(UINT16_MAX, Xs(S)) \in 0 .. UINT16_MAX /\ High(0, Xs(S)) \in 0 .. HiWidth
      /\ Low(UINT16_MAX, Ys(S)) \in 0 .. UINT16_MAX /\ High(0, Ys(S)) \in 0 .. HiHeight
  BY <1>3, <1>4, <1>5
<1>7. QED
  BY <1>1, <1>2, <1>6, TakeIs DEF BoxRecord, Box

(* Closing a box that took in some places makes it the box of the places.   *)
LEMMA ClosedBox ==
  ASSUME NEW S, InFrame(S), NEW scale \in Nat, NEW b, b = Closed(Take(EmptyBox, S), scale)
  PROVE  /\ b \in Box /\ IsBoxOf(b, S)
         /\ S # {} => b.density = Quot(b.num * scale, (b.x1 - b.x0) * (b.y1 - b.y0))
<1> DEFINE o == Take(EmptyBox, S)
<1>0. Places(S) /\ UINT16_MAX \in Nat /\ HiWidth \in Nat /\ HiHeight \in Nat
  BY UIntNat, SizeAssumption DEF InFrame
<1>1. o \in Box
  BY OpenBox
<1>2. o = BoxRecord(Low(UINT16_MAX, Xs(S)), Low(UINT16_MAX, Ys(S)),
                    High(0, Xs(S)), High(0, Ys(S)), XSum(S), YSum(S), Cardinality(S))
  BY <1>0, TakeIs
<1>3. o.num = Cardinality(S)
  BY <1>2 DEF BoxRecord
<1> HIDE DEF o
<1>4. CASE S = {}
  <2>1. b = [EmptyBox EXCEPT !.x0 = 0, !.y0 = 0] /\ Cardinality(S) = 0
    BY <1>3, <1>4, FS_EmptySet DEF Closed, o
  <2>2. b = BoxRecord(0, 0, 0, 0, 0, 0, 0)
    BY <2>1 DEF EmptyBox, BoxRecord
  <2>3. b \in Box
    BY <1>0, <2>2 DEF BoxRecord, Box
  <2>4. b = [x \in DOMAIN b |-> 0]
    BY <2>2 DEF BoxRecord
  <2>5. b.num = Cardinality(S)
    <3>1. b.num = 0
      BY <2>2 DEF BoxRecord
    <3>2. QED
      BY <2>1, <3>1
  <2>6. QED
    BY <1>4, <2>3, <2>4, <2>5 DEF IsBoxOf
<1>5. CASE S # {}
  <2>1. o.num # 0 /\ o.num \in Nat /\ o.num > 0
    BY <1>0, <1>3, <1>5, PlacesFacts
  <2>2. b = [o EXCEPT !.density = Quot(o.num * scale, (o.x1 - o.x0) * (o.y1 - o.y0)),
                      !.cx = o.cx \div o.num, !.cy = o.cy \div o.num]
    BY <2>1 DEF Closed, o
  <2>3. /\ b.num = o.num /\ b.x0 = o.x0 /\ b.y0 = o.y0 /\ b.x1 = o.x1 /\ b.y1 = o.y1
        /\ b.cx = o.cx \div o.num /\ b.cy = o.cy \div o.num
        /\ b.density = Quot(o.num * scale, (o.x1 - o.x0) * (o.y1 - o.y0))
    BY <1>1, <2>2 DEF Box
  <2>4. /\ Xs(S) \in SUBSET (0 .. UINT16_MAX) /\ Xs(S) # {}
        /\ Ys(S) \in SUBSET (0 .. UINT16_MAX) /\ Ys(S) # {}
    BY <1>0, <1>5, PlacesFacts
  <2>5. /\ o.x0 = Min(Xs(S)) /\ o.x1 = Max(Xs(S)) /\ o.cx = XSum(S)
        /\ o.y0 = Min(Ys(S)) /\ o.y1 = Max(Ys(S)) /\ o.cy = YSum(S)
    BY <1>2, <2>4, BoundsAre DEF BoxRecord
  <2>6. b.cx \in b.x0 .. b.x1 /\ b.cy \in b.y0 .. b.y1
    BY <1>0, <1>3, <1>5, <2>3, <2>5, MeanBetween
  <2>7. IsBoxOf(b, S)
    BY <1>3, <1>5, <2>3, <2>5, <2>6 DEF IsBoxOf, Xs, Ys
  <2>8. /\ o.x0 \in Nat /\ o.x1 \in Nat /\ o.y0 \in Nat /\ o.y1 \in Nat /\ o.x0 <= o.x1 /\ o.y0 <= o.y1
    <3>1. \A y \in Xs(S) : y \in Nat /\ Min(Xs(S)) <= y /\ y <= Max(Xs(S))
      BY <2>4, BoundsAre
    <3>2. \A y \in Ys(S) : y \in Nat /\ Min(Ys(S)) <= y /\ y <= Max(Ys(S))
      BY <2>4, BoundsAre
    <3>3. Min(Xs(S)) \in Xs(S) /\ Max(Xs(S)) \in Xs(S) /\ Min(Ys(S)) \in Ys(S) /\ Max(Ys(S)) \in Ys(S)
      BY <2>4, BoundsAre
    <3>4. QED
      BY <2>5, <3>1, <3>2, <3>3
  <2>9. b.density \in Nat
    <3>1. (o.x1 - o.x0) * (o.y1 - o.y0) \in Nat /\ o.num * scale \in Nat
      <4>1. o.x1 - o.x0 \in Nat /\ o.y1 - o.y0 \in Nat
        BY <2>8
      <4>2. QED
        BY <2>1, <4>1
    <3>2. ASSUME NEW x \in Nat, NEW y \in Nat PROVE Quot(x, y) \in Nat
      BY DivBounds DEF Quot
    <3>3. QED
      BY <2>3, <3>1, <3>2
  <2>10. b.cx \in Nat /\ b.cy \in Nat
    BY <2>3, <2>6, <2>8
  <2>11. b \in Box
    BY <1>1, <2>1, <2>2, <2>3, <2>9, <2>10 DEF Box
  <2>12. QED
    BY <1>5, <2>3, <2>7, <2>11
<1>6. QED
  BY <1>4, <1>5

-----------------------------------------------------------------------------
(* What each computation has of the pixels S of a picture. *)

FoundIn(pic, S, noise) ==
  {p \in S : \A k \in 0 .. noise : p[1] >= k /\ Good(pic[<<p[1] - k, p[2]>>])}

TrackOf(pic, S, noise, y) ==
  [noise |-> noise, y |-> y, box |-> Take(EmptyBox, FoundIn(pic, S, noise))]

InfoRecord(sum, pix, min, max) ==
  [sum |-> sum, pix |-> pix, min |-> min, max |-> max, mean |-> 0, deviation |-> 0]

PixelsIn(pic, S) == {pic[p] : p \in S}

InfoOf(pic, S) ==
  InfoRecord(Sum(pic, S), Cardinality(S), Low(MaxPixel, PixelsIn(pic, S)), High(0, PixelsIn(pic, S)))

InBin(pic, S, i) == {p \in S : Bin(HistStart, pic[p]) = i}
HistOf(pic, S) ==
  [hist |-> [i \in 0 .. Bins - 1 |-> Cardinality(InBin(pic, S, i))], div |-> HistStart.div]

InCell(S, c, bx, by) == {p \in S : c = <<Quot(p[1], bx), Quot(p[2], by)>>}
CellSums(pic, S, bx, by) == [c \in Cells |-> Sum(pic, InCell(S, c, bx, by))]

(* A row of w pixels of a picture, below k others. *)
IsPicture(pic, w, n) == \A p \in Grid(w, n) : pic[p] \in 0 .. MaxPixel
IsRow(row, pic, w, k) == row = [x \in 0 .. w - 1 |-> pic[<<x, k>>]]

LEMMA GridInFrame ==
  ASSUME NEW w \in 0 .. HiWidth, NEW n \in 0 .. HiHeight, NEW S \in SUBSET Grid(w, n)
  PROVE  InFrame(S)
<1>1. w \in Nat /\ n \in Nat /\ HiWidth \in Nat /\ HiHeight \in Nat
        /\ HiWidth <= UINT16_MAX /\ HiHeight <= UINT16_MAX
  <2>1. HiWidth \in Nat /\ HiHeight \in Nat /\ MaxShort \in Nat /\ HiWidth < MaxShort /\ HiHeight < MaxShort
    BY SizeAssumption
  <2>2. QED
    BY <2>1 DEF UINT16_MAX
<1>2. IsFiniteSet(Grid(w, n))
  BY <1>1, GridGrows
<1>3. IsFiniteSet(S)
  BY <1>2, FS_Subset
<1>4. Grid(w, n) \subseteq (0 .. HiWidth) \X (0 .. HiHeight)
  BY <1>1 DEF Grid
<1>5. (0 .. HiWidth) \X (0 .. HiHeight) \subseteq (0 .. UINT16_MAX) \X (0 .. UINT16_MAX)
  BY <1>1, UIntNat
<1>6. QED
  BY <1>3, <1>4, <1>5 DEF InFrame, Places

LEMMA FoundGrows ==
  ASSUME NEW pic, NEW noise \in Nat, NEW k \in Nat, frame.width \in Nat,
         NEW row, IsRow(row, pic, frame.width, k)
  PROVE  {<<x, k>> : x \in {i \in DOMAIN row : RunLengths(row)[i] > noise}} =
           FoundIn(pic, RowOf(frame.width, k), noise)
<1> DEFINE w == frame.width
           L == {<<x, k>> : x \in {i \in DOMAIN row : RunLengths(row)[i] > noise}}
           F == FoundIn(pic, RowOf(w, k), noise)
           Counts(x) == \A j \in 0 .. noise : x >= j /\ Good(pic[<<x - j, k>>])
<1>1. DOMAIN row = 0 .. w - 1 /\ \A x \in 0 .. w - 1 : row[x] = pic[<<x, k>>]
  BY DEF IsRow
<1>2. ASSUME NEW x \in 0 .. w - 1
      PROVE  RunLengths(row)[x] > noise <=> Counts(x)
  <2>1. RunLengths(row)[x] > noise <=> \A j \in 0 .. noise : x >= j /\ Good(row[x - j])
    BY RunFinds
  <2>2. \A j \in 0 .. noise : x >= j => x - j \in 0 .. w - 1 /\ row[x - j] = pic[<<x - j, k>>]
    <3>1. \A j \in 0 .. noise : x >= j => x - j \in 0 .. w - 1
      OBVIOUS
    <3>2. QED
      BY <1>1, <3>1
  <2>3. QED
    BY <2>1, <2>2
<1>3. L = {<<x, k>> : x \in {i \in 0 .. w - 1 : Counts(i)}}
  <2>1. {i \in DOMAIN row : RunLengths(row)[i] > noise} = {i \in 0 .. w - 1 : Counts(i)}
    BY <1>1, <1>2
  <2> HIDE DEF Counts
  <2>2. QED
    BY <2>1
<1>4. F = {p \in RowOf(w, k) : Counts(p[1])}
  <2>1. \A p \in RowOf(w, k) : p[2] = k
    BY DEF RowOf
  <2>2. QED
    BY <2>1 DEF FoundIn
<1>5. QED
  <2> HIDE DEF Counts, L, F
  <2>1. L = F
    BY <1>3, <1>4 DEF RowOf
  <2>2. QED
    BY <2>1 DEF L, F

LEMMA TrackRow ==
  ASSUME NEW pic, NEW noise \in Nat, NEW k \in Nat, frame.width \in 0 .. HiWidth, k + 1 \in 0 .. HiHeight,
         NEW row, IsRow(row, pic, frame.width, k)
  PROVE  TrackScanline(TrackOf(pic, Grid(frame.width, k), noise, k), row) =
           TrackOf(pic, Grid(frame.width, k + 1), noise, k + 1)
<1> DEFINE w == frame.width
           S == FoundIn(pic, Grid(w, k), noise)
           T == FoundIn(pic, RowOf(w, k), noise)
           U == FoundIn(pic, Grid(w, k + 1), noise)
           before == TrackOf(pic, Grid(w, k), noise, k)
           after == TrackScanline(before, row)
<1>1. w \in Nat
  BY SizeAssumption
<1>2. U = S \cup T /\ S \cap T = {}
  <2>1. Grid(w, k + 1) = Grid(w, k) \cup RowOf(w, k) /\ Grid(w, k) \cap RowOf(w, k) = {}
    BY <1>1, GridGrows
  <2>2. QED
    BY <2>1 DEF FoundIn
<1>3. U \in SUBSET Grid(w, k + 1)
  BY DEF FoundIn
<1>4. Places(U)
  BY <1>3, GridInFrame DEF InFrame
<1>5. Places(S) /\ Places(T)
  BY <1>2, <1>4, FS_Subset DEF Places
<1>6. Take(Take(EmptyBox, S), T) = Take(EmptyBox, U)
  BY <1>2, <1>5, TakeMore
<1>7. before.y = k /\ before.noise = noise /\ before.box = Take(EmptyBox, S)
  BY DEF TrackOf
<1>8. after = [before EXCEPT !.y = before.y + 1,
                 !.box = Take(before.box, {<<x, before.y>> : x \in {i \in DOMAIN row : RunLengths(row)[i] > before.noise}})]
  BY DEF TrackScanline
<1>9. after = [before EXCEPT !.y = k + 1, !.box = Take(EmptyBox, U)]
  <2>1. {<<x, k>> : x \in {i \in DOMAIN row : RunLengths(row)[i] > noise}} = T
    BY <1>1, FoundGrows
  <2> HIDE DEF S, T, U, before, after
  <2>2. QED
    BY <1>6, <1>7, <1>8, <2>1
<1>10. before = [noise |-> noise, y |-> k, box |-> Take(EmptyBox, S)]
  BY DEF TrackOf
<1> HIDE DEF before, after, S, U
<1>11. after = [noise |-> noise, y |-> k + 1, box |-> Take(EmptyBox, U)]
  BY <1>9, <1>10
<1>12. QED
  BY <1>11 DEF TrackOf, after, before, U

(* The pixels of a picture are small numbers, and its rows are finite.      *)
LEMMA PictureFacts ==
  ASSUME NEW pic, NEW w \in Nat, NEW n \in Nat, IsPicture(pic, w, n), NEW k \in 0 .. n - 1,
         NEW S, S = Grid(w, k) \/ S = RowOf(w, k) \/ S = Grid(w, k + 1)
  PROVE  /\ IsFiniteSet(S) /\ S \subseteq Grid(w, n)
         /\ \A p \in S : pic[p] \in Nat /\ pic[p] <= MaxPixel
         /\ PixelsIn(pic, S) \in SUBSET (0 .. MaxPixel)
<1>1. k \in Nat /\ k + 1 \in Nat /\ k + 1 <= n
  OBVIOUS
<1>2. IsFiniteSet(S) /\ S \subseteq Grid(w, k + 1)
  <2>1. /\ Grid(w, k + 1) = Grid(w, k) \cup RowOf(w, k)
        /\ IsFiniteSet(Grid(w, k)) /\ IsFiniteSet(RowOf(w, k)) /\ IsFiniteSet(Grid(w, k + 1))
    BY <1>1, GridGrows
  <2>2. QED
    BY <2>1
<1>3. Grid(w, k + 1) \subseteq Grid(w, n)
  <2>1. 0 .. (k + 1) - 1 \subseteq 0 .. n - 1
    BY <1>1
  <2>2. QED
    BY <2>1 DEF Grid
<1>4. \A p \in S : pic[p] \in 0 .. MaxPixel
  BY <1>2, <1>3 DEF IsPicture
<1>5. MaxPixel \in Nat
  BY PixelAssumption
<1>6. QED
  BY <1>2, <1>3, <1>4, <1>5 DEF PixelsIn

Along(X, k) == {<<x, k>> : x \in X}

LEMMA SumAlong ==
  ASSUME NEW pic, NEW row, NEW X, IsFiniteSet(X), NEW k,
         \A x \in X : row[x] \in Nat /\ pic[<<x, k>>] = row[x]
  PROVE  Sum(pic, Along(X, k)) = Sum(row, X)
<1> DEFINE g == [x \in X |-> <<x, k>>]
<1>1. (\A x \in X : row[x] \in Nat /\ pic[g[x]] = row[x]) /\ \A x, y \in X : g[x] = g[y] => x = y
  OBVIOUS
<1>2. Along(X, k) = ImageOf(g, X)
  BY DEF Along, ImageOf
<1> HIDE DEF g
<1>3. Sum(pic, ImageOf(g, X)) = Sum(row, X)
  BY <1>1, SumImage
<1>4. QED
  BY <1>2, <1>3

LEMMA RowSum ==
  ASSUME NEW pic, NEW w \in Nat, NEW n \in Nat, IsPicture(pic, w, n), NEW k \in 0 .. n - 1,
         NEW row, IsRow(row, pic, w, k), NEW X \in SUBSET (0 .. w - 1), NEW S, S = {<<x, k>> : x \in X}
  PROVE  IsFiniteSet(X) /\ Sum(row, X) = Sum(pic, S)
<1>1. IsFiniteSet(X)
  <2>1. IsFiniteSet(0 .. w - 1)
    BY GridGrows
  <2>2. QED
    BY <2>1, FS_Subset
<1>2. \A x \in X : row[x] \in Nat /\ pic[<<x, k>>] = row[x]
  <2>1. \A x \in X : <<x, k>> \in RowOf(w, k)
    BY DEF RowOf
  <2>2. \A p \in RowOf(w, k) : pic[p] \in Nat
    BY PictureFacts
  <2>3. \A x \in X : row[x] = pic[<<x, k>>]
    BY DEF IsRow
  <2>4. QED
    BY <2>1, <2>2, <2>3
<1>3. S = Along(X, k)
  BY DEF Along
<1>4. Sum(pic, Along(X, k)) = Sum(row, X)
  <2>1. PICK j, Y : j = k /\ Y = X
    OBVIOUS
  <2>2. IsFiniteSet(Y) /\ \A x \in Y : row[x] \in Nat /\ pic[<<x, j>>] = row[x]
    BY <1>1, <1>2, <2>1
  <2>3. Sum(pic, Along(Y, j)) = Sum(row, Y)
    BY ONLY <2>2, SumAlong
  <2>4. QED
    BY <2>1, <2>3
<1>5. QED
  BY <1>1, <1>3, <1>4

LEMMA InfoRow ==
  ASSUME NEW pic, NEW w \in Nat, NEW n \in Nat, IsPicture(pic, w, n), NEW k \in 0 .. n - 1,
         NEW row, IsRow(row, pic, w, k)
  PROVE  InfoScanline(InfoOf(pic, Grid(w, k)), row) = InfoOf(pic, Grid(w, k + 1))
<1> DEFINE S == Grid(w, k)
           T == RowOf(w, k)
           U == Grid(w, k + 1)
           X == 0 .. w - 1
           pixels == {row[x] : x \in X}
           before == InfoOf(pic, S)
           after == InfoScanline(before, row)
<1>0. k \in Nat /\ MaxPixel \in Nat
  BY PixelAssumption
<1>1. U = S \cup T /\ S \cap T = {} /\ T = {<<x, k>> : x \in X}
  BY <1>0, GridGrows DEF RowOf
<1>2. DOMAIN row = X /\ \A x \in X : row[x] = pic[<<x, k>>]
  BY DEF IsRow
<1>3. /\ IsFiniteSet(S) /\ IsFiniteSet(T) /\ IsFiniteSet(X)
      /\ \A p \in S \cup T : pic[p] \in Nat /\ pic[p] <= MaxPixel
      /\ PixelsIn(pic, S) \in SUBSET (0 .. MaxPixel) /\ PixelsIn(pic, T) \in SUBSET (0 .. MaxPixel)
  BY PictureFacts, GridGrows
<1>4. Sum(pic, U) = Sum(pic, S) + Sum(pic, T)
  BY <1>1, <1>3, SumUnion
<1>5. SumFunction(row) = Sum(pic, T)
  <2>1. SumFunction(row) = Sum(row, X)
    BY <1>2 DEF SumFunction, Sum
  <2>2. Sum(row, X) = Sum(pic, T)
    <3>1. X \in SUBSET (0 .. w - 1) /\ T = {<<x, k>> : x \in X}
      BY <1>1
    <3> HIDE DEF X, T
    <3>2. QED
      BY <3>1, RowSum
  <2>3. QED
    BY <2>1, <2>2
<1>6. Cardinality(U) = Cardinality(S) + Cardinality(X)
  <2>1. Cardinality(T) = Cardinality(X)
    <3> DEFINE g == [x \in X |-> <<x, k>>]
    <3>1. T = ImageOf(g, X) /\ \A x, y \in X : g[x] = g[y] => x = y
      BY DEF RowOf, ImageOf
    <3> HIDE DEF g
    <3>2. QED
      BY <1>3, <3>1, CardImage
  <2>2. QED
    BY <1>1, <1>3, <2>1, CardUnion
<1>7. pixels = PixelsIn(pic, T) /\ PixelsIn(pic, U) = PixelsIn(pic, S) \cup PixelsIn(pic, T)
  <2>1. PixelsIn(pic, T) = {pic[<<x, k>>] : x \in X}
    <3>1. PixelsIn(pic, {<<x, k>> : x \in X}) = {pic[<<x, k>>] : x \in X}
      BY DEF PixelsIn
    <3>2. QED
      BY <1>1, <3>1
  <2>2. pixels = {pic[<<x, k>>] : x \in X}
    BY <1>2
  <2> HIDE DEF S, T, U
  <2>3. PixelsIn(pic, U) = PixelsIn(pic, S) \cup PixelsIn(pic, T)
    BY <1>1 DEF PixelsIn
  <2>4. QED
    BY <2>1, <2>2, <2>3
<1>8. /\ Low(Low(MaxPixel, PixelsIn(pic, S)), PixelsIn(pic, T)) = Low(MaxPixel, PixelsIn(pic, U))
      /\ High(High(0, PixelsIn(pic, S)), PixelsIn(pic, T)) = High(0, PixelsIn(pic, U))
  BY <1>0, <1>3, <1>7, JoinBounds DEF Below
<1>9. /\ before.sum = Sum(pic, S) /\ before.pix = Cardinality(S)
      /\ before.min = Low(MaxPixel, PixelsIn(pic, S)) /\ before.max = High(0, PixelsIn(pic, S))
  BY DEF InfoOf, InfoRecord
<1>10. after = [before EXCEPT !.sum = before.sum + SumFunction(row), !.pix = before.pix + Cardinality(X),
                  !.min = Low(before.min, pixels), !.max = High(before.max, pixels)]
  BY <1>2 DEF InfoScanline, Low, High
<1> DEFINE a == Low(MaxPixel, PixelsIn(pic, U))
           b == High(0, PixelsIn(pic, U))
           c == Sum(pic, U)
           d == Cardinality(U)
<1>11. PICK s0, p0, m0, x0 : before = InfoRecord(s0, p0, m0, x0)
  BY DEF InfoOf, InfoRecord
<1> HIDE DEF before, after, pixels, S, T, U, X
<1>12. after = [before EXCEPT !.sum = c, !.pix = d, !.min = a, !.max = b]
  BY <1>4, <1>5, <1>6, <1>7, <1>8, <1>9, <1>10
<1> HIDE DEF a, b, c, d
<1>13. after = InfoRecord(c, d, a, b)
  BY <1>11, <1>12 DEF InfoRecord
<1>14. QED
  BY <1>13 DEF InfoOf, after, before, S, U, a, b, c, d

LEMMA HistRow ==
  ASSUME NEW pic, NEW w \in Nat, NEW n \in Nat, IsPicture(pic, w, n), NEW k \in 0 .. n - 1,
         NEW row, IsRow(row, pic, w, k)
  PROVE  HistScanline(HistOf(pic, Grid(w, k)), row) = HistOf(pic, Grid(w, k + 1))
<1> DEFINE S == Grid(w, k)
           T == RowOf(w, k)
           U == Grid(w, k + 1)
           X == 0 .. w - 1
           before == HistOf(pic, S)
           after == HistScanline(before, row)
<1>0. k \in Nat
  OBVIOUS
<1>1. U = S \cup T /\ S \cap T = {} /\ T = {<<x, k>> : x \in X}
  BY <1>0, GridGrows DEF RowOf
<1>2. DOMAIN row = X /\ \A x \in X : row[x] = pic[<<x, k>>]
  BY DEF IsRow
<1>3. IsFiniteSet(S) /\ IsFiniteSet(T) /\ IsFiniteSet(X)
  BY PictureFacts, GridGrows
<1>4. before.hist = [i \in 0 .. Bins - 1 |-> Cardinality(InBin(pic, S, i))] /\ before.div = HistStart.div
  BY DEF HistOf
<1>5. ASSUME NEW i
      PROVE  Cardinality(InBin(pic, U, i)) =
               Cardinality(InBin(pic, S, i)) + Cardinality({x \in X : Bin(before, row[x]) = i})
  <2> DEFINE Y == {x \in X : Bin(before, row[x]) = i}
             g == [x \in Y |-> <<x, k>>]
  <2>1. \A v : Bin(before, v) = Bin(HistStart, v)
    BY <1>4 DEF Bin
  <2>2. InBin(pic, T, i) = {<<x, k>> : x \in Y}
    BY <1>1, <1>2, <2>1 DEF InBin
  <2>3. IsFiniteSet(Y)
    BY <1>3, FS_Subset
  <2>4. InBin(pic, T, i) = ImageOf(g, Y) /\ \A x, y \in Y : g[x] = g[y] => x = y
    BY <2>2 DEF ImageOf
  <2> HIDE DEF g, Y
  <2>5. Cardinality(InBin(pic, T, i)) = Cardinality(Y)
    BY <2>3, <2>4, CardImage
  <2>6. /\ InBin(pic, U, i) = InBin(pic, S, i) \cup InBin(pic, T, i)
        /\ InBin(pic, S, i) \cap InBin(pic, T, i) = {}
        /\ InBin(pic, S, i) \subseteq S /\ InBin(pic, T, i) \subseteq T
    BY <1>1 DEF InBin
  <2>7. IsFiniteSet(InBin(pic, S, i)) /\ IsFiniteSet(InBin(pic, T, i))
    BY <1>3, <2>6, FS_Subset
  <2>8. QED
    BY <2>5, <2>6, <2>7, CardUnion DEF Y
<1>6. after = [before EXCEPT !.hist = [i \in 0 .. Bins - 1 |->
                before.hist[i] + Cardinality({x \in X : Bin(before, row[x]) = i})]]
  BY <1>2, <1>4 DEF HistScanline
<1> DEFINE h == [i \in 0 .. Bins - 1 |-> Cardinality(InBin(pic, U, i))]
<1>7. h = [i \in 0 .. Bins - 1 |-> before.hist[i] + Cardinality({x \in X : Bin(before, row[x]) = i})]
  BY <1>4, <1>5
<1>8. before = [hist |-> before.hist, div |-> HistStart.div]
  BY DEF HistOf
<1>9. after = [before EXCEPT !.hist = h]
  BY <1>6, <1>7
<1> HIDE DEF before, after, h
<1>10. after = [hist |-> h, div |-> HistStart.div]
  BY <1>8, <1>9
<1>11. QED
  BY <1>10 DEF HistOf, after, before, h

LEMMA CellRow ==
  ASSUME NEW pic, NEW w \in Nat, NEW n \in Nat, IsPicture(pic, w, n), NEW k \in 0 .. n - 1,
         NEW row, IsRow(row, pic, w, k), NEW bx, NEW by, NEW p, p.y = k, p.binx = bx, p.biny = by
  PROVE  AddRow(CellSums(pic, Grid(w, k), bx, by), p, row) = CellSums(pic, Grid(w, k + 1), bx, by)
<1> DEFINE S == Grid(w, k)
           T == RowOf(w, k)
           U == Grid(w, k + 1)
           X == 0 .. w - 1
<1>0. k \in Nat
  OBVIOUS
<1>1. U = S \cup T /\ S \cap T = {} /\ T = {<<x, k>> : x \in X}
  BY <1>0, GridGrows DEF RowOf
<1>2. DOMAIN row = X
  BY DEF IsRow
<1>3. IsFiniteSet(S) /\ IsFiniteSet(T) /\ \A q \in S \cup T : pic[q] \in Nat
  BY PictureFacts
<1>4. ASSUME NEW c \in Cells
      PROVE  Sum(pic, InCell(U, c, bx, by)) = Sum(pic, InCell(S, c, bx, by)) +
               SumFunctionOnSet(row, {x \in DOMAIN row : c = <<Quot(x, p.binx), Quot(p.y, p.biny)>>})
  <2> DEFINE Y == {x \in X : c = <<Quot(x, bx), Quot(k, by)>>}
  <2>1. InCell(T, c, bx, by) = {<<x, k>> : x \in Y}
    BY <1>1 DEF InCell
  <2>2. Sum(row, Y) = Sum(pic, InCell(T, c, bx, by))
    <3>1. Y \in SUBSET (0 .. w - 1)
      OBVIOUS
    <3> HIDE DEF Y, T
    <3>2. QED
      BY <2>1, <3>1, RowSum
  <2>3. /\ InCell(U, c, bx, by) = InCell(S, c, bx, by) \cup InCell(T, c, bx, by)
        /\ InCell(S, c, bx, by) \cap InCell(T, c, bx, by) = {}
        /\ InCell(S, c, bx, by) \subseteq S /\ InCell(T, c, bx, by) \subseteq T
    BY <1>1 DEF InCell
  <2>4. IsFiniteSet(InCell(S, c, bx, by)) /\ IsFiniteSet(InCell(T, c, bx, by))
    BY <1>3, <2>3, FS_Subset
  <2>5. \A q \in InCell(S, c, bx, by) \cup InCell(T, c, bx, by) : pic[q] \in Nat
    BY <1>3, <2>3
  <2>6. Sum(pic, InCell(U, c, bx, by)) = Sum(pic, InCell(S, c, bx, by)) + Sum(pic, InCell(T, c, bx, by))
    BY <2>3, <2>4, <2>5, SumUnion
  <2>7. SumFunctionOnSet(row, {x \in DOMAIN row : c = <<Quot(x, p.binx), Quot(p.y, p.biny)>>}) = Sum(row, Y)
    BY <1>2 DEF Sum
  <2>8. QED
    BY <2>2, <2>6, <2>7
<1>5. \A c \in Cells : CellSums(pic, S, bx, by)[c] = Sum(pic, InCell(S, c, bx, by))
  BY DEF CellSums
<1>6. QED
  BY <1>4, <1>5 DEF AddRow, CellSums

-----------------------------------------------------------------------------
(* The passes.  The inductive invariant: a computation under way has done   *)
(* the rows read, one that ended the region.                                *)

Picture == [p \in Region |-> Pixel(p)]
Seen == Grid(frame.width, RowsRead)

DiffSoFar(cells, y) == [DiffStart EXCEPT !.current = cells, !.y = y]
CellsSeen == CellSums(Picture, Seen, DiffStart.binx, DiffStart.biny)

TrackInv ==
  job = "track" => \E n \in NoiseFilters :
    pkt = IF ended THEN TrackFinish(TrackOf(Picture, Seen, n, RowsRead))
          ELSE TrackOf(Picture, Seen, n, RowsRead)

InfoInv ==
  job = "info" =>
    pkt = IF ended THEN InfoFinish(InfoOf(Picture, Seen)) ELSE InfoOf(Picture, Seen)

HistInv == job = "hist" => pkt = HistOf(Picture, Seen)

LoadInv ==
  job = "load" =>
    /\ pkt = DiffSoFar(NoCells, RowsRead)
    /\ ~ended => loaded = None /\ previous = CellsSeen

DiffInv ==
  job = "diff" =>
    /\ loaded # None
    /\ pkt = IF ended THEN DiffFinish(DiffSoFar(CellsSeen, RowsRead))
             ELSE DiffSoFar(CellsSeen, RowsRead)

Covers(f) == f.width >= TemplateWidth /\ f.height >= TemplateHeight

(* The template holds the averages of the frame it was loaded from. *)
LoadedInv ==
  loaded = None \/
    /\ loaded.scene \in Scenes /\ loaded.frame \in Frame
    /\ Covers(loaded.frame) =>
         \A c \in Cells : previous[c] = Average(loaded.scene, loaded.frame, c)

JobInv ==
  /\ scene \in Scenes /\ job \in Jobs \cup {"none"} /\ ended \in BOOLEAN
  /\ previous \in [Cells -> Nat]
  /\ reading <=> job # "none" /\ ~ended
  /\ ended => job # "none" /\ RowsRead = RegionRows

PacketInv == TrackInv /\ InfoInv /\ HistInv /\ LoadInv /\ DiffInv

ImageInv == PassInv /\ JobInv /\ PacketInv /\ LoadedInv

-----------------------------------------------------------------------------
(* The region of interest is a picture. *)

LEMMA RegionSize ==
  ASSUME IInv
  PROVE  /\ frame.width \in 0 .. HiWidth /\ RegionRows \in 0 .. HiHeight
         /\ Region = Grid(frame.width, RegionRows)
         /\ \A x \in 0 .. frame.width - 1 :
              frame.x0 + x * frame.xstep \in 0 .. HiWidth - 1
         /\ \A k \in 0 .. RegionRows - 1 :
              frame.y0 + k * frame.ystep \in 0 .. HiHeight - 1
<1>0. LoWidth \in Nat /\ LoHeight \in Nat /\ HiWidth \in Nat /\ HiHeight \in Nat /\ Lines = HiHeight
        /\ LoWidth <= HiWidth /\ LoHeight <= HiHeight
  <2>1. LoWidth \in Nat /\ LoHeight \in Nat /\ HiWidth \in Nat /\ HiHeight \in Nat
    BY SizeAssumption
  <2>2. LoWidth <= HiWidth /\ LoHeight <= HiHeight
    BY SceneAssumption
  <2>3. QED
    BY <2>1, <2>2 DEF Lines
<1>1. /\ frame.x0 \in Nat /\ frame.x1 \in Nat /\ frame.xstep \in Nat /\ frame.width \in Nat
      /\ frame.rawW \in Nat /\ frame.x0 < frame.x1 /\ frame.x1 <= frame.rawW /\ frame.xstep > 0
      /\ frame.width = (frame.x1 - frame.x0) \div frame.xstep
  BY DEF IInv, TypeOK, Frame, GeometryInv, RegionInv, StepInv, DerivedInv
<1>2. frame.rawW <= HiWidth
  BY <1>0 DEF IInv, GeometryInv, DerivedInv, Width
<1> DEFINE d == frame.x1 - frame.x0
           s == frame.xstep
           w == frame.width
<1>3. d \in Nat /\ s * w <= d /\ d <= HiWidth
  <2>1. d \in Nat
    BY <1>1
  <2>2. QED
    BY <1>0, <1>1, <1>2, <2>1, DivBounds
<1>4. w <= d
  <2>1. w <= s * w
    BY <1>1
  <2>2. QED
    BY <1>1, <1>3, <2>1
<1>5. \A x \in 0 .. w - 1 : frame.x0 + x * s \in 0 .. HiWidth - 1
  <2>1. TAKE x \in 0 .. w - 1
  <2>2. x \in Nat /\ x * s \in Nat /\ x * s + s <= s * w
    <3>1. x \in Nat /\ x + 1 <= w
      BY <1>1
    <3>2. (x + 1) * s <= w * s
      BY <1>1, <3>1
    <3>3. (x + 1) * s = x * s + s /\ w * s = s * w /\ x * s \in Nat
      <4>1. ASSUME NEW a \in Nat, NEW b \in Nat
            PROVE  (a + 1) * b = a * b + b /\ a * b = b * a /\ a * b \in Nat
        OBVIOUS
      <4>2. s \in Nat /\ w \in Nat
        BY <1>1
      <4> HIDE DEF s, w
      <4>3. QED
        BY <3>1, <4>1, <4>2
    <3>4. QED
      BY <3>1, <3>2, <3>3
  <2>3. x * s + s <= d /\ s * w \in Nat
    BY <1>1, <1>3, <2>2
  <2> HIDE DEF w
  <2>4. QED
    BY <1>0, <1>1, <1>2, <2>2, <2>3
<1>6. RegionRows \in Nat /\ RegionRows <= HiHeight
  <2>1. frame.height <= HiHeight /\ 1 <= HiHeight /\ frame.height \in Nat
    <3>1. frame.height <= frame.ystep * frame.height
      BY FrameFacts
    <3>2. QED
      BY <1>0, <3>1, FrameFacts
  <2>2. QED
    BY <1>0, <2>1 DEF RegionRows
<1>7. \A k \in 0 .. RegionRows - 1 : frame.y0 + k * frame.ystep \in 0 .. HiHeight - 1
  <2>1. TAKE k \in 0 .. RegionRows - 1
  <2>2. k + 1 \in 1 .. RegionRows /\ (k + 1) - 1 = k /\ k \in Nat
    BY <1>6
  <2>3. RegionWindow[k + 1] = frame.y0 + k * frame.ystep
    BY <2>2, WindowIsWindow
  <2>4. RegionWindow[k + 1] < Lines
    <3>1. Source!IsWindow(RegionWindow) /\ Len(RegionWindow) = RegionRows
      BY WindowIsWindow
    <3>2. \A i \in 1 .. Len(RegionWindow) : RegionWindow[i] < Lines
      BY <3>1 DEF Source!IsWindow, Lines
    <3>3. QED
      BY <2>2, <3>1, <3>2
  <2>5. frame.y0 + k * frame.ystep \in Nat
    BY <2>2, FrameFacts
  <2>6. QED
    BY <1>0, <2>3, <2>4, <2>5
<1>8. Region = Grid(w, RegionRows)
  BY DEF Region, RegionOf, Grid
<1>9. QED
  BY <1>0, <1>1, <1>2, <1>3, <1>4, <1>5, <1>6, <1>7, <1>8

LEMMA SceneFacts ==
  ASSUME NEW s \in Scenes, NEW l \in 0 .. HiHeight - 1, NEW c \in 0 .. HiWidth - 1
  PROVE  s[l][c] \in 0 .. MaxPixel
<1>1. s \in [0 .. HiHeight - 1 -> [0 .. HiWidth - 1 -> 0 .. MaxPixel]]
  BY SceneAssumption
<1>2. s[l] \in [0 .. HiWidth - 1 -> 0 .. MaxPixel]
  BY <1>1
<1>3. QED
  BY <1>2

LEMMA RegionIsPicture ==
  ASSUME IInv, scene \in Scenes
  PROVE  /\ IsPicture(Picture, frame.width, RegionRows)
         /\ \A p \in Region : Picture[p] = Pixel(p)
<1>1. \A p \in Region : Picture[p] = Pixel(p)
  BY DEF Picture
<1>2. ASSUME NEW p \in Region
      PROVE  Pixel(p) \in 0 .. MaxPixel
  <2>1. p[1] \in 0 .. frame.width - 1 /\ p[2] \in 0 .. RegionRows - 1
    BY DEF Region, RegionOf
  <2>2. frame.x0 + p[1] * frame.xstep \in 0 .. HiWidth - 1 /\ frame.y0 + p[2] * frame.ystep \in 0 .. HiHeight - 1
    BY <2>1, RegionSize
  <2>3. QED
    BY <2>2, SceneFacts DEF Pixel, PixelOf
<1>3. QED
  BY <1>1, <1>2, RegionSize DEF IsPicture

(* The row a call delivers is the next one of the picture. *)
LEMMA RowOfPicture ==
  ASSUME PassInv, synced, RowsRead < RegionRows
  PROVE  IsRow(RowPixels, Picture, frame.width, RowsRead)
<1> DEFINE k == RowsRead
           w == frame.width
<1>0. IInv
  BY DEF PassInv
<1>1. /\ RowStart(0) \div line - 1 = frame.y0 + k * frame.ystep /\ RowStart(0) % line = 0
      /\ k \in 0 .. RegionRows - 1
  BY <1>0, RowAtHand, RegionRowsNat
<1>2. frame.x0 \in Nat
  BY <1>0 DEF IInv, TypeOK, Frame
<1>3. RowPixels = [x \in 0 .. w - 1 |-> scene[frame.y0 + k * frame.ystep][frame.x0 + x * frame.xstep]]
  BY <1>1, <1>2 DEF RowPixels
<1>4. ASSUME NEW x \in 0 .. w - 1
      PROVE  Picture[<<x, k>>] = scene[frame.y0 + k * frame.ystep][frame.x0 + x * frame.xstep]
  <2>1. <<x, k>> \in Region
    BY <1>1 DEF Region, RegionOf
  <2>2. Picture[<<x, k>>] = Pixel(<<x, k>>)
    BY <2>1 DEF Picture
  <2>3. QED
    BY <2>2 DEF Pixel, PixelOf
<1>5. QED
  BY <1>3, <1>4 DEF IsRow

-----------------------------------------------------------------------------
(* What the invariant says of the packets. *)

LEMMA SeenFacts ==
  ASSUME PassInv, JobInv, job # "none"
  PROVE  /\ RowsRead \in 0 .. RegionRows /\ RegionRows \in 0 .. HiHeight /\ RowsRead \in 0 .. HiHeight
         /\ frame.width \in 0 .. HiWidth
         /\ IsFiniteSet(Seen) /\ Seen \subseteq Region
         /\ \A p \in Seen : Picture[p] \in Nat /\ Picture[p] <= MaxPixel
         /\ PixelsIn(Picture, Seen) \in SUBSET (0 .. MaxPixel)
         /\ ended => Seen = Region
<1>0. IInv /\ scene \in Scenes
  BY DEF PassInv, JobInv
<1>1. RowsRead \in 0 .. RegionRows
  <2>1. CASE ended
    BY <1>0, <2>1, RegionRowsNat DEF JobInv
  <2>2. CASE ~ended
    <3>1. synced
      BY <2>2 DEF JobInv, PassInv, LoopInv
    <3>2. QED
      BY <3>1, RowAtHand
  <2>3. QED
    BY <2>1, <2>2
<1>2. /\ RegionRows \in 0 .. HiHeight /\ frame.width \in 0 .. HiWidth
      /\ Region = Grid(frame.width, RegionRows) /\ HiWidth \in Nat /\ HiHeight \in Nat
  BY <1>0, RegionSize, SizeAssumption
<1>3. RowsRead \in 0 .. HiHeight /\ RowsRead \in Nat /\ frame.width \in Nat
  BY <1>1, <1>2
<1>4. IsFiniteSet(Seen)
  BY <1>3, GridGrows DEF Seen
<1>5. Seen \subseteq Region
  <2>1. 0 .. RowsRead - 1 \subseteq 0 .. RegionRows - 1
    BY <1>1, <1>2
  <2>2. QED
    BY <1>2, <2>1 DEF Seen, Grid
<1>6. \A p \in Seen : Picture[p] \in 0 .. MaxPixel
  <2>1. IsPicture(Picture, frame.width, RegionRows)
    BY <1>0, RegionIsPicture
  <2>2. QED
    BY <1>2, <1>5, <2>1 DEF IsPicture
<1>7. \A p \in Seen : Picture[p] \in Nat /\ Picture[p] <= MaxPixel
  BY <1>6, PixelAssumption
<1>8. PixelsIn(Picture, Seen) \in SUBSET (0 .. MaxPixel)
  BY <1>6 DEF PixelsIn
<1>9. ended => Seen = Region
  BY <1>2 DEF JobInv, Seen
<1>10. QED
  BY <1>1, <1>2, <1>3, <1>4, <1>5, <1>7, <1>8, <1>9

LEMMA FoundInFrame ==
  ASSUME PassInv, JobInv, job # "none", NEW n
  PROVE  InFrame(FoundIn(Picture, Seen, n))
<1>1. FoundIn(Picture, Seen, n) \in SUBSET Grid(frame.width, RowsRead)
  BY DEF FoundIn, Seen
<1>2. QED
  BY <1>1, SeenFacts, GridInFrame

(* A rectangle of places fills its box. *)
Rectangle(a, b, c, d) == (a .. b) \X (c .. d)

LEMMA Dense ==
  ASSUME NEW S, InFrame(S), S # {}, NEW a \in Nat, NEW b \in Nat, NEW c \in Nat, NEW d \in Nat, a < b, c < d,
         S = Rectangle(a, b, c, d)
  PROVE  Quot(Cardinality(S) * 1000, (b - a) * (d - c)) >= 1000
<1>1. Cardinality(S) = (b - a + 1) * (d - c + 1)
  <2>1. /\ IsFiniteSet(a .. b) /\ IsFiniteSet(c .. d)
        /\ Cardinality(a .. b) = b - a + 1 /\ Cardinality(c .. d) = d - c + 1
    BY FS_Interval
  <2>2. QED
    BY <2>1, FS_Product DEF Rectangle
<1>2. PICK x \in Nat, y \in Nat : x = b - a /\ y = d - c /\ x > 0 /\ y > 0
  <2>1. b - a \in Nat /\ d - c \in Nat /\ b - a > 0 /\ d - c > 0
    OBVIOUS
  <2>2. QED
    BY <2>1
<1>3. PICK area \in Nat, num \in Nat : area = x * y /\ num = (x + 1) * (y + 1) /\ area > 0 /\ num >= area
  <2>1. x * y \in Nat /\ (x + 1) * (y + 1) \in Nat /\ (x + 1) * (y + 1) = x * y + x + y + 1
    BY <1>2
  <2>2. x * y > 0
    BY <1>2
  <2>3. QED
    BY <2>1, <2>2
<1>4. 1000 * area <= num * 1000 /\ num * 1000 \in Nat
  BY <1>3
<1>5. (num * 1000) \div area >= 1000
  BY <1>3, <1>4, DivAtLeast
<1>6. QED
  BY <1>1, <1>2, <1>3, <1>4, <1>5 DEF Quot

(* Tracking. *)
LEMMA TrackFine ==
  ASSUME PassInv, JobInv, TrackInv
  PROVE  (job = "track" => pkt \in [noise : NoiseFilters, y : Nat, box : Box]) /\ TrackIsRegion
<1>1. SUFFICES ASSUME job = "track"
               PROVE  pkt \in [noise : NoiseFilters, y : Nat, box : Box] /\ TrackIsRegion
  BY DEF TrackIsRegion
<1>2. job # "none" /\ IInv /\ scene \in Scenes
  BY <1>1 DEF PassInv, JobInv
<1>3. PICK n \in NoiseFilters :
        pkt = IF ended THEN TrackFinish(TrackOf(Picture, Seen, n, RowsRead))
              ELSE TrackOf(Picture, Seen, n, RowsRead)
  BY <1>1 DEF TrackInv
<1> DEFINE F == FoundIn(Picture, Seen, n)
           o == Take(EmptyBox, F)
<1>4. n \in Nat /\ RowsRead \in Nat
  <2>1. RowsRead \in 0 .. RegionRows /\ RegionRows \in Nat
    BY <1>2, SeenFacts, RegionRowsNat
  <2>2. QED
    BY <2>1, PixelAssumption
<1>5. InFrame(F)
  BY <1>2, FoundInFrame
<1>6. CASE ~ended
  <2>1. pkt = [noise |-> n, y |-> RowsRead, box |-> o]
    BY <1>3, <1>6 DEF TrackOf
  <2>2. o \in Box
    BY <1>5, OpenBox
  <2>3. QED
    BY <1>4, <1>6, <2>1, <2>2 DEF TrackIsRegion
<1>7. CASE ended
  <2>1. PICK b : b = Closed(o, 1000)
    OBVIOUS
  <2>2. pkt = [noise |-> n, y |-> RowsRead, box |-> b]
    BY <1>3, <1>7, <2>1 DEF TrackOf, TrackFinish
  <2>3. /\ b \in Box /\ IsBoxOf(b, F)
        /\ F # {} => b.density = Quot(b.num * 1000, (b.x1 - b.x0) * (b.y1 - b.y0))
    BY <1>5, <2>1, ClosedBox
  <2>4. F = {p \in Region : \A k \in 0 .. n : p[1] >= k /\ Good(Pixel(<<p[1] - k, p[2]>>))}
    <3>1. Seen = Region
      BY <1>2, <1>7, SeenFacts
    <3>2. ASSUME NEW p \in Region, NEW k \in 0 .. n, p[1] >= k
          PROVE  Picture[<<p[1] - k, p[2]>>] = Pixel(<<p[1] - k, p[2]>>)
      <4>1. p[1] \in 0 .. frame.width - 1 /\ p[2] \in 0 .. RegionRows - 1
        BY DEF Region, RegionOf
      <4>2. p[1] - k \in 0 .. frame.width - 1
        <5>1. frame.width \in Nat /\ p[1] \in Nat /\ k \in Nat
          BY <1>2, <1>4, <4>1, SeenFacts, SizeAssumption
        <5>2. QED
          BY <3>2, <4>1, <5>1
      <4>3. <<p[1] - k, p[2]>> \in Region
        BY <4>1, <4>2 DEF Region, RegionOf
      <4>4. QED
        BY <4>3 DEF Picture
    <3>3. QED
      BY <3>1, <3>2 DEF FoundIn
  <2>5. ASSUME F = (b.x0 .. b.x1) \X (b.y0 .. b.y1), b.x0 < b.x1, b.y0 < b.y1
        PROVE  b.density >= 1000
    <3>1. b.x0 \in Nat /\ b.x1 \in Nat /\ b.y0 \in Nat /\ b.y1 \in Nat
      <4>1. b.x0 \in 0 .. UINT16_MAX /\ b.x1 \in 0 .. HiWidth /\ b.y0 \in 0 .. UINT16_MAX /\ b.y1 \in 0 .. HiHeight
        BY <2>3 DEF Box
      <4>2. QED
        BY <4>1
    <3>2. F # {}
      <4>1. b.x0 \in b.x0 .. b.x1 /\ b.y0 \in b.y0 .. b.y1
        BY <2>5, <3>1
      <4>2. <<b.x0, b.y0>> \in F
        BY <2>5, <4>1
      <4>3. QED
        BY <4>2
    <3>3. b.num = Cardinality(F)
      BY <2>3 DEF IsBoxOf
    <3> HIDE DEF F
    <3>4. F = Rectangle(b.x0, b.x1, b.y0, b.y1)
      BY <2>5 DEF Rectangle
    <3>5. Quot(Cardinality(F) * 1000, (b.x1 - b.x0) * (b.y1 - b.y0)) >= 1000
      <4>1. PICK x0 \in Nat, x1 \in Nat, y0 \in Nat, y1 \in Nat :
              x0 = b.x0 /\ x1 = b.x1 /\ y0 = b.y0 /\ y1 = b.y1
        BY <3>1
      <4>2. x0 < x1 /\ y0 < y1 /\ F = Rectangle(x0, x1, y0, y1)
        BY <2>5, <3>4, <4>1
      <4>3. Quot(Cardinality(F) * 1000, (x1 - x0) * (y1 - y0)) >= 1000
        BY ONLY <1>5, <3>2, <4>2, Dense
      <4>4. QED
        BY <4>1, <4>3
    <3>6. QED
      BY <2>3, <3>2, <3>3, <3>5
  <2>6. pkt.box = b /\ pkt.noise = n
    BY <2>2
  <2>7. pkt \in [noise : NoiseFilters, y : Nat, box : Box]
    BY <1>4, <2>2, <2>3
  <2> HIDE DEF F
  <2>8. TrackIsRegion
    BY <2>3, <2>4, <2>5, <2>6 DEF TrackIsRegion
  <2>9. QED
    BY <2>7, <2>8
<1>8. QED
  BY <1>6, <1>7

(* Colour statistics. *)
LEMMA InfoOpen ==
  ASSUME PassInv, JobInv, job # "none", NEW sum, NEW pix, NEW min, NEW max,
         sum = Sum(Picture, Seen), pix = Cardinality(Seen),
         min = Low(MaxPixel, PixelsIn(Picture, Seen)), max = High(0, PixelsIn(Picture, Seen))
  PROVE  /\ sum \in Nat /\ pix \in Nat /\ min \in 0 .. MaxPixel /\ max \in 0 .. MaxPixel
         /\ Quot(sum, pix) \in 0 .. MaxPixel
<1> DEFINE P == PixelsIn(Picture, Seen)
<1>1. /\ IsFiniteSet(Seen) /\ \A p \in Seen : Picture[p] \in 0 .. MaxPixel
      /\ P \in SUBSET (0 .. MaxPixel) /\ MaxPixel \in Nat
  BY SeenFacts, PixelAssumption
<1>2. sum \in Nat /\ pix \in Nat /\ sum <= MaxPixel * pix
  BY <1>1, SumBounds
<1> HIDE DEF P
<1>3. min \in 0 .. MaxPixel
  <2>1. {MaxPixel} \cup P \in SUBSET Nat /\ {MaxPixel} \cup P # {}
    BY <1>1
  <2>2. min \in {MaxPixel} \cup P
    BY <2>1, MinIs DEF Low, P
  <2>3. QED
    BY <1>1, <2>2
<1>4. max \in 0 .. MaxPixel
  <2>1. {0} \cup P \in SUBSET (0 .. MaxPixel) /\ {0} \cup P # {}
    BY <1>1
  <2>2. max \in {0} \cup P
    BY <1>1, <2>1, MaxIs DEF High, P
  <2>3. QED
    BY <1>1, <2>2
<1>5. Quot(sum, pix) \in 0 .. MaxPixel
  <2>1. CASE pix = 0
    BY <1>1, <2>1 DEF Quot
  <2>2. CASE pix # 0
    <3>1. sum \div pix \in Nat /\ sum \div pix <= MaxPixel
      BY <1>1, <1>2, <2>2, DivAtMost
    <3>2. QED
      BY <1>1, <1>2, <2>2, <3>1 DEF Quot
  <2>3. QED
    BY <2>1, <2>2
<1>6. QED
  BY <1>2, <1>3, <1>4, <1>5

InfoType == [sum : Nat, pix : Nat, min : 0 .. MaxPixel, max : 0 .. MaxPixel,
             mean : 0 .. MaxPixel, deviation : 0 .. MaxPixel]

LEMMA InfoFine ==
  ASSUME PassInv, JobInv, InfoInv
  PROVE  (job = "info" => pkt \in InfoType) /\ InfoIsRegion
<1>1. SUFFICES ASSUME job = "info" PROVE pkt \in InfoType /\ InfoIsRegion
  BY DEF InfoIsRegion
<1>2. job # "none" /\ MaxPixel \in Nat
  BY <1>1, PixelAssumption
<1>3. PICK sum, pix, min, max :
        /\ sum = Sum(Picture, Seen) /\ pix = Cardinality(Seen)
        /\ min = Low(MaxPixel, PixelsIn(Picture, Seen)) /\ max = High(0, PixelsIn(Picture, Seen))
  OBVIOUS
<1>4. /\ sum \in Nat /\ pix \in Nat /\ min \in 0 .. MaxPixel /\ max \in 0 .. MaxPixel
      /\ Quot(sum, pix) \in 0 .. MaxPixel
  BY <1>2, <1>3, InfoOpen
<1>5. PICK o : o = InfoRecord(sum, pix, min, max)
  OBVIOUS
<1>6. o = InfoOf(Picture, Seen)
  BY <1>3, <1>5 DEF InfoOf
<1>7. CASE ~ended
  <2>1. pkt = InfoRecord(sum, pix, min, max)
    BY <1>1, <1>5, <1>6, <1>7 DEF InfoInv
  <2>2. pkt \in InfoType
    BY <1>2, <1>4, <2>1 DEF InfoRecord, InfoType
  <2>3. QED
    BY <1>7, <2>2 DEF InfoIsRegion
<1>8. CASE ended
  <2>1. PICK mean, dev : mean = Quot(sum, pix) /\ dev = Quot((max - mean) + (mean - min), 2) % (MaxPixel + 1)
    OBVIOUS
  <2>2. PICK q : q = InfoFinish(o)
    OBVIOUS
  <2>3. pkt = q
    BY <1>1, <1>6, <1>8, <2>2 DEF InfoInv
  <2>4. o.sum = sum /\ o.pix = pix /\ o.min = min /\ o.max = max
    BY <1>5 DEF InfoRecord
  <2>5. q = [o EXCEPT !.mean = mean, !.deviation = dev]
    BY <2>1, <2>2, <2>4 DEF InfoFinish
  <2>6. q = [sum |-> sum, pix |-> pix, min |-> min, max |-> max, mean |-> mean, deviation |-> dev]
    BY <1>5, <2>5 DEF InfoRecord
  <2>7. mean \in 0 .. MaxPixel /\ (max - mean) + (mean - min) = max - min
    BY <1>2, <1>4, <2>1
  <2>8. Quot(max - min, 2) \in Int
    <3>1. max - min \in Int
      BY <1>2, <1>4
    <3>2. QED
      BY <3>1 DEF Quot
  <2>9. dev \in 0 .. MaxPixel
    BY <1>2, <2>1, <2>7, <2>8
  <2>10. pkt \in InfoType
    BY <1>4, <2>3, <2>6, <2>7, <2>9 DEF InfoType
  <2>11. ASSUME Region # {}
         PROVE  LET pixels == {Pixel(p) : p \in Region} IN
                /\ pkt.min = Min(pixels) /\ pkt.max = Max(pixels)
                /\ pkt.mean = SumFunction([p \in Region |-> Pixel(p)]) \div Cardinality(Region)
                /\ pkt.deviation = (Max(pixels) - Min(pixels)) \div 2
    <3> DEFINE pixels == {Pixel(p) : p \in Region}
    <3>1. Seen = Region /\ IsFiniteSet(Seen)
      BY <1>2, <1>8, SeenFacts
    <3>2. PixelsIn(Picture, Seen) = pixels
      BY <3>1 DEF PixelsIn, Picture
    <3>3. pixels # {} /\ Below(pixels, MaxPixel)
      <4>1. PixelsIn(Picture, Seen) \in SUBSET (0 .. MaxPixel)
        BY <1>2, SeenFacts
      <4>2. QED
        BY <2>11, <3>2, <4>1 DEF Below
    <3> HIDE DEF pixels
    <3>4. min = Min(pixels) /\ max = Max(pixels) /\ min <= max
      BY <1>2, <1>3, <3>2, <3>3, OwnBounds
    <3>5. dev = (max - min) \div 2
      <4>1. max - min \in Nat /\ max - min <= MaxPixel
        BY <1>2, <1>4, <3>4
      <4>2. PICK d \in Nat : d = max - min /\ d <= MaxPixel
        BY <4>1
      <4>3. Quot(d, 2) = d \div 2 /\ (d \div 2) % (MaxPixel + 1) = d \div 2
        BY <1>2, <4>2 DEF Quot
      <4>4. QED
        BY <2>1, <2>7, <4>2, <4>3
    <3>6. mean = SumFunction([p \in Region |-> Pixel(p)]) \div Cardinality(Region)
      <4>1. SumFunction([p \in Region |-> Pixel(p)]) = sum
        <5>1. SumFunction(Picture) = Sum(Picture, Region)
          BY DEF SumFunction, Sum, Picture
        <5>2. QED
          BY <1>3, <3>1, <5>1 DEF Picture
      <4>2. Cardinality(Region) = pix /\ pix # 0
        BY <1>3, <2>11, <3>1, FS_EmptySet
      <4>3. mean = sum \div pix
        BY <1>4, <2>1, <4>2 DEF Quot
      <4>4. QED
        BY <4>1, <4>2, <4>3
    <3>7. pkt.min = min /\ pkt.max = max /\ pkt.mean = mean /\ pkt.deviation = dev
      BY <2>3, <2>6
    <3>8. QED
      BY <3>4, <3>5, <3>6, <3>7 DEF pixels
  <2>12. QED
    BY <2>10, <2>11 DEF InfoIsRegion
<1>9. QED
  BY <1>7, <1>8

(* Histogram: bins grow with the pixel. *)
LEMMA BinFacts ==
  ASSUME NEW v \in Nat, NEW u \in Nat, v <= u
  PROVE  /\ Bin(HistStart, v) \in 0 .. Bins - 1
         /\ Bin(HistStart, v) <= Bin(HistStart, u)
<1> DEFINE d == MAX_PIXEL_VALUE \div Bins
<1>1. HistStart.div = d
  BY DEF HistStart
<1>2. d \in Nat /\ Bins \in Nat /\ Bins > 0
  BY PixelAssumption, DivBounds
<1> HIDE DEF d
<1>3. Quot(v, d) \in Nat /\ Quot(u, d) \in Nat /\ Quot(v, d) <= Quot(u, d)
  <2>1. CASE d = 0
    BY <2>1 DEF Quot
  <2>2. CASE d # 0
    <3>1. d > 0
      BY <1>2, <2>2
    <3>2. PICK q \in Nat : q = v \div d /\ d * q <= v
      BY <1>2, <3>1, DivBounds
    <3>3. q * d <= u
      BY <1>2, <3>2
    <3>4. u \div d \in Nat /\ q <= u \div d
      BY <1>2, <3>1, <3>3, DivAtLeast
    <3>5. QED
      BY <2>2, <3>2, <3>4 DEF Quot
  <2>3. QED
    BY <2>1, <2>2
<1>4. PICK a \in Nat, b \in Nat : a = Quot(v, d) /\ b = Quot(u, d) /\ a <= b
  BY <1>3
<1>5. /\ Bin(HistStart, v) = LET j == IF a > 0 THEN a - 1 ELSE a IN IF j >= Bins THEN Bins - 1 ELSE j
      /\ Bin(HistStart, u) = LET j == IF b > 0 THEN b - 1 ELSE b IN IF j >= Bins THEN Bins - 1 ELSE j
  BY <1>1, <1>4 DEF Bin
<1>6. QED
  BY <1>2, <1>4, <1>5

LEMMA LeastPixel ==
  ASSUME NEW i \in 0 .. Bins - 1
  PROVE  \E least \in 0 .. MaxPixel + 1 :
           \A v \in 0 .. MaxPixel : Bin(HistStart, v) >= i <=> v >= least
<1> DEFINE G == {v \in 0 .. MaxPixel : Bin(HistStart, v) >= i}
<1>0. MaxPixel \in Nat /\ Bins \in Nat /\ i \in Nat
  BY PixelAssumption
<1>1. CASE G = {}
  <2>1. \A v \in 0 .. MaxPixel : ~(Bin(HistStart, v) >= i) /\ ~(v >= MaxPixel + 1)
    BY <1>0, <1>1
  <2>2. MaxPixel + 1 \in 0 .. MaxPixel + 1
    BY <1>0
  <2>3. QED
    BY <2>1, <2>2
<1>2. CASE G # {}
  <2>1. G \in SUBSET Nat
    BY <1>0
  <2> DEFINE m == Min(G)
  <2>2. m \in G /\ \A v \in G : m <= v
    <3> HIDE DEF G
    <3>1. QED
      BY <1>2, <2>1, MinIs
  <2>3. m \in 0 .. MaxPixel /\ Bin(HistStart, m) >= i
    BY <2>2
  <2>4. \A v \in 0 .. MaxPixel : Bin(HistStart, v) >= i => v >= m
    BY <2>2, <2>3, <1>0
  <2> HIDE DEF m, G
  <2>5. ASSUME NEW v \in 0 .. MaxPixel, v >= m
        PROVE  Bin(HistStart, v) >= i
    <3>1. Bin(HistStart, m) <= Bin(HistStart, v)
      BY <1>0, <2>3, <2>5, BinFacts
    <3>2. Bin(HistStart, m) \in 0 .. Bins - 1 /\ Bin(HistStart, v) \in 0 .. Bins - 1
      BY <1>0, <2>3, BinFacts
    <3>3. QED
      BY <1>0, <2>3, <3>1, <3>2
  <2>6. m \in 0 .. MaxPixel + 1
    BY <1>0, <2>3
  <2>7. QED
    BY <2>4, <2>5, <2>6
<1>3. QED
  BY <1>1, <1>2

LEMMA HistFine ==
  ASSUME PassInv, JobInv, HistInv
  PROVE  (job = "hist" => pkt \in [hist : [0 .. Bins - 1 -> Nat], div : Nat]) /\ HistIsRegion
<1>1. SUFFICES ASSUME job = "hist"
               PROVE  pkt \in [hist : [0 .. Bins - 1 -> Nat], div : Nat] /\ HistIsRegion
  BY DEF HistIsRegion
<1>2. job # "none" /\ MaxPixel \in Nat /\ Bins \in Nat /\ Bins # 0
  BY <1>1, PixelAssumption
<1>3. IsFiniteSet(Seen) /\ \A p \in Seen : Picture[p] \in Nat /\ Picture[p] <= MaxPixel
  BY <1>2, SeenFacts
<1>4. pkt = HistOf(Picture, Seen)
  BY <1>1 DEF HistInv
<1>5. /\ pkt.hist = [i \in 0 .. Bins - 1 |-> Cardinality(InBin(Picture, Seen, i))]
      /\ pkt.div = MAX_PIXEL_VALUE \div Bins
      /\ pkt = [hist |-> pkt.hist, div |-> pkt.div]
  BY <1>4 DEF HistOf, HistStart
<1>6. pkt \in [hist : [0 .. Bins - 1 -> Nat], div : Nat]
  <2>1. ASSUME NEW i PROVE Cardinality(InBin(Picture, Seen, i)) \in Nat
    <3>1. IsFiniteSet(InBin(Picture, Seen, i))
      BY <1>3, FS_Subset DEF InBin
    <3>2. QED
      BY <3>1, FS_CardinalityType
  <2>2. pkt.hist \in [0 .. Bins - 1 -> Nat]
    BY <1>5, <2>1
  <2>3. pkt.div \in Nat
    <3>1. MAX_PIXEL_VALUE \in Nat /\ Bins > 0
      BY PixelAssumption
    <3>2. QED
      BY <1>2, <1>5, <3>1, DivBounds
  <2>4. QED
    BY <1>5, <2>2, <2>3
<1>7. ASSUME ended, NEW i \in 0 .. Bins - 1
      PROVE  \E least \in 0 .. MaxPixel + 1 :
               SumFunctionOnSet(pkt.hist, i .. Bins - 1) = Cardinality({p \in Region : Pixel(p) >= least})
  <2>1. PICK least \in 0 .. MaxPixel + 1 :
          \A v \in 0 .. MaxPixel : Bin(HistStart, v) >= i <=> v >= least
    BY LeastPixel
  <2> DEFINE b == [p \in Seen |-> Bin(HistStart, Picture[p])]
             h == pkt.hist
             I == i .. Bins - 1
  <2>2. \A j \in I : h[j] = Cardinality(InBins(Seen, b, {j}))
    <3>1. TAKE j \in I
    <3>2. j \in 0 .. Bins - 1
      BY <1>2
    <3>3. InBin(Picture, Seen, j) = InBins(Seen, b, {j})
      BY DEF InBin, InBins
    <3>4. QED
      BY <1>5, <3>2, <3>3
  <2>3. IsFiniteSet(I)
    BY <1>2, FS_Interval
  <2>4. \A p \in Seen : b[p] \in I <=> Picture[p] >= least
    <3>1. TAKE p \in Seen
    <3>2. Picture[p] \in 0 .. MaxPixel /\ Picture[p] \in Nat
      BY <1>2, <1>3
    <3>3. Bin(HistStart, Picture[p]) \in 0 .. Bins - 1
      BY <3>2, BinFacts
    <3>4. Bin(HistStart, Picture[p]) \in I <=> Bin(HistStart, Picture[p]) >= i
      BY <1>2, <3>3
    <3>5. QED
      BY <2>1, <3>2, <3>4
  <2>5. Sum(h, I) = Cardinality(InBins(Seen, b, I))
    <3> HIDE DEF h, I, b
    <3>1. QED
      BY <1>3, <2>2, <2>3, SumCount
  <2>6. InBins(Seen, b, I) = {p \in Region : Pixel(p) >= least}
    <3>1. Seen = Region
      BY <1>2, <1>7, SeenFacts
    <3>2. \A p \in Region : Picture[p] = Pixel(p)
      BY DEF Picture
    <3> HIDE DEF b, I
    <3>3. QED
      BY <2>4, <3>1, <3>2 DEF InBins
  <2>7. QED
    BY <2>5, <2>6 DEF Sum
<1>8. HistIsRegion
  BY <1>7 DEF HistIsRegion
<1>9. QED
  BY <1>6, <1>8

-----------------------------------------------------------------------------
(* Frame difference: the cells of the template. *)

LEMMA DivIs ==
  ASSUME NEW p \in Nat, NEW c \in Nat, NEW b \in Nat, b > 0
  PROVE  p \div b = c <=> p \in c * b .. (c + 1) * b - 1
<1>1. c * b \in Nat /\ (c + 1) * b = c * b + b
  OBVIOUS
<1> DEFINE q == p \div b
<1>2. q \in Nat /\ b * q <= p /\ p < b * (q + 1)
  BY DivBounds
<1> HIDE DEF q
<1>3. CASE q = c
  <2>1. c * b <= p /\ p < c * b + b
    BY <1>1, <1>2, <1>3
  <2>2. QED
    BY <1>1, <1>3, <2>1 DEF q
<1>4. CASE q < c
  <2>1. PICK e \in Nat : c = q + 1 + e
    <3>1. c - q - 1 \in Nat /\ c = q + 1 + (c - q - 1)
      BY <1>2, <1>4
    <3>2. QED
      BY <3>1
  <2>2. c * b = b * (q + 1) + e * b /\ e * b \in Nat /\ b * (q + 1) \in Nat
    BY <1>2, <2>1
  <2>3. p < c * b
    BY <1>1, <1>2, <2>2
  <2>4. QED
    BY <1>1, <1>2, <1>4, <2>3 DEF q
<1>5. CASE q > c
  <2>1. PICK e \in Nat : q = c + 1 + e
    <3>1. q - c - 1 \in Nat /\ q = c + 1 + (q - c - 1)
      BY <1>2, <1>5
    <3>2. QED
      BY <3>1
  <2>2. b * q = (c + 1) * b + e * b /\ e * b \in Nat /\ (c + 1) * b \in Nat
    BY <1>2, <2>1
  <2>3. (c + 1) * b <= p
    BY <1>1, <1>2, <2>2
  <2>4. QED
    BY <1>1, <1>2, <1>5, <2>2, <2>3 DEF q
<1>6. QED
  BY <1>2, <1>3, <1>4, <1>5

(* A side of n pixels holds t bins. *)
LEMMA BinsFit ==
  ASSUME NEW n \in Nat, NEW t \in Nat, t > 0, n >= t
  PROVE  /\ n \div t \in Nat /\ n \div t > 0
         /\ \A c \in 0 .. t - 1 : \A p \in c * (n \div t) .. (c + 1) * (n \div t) - 1 : p \in 0 .. n - 1
<1>1. PICK b \in Nat : b = n \div t /\ t * b <= n
  BY DivBounds
<1>2. b > 0
  <2>1. 1 * t <= n
    OBVIOUS
  <2>2. 1 <= n \div t
    BY <2>1, DivAtLeast
  <2>3. QED
    BY <1>1, <2>2
<1>3. ASSUME NEW c \in 0 .. t - 1, NEW p \in c * b .. (c + 1) * b - 1
      PROVE  p \in 0 .. n - 1
  <2>1. c \in Nat /\ c * b \in Nat /\ (c + 1) * b \in Nat
    OBVIOUS
  <2>2. (c + 1) * b <= t * b
    <3>1. PICK e \in Nat : t = c + 1 + e
      <4>1. t - c - 1 \in Nat /\ t = c + 1 + (t - c - 1)
        OBVIOUS
      <4>2. QED
        BY <4>1
    <3>2. t * b = (c + 1) * b + e * b /\ e * b \in Nat
      BY <2>1, <3>1
    <3>3. QED
      BY <2>1, <3>2
  <2>3. p \in Int /\ c * b <= p /\ p <= (c + 1) * b - 1 /\ t * b \in Nat
    BY <1>3, <2>1
  <2>4. QED
    BY <1>1, <2>1, <2>2, <2>3
<1>4. QED
  BY <1>1, <1>2, <1>3

LEMMA CellIs ==
  ASSUME IInv, Covers(frame), NEW c \in Cells
  PROVE  /\ InCell(Region, c, DiffStart.binx, DiffStart.biny) = CellPixels(c, frame)
         /\ IsFiniteSet(CellPixels(c, frame))
         /\ Cardinality(CellPixels(c, frame)) = DiffStart.binx * DiffStart.biny
         /\ DiffStart.binx * DiffStart.biny \in Nat /\ DiffStart.binx * DiffStart.biny > 0
<1>1. /\ frame.width \in Nat /\ frame.height \in Nat /\ TemplateWidth \in Nat /\ TemplateHeight \in Nat
      /\ TemplateWidth > 0 /\ TemplateHeight > 0
      /\ frame.width >= TemplateWidth /\ frame.height >= TemplateHeight
  <2>1. frame.width \in Nat /\ frame.height \in Nat
    BY DEF IInv, TypeOK, Frame
  <2>2. QED
    BY <2>1, PixelAssumption DEF Covers
<1>2. PICK bx, by : bx = frame.width \div TemplateWidth /\ by = frame.height \div TemplateHeight
  OBVIOUS
<1>3. DiffStart.binx = bx /\ DiffStart.biny = by
  BY <1>2 DEF DiffStart
<1>4. /\ bx \in Nat /\ bx > 0 /\ by \in Nat /\ by > 0
      /\ \A i \in 0 .. TemplateWidth - 1 : \A p \in i * bx .. (i + 1) * bx - 1 : p \in 0 .. frame.width - 1
      /\ \A i \in 0 .. TemplateHeight - 1 : \A p \in i * by .. (i + 1) * by - 1 : p \in 0 .. frame.height - 1
  BY <1>1, <1>2, BinsFit
<1>5. RegionRows = frame.height
  BY <1>1 DEF RegionRows
<1>6. PICK i \in 0 .. TemplateWidth - 1, j \in 0 .. TemplateHeight - 1 : c = <<i, j>>
  BY DEF Cells
<1>7. i \in Nat /\ j \in Nat
  BY <1>1
<1> DEFINE X == i * bx .. (i + 1) * bx - 1
           Y == j * by .. (j + 1) * by - 1
<1>8. CellPixels(c, frame) = X \X Y
  BY <1>2, <1>6 DEF CellPixels
<1>9. /\ i * bx \in Nat /\ (i + 1) * bx - 1 \in Nat /\ (i + 1) * bx = i * bx + bx
      /\ j * by \in Nat /\ (j + 1) * by - 1 \in Nat /\ (j + 1) * by = j * by + by
  <2>1. ASSUME NEW a \in Nat, NEW b \in Nat, b > 0
        PROVE  a * b \in Nat /\ (a + 1) * b - 1 \in Nat /\ (a + 1) * b = a * b + b
    <3>1. a * b \in Nat /\ (a + 1) * b = a * b + b
      OBVIOUS
    <3>2. QED
      BY <2>1, <3>1
  <2>2. QED
    BY <1>4, <1>7, <2>1
<1>10. InCell(Region, c, bx, by) = X \X Y
  <2>1. ASSUME NEW x \in 0 .. frame.width - 1, NEW y \in 0 .. frame.height - 1
        PROVE  c = <<Quot(x, bx), Quot(y, by)>> <=> x \in X /\ y \in Y
    <3>1. Quot(x, bx) = x \div bx /\ Quot(y, by) = y \div by
      BY <1>4 DEF Quot
    <3>2. (x \div bx = i <=> x \in X) /\ (y \div by = j <=> y \in Y)
      <4>1. x \in Nat /\ y \in Nat
        BY <1>1
      <4>2. QED
        BY <1>4, <1>7, <4>1, DivIs
    <3> HIDE DEF X, Y
    <3>3. QED
      BY <1>6, <3>1, <3>2
  <2>2. X \subseteq 0 .. frame.width - 1 /\ Y \subseteq 0 .. frame.height - 1
    BY <1>4
  <2>3. Region = (0 .. frame.width - 1) \X (0 .. frame.height - 1)
    BY <1>5 DEF Region, RegionOf
  <2> DEFINE A == 0 .. frame.width - 1
             B == 0 .. frame.height - 1
             In(x, y) == c = <<Quot(x, bx), Quot(y, by)>>
  <2>4. InCell(Region, c, bx, by) = {p \in A \X B : In(p[1], p[2])}
    BY <2>3 DEF InCell
  <2>5. \A x \in A, y \in B : In(x, y) <=> x \in X /\ y \in Y
    BY <2>1
  <2>6. X \subseteq A /\ Y \subseteq B
    BY <2>2
  <2> HIDE DEF A, B, X, Y, In
  <2>7. {p \in A \X B : In(p[1], p[2])} = X \X Y
    BY <2>5, <2>6
  <2>8. QED
    BY <2>4, <2>7 DEF X, Y
<1>11. /\ IsFiniteSet(X) /\ IsFiniteSet(Y) /\ Cardinality(X) = bx /\ Cardinality(Y) = by
  <2>1. ASSUME NEW a \in Nat, NEW b \in Nat, b > 0, NEW e, e = a + b
        PROVE  IsFiniteSet(a .. e - 1) /\ Cardinality(a .. e - 1) = b
    BY <2>1, FS_Interval
  <2>2. PICK a, b : a = i * bx /\ b = (i + 1) * bx
    OBVIOUS
  <2>3. PICK d, e : d = j * by /\ e = (j + 1) * by
    OBVIOUS
  <2>4. b = a + bx /\ e = d + by /\ a \in Nat /\ d \in Nat
    BY <1>9, <2>2, <2>3
  <2>5. X = a .. b - 1 /\ Y = d .. e - 1
    BY <2>2, <2>3
  <2> HIDE DEF X, Y
  <2>6. QED
    BY <1>4, <2>1, <2>4, <2>5
<1> HIDE DEF X, Y
<1>12. IsFiniteSet(X \X Y) /\ Cardinality(X \X Y) = bx * by
  BY <1>11, FS_Product
<1>13. bx * by \in Nat /\ bx * by > 0
  BY <1>4
<1>14. QED
  BY <1>3, <1>8, <1>10, <1>12, <1>13

(* The average of a cell that is not empty. *)
LEMMA CellAverage ==
  ASSUME IInv, scene \in Scenes, Covers(frame), NEW c \in Cells
  PROVE  Quot(Sum(Picture, InCell(Region, c, DiffStart.binx, DiffStart.biny)),
              DiffStart.binx * DiffStart.biny) = Average(scene, frame, c)
<1> DEFINE C == CellPixels(c, frame)
           f == [p \in C |-> PixelOf(scene, frame, p)]
           n == DiffStart.binx * DiffStart.biny
<1>1. /\ InCell(Region, c, DiffStart.binx, DiffStart.biny) = C
      /\ IsFiniteSet(C) /\ Cardinality(C) = n /\ n \in Nat /\ n > 0
  BY CellIs
<1>2. C \subseteq Region
  BY <1>1 DEF InCell
<1>3. \A p \in C : Picture[p] \in Nat /\ f[p] = Picture[p]
  <2>1. TAKE p \in C
  <2>2. p \in Region
    BY <1>2
  <2>3. Picture[p] = PixelOf(scene, frame, p)
    BY <2>2 DEF Picture, Pixel
  <2>4. Picture[p] \in Nat
    <3>1. IsPicture(Picture, frame.width, RegionRows) /\ Region = Grid(frame.width, RegionRows)
      BY RegionIsPicture, RegionSize
    <3>2. QED
      BY <2>2, <3>1 DEF IsPicture
  <2> HIDE DEF C
  <2>5. QED
    BY <2>3, <2>4
<1>4. SumFunction(f) = Sum(f, C)
  BY DEF SumFunction, Sum
<1>5. Average(scene, frame, c) = SumFunction(f) \div Cardinality(C)
  BY DEF Average
<1> HIDE DEF C, f, n
<1>6. Sum(f, C) = Sum(Picture, C) /\ Sum(Picture, C) \in Nat
  <2>1. Sum(f, C) = Sum(Picture, C)
    BY <1>1, <1>3, SumSame
  <2>2. Sum(Picture, C) \in Nat
    BY <1>1, <1>3, SumType
  <2>3. QED
    BY <2>1, <2>2
<1>7. Quot(Sum(Picture, C), n) = Sum(Picture, C) \div n
  BY <1>1, <1>6 DEF Quot
<1>8. QED
  BY <1>1, <1>4, <1>5, <1>6, <1>7 DEF n

LEMMA QuotNat ==
  ASSUME NEW a \in Nat, NEW b \in Nat
  PROVE  Quot(a, b) \in Nat
  BY DivBounds DEF Quot

LEMMA BinsNat ==
  ASSUME IInv
  PROVE  /\ DiffStart.binx \in Nat /\ DiffStart.biny \in Nat
         /\ DiffStart.binx * DiffStart.biny \in Nat
<1>1. frame.width \in Nat /\ frame.height \in Nat
  BY DEF IInv, TypeOK, Frame
<1>2. PICK bx \in Nat, by \in Nat : bx = frame.width \div TemplateWidth /\ by = frame.height \div TemplateHeight
  BY <1>1, PixelAssumption, DivBounds
<1>3. DiffStart.binx = bx /\ DiffStart.biny = by
  BY <1>2 DEF DiffStart
<1>4. QED
  BY <1>3

LEMMA DiffRecord ==
  ASSUME NEW cells, NEW y, NEW r, r = DiffSoFar(cells, y)
  PROVE  /\ r = [current |-> cells, y |-> y, box |-> EmptyBox,
                 binx |-> DiffStart.binx, biny |-> DiffStart.biny]
         /\ r.current = cells /\ r.y = y /\ r.box = EmptyBox
         /\ r.binx = DiffStart.binx /\ r.biny = DiffStart.biny
<1>1. PICK bx, by : bx = frame.width \div TemplateWidth /\ by = frame.height \div TemplateHeight
  OBVIOUS
<1>2. PICK d : d = DiffStart
  OBVIOUS
<1>3. d = [current |-> NoCells, y |-> 0, box |-> EmptyBox, binx |-> bx, biny |-> by]
  BY <1>1, <1>2 DEF DiffStart
<1>4. r = [d EXCEPT !.current = cells, !.y = y]
  BY <1>2 DEF DiffSoFar
<1>5. r = [current |-> cells, y |-> y, box |-> EmptyBox, binx |-> bx, biny |-> by]
  BY <1>3, <1>4
<1>6. DiffStart.binx = bx /\ DiffStart.biny = by
  BY <1>2, <1>3
<1>7. QED
  BY <1>5, <1>6

LEMMA EmptyBoxType == EmptyBox \in Box
<1>1. InFrame({})
  BY FS_EmptySet DEF InFrame, Places
<1>2. Take(EmptyBox, {}) = EmptyBox
  BY DEF Take
<1>3. QED
  BY <1>1, <1>2, OpenBox

DiffType == [current : [Cells -> Nat], y : Nat, box : Box, binx : Nat, biny : Nat]

LEMMA DiffSoFarType ==
  ASSUME IInv, NEW cells \in [Cells -> Nat], NEW y \in Nat
  PROVE  DiffSoFar(cells, y) \in DiffType
<1>1. PICK r : r = DiffSoFar(cells, y)
  OBVIOUS
<1>2. r = [current |-> cells, y |-> y, box |-> EmptyBox,
           binx |-> DiffStart.binx, biny |-> DiffStart.biny]
  BY <1>1, DiffRecord
<1>3. QED
  BY <1>1, <1>2, BinsNat, EmptyBoxType DEF DiffType

LEMMA NoCellsType == NoCells \in [Cells -> Nat]
  BY DEF NoCells

LEMMA CellsSeenType ==
  ASSUME PassInv, JobInv, job # "none"
  PROVE  /\ CellsSeen \in [Cells -> Nat] /\ RowsRead \in Nat
         /\ \A c \in Cells : CellsSeen[c] = Sum(Picture, InCell(Seen, c, DiffStart.binx, DiffStart.biny))
<1>1. ASSUME NEW c \in Cells
      PROVE  Sum(Picture, InCell(Seen, c, DiffStart.binx, DiffStart.biny)) \in Nat
  <2>1. InCell(Seen, c, DiffStart.binx, DiffStart.biny) \subseteq Seen
    BY DEF InCell
  <2>2. IsFiniteSet(Seen) /\ \A p \in Seen : Picture[p] \in Nat
    BY SeenFacts
  <2>3. IsFiniteSet(InCell(Seen, c, DiffStart.binx, DiffStart.biny))
    BY <2>1, <2>2, FS_Subset
  <2>4. QED
    BY <2>1, <2>2, <2>3, SumType
<1>2. RowsRead \in Nat
  <2>1. RowsRead \in 0 .. HiHeight
    BY SeenFacts
  <2>2. QED
    BY <2>1
<1>3. QED
  BY <1>1, <1>2 DEF CellsSeen, CellSums

LEMMA AveragesType ==
  ASSUME IInv, NEW cells \in [Cells -> Nat], NEW p, p.binx = DiffStart.binx, p.biny = DiffStart.biny
  PROVE  /\ Averages(cells, p) \in [Cells -> Nat]
         /\ \A c \in Cells : Averages(cells, p)[c] = Quot(cells[c], DiffStart.binx * DiffStart.biny)
<1>1. \A c \in Cells : Quot(cells[c], DiffStart.binx * DiffStart.biny) \in Nat
  BY BinsNat, QuotNat
<1>2. QED
  BY <1>1 DEF Averages

(* Averaged over the whole region, the cells hold the averages of the frame. *)
LEMMA AveragesAre ==
  ASSUME PassInv, JobInv, job # "none", RowsRead = RegionRows, Covers(frame), NEW c \in Cells
  PROVE  Quot(CellsSeen[c], DiffStart.binx * DiffStart.biny) = Average(scene, frame, c)
<1>1. IInv /\ scene \in Scenes
  BY DEF PassInv, JobInv
<1>2. Seen = Region
  BY <1>1, RegionSize DEF Seen
<1>3. QED
  BY <1>1, <1>2, CellsSeenType, CellAverage

LEMMA DiffFine ==
  ASSUME PassInv, JobInv, LoadInv, DiffInv, LoadedInv
  PROVE  (job \in {"load", "diff"} => pkt \in DiffType) /\ DiffIsChange
<1>0. IInv /\ previous \in [Cells -> Nat]
  BY DEF PassInv, JobInv
<1>1. CASE job = "load"
  <2>1. pkt = DiffSoFar(NoCells, RowsRead)
    BY <1>1 DEF LoadInv
  <2>2. RowsRead \in Nat
    BY <1>1, CellsSeenType
  <2>3. pkt \in DiffType
    BY <1>0, <2>1, <2>2, NoCellsType, DiffSoFarType
  <2>4. QED
    BY <1>1, <2>3 DEF DiffIsChange
<1>2. CASE job = "diff" /\ ~ended
  <2>1. pkt = DiffSoFar(CellsSeen, RowsRead)
    BY <1>2 DEF DiffInv
  <2>2. pkt \in DiffType
    BY <1>0, <1>2, <2>1, CellsSeenType, DiffSoFarType
  <2>3. QED
    BY <1>2, <2>2 DEF DiffIsChange
<1>3. CASE job = "diff" /\ ended
  <2>1. PICK o, q : o = DiffSoFar(CellsSeen, RowsRead) /\ q = DiffFinish(o)
    OBVIOUS
  <2>2. pkt = q
    BY <1>3, <2>1 DEF DiffInv
  <2>3. /\ o = [current |-> CellsSeen, y |-> RowsRead, box |-> EmptyBox,
                binx |-> DiffStart.binx, biny |-> DiffStart.biny]
        /\ o.current = CellsSeen /\ o.box = EmptyBox
        /\ o.binx = DiffStart.binx /\ o.biny = DiffStart.biny
    BY <2>1, DiffRecord
  <2>4. CellsSeen \in [Cells -> Nat] /\ RowsRead \in Nat
    BY <1>3, CellsSeenType
  <2>5. PICK now : now = Averages(CellsSeen, o)
    OBVIOUS
  <2>6. now \in [Cells -> Nat] /\ \A c \in Cells : now[c] = Quot(CellsSeen[c], DiffStart.binx * DiffStart.biny)
    BY <1>0, <2>3, <2>4, <2>5, AveragesType
  <2>7. PICK changed : changed = {c \in Cells : Apart(now[c], previous[c]) > Threshold}
    OBVIOUS
  <2>8. PICK b : b = Closed(Take(EmptyBox, changed), 100)
    OBVIOUS
  <2>9. q = [o EXCEPT !.current = now, !.box = b]
    BY <2>1, <2>3, <2>5, <2>7, <2>8 DEF DiffFinish
  <2>10. q = [current |-> now, y |-> RowsRead, box |-> b,
              binx |-> DiffStart.binx, biny |-> DiffStart.biny]
    BY <2>3, <2>9
  <2>11. InFrame(changed)
    <3>1. TemplateWidth \in 0 .. HiWidth /\ TemplateHeight \in 0 .. HiHeight
      BY PixelAssumption, SceneAssumption, SizeAssumption
    <3>2. changed \in SUBSET Grid(TemplateWidth, TemplateHeight)
      BY <2>7 DEF Cells, Grid
    <3>3. QED
      BY <3>1, <3>2, GridInFrame
  <2>12. b \in Box /\ IsBoxOf(b, changed)
    BY <2>8, <2>11, ClosedBox
  <2>13. pkt \in DiffType
    BY <1>0, <2>2, <2>4, <2>6, <2>10, <2>12, BinsNat DEF DiffType
  <2>14. ASSUME loaded.frame = [frame EXCEPT !.yloc = 0], Covers(frame)
         PROVE  IsBoxOf(pkt.box,
                  {c \in Cells : LET now1 == Average(scene, frame, c)
                                     then == Average(loaded.scene, frame, c)
                                 IN now1 > then + Threshold \/ then > now1 + Threshold})
    <3>1. frame \in Frame /\ loaded # None
      BY <1>0, <1>3 DEF IInv, TypeOK, DiffInv
    <3>2. PICK f : f = loaded.frame
      OBVIOUS
    <3>3. /\ f.width = frame.width /\ f.height = frame.height
          /\ f.x0 = frame.x0 /\ f.y0 = frame.y0 /\ f.xstep = frame.xstep /\ f.ystep = frame.ystep
      BY <2>14, <3>1, <3>2 DEF Frame
    <3>4. Covers(f)
      BY <2>14, <3>3 DEF Covers
    <3>5. \A c \in Cells : previous[c] = Average(loaded.scene, f, c)
      BY <3>1, <3>2, <3>4 DEF LoadedInv
    <3>6. ASSUME NEW c \in Cells
          PROVE  Average(loaded.scene, f, c) = Average(loaded.scene, frame, c)
      <4>1. CellPixels(c, f) = CellPixels(c, frame)
        BY <3>3 DEF CellPixels
      <4>2. \A p : PixelOf(loaded.scene, f, p) = PixelOf(loaded.scene, frame, p)
        BY <3>3 DEF PixelOf
      <4>3. [p \in CellPixels(c, f) |-> PixelOf(loaded.scene, f, p)] =
              [p \in CellPixels(c, frame) |-> PixelOf(loaded.scene, frame, p)]
        BY <4>1, <4>2
      <4>4. QED
        BY <4>1, <4>3 DEF Average
    <3>7. \A c \in Cells : now[c] = Average(scene, frame, c)
      <4>1. RowsRead = RegionRows
        BY <1>3 DEF JobInv
      <4>2. QED
        BY <1>3, <2>6, <2>14, <4>1, AveragesAre
    <3>8. ASSUME NEW a \in Nat, NEW d \in Nat
          PROVE  Apart(a, d) > Threshold <=> a > d + Threshold \/ d > a + Threshold
      BY PixelAssumption DEF Apart
    <3>9. \A c \in Cells : Apart(now[c], previous[c]) > Threshold <=>
            Average(scene, frame, c) > Average(loaded.scene, frame, c) + Threshold
              \/ Average(loaded.scene, frame, c) > Average(scene, frame, c) + Threshold
      <4>1. TAKE c \in Cells
      <4>2. now[c] \in Nat /\ previous[c] \in Nat
        BY <1>0, <2>6
      <4>3. now[c] = Average(scene, frame, c) /\ previous[c] = Average(loaded.scene, frame, c)
        BY <3>5, <3>6, <3>7
      <4>4. Apart(now[c], previous[c]) > Threshold <=>
              now[c] > previous[c] + Threshold \/ previous[c] > now[c] + Threshold
        BY <3>8, <4>2
      <4>5. QED
        BY <4>3, <4>4
    <3>10. pkt.box = b
      BY <2>2, <2>10
    <3>11. changed = {c \in Cells : LET now1 == Average(scene, frame, c)
                                        then == Average(loaded.scene, frame, c)
                                    IN now1 > then + Threshold \/ then > now1 + Threshold}
      BY <2>7, <3>9
    <3>12. QED
      BY <2>12, <3>10, <3>11
  <2>15. QED
    BY <2>13, <2>14 DEF DiffIsChange, Covers
<1>4. QED
  BY <1>1, <1>2, <1>3 DEF DiffIsChange

-----------------------------------------------------------------------------
(* The steps. *)

LEMMA ImageFine ==
  ASSUME ImageInv
  PROVE  ResultIsRegion /\ DiffIsChange
<1>1. /\ PassInv /\ JobInv /\ LoadedInv /\ TrackInv /\ InfoInv /\ HistInv /\ LoadInv /\ DiffInv
  BY DEF ImageInv, PacketInv
<1>2. (job = "track" => pkt \in [noise : NoiseFilters, y : Nat, box : Box]) /\ TrackIsRegion
  BY <1>1, TrackFine
<1>3. (job = "info" => pkt \in InfoType) /\ InfoIsRegion
  BY <1>1, InfoFine
<1>4. (job = "hist" => pkt \in [hist : [0 .. Bins - 1 -> Nat], div : Nat]) /\ HistIsRegion
  BY <1>1, HistFine
<1>5. (job \in {"load", "diff"} => pkt \in DiffType) /\ DiffIsChange
  BY <1>1, DiffFine
<1>6. ImageTypeOK
  BY <1>1, <1>2, <1>3, <1>4, <1>5 DEF ImageTypeOK, JobInv, LoadedInv, InfoType, DiffType
<1>7. QED
  BY <1>2, <1>3, <1>4, <1>5, <1>6 DEF ResultIsRegion

LEMMA ImageInitInv == ImageInit => ImageInv
<1>1. SUFFICES ASSUME ImageInit PROVE ImageInv
  OBVIOUS
<1>2. PassInit /\ scene \in Scenes /\ job = "none" /\ ended = FALSE /\ previous = NoCells /\ loaded = None
  BY <1>1 DEF ImageInit
<1>3. PassInv
  <2>1. Init /\ reading = FALSE /\ got = -1
    BY <1>2 DEF PassInit
  <2>2. frame.yloc = 0
    BY <2>1 DEF Init, ResetFrame
  <2>3. QED
    BY <2>1, <2>2, InitIInv DEF PassInv, PlaceInv, LoopInv
<1>4. reading = FALSE
  BY <1>2 DEF PassInit
<1>5. JobInv
  BY <1>2, <1>4, NoCellsType DEF JobInv
<1>6. PacketInv
  BY <1>2 DEF PacketInv, TrackInv, InfoInv, HistInv, LoadInv, DiffInv
<1>7. LoadedInv
  BY <1>2 DEF LoadedInv
<1>8. QED
  BY <1>3, <1>5, <1>6, <1>7 DEF ImageInv

(* The picture is that of the scene and the frame, but for y_loc. *)
Alike(f, g) ==
  /\ f.width = g.width /\ f.height = g.height /\ f.xstep = g.xstep /\ f.ystep = g.ystep
  /\ f.x0 = g.x0 /\ f.y0 = g.y0 /\ f.y1 = g.y1

LEMMA PictureStays ==
  ASSUME Alike(frame', frame), scene' = scene
  PROVE  /\ Picture' = Picture /\ DiffStart' = DiffStart /\ RegionRows' = RegionRows
         /\ frame'.width = frame.width
<1>1. RegionRows' = RegionRows
  BY DEF Alike, RegionRows
<1>2. Region' = Region
  BY <1>1 DEF Alike, Region, RegionOf
<1>3. \A p \in Region : Pixel(p)' = Pixel(p)
  BY DEF Alike, Pixel, PixelOf
<1>4. Picture' = Picture
  BY <1>2, <1>3 DEF Picture
<1>5. DiffStart' = DiffStart
  BY DEF Alike, DiffStart
<1>6. QED
  BY <1>1, <1>4, <1>5 DEF Alike

LEMMA SameAverage ==
  ASSUME NEW f, NEW g, Alike(f, g), NEW s, NEW c
  PROVE  Average(s, f, c) = Average(s, g, c)
<1>1. CellPixels(c, f) = CellPixels(c, g)
  BY DEF CellPixels, Alike
<1>2. \A p : PixelOf(s, f, p) = PixelOf(s, g, p)
  BY DEF PixelOf, Alike
<1>3. [p \in CellPixels(c, f) |-> PixelOf(s, f, p)] = [p \in CellPixels(c, g) |-> PixelOf(s, g, p)]
  BY <1>1, <1>2
<1>4. QED
  BY <1>1, <1>3 DEF Average

LEMMA PrepareKeeps ==
  ASSUME NoEdge, ImageInv, ImagePrepare
  PROVE  ImageInv'
<1>1. /\ PassInv /\ JobInv /\ LoadedInv
      /\ Prepare /\ job' = "none" /\ ended' = FALSE /\ previous' = previous /\ loaded' = loaded
      /\ scene' \in Scenes
  BY DEF ImageInv, ImagePrepare, Prepare, JobInv
<1>2. PassInv'
  BY <1>1, PassStep DEF PassNext
<1>3. ~reading'
  BY <1>1, <1>2, OutsideReturns DEF PassInv
<1>4. JobInv'
  BY <1>1, <1>3 DEF JobInv
<1>5. PacketInv'
  BY <1>1 DEF PacketInv, TrackInv, InfoInv, HistInv, LoadInv, DiffInv
<1>6. LoadedInv'
  BY <1>1 DEF LoadedInv
<1>7. QED
  BY <1>2, <1>4, <1>5, <1>6 DEF ImageInv

(* Of no rows each computation has what it starts with. *)
LEMMA StartsEmpty ==
  ASSUME IInv, frame.yloc = 0
  PROVE  /\ RowsRead = 0 /\ CellsSeen = NoCells
         /\ \A n : TrackStart(n) = TrackOf(Picture, Seen, n, RowsRead)
         /\ InfoStart = InfoOf(Picture, Seen) /\ HistStart = HistOf(Picture, Seen)
         /\ DiffStart = DiffSoFar(NoCells, RowsRead)
<1>1. RowsRead = 0
  BY TopDeliversNothing
<1>2. Seen = {}
  BY <1>1 DEF Seen, Grid
<1>3. \A n : TrackStart(n) = TrackOf(Picture, Seen, n, RowsRead)
  <2>1. \A n : FoundIn(Picture, Seen, n) = {}
    BY <1>2 DEF FoundIn
  <2>2. Take(EmptyBox, {}) = EmptyBox
    BY DEF Take
  <2>3. QED
    BY <1>1, <2>1, <2>2 DEF TrackStart, TrackOf
<1>4. InfoStart = InfoOf(Picture, Seen)
  <2>1. Sum(Picture, {}) = 0 /\ Cardinality({}) = 0
    BY SumNone, FS_EmptySet
  <2>2. PixelsIn(Picture, Seen) = {}
    BY <1>2 DEF PixelsIn
  <2>3. Low(MaxPixel, {}) = MaxPixel /\ High(0, {}) = 0
    <3>1. MaxPixel \in Nat
      BY PixelAssumption
    <3>2. {MaxPixel} \in SUBSET Nat /\ {MaxPixel} # {} /\ {0} \in SUBSET (0 .. 0) /\ {0} # {}
      BY <3>1
    <3>3. Min({MaxPixel}) \in {MaxPixel} /\ Max({0}) \in {0}
      BY <3>2, MinIs, MaxIs
    <3>4. {MaxPixel} \cup {} = {MaxPixel} /\ {0} \cup {} = {0}
      OBVIOUS
    <3>5. QED
      BY <3>3, <3>4 DEF Low, High
  <2>4. QED
    BY <1>2, <2>1, <2>2, <2>3 DEF InfoStart, InfoOf, InfoRecord
<1>5. HistStart = HistOf(Picture, Seen)
  <2>1. \A i : InBin(Picture, Seen, i) = {}
    BY <1>2 DEF InBin
  <2>2. Cardinality({}) = 0
    BY FS_EmptySet
  <2>3. [i \in 0 .. Bins - 1 |-> Cardinality(InBin(Picture, Seen, i))] = [i \in 0 .. Bins - 1 |-> 0]
    BY <2>1, <2>2
  <2>4. QED
    BY <2>3 DEF HistOf, HistStart
<1>6. CellsSeen = NoCells
  <2>1. \A c : InCell(Seen, c, DiffStart.binx, DiffStart.biny) = {}
    BY <1>2 DEF InCell
  <2>2. QED
    BY <2>1, SumNone DEF CellsSeen, CellSums, NoCells
<1>7. DiffStart = DiffSoFar(NoCells, RowsRead)
  <2>1. PICK r : r = DiffSoFar(NoCells, 0)
    OBVIOUS
  <2>2. r = [current |-> NoCells, y |-> 0, box |-> EmptyBox, binx |-> DiffStart.binx, biny |-> DiffStart.biny]
    BY <2>1, DiffRecord
  <2>3. DiffStart.binx = frame.width \div TemplateWidth /\ DiffStart.biny = frame.height \div TemplateHeight
    BY DEF DiffStart
  <2>4. r = DiffStart
    BY <2>2, <2>3 DEF DiffStart
  <2>5. QED
    BY <1>1, <2>1, <2>4
<1>8. QED
  BY <1>1, <1>3, <1>4, <1>5, <1>6, <1>7

LEMMA BeginKeeps ==
  ASSUME NoEdge, ImageInv, ImageBegin
  PROVE  ImageInv'
<1>1. /\ PassInv /\ JobInv /\ LoadedInv /\ IInv
      /\ BeginLoop /\ frame.yloc = 0 /\ scene' = scene /\ frame' = frame
  BY DEF ImageInv, ImageBegin, PassInv, BeginLoop, vars
<1>2. PassInv'
  BY <1>1, PassStep DEF PassNext
<1>3. PICK j \in Jobs : Start(j)
  BY DEF ImageBegin
<1>4. job' = j /\ ended' = FALSE /\ reading' = TRUE /\ j # "none"
  BY <1>1, <1>3 DEF Start, BeginLoop, Jobs
<1>5. /\ Picture' = Picture /\ DiffStart' = DiffStart /\ RegionRows' = RegionRows
      /\ Seen' = Seen /\ RowsRead' = RowsRead
  <2>1. Alike(frame', frame)
    BY <1>1 DEF Alike
  <2>2. RowsRead' = RowsRead
    BY <1>1 DEF RowsRead
  <2>3. QED
    BY <1>1, <2>1, <2>2, PictureStays DEF Seen
<1>6. CellsSeen' = CellsSeen
  BY <1>5 DEF CellsSeen
<1>7. /\ RowsRead = 0 /\ CellsSeen = NoCells
      /\ \A n : TrackStart(n) = TrackOf(Picture, Seen, n, RowsRead)
      /\ InfoStart = InfoOf(Picture, Seen) /\ HistStart = HistOf(Picture, Seen)
      /\ DiffStart = DiffSoFar(NoCells, RowsRead)
  BY <1>1, StartsEmpty
<1>8. previous' \in [Cells -> Nat]
  BY <1>1, <1>3, NoCellsType DEF Start, JobInv
<1>9. JobInv'
  BY <1>1, <1>4, <1>8 DEF JobInv
<1>10. TrackInv'
  <2>1. SUFFICES ASSUME job' = "track" PROVE TrackInv'
    BY DEF TrackInv
  <2>2. PICK n \in NoiseFilters : pkt' = TrackStart(n)
    BY <1>3, <1>4, <2>1 DEF Start
  <2>3. pkt' = TrackOf(Picture', Seen', n, RowsRead')
    BY <1>5, <1>7, <2>2
  <2>4. QED
    BY <1>4, <2>3 DEF TrackInv
<1>11. InfoInv'
  <2>1. job' = "info" => pkt' = InfoOf(Picture', Seen')
    BY <1>3, <1>4, <1>5, <1>7 DEF Start
  <2>2. QED
    BY <1>4, <2>1 DEF InfoInv
<1>12. HistInv'
  <2>1. job' = "hist" => pkt' = HistOf(Picture', Seen')
    BY <1>3, <1>4, <1>5, <1>7 DEF Start
  <2>2. QED
    BY <2>1 DEF HistInv
<1>13. DiffSoFar(NoCells, RowsRead)' = DiffSoFar(NoCells, RowsRead)
  BY <1>5 DEF DiffSoFar
<1>14. LoadInv'
  <2>1. SUFFICES ASSUME job' = "load" PROVE LoadInv'
    BY DEF LoadInv
  <2>2. pkt' = DiffStart /\ previous' = NoCells /\ loaded' = None
    BY <1>3, <1>4, <2>1 DEF Start
  <2>3. QED
    BY <1>6, <1>7, <1>13, <2>2 DEF LoadInv
<1>15. DiffInv'
  <2>1. SUFFICES ASSUME job' = "diff" PROVE DiffInv'
    BY DEF DiffInv
  <2>2. pkt' = DiffStart /\ loaded' = loaded /\ loaded # None
    BY <1>3, <1>4, <2>1 DEF Start
  <2>3. DiffSoFar(CellsSeen, RowsRead)' = DiffSoFar(NoCells, RowsRead)
    BY <1>5, <1>6, <1>7 DEF DiffSoFar
  <2>4. QED
    BY <1>4, <1>7, <2>2, <2>3 DEF DiffInv
<1>16. LoadedInv'
  <2>1. CASE j = "load"
    <3>1. loaded' = None
      BY <1>3, <2>1 DEF Start
    <3>2. QED
      BY <3>1 DEF LoadedInv
  <2>2. CASE j # "load"
    <3>1. previous' = previous /\ loaded' = loaded
      BY <1>3, <2>2 DEF Start
    <3>2. QED
      BY <1>1, <3>1 DEF LoadedInv
  <2>3. QED
    BY <2>1, <2>2
<1>17. QED
  BY <1>2, <1>9, <1>10, <1>11, <1>12, <1>14, <1>15, <1>16 DEF ImageInv, PacketInv

(* What a call of cc3_pixbuf_read_rows (pix, 1) in a pass finds and leaves.  *)
LEMMA ReadFacts ==
  ASSUME NoEdge, ImageInv, ImageRead
  PROVE  /\ IInv /\ PassInv' /\ scene' = scene /\ job' = job /\ job # "none" /\ ended = FALSE
         /\ Picture' = Picture /\ DiffStart' = DiffStart /\ RegionRows' = RegionRows
         /\ frame'.width = frame.width /\ frame.width \in 0 .. HiWidth /\ RegionRows \in 0 .. HiHeight
         /\ IsPicture(Picture, frame.width, RegionRows)
         /\ \/ /\ RowsGiven(1) = 1 /\ RowsRead \in 0 .. RegionRows - 1 /\ RowsRead' = RowsRead + 1
               /\ IsRow(RowPixels, Picture, frame.width, RowsRead)
               /\ reading' = TRUE /\ Scanline
            \/ /\ RowsRead = RegionRows /\ RowsRead' = RowsRead
               /\ reading' = FALSE /\ Finish
<1>1. /\ PassInv /\ JobInv /\ IInv /\ LoopRead /\ scene' = scene /\ job' = job /\ scene \in Scenes
  BY DEF ImageInv, ImageRead, PassInv, JobInv
<1>2. PassInv'
  BY <1>1, PassStep DEF PassNext
<1>3. reading = TRUE /\ synced /\ ReadRows(1)
  BY <1>1 DEF LoopRead, PassInv, LoopInv
<1>4. job # "none" /\ ended = FALSE
  BY <1>1, <1>3 DEF JobInv
<1>5. Alike(frame', frame)
  <2>1. frame \in Frame
    BY <1>1 DEF IInv, TypeOK
  <2>2. PICK v : frame' = [frame EXCEPT !.yloc = v]
    BY <1>3 DEF ReadRows
  <2>3. QED
    BY <2>1, <2>2 DEF Frame, Alike
<1>6. /\ Picture' = Picture /\ DiffStart' = DiffStart /\ RegionRows' = RegionRows
      /\ frame'.width = frame.width
  BY <1>1, <1>5, PictureStays
<1>7. frame.width \in 0 .. HiWidth /\ RegionRows \in 0 .. HiHeight /\ IsPicture(Picture, frame.width, RegionRows)
  BY <1>1, RegionSize, RegionIsPicture
<1>8. RowsRead \in 0 .. RegionRows /\ RowsGiven(1) = IF RowsRead < RegionRows THEN 1 ELSE 0
  BY <1>1, <1>3, RowAtHand
<1>9. CASE RowsRead < RegionRows
  <2>1. RowsGiven(1) = 1
    BY <1>8, <1>9
  <2>2. RowsRead' = RowsRead + 1
    BY <1>1, <1>3, <2>1, RowRead
  <2>3. IsRow(RowPixels, Picture, frame.width, RowsRead)
    BY <1>1, <1>3, <1>9, RowOfPicture
  <2>4. Scanline /\ reading' = TRUE
    BY <1>1, <1>3, <2>1 DEF ImageRead, LoopRead
  <2>5. RowsRead \in 0 .. RegionRows - 1
    BY <1>7, <1>8, <1>9
  <2>6. QED
    BY <1>1, <1>2, <1>4, <1>6, <1>7, <2>1, <2>2, <2>3, <2>4, <2>5
<1>10. CASE RowsRead = RegionRows
  <2>1. RowsGiven(1) = 0
    BY <1>7, <1>8, <1>10
  <2>2. RowsRead' = RowsRead
    BY <1>1, <1>3, <2>1, RowRead
  <2>3. Finish /\ reading' = FALSE
    <3>1. RowsGiven(1) # 1
      BY <2>1
    <3>2. QED
      BY <1>1, <3>1 DEF ImageRead, LoopRead
  <2>4. QED
    BY <1>1, <1>2, <1>4, <1>6, <1>7, <1>10, <2>2, <2>3
<1>11. RowsRead < RegionRows \/ RowsRead = RegionRows
  BY <1>1, <1>8, RegionRowsNat
<1>12. QED
  BY <1>9, <1>10, <1>11

LEMMA CellSumsType ==
  ASSUME NEW pic, NEW w \in Nat, NEW n \in Nat, IsPicture(pic, w, n), NEW k \in 0 .. n - 1, NEW bx, NEW by
  PROVE  CellSums(pic, Grid(w, k + 1), bx, by) \in [Cells -> Nat]
<1> DEFINE S == Grid(w, k + 1)
<1>1. IsFiniteSet(S) /\ \A p \in S : pic[p] \in Nat
  BY PictureFacts
<1>2. ASSUME NEW c \in Cells PROVE Sum(pic, InCell(S, c, bx, by)) \in Nat
  <2>1. InCell(S, c, bx, by) \subseteq S
    BY DEF InCell
  <2>2. IsFiniteSet(InCell(S, c, bx, by))
    BY <1>1, <2>1, FS_Subset
  <2>3. QED
    BY <1>1, <2>1, <2>2, SumType
<1>3. QED
  BY <1>2 DEF CellSums

LEMMA NextDiff ==
  ASSUME NEW cells, NEW y, NEW new, NEW p, p = DiffSoFar(cells, y), NEW q,
         q = [p EXCEPT !.y = y + 1, !.current = new]
  PROVE  q = DiffSoFar(new, y + 1)
<1>1. PICK r : r = DiffSoFar(new, y + 1)
  OBVIOUS
<1>2. r = [current |-> new, y |-> y + 1, box |-> EmptyBox, binx |-> DiffStart.binx, biny |-> DiffStart.biny]
  BY <1>1, DiffRecord
<1>3. PICK b, bx, by, z : b = EmptyBox /\ bx = DiffStart.binx /\ by = DiffStart.biny /\ z = y + 1
  OBVIOUS
<1>4. p = [current |-> cells, y |-> y, box |-> b, binx |-> bx, biny |-> by]
  BY <1>3, DiffRecord
<1>5. q = [p EXCEPT !.y = z, !.current = new]
  BY <1>3
<1>6. q = [current |-> new, y |-> z, box |-> b, binx |-> bx, biny |-> by]
  BY ONLY <1>4, <1>5
<1>7. QED
  BY <1>1, <1>2, <1>3, <1>6

(* A row more. *)
LEMMA ScanlineKeeps ==
  ASSUME NoEdge, ImageInv, ImageRead,
         RowsRead \in 0 .. RegionRows - 1, RowsRead' = RowsRead + 1,
         IsRow(RowPixels, Picture, frame.width, RowsRead), reading' = TRUE, Scanline
  PROVE  ImageInv'
<1> DEFINE w == frame.width
           k == RowsRead
<1>0. /\ JobInv /\ PacketInv /\ LoadedInv
  BY DEF ImageInv
<1>1. /\ IInv /\ PassInv' /\ scene' = scene /\ job' = job /\ job # "none" /\ ended = FALSE
      /\ Picture' = Picture /\ DiffStart' = DiffStart /\ RegionRows' = RegionRows
      /\ frame'.width = w /\ w \in 0 .. HiWidth /\ RegionRows \in 0 .. HiHeight
      /\ IsPicture(Picture, w, RegionRows)
  BY ReadFacts
<1>2. ended' = FALSE /\ loaded' = loaded
  BY <1>1 DEF Scanline
<1>3. /\ w \in Nat /\ RegionRows \in Nat /\ k \in Nat /\ k + 1 \in 0 .. HiHeight
  <2>1. HiWidth \in Nat /\ HiHeight \in Nat
    BY SizeAssumption
  <2>2. QED
    BY <1>1, <2>1
<1>4. Seen = Grid(w, k) /\ Seen' = Grid(w, k + 1)
  BY <1>1 DEF Seen
<1>5. CellsSeen = CellSums(Picture, Grid(w, k), DiffStart.binx, DiffStart.biny)
        /\ CellsSeen' = CellSums(Picture, Grid(w, k + 1), DiffStart.binx, DiffStart.biny)
  BY <1>1, <1>4 DEF CellsSeen
<1>6. CellsSeen' \in [Cells -> Nat]
  BY <1>1, <1>3, <1>5, CellSumsType
<1>7. ASSUME NEW cells, NEW q, q = DiffSoFar(cells, k)
      PROVE  AddRow(CellsSeen, q, RowPixels) = CellsSeen'
  <2>1. q.y = k /\ q.binx = DiffStart.binx /\ q.biny = DiffStart.biny
    BY <1>7, DiffRecord
  <2>2. QED
    BY <1>1, <1>3, <1>5, <2>1, CellRow
<1>8. TrackInv'
  <2>1. SUFFICES ASSUME job = "track" PROVE TrackInv'
    BY <1>1 DEF TrackInv
  <2>2. PICK n \in NoiseFilters : pkt = TrackOf(Picture, Grid(w, k), n, k)
    BY <1>0, <1>1, <1>4, <2>1 DEF PacketInv, TrackInv
  <2>3. n \in Nat
    BY PixelAssumption
  <2>4. pkt' = TrackScanline(pkt, RowPixels)
    BY <2>1 DEF Scanline
  <2>5. pkt' = TrackOf(Picture, Grid(w, k + 1), n, k + 1)
    BY <1>1, <1>3, <2>2, <2>3, <2>4, TrackRow
  <2>6. QED
    BY <1>1, <1>2, <1>4, <2>5 DEF TrackInv
<1>9. InfoInv'
  <2>1. SUFFICES ASSUME job = "info" PROVE InfoInv'
    BY <1>1 DEF InfoInv
  <2>2. pkt = InfoOf(Picture, Grid(w, k)) /\ pkt' = InfoScanline(pkt, RowPixels)
    BY <1>0, <1>1, <1>4, <2>1 DEF PacketInv, InfoInv, Scanline
  <2>3. pkt' = InfoOf(Picture, Grid(w, k + 1))
    BY <1>1, <1>3, <2>2, InfoRow
  <2>4. QED
    BY <1>1, <1>2, <1>4, <2>3 DEF InfoInv
<1>10. HistInv'
  <2>1. SUFFICES ASSUME job = "hist" PROVE HistInv'
    BY <1>1 DEF HistInv
  <2>2. pkt = HistOf(Picture, Grid(w, k)) /\ pkt' = HistScanline(pkt, RowPixels)
    BY <1>0, <1>1, <1>4, <2>1 DEF PacketInv, HistInv, Scanline
  <2>3. pkt' = HistOf(Picture, Grid(w, k + 1))
    BY <1>1, <1>3, <2>2, HistRow
  <2>4. QED
    BY <1>1, <1>2, <1>4, <2>3 DEF HistInv
<1>11. CASE job = "load"
  <2>1. pkt = DiffSoFar(NoCells, k) /\ loaded = None /\ previous = CellsSeen
    BY <1>0, <1>1, <1>11 DEF PacketInv, LoadInv
  <2>2. previous' = AddRow(previous, pkt, RowPixels) /\ pkt' = [pkt EXCEPT !.y = pkt.y + 1]
    BY <1>11 DEF Scanline
  <2>3. previous' = CellsSeen'
    BY <1>7, <2>1, <2>2
  <2>4. pkt.y = k /\ pkt.current = NoCells
    BY <2>1, DiffRecord
  <2>5. pkt' = [pkt EXCEPT !.y = k + 1, !.current = NoCells]
    <3>1. pkt = [current |-> NoCells, y |-> k, box |-> EmptyBox,
                 binx |-> DiffStart.binx, biny |-> DiffStart.biny]
      BY <2>1, DiffRecord
    <3>2. QED
      BY <2>2, <2>4, <3>1
  <2>6. pkt' = DiffSoFar(NoCells, k + 1)
    BY <2>1, <2>5, NextDiff
  <2>7. LoadInv'
    <3>1. DiffSoFar(NoCells, RowsRead)' = DiffSoFar(NoCells, k + 1)
      BY <1>1 DEF DiffSoFar
    <3>2. QED
      BY <1>2, <2>1, <2>3, <2>6, <3>1 DEF LoadInv
  <2>8. JobInv' /\ LoadedInv' /\ DiffInv'
    <3>1. LoadedInv'
      BY <1>2, <2>1 DEF LoadedInv
    <3>2. DiffInv'
      BY <1>1, <1>11 DEF DiffInv
    <3>3. JobInv'
      BY <1>0, <1>1, <1>2, <1>6, <2>3 DEF JobInv
    <3>4. QED
      BY <3>1, <3>2, <3>3
  <2>9. QED
    BY <1>1, <1>8, <1>9, <1>10, <2>7, <2>8 DEF ImageInv, PacketInv
<1>12. CASE job # "load"
  <2>1. previous' = previous
    BY <1>12 DEF Scanline
  <2>2. JobInv' /\ LoadedInv'
    <3>1. LoadedInv'
      BY <1>0, <1>2, <2>1 DEF LoadedInv
    <3>2. JobInv'
      BY <1>0, <1>1, <1>2, <2>1 DEF JobInv
    <3>3. QED
      BY <3>1, <3>2
  <2>3. LoadInv'
    BY <1>1, <1>12 DEF LoadInv
  <2>4. DiffInv'
    <3>1. SUFFICES ASSUME job = "diff" PROVE DiffInv'
      BY <1>1 DEF DiffInv
    <3>2. pkt = DiffSoFar(CellsSeen, k) /\ loaded # None
      BY <1>0, <1>1, <3>1 DEF PacketInv, DiffInv
    <3>3. pkt.y = k /\ pkt.current = CellsSeen
      BY <3>2, DiffRecord
    <3>4. pkt' = [pkt EXCEPT !.y = pkt.y + 1, !.current = AddRow(pkt.current, pkt, RowPixels)]
      BY <3>1 DEF Scanline
    <3>5. AddRow(pkt.current, pkt, RowPixels) = CellsSeen'
      BY <1>7, <3>2, <3>3
    <3>6. pkt' = [pkt EXCEPT !.y = k + 1, !.current = CellsSeen']
      BY <3>3, <3>4, <3>5
    <3>7. PICK new : new = CellsSeen'
      OBVIOUS
    <3>8. pkt' = DiffSoFar(new, k + 1)
      BY <3>2, <3>6, <3>7, NextDiff
    <3>9. DiffSoFar(CellsSeen, RowsRead)' = DiffSoFar(new, k + 1)
      BY <1>1, <3>7 DEF DiffSoFar
    <3>10. QED
      BY <1>2, <3>2, <3>8, <3>9 DEF DiffInv
  <2>5. QED
    BY <1>1, <1>8, <1>9, <1>10, <2>2, <2>3, <2>4 DEF ImageInv, PacketInv
<1>13. QED
  BY <1>11, <1>12

(* No row is left. *)
LEMMA FinishKeeps ==
  ASSUME NoEdge, ImageInv, ImageRead,
         RowsRead = RegionRows, RowsRead' = RowsRead, reading' = FALSE, Finish
  PROVE  ImageInv'
<1>0. PassInv /\ JobInv /\ PacketInv /\ LoadedInv
  BY DEF ImageInv
<1>1. /\ IInv /\ PassInv' /\ scene' = scene /\ job' = job /\ job # "none" /\ ended = FALSE
      /\ Picture' = Picture /\ DiffStart' = DiffStart /\ RegionRows' = RegionRows
      /\ frame'.width = frame.width
  BY ReadFacts
<1>2. ended' = TRUE
  BY DEF Finish
<1>3. Seen' = Seen
  BY <1>1 DEF Seen
<1>4. CellsSeen' = CellsSeen
  BY <1>1, <1>3 DEF CellsSeen
<1>5. TrackInv'
  <2>1. SUFFICES ASSUME job = "track" PROVE TrackInv'
    BY <1>1 DEF TrackInv
  <2>2. PICK n \in NoiseFilters : pkt = TrackOf(Picture, Seen, n, RowsRead)
    BY <1>0, <1>1, <2>1 DEF PacketInv, TrackInv
  <2>3. pkt' = TrackFinish(pkt)
    BY <2>1 DEF Finish
  <2>4. pkt' = TrackFinish(TrackOf(Picture', Seen', n, RowsRead'))
    BY <1>1, <1>3, <2>2, <2>3
  <2>5. QED
    BY <1>2, <2>4 DEF TrackInv
<1>6. InfoInv'
  <2>1. SUFFICES ASSUME job = "info" PROVE InfoInv'
    BY <1>1 DEF InfoInv
  <2>2. pkt = InfoOf(Picture, Seen) /\ pkt' = InfoFinish(pkt)
    BY <1>0, <1>1, <2>1 DEF PacketInv, InfoInv, Finish
  <2>3. pkt' = InfoFinish(InfoOf(Picture', Seen'))
    BY <1>1, <1>3, <2>2
  <2>4. QED
    BY <1>2, <2>3 DEF InfoInv
<1>7. HistInv'
  <2>1. SUFFICES ASSUME job = "hist" PROVE HistInv'
    BY <1>1 DEF HistInv
  <2>2. pkt = HistOf(Picture, Seen) /\ pkt' = pkt
    BY <1>0, <2>1 DEF PacketInv, HistInv, Finish
  <2>3. QED
    BY <1>1, <1>3, <2>2 DEF HistInv
<1>8. CASE job = "load"
  <2>1. pkt = DiffSoFar(NoCells, RowsRead) /\ previous = CellsSeen
    BY <1>0, <1>1, <1>8 DEF PacketInv, LoadInv
  <2>2. /\ previous' = Averages(previous, pkt) /\ pkt' = pkt
        /\ loaded' = [scene |-> scene, frame |-> [frame EXCEPT !.yloc = 0]]
    BY <1>8 DEF Finish
  <2>3. DiffSoFar(NoCells, RowsRead)' = DiffSoFar(NoCells, RowsRead)
    BY <1>1 DEF DiffSoFar
  <2>4. LoadInv'
    BY <1>2, <2>1, <2>2, <2>3 DEF LoadInv
  <2>5. DiffInv'
    BY <1>1, <1>8 DEF DiffInv
  <2>6. CellsSeen \in [Cells -> Nat]
    BY <1>0, <1>1, CellsSeenType
  <2>7. pkt.binx = DiffStart.binx /\ pkt.biny = DiffStart.biny
    BY <2>1, DiffRecord
  <2>8. /\ previous' \in [Cells -> Nat]
        /\ \A c \in Cells : previous'[c] = Quot(CellsSeen[c], DiffStart.binx * DiffStart.biny)
    <3>1. PICK new : new = Averages(CellsSeen, pkt)
      OBVIOUS
    <3>2. /\ new \in [Cells -> Nat]
          /\ \A c \in Cells : new[c] = Quot(CellsSeen[c], DiffStart.binx * DiffStart.biny)
      BY <1>1, <2>6, <2>7, <3>1, AveragesType
    <3>3. previous' = new
      BY <2>1, <2>2, <3>1
    <3>4. QED
      BY <3>2, <3>3
  <2>9. JobInv'
    BY <1>0, <1>1, <1>2, <2>8 DEF JobInv
  <2>10. LoadedInv'
    <3>1. PICK f : f = [frame EXCEPT !.yloc = 0]
      OBVIOUS
    <3>2. frame \in Frame
      BY <1>1 DEF IInv, TypeOK
    <3>3. f \in Frame /\ Alike(f, frame)
      BY <3>1, <3>2 DEF Frame, Alike
    <3>4. loaded'.scene = scene /\ loaded'.frame = f
      BY <2>2, <3>1
    <3>5. ASSUME Covers(f), NEW c \in Cells
          PROVE  previous'[c] = Average(scene, f, c)
      <4>1. Covers(frame)
        BY <3>3, <3>5 DEF Covers, Alike
      <4>2. previous'[c] = Average(scene, frame, c)
        BY <1>0, <1>1, <2>8, <4>1, AveragesAre
      <4>3. QED
        BY <3>3, <4>2, SameAverage
    <3>6. scene \in Scenes
      BY <1>0 DEF JobInv
    <3>7. QED
      BY <3>3, <3>4, <3>5, <3>6 DEF LoadedInv
  <2>11. QED
    BY <1>1, <1>5, <1>6, <1>7, <2>4, <2>5, <2>9, <2>10 DEF ImageInv, PacketInv
<1>9. CASE job # "load"
  <2>1. previous' = previous /\ loaded' = loaded
    BY <1>9 DEF Finish
  <2>2. LoadInv'
    BY <1>1, <1>9 DEF LoadInv
  <2>3. LoadedInv'
    BY <1>0, <2>1 DEF LoadedInv
  <2>4. JobInv'
    BY <1>0, <1>1, <1>2, <2>1 DEF JobInv
  <2>5. DiffInv'
    <3>1. SUFFICES ASSUME job = "diff" PROVE DiffInv'
      BY <1>1 DEF DiffInv
    <3>2. pkt = DiffSoFar(CellsSeen, RowsRead) /\ loaded # None /\ pkt' = DiffFinish(pkt)
      BY <1>0, <1>1, <3>1 DEF PacketInv, DiffInv, Finish
    <3>3. PICK o : o = DiffSoFar(CellsSeen, RowsRead)
      OBVIOUS
    <3>4. DiffSoFar(CellsSeen, RowsRead)' = o
      BY <1>1, <1>4, <3>3 DEF DiffSoFar
    <3>5. DiffFinish(DiffSoFar(CellsSeen, RowsRead))' = DiffFinish(o)
      BY <2>1, <3>4 DEF DiffFinish
    <3>6. QED
      BY <1>2, <2>1, <3>2, <3>3, <3>5 DEF DiffInv
  <2>6. QED
    BY <1>1, <1>5, <1>6, <1>7, <2>2, <2>3, <2>4, <2>5 DEF ImageInv, PacketInv
<1>10. QED
  BY <1>8, <1>9

LEMMA StutterKeeps ==
  ASSUME NoEdge, ImageInv, UNCHANGED allVars
  PROVE  ImageInv'
<1>0. PassInv /\ JobInv /\ PacketInv /\ LoadedInv
  BY DEF ImageInv
<1>1. /\ scene' = scene /\ job' = job /\ ended' = ended /\ pkt' = pkt /\ previous' = previous
      /\ loaded' = loaded /\ UNCHANGED passVars
  BY DEF allVars, imageVars
<1>2. PassInv'
  BY <1>0, <1>1, PassStep
<1>3. frame' = frame /\ reading' = reading
  BY <1>1 DEF passVars, vars
<1>4. Alike(frame', frame)
  BY <1>3 DEF Alike
<1>5. Picture' = Picture /\ DiffStart' = DiffStart /\ RegionRows' = RegionRows /\ RowsRead' = RowsRead
  BY <1>1, <1>3, <1>4, PictureStays DEF RowsRead
<1>6. Seen' = Seen
  BY <1>3, <1>5 DEF Seen
<1>7. CellsSeen' = CellsSeen
  BY <1>5, <1>6 DEF CellsSeen
<1>8. JobInv'
  BY <1>0, <1>1, <1>3, <1>5 DEF JobInv
<1>9. LoadedInv'
  BY <1>0, <1>1 DEF LoadedInv
<1>10. TrackInv' /\ InfoInv' /\ HistInv'
  BY <1>0, <1>1, <1>5, <1>6 DEF PacketInv, TrackInv, InfoInv, HistInv
<1>11. LoadInv'
  <2>1. DiffSoFar(NoCells, RowsRead)' = DiffSoFar(NoCells, RowsRead)
    BY <1>5 DEF DiffSoFar
  <2>2. QED
    BY <1>0, <1>1, <1>7, <2>1 DEF PacketInv, LoadInv
<1>12. DiffInv'
  <2>1. DiffSoFar(CellsSeen, RowsRead)' = DiffSoFar(CellsSeen, RowsRead)
    BY <1>5, <1>7 DEF DiffSoFar
  <2>2. DiffFinish(DiffSoFar(CellsSeen, RowsRead))' = DiffFinish(DiffSoFar(CellsSeen, RowsRead))
    BY <1>1, <2>1 DEF DiffFinish
  <2>3. QED
    BY <1>0, <1>1, <2>1, <2>2 DEF PacketInv, DiffInv
<1>13. QED
  BY <1>2, <1>8, <1>9, <1>10, <1>11, <1>12 DEF ImageInv, PacketInv

LEMMA ImageStep ==
  ASSUME NoEdge, ImageInv, [ImageNext]_allVars
  PROVE  ImageInv'
<1>1. CASE ImagePrepare
  BY <1>1, PrepareKeeps
<1>2. CASE ImageBegin
  BY <1>2, BeginKeeps
<1>3. CASE ImageRead
  BY <1>3, ReadFacts, ScanlineKeeps, FinishKeeps
<1>4. CASE UNCHANGED allVars
  BY <1>4, StutterKeeps
<1>5. QED
  BY <1>1, <1>2, <1>3, <1>4 DEF ImageNext

(* Whatever the programs configure, load and compute one after another, a    *)
(* computation has at every row taken in exactly the pixels of the region    *)
(* above it, each once, and a template is that of the frame it was loaded    *)
(* from.                                                                     *)
THEOREM ImageInvInvariant == ASSUME NoEdge PROVE ImageSpec => []ImageInv
<1>1. ImageInv /\ [ImageNext]_allVars => ImageInv'
  BY ImageStep
<1>2. QED
  BY <1>1, ImageInitInv, PTL DEF ImageSpec

(* Tracking, statistics and histogram are those of the whole region of      *)
(* interest when cc3_pixbuf_read_rows has said that no row is left.         *)
THEOREM ResultIsRegionHolds == ASSUME NoEdge PROVE ImageSpec => []ResultIsRegion
<1>1. ImageInv => ResultIsRegion
  BY ImageFine
<1>2. QED
  BY <1>1, ImageInvInvariant, PTL

(* The frame difference finds the cells that changed since the template was *)
(* loaded.                                                                  *)
THEOREM DiffIsChangeHolds == ASSUME NoEdge PROVE ImageSpec => []DiffIsChange
<1>1. ImageInv => DiffIsChange
  BY ImageFine
<1>2. QED
  BY <1>1, ImageInvInvariant, PTL

(* The computations read the rows of the region from the top, each once and *)
(* from the right place in the FIFO: the image passes too implement the     *)
(* safety part of RowSource.                                                *)
THEOREM ImageImplementsRowSource ==
  ASSUME NoEdge
  PROVE  ImageSpec => Source!SrcInit /\ [][Source!SrcNext]_(Source!srcVars)
<1>1. ImageInit => PassInit
  BY DEF ImageInit
<1>2. [ImageNext]_allVars => [PassNext]_passVars
  BY DEF ImageNext, ImagePrepare, ImageBegin, ImageRead, PassNext, Prepare, allVars
<1>3. ImageInit => Source!SrcInit
  BY <1>1, PassStartsSource
<1>4. ImageInv /\ ImageInv' /\ [ImageNext]_allVars => [Source!SrcNext]_(Source!srcVars)
  BY <1>2, PassSimulates DEF ImageInv
<1>5. QED
  BY <1>3, <1>4, ImageInvInvariant, PTL DEF ImageSpec
=============================================================================
