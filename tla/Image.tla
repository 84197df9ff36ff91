------------------------------- MODULE Image -------------------------------
(***************************************************************************)
(* The image library (lib/cc3-ilp) on top of the pixel buffer: colour      *)
(* tracking, colour statistics, histogram and frame difference.  Each is a *)
(* start, a scanline for every row that cc3_pixbuf_read_rows delivers, and *)
(* a finish.  The programs under projects/ run one such pass after another *)
(* and set the frame and the camera in between.                            *)
(*                                                                         *)
(* A pixel is one number, the channel that is looked at; a scene gives the *)
(* pixel at each line and column.  What a row holds is found by the place  *)
(* in the FIFO it was read from.                                           *)
(***************************************************************************)
EXTENDS PixbufPass, FiniteSetsExt

CONSTANTS
  Scenes,        \* bound: what the camera sees, [0..line] -> [0..column] -> pixel
  MaxPixel,      \* largest pixel
  Lower, Upper,  \* bounds of the colour tracked
  NoiseFilters,  \* bound: noise filters
  MAX_PIXEL_VALUE, Bins,          \* of the histogram
  TemplateWidth, TemplateHeight,  \* of the frame difference
  Threshold

ASSUME PixelAssumption ==
  /\ MaxPixel \in Nat /\ Lower \in 0 .. MaxPixel /\ Upper \in Lower .. MaxPixel
  /\ NoiseFilters \subseteq Nat
  /\ Bins \in Nat \ {0} /\ MAX_PIXEL_VALUE \in Nat
  /\ TemplateWidth \in Nat \ {0} /\ TemplateHeight \in Nat \ {0} /\ Threshold \in Nat

(* What the camera sees covers the larger resolution, which is the wider    *)
(* and the higher one, and the template is no larger than that.             *)
ASSUME SceneAssumption ==
  /\ LoWidth <= HiWidth /\ LoHeight <= HiHeight
  /\ TemplateWidth <= HiWidth /\ TemplateHeight <= HiHeight
  /\ Scenes \subseteq [0 .. HiHeight - 1 -> [0 .. HiWidth - 1 -> 0 .. MaxPixel]]

VARIABLES
  scene,      \* the picture in the FIFO
  job,        \* the computation under way, or the last one
  ended,      \* it has finished
  pkt,        \* its packet
  previous,   \* previous_template
  loaded      \* history: scene and frame of previous

imageVars == <<scene, job, ended, pkt, previous, loaded>>
allVars == <<passVars, imageVars>>

Jobs == {"track", "info", "hist", "load", "diff"}
UINT16_MAX == 2 * MaxShort + 1
None == [none |-> TRUE]
Cells == (0 .. TemplateWidth - 1) \X (0 .. TemplateHeight - 1)

\* The row just read: img->pix.
RowPixels ==
  [x \in 0 .. frame.width - 1 |->
     scene[RowStart(0) \div line - 1]
          [2 * (RowStart(0) % line) + frame.x0 + x * frame.xstep]]
-----------------------------------------------------------------------------
(* A set of places taken into a bounding box, its centroid and its count.   *)

EmptyBox == [x0 |-> UINT16_MAX, y0 |-> UINT16_MAX, x1 |-> 0, y1 |-> 0,
             cx |-> 0, cy |-> 0, num |-> 0, density |-> 0]

Take(b, places) ==
  LET xs == {p[1] : p \in places}
      ys == {p[2] : p \in places}
  IN IF places = {} THEN b
     ELSE [b EXCEPT !.x0 = Min({@} \cup xs), !.y0 = Min({@} \cup ys),
                    !.x1 = Max({@} \cup xs), !.y1 = Max({@} \cup ys),
                    !.cx = @ + SumFunction([p \in places |-> p[1]]),
                    !.cy = @ + SumFunction([p \in places |-> p[2]]),
                    !.num = @ + Cardinality(places)]

\* The density divides by the sides, 0 for a line of places.
Closed(b, scale) ==
  IF b.num = 0 THEN [EmptyBox EXCEPT !.x0 = 0, !.y0 = 0]
  ELSE [b EXCEPT !.density = Quot(b.num * scale, (b.x1 - b.x0) * (b.y1 - b.y0)),
                 !.cx = @ \div b.num, !.cy = @ \div b.num]
-----------------------------------------------------------------------------
(* Colour tracking: cc3_track_color_scanline_start, _scanline and _finish   *)

Good(p) == p \in Lower .. Upper

TrackStart(noise) == [noise |-> noise, y |-> 0, box |-> EmptyBox]

\* seq_count
RunLengths(row) ==
  LET Run[x \in -1 .. frame.width - 1] ==
        IF x = -1 THEN 0 ELSE IF Good(row[x]) THEN Run[x - 1] + 1 ELSE 0
  IN Run

\* mutant: the row number stays
TrackScanlineStays(p, row) ==
  LET run == RunLengths(row)
  IN [p EXCEPT !.box = Take(@, {<<x, p.y>> : x \in {i \in DOMAIN row : run[i] > p.noise}})]

TrackScanline(p, row) ==
  LET run == RunLengths(row)
  IN [p EXCEPT !.y = @ + 1,
               !.box = Take(@, {<<x, p.y>> : x \in {i \in DOMAIN row : run[i] > p.noise}})]

TrackFinish(p) == [p EXCEPT !.box = Closed(@, 1000)]
-----------------------------------------------------------------------------
(* Colour statistics: cc3_color_info_scanline_start, _scanline and _finish  *)

InfoStart == [sum |-> 0, pix |-> 0, min |-> MaxPixel, max |-> 0, mean |-> 0, deviation |-> 0]

InfoScanline(p, row) ==
  LET pixels == {row[x] : x \in DOMAIN row} IN
  [p EXCEPT !.sum = @ + SumFunction(row),
            !.pix = @ + Cardinality(DOMAIN row),
            !.min = Min({@} \cup pixels), !.max = Max({@} \cup pixels)]

\* Of no rows the minimum is above the maximum, and the bytes wrap.
InfoFinish(p) ==
  LET mean == Quot(p.sum, p.pix) IN
  [p EXCEPT !.mean = mean,
            !.deviation = Quot((p.max - mean) + (mean - p.min), 2) % (MaxPixel + 1)]
-----------------------------------------------------------------------------
(* Histogram: cc3_histogram_scanline_start and _scanline                    *)

HistStart == [hist |-> [i \in 0 .. Bins - 1 |-> 0], div |-> MAX_PIXEL_VALUE \div Bins]

\* The two lowest quotients share a bin.
Bin(p, v) ==
  LET i == Quot(v, p.div)
      j == IF i > 0 THEN i - 1 ELSE i
  IN IF j >= Bins THEN Bins - 1 ELSE j

HistScanline(p, row) ==
  [p EXCEPT !.hist = [i \in DOMAIN @ |->
                        @[i] + Cardinality({x \in DOMAIN row : Bin(p, row[x]) = i})]]
-----------------------------------------------------------------------------
(* Frame difference: cc3_frame_diff_scanline_start, _scanline and _finish.  *)
(* total_x and total_y are the size of the frame when the pass starts.      *)

NoCells == [c \in Cells |-> 0]

DiffStart == [current |-> NoCells, y |-> 0, box |-> EmptyBox,
              binx |-> frame.width \div TemplateWidth,
              biny |-> frame.height \div TemplateHeight]

\* mutant: the cells of a row are counted from the top of the row's bin
AddRowShifted(cells, p, row) ==
  [c \in Cells |->
     cells[c] + SumFunctionOnSet(row,
       {x \in DOMAIN row : c = <<Quot(x, p.binx), Quot(p.y + 1, p.biny)>>})]

\* What does not fill a bin at the right and at the bottom is left out.
AddRow(cells, p, row) ==
  [c \in Cells |->
     cells[c] + SumFunctionOnSet(row,
       {x \in DOMAIN row : c = <<Quot(x, p.binx), Quot(p.y, p.biny)>>})]

Averages(cells, p) == [c \in Cells |-> Quot(cells[c], p.binx * p.biny)]

Apart(a, b) == IF a > b THEN a - b ELSE b - a

DiffFinish(p) ==
  LET now == Averages(p.current, p)
      changed == {c \in Cells : Apart(now[c], previous[c]) > Threshold}
  IN [p EXCEPT !.current = now, !.box = Closed(Take(@, changed), 100)]
-----------------------------------------------------------------------------
ImageInit ==
  /\ PassInit
  /\ scene \in Scenes
  /\ job = "none" /\ ended = FALSE /\ pkt = None
  /\ previous = NoCells /\ loaded = None

\* A load that finds the camera on takes a new picture.
ImagePrepare ==
  /\ \/ Grab /\ scene' \in (IF power THEN Scenes ELSE {scene})
     \/ Adjust /\ UNCHANGED scene
  /\ job' = "none" /\ ended' = FALSE /\ pkt' = None
  /\ UNCHANGED <<previous, loaded>>

\* A difference is asked for when a template was loaded.
Start(j) ==
  /\ job' = j /\ ended' = FALSE
  /\ \/ j = "track" /\ \E n \in NoiseFilters : pkt' = TrackStart(n)
     \/ j = "info" /\ pkt' = InfoStart
     \/ j = "hist" /\ pkt' = HistStart
     \/ j = "load" /\ pkt' = DiffStart
     \/ j = "diff" /\ loaded # None /\ pkt' = DiffStart
  /\ IF j = "load" THEN previous' = NoCells /\ loaded' = None
     ELSE UNCHANGED <<previous, loaded>>

\* The programs load or rewind the frame before every pass.
ImageBegin ==
  /\ BeginLoop /\ frame.yloc = 0
  /\ \E j \in Jobs : Start(j)
  /\ UNCHANGED scene

Scanline ==
  /\ \/ job = "track" /\ pkt' = TrackScanline(pkt, RowPixels) /\ UNCHANGED previous
     \/ job = "info" /\ pkt' = InfoScanline(pkt, RowPixels) /\ UNCHANGED previous
     \/ job = "hist" /\ pkt' = HistScanline(pkt, RowPixels) /\ UNCHANGED previous
     \/ /\ job = "load" /\ previous' = AddRow(previous, pkt, RowPixels)
        /\ pkt' = [pkt EXCEPT !.y = @ + 1]
     \/ /\ job = "diff" /\ UNCHANGED previous
        /\ pkt' = [pkt EXCEPT !.y = @ + 1, !.current = AddRow(@, pkt, RowPixels)]
  /\ UNCHANGED <<ended, loaded>>

Finish ==
  /\ \/ job = "track" /\ pkt' = TrackFinish(pkt) /\ UNCHANGED <<previous, loaded>>
     \/ job = "info" /\ pkt' = InfoFinish(pkt) /\ UNCHANGED <<previous, loaded>>
     \/ job = "hist" /\ UNCHANGED <<pkt, previous, loaded>>
     \/ /\ job = "load" /\ previous' = Averages(previous, pkt)
        /\ loaded' = [scene |-> scene, frame |-> [frame EXCEPT !.yloc = 0]]
        /\ UNCHANGED pkt
     \/ job = "diff" /\ pkt' = DiffFinish(pkt) /\ UNCHANGED <<previous, loaded>>
  /\ ended' = TRUE

ImageRead ==
  /\ LoopRead
  /\ IF RowsGiven(1) = 1 THEN Scanline ELSE Finish
  /\ UNCHANGED <<scene, job>>

ImageNext == ImagePrepare \/ ImageBegin \/ ImageRead

ImageSpec == ImageInit /\ [][ImageNext]_allVars /\ WF_allVars(ImageRead)
-----------------------------------------------------------------------------
(* Properties                                                              *)

Box == [x0 : 0 .. UINT16_MAX, y0 : 0 .. UINT16_MAX, x1 : 0 .. HiWidth, y1 : 0 .. HiHeight,
        cx : Nat, cy : Nat, num : Nat, density : Nat]

ImageTypeOK ==
  /\ scene \in Scenes /\ job \in Jobs \cup {"none"} /\ ended \in BOOLEAN
  /\ previous \in [Cells -> Nat]
  /\ loaded # None => loaded.scene \in Scenes /\ loaded.frame \in Frame
  /\ job = "track" => pkt \in [noise : NoiseFilters, y : Nat, box : Box]
  /\ job = "info" => pkt \in [sum : Nat, pix : Nat, min : 0 .. MaxPixel, max : 0 .. MaxPixel,
                              mean : 0 .. MaxPixel, deviation : 0 .. MaxPixel]
  /\ job = "hist" => pkt \in [hist : [0 .. Bins - 1 -> Nat], div : Nat]
  /\ job \in {"load", "diff"} =>
       pkt \in [current : [Cells -> Nat], y : Nat, box : Box, binx : Nat, biny : Nat]

\* The pixels of the region of interest, by column and row.
RegionOf(f, rows) == (0 .. f.width - 1) \X (0 .. rows - 1)
PixelOf(s, f, p) == s[f.y0 + p[2] * f.ystep][f.x0 + p[1] * f.xstep]
Region == RegionOf(frame, RegionRows)
Pixel(p) == PixelOf(scene, frame, p)

IsBoxOf(b, places) ==
  /\ b.num = Cardinality(places)
  /\ IF places = {} THEN b = [x \in DOMAIN b |-> 0]
     ELSE /\ <<b.x0, b.y0>> = <<Min({p[1] : p \in places}), Min({p[2] : p \in places})>>
          /\ <<b.x1, b.y1>> = <<Max({p[1] : p \in places}), Max({p[2] : p \in places})>>
          /\ b.cx \in b.x0 .. b.x1 /\ b.cy \in b.y0 .. b.y1

\* Tracking finds the pixels of the region whose colour is within the bounds,
\* each after as many more to its left as the noise filter asks for, whatever
\* rows and pairs the pass read; an object that fills its box is dense.
TrackIsRegion ==
  job = "track" /\ ended =>
    LET found == {p \in Region : \A k \in 0 .. pkt.noise :
                     p[1] >= k /\ Good(Pixel(<<p[1] - k, p[2]>>))}
        b == pkt.box
    IN /\ IsBoxOf(b, found)
       /\ found = (b.x0 .. b.x1) \X (b.y0 .. b.y1) /\ b.x0 < b.x1 /\ b.y0 < b.y1
            => b.density >= 1000

\* The statistics are those of the pixels of the region.
InfoIsRegion ==
  job = "info" /\ ended /\ Region # {} =>
    LET pixels == {Pixel(p) : p \in Region} IN
    /\ pkt.min = Min(pixels) /\ pkt.max = Max(pixels)
    /\ pkt.mean = SumFunction([p \in Region |-> Pixel(p)]) \div Cardinality(Region)
    /\ pkt.deviation = (Max(pixels) - Min(pixels)) \div 2

\* Every pixel of the region is in one bin, brighter ones not in a lower one.
HistIsRegion ==
  job = "hist" /\ ended =>
    \A i \in 0 .. Bins - 1 :
      \E least \in 0 .. MaxPixel + 1 :
        SumFunctionOnSet(pkt.hist, i .. Bins - 1)
          = Cardinality({p \in Region : Pixel(p) >= least})

\* Each computation over the rows is the one over the region, row boundaries,
\* skipped pairs and empty regions included.
ResultIsRegion == ImageTypeOK /\ TrackIsRegion /\ InfoIsRegion /\ HistIsRegion

\* Where the region is the one the template was loaded from and no smaller
\* than the template, the difference finds the cells whose average differs by
\* more than the threshold, whatever was computed and read in between.
CellPixels(c, f) ==
  LET bx == f.width \div TemplateWidth
      by == f.height \div TemplateHeight
  IN (c[1] * bx .. (c[1] + 1) * bx - 1) \X (c[2] * by .. (c[2] + 1) * by - 1)

Average(s, f, c) ==
  SumFunction([p \in CellPixels(c, f) |-> PixelOf(s, f, p)]) \div Cardinality(CellPixels(c, f))

DiffIsChange ==
  job = "diff" /\ ended /\ loaded.frame = [frame EXCEPT !.yloc = 0]
      /\ frame.width >= TemplateWidth /\ frame.height >= TemplateHeight =>
    IsBoxOf(pkt.box,
      {c \in Cells : LET now == Average(scene, frame, c)
                         then == Average(loaded.scene, frame, c)
                     IN now > then + Threshold \/ then > now + Threshold})
=============================================================================
