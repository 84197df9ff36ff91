----------------------------- MODULE PixbufPass -----------------------------
(***************************************************************************)
(* The pixel buffer used the way the programs under projects/ use it: the  *)
(* camera is configured, a frame is loaded, its parameters are set while   *)
(* y_loc is 0, and a loop reads one row at a time until                    *)
(* cc3_pixbuf_read_rows returns 0; then the frame may be rewound and read  *)
(* again with other parameters, as projects/burt/main.c does.              *)
(***************************************************************************)
EXTENDS Pixbuf, Sequences

VARIABLES
  reading,   \* the program is in while (cc3_pixbuf_read_rows (pix, 1))
  got        \* FIFO position of the row the last read delivered, or -1

passVars == <<vars, reading, got>>

PassInit == Init /\ reading = FALSE /\ got = -1

(* Calls outside the loop.  Parameters of the frame change only at the top. *)
Outside == ~reading /\ got' = -1 /\ UNCHANGED reading

Grab == Outside /\ Load

Adjust == Outside /\ (Rewind \/ (frame.yloc = 0 /\ SetFrame) \/ SetCamera)

Prepare == Grab \/ Adjust

(* The loop starts on a frame that was loaded or rewound at the sensor's    *)
(* resolution.                                                              *)
BeginLoop ==
  /\ ~reading /\ synced
  /\ reading' = TRUE
  /\ UNCHANGED <<vars, got>>

LoopRead ==
  /\ reading
  /\ ReadRows(1)
  /\ IF RowsGiven(1) = 1
       THEN got' = RowStart(0) /\ UNCHANGED reading
       ELSE got' = -1 /\ reading' = FALSE

PassNext == Prepare \/ BeginLoop \/ LoopRead

PassSpec == PassInit /\ [][PassNext]_passVars /\ WF_passVars(LoopRead)

-----------------------------------------------------------------------------
(* The rows of the region, y_step apart, one for each step that fits.  When *)
(* not one fits, a region that does not start at the top still gives its    *)
(* first row, because the limit is taken before the seek to y0.             *)
RegionRows ==
  IF frame.height > 0 THEN frame.height
  ELSE IF frame.y0 > 0 /\ frame.y1 >= frame.ystep THEN 1 ELSE 0

RowsRead ==
  IF frame.yloc <= frame.y0 THEN 0
  ELSE (frame.yloc - frame.y0) \div frame.ystep

Source == INSTANCE RowSource WITH
  Lines   <- IF HiHeight > LoHeight THEN HiHeight ELSE LoHeight,
  None    <- -1,
  window  <- [i \in 1..RegionRows |-> frame.y0 + (i - 1) * frame.ystep],
  done    <- RowsRead,
  got     <- IF got = -1 THEN -1 ELSE got \div line - 1

(* Reading row by row delivers exactly the rows of the region, from the top, *)
(* each once and from the right place in the FIFO, and the loop ends.        *)
PassIsRowSource == Source!SrcSpec
=============================================================================
