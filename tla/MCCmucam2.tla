----------------------------- MODULE MCCmucam2 -----------------------------
(* One command or two of each kind.                                        *)
EXTENDS Cmucam2
C(n, a) == [name |-> n, arg |-> a]
MCCommands ==
  {C("PM", "1"), C("FS", "1"), C("LM", "1"), C("DC", "0"), C("RM", "4"),
   C("ST", "inverted"), C("HC", "many"), C("SM", "xy"), C("SM", "y"),
   C("VW", ""), C("HR", "1"), C("RS", ""), C("bad", ""), C("TC", "old"), C("TW", ""),
   C("GM", ""), C("GH", ""), C("FD", ""), C("LF", ""), C("SF", "1")}
=============================================================================
