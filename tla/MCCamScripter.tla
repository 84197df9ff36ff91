--------------------------- MODULE MCCamScripter ---------------------------
(* A program with an END and an ESC in it, a point, one that is too long.  *)
EXTENDS CamScripter
Short == [id |-> 40, params |-> <<<<END, ESC>>>>]
Point == [id |-> 70, params |-> <<<<5>>, <<6>>>>]
Long == [id |-> 30, params |-> <<<<1, 2, 3, 4, 5, 6>>>>]
MCMessages == {Short, Point, Long}
MCScripts == {<<Short, Short, Point>>, <<Point, Long, Short>>, <<Long, Point, Point>>}
=============================================================================
