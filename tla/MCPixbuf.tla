------------------------------ MODULE MCPixbuf ------------------------------
(***************************************************************************)
(* Pixbuf for TLC: the coordinates, which a .cfg cannot write when they    *)
(* are negative.                                                           *)
(***************************************************************************)
EXTENDS Pixbuf

FewCoords == {-1, 1, 2, 3}
=============================================================================
