------------------------------- MODULE MCRdcf -------------------------------
(***************************************************************************)
(* Rdcf for TLC: file names are interchangeable.                           *)
(***************************************************************************)
EXTENDS Rdcf, TLC

Symmetry == Permutations(Names)
=============================================================================
