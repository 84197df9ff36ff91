------------------------------ MODULE RecordLog ------------------------------
(***************************************************************************)
(* What a program may expect of the emulated EEPROM of LPC2k_ee.c: a log   *)
(* of records that grows at its end and is emptied as a whole.  A record   *)
(* is damaged only by a power cut while it is written, or because a cut    *)
(* write left no record but spoiled the room of the next.                  *)
(***************************************************************************)
EXTENDS Naturals, Sequences

CONSTANTS Slots,    \* number of records the log has room for
          Values,   \* the records a program writes
          Garbage   \* what is left of a record that was damaged

VARIABLES log,      \* the records, oldest first
          owed,     \* a cut write left no record, but spoiled the room of one
          wild,     \* the power failed while the log was being emptied
          cuts      \* number of times the power failed

lvars == <<log, owed, wild, cuts>>

LogInit == log = <<>> /\ owed = FALSE /\ wild = FALSE /\ cuts = 0

Grow(e) == /\ ~wild
           /\ Len(log) < Slots
           /\ log' = Append(log, e)
           /\ owed' = FALSE
           /\ UNCHANGED wild

Add == \E v \in Values : Grow(v) /\ UNCHANGED cuts

Spoil == owed /\ Grow(Garbage) /\ UNCHANGED cuts

\* The power fails: within a write, while the log is being emptied, or at
\* a moment that harms nothing.
Cut == /\ cuts' = cuts + 1
       /\ \/ \E e \in Values \cup {Garbage} : Grow(e)
          \/ ~wild /\ owed' \in {owed, TRUE} /\ UNCHANGED <<log, wild>>
          \/ log' = <<>> /\ owed' = FALSE /\ wild' = TRUE
          \/ UNCHANGED <<log, owed, wild>>

Clear == log' = <<>> /\ owed' = FALSE /\ wild' = FALSE /\ UNCHANGED cuts

LogNext == Add \/ Spoil \/ Cut \/ Clear

LogSpec == LogInit /\ [][LogNext]_lvars
=============================================================================
