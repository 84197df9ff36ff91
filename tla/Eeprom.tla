------------------------------- MODULE Eeprom -------------------------------
(***************************************************************************)
(* The EEPROM emulation of projects/eeprom-test/LPC2k_ee.c: records of one *)
(* size fill a sector of the flash from its start.  The binary search of   *)
(* ee_locate tells a free place from a used one by its first byte alone;   *)
(* ee_write programs the place it finds, ee_erase blanks the sector.  The  *)
(* power may fail between any two steps and within a flash operation.      *)
(*                                                                         *)
(* A place is its first byte (id) and the rest (data).  An address is the  *)
(* number of its place; place Slots is the first address past the sector.  *)
(***************************************************************************)
EXTENDS Integers, Sequences, FiniteSets

CONSTANTS Slots,     \* (EE_ADDR_H + 1 - EE_ADDR_L) / EE_REC_SIZE
          Values,    \* contents of the records a program writes
          Erased,    \* data of a blank place
          Garbage,   \* data that was programmed or erased in part
          MaxCuts    \* bound on the power failures

ASSUME SlotsAssumption == Slots \in Nat \ {0}
ASSUME DataAssumption == /\ Erased \notin Values
                         /\ Garbage \notin Values
                         /\ Erased # Garbage
ASSUME CutsAssumption == MaxCuts \in Nat

VARIABLES
  flash,     \* the sector
  pc,        \* what the call under way does next; "idle" between calls
  op,        \* the call: write, read or count (those that search), or erase
  value,     \* the record to write
  lo, hi, size,  \* addr_l, addr_r and size of ee_locate
  location,  \* the result of ee_locate, or Full
  enabled,   \* an interrupt is enabled in the VIC
  saved,     \* enabled_interrupts
  result,    \* result_ee[0]
  answer,    \* result_ee[1], a place or a number of records
  cuts,      \* number of power failures
  wild       \* one of them was within the last erase

ee == <<flash, wild, cuts>>
search == <<lo, hi, size>>
irq == <<enabled, saved>>
reply == <<result, answer>>
vars == <<flash, pc, op, value, lo, hi, size, location, enabled, saved,
          result, answer, cuts, wild>>

Place == 0 .. Slots - 1
Ids == {"FF", "AA", "other"}          \* blank, EE_REC_ID, anything else
Cell == [id : Ids, data : Values \cup {Erased, Garbage}]
Blank == [id |-> "FF", data |-> Erased]
Record(v) == [id |-> "AA", data |-> v]
Full == -1

\* What ee_locate and the reads test: *(unsigned char *) addr == 0xFF.
LooksBlank(s) == flash[s].id = "FF"

Steps == {"idle", "locate", "search", "located", "save", "mask",
          "program", "verify", "erase", "check"}

TypeOK ==
  /\ flash \in [Place -> Cell]
  /\ pc \in Steps
  /\ op \in {"write", "read", "count", "erase"}
  /\ value \in Values \cup {Erased}
  /\ lo \in 0 .. Slots /\ hi \in 0 .. Slots /\ size \in 0 .. Slots
  /\ location \in Full .. Slots
  /\ enabled \in BOOLEAN /\ saved \in BOOLEAN
  /\ result \in {"done", "NO_RECORDS_AVAILABLE", "NO_SPACE_IN_EEPROM",
                "INDEX_OUT_OF_RANGE", "failed"}
  /\ answer \in 0 .. Slots
  /\ cuts \in 0 .. MaxCuts
  /\ wild \in BOOLEAN

Init ==
  /\ flash = [s \in Place |-> Blank]
  /\ pc = "idle" /\ op = "erase" /\ value = Erased
  /\ lo = 0 /\ hi = 0 /\ size = 0 /\ location = 0
  /\ enabled = TRUE /\ saved = FALSE
  /\ result = "done" /\ answer = 0 /\ cuts = 0 /\ wild = FALSE
-----------------------------------------------------------------------------
(* Calls and returns                                                       *)

\* The locals of a call that is over.
Leave == /\ pc' = "idle"
         /\ lo' = 0 /\ hi' = 0 /\ size' = 0 /\ location' = 0
         /\ value' = Erased /\ saved' = FALSE

Return(r, a) == Leave /\ result' = r /\ answer' = a
-----------------------------------------------------------------------------
(* ee_locate                                                               *)

\* The array result_ee[], which the caller provides.
NewReply == result' = "done" /\ answer' = 0

\* A call that searches begins.
Call(o, v) ==
  /\ pc = "idle"
  /\ pc' = "locate" /\ op' = o
  /\ value' = IF o = "write" THEN v ELSE value
  /\ NewReply
  /\ UNCHANGED <<ee, search, location, irq>>

\* mutant: an empty sector is searched too
LocateNoEmpty ==
  /\ pc = "locate"
  /\ \/ /\ flash[Slots - 1].id = "AA"
        /\ location' = Full /\ pc' = "located" /\ UNCHANGED search
     \/ /\ flash[Slots - 1].id # "AA"
        /\ lo' = 0 /\ hi' = Slots /\ size' = Slots
        /\ pc' = "search" /\ UNCHANGED location
  /\ UNCHANGED <<ee, op, value, irq, reply>>

\* The tests before the search: an empty sector, a full one.
Locate ==
  /\ pc = "locate"
  /\ \/ /\ LooksBlank(0)
        /\ location' = 0 /\ pc' = "located" /\ UNCHANGED search
     \/ /\ ~LooksBlank(0) /\ flash[Slots - 1].id = "AA"
        /\ location' = Full /\ pc' = "located" /\ UNCHANGED search
     \/ /\ ~LooksBlank(0) /\ flash[Slots - 1].id # "AA"
        /\ lo' = 0 /\ hi' = Slots /\ size' = Slots
        /\ pc' = "search" /\ UNCHANGED location
  /\ UNCHANGED <<ee, op, value, irq, reply>>

\* An odd number of places is made even: the last place of the slice is
\* dropped if it is blank, the first one if not.
EvenLo == IF (lo + hi) % 2 # 0 /\ ~LooksBlank(hi - 1) THEN lo + 1 ELSE lo
EvenHi == IF (lo + hi) % 2 # 0 /\ LooksBlank(hi - 1) THEN hi - 1 ELSE hi
EvenSize == IF (lo + hi) % 2 # 0 THEN size - 1 ELSE size

Middle == (EvenLo + EvenHi) \div 2

\* mutant: the slice is halved, its size is not
HalveKeepsSize ==
  /\ pc = "search" /\ size # 1
  /\ IF LooksBlank(Middle)
     THEN hi' = Middle /\ lo' = EvenLo
     ELSE lo' = Middle /\ hi' = EvenHi
  /\ size' = EvenSize
  /\ UNCHANGED <<ee, pc, op, value, location, irq, reply>>

\* One round of the loop.
Halve ==
  /\ pc = "search" /\ size # 1
  /\ IF LooksBlank(Middle)
     THEN hi' = Middle /\ lo' = EvenLo
     ELSE lo' = Middle /\ hi' = EvenHi
  /\ size' = EvenSize \div 2
  /\ UNCHANGED <<ee, pc, op, value, location, irq, reply>>

Found ==
  /\ pc = "search" /\ size = 1
  /\ location' = hi /\ pc' = "located"
  /\ UNCHANGED <<ee, op, value, search, irq, reply>>
-----------------------------------------------------------------------------
(* ee_read, ee_count, ee_readn                                             *)

Read ==
  /\ pc = "located" /\ op = "read"
  /\ IF location = 0 THEN Return("NO_RECORDS_AVAILABLE", answer)
     ELSE Return("done", IF location = Full THEN Slots - 1 ELSE location - 1)
  /\ UNCHANGED <<ee, op, enabled>>

Count ==
  /\ pc = "located" /\ op = "count"
  /\ Return("done", IF location = Full THEN Slots ELSE location)
  /\ UNCHANGED <<ee, op, enabled>>

\* The index is compared with the number of places, so that the place past
\* the end is accepted; no record is looked for.
ReadN(n) ==
  /\ pc = "idle"
  /\ IF n > Slots THEN Return("INDEX_OUT_OF_RANGE", 0) ELSE Return("done", n)
  /\ UNCHANGED <<ee, op, enabled>>
-----------------------------------------------------------------------------
(* ee_write and ee_erase                                                   *)

NoSpace ==
  /\ pc = "located" /\ op = "write" /\ location = Full
  /\ Return("NO_SPACE_IN_EEPROM", answer)
  /\ UNCHANGED <<ee, op, enabled>>

BeginWrite ==
  /\ pc = "located" /\ op = "write" /\ location # Full
  /\ pc' = "save"
  /\ UNCHANGED <<ee, op, value, search, location, irq, reply>>

CallErase ==
  /\ pc = "idle"
  /\ pc' = "save" /\ op' = "erase"
  /\ NewReply
  /\ UNCHANGED <<ee, value, search, location, irq>>

\* enabled_interrupts = VICIntEnable
SaveIrq ==
  /\ pc = "save"
  /\ saved' = enabled /\ pc' = "mask"
  /\ UNCHANGED <<ee, op, value, search, location, enabled, reply>>

\* mutant: the interrupts stay on
MaskIrqSkips ==
  /\ pc = "mask"
  /\ enabled' = enabled
  /\ pc' = IF op = "erase" THEN "erase" ELSE "program"
  /\ UNCHANGED <<ee, op, value, search, location, saved, reply>>

\* VICIntEnClr = enabled_interrupts
MaskIrq ==
  /\ pc = "mask"
  /\ enabled' = (enabled /\ ~saved)
  /\ pc' = IF op = "erase" THEN "erase" ELSE "program"
  /\ UNCHANGED <<ee, op, value, search, location, saved, reply>>

\* What programming v makes of a place.  Only a blank place takes it as it is.
Programmed(s, v) ==
  IF flash[s] = Blank THEN {Record(v)} ELSE {Record(v), Record(Garbage)}

\* mutant: the rest of the buffer is not filled with 0xFF
ProgramOthers ==
  /\ pc = "program"
  /\ IF location = Slots THEN UNCHANGED flash
     ELSE \E c \in Programmed(location, value) :
            flash' = [s \in Place |-> IF s = location THEN c
                                     ELSE [flash[s] EXCEPT !.data = Garbage]]
  /\ pc' = "verify"
  /\ UNCHANGED <<cuts, wild, op, value, search, location, irq, reply>>

\* IAP command 51.  The other places of the buffer are 0xFF, which programs
\* nothing; an address past the sector was not prepared and is refused.
Program ==
  /\ pc = "program"
  /\ IF location = Slots THEN UNCHANGED flash
     ELSE \E c \in Programmed(location, value) :
            flash' = [flash EXCEPT ![location] = c]
  /\ pc' = "verify"
  /\ UNCHANGED <<cuts, wild, op, value, search, location, irq, reply>>

\* IAP command 56 and VICIntEnable = enabled_interrupts
Verify ==
  /\ pc = "verify"
  /\ Return(IF location < Slots /\ flash[location] = Record(value)
            THEN "done" ELSE "failed", answer)
  /\ enabled' = (enabled \/ saved)
  /\ UNCHANGED <<ee, op>>

\* IAP command 52
Erase ==
  /\ pc = "erase"
  /\ flash' = [s \in Place |-> Blank]
  /\ wild' = FALSE
  /\ pc' = "check"
  /\ UNCHANGED <<cuts, op, value, search, location, irq, reply>>

\* IAP command 53 and VICIntEnable = enabled_interrupts
BlankCheck ==
  /\ pc = "check"
  /\ Return(IF \A s \in Place : flash[s] = Blank THEN "done" ELSE "failed", answer)
  /\ enabled' = (enabled \/ saved)
  /\ UNCHANGED <<ee, op>>
-----------------------------------------------------------------------------
(* Interrupts and power failures                                           *)

\* An interrupt is taken whose handler disables it (interrupt.c).
Interrupt ==
  /\ enabled
  /\ enabled' = FALSE
  /\ UNCHANGED <<ee, pc, op, value, search, location, saved, reply>>

\* The program enables it again.
Enable ==
  /\ pc = "idle" /\ ~enabled
  /\ enabled' = TRUE
  /\ UNCHANGED <<ee, pc, op, value, search, location, saved, reply>>

\* What a cut program operation leaves: any of the bits to be cleared.
TornWrites(c, v) ==
  {c, Record(v)} \cup [id : {c.id, "AA", "other"}, data : {Garbage}]

\* What a cut erase leaves of a place: all, nothing, or a part of it.
TornErase(c, how) ==
  CASE how = "kept" \/ c = Blank -> c
    [] how = "blank" -> Blank
    [] OTHER -> [id |-> how, data |-> Garbage]

PowerFails ==
  /\ cuts < MaxCuts
  /\ cuts' = cuts + 1
  /\ CASE pc = "program" /\ location < Slots ->
            \E c \in TornWrites(flash[location], value) :
              flash' = [flash EXCEPT ![location] = c] /\ UNCHANGED wild
       [] pc = "erase" ->
            /\ \E how \in [Place -> {"kept", "blank", "FF", "other"}] :
                 flash' = [s \in Place |-> TornErase(flash[s], how[s])]
            /\ wild' = TRUE
       [] OTHER -> UNCHANGED <<flash, wild>>
  /\ Leave /\ NewReply
  /\ enabled' = TRUE
  /\ UNCHANGED op
-----------------------------------------------------------------------------
Calls == \/ \E o \in {"write", "read", "count"}, v \in Values : Call(o, v)
         \/ CallErase
         \/ \E n \in 0 .. Slots + 1 : ReadN(n)

Step == \/ Locate \/ Halve \/ Found
        \/ Read \/ Count \/ NoSpace \/ BeginWrite
        \/ SaveIrq \/ MaskIrq \/ Program \/ Verify \/ Erase \/ BlankCheck

Next == Calls \/ Step \/ Interrupt \/ Enable \/ PowerFails

Spec == Init /\ [][Next]_vars /\ WF_vars(Step)
-----------------------------------------------------------------------------
(* Properties                                                              *)

Used(s) == ~LooksBlank(s)

\* ee_locate, whatever the number of places and of records, finds the first
\* place without a record.  With none left it says so, except that a last
\* record whose identifier a power cut damaged makes it name the address past
\* the sector, which ee_write is then refused.
LocateFinds ==
  pc = "located" /\ ~wild =>
    IF \A s \in Place : Used(s)
    THEN location = IF flash[Slots - 1].id = "AA" THEN Full ELSE Slots
    ELSE /\ location \in Place
         /\ \A s \in Place : Used(s) <=> s < location

\* No write and no power cut during a write ever changes a record that is in
\* the sector, not even when an erase that was cut left holes among them.
Durable ==
  [][ \A s \in Place : flash[s] \in {Record(v) : v \in Values} /\ pc # "erase"
        => flash'[s] = flash[s] ]_vars

\* The flash is never programmed or erased with an interrupt enabled: its
\* handler would be fetched from the flash that is busy.
QuietFlash == pc \in {"program", "verify", "erase", "check"} => ~enabled

\* A write or an erase is reported as failed only after the power failed.
FailsOnlyAfterCut == cuts = 0 => result # "failed"

\* What holds of the sector at every step of a call, cut or not.
EepromInv == TypeOK /\ LocateFinds /\ FailsOnlyAfterCut

\* The records of the sector in the order they were written.
Log ==
  IF wild THEN << >>
  ELSE [i \in 1 .. Cardinality({s \in Place : Used(s)}) |->
          IF flash[i - 1].id = "AA" THEN flash[i - 1].data ELSE Garbage]

\* ee_read names the last record and ee_count their number, up to a sector
\* that is full.
ReadAndCountAgree ==
  [][ ~wild =>
        /\ Read => IF Log = << >> THEN result' = "NO_RECORDS_AVAILABLE"
                   ELSE result' = "done" /\ answer' + 1 = Len(Log)
        /\ Count => answer' = Len(Log) ]_vars

\* The sector is a log of records: one at most is damaged by a power cut,
\* and a later write fails at most once for it.
Spoiled == ~wild /\ \E s \in Place : LooksBlank(s) /\ flash[s] # Blank

RL == INSTANCE RecordLog WITH log <- Log, owed <- Spoiled

IsRecordLog == RL!LogSpec

\* The log is what the calls tell of it and no call harms it.
RecordsKept == IsRecordLog /\ Durable /\ ReadAndCountAgree

\* Every call returns: the binary search ends for every number of places and
\* whatever a power cut left in them.
CallsReturn == pc # "idle" ~> pc = "idle"
-----------------------------------------------------------------------------
(* The inductive invariant                                                 *)

\* Without a cut erase, records come first, and a cut write spoils at most the
\* place after them.
Filled(k) == \A s \in Place : /\ Used(s) <=> s < k
                              /\ s > k => flash[s] = Blank

Prefix == ~wild => \E k \in 0 .. Slots : Filled(k)

OpInv ==
  /\ pc \in {"locate", "search", "located"} => op # "erase"
  /\ pc \in {"save", "mask"} => op \in {"write", "erase"}
  /\ pc \in {"program", "verify"} => op = "write"
  /\ pc \in {"erase", "check"} => op = "erase"
  /\ pc # "idle" /\ op = "write" => value \in Values
  /\ pc \in {"save", "mask", "program"} /\ op = "write" => location # Full

\* The slice of ee_locate begins at a record and ends before a free place.
SearchInv ==
  pc = "search" =>
    /\ size = hi - lo /\ size >= 1
    /\ hi < Slots => LooksBlank(hi)
    /\ ~wild => Used(lo) /\ flash[Slots - 1].id # "AA"

\* Where the record goes is free, and all before it are not.
PlaceInv ==
  pc \in {"located", "save", "mask", "program"} /\ op # "erase" /\ location # Full =>
    /\ location < Slots => LooksBlank(location)
    /\ ~wild => \A s \in Place : Used(s) <=> s < location

\* Nothing is damaged before the first power failure.
SoundInv ==
  /\ cuts = 0 => ~wild /\ \A s \in Place : flash[s] = Blank \/ flash[s].id = "AA"
  /\ cuts = 0 /\ pc \in {"save", "mask", "program"} /\ op = "write" => location \in Place
  /\ cuts = 0 /\ pc = "verify" => location \in Place /\ flash[location] = Record(value)
  /\ pc = "check" => \A s \in Place : flash[s] = Blank

IrqInv == pc = "mask" /\ enabled => saved

IInv == EepromInv /\ QuietFlash /\ Prefix /\ OpInv /\ SearchInv /\ PlaceInv /\ SoundInv /\ IrqInv
=============================================================================
