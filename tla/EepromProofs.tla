---------------------------- MODULE EepromProofs ----------------------------
(***************************************************************************)
(* Proofs about Eeprom: for every number of places, every set of records   *)
(* and every number of power failures, the binary search of ee_locate is   *)
(* right, the flash is quiet while it is programmed, and the sector is the *)
(* log that RecordLog describes.                                           *)
(***************************************************************************)
EXTENDS Eeprom, FiniteSetTheorems, SequenceTheorems, TLAPS

LEMMA CellFacts ==
  /\ Blank \in Cell
  /\ \A v \in Values \cup {Erased, Garbage} : Record(v) \in Cell /\ Record(v).id = "AA"
                                              /\ Record(v).data = v
  /\ Blank.id = "FF"
  BY DEF Blank, Record, Cell, Ids

LEMMA InitIInv == Init => IInv
<1>1. SUFFICES ASSUME Init PROVE IInv
  OBVIOUS
<1>2. TypeOK
  <2>1. flash \in [Place -> Cell]
    BY <1>1, CellFacts DEF Init
  <2>2. 0 \in 0 .. Slots /\ 0 \in Full .. Slots /\ 0 \in 0 .. MaxCuts
    BY SlotsAssumption, CutsAssumption DEF Full
  <2>3. QED
    BY <1>1, <2>1, <2>2, Zenon DEF Init, TypeOK, Steps
<1>3. \A s \in Place : flash[s] = Blank /\ ~Used(s)
  BY <1>1, CellFacts DEF Init, Used, LooksBlank
<1>4. Prefix
  <2>1. Filled(0)
    BY <1>3 DEF Filled, Place
  <2>2. QED
    BY <2>1, SlotsAssumption DEF Prefix
<1>5. QED
  BY <1>1, <1>2, <1>3, <1>4 DEF Init, IInv, EepromInv, LocateFinds, FailsOnlyAfterCut, QuietFlash,
     OpInv, SearchInv, PlaceInv, SoundInv, IrqInv

-----------------------------------------------------------------------------
(* ee_locate *)

\* A round of the search starts from an even slice.
LEMMA EvenSlice ==
  ASSUME IInv, pc = "search", size # 1
  PROVE  /\ EvenLo \in Nat /\ EvenHi \in Nat /\ EvenHi <= hi /\ EvenLo >= lo
         /\ EvenSize = EvenHi - EvenLo /\ EvenSize >= 2
         /\ Middle - EvenLo = EvenSize \div 2 /\ EvenHi - Middle = EvenSize \div 2
         /\ Middle \in Place /\ EvenSize \div 2 >= 1
         /\ EvenHi < Slots => LooksBlank(EvenHi)
         /\ ~wild => Used(EvenLo)
<1> DEFINE odd == (lo + hi) % 2 # 0
<1>1. /\ lo \in Nat /\ hi \in Nat /\ hi <= Slots /\ Slots \in Nat /\ size = hi - lo /\ size >= 2
      /\ size \in Nat
  BY SlotsAssumption DEF IInv, EepromInv, TypeOK, SearchInv
<1>2. CASE ~odd
  <2>1. EvenLo = lo /\ EvenHi = hi /\ EvenSize = size
    BY <1>2 DEF EvenLo, EvenHi, EvenSize
  <2>2. PICK m \in Nat : lo + hi = 2 * m
    BY <1>1, <1>2
  <2>3. Middle = m /\ size \div 2 = m - lo /\ size \div 2 = hi - m
    BY <1>1, <2>1, <2>2 DEF Middle
  <2>4. QED
    BY <1>1, <2>1, <2>2, <2>3 DEF IInv, SearchInv, Place
<1>3. CASE odd
  <2>1. size >= 3
    BY <1>1, <1>3
  <2>2. PICK m \in Nat : lo + hi = 2 * m + 1
    BY <1>1, <1>3
  <2>3. EvenSize = size - 1
    BY <1>3 DEF EvenSize
  <2>4. CASE LooksBlank(hi - 1)
    <3>1. EvenLo = lo /\ EvenHi = hi - 1
      BY <1>3, <2>4 DEF EvenLo, EvenHi
    <3>2. Middle = m /\ (size - 1) \div 2 = m - lo /\ (size - 1) \div 2 = (hi - 1) - m
      BY <1>1, <2>2, <3>1 DEF Middle
    <3>3. QED
      BY <1>1, <2>1, <2>2, <2>3, <2>4, <3>1, <3>2 DEF IInv, SearchInv, Place
  <2>5. CASE ~LooksBlank(hi - 1)
    <3>1. EvenLo = lo + 1 /\ EvenHi = hi
      BY <1>3, <2>5 DEF EvenLo, EvenHi
    <3>2. Middle = m + 1 /\ (size - 1) \div 2 = (m + 1) - (lo + 1) /\ (size - 1) \div 2 = hi - (m + 1)
      BY <1>1, <2>2, <3>1 DEF Middle
    <3>3. ~wild => Used(lo + 1)
      <4>1. SUFFICES ASSUME ~wild PROVE Used(lo + 1)
        OBVIOUS
      <4>2. PICK k \in 0 .. Slots : Filled(k)
        BY <4>1 DEF IInv, Prefix
      <4>3. hi - 1 \in Place /\ lo + 1 \in Place
        BY <1>1, <2>1 DEF Place
      <4>4. hi - 1 < k
        BY <2>5, <4>2, <4>3 DEF Filled, Used
      <4>5. lo + 1 < k
        BY <1>1, <2>1, <4>4
      <4>6. QED
        BY <4>2, <4>3, <4>5 DEF Filled
    <3>4. QED
      BY <1>1, <2>1, <2>2, <2>3, <3>1, <3>2, <3>3 DEF IInv, SearchInv, Place
  <2>6. QED
    BY <2>4, <2>5
<1>4. QED
  BY <1>2, <1>3

-----------------------------------------------------------------------------
(* Steps that change the flash, and those that do not. *)

FlashKept == flash' = flash /\ wild' = wild /\ cuts' = cuts

LEMMA KeptUnless ==
  ASSUME [Next]_vars
  PROVE  FlashKept \/ Program \/ Erase \/ PowerFails
BY DEF Next, Calls, Step, Call, CallErase, ReadN, Locate, Halve, Found, Read, Count, NoSpace,
       BeginWrite, SaveIrq, MaskIrq, Verify, BlankCheck, Interrupt, Enable, vars, ee, FlashKept

LEMMA OpStep ==
  ASSUME IInv, [Next]_vars
  PROVE  OpInv'
<1> USE DEF OpInv
<1>1. OpInv
  BY DEF IInv
<1>2. CASE Calls
  BY <1>1, <1>2 DEF Calls, Call, CallErase, ReadN, Return, Leave
<1>3. CASE Step
  BY <1>1, <1>3 DEF Step, Locate, Halve, Found, Read, Count, NoSpace, BeginWrite, Return, Leave,
     SaveIrq, MaskIrq, Program, Verify, Erase, BlankCheck
<1>4. CASE Interrupt \/ Enable \/ PowerFails \/ UNCHANGED vars
  BY <1>1, <1>4 DEF Interrupt, Enable, PowerFails, Leave, vars
<1>5. QED
  BY <1>2, <1>3, <1>4 DEF Next

LEMMA IrqStep ==
  ASSUME IInv, [Next]_vars
  PROVE  QuietFlash' /\ IrqInv'
<1> USE DEF QuietFlash, IrqInv
<1>1. QuietFlash /\ IrqInv /\ enabled \in BOOLEAN /\ saved \in BOOLEAN
  BY DEF IInv, EepromInv, TypeOK
<1>2. CASE Calls
  BY <1>1, <1>2 DEF Calls, Call, CallErase, ReadN, Return, Leave
<1>3. CASE Step
  <2>1. CASE Locate \/ Halve \/ Found \/ Read \/ Count \/ NoSpace \/ BeginWrite \/ Verify \/ BlankCheck
    BY <1>1, <2>1 DEF Locate, Halve, Found, Read, Count, NoSpace, BeginWrite, Return, Leave,
       Verify, BlankCheck, irq
  <2>2. CASE SaveIrq \/ MaskIrq
    <3>1. CASE SaveIrq
      BY <1>1, <3>1 DEF SaveIrq
    <3>2. CASE MaskIrq
      <4>1. pc = "mask" /\ enabled' = (enabled /\ ~saved) /\ pc' # "mask"
        BY <3>2 DEF MaskIrq
      <4>2. ~enabled'
        BY <1>1, <4>1, Zenon
      <4>3. QED
        BY <4>1, <4>2
    <3>3. QED
      BY <2>2, <3>1, <3>2
  <2>3. CASE Program \/ Erase
    BY <1>1, <2>3 DEF Program, Erase, irq
  <2>4. QED
    BY <1>3, <2>1, <2>2, <2>3 DEF Step
<1>4. CASE Interrupt \/ Enable \/ PowerFails \/ UNCHANGED vars
  BY <1>1, <1>4 DEF Interrupt, Enable, PowerFails, Leave, vars
<1>5. QED
  BY <1>2, <1>3, <1>4 DEF Next

-----------------------------------------------------------------------------
(* What the flash holds after a write, an erase, or part of one. *)

LEMMA ProgramEffect ==
  ASSUME IInv, Program
  PROVE  /\ op = "write" /\ value \in Values /\ location \in 0 .. Slots
         /\ wild' = wild /\ cuts' = cuts /\ pc' = "verify"
         /\ location = Slots => flash' = flash
         /\ location < Slots =>
              \E c \in {Record(value), Record(Garbage)} :
                /\ flash' = [flash EXCEPT ![location] = c]
                /\ flash[location] = Blank => c = Record(value)
<1>1. pc = "program" /\ op = "write" /\ value \in Values /\ location # Full
  BY DEF Program, IInv, OpInv, EepromInv, TypeOK
<1>2. location \in 0 .. Slots
  BY <1>1, SlotsAssumption DEF IInv, EepromInv, TypeOK, Full
<1>3. wild' = wild /\ cuts' = cuts /\ pc' = "verify" /\ (location = Slots => flash' = flash)
  BY DEF Program
<1>4. ASSUME location < Slots
      PROVE  \E c \in Programmed(location, value) : flash' = [flash EXCEPT ![location] = c]
  BY <1>2, <1>4, SlotsAssumption DEF Program
<1>5. \A c \in Programmed(location, value) :
        c \in {Record(value), Record(Garbage)} /\ (flash[location] = Blank => c = Record(value))
  BY DEF Programmed
<1>6. QED
  BY <1>1, <1>2, <1>3, <1>4, <1>5

LEMMA CutEffect ==
  ASSUME IInv, PowerFails
  PROVE  /\ cuts' = cuts + 1 /\ pc' = "idle"
         /\ \/ flash' = flash /\ wild' = wild
            \/ /\ pc = "program" /\ location \in Place /\ wild' = wild
               /\ \E c \in TornWrites(flash[location], value) :
                    flash' = [flash EXCEPT ![location] = c]
            \/ wild' = TRUE /\ flash' \in [Place -> Cell] /\ pc = "erase"
<1>1. flash \in [Place -> Cell] /\ location \in Full .. Slots /\ Slots \in Nat
  BY SlotsAssumption DEF IInv, EepromInv, TypeOK
<1>2. cuts' = cuts + 1 /\ pc' = "idle"
  BY DEF PowerFails, Leave
<1>3. ASSUME pc = "program", location < Slots
      PROVE  /\ location \in Place /\ wild' = wild
             /\ \E c \in TornWrites(flash[location], value) :
                  flash' = [flash EXCEPT ![location] = c]
  <2>1. location \in Place
    BY <1>1, <1>3 DEF IInv, OpInv, EepromInv, TypeOK, Full, Place
  <2>2. QED
    BY <1>3, <2>1 DEF PowerFails
<1>4. ASSUME pc = "erase"
      PROVE  wild' = TRUE /\ flash' \in [Place -> Cell]
  <2>1. PICK how \in [Place -> {"kept", "blank", "FF", "other"}] :
          flash' = [s \in Place |-> TornErase(flash[s], how[s])] /\ wild' = TRUE
    BY <1>4 DEF PowerFails
  <2>2. \A s \in Place : TornErase(flash[s], how[s]) \in Cell
    BY <1>1, CellFacts DEF TornErase, Cell, Ids
  <2>3. QED
    BY <2>1, <2>2
<1>5. ASSUME ~(pc = "program" /\ location < Slots), pc # "erase"
      PROVE  flash' = flash /\ wild' = wild
  BY <1>5 DEF PowerFails
<1>6. QED
  BY <1>2, <1>3, <1>4, <1>5

LEMMA TypeStep ==
  ASSUME IInv, [Next]_vars
  PROVE  TypeOK'
<1>0. TypeOK /\ Slots \in Nat /\ Slots > 0 /\ 0 \in 0 .. Slots /\ 0 \in Full .. Slots
  BY SlotsAssumption DEF IInv, EepromInv, Full
<1>1. flash' \in [Place -> Cell]
  <2>1. flash \in [Place -> Cell]
    BY <1>0 DEF TypeOK
  <2>2. CASE FlashKept
    BY <2>1, <2>2 DEF FlashKept
  <2>3. CASE Program
    <3>1. Record(value) \in Cell /\ Record(Garbage) \in Cell
      BY <1>0, CellFacts DEF TypeOK
    <3>2. QED
      BY <1>0, <2>1, <2>3, <3>1, ProgramEffect DEF Place
  <2>4. CASE Erase
    BY <2>4, CellFacts DEF Erase
  <2>5. CASE PowerFails
    <3>1. \A c \in Cell, v \in Values \cup {Erased} : TornWrites(c, v) \subseteq Cell
      BY CellFacts DEF TornWrites, Cell, Ids
    <3>2. QED
      BY <1>0, <2>1, <2>5, <3>1, CutEffect DEF TypeOK
  <2>6. QED
    BY <2>2, <2>3, <2>4, <2>5, KeptUnless
<1>2. wild' \in BOOLEAN /\ cuts' \in 0 .. MaxCuts
  <2>1. CASE FlashKept
    BY <1>0, <2>1 DEF FlashKept, TypeOK
  <2>2. CASE Program \/ Erase
    BY <1>0, <2>2 DEF Program, Erase, TypeOK
  <2>3. CASE PowerFails
    <3>1. cuts' \in 0 .. MaxCuts
      BY <1>0, <2>3, CutsAssumption DEF PowerFails, TypeOK
    <3>2. wild' \in BOOLEAN
      BY <1>0, <2>3, CutEffect DEF TypeOK
    <3>3. QED
      BY <3>1, <3>2
  <2>4. QED
    BY <2>1, <2>2, <2>3, KeptUnless
<1>3. enabled' \in BOOLEAN /\ saved' \in BOOLEAN
  <2>1. enabled \in BOOLEAN /\ saved \in BOOLEAN
    BY <1>0 DEF TypeOK
  <2>2. CASE MaskIrq
    BY <2>1, <2>2, Zenon DEF MaskIrq
  <2>3. CASE SaveIrq
    <3>1. saved' = enabled /\ enabled' = enabled
      BY <2>3 DEF SaveIrq
    <3>2. QED
      BY <2>1, <3>1
  <2>4. CASE Verify \/ BlankCheck
    <3>1. saved' = FALSE /\ enabled' = (enabled \/ saved)
      BY <2>4 DEF Verify, BlankCheck, Return, Leave
    <3>2. QED
      BY <2>1, <3>1, Zenon
  <2>5. CASE Interrupt \/ Enable \/ PowerFails
    BY <2>1, <2>5 DEF Interrupt, Enable, PowerFails, Leave
  <2>6. CASE Calls
    BY <2>1, <2>6 DEF Calls, Call, CallErase, ReadN, Return, Leave, irq
  <2>7. CASE Locate \/ Halve \/ Found \/ Read \/ Count \/ NoSpace \/ BeginWrite \/ Program \/ Erase
    BY <2>1, <2>7 DEF Locate, Halve, Found, Read, Count, NoSpace, BeginWrite, Program, Erase,
       Return, Leave, irq
  <2>8. CASE UNCHANGED vars
    BY <2>1, <2>8 DEF vars
  <2>9. QED
    BY <2>2, <2>3, <2>4, <2>5, <2>6, <2>7, <2>8 DEF Next, Step
<1>4. pc' \in Steps /\ op' \in {"write", "read", "count", "erase"}
  <2> USE <1>0 DEF TypeOK, Steps
  <2>1. CASE Calls
    BY <2>1 DEF Calls, Call, CallErase, ReadN, Return, Leave
  <2>2. CASE Step
    BY <2>2 DEF Step, Locate, Halve, Found, Read, Count, NoSpace, BeginWrite, Return, Leave,
       SaveIrq, MaskIrq, Program, Verify, Erase, BlankCheck
  <2>3. CASE Interrupt \/ Enable \/ PowerFails \/ UNCHANGED vars
    BY <2>3 DEF Interrupt, Enable, PowerFails, Leave, vars
  <2>4. QED
    BY <2>1, <2>2, <2>3 DEF Next
<1>5. value' \in Values \cup {Erased}
  <2> USE <1>0 DEF TypeOK
  <2>1. CASE Calls
    BY <2>1 DEF Calls, Call, CallErase, ReadN, Return, Leave
  <2>2. CASE Step
    BY <2>2 DEF Step, Locate, Halve, Found, Read, Count, NoSpace, BeginWrite, Return, Leave,
       SaveIrq, MaskIrq, Program, Verify, Erase, BlankCheck
  <2>3. CASE Interrupt \/ Enable \/ PowerFails \/ UNCHANGED vars
    BY <2>3 DEF Interrupt, Enable, PowerFails, Leave, vars
  <2>4. QED
    BY <2>1, <2>2, <2>3 DEF Next
<1>6. lo' \in 0 .. Slots /\ hi' \in 0 .. Slots /\ size' \in 0 .. Slots /\ location' \in Full .. Slots
  <2>0. /\ lo \in 0 .. Slots /\ hi \in 0 .. Slots /\ size \in 0 .. Slots
        /\ location \in Full .. Slots
    BY <1>0 DEF TypeOK
  <2>1. CASE Halve
    <3>1. pc = "search" /\ size # 1 /\ size' = EvenSize \div 2 /\ location' = location
      BY <2>1 DEF Halve
    <3>2. (hi' = Middle /\ lo' = EvenLo) \/ (lo' = Middle /\ hi' = EvenHi)
      BY <2>1 DEF Halve
    <3>3. QED
      BY <1>0, <2>0, <3>1, <3>2, EvenSlice DEF Place
  <2>2. CASE Locate
    BY <1>0, <2>0, <2>2 DEF Locate, search, Full
  <2>3. CASE Found
    BY <1>0, <2>0, <2>3 DEF Found, search, Full
  <2>4. CASE Read \/ Count \/ NoSpace \/ Verify \/ BlankCheck \/ PowerFails
               \/ \E n \in 0 .. Slots + 1 : ReadN(n)
    BY <1>0, <2>4 DEF Read, Count, NoSpace, Verify, BlankCheck, PowerFails, ReadN, Return, Leave
  <2>5. CASE \/ BeginWrite \/ SaveIrq \/ MaskIrq \/ Program \/ Erase \/ Interrupt \/ Enable
             \/ CallErase \/ (\E o \in {"write", "read", "count"}, v \in Values : Call(o, v))
             \/ UNCHANGED vars
    BY <2>0, <2>5 DEF BeginWrite, SaveIrq, MaskIrq, Program, Erase, Interrupt, Enable,
       CallErase, Call, search, vars
  <2>6. QED
    BY <2>1, <2>2, <2>3, <2>4, <2>5 DEF Next, Step, Calls
<1>7. /\ result' \in {"done", "NO_RECORDS_AVAILABLE", "NO_SPACE_IN_EEPROM",
                     "INDEX_OUT_OF_RANGE", "failed"}
      /\ answer' \in 0 .. Slots
  <2>0. /\ result \in {"done", "NO_RECORDS_AVAILABLE", "NO_SPACE_IN_EEPROM",
                      "INDEX_OUT_OF_RANGE", "failed"}
        /\ answer \in 0 .. Slots /\ location \in Full .. Slots
    BY <1>0 DEF TypeOK
  <2>1. CASE Read \/ Count \/ NoSpace \/ Verify \/ BlankCheck
    BY <1>0, <2>0, <2>1 DEF Read, Count, NoSpace, Verify, BlankCheck, Return, Full
  <2>2. CASE Calls \/ PowerFails
    BY <1>0, <2>0, <2>2 DEF Calls, PowerFails, NewReply, ReadN, Call, CallErase, Return
  <2>3. CASE \/ Locate \/ Halve \/ Found \/ BeginWrite \/ SaveIrq \/ MaskIrq \/ Program \/ Erase
             \/ Interrupt \/ Enable \/ UNCHANGED vars
    BY <2>0, <2>3 DEF Locate, Halve, Found, BeginWrite, SaveIrq, MaskIrq, Program, Erase,
       Interrupt, Enable, reply, vars
  <2>4. QED
    BY <2>1, <2>2, <2>3 DEF Next, Step
<1>8. QED
  BY <1>1, <1>2, <1>3, <1>4, <1>5, <1>6, <1>7 DEF TypeOK

-----------------------------------------------------------------------------
(* The records stay in front. *)

LEMMA PrefixStep ==
  ASSUME IInv, [Next]_vars
  PROVE  Prefix'
<1>0. flash \in [Place -> Cell] /\ Slots \in Nat /\ Slots > 0
  BY SlotsAssumption DEF IInv, EepromInv, TypeOK
<1>1. CASE FlashKept
  BY <1>1 DEF FlashKept, IInv, Prefix, Filled, Used, LooksBlank
<1>2. ASSUME NEW c, pc = "program", op = "write", location \in Place, wild' = wild, ~wild',
             flash' = [flash EXCEPT ![location] = c]
      PROVE  \E k \in 0 .. Slots : Filled(k)'
  <2>1. \A s \in Place : Used(s) <=> s < location
    BY <1>2 DEF IInv, PlaceInv, Full, Place
  <2>2. PICK k \in 0 .. Slots : Filled(k)
    BY <1>2 DEF IInv, Prefix
  <2>3. k = location
    <3>1. ~(location < k)
      BY <1>2, <2>1, <2>2 DEF Filled, Place
    <3>2. ~(k < location)
      BY <1>0, <1>2, <2>1, <2>2 DEF Filled, Place
    <3>3. QED
      BY <1>0, <1>2, <2>2, <3>1, <3>2 DEF Place
  <2>4. \A s \in Place : s # location => flash'[s] = flash[s]
    BY <1>0, <1>2
  <2>5. CASE c.id = "FF"
    <3>1. Filled(k)'
      BY <1>0, <1>2, <2>1, <2>2, <2>3, <2>4, <2>5 DEF Filled, Used, LooksBlank, Place
    <3>2. QED
      BY <1>0, <1>2, <2>2, <2>3, <3>1 DEF Place
  <2>6. CASE c.id # "FF"
    <3>1. Filled(k + 1)'
      BY <1>0, <1>2, <2>1, <2>2, <2>3, <2>4, <2>6 DEF Filled, Used, LooksBlank, Place
    <3>2. QED
      BY <1>0, <1>2, <2>2, <2>3, <3>1 DEF Place
  <2>7. QED
    BY <2>5, <2>6
<1>3. CASE Program
  <2>1. pc = "program"
    BY <1>3 DEF Program
  <2>2. CASE location = Slots
    BY <1>1, <1>3, <2>2, ProgramEffect DEF FlashKept
  <2>3. CASE location < Slots
    BY <1>0, <1>2, <1>3, <2>1, <2>3, ProgramEffect DEF Prefix, Place
  <2>4. QED
    BY <1>0, <1>3, <2>2, <2>3, ProgramEffect
<1>4. CASE Erase
  <2>1. \A s \in Place : flash'[s] = Blank
    BY <1>4 DEF Erase
  <2>2. Filled(0)'
    BY <1>0, <2>1, CellFacts DEF Filled, Used, LooksBlank, Place
  <2>3. QED
    BY <1>0, <2>2 DEF Prefix
<1>5. CASE PowerFails
  <2>1. CASE flash' = flash /\ wild' = wild
    BY <2>1 DEF IInv, Prefix, Filled, Used, LooksBlank
  <2>2. CASE wild'
    BY <2>2 DEF Prefix
  <2>3. CASE /\ pc = "program" /\ location \in Place /\ wild' = wild
             /\ \E c \in TornWrites(flash[location], value) :
                  flash' = [flash EXCEPT ![location] = c]
    BY <1>2, <2>3 DEF IInv, OpInv, Prefix
  <2>4. QED
    BY <1>5, <2>1, <2>2, <2>3, CutEffect
<1>6. QED
  BY <1>1, <1>3, <1>4, <1>5, KeptUnless

LEMMA SearchStep ==
  ASSUME IInv, [Next]_vars
  PROVE  SearchInv'
<1> USE DEF SearchInv
<1>0. /\ SearchInv /\ Slots \in Nat /\ Slots > 0
      /\ lo \in 0 .. Slots /\ hi \in 0 .. Slots /\ size \in 0 .. Slots
  BY SlotsAssumption DEF IInv, EepromInv, TypeOK
<1>1. CASE Locate
  BY <1>0, <1>1 DEF Locate, ee, Used, LooksBlank, Place
<1>2. CASE Halve
  <2>1. pc = "search" /\ size # 1 /\ size' = EvenSize \div 2 /\ flash' = flash /\ wild' = wild
    BY <1>2 DEF Halve, ee
  <2>2. CASE LooksBlank(Middle)
    <3>1. hi' = Middle /\ lo' = EvenLo
      BY <1>2, <2>2 DEF Halve
    <3>2. QED
      BY <1>0, <2>1, <2>2, <3>1, EvenSlice DEF Place, Used, LooksBlank
  <2>3. CASE ~LooksBlank(Middle)
    <3>1. lo' = Middle /\ hi' = EvenHi
      BY <1>2, <2>3 DEF Halve
    <3>2. QED
      BY <1>0, <2>1, <2>3, <3>1, EvenSlice DEF Place, Used, LooksBlank
  <2>4. QED
    BY <2>2, <2>3
<1>3. CASE Interrupt \/ Enable \/ UNCHANGED vars
  BY <1>0, <1>3 DEF Interrupt, Enable, vars, ee, search, Used, LooksBlank
<1>4. CASE pc' # "search"
  BY <1>4
<1>5. CASE Calls \/ PowerFails \/ Found \/ Read \/ Count \/ NoSpace \/ BeginWrite
              \/ SaveIrq \/ MaskIrq \/ Program \/ Verify \/ Erase \/ BlankCheck
  BY <1>5, <1>4 DEF Calls, Call, CallErase, ReadN, PowerFails, Found, Read, Count, NoSpace, BeginWrite,
     SaveIrq, MaskIrq, Program, Verify, Erase, BlankCheck, Return, Leave
<1>6. QED
  BY <1>1, <1>2, <1>3, <1>5 DEF Next, Step

-----------------------------------------------------------------------------
(* What ee_locate answers. *)

LEMMA LocateStep ==
  ASSUME IInv, [Next]_vars, pc' = "located"
  PROVE  FlashKept /\ op' = op
         /\ \/ pc = "located" /\ location' = location
            \/ pc = "locate" /\ LooksBlank(0) /\ location' = 0
            \/ pc = "locate" /\ flash[Slots - 1].id = "AA" /\ location' = Full
            \/ pc = "search" /\ size = 1 /\ location' = hi
<1>1. CASE Locate \/ Found
  BY <1>1 DEF Locate, Found, ee, FlashKept
<1>2. CASE Interrupt \/ Enable \/ UNCHANGED vars
  BY <1>2 DEF Interrupt, Enable, vars, ee, FlashKept
<1>3. CASE Calls \/ PowerFails \/ Halve \/ Read \/ Count \/ NoSpace \/ BeginWrite
              \/ SaveIrq \/ MaskIrq \/ Program \/ Verify \/ Erase \/ BlankCheck
  BY <1>3 DEF Calls, Call, CallErase, ReadN, PowerFails, Halve, Read, Count, NoSpace, BeginWrite,
     SaveIrq, MaskIrq, Program, Verify, Erase, BlankCheck, Return, Leave
<1>4. QED
  BY <1>1, <1>2, <1>3 DEF Next, Step

\* The end of the search is the first free place.
LEMMA SearchEnds ==
  ASSUME IInv, pc = "search", size = 1
  PROVE  /\ hi \in 0 .. Slots
         /\ hi < Slots => LooksBlank(hi)
         /\ ~wild => /\ \A s \in Place : Used(s) <=> s < hi
                     /\ flash[Slots - 1].id # "AA"
<1>0. Slots \in Nat /\ Slots > 0 /\ lo \in 0 .. Slots /\ hi \in 0 .. Slots /\ hi = lo + 1
  BY SlotsAssumption DEF IInv, EepromInv, TypeOK, SearchInv
<1>1. hi < Slots => LooksBlank(hi)
  BY DEF IInv, SearchInv
<1>2. ASSUME ~wild
      PROVE  \A s \in Place : Used(s) <=> s < hi
  <2>1. PICK k \in 0 .. Slots : Filled(k)
    BY <1>2 DEF IInv, Prefix
  <2>2. lo < k
    BY <1>0, <1>2, <2>1 DEF IInv, SearchInv, Filled, Place
  <2>3. ~(hi < k)
    BY <1>0, <1>1, <2>1 DEF Filled, Used, Place
  <2>4. k = hi
    BY <1>0, <2>1, <2>2, <2>3
  <2>5. QED
    BY <2>1, <2>4 DEF Filled
<1>3. QED
  BY <1>0, <1>1, <1>2 DEF IInv, SearchInv

LEMMA LocateFindsStep ==
  ASSUME IInv, [Next]_vars
  PROVE  LocateFinds'
<1> SUFFICES ASSUME pc' = "located", ~wild' PROVE LocateFinds'
  BY DEF LocateFinds
<1>0. FlashKept /\ ~wild /\ Slots \in Nat /\ Slots > 0
  BY LocateStep, SlotsAssumption DEF FlashKept
<1> DEFINE Finds(l) == IF \A s \in Place : Used(s)
                       THEN l = IF flash[Slots - 1].id = "AA" THEN Full ELSE Slots
                       ELSE l \in Place /\ \A s \in Place : Used(s) <=> s < l
<1>1. Finds(location')
  <2>1. CASE pc = "located" /\ location' = location
    BY <1>0, <2>1 DEF IInv, EepromInv, LocateFinds
  <2>2. CASE pc = "locate" /\ LooksBlank(0) /\ location' = 0
    <3>1. PICK k \in 0 .. Slots : Filled(k)
      BY <1>0 DEF IInv, Prefix
    <3>2. k = 0 /\ 0 \in Place
      BY <1>0, <2>2, <3>1 DEF Filled, Used, Place
    <3>3. \A s \in Place : Used(s) <=> s < 0
      BY <3>1, <3>2 DEF Filled
    <3>4. ~Used(0)
      BY <2>2 DEF Used
    <3>5. QED
      BY <2>2, <3>2, <3>3, <3>4
  <2>3. CASE pc = "locate" /\ flash[Slots - 1].id = "AA" /\ location' = Full
    <3>1. PICK k \in 0 .. Slots : Filled(k)
      BY <1>0 DEF IInv, Prefix
    <3>2. Slots - 1 \in Place /\ Used(Slots - 1)
      BY <1>0, <2>3 DEF Used, LooksBlank, Place
    <3>3. k = Slots
      BY <1>0, <3>1, <3>2 DEF Filled
    <3>4. \A s \in Place : Used(s)
      BY <1>0, <3>1, <3>3 DEF Filled, Place
    <3>5. QED
      BY <2>3, <3>4
  <2>4. CASE pc = "search" /\ size = 1 /\ location' = hi
    <3>1. hi \in 0 .. Slots /\ (\A s \in Place : Used(s) <=> s < hi) /\ flash[Slots - 1].id # "AA"
      BY <1>0, <2>4, SearchEnds
    <3>2. CASE hi = Slots
      BY <1>0, <2>4, <3>1, <3>2 DEF Place
    <3>3. CASE hi < Slots
      BY <1>0, <2>4, <3>1, <3>3 DEF Place
    <3>4. QED
      BY <1>0, <3>1, <3>2, <3>3
  <2>5. QED
    BY <2>1, <2>2, <2>3, <2>4, LocateStep
<1>2. QED
  BY <1>0, <1>1 DEF LocateFinds, FlashKept, Used, LooksBlank

LEMMA PlaceStep ==
  ASSUME IInv, [Next]_vars
  PROVE  PlaceInv'
<1>0. Slots \in Nat /\ Slots > 0
  BY SlotsAssumption
<1>1. CASE pc' = "located"
  <2>1. FlashKept /\ op' = op
    BY <1>1, LocateStep
  <2>2. SUFFICES ASSUME location' # Full
                 PROVE  /\ location' < Slots => LooksBlank(location')
                        /\ ~wild => \A s \in Place : Used(s) <=> s < location'
    BY <2>1 DEF PlaceInv, FlashKept, Used, LooksBlank
  <2>3. CASE pc = "located" /\ location' = location
    BY <2>2, <2>3 DEF IInv, PlaceInv, OpInv
  <2>4. CASE pc = "locate" /\ LooksBlank(0) /\ location' = 0
    <3>1. ASSUME ~wild PROVE \A s \in Place : Used(s) <=> s < 0
      <4>1. PICK k \in 0 .. Slots : Filled(k)
        BY <3>1 DEF IInv, Prefix
      <4>2. k = 0
        BY <1>0, <2>4, <4>1 DEF Filled, Used, Place
      <4>3. QED
        BY <4>1, <4>2 DEF Filled
    <3>2. QED
      BY <2>4, <3>1
  <2>5. CASE pc = "search" /\ size = 1 /\ location' = hi
    BY <2>5, SearchEnds
  <2>6. QED
    BY <1>1, <2>2, <2>3, <2>4, <2>5, LocateStep
<1>2. CASE pc' \in {"save", "mask", "program"} /\ op' # "erase"
  <2>1. /\ FlashKept /\ op' = op /\ location' = location
        /\ pc \in {"located", "save", "mask", "program"}
    <3>1. CASE Interrupt \/ Enable \/ UNCHANGED vars
      BY <1>2, <3>1 DEF Interrupt, Enable, vars, ee, FlashKept
    <3>2. CASE BeginWrite \/ SaveIrq \/ MaskIrq
      BY <1>2, <3>2 DEF BeginWrite, SaveIrq, MaskIrq, ee, FlashKept
    <3>3. CASE Calls \/ PowerFails
      BY <1>2, <3>3 DEF Calls, Call, CallErase, ReadN, PowerFails, Return, Leave
    <3>4. CASE Locate \/ Halve \/ Found \/ Read \/ Count \/ NoSpace \/ Program \/ Verify
                 \/ Erase \/ BlankCheck
      BY <1>2, <3>4 DEF Locate, Halve, Found, Read, Count, NoSpace, Program, Verify,
         Erase, BlankCheck, Return, Leave
    <3>5. QED
      BY <3>1, <3>2, <3>3, <3>4 DEF Next, Step
  <2>2. QED
    BY <1>2, <2>1 DEF IInv, PlaceInv, FlashKept, Used, LooksBlank
<1>3. QED
  BY <1>1, <1>2 DEF PlaceInv

-----------------------------------------------------------------------------
(* Without a power failure nothing is damaged, and no call fails. *)

LEMMA SoundStep ==
  ASSUME IInv, [Next]_vars
  PROVE  SoundInv' /\ FailsOnlyAfterCut'
<1>0. /\ flash \in [Place -> Cell] /\ cuts \in Nat /\ Slots \in Nat /\ Slots > 0
      /\ SoundInv /\ FailsOnlyAfterCut
  BY SlotsAssumption, CutsAssumption DEF IInv, EepromInv, TypeOK
<1> DEFINE Sound == cuts = 0 => ~wild /\ \A s \in Place : flash[s] = Blank \/ flash[s].id = "AA"
<1>1. Sound'
  <2>1. CASE FlashKept
    BY <1>0, <2>1 DEF FlashKept, SoundInv
  <2>2. CASE Program
    BY <1>0, <2>2, CellFacts, ProgramEffect DEF SoundInv, Place, Record
  <2>3. CASE Erase
    BY <2>3 DEF Erase
  <2>4. CASE PowerFails
    BY <1>0, <2>4, CutEffect
  <2>5. QED
    BY <2>1, <2>2, <2>3, <2>4, KeptUnless
<1>2. ASSUME cuts' = 0, pc' \in {"save", "mask", "program"}, op' = "write"
      PROVE  location' \in Place
  <2>1. CASE pc = "located" /\ BeginWrite
    <3>1. cuts = 0 /\ location' = location /\ location # Full /\ pc = "located"
      BY <1>2, <2>1 DEF BeginWrite, ee
    <3>2. ~wild /\ \A s \in Place : flash[s] = Blank \/ flash[s].id = "AA"
      BY <1>0, <3>1 DEF SoundInv
    <3>3. ASSUME \A s \in Place : Used(s)
          PROVE  flash[Slots - 1].id = "AA"
      <4>1. Slots - 1 \in Place
        BY <1>0 DEF Place
      <4>2. QED
        BY <3>2, <3>3, <4>1, CellFacts DEF Used, LooksBlank
    <3>4. QED
      BY <3>1, <3>2, <3>3 DEF IInv, EepromInv, LocateFinds
  <2>2. CASE SaveIrq \/ MaskIrq \/ Interrupt \/ Enable \/ UNCHANGED vars
    BY <1>0, <1>2, <2>2 DEF SaveIrq, MaskIrq, Interrupt, Enable, vars, ee, SoundInv
  <2>3. CASE Calls \/ PowerFails
    BY <1>2, <2>3 DEF Calls, Call, CallErase, ReadN, PowerFails, Return, Leave
  <2>4. CASE Locate \/ Halve \/ Found \/ Read \/ Count \/ NoSpace \/ Program \/ Verify
               \/ Erase \/ BlankCheck
    BY <1>2, <2>4 DEF Locate, Halve, Found, Read, Count, NoSpace, Program, Verify,
       Erase, BlankCheck, Return, Leave
  <2>5. QED
    BY <2>1, <2>2, <2>3, <2>4 DEF Next, Step, BeginWrite
<1>3. ASSUME cuts' = 0, pc' = "verify"
      PROVE  location' \in Place /\ flash'[location'] = Record(value')
  <2>1. CASE Program
    <3>1. /\ cuts = 0 /\ pc = "program" /\ op = "write" /\ location' = location
          /\ value' = value /\ location \in Place
      BY <1>0, <1>3, <2>1, ProgramEffect DEF Program, SoundInv, search
    <3>2. flash[location] = Blank
      <4>1. LooksBlank(location)
        BY <1>0, <3>1 DEF IInv, PlaceInv, Full, Place
      <4>2. QED
        BY <1>0, <3>1, <4>1 DEF SoundInv, LooksBlank
    <3>3. flash' = [flash EXCEPT ![location] = Record(value)]
      BY <1>0, <2>1, <3>1, <3>2, ProgramEffect DEF Place
    <3>4. QED
      BY <1>0, <3>1, <3>3
  <2>2. CASE Interrupt \/ Enable \/ UNCHANGED vars
    BY <1>0, <1>3, <2>2 DEF Interrupt, Enable, vars, ee, SoundInv
  <2>3. CASE Calls \/ PowerFails
    BY <1>3, <2>3 DEF Calls, Call, CallErase, ReadN, PowerFails, Return, Leave
  <2>4. CASE Locate \/ Halve \/ Found \/ Read \/ Count \/ NoSpace \/ BeginWrite \/ SaveIrq \/ MaskIrq
               \/ Verify \/ Erase \/ BlankCheck
    BY <1>3, <2>4 DEF Locate, Halve, Found, Read, Count, NoSpace, BeginWrite, SaveIrq, MaskIrq,
       Verify, Erase, BlankCheck, Return, Leave
  <2>5. QED
    BY <2>1, <2>2, <2>3, <2>4 DEF Next, Step
<1>4. ASSUME pc' = "check"
      PROVE  \A s \in Place : flash'[s] = Blank
  <2>1. CASE Erase
    BY <2>1 DEF Erase
  <2>2. CASE Interrupt \/ Enable \/ UNCHANGED vars
    BY <1>0, <1>4, <2>2 DEF Interrupt, Enable, vars, ee, SoundInv
  <2>3. CASE Calls \/ PowerFails
    BY <1>4, <2>3 DEF Calls, Call, CallErase, ReadN, PowerFails, Return, Leave
  <2>4. CASE Locate \/ Halve \/ Found \/ Read \/ Count \/ NoSpace \/ BeginWrite \/ SaveIrq \/ MaskIrq
               \/ Program \/ Verify \/ BlankCheck
    BY <1>4, <2>4 DEF Locate, Halve, Found, Read, Count, NoSpace, BeginWrite, SaveIrq, MaskIrq,
       Program, Verify, BlankCheck, Return, Leave
  <2>5. QED
    BY <2>1, <2>2, <2>3, <2>4 DEF Next, Step
<1>5. FailsOnlyAfterCut'
  <2>1. SUFFICES ASSUME cuts' = 0 PROVE result' # "failed"
    BY DEF FailsOnlyAfterCut
  <2>2. CASE Verify
    <3>1. cuts = 0 /\ pc = "verify"
      BY <2>1, <2>2 DEF Verify, ee
    <3>2. location < Slots /\ flash[location] = Record(value)
      BY <1>0, <3>1 DEF SoundInv, Place
    <3>3. QED
      BY <2>2, <3>2 DEF Verify, Return
  <2>3. CASE BlankCheck
    BY <1>0, <2>3 DEF BlankCheck, Return, SoundInv
  <2>4. CASE Calls \/ PowerFails \/ Read \/ Count \/ NoSpace
    BY <1>0, <2>1, <2>4 DEF Calls, Call, CallErase, ReadN, PowerFails, Read, Count, NoSpace,
       Return, NewReply, FailsOnlyAfterCut
  <2>5. CASE \/ Locate \/ Halve \/ Found \/ BeginWrite \/ SaveIrq \/ MaskIrq \/ Program \/ Erase
             \/ Interrupt \/ Enable \/ UNCHANGED vars
    BY <1>0, <2>1, <2>5 DEF Locate, Halve, Found, BeginWrite, SaveIrq, MaskIrq, Program, Erase,
       Interrupt, Enable, vars, reply, ee, FailsOnlyAfterCut
  <2>6. QED
    BY <2>2, <2>3, <2>4, <2>5 DEF Next, Step
<1>6. QED
  BY <1>1, <1>2, <1>3, <1>4, <1>5 DEF SoundInv

(* At each step of each call of LPC2k_ee.c the search, the place it found    *)
(* and the flash fit together.                                               *)
THEOREM IInvInvariant == Spec => []IInv
<1>1. IInv /\ [Next]_vars => IInv'
  BY TypeStep, OpStep, IrqStep, PrefixStep, SearchStep, LocateFindsStep, PlaceStep, SoundStep
     DEF IInv, EepromInv
<1>2. QED
  BY <1>1, InitIInv, PTL DEF Spec

(* ee_locate's binary search finds the first free place, whatever the number *)
(* of places and of records, and a write or an erase fails only after a      *)
(* power failure.                                                            *)
THEOREM EepromInvHolds == Spec => []EepromInv
<1>1. IInv => EepromInv
  BY DEF IInv
<1>2. QED
  BY <1>1, IInvInvariant, PTL

(* ee_write and ee_erase leave no interrupt enabled while the flash is busy. *)
THEOREM QuietFlashHolds == Spec => []QuietFlash
<1>1. IInv => QuietFlash
  BY DEF IInv
<1>2. QED
  BY <1>1, IInvInvariant, PTL

-----------------------------------------------------------------------------
(* The sector as a log. *)

Entry(s) == IF flash[s].id = "AA" THEN flash[s].data ELSE Garbage

LogOf(k) ==
  /\ Log = [i \in 1 .. k |-> Entry(i - 1)]
  /\ Len(Log) = k
  /\ Spoiled <=> k < Slots /\ flash[k] # Blank

LEMMA LogIs == IInv /\ ~wild => \A k \in 0 .. Slots : Filled(k) => LogOf(k)
<1> SUFFICES ASSUME IInv, ~wild, NEW k \in 0 .. Slots, Filled(k)
             PROVE  LogOf(k)
  OBVIOUS
<1>0. Slots \in Nat /\ k \in Nat
  BY SlotsAssumption
<1>1. {s \in Place : Used(s)} = 0 .. k - 1
  BY <1>0 DEF Filled, Place
<1>2. Cardinality(0 .. k - 1) = k
  BY <1>0, FS_Interval
<1>3. Log = [i \in 1 .. k |-> Entry(i - 1)]
  BY <1>1, <1>2 DEF Log, Entry
<1>4. Len(Log) = k
  BY <1>0, <1>3
<1>5. Spoiled <=> k < Slots /\ flash[k] # Blank
  <2>1. ASSUME NEW s \in Place, LooksBlank(s), flash[s] # Blank
        PROVE  s = k
    BY <1>0, <2>1 DEF Filled, Used, Place
  <2>2. k < Slots => k \in Place /\ LooksBlank(k)
    BY <1>0 DEF Filled, Used, Place
  <2>3. QED
    BY <1>0, <2>1, <2>2 DEF Spoiled, Place
<1>6. QED
  BY <1>3, <1>4, <1>5 DEF LogOf

LEMMA LogIsNext == (IInv /\ ~wild => \A k \in 0 .. Slots : Filled(k) => LogOf(k))'
  BY LogIs, PTL

\* While the power has not failed in an erase, a log of some length is there.
LEMMA WildLog == wild => Log = << >> /\ Spoiled = FALSE
  BY DEF Log, Spoiled

LEMMA WildLogNext == (wild => Log = << >> /\ Spoiled = FALSE)'
  BY WildLog, PTL

Contents == Values \cup {Erased, Garbage}

\* One more record is an Append.
LEMMA AppendIs ==
  ASSUME NEW k \in Nat, NEW S, NEW f \in [1 .. k -> S], NEW e \in S,
         NEW g \in [1 .. k + 1 -> S], \A i \in 1 .. k : g[i] = f[i], g[k + 1] = e
  PROVE  g = Append(f, e)
<1>1. f \in Seq(S) /\ Len(f) = k
  OBVIOUS
<1>2. g \in Seq(S) /\ Len(g) = k + 1
  OBVIOUS
<1>3. /\ Append(f, e) \in Seq(S) /\ Len(Append(f, e)) = k + 1
      /\ \A i \in 1 .. k : Append(f, e)[i] = f[i]
      /\ Append(f, e)[k + 1] = e
  BY <1>1, AppendProperties
<1>4. \A i \in 1 .. k + 1 : g[i] = Append(f, e)[i]
  BY <1>3
<1>5. QED
  BY <1>2, <1>3, <1>4, SeqEqual

LEMMA EntryTyped ==
  ASSUME IInv, NEW s \in Place
  PROVE  Entry(s) \in Contents
BY DEF IInv, EepromInv, TypeOK, Cell, Entry, Contents

LEMMA EntryTypedNext == (IInv => \A s \in Place : Entry(s) \in Contents)'
<1>1. IInv => \A s \in Place : Entry(s) \in Contents
  BY EntryTyped
<1>2. QED
  BY <1>1, PTL

\* The place found is the one after the log.
LEMMA PlaceIsEnd ==
  ASSUME IInv, ~wild, pc = "program", location \in Place
  PROVE  Filled(location) /\ LooksBlank(location)
<1>0. Slots \in Nat /\ Slots > 0 /\ op = "write" /\ location # Full
  BY SlotsAssumption DEF IInv, OpInv
<1>1. LooksBlank(location) /\ \A s \in Place : Used(s) <=> s < location
  BY <1>0 DEF IInv, PlaceInv, Place
<1>2. PICK k \in 0 .. Slots : Filled(k)
  BY DEF IInv, Prefix
<1>3. ~(location < k)
  BY <1>1, <1>2 DEF Filled, Used
<1>4. ~(k < location)
  BY <1>0, <1>1, <1>2 DEF Filled, Place
<1>5. k = location
  BY <1>0, <1>2, <1>3, <1>4 DEF Place
<1>6. QED
  BY <1>1, <1>2, <1>5

LEMMA Grows ==
  ASSUME IInv, IInv', ~wild, wild' = wild, NEW k \in Place, Filled(k),
         NEW c, flash' = [flash EXCEPT ![k] = c], c.id # "FF",
         NEW e, e = IF c.id = "AA" THEN c.data ELSE Garbage
  PROVE  RL!Grow(e)
<1>0. Slots \in Nat /\ k \in Nat /\ k < Slots /\ k \in 0 .. Slots /\ k + 1 \in 0 .. Slots
      /\ flash \in [Place -> Cell]
  BY SlotsAssumption DEF Place, IInv, EepromInv, TypeOK
<1>1. flash'[k] = c /\ \A s \in Place : s # k => flash'[s] = flash[s]
  BY <1>0
<1>2. Filled(k + 1)'
  BY <1>0, <1>1 DEF Filled, Used, LooksBlank, Place
<1>3. LogOf(k) /\ LogOf(k + 1)'
  BY <1>0, <1>2, LogIs, LogIsNext
<1>4. Spoiled' = FALSE
  <2>1. k + 1 < Slots => flash'[k + 1] = Blank
    BY <1>0, <1>1 DEF Filled, Place
  <2>2. QED
    BY <1>3, <2>1 DEF LogOf, Spoiled
<1>5. Log' = Append(Log, e)
  <2>1. \A i \in 1 .. k : i - 1 \in Place /\ Entry(i - 1) \in Contents
    BY <1>0, EntryTyped DEF Place
  <2>2. \A i \in 1 .. k + 1 : i - 1 \in Place /\ Entry(i - 1)' \in Contents
    BY <1>0, EntryTypedNext DEF Place
  <2>3. Log \in [1 .. k -> Contents]
    BY <1>3, <2>1 DEF LogOf
  <2>4. Log' \in [1 .. k + 1 -> Contents]
    BY <1>3, <2>2 DEF LogOf
  <2>5. \A i \in 1 .. k : Log'[i] = Log[i]
    BY <1>0, <1>1, <1>3, <2>1 DEF LogOf, Entry
  <2>6. Log'[k + 1] = e
    BY <1>0, <1>1, <1>3 DEF LogOf, Entry
  <2>7. e \in Contents
    BY <1>0, <2>4, <2>6
  <2>8. QED
    BY <1>0, <2>3, <2>4, <2>5, <2>6, <2>7, AppendIs
<1>6. QED
  BY <1>0, <1>3, <1>4, <1>5 DEF RL!Grow, LogOf

LEMMA ProgramIsLog ==
  ASSUME IInv, IInv', Program
  PROVE  [RL!LogNext]_(RL!lvars)
<1>0. /\ value \in Values /\ location \in 0 .. Slots /\ wild' = wild /\ cuts' = cuts
      /\ pc = "program" /\ Slots \in Nat /\ wild \in BOOLEAN
  BY ProgramEffect, SlotsAssumption DEF Program, IInv, EepromInv, TypeOK
<1>1. CASE location = Slots
  BY <1>0, <1>1, ProgramEffect DEF RL!lvars, Log, Spoiled, Used, LooksBlank
<1>2. CASE wild
  BY <1>0, <1>2, WildLog, WildLogNext DEF RL!lvars
<1>3. CASE location < Slots /\ ~wild
  <2>1. location \in Place
    BY <1>0, <1>3 DEF Place
  <2>2. Filled(location) /\ LooksBlank(location)
    BY <1>0, <1>3, <2>1, PlaceIsEnd
  <2>3. PICK c \in {Record(value), Record(Garbage)} :
           flash' = [flash EXCEPT ![location] = c] /\ (flash[location] = Blank => c = Record(value))
    BY <1>3, ProgramEffect
  <2>4. CASE c = Record(value)
    <3>1. RL!Grow(value)
      <4>1. c.id = "AA" /\ c.data = value
        BY <2>4 DEF Record
      <4>2. QED
        BY <1>0, <1>3, <2>1, <2>2, <2>3, <4>1, Grows
    <3>2. QED
      BY <1>0, <3>1 DEF RL!LogNext, RL!Add
  <2>5. CASE c = Record(Garbage) /\ flash[location] # Blank
    <3>1. RL!Grow(Garbage)
      <4>1. c.id = "AA" /\ c.data = Garbage
        BY <2>5 DEF Record
      <4>2. QED
        BY <1>0, <1>3, <2>1, <2>2, <2>3, <4>1, Grows
    <3>2. Spoiled
      BY <1>3, <2>1, <2>2, <2>5 DEF Spoiled
    <3>3. QED
      BY <1>0, <3>1, <3>2 DEF RL!LogNext, RL!Spoil
  <2>6. QED
    BY <2>3, <2>4, <2>5
<1>4. QED
  BY <1>0, <1>1, <1>2, <1>3

LEMMA CutIsLog ==
  ASSUME IInv, IInv', PowerFails
  PROVE  [RL!LogNext]_(RL!lvars)
<1>0. cuts' = cuts + 1 /\ wild \in BOOLEAN /\ Slots \in Nat /\ flash \in [Place -> Cell]
  BY CutEffect, SlotsAssumption DEF IInv, EepromInv, TypeOK
<1>1. CASE flash' = flash /\ wild' = wild
  BY <1>0, <1>1 DEF RL!LogNext, RL!Cut, Log, Spoiled, Used, LooksBlank
<1>2. CASE wild' = TRUE /\ pc = "erase"
  BY <1>0, <1>2, WildLogNext DEF RL!LogNext, RL!Cut
<1>3. CASE /\ pc = "program" /\ location \in Place /\ wild' = wild
           /\ \E c \in TornWrites(flash[location], value) :
                flash' = [flash EXCEPT ![location] = c]
  <2>1. CASE wild
    BY <1>0, <1>3, <2>1, WildLog, WildLogNext DEF RL!LogNext, RL!Cut
  <2>2. CASE ~wild
    <3>1. Filled(location) /\ flash[location].id = "FF" /\ value \in Values
      BY <1>3, <2>2, PlaceIsEnd DEF LooksBlank, IInv, OpInv
    <3>2. PICK c \in TornWrites(flash[location], value) :
             flash' = [flash EXCEPT ![location] = c]
      BY <1>3
    <3>3. CASE c.id = "FF"
      <4>1. PICK k \in Place : k = location
        BY <1>3
      <4>2. k \in 0 .. Slots /\ Filled(k)
        BY <1>0, <3>1, <4>1 DEF Place
      <4>3. flash'[k] = c /\ \A s \in Place : s # k => flash'[s] = flash[s]
        BY <1>0, <3>2, <4>1
      <4>4. Filled(k)'
        BY <1>0, <3>3, <4>2, <4>3 DEF Filled, Used, LooksBlank, Place
      <4>5. LogOf(k) /\ LogOf(k)'
        BY <1>3, <2>2, <4>2, <4>4, LogIs, LogIsNext
      <4>6. Log' = Log
        <5>1. \A i \in 1 .. k : Entry(i - 1)' = Entry(i - 1)
          BY <1>0, <4>1, <4>3 DEF Entry, Place
        <5>2. QED
          BY <4>5, <5>1 DEF LogOf
      <4>7. Spoiled' \in {Spoiled, TRUE}
        <5>1. CASE c = flash[location]
          <6>1. flash'[k] = flash[k]
            BY <4>1, <4>3, <5>1
          <6>2. Spoiled' <=> Spoiled
            BY <4>5, <6>1 DEF LogOf
          <6>3. QED
            BY <6>2, Zenon DEF Spoiled
        <5>2. CASE c # flash[location]
          <6>1. c.data = Garbage
            BY <3>1, <3>2, <3>3, <5>2, CellFacts DEF TornWrites, Record
          <6>2. c # Blank
            BY <6>1, DataAssumption DEF Blank
          <6>3. QED
            BY <1>0, <4>1, <4>3, <4>5, <6>2 DEF LogOf, Spoiled, Place
        <5>3. QED
          BY <5>1, <5>2
      <4>8. QED
        BY <1>0, <1>3, <2>2, <4>6, <4>7 DEF RL!LogNext, RL!Cut
    <3>4. CASE c.id # "FF"
      <4>1. PICK e : e = IF c.id = "AA" THEN c.data ELSE Garbage
        OBVIOUS
      <4>2. e \in Values \cup {Garbage}
        BY <3>1, <3>2, <3>4, <4>1 DEF TornWrites, Record
      <4>3. RL!Grow(e)
        BY <1>3, <2>2, <3>1, <3>2, <3>4, <4>1, Grows
      <4>4. QED
        BY <1>0, <4>2, <4>3 DEF RL!LogNext, RL!Cut
    <3>5. QED
      BY <3>3, <3>4
  <2>3. QED
    BY <2>1, <2>2
<1>4. QED
  BY <1>1, <1>2, <1>3, CutEffect

LEMMA StepIsLog ==
  ASSUME IInv, IInv', [Next]_vars
  PROVE  [RL!LogNext]_(RL!lvars)
<1>1. CASE FlashKept
  BY <1>1 DEF FlashKept, RL!lvars, Log, Spoiled, Used, LooksBlank
<1>2. CASE Erase
  <2>1. ~wild' /\ cuts' = cuts /\ \A s \in Place : flash'[s] = Blank
    BY <1>2 DEF Erase
  <2>2. Filled(0)' /\ 0 \in 0 .. Slots /\ Slots > 0
    BY <2>1, CellFacts, SlotsAssumption DEF Filled, Used, LooksBlank, Place
  <2>3. LogOf(0)'
    BY <2>1, <2>2, LogIsNext
  <2>4. Log' = << >>
    BY <2>3 DEF LogOf
  <2>5. Spoiled' = FALSE
    BY <2>1 DEF Spoiled
  <2>6. wild' = FALSE
    BY <1>2 DEF Erase
  <2>7. QED
    BY <2>1, <2>4, <2>5, <2>6 DEF RL!LogNext, RL!Clear
<1>3. QED
  BY <1>1, <1>2, ProgramIsLog, CutIsLog, KeptUnless

(* The sector is a log of records: calls append to it and empty it, and a    *)
(* power failure within ee_write damages one record at most, or makes the    *)
(* next write fail.                                                          *)
THEOREM IsRecordLogHolds == Spec => IsRecordLog
<1>1. Init => RL!LogInit
  <2>1. SUFFICES ASSUME Init PROVE RL!LogInit
    OBVIOUS
  <2>2. \A s \in Place : flash[s] = Blank /\ ~Used(s)
    BY <2>1, CellFacts DEF Init, Used, LooksBlank
  <2>3. Filled(0) /\ 0 \in 0 .. Slots /\ ~wild
    BY <2>1, <2>2, SlotsAssumption DEF Init, Filled, Place
  <2>4. LogOf(0)
    BY <2>1, <2>3, InitIInv, LogIs
  <2>5. Log = << >> /\ Spoiled = FALSE
    BY <2>2, <2>4 DEF LogOf, Spoiled
  <2>6. QED
    BY <2>1, <2>5 DEF Init, RL!LogInit
<1>2. IInv /\ IInv' /\ [Next]_vars => [RL!LogNext]_(RL!lvars)
  BY StepIsLog
<1>3. QED
  BY <1>1, <1>2, IInvInvariant, PTL DEF Spec, IsRecordLog, RL!LogSpec

LEMMA DurableStep ==
  ASSUME IInv, [Next]_vars, NEW s \in Place, NEW v \in Values, flash[s] = Record(v), pc # "erase"
  PROVE  flash'[s] = flash[s]
<1>0. flash \in [Place -> Cell] /\ ~LooksBlank(s)
  BY CellFacts DEF IInv, EepromInv, TypeOK, LooksBlank
<1>1. CASE FlashKept
  BY <1>1 DEF FlashKept
<1>2. ASSUME NEW c, pc = "program", op = "write", location \in Place,
             flash' = [flash EXCEPT ![location] = c]
      PROVE  flash'[s] = flash[s]
  <2>1. LooksBlank(location)
    BY <1>2, SlotsAssumption DEF IInv, PlaceInv, Full, Place
  <2>2. QED
    BY <1>0, <1>2, <2>1
<1>3. CASE Program
  BY <1>2, <1>3, ProgramEffect, SlotsAssumption DEF Program, Place
<1>4. CASE Erase
  BY <1>4 DEF Erase
<1>5. CASE PowerFails
  BY <1>2, <1>5, CutEffect DEF IInv, OpInv
<1>6. QED
  BY <1>1, <1>3, <1>4, <1>5, KeptUnless

LEMMA ReadCountStep ==
  ASSUME IInv, ~wild
  PROVE  /\ Read => IF Log = << >> THEN result' = "NO_RECORDS_AVAILABLE"
                    ELSE result' = "done" /\ answer' + 1 = Len(Log)
         /\ Count => answer' = Len(Log)
<1> SUFFICES ASSUME pc = "located" 
             PROVE  /\ Read => IF Log = << >> THEN result' = "NO_RECORDS_AVAILABLE"
                               ELSE result' = "done" /\ answer' + 1 = Len(Log)
                    /\ Count => answer' = Len(Log)
  BY DEF Read, Count
<1>0. Slots \in Nat /\ Slots > 0 /\ location \in Full .. Slots
  BY SlotsAssumption DEF IInv, EepromInv, TypeOK
<1>1. PICK k \in 0 .. Slots : Filled(k)
  BY DEF IInv, Prefix
<1>2. Len(Log) = k /\ (Log = << >> <=> k = 0)
  <2>1. LogOf(k)
    BY <1>1, LogIs
  <2>2. QED
    BY <1>1, <2>1 DEF LogOf
<1>3. (IF location = Full THEN Slots ELSE location) = k
  <2>1. CASE \A s \in Place : Used(s)
    <3>1. k = Slots
      BY <1>0, <1>1, <2>1 DEF Filled, Place
    <3>2. location \in {Full, Slots}
      BY <2>1 DEF IInv, EepromInv, LocateFinds
    <3>3. QED
      BY <1>0, <3>1, <3>2 DEF Full
  <2>2. CASE ~\A s \in Place : Used(s)
    <3>1. location \in Place /\ \A s \in Place : Used(s) <=> s < location
      BY <2>2 DEF IInv, EepromInv, LocateFinds
    <3>2. ~(location < k)
      BY <1>1, <3>1 DEF Filled, Place
    <3>3. ~(k < location)
      BY <1>0, <1>1, <3>1 DEF Filled, Place
    <3>4. QED
      BY <1>0, <1>1, <3>1, <3>2, <3>3 DEF Full, Place
  <2>3. QED
    BY <2>1, <2>2
<1>4. QED
  BY <1>0, <1>1, <1>2, <1>3 DEF Read, Count, Return, Full

(* No write and no power failure within one changes a record that is in the  *)
(* sector, and ee_read and ee_count answer from the end of the log.          *)
THEOREM RecordsKeptHolds == Spec => RecordsKept
<1>1. IInv /\ [Next]_vars =>
        [\A s \in Place : flash[s] \in {Record(v) : v \in Values} /\ pc # "erase"
           => flash'[s] = flash[s]]_vars
  BY DurableStep
<1>2. IInv /\ [Next]_vars =>
        [~wild =>
           /\ Read => IF Log = << >> THEN result' = "NO_RECORDS_AVAILABLE"
                      ELSE result' = "done" /\ answer' + 1 = Len(Log)
           /\ Count => answer' = Len(Log)]_vars
  BY ReadCountStep
<1>3. Spec => Durable
  BY <1>1, IInvInvariant, PTL DEF Spec, Durable
<1>4. Spec => ReadAndCountAgree
  BY <1>2, IInvInvariant, PTL DEF Spec, ReadAndCountAgree
<1>5. QED
  BY <1>3, <1>4, IsRecordLogHolds DEF RecordsKept
=============================================================================
