SPECIFICATION Spec
CONSTANTS
  Slots = 5
  Values = {v1, v2}
  Erased = Erased
  Garbage = Garbage
  MaxCuts = 1
INVARIANTS EepromInv QuietFlash
PROPERTIES RecordsKept CallsReturn
