SPECIFICATION ButtonFairSpec
INVARIANTS
  DeafOnlyByRace
  StateIsTruth
  ReportIsFresh
PROPERTIES
  HeldIsReported
