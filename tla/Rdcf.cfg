SPECIFICATION Spec
CONSTANTS
  Names = {a, b}
  Fds = {0, 1}
  Slots = {1, 2}
  MaxCluster = 4
  PerCluster = 2
  FatEntries = 3
  OpenModes = {"w", "a+"}
  Counts = {3}
  Rules = {"OpenOnce", "SeekBetween", "CloseFirst"}
  Faulty = TRUE
SYMMETRY Symmetry
INVARIANTS CardSound OpenSound SectorOfPosition ClustersAccounted
