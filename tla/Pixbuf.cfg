SPECIFICATION Spec
CONSTANTS LoWidth = 2
LoHeight = 2
HiWidth = 4
HiHeight = 3
MaxShort = 15
MaxByte = 7
Coords <- FewCoords
Steps = {0, 3}
Channels = {3, 4}
RowCounts = {1, 2}
MaxPairs = 6
INVARIANTS GeometryInv Aligned SingleRowInRegion
