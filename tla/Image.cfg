SPECIFICATION ImageSpec
CONSTANTS
  LoWidth = 2
  LoHeight = 2
  HiWidth = 4
  HiHeight = 4
  MaxShort = 15
  MaxByte = 7
  Coords = {1, 4}
  Steps = {0, 2}
  Channels = {3}
  RowCounts = {1}
  MaxPairs = 40
  Scenes <- MCScenes
  MaxPixel = 7
  Lower = 3
  Upper = 7
  NoiseFilters = {0, 1}
  MAX_PIXEL_VALUE = 6
  Bins = 3
  TemplateWidth = 2
  TemplateHeight = 2
  Threshold = 1
INVARIANTS ResultIsRegion DiffIsChange
PROPERTY PassIsRowSource
