SPECIFICATION Spec
CONSTANTS
  Order <- ThreeEpisodes
  ScanMax = 3
  MaxLines = 4
INVARIANT HistoryInv
PROPERTY NoRepeat
PROPERTY CycleComplete
