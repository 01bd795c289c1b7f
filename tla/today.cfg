SPECIFICATION TodaySpec
CONSTANTS
  Sources = {ottawa, toronto}
  Lows = {0, 2}
  Observed = {2}
  Readings <- MCReadings
  Gaps <- MCGaps
  MaxFailures = 1
  ReplayFor = 2
  Begin = 7
  End = 10
  MaxIssues = 2
SYMMETRY SourceSymmetry
INVARIANTS TodayInv HighTrue
PROPERTY ExtremesKept
