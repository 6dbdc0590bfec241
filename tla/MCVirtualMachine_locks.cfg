SPECIFICATION FairSpec
CONSTANTS
  Names = {"i", "n"}
  Half = 4
  Programs <- LockPrograms
  MaxThreads = 2
  MaxAllocs = 2
  MaxOut = 6
INVARIANTS MutualExclusion DisciplinedIsSafe OutNotInterleaved CountsUpdates
PROPERTY DisciplinedEnds
CHECK_DEADLOCK FALSE
