SPECIFICATION Spec
CONSTANTS
  Names = {"i"}
  Half = 2
  Programs <- SharedPrograms
  MaxThreads = 3
  MaxAllocs = 2
  MaxOut = 4
INVARIANTS TypeOK CleanExit NoReturnAfterFree NoJoinCycle NoNullDereference DisciplinedIsSafe
PROPERTIES IsForkJoin BarrierJoinsAll
CHECK_DEADLOCK FALSE
