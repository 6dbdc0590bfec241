SPECIFICATION Spec
CONSTANTS
  Names = {"i"}
  Half = 8
  Programs <- WaitingBlock
  MaxThreads = 2
  MaxAllocs = 2
  MaxOut = 2
INVARIANT ThreadsVectorSafe
CHECK_DEADLOCK FALSE
