SPECIFICATION Spec
CONSTANTS
  Names = {"i"}
  Half = 8
  Programs <- NotZeroOnZero
  MaxThreads = 2
  MaxAllocs = 2
  MaxOut = 2
PROPERTY JumpsIfNotZero
CHECK_DEADLOCK FALSE
