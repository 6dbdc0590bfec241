SPECIFICATION Spec
CONSTANTS
  Names = {"i"}
  Half = 8
  Programs <- JumpInBlock
  MaxThreads = 2
  MaxAllocs = 2
  MaxOut = 2
PROPERTY LandsAfterLabel
CHECK_DEADLOCK FALSE
