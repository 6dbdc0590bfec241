SPECIFICATION PSpec
CONSTANTS
  Names = {"i", "j", "c", "r", "s"}
  Half = 4
  Shapes <- DocumentedShape
INVARIANT AllContentLinked
CHECK_DEADLOCK FALSE
