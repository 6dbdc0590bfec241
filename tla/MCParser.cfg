SPECIFICATION PSpec
CONSTANTS
  Names = {"i", "j", "c", "r", "s"}
  Half = 4
  Shapes <- AllShapes
INVARIANTS ParserTypeOK RefusesExactly KeepsOrder OneMutexPerScope JumpsToLastLabel LinkedIsCode DeclaredBeforeUse OperandsTyped
CHECK_DEADLOCK FALSE
