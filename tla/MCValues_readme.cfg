SPECIFICATION Spec
CONSTANTS
  Names = {"myint", "mychar", "mystr", "quotient"}
  Half = 16
  IntHalf = 8
  Char = {0, 50, 97, 98}
  Programs <- ReadmeProgram
INVARIANT ReadmeValues
CHECK_DEADLOCK FALSE
