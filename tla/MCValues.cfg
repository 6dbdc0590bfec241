SPECIFICATION Spec
CONSTANTS
  Names = {"i", "r", "c", "s"}
  Half = 8
  IntHalf = 4
  Char = {0, 50, 97, 98}
  Programs <- AllPrograms
INVARIANTS TypeOK TagsFollowTypes FindsVariables StaysInStrings
CHECK_DEADLOCK FALSE
