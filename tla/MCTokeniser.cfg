SPECIFICATION TSpec
CONSTANTS
  Chars <- AllChars
  Texts <- ManyTexts
  Instructions <- XAndVar
  Declare <- Var
  Arity <- ArityOfBoth
  Keywords <- OneKeyword
  CurrentInst <- Reserved
INVARIANTS CutsOutsideQuotes ArgumentsWhole ReadsExactly
CHECK_DEADLOCK FALSE
