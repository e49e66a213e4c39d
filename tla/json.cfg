SPECIFICATION Spec
CONSTANTS
  NumTokens = 4
  MaxLen = 7
INVARIANTS TokensNest SizesRight
PROPERTY ImplementsBrackets
CHECK_DEADLOCK FALSE
