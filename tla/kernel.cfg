SPECIFICATION Spec
CONSTANTS
  ExprCap = 3
  ResultMax = 2
INVARIANTS KTypeOK NoGhostCursor OnePatch
PROPERTY PressIsReal
