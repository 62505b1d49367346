SPECIFICATION Spec
CONSTANTS
  Files = {f1}
  Turns = {t1}
  a = a
  b = b
  Spans = {a, b}
  Texts <- MCTexts
  Known <- MCKnown
  None = None
  MaxCalls = 2
  MaxUpsets = 0
INVARIANT WritesAreRecorded
CHECK_DEADLOCK FALSE
