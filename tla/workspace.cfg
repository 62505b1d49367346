SPECIFICATION MCSpec
CONSTANTS
  Files = {f1, f2}
  Turns = {t1, t2}
  a = a
  b = b
  Spans = {a, b}
  Texts <- MCTexts
  Known <- MCKnown
  None = None
  MaxCalls = 2
  MaxUpsets = 1
SYMMETRY Interchangeable
INVARIANTS
  TypeOK
  UndoRestores
  UndoChecksFirst
  ReplacedIsKept
CHECK_DEADLOCK FALSE
