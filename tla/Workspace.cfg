\* Two tasks, two requests at a time, two keystrokes and four transactions.
CONSTANTS
  Requests = {r1, r2}
  Tasks = {t1, t2}
  None = None
  MaxEdits = 2
  MaxStamp = 4
  MaxExcuses = 1
SPECIFICATION Spec
INVARIANTS
  NothingTypedIsLost
  TextStaysWithItsTask
  RecordedWhileActive
CHECK_DEADLOCK FALSE
SYMMETRY Symmetry
