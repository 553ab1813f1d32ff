\* Two candidates, two requests at a time, one candidate per retention run.
CONSTANTS
  Candidates = {ann, bob}
  Slots = {q1, q2}
  MaxCandidates = 1
  MaxSteps = 5
SPECIFICATION Spec
SYMMETRY Symmetry
INVARIANTS
  NothingIsMissed
  ReportsForget
  OldestFirst
CHECK_DEADLOCK FALSE
