\* Three refreshes at a time, two families.
CONSTANTS
  Requests = {r1, r2, r3}
  Families = {f1, f2}
  MaxTokens = 4
SPECIFICATION Spec
INVARIANTS
  OneHeir
  ReuseKillsFamily
  RevocationIsScoped
SYMMETRY Symmetry
CHECK_DEADLOCK FALSE
