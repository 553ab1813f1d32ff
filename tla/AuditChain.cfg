\* Two transactions, two organizations, three events.
CONSTANTS
  Writers = {w1, w2}
  Orgs = {o1, o2}
  Contents = {c1, c2}
  MaxEvents = 3
SPECIFICATION Spec
INVARIANTS
  SerialChainIntact
  TamperEvident
  EveryLinkIsRecorded
SYMMETRY Symmetry
CHECK_DEADLOCK FALSE
