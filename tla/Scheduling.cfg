\* Two staff requests at a time, slots around a gap and an overlap.
CONSTANTS
  Requests = {r1, r2}
  Offices <- TwoOffices
  Candidates = {c1, c2}
  NoOne = NoOne
  Clocks <- TwoClocks
  MaxCalls = 2
  MaxSlots = 2
  MaxMail = 3
SPECIFICATION Spec
INVARIANTS
  SlotsDisjoint
  NoTwins
  BookedIsConfirmed
  ConfirmedHolds
  RemindersAgree
SYMMETRY Symmetry
CHECK_DEADLOCK FALSE
