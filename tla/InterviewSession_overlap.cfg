\* Two requests in progress at the same time.
CONSTANTS
  Requests = {r1, r2}
  Plans <- ShortPlan
  Reports <- TwoReports
  MaxTurnRows = 4
SPECIFICATION Spec
INVARIANTS
  ConsentAndPrecheckOnRecord
  StatusAudited
  AskedInPlanOrder
  TurnsFollowAnswers
SYMMETRY Symmetry
CHECK_DEADLOCK FALSE
