\* One request at a time, every plan, every pre-check rule.
CONSTANTS
  Requests = {r1}
  Plans <- AllPlans
  Reports <- AllReports
  MaxTurnRows = 9
SPECIFICATION FairSpec
INVARIANTS
  GatesFailClosed
  TranscriptReplays
PROPERTIES
  ImplementsLifecycle
  InterviewEnds
CHECK_DEADLOCK FALSE
