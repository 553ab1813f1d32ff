\* One requisition, two requests at a time, four requests.
CONSTANTS
  Slots = {q1, q2}
  Dimensions = {"technical", "domain"}
  Names = {"standard"}
  Titles = {t1, t2}
  MaxRequests = 4
  Documents <- MCDocuments
  JobPosts <- MCJobPosts
  Bodies <- MCBodies
  Judgements <- MCJudgements
SPECIFICATION Spec
SYMMETRY Symmetry
INVARIANTS
  DriftHasACause
  ShownRunIsCurrent
  LoneWritersCount
  FieldsNameTheirPage
CHECK_DEADLOCK FALSE
