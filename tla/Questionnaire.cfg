\* Two requests at a time, one required question.
CONSTANTS
  Requests = {r1, r2}
  Required = {q1}
  Texts = {a, b}
  Blank = Blank
  Unanswered = Unanswered
  Forms <- AllForms
  None = None
  MaxResponses = 2
SPECIFICATION Spec
INVARIANTS
  CompletedMeansSubmitted
  OneCompleteResponse
  AutosaveSettles
  EvaluationIsCurrent
PROPERTY SubmittedIsFinal
CHECK_DEADLOCK FALSE
SYMMETRY Symmetry
