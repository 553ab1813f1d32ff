\* One request at a time: what the history keeps.
CONSTANTS
  Requests = {r1}
  Required = {q1}
  Texts = {a, b}
  Blank = Blank
  Unanswered = Unanswered
  Forms <- AllForms
  None = None
  MaxResponses = 2
SPECIFICATION Spec
PROPERTY EverySaveRetained
CHECK_DEADLOCK FALSE
