SPECIFICATION Spec
CONSTANTS
  Callers = {c1, c2}
  HandlerCallers = {s1}
  MaxCalls = 3
  MaxFailures = 1
  Answers <- MCAnswers
INVARIANTS
  OnceInOrder
  Kept
PROPERTIES
  CallsReturn
CHECK_DEADLOCK FALSE
