SPECIFICATION PromptFairSpec
CONSTANTS
  NumKeys = 2
  Proc = {p1, p2}
  Limit = 2
  StaleAfter = 2
  MaxCalls = 1
  MaxRows = 2
INVARIANTS RefundedOnce AnswerKept
PROPERTIES RefundsArrive 
CHECK_DEADLOCK FALSE
