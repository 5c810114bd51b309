SPECIFICATION SiteSpec
CONSTANTS
  None = None
  Gateways <- MCGateways
  Orders <- MCOrders
  Amounts <- MCAmounts
  MaxNotices = 2
  Discount = 1
  Roles <- MCRoles
  Tabs = {t1, t2}
  MaxTokens = 2
  MaxMoves = 1
  MaxCalls = 1
INVARIANTS
  CreditedOnce
  CreditedIsReceived
PROPERTIES
  PollingEnds
  PaymentsArrive
  
  BouncesEnd
CHECK_DEADLOCK FALSE
