SPECIFICATION Spec
CONSTANTS
  None = None
  Gateways <- MCGateways
  Orders <- MCOrders
  Amounts <- MCAmounts
  MaxNotices = 2
  Discount = 1
INVARIANTS
  OrdersAreIdempotent
CHECK_DEADLOCK FALSE
