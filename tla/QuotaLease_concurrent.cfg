CONSTANTS
  NumOps = 4
  Order = {1}
  Price <- MCPrice
  OpeningFunds = 2
  Adjustments <- MCAdjustments
  MaxDeposits = 2
  ChargeOp = {1, 2}
  RefundOp = {3, 4}
  OrderOf <- MCOrderOf
  MaxLease = 1
  LeaseTTL = 1
  Grace = 1
SPECIFICATION Spec
INVARIANTS
  OncePerOrder
