CONSTANTS
  NumOps = 3
  Order = {1, 2}
  Price <- MCPrice
  OpeningFunds = 2
  Adjustments <- MCAdjustments
  MaxDeposits = 2
  ChargeOp = {1, 2}
  RefundOp = {3}
  OrderOf <- MCOrderOf
  MaxLease = 2
  LeaseTTL = 1
  Grace = 1
SPECIFICATION Spec
INVARIANTS
  Reconciled
  RetiredRowsEmpty
PROPERTIES
  LedgerSpec
