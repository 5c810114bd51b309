CONSTANTS
  NumOps = 2
  Order = {1}
  Price <- MCPrice
  OpeningFunds = 2
  Adjustments <- MCAdjustments
  MaxDeposits = 4
  ChargeOp = {1}
  RefundOp = {2}
  OrderOf <- MCOrderOf
  MaxLease = 7
  LeaseTTL = 1
  Grace = 1
SPECIFICATION FairSpec
PROPERTIES
  LeasesDrain
  
