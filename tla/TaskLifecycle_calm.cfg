SPECIFICATION CalmSpec
CONSTANTS
  NumChannels = 3
  MaxMsgs = 3
  MaxDeliver = 2
  MaxBusy = 2
  MaxTries = 1
INVARIANTS OneChannelPaid FailedIsRefunded DoneIsPaid RefundedOnce
CHECK_DEADLOCK FALSE
