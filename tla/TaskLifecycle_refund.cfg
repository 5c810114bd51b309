SPECIFICATION LateSpec
CONSTANTS
  NumChannels = 2
  MaxMsgs = 2
  MaxDeliver = 2
  MaxBusy = 2
  MaxTries = 0
INVARIANTS FailedIsRefunded
CHECK_DEADLOCK FALSE
