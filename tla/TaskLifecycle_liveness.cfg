SPECIFICATION FairBusySpec
CONSTANTS
  NumChannels = 2
  MaxMsgs = 2
  MaxDeliver = 1
  MaxBusy = 1
  MaxTries = 0
INVARIANTS ChargedFirst
PROPERTIES TaskEnds
CHECK_DEADLOCK FALSE
