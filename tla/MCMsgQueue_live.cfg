SPECIFICATION FairSpec
CONSTANTS
  NumQueues = 2
  QSize = 1
  SerialMod = 4
  Values = {0, 1, 2, 3}
  Requests <- OneRequest
  MsiDepth = 2
  Doorbells = {"msi"}
  RingOnPop = TRUE
  MaxOutstanding = 2
  MaxReq = 2
  MaxOther = 1
PROPERTY Answered
CHECK_DEADLOCK FALSE
