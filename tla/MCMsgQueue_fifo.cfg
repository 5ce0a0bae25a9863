SPECIFICATION Spec
CONSTANTS
  NumQueues = 1
  QSize = 2
  SerialMod = 4
  Values = {0, 1, 2, 3}
  Requests <- MixedRequests
  MsiDepth = 2
  Doorbells = {"irq0", "mbox"}
  RingOnPop = TRUE
  MaxOutstanding = 4
  MaxReq = 4
  MaxOther = 0
PROPERTY ImplementsChannel
CHECK_DEADLOCK FALSE
