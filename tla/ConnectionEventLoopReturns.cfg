CONSTANTS
  BufferSize = 4
  SendRoom = 3
  HeaderLen = 1
  PayloadLen = 2
  ResponseLen = 2
  MaxDrops = 2
  NonBlocking = {FALSE}
  MaxPackets = 3
  MaxResponses = 2
  MaxInterrupts = 1
SPECIFICATION Spec
PROPERTY
  EventLoopReturns
\* The workload is bounded: the system stops when it is used up.
CHECK_DEADLOCK FALSE
