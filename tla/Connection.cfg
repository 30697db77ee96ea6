\* A frame has two bytes more than the buffer, and one more than the kernel takes:
\* short writes end inside the header and behind it, with a rest that fits or not.
CONSTANTS
  BufferSize = 2
  SendRoom = 3
  HeaderLen = 2
  PayloadLen = 2
  ResponseLen = 1
  MaxDrops = 2
  NonBlocking = {TRUE, FALSE}
  MaxPackets = 3
  MaxResponses = 2
  MaxInterrupts = 1
SPECIFICATION Spec
INVARIANTS
  TypeOK
  FramesContiguous
  ReportedWhole
  BlockedHoldsMutex
PROPERTIES
  HandlersReturnIfNonBlocking
  HandlersReturnIfClientReads
  ImplementsMessageStream
\* The workload is bounded: the system stops when it is used up.
CHECK_DEADLOCK FALSE
