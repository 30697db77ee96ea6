\* Four slots: a write of three or four bytes wraps from every position but 0.
CONSTANTS
  Byte = {0, 1}
  RequestedCapacity = 4
SPECIFICATION Spec
INVARIANTS
  TypeOK
  PositionsAgree
  IoVecIsContents
  PeekReadsOldest
  SearchesFindFirst
PROPERTIES
  ImplementsFifo
  OperationsMatchFifo
