\* Ten slots: two requests of five bytes come round, a third straddles nothing;
\* with a frame or a longer request before them they straddle the end.
CONSTANTS
  Byte <- MCByte
  RequestedCapacity = 10
  kMaxRtspRequestDataLen = 8
  Methods <- MCMethods
  Message <- MCMessage
  Junk = {10, 98}
  MaxMessages = 3
SPECIFICATION ReaderSpec
INVARIANTS
  ReaderTypeOK
  RequestsByBytesAlone
  IntactUnlessStraddling
  WellBehavedIsServed
PROPERTY
  InputIsTaken
\* A closed connection does nothing more.
CHECK_DEADLOCK FALSE
