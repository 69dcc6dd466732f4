\* Length field of 2 bytes, messages of 3 to 6 bytes (5 and 6 accepted), buffers of 7.
SPECIFICATION FairSpec
CONSTANTS
  HDR = 2
  MINPKT = 2
  MAXPKT = 6
  SBSIZE = 7
  MINBODY = 3
  Streams <- AllStreams
  Garbage = {0, 3, 5}
  MaxMessages = 3
INVARIANTS
  TypeOK
  MessagesIntact
  BuffersFit
  NothingHeldBack
PROPERTIES
  EveryMessageParsed
