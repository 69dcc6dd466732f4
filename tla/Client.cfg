\* Two programs with an event loop and one of two threads, each of several
\* triggers; one connection is closed by the server, and send() may fail.
SPECIFICATION FairSpec
CONSTANTS
  Reentrant = {"r1", "r2"}
  Programs <- Separate
  SyncFlags = {TRUE, FALSE}
  MaxPush = 2
  MaxFaults = 1
  EpipeOn = {"main", "cbk", "r1"}
  TimeoutOn = {"r1"}
  SBSIZE = 3
  MaxReqid = 2
INVARIANTS
  
  PushesInOrder
  

  
