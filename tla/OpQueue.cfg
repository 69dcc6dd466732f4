\* Synchronous and asynchronous requests; the queue is full with two entries, and
\* the busy test lets one more be made.  The safety invariants and the refinement
\* are proved for all sizes in OpQueueProofs.
SPECIFICATION FairSpec
CONSTANTS
  Entries = {e1, e2, e3}
  NULL = NULL
  MAX_QUEUE_ENTRY = 1
  BusyStep = 2
  SyncFlags = {TRUE, FALSE}
INVARIANTS
  TypeOK
  QueueShape
  EntryOwned
  QueueBounded
  NoLostWakeup
  FreeWhenUnused
PROPERTIES
  ImplementsDeque
  Drained
  StopCompletes
  AsyncServed
