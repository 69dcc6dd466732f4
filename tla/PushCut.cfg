\* Clients that join read slowly.
SPECIFICATION Spec
CONSTANTS
  Config <- FourPlugins
  HASHLEN = 2
  Bucket <- TwoBuckets
  CHAINLEN = 1
  TimersOf <- SomeTimers
  ClockSteps <- Clock
  Epoch = 5
  MaxUpsec = 13
  Clients = {s, f}
  Askers = {s, f}
  Joiners = {s, f}
  Strangers = {}
  Slow = {s}
  Room = 2
  MaxRequests = 3
  Users = {u1, u2, u3, u4}
  Tables = {1, 2}
  TABLE_MAX = 3
  NoTable = NoTable
  Overlap = FALSE
INVARIANTS
  StreamsWhole
CHECK_DEADLOCK FALSE
