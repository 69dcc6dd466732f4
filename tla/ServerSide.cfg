\* Four configured plugins and a clock of 13 seconds; three requests of
\* clients of which one does not join and reads slowly; four users at two
\* tables of three places.
SPECIFICATION Spec
CONSTANTS
  Config <- FourPlugins
  HASHLEN = 2
  Bucket <- TwoBuckets
  CHAINLEN = 1
  TimersOf <- SomeTimers
  ClockSteps <- Clock
  Epoch = 5
  MaxUpsec = 13
  Clients = {s, f, g, x}
  Askers = {s, f, g}
  Joiners = {f, g}
  Strangers = {x}
  Slow = {s, x}
  Room = 2
  MaxRequests = 3
  Users = {u1, u2, u3, u4}
  Tables = {1, 2}
  TABLE_MAX = 3
  NoTable = NoTable
  Overlap = FALSE
INVARIANTS
  PluginsKept
  TimersExact
  StreamsWhole
  TablesSound
\* A server that has stopped does nothing more.
CHECK_DEADLOCK FALSE
