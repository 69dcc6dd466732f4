\* Nobody quits or joins under the name of another.
SPECIFICATION Spec
CONSTANTS
  c1 = c1  c2 = c2  u1 = u1  u2 = u2
  Conns = {c1, c2}
  Uids = {u1, u2}
  Fds = {3, 4}
  NULL = NULL
  Requests <- OwnJoins
  MaxReq = 2
  SyncFlags = {TRUE, FALSE}
INVARIANTS
  TypeOK
  RefcountExact
  SocketHeld
  UserDiesWithSocket
  FdOwned
PROPERTIES
  EventsMainThreadOnly
  ClosedFreed
