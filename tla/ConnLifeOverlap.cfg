\* The two threads update a refcount at the same time.
SPECIFICATION RacingSpec
CONSTANTS
  c1 = c1  c2 = c2  u1 = u1  u2 = u2
  Conns = {c1}
  Uids = {u1, u2}
  Fds = {3, 4}
  NULL = NULL
  Requests <- OpsOnly
  MaxReq = 2
  SyncFlags = {FALSE}
INVARIANT
  SocketHeld
