\* A client joins and quits.
SPECIFICATION Spec
CONSTANTS
  c1 = c1  c2 = c2  u1 = u1  u2 = u2
  Conns = {c1}
  Uids = {u1}
  Fds = {3, 4}
  NULL = NULL
  Requests <- JoinQuit
  MaxReq = 3
  SyncFlags = {FALSE}
INVARIANT
  SocketHeld
