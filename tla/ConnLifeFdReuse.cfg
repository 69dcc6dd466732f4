\* A descriptor is reused while a request that was copied with it waits.
SPECIFICATION Spec
CONSTANTS
  c1 = c1  c2 = c2  u1 = u1  u2 = u2
  Conns = {c1, c2}
  Uids = {u1, u2}
  Fds = {3, 4}
  NULL = NULL
  Requests <- OpsOnly
  MaxReq = 1
  SyncFlags = {FALSE}
INVARIANT
  RepliesToRequester
