\* Chains of up to 3 entries; four keys compete for one, a fifth has another.
SPECIFICATION Spec
CONSTANTS
  k1 = k1  k2 = k2  k3 = k3  k4 = k4  k5 = k5
  Keys = {k1, k2, k3, k4, k5}
  Cells = {x1, x2, x3, x4, x5}
  NULL = NULL
  Chains = {1, 2}
  Hash <- HashK
  CHAINLEN = 2
  Vals <- OneVal
  MaxNum = 0
  Timeouts = {0, 1}
  MaxTime = 3
SYMMETRY Sym
INVARIANTS
  TypeOK
  ChainShape
PROPERTIES
  ImplementsLRU
