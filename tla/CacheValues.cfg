\* Values: chains of up to 2 entries and three keys, five values in three forms.
SPECIFICATION Spec
CONSTANTS
  k1 = k1  k2 = k2  k3 = k3  k4 = k4  k5 = k5
  Keys = {k1, k2, k3}
  Cells = {x1, x2, x3}
  NULL = NULL
  Chains = {1, 2}
  Hash <- HashK
  CHAINLEN = 1
  Vals <- AllText
  MaxNum = 2
  Timeouts = {0}
  MaxTime = 2
SYMMETRY Sym
INVARIANTS
  ReadsLatest
