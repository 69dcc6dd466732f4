\* Data sets of five nodes, where levels of three have a hash table; texts of
\* three nodes; strings of three letters, matched ones of four; small containers that grow twice.
SPECIFICATION Spec
CONSTANTS
  NULL = NULL
  NoHash = NoHash
  v = v
  Paths <- ThreeAndOne
  Values = {v}
  Links <- TwoToOne
  Source <- Small
  FORCE_HASH_AT = 1
  Cells = {1, 2, 3, 4}
  DataSets <- SmallDataSets
  Strings <- SmallStrings
  Texts <- SmallTexts
  Patterns <- SmallPatterns
  KeySet = {NULL, 1, 2, 4, 6}
  Hash <- HashOf
  AttrKeys = {0, 1, 2}
  Items = {1, 2}
  HashSize = 2
  MaxNum = 7
  ListSize = 1
  MaxItems = 4
  StrSize = 4
  StrFactor = 2
  MaxLen = 20
  Appends = {0, 1, 3, 4, 7}
INVARIANTS
  DataSetShape
  DataSetIsTree
  PacketsRoundTrip
  ConversionsFaithful
  ContainersFaithful
\* A text is read once and a string converted once.
CHECK_DEADLOCK FALSE
