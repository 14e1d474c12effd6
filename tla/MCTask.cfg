CONSTANTS
  Bytes = 15
  kAlign = 2
  kHeader = 2
  Base = 4
  SizeMax = 31
  Sizes = {1, 4, 31}
  Aligns = {1, 3, 4, 8}
  Vars = {v1, v2}
  Awaiters = {a1, a2}
  NoVar = NoVar
SPECIFICATION TaskSpec
SYMMETRY Symmetry
INVARIANTS
  BlocksTile
  RefusedOnlyWhenFull
  AllocationUndone
  SingleOwner
  PoolRecovered

