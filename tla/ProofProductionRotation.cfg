SPECIFICATION FairSpec
CONSTANTS
  t1 = t1
  t2 = t2
  t3 = t3
  d1 = d1
  d2 = d2
  d3 = d3
  Dep = {d1, d2, d3}
  Order <- MCOrderThree
  DepsOf <- MCOneEach
  Parent <- MCDirect
  Programs <- MCLegacyOnly
  Producer = {}
  Builder = Builder
  None = None
  LegacyClaims = 1
  AdaptiveClaims = 1
  MaxCached = 1
INVARIANT
  WrapperFits
PROPERTIES
  EveryTransactionWrapped
