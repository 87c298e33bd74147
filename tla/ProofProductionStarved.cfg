SPECIFICATION FairSpec
CONSTANTS
  t1 = t1
  t2 = t2
  t3 = t3
  d1 = d1
  d2 = d2
  d3 = d3
  Dep = {d1, d2}
  Order <- MCOrderTwo
  DepsOf <- MCOneEach
  Parent <- MCDirect
  Programs <- MCAdaptiveOnly
  Producer = {}
  Builder = Builder
  None = None
  LegacyClaims = 1
  AdaptiveClaims = 1
  MaxCached = 2
PROPERTIES
  EveryTransactionWrapped
