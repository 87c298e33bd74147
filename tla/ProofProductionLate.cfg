SPECIFICATION Spec
CONSTANTS
  t1 = t1
  t2 = t2
  t3 = t3
  d1 = d1
  d2 = d2
  d3 = d3
  Dep = {d1, d2}
  Order <- MCOrderTwo
  DepsOf <- MCOneEach
  Parent <- MCDirect
  Programs <- MCBoth
  Producer = {b1}
  Builder = Builder
  None = None
  LegacyClaims = 2
  AdaptiveClaims = 2
  MaxCached = 2
INVARIANTS
  WrapperProgramCurrent
