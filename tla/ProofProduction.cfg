SPECIFICATION ProverFairSpec
CONSTANTS
  t1 = t1
  t2 = t2
  t3 = t3
  d1 = d1
  d2 = d2
  d3 = d3
  Dep = {d1, d2}
  Order <- MCOrderTwo
  DepsOf <- MCDepsOf
  Parent <- MCParent
  Programs <- MCBoth
  Producer = {b1}
  Builder = Builder
  None = None
  LegacyClaims = 2
  AdaptiveClaims = 2
  MaxCached = 1
INVARIANTS
  TypeOK
  ProducersSound
PROPERTIES
  ProducerServed
