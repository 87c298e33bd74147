SPECIFICATION Spec
CONSTANTS
  d1 = d1
  d2 = d2
  a1 = a1
  b1 = b1
  a2 = a2
  r12 = r12
  t1 = t1
  t2 = t2
  s1 = s1
  o1 = o1
  f1 = f1
  f2 = f2
  l1 = l1
  None = None
  Dep = {d1, d2}
  Record = {a1, b1, a2, r12}
  Recursive = {r12}
  Sender = {s1}
  Owner = {o1}
  Tx = {t1, t2}
  Flow = {f1, f2}
  Lease = {l1}
  DepsOf <- MCDepsOf
  Bytes <- MCBytes
  TxDeps <- MCTxDeps
  TxSender <- MCTxSender
  TxOwner <- MCTxOwner
  MaxStoredBytes = 3
  MaxStoredRecords = 3
  MaxSenderPinnedBytes = 2
  MaxSenderPinnedRecords = 2
INVARIANTS
  TypeOK
  PinAccounting
  HeldRecordsStored
  CoverageExact
  LimitsKept
  ListBounded
PROPERTIES
  PinnedCoverageStable
