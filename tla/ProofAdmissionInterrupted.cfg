SPECIFICATION SideSpec
CONSTANTS
  d1 = d1
  d2 = d2
  a1 = a1
  b1 = b1
  r12 = r12
  t1 = t1
  t2 = t2
  t3 = t3
  s1 = s1
  o1 = o1
  f1 = f1
  f2 = f2
  u1 = u1
  q1 = q1
  u2 = u2
  q2 = q2
  p1 = p1
  g1 = g1
  w1 = w1
  w2 = w2
  Loop = Loop
  None = None
  Dep = {d1, d2}
  Record = {a1, b1, r12}
  Recursive = {r12}
  Sender = {s1}
  Owner = {o1}
  Tx = {t1}
  Flow = {f1, f2}
  Lease = {u1, u2, q1, q2}
  DepsOf <- MCDepsOf
  Bytes <- MCBytes
  TxDeps <- MCTxDeps
  TxSender <- MCTxSender
  TxOwner <- MCTxOwner
  MaxStoredBytes = 3
  MaxStoredRecords = 3
  MaxSenderPinnedBytes = 1
  MaxSenderPinnedRecords = 1
  Wrapper <- MCWrapper
  Unbound <- MCUnbound
  Quota <- MCQuota
  Pool = o1
  Capacity = 1
  Duplicates = TRUE
  Throws = TRUE
INVARIANTS
  InterruptionsClean
  DisposedHoldsNothing
PROPERTIES
  WorkEnds
CHECK_DEADLOCK FALSE
