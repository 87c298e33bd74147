SPECIFICATION SideSpec
CONSTANTS
  d1 = d1
  d2 = d2
  a1 = a1
  b1 = b1
  r12 = r12
  t1 = t1
  t2 = t2
  t3 = t3
  s1 = s1
  o1 = o1
  f1 = f1
  f2 = f2
  u1 = u1
  q1 = q1
  u2 = u2
  q2 = q2
  None = None
  Dep = {d1, d2}
  Record = {a1, b1, r12}
  Recursive = {r12}
  Sender = {s1}
  Owner = {o1}
  Tx = {t1, t2, t3}
  Flow = {f1, f2}
  Lease = {u1, u2, q1, q2}
  DepsOf <- MCDepsOf
  Bytes <- MCBytes
  TxDeps <- MCTxDeps
  TxSender <- MCTxSender
  TxOwner <- MCTxOwner
  MaxStoredBytes = 3
  MaxStoredRecords = 3
  MaxSenderPinnedBytes = 2
  MaxSenderPinnedRecords = 2
  Wrapper <- MCWrapper
  Unbound <- MCUnbound
  Quota <- MCQuota
  Pool = o1
  Capacity = 2
  Duplicates = FALSE
  Throws = FALSE
  i1 = i1
  i2 = i2
  Block = {"g", "b1", "b2", "c1"}
  Genesis = "g"
  Parent <- MCParent
  SlotOf <- MCSlotOf
  EpochOf <- MCEpochOf
  Invalid = {"b2"}
  Blobs = {"b1"}
  Segments <- MCSegments
  Import = {i1, i2}
  Idle = Idle
  MaxFailures = 1
INVARIANTS
  AdmissionTypeOK
  PooledProvable
PROPERTY
  ImportSound
