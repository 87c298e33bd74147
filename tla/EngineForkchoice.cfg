SPECIFICATION FcuSpec
CONSTANTS
  t1 = t1
  t2 = t2
  v1 = v1
  Task = {t1, t2}
  Idle = Idle
  Validator = {v1}
  Proposer <- MCProposer
  BadPayload = {2}
  Retain = 1
  MaxSlot = 3
  MaxHeads = 2
INVARIANT
  NeverPastHead
CHECK_DEADLOCK FALSE
