SPECIFICATION SideSpec
CONSTANTS
  Never = Never
  None = None
  legacy = legacy
  adaptive = adaptive
  direct = direct
  large = large
  oldProof = oldProof
  newProof = newProof
  f1 = f1
  f2 = f2
  Flow = {f1, f2}
  Program = {legacy, adaptive}
  Wrapper = {direct, large, oldProof, newProof}
  Within <- MCWithin
  Proves <- MCProves
  MaxVerdicts = 3
  Successors <- Forward
  BlobLimit = 1
  BlobLimitElectra = 2
INVARIANTS
  VerdictsSound
  RequestsSound
  TopicsSound
  FormsSound
  BlocksSound
  DutiesSound
CHECK_DEADLOCK FALSE
