SPECIFICATION Spec
CONSTANTS
  Order = 7
  Base = 256
  tok = tok
  slot1 = slot1
  slot2 = slot2
  alpha = alpha
  beta = beta
  void = void
  longInput = longInput
  daily = daily
  clash = clash
  longInfo = longInfo
  None = None
  Tokens = {tok}
  Slots = {slot1, slot2}
  Inputs = {alpha, beta, void, longInput}
  Infos = {daily, clash, longInfo}
  HashToGroup <- MCHashToGroup
  HashToScalar <- MCHashToScalar
  LpLen <- MCLpLen
  KeyBytes <- MCKeyBytes
  MaxBatch = 2
INVARIANTS
  TypeOK
  TablesAgreeWithEvaluate
  RedeemedIffIssued
