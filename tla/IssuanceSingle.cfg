SPECIFICATION Spec
CONSTANTS
  Order = 7
  Base = 256
  tok1 = tok1
  tok2 = tok2
  alpha = alpha
  beta = beta
  void = void
  longInput = longInput
  daily = daily
  edge = edge
  clash = clash
  longInfo = longInfo
  None = None
  Tokens = {tok1}
  Inputs = {alpha, void, longInput}
  Infos = {daily, edge, clash, longInfo}
  HashToGroup <- MCHashToGroup
  HashToScalar <- MCHashToScalar
  LpLen <- MCLpLen
  KeyBytes <- MCKeyBytes
  Blinds = {2, 3}
  BlindBytes = {0, 7}
  Nonces = {1}
  RequestBytes <- MCRequestBytes
  NonceBytes = {0, 7}
  Damages = {"field", "length"}
  DamagedBytes = {0, 7}
  ConsistentCaller = TRUE
  Durable = FALSE
  MaxBatch = 1
  MaxResponses = 1
INVARIANTS
  TypeOK
  AcceptedOutputIsEvaluate
  SessionIsServable
