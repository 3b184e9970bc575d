SPECIFICATION Spec
CONSTANTS
  Order = 7
  Base = 256
  tok1 = tok1
  tok2 = tok2
  alpha = alpha
  beta = beta
  void = void
  longInput = longInput
  daily = daily
  edge = edge
  clash = clash
  longInfo = longInfo
  None = None
  Tokens = {tok1, tok2}
  Inputs = {alpha, beta}
  Infos = {daily, edge}
  HashToGroup <- MCHashToGroup
  HashToScalar <- MCHashToScalar
  LpLen <- MCLpLen
  KeyBytes = {2}
  Blinds = {2}
  BlindBytes = {}
  Nonces = {1}
  RequestBytes = {2}
  NonceBytes = {}
  Damages = {}
  DamagedBytes = {}
  ConsistentCaller = TRUE
  Durable = FALSE
  MaxBatch = 2
  MaxResponses = 1
INVARIANTS
  DivergentBatchDesyncs
