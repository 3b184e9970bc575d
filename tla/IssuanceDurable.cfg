SPECIFICATION Spec
CONSTANTS
  Order = 7
  Base = 256
  tok1 = tok1
  tok2 = tok2
  alpha = alpha
  beta = beta
  void = void
  longInput = longInput
  daily = daily
  edge = edge
  clash = clash
  longInfo = longInfo
  None = None
  Tokens = {tok1}
  Inputs = {alpha}
  Infos = {daily}
  HashToGroup <- MCHashToGroup
  HashToScalar <- MCHashToScalar
  LpLen <- MCLpLen
  KeyBytes = {2, 3}
  Blinds = {2}
  BlindBytes = {0}
  Nonces = {1}
  RequestBytes = {2}
  NonceBytes = {}
  Damages = {"splice"}
  DamagedBytes = {}
  ConsistentCaller = TRUE
  Durable = TRUE
  MaxBatch = 1
  MaxResponses = 2
PROPERTIES
  ImplementsIdeal
