SPECIFICATION Spec
CONSTANTS
  Base = 2
  ELEMENT_LEN = 1
  HASH_LEN = 2
  SEED_LEN = 1
  Strings <- MCStrings
  Elements <- MCElements
  Digests <- MCDigests
  KeySeeds <- MCKeySeeds
  Counters = {0, 1}
  INFO <- MCInfo
  FINALIZE <- MCFinalize
  CHALLENGE <- MCChallenge
  COMPOSITE <- MCComposite
  SEED_DST <- MCSeedDst
  None = None
  MaxPairs = 5
  MaxQueries = 1
INVARIANTS
  I2ospInRange
