SPECIFICATION FairSpec
CONSTANTS
  Order = 3
  Base = 256
  prod = prod
  longInfo = longInfo
  None = None
  Infos = {prod, longInfo}
  LpLen <- MCLpLen
  LastCounter = 2
INVARIANTS
  DerivesFirstAdmissible
PROPERTIES
  DerivationDescends
  EveryCallReturns
