SPECIFICATION Spec
CONSTANTS
  Order = 11
  HexBase = 2
  Ten = 1
  PartLen = 2
  EncodeScalar <- MCEncodeScalar
  EncodeElement <- MCEncodeElement
  MaxDamage = 1
  Nothing = Nothing
INVARIANTS
  TypeOK
  RelayedUnchanged
  ReadsAsFromBytes
  AcceptedIsCanonical
CHECK_DEADLOCK FALSE
