SPECIFICATION Spec
CONSTANTS
  Threads = {t1, t2}
  Handles = {h1, h2, h3, h4, h5}
  sk = sk
  bl = bl
  e1 = e1
  e2 = e2
  pf = pf
  tb = tb
  o1 = o1
  msg = msg
  Cells = {sk, bl, e1, e2, pf, tb, o1, msg}
  CellType <- MCCellType
  Slots = {e1, e2, pf, o1}
  MaxBatch = 2
  Null = Null
  Uninit = Uninit
  Free = Free
  Idle = Idle
  None = None
SYMMETRY Symmetry
PROPERTIES
  SlicesInitialised
CHECK_DEADLOCK FALSE
