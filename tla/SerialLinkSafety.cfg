CONSTANTS
  Reader = reader
  Writers = {w1, w2}
  Clients = {c1, c2}
  None = None
  Pro = TRUE
  BackoffCap = 3
SPECIFICATION Spec
SYMMETRY Symmetry
INVARIANTS TypeOK LockDiscipline PipeAgrees NoMixedStream ReleasedPortIsFree
PROPERTY YieldRefined
