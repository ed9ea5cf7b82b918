CONSTANTS
  Reader = reader
  Writers = {w1, w2}
  Clients = {c1}
  None = None
  Pro = TRUE
  BackoffCap = 3
SPECIFICATION FairSpec
PROPERTIES RequestsEnd FaultRecovers
