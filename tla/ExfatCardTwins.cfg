SPECIFICATION Spec
CONSTANTS
  Names <- MCLongerNames
  Sizes = {0, 1, 2}
  LastSlot = 12
  PerSector = 4
  LastCluster = 5
  Cards <- MCCards
  MaxOps = 1
  MaxFaults = 2
INVARIANT TwinsTold
