SPECIFICATION PartsSpec
CHECK_DEADLOCK FALSE
CONSTANTS
  \* exFAT
  Names <- MCNames
  Sizes = {0, 1, 2}
  LastSlot = 12
  PerSector = 4
  LastCluster = 5
  Cards <- MCCards
  MaxOps = 2
  MaxFaults = 2
  \* session
  LastSector = 3
  Budget = 2
  MaxQueued = 2
  \* pause
  Operations = {o1, o2}
  \* close
  Windows = {main, picker}
  Copying = {main}
  ForceAfter = 2
  MaxReports = 3
  \* watch
  MaxEvents = 2
  AgentQueue = 1
  HostQueue = 1
  MaxDropped = 9
  MaxMessages = 2
  MaxTrouble = 1
  \* stream
  MaxFrames = 4
  Lengths = {1, 3, 4}
  Window = 2
  RxqCap = 4
  RxCap = 3
  Pulls = 2
  ReadAheadMax = 3
  StaleTicks = 2
  MaxDamage = 2
INVARIANT PartsTypeOK
INVARIANT LiveMarked
INVARIANT ContentKept
INVARIANT ReplaceAtomic
INVARIANT DoesWhatItSays
INVARIANT CancelLeavesNothing
INVARIANT FatAgrees
INVARIANT FatFileKept
INVARIANT FatTold
INVARIANT FreshAnswers
INVARIANT CardPassedOn
INVARIANT CacheIsCard
INVARIANT PausesNoted
INVARIANT BridgeGivenBack
INVARIANT ExitsWhenIdle
INVARIANT GuardCatchesUp
INVARIANT CloseNotForgotten
INVARIANT EventsInOrder
INVARIANT EventsCounted
INVARIANT ServedWhole
INVARIANT UndamagedServed
