SPECIFICATION WatchSpec
CHECK_DEADLOCK FALSE
CONSTANTS
  MaxEvents = 2
  AgentQueue = 1
  HostQueue = 1
  MaxDropped = 9
  MaxMessages = 2
  MaxTrouble = 1
INVARIANT WatchRearmed
