CONSTANTS
  MaxBytes = 0
  MinDead = 2
  MaxLive = 2
  CheapLive = 0
  EventSeqs <- MCEventSeqs
  MaxSeq = 2
  MaxSession = 1
  MaxFaults = 0
  None = None
  EventsPerTick = 1
  MaxResets = 1
  MaxGroundCrash = 1
SPECIFICATION DSpec
INVARIANTS OneRowEach
PROPERTIES DeliversAtLeastOnce QueueDrains
CHECK_DEADLOCK FALSE
