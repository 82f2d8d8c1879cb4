CONSTANTS
  MaxBytes = 0
  MinDead = 2
  MaxLive = 2
  CheapLive = 0
  EventSeqs <- MCEventSeqs
  MaxSeq = 2
  MaxSession = 0
  MaxFaults = 0
  None = None
  EventsPerTick = 1
  MaxResets = 1
  MaxGroundCrash = 0
SPECIFICATION DSpec
INVARIANT DischargedIsLogged
CHECK_DEADLOCK FALSE
