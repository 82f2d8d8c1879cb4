CONSTANTS
  MaxBytes = 3
  MinDead = 2
  MaxLive = 2
  CheapLive = 1
  EventSeqs <- MCEventSeqs
  MaxSeq = 3
  MaxSession = 1
  MaxFaults = 1
SPECIFICATION Spec
PROPERTY AckRemoves
CHECK_DEADLOCK FALSE
