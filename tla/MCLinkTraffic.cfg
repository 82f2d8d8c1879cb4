CONSTANTS
  Ticket <- MCTicket
  Share = 9
  Window = 2
  MaxTail = 1
  Announcer = {beacon, listener}
  Frame = 2
  Answer = 1
  Hello = 1
  Pure = 1
  Reset = 1
  Syn = 1
  Chunk = 1
  Header = 1
  Beacon = 1
  AbortTail = 1
  EmissionTail = 1
  FlushTail = 0
  LateBy = 1
SPECIFICATION Spec
INVARIANTS ShareSound HoldsEnd SilenceHolds
