CONSTANTS
  Motor = {m0, m1}
  NoMotor = NoMotor
  MaxPosition = 1
  Travel = 1
  PullHold = TRUE
  Divisor <- MCDivisor
  Delta <- MCDelta
  MaxHz = 2
  DefaultHz = 2
  MaxAccel = 2
  DefaultAccel = 2
  Unit = 2
  MaxCommands = 3
SPECIFICATION Spec
INVARIANT LockHasMotion
