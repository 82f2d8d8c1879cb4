CONSTANTS
  Heater = {h0, h1}
  NoHeater = NoHeater
  Motor = {m0}
  NoMotor = NoMotor
  BenchMode = TRUE
  MaxActive = 1
  Budget = 2
  MaxCommands = 4
SPECIFICATION Spec
INVARIANTS BlindIsOff BlindIsOffInFlight
