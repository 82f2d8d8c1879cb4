CONSTANTS
  MotorCount = 2
  NoMotor = NoMotor
  Name = {flex}
  NoName = NoName
  Position = {0, 1}
  Definition <- Definitions
  NoDefinition = NoDefinition
  MaxCommands = 3
SPECIFICATION Spec
INVARIANTS DisarmStops
