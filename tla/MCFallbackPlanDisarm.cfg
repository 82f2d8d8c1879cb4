CONSTANTS
  MotorCount = 2
  NoMotor = NoMotor
  NoText = NoText
  MaxEvents = 5
SPECIFICATION Spec
PROPERTIES DisarmClears
