CONSTANTS
  MotorCount = 2
  NoMotor = NoMotor
  NoText = NoText
  MaxEvents = 4
SPECIFICATION Spec
PROPERTIES NeverAgain
