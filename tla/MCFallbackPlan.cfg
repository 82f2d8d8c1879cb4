CONSTANTS
  MotorCount = 2
  NoMotor = NoMotor
  NoText = NoText
  MaxEvents = 3
SPECIFICATION Spec
INVARIANTS PlansSound InIdOrder BentOnce
PROPERTIES PlanSettles
