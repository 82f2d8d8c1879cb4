CONSTANTS
    CheckInterval = 3
    Holdoff = 1
    Polls = 2
    StallMode = "stop"
    Currents <- MCCurrents
    Current = 300
    MaxMove = 2
    MaxTrouble = 2
SPECIFICATION MotorSpec
INVARIANTS DisabledIsOff
