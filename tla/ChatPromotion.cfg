SPECIFICATION Spec
CONSTANTS
    a = a
    b = b
    Callers = {a, b}
    Taps = {1, 2}
    MaxCalls = 2
    MaxSteps = 3
    Scenes <- OneChange
CHECK_DEADLOCK FALSE
PROPERTY
    NeverPromoted
