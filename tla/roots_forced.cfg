CONSTANTS
    NUM_ROOT = 3
    MAX_DISTANCE = 1
    INT_RANGE = 64
    MaxAddr = 12
SPECIFICATION Spec
PROPERTY ForcedIsClosest
CHECK_DEADLOCK FALSE
