CONSTANTS
    NUM_ROOT = 3
    MAX_DISTANCE = 2
    INT_RANGE = 8
    MaxAddr = 14
SPECIFICATION Spec
INVARIANTS TypeOK Covered Tight Listed
PROPERTY StaysScanned
CHECK_DEADLOCK FALSE
