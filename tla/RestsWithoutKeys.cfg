CONSTANTS
    Keys <- MCOneKey
    Users <- MCDriver
    MaxFaults = 1
SPECIFICATION Spec
INVARIANT RestsWithoutKeys
CHECK_DEADLOCK FALSE
