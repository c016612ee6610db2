CONSTANTS
    Keys = {}
    Users <- MCDriver
    MaxFaults = 0
SPECIFICATION FairSpec
PROPERTY ConnectEnds
CHECK_DEADLOCK FALSE
