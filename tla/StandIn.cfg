SPECIFICATION FairSpec
CONSTANTS
    ClientLines <- MCStandInLines
    ImgLines = {"PICTURE", "PING"}
INVARIANTS TypeOK TypesTellApart StopFreesPorts
PROPERTY StopEnds
CHECK_DEADLOCK FALSE
