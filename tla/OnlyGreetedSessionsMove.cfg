CONSTANTS
    ClientLines <- MCSomeLines
    ImgLines <- MCImgLines
    MaxBacklog = 1
    MaxImgBacklog = 1
SPECIFICATION Spec
PROPERTY OnlyGreetedSessionsMove
CHECK_DEADLOCK FALSE
