CONSTANTS
    ClientLines <- MCLines
    ImgLines <- MCImgLines
    MaxBacklog = 1
    MaxImgBacklog = 1
SPECIFICATION FairSpec
INVARIANTS
    TypeOK
    IInv
    PictureOnlyOnRequest
    ConfirmedMeansConnected
    ConfirmedCommandsAccepted
PROPERTIES
    PictureLoopTracksSession
    ImplementsLink
    RequestAnswered
    DisconnDuringPictureRecovers
CHECK_DEADLOCK FALSE
