CONSTANT Keys <- MCOneKey
SPECIFICATION FairSpec
PROPERTIES
    WindowUnblocks
    CloseEndsFromLoop
    DisconnectionShown
