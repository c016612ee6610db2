CONSTANTS
    Speeds <- MCSpeeds
    MaxCrashes = 1
SPECIFICATION Spec
INVARIANTS
    TypeOK
    NoOvervoltage
    SettledAsAsked
    DrivenOnlyAsAsked
    MovesAsNamed
PROPERTY ImplementsTrain
