CONSTANT Keys <- MCKeys
SPECIFICATION Spec
INVARIANTS
    TypeOK
    AnswerGoesToAsker
    ConnectedMeansGreeted
    CommandsOnlyWhileConnected
    RobotFollowsKeys
    IInv
