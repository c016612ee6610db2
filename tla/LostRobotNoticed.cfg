CONSTANT Keys <- MCOneKey
SPECIFICATION FairSpec
PROPERTY LostRobotNoticed
