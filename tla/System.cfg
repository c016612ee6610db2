CONSTANTS
    Keys <- MCOneKey
    Users <- MCUsers
    MaxFaults = 1
SPECIFICATION Spec
INVARIANTS
    RobotSharesConnection
    RobotAnswersRightly
    SentLineIsServed
    WheelsFollowKeys
    JointInv
PROPERTIES
    NoLateCommand
    RobotIsADevice
CHECK_DEADLOCK FALSE
