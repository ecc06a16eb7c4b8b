CONSTANTS
    Full = 2
    StartDelay = 2
    StopLatency = 1
    EchoWindow = 1
    MirrorWindow = 1
    RecheckDelay = 2
    MinStart = 1
    MaxStart = 1
    MaxLag = 1
    MaxFrames = 2
    MaxPresses = 1
    LostAnswers = TRUE
SPECIFICATION ClosedSpec
INVARIANTS MotionTypeOK WaitsForLiveFrames EstimateFollowsTheMotor OneThingEndsARun
PROPERTIES EchoesChangeNothing EveryRunEnds
