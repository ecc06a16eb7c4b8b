CONSTANTS
    up1 = up1  stop1 = stop1  up2 = up2  ask1 = ask1  ask2 = ask2
    cover1 = cover1  cover2 = cover2  None = None
    Commands = {up1, stop1, up2}
    Devices = {cover1, cover2}
    Workers = {w1}
    MaxSize = 3
    MaxAttempts = 2
    Kind <- MCKind
    Device <- MCDevice
    Tracked = {up1, stop1, up2}
SPECIFICATION PathFairSpec
CHECK_DEADLOCK FALSE
INVARIANTS PathTypeOK ExactlyOneReport NothingForgotten DeliveredReachedBus
    SameDeviceInOrder StopPriority
PROPERTIES RefinesContract EventuallyReported
