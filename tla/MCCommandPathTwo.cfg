CONSTANTS
    up1 = up1  stop1 = stop1  up2 = up2  ask1 = ask1  ask2 = ask2
    cover1 = cover1  cover2 = cover2  None = None
    Commands = {ask1, ask2, up1}
    Devices = {cover1, cover2}
    Workers = {w1, w2}
    MaxSize = 1
    MaxAttempts = 2
    Kind <- MCKind
    Device <- MCDevice
    Tracked = {up1}
SPECIFICATION PathSpec
CHECK_DEADLOCK FALSE
INVARIANTS MergedRequestIsFresh Accounting
SYMMETRY WorkerSymmetry
