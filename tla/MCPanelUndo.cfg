CONSTANTS
    c1 = c1
    c2 = c2
    c3 = c3
    pa = pa
    pb = pb
    None = None
    Kept = Kept
    Covers <- ThreeCovers
    Gateway <- FileOrder
    Names <- TwoNames
    Numbers <- OneNumber
    FileProfiles <- NoFileProfile
    FileFollows <- FollowsInFile
    FileWrites <- WritesInFile
    FileHeight <- HeightInFile
    InitialStore <- OneFollower
    Batches <- SomeBatches
    Drags <- SomeDrags
    Windows <- OneWindow
    MaxCommands = 2
    MaxDialog = 1
    MaxFaults = 1
    MaxEvents = 3
SPECIFICATION PanelSpec
INVARIANT UndoSparesTheDialog
CHECK_DEADLOCK FALSE
