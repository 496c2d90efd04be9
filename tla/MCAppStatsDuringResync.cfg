CONSTANTS
    Files = {f1, f2}
    Ops = {o1, o2, o3}
    MaxProgress = 1
    MaxEdits = 0
    MaxFaults = 0
    Habits = {"stats"}
SPECIFICATION FairSpec
CHECK_DEADLOCK FALSE
PROPERTIES ResyncEnds
