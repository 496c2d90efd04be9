CONSTANTS
    Files = {f1, f2}
    Ops = {o1, o2, o3}
    MaxProgress = 1
    MaxEdits = 1
    MaxFaults = 1
    Habits = {}
SPECIFICATION FairSpec
CHECK_DEADLOCK FALSE
INVARIANTS Listened OneRunAtATime OverviewTrue
PROPERTIES ResyncEnds CopiedGetsStored
