CONSTANTS
    Files = {f1, f2}
    Ops = {o1, o2}
    MaxProgress = 0
    MaxEdits = 1
    MaxFaults = 1
    Habits = {"stats", "configure", "hasty"}
SPECIFICATION Spec
SYMMETRY SlotsAndFiles
CHECK_DEADLOCK FALSE
INVARIANT CopiedIsHeld
