CONSTANTS
    Main = main
    Children = {k1, k2}
    Texts = {"a", "b"}
    Records <- MCRecords
    ChildRecords <- MCChildRecords
    MaxRecords = 5
SPECIFICATION Spec
INVARIANTS TranscriptFaithful ThreadsMerged
PROPERTY UsageAttachedOnce
CHECK_DEADLOCK FALSE
