CONSTANTS
    Sessions <- MCSessions
    Records <- MCRecords
    Calls = {"c"}
    Plans = {"plan"}
    MaxRecords = 3
    MaxTotal = 4
SPECIFICATION Spec
INVARIANTS SessionsWhole CountedOnce ScanAgreesWithParse
CHECK_DEADLOCK FALSE
