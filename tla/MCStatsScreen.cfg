SPECIFICATION Spec
CONSTANTS
    DayLength = 3
    TopLimit = 2
    CallBounds = {1, 2}
    Unknown = "unknown"
    Worlds <- MCWorlds
    Today = 4
    RangeDays <- MCRangeDays
    Tabs <- MCTabs
    OverviewLanes = 2
    Dims <- MCDims
    BoolDims = {"multipart"}
    SplitDims <- MCSplitDims
    Regexes <- MCRegexes
    Rows = "activity"
    Queries = {"activity"}
    Logs <- MCLogs
    Samples <- MCSamples
    Series <- MCSeries
    Metas <- MCMetas
    Ranges <- MCRanges
    Versions <- MCVersions
    Years <- MCYears
    ToolLogs <- MCToolLogs
    ToolSeries <- MCToolSeries
    ToolRanges <- MCToolRanges
    ActionLogs <- MCActionLogs
    Performances <- MCPerformances
    Scorings <- MCScorings
    LongSpan = 12
    LongStep = 6
    MinSessionSamples = 2
    MinSequenceSamples = 2
INVARIANTS DerivedCurrent FiguresAgree NotificationTrue
CHECK_DEADLOCK FALSE
