CONSTANTS
    Words <- MCWords
    Sessions <- MCSessions
    Settings <- MCSettings
    Queries = {"q"}
    RenderCacheLimit = 2
SPECIFICATION ViewerSpec
INVARIANTS
    ViewerTrue
    TranscriptMarked
PROPERTIES
    ReaderKept
CHECK_DEADLOCK FALSE
