CONSTANTS
    Conversations = {1, 2}
    CacheSize = 1
    Subagents = {}
    MultiPart = {1}
    Queries = {"word"}
    Answers <- MCAnswers
    Filters = {"all", "some"}
    Passes <- MCPasses
    MaxRevision = 2
    MaxIncidents = 1
    MaxFlight = 2
    ChunkRunes = 5
    ChunkOverlap = 2
    PreviewLimit = 3
    NonASCII = {93, 101}
    SearchTexts <- MCSearchTexts
    Archives <- MCArchives
    Archive <- MCArchive
    TermsOf <- MCTermsOf
    Searches <- MCSearches
SPECIFICATION Spec
INVARIANTS CacheInOrder NoOtherQuestion UnderWay PaneFollowsCursor SearchRight
PROPERTY ReloadHappens
CHECK_DEADLOCK FALSE
