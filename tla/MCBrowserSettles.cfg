CONSTANTS
    Conversations = {1}
    CacheSize = 1
    Subagents = {}
    MultiPart = {}
    Queries = {"word"}
    Answers <- MCAnswers
    Filters = {"all", "some"}
    Passes <- MCPasses
    MaxRevision = 2
    MaxIncidents = 1
    MaxFlight = 2
    ChunkRunes = 5
    ChunkOverlap = 2
    PreviewLimit = 3
    NonASCII = {93, 101}
    SearchTexts <- MCSearchTexts
    Archives <- MCArchives
    Archive <- MCArchive
    TermsOf <- MCTermsOf
    Searches <- MCSearches
SPECIFICATION FairSpec
PROPERTY Settles
CHECK_DEADLOCK FALSE
