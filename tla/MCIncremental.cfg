CONSTANTS
    f1 = f1
    f2 = f2
    sub = sub
    p1 = p1
    ClaudeFiles = {f1, f2, sub}
    CodexFiles = {c1, c2, c3}
    SubagentOf <- MCSubagentOf
    ProjectOf <- MCProjectOf
    Slugs = {s1}
    NoSlug = none
    NoParent = none
    Missing = missing
    Absent = missing
    MaxClaudeWrites = 4
    MaxCodexWrites = 5
    MaxMixedWrites = 2
    MaxLost = 1
SPECIFICATION Spec
INVARIANTS TablesAgree ConversationsCurrent
PROPERTY SessionsKept
CHECK_DEADLOCK FALSE
