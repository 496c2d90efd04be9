--------------------------- MODULE MCStatsScreen ---------------------------
(* One archive: a conversation with a subagent of another model that works  *)
(* past midnight under its parent's name, one that weighs as much and began *)
(* when a part of the third did, in another project, and a third without a  *)
(* model whose totals are more than its messages show; and an archive       *)
(* without conversations.                                                   *)
(* For the other tabs, short sequences of all the messages that matter to   *)
(* the figures, and of sessions of several kinds.                           *)
EXTENDS StatsFigures

LOCAL Message(at, tokens) == [at |-> at, tokens |-> tokens]
LOCAL Session(id, path, project, at, model, subagent, calls, usage, messages) ==
    [id |-> id, path |-> path, slug |-> id, project |-> project, at |-> at, provider |-> Blank,
     model |-> model, subagent |-> subagent, calls |-> calls, usage |-> usage,
     messages |-> messages]
LOCAL Conversation(key, provider, sessions) ==
    [key |-> key, provider |-> provider, sessions |-> sessions]

MCWorlds ==
    {<<>>,
     <<Conversation("a", "claude",
           <<Session(1, 1, 1, 13, "opus", FALSE, 0, 4, <<Message(13, 3), Message(NoTime, 1)>>),
             Session(1, 2, 1, 11, "haiku", TRUE, 2, 4, <<Message(11, 2), Message(12, 2)>>)>>),
       Conversation("b", "claude",
           <<Session(2, 3, 2, 7, "opus", FALSE, 1, 6, <<Message(7, 6)>>)>>),
       Conversation("c", "codex",
           <<Session(4, 5, 1, 7, Blank, FALSE, 2, 6, <<Message(7, 0)>>),
             Session(3, 4, 1, 3, Blank, FALSE, 0, 5, <<Message(3, 1), Message(6, 2)>>)>>)>>}

MCRangeDays == <<1, 2>>
MCTabs == <<"overview", "performance">>
MCDims == <<"provider", "model", "multipart">>
MCSplitDims == <<"provider", "model">>
MCRegexes == {{"claude", "opus", Blank}}

-----------------------------------------------------------------------------
(* Turns: a prompt, a message without text, three kinds of answers, two     *)
(* kinds of dividers and a subagent's answer.                               *)
LOCAL Usage(input, created, read) ==
    [input |-> input, created |-> created, read |-> read, output |-> 1, reasoning |-> 1]
LOCAL Free == [input |-> 0, created |-> 0, read |-> 0, output |-> 0, reasoning |-> 0]
LOCAL Turn(from, main, divider, text, usage, writes) ==
    [from |-> from, main |-> main, divider |-> divider, text |-> text, usage |-> usage,
     writes |-> writes]
LOCAL Asks == Turn("user", TRUE, FALSE, TRUE, Free, 0)
LOCAL Replies(input, read) == Turn("assistant", TRUE, FALSE, TRUE, Usage(input, 1, read), 0)

LOCAL TurnKinds ==
    {Asks, Turn("user", TRUE, FALSE, FALSE, Free, 0), Replies(1, 2),
     Turn("assistant", TRUE, FALSE, TRUE, Usage(3, 1, 0), 1),
     Turn("assistant", TRUE, FALSE, TRUE, Free, 1),
     Turn("user", TRUE, TRUE, FALSE, Free, 0), Turn("user", TRUE, TRUE, TRUE, Free, 0),
     Turn("assistant", FALSE, FALSE, TRUE, Usage(5, 1, 5), 0)}
MCLogs == UNION {[1..n -> TurnKinds] : n \in 0..4}

MCSamples == {[i \in 1..n |-> (i * 7) % m] : n \in 1..40, m \in {5, 11, 41}}

LOCAL Turns(at, provider, version, subagent, log) ==
    [at |-> at, provider |-> provider, version |-> version, subagent |-> subagent, log |-> log]
LOCAL TurnSessions ==
    {Turns(1, "claude", "1", FALSE, <<Asks, Replies(1, 2), Asks, Replies(2, 0), Replies(1, 1)>>),
     Turns(2, "claude", "1", FALSE, <<Replies(9, 9), Asks, Replies(4, 0)>>),
     Turns(1, "codex", Blank, FALSE, <<Asks, Asks, Replies(3, 1), Asks, Replies(1, 0)>>),
     Turns(2, "codex", "1", FALSE, <<Asks, Replies(7, 7)>>),
     Turns(2, "codex", Blank, TRUE, <<Asks, Replies(7, 7)>>),
     Turns(2, "claude", "1", FALSE, <<Asks>>)}
MCSeries == UNION {[1..n -> TurnSessions] : n \in 0..3}

-----------------------------------------------------------------------------
(* Sizes and cache: sessions of every duration, of older and newer Codex,   *)
(* without tokens, without an end.                                          *)
LOCAL Meta(at, last, provider, model, subagent, usage, messages) ==
    [at |-> at, last |-> last, provider |-> provider, model |-> model, subagent |-> subagent,
     usage |-> usage, messages |-> messages, mainMessages |-> 2]
LOCAL MetaKinds ==
    {Meta(1, 5, "claude", "opus", FALSE, Usage(3, 0, 2), 9),
     Meta(2, 7, "codex", "gpt", FALSE, Usage(4, 0, 1), 2),
     Meta(4, 34, "codex", Blank, TRUE, Usage(2, 3, 0), 7),
     Meta(5, NoTime, "claude", "opus", TRUE, Usage(0, 2, 5), 0),
     Meta(9, 12, "claude", "haiku", TRUE, Free, 5),
     Meta(9, 150, "claude", Blank, FALSE, Usage(1, 1, 1), 70)}
MCMetas == UNION {[1..n -> MetaKinds] : n \in 0..3}

MCRanges == {AllTime, [start |-> 2, end |-> 2], [start |-> 3, end |-> 11]}

MCVersions == [parts : {<<1>>, <<1, 0>>, <<2, 1>>, <<2, 10>>, <<1, 9, 3>>, <<>>}, name : 1..2]

MCYears == {-400, -5, -1, 0, 1, 3, 4, 99, 100, 399, 400, 1899, 1900, 1999, 2000, 2023, 2024, 2025}

-----------------------------------------------------------------------------
(* Tools: calls with and without a known action, failures and rejections.   *)
LOCAL Call(name, action) == [name |-> name, action |-> action]
LOCAL Result(name, action, error, rejected) ==
    [name |-> name, action |-> action, error |-> error, rejected |-> rejected]
LOCAL Uses(calls, results) == [calls |-> calls, results |-> results]
LOCAL ToolKinds ==
    {Uses(<<Call("Read", "read")>>, <<>>),
     Uses(<<Call("Bash", "execute"), Call("Bash", "test")>>, <<>>),
     Uses(<<>>, <<Result("Bash", "test", TRUE, FALSE)>>),
     Uses(<<>>, <<Result("Bash", "execute", TRUE, TRUE), Result("Read", "read", FALSE, FALSE)>>),
     Uses(<<Call("Odd", Blank), Call(Blank, Blank)>>, <<Result("Odd", Blank, TRUE, FALSE)>>)}
MCToolLogs == UNION {[1..n -> ToolKinds] : n \in 0..4}

LOCAL Repeated(call, result, calls, failing) ==
    [i \in 1..calls |-> Uses(<<call>>, IF i <= failing THEN <<result>> ELSE <<>>)]
LOCAL Used(at, provider, model, log) ==
    [at |-> at, provider |-> provider, model |-> model, log |-> log]
LOCAL Failed == Result("Bash", "test", TRUE, FALSE)
LOCAL Refused == Result("Edit", "mutate", TRUE, TRUE)
LOCAL ToolSessions ==
    {Used(1, "claude", "opus", Repeated(Call("Bash", "test"), Failed, 4, 2)),
     Used(2, "claude", Blank, Repeated(Call("Edit", "mutate"), Refused, 5, 1)),
     Used(9, "codex", "gpt", Repeated(Call("Bash", Blank), Failed, 2, 2)),
     Used(2, "codex", "opus", <<Uses(<<Call("Read", Blank), Call("web", "web")>>, <<>>)>>
                              \o Repeated(Call("Edit", "mutate"), Failed, 1, 0)),
     Used(4, Blank, "opus", <<>>)}
MCToolSeries == UNION {[1..n -> ToolSessions] : n \in 0..3}
MCToolRanges == {AllTime, [start |-> 1, end |-> 4]}

-----------------------------------------------------------------------------
(* Performance: a prompt, a read, a search, changes of one and two files,   *)
(* tests that pass and fail, before and after a change.                     *)
LOCAL File(path) == [file |-> TRUE, value |-> path]
LOCAL Act(kind, files) == [kind |-> kind, targets |-> [i \in DOMAIN files |-> File(files[i])]]
LOCAL Runs(line) == [kind |-> "execute", targets |-> <<[file |-> FALSE, value |-> line]>>]
LOCAL Outcome(kind, error) == [kind |-> kind, error |-> error, hunks |-> 1]
LOCAL Says(from, text, calls, results) ==
    [from |-> from, text |-> text, tokens |-> 1, thinking |-> IF from = "user" THEN 0 ELSE 30,
     hidden |-> FALSE, calls |-> calls, results |-> results]
LOCAL Follows == Says("user", TRUE, <<>>, <<>>)
LOCAL Does(kind, files) == Says("assistant", TRUE, <<Act(kind, files)>>, <<>>)
LOCAL Gets(kind, error) == Says("user", FALSE, <<>>, <<Outcome(kind, error)>>)
LOCAL ActionKinds ==
    {Follows, Does("read", <<"f">>), Does("search", <<>>), Does("mutate", <<"f">>),
     Does("rewrite", <<"g", "f">>), Gets("test", FALSE), Gets("execute", TRUE),
     Gets("mutate", TRUE),
     Says("user", TRUE, <<>>, <<Outcome("test", FALSE), Outcome("build", TRUE)>>),
     Says("assistant", TRUE, <<Runs("f"), Act("", <<>>), Act("test", <<>>)>>, <<>>)}
MCActionLogs == UNION {[1..n -> ActionKinds] : n \in 0..4}

LOCAL Performed(at, provider, turns, acts, failed, usage, log) ==
    [at |-> at, provider |-> provider, turns |-> turns, acts |-> acts, failed |-> failed,
     rejected |-> IF failed = <<>> THEN 0 ELSE 1, compacted |-> turns > 2, aborts |-> 1,
     started |-> turns, retries |-> Len(failed), usage |-> usage, log |-> log]
LOCAL PerformedKinds ==
    {Performed(2, "codex", 3, <<"read", "mutate", "mutate", "test">>, <<>>, Usage(3, 0, 2),
               <<Follows, Does("read", <<"f">>), Does("mutate", <<"f">>), Follows>>),
     Performed(3, "claude", 2, <<"read", "web", "rewrite">>, <<"test", "execute">>, Usage(30, 0, 2),
               <<Follows, Does("rewrite", <<"f", "g">>), Gets("test", FALSE), Follows>>),
     Performed(5, "claude", 5, <<"search", "rewrite", "mutate", "test">>, <<"test">>, Usage(3, 60, 2),
               <<Follows, Does("mutate", <<"f", "g">>), Gets("test", TRUE), Follows>>),
     Performed(9, "codex", 2, <<>>, <<>>, Free, <<>>),
     Performed(20, "codex", 4, <<"mutate", "build">>, <<"mutate">>, Usage(9, 1, 1),
               <<Follows, Does("search", <<>>), Does("mutate", <<"f">>), Gets("build", FALSE)>>)}
MCPerformances == {SetToSeq(some) : some \in SUBSET PerformedKinds}

MCScorings ==
    [current : {<<n, 20>> : n \in {0, 1, 2, 9, 10, 11, 19, 20, 21, 40, 70}},
     baseline : {<<0, 1>>, <<1, 20>>, <<1, 2>>, <<1, 1>>}, up : BOOLEAN, floor : {<<1, 20>>, <<1, 4>>}]
=============================================================================
