----------------------------- MODULE ToolFigures -----------------------------
(***************************************************************************)
(* The figures of the Tools tab: the calls, errors and rejections counted  *)
(* from messages (internal/conversation/tool_outcomes.go), what they add   *)
(* up to over sessions, and the same split by a dimension                  *)
(* (internal/stats/tools*.go).                                             *)
(*                                                                         *)
(* A call has the name of its tool and the kind of its action, Blank when  *)
(* the provider's adapter knows none; a result tells them again, and if it *)
(* is an error, and if that is the user's rejection.                       *)
(***************************************************************************)
EXTENDS StatsAggregation

CONSTANTS
    ToolLogs,    \* message sequences: calls and results of a message
    ToolSeries,  \* sequences of sessions: at, provider, model, log
    ToolRanges   \* ranges of time

MinToolRateCalls == 5
MinToolErrorCount == 3

-----------------------------------------------------------------------------
(* Counts by name.  A name that was not counted is not in the domain. *)

CountNames(names) ==
    [name \in ToSet(names) \ {Blank} |-> Len(SelectSeq(names, LAMBDA n : n = name))]

Count(counts, name) == IF name \in DOMAIN counts THEN counts[name] ELSE 0
SumCounts(counts) == MapThenSumSet(LAMBDA name : counts[name], DOMAIN counts)

Calls(log) == FlattenSeq([i \in DOMAIN log |-> log[i].calls])
Results(log) == FlattenSeq([i \in DOMAIN log |-> log[i].results])

Part(items, part) == [i \in DOMAIN items |-> items[i][part]]

\* Mutant: a rejection counts as an error, too.
OutcomeCountsTwice(log, part) ==
    [calls |-> CountNames(Part(Calls(log), part)),
     errors |-> CountNames(Part(SelectSeq(Results(log), LAMBDA r : r.error), part)),
     rejections |-> CountNames(Part(SelectSeq(Results(log), LAMBDA r : r.error /\ r.rejected), part))]

(* By the name of the tool or by the kind of the action. *)
OutcomeCounts(log, part) ==
    [calls |-> CountNames(Part(Calls(log), part)),
     errors |-> CountNames(Part(SelectSeq(Results(log), LAMBDA r : r.error /\ ~r.rejected), part)),
     rejections |-> CountNames(Part(SelectSeq(Results(log), LAMBDA r : r.error /\ r.rejected), part))]

CollectSessionToolMetrics(sessions) ==
    [i \in DOMAIN sessions |->
        LET tools == OutcomeCounts(sessions[i].log, "name")
            actions == OutcomeCounts(sessions[i].log, "action")
        IN [at |-> sessions[i].at, provider |-> sessions[i].provider, model |-> sessions[i].model,
            tools |-> tools.calls, actions |-> actions.calls,
            errors |-> tools.errors, rejects |-> tools.rejections]]

-----------------------------------------------------------------------------
(* Over sessions *)

ReadTools == {"Read", "Grep", "Glob", "ToolSearch"}
WriteTools == {"Edit", "Write", "NotebookEdit", "apply_patch"}
BashTools == {"Bash", "exec_command", "shell_command", "write_stdin"}

ReadActions == {"read", "search"}
WriteActions == {"mutate", "rewrite"}
BashActions == {"execute", "test", "build"}

CountAll(counts, names) == MapThenSumSet(LAMBDA name : Count(counts, name), names)

\* Mutant: a session's calls are told apart by action and by tool.
CategoriesTwice(s) ==
    [read |-> CountAll(s.actions, ReadActions) + CountAll(s.tools, ReadTools),
     write |-> CountAll(s.actions, WriteActions) + CountAll(s.tools, WriteTools),
     bash |-> CountAll(s.actions, BashActions) + CountAll(s.tools, BashTools)]

(* A session that knows its actions is told apart by them, another by its   *)
(* tools.                                                                   *)
Categories(s) ==
    IF s.actions # <<>>
    THEN [read |-> CountAll(s.actions, ReadActions), write |-> CountAll(s.actions, WriteActions),
          bash |-> CountAll(s.actions, BashActions)]
    ELSE [read |-> CountAll(s.tools, ReadTools), write |-> CountAll(s.tools, WriteTools),
          bash |-> CountAll(s.tools, BashTools)]

NamesIn(part, sessions) == UNION {DOMAIN s[part] : s \in ToSet(sessions)}

TotalCounts(part, sessions) ==
    [name \in NamesIn(part, sessions) |-> Total(LAMBDA s : Count(s[part], name), sessions)]

(* Which tools have a rate, and what it is made of. *)
ToolRates(totals, counts, least) ==
    [name \in {n \in DOMAIN counts : Count(totals, n) >= MinToolRateCalls /\ counts[n] >= least} |->
        <<counts[name], totals[name]>>]

ToolSessionCalls(s) == SumCounts(s.tools)
ToolCallsBucket(calls) == Cardinality({b \in CallBounds : calls >= b})

OfBucket(sessions, b) == SelectSeq(sessions, LAMBDA s : ToolCallsBucket(ToolSessionCalls(s)) = b)

ComputeToolFigures(sessions) ==
    LET totals == TotalCounts("tools", sessions)
        errors == TotalCounts("errors", sessions)
        rejects == TotalCounts("rejects", sessions)
    IN [calls |-> Total(ToolSessionCalls, sessions), sessions |-> Len(sessions),
        errors |-> SumCounts(errors), rejects |-> SumCounts(rejects),
        read |-> Total(LAMBDA s : Categories(s).read, sessions),
        write |-> Total(LAMBDA s : Categories(s).write, sessions),
        bash |-> Total(LAMBDA s : Categories(s).bash, sessions),
        perSession |-> [b \in CallsBuckets |-> Len(OfBucket(sessions, b))],
        top |-> totals,
        errorRates |-> ToolRates(totals, errors, MinToolErrorCount),
        rejectRates |-> ToolRates(totals, rejects, 1)]

-----------------------------------------------------------------------------
(* By a dimension *)

(* The counts of a name by key; a key without any does not appear. *)
CountsByKey(part, sessions, dim, name) ==
    LET Own(key) == SelectSeq(sessions, LAMBDA s : SplitKey(dim, s) = key)
        Of(key) == Total(LAMBDA s : Count(s[part], name), Own(key))
    IN [key \in {k \in SplitKeys(dim, ToSet(sessions)) : Of(k) > 0} |-> Of(key)]

SplitsOf(shown, dim, whole) ==
    LET Splits(part, figures) == [name \in DOMAIN figures |-> CountsByKey(part, shown, dim, name)]
    IN [top |-> whole.top, tops |-> Splits("tools", whole.top),
        errorRates |-> whole.errorRates, errors |-> Splits("errors", whole.errorRates),
        rejectRates |-> whole.rejectRates, rejects |-> Splits("rejects", whole.rejectRates)]

\* Mutant: the rates of the whole range stand over the selected splits.
ToolSplitsOfAll(sessions, range, dim, allowed) ==
    SplitsOf(MatchSplitScope(sessions, range, dim, allowed), dim,
             ComputeToolFigures(FilterByTimeRange(sessions, range)))

ToolSplits(sessions, range, dim, allowed) ==
    LET shown == MatchSplitScope(sessions, range, dim, allowed)
    IN SplitsOf(shown, dim, ComputeToolFigures(shown))

-----------------------------------------------------------------------------
(* Properties *)

(* As long as every result answers a call of its name, no tool and no kind  *)
(* of action fails more often than it is called, and a rejection is no      *)
(* error (tool_outcomes.go).                                                *)
Answered(log, part) ==
    \A name \in ToSet(Part(Results(log), part)) :
        Len(SelectSeq(Results(log), LAMBDA r : r[part] = name))
            <= Len(SelectSeq(Calls(log), LAMBDA c : c[part] = name))

OutcomesWithinCalls ==
    \A log \in ToolLogs, part \in {"name", "action"} :
        LET counts == OutcomeCounts(log, part) IN
        Answered(log, part) =>
            \A name \in DOMAIN counts.errors \cup DOMAIN counts.rejections :
                Count(counts.errors, name) + Count(counts.rejections, name) <= Count(counts.calls, name)

ToolsPartedIn(figures) ==
    /\ figures.read + figures.write + figures.bash <= figures.calls
    /\ figures.calls = SumCounts(figures.top)
    /\ MapThenSumSet(LAMBDA b : figures.perSession[b], CallsBuckets) = figures.sessions
    /\ figures.errors + figures.rejects <= figures.calls
    /\ \A rate \in Range(figures.errorRates) \cup Range(figures.rejectRates) : rate[1] <= rate[2]
    /\ \A name \in DOMAIN figures.errorRates \cap DOMAIN figures.rejectRates :
           figures.errorRates[name][1] + figures.rejectRates[name][1] <= figures.top[name]

(* The shares of reading, writing and running never count a call twice, the *)
(* histogram counts every session once, the tools' counts add up to the     *)
(* calls, and no rate exceeds a hundred percent (tools.go, ComputeTools).   *)
ToolsParted ==
    \A sessions \in ToolSeries, range \in ToolRanges :
        ToolsPartedIn(ComputeToolFigures(FilterByTimeRange(CollectSessionToolMetrics(sessions), range)))

ToolSplitsAddUpIn(split, whole, allowed) ==
    /\ \A name \in DOMAIN split.top : SumCounts(split.tops[name]) = split.top[name]
    /\ \A name \in DOMAIN split.errorRates : SumCounts(split.errors[name]) = split.errorRates[name][1]
    /\ \A name \in DOMAIN split.rejectRates : SumCounts(split.rejects[name]) = split.rejectRates[name][1]
    /\ allowed = {} => /\ split.top = whole.top
                       /\ split.errorRates = whole.errorRates
                       /\ split.rejectRates = whole.rejectRates
    /\ allowed # {} => \A name \in DOMAIN split.tops : DOMAIN split.tops[name] \subseteq allowed

(* The splits of a tool add up to the count its row shows, the rows are     *)
(* those without the split when nothing is selected, and with a selection   *)
(* only selected keys appear under them (tools_grouped.go against tools.go).*)
ToolSplitsAddUp ==
    \A sessions \in ToolSeries, range \in ToolRanges, dim \in {"provider", "model"},
       allowed \in {{}, {"claude", "opus"}} :
        LET metrics == CollectSessionToolMetrics(sessions)
        IN ToolSplitsAddUpIn(ToolSplits(metrics, range, dim, allowed),
                             ComputeToolFigures(FilterByTimeRange(metrics, range)), allowed)

(* The figures of the Tools tab are those their definitions give.           *)
ToolFiguresRight == OutcomesWithinCalls /\ ToolsParted /\ ToolSplitsAddUp
=============================================================================
