---------------------------- MODULE TurnFigures ----------------------------
(***************************************************************************)
(* The figures of the Sessions tab (internal/stats): how long sessions     *)
(* are, and what the turns of a session cost, by their position in it.     *)
(*                                                                         *)
(* A message tells who wrote it, whether it belongs to the main thread, if *)
(* it divides the thread from a subagent's, whether it has text, its usage *)
(* and how many of its tool calls write to a memory file.  A ratio is a    *)
(* pair of numerator and denominator.                                      *)
(***************************************************************************)
EXTENDS StatsAggregation

CONSTANTS
    Logs,     \* message sequences of one session
    Samples,  \* sequences of numbers
    Series,   \* sequences of sessions: at, provider, version, subagent, log
    Metas,    \* sequences of the metadata of sessions
    Ranges    \* ranges of time

PromptTokens(usage) == usage.input + usage.created + usage.read
TotalTokens(usage) == PromptTokens(usage) + usage.output + usage.reasoning

-----------------------------------------------------------------------------
(* Turns: what follows a prompt of the user, up to the next prompt or      *)
(* divider.  The code has two readers of a log, one that lists the turns   *)
(* and one that adds them to totals by position; they differ in what they  *)
(* do with a finished turn, and here one reader does both.                 *)

BlankTurn == [prompt |-> 0, tokens |-> 0, read |-> 0, created |-> 0, writes |-> 0]

Reader(totals) ==
    [turns |-> <<>>, totals |-> totals, current |-> BlankTurn, active |-> FALSE, used |-> FALSE]

NoTotals == [prompt |-> 0, tokens |-> 0, samples |-> 0]

AddTurn(total, turn) ==
    [prompt |-> total.prompt + turn.prompt, tokens |-> total.tokens + turn.tokens,
     samples |-> total.samples + 1]

PutTotal(totals, position, turn) ==
    IF position <= Len(totals) THEN [totals EXCEPT ![position] = AddTurn(@, turn)]
    ELSE Append(totals, AddTurn(NoTotals, turn))

IsTurnBoundary(m) == m.from = "user" /\ m.text

\* Mutant: the cache tokens are those of the last answer.
ApplyTurnUsageLast(b, usage) ==
    IF TotalTokens(usage) = 0 THEN b
    ELSE [b EXCEPT !.used = TRUE,
                   !.current.prompt = Max({@, PromptTokens(usage)}),
                   !.current.tokens = @ + TotalTokens(usage),
                   !.current.read = usage.read,
                   !.current.created = usage.created]

(* The cache tokens are those the turn began with. *)
ApplyTurnUsage(b, usage) ==
    IF TotalTokens(usage) = 0 THEN b
    ELSE [b EXCEPT !.used = TRUE,
                   !.current.prompt = Max({@, PromptTokens(usage)}),
                   !.current.tokens = @ + TotalTokens(usage),
                   !.current.read = IF b.used THEN @ ELSE usage.read,
                   !.current.created = IF b.used THEN @ ELSE usage.created]

(* A turn nothing was paid for is dropped, but not the memory writes        *)
(* counted so far: they stay for the next turn.                             *)
Flush(b) ==
    IF b.used THEN [Reader(PutTotal(b.totals, Len(b.turns) + 1, b.current))
                       EXCEPT !.turns = Append(b.turns, b.current)]
    ELSE [b EXCEPT !.active = FALSE]

\* Mutant: a divider only ends a turn.
ConsumeDividerEnds(b, m) ==
    LET written == [b EXCEPT !.current.writes = @ + m.writes] IN
    CASE ~m.main -> b
      [] m.main /\ m.divider -> Flush(b)
      [] m.main /\ ~m.divider /\ IsTurnBoundary(m) -> [Flush(b) EXCEPT !.active = TRUE]
      [] m.main /\ ~m.divider /\ ~IsTurnBoundary(m) /\ ~b.active -> b
      [] OTHER -> IF m.from = "assistant" THEN ApplyTurnUsage(written, m.usage) ELSE written

Consume(b, m) ==
    LET written == [b EXCEPT !.current.writes = @ + m.writes]
        divides == m.divider \/ IsTurnBoundary(m)
    IN CASE ~m.main -> b
         [] m.main /\ divides -> [Flush(b) EXCEPT !.active = IsTurnBoundary(m)]
         [] m.main /\ ~divides /\ ~b.active -> b
         [] OTHER -> IF m.from = "assistant" THEN ApplyTurnUsage(written, m.usage) ELSE written

Read(totals, log) == Flush(FoldLeft(Consume, Reader(totals), log))

CollectSessionTurns(log) == Read(<<>>, log).turns

CollectSessionTurnMetrics(sessions) ==
    LET turns == [i \in DOMAIN sessions |->
                     [at |-> sessions[i].at, provider |-> sessions[i].provider,
                      version |-> sessions[i].version,
                      turns |-> IF sessions[i].subagent THEN <<>>
                                ELSE CollectSessionTurns(sessions[i].log)]]
    IN SelectSeq(turns, LAMBDA s : s.turns # <<>>)

-----------------------------------------------------------------------------
(* Averages by position *)

(* The turns of a session join the totals of their positions. *)
AccumulateTurnTotals(totals, turns) ==
    [i \in 1..Max({Len(totals), Len(turns)}) |->
        LET total == IF i <= Len(totals) THEN totals[i] ELSE NoTotals
        IN IF i <= Len(turns) THEN AddTurn(total, turns[i]) ELSE total]

AccumulateSessionTurnTotals(totals, log) == Read(totals, log).totals

PositionMetrics(totals) ==
    [i \in DOMAIN totals |->
        [prompt |-> <<totals[i].prompt, totals[i].samples>>,
         tokens |-> <<totals[i].tokens, totals[i].samples>>,
         samples |-> totals[i].samples]]

(* Straight from the messages. *)
ComputeTurnTokenMetrics(sessions) ==
    PositionMetrics(FoldLeft(LAMBDA totals, s : AccumulateSessionTurnTotals(totals, s.log), <<>>,
                             SelectSeq(sessions, LAMBDA s : ~s.subagent)))

(* From the turns the store keeps. *)
ComputeTurnTokenMetricsForRange(series, range) ==
    PositionMetrics(FoldLeft(LAMBDA totals, s : AccumulateTurnTotals(totals, s.turns), <<>>,
                             FilterByTimeRange(series, range)))

-----------------------------------------------------------------------------
(* The statistic shown of many values *)

Percentile(mode) == CASE mode = "p50" -> 50 [] mode = "p95" -> 95 [] mode = "p99" -> 99

\* Mutant: the rank is rounded down.
NearestRankBelow(values, percentile) ==
    SortSeq(values, <)[Max({1, (percentile * Len(values)) \div 100})]

NearestRank(values, percentile) ==
    SortSeq(values, <)[Max({1, (percentile * Len(values) + 99) \div 100})]

Sum(values) == FoldLeft(+, 0, values)

ApplyStatisticMode(values, mode) ==
    CASE values = <<>> -> <<0, 1>>
      [] values # <<>> /\ mode = "total" -> <<Sum(values), 1>>
      [] values # <<>> /\ mode = "avg" -> <<Sum(values), Len(values)>>
      [] values # <<>> /\ mode = "max" -> <<Max(ToSet(values)), 1>>
      [] OTHER -> <<NearestRank(values, Percentile(mode)), 1>>

ComputeTurnTokenMetricsForRangeWithMode(series, range, mode) ==
    LET shown == FilterByTimeRange(series, range)
        Reaching(i) == SelectSeq(shown, LAMBDA s : Len(s.turns) >= i)
        Values(part, i) == [j \in DOMAIN Reaching(i) |-> Reaching(i)[j].turns[i][part]]
    IN [i \in 1..Max({0} \cup {Len(s.turns) : s \in ToSet(shown)}) |->
           [prompt |-> ApplyStatisticMode(Values("prompt", i), mode),
            tokens |-> ApplyStatisticMode(Values("tokens", i), mode),
            samples |-> Len(Reaching(i))]]

(* Turns know the provider and the version of their session, not its model. *)
TurnMetricsKey(dim, s) ==
    LET value == IF dim = "provider" THEN s.provider ELSE s.version
    IN IF value = Blank THEN Unknown ELSE value

GroupTurnMetricsBySplit(series, dim, allowed) ==
    LET keys == {TurnMetricsKey(dim, s) : s \in ToSet(series)}
    IN [key \in {k \in keys : Allowed(allowed, k)} |->
           SelectSeq(series, LAMBDA s : TurnMetricsKey(dim, s) = key)]

\* Mutant: each split shows the turns of all.
SplitTurnSeriesOfAll(series, range, dim, allowed, mode) ==
    [key \in DOMAIN GroupTurnMetricsBySplit(series, dim, allowed) |->
        ComputeTurnTokenMetricsForRangeWithMode(series, range, mode)]

ComputeTurnTokenMetricsBySplit(series, range, dim, allowed, mode) ==
    LET grouped == GroupTurnMetricsBySplit(series, dim, allowed)
        metrics == [key \in DOMAIN grouped |->
                       ComputeTurnTokenMetricsForRangeWithMode(grouped[key], range, mode)]
    IN [key \in {k \in DOMAIN grouped : metrics[k] # <<>>} |-> metrics[key]]

-----------------------------------------------------------------------------
(* Durations and sizes of sessions, in minutes and messages *)

DurationBounds == {5, 15, 30, 60, 120}
MessageBounds == {5, 15, 30, 60}

Duration(s) == IF s.last = NoTime \/ s.at = NoTime THEN 0 ELSE s.last - s.at

DurationBucket(minutes) == Cardinality({b \in DurationBounds : minutes >= b})
MessageBucket(count) == Cardinality({b \in MessageBounds : count > b})

(* A subagent's session counts all its messages, another the main thread's. *)
SessionMessageCount(s) == IF s.subagent /\ s.messages > 0 THEN s.messages ELSE s.mainMessages

ComputeSessions(sessions) ==
    [durations |-> [b \in 0..Cardinality(DurationBounds) |->
                       Len(SelectSeq(sessions, LAMBDA s : DurationBucket(Duration(s)) = b))],
     sizes |-> [b \in 0..Cardinality(MessageBounds) |->
                   Len(SelectSeq(sessions, LAMBDA s : MessageBucket(SessionMessageCount(s)) = b))],
     duration |-> <<Total(Duration, sessions), Len(sessions)>>,
     messages |-> <<Total(SessionMessageCount, sessions), Len(sessions)>>,
     abandoned |-> Len(SelectSeq(sessions, LAMBDA s :
                                    SessionMessageCount(s) < 3 \/ Duration(s) < 1))]

(* The statistics of a mode over the sessions' own figures. *)
ComputeSessionStatistics(sessions, mode) ==
    [duration |-> ApplyStatisticMode([i \in DOMAIN sessions |-> Duration(sessions[i])], mode),
     messages |-> ApplyStatisticMode([i \in DOMAIN sessions |-> SessionMessageCount(sessions[i])], mode)]

-----------------------------------------------------------------------------
(* Properties *)

MainThread(log) == SelectSeq(log, LAMBDA m : m.main)

(* Where the turn that begins at i ends. *)
TurnEnd(main, i) ==
    Min({Len(main) + 1} \cup {j \in i + 1..Len(main) : main[j].divider \/ IsTurnBoundary(main[j])})

Answers(main, i) ==
    {j \in i + 1..TurnEnd(main, i) - 1 : main[j].from = "assistant" /\ TotalTokens(main[j].usage) > 0}

Prompts(main) == {i \in DOMAIN main : IsTurnBoundary(main[i])}

(* A session has one turn for every prompt that was answered, in their      *)
(* order: its cost is that of all its answers, its prompt the deepest, its  *)
(* cache tokens those of the first; subagents, dividers and unanswered      *)
(* prompts in between shift nothing (sessions.go, turnBuilder). The memory  *)
(* writes are the turn's own, once every earlier prompt was answered.       *)
TurnsRightIn(log, main, answered, turns) ==
    /\ Len(turns) = Cardinality(answered)
    /\ \A i \in answered :
           LET turn == turns[Cardinality({j \in answered : j <= i})]
               answers == Answers(main, i)
           IN /\ turn.tokens = MapThenSumSet(LAMBDA j : TotalTokens(main[j].usage), answers)
              /\ turn.prompt = Max({PromptTokens(main[j].usage) : j \in answers})
              /\ turn.read = main[Min(answers)].usage.read
              /\ turn.created = main[Min(answers)].usage.created
              /\ (\A j \in Prompts(main) : j < i => j \in answered) =>
                     turn.writes = Total(LAMBDA m : m.writes,
                                         SubSeq(main, i + 1, TurnEnd(main, i) - 1))

TurnsRight ==
    \A log \in Logs :
        LET main == MainThread(log)
        IN TurnsRightIn(log, main, {i \in Prompts(main) : Answers(main, i) # {}},
                        CollectSessionTurns(log))

SameRatio(p, q) == p[1] * q[2] = q[1] * p[2]

(* The averages read from the store's turns are those of the messages: the  *)
(* two readers of a log never disagree (sessions.go, turnTotalsAccumulator).*)
ReadersAgree ==
    \A sessions \in Series :
        ComputeTurnTokenMetrics(sessions)
            = ComputeTurnTokenMetricsForRange(CollectSessionTurnMetrics(sessions), AllTime)

(* A percentile is the least value that as many percent of the values do    *)
(* not exceed, so no statistic exceeds one of a higher percentile           *)
(* (statistic_mode.go, nearestRank).                                        *)
RanksRight ==
    \A values \in Samples, percentile \in {50, 95, 99} :
        LET AtMost(v) == Len(SelectSeq(values, LAMBDA x : x <= v))
        IN NearestRank(values, percentile)
               = Min({v \in ToSet(values) : 100 * AtMost(v) >= percentile * Len(values)})

(* The split series tell the whole apart: at every position their samples   *)
(* and totals add up to the whole's and the highest is the whole's, in any  *)
(* range; the mode avg gives the averages of the lane without a split       *)
(* (grouping.go, statistic_mode.go).                                        *)
SplitSeriesAddUpIn(series, range, dim) ==
    LET Whole(mode) == ComputeTurnTokenMetricsForRangeWithMode(series, range, mode)
        Parts(mode) == ComputeTurnTokenMetricsBySplit(series, range, dim, {}, mode)
        At(parts, i) == SelectSeq(SetToSeq(DOMAIN parts), LAMBDA key : i <= Len(parts[key]))
        SumAt(f(_), parts, i) == Total(LAMBDA key : f(parts[key][i]), At(parts, i))
        averages == ComputeTurnTokenMetricsForRange(series, range)
    IN /\ Len(averages) = Len(Whole("avg"))
       /\ \A i \in DOMAIN averages :
              /\ SameRatio(Whole("avg")[i].prompt, averages[i].prompt)
              /\ Whole("total")[i].samples = SumAt(LAMBDA m : m.samples, Parts("total"), i)
              /\ Whole("total")[i].tokens[1] = SumAt(LAMBDA m : m.tokens[1], Parts("total"), i)
              /\ Whole("max")[i].prompt
                     \in {Parts("max")[key][i].prompt : key \in ToSet(At(Parts("max"), i))}

SplitSeriesAddUp ==
    \A sessions \in Series, range \in Ranges, dim \in {"provider", "version"} :
        SplitSeriesAddUpIn(CollectSessionTurnMetrics(sessions), range, dim)

(* Every session is in one bucket of each histogram, the one whose bounds   *)
(* hold its figure, and the averages shown with the histograms are those    *)
(* the statistic modes give (sessions.go, durationBucket).                  *)
SessionFiguresRight ==
    \A sessions \in Metas \ {<<>>} :
        LET shown == ComputeSessions(sessions)
            Fits(s, b) == /\ (b > 0 => Duration(s) >= Sorted(DurationBounds)[b])
                          /\ b < 5 => Duration(s) < Sorted(DurationBounds)[b + 1]
        IN /\ \A b \in DOMAIN shown.durations :
                  shown.durations[b] = Len(SelectSeq(sessions, LAMBDA s : Fits(s, b)))
           /\ shown.duration = ComputeSessionStatistics(sessions, "avg").duration
           /\ shown.messages = ComputeSessionStatistics(sessions, "avg").messages

(* The figures of the Sessions tab are those their definitions give.        *)
TurnFiguresRight ==
    TurnsRight /\ ReadersAgree /\ RanksRight /\ SplitSeriesAddUp /\ SessionFiguresRight
=============================================================================
