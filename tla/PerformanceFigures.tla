------------------------- MODULE PerformanceFigures -------------------------
(***************************************************************************)
(* The scorecard of the Performance tab (internal/stats/performance*.go):  *)
(* metrics of the sessions in a range against those of the period before   *)
(* it, in four lanes, each metric with a score, a trend and a series of    *)
(* buckets; some from the sessions' counts, some from the order of their   *)
(* actions.                                                                *)
(*                                                                         *)
(* A session tells counts: the names in CountNames of PerformanceCounts.   *)
(* A figure is a pair of numerator and denominator, exact where the code   *)
(* has floating point; formatted values and explanations are left out.     *)
(***************************************************************************)
EXTENDS TurnFigures, PerformanceSequence

CONSTANTS
    LongSpan,      \* a longer range is shown in buckets of LongStep
    LongStep,
    MinSessionSamples,
    MinSequenceSamples,
    Scorings,      \* values, floors and samples to score
    Performances   \* sequences of sessions: at, provider, model, log and counts

ASSUME PerformanceAssumption ==
    /\ LongStep \in Nat \ {0} /\ LongSpan \in Nat
    /\ MinSessionSamples \in Nat \ {0} /\ MinSequenceSamples \in Nat \ {0}

-----------------------------------------------------------------------------
(* The range, the period before it, and the buckets of the range *)

(* All time is the time from the first session to the last, unless one has  *)
(* no time.                                                                 *)
Current(range, sessions) ==
    LET times == {s.at : s \in ToSet(sessions)} IN
    IF range # AllTime \/ times = {} \/ NoTime \in times THEN range
    ELSE [start |-> Min(times), end |-> Max(times)]

\* Mutant: the period before ends where the range begins.
BaselineTouching(current) ==
    IF current = AllTime THEN AllTime
    ELSE [start |-> current.start - (current.end - current.start), end |-> current.start]

Baseline(current) ==
    IF current = AllTime THEN AllTime
    ELSE [start |-> current.start - 1 - (current.end - current.start), end |-> current.start - 1]

BucketStep(range) == IF range.end - range.start > LongSpan THEN LongStep ELSE DayLength

(* Buckets begin with the range, not at midnight; the last may be short. *)
PerformanceBuckets(range) ==
    LET step == BucketStep(range)
        count == IF range = AllTime THEN 0 ELSE (range.end - range.start) \div step + 1
    IN [i \in 1..count |->
           [start |-> range.start + (i - 1) * step,
            end |-> Min({range.start + i * step - 1, range.end})]]

(* The step is read off the first bucket. *)
BucketIndex(t, buckets) ==
    LET step == buckets[1].end - buckets[1].start + 1
        index == (t - buckets[1].start) \div step
    IN IF Len(buckets) <= 1 THEN 1 ELSE Max({1, Min({index + 1, Len(buckets)})})

InBucket(sessions, range, i) ==
    SelectSeq(FilterByTimeRange(sessions, range),
              LAMBDA s : BucketIndex(s.at, PerformanceBuckets(range)) = i)

-----------------------------------------------------------------------------
(* Aggregates: the sums of what sessions count *)

Acts(s, kinds) == Len(SelectSeq(s.acts, LAMBDA kind : kind \in kinds))
Failing(s, kinds) == Len(SelectSeq(s.failed, LAMBDA kind : kind \in kinds))

One(condition) == IF condition THEN 1 ELSE 0

HasMutation(s) == Acts(s, Mutations) > 0
VerificationPassed(s) == Acts(s, Verifications) > Failing(s, Verifications)

(* failed holds the kinds of the actions that failed or were rejected. *)
PerformanceCounts(s) ==
    [sessions |-> 1, turns |-> s.turns, tokens |-> TotalTokens(s.usage),
     reasoning |-> s.usage.reasoning,
     actions |-> Len(s.acts), research |-> Acts(s, {"read", "search"}), web |-> Acts(s, {"web"}),
     mutate |-> Acts(s, {"mutate"}), rewrite |-> Acts(s, {"rewrite"}), execute |-> Acts(s, {"execute"}),
     errors |-> Len(s.failed) - s.rejected, rejected |-> s.rejected,
     mutated |-> One(HasMutation(s)), verified |-> One(HasMutation(s) /\ VerificationPassed(s)),
     pressed |-> One(s.compacted), aborts |-> s.aborts, started |-> s.started, retries |-> s.retries]

CountsOfSummary(c) ==
    LET IfMutated(n) == IF c.mutated THEN n ELSE 0
    IN [sessions |-> 1, mutated |-> One(c.mutated), resolved |-> One(c.resolved),
        followups |-> IfMutated(c.followups),
        churn |-> IfMutated(c.mutations + c.distinct + c.hunks),
        before |-> IfMutated(c.actionsBefore),
        blind |-> c.blind, targeted |-> c.targeted, loops |-> c.loops, actions |-> c.actions,
        visible |-> c.visible, answers |-> c.assistantTurns]

SequenceCounts(s) == CountsOfSummary(CollectPerformanceSequenceSession(s.log))

NoSession == [at |-> 1, provider |-> Blank, model |-> Blank, turns |-> 0, acts |-> <<>>, failed |-> <<>>,
              rejected |-> 0, compacted |-> FALSE, aborts |-> 0, started |-> 0, retries |-> 0, log |-> <<>>,
              usage |-> [input |-> 0, created |-> 0, read |-> 0, output |-> 0, reasoning |-> 0]]

(* Counts of the sessions' metadata, or of the order of their actions. *)
Counts(source, s) == IF source = "session" THEN PerformanceCounts(s) ELSE SequenceCounts(s)

AddCounts(a, b) == [count \in DOMAIN a |-> a[count] + b[count]]

Aggregate(source, sessions) ==
    FoldLeft(AddCounts, [count \in DOMAIN Counts(source, NoSession) |-> 0],
             [i \in DOMAIN sessions |-> Counts(source, sessions[i])])

-----------------------------------------------------------------------------
(* Scores *)

AbsRate(r) == <<IF r[1] < 0 THEN -r[1] ELSE r[1], r[2]>>
LessRate(p, q) == p[1] * q[2] < q[1] * p[2]
SubRates(p, q) == <<p[1] * q[2] - q[1] * p[2], p[2] * q[2]>>
OverRate(p, q) == <<p[1] * q[2], p[2] * q[1]>>

(* To the nearest, halves away from zero. *)
Round(r) ==
    IF r[1] >= 0 THEN (2 * r[1] + r[2]) \div (2 * r[2]) ELSE -((-2 * r[1] + r[2]) \div (2 * r[2]))

Ratio(numerator, denominator) == IF denominator <= 0 THEN <<0, 1>> ELSE <<numerator, denominator>>

(* As many samples as the denominator counts. *)
SampleCount(denominator) == IF denominator <= 0 THEN 0 ELSE denominator

TrendOf(delta) ==
    CASE LessRate(AbsRate(delta), <<1, 20>>) -> "flat"
      [] ~LessRate(AbsRate(delta), <<1, 20>>) /\ delta[1] > 0 -> "up"
      [] OTHER -> "down"

NoScore == [has |-> FALSE, score |-> 0, trend |-> "none"]

(* How far the value moved, relative to the baseline. *)
Delta(current, baseline, up, floor) ==
    LET scale == IF LessRate(AbsRate(baseline), floor) THEN floor ELSE AbsRate(baseline)
        moved == OverRate(SubRates(current, baseline), scale)
    IN IF up THEN moved ELSE <<-moved[1], moved[2]>>

\* Mutant: lower is worse, whatever the metric.
ScoreUpward(current, baseline, up, floor) ==
    LET delta == Delta(current, baseline, TRUE, floor)
    IN [has |-> TRUE, score |-> Max({0, Min({100, 50 + Round(<<50 * delta[1], delta[2]>>)})}),
        trend |-> TrendOf(delta)]

Score(current, baseline, up, floor) ==
    LET delta == Delta(current, baseline, up, floor)
    IN [has |-> TRUE, score |-> Max({0, Min({100, 50 + Round(<<50 * delta[1], delta[2]>>)})}),
        trend |-> TrendOf(delta)]

ScorePerformanceMetric(current, baseline, up, samples, least, floor) ==
    IF samples[1] < least \/ samples[2] < least THEN NoScore
    ELSE Score(current, baseline, up, floor)

-----------------------------------------------------------------------------
(* Metrics.  The weight is in quarters. *)

Metric(area, id, numerator, denominator, up, floor, weight) ==
    [area |-> area, id |-> id, numerator |-> numerator, denominator |-> denominator,
     up |-> up, floor |-> floor, weight |-> weight]

ForProvider(provider, wanted, metrics) == IF provider = wanted THEN metrics ELSE <<>>

OutcomeLane(a) == <<Metric("outcome", "verification pass", a.verified, a.mutated, TRUE, <<1, 20>>, 4)>>

DisciplineLane(a) ==
    LET changes == a.mutate + a.rewrite IN
    <<Metric("discipline", "read before write", a.research, changes, TRUE, <<1, 4>>, 4),
      Metric("discipline", "research", a.research + a.web, changes + a.execute, TRUE, <<1, 4>>, 4),
      Metric("discipline", "full rewrites", a.rewrite, changes, FALSE, <<1, 20>>, 4)>>

EfficiencyLane(a, provider) ==
    <<Metric("efficiency", "tokens", a.tokens, a.turns, FALSE, <<50, 1>>, 4),
      Metric("efficiency", "actions", a.actions, a.turns, FALSE, <<1, 4>>, 4)>>
    \o ForProvider(provider, "codex",
         <<Metric("efficiency", "reasoning share", a.reasoning, a.tokens, FALSE, <<1, 20>>, 2)>>)

RobustnessLane(a, provider) ==
    <<Metric("robustness", "errors", a.errors, a.actions, FALSE, <<1, 20>>, 4),
      Metric("robustness", "rejections", a.rejected, a.actions, FALSE, <<1, 20>>, 4),
      Metric("robustness", "context pressure", a.pressed, a.sessions, FALSE, <<1, 20>>, 4)>>
    \o ForProvider(provider, "codex",
         <<Metric("robustness", "aborts", a.aborts, a.started, FALSE, <<1, 20>>, 4)>>)
    \o ForProvider(provider, "claude",
         <<Metric("robustness", "retries", a.retries, a.sessions, FALSE, <<1, 4>>, 4)>>)

SessionMetrics(a, provider) ==
    OutcomeLane(a) \o DisciplineLane(a) \o EfficiencyLane(a, provider) \o RobustnessLane(a, provider)

SequenceMetrics(a) ==
    <<Metric("outcome", "first pass", a.resolved, a.mutated, TRUE, <<1, 20>>, 4),
      Metric("outcome", "corrections", a.followups, a.mutated, FALSE, <<1, 4>>, 4),
      Metric("outcome", "patch churn", a.churn, a.mutated, FALSE, <<1, 2>>, 4),
      Metric("discipline", "blind edits", a.blind, a.targeted, FALSE, <<1, 20>>, 4),
      Metric("discipline", "loops", a.loops, a.actions, FALSE, <<1, 10>>, 4),
      Metric("efficiency", "time to mutation", a.before, a.mutated, FALSE, <<1, 2>>, 0),
      Metric("efficiency", "visible thinking", a.visible, a.answers, TRUE, <<25, 1>>, 1)>>

(* A metric of the range, scored against that of the period before. *)
Scored(m, before, least, series) ==
    [m EXCEPT !.numerator = Ratio(m.numerator, m.denominator)] @@
    [score |-> ScorePerformanceMetric(Ratio(m.numerator, m.denominator),
                                      Ratio(before.numerator, before.denominator), m.up,
                                      <<SampleCount(m.denominator), SampleCount(before.denominator)>>,
                                      least, m.floor),
     series |-> series]

ScoredAgainst(metrics, before, parts, least) ==
    [i \in DOMAIN metrics |->
        Scored(metrics[i], before[i], least,
               [b \in DOMAIN parts |-> <<parts[b][i].numerator, parts[b][i].denominator>>])]

MetricsOf(source, a, provider) ==
    IF source = "session" THEN SessionMetrics(a, provider) ELSE SequenceMetrics(a)

ScoredMetrics(source, sessions, range, provider, least) ==
    LET current == Current(range, sessions)
        Metrics(counted) == MetricsOf(source, Aggregate(source, counted), provider)
    IN ScoredAgainst(Metrics(FilterByTimeRange(sessions, current)),
                     Metrics(FilterByTimeRange(sessions, Baseline(current))),
                     [b \in DOMAIN PerformanceBuckets(current) |-> Metrics(InBucket(sessions, current, b))],
                     least)

(* The provider all sessions in the range have, else none. *)
SingleProvider(sessions, range) ==
    LET providers == {s.provider : s \in ToSet(FilterByTimeRange(sessions, range))}
    IN IF Cardinality(providers) = 1 THEN CHOOSE p \in providers : TRUE ELSE Blank

TrendScore(trend) == CASE trend = "up" -> 1 [] trend = "down" -> -1 [] OTHER -> 0

\* Mutant: a metric without a score counts as zero.
CombineScoresOfAll(metrics) ==
    LET weight == Total(LAMBDA m : m.weight, metrics)
        score == Total(LAMBDA m : m.score.score * m.weight, metrics)
        trend == Total(LAMBDA m : TrendScore(m.score.trend) * m.weight, metrics)
    IN IF weight = 0 THEN NoScore
       ELSE [has |-> TRUE, score |-> Round(<<score, weight>>),
             trend |-> IF trend > 0 THEN "up" ELSE IF trend < 0 THEN "down" ELSE "flat"]

CombineScores(metrics) ==
    LET counting == SelectSeq(metrics, LAMBDA m : m.score.has /\ m.weight > 0)
        weight == Total(LAMBDA m : m.weight, counting)
        score == Total(LAMBDA m : m.score.score * m.weight, counting)
        trend == Total(LAMBDA m : TrendScore(m.score.trend) * m.weight, counting)
    IN IF weight = 0 THEN NoScore
       ELSE [has |-> TRUE, score |-> Round(<<score, weight>>),
             trend |-> IF trend > 0 THEN "up" ELSE IF trend < 0 THEN "down" ELSE "flat"]

Lanes == {"outcome", "discipline", "efficiency", "robustness"}
OfLane(metrics, area) == SelectSeq(metrics, LAMBDA m : m.area = area)

Scorecard(metrics) ==
    [metrics |-> metrics, overall |-> CombineScores(metrics),
     lanes |-> [area \in Lanes |-> CombineScores(OfLane(metrics, area))]]

(* loaded are the sessions whose actions were read, <<>> before they were.  *)
ComputePerformance(sessions, range, loaded) ==
    LET provider == SingleProvider(sessions, Current(range, sessions))
    IN Scorecard(ScoredMetrics("session", sessions, range, provider, MinSessionSamples)
                 \o IF loaded = <<>> THEN <<>>
                    ELSE ScoredMetrics("sequence", loaded, range, provider, MinSequenceSamples))

-----------------------------------------------------------------------------
(* Properties *)

PerformanceRanges(sessions) == {Current(range, sessions) : range \in Ranges} \ {AllTime}

(* The period before adjoins the range, is as long and shares no session    *)
(* with it; all time has nothing before it, so nothing of it is scored      *)
(* (performance_trend.go, performanceTimeWindow).                           *)
WindowsRight ==
    \A sessions \in Performances :
        /\ \A current \in PerformanceRanges(sessions) :
               LET before == Baseline(current) IN
               /\ before.end + 1 = current.start
               /\ before.end - before.start = current.end - current.start
               /\ \A s \in ToSet(sessions) :
                      ~(TimeRangeContains(current, s.at) /\ TimeRangeContains(before, s.at))
        /\ \A m \in ToSet(ComputePerformance(sessions, AllTime, sessions).metrics) : ~m.score.has

SumOf(part, series) == Total(LAMBDA point : point[part], series)

BucketsLieOver(buckets, current, sessions) ==
    /\ buckets[1].start = current.start /\ buckets[Len(buckets)].end = current.end
    /\ \A i \in 2..Len(buckets) : buckets[i].start = buckets[i - 1].end + 1
    /\ \A s \in ToSet(sessions) : TimeRangeContains(buckets[BucketIndex(s.at, buckets)], s.at)

SeriesAddUp(metrics, figures) ==
    \A i \in DOMAIN metrics :
        /\ metrics[i].id = figures[i].id
        /\ SumOf(1, metrics[i].series) = figures[i].numerator
        /\ SumOf(2, metrics[i].series) = figures[i].denominator

(* The buckets of a series lie end to end over the range, a session counts  *)
(* in the bucket that holds its time, and the buckets add up to the metric  *)
(* they are drawn under (performance_session.go, performanceBucketIndex).   *)
BucketsRight ==
    \A sessions \in Performances \ {<<>>}, range \in Ranges :
        LET current == Current(range, sessions)
            shown == FilterByTimeRange(sessions, current)
        IN /\ BucketsLieOver(PerformanceBuckets(current), current, shown)
           /\ SeriesAddUp(ComputePerformance(sessions, range, sessions).metrics,
                          SessionMetrics(Aggregate("session", shown), SingleProvider(sessions, current))
                          \o SequenceMetrics(Aggregate("sequence", shown)))

(* A score is a percentage, fifty for what did not move, flat next to fifty *)
(* and only there; it never falls when the metric moves the better way, and *)
(* mirrors the score of a metric of the other direction (scorePerformance-  *)
(* Metric).                                                                 *)
ScoresRight ==
    \A x \in Scorings :
        LET shown == Score(x.current, x.baseline, x.up, x.floor)
            mirrored == Score(x.current, x.baseline, ~x.up, x.floor)
        IN /\ shown.score \in 0..100
           /\ (shown.trend = "flat") = (shown.score \in 48..52)
           /\ shown.trend = "up" => shown.score > 50
           /\ SubRates(x.current, x.baseline)[1] = 0 => shown.score = 50
           /\ LessRate(x.baseline, x.current) => (shown.score >= 50) = x.up \/ shown.trend = "flat"
           /\ shown.score + mirrored.score = 100
           /\ \A y \in Scorings :
                  /\ y.baseline = x.baseline /\ y.floor = x.floor /\ y.up = x.up
                  /\ LessRate(x.current, y.current) = x.up
                  => shown.score <= Score(y.current, y.baseline, y.up, y.floor).score

LaneRight(combined, metrics) ==
    LET scores == {m.score.score : m \in {x \in ToSet(metrics) : x.score.has /\ x.weight > 0}}
    IN /\ combined.has = (scores # {})
       /\ combined.has => combined.score \in Min(scores)..Max(scores)

CombinedRightIn(performance, counts) ==
    /\ \A area \in Lanes : LaneRight(performance.lanes[area], OfLane(performance.metrics, area))
    /\ performance.overall.has = \E area \in Lanes : performance.lanes[area].has
    /\ counts = SubSeq(performance.metrics, 1, Len(counts))

(* A lane has a score if one of its weighted metrics has, and the score     *)
(* lies among theirs: a metric with too few samples, or without weight,     *)
(* never pulls it (combinePerformanceScores); what the sequence of actions  *)
(* adds changes no metric of the counts (applyPerformanceSequence).         *)
CombinedRight ==
    \A sessions \in Performances, range \in Ranges :
        CombinedRightIn(ComputePerformance(sessions, range, sessions),
                        ComputePerformance(sessions, range, <<>>).metrics)

(* What is shown as a share never exceeds the whole.                        *)
Shares == {"verification pass", "first pass", "full rewrites", "blind edits", "context pressure"}

SharesRight ==
    \A sessions \in Performances, range \in Ranges :
        \A m \in ToSet(ComputePerformance(sessions, range, sessions).metrics) :
            m.id \in Shares => m.numerator[1] <= m.numerator[2]

(* The figures of the Performance tab are those their definitions give.     *)
PerformanceFiguresRight ==
    SequenceRight /\ WindowsRight /\ BucketsRight /\ ScoresRight /\ CombinedRight /\ SharesRight
=============================================================================
