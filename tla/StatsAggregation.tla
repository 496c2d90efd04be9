-------------------------- MODULE StatsAggregation --------------------------
(***************************************************************************)
(* What the statistics compute (internal/stats): totals, the heaviest      *)
(* sessions, daily activity from the sessions and from the rows the store  *)
(* precomputed, streaks, the trend, and the same figures split by a        *)
(* dimension.                                                              *)
(*                                                                         *)
(* Instants are minutes, numbered from 1 and grouped in days of equal      *)
(* length; a message without a timestamp has the instant NoTime.  A        *)
(* session carries the total its scan gave it, which need not be what its  *)
(* messages add up to: Codex counts requests that show no message.  Tool   *)
(* names and the kinds of tokens are left out, the order of two names is   *)
(* the order of their numbers.                                             *)
(***************************************************************************)
EXTENDS Integers, FiniteSets, Sequences, SequencesExt

CONSTANTS
    DayLength,   \* minutes of a day
    TopLimit,    \* overviewTopSessionLimit
    CallBounds,  \* least number of calls of each further histogram bucket
    Unknown      \* UnknownSplitKey

ASSUME AggregationAssumption ==
    DayLength \in Nat \ {0} /\ TopLimit \in Nat \ {0} /\ CallBounds \subseteq Nat

NoTime == 0
Blank == ""

Day(t) == t \div DayLength

AllTime == [start |-> NoTime, end |-> NoTime]

(* The days ending on today, from midnight to the last instant. *)
LastDays(today, days) ==
    [start |-> (today - days + 1) * DayLength, end |-> today * DayLength + DayLength - 1]

TimeRangeContains(range, t) == range = AllTime \/ (range.start <= t /\ t <= range.end)

FilterByTimeRange(sessions, range) ==
    SelectSeq(sessions, LAMBDA s : TimeRangeContains(range, s.at))

(* A session without a provider has its conversation's. *)
FlattenSessions(conversations) ==
    LET OfConversation(c) ==
            [i \in DOMAIN c.sessions |->
                [c.sessions[i] EXCEPT !.provider = IF @ = Blank THEN c.provider ELSE @]]
    IN FlattenSeq([i \in DOMAIN conversations |-> OfConversation(conversations[i])])

Total(f(_), items) ==
    LET sum[n \in 0..Len(items)] == IF n = 0 THEN 0 ELSE sum[n - 1] + f(items[n])
    IN sum[Len(items)]

(* What the rows of the store are made of, and what everything computed     *)
(* from the sessions alone takes.                                           *)
MessageTokens(message) == message.tokens
Tokens(s) == s.usage

-----------------------------------------------------------------------------
(* Overview *)

(* compareSessionSummaryOrder: heaviest, then newest, then by the names of  *)
(* project and session.                                                     *)
Before(a, b) ==
    \/ Tokens(a) > Tokens(b)
    \/ /\ Tokens(a) = Tokens(b)
       /\ \/ a.at > b.at
          \/ a.at = b.at /\ a.project < b.project
          \/ a.at = b.at /\ a.project = b.project /\ a.slug < b.slug
\* Mutant: a session that finds no place takes the last one of a full list.
AppendTopSessionBlindly(top, s) ==
    LET place == SelectInSeq(top, LAMBDA t : Before(s, t)) IN
    IF place = 0 THEN IF Len(top) < TopLimit THEN Append(top, s) ELSE ReplaceAt(top, TopLimit, s)
    ELSE SubSeq(InsertAt(top, place, s), 1, Min({Len(top) + 1, TopLimit}))

AppendTopSession(top, s) ==
    LET place == SelectInSeq(top, LAMBDA t : Before(s, t)) IN
    IF place = 0 THEN IF Len(top) < TopLimit THEN Append(top, s) ELSE top
    ELSE SubSeq(InsertAt(top, place, s), 1, Min({Len(top) + 1, TopLimit}))

ComputeOverview(sessions) ==
    [count |-> Len(sessions),
     tokens |-> Total(Tokens, sessions),
     byModel |-> [name \in {s.model : s \in {x \in ToSet(sessions) : Tokens(x) > 0}} \ {Blank} |->
                     Total(Tokens, SelectSeq(sessions, LAMBDA s : s.model = name))],
     top |-> FoldLeft(AppendTopSession, <<>>,
                      SelectSeq(sessions, LAMBDA s : Tokens(s) > 0))]

-----------------------------------------------------------------------------
(* Activity by day *)

MessageCount(s) == Len(s.messages)

NoActivity == [sessions |-> <<>>, messages |-> <<>>, tokens |-> <<>>,
               active |-> 0, current |-> 0, longest |-> 0]

(* The days shown: those of the range, or from the first day to the last. *)
Bounds(days, range) ==
    IF range = AllTime THEN Min(days)..Max(days) ELSE Day(range.start)..Day(range.end)

CountBackwardStreak(active, end) ==
    LET streaks == {n \in 0..Cardinality(active) : \A d \in end - n + 1..end : d \in active}
    IN Max(streaks)

Sorted(days) ==
    [n \in 1..Cardinality(days) |-> CHOOSE d \in days : Cardinality({e \in days : e <= d}) = n]
\* Mutant: the last run of days is not compared.
CountLongestStreakEarly(active) ==
    IF active = {} THEN 0
    ELSE LET days == Sorted(active)
             Step(acc, i) ==
                 LET current == IF days[i] = days[i - 1] + 1 THEN acc.current + 1 ELSE 1
                 IN [current |-> current, longest |-> Max({acc.longest, acc.current})]
         IN FoldLeft(Step, [current |-> 1, longest |-> 1],
                     [i \in 1..Len(days) - 1 |-> i + 1]).longest

CountLongestStreak(active) ==
    IF active = {} THEN 0
    ELSE LET days == Sorted(active)
             Step(acc, i) ==
                 LET current == IF days[i] = days[i - 1] + 1 THEN acc.current + 1 ELSE 1
                 IN [current |-> current, longest |-> Max({acc.longest, current})]
         IN FoldLeft(Step, [current |-> 1, longest |-> 1],
                     [i \in 1..Len(days) - 1 |-> i + 1]).longest

Activity(days, sessions, messages, tokens, activeDays) ==
    [sessions |-> [d \in days |-> sessions[d]],
     messages |-> [d \in days |-> messages[d]],
     tokens |-> [d \in days |-> tokens[d]],
     active |-> Cardinality(activeDays \cap days),
     current |-> CountBackwardStreak(activeDays, Max(days)),
     longest |-> CountLongestStreak(activeDays)]

(* From the sessions alone: a session counts on the day it began. *)
ComputeActivity(sessions, range) ==
    IF sessions = <<>> THEN NoActivity
    ELSE LET days == Bounds({Day(s.at) : s \in ToSet(sessions)}, range)
             On(d) == SelectSeq(sessions, LAMBDA s : Day(s.at) = d)
         IN Activity(days, [d \in days |-> Len(On(d))],
                     [d \in days |-> Total(MessageCount, On(d))],
                     [d \in days |-> Total(Tokens, On(d))],
                     {Day(s.at) : s \in ToSet(sessions)})

(* From the rows of the store: tokens count on the day of their message. *)
ComputeActivityFromBuckets(sessions, rows, range) ==
    IF sessions = <<>> /\ rows = {} THEN NoActivity
    ELSE LET days == Bounds({Day(s.at) : s \in ToSet(sessions)} \cup {Day(r.at) : r \in rows}, range)
             Sum(f(_), d) == MapThenSumSet(f, {r \in rows : Day(r.at) = d})
         IN Activity(days, [d \in days |-> Sum(LAMBDA r : r.sessions, d)],
                     [d \in days |-> Sum(LAMBDA r : r.messages, d)],
                     [d \in days |-> Sum(LAMBDA r : r.tokens, d)],
                     {Day(r.at) : r \in {x \in rows : x.sessions + x.messages > 0
                                                       /\ Day(x.at) \in days}})

-----------------------------------------------------------------------------
(* The rows the store keeps of a conversation (canonical/sqlite_stats.go). *)

MessageTime(s, message) == IF message.at = NoTime THEN s.at ELSE message.at
\* Mutant: a session counts in every bucket one of its messages falls into.
AggregateActivityBucketsTwice(c) ==
    LET Times(s) == {s.at} \cup {MessageTime(s, s.messages[i]) : i \in DOMAIN s.messages}
        Keys == UNION {{<<t, s.model>> : t \in Times(s)} : s \in ToSet(c.sessions)}
        Count(f(_), key) == Total(f, SelectSeq(c.sessions, LAMBDA s :
                                                    key[1] \in Times(s) /\ s.model = key[2]))
    IN {[conversation |-> c.key, at |-> key[1], provider |-> c.provider, model |-> key[2],
         sessions |-> Count(LAMBDA s : 1, key),
         messages |-> Count(MessageCount, key),
         tokens |-> Count(Tokens, key)] : key \in Keys}

AggregateActivityBuckets(c) ==
    LET Times(s) == {s.at} \cup {MessageTime(s, s.messages[i]) : i \in DOMAIN s.messages}
        Keys == UNION {{<<t, s.model>> : t \in Times(s)} : s \in ToSet(c.sessions)}
        TokensAt(s, t) == Total(MessageTokens, SelectSeq(s.messages, LAMBDA message :
                                                              MessageTime(s, message) = t))
        Starting(key) == SelectSeq(c.sessions, LAMBDA s : s.at = key[1] /\ s.model = key[2])
    IN {[conversation |-> c.key, at |-> key[1], provider |-> c.provider, model |-> key[2],
         sessions |-> Len(Starting(key)),
         messages |-> Total(MessageCount, Starting(key)),
         tokens |-> Total(LAMBDA s : TokensAt(s, key[1]),
                          SelectSeq(c.sessions, LAMBDA s : s.model = key[2]))] : key \in Keys}

(* What a query of the store returns: one row of a bucket, whichever of the *)
(* conversations asked for it comes from.                                   *)
ReadActivityBuckets(stored) ==
    LET Of(key) == {r \in stored : <<r.at, r.provider, r.model>> = key}
    IN {[at |-> key[1], provider |-> key[2], model |-> key[3],
         sessions |-> MapThenSumSet(LAMBDA r : r.sessions, Of(key)),
         messages |-> MapThenSumSet(LAMBDA r : r.messages, Of(key)),
         tokens |-> MapThenSumSet(LAMBDA r : r.tokens, Of(key))]
          : key \in {<<r.at, r.provider, r.model>> : r \in stored}}

-----------------------------------------------------------------------------
(* The trend of the overview: the range against the period before it. *)

PreviousTimeRange(range) ==
    [start |-> range.start - 1 - (range.end - range.start), end |-> range.start - 1]

TokensOfDays(rows, range) ==
    MapThenSumSet(LAMBDA r : r.tokens,
                  {r \in rows : Day(range.start) <= Day(r.at) /\ Day(r.at) <= Day(range.end)})

(* The tokens of the two periods; the screen shows their change in percent. *)
ComputeTokenTrend(rows, range) ==
    IF range = AllTime \/ TokensOfDays(rows, PreviousTimeRange(range)) = 0 THEN <<>>
    ELSE <<TokensOfDays(rows, PreviousTimeRange(range)), TokensOfDays(rows, range)>>

-----------------------------------------------------------------------------
(* Splits: allowed is the selection of the dimension's filter, {} for any. *)

SplitKey(dim, x) ==
    LET value == IF dim = "provider" THEN x.provider ELSE x.model
    IN IF value = Blank THEN Unknown ELSE value

Allowed(allowed, key) == allowed = {} \/ key \in allowed

MatchSplitScope(sessions, range, dim, allowed) ==
    SelectSeq(sessions, LAMBDA s : TimeRangeContains(range, s.at)
                                   /\ Allowed(allowed, SplitKey(dim, s)))

SplitKeys(dim, rows) == {SplitKey(dim, r) : r \in rows}

(* Without rows, that is when their query failed, the sessions are counted. *)
ComputeActivityBySplit(sessions, rows, range, dim, allowed) ==
    IF sessions = <<>> /\ rows = {} THEN <<>>
    ELSE LET days == Bounds({Day(s.at) : s \in ToSet(sessions)} \cup {Day(r.at) : r \in rows}, range)
             shown == {r \in rows : Day(r.at) \in days /\ Allowed(allowed, SplitKey(dim, r))}
             matched == SelectSeq(MatchSplitScope(sessions, range, dim, allowed),
                                  LAMBDA s : Day(s.at) \in days)
             Sum(f(_), key, d) ==
                 MapThenSumSet(f, {r \in shown : SplitKey(dim, r) = key /\ Day(r.at) = d})
             OfKey(key, d) ==
                 SelectSeq(matched, LAMBDA s : SplitKey(dim, s) = key /\ Day(s.at) = d)
         IN IF rows # {}
            THEN [key \in SplitKeys(dim, shown) |->
                    [sessions |-> [d \in days |-> Sum(LAMBDA r : r.sessions, key, d)],
                     tokens |-> [d \in days |-> Sum(LAMBDA r : r.tokens, key, d)]]]
            ELSE [key \in SplitKeys(dim, ToSet(matched)) |->
                    [sessions |-> [d \in days |-> Len(OfKey(key, d))],
                     tokens |-> [d \in days |-> Total(Tokens, OfKey(key, d))]]]

CallsBucket(s) == Cardinality({b \in CallBounds : s.calls >= b})
CallsBuckets == 0..Cardinality(CallBounds)

Bucketed(sessions) ==
    [b \in CallsBuckets |-> Len(SelectSeq(sessions, LAMBDA s : CallsBucket(s) = b))]

(* How many sessions have how many tool calls. *)
ComputeTools(sessions) ==
    [calls |-> Total(LAMBDA s : s.calls, sessions), perSession |-> Bucketed(sessions)]
\* Mutant: the totals count the sessions the selection leaves out.
ComputeToolsBySplitOfAll(sessions, range, dim, allowed) ==
    LET matched == MatchSplitScope(sessions, range, dim, {})
        shown == MatchSplitScope(sessions, range, dim, allowed)
    IN [total |-> Bucketed(matched),
        splits |-> [key \in SplitKeys(dim, ToSet(shown)) |->
                       Bucketed(SelectSeq(shown, LAMBDA s : SplitKey(dim, s) = key))]]

ComputeToolsBySplit(sessions, range, dim, allowed) ==
    LET matched == MatchSplitScope(sessions, range, dim, allowed)
    IN [total |-> Bucketed(matched),
        splits |-> [key \in SplitKeys(dim, ToSet(matched)) |->
                       Bucketed(SelectSeq(matched, LAMBDA s : SplitKey(dim, s) = key))]]

(* Performance: a scorecard needs one provider and one model in the range. *)
ComputeScope(conversations, range) ==
    LET Shown(c) == {s \in ToSet(c.sessions) : TimeRangeContains(range, s.at)}
        providers == {c.provider : c \in {x \in ToSet(conversations) : Shown(x) # {}}}
        models == (UNION {{s.model : s \in Shown(c)} : c \in ToSet(conversations)}) \ {Blank}
    IN [provider |-> Cardinality(providers) = 1, model |-> Cardinality(models) = 1]

ComputeSnapshot(conversations, range, rows) ==
    LET sessions == FilterByTimeRange(FlattenSessions(conversations), range)
    IN [overview |-> ComputeOverview(sessions),
        activity |-> ComputeActivityFromBuckets(sessions, rows, range),
        tools |-> ComputeTools(sessions),
        trend |-> ComputeTokenTrend(rows, range),
        scope |-> ComputeScope(conversations, range)]
=============================================================================
