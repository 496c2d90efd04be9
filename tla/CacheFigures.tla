---------------------------- MODULE CacheFigures ----------------------------
(***************************************************************************)
(* The figures of the Cache tab (internal/stats/cache*.go): how much of    *)
(* the prompts came from the providers' caches, how much was written to    *)
(* them and how much missed, by day, by the sessions' durations, for the   *)
(* main threads and the subagents; the same split by a dimension; and how  *)
(* warm the cache is on the first turn, by version of the agent.           *)
(*                                                                         *)
(* A rate is a pair of numerator and denominator.                          *)
(***************************************************************************)
EXTENDS TurnFigures

CONSTANTS
    Versions,  \* version labels
    Years      \* years whose days are numbered

-----------------------------------------------------------------------------
(* Cache tokens of a session *)

Prompt(s) == PromptTokens(s.usage)
CacheRead(s) == s.usage.read

\* Mutant: what was read counts as written, too.
CacheWriteProxyOfPrompt(s) ==
    IF s.usage.created > 0 THEN s.usage.created
    ELSE IF s.provider = "codex" /\ s.usage.read > 0 THEN Prompt(s) ELSE 0

(* Older Codex sessions do not tell what was written: their input stands   *)
(* for it, once the cache was used.                                        *)
CacheWriteProxy(s) ==
    IF s.usage.created > 0 THEN s.usage.created
    ELSE IF s.provider = "codex" /\ s.usage.read > 0 THEN s.usage.input ELSE 0

CacheMiss(s) == Prompt(s) - CacheRead(s) - CacheWriteProxy(s)

CacheSegment(sessions) ==
    [count |-> Len(sessions), read |-> Total(CacheRead, sessions),
     write |-> Total(CacheWriteProxy, sessions), prompt |-> Total(Prompt, sessions),
     miss |-> Total(CacheMiss, sessions)]

OfSegment(sessions, subagent) == SelectSeq(sessions, LAMBDA s : s.subagent = subagent)
OnDay(sessions, d) == SelectSeq(sessions, LAMBDA s : Day(s.at) = d)
OfDuration(sessions, b) == SelectSeq(sessions, LAMBDA s : DurationBucket(Duration(s)) = b)

DurationBuckets == 0..Cardinality(DurationBounds)
CacheDays(sessions, range) == Bounds({Day(s.at) : s \in ToSet(sessions)}, range)

AddRates(p, q) == <<p[1] * q[2] + q[1] * p[2], p[2] * q[2]>>
SessionHitRate(s) == IF Prompt(s) > 0 THEN <<CacheRead(s), Prompt(s)>> ELSE <<0, 1>>

(* The bucket's rate is the average of its sessions' rates. *)
BucketHitRate(sessions) ==
    LET sum == FoldLeft(LAMBDA rate, s : AddRates(rate, SessionHitRate(s)), <<0, 1>>, sessions)
    IN <<sum[1], sum[2] * Max({1, Len(sessions)})>>

ComputeCache(sessions, range) ==
    IF sessions = <<>> THEN <<>>
    ELSE <<[total |-> CacheSegment(sessions),
            main |-> CacheSegment(OfSegment(sessions, FALSE)),
            subagent |-> CacheSegment(OfSegment(sessions, TRUE)),
            days |-> [d \in CacheDays(sessions, range) |->
                         [active |-> OnDay(sessions, d) # <<>>,
                          hits |-> <<Total(CacheRead, OnDay(sessions, d)),
                                     Total(Prompt, OnDay(sessions, d))>>,
                          reuse |-> <<Total(CacheRead, OnDay(sessions, d)),
                                      Total(CacheWriteProxy, OnDay(sessions, d))>>]],
            buckets |-> [b \in DurationBuckets |->
                            [count |-> Len(OfDuration(sessions, b)),
                             rate |-> BucketHitRate(OfDuration(sessions, b)),
                             reuse |-> <<Total(CacheRead, OfDuration(sessions, b)),
                                         Total(CacheWriteProxy, OfDuration(sessions, b))>>]]]>>

-----------------------------------------------------------------------------
(* The same by a dimension *)

Amounts(s) ==
    [prompt |-> Prompt(s), read |-> CacheRead(s), write |-> CacheWriteProxy(s), miss |-> CacheMiss(s)]

(* The sessions' amounts by key, of those that have any. *)
BySplit(amount, sessions, dim) ==
    LET counting == SelectSeq(sessions, LAMBDA s : Amounts(s)[amount] > 0)
        OfKey(key) == SelectSeq(counting, LAMBDA s : SplitKey(dim, s) = key)
    IN [key \in SplitKeys(dim, ToSet(counting)) |->
           Total(LAMBDA s : Amounts(s)[amount], OfKey(key))]

SumOfKeys(splits) == MapThenSumSet(LAMBDA key : splits[key], DOMAIN splits)

\* Mutant: the rows of the two segments are told apart by the wrong one.
CacheRowsSwapped(sessions, dim) ==
    [subagent \in BOOLEAN |->
        LET own == OfSegment(sessions, ~subagent) IN
        [read |-> BySplit("read", own, dim), write |-> BySplit("write", own, dim),
         miss |-> BySplit("miss", own, dim)]]

CacheRows(sessions, dim) ==
    [subagent \in BOOLEAN |->
        LET own == OfSegment(sessions, subagent) IN
        [read |-> BySplit("read", own, dim), write |-> BySplit("write", own, dim),
         miss |-> BySplit("miss", own, dim)]]

ComputeCacheBySplit(sessions, range, dim, allowed) ==
    LET shown == MatchSplitScope(sessions, range, dim, allowed)
    IN [rows |-> CacheRows(shown, dim),
        days |-> IF shown = <<>> THEN <<>>
                 ELSE [d \in CacheDays(shown, range) |->
                          [prompt |-> Total(Prompt, OnDay(shown, d)),
                           read |-> Total(CacheRead, OnDay(shown, d)),
                           write |-> Total(CacheWriteProxy, OnDay(shown, d)),
                           prompts |-> BySplit("prompt", OnDay(shown, d), dim),
                           reads |-> BySplit("read", OnDay(shown, d), dim),
                           writes |-> BySplit("write", OnDay(shown, d), dim)]],
        buckets |-> [b \in DurationBuckets |->
                        [read |-> Total(CacheRead, OfDuration(shown, b)),
                         write |-> Total(CacheWriteProxy, OfDuration(shown, b)),
                         reads |-> BySplit("read", OfDuration(shown, b), dim),
                         writes |-> BySplit("write", OfDuration(shown, b), dim)]]]

-----------------------------------------------------------------------------
(* The first turn, by version *)

CacheFirstTurnMinSessions == 3

MedianSorted(sorted) ==
    LET mid == Len(sorted) \div 2 IN
    CASE sorted = <<>> -> 0
      [] Len(sorted) % 2 = 1 -> sorted[mid + 1]
      [] OTHER -> (sorted[mid] + sorted[mid + 1]) \div 2

VersionKey(s) == TurnMetricsKey("version", s)

\* Mutant: sessions of every provider are counted.
ComputeCacheFirstTurnOfAny(series) ==
    LET Own(version) == SelectSeq(series, LAMBDA s : s.turns # <<>> /\ VersionKey(s) = version)
        Reads(version) == SortSeq([i \in DOMAIN Own(version) |-> Own(version)[i].turns[1].read], <)
        versions == {VersionKey(s) : s \in {t \in ToSet(series) : t.turns # <<>>}}
    IN [version \in {v \in versions : Len(Own(v)) >= CacheFirstTurnMinSessions} |->
           [count |-> Len(Reads(version)),
            zeros |-> Len(SelectSeq(Reads(version), LAMBDA read : read = 0)),
            median |-> MedianSorted(Reads(version))]]

ComputeCacheFirstTurnByVersion(series) ==
    LET OfClaude == SelectSeq(series, LAMBDA s : s.provider = "claude" /\ s.turns # <<>>)
        Own(version) == SelectSeq(OfClaude, LAMBDA s : VersionKey(s) = version)
        Reads(version) == SortSeq([i \in DOMAIN Own(version) |-> Own(version)[i].turns[1].read], <)
        versions == {VersionKey(s) : s \in ToSet(OfClaude)}
    IN [version \in {v \in versions : Len(Own(v)) >= CacheFirstTurnMinSessions} |->
           [count |-> Len(Reads(version)),
            zeros |-> Len(SelectSeq(Reads(version), LAMBDA read : read = 0)),
            median |-> MedianSorted(Reads(version))]]

(* A label that is a version is a sequence of numbers, another has its      *)
(* place among the names.                                                   *)
VersionPart(parts, i) == IF i <= Len(parts) THEN parts[i] ELSE 0

CompareVersionParts(left, right) ==
    LET differing == {i \in 1..Max({Len(left), Len(right)}) : VersionPart(left, i) # VersionPart(right, i)} IN
    IF differing = {} THEN 0
    ELSE IF VersionPart(left, Min(differing)) < VersionPart(right, Min(differing)) THEN -1 ELSE 1

CompareVersionLabel(left, right) ==
    CASE left.parts # <<>> /\ right.parts # <<>> -> CompareVersionParts(left.parts, right.parts)
      [] left.parts # <<>> /\ right.parts = <<>> -> -1
      [] left.parts = <<>> /\ right.parts # <<>> -> 1
      [] OTHER -> IF left.name < right.name THEN -1 ELSE IF left.name > right.name THEN 1 ELSE 0

-----------------------------------------------------------------------------
(* The number of a day: years begin in March, eras are of 400 years. *)

FloorDiv(n, d) == IF n >= 0 THEN n \div d ELSE -((-n + d - 1) \div d)

\* Mutant: centuries are leap years.
CivilDayNumberOfJulius(date) ==
    LET year == IF date.month <= 2 THEN date.year - 1 ELSE date.year
        month == IF date.month <= 2 THEN date.month + 12 ELSE date.month
        era == FloorDiv(year, 400)
        yearOfEra == year - era * 400
        dayOfYear == (153 * (month - 3) + 2) \div 5 + date.day - 1
    IN era * 146097 + yearOfEra * 365 + yearOfEra \div 4 + dayOfYear

CivilDayNumber(date) ==
    LET year == IF date.month <= 2 THEN date.year - 1 ELSE date.year
        month == IF date.month <= 2 THEN date.month + 12 ELSE date.month
        era == FloorDiv(year, 400)
        yearOfEra == year - era * 400
        dayOfYear == (153 * (month - 3) + 2) \div 5 + date.day - 1
    IN era * 146097 + yearOfEra * 365 + yearOfEra \div 4 - yearOfEra \div 100 + dayOfYear

-----------------------------------------------------------------------------
(* Properties *)

(* Reads, writes and misses part a prompt: none is negative, whichever      *)
(* provider and whatever it tells, so the three shown rates add up to one   *)
(* (cache.go, cacheWriteProxy).                                             *)
PromptsParted ==
    \A sessions \in Metas : \A s \in ToSet(sessions) : CacheMiss(s) >= 0

(* Days, durations and segments each tell all of the totals apart, and a    *)
(* bucket's rate lies among those of its sessions (cache.go).               *)
AtMostRate(p, q) == p[1] * q[2] <= q[1] * p[2]

CacheParted ==
    \A sessions \in Metas \ {<<>>}, range \in Ranges :
        LET shown == FilterByTimeRange(sessions, range)
            cache == ComputeCache(shown, range)[1]
            SumDays(f(_)) == MapThenSumSet(LAMBDA d : f(cache.days[d]), DOMAIN cache.days)
            SumBuckets(f(_)) == MapThenSumSet(LAMBDA b : f(cache.buckets[b]), DurationBuckets)
        IN shown # <<>> =>
            /\ \A part \in DOMAIN cache.total :
                   cache.total[part] = cache.main[part] + cache.subagent[part]
            /\ SumDays(LAMBDA day : day.hits[1]) = cache.total.read
            /\ SumDays(LAMBDA day : day.hits[2]) = cache.total.prompt
            /\ SumDays(LAMBDA day : day.reuse[2]) = cache.total.write
            /\ SumBuckets(LAMBDA bucket : bucket.reuse[1]) = cache.total.read
            /\ SumBuckets(LAMBDA bucket : bucket.count) = Len(shown)
            /\ \A b \in DurationBuckets : cache.buckets[b].count > 0 =>
                   LET rates == {SessionHitRate(s) : s \in ToSet(OfDuration(shown, b))} IN
                   /\ \E rate \in rates : AtMostRate(rate, cache.buckets[b].rate)
                   /\ \E rate \in rates : AtMostRate(cache.buckets[b].rate, rate)

(* Split by a dimension nothing is selected in, the rows, the days and the  *)
(* durations add up to the figures without the split, and no key reads or   *)
(* writes more on a day than it prompted; with a selection only selected    *)
(* keys appear (cache_grouped.go against cache.go).                         *)
CacheSplitAddsUp ==
    \A sessions \in Metas, range \in Ranges, dim \in {"provider", "model"},
       allowed \in {{}, {"claude", "opus"}} :
        LET shown == FilterByTimeRange(sessions, range)
            cache == ComputeCache(shown, range)[1]
            split == ComputeCacheBySplit(sessions, range, dim, allowed)
            Agrees(row, segment) == /\ SumOfKeys(row.read) = segment.read
                                    /\ SumOfKeys(row.write) = segment.write
                                    /\ SumOfKeys(row.miss) = segment.miss
        IN /\ \A d \in DOMAIN split.days :
                  LET day == split.days[d] IN
                  /\ SumOfKeys(day.reads) = day.read
                  /\ SumOfKeys(day.writes) = day.write
                  /\ \A key \in DOMAIN day.reads : day.reads[key] <= day.prompts[key]
                  /\ \A key \in DOMAIN day.writes : day.writes[key] <= day.prompts[key]
                  /\ DOMAIN day.prompts \subseteq IF allowed = {} THEN DOMAIN day.prompts ELSE allowed
           /\ allowed = {} /\ shown # <<>> =>
                  /\ Agrees(split.rows[FALSE], cache.main)
                  /\ Agrees(split.rows[TRUE], cache.subagent)
                  /\ DOMAIN split.days = DOMAIN cache.days
                  /\ \A d \in DOMAIN split.days :
                         /\ <<split.days[d].read, split.days[d].prompt>> = cache.days[d].hits
                         /\ split.days[d].write = cache.days[d].reuse[2]
                  /\ \A b \in DurationBuckets :
                         /\ <<split.buckets[b].read, split.buckets[b].write>> = cache.buckets[b].reuse
                         /\ SumOfKeys(split.buckets[b].reads) = split.buckets[b].read

(* The first turns shown are those of the main threads of Claude's sessions *)
(* of a version, three at least; half of them read at least the median, and *)
(* a version is listed once and at one place (cache_turn.go).               *)
FirstTurnsRight ==
    /\ \A sessions \in Series :
           LET series == CollectSessionTurnMetrics(sessions)
               stats == ComputeCacheFirstTurnByVersion(series)
               Firsts(version) == SelectSeq(series, LAMBDA s : /\ s.provider = "claude"
                                                               /\ VersionKey(s) = version)
               Counting(version, Test(_)) ==
                   Len(SelectSeq(Firsts(version), LAMBDA s : Test(s.turns[1].read)))
           IN \A version \in DOMAIN stats :
                  /\ stats[version].count = Len(Firsts(version))
                  /\ stats[version].zeros = Counting(version, LAMBDA read : read = 0)
                  /\ 2 * Counting(version, LAMBDA read : read >= stats[version].median)
                         >= stats[version].count
                  /\ 2 * Counting(version, LAMBDA read : read <= stats[version].median)
                         >= stats[version].count
    /\ \A u, v \in Versions : CompareVersionLabel(u, v) = -CompareVersionLabel(v, u)
    /\ \A u, v, w \in Versions :
           CompareVersionLabel(u, v) <= 0 /\ CompareVersionLabel(v, w) <= 0 =>
               CompareVersionLabel(u, w) <= 0

(* The days of the calendar are numbered one after the other, across months *)
(* and leap days: a day is in the place of its date, and no two days share  *)
(* one (cache.go, civilDayNumber).                                          *)
LeapYear(year) == year % 4 = 0 /\ (year % 100 # 0 \/ year % 400 = 0)

MonthLength(year, month) ==
    CASE month = 2 -> IF LeapYear(year) THEN 29 ELSE 28
      [] month \in {4, 6, 9, 11} -> 30
      [] OTHER -> 31

NextDate(date) ==
    IF date.day < MonthLength(date.year, date.month) THEN [date EXCEPT !.day = @ + 1]
    ELSE IF date.month < 12 THEN [date EXCEPT !.month = @ + 1, !.day = 1]
    ELSE [year |-> date.year + 1, month |-> 1, day |-> 1]

DaysNumbered ==
    \A year \in Years, month \in 1..12 : \A day \in 1..MonthLength(year, month) :
        LET date == [year |-> year, month |-> month, day |-> day]
        IN CivilDayNumber(NextDate(date)) = CivilDayNumber(date) + 1

(* The figures of the Cache tab are those their definitions give.           *)
CacheFiguresRight ==
    PromptsParted /\ CacheParted /\ CacheSplitAddsUp /\ FirstTurnsRight /\ DaysNumbered
=============================================================================
