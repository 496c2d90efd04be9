-------------------------- MODULE StatsScreenProofs --------------------------
(***************************************************************************)
(* Proofs about StatsScreen, for any archive, any dimensions and any       *)
(* sequence of keys, and about the figures of its tabs, for all values.    *)
(*                                                                         *)
(* Whatever Figures computes, the screen never shows the figures of        *)
(* another filter, range or split: the argument looks at which steps       *)
(* change an input and never at what is computed.  Of the figures the      *)
(* calendar, the buckets and the scores are proved, which are arithmetic.  *)
(***************************************************************************)
EXTENDS StatsFigures, TLAPS

\* The keys that change an input of the figures; each computes them anew.
LEMMA ChangeRecomputes ==
  ASSUME NEW dimensions, NEW by, NEW o, ChangeFilter(dimensions, by, o)
  PROVE  /\ RecomputeSnapshot(timeRange, by, dimensions)
         /\ filter' = dimensions /\ splitBy' = by
         /\ timeRange' = timeRange /\ conversations' = conversations
  BY DEF ChangeFilter

\* The overlay's keys either move its cursor or change the filter.
LEMMA OverlayMovesOrChanges ==
  ASSUME OverlayKey
  PROVE  \/ \E o : MoveInOverlay(o)
         \/ \E dimensions, by, o : ChangeFilter(dimensions, by, o)
<1>1. CASE \/ CloseFilter \/ MoveCursor \/ ExpandDimension \/ StartRegex \/ CancelRegex
           \/ MoveValue \/ Collapse \/ ExpandSplit \/ MoveSplit
  BY <1>1 DEF CloseFilter, MoveCursor, ExpandDimension, StartRegex, CancelRegex, MoveValue,
     Collapse, ExpandSplit, MoveSplit
<1>2. CASE \/ CycleBool \/ ClearDimension \/ ApplyRegex \/ ToggleValue \/ ClearValues
  BY <1>2 DEF CycleBool, ClearDimension, ApplyRegex, ToggleValue, ClearValues, ChangeDimension
<1>3. CASE ClearAll \/ RemoveSplit \/ ToggleSplit
  BY <1>3 DEF ClearAll, RemoveSplit, ToggleSplit
<1>4. QED
  BY <1>1, <1>2, <1>3 DEF OverlayKey

\* Every step leaves the inputs of the figures alone, or computes them anew.
LEMMA StepsOfTheScreen ==
  ASSUME [Next]_vars
  PROVE  \/ /\ UNCHANGED <<conversations, timeRange, splitBy, filter, failures, derived>>
            /\ notification' \in {notification, {}, {Elsewhere}}
         \/ RecomputeSnapshot(timeRange', splitBy', filter') /\ UNCHANGED conversations
<1> USE DEF vars, figures, selection
<1>1. CASE OverlayKey \/ OpenFilter
  <2>1. CASE \E o : MoveInOverlay(o)
    BY <2>1 DEF MoveInOverlay
  <2>2. CASE \E dimensions, by, o : ChangeFilter(dimensions, by, o)
    BY <2>2, ChangeRecomputes
  <2>3. QED
    BY <1>1, <2>1, <2>2, OverlayMovesOrChanges DEF OpenFilter
<1>2. CASE CycleRange
  BY <1>2 DEF CycleRange
<1>3. CASE \/ MoveTab(1) \/ MoveTab(-1) \/ MoveLane(1) \/ MoveLane(-1) \/ NextSession
           \/ OpenSession \/ OpenHelp \/ CloseHelp \/ PressClose
  BY <1>3 DEF MoveTab, MoveLane, NextSession, OpenSession, OpenHelp, CloseHelp, PressClose
<1>4. CASE Notify \/ ClearNotification
  BY <1>4 DEF Notify, ClearNotification
<1>5. CASE UNCHANGED vars
  BY <1>5
<1>6. QED
  BY <1>1, <1>2, <1>3, <1>4, <1>5 DEF Next

\* What is drawn is always what filter, range, split and the rows that loaded
\* give (model.go, recomputeSnapshot).
THEOREM FiguresFollowKeys == Spec => []DerivedCurrent
<1>1. Init => DerivedCurrent
  BY DEF Init, DerivedCurrent
<1>2. DerivedCurrent /\ [Next]_vars => DerivedCurrent'
  <2> SUFFICES ASSUME DerivedCurrent, [Next]_vars PROVE DerivedCurrent'
    OBVIOUS
  <2>1. CASE UNCHANGED <<conversations, timeRange, splitBy, filter, failures, derived>>
    BY <2>1 DEF DerivedCurrent
  <2>2. CASE RecomputeSnapshot(timeRange', splitBy', filter') /\ UNCHANGED conversations
    BY <2>2 DEF RecomputeSnapshot, ApplyQueryFailures, DerivedCurrent
  <2>3. QED
    BY <2>1, <2>2, StepsOfTheScreen
<1>3. QED
  BY <1>1, <1>2, PTL DEF Spec

\* A message about queries never outlives their failure (store_status.go,
\* applyStatsQueryFailures).
THEOREM NotificationsKeepUp == Spec => []NotificationTrue
<1>1. Init => NotificationTrue
  BY DEF Init, NotificationTrue
<1>2. NotificationTrue /\ [Next]_vars => NotificationTrue'
  <2> SUFFICES ASSUME NotificationTrue, [Next]_vars PROVE NotificationTrue'
    OBVIOUS
  <2>1. CASE /\ UNCHANGED <<conversations, timeRange, splitBy, filter, failures, derived>>
             /\ notification' \in {notification, {}, {Elsewhere}}
    BY <2>1 DEF NotificationTrue
  <2>2. CASE RecomputeSnapshot(timeRange', splitBy', filter') /\ UNCHANGED conversations
    <3>1. PICK failed \in SUBSET Queries : ApplyQueryFailures(failed)
      BY <2>2 DEF RecomputeSnapshot
    <3>2. QED
      BY <3>1 DEF ApplyQueryFailures, NotificationTrue
  <2>3. QED
    BY <2>1, <2>2, StepsOfTheScreen
<1>3. QED
  BY <1>1, <1>2, PTL DEF Spec

-----------------------------------------------------------------------------
(* The calendar of the cache tab *)

\* The days of a month are numbered one after the other.
LEMMA DayFollowsDay ==
  ASSUME NEW year \in Int, NEW month \in 1..12, NEW day \in Int
  PROVE  CivilDayNumber([year |-> year, month |-> month, day |-> day + 1])
           = CivilDayNumber([year |-> year, month |-> month, day |-> day]) + 1
<1> DEFINE y == IF month <= 2 THEN year - 1 ELSE year
           m == IF month <= 2 THEN month + 12 ELSE month
           era == FloorDiv(y, 400)
           of == y - era * 400
           before == era * 146097 + of * 365 + of \div 4 - of \div 100
           days == (153 * (m - 3) + 2) \div 5
<1>1. \A d \in Int : CivilDayNumber([year |-> year, month |-> month, day |-> d]) = before + (days + d - 1)
  BY DEF CivilDayNumber
<1>2. before \in Int /\ days \in Int
  BY DEF FloorDiv
<1> HIDE DEF before, days
<1>3. QED
  BY <1>1, <1>2

\* From one month to the next, within the year that begins in March.
LEMMA MonthFollowsMonth ==
  ASSUME NEW year \in Int, NEW month \in 1..11, month # 2
  PROVE  CivilDayNumber([year |-> year, month |-> month + 1, day |-> 1])
           = CivilDayNumber([year |-> year, month |-> month, day |-> MonthLength(year, month)]) + 1
<1> DEFINE y == IF month <= 2 THEN year - 1 ELSE year
           era == FloorDiv(y, 400)
           of == y - era * 400
           before == era * 146097 + of * 365 + of \div 4 - of \div 100
           M(n) == IF n <= 2 THEN n + 12 ELSE n
           days(n) == (153 * (M(n) - 3) + 2) \div 5
<1>1. \A n \in {month, month + 1}, d \in Int : 
         CivilDayNumber([year |-> year, month |-> n, day |-> d]) = before + (days(n) + d - 1)
  BY DEF CivilDayNumber
<1>2. before \in Int
  BY DEF FloorDiv
<1>3. MonthLength(year, month) \in Int /\ days(month + 1) = days(month) + MonthLength(year, month)
  BY DEF MonthLength
<1>4. days(month) \in Int
  OBVIOUS
<1> HIDE DEF before, days
<1>5. QED
  BY <1>1, <1>2, <1>3, <1>4

\* The days before a year that begins in March.
YearStart(y) ==
    LET era == FloorDiv(y, 400)
        yearOfEra == y - era * 400
    IN era * 146097 + yearOfEra * 365 + yearOfEra \div 4 - yearOfEra \div 100

\* They are counted with one leap day in four years, but for three centuries of four.
LEMMA YearStartCounts ==
  ASSUME NEW y \in Int
  PROVE  YearStart(y) = 365 * y + y \div 4 - y \div 100 + y \div 400
<1>1. FloorDiv(y, 400) = y \div 400
  BY DEF FloorDiv
<1>2. PICK era \in Int, of \in 0..399 : y = 400 * era + of
  <2>1. y \div 400 \in Int /\ y - 400 * (y \div 400) \in 0..399
    OBVIOUS
  <2>2. QED
    BY <2>1
<1>3. y \div 400 = era /\ y \div 4 = 100 * era + of \div 4 /\ y \div 100 = 4 * era + of \div 100
  BY <1>2
<1>4. of \div 4 \in Int /\ of \div 100 \in Int
  OBVIOUS
<1>5. YearStart(y) = era * 146097 + of * 365 + of \div 4 - of \div 100
  BY <1>1, <1>2, <1>3 DEF YearStart
<1>6. QED
  BY <1>2, <1>3, <1>4, <1>5

\* So a year is as long as its February makes it.
LEMMA YearFollowsYear ==
  ASSUME NEW year \in Int
  PROVE  YearStart(year) = YearStart(year - 1) + 337 + MonthLength(year, 2)
<1> DEFINE Start(y) == 365 * y + y \div 4 - y \div 100 + y \div 400
<1>1. YearStart(year) = Start(year) /\ YearStart(year - 1) = Start(year - 1)
  <2>1. \A y \in Int : YearStart(y) = Start(y)
    BY YearStartCounts
  <2>2. year - 1 \in Int
    OBVIOUS
  <2> HIDE DEF Start
  <2>3. QED
    BY <2>1, <2>2
<1>2. year \div 4 = (year - 1) \div 4 + (IF year % 4 = 0 THEN 1 ELSE 0)
  OBVIOUS
<1>3. year \div 100 = (year - 1) \div 100 + (IF year % 100 = 0 THEN 1 ELSE 0)
  OBVIOUS
<1>4. year \div 400 = (year - 1) \div 400 + (IF year % 400 = 0 THEN 1 ELSE 0)
  OBVIOUS
<1>5. year % 400 = 0 => year % 100 = 0 /\ year % 4 = 0
  OBVIOUS
<1>6. year % 100 = 0 => year % 4 = 0
  OBVIOUS
<1>7. MonthLength(year, 2) = IF year % 4 = 0 /\ (year % 100 # 0 \/ year % 400 = 0) THEN 29 ELSE 28
  BY DEF MonthLength, LeapYear
<1>8. \A n \in {4, 100, 400} : year \div n \in Int /\ (year - 1) \div n \in Int
  OBVIOUS
<1>9. QED
  BY <1>1, <1>2, <1>3, <1>4, <1>5, <1>6, <1>7, <1>8

\* The calendar's days have consecutive numbers in every year
\* (cache.go, civilDayNumber).
THEOREM DaysNumberedAlways ==
  ASSUME Years \subseteq Int
  PROVE  DaysNumbered
<1> SUFFICES ASSUME NEW year \in Int, NEW month \in 1..12, NEW day \in 1..MonthLength(year, month)
             PROVE  LET date == [year |-> year, month |-> month, day |-> day]
                    IN CivilDayNumber(NextDate(date)) = CivilDayNumber(date) + 1
  BY DEF DaysNumbered
<1> DEFINE date == [year |-> year, month |-> month, day |-> day]
<1>1. MonthLength(year, month) \in Int /\ day \in Int
  BY DEF MonthLength
<1>2. CASE day < MonthLength(year, month)
  <2>1. NextDate(date) = [year |-> year, month |-> month, day |-> day + 1]
    BY <1>2 DEF NextDate
  <2>2. QED
    BY <1>1, <2>1, DayFollowsDay
<1>3. CASE day = MonthLength(year, month) /\ month \in 1..11 /\ month # 2
  <2>1. NextDate(date) = [year |-> year, month |-> month + 1, day |-> 1]
    <3>1. ~(date.day < MonthLength(date.year, date.month)) /\ date.month < 12
      BY <1>1, <1>3
    <3>2. NextDate(date) = [date EXCEPT !.month = month + 1, !.day = 1]
      BY <3>1 DEF NextDate
    <3>3. QED
      BY <3>2, <1>3
  <2>2. QED
    BY <1>3, <2>1, MonthFollowsMonth
<1>4. CASE day = MonthLength(year, month) /\ month = 2
  <2>1. NextDate(date) = [year |-> year, month |-> 3, day |-> 1]
    <3>1. ~(date.day < MonthLength(date.year, date.month)) /\ date.month < 12
      BY <1>1, <1>4
    <3>2. NextDate(date) = [date EXCEPT !.month = 3, !.day = 1]
      BY <1>4, <3>1 DEF NextDate
    <3>3. QED
      BY <3>2, <1>4
  <2>2. CivilDayNumber(date) = YearStart(year - 1) + (337 + day - 1)
    BY <1>1, <1>4 DEF CivilDayNumber, YearStart
  <2>3. CivilDayNumber([year |-> year, month |-> 3, day |-> 1]) = YearStart(year) + (0 + 1 - 1)
    BY DEF CivilDayNumber, YearStart
  <2>4. YearStart(year) \in Int /\ YearStart(year - 1) \in Int
    BY DEF YearStart, FloorDiv
  <2>5. QED
    BY <1>1, <1>4, <2>1, <2>2, <2>3, <2>4, YearFollowsYear
<1>5. CASE day = MonthLength(year, month) /\ month = 12
  <2>1. NextDate(date) = [year |-> year + 1, month |-> 1, day |-> 1] /\ day = 31
    BY <1>1, <1>5 DEF NextDate, MonthLength
  <2>2. CivilDayNumber(date) = YearStart(year) + (275 + day - 1)
    BY <1>1, <1>5 DEF CivilDayNumber, YearStart
  <2>3. CivilDayNumber([year |-> year + 1, month |-> 1, day |-> 1]) = YearStart(year) + (306 + 1 - 1)
    BY DEF CivilDayNumber, YearStart
  <2>4. YearStart(year) \in Int
    BY DEF YearStart, FloorDiv
  <2>5. QED
    BY <2>1, <2>2, <2>3, <2>4
<1>6. QED
  BY <1>1, <1>2, <1>3, <1>4, <1>5

-----------------------------------------------------------------------------
(* Whole numbers *)

Positives == Nat \ {0}
Rates == Int \X Positives
PositiveRates == Positives \X Positives

\* A product grows with its factor.
LEMMA Times ==
  ASSUME NEW a \in Int, NEW b \in Int, NEW c \in Positives
  PROVE  /\ a * c \in Int
         /\ a <= b <=> a * c <= b * c
         /\ a > 0 => a * c > 0
  BY DEF Positives

\* What a quotient rounded down is.
LEMMA Quotients ==
  ASSUME NEW n \in Int, NEW d \in Positives, NEW k \in Int
  PROVE  n \div d \in Int /\ (k <= n \div d <=> k * d <= n)
<1> DEFINE q == n \div d
<1>1. q \in Int /\ d * q <= n /\ n < d * q + d
  BY DEF Positives
<1> HIDE DEF q
<1>2. q * d <= n /\ n < (q + 1) * d
  BY <1>1 DEF Positives
<1>3. k <= q <=> k * d <= q * d
  BY <1>1, Times
<1>4. q + 1 <= k <=> (q + 1) * d <= k * d
  BY <1>1, Times
<1>5. k * d \in Int /\ q * d \in Int /\ (q + 1) * d \in Int
  BY <1>1, Times
<1>6. k <= q <=> k * d <= n
  BY <1>1, <1>2, <1>3, <1>4, <1>5
<1>7. QED
  BY <1>1, <1>6 DEF q

-----------------------------------------------------------------------------
(* Periods and buckets of the performance tab *)

\* The greater and the lesser of two numbers.
LEMMA Extremes ==
  ASSUME NEW a \in Int, NEW b \in Int
  PROVE  /\ Max({a, b}) = IF a >= b THEN a ELSE b
         /\ Min({a, b}) = IF a <= b THEN a ELSE b
  BY DEF Max, Min

\* The period before a range ends just before it, is as long and shares no time
\* with it (performance_trend.go, performanceTimeWindow).
THEOREM BaselineAdjoins ==
  ASSUME NEW start \in Int, NEW end \in Int, 1 < start, start <= end
  PROVE  LET current == [start |-> start, end |-> end]
             before == Baseline(current)
         IN /\ before.end + 1 = start
            /\ before.end - before.start = end - start
            /\ before # AllTime
            /\ \A t \in Int : ~(TimeRangeContains(current, t) /\ TimeRangeContains(before, t))
<1> DEFINE current == [start |-> start, end |-> end]
           before == [start |-> start - 1 - (end - start), end |-> start - 1]
<1>1. current # AllTime /\ before # AllTime
  BY DEF AllTime, NoTime
<1>2. Baseline(current) = before
  BY <1>1 DEF Baseline
<1>3. QED
  BY <1>1, <1>2 DEF TimeRangeContains

\* The buckets of a range.
LEMMA BucketsAre ==
  ASSUME NEW start \in Int, NEW end \in Int, 1 < start, start <= end
  PROVE  LET range == [start |-> start, end |-> end]
             step == BucketStep(range)
             last == (end - start) \div step
         IN /\ step \in Positives /\ last \in Nat
            /\ last * step <= end - start /\ end - start < (last + 1) * step
            /\ \A k \in Int : k <= last <=> k * step <= end - start
            /\ Len(PerformanceBuckets(range)) = last + 1
            /\ \A i \in 1..last + 1 :
                  /\ PerformanceBuckets(range)[i].start = start + (i - 1) * step
                  /\ PerformanceBuckets(range)[i].end =
                        IF i <= last THEN start + i * step - 1 ELSE end
<1> DEFINE range == [start |-> start, end |-> end]
           step == BucketStep(range)
           last == (end - start) \div step
           ending(i) == start + i * step - 1
<1>1. step \in Positives
  BY AggregationAssumption, PerformanceAssumption DEF BucketStep, Positives
<1>2. PerformanceBuckets(range)
        = [i \in 1..last + 1 |-> [start |-> start + (i - 1) * step, end |-> Min({ending(i), end})]]
  BY DEF PerformanceBuckets, AllTime, NoTime
<1> HIDE DEF step
<1>3. \A k \in Int : last \in Int /\ (k <= last <=> k * step <= end - start)
  BY <1>1, Quotients
<1>4. last \in Nat
  <2>1. 0 * step <= end - start
    BY <1>1 DEF Positives
  <2>2. QED
    BY <1>3, <2>1
<1> HIDE DEF last
<1>5. last * step <= end - start /\ end - start < (last + 1) * step
  <2>1. last * step <= end - start /\ ~((last + 1) * step <= end - start)
    BY <1>3, <1>4
  <2>2. (last + 1) * step \in Int
    BY <1>1, <1>4, Times
  <2>3. QED
    BY <2>1, <2>2
<1>6. Len(PerformanceBuckets(range)) = last + 1
  BY <1>2, <1>4
<1>7. ASSUME NEW i \in 1..last + 1
      PROVE  /\ PerformanceBuckets(range)[i].start = start + (i - 1) * step
             /\ PerformanceBuckets(range)[i].end =
                   IF i <= last THEN start + i * step - 1 ELSE end
  <2>1. i * step \in Int /\ ending(i) \in Int /\ (i <= last => i * step <= end - start)
    BY <1>1, <1>3, <1>4, Times
  <2>2. i = last + 1 => ending(i) >= end
    BY <1>5, <2>1
  <2>3. Min({ending(i), end}) = IF i <= last THEN ending(i) ELSE end
    <3> HIDE DEF ending
    <3>1. Min({ending(i), end}) = IF ending(i) <= end THEN ending(i) ELSE end
      BY <2>1, Extremes
    <3>2. CASE i <= last
      <4>1. ending(i) <= end
        BY <2>1, <3>2 DEF ending
      <4>2. QED
        BY <3>1, <3>2, <4>1
    <3>3. CASE i = last + 1
      BY <1>4, <2>1, <2>2, <3>1, <3>3
    <3>4. QED
      BY <1>4, <3>2, <3>3
  <2>4. QED
    BY <1>2, <1>4, <2>3
<1>8. QED
  <2>1. \A i \in 1..last + 1 :
           /\ PerformanceBuckets(range)[i].start = start + (i - 1) * step
           /\ PerformanceBuckets(range)[i].end = IF i <= last THEN start + i * step - 1 ELSE end
    BY <1>7
  <2>2. \A k \in Int : k <= last <=> k * step <= end - start
    BY <1>3
  <2> HIDE DEF range
  <2>3. QED
    BY <1>1, <1>4, <1>5, <1>6, <2>1, <2>2 DEF range, step, last

\* Whatever the length of a range, its buckets lie end to end over it, and a
\* time of the range is counted in the bucket that contains it
\* (performance_session.go, performanceBucketIndex).
THEOREM BucketsCoverTheRange ==
  ASSUME NEW start \in Int, NEW end \in Int, 1 < start, start <= end
  PROVE  LET range == [start |-> start, end |-> end]
             buckets == PerformanceBuckets(range)
         IN /\ buckets[1].start = start /\ buckets[Len(buckets)].end = end
            /\ \A i \in 2..Len(buckets) : buckets[i].start = buckets[i - 1].end + 1
            /\ \A t \in start..end :
                  /\ BucketIndex(t, buckets) \in 1..Len(buckets)
                  /\ TimeRangeContains(buckets[BucketIndex(t, buckets)], t)
<1> DEFINE range == [start |-> start, end |-> end]
           step == BucketStep(range)
           last == (end - start) \div step
           buckets == PerformanceBuckets(range)
<1>1. /\ step \in Positives /\ last \in Nat
      /\ last * step <= end - start /\ end - start < (last + 1) * step
      /\ \A k \in Int : k <= last <=> k * step <= end - start
      /\ Len(buckets) = last + 1
      /\ \A i \in 1..last + 1 : /\ buckets[i].start = start + (i - 1) * step
                                /\ buckets[i].end = IF i <= last THEN start + i * step - 1 ELSE end
  BY BucketsAre
<1> HIDE DEF step, last, buckets
<1>2. buckets[1].start = start /\ buckets[Len(buckets)].end = end
  <2>1. (1 - 1) * step = 0
    BY <1>1 DEF Positives
  <2>2. QED
    BY <1>1, <2>1
<1>3. \A i \in 2..Len(buckets) : buckets[i].start = buckets[i - 1].end + 1
  <2> SUFFICES ASSUME NEW i \in 2..last + 1
               PROVE  buckets[i].start = buckets[i - 1].end + 1
    BY <1>1
  <2>1. i \in 1..last + 1 /\ i - 1 \in 1..last + 1 /\ i - 1 <= last /\ (i - 1) * step \in Int
    BY <1>1, Times
  <2>2. buckets[i].start = start + (i - 1) * step /\ buckets[i - 1].end = start + (i - 1) * step - 1
    BY <1>1, <2>1
  <2>3. QED
    BY <2>1, <2>2
<1>4. ASSUME NEW t \in start..end
      PROVE  /\ BucketIndex(t, buckets) \in 1..Len(buckets)
             /\ TimeRangeContains(buckets[BucketIndex(t, buckets)], t)
  <2> DEFINE index == (t - start) \div step
  <2>1. /\ index \in Int /\ 0 <= index /\ index <= last
        /\ index * step <= t - start /\ t - start < (index + 1) * step
    <3>1. \A k \in Int : index \in Int /\ (k <= index <=> k * step <= t - start)
      BY <1>1, Quotients
    <3> HIDE DEF index
    <3>2. 0 <= index
      BY <1>1, <3>1 DEF Positives
    <3>3. index * step <= t - start /\ ~((index + 1) * step <= t - start)
      BY <3>1
    <3>4. index * step \in Int /\ (index + 1) * step \in Int
      <4>1. index \in Int /\ index + 1 \in Int
        BY <3>1
      <4>2. QED
        BY <1>1, <4>1, Times
    <3>5. index <= last
      BY <1>1, <3>1, <3>3, <3>4
    <3>6. QED
      BY <3>1, <3>2, <3>3, <3>4, <3>5
  <2>2. BucketIndex(t, buckets) = index + 1
    <3>1. CASE last = 0
      BY <1>1, <2>1, <3>1 DEF BucketIndex
    <3>2. CASE last > 0
      <4>1. buckets[1].start = start /\ buckets[1].end = start + 1 * step - 1
        BY <1>1, <1>2, <3>2
      <4>2. buckets[1].end - buckets[1].start + 1 = step
        BY <1>1, <4>1 DEF Positives
      <4>3. BucketIndex(t, buckets) = Max({1, Min({index + 1, last + 1})})
        <5>1. \A s, f \in Int : s = step /\ f = start =>
                 Max({1, Min({(t - f) \div s + 1, Len(buckets)})}) = Max({1, Min({index + 1, last + 1})})
          BY <1>1
        <5>2. buckets[1].end - buckets[1].start + 1 \in Int /\ buckets[1].start \in Int
          BY <1>1, <4>1, <4>2 DEF Positives
        <5>3. ~(Len(buckets) <= 1)
          BY <1>1, <3>2
        <5>4. BucketIndex(t, buckets)
                 = Max({1, Min({(t - buckets[1].start) \div (buckets[1].end - buckets[1].start + 1) + 1,
                                Len(buckets)})})
          BY <5>3 DEF BucketIndex
        <5>5. QED
          BY <4>1, <4>2, <5>1, <5>2, <5>4
      <4> HIDE DEF index
      <4>4. Min({index + 1, last + 1}) = index + 1
        <5>1. index + 1 \in Int /\ last + 1 \in Int /\ index + 1 <= last + 1
          BY <1>1, <2>1
        <5>2. QED
          BY <5>1, Extremes
      <4>5. Max({1, index + 1}) = index + 1
        BY <2>1, Extremes
      <4>6. QED
        BY <4>3, <4>4, <4>5
    <3>3. QED
      BY <1>1, <3>1, <3>2
  <2> HIDE DEF index
  <2>3. /\ buckets[index + 1].start = start + index * step
        /\ buckets[index + 1].end = IF index + 1 <= last THEN start + (index + 1) * step - 1 ELSE end
    <3>1. index + 1 \in 1..last + 1 /\ (index + 1) - 1 = index
      BY <1>1, <2>1
    <3>2. QED
      BY <1>1, <3>1
  <2>4. index * step \in Int /\ (index + 1) * step \in Int
    BY <1>1, <2>1, Times
  <2>5. buckets[index + 1].start <= t /\ t <= buckets[index + 1].end
    BY <1>1, <2>1, <2>3, <2>4
  <2>6. QED
    BY <1>1, <2>1, <2>2, <2>5 DEF TimeRangeContains
<1>5. QED
  BY <1>2, <1>3, <1>4 DEF buckets

-----------------------------------------------------------------------------
(* Scores of the performance tab *)

\* A score's last step keeps it a percentage.
Clamped(n) == Max({0, Min({100, n})})

\* It leaves what is one already.
LEMMA ClampedIs ==
  ASSUME NEW n \in Int
  PROVE  Clamped(n) = IF n < 0 THEN 0 ELSE IF n > 100 THEN 100 ELSE n
<1>1. Min({100, n}) = IF 100 <= n THEN 100 ELSE n
  BY Extremes
<1>2. Max({0, Min({100, n})}) = IF 0 >= Min({100, n}) THEN 0 ELSE Min({100, n})
  BY <1>1, Extremes
<1>3. QED
  BY <1>1, <1>2 DEF Clamped

\* Rounding goes to the nearest whole number, in the order of the rates.
LEMMA RoundIs ==
  ASSUME NEW n \in Nat, NEW d \in Positives, NEW k \in Int
  PROVE  /\ Round(<<n, d>>) \in Nat
         /\ k <= Round(<<n, d>>) <=> 2 * k * d <= 2 * n + d
<1>1. Round(<<n, d>>) = (2 * n + d) \div (2 * d)
  BY DEF Round
<1>2. 2 * d \in Positives /\ 2 * n + d \in Int
  BY DEF Positives
<1>3. \A j \in Int : Round(<<n, d>>) \in Int /\ (j <= Round(<<n, d>>) <=> j * (2 * d) <= 2 * n + d)
  BY <1>1, <1>2, Quotients
<1>4. 0 <= Round(<<n, d>>)
  BY <1>3 DEF Positives
<1>5. k * (2 * d) = 2 * k * d
  BY DEF Positives
<1>6. QED
  BY <1>3, <1>4, <1>5

\* Rounding treats gains and losses alike.
LEMMA RoundMirrored ==
  ASSUME NEW n \in Int, NEW d \in Positives
  PROVE  Round(<<-n, d>>) = -Round(<<n, d>>) /\ Round(<<n, d>>) \in Int
<1>1. CASE n > 0
  BY <1>1, RoundIs DEF Round
<1>2. CASE n < 0
  <2>1. Round(<<-n, d>>) \in Nat
    BY <1>2, RoundIs
  <2>2. Round(<<n, d>>) = -Round(<<-n, d>>)
    BY <1>2 DEF Round
  <2>3. QED
    BY <2>1, <2>2
<1>3. CASE n = 0
  <2>1. Round(<<0, d>>) \in Nat /\ ~(1 <= Round(<<0, d>>))
    BY RoundIs DEF Positives
  <2>2. QED
    BY <1>3, <2>1
<1>4. QED
  BY <1>1, <1>2, <1>3

\* A greater rate is never rounded to less.
LEMMA RoundOrdered ==
  ASSUME NEW n \in Nat, NEW d \in Positives, NEW m \in Nat, NEW e \in Positives,
         n * e <= m * d
  PROVE  Round(<<n, d>>) <= Round(<<m, e>>)
<1> DEFINE q == Round(<<n, d>>)
<1>1. q \in Nat /\ 2 * q * d <= 2 * n + d
  BY RoundIs
<1> HIDE DEF q
<1>2. (2 * q * d) * e <= (2 * n + d) * e
  BY <1>1, Times DEF Positives
<1>3. (2 * n + d) * e <= (2 * m + e) * d
  BY DEF Positives
<1>4. (2 * q * d) * e = (2 * q * e) * d
  BY <1>1 DEF Positives
<1>5. (2 * q * e) * d <= (2 * m + e) * d
  <2>1. (2 * q * d) * e \in Int /\ (2 * n + d) * e \in Int /\ (2 * m + e) * d \in Int
    BY <1>1 DEF Positives
  <2>2. QED
    BY <2>1, <1>2, <1>3, <1>4
<1>6. 2 * q * e <= 2 * m + e
  <2>1. 2 * q * e \in Int /\ 2 * m + e \in Int
    BY <1>1 DEF Positives
  <2>2. QED
    BY <2>1, <1>5, Times
<1>7. QED
  BY <1>1, <1>6, RoundIs DEF q

-----------------------------------------------------------------------------
\* What a change is measured by: the baseline, or the floor if that is more.
Scale(baseline, floor) == IF LessRate(AbsRate(baseline), floor) THEN floor ELSE AbsRate(baseline)

\* The scale of a delta is never zero.
LEMMA ScaleIsPositive ==
  ASSUME NEW baseline \in Rates, NEW floor \in PositiveRates
  PROVE  Scale(baseline, floor) \in PositiveRates
<1>1. PICK b \in Int, c \in Positives : baseline = <<b, c>>
  BY DEF Rates
<1>2. PICK f \in Positives, g \in Positives : floor = <<f, g>>
  BY DEF PositiveRates
<1> DEFINE a == IF b < 0 THEN -b ELSE b
<1>3. AbsRate(baseline) = <<a, c>> /\ a \in Nat
  BY <1>1 DEF AbsRate
<1>4. LessRate(AbsRate(baseline), floor) <=> a * g < f * c
  BY <1>2, <1>3 DEF LessRate
<1>5. a = 0 => a * g < f * c
  BY Times DEF Positives
<1>6. CASE LessRate(AbsRate(baseline), floor)
  BY <1>6 DEF Scale
<1>7. CASE ~LessRate(AbsRate(baseline), floor)
  BY <1>3, <1>4, <1>5, <1>7 DEF Scale, PositiveRates, Positives
<1>8. QED
  BY <1>6, <1>7

\* A delta is a rate, and it mirrors that of a metric of the other direction.
LEMMA DeltaIs ==
  ASSUME NEW current \in Rates, NEW baseline \in Rates, NEW floor \in PositiveRates
  PROVE  LET scale == Scale(baseline, floor)
             moved == current[1] * baseline[2] - baseline[1] * current[2]
         IN /\ Delta(current, baseline, TRUE, floor)
                  = <<moved * scale[2], current[2] * baseline[2] * scale[1]>>
            /\ Delta(current, baseline, FALSE, floor)
                  = <<-(moved * scale[2]), current[2] * baseline[2] * scale[1]>>
            /\ moved \in Int /\ moved * scale[2] \in Int
            /\ current[2] * baseline[2] * scale[1] \in Positives
            /\ moved * scale[2] > 0 <=> moved > 0
            /\ moved * scale[2] = 0 <=> moved = 0
<1> DEFINE scale == Scale(baseline, floor)
           moved == current[1] * baseline[2] - baseline[1] * current[2]
<1>1. scale \in PositiveRates
  BY ScaleIsPositive
<1>2. Delta(current, baseline, TRUE, floor)
         = <<moved * scale[2], current[2] * baseline[2] * scale[1]>>
  BY DEF Delta, Scale, OverRate, SubRates
<1>3. Delta(current, baseline, FALSE, floor)
         = <<-(moved * scale[2]), current[2] * baseline[2] * scale[1]>>
  BY DEF Delta, Scale, OverRate, SubRates
<1>4. /\ current[1] \in Int /\ baseline[1] \in Int
      /\ current[2] \in Positives /\ baseline[2] \in Positives
      /\ scale[1] \in Positives /\ scale[2] \in Positives
  BY <1>1 DEF Rates, PositiveRates
<1> HIDE DEF scale
<1>5. moved \in Int
  BY <1>4 DEF Positives
<1> HIDE DEF moved
<1>6. moved * scale[2] \in Int /\ (moved * scale[2] > 0 <=> moved > 0)
      /\ (moved * scale[2] = 0 <=> moved = 0)
  BY <1>4, <1>5 DEF Positives
<1>7. \A a, b \in Positives : a * b \in Positives
  BY DEF Positives
<1>8. current[2] * baseline[2] * scale[1] \in Positives
  BY <1>4, <1>7
<1>9. QED
  BY <1>2, <1>3, <1>5, <1>6, <1>8 DEF scale, moved

-----------------------------------------------------------------------------
\* The points of a delta.
Points(delta) == Clamped(50 + Round(<<50 * delta[1], delta[2]>>))

\* What no change or a gain scores, and that a loss mirrors it.
LEMMA PointsUpward ==
  ASSUME NEW n \in Nat, NEW d \in Positives
  PROVE  /\ Points(<<n, d>>) \in 50..100
         /\ n = 0 => Points(<<n, d>>) = 50
         /\ (TrendOf(<<n, d>>) = "flat") <=> (Points(<<n, d>>) <= 52)
         /\ (TrendOf(<<-n, d>>) = "flat") <=> (Points(<<n, d>>) <= 52)
         /\ Points(<<-n, d>>) = 100 - Points(<<n, d>>)
<1> DEFINE r == Round(<<50 * n, d>>)
<1>1. 50 * n \in Nat
  OBVIOUS
<1>2. r \in Nat /\ (\A k \in Int : k <= r <=> 2 * k * d <= 2 * (50 * n) + d)
  BY <1>1, RoundIs
<1>3. Round(<<50 * (-n), d>>) = -r
  <2>1. 50 * (-n) = -(50 * n) /\ 50 * n \in Int
    OBVIOUS
  <2>2. QED
    BY <2>1, RoundMirrored
<1>4. n = 0 => ~(1 <= r)
  BY <1>2 DEF Positives
<1>5. 3 <= r <=> ~(n * 20 < d)
  <2>1. 3 <= r <=> 2 * 3 * d <= 2 * (50 * n) + d
    BY <1>2
  <2>2. QED
    BY <2>1 DEF Positives
<1>6. (TrendOf(<<n, d>>) = "flat") <=> n * 20 < d
  BY DEF TrendOf, LessRate, AbsRate, Positives
<1>7. (TrendOf(<<-n, d>>) = "flat") <=> n * 20 < d
  BY DEF TrendOf, LessRate, AbsRate, Positives
<1>8. Points(<<n, d>>) = Clamped(50 + r) /\ Points(<<-n, d>>) = Clamped(50 + -r)
  BY <1>3 DEF Points
<1> HIDE DEF r
<1>9. /\ Clamped(50 + r) = IF r > 50 THEN 100 ELSE 50 + r
      /\ Clamped(50 + -r) = IF r > 50 THEN 0 ELSE 50 - r
  BY <1>2, ClampedIs
<1>10. QED
  BY <1>2, <1>4, <1>5, <1>6, <1>7, <1>8, <1>9

\* A score is fifty for no change, on its side of fifty for any other, and flat
\* next to fifty only.
LEMMA PointsAre ==
  ASSUME NEW n \in Int, NEW d \in Positives
  PROVE  LET points == Points(<<n, d>>)
             trend == TrendOf(<<n, d>>)
         IN /\ points \in 0..100
            /\ n = 0 => points = 50
            /\ n > 0 => points >= 50
            /\ n < 0 => points <= 50
            /\ (trend = "flat") = (points \in 48..52)
            /\ trend = "up" => n > 0
            /\ Points(<<-n, d>>) = 100 - points
<1>1. (TrendOf(<<n, d>>) = "up") => n > 0
  BY DEF TrendOf, LessRate, AbsRate
<1>2. CASE n >= 0
  BY <1>1, <1>2, PointsUpward
<1>3. CASE n < 0
  <2>1. -n \in Nat /\ n = -(-n)
    BY <1>3
  <2>2. /\ Points(<<-n, d>>) \in 50..100
        /\ (TrendOf(<<-(-n), d>>) = "flat") <=> (Points(<<-n, d>>) <= 52)
        /\ Points(<<-(-n), d>>) = 100 - Points(<<-n, d>>)
    BY <2>1, PointsUpward
  <2>3. QED
    BY <1>1, <1>3, <2>1, <2>2
<1>4. QED
  BY <1>2, <1>3

\* A gain scores in the upper half, a loss in the lower.
LEMMA PointsSides ==
  ASSUME NEW n \in Int, NEW d \in Positives
  PROVE  /\ n >= 0 => Points(<<n, d>>) \in 50..100
         /\ n <= 0 => Points(<<n, d>>) \in 0..50
<1>1. \A k \in Nat : /\ Points(<<k, d>>) \in 50..100
                      /\ Points(<<-k, d>>) = 100 - Points(<<k, d>>)
  BY PointsUpward
<1>2. n <= 0 => Points(<<n, d>>) \in 0..50
  <2> SUFFICES ASSUME n <= 0
               PROVE  Points(<<n, d>>) \in 0..50
    OBVIOUS
  <2>1. -n \in Nat /\ -(-n) = n
    OBVIOUS
  <2>2. Points(<<-n, d>>) \in 50..100 /\ Points(<<-(-n), d>>) = 100 - Points(<<-n, d>>)
    BY <1>1, <2>1
  <2>3. Points(<<n, d>>) = 100 - Points(<<-n, d>>)
    BY <2>1, <2>2
  <2>4. QED
    BY <2>2, <2>3
<1>3. n >= 0 => Points(<<n, d>>) \in 50..100
  <2>1. n >= 0 => n \in Nat
    OBVIOUS
  <2>2. QED
    BY <1>1, <2>1
<1>4. QED
  BY <1>2, <1>3

\* A greater delta never scores less.
LEMMA PointsOrdered ==
  ASSUME NEW n \in Int, NEW d \in Positives, NEW m \in Int, NEW e \in Positives,
         n * e <= m * d
  PROVE  Points(<<n, d>>) <= Points(<<m, e>>)
<1>1. \A i, j \in Nat : \A b, c \in Positives :
         i * c <= j * b => Points(<<i, b>>) <= Points(<<j, c>>)
  <2> SUFFICES ASSUME NEW i \in Nat, NEW j \in Nat, NEW b \in Positives, NEW c \in Positives,
                      i * c <= j * b
               PROVE  Points(<<i, b>>) <= Points(<<j, c>>)
    OBVIOUS
  <2>1. 50 * i \in Nat /\ 50 * j \in Nat
    OBVIOUS
  <2>2. (50 * i) * c <= (50 * j) * b
    BY DEF Positives
  <2>3. /\ Round(<<50 * i, b>>) <= Round(<<50 * j, c>>)
        /\ Round(<<50 * i, b>>) \in Int /\ Round(<<50 * j, c>>) \in Int
    BY <2>1, <2>2, RoundOrdered, RoundIs
  <2>4. QED
    BY <2>3, ClampedIs DEF Points
<1>2. CASE n >= 0 /\ m >= 0
  BY <1>1, <1>2
<1>3. CASE n >= 0 /\ m < 0
  <2>1. 0 <= n * e /\ m * d < 0 /\ n * e \in Int /\ m * d \in Int
    BY <1>3 DEF Positives
  <2>2. QED
    BY <2>1
<1>4. CASE n < 0 /\ m >= 0
  <2>1. Points(<<n, d>>) \in 0..50
    BY <1>4, PointsSides
  <2>2. Points(<<m, e>>) \in 50..100
    BY <1>4, PointsSides
  <2>3. QED
    BY <2>1, <2>2
<1>5. CASE n < 0 /\ m < 0
  <2>1. -m \in Nat /\ -n \in Nat /\ (-m) * d <= (-n) * e
    BY <1>5 DEF Positives
  <2>2. Points(<<-m, e>>) <= Points(<<-n, d>>)
    BY <1>1, <2>1
  <2>3. /\ Points(<<-m, e>>) = 100 - Points(<<m, e>>)
        /\ Points(<<-n, d>>) = 100 - Points(<<n, d>>)
        /\ Points(<<m, e>>) \in Int /\ Points(<<n, d>>) \in Int
    BY PointsAre
  <2>4. QED
    BY <2>2, <2>3
<1>6. QED
  BY <1>2, <1>3, <1>4, <1>5

-----------------------------------------------------------------------------
\* A score is its delta's points, and its trend the delta's.
LEMMA ScoreIs ==
  ASSUME NEW current, NEW baseline, NEW up, NEW floor
  PROVE  /\ Score(current, baseline, up, floor).score = Points(Delta(current, baseline, up, floor))
         /\ Score(current, baseline, up, floor).trend = TrendOf(Delta(current, baseline, up, floor))
  BY DEF Score, Points, Clamped

\* Of two values against one baseline, the better never scores less.
LEMMA BetterScoresMore ==
  ASSUME NEW current \in Rates, NEW better \in Rates, NEW baseline \in Rates,
         NEW floor \in PositiveRates, NEW up \in BOOLEAN,
         LessRate(current, better) = up
  PROVE  Score(current, baseline, up, floor).score <= Score(better, baseline, up, floor).score
<1> DEFINE scale == Scale(baseline, floor)
           moved(r) == r[1] * baseline[2] - baseline[1] * r[2]
           below(r) == r[2] * baseline[2] * scale[1]
           way(x) == IF up THEN x ELSE -x
<1>1. \A r \in Rates :
         /\ Delta(r, baseline, up, floor) = <<way(moved(r) * scale[2]), below(r)>>
         /\ moved(r) \in Int /\ way(moved(r) * scale[2]) \in Int /\ below(r) \in Positives
  <2> SUFFICES ASSUME NEW r \in Rates
               PROVE  /\ Delta(r, baseline, up, floor) = <<way(moved(r) * scale[2]), below(r)>>
                      /\ moved(r) \in Int /\ way(moved(r) * scale[2]) \in Int
                      /\ below(r) \in Positives
    OBVIOUS
  <2>1. /\ Delta(r, baseline, TRUE, floor) = <<moved(r) * scale[2], below(r)>>
        /\ Delta(r, baseline, FALSE, floor) = <<-(moved(r) * scale[2]), below(r)>>
        /\ moved(r) \in Int /\ moved(r) * scale[2] \in Int /\ below(r) \in Positives
    BY DeltaIs
  <2> DEFINE m == moved(r) * scale[2]
             b == below(r)
  <2>5. /\ Delta(r, baseline, TRUE, floor) = <<m, b>>
        /\ Delta(r, baseline, FALSE, floor) = <<-m, b>>
        /\ moved(r) \in Int /\ m \in Int /\ b \in Positives
    BY <2>1
  <2>6. Delta(r, baseline, up, floor) = <<way(m), b>> /\ way(m) \in Int
    <3> HIDE DEF m, b
    <3>1. CASE up = TRUE
      BY <2>5, <3>1
    <3>2. CASE up = FALSE
      <4>1. way(m) = -m
        BY <3>2
      <4>2. -m \in Int
        BY <2>5
      <4>3. QED
        BY <2>5, <3>2, <4>1, <4>2
    <3>3. QED
      BY <3>1, <3>2
  <2>7. QED
    BY <2>5, <2>6
<1>2. /\ scale[1] \in Positives /\ scale[2] \in Positives
      /\ baseline[1] \in Int /\ baseline[2] \in Positives
      /\ current[1] \in Int /\ current[2] \in Positives
      /\ better[1] \in Int /\ better[2] \in Positives
  BY ScaleIsPositive DEF PositiveRates, Rates
<1> HIDE DEF scale
<1>3. way(current[1] * better[2]) <= way(better[1] * current[2])
  BY <1>2 DEF LessRate, Positives
<1> DEFINE common == baseline[2] * baseline[2] * scale[1] * scale[2]
<1>4. common \in Positives
  <2>1. \A a, b \in Positives : a * b \in Positives
    BY DEF Positives
  <2>2. QED
    BY <1>2, <2>1
<1>5. moved(current) * scale[2] * below(better) - moved(better) * scale[2] * below(current)
        = (current[1] * better[2] - better[1] * current[2]) * common
  BY <1>2 DEF Positives
<1>6. way(moved(current) * scale[2]) * below(better) <= way(moved(better) * scale[2]) * below(current)
  <2> DEFINE p == moved(current) * scale[2] * below(better)
             q == moved(better) * scale[2] * below(current)
             x == current[1] * better[2] - better[1] * current[2]
  <2>1. x \in Int /\ (IF up THEN x <= 0 ELSE x >= 0)
    BY <1>2, <1>3 DEF Positives
  <2>2. p \in Int /\ q \in Int
    BY <1>1, <1>2 DEF Positives
  <2>3. p - q = x * common
    BY <1>5
  <2> HIDE DEF x, common
  <2>4. x <= 0 => x * common <= 0
    BY <1>4, <2>1 DEF Positives
  <2>5. x >= 0 => x * common >= 0
    BY <1>4, <2>1 DEF Positives
  <2> HIDE DEF p, q
  <2>6. way(p) <= way(q)
    BY <2>1, <2>2, <2>3, <2>4, <2>5
  <2>7. /\ way(moved(current) * scale[2]) * below(better) = way(p)
        /\ way(moved(better) * scale[2]) * below(current) = way(q)
    BY <1>1, <1>2 DEF p, q, Positives
  <2>8. QED
    BY <2>6, <2>7
<1> HIDE DEF moved, below, way
<1>7. Points(<<way(moved(current) * scale[2]), below(current)>>)
        <= Points(<<way(moved(better) * scale[2]), below(better)>>)
  BY <1>1, <1>6, PointsOrdered
<1>8. QED
  BY <1>1, <1>7, ScoreIs

\* Scores are fair for all values, baselines and positive floors: a percentage,
\* fifty for no change, flat next to fifty only, never less for the better value,
\* and mirrored in the other direction (performance_trend.go,
\* scorePerformanceMetric).
THEOREM ScoresAlwaysRight ==
  ASSUME Scorings \subseteq [current : Rates, baseline : Rates, up : BOOLEAN, floor : PositiveRates]
  PROVE  ScoresRight
<1> SUFFICES ASSUME NEW x \in Scorings
             PROVE  LET shown == Score(x.current, x.baseline, x.up, x.floor)
                        mirrored == Score(x.current, x.baseline, ~x.up, x.floor)
                    IN /\ shown.score \in 0..100
                       /\ (shown.trend = "flat") = (shown.score \in 48..52)
                       /\ shown.trend = "up" => shown.score > 50
                       /\ SubRates(x.current, x.baseline)[1] = 0 => shown.score = 50
                       /\ LessRate(x.baseline, x.current) =>
                              (shown.score >= 50) = x.up \/ shown.trend = "flat"
                       /\ shown.score + mirrored.score = 100
                       /\ \A y \in Scorings :
                              /\ y.baseline = x.baseline /\ y.floor = x.floor /\ y.up = x.up
                              /\ LessRate(x.current, y.current) = x.up
                              => shown.score <= Score(y.current, y.baseline, y.up, y.floor).score
  BY DEF ScoresRight
<1> DEFINE shown == Score(x.current, x.baseline, x.up, x.floor)
           mirrored == Score(x.current, x.baseline, ~x.up, x.floor)
<1>1. \A y \in Scorings : /\ y.current \in Rates /\ y.baseline \in Rates
                          /\ y.up \in BOOLEAN /\ y.floor \in PositiveRates
  OBVIOUS
<1>2. PICK n \in Int, d \in Positives :
         /\ Delta(x.current, x.baseline, x.up, x.floor) = <<n, d>>
         /\ Delta(x.current, x.baseline, ~x.up, x.floor) = <<-n, d>>
         /\ SubRates(x.current, x.baseline)[1] = 0 <=> n = 0
         /\ LessRate(x.baseline, x.current) => IF x.up THEN n > 0 ELSE n < 0
  <2> DEFINE scale == Scale(x.baseline, x.floor)
             moved == x.current[1] * x.baseline[2] - x.baseline[1] * x.current[2]
             below == x.current[2] * x.baseline[2] * scale[1]
  <2>1. SubRates(x.current, x.baseline)[1] = moved
    BY DEF SubRates
  <2>2. /\ Delta(x.current, x.baseline, TRUE, x.floor) = <<moved * scale[2], below>>
        /\ Delta(x.current, x.baseline, FALSE, x.floor) = <<-(moved * scale[2]), below>>
        /\ moved \in Int /\ moved * scale[2] \in Int /\ below \in Positives
        /\ moved * scale[2] > 0 <=> moved > 0
        /\ moved * scale[2] = 0 <=> moved = 0
    BY <1>1, DeltaIs
  <2>3. LessRate(x.baseline, x.current) => moved > 0
    <3>1. /\ x.current[1] \in Int /\ x.current[2] \in Int
          /\ x.baseline[1] \in Int /\ x.baseline[2] \in Int
      BY <1>1 DEF Rates, Positives
    <3>2. QED
      BY <3>1 DEF LessRate
  <2> HIDE DEF moved, below
  <2> DEFINE m == moved * scale[2]
  <2>4. m \in Int /\ -m \in Int /\ (-m) \in Int /\ -(-m) = m /\ (m = 0 <=> moved = 0)
        /\ (m = 0 <=> -m = 0) /\ (LessRate(x.baseline, x.current) => m > 0 /\ -m < 0)
    BY <2>2, <2>3
  <2>5. /\ Delta(x.current, x.baseline, TRUE, x.floor) = <<m, below>>
        /\ Delta(x.current, x.baseline, FALSE, x.floor) = <<-m, below>>
    BY <2>2
  <2> HIDE DEF m
  <2>6. CASE x.up = TRUE
    BY <2>1, <2>2, <2>4, <2>5, <2>6
  <2>7. CASE x.up = FALSE
    BY <2>1, <2>2, <2>4, <2>5, <2>7
  <2>8. QED
    BY <1>1, <2>6, <2>7
<1>3. /\ shown.score = Points(<<n, d>>) /\ mirrored.score = Points(<<-n, d>>)
      /\ shown.trend = TrendOf(<<n, d>>)
  BY <1>2, ScoreIs
<1>4. \A y \in Scorings :
         /\ y.baseline = x.baseline /\ y.floor = x.floor /\ y.up = x.up
         /\ LessRate(x.current, y.current) = x.up
         => shown.score <= Score(y.current, y.baseline, y.up, y.floor).score
  BY <1>1, BetterScoresMore
<1> HIDE DEF shown, mirrored
<1>5. QED
  BY <1>1, <1>2, <1>3, <1>4, PointsAre DEF shown, mirrored
=============================================================================
