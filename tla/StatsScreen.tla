----------------------------- MODULE StatsScreen -----------------------------
(***************************************************************************)
(* The statistics screen (internal/app/stats): tabs, the lane of the       *)
(* heaviest sessions, the range, the filter overlay with its split row,    *)
(* and the figures computed whenever a filter, the split or the range      *)
(* changes.  The conversations are those the browser had when the screen   *)
(* was opened; the precomputed rows come from queries that may fail.       *)
(*                                                                         *)
(* Every tab has lanes with cursors of their own; only the Overview's      *)
(* matters here, the others choose what is drawn.                          *)
(***************************************************************************)
EXTENDS StatsAggregation

CONSTANTS
    Worlds,       \* the conversations the screen may be opened with
    Today,        \* the day the clock shows
    RangeDays,    \* lengths of the relative ranges, in the order r goes through them
    Tabs,         \* the tabs in their order, "overview" the first
    OverviewLanes,\* lanes of the overview, the last lists the heaviest sessions
    Dims,         \* dimensions of the filter in their order
    BoolDims,     \* those that are answered with yes or no
    SplitDims,    \* dimensions to split by, in their order
    Regexes,      \* regular expressions, each the set of values it matches
    Rows,         \* the query of the activity rows
    Queries       \* the precomputed queries, Rows among them

ASSUME ScreenAssumption ==
    /\ Rows \in Queries
    /\ BoolDims \subseteq ToSet(Dims)
    /\ ToSet(SplitDims) \subseteq ToSet(Dims) \ BoolDims
    /\ \A days \in ToSet(RangeDays) : days \in 1..Today
    /\ \A world \in Worlds : \A i \in DOMAIN world :
           /\ world[i].sessions # <<>>
           /\ \A s \in ToSet(world[i].sessions) : s.at > NoTime

VARIABLES
    conversations,
    tab,            \* index into Tabs
    lane,           \* overviewLaneCursor
    sessionCursor,  \* overviewSessionCursor
    timeRange, splitBy,
    filter,         \* filter.Dimensions
    overlay,        \* the rest of the filter state
    helpOpen,
    failures,       \* statsQueryFailures
    notification,   \* the failures it names, {} for none
    derived,        \* snapshot and split figures
    command         \* what the last update asks the application for

selection == <<tab, lane, sessionCursor>>
figures == <<failures, notification, derived>>
vars == <<conversations, selection, timeRange, splitBy, filter, overlay, helpOpen, figures, command>>

None == "none"

(* The overlay's cursor is on the split row above the dimensions, or on one *)
(* of them; the list of a dimension's values, or none, is open.  A list     *)
(* always opens on its first value.                                         *)
SplitRow == 0
Collapsed == 0

(* A notification that is not about the queries. *)
Elsewhere == "elsewhere"

TopSessions(d) == d.snapshot.overview.top

-----------------------------------------------------------------------------
(* The structured filter (elements/browser_filter.go) *)

(* regex is <<>>, or holds the one expression; it may match nothing. *)
NoFilter == [selected |-> {}, regex |-> <<>>, bool |-> "any"]

IsActive(f) == f # NoFilter

ConversationModel(c) ==
    LET named == {i \in DOMAIN c.sessions : c.sessions[i].model # Blank}
    IN IF named = {} THEN Blank
       ELSE c.sessions[IF 1 \in named THEN 1 ELSE Max(named)].model

PartCount(c) ==
    LET own == {i \in DOMAIN c.sessions : ~c.sessions[i].subagent}
    IN IF own = {} THEN Len(c.sessions) ELSE Cardinality(own)

DimensionValue(c, dim) ==
    CASE dim = "provider" -> c.provider
      [] dim = "model" -> ConversationModel(c)
      [] dim = "multipart" -> IF PartCount(c) > 1 THEN "yes" ELSE "no"

MatchesDimension(c, dim, f) ==
    \/ ~IsActive(f)
    \/ dim \in BoolDims /\ DimensionValue(c, dim) = f.bool
    \/ dim \notin BoolDims /\ f.regex # <<>> /\ DimensionValue(c, dim) \in f.regex[1]
    \/ dim \notin BoolDims /\ f.regex = <<>> /\ DimensionValue(c, dim) \in f.selected

ApplyStructuredFilters(world, dimensions) ==
    SelectSeq(world, LAMBDA c : \A dim \in ToSet(Dims) : MatchesDimension(c, dim, dimensions[dim]))

(* The values to choose from; their order is that of SetToSeq. *)
ExtractFilterValues(world, dim) ==
    SetToSeq({DimensionValue(c, dim) : c \in ToSet(world)} \ {Blank})

-----------------------------------------------------------------------------
(* The figures of a filter, a range and a split, from the rows that loaded. *)

SplitAllowed(dimensions, by) == IF by = None THEN {} ELSE dimensions[by].selected

Figures(world, r, by, dimensions, failed) ==
    LET shown == ApplyStructuredFilters(world, dimensions)
        rows == IF Rows \in failed THEN {}
                ELSE ReadActivityBuckets(UNION {AggregateActivityBuckets(c) : c \in ToSet(shown)})
        sessions == FlattenSessions(shown)
        allowed == SplitAllowed(dimensions, by)
    IN [snapshot |-> ComputeSnapshot(shown, r, rows),
        activity |-> IF by = None THEN <<>>
                     ELSE ComputeActivityBySplit(sessions, rows, r, by, allowed),
        tools |-> IF by = None THEN <<>> ELSE ComputeToolsBySplit(sessions, r, by, allowed)]

Clamp(cursor, count) == IF cursor >= count THEN Max({count - 1, 0}) ELSE cursor

(* The session cursor lives only while the heaviest sessions are selected. *)
NormalizeSelection(t, l, cursor, d) ==
    /\ tab' = t
    /\ lane' = l
    /\ sessionCursor' = IF Tabs[t] # "overview" \/ l # OverviewLanes THEN 0
                        ELSE Clamp(cursor, Len(TopSessions(d)))
\* Mutant: the badge goes, the message stays.
ApplyQueryFailuresKeepingMessage(failed) ==
    /\ failures' = failed
    /\ notification' = IF failed # {} /\ failed # failures THEN failed ELSE notification

ApplyQueryFailures(failed) ==
    /\ failures' = failed
    /\ notification' = CASE failed = {} /\ failures # {} -> {}
                         [] failed # {} /\ failed # failures -> failed
                         [] OTHER -> notification

(* Nothing is queried when no conversation passes the filter. *)
RecomputeSnapshot(r, by, dimensions) ==
    \E failed \in SUBSET Queries :
        /\ ApplyStructuredFilters(conversations, dimensions) = <<>> => failed = {}
        /\ ApplyQueryFailures(failed)
        /\ derived' = Figures(conversations, r, by, dimensions, failed)
        /\ NormalizeSelection(tab, lane, sessionCursor, derived')

Quiet == command' = <<>>

Init ==
    /\ conversations \in Worlds
    /\ tab = 1 /\ lane = 1 /\ sessionCursor = 0
    /\ timeRange = LastDays(Today, RangeDays[2])
    /\ splitBy = None
    /\ filter = [dim \in ToSet(Dims) |-> NoFilter]
    /\ overlay = [active |-> FALSE, cursor |-> 1, expanded |-> Collapsed, value |-> 1,
                  regex |-> FALSE, split |-> 0]
    /\ helpOpen = FALSE
    /\ failures \in {f \in SUBSET Queries : conversations = <<>> => f = {}}
    /\ notification = failures
    /\ derived = Figures(conversations, timeRange, splitBy, filter, failures)
    /\ command = <<>>

-----------------------------------------------------------------------------
(* Keys of the screen *)

OnScreen == ~helpOpen /\ ~overlay.active

MoveTab(delta) ==
    /\ OnScreen /\ Quiet
    /\ NormalizeSelection(1 + ((tab - 1 + delta + Len(Tabs)) % Len(Tabs)), lane, sessionCursor, derived)
    /\ UNCHANGED <<conversations, timeRange, splitBy, filter, overlay, helpOpen, figures>>

MoveLane(delta) ==
    /\ OnScreen /\ Quiet
    /\ Tabs[tab] = "overview"
    /\ NormalizeSelection(tab, 1 + ((lane - 1 + delta + OverviewLanes) % OverviewLanes),
                          sessionCursor, derived)
    /\ UNCHANGED <<conversations, timeRange, splitBy, filter, overlay, helpOpen, figures>>

OnTopSessions == Tabs[tab] = "overview" /\ lane = OverviewLanes

NextSession ==
    /\ OnScreen /\ Quiet
    /\ OnTopSessions /\ TopSessions(derived) # <<>>
    /\ sessionCursor' = (sessionCursor + 1) % Len(TopSessions(derived))
    /\ UNCHANGED <<conversations, tab, lane, timeRange, splitBy, filter, overlay, helpOpen, figures>>

(* The next relative range, then all time, then the first again. *)
NextRange(r) ==
    LET at == SelectInSeq(RangeDays, LAMBDA days : r # AllTime /\ r = LastDays(Today, days))
    IN IF at = Len(RangeDays) THEN AllTime ELSE LastDays(Today, RangeDays[at + 1])
\* Mutant: the figures are left as they were.
CycleRangeWithoutRecompute ==
    /\ OnScreen /\ Quiet
    /\ timeRange' = NextRange(timeRange)
    /\ UNCHANGED <<conversations, selection, splitBy, filter, overlay, helpOpen, figures>>

CycleRange ==
    /\ OnScreen /\ Quiet
    /\ timeRange' = NextRange(timeRange)
    /\ RecomputeSnapshot(timeRange', splitBy, filter)
    /\ UNCHANGED <<conversations, splitBy, filter, overlay, helpOpen>>

\* Mutant: a session is looked for by its name alone.
HeavySessionTargetByName(rank) ==
    LET target == TopSessions(derived)[rank]
        shown == ApplyStructuredFilters(conversations, filter)
        found == SelectInSeq(shown, LAMBDA c : \E s \in ToSet(c.sessions) : s.id = target.id)
    IN IF found = 0 THEN <<>>
       ELSE <<shown[found].key, (CHOOSE s \in ToSet(shown[found].sessions) : s.id = target.id).path>>

(* The first conversation with a session of that name and file; a scan      *)
(* gives every session its file.                                            *)
HeavySessionTarget(rank) ==
    LET target == TopSessions(derived)[rank]
        Is(s) == s.id = target.id /\ s.path = target.path
        shown == ApplyStructuredFilters(conversations, filter)
        found == SelectInSeq(shown, LAMBDA c : \E s \in ToSet(c.sessions) : Is(s))
    IN IF found = 0 THEN <<>>
       ELSE <<shown[found].key, (CHOOSE s \in ToSet(shown[found].sessions) : Is(s)).path>>

OpenSession ==
    /\ OnScreen
    /\ OnTopSessions /\ TopSessions(derived) # <<>>
    /\ command' = HeavySessionTarget(sessionCursor + 1)
    /\ UNCHANGED <<conversations, selection, timeRange, splitBy, filter, overlay, helpOpen, figures>>

OpenHelp ==
    /\ OnScreen /\ Quiet
    /\ helpOpen' = TRUE
    /\ UNCHANGED <<conversations, selection, timeRange, splitBy, filter, overlay, figures>>

CloseHelp ==
    /\ helpOpen /\ Quiet
    /\ helpOpen' = FALSE
    /\ UNCHANGED <<conversations, selection, timeRange, splitBy, filter, overlay, figures>>

(* A failure reported by a command of any screen reaches the one shown. *)
Notify ==
    /\ notification' = {Elsewhere} /\ Quiet
    /\ UNCHANGED <<conversations, selection, timeRange, splitBy, filter, overlay, helpOpen,
                   failures, derived>>

(* The timer of such a notification, by then it may be another's. *)
ClearNotification ==
    /\ notification # {} /\ Quiet
    /\ notification' = {}
    /\ UNCHANGED <<conversations, selection, timeRange, splitBy, filter, overlay, helpOpen,
                   failures, derived>>

PressClose ==
    /\ OnScreen
    /\ command' = <<"close">>
    /\ UNCHANGED <<conversations, selection, timeRange, splitBy, filter, overlay, helpOpen, figures>>

-----------------------------------------------------------------------------
(* Keys of the filter overlay: a regular expression being typed, the list  *)
(* of the splits, the list of a dimension's values, or the rows.           *)

TypingRegex == overlay.active /\ overlay.regex
OnSplits == overlay.active /\ ~overlay.regex /\ overlay.split # 0
OnValues == overlay.active /\ ~overlay.regex /\ overlay.split = 0 /\ overlay.expanded # Collapsed
OnRows == overlay.active /\ ~overlay.regex /\ overlay.split = 0 /\ overlay.expanded = Collapsed

Values == ExtractFilterValues(conversations, Dims[overlay.expanded])

Shows(o) == overlay' = o

MoveInOverlay(o) ==
    /\ Shows(o) /\ Quiet
    /\ UNCHANGED <<conversations, selection, timeRange, splitBy, filter, helpOpen, figures>>

(* applyFilterChange *)
ChangeFilter(dimensions, by, o) ==
    /\ Shows(o) /\ Quiet
    /\ filter' = dimensions
    /\ splitBy' = by
    /\ RecomputeSnapshot(timeRange, by, dimensions)
    /\ UNCHANGED <<conversations, timeRange, helpOpen>>

ChangeDimension(row, f, o) == ChangeFilter([filter EXCEPT ![Dims[row]] = f], splitBy, o)

Closed(o) == [o EXCEPT !.active = FALSE, !.expanded = Collapsed, !.value = 1,
                       !.regex = FALSE, !.split = 0]
Expanded(row, o) == [o EXCEPT !.cursor = row, !.expanded = row, !.value = 1]
AllCollapsed(o) == [o EXCEPT !.expanded = Collapsed, !.value = 1, !.split = 0]

RowOf(dim) == SelectInSeq(Dims, LAMBDA d : d = dim)

(* Without one provider and one model the Performance tab shows no score. *)
PerformanceGateActive ==
    LET snapshot == derived.snapshot IN
    /\ Tabs[tab] = "performance"
    /\ snapshot.overview.count > 0
    /\ ~(snapshot.scope.provider /\ snapshot.scope.model)

OpenFilter ==
    /\ OnScreen
    /\ LET open == [Closed(overlay) EXCEPT !.active = TRUE] IN
       MoveInOverlay(IF ~PerformanceGateActive THEN open
                     ELSE Expanded(RowOf(IF ~derived.snapshot.scope.provider THEN "provider"
                                         ELSE "model"), open))

CloseFilter == OnRows /\ MoveInOverlay(Closed(overlay))

MoveCursor ==
    /\ OnRows
    /\ \E row \in {overlay.cursor - 1, overlay.cursor + 1} \cap (SplitRow..Len(Dims)) :
           MoveInOverlay([overlay EXCEPT !.cursor = row])

OnDimension == OnRows /\ overlay.cursor # SplitRow
OnBool == OnDimension /\ Dims[overlay.cursor] \in BoolDims
OnText == OnDimension /\ Dims[overlay.cursor] \notin BoolDims

CycleBool ==
    /\ OnBool
    /\ LET next == [any |-> "yes", yes |-> "no", no |-> "any"]
       IN ChangeDimension(overlay.cursor,
                          [NoFilter EXCEPT !.bool = next[filter[Dims[overlay.cursor]].bool]], overlay)

ExpandDimension == OnText /\ MoveInOverlay(Expanded(overlay.cursor, overlay))

ClearDimension == OnDimension /\ ChangeDimension(overlay.cursor, NoFilter, overlay)

ClearAll ==
    /\ OnRows
    /\ ChangeFilter([dim \in ToSet(Dims) |-> NoFilter], None, Closed(overlay))

StartRegex ==
    /\ OnText \/ OnValues
    /\ MoveInOverlay([AllCollapsed(overlay) EXCEPT !.regex = TRUE])

ApplyRegex ==
    /\ TypingRegex
    /\ \E regex \in Regexes :
           ChangeDimension(overlay.cursor, [NoFilter EXCEPT !.regex = <<regex>>],
                           [overlay EXCEPT !.regex = FALSE])

(* Escape, or enter with nothing or something invalid typed. *)
CancelRegex == TypingRegex /\ MoveInOverlay([overlay EXCEPT !.regex = FALSE])

MoveValue ==
    /\ OnValues
    /\ \E value \in {overlay.value - 1, overlay.value + 1} \cap DOMAIN Values :
           MoveInOverlay([overlay EXCEPT !.value = value])
\* Mutant: the chosen values join a regular expression.
ToggleValueKeepingRegex ==
    /\ OnValues
    /\ overlay.value \in DOMAIN Values
    /\ LET f == filter[Dims[overlay.expanded]]
           value == Values[overlay.value]
           selected == IF value \in f.selected THEN f.selected \ {value} ELSE f.selected \cup {value}
       IN ChangeDimension(overlay.expanded, [f EXCEPT !.selected = selected], overlay)

ToggleValue ==
    /\ OnValues
    /\ overlay.value \in DOMAIN Values
    /\ LET f == filter[Dims[overlay.expanded]]
           value == Values[overlay.value]
           selected == IF value \in f.selected THEN f.selected \ {value} ELSE f.selected \cup {value}
       IN ChangeDimension(overlay.expanded, [NoFilter EXCEPT !.selected = selected], overlay)

ClearValues == OnValues /\ ChangeDimension(overlay.expanded, NoFilter, AllCollapsed(overlay))

Collapse == (OnValues \/ OnSplits) /\ MoveInOverlay(AllCollapsed(overlay))

ExpandSplit ==
    /\ OnRows /\ overlay.cursor = SplitRow
    /\ MoveInOverlay([overlay EXCEPT !.split = Max({1, SelectInSeq(SplitDims,
                                                           LAMBDA dim : dim = splitBy)})])

RemoveSplit ==
    /\ OnSplits \/ (OnRows /\ overlay.cursor = SplitRow)
    /\ ChangeFilter(filter, None, AllCollapsed(overlay))

MoveSplit ==
    /\ OnSplits
    /\ \E option \in {overlay.split - 1, overlay.split + 1} \cap DOMAIN SplitDims :
           MoveInOverlay([overlay EXCEPT !.split = option])

ToggleSplit ==
    /\ OnSplits
    /\ LET option == SplitDims[overlay.split]
       IN ChangeFilter(filter, IF splitBy = option THEN None ELSE option, overlay)

OverlayKey ==
    \/ CloseFilter \/ MoveCursor \/ CycleBool \/ ExpandDimension \/ ClearDimension \/ ClearAll
    \/ StartRegex \/ ApplyRegex \/ CancelRegex
    \/ MoveValue \/ ToggleValue \/ ClearValues \/ Collapse
    \/ ExpandSplit \/ RemoveSplit \/ MoveSplit \/ ToggleSplit

Next ==
    \/ MoveTab(1) \/ MoveTab(-1) \/ MoveLane(1) \/ MoveLane(-1)
    \/ NextSession \/ CycleRange \/ OpenSession \/ OpenHelp \/ CloseHelp
    \/ Notify \/ ClearNotification \/ PressClose
    \/ OpenFilter \/ OverlayKey

Spec == Init /\ [][Next]_vars

-----------------------------------------------------------------------------
(* Properties *)

(* Cursors point at what is there, at most one list is open in the overlay, *)
(* and never under the help; a dimension is filtered in one way only        *)
(* (lane_state.go, filter_keys.go).                                         *)
TypeOK ==
    /\ conversations \in Worlds
    /\ tab \in DOMAIN Tabs /\ lane \in 1..OverviewLanes
    /\ sessionCursor \in 0..Max({Len(TopSessions(derived)) - 1, 0})
    /\ sessionCursor # 0 => OnTopSessions
    /\ splitBy \in ToSet(SplitDims) \cup {None}
    /\ \A dim \in ToSet(Dims) :
           Cardinality({part \in DOMAIN NoFilter : filter[dim][part] # NoFilter[part]}) <= 1
    /\ failures \subseteq Queries
    /\ helpOpen => ~overlay.active
    /\ overlay.cursor \in SplitRow..Len(Dims)
    /\ overlay.regex => overlay.active /\ overlay.cursor # SplitRow
    /\ overlay.expanded # Collapsed => /\ overlay.active /\ ~overlay.regex /\ overlay.split = 0
                                       /\ overlay.cursor = overlay.expanded
                                       /\ Dims[overlay.expanded] \notin BoolDims

(* What is drawn is what the filter, the range, the split and the rows that *)
(* loaded give, whatever keys led there (model.go, recomputeSnapshot).      *)
DerivedCurrent == derived = Figures(conversations, timeRange, splitBy, filter, failures)

SumOver(f(_), keys) == MapThenSumSet(f, keys)

(* A split tells a whole apart: with nothing selected in its dimension, the *)
(* parts of every day and of every bucket add up to the figures without the *)
(* split; with a selection only selected values appear (activity_split.go,  *)
(* tools_grouped.go).                                                       *)
SplitAddsUp ==
    splitBy # None =>
        LET allowed == SplitAllowed(filter, splitBy)
            whole == derived.snapshot
            parts == derived.activity
            tools == derived.tools
        IN /\ DOMAIN tools.splits \cup DOMAIN parts
                  \subseteq IF allowed = {} THEN DOMAIN tools.splits \cup DOMAIN parts ELSE allowed
           /\ \A b \in CallsBuckets :
                  tools.total[b] = SumOver(LAMBDA key : tools.splits[key][b], DOMAIN tools.splits)
           /\ allowed = {} => tools.total = whole.tools.perSession
           /\ allowed = {} /\ Rows \notin failures =>
                  \A d \in DOMAIN whole.activity.tokens :
                      /\ whole.activity.tokens[d]
                             = SumOver(LAMBDA key : parts[key].tokens[d], DOMAIN parts)
                      /\ whole.activity.sessions[d]
                             = SumOver(LAMBDA key : parts[key].sessions[d], DOMAIN parts)

(* Every rank of the heaviest sessions opens the session it shows, in the   *)
(* conversation it belongs to, and not another of the same name             *)
(* (open_session.go).                                                       *)
OpensShown ==
    \A rank \in DOMAIN TopSessions(derived) :
        LET shown == TopSessions(derived)[rank]
            opened == HeavySessionTarget(rank)
        IN /\ opened # <<>>
           /\ opened[2] = shown.path
           /\ \E c \in ToSet(ApplyStructuredFilters(conversations, filter)) :
                  c.key = opened[1] /\ \E s \in ToSet(c.sessions) : s.path = shown.path

(* The list is in order and holds the heaviest: none left out comes before  *)
(* one of them (overview.go, appendOverviewTopSession).                     *)
TopSessionsRight ==
    LET top == TopSessions(derived)
        sessions == FilterByTimeRange(FlattenSessions(ApplyStructuredFilters(conversations, filter)),
                                      timeRange)
        heavy == {s \in ToSet(sessions) : Tokens(s) > 0}
    IN /\ Len(top) = Min({TopLimit, Cardinality(heavy)})
       /\ ToSet(top) \subseteq heavy
       /\ \A i, j \in DOMAIN top : i < j => ~Before(top[j], top[i])
       /\ \A s \in heavy \ ToSet(top), i \in DOMAIN top : ~Before(s, top[i])

(* The longest streak is that of an unbroken row of days with activity, and *)
(* no longer one exists (activity.go, countLongestStreak).                  *)
StreaksRight ==
    LET activity == derived.snapshot.activity
        ActiveRun(run) == \A d \in run : activity.sessions[d] + activity.messages[d] > 0
        Runs == {first..last : first, last \in DOMAIN activity.sessions}
    IN activity.longest = Max({0} \cup {Cardinality(run) : run \in {r \in Runs : ActiveRun(r)}})

(* Counted from the rows of the store or from the sessions, a day has the   *)
(* same sessions and messages, and over all time no token of a message is   *)
(* counted twice or lost in the rows (sqlite_stats.go,                      *)
(* aggregateActivityBuckets).  That is not the total of the Overview, which *)
(* adds up what the scans say of the sessions (overview.go:65).             *)
BucketsAgree ==
    LET sessions == FilterByTimeRange(FlattenSessions(ApplyStructuredFilters(conversations, filter)),
                                      timeRange)
        TokensOfMessages(s) == Total(MessageTokens, s.messages)
        counted == ComputeActivity(sessions, timeRange)
        shown == derived.snapshot.activity
        On(f, d) == IF d \in DOMAIN f THEN f[d] ELSE 0
    IN Rows \notin failures =>
           /\ \A d \in DOMAIN shown.sessions \cup DOMAIN counted.sessions :
                  /\ On(shown.sessions, d) = On(counted.sessions, d)
                  /\ On(shown.messages, d) = On(counted.messages, d)
           /\ shown.active = counted.active
           /\ timeRange = AllTime =>
                  SumOver(LAMBDA d : shown.tokens[d], DOMAIN shown.tokens)
                      = Total(TokensOfMessages, sessions)

(* The figures on screen are those their definitions give, each computed    *)
(* another way, and open what they show.                                    *)
ScreenFiguresAgree ==
    TypeOK /\ SplitAddsUp /\ TopSessionsRight /\ OpensShown /\ StreaksRight /\ BucketsAgree

(* A message about queries never outlives their failure                     *)
(* (store_status.go, applyStatsQueryFailures).                              *)
NotificationTrue == notification \in {{}, {Elsewhere}, failures}
=============================================================================
