------------------------------ MODULE Browser ------------------------------
(***************************************************************************)
(* The browser screen with its background work: keys, the commands they    *)
(* issue, the messages that answer them, resyncs that replace the store    *)
(* under it, and the statistics screen, which takes every message while it *)
(* is shown (internal/app/browser, app.go, stats_dispatch.go, resync.go).  *)
(*                                                                         *)
(* A command runs in a goroutine: it reads the store at one step and its   *)
(* message is handled at a later one, in any order with the others.        *)
(***************************************************************************)
EXTENDS BrowserSearch, Bags

CONSTANTS
    MultiPart,    \* conversations of several sessions
    MaxRevision,  \* bound: edits of the query
    MaxIncidents, \* bound: resyncs, visits of the statistics and changes of the filter
    MaxFlight     \* bound: commands and messages under way when a key is pressed

ASSUME MultiPartAssumption == MultiPart \subseteq Conversations
ASSUME BoundsAssumption == MaxRevision \in Nat /\ MaxIncidents \in Nat /\ MaxFlight \in Nat

VARIABLES
    m,         \* browserModel
    flight,    \* bag: commands that run and messages not yet handled
    screen,    \* the screen shown
    store,     \* [Conversations -> revision], 0 when the store has none
    import,    \* the resync: "idle", "running" or "finished"
    incidents, \* counts towards the bound
    lost,      \* kinds of work that failed or was dropped by the statistics
    reloaded   \* the store when the browser last emptied its caches

env == <<store, import, reloaded>>
vars == <<m, flight, screen, env, incidents, lost>>

Revisions == 0..(MaxIncidents + 1)
Contents == [rev : Revisions, whole : BOOLEAN]

Init ==
    /\ m = [all |-> {}, base |-> {}, visible |-> {}, cursor |-> None, selected |-> None,
            query |-> NoQuery, status |-> "idle", revision |-> 0, applied |-> 0,
            editing |-> FALSE, filter |-> CHOOSE f \in Filters : Passes[f] = Conversations,
            filterOpen |-> FALSE,
            mode |-> "closed", focus |-> "list", open |-> None, loading |-> None,
            pending |-> None, help |-> FALSE, busy |-> "none", viewer |-> None,
            shown |-> [rev |-> 0, whole |-> TRUE], cache |-> NoSessions, order |-> <<>>,
            resync |-> FALSE, cmds |-> {}, ctx |-> "kept"]
    /\ flight = SetToBag({[kind |-> "list"]})
    /\ screen = "browser"
    /\ store = [c \in Conversations |-> 1]
    /\ import = "idle"
    /\ incidents = 0
    /\ lost = {}
    /\ reloaded = [c \in Conversations |-> 0]

-----------------------------------------------------------------------------
(* One update of the browser: the handler's model n, then the child models. *)

Under(kind) == {x \in BagToSet(flight) : x.kind = kind}

(* Cancelling, or forgetting the cancel function of, the running search. *)
Reach(bag, ctx) ==
    LET held == {x \in BagToSet(bag) : x.kind = "search" /\ x.ctx = "held"}
    IN  IF ctx = "kept" THEN bag
        ELSE (bag (-) SetToBag(held)) (+) SetToBag({[x EXCEPT !.ctx = ctx] : x \in held})
\* Mutant: the commands of an update are issued again by the next.
BecomesKeepsCommands(n, rest) ==
    /\ m' = [n EXCEPT !.ctx = "kept"]
    /\ flight' = Reach(rest, n.ctx) (+) SetToBag(n.cmds)

Becomes(n, rest) ==
    /\ m' = [n EXCEPT !.cmds = {}, !.ctx = "kept"]
    /\ flight' = Reach(rest, n.ctx) (+) SetToBag(n.cmds)

Update(n, isKey, rest) == Becomes(UpdateChildModels(n, isKey), rest)

Key(n) ==
    /\ screen = "browser"
    /\ BagCardinality(flight) < MaxFlight
    /\ Update(n, TRUE, flight)
    /\ UNCHANGED <<screen, env, lost>>

ListKeys == ~m.filterOpen /\ ~m.help /\ ~Focused(m) /\ ~m.editing

-----------------------------------------------------------------------------
(* Keys of the list *)

MoveCursor ==
    /\ ListKeys /\ m.mode # "fullscreen"
    /\ \E c \in m.visible : Key([m EXCEPT !.cursor = c])
    /\ UNCHANGED incidents

BeginSearch ==
    /\ ListKeys
    /\ Key([m EXCEPT !.editing = TRUE])
    /\ UNCHANGED incidents

TypeQuery ==
    /\ m.editing /\ ~Focused(m)
    /\ m.revision < MaxRevision
    /\ \E q \in (Queries \cup {NoQuery}) \ {m.query} : Key(SetSearchQuery(m, q))
    /\ UNCHANGED incidents

EndSearch ==
    /\ m.editing /\ ~Focused(m)
    /\ \/ Key([m EXCEPT !.editing = FALSE])
       \/ m.revision < MaxRevision /\ Key(ClearSearch(m))
    /\ UNCHANGED incidents

ClearListSearch ==
    /\ ListKeys /\ m.query # NoQuery /\ m.revision < MaxRevision
    /\ Key(ClearSearch(m))
    /\ UNCHANGED incidents

OpenFilter ==
    /\ ListKeys
    /\ Key([m EXCEPT !.filterOpen = TRUE])
    /\ UNCHANGED incidents

(* Clearing all dimensions closes the overlay; other changes keep it. *)
ChangeFilter ==
    /\ m.filterOpen /\ incidents < MaxIncidents
    /\ \E f \in Filters, stay \in BOOLEAN : Key([SetFilter(m, f) EXCEPT !.filterOpen = stay])
    /\ incidents' = incidents + 1

CloseFilter ==
    /\ m.filterOpen
    /\ Key([m EXCEPT !.filterOpen = FALSE])
    /\ UNCHANGED incidents

Enter ==
    /\ ListKeys /\ m.cursor # None
    /\ Key(OpenTranscript([m EXCEPT !.mode = "split", !.focus = "list"], m.cursor))
    /\ UNCHANGED incidents

RequestStats ==
    /\ ListKeys /\ incidents < MaxIncidents
    /\ Key([m EXCEPT !.cmds = {[kind |-> "stats"]}])
    /\ incidents' = incidents + 1

-----------------------------------------------------------------------------
(* Keys of the pane.  Editing a query in the list takes precedence. *)

PaneKeys == ~(m.editing /\ ~Focused(m)) /\ ~m.filterOpen

Help ==
    /\ PaneKeys
    /\ IF m.help THEN Key(ReloadTranscriptAfterResync([m EXCEPT !.help = FALSE]))
       ELSE /\ IF Visible(m) THEN m.busy = "overlay" \/ CanHandleTranscriptAction(m)
                             ELSE ~m.editing
            /\ Key([m EXCEPT !.help = TRUE])
    /\ UNCHANGED incidents

PaneAction ==
    /\ PaneKeys /\ Visible(m) /\ ~m.help
    /\ CanHandleTranscriptAction(m)
    /\ \/ Key(ToggleTranscriptLayout(m))
       \/ Key(CloseTranscript(m))
       \/ m.mode = "split" /\ Key(ToggleFocus(m))
    /\ UNCHANGED incidents

(* The viewer starts or ends its own search or an overlay; a key the filter *)
(* takes reaches a focused viewer as well.                                  *)
ViewerKey ==
    /\ Focused(m) /\ ~m.help /\ m.viewer # None
    /\ \E b \in IF m.busy = "none" THEN {"search", "overlay"} ELSE {"none"} :
           Key([m EXCEPT !.busy = b])
    /\ UNCHANGED incidents

-----------------------------------------------------------------------------
(* Goroutines: a command reads the store and becomes its message. *)

Found(x) == {c \in x.base \cap Answers[x.query] : store[c] # 0}

Answer(x, failed) ==
    [kind |-> "answer", revision |-> x.revision, query |-> x.query,
     failed |-> failed, found |-> IF failed THEN {} ELSE Found(x)]

Notice == [kind |-> "notice"]

Replace(x, msg) ==
    /\ flight' = (flight (-) SetToBag({x})) (+) SetToBag({msg})
    /\ UNCHANGED <<m, screen, env, incidents>>

(* A cancelled search fails; any other may. *)
RunSearch ==
    \E x \in Under("search"), failed \in BOOLEAN :
        /\ x.ctx = "cancelled" => failed
        /\ Replace(x, Answer(x, failed))
        /\ lost' = IF failed /\ x.ctx # "cancelled" THEN lost \cup {"search"} ELSE lost

RunLoad ==
    \E x \in Under("load") :
        \/ /\ store[x.conversation] # 0
           /\ Replace(x, [kind |-> "loaded", conversation |-> x.conversation,
                          content |-> [rev |-> store[x.conversation], whole |-> TRUE]])
           /\ UNCHANGED lost
        \/ /\ Replace(x, Notice)
           /\ lost' = lost \cup {"load"}

RunList ==
    \E x \in Under("list") :
        \/ /\ Replace(x, [kind |-> "listed",
                          conversations |-> {c \in Conversations : store[c] # 0}])
           /\ UNCHANGED lost
        \/ /\ Replace(x, Notice)
           /\ lost' = lost \cup {"list"}

(* The statistics open one session, read from its own file. *)
RunSession ==
    \E x \in Under("session") :
        /\ \/ Replace(x, [kind |-> "opened", conversation |-> x.conversation,
                          content |-> [rev |-> store[x.conversation],
                                      whole |-> x.conversation \notin MultiPart]])
           \/ Replace(x, Notice)
        /\ UNCHANGED lost

-----------------------------------------------------------------------------
(* Messages *)

Handled == {"timer", "answer", "loaded", "listed", "notice", "opened"}

(* handleAsyncMsg; the browser has no case for a session of the statistics. *)
Handler(msg) ==
    CASE msg.kind = "timer" -> ApplyDeepSearchDebounce(m, msg)
      [] msg.kind = "answer" -> ApplyDeepSearchResult(m, msg)
      [] msg.kind = "loaded" -> ApplyOpenViewer(m, msg)
      [] msg.kind = "listed" -> ApplyConversationsLoaded(m, msg)
      [] OTHER -> m

Deliver(msg) ==
    /\ screen = "browser"
    /\ Update(Handler(msg), FALSE, flight (-) SetToBag({msg}))
    /\ UNCHANGED <<screen, env, incidents, lost>>

DeliverMessage == \E msg \in BagToSet(flight) : msg.kind \in Handled /\ Deliver(msg)

OpenStats ==
    \E x \in Under("stats") :
        /\ flight' = flight (-) SetToBag({x})
        /\ screen' = "stats"
        /\ UNCHANGED <<m, env, incidents, lost>>

OpenStatsSession ==
    /\ screen = "stats"
    /\ BagCardinality(flight) < MaxFlight
    /\ \E c \in m.all : flight' = flight (+) SetToBag({[kind |-> "session", conversation |-> c]})
    /\ UNCHANGED <<m, screen, env, incidents, lost>>

CloseStats ==
    /\ screen = "stats"
    /\ screen' = "browser"
    /\ UNCHANGED <<m, flight, env, incidents, lost>>

(* The statistics take every message; what they do not know is gone. *)
Swallow(msg) ==
    /\ screen = "stats"
    /\ IF msg.kind = "opened"
       THEN /\ Becomes(OpenLoadedSession(m, msg), flight (-) SetToBag({msg}))
            /\ screen' = "browser"
            /\ UNCHANGED lost
       ELSE /\ flight' = flight (-) SetToBag({msg})
            /\ lost' = lost \cup {msg.kind}
            /\ UNCHANGED <<m, screen>>
    /\ UNCHANGED <<env, incidents>>

SwallowMessage == \E msg \in BagToSet(flight) : msg.kind \in Handled /\ Swallow(msg)

-----------------------------------------------------------------------------
(* Resyncs: the import replaces the store, later the browser is told. *)

RequestResync ==
    /\ ListKeys /\ ~m.resync /\ import = "idle" /\ incidents < MaxIncidents
    /\ screen = "browser"
    /\ Update([m EXCEPT !.resync = TRUE], TRUE, flight)
    /\ import' = "running"
    /\ incidents' = incidents + 1
    /\ UNCHANGED <<screen, store, reloaded, lost>>

(* One conversation changed, or appeared, or is gone, or none did. *)
Import ==
    /\ import = "running"
    /\ import' = "finished"
    /\ \E c \in Conversations : \E r \in {0, incidents + 1, store[c]} :
           store' = [store EXCEPT ![c] = r]
    /\ UNCHANGED <<m, flight, screen, reloaded, incidents, lost>>

(* A resync that failed, or found the archive current, is only cleared: the *)
(* list is not asked for, whatever the store has become.                    *)
FinishResync ==
    /\ import = "finished"
    /\ import' = "idle"
    /\ IF screen = "browser"
       THEN /\ \/ /\ Becomes([PrepareForResyncReload(m) EXCEPT !.cmds = {[kind |-> "list"]}],
                            flight)
                  /\ reloaded' = store
               \/ Becomes([m EXCEPT !.resync = FALSE], flight) /\ UNCHANGED reloaded
            /\ UNCHANGED lost
       ELSE lost' = lost \cup {"resync"} /\ UNCHANGED <<m, flight, reloaded>>
    /\ UNCHANGED <<screen, store, incidents>>

-----------------------------------------------------------------------------
Keys ==
    \/ MoveCursor \/ BeginSearch \/ TypeQuery \/ EndSearch \/ ClearListSearch
    \/ OpenFilter \/ ChangeFilter \/ CloseFilter \/ Enter \/ RequestStats
    \/ Help \/ PaneAction \/ ViewerKey

Commands == RunSearch \/ RunLoad \/ RunList \/ RunSession

Next ==
    \/ Keys
    \/ Commands
    \/ DeliverMessage
    \/ OpenStats \/ OpenStatsSession \/ CloseStats \/ SwallowMessage
    \/ RequestResync \/ Import \/ FinishResync

Spec == Init /\ [][Next]_vars

(* What a search waits for.  A message is read by the screen that is shown. *)
SearchWork ==
    \/ RunSearch
    \/ \E msg \in Under("timer") \cup Under("answer") : Deliver(msg) \/ Swallow(msg)

(* Goroutines run, and the program reads its messages, sooner or later. *)
FairSpec == Spec /\ WF_vars(SearchWork)
-----------------------------------------------------------------------------
(* Properties *)

(* The state stays in its types: the list's sets, the modes of search and   *)
(* pane, the caches, and the messages under way.                            *)
TypeOK ==
    /\ m.base \subseteq Conversations /\ m.visible \subseteq Conversations
    /\ m.status \in Statuses /\ m.mode \in Modes
    /\ m.cursor \in Conversations \cup {None} /\ m.selected \in Conversations \cup {None}
    /\ m.open \in Conversations \cup {None} /\ m.loading \in Conversations \cup {None}
    /\ DOMAIN m.cache \subseteq Conversations /\ m.order \in Seq(Conversations)
    /\ \A c \in DOMAIN m.cache : m.cache[c] \in Contents
    /\ m.cmds = {} /\ m.ctx = "kept"
    /\ IsABag(flight) /\ screen \in {"browser", "stats"}

(* The caches never grow past browser_cache_size, never hold a transcript   *)
(* the eviction order has forgotten, and the conversation that is open can  *)
(* always be reopened from them.                                            *)
CacheInOrder ==
    /\ Len(m.order) <= CacheSize
    /\ \A i, j \in 1..Len(m.order) : m.order[i] = m.order[j] => i = j
    /\ \A c \in DOMAIN m.cache : InOrder(m, c)
    /\ m.open # None => m.open \in DOMAIN m.cache /\ m.viewer = m.open
                       /\ m.shown = m.cache[m.open] /\ m.loading = None

(* Whatever the order of timers and answers: a list that is not waiting     *)
(* shows what was asked last.  No answer to an earlier query survives.      *)
NoOtherQuestion ==
    m.status = "idle" /\ m.applied = m.revision =>
        IF m.query = NoQuery THEN m.visible = m.base ELSE m.visible \subseteq Answers[m.query]

(* A search that is announced is really under way: its timer or its command *)
(* exists, unless the statistics took the message.                          *)
Asked(kinds) ==
    \E x \in BagToSet(flight) : x.kind \in kinds /\ MatchesQuestion(m, x)

SearchUnderWay ==
    /\ m.status = "debouncing" => Asked({"timer"}) \/ "timer" \in lost
    /\ m.status = "searching" => Asked({"search", "answer"}) \/ "answer" \in lost

(* A transcript that is announced is really being loaded, unless the load   *)
(* failed or the statistics took the message.                               *)
LoadUnderWay ==
    m.loading # None =>
        \/ \E x \in BagToSet(flight) :
               x.kind \in {"load", "loaded"} /\ x.conversation = m.loading
        \/ lost \cap {"load", "loaded"} # {}

(* Nothing on screen waits for what is not under way.                       *)
UnderWay == TypeOK /\ SearchUnderWay /\ LoadUnderWay

(* In split mode the pane shows, or loads, the conversation under the       *)
(* cursor: through searches, filters, resyncs and focus changes.  Only the  *)
(* list of a resync may still have to arrive.                               *)
Reloading ==
    \/ Under("list") \cup Under("listed") \cup Under("notice") # {}
    \/ lost \cap {"listed", "notice"} # {}

PaneFollowsCursor ==
    /\ m.mode = "split" /\ m.focus = "list" /\ m.cursor # None
    /\ ~m.help /\ ~m.editing /\ ~m.filterOpen
    /\ ~Reloading
    => m.cursor \in {m.open, m.loading}

(* A transcript that was visible when a resync finished is to be reopened.  *)
(* Help brings it back when it is closed, a list on its way when it has     *)
(* arrived, and a search for the query as it is when it is answered.        *)
Stranded ==
    /\ m.pending # None /\ ~m.help
    /\ Under("list") \cup Under("listed") = {}
    /\ ~Asked({"timer", "search", "answer"})

(* What drops the reload: the query is cleared, which shows the list at     *)
(* once and never looks at the reload; the search for the query fails; the  *)
(* list cannot be loaded; the statistics take the message.                  *)
QueryCleared == m.query # NoQuery /\ m'.query = NoQuery
SearchFailed == \E x \in Under("answer") : x.failed /\ MatchesQuestion(m, x) /\ Deliver(x)
ListFailed == \E x \in Under("list") : Replace(x, Notice)
StatsTake == \E x \in BagToSet(flight) : x.kind \in {"listed", "timer", "answer"} /\ Swallow(x)

(* A reload that a resync left pending is never dropped by anything else:   *)
(* no edit of the query to another one, no filter, no late or unwanted      *)
(* answer, no further resync leaves it with nothing under way that would    *)
(* reopen the transcript (reloadTranscriptAfterResync).                     *)
ReloadHappens ==
    [][Stranded' => Stranded \/ QueryCleared \/ SearchFailed \/ ListFailed \/ StatsTake]_vars

(* Refuted: a listed conversation passes the filter.  A search that was     *)
(* answered before the filter changed carries the same query and revision.  *)
ShownPassFilter ==
    m.status = "idle" /\ lost = {} => m.visible \subseteq m.base

(* Refuted: after a resync the pane shows what the resync brought.          *)
ShownIsCurrent ==
    m.open # None => m.shown.rev >= reloaded[m.open]

(* Refuted: the keys that leave a focused transcript are not blocked by a   *)
(* query being edited in the list behind it.                                *)
TranscriptCanBeLeft == ~(Focused(m) /\ m.editing /\ ~m.filterOpen)

(* Refuted: the list opens whole conversations.  A session the statistics   *)
(* opened alone is cached under the key of its conversation.                *)
EnterOpensWhole == [][Enter => (m'.open # None => m'.shown.whole)]_vars

(* A search settles once the query is left alone, whatever else is pressed, *)
(* unless the statistics take its timer or its answer.                      *)
Settles == [](m.status # "idle" => <>(m.status = "idle" \/ lost \cap {"timer", "answer"} # {}))
=============================================================================
