--------------------------- MODULE BrowserSearch ---------------------------
(***************************************************************************)
(* The list of the browser: structured filters narrow what is loaded, and  *)
(* a query is answered by a deep search of the store, debounced and in the *)
(* background (internal/app/browser/browser_search_controller.go).  As in  *)
(* TranscriptPane, every operator takes the model m and returns the next.  *)
(* m.ctx says what the update did to the context of the running search.    *)
(***************************************************************************)
EXTENDS TranscriptPane

CONSTANTS
    Subagents,  \* conversations the browser does not list
    Queries,    \* what may be typed
    Answers,    \* [Queries -> SUBSET Conversations]: what the text of the store answers
    Filters,    \* settings of the structured filters
    Passes      \* [Filters -> SUBSET Conversations]: what a setting lets through

NoQuery == "no query"

\* What is typed is not the empty query, and one setting filters nothing.
ASSUME SearchAssumption ==
    /\ Subagents \subseteq Conversations
    /\ Answers \in [Queries -> SUBSET Conversations]
    /\ Passes \in [Filters -> SUBSET Conversations]
    /\ \E f \in Filters : Passes[f] = Conversations
    /\ NoQuery \notin Queries

Statuses == {"idle", "debouncing", "searching"}

ApplyStructuredFilters(m) == (m.all \ Subagents) \cap Passes[m.filter]

CancelActiveDeepSearch(m) == [m EXCEPT !.ctx = "cancelled"]

ApplyFullConversationList(m) ==
    SetSearchItems([CancelActiveDeepSearch(m) EXCEPT !.status = "idle", !.applied = m.revision],
                   m.base)

Timer(m) == [kind |-> "timer", revision |-> m.revision, query |-> m.query]

ScheduleDeepSearch(m) ==
    IF m.query = NoQuery THEN ApplyFullConversationList(m)
    ELSE [CancelActiveDeepSearch(m) EXCEPT !.status = "debouncing",
                                           !.cmds = @ \cup {Timer(m)}]

SearchCommand(m) ==
    [kind |-> "search", revision |-> m.revision, query |-> m.query,
     base |-> m.base, ctx |-> "held"]

StartDeepSearch(m) ==
    IF m.query = NoQuery THEN ApplyFullConversationList(m)
    ELSE [CancelActiveDeepSearch(m) EXCEPT !.status = "searching",
                                           !.cmds = @ \cup {SearchCommand(m)}]
\* Mutant: the revision is counted after the timer was started.
SetSearchQueryCountsLate(m, query) ==
    IF query = m.query THEN m
    ELSE [ScheduleDeepSearch([m EXCEPT !.query = query]) EXCEPT !.revision = @ + 1]

SetSearchQuery(m, query) ==
    IF query = m.query THEN m
    ELSE ScheduleDeepSearch([m EXCEPT !.query = query, !.revision = @ + 1])

ClearSearch(m) == SetSearchQuery([m EXCEPT !.editing = FALSE], NoQuery)

SetFilter(m, filter) ==
    LET n == [m EXCEPT !.filter = filter] IN
    ScheduleDeepSearch([n EXCEPT !.base = ApplyStructuredFilters(n)])

MatchesQuestion(m, msg) == msg.revision = m.revision /\ msg.query = m.query

ApplyDeepSearchDebounce(m, msg) ==
    IF MatchesQuestion(m, msg) THEN StartDeepSearch(m) ELSE m
\* Mutant: an answer is shown whatever it answers.
ApplyDeepSearchResultUnasked(m, msg) ==
    IF msg.failed THEN [m EXCEPT !.status = "idle", !.ctx = "forgotten"]
    ELSE SyncTranscriptSelection(ReloadTranscriptAfterResync(
             SetSearchItems([m EXCEPT !.status = "idle", !.ctx = "forgotten",
                                      !.applied = m.revision], msg.found)))

(* An accepted answer forgets the cancel function without calling it. *)
ApplyDeepSearchResult(m, msg) ==
    IF ~MatchesQuestion(m, msg) THEN m
    ELSE IF msg.failed THEN [m EXCEPT !.status = "idle", !.ctx = "forgotten"]
    ELSE SyncTranscriptSelection(ReloadTranscriptAfterResync(
             SetSearchItems([m EXCEPT !.status = "idle", !.ctx = "forgotten",
                                      !.applied = msg.revision], msg.found)))
\* Mutant: the new list does not reopen what was visible.
ApplyConversationsLoadedOnly(m, msg) ==
    LET n == [m EXCEPT !.all = msg.conversations]
        k == [n EXCEPT !.base = ApplyStructuredFilters(n)]
    IN  IF m.query = NoQuery THEN SyncTranscriptSelection(ApplyFullConversationList(k))
        ELSE ScheduleDeepSearch(k)

ApplyConversationsLoaded(m, msg) ==
    LET n == [m EXCEPT !.all = msg.conversations]
        k == [n EXCEPT !.base = ApplyStructuredFilters(n)]
    IN  IF m.query = NoQuery
        THEN SyncTranscriptSelection(ReloadTranscriptAfterResync(ApplyFullConversationList(k)))
        ELSE ScheduleDeepSearch(k)
=============================================================================
