--------------------------- MODULE TranscriptPane ---------------------------
(***************************************************************************)
(* The transcript pane of the browser (internal/app/browser): which        *)
(* conversation is open, which is loading, what is kept for reopening, and *)
(* the list selection the pane follows.  The Go model is a value: every    *)
(* handler takes a browserModel and returns the next one with the commands *)
(* it issues.  So does every operator here: m is that record, m.cmds what  *)
(* the update has issued so far.                                           *)
(*                                                                         *)
(* Conversations are numbered newest first, so the first item of a list is *)
(* its least number.  A session's content is the revision of the store it  *)
(* was read from, and whether it is the whole conversation or the single   *)
(* session the statistics open.                                            *)
(***************************************************************************)
EXTENDS Integers, FiniteSets, Sequences, Functions

CONSTANTS
    Conversations,  \* numbers, the newest conversation the least
    CacheSize       \* browser_cache_size

ASSUME PaneAssumption == Conversations \subseteq Nat /\ CacheSize \in Nat \ {0}

None == -1

NoSessions == [c \in {} |-> None]

Modes == {"closed", "split", "fullscreen"}

Visible(m) == m.mode # "closed"
Focused(m) == m.mode = "fullscreen" \/ (m.mode = "split" /\ m.focus = "transcript")

InOrder(m, c) == \E i \in 1..Len(m.order) : m.order[i] = c

-----------------------------------------------------------------------------
(* The cursor of the list, and the selection that survives a new list. *)

First(list) == CHOOSE c \in list : \A d \in list : c <= d

UpdateSelected(m) == [m EXCEPT !.selected = m.cursor]

SelectVisible(m, c) == UpdateSelected([m EXCEPT !.cursor = c])

RestoreSelection(m) ==
    IF m.visible = {} THEN m
    ELSE SelectVisible(m, IF m.selected \in m.visible THEN m.selected ELSE First(m.visible))

(* list.SetItems leaves no item under the cursor of an empty list. *)
SetSearchItems(m, list) ==
    RestoreSelection([m EXCEPT !.visible = list,
                               !.cursor = IF list = {} THEN None ELSE @])

-----------------------------------------------------------------------------
(* Opening, caching and closing transcripts *)
\* Mutant: a conversation that is reopened enters the order again.
AddToCacheTwice(m, c) ==
    IF Len(m.order) < CacheSize THEN [m EXCEPT !.order = Append(@, c)]
    ELSE [m EXCEPT !.order = Append(Tail(@), c),
                   !.cache = Restrict(@, DOMAIN @ \ {Head(m.order)})]

(* First in, first out: reopening a conversation does not renew it. *)
AddToCache(m, c) ==
    IF InOrder(m, c) THEN m
    ELSE IF Len(m.order) < CacheSize THEN [m EXCEPT !.order = Append(@, c)]
    ELSE [m EXCEPT !.order = Append(Tail(@), c),
                   !.cache = Restrict(@, DOMAIN @ \ {Head(m.order)})]

(* The viewer starts without search or overlay, reused or new. *)
InstallViewer(m, c, content) ==
    AddToCache([m EXCEPT !.open = c,
                         !.loading = None,
                         !.cache = [d \in DOMAIN @ \cup {c} |->
                                        IF d = c THEN content ELSE @[d]],
                         !.mode = IF @ = "closed" THEN "split" ELSE @,
                         !.viewer = c,
                         !.shown = content,
                         !.busy = "none",
                         !.focus = IF m.mode = "fullscreen" THEN "transcript" ELSE @], c)

LoadCommand(c) == [kind |-> "load", conversation |-> c]

OpenTranscript(m, c) ==
    IF c \in DOMAIN m.cache THEN InstallViewer(m, c, m.cache[c])
    ELSE [m EXCEPT !.open = None, !.loading = c, !.cmds = @ \cup {LoadCommand(c)}]

CloseTranscript(m) ==
    [m EXCEPT !.mode = "closed", !.focus = "list", !.help = FALSE,
              !.loading = None, !.open = None, !.pending = None]
\* Mutant: the pane does not follow while a transcript is loading.
SyncTranscriptSelectionWhenIdle(m) ==
    IF m.mode # "split" \/ m.help \/ m.loading # None \/ m.cursor \in {None, m.open} THEN m
    ELSE OpenTranscript(m, m.cursor)

(* In split mode the pane follows the selection. *)
SyncTranscriptSelection(m) ==
    IF m.mode # "split" \/ m.help \/ m.cursor \in {None, m.open, m.loading} THEN m
    ELSE OpenTranscript(m, m.cursor)
\* Mutant: the answer is matched with the cursor, not with what was asked.
ApplyOpenViewerOfCursor(m, msg) ==
    IF msg.conversation = m.cursor THEN InstallViewer(m, msg.conversation, msg.content) ELSE m

ApplyOpenViewer(m, msg) ==
    IF msg.conversation = m.loading THEN InstallViewer(m, msg.conversation, msg.content) ELSE m

(* The session the statistics opened: shown alone, under its conversation. *)
OpenLoadedSession(m, msg) ==
    InstallViewer([m EXCEPT !.mode = "fullscreen", !.focus = "transcript"],
                  msg.conversation, msg.content)

-----------------------------------------------------------------------------
(* The reload after a resync *)

VisibleTranscript(m) ==
    IF ~Visible(m) THEN None ELSE IF m.open # None THEN m.open ELSE m.viewer

PrepareForResyncReload(m) ==
    [m EXCEPT !.resync = FALSE,
              !.pending = VisibleTranscript(m),
              !.open = None,
              !.loading = None,
              !.cache = NoSessions]

ReloadTranscriptAfterResync(m) ==
    IF m.pending = None \/ m.help THEN m
    ELSE LET cleared == [m EXCEPT !.pending = None] IN
         IF ~Visible(m) THEN cleared
         ELSE IF m.pending \notin m.visible THEN CloseTranscript(cleared)
         ELSE OpenTranscript(SelectVisible(cleared, m.pending), m.pending)

-----------------------------------------------------------------------------
(* The keys of the pane *)

CanHandleTranscriptAction(m) == ~m.editing /\ ~m.filterOpen /\ m.busy = "none"

ToggleTranscriptLayout(m) ==
    IF m.mode = "split" THEN [m EXCEPT !.mode = "fullscreen", !.focus = "transcript"]
    ELSE [m EXCEPT !.mode = "split", !.focus = "list"]

ToggleFocus(m) ==
    [m EXCEPT !.focus = IF @ = "list" THEN "transcript" ELSE "list"]

(* What Browser.Update does after the handler: the list sees the message,   *)
(* the selection follows its cursor, the pane follows the selection.        *)
ShouldUpdateList(m, isKey) ==
    \/ ~isKey
    \/ /\ ~m.help /\ ~m.filterOpen /\ ~m.editing
       /\ m.mode # "fullscreen" /\ m.focus = "list"

UpdateChildModels(m, isKey) ==
    IF ShouldUpdateList(m, isKey) THEN SyncTranscriptSelection(UpdateSelected(m)) ELSE m
=============================================================================
