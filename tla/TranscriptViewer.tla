--------------------------- MODULE TranscriptViewer --------------------------
(***************************************************************************)
(* The viewer of one open transcript (internal/app/browser/viewer_*.go):   *)
(* toggles that render the content again around the message being read, a  *)
(* cache of renderings, the search inside the content, selection mode, the *)
(* Context Dock and the overlays that choose a target or a plan.           *)
(*                                                                         *)
(* A view is what a rendering depends on; rendering is a function of it,   *)
(* so the cache holds views.  The viewport is the library's: it keeps its  *)
(* offset between 0 and the last full page.                                *)
(*                                                                         *)
(* Left out: notifications, colours, and what the commands of an action do *)
(* outside the program.                                                    *)
(***************************************************************************)
EXTENDS TranscriptLines

CONSTANTS
    Sessions,   \* a sequence of [conv, messages]
    Settings,   \* what is open, which keys the reader uses, which layouts there are
    Queries,    \* what the reader searches for
    RenderCacheLimit

NoQuery == "no query"

Actions == {"copy", "open"}
NoAction == "no action"

FramedFooterRows == 2
FramedChromeHeight == 4
DockMinViewportRows == 3
ContextDockHeight == 9
ContextDockMinWidth == 72
BorderAndPadding == 4
Margin == 2

Conversations ==
    [subagent : BOOLEAN, claude : BOOLEAN, window : Nat, compacted : BOOLEAN]
Layouts == [fullscreen : BOOLEAN, width : Nat, height : Nat]

ASSUME SessionsAssumption == Sessions \in Seq([conv : Conversations, messages : Seq(Messages)])

(* A transcript is opened in the first layout. *)
ASSUME SettingsAssumption ==
    /\ RenderCacheLimit \in Nat \ {0}
    /\ NoQuery \notin Queries /\ Queries \subseteq Words
    /\ \A s \in Settings :
        s.session \in DOMAIN Sessions /\ s.layouts \in Seq(Layouts) /\ s.layouts # <<>>

VARIABLES
    setting,
    opts, planExpanded, selectionMode, \* what the reader toggled
    layout,                            \* fullscreen, width and height
    dockOpen,
    shown, content,                    \* a view, and the rendering of it in the viewport
    yOffset,                           \* the top line of the viewport
    renderCache,                       \* views
    search,                            \* the input line, the query and its matches
    overlay,                           \* actionMode and planPicker
    pendingGotoTop,
    kept                               \* the viewer kept for the next opening: its width
                                       \* and its cache, shared as long as it is the same map

viewerVars == <<setting, opts, planExpanded, selectionMode, layout, dockOpen, shown, content,
          yOffset, renderCache, search, overlay, pendingGotoTop, kept>>

Transcripts == Eager(Sessions)
Session == Transcripts[setting.session]
AllPlans == Total([m \in DOMAIN Session.messages |-> Session.messages[m].plans])
AllSeries ==
    Eager([i \in DOMAIN Sessions |-> NewContextSeries(Transcripts[i].conv, Transcripts[i].messages)])
Series == AllSeries[setting.session]

NoOverlay == [action |-> NoAction, picking |-> FALSE, pickFor |-> NoAction, selected |-> 0]
NoSearch == [editing |-> FALSE, query |-> NoQuery, matches |-> <<>>, current |-> 0,
             applied |-> NoQuery, valid |-> FALSE]

-----------------------------------------------------------------------------
(* Views, and their renderings.                                            *)

ContentWidth(width, selecting) ==
    Larger(IF selecting THEN width ELSE width - BorderAndPadding, 1)
MarkdownWrapWidth(width, selecting) ==
    Larger(IF selecting THEN width ELSE width - BorderAndPadding - Margin, 1)

View(session, o, plan, selecting, width) ==
    [session |-> session, opts |-> o, plan |-> plan, selecting |-> selecting, width |-> width]

\* Mutant of RenderKey: the unfolded plans are not part of the key.
RenderKeyWithoutPlan(v) ==
    <<v.session, v.opts, v.selecting, ContentWidth(v.width, v.selecting),
      MarkdownWrapWidth(v.width, v.selecting)>>

(* What tells two renderings of one session apart. *)
RenderKey(v) ==
    <<v.session, v.opts, v.plan, v.selecting, ContentWidth(v.width, v.selecting),
      MarkdownWrapWidth(v.width, v.selecting)>>

Render(v) ==
    LET s == Transcripts[v.session]
    IN  IF v.selecting THEN RenderVisibleConversation(s.messages, v.opts, v.plan)
        ELSE RenderContent(s.conv, s.messages, v.opts, v.plan, MarkdownWrapWidth(v.width, FALSE))

(* Every rendering the instance can reach, computed once. *)
OptionsOf(s) ==
    {(DefaultTranscriptOptions \ x) \cup (x \ DefaultTranscriptOptions) :
        x \in SUBSET (s.keys \cap Toggles)}
Positions(s, key) == IF key \in s.keys THEN BOOLEAN ELSE {FALSE}
ViewsOf(s) ==
    {View(s.session, o, p, v, s.layouts[l].width) :
        o \in OptionsOf(s), p \in Positions(s, "plan"), v \in Positions(s, "selection"),
        l \in DOMAIN s.layouts}
Renderings ==
    Eager([i \in DOMAIN Sessions |->
        Tabled([v \in UNION {ViewsOf(s) : s \in {s \in Settings : s.session = i}} |-> Render(v)])])
Rendered(v) == Renderings[v.session][v]

Text(lines) == [l \in DOMAIN lines |-> lines[l].words]

(* The current view, of the unprimed variables. *)
CurrentView == View(setting.session, opts, planExpanded, selectionMode, layout.width)

-----------------------------------------------------------------------------
(* Heights and the viewport.                                               *)

BodyHeight(height, selecting) ==
    Larger(height - (IF selecting THEN FramedFooterRows ELSE FramedChromeHeight), 1)

DockFitsWidth(lay) ==
    lay.fullscreen /\ Larger(lay.width - BorderAndPadding, 1) >= ContextDockMinWidth
\* Mutant of DockFits: a low window has room for the dock.
DockFitsAnyHeight(lay) == DockFitsWidth(lay)

DockFits(lay) ==
    /\ DockFitsWidth(lay)
    /\ lay.height >= FramedChromeHeight + DockMinViewportRows + ContextDockHeight

DockHeight(open, lay, selecting) ==
    IF open /\ ~selecting /\ Series.steps # <<>> /\ DockFits(lay) THEN ContextDockHeight ELSE 0

ViewportHeight(open, lay, selecting) ==
    Larger(BodyHeight(lay.height, selecting) - DockHeight(open, lay, selecting), 1)

(* External: the viewport clamps what it is asked for. *)
MaxYOffset(lines, rows) == Larger(Len(lines) - rows, 0)
SetYOffset(lines, rows, y) == Larger(Smaller(y, MaxYOffset(lines, rows)), 0)

Rows == ViewportHeight(dockOpen, layout, selectionMode)
Scroll(y) == SetYOffset(content.lines, Rows, y)

-----------------------------------------------------------------------------
(* Search in the rendered lines.                                           *)

(* One entry for each occurrence, the line it is on. *)
CollectSearchOccurrences(lines, query) ==
    IF query = NoQuery THEN <<>>
    ELSE LET Places(l) == {p \in DOMAIN lines[l].words : lines[l].words[p] = query}
         IN  FlattenSeq([l \in DOMAIN lines |-> [h \in 1 .. Cardinality(Places(l)) |-> l - 1]])

\* Mutant of PerformSearch: matches are collected again for a new query alone.
PerformSearchStale(s, lines) ==
    [s EXCEPT !.current = 0,
              !.matches = IF s.applied = s.query THEN @ ELSE CollectSearchOccurrences(lines, s.query),
              !.applied = s.query, !.valid = TRUE]

(* The matches are collected again when content or query have changed. *)
PerformSearch(s, lines) ==
    LET fresh == s.valid /\ s.applied = s.query
    IN  [s EXCEPT !.current = 0,
                  !.matches = IF fresh THEN @ ELSE CollectSearchOccurrences(lines, s.query),
                  !.applied = s.query, !.valid = TRUE]

AfterSearch(s, lines, rows, y) ==
    IF s.matches = <<>> THEN y ELSE SetYOffset(lines, rows, s.matches[1])

(* What renderContent shows for a view: the rendering cached under its key,*)
(* or a new one, for which the cache makes room by forgetting the others.  *)
Hits(cache, v) == {c \in cache : RenderKey(c) = RenderKey(v)}
Outcome(cache, v) == IF Hits(cache, v) # {} THEN CHOOSE c \in Hits(cache, v) : TRUE ELSE v
StoreRenderCache(cache, v) ==
    IF Hits(cache, v) # {} THEN cache
    ELSE IF Cardinality(cache) >= RenderCacheLimit THEN {v} ELSE cache \cup {v}

(* The maps are shared between the viewer and the one kept for reopening,  *)
(* until one of them is replaced.                                          *)
SharedCache(v) ==
    LET replaced == Hits(renderCache, v) = {} /\ Cardinality(renderCache) >= RenderCacheLimit
    IN  IF ~kept.shared \/ Hits(renderCache, v) # {} THEN kept
        ELSE IF replaced THEN [kept EXCEPT !.shared = FALSE]
        ELSE [kept EXCEPT !.cache = StoreRenderCache(renderCache, v)]

(* applyRenderedContent: what becomes of the search and the offset when    *)
(* the viewport gets content'.                                             *)
SameText == Text(content'.lines) = Text(content.lines)
SearchAgain ==
    LET s == IF SameText THEN search ELSE [search EXCEPT !.valid = FALSE]
    IN  search' = IF s.query = NoQuery THEN s ELSE PerformSearch(s, content'.lines)
OffsetApplied(rows, y) ==
    LET held == IF SameText THEN y ELSE SetYOffset(content'.lines, rows, y)
    IN  IF search'.query = NoQuery THEN held ELSE AfterSearch(search', content'.lines, rows, held)

(* renderContent for view v. *)
ShowView(v) ==
    /\ shown' = Outcome(renderCache, v)
    /\ content' = Rendered(shown')
    /\ renderCache' = StoreRenderCache(renderCache, v)
    /\ kept' = SharedCache(v)
    /\ SearchAgain

(* In a viewport of rows rows at offset y. *)
RenderContentOf(v, rows, y) ==
    /\ ShowView(v)
    /\ yOffset' = OffsetApplied(rows, y)

\* Mutant of RenderContentPreservingScroll: the offset stays, the message does not.
RenderContentInPlace(v) == RenderContentOf(v, Rows, yOffset)

(* renderContentPreservingScroll: the message on the top line stays there. *)
RenderContentPreservingScroll(v) ==
    LET m == MessageAt(content.map, yOffset)
        delta == yOffset - LineOf(content.map, m)
        target == ScrollTarget(content'.map, m, delta, Len(content'.lines))
    IN  /\ ShowView(v)
        /\ yOffset' = IF m = NoMessage \/ target < 0 THEN OffsetApplied(Rows, yOffset)
                      ELSE SetYOffset(content'.lines, Rows, target)

-----------------------------------------------------------------------------
(* Keys.                                                                   *)

HasActiveOverlay == overlay.action # NoAction \/ overlay.picking

(* The reader's keys reach the transcript. *)
Ready(key) == key \in setting.keys /\ ~search.editing /\ ~HasActiveOverlay

OtherThanG == pendingGotoTop' = FALSE

Flip(S, x) == IF x \in S THEN S \ {x} ELSE S \cup {x}

(* t, T, R, s, m and C; the ledger is refused without recorded usage. *)
ToggleOption(key) ==
    /\ Ready(key) /\ key \in Toggles
    /\ key = "ledger" => Series.steps # <<>>
    /\ opts' = Flip(opts, key)
    /\ RenderContentPreservingScroll(
            View(setting.session, opts', planExpanded, selectionMode, layout.width))
    /\ OtherThanG
    /\ UNCHANGED <<setting, planExpanded, selectionMode, layout, dockOpen, overlay>>

TogglePlan ==
    /\ Ready("plan")
    /\ planExpanded' = ~planExpanded
    /\ RenderContentPreservingScroll(
            View(setting.session, opts, planExpanded', selectionMode, layout.width))
    /\ OtherThanG
    /\ UNCHANGED <<setting, opts, selectionMode, layout, dockOpen, overlay>>

ToggleSelectionMode ==
    /\ Ready("selection")
    /\ selectionMode' = ~selectionMode
    /\ LET rows == ViewportHeight(dockOpen, layout, selectionMode')
       IN  RenderContentOf(View(setting.session, opts, planExpanded, selectionMode', layout.width),
                           rows, SetYOffset(content.lines, rows, yOffset))
    /\ OtherThanG
    /\ UNCHANGED <<setting, opts, planExpanded, layout, dockOpen, overlay>>

\* Mutant of ToggleDock: the offset is not fitted to the new height.
ToggleDockInPlace ==
    /\ Ready("dock")
    /\ dockOpen \/ (Series.steps # <<>> /\ DockFits(layout))
    /\ dockOpen' = ~dockOpen
    /\ OtherThanG
    /\ UNCHANGED <<setting, opts, planExpanded, selectionMode, layout, shown, content, yOffset,
                   renderCache, search, overlay, kept>>

(* An open dock can always be closed; it opens only where it fits. *)
ToggleDock ==
    /\ Ready("dock")
    /\ dockOpen \/ (Series.steps # <<>> /\ DockFits(layout))
    /\ dockOpen' = ~dockOpen
    /\ yOffset' = SetYOffset(content.lines, ViewportHeight(dockOpen', layout, selectionMode), yOffset)
    /\ OtherThanG
    /\ UNCHANGED <<setting, opts, planExpanded, selectionMode, layout, shown, content, renderCache,
                   search, overlay, kept>>

(* ] and [ *)
JumpToNotable ==
    /\ Ready("notable")
    /\ LET lines == NotableLines(Series, content.map)
           later == {l \in lines : l > yOffset}
           earlier == {l \in lines : l < yOffset}
       IN  \/ later # {} /\ yOffset' = Scroll(Least(later))
           \/ earlier # {} /\ yOffset' = Scroll(Greatest(earlier))
    /\ OtherThanG
    /\ UNCHANGED <<setting, opts, planExpanded, selectionMode, layout, dockOpen, shown, content,
                   renderCache, search, overlay, kept>>

(* External: the viewport's own keys. *)
ScrollLines ==
    /\ Ready("scroll")
    /\ yOffset' \in {Scroll(yOffset - 1), Scroll(yOffset + 1), Scroll(Len(content.lines))}
    /\ OtherThanG
    /\ UNCHANGED <<setting, opts, planExpanded, selectionMode, layout, dockOpen, shown, content,
                   renderCache, search, overlay, kept>>

(* g twice. *)
GotoTop ==
    /\ Ready("top")
    /\ pendingGotoTop' = ~pendingGotoTop
    /\ yOffset' = IF pendingGotoTop THEN 0 ELSE yOffset
    /\ UNCHANGED <<setting, opts, planExpanded, selectionMode, layout, dockOpen, shown, content,
                   renderCache, search, overlay, kept>>

-----------------------------------------------------------------------------
(* Search: / opens the line, enter searches, esc clears.                   *)

EditSearch ==
    /\ Ready("search")
    /\ search' = [search EXCEPT !.editing = TRUE]
    /\ OtherThanG
    /\ UNCHANGED <<setting, opts, planExpanded, selectionMode, layout, dockOpen, shown, content, yOffset,
                   renderCache, overlay, kept>>

EnterSearch(query) ==
    /\ search.editing
    /\ search' = PerformSearch([search EXCEPT !.editing = FALSE, !.query = query], content.lines)
    /\ yOffset' = AfterSearch(search', content.lines, Rows, yOffset)
    /\ UNCHANGED <<setting, opts, planExpanded, selectionMode, layout, dockOpen, shown, content,
                   renderCache, overlay, pendingGotoTop, kept>>

ClearSearch ==
    /\ search.editing
    /\ search' = NoSearch
    /\ UNCHANGED <<setting, opts, planExpanded, selectionMode, layout, dockOpen, shown, content, yOffset,
                   renderCache, overlay, pendingGotoTop, kept>>

\* Mutant of JumpToMatch: the viewport goes to the match that was current.
JumpToMatchLate ==
    /\ Ready("search") /\ search.matches # <<>>
    /\ LET n == Len(search.matches)
       IN  \E delta \in {1, n - 1} :
                search' = [search EXCEPT !.current = (@ + delta) % n]
    /\ yOffset' = Scroll(search.matches[search.current + 1])
    /\ OtherThanG
    /\ UNCHANGED <<setting, opts, planExpanded, selectionMode, layout, dockOpen, shown, content,
                   renderCache, overlay, kept>>

(* n and N *)
JumpToMatch ==
    /\ Ready("search") /\ search.matches # <<>>
    /\ LET n == Len(search.matches)
       IN  \E delta \in {1, n - 1} :
                search' = [search EXCEPT !.current = (@ + delta) % n]
    /\ yOffset' = Scroll(search'.matches[search'.current + 1])
    /\ OtherThanG
    /\ UNCHANGED <<setting, opts, planExpanded, selectionMode, layout, dockOpen, shown, content,
                   renderCache, overlay, kept>>

-----------------------------------------------------------------------------
(* The overlays: y and o ask for a target, p for a plan.                   *)

Overlaid(o) ==
    /\ overlay' = o
    /\ UNCHANGED <<setting, opts, planExpanded, selectionMode, layout, dockOpen, shown, content, yOffset,
                   renderCache, search, kept>>

StartActionMode(action) ==
    /\ Ready("actions")
    /\ OtherThanG
    /\ Overlaid([NoOverlay EXCEPT !.action = action])

(* esc, a conversation or its raw files: the overlay goes. *)
EndAction ==
    /\ HasActiveOverlay
    /\ Overlaid(NoOverlay)
    /\ UNCHANGED pendingGotoTop

HasPlans == \E m \in DOMAIN Session.messages :
                Session.messages[m].visible /\ Session.messages[m].plans > 0

\* Mutant of ExecutePlanTarget: a single plan is asked for too.
ExecutePlanTargetAsking ==
    /\ overlay.action # NoAction /\ HasPlans
    /\ Overlaid([NoOverlay EXCEPT !.picking = TRUE, !.pickFor = overlay.action])
    /\ UNCHANGED pendingGotoTop

(* One plan is taken at once, of several one is picked. *)
ExecutePlanTarget ==
    /\ overlay.action # NoAction /\ HasPlans
    /\ Overlaid(IF AllPlans = 1 THEN NoOverlay
                ELSE [NoOverlay EXCEPT !.picking = TRUE, !.pickFor = overlay.action])
    /\ UNCHANGED pendingGotoTop

MoveInPicker ==
    /\ overlay.picking
    /\ \/ overlay.selected > 0 /\ Overlaid([overlay EXCEPT !.selected = @ - 1])
       \/ overlay.selected < AllPlans - 1 /\ Overlaid([overlay EXCEPT !.selected = @ + 1])
    /\ UNCHANGED pendingGotoTop

-----------------------------------------------------------------------------
(* The window, and opening the transcript again.                           *)

(* updateLayout: SetFullscreen, then SetSize. *)
SetSize ==
    \E l \in DOMAIN setting.layouts :
        LET next == setting.layouts[l]
            screen == [layout EXCEPT !.fullscreen = next.fullscreen]
            y == IF screen = layout THEN yOffset
                 ELSE SetYOffset(content.lines, ViewportHeight(dockOpen, screen, selectionMode), yOffset)
            rows == ViewportHeight(dockOpen, next, selectionMode)
        IN  /\ next # layout
            /\ layout' = next
            /\ RenderContentOf(View(setting.session, opts, planExpanded, selectionMode, next.width),
                               rows, SetYOffset(content.lines, rows, y))
            /\ UNCHANGED <<setting, opts, planExpanded, selectionMode, dockOpen, overlay,
                           pendingGotoTop>>

OpeningView(width) == View(setting.session, DefaultTranscriptOptions, FALSE, FALSE, width)

(* installViewer: the viewer kept from the last opening is used again when *)
(* its width is right; else a new one is made and kept.                    *)
Reopen ==
    \E lay \in {layout, setting.layouts[1]} :
        LET v == OpeningView(lay.width)
            reused == kept.width = lay.width
            cache == IF reused THEN kept.cache ELSE {}
        IN  /\ "reopen" \in setting.keys
            /\ layout' = lay
            /\ shown' = Outcome(cache, v)
            /\ content' = Rendered(shown')
            /\ renderCache' = StoreRenderCache(cache, v)
            /\ kept' = [width |-> lay.width, cache |-> StoreRenderCache(cache, v), shared |-> TRUE]
            /\ opts' = DefaultTranscriptOptions
            /\ planExpanded' = FALSE /\ selectionMode' = FALSE /\ dockOpen' = FALSE
            /\ yOffset' = 0
            /\ search' = NoSearch /\ overlay' = NoOverlay /\ pendingGotoTop' = FALSE
            /\ UNCHANGED setting

-----------------------------------------------------------------------------
ViewerInit ==
    /\ setting \in Settings
    /\ layout = setting.layouts[1]
    /\ opts = DefaultTranscriptOptions
    /\ planExpanded = FALSE /\ selectionMode = FALSE /\ dockOpen = FALSE
    /\ shown = OpeningView(layout.width)
    /\ content = Rendered(shown)
    /\ yOffset = 0
    /\ renderCache = {OpeningView(layout.width)}
    /\ kept = [width |-> layout.width, cache |-> {OpeningView(layout.width)}, shared |-> TRUE]
    /\ search = NoSearch /\ overlay = NoOverlay /\ pendingGotoTop = FALSE

ViewerNext ==
    \/ \E key \in Toggles : ToggleOption(key)
    \/ TogglePlan \/ ToggleSelectionMode \/ ToggleDock
    \/ JumpToNotable \/ ScrollLines \/ GotoTop
    \/ EditSearch \/ (\E query \in Queries \cup {NoQuery} : EnterSearch(query)) \/ ClearSearch
    \/ JumpToMatch
    \/ (\E action \in Actions : StartActionMode(action)) \/ EndAction
    \/ ExecutePlanTarget \/ MoveInPicker
    \/ SetSize \/ Reopen

ViewerSpec == ViewerInit /\ [][ViewerNext]_viewerVars

-----------------------------------------------------------------------------
(* Properties.                                                             *)

ViewerTypeOK ==
    /\ setting \in Settings
    /\ opts \subseteq Toggles /\ {planExpanded, selectionMode, dockOpen} \subseteq BOOLEAN
    /\ renderCache \subseteq ViewsOf(setting) /\ shown \in ViewsOf(setting)
    /\ Cardinality(renderCache) \in 1 .. RenderCacheLimit
    /\ yOffset \in 0 .. MaxYOffset(content.lines, Rows)
    /\ overlay \in [action : Actions \cup {NoAction}, picking : BOOLEAN,
                    pickFor : Actions \cup {NoAction}, selected : Nat]

(* What is on screen is the rendering of the present toggles and width,    *)
(* whichever cache it came from, and the matches are those of that text,   *)
(* with a current one among them.  The plan picker offers plans that       *)
(* exist, and the dock leaves the transcript its rows.                     *)
ContentCurrent == content = Rendered(CurrentView)

MatchesCurrent ==
    /\ search.matches = CollectSearchOccurrences(content.lines, search.query)
    /\ search.matches # <<>> => search.current < Len(search.matches)

OverlaysFit ==
    /\ overlay.picking => /\ overlay.action = NoAction /\ overlay.pickFor \in Actions
                          /\ overlay.selected < AllPlans /\ AllPlans > 1
    /\ DockHeight(dockOpen, layout, selectionMode) > 0 =>
            /\ Rows >= DockMinViewportRows
            /\ Rows + ContextDockHeight + FramedChromeHeight = layout.height

ViewerTrue == ViewerTypeOK /\ ContentCurrent /\ MatchesCurrent /\ OverlaysFit

(* A toggle keeps the reader on the message on the top line, or on the     *)
(* next one shown; above the first message, with no search, nothing moves. *)
(* Only the end of the content may be in the way.  A search or a jump      *)
(* brings the current match on the screen.                                 *)
Reading == MessageAt(content.map, yOffset)
StaysOn(m) ==
    LET line == LineOf(content'.map, m)
    IN  line >= 0 => \/ MessageAt(content'.map, yOffset') = MessageAt(content'.map, line)
                     \/ yOffset' = MaxYOffset(content'.lines, Rows') /\ line >= yOffset'
Toggled == /\ <<opts, planExpanded>>' # <<opts, planExpanded>>
           /\ TogglePlan \/ \E key \in Toggles : ToggleOption(key)
Found == /\ search' # search /\ search'.matches # <<>>
         /\ JumpToMatch \/ \E q \in Queries : EnterSearch(q)

ReaderKept ==
    [][/\ Toggled => IF Reading # NoMessage THEN StaysOn(Reading)
                     ELSE search.query = NoQuery => yOffset' = SetYOffset(content'.lines, Rows', yOffset)
       /\ Found => search'.matches[search'.current + 1] \in yOffset' .. yOffset' + Rows' - 1]_viewerVars

(* Every line that says something is found by the line map to be its       *)
(* message's, whatever is hidden.                                          *)
LinesAttributed(rendering) ==
    \A l \in DOMAIN rendering.lines :
        LET line == rendering.lines[l]
        IN  line.words # Blank => MessageAt(rendering.map, l - 1) = line.msg

(* The Turn Ledger of what is shown: one divider for each Context Reset    *)
(* with something shown at or after it, between what precedes the reset    *)
(* and what follows; the header above a group's last step tells its        *)
(* prompt; and each step that grew has one tag, on a call or result of its *)
(* own messages.                                                           *)
Segments(items) == {i \in DOMAIN items : items[i].kind = "segment"}

DividersMarked(items, series) ==
    LET resets == SelectSeq(series.steps, LAMBDA s : s.reset)
        dividers == SelectSeq([i \in DOMAIN items |-> i], LAMBDA i : items[i].kind = "divider")
    IN  /\ Len(dividers) = Cardinality({r \in DOMAIN resets :
                                \E i \in Segments(items) : items[i].seg.msg >= resets[r].msg})
        /\ \A d \in DOMAIN dividers :
            /\ items[dividers[d]].annotation = <<resets[d].prompt - resets[d].delta, resets[d].prompt>>
            /\ \A i \in Segments(items) : (i < dividers[d]) <=> (items[i].seg.msg < resets[d].msg)

HeadersMarked(items, series) ==
    \A k \in DOMAIN series.steps :
        LET Above(j) == {i \in DOMAIN items : IsHeader(items[i]) /\ items[i].seg.msg <= series.steps[j].msg}
            header == items[Greatest(Above(k))]
            lastUnder == k = Len(series.steps) \/ Above(k + 1) # Above(k)
        IN  Above(k) # {} /\ lastUnder /\ header.role = "assistant" /\ ~header.seg.side
                => header.annotation # <<>> /\ header.annotation[2] = series.steps[k].prompt

GrowthTagged(items, series) ==
    \A k \in DOMAIN series.steps :
        LET own == {i \in Segments(items) :
                        /\ items[i].seg.kind \in {"call", "result"} /\ ~items[i].seg.side
                        /\ items[i].seg.msg \in series.steps[k].msg .. series.steps[k].next - 1}
            tagged == {i \in own : items[i].growth # <<>>}
            grown == /\ k < Len(series.steps) /\ ~series.steps[k + 1].reset
                     /\ series.steps[k + 1].prompt - series.steps[k].prompt >= MinGrowth(series)
        IN  /\ Cardinality(tagged) = IF grown /\ own # {} THEN 1 ELSE 0
            /\ \A i \in tagged :
                items[i].growth[1] = series.steps[k + 1].prompt - series.steps[k].prompt

(* Every step has a column of its own or shares one, the columns lie in    *)
(* the order of the steps, and none of the largest prompts is left out.    *)
ColumnsCoverSteps(series) ==
    \A width \in 1 .. 5 :
        LET prompts == [k \in DOMAIN series.steps |-> series.steps[k].prompt]
            n == Len(prompts)
            cells == NewContextDockColumns(prompts, width)
            Of(k) == LET s == Span(cells, n, width, k) IN s[1] .. s[1] + s[2] - 1
        IN  n > 0 =>
            /\ Len(cells) \in 1 .. width
            /\ UNION {Of(k) : k \in 0 .. n - 1} = 0 .. Len(cells) - 1
            /\ \A k \in 0 .. n - 1 : \A c \in Of(k) : k \in cells[c + 1].first .. cells[c + 1].last
            /\ Greatest({cells[c].tokens : c \in DOMAIN cells}) = series.steps[series.peak].prompt

(* The views these hold of, which is all that may be shown. *)
Marked ==
    Eager([i \in DOMAIN Sessions |->
        {v \in DOMAIN Renderings[i] :
            /\ LinesAttributed(Rendered(v))
            /\ "ledger" \in v.opts /\ ~v.selecting =>
                    /\ DividersMarked(Rendered(v).items, AllSeries[i])
                    /\ HeadersMarked(Rendered(v).items, AllSeries[i])
                    /\ GrowthTagged(Rendered(v).items, AllSeries[i])
            /\ ColumnsCoverSteps(AllSeries[i])}])

TranscriptMarked == shown \in Marked[setting.session]
=============================================================================
