----------------------------- MODULE BrowserProofs -----------------------------
(***************************************************************************)
(* Proofs about Browser, for any conversations, queries and filters, any   *)
(* size of the cache and any number of commands and messages in flight.    *)
(*                                                                         *)
(* The first part is about the operators of TranscriptPane and             *)
(* BrowserSearch: what each keeps of a browser model, and what it leaves   *)
(* alone.  The second is about the steps of Browser, which compose them,   *)
(* and the third about the chunks of the text search (DeepSearch).         *)
(***************************************************************************)
EXTENDS Browser, DeepSearch, TLAPS, SequenceTheorems, WellFoundedInduction

Places == Conversations \cup {None}
Caches == UNION {[D -> Contents] : D \in SUBSET Conversations}

Command ==
    [kind : {"list", "stats"}]
    \cup [kind : {"load"}, conversation : Conversations]
    \cup [kind : {"timer"}, revision : Nat, query : Queries]
    \cup [kind : {"search"}, revision : Nat, query : Queries, base : SUBSET Conversations,
          ctx : {"held", "cancelled", "forgotten"}]

Model ==
    [all : SUBSET Conversations, base : SUBSET Conversations, visible : SUBSET Conversations,
     cursor : Places, selected : Places, query : Queries \cup {NoQuery}, status : Statuses,
     revision : Nat, applied : Nat, editing : BOOLEAN, filter : Filters, filterOpen : BOOLEAN,
     mode : Modes, focus : {"list", "transcript"}, open : Places, loading : Places,
     pending : Places, help : BOOLEAN, busy : {"none", "search", "overlay"}, viewer : Places,
     shown : Contents, cache : Caches, order : Seq(Conversations), resync : BOOLEAN,
     cmds : SUBSET Command, ctx : {"kept", "cancelled", "forgotten"}]

LEMMA CacheTyped ==
  ASSUME NEW f PROVE f \in Caches <=> DOMAIN f \subseteq Conversations /\ f \in [DOMAIN f -> Contents]
BY DEF Caches

\* A set of naturals that is not empty has a least element.
LEMMA Least ==
  ASSUME NEW S \in SUBSET Nat, S # {}
  PROVE  Min(S) \in S /\ \A y \in S : Min(S) <= y
<1> DEFINE Less == OpToRel(<, Nat)
<1>a. \A x, y \in Nat : x < y => <<x, y>> \in Less
  BY DEF OpToRel
<1>b. IsWellFoundedOn(Less, Nat)
  BY NatLessThanWellFounded
<1> HIDE DEF Less
<1>1. PICK x \in S : \A y \in S : ~ (<<y, x>> \in Less)
  BY <1>b, WFMin
<1>2. \A y \in S : x <= y
  <2> TAKE y \in S
  <2>1. x \in Nat /\ y \in Nat /\ ~ (y < x)
    BY <1>1, <1>a
  <2>2. QED
    BY <2>1
<1>3. QED
  BY <1>2 DEF Min

\* The first item of a list that is not empty is in it.
LEMMA FirstIsListed ==
  ASSUME NEW list \in SUBSET Conversations, list # {}
  PROVE  First(list) \in list
<1>1. list \in SUBSET Nat
  BY PaneAssumption
<1>2. PICK c \in list : \A d \in list : c <= d
  BY <1>1, Least
<1>3. QED
  BY <1>2 DEF First

-----------------------------------------------------------------------------
(* What is kept of a model, and what it waits for.                          *)

Distinct(s) == \A i, j \in 1..Len(s) : s[i] = s[j] => i = j
Listed(s, c) == \E i \in 1..Len(s) : s[i] = c

CacheOK(n) ==
    /\ Len(n.order) <= CacheSize /\ Distinct(n.order)
    /\ \A c \in DOMAIN n.cache : Listed(n.order, c)
    /\ n.open # None => n.open \in DOMAIN n.cache /\ n.viewer = n.open
                        /\ n.shown = n.cache[n.open] /\ n.loading = None

Asking(n) ==
    /\ n.applied <= n.revision
    /\ n.query # NoQuery /\ n.applied = n.revision => n.visible \subseteq Answers[n.query]

QuestionOK(n) ==
    Asking(n) /\ (n.query = NoQuery => n.status = "idle" /\ n.visible = n.base)

ModelInv(n) == n \in Model /\ CacheOK(n) /\ QuestionOK(n)

\* What k waits for, n waits for as well, or k has issued the command.
LoadKept(n, k) == k.loading \in {None, n.loading} \/ LoadCommand(k.loading) \in k.cmds

SearchKept(n, k) ==
    k.status # "idle" =>
        \/ k.status = n.status /\ k.revision = n.revision /\ k.query = n.query
        \/ \E x \in k.cmds : /\ x.kind = IF k.status = "debouncing" THEN "timer" ELSE "search"
                             /\ MatchesQuestion(k, x)

PendingKept(n, k) ==
    k.pending = None \/ (k.pending = n.pending /\ (n.help => k.help))

\* The model has issued a timer or a search for its query.
Asks(n, kind) == \E x \in n.cmds : x.kind = kind /\ MatchesQuestion(n, x)

\* The question is the same, or it is asked anew, or there is none.
QuestionKept(n, k) ==
    \/ k.revision = n.revision /\ k.query = n.query
    \/ k.query = NoQuery
    \/ Asks(k, "timer")

Moves(n, k) ==
    /\ ModelInv(k)
    /\ n.cmds \subseteq k.cmds
    /\ LoadKept(n, k) /\ SearchKept(n, k) /\ PendingKept(n, k) /\ QuestionKept(n, k)

LEMMA MovesTransitive ==
  ASSUME NEW n \in Model, NEW k \in Model, NEW l, Moves(n, k), Moves(k, l)
  PROVE  Moves(n, l)
<1> USE DEF Moves, ModelInv
<1>1. n.cmds \subseteq l.cmds
  OBVIOUS
<1>2. LoadKept(n, l)
  BY DEF LoadKept
<1>3. SearchKept(n, l)
  BY DEF SearchKept, MatchesQuestion
<1>4. PendingKept(n, l)
  BY DEF PendingKept, Model
<1>5. QuestionKept(n, l)
  BY DEF QuestionKept, Asks, MatchesQuestion
<1>6. QED
  BY <1>1, <1>2, <1>3, <1>4, <1>5

-----------------------------------------------------------------------------
(* The pane leaves the list and its question alone.                         *)

SameList(n, k) ==
    /\ k.query = n.query /\ k.status = n.status /\ k.revision = n.revision
    /\ k.applied = n.applied /\ k.base = n.base /\ k.visible = n.visible
    /\ k.editing = n.editing /\ k.filterOpen = n.filterOpen

SamePane(n, k) ==
    /\ k.open = n.open /\ k.loading = n.loading /\ k.pending = n.pending
    /\ k.viewer = n.viewer /\ k.shown = n.shown /\ k.cache = n.cache /\ k.order = n.order
    /\ k.help = n.help

PaneStep(n, k) ==
    /\ k \in Model /\ SameList(n, k) /\ n.cmds \subseteq k.cmds
    /\ CacheOK(n) => CacheOK(k)
    /\ LoadKept(n, k)
    /\ k.pending = None \/ (k.pending = n.pending /\ k.help = n.help)

LEMMA CacheOfSamePane ==
  ASSUME NEW n, NEW k, SamePane(n, k), CacheOK(n)
  PROVE  CacheOK(k)
BY DEF SamePane, CacheOK

LEMMA UpdateSelectedModel ==
  ASSUME NEW n \in Model
  PROVE  /\ UpdateSelected(n) \in Model /\ SameList(n, UpdateSelected(n))
         /\ SamePane(n, UpdateSelected(n)) /\ UpdateSelected(n).cmds = n.cmds
         /\ UpdateSelected(n).cursor = n.cursor /\ UpdateSelected(n).mode = n.mode
         /\ UpdateSelected(n).focus = n.focus
<1>1. UpdateSelected(n) = [n EXCEPT !.selected = n.cursor]
  BY DEF UpdateSelected
<1>2. QED
  BY <1>1 DEF Model, SameList, SamePane

LEMMA SelectVisibleModel ==
  ASSUME NEW n \in Model, NEW c \in Places
  PROVE  /\ SelectVisible(n, c) \in Model /\ SameList(n, SelectVisible(n, c))
         /\ SamePane(n, SelectVisible(n, c)) /\ SelectVisible(n, c).cmds = n.cmds
         /\ SelectVisible(n, c).ctx = n.ctx
<1>1. SelectVisible(n, c) = [n EXCEPT !.cursor = c, !.selected = c]
  BY DEF SelectVisible, UpdateSelected, Model
<1>2. SelectVisible(n, c) \in Model
  BY <1>1, ZenonT(100) DEF Model
<1>3. QED
  BY <1>1, <1>2 DEF Model, SameList, SamePane

\* The new list is shown; the pane is not touched.
LEMMA SetSearchItemsModel ==
  ASSUME NEW n \in Model, NEW list \in SUBSET Conversations
  PROVE  LET k == SetSearchItems(n, list) IN
         /\ k \in Model /\ SamePane(n, k) /\ k.cmds = n.cmds
         /\ k.query = n.query /\ k.status = n.status /\ k.revision = n.revision
         /\ k.applied = n.applied /\ k.base = n.base /\ k.visible = list
<1> DEFINE v == IF list = {} THEN None ELSE n.cursor
           l == [n EXCEPT !.visible = list, !.cursor = v]
<1>0. v \in Places
  BY DEF Model, Places
<1> HIDE DEF v
<1>a. l \in Model
  BY <1>0 DEF Model
<1>1. /\ l \in Model /\ SamePane(n, l) /\ l.cmds = n.cmds
      /\ l.query = n.query /\ l.status = n.status /\ l.revision = n.revision
      /\ l.applied = n.applied /\ l.base = n.base /\ l.visible = list
  BY <1>a DEF Model, SamePane
<1>2. SetSearchItems(n, list) = RestoreSelection(l)
  BY DEF SetSearchItems, v
<1> HIDE DEF l
<1>3. CASE list = {}
  BY <1>1, <1>2, <1>3 DEF RestoreSelection
<1>4. CASE list # {}
  <2> DEFINE c == IF l.selected \in l.visible THEN l.selected ELSE First(l.visible)
  <2>1. c \in Places
    BY <1>1, <1>4, FirstIsListed DEF Places
  <2>2. RestoreSelection(l) = SelectVisible(l, c)
    BY <1>1, <1>4 DEF RestoreSelection
  <2> HIDE DEF c
  <2>3. QED
    BY <1>1, <1>2, <2>1, <2>2, SelectVisibleModel DEF SamePane, SameList
<1>5. QED
  BY <1>3, <1>4

-----------------------------------------------------------------------------
(* The order of eviction *)

LEMMA AppendKeepsDistinct ==
  ASSUME NEW S, NEW s \in Seq(S), NEW c \in S, Distinct(s), ~Listed(s, c)
  PROVE  /\ Append(s, c) \in Seq(S) /\ Len(Append(s, c)) = Len(s) + 1
         /\ Distinct(Append(s, c))
         /\ \A d : Listed(Append(s, c), d) <=> d = c \/ Listed(s, d)
<1>1. /\ Append(s, c) \in Seq(S) /\ Len(Append(s, c)) = Len(s) + 1
      /\ \A i \in 1..Len(s) : Append(s, c)[i] = s[i]
      /\ Append(s, c)[Len(s) + 1] = c
      /\ Len(s) \in Nat
  OBVIOUS
<1> DEFINE t == Append(s, c)
<1> HIDE DEF t
<1>2. \A i \in 1..Len(t) : i \in 1..Len(s) \/ i = Len(s) + 1
  BY <1>1 DEF t
<1>3. Distinct(t)
  BY <1>1, <1>2 DEF Distinct, Listed, t
<1>4. ASSUME NEW d PROVE Listed(t, d) <=> d = c \/ Listed(s, d)
  BY <1>1, <1>2 DEF Listed, t
<1>5. QED
  BY <1>1, <1>3, <1>4 DEF t

LEMMA TailKeepsDistinct ==
  ASSUME NEW S, NEW s \in Seq(S), s # <<>>, Distinct(s)
  PROVE  /\ Tail(s) \in Seq(S) /\ Len(Tail(s)) = Len(s) - 1 /\ Distinct(Tail(s))
         /\ \A d : Listed(Tail(s), d) <=> d # Head(s) /\ Listed(s, d)
<1>1. /\ Tail(s) \in Seq(S) /\ Len(Tail(s)) = Len(s) - 1 /\ Head(s) = s[1]
      /\ \A i \in 1..Len(Tail(s)) : Tail(s)[i] = s[i + 1]
      /\ Len(s) \in Nat /\ Len(s) >= 1
  OBVIOUS
<1> DEFINE t == Tail(s)
<1> HIDE DEF t
<1>2. \A i \in 1..Len(t) : i + 1 \in 1..Len(s) /\ i + 1 # 1
  BY <1>1 DEF t
<1>3. \A j \in 1..Len(s) : j = 1 \/ (j - 1 \in 1..Len(t) /\ (j - 1) + 1 = j)
  BY <1>1 DEF t
<1>4. Distinct(t)
  <2> SUFFICES ASSUME NEW i \in 1..Len(t), NEW j \in 1..Len(t), t[i] = t[j] PROVE i = j
    BY DEF Distinct
  <2>1. i + 1 = j + 1
    BY <1>1, <1>2 DEF Distinct, t
  <2>2. QED
    BY <2>1, <1>1 DEF t
<1>5. ASSUME NEW d PROVE Listed(t, d) <=> d # Head(s) /\ Listed(s, d)
  <2>1. ASSUME Listed(t, d) PROVE d # Head(s) /\ Listed(s, d)
    BY <2>1, <1>1, <1>2 DEF Listed, Distinct, t
  <2>2. ASSUME d # Head(s), Listed(s, d) PROVE Listed(t, d)
    BY <2>2, <1>1, <1>3 DEF Listed, t
  <2>3. QED
    BY <2>1, <2>2
<1>6. QED
  BY <1>1, <1>4, <1>5 DEF t

-----------------------------------------------------------------------------
(* Opening and closing transcripts *)

\* All of a model that the caches are about, with c just opened and perhaps
\* not yet in the order of eviction.
JustOpened(n, c) ==
    /\ n \in Model /\ Len(n.order) <= CacheSize /\ Distinct(n.order)
    /\ \A d \in DOMAIN n.cache : d = c \/ Listed(n.order, d)
    /\ n.open = c /\ c \in DOMAIN n.cache /\ n.viewer = c
    /\ n.shown = n.cache[c] /\ n.loading = None

SameButCaches(n, k) ==
    /\ SameList(n, k) /\ k.cmds = n.cmds /\ k.pending = n.pending /\ k.help = n.help
    /\ k.open = n.open /\ k.loading = n.loading /\ k.cursor = n.cursor /\ k.ctx = n.ctx
    /\ k.mode = n.mode

LEMMA AddToCacheKeepsOrder ==
  ASSUME NEW c \in Conversations, NEW n, JustOpened(n, c)
  PROVE  /\ AddToCache(n, c) \in Model /\ CacheOK(AddToCache(n, c))
         /\ SameButCaches(n, AddToCache(n, c))
<1> DEFINE k == AddToCache(n, c)
<1> USE DEF JustOpened
<1>0. n.order \in Seq(Conversations) /\ n.cache \in Caches /\ Len(n.order) \in Nat
  BY DEF Model
<1>a. InOrder(n, c) <=> Listed(n.order, c)
  BY DEF InOrder, Listed
<1>1. CASE InOrder(n, c)
  BY <1>1, <1>a DEF AddToCache, CacheOK, SameButCaches, SameList
<1>2. CASE ~InOrder(n, c) /\ Len(n.order) < CacheSize
  <2> DEFINE t == Append(n.order, c)
  <2>1. /\ t \in Seq(Conversations) /\ Len(t) = Len(n.order) + 1 /\ Distinct(t)
        /\ \A d : Listed(t, d) <=> d = c \/ Listed(n.order, d)
    BY <1>0, <1>2, <1>a, AppendKeepsDistinct
  <2> HIDE DEF t
  <2>2. k = [n EXCEPT !.order = t]
    BY <1>2 DEF AddToCache, t
  <2> HIDE DEF k
  <2>3. k \in Model
    BY <2>1, <2>2, ZenonT(100) DEF Model
  <2>4. SameButCaches(n, k) /\ k.cache = n.cache /\ k.viewer = n.viewer /\ k.shown = n.shown /\ k.order = t
    BY <2>2 DEF Model, SameButCaches, SameList
  <2>5. Len(t) <= CacheSize
    BY <1>0, <1>2, <2>1, PaneAssumption
  <2>6. CacheOK(k)
    BY <2>1, <2>4, <2>5 DEF CacheOK, SameButCaches
  <2>7. QED
    BY <2>3, <2>4, <2>6 DEF k
<1>3. CASE ~InOrder(n, c) /\ ~(Len(n.order) < CacheSize)
  <2> DEFINE r == Tail(n.order)
             t == Append(r, c)
             f == Restrict(n.cache, DOMAIN n.cache \ {Head(n.order)})
  <2>1. n.order # <<>>
    BY <1>0, <1>3, PaneAssumption
  <2>2. /\ r \in Seq(Conversations) /\ Len(r) = Len(n.order) - 1 /\ Distinct(r)
        /\ \A d : Listed(r, d) <=> d # Head(n.order) /\ Listed(n.order, d)
    BY <1>0, <2>1, TailKeepsDistinct
  <2> HIDE DEF r
  <2>3. /\ t \in Seq(Conversations) /\ Len(t) = Len(r) + 1 /\ Distinct(t)
        /\ \A d : Listed(t, d) <=> d = c \/ Listed(r, d)
    BY <1>3, <1>a, <2>2, AppendKeepsDistinct
  <2>4. Head(n.order) # c
    BY <1>0, <1>3, <2>1, PaneAssumption DEF InOrder
  <2>5. /\ f \in Caches /\ DOMAIN f = DOMAIN n.cache \ {Head(n.order)}
        /\ \A d \in DOMAIN f : f[d] = n.cache[d]
    <3>1. f = [d \in DOMAIN n.cache \ {Head(n.order)} |-> n.cache[d]]
      BY DEF Restrict
    <3>2. n.cache \in [DOMAIN n.cache -> Contents] /\ DOMAIN n.cache \subseteq Conversations
      BY <1>0, CacheTyped
    <3> HIDE DEF f
    <3>3. DOMAIN f \subseteq Conversations /\ f \in [DOMAIN f -> Contents]
      BY <3>1, <3>2
    <3>4. QED
      BY <3>1, <3>3, CacheTyped
  <2> HIDE DEF t, f
  <2>6. k = [n EXCEPT !.order = t, !.cache = f]
    BY <1>3 DEF AddToCache, t, f, r
  <2> HIDE DEF k
  <2>7. k \in Model
    BY <2>3, <2>5, <2>6, ZenonT(100) DEF Model
  <2>8. SameButCaches(n, k) /\ k.viewer = n.viewer /\ k.shown = n.shown /\ k.order = t /\ k.cache = f
    BY <2>6 DEF Model, SameButCaches, SameList
  <2>9. Len(t) <= CacheSize
    BY <1>0, <2>1, <2>2, <2>3, PaneAssumption
  <2>10. \A d \in DOMAIN f : Listed(t, d)
    BY <2>2, <2>3, <2>5
  <2>11. c \in DOMAIN f /\ f[c] = n.shown
    BY <2>4, <2>5
  <2>12. CacheOK(k)
    BY <2>3, <2>8, <2>9, <2>10, <2>11 DEF CacheOK, SameButCaches
  <2>13. QED
    BY <2>7, <2>8, <2>12 DEF k
<1>4. QED
  BY <1>1, <1>2, <1>3

LEMMA InstallViewerStep ==
  ASSUME NEW n \in Model, CacheOK(n), NEW c \in Conversations, NEW content \in Contents
  PROVE  LET k == InstallViewer(n, c, content) IN
         /\ PaneStep(n, k) /\ CacheOK(k) /\ k.ctx = n.ctx /\ k.cmds = n.cmds
         /\ k.open = c /\ k.cursor = n.cursor /\ k.pending = n.pending
         /\ n.mode # "closed" => k.mode = n.mode
<1> DEFINE f == [d \in DOMAIN n.cache \cup {c} |-> IF d = c THEN content ELSE n.cache[d]]
           mode == IF n.mode = "closed" THEN "split" ELSE n.mode
           focus == IF n.mode = "fullscreen" THEN "transcript" ELSE n.focus
           a == [n EXCEPT !.open = c, !.loading = None, !.cache = f, !.mode = mode, !.viewer = c,
                          !.shown = content, !.busy = "none", !.focus = focus]
           k == InstallViewer(n, c, content)
<1>1. k = AddToCache(a, c)
  BY DEF InstallViewer
<1>2. mode \in Modes /\ focus \in {"list", "transcript"}
  BY DEF Model, Modes
<1>3. /\ f \in Caches /\ DOMAIN f = DOMAIN n.cache \cup {c} /\ f[c] = content
  <2>1. n.cache \in Caches
    BY DEF Model
  <2>2. n.cache \in [DOMAIN n.cache -> Contents] /\ DOMAIN n.cache \subseteq Conversations
    BY <2>1, CacheTyped
  <2>3. DOMAIN f \subseteq Conversations /\ f \in [DOMAIN f -> Contents]
    BY <2>2
  <2>4. QED
    BY <2>3, CacheTyped
<1> HIDE DEF f, mode, focus, k
<1>4. a \in Model
  <2> DEFINE b == [n EXCEPT !.open = c, !.loading = None, !.cache = f, !.mode = mode]
  <2>1. b \in Model
    BY <1>2, <1>3 DEF Model, Places
  <2>2. a = [b EXCEPT !.viewer = c, !.shown = content, !.busy = "none", !.focus = focus]
    OBVIOUS
  <2> HIDE DEF a, b
  <2>3. QED
    BY <1>2, <2>1, <2>2, ZenonT(100) DEF Model, Places
<1>5. /\ SameList(n, a) /\ a.cmds = n.cmds /\ a.pending = n.pending /\ a.help = n.help
      /\ a.cursor = n.cursor /\ a.ctx = n.ctx /\ a.order = n.order
      /\ a.open = c /\ a.loading = None /\ a.viewer = c /\ a.shown = content /\ a.cache = f
      /\ a.mode = mode
  BY DEF Model, SameList
<1> HIDE DEF a
<1>6. JustOpened(a, c)
  BY <1>3, <1>4, <1>5 DEF JustOpened, CacheOK
<1>7. k \in Model /\ CacheOK(k) /\ SameButCaches(a, k)
  BY <1>1, <1>6, AddToCacheKeepsOrder
<1>8. QED
  BY <1>5, <1>7 DEF PaneStep, SameButCaches, SameList, LoadKept, k, mode

\* The conversation asked for is open or announced.
LEMMA OpenTranscriptStep ==
  ASSUME NEW n \in Model, CacheOK(n), NEW c \in Conversations
  PROVE  LET k == OpenTranscript(n, c) IN
         /\ PaneStep(n, k) /\ CacheOK(k) /\ k.ctx = n.ctx /\ k.cursor = n.cursor
         /\ k.pending = n.pending /\ c \in {k.open, k.loading}
<1>1. CASE c \in DOMAIN n.cache
  <2>1. n.cache \in Caches
    BY DEF Model
  <2>2. n.cache[c] \in Contents
    BY <1>1, <2>1, CacheTyped
  <2>3. QED
    BY <1>1, <2>2, InstallViewerStep DEF OpenTranscript
<1>2. CASE c \notin DOMAIN n.cache
  <2> DEFINE cmds == n.cmds \cup {LoadCommand(c)}
             k == [n EXCEPT !.open = None, !.loading = c, !.cmds = cmds]
  <2>1. cmds \in SUBSET Command
    BY DEF Model, Command, LoadCommand
  <2> HIDE DEF cmds
  <2>2. k \in Model
    BY <2>1 DEF Model, Places
  <2>3. /\ SameList(n, k) /\ k.pending = n.pending /\ k.help = n.help /\ k.cursor = n.cursor
        /\ k.ctx = n.ctx /\ k.order = n.order /\ k.cache = n.cache
        /\ k.open = None /\ k.loading = c /\ k.cmds = cmds
    BY DEF Model, SameList
  <2>4. OpenTranscript(n, c) = k
    BY <1>2 DEF OpenTranscript, cmds
  <2> HIDE DEF k
  <2>5. CacheOK(k)
    BY <2>3 DEF CacheOK
  <2>6. QED
    BY <2>2, <2>3, <2>4, <2>5 DEF PaneStep, LoadKept, cmds
<1>3. QED
  BY <1>1, <1>2

LEMMA CloseTranscriptStep ==
  ASSUME NEW n \in Model
  PROVE  PaneStep(n, CloseTranscript(n)) /\ CloseTranscript(n).pending = None
         /\ CloseTranscript(n).ctx = n.ctx
<1> DEFINE k == CloseTranscript(n)
<1>1. k = [n EXCEPT !.mode = "closed", !.focus = "list", !.help = FALSE, !.loading = None,
                    !.open = None, !.pending = None]
  BY DEF CloseTranscript
<1> HIDE DEF k
<1>2. k \in Model
  BY <1>1, ZenonT(100) DEF Model, Places, Modes
<1>3. /\ SameList(n, k) /\ k.cmds = n.cmds /\ k.ctx = n.ctx /\ k.order = n.order
      /\ k.cache = n.cache /\ k.open = None /\ k.loading = None /\ k.pending = None
      /\ k.help = FALSE
  BY <1>1 DEF Model, SameList
<1>4. QED
  BY <1>2, <1>3 DEF PaneStep, LoadKept, CacheOK, k

LEMMA PaneStepTransitive ==
  ASSUME NEW n \in Model, NEW k, NEW l, PaneStep(n, k), PaneStep(k, l)
  PROVE  PaneStep(n, l)
<1> USE DEF PaneStep, SameList
<1>1. LoadKept(n, l)
  BY DEF LoadKept
<1>2. n.cmds \subseteq l.cmds
  OBVIOUS
<1>3. QED
  BY <1>1, <1>2 DEF Model

\* The pane shows or loads what is under the cursor.
Follows(n) ==
    n.mode = "split" /\ ~n.help /\ n.cursor # None => n.cursor \in {n.open, n.loading}

LEMMA SyncTranscriptSelectionStep ==
  ASSUME NEW n \in Model, CacheOK(n)
  PROVE  LET k == SyncTranscriptSelection(n) IN
         PaneStep(n, k) /\ k.pending = n.pending /\ Follows(k) /\ k.ctx = n.ctx
<1>1. CASE n.mode # "split" \/ n.help \/ n.cursor \in {None, n.open, n.loading}
  BY <1>1 DEF SyncTranscriptSelection, PaneStep, SameList, LoadKept, Follows
<1>2. CASE ~(n.mode # "split" \/ n.help \/ n.cursor \in {None, n.open, n.loading})
  <2>1. n.cursor \in Conversations /\ SyncTranscriptSelection(n) = OpenTranscript(n, n.cursor)
    BY <1>2 DEF SyncTranscriptSelection, Model, Places
  <2>2. QED
    BY <2>1, OpenTranscriptStep DEF Follows
<1>3. QED
  BY <1>1, <1>2

\* With the help gone, nothing waits for a reload any more.
LEMMA ReloadStep ==
  ASSUME NEW n \in Model, CacheOK(n)
  PROVE  LET k == ReloadTranscriptAfterResync(n) IN
         PaneStep(n, k) /\ (n.help => k = n) /\ (~n.help => k.pending = None) /\ k.ctx = n.ctx
<1>1. CASE n.pending = None \/ n.help
  BY <1>1 DEF ReloadTranscriptAfterResync, PaneStep, SameList, LoadKept
<1>2. CASE ~(n.pending = None \/ n.help)
  <2> DEFINE a == [n EXCEPT !.pending = None]
  <2>1. a \in Model
    BY DEF Model, Places
  <2>2. /\ SameList(n, a) /\ a.cmds = n.cmds /\ a.pending = None /\ a.help = n.help /\ a.ctx = n.ctx
        /\ a.open = n.open /\ a.loading = n.loading /\ a.viewer = n.viewer /\ a.shown = n.shown
        /\ a.cache = n.cache /\ a.order = n.order /\ a.mode = n.mode
    BY DEF Model, SameList
  <2>3. PaneStep(n, a) /\ CacheOK(a)
    BY <2>1, <2>2 DEF PaneStep, LoadKept, CacheOK
  <2>4. ReloadTranscriptAfterResync(n) =
            IF ~Visible(n) THEN a
            ELSE IF n.pending \notin n.visible THEN CloseTranscript(a)
            ELSE OpenTranscript(SelectVisible(a, n.pending), n.pending)
    BY <1>2 DEF ReloadTranscriptAfterResync
  <2>5. n.pending \in Conversations
    BY <1>2 DEF Model, Places
  <2> HIDE DEF a
  <2>6. CASE ~Visible(n)
    BY <1>2, <2>2, <2>3, <2>4, <2>6
  <2>7. CASE Visible(n) /\ n.pending \notin n.visible
    BY <1>2, <2>1, <2>2, <2>3, <2>4, <2>7, CloseTranscriptStep, PaneStepTransitive
  <2>8. CASE Visible(n) /\ n.pending \in n.visible
    <3> DEFINE b == SelectVisible(a, n.pending)
    <3>1. /\ b \in Model /\ SameList(a, b) /\ SamePane(a, b) /\ b.cmds = a.cmds /\ b.ctx = a.ctx
      BY <2>1, <2>5, SelectVisibleModel DEF Places
    <3> HIDE DEF b
    <3>2. CacheOK(b)
      BY <2>3, <3>1, CacheOfSamePane
    <3>3. PaneStep(a, b) /\ b.pending = None
      BY <2>2, <3>1, <3>2 DEF PaneStep, SamePane, LoadKept
    <3>4. PaneStep(b, OpenTranscript(b, n.pending)) /\ OpenTranscript(b, n.pending).pending = None
          /\ OpenTranscript(b, n.pending).ctx = b.ctx
      BY <2>5, <3>1, <3>2, <3>3, OpenTranscriptStep
    <3>5. ReloadTranscriptAfterResync(n) = OpenTranscript(b, n.pending)
      BY <2>4, <2>8 DEF b
    <3>6. QED
      BY <1>2, <2>1, <2>2, <2>3, <3>1, <3>3, <3>4, <3>5, PaneStepTransitive
  <2>9. QED
    BY <2>6, <2>7, <2>8
<1>3. QED
  BY <1>1, <1>2

LEMMA PaneStepMoves ==
  ASSUME NEW n, NEW k, ModelInv(n), PaneStep(n, k)
  PROVE  Moves(n, k)
<1> USE DEF ModelInv, PaneStep, SameList
<1>1. ModelInv(k)
  BY DEF QuestionOK, Asking
<1>2. SearchKept(n, k) /\ PendingKept(n, k) /\ QuestionKept(n, k)
  BY DEF SearchKept, PendingKept, QuestionKept
<1>3. QED
  BY <1>1, <1>2 DEF Moves

\* What Browser.Update does after the handler.
ListFollows(n) ==
    n.mode = "split" /\ n.focus = "list" /\ ~n.help /\ ~n.editing /\ ~n.filterOpen /\ n.cursor # None
        => n.cursor \in {n.open, n.loading}

LEMMA UpdateChildModelsStep ==
  ASSUME NEW n, ModelInv(n), NEW isKey
  PROVE  LET k == UpdateChildModels(n, isKey) IN
         Moves(n, k) /\ ListFollows(k) /\ k.ctx = n.ctx /\ k.revision = n.revision
         /\ k.query = n.query /\ k.status = n.status /\ k.pending = n.pending
<1> DEFINE a == UpdateSelected(n)
<1>0. n \in Model /\ CacheOK(n)
  BY DEF ModelInv
<1>1. CASE ShouldUpdateList(n, isKey)
  <2>1. /\ a \in Model /\ SameList(n, a) /\ SamePane(n, a) /\ a.cmds = n.cmds /\ a.ctx = n.ctx
    BY <1>0, UpdateSelectedModel, ZenonT(100) DEF UpdateSelected, Model
  <2>2. UpdateChildModels(n, isKey) = SyncTranscriptSelection(a)
    BY <1>1 DEF UpdateChildModels
  <2> HIDE DEF a
  <2>3. CacheOK(a) /\ PaneStep(n, a)
    BY <1>0, <2>1, CacheOfSamePane DEF PaneStep, SamePane, LoadKept
  <2> DEFINE k == SyncTranscriptSelection(a)
  <2>4. PaneStep(a, k) /\ k.pending = a.pending /\ Follows(k) /\ k.ctx = a.ctx
    BY <2>1, <2>3, SyncTranscriptSelectionStep
  <2> HIDE DEF k
  <2>5. PaneStep(n, k)
    BY <1>0, <2>3, <2>4, PaneStepTransitive
  <2>6. ListFollows(k)
    BY <2>4 DEF ListFollows, Follows
  <2>7. QED
    BY <2>1, <2>2, <2>4, <2>5, <2>6, PaneStepMoves DEF PaneStep, SameList, SamePane, k
<1>2. CASE ~ShouldUpdateList(n, isKey)
  <2>1. ListFollows(n)
    BY <1>0, <1>2 DEF ListFollows, ShouldUpdateList, Model
  <2>2. PaneStep(n, n)
    BY <1>0 DEF PaneStep, SameList, LoadKept
  <2>3. QED
    BY <1>2, <2>1, <2>2, PaneStepMoves DEF UpdateChildModels
<1>3. QED
  BY <1>1, <1>2

-----------------------------------------------------------------------------
(* The search of the list *)

\* A handler of the list: the pane is left alone, and the search it announces
\* has been issued.
ListStep(n, k) ==
    /\ ModelInv(k) /\ SamePane(n, k) /\ n.cmds \subseteq k.cmds
    /\ k.revision = n.revision /\ k.query = n.query
    /\ k.status # "idle" =>
         \E x \in k.cmds : /\ x.kind = IF k.status = "debouncing" THEN "timer" ELSE "search"
                           /\ MatchesQuestion(k, x)

LEMMA ApplyFullListStep ==
  ASSUME NEW n \in Model, CacheOK(n), Asking(n), n.query = NoQuery
  PROVE  ListStep(n, ApplyFullConversationList(n)) /\ ApplyFullConversationList(n).status = "idle"
<1> DEFINE a == [n EXCEPT !.ctx = "cancelled", !.status = "idle", !.applied = n.revision]
           k == SetSearchItems(a, n.base)
<1>1. a \in Model
  BY ZenonT(100) DEF Model, Statuses
<1>2. /\ SamePane(n, a) /\ a.cmds = n.cmds /\ a.query = n.query /\ a.status = "idle"
      /\ a.revision = n.revision /\ a.applied = n.revision /\ a.base = n.base
  BY DEF Model, SamePane
<1>3. ApplyFullConversationList(n) = k
  BY DEF ApplyFullConversationList, CancelActiveDeepSearch, Model
<1> HIDE DEF a
<1>4. n.base \in SUBSET Conversations
  BY DEF Model
<1>5. /\ k \in Model /\ SamePane(a, k) /\ k.cmds = a.cmds
      /\ k.query = a.query /\ k.status = a.status /\ k.revision = a.revision
      /\ k.applied = a.applied /\ k.base = a.base /\ k.visible = n.base
  BY <1>1, <1>4, SetSearchItemsModel
<1> HIDE DEF k
<1>6. SamePane(n, k)
  BY <1>2, <1>5 DEF SamePane
<1>7. ModelInv(k)
  BY <1>2, <1>5, <1>6, CacheOfSamePane DEF ModelInv, QuestionOK, Asking, Model
<1>8. QED
  BY <1>2, <1>3, <1>5, <1>6, <1>7 DEF ListStep

LEMMA ScheduleDeepSearchStep ==
  ASSUME NEW n \in Model, CacheOK(n), Asking(n)
  PROVE  /\ ListStep(n, ScheduleDeepSearch(n))
         /\ n.query # NoQuery => Asks(ScheduleDeepSearch(n), "timer")
<1>1. CASE n.query = NoQuery
  BY <1>1, ApplyFullListStep DEF ScheduleDeepSearch
<1>2. CASE n.query # NoQuery
  <2> DEFINE cmds == n.cmds \cup {Timer(n)}
             k == [n EXCEPT !.ctx = "cancelled", !.status = "debouncing", !.cmds = cmds]
  <2>1. cmds \in SUBSET Command /\ Timer(n) \in cmds
    BY <1>2 DEF Model, Command, Timer
  <2>2. ScheduleDeepSearch(n) = k
    <3>1. CancelActiveDeepSearch(n).cmds = n.cmds
      BY DEF CancelActiveDeepSearch, Model
    <3>2. QED
      BY <1>2, <3>1 DEF ScheduleDeepSearch, CancelActiveDeepSearch
  <2> HIDE DEF cmds
  <2>3. k \in Model
    BY <2>1 DEF Model, Statuses
  <2>4. /\ SamePane(n, k) /\ k.cmds = cmds /\ k.query = n.query /\ k.status = "debouncing"
        /\ k.revision = n.revision /\ k.applied = n.applied /\ k.visible = n.visible
    BY DEF Model, SamePane
  <2> HIDE DEF k
  <2>5. ModelInv(k)
    BY <1>2, <2>3, <2>4, CacheOfSamePane DEF ModelInv, QuestionOK, Asking
  <2>6. Timer(n).kind = "timer" /\ MatchesQuestion(k, Timer(n))
    BY <2>4 DEF Timer, MatchesQuestion
  <2>7. QED
    BY <2>1, <2>2, <2>4, <2>5, <2>6 DEF ListStep, Asks, cmds
<1>3. QED
  BY <1>1, <1>2

LEMMA StartDeepSearchStep ==
  ASSUME NEW n \in Model, CacheOK(n), Asking(n)
  PROVE  /\ ListStep(n, StartDeepSearch(n)) /\ StartDeepSearch(n).status \in {"idle", "searching"}
         /\ n.query # NoQuery => Asks(StartDeepSearch(n), "search")
<1>1. CASE n.query = NoQuery
  BY <1>1, ApplyFullListStep DEF StartDeepSearch
<1>2. CASE n.query # NoQuery
  <2> DEFINE cmds == n.cmds \cup {SearchCommand(n)}
             k == [n EXCEPT !.ctx = "cancelled", !.status = "searching", !.cmds = cmds]
  <2>1. cmds \in SUBSET Command /\ SearchCommand(n) \in cmds
    BY <1>2 DEF Model, Command, SearchCommand
  <2>2. StartDeepSearch(n) = k
    <3>1. CancelActiveDeepSearch(n).cmds = n.cmds
      BY DEF CancelActiveDeepSearch, Model
    <3>2. QED
      BY <1>2, <3>1 DEF StartDeepSearch, CancelActiveDeepSearch
  <2> HIDE DEF cmds
  <2>3. k \in Model
    BY <2>1 DEF Model, Statuses
  <2>4. /\ SamePane(n, k) /\ k.cmds = cmds /\ k.query = n.query /\ k.status = "searching"
        /\ k.revision = n.revision /\ k.applied = n.applied /\ k.visible = n.visible
    BY DEF Model, SamePane
  <2> HIDE DEF k
  <2>5. ModelInv(k)
    BY <1>2, <2>3, <2>4, CacheOfSamePane DEF ModelInv, QuestionOK, Asking
  <2>6. SearchCommand(n).kind = "search" /\ MatchesQuestion(k, SearchCommand(n))
    BY <2>4 DEF SearchCommand, MatchesQuestion
  <2>7. QED
    BY <2>1, <2>2, <2>4, <2>5, <2>6 DEF ListStep, Asks, cmds
<1>3. QED
  BY <1>1, <1>2

LEMMA ListStepMoves ==
  ASSUME NEW n \in Model, NEW k, ListStep(n, k)
  PROVE  Moves(n, k)
<1> USE DEF ListStep, SamePane
<1>1. LoadKept(n, k) /\ SearchKept(n, k) /\ PendingKept(n, k) /\ QuestionKept(n, k)
  BY DEF LoadKept, SearchKept, PendingKept, QuestionKept
<1>2. QED
  BY <1>1 DEF Moves, Model

LEMMA SetSearchQueryMoves ==
  ASSUME NEW n, ModelInv(n), NEW query \in Queries \cup {NoQuery}
  PROVE  Moves(n, SetSearchQuery(n, query))
<1>1. CASE query = n.query
  BY <1>1 DEF SetSearchQuery, Moves, ModelInv, Model, LoadKept, SearchKept, PendingKept, QuestionKept
<1>2. CASE query # n.query
  <2> DEFINE next == n.revision + 1
             a == [n EXCEPT !.query = query, !.revision = next]
             k == SetSearchQuery(n, query)
  <2>0. next \in Nat /\ n \in Model
    BY DEF ModelInv, Model
  <2> HIDE DEF next
  <2>1. a \in Model
    BY <2>0 DEF Model
  <2>2. /\ SamePane(n, a) /\ a.cmds = n.cmds /\ a.revision = n.revision + 1
        /\ a.applied = n.applied /\ n.revision \in Nat
    BY <2>0 DEF Model, SamePane, next
  <2>3. k = ScheduleDeepSearch(a)
    BY <1>2 DEF SetSearchQuery, next
  <2> HIDE DEF a, k
  <2>4. CacheOK(a)
    BY <2>2, CacheOfSamePane DEF ModelInv
  <2>5. Asking(a)
    <3>1. a.applied \in Nat /\ n.revision \in Nat /\ a.applied <= n.revision
      BY <2>2 DEF ModelInv, Model, QuestionOK, Asking
    <3>2. QED
      BY <2>2, <3>1 DEF Asking
  <2>6. ListStep(a, k) /\ (a.query # NoQuery => Asks(k, "timer"))
    BY <2>1, <2>3, <2>4, <2>5, ScheduleDeepSearchStep
  <2>7. LoadKept(n, k) /\ SearchKept(n, k)
    BY <2>2, <2>6 DEF ListStep, SamePane, LoadKept, SearchKept
  <2>8. PendingKept(n, k) /\ QuestionKept(n, k)
    BY <2>2, <2>6 DEF ListStep, SamePane, PendingKept, QuestionKept
  <2>9. QED
    BY <2>2, <2>6, <2>7, <2>8 DEF Moves, ListStep, k
<1>3. QED
  BY <1>1, <1>2

\* Only the flags of the keyboard differ, and the help stays if it is open.
Flags(n, k) ==
    /\ k \in Model /\ SamePane(n, [k EXCEPT !.help = n.help])
    /\ k.query = n.query /\ k.status = n.status /\ k.revision = n.revision
    /\ k.applied = n.applied /\ k.base = n.base /\ k.visible = n.visible
    /\ n.help => k.help
    /\ n.cmds \subseteq k.cmds

LEMMA FlagsMove ==
  ASSUME NEW n, ModelInv(n), NEW k, Flags(n, k)
  PROVE  Moves(n, k)
<1>1. /\ k.open = n.open /\ k.loading = n.loading /\ k.pending = n.pending
      /\ k.viewer = n.viewer /\ k.shown = n.shown /\ k.cache = n.cache /\ k.order = n.order
  BY DEF Flags, SamePane, Model
<1>2. ModelInv(k)
  BY <1>1 DEF Flags, ModelInv, CacheOK, QuestionOK, Asking
<1>3. LoadKept(n, k) /\ SearchKept(n, k) /\ PendingKept(n, k) /\ QuestionKept(n, k)
  BY <1>1 DEF Flags, LoadKept, SearchKept, PendingKept, QuestionKept
<1>4. QED
  BY <1>2, <1>3 DEF Flags, Moves, ModelInv, Model

LEMMA ClearSearchMoves ==
  ASSUME NEW n, ModelInv(n)
  PROVE  Moves(n, ClearSearch(n))
<1> DEFINE a == [n EXCEPT !.editing = FALSE]
<1>1. Flags(n, a)
  BY DEF Flags, ModelInv, Model, SamePane
<1>2. Moves(n, a)
  BY <1>1, FlagsMove
<1>3. ClearSearch(n) = SetSearchQuery(a, NoQuery)
  BY DEF ClearSearch
<1> HIDE DEF a
<1>4. QED
  BY <1>2, <1>3, SetSearchQueryMoves, MovesTransitive DEF Moves, ModelInv

LEMMA SetFilterMoves ==
  ASSUME NEW n, ModelInv(n), NEW f \in Filters
  PROVE  Moves(n, SetFilter(n, f))
<1> DEFINE b == (n.all \ Subagents) \cap Passes[f]
           a == [n EXCEPT !.filter = f, !.base = b]
<1>1. b \in SUBSET Conversations
  BY DEF ModelInv, Model
<1>2. SetFilter(n, f) = ScheduleDeepSearch(a)
  BY DEF SetFilter, ApplyStructuredFilters, ModelInv, Model
<1> HIDE DEF b
<1>3. a \in Model
  BY <1>1 DEF ModelInv, Model
<1>4. /\ SamePane(n, a) /\ a.cmds = n.cmds /\ a.revision = n.revision /\ a.query = n.query
      /\ a.applied = n.applied /\ a.visible = n.visible
  BY DEF ModelInv, Model, SamePane
<1> HIDE DEF a
<1>5. CacheOK(a) /\ Asking(a)
  BY <1>4, CacheOfSamePane DEF ModelInv, QuestionOK, Asking
<1>6. Moves(a, SetFilter(n, f))
  BY <1>2, <1>3, <1>5, ScheduleDeepSearchStep, ListStepMoves
<1>7. SearchKept(n, SetFilter(n, f))
  BY <1>2, <1>3, <1>5, ScheduleDeepSearchStep DEF ListStep, SearchKept
<1>8. QED
  BY <1>4, <1>6, <1>7 DEF Moves, LoadKept, PendingKept, QuestionKept, SamePane

-----------------------------------------------------------------------------
(* Messages *)

Message ==
    Command
    \cup [kind : {"session"}, conversation : Conversations]
    \cup [kind : {"loaded", "opened"}, conversation : Conversations, content : Contents]
    \cup [kind : {"listed"}, conversations : SUBSET Conversations]
    \cup [kind : {"notice"}]
    \cup [kind : {"answer"}, revision : Nat, query : Queries, failed : BOOLEAN,
          found : SUBSET Conversations]

\* An answer answers its own query.
MessageOK(x) == x \in Message /\ (x.kind = "answer" => x.found \subseteq Answers[x.query])

LEMMA DebounceMoves ==
  ASSUME NEW n, ModelInv(n), NEW msg, msg.query \in Queries
  PROVE  LET k == ApplyDeepSearchDebounce(n, msg) IN
         /\ Moves(n, k)
         /\ MatchesQuestion(k, msg) => k.status # "debouncing" /\ Asks(k, "search")
<1>1. CASE MatchesQuestion(n, msg)
  <2>1. n.query # NoQuery
    BY <1>1, SearchAssumption DEF MatchesQuestion
  <2>2. QED
    BY <1>1, <2>1, StartDeepSearchStep, ListStepMoves DEF ApplyDeepSearchDebounce, ModelInv, QuestionOK
<1>2. CASE ~MatchesQuestion(n, msg)
  BY <1>2 DEF ApplyDeepSearchDebounce, Moves, ModelInv, Model, LoadKept, SearchKept, PendingKept,
             QuestionKept
<1>3. QED
  BY <1>1, <1>2

\* An answer in flight answers its query; only the one asked last is shown.
LEMMA DeepSearchResultMoves ==
  ASSUME NEW n, ModelInv(n), NEW msg, MessageOK(msg), msg.kind = "answer"
  PROVE  LET k == ApplyDeepSearchResult(n, msg) IN
         /\ Moves(n, k)
         /\ MatchesQuestion(k, msg) => /\ k.status = "idle"
                                       /\ msg.failed \/ k.pending = None \/ k.help
<1>0. /\ msg.revision \in Nat /\ msg.query \in Queries /\ msg.found \in SUBSET Conversations
      /\ msg.found \subseteq Answers[msg.query] /\ msg.query # NoQuery
  BY SearchAssumption DEF MessageOK, Message, Command
<1>1. CASE ~MatchesQuestion(n, msg)
  BY <1>1 DEF ApplyDeepSearchResult, Moves, ModelInv, Model, LoadKept, SearchKept, PendingKept,
             QuestionKept
<1>2. CASE MatchesQuestion(n, msg) /\ msg.failed
  <2> DEFINE k == [n EXCEPT !.status = "idle", !.ctx = "forgotten"]
  <2>1. k \in Model
    BY DEF ModelInv, Model, Statuses
  <2>2. /\ SamePane(n, k) /\ k.cmds = n.cmds /\ k.query = n.query /\ k.status = "idle"
        /\ k.revision = n.revision /\ k.applied = n.applied /\ k.visible = n.visible
    BY DEF ModelInv, Model, SamePane
  <2>3. ApplyDeepSearchResult(n, msg) = k
    BY <1>2 DEF ApplyDeepSearchResult
  <2> HIDE DEF k
  <2>4. ListStep(n, k)
    <3>1. ModelInv(k)
      BY <1>0, <1>2, <2>1, <2>2, CacheOfSamePane DEF ModelInv, QuestionOK, Asking, MatchesQuestion
    <3>2. QED
      BY <2>2, <3>1 DEF ListStep
  <2>5. QED
    BY <1>2, <2>2, <2>3, <2>4, ListStepMoves DEF ModelInv
<1>3. CASE MatchesQuestion(n, msg) /\ ~msg.failed
  <2> DEFINE a == [n EXCEPT !.status = "idle", !.ctx = "forgotten", !.applied = msg.revision]
             b == SetSearchItems(a, msg.found)
             c == ReloadTranscriptAfterResync(b)
  <2>1. a \in Model
    BY <1>0 DEF ModelInv, Model, Statuses
  <2>2. /\ SamePane(n, a) /\ a.cmds = n.cmds /\ a.query = n.query /\ a.status = "idle"
        /\ a.revision = n.revision /\ a.applied = n.revision
    BY <1>3 DEF ModelInv, Model, SamePane, MatchesQuestion
  <2> HIDE DEF a
  <2>3. /\ b \in Model /\ SamePane(a, b) /\ b.cmds = a.cmds
        /\ b.query = a.query /\ b.status = a.status /\ b.revision = a.revision
        /\ b.applied = a.applied /\ b.visible = msg.found
    BY <1>0, <2>1, SetSearchItemsModel
  <2> HIDE DEF b
  <2>4. SamePane(n, b)
    BY <2>2, <2>3 DEF SamePane
  <2>5. ModelInv(b)
    <3>1. n.revision \in Nat /\ n.query = msg.query
      BY <1>3 DEF ModelInv, Model, QuestionOK, Asking, MatchesQuestion
    <3>2. QED
      BY <1>0, <2>2, <2>3, <2>4, <3>1, CacheOfSamePane DEF ModelInv, QuestionOK, Asking
  <2>6. Moves(n, b) /\ b.status = "idle"
    <3>1. ListStep(n, b)
      BY <2>2, <2>3, <2>4, <2>5 DEF ListStep
    <3>2. QED
      BY <2>2, <2>3, <3>1, ListStepMoves DEF ModelInv
  <2>7. PaneStep(b, c) /\ (c.pending = None \/ c.help)
    BY <2>5, ReloadStep DEF ModelInv
  <2> HIDE DEF c
  <2>8. Moves(b, c) /\ c.status = "idle"
    BY <2>5, <2>6, <2>7, PaneStepMoves DEF PaneStep, SameList
  <2>9. PaneStep(c, SyncTranscriptSelection(c))
    BY <2>8, SyncTranscriptSelectionStep DEF Moves, ModelInv
  <2>10. Moves(c, SyncTranscriptSelection(c)) /\ SyncTranscriptSelection(c).status = "idle"
         /\ (SyncTranscriptSelection(c).pending = None \/ SyncTranscriptSelection(c).help)
    BY <2>7, <2>8, <2>9, PaneStepMoves DEF PaneStep, SameList, Moves
  <2>11. Moves(n, c)
    BY <2>6, <2>8, MovesTransitive DEF Moves, ModelInv
  <2>12. Moves(n, SyncTranscriptSelection(c))
    BY <2>10, <2>11, MovesTransitive DEF Moves, ModelInv
  <2>13. ApplyDeepSearchResult(n, msg) = SyncTranscriptSelection(c)
    BY <1>3 DEF ApplyDeepSearchResult, a, b, c
  <2>14. QED
    BY <2>10, <2>12, <2>13
<1>4. QED
  BY <1>1, <1>2, <1>3

\* The reload after a resync happens with the list, unless the help is open
\* or a search for the query is announced first.
LEMMA ConversationsLoadedMoves ==
  ASSUME NEW n, ModelInv(n), NEW msg, msg.conversations \in SUBSET Conversations
  PROVE  LET k == ApplyConversationsLoaded(n, msg) IN
         Moves(n, k) /\ (k.pending = None \/ k.help \/ Asks(k, "timer"))
<1> DEFINE a == [n EXCEPT !.all = msg.conversations]
           b == ApplyStructuredFilters(a)
           c == [a EXCEPT !.base = b]
           k == ApplyConversationsLoaded(n, msg)
<1>1. a \in Model
  BY DEF ModelInv, Model
<1>2. b \in SUBSET Conversations
  BY <1>1 DEF ApplyStructuredFilters, Model
<1>3. /\ SamePane(n, a) /\ a.cmds = n.cmds /\ a.query = n.query
      /\ a.revision = n.revision /\ a.applied = n.applied /\ a.visible = n.visible
  BY DEF ModelInv, Model, SamePane
<1>k. k = IF n.query = NoQuery
          THEN SyncTranscriptSelection(ReloadTranscriptAfterResync(ApplyFullConversationList(c)))
          ELSE ScheduleDeepSearch(c)
  BY DEF ApplyConversationsLoaded
<1> HIDE DEF a, b, k
<1>4. c \in Model
  BY <1>1, <1>2 DEF Model
<1>5. /\ SamePane(n, c) /\ c.cmds = n.cmds /\ c.query = n.query
      /\ c.revision = n.revision /\ c.applied = n.applied /\ c.visible = n.visible
  BY <1>1, <1>3 DEF Model, SamePane
<1> HIDE DEF c
<1>6. CacheOK(c) /\ Asking(c)
  BY <1>5, CacheOfSamePane DEF ModelInv, QuestionOK, Asking
<1>7. CASE n.query = NoQuery
  <2> DEFINE d == ApplyFullConversationList(c)
             e == ReloadTranscriptAfterResync(d)
  <2>1. ListStep(c, d) /\ d.status = "idle"
    BY <1>4, <1>5, <1>6, <1>7, ApplyFullListStep
  <2> HIDE DEF d
  <2>2. PaneStep(d, e) /\ (~d.help => e.pending = None) /\ (d.help => e = d)
    BY <2>1, ReloadStep DEF ListStep, ModelInv
  <2> HIDE DEF e
  <2>3. Moves(d, e) /\ Moves(c, d)
    BY <1>4, <2>1, <2>2, PaneStepMoves, ListStepMoves DEF ListStep
  <2>4. Moves(c, e)
    BY <1>4, <2>3, MovesTransitive DEF Moves, ModelInv
  <2>5. PaneStep(e, k) /\ k.pending = e.pending
    BY <1>7, <1>k, <2>3, SyncTranscriptSelectionStep DEF Moves, ModelInv, d, e
  <2>6. Moves(c, k)
    BY <1>4, <2>3, <2>4, <2>5, PaneStepMoves, MovesTransitive DEF Moves, ModelInv
  <2>7. k.status = "idle"
    BY <2>1, <2>2, <2>5 DEF PaneStep, SameList
  <2>8. k.pending = None \/ k.help
    BY <2>2, <2>5 DEF PaneStep
  <2>9. Moves(n, k)
    BY <1>5, <2>6, <2>7 DEF Moves, LoadKept, SearchKept, PendingKept, QuestionKept, SamePane
  <2>10. QED
    BY <2>8, <2>9 DEF k
<1>8. CASE n.query # NoQuery
  <2>1. ListStep(c, k) /\ Asks(k, "timer")
    BY <1>4, <1>5, <1>6, <1>8, <1>k, ScheduleDeepSearchStep
  <2>2. LoadKept(n, k) /\ SearchKept(n, k) /\ PendingKept(n, k) /\ QuestionKept(n, k)
    BY <1>5, <2>1 DEF ListStep, LoadKept, SearchKept, PendingKept, QuestionKept, SamePane
  <2>3. QED
    BY <1>5, <2>1, <2>2 DEF Moves, ListStep, k
<1>9. QED
  BY <1>7, <1>8

LEMMA OpenViewerMoves ==
  ASSUME NEW n, ModelInv(n), NEW msg, msg.conversation \in Conversations, msg.content \in Contents
  PROVE  LET k == ApplyOpenViewer(n, msg) IN
         Moves(n, k) /\ k.loading # msg.conversation
<1>0. msg.conversation # None
  BY PaneAssumption DEF None
<1>1. CASE msg.conversation = n.loading
  <2>1. PaneStep(n, ApplyOpenViewer(n, msg)) /\ ApplyOpenViewer(n, msg).open = msg.conversation
        /\ CacheOK(ApplyOpenViewer(n, msg))
    BY <1>1, InstallViewerStep DEF ApplyOpenViewer, ModelInv
  <2>2. QED
    BY <1>0, <2>1, PaneStepMoves DEF CacheOK
<1>2. CASE msg.conversation # n.loading
  BY <1>2 DEF ApplyOpenViewer, Moves, ModelInv, Model, LoadKept, SearchKept, PendingKept, QuestionKept
<1>3. QED
  BY <1>1, <1>2

LEMMA OpenLoadedSessionMoves ==
  ASSUME NEW n, ModelInv(n), NEW msg, msg.conversation \in Conversations, msg.content \in Contents
  PROVE  LET k == OpenLoadedSession(n, msg) IN
         Moves(n, k) /\ k.mode = "fullscreen" /\ k.ctx = n.ctx /\ k.revision = n.revision
<1> DEFINE a == [n EXCEPT !.mode = "fullscreen", !.focus = "transcript"]
           k == OpenLoadedSession(n, msg)
<1>1. a \in Model
  BY DEF ModelInv, Model, Modes
<1>2. /\ SamePane(n, a) /\ SameList(n, a) /\ a.cmds = n.cmds /\ a.mode = "fullscreen" /\ a.ctx = n.ctx
  BY DEF ModelInv, Model, SamePane, SameList
<1>3. k = InstallViewer(a, msg.conversation, msg.content)
  BY DEF OpenLoadedSession
<1> HIDE DEF a
<1>4. CacheOK(a)
  BY <1>2, CacheOfSamePane DEF ModelInv
<1>5. PaneStep(a, k) /\ k.ctx = a.ctx /\ k.mode = "fullscreen"
  BY <1>1, <1>2, <1>3, <1>4, InstallViewerStep
<1>6. PaneStep(n, a)
  BY <1>1, <1>2, <1>4 DEF PaneStep, SamePane, LoadKept
<1>7. PaneStep(n, k)
  BY <1>5, <1>6, PaneStepTransitive DEF ModelInv
<1>8. Moves(n, k)
  BY <1>7, PaneStepMoves
<1>9. QED
  BY <1>2, <1>5, <1>7, <1>8 DEF PaneStep, SameList

\* A resync forgets what was open and cached; the list is asked for anew.
LEMMA PrepareForResyncReloadModel ==
  ASSUME NEW n, ModelInv(n), NEW cmds \in SUBSET Command
  PROVE  LET k == [PrepareForResyncReload(n) EXCEPT !.cmds = cmds] IN
         /\ ModelInv(k) /\ k.cmds = cmds /\ k.loading = None /\ k.ctx = n.ctx
         /\ k.query = n.query /\ k.status = n.status /\ k.revision = n.revision
<1> DEFINE v == VisibleTranscript(n)
           a == [n EXCEPT !.resync = FALSE, !.pending = v, !.open = None]
           k == [a EXCEPT !.loading = None, !.cache = NoSessions, !.cmds = cmds]
<1>1. v \in Places
  BY DEF VisibleTranscript, ModelInv, Model, Places
<1>2. NoSessions \in Caches /\ DOMAIN NoSessions = {}
  <2>1. DOMAIN NoSessions = {} /\ NoSessions \in [DOMAIN NoSessions -> Contents]
    BY DEF NoSessions
  <2>2. QED
    BY <2>1, CacheTyped
<1>3. [PrepareForResyncReload(n) EXCEPT !.cmds = cmds] = k
  BY DEF PrepareForResyncReload
<1> HIDE DEF v
<1>4. a \in Model
  BY <1>1, ZenonT(100) DEF ModelInv, Model, Places
<1>5. /\ a.ctx = n.ctx /\ a.query = n.query /\ a.status = n.status /\ a.revision = n.revision
      /\ a.applied = n.applied /\ a.base = n.base /\ a.visible = n.visible
      /\ a.order = n.order /\ a.open = None
  BY DEF ModelInv, Model
<1> HIDE DEF a
<1>6. k \in Model
  BY <1>2, <1>4 DEF Model, Places
<1>7. /\ k.ctx = n.ctx /\ k.query = n.query /\ k.status = n.status /\ k.revision = n.revision
      /\ k.applied = n.applied /\ k.base = n.base /\ k.visible = n.visible
      /\ k.order = n.order /\ k.open = None /\ k.loading = None /\ k.cache = NoSessions /\ k.cmds = cmds
  BY <1>4, <1>5 DEF Model
<1> HIDE DEF k
<1>8. ModelInv(k)
  BY <1>2, <1>6, <1>7 DEF ModelInv, CacheOK, QuestionOK, Asking
<1>9. QED
  BY <1>3, <1>7, <1>8

-----------------------------------------------------------------------------
(* The steps of the browser *)

FlightOK(bag) == IsABag(bag) /\ \A x \in BagToSet(bag) : MessageOK(x)

BrowserInv ==
    /\ ModelInv(m) /\ m.cmds = {} /\ m.ctx = "kept"
    /\ FlightOK(flight) /\ screen \in {"browser", "stats"}
    /\ incidents \in 0..MaxIncidents /\ store \in [Conversations -> Revisions]
    /\ SearchUnderWay /\ LoadUnderWay
    /\ PaneFollowsCursor

\* What a step may do to a reload that is pending (ReloadHappens).
ReloadKept ==
    Stranded' => Stranded \/ QueryCleared \/ SearchFailed \/ ListFailed \/ StatsTake

-----------------------------------------------------------------------------
(* Bags of messages *)

LEMMA UnionOfBags ==
  ASSUME NEW A, NEW B, IsABag(A), IsABag(B)
  PROVE  IsABag(A (+) B) /\ BagToSet(A (+) B) = BagToSet(A) \cup BagToSet(B)
BY DEF IsABag, BagToSet, (+)

LEMMA BagOfSet ==
  ASSUME NEW S
  PROVE  IsABag(SetToBag(S)) /\ BagToSet(SetToBag(S)) = S
BY DEF IsABag, BagToSet, SetToBag

LEMMA BagLess ==
  ASSUME NEW A, NEW B, IsABag(A), IsABag(B)
  PROVE  /\ IsABag(A (-) B) /\ BagToSet(A (-) B) \subseteq BagToSet(A)
         /\ \A x \in BagToSet(A) \ BagToSet(B) : x \in BagToSet(A (-) B)
BY DEF IsABag, BagToSet, (-)

LEMMA OneLess ==
  ASSUME NEW bag, FlightOK(bag), NEW x
  PROVE  /\ FlightOK(bag (-) SetToBag({x}))
         /\ \A y \in BagToSet(bag) : y = x \/ y \in BagToSet(bag (-) SetToBag({x}))
<1>1. IsABag(SetToBag({x})) /\ BagToSet(SetToBag({x})) = {x}
  BY BagOfSet
<1>2. QED
  BY <1>1, BagLess DEF FlightOK

\* The message that is still in flight once a context is cancelled or
\* forgotten: the search itself, or the search with that context.
Still(x, y) ==
    /\ y.kind = x.kind
    /\ x.kind = "search" => y.revision = x.revision /\ y.query = x.query
    /\ x.kind # "search" => y = x

LEMMA ReachKeeps ==
  ASSUME NEW bag, FlightOK(bag), NEW ctx \in {"kept", "cancelled", "forgotten"}
  PROVE  /\ FlightOK(Reach(bag, ctx))
         /\ \A x \in BagToSet(bag) : \E y \in BagToSet(Reach(bag, ctx)) : Still(x, y)
<1>1. CASE ctx = "kept"
  BY <1>1 DEF Reach, Still
<1>2. CASE ctx # "kept"
  <2> DEFINE gone == {x \in BagToSet(bag) : x.kind = "search" /\ x.ctx = "held"}
             new == {[x EXCEPT !.ctx = ctx] : x \in gone}
             rest == bag (-) SetToBag(gone)
  <2>1. Reach(bag, ctx) = rest (+) SetToBag(new)
    BY <1>2 DEF Reach
  <2>2. \A x \in gone :
          /\ MessageOK([x EXCEPT !.ctx = ctx])
          /\ Still(x, [x EXCEPT !.ctx = ctx])
    <3> SUFFICES ASSUME NEW x \in gone
                 PROVE  /\ MessageOK([x EXCEPT !.ctx = ctx])
                        /\ Still(x, [x EXCEPT !.ctx = ctx])
      OBVIOUS
    <3>1. x \in [kind : {"search"}, revision : Nat, query : Queries, base : SUBSET Conversations,
                 ctx : {"held", "cancelled", "forgotten"}]
      BY DEF FlightOK, MessageOK, Message, Command
    <3> DEFINE y == [x EXCEPT !.ctx = ctx]
    <3>2. y \in [kind : {"search"}, revision : Nat, query : Queries, base : SUBSET Conversations,
                 ctx : {"held", "cancelled", "forgotten"}]
      BY <1>2, <3>1
    <3>3. y.kind = "search" /\ y.revision = x.revision /\ y.query = x.query
      BY <3>1
    <3> HIDE DEF y
    <3>4. MessageOK(y) /\ Still(x, y)
      BY <3>1, <3>2, <3>3 DEF MessageOK, Message, Command, Still
    <3>5. QED
      BY <3>4 DEF y
  <2>3. \A x \in new : MessageOK(x)
    BY <2>2
  <2>4. \A x \in gone : \E y \in new : Still(x, y)
    BY <2>2
  <2> HIDE DEF gone, new
  <2>5. /\ IsABag(SetToBag(gone)) /\ BagToSet(SetToBag(gone)) = gone
        /\ IsABag(SetToBag(new)) /\ BagToSet(SetToBag(new)) = new
    BY BagOfSet
  <2>6. /\ IsABag(rest) /\ BagToSet(rest) \subseteq BagToSet(bag)
        /\ \A x \in BagToSet(bag) \ gone : x \in BagToSet(rest)
    BY <2>5, BagLess DEF FlightOK
  <2> HIDE DEF rest
  <2>7. IsABag(Reach(bag, ctx)) /\ BagToSet(Reach(bag, ctx)) = BagToSet(rest) \cup new
    BY <2>1, <2>5, <2>6, UnionOfBags
  <2>8. FlightOK(Reach(bag, ctx))
    BY <2>3, <2>6, <2>7 DEF FlightOK
  <2>9. \A x \in BagToSet(bag) : \E y \in BagToSet(Reach(bag, ctx)) : Still(x, y)
    BY <2>4, <2>6, <2>7 DEF Still
  <2>10. QED
    BY <2>8, <2>9
<1>3. QED
  BY <1>1, <1>2

\* After an update the model has issued its commands, and no message is gone.
LEMMA BecomesKeeps ==
  ASSUME NEW k, ModelInv(k), NEW rest, FlightOK(rest), Becomes(k, rest)
  PROVE  /\ ModelInv(m') /\ m'.cmds = {} /\ m'.ctx = "kept"
         /\ SameList(k, m') /\ SamePane(k, m')
         /\ m'.mode = k.mode /\ m'.focus = k.focus /\ m'.cursor = k.cursor
         /\ FlightOK(flight') /\ k.cmds \subseteq BagToSet(flight')
         /\ \A x \in BagToSet(rest) : \E y \in BagToSet(flight') : Still(x, y)
<1>1. m' = [k EXCEPT !.cmds = {}, !.ctx = "kept"] /\ k \in Model
  BY DEF Becomes, ModelInv
<1>2. m' \in Model
  BY <1>1, ZenonT(100) DEF Model
<1>3. /\ m'.cmds = {} /\ m'.ctx = "kept" /\ SameList(k, m') /\ SamePane(k, m')
      /\ m'.mode = k.mode /\ m'.focus = k.focus /\ m'.cursor = k.cursor
  BY <1>1 DEF Model, SameList, SamePane
<1>4. ModelInv(m')
  BY <1>2, <1>3, CacheOfSamePane DEF ModelInv, QuestionOK, Asking, SameList
<1> DEFINE reached == Reach(rest, k.ctx)
<1>5. FlightOK(reached) /\ \A x \in BagToSet(rest) : \E y \in BagToSet(reached) : Still(x, y)
  BY <1>1, ReachKeeps DEF Model
<1> HIDE DEF reached
<1>6. flight' = reached (+) SetToBag(k.cmds)
  BY DEF Becomes, reached
<1>7. IsABag(SetToBag(k.cmds)) /\ BagToSet(SetToBag(k.cmds)) = k.cmds
  BY BagOfSet
<1>8. IsABag(flight') /\ BagToSet(flight') = BagToSet(reached) \cup k.cmds
  BY <1>5, <1>6, <1>7, UnionOfBags DEF FlightOK
<1>9. \A x \in k.cmds : MessageOK(x)
  BY <1>1 DEF Model, MessageOK, Message, Command
<1>10. FlightOK(flight')
  BY <1>5, <1>8, <1>9 DEF FlightOK
<1>11. QED
  BY <1>3, <1>4, <1>5, <1>8, <1>10

\* A message that has been handled is not waited for any more.
Spent(x, k) ==
    /\ x.kind \in Handled
    /\ x.kind = "timer" /\ MatchesQuestion(k, x) => k.status # "debouncing" /\ Asks(k, "search")
    /\ x.kind = "answer" /\ MatchesQuestion(k, x) =>
         k.status # "searching" /\ (x.failed \/ k.pending = None \/ k.help)
    /\ x.kind = "loaded" => k.loading # x.conversation \/ LoadCommand(k.loading) \in k.cmds
    /\ x.kind = "listed" => k.pending = None \/ k.help \/ Asks(k, "timer")

EnvOK == incidents \in 0..MaxIncidents /\ store \in [Conversations -> Revisions]

\* The parts of the invariant an update has to establish.
LEMMA UpdateKeeps ==
  ASSUME BrowserInv, NEW k, Moves(m, k), ListFollows(k) \/ PaneFollowsCursor', NEW rest, FlightOK(rest),
         \A x \in BagToSet(flight) :
             x \in BagToSet(rest) \/ (Spent(x, k) /\ (x.kind = "answer" => Deliver(x))),
         Becomes(k, rest), EnvOK', screen' \in {"browser", "stats"}, lost' = lost
  PROVE  BrowserInv' /\ ReloadKept
<1> USE DEF BrowserInv
<1>1. /\ ModelInv(m') /\ m'.cmds = {} /\ m'.ctx = "kept"
      /\ SameList(k, m') /\ SamePane(k, m')
      /\ m'.mode = k.mode /\ m'.focus = k.focus /\ m'.cursor = k.cursor
      /\ FlightOK(flight') /\ k.cmds \subseteq BagToSet(flight')
      /\ \A x \in BagToSet(rest) : \E y \in BagToSet(flight') : Still(x, y)
  BY BecomesKeeps DEF Moves
<1>2. SearchUnderWay'
  <2> USE DEF SameList, MatchesQuestion, Asked
  <2>1. CASE k.status = "idle"
    BY <1>1, <2>1 DEF SearchUnderWay
  <2>2. CASE k.status # "idle" /\ \E x \in k.cmds :
                /\ x.kind = IF k.status = "debouncing" THEN "timer" ELSE "search"
                /\ MatchesQuestion(k, x)
    BY <1>1, <2>2 DEF SearchUnderWay
  <2>3. CASE k.status = "debouncing" /\ k.status = m.status /\ k.revision = m.revision
             /\ k.query = m.query
    <3>1. ASSUME NEW x \in BagToSet(flight), x.kind = "timer", MatchesQuestion(m, x)
          PROVE  x \in BagToSet(flight')
      BY <1>1, <2>3, <3>1 DEF Spent, Still
    <3>2. QED
      BY <1>1, <2>3, <3>1 DEF SearchUnderWay
  <2>4. CASE k.status = "searching" /\ k.status = m.status /\ k.revision = m.revision
             /\ k.query = m.query
    <3>1. ASSUME NEW x \in BagToSet(flight), x.kind \in {"search", "answer"}, MatchesQuestion(m, x)
          PROVE  \E y \in BagToSet(flight') : y.kind \in {"search", "answer"} /\ MatchesQuestion(m, y)
      BY <1>1, <2>4, <3>1 DEF Spent, Still, Handled
    <3>2. QED
      BY <1>1, <2>4, <3>1 DEF SearchUnderWay
  <2>5. SearchKept(m, k) /\ k.status \in Statuses
    BY DEF Moves, ModelInv, Model
  <2>6. QED
    BY <2>1, <2>2, <2>3, <2>4, <2>5 DEF SearchKept, Statuses
<1>3. LoadUnderWay'
  <2>1. m'.loading = k.loading
    BY <1>1 DEF SamePane
  <2>2. CASE LoadCommand(k.loading) \in k.cmds
    BY <1>1, <2>1, <2>2 DEF LoadUnderWay, LoadCommand
  <2>3. CASE k.loading = m.loading /\ LoadCommand(k.loading) \notin k.cmds
    BY <1>1, <2>1, <2>3 DEF LoadUnderWay, Spent, Handled, Still
  <2>4. QED
    BY <2>1, <2>2, <2>3 DEF LoadUnderWay, Moves, LoadKept
<1>4. PaneFollowsCursor'
  BY <1>1 DEF PaneFollowsCursor, ListFollows, SameList, SamePane
<1>5. ReloadKept
  <2> SUFFICES ASSUME Stranded', ~Stranded, ~QueryCleared, ~SearchFailed PROVE FALSE
    BY DEF ReloadKept
  <2>0. /\ m'.pending = k.pending /\ m'.help = k.help /\ m'.query = k.query
        /\ m'.revision = k.revision /\ k.query \in Queries \cup {NoQuery}
    BY <1>1 DEF SameList, SamePane, Moves, ModelInv, Model
  <2>1. /\ k.pending = m.pending /\ m.pending # None /\ ~k.help /\ ~m.help
    BY <2>0 DEF Stranded, Moves, PendingKept
  <2>2. /\ \A y \in BagToSet(flight') : y.kind \notin {"list", "listed"}
        /\ \A y \in BagToSet(flight') :
             y.kind \in {"timer", "search", "answer"} => ~MatchesQuestion(k, y)
    BY <2>0 DEF Stranded, Under, Asked, MatchesQuestion
  <2>3. ~Asks(k, "timer") /\ ~Asks(k, "search")
    BY <1>1, <2>2 DEF Asks
  <2>4. ASSUME NEW x \in BagToSet(flight), x.kind \in {"list", "listed"} PROVE FALSE
    <3>1. x \in BagToSet(rest)
      BY <2>1, <2>3, <2>4 DEF Spent, Handled
    <3>2. QED
      BY <1>1, <2>2, <2>4, <3>1 DEF Still
  <2>5. ASSUME NEW x \in BagToSet(flight), x.kind \in {"timer", "search", "answer"},
               MatchesQuestion(m, x)
        PROVE  FALSE
    <3>1. x.query \in Queries
      BY <2>5 DEF FlightOK, MessageOK, Message, Command
    <3>2. m.query # NoQuery
      BY <2>5, <3>1, SearchAssumption DEF MatchesQuestion
    <3>3. k.query # NoQuery
      BY <2>0, <3>2 DEF QueryCleared
    <3>4. k.revision = m.revision /\ k.query = m.query
      BY <2>3, <3>3 DEF Moves, QuestionKept
    <3>5. MatchesQuestion(k, x)
      BY <2>5, <3>4 DEF MatchesQuestion
    <3>6. x \in BagToSet(rest)
      BY <2>1, <2>3, <2>5, <3>5 DEF Spent, Handled, SearchFailed, Under
    <3>7. QED
      BY <1>1, <2>2, <2>5, <3>5, <3>6 DEF Still, MatchesQuestion
  <2>6. QED
    BY <2>1, <2>4, <2>5 DEF Stranded, Under, Asked
<1>6. QED
  BY <1>1, <1>2, <1>3, <1>4, <1>5 DEF EnvOK

\* What takes the place of a message while the model stays as it is.
Answered(x) ==
    /\ x.kind \in {"timer", "answer", "listed"} => Swallow(x)
    /\ x.kind = "timer" => "timer" \in lost'
    /\ x.kind = "search" =>
         \E y \in BagToSet(flight') : y.kind = "answer" /\ y.revision = x.revision /\ y.query = x.query
    /\ x.kind = "answer" => "answer" \in lost'
    /\ x.kind = "load" =>
         "load" \in lost' \/ \E y \in BagToSet(flight') : y.kind = "loaded" /\ y.conversation = x.conversation
    /\ x.kind = "loaded" => "loaded" \in lost'
    /\ x.kind = "list" =>
         \/ \E y \in BagToSet(flight') : y.kind = "listed"
         \/ Replace(x, Notice) /\ \E y \in BagToSet(flight') : y.kind = "notice"
    /\ x.kind = "listed" => "listed" \in lost'
    /\ x.kind = "notice" => "notice" \in lost'

LEMMA FlightKeeps ==
  ASSUME BrowserInv, m' = m, FlightOK(flight'), EnvOK', screen' \in {"browser", "stats"},
         lost \subseteq lost',
         \A x \in BagToSet(flight) : x \in BagToSet(flight') \/ Answered(x)
  PROVE  BrowserInv' /\ ReloadKept
<1> USE DEF BrowserInv
<1>1. SearchUnderWay'
  BY DEF SearchUnderWay, Asked, MatchesQuestion, Answered
<1>2. LoadUnderWay'
  BY DEF LoadUnderWay, Answered
<1>3. Reloading => Reloading'
  BY DEF Reloading, Under, Answered
<1>4. PaneFollowsCursor'
  BY <1>3 DEF PaneFollowsCursor
<1>5. ReloadKept
  <2> SUFFICES ASSUME Stranded', ~Stranded, ~ListFailed, ~StatsTake PROVE FALSE
    BY DEF ReloadKept
  <2>1. PICK x \in BagToSet(flight) :
            \/ x.kind \in {"list", "listed"}
            \/ x.kind \in {"timer", "search", "answer"} /\ MatchesQuestion(m, x)
    BY DEF Stranded, Under, Asked
  <2>2. x \notin BagToSet(flight')
    BY <2>1 DEF Stranded, Under, Asked
  <2>3. Answered(x)
    BY <2>2
  <2>4. x.kind \in {"list", "search"}
    BY <2>1, <2>3 DEF Answered, StatsTake
  <2>5. CASE x.kind = "list"
    BY <2>3, <2>5 DEF Answered, ListFailed, Under, Stranded
  <2>6. CASE x.kind = "search"
    BY <2>1, <2>3, <2>6 DEF Answered, Stranded, Asked, MatchesQuestion
  <2>7. QED
    BY <2>4, <2>5, <2>6
<1>6. QED
  BY <1>1, <1>2, <1>4, <1>5 DEF EnvOK

-----------------------------------------------------------------------------
(* Keys *)

LEMMA KeyKeeps ==
  ASSUME BrowserInv, NEW n, Moves(m, n), Key(n), incidents' \in 0..MaxIncidents
  PROVE  BrowserInv' /\ ReloadKept
<1> DEFINE k == UpdateChildModels(n, TRUE)
<1>1. Moves(n, k) /\ ListFollows(k)
  BY UpdateChildModelsStep DEF Moves
<1>2. Becomes(k, flight) /\ UNCHANGED <<screen, store, lost>>
  BY DEF Key, Update, env
<1> HIDE DEF k
<1>3. Moves(m, k)
  BY <1>1, MovesTransitive DEF BrowserInv, ModelInv, Moves
<1>4. EnvOK' /\ FlightOK(flight) /\ screen' \in {"browser", "stats"}
  BY <1>2 DEF EnvOK, BrowserInv
<1>5. QED
  BY <1>1, <1>2, <1>3, <1>4, UpdateKeeps

LEMMA FlagKeysKeep ==
  ASSUME BrowserInv,
         MoveCursor \/ BeginSearch \/ OpenFilter \/ CloseFilter \/ RequestStats \/ ViewerKey
  PROVE  BrowserInv' /\ ReloadKept
<1>0. ModelInv(m) /\ m \in Model /\ incidents \in 0..MaxIncidents /\ m.cmds = {}
  BY DEF BrowserInv, ModelInv
<1>1. CASE MoveCursor
  <2>1. PICK c \in m.visible : Key([m EXCEPT !.cursor = c])
    BY <1>1 DEF MoveCursor
  <2>2. c \in Places
    BY <1>0 DEF Model, Places
  <2>3. [m EXCEPT !.cursor = c] \in Model
    BY <1>0, <2>2 DEF Model
  <2>4. Flags(m, [m EXCEPT !.cursor = c])
    BY <1>0, <2>3 DEF Flags, Model, SamePane
  <2>5. QED
    BY <1>0, <1>1, <2>1, <2>4, FlagsMove, KeyKeeps DEF MoveCursor
<1>2. CASE BeginSearch
  <2>1. Flags(m, [m EXCEPT !.editing = TRUE])
    BY <1>0 DEF Flags, Model, SamePane
  <2>2. QED
    BY <1>0, <1>2, <2>1, FlagsMove, KeyKeeps DEF BeginSearch
<1>3. CASE OpenFilter
  <2>1. Flags(m, [m EXCEPT !.filterOpen = TRUE])
    BY <1>0 DEF Flags, Model, SamePane
  <2>2. QED
    BY <1>0, <1>3, <2>1, FlagsMove, KeyKeeps DEF OpenFilter
<1>4. CASE CloseFilter
  <2>1. Flags(m, [m EXCEPT !.filterOpen = FALSE])
    BY <1>0 DEF Flags, Model, SamePane
  <2>2. QED
    BY <1>0, <1>4, <2>1, FlagsMove, KeyKeeps DEF CloseFilter
<1>5. CASE RequestStats
  <2>1. {[kind |-> "stats"]} \in SUBSET Command
    BY DEF Command
  <2>2. Flags(m, [m EXCEPT !.cmds = {[kind |-> "stats"]}])
    BY <1>0, <2>1 DEF Flags, Model, SamePane
  <2>3. incidents' \in 0..MaxIncidents
    BY <1>0, <1>5, BoundsAssumption DEF RequestStats
  <2>4. QED
    BY <1>0, <1>5, <2>2, <2>3, FlagsMove, KeyKeeps DEF RequestStats
<1>6. CASE ViewerKey
  <2>1. PICK b \in {"none", "search", "overlay"} : Key([m EXCEPT !.busy = b])
    BY <1>6 DEF ViewerKey
  <2>2. Flags(m, [m EXCEPT !.busy = b])
    BY <1>0 DEF Flags, Model, SamePane
  <2>3. QED
    BY <1>0, <1>6, <2>1, <2>2, FlagsMove, KeyKeeps DEF ViewerKey
<1>7. QED
  BY <1>1, <1>2, <1>3, <1>4, <1>5, <1>6

LEMMA SearchKeysKeep ==
  ASSUME BrowserInv, TypeQuery \/ EndSearch \/ ClearListSearch \/ ChangeFilter
  PROVE  BrowserInv' /\ ReloadKept
<1>0. ModelInv(m) /\ m \in Model /\ incidents \in 0..MaxIncidents
  BY DEF BrowserInv, ModelInv
<1>1. CASE TypeQuery
  <2>1. PICK q \in Queries \cup {NoQuery} : Key(SetSearchQuery(m, q))
    BY <1>1 DEF TypeQuery
  <2>2. QED
    BY <1>0, <1>1, <2>1, SetSearchQueryMoves, KeyKeeps DEF TypeQuery
<1>2. CASE EndSearch
  <2>1. Flags(m, [m EXCEPT !.editing = FALSE])
    BY <1>0 DEF Flags, Model, SamePane
  <2>2. QED
    BY <1>0, <1>2, <2>1, FlagsMove, ClearSearchMoves, KeyKeeps DEF EndSearch
<1>3. CASE ClearListSearch
  BY <1>0, <1>3, ClearSearchMoves, KeyKeeps DEF ClearListSearch
<1>4. CASE ChangeFilter
  <2>1. PICK f \in Filters, stay \in BOOLEAN : Key([SetFilter(m, f) EXCEPT !.filterOpen = stay])
    BY <1>4 DEF ChangeFilter
  <2> DEFINE a == SetFilter(m, f)
             k == [a EXCEPT !.filterOpen = stay]
  <2>2. Moves(m, a) /\ a \in Model
    BY <1>0, SetFilterMoves DEF Moves, ModelInv
  <2> HIDE DEF a
  <2>3. Flags(a, k)
    BY <2>2 DEF Flags, Model, SamePane
  <2>4. Moves(a, k)
    BY <2>2, <2>3, FlagsMove DEF Moves
  <2> HIDE DEF k
  <2>5. Moves(m, k)
    BY <1>0, <2>2, <2>4, MovesTransitive
  <2>6. incidents' \in 0..MaxIncidents
    BY <1>0, <1>4, BoundsAssumption DEF ChangeFilter
  <2>7. QED
    BY <2>1, <2>5, <2>6, KeyKeeps DEF a, k
<1>5. QED
  BY <1>1, <1>2, <1>3, <1>4

LEMMA PaneKeysKeep ==
  ASSUME BrowserInv, Enter \/ Help \/ PaneAction
  PROVE  BrowserInv' /\ ReloadKept
<1>0. /\ ModelInv(m) /\ m \in Model /\ incidents \in 0..MaxIncidents /\ CacheOK(m)
  BY DEF BrowserInv, ModelInv
<1>i. incidents' \in 0..MaxIncidents
  BY <1>0 DEF Enter, Help, PaneAction
<1>1. CASE Enter
  <2> DEFINE a == [m EXCEPT !.mode = "split", !.focus = "list"]
             k == OpenTranscript(a, m.cursor)
  <2>1. a \in Model
    BY <1>0 DEF Model, Modes
  <2>2. Flags(m, a)
    BY <1>0, <2>1 DEF Flags, Model, SamePane
  <2>3. Key(k) /\ m.cursor \in Conversations
    BY <1>0, <1>1 DEF Enter, Model, Places
  <2> HIDE DEF a
  <2>4. Moves(m, a)
    BY <1>0, <2>2, FlagsMove
  <2>5. Moves(a, k)
    BY <2>1, <2>3, <2>4, OpenTranscriptStep, PaneStepMoves DEF Moves, ModelInv
  <2> HIDE DEF k
  <2>6. QED
    BY <1>0, <1>i, <2>1, <2>3, <2>4, <2>5, MovesTransitive, KeyKeeps
<1>2. CASE Help /\ ~m.help
  <2>1. Flags(m, [m EXCEPT !.help = TRUE])
    BY <1>0, <1>2 DEF Flags, Model, SamePane
  <2>2. QED
    BY <1>0, <1>2, <1>i, <2>1, FlagsMove, KeyKeeps DEF Help
<1>3. CASE Help /\ m.help
  <2> DEFINE a == [m EXCEPT !.help = FALSE]
             k == ReloadTranscriptAfterResync(a)
  <2>1. a \in Model
    BY <1>0 DEF Model
  <2>2. /\ SameList(m, a) /\ a.cmds = m.cmds /\ a.help = FALSE
        /\ a.open = m.open /\ a.loading = m.loading /\ a.pending = m.pending
        /\ a.viewer = m.viewer /\ a.shown = m.shown /\ a.cache = m.cache /\ a.order = m.order
    BY <1>0 DEF Model, SameList
  <2>3. Key(k)
    BY <1>3 DEF Help
  <2> HIDE DEF a
  <2>4. ModelInv(a)
    BY <1>0, <2>1, <2>2 DEF ModelInv, CacheOK, QuestionOK, Asking, SameList
  <2>5. PaneStep(a, k) /\ k.pending = None
    BY <2>1, <2>2, <2>4, ReloadStep DEF ModelInv
  <2> HIDE DEF k
  <2>6. Moves(a, k)
    BY <2>4, <2>5, PaneStepMoves
  <2>7. Moves(m, k)
    BY <2>2, <2>5, <2>6 DEF Moves, LoadKept, SearchKept, PendingKept, QuestionKept, SameList
  <2>8. QED
    BY <1>i, <2>3, <2>7, KeyKeeps
<1>4. CASE PaneAction
  <2>1. Moves(m, CloseTranscript(m))
    BY <1>0, CloseTranscriptStep, PaneStepMoves
  <2>2. Moves(m, ToggleTranscriptLayout(m))
    <3>1. ToggleTranscriptLayout(m) \in Model
      BY <1>0, ZenonT(100) DEF ToggleTranscriptLayout, Model, Modes
    <3>2. Flags(m, ToggleTranscriptLayout(m))
      BY <1>0, <3>1 DEF ToggleTranscriptLayout, Flags, Model, SamePane
    <3>3. QED
      BY <1>0, <3>2, FlagsMove
  <2>3. Moves(m, ToggleFocus(m))
    <3>1. Flags(m, ToggleFocus(m))
      BY <1>0 DEF ToggleFocus, Flags, Model, SamePane
    <3>2. QED
      BY <1>0, <3>1, FlagsMove
  <2>4. QED
    BY <1>4, <1>i, <2>1, <2>2, <2>3, KeyKeeps DEF PaneAction
<1>5. QED
  BY <1>1, <1>2, <1>3, <1>4

-----------------------------------------------------------------------------
(* Goroutines and messages *)

\* A goroutine puts the message y in the place of its command x.
LEMMA ReplaceKeeps ==
  ASSUME BrowserInv, NEW x, NEW y, MessageOK(y), Replace(x, y), lost \subseteq lost',
         y \in BagToSet(flight') => Answered(x)
  PROVE  BrowserInv' /\ ReloadKept
<1> DEFINE rest == flight (-) SetToBag({x})
<1>1. FlightOK(rest) /\ \A z \in BagToSet(flight) : z = x \/ z \in BagToSet(rest)
  BY OneLess DEF BrowserInv
<1>2. flight' = rest (+) SetToBag({y}) /\ UNCHANGED <<m, screen, store, incidents>>
  BY DEF Replace, env
<1> HIDE DEF rest
<1>3. IsABag(flight') /\ BagToSet(flight') = BagToSet(rest) \cup {y}
  BY <1>1, <1>2, BagOfSet, UnionOfBags DEF FlightOK
<1>4. FlightOK(flight')
  BY <1>1, <1>3 DEF FlightOK
<1>5. EnvOK' /\ screen' \in {"browser", "stats"}
  BY <1>2 DEF EnvOK, BrowserInv
<1>6. \A z \in BagToSet(flight) : z \in BagToSet(flight') \/ Answered(z)
  BY <1>1, <1>3
<1>7. QED
  BY <1>2, <1>4, <1>5, <1>6, FlightKeeps

LEMMA CommandsKeep == ASSUME BrowserInv, Commands PROVE BrowserInv' /\ ReloadKept
<1>0. /\ \A x \in BagToSet(flight) : MessageOK(x)
      /\ \A c \in Conversations : store[c] \in Revisions
      /\ MessageOK(Notice)
  BY DEF BrowserInv, FlightOK, MessageOK, Message, Notice, Command
<1>1. CASE RunSearch
  <2>1. PICK x \in Under("search"), failed \in BOOLEAN :
          Replace(x, Answer(x, failed)) /\ lost \subseteq lost'
    BY <1>1 DEF RunSearch
  <2>2. x \in BagToSet(flight) /\ x.kind = "search"
    BY DEF Under
  <2>3. x \in [kind : {"search"}, revision : Nat, query : Queries, base : SUBSET Conversations,
               ctx : {"held", "cancelled", "forgotten"}]
    BY <1>0, <2>2 DEF MessageOK, Message, Command
  <2> DEFINE y == Answer(x, failed)
  <2>4. /\ y.kind = "answer" /\ y.revision = x.revision /\ y.query = x.query
        /\ MessageOK(y)
    <3> DEFINE found == IF failed THEN {} ELSE Found(x)
    <3>1. found \in SUBSET Conversations /\ found \subseteq Answers[x.query]
      BY <2>3 DEF Found
    <3> HIDE DEF found
    <3>2. y = [kind |-> "answer", revision |-> x.revision, query |-> x.query,
               failed |-> failed, found |-> found]
      BY DEF Answer, found
    <3>3. QED
      BY <2>3, <3>1, <3>2 DEF MessageOK, Message
  <2> HIDE DEF y
  <2>5. y \in BagToSet(flight') => Answered(x)
    BY <2>2, <2>4 DEF Answered
  <2>6. QED
    BY <2>1, <2>4, <2>5, ReplaceKeeps DEF y
<1>2. CASE RunLoad
  <2>1. PICK x \in Under("load") :
          \/ /\ Replace(x, [kind |-> "loaded", conversation |-> x.conversation,
                            content |-> [rev |-> store[x.conversation], whole |-> TRUE]])
             /\ lost' = lost
          \/ Replace(x, Notice) /\ lost' = lost \cup {"load"}
    BY <1>2 DEF RunLoad
  <2>2. x \in BagToSet(flight) /\ x.kind = "load"
    BY DEF Under
  <2>3. x.conversation \in Conversations
    BY <1>0, <2>2 DEF MessageOK, Message, Command
  <2>4. CASE Replace(x, Notice) /\ lost' = lost \cup {"load"}
    BY <1>0, <2>2, <2>4, ReplaceKeeps DEF Answered
  <2>5. CASE /\ Replace(x, [kind |-> "loaded", conversation |-> x.conversation,
                            content |-> [rev |-> store[x.conversation], whole |-> TRUE]])
             /\ lost' = lost
    <3> DEFINE y == [kind |-> "loaded", conversation |-> x.conversation,
                     content |-> [rev |-> store[x.conversation], whole |-> TRUE]]
    <3>1. MessageOK(y) /\ y.kind = "loaded" /\ y.conversation = x.conversation
      BY <1>0, <2>3 DEF MessageOK, Message, Contents
    <3> HIDE DEF y
    <3>2. y \in BagToSet(flight') => Answered(x)
      BY <2>2, <3>1 DEF Answered
    <3>3. QED
      BY <2>5, <3>1, <3>2, ReplaceKeeps DEF y
  <2>6. QED
    BY <2>1, <2>4, <2>5
<1>3. CASE RunList
  <2>1. PICK x \in Under("list") :
          \/ /\ Replace(x, [kind |-> "listed",
                            conversations |-> {c \in Conversations : store[c] # 0}])
             /\ lost' = lost
          \/ Replace(x, Notice) /\ lost' = lost \cup {"list"}
    BY <1>3 DEF RunList
  <2>2. x \in BagToSet(flight) /\ x.kind = "list"
    BY DEF Under
  <2>3. CASE Replace(x, Notice) /\ lost' = lost \cup {"list"}
    <3>1. Notice.kind = "notice"
      BY DEF Notice
    <3>2. QED
      BY <1>0, <2>2, <2>3, <3>1, ReplaceKeeps DEF Answered
  <2>4. CASE /\ Replace(x, [kind |-> "listed",
                            conversations |-> {c \in Conversations : store[c] # 0}])
             /\ lost' = lost
    <3> DEFINE list == {c \in Conversations : store[c] # 0}
               y == [kind |-> "listed", conversations |-> list]
    <3>1. list \in SUBSET Conversations
      OBVIOUS
    <3> HIDE DEF list
    <3>2. MessageOK(y) /\ y.kind = "listed"
      BY <3>1 DEF MessageOK, Message
    <3> HIDE DEF y
    <3>3. y \in BagToSet(flight') => Answered(x)
      BY <2>2, <3>2 DEF Answered
    <3>4. QED
      BY <2>4, <3>2, <3>3, ReplaceKeeps DEF y, list
  <2>5. QED
    BY <2>1, <2>3, <2>4
<1>4. CASE RunSession
  <2>1. PICK x \in Under("session") :
          /\ \/ Replace(x, [kind |-> "opened", conversation |-> x.conversation,
                            content |-> [rev |-> store[x.conversation],
                                         whole |-> x.conversation \notin MultiPart]])
             \/ Replace(x, Notice)
          /\ lost' = lost
    BY <1>4 DEF RunSession
  <2>2. x \in BagToSet(flight) /\ x.kind = "session"
    BY DEF Under
  <2>3. x.conversation \in Conversations
    BY <1>0, <2>2 DEF MessageOK, Message, Command
  <2>4. MessageOK([kind |-> "opened", conversation |-> x.conversation,
                   content |-> [rev |-> store[x.conversation],
                                whole |-> x.conversation \notin MultiPart]])
    BY <1>0, <2>3 DEF MessageOK, Message, Contents
  <2>5. Answered(x)
    BY <2>2 DEF Answered
  <2>6. QED
    BY <1>0, <2>1, <2>4, <2>5, ReplaceKeeps
<1>5. QED
  BY <1>1, <1>2, <1>3, <1>4 DEF Commands

\* The handler of a message settles what its message was waited for.
LEMMA HandlerSettles ==
  ASSUME BrowserInv, NEW msg \in BagToSet(flight), msg.kind \in Handled
  PROVE  Moves(m, Handler(msg)) /\ Spent(msg, Handler(msg))
<1>0. ModelInv(m) /\ MessageOK(msg)
  BY DEF BrowserInv, FlightOK
<1> DEFINE k == Handler(msg)
<1>1. CASE msg.kind = "timer"
  <2>1. k = ApplyDeepSearchDebounce(m, msg)
    BY <1>1 DEF Handler
  <2>2. msg.query \in Queries
    BY <1>0, <1>1 DEF MessageOK, Message, Command
  <2>3. QED
    BY <1>0, <1>1, <2>1, <2>2, DebounceMoves DEF Spent, Handled
<1>2. CASE msg.kind = "answer"
  <2>1. k = ApplyDeepSearchResult(m, msg)
    BY <1>2 DEF Handler
  <2>2. QED
    BY <1>0, <1>2, <2>1, DeepSearchResultMoves DEF Spent, Handled
<1>3. CASE msg.kind = "loaded"
  <2>1. k = ApplyOpenViewer(m, msg)
    BY <1>3 DEF Handler
  <2>2. msg.conversation \in Conversations /\ msg.content \in Contents
    BY <1>0, <1>3 DEF MessageOK, Message, Command
  <2>3. QED
    BY <1>0, <1>3, <2>1, <2>2, OpenViewerMoves DEF Spent
<1>4. CASE msg.kind = "listed"
  <2>1. k = ApplyConversationsLoaded(m, msg)
    BY <1>4 DEF Handler
  <2>2. msg.conversations \in SUBSET Conversations
    BY <1>0, <1>4 DEF MessageOK, Message, Command
  <2>3. QED
    BY <1>0, <1>4, <2>1, <2>2, ConversationsLoadedMoves DEF Spent
<1>5. CASE msg.kind \in {"notice", "opened"}
  <2>1. k = m
    BY <1>5 DEF Handler
  <2>2. Moves(m, m)
    BY <1>0 DEF Moves, ModelInv, Model, LoadKept, SearchKept, PendingKept, QuestionKept
  <2>3. QED
    BY <1>5, <2>1, <2>2 DEF Spent, Handled
<1>6. QED
  BY <1>1, <1>2, <1>3, <1>4, <1>5 DEF Handled

LEMMA DeliverKeeps == ASSUME BrowserInv, DeliverMessage PROVE BrowserInv' /\ ReloadKept
<1>1. PICK msg \in BagToSet(flight) : msg.kind \in Handled /\ Deliver(msg)
  BY DEF DeliverMessage
<1> DEFINE h == Handler(msg)
           k == UpdateChildModels(h, FALSE)
           rest == flight (-) SetToBag({msg})
<1>2. Becomes(k, rest) /\ UNCHANGED <<screen, store, incidents, lost>>
  BY <1>1 DEF Deliver, Update, env
<1>3. Moves(m, h) /\ Spent(msg, h)
  BY <1>1, HandlerSettles
<1> HIDE DEF h, rest
<1>4. /\ Moves(h, k) /\ ListFollows(k) /\ k.revision = h.revision
      /\ k.query = h.query /\ k.status = h.status /\ k.pending = h.pending
  BY <1>3, UpdateChildModelsStep DEF Moves
<1> HIDE DEF k
<1>5. Moves(m, k)
  BY <1>3, <1>4, MovesTransitive DEF Moves, BrowserInv, ModelInv
<1>6. Spent(msg, k)
  <2>1. LoadKept(h, k) /\ PendingKept(h, k) /\ h.cmds \subseteq k.cmds
    BY <1>4 DEF Moves
  <2>2. msg.kind = "loaded" => k.loading # msg.conversation \/ LoadCommand(k.loading) \in k.cmds
    <3>1. msg.kind = "loaded" => msg.conversation # None
      BY PaneAssumption DEF BrowserInv, FlightOK, MessageOK, Message, Command, None
    <3>2. QED
      BY <1>3, <2>1, <3>1 DEF Spent, LoadKept
  <2>3. (h.pending = None \/ h.help) => (k.pending = None \/ k.help)
    BY <2>1 DEF PendingKept
  <2>4. \A kind : Asks(h, kind) => Asks(k, kind)
    BY <1>4, <2>1 DEF Asks, MatchesQuestion
  <2>5. QED
    BY <1>3, <1>4, <2>2, <2>3, <2>4 DEF Spent, MatchesQuestion
<1>7. FlightOK(rest)
      /\ \A x \in BagToSet(flight) :
             x \in BagToSet(rest) \/ (Spent(x, k) /\ (x.kind = "answer" => Deliver(x)))
  BY <1>1, <1>6, OneLess DEF BrowserInv, rest
<1>8. EnvOK' /\ screen' \in {"browser", "stats"}
  BY <1>2 DEF EnvOK, BrowserInv
<1>9. QED
  BY <1>2, <1>4, <1>5, <1>7, <1>8, UpdateKeeps

-----------------------------------------------------------------------------
(* The statistics *)

LEMMA StatsKeep ==
  ASSUME BrowserInv, OpenStats \/ OpenStatsSession \/ CloseStats
  PROVE  BrowserInv' /\ ReloadKept
<1>0. ModelInv(m) /\ FlightOK(flight) /\ screen \in {"browser", "stats"} /\ EnvOK
  BY DEF BrowserInv, EnvOK
<1>1. CASE OpenStats
  <2>1. PICK x \in Under("stats") :
          /\ flight' = flight (-) SetToBag({x}) /\ screen' = "stats"
          /\ UNCHANGED <<m, store, incidents, lost>>
    BY <1>1 DEF OpenStats, env
  <2>2. FlightOK(flight') /\ \A y \in BagToSet(flight) : y = x \/ y \in BagToSet(flight')
    BY <1>0, <2>1, OneLess
  <2>3. Answered(x)
    BY DEF Under, Answered
  <2>4. EnvOK'
    BY <1>0, <2>1 DEF EnvOK
  <2>5. QED
    BY <2>1, <2>2, <2>3, <2>4, FlightKeeps
<1>2. CASE OpenStatsSession
  <2> DEFINE y(c) == [kind |-> "session", conversation |-> c]
  <2>1. PICK c \in m.all : flight' = flight (+) SetToBag({y(c)})
    BY <1>2 DEF OpenStatsSession
  <2>2. UNCHANGED <<m, screen, store, incidents, lost>>
    BY <1>2 DEF OpenStatsSession, env
  <2>3. c \in Conversations
    BY <1>0, <2>1 DEF ModelInv, Model
  <2>4. MessageOK(y(c))
    BY <2>3 DEF MessageOK, Message
  <2> HIDE DEF y
  <2>5. IsABag(flight') /\ BagToSet(flight') = BagToSet(flight) \cup {y(c)}
    BY <1>0, <2>1, BagOfSet, UnionOfBags DEF FlightOK
  <2>6. FlightOK(flight')
    BY <1>0, <2>4, <2>5 DEF FlightOK
  <2>7. EnvOK' /\ screen' \in {"browser", "stats"}
    BY <1>0, <2>2 DEF EnvOK
  <2>8. QED
    BY <2>2, <2>5, <2>6, <2>7, FlightKeeps
<1>3. CASE CloseStats
  <2>1. /\ screen' = "browser" /\ UNCHANGED <<m, flight, store, incidents, lost>>
    BY <1>3 DEF CloseStats, env
  <2>2. EnvOK' /\ FlightOK(flight')
    BY <1>0, <2>1 DEF EnvOK
  <2>3. QED
    BY <2>1, <2>2, FlightKeeps
<1>4. QED
  BY <1>1, <1>2, <1>3

LEMMA SwallowKeeps == ASSUME BrowserInv, SwallowMessage PROVE BrowserInv' /\ ReloadKept
<1>0. ModelInv(m) /\ FlightOK(flight) /\ EnvOK
  BY DEF BrowserInv, EnvOK
<1>1. PICK msg \in BagToSet(flight) : msg.kind \in Handled /\ Swallow(msg)
  BY DEF SwallowMessage
<1> DEFINE rest == flight (-) SetToBag({msg})
<1>2. FlightOK(rest) /\ \A y \in BagToSet(flight) : y = msg \/ y \in BagToSet(rest)
  BY <1>0, OneLess
<1>3. CASE msg.kind = "opened"
  <2> DEFINE k == OpenLoadedSession(m, msg)
  <2>1. Becomes(k, rest) /\ screen' = "browser" /\ UNCHANGED <<store, incidents, lost>>
    BY <1>1, <1>3 DEF Swallow, env
  <2> HIDE DEF rest
  <2>2. msg.conversation \in Conversations /\ msg.content \in Contents
    BY <1>0, <1>3 DEF FlightOK, MessageOK, Message, Command
  <2>3. Moves(m, k) /\ k.mode = "fullscreen"
    BY <1>0, <2>2, OpenLoadedSessionMoves
  <2> HIDE DEF k
  <2>4. ListFollows(k) /\ Spent(msg, k)
    BY <1>3, <2>3 DEF ListFollows, Spent, Handled
  <2>5. EnvOK' /\ screen' \in {"browser", "stats"}
    BY <1>0, <2>1 DEF EnvOK
  <2>6. QED
    BY <1>2, <1>3, <2>1, <2>3, <2>4, <2>5, UpdateKeeps
<1>4. CASE msg.kind # "opened"
  <2>1. /\ flight' = rest /\ lost' = lost \cup {msg.kind}
        /\ UNCHANGED <<m, screen, store, incidents>>
    BY <1>1, <1>4 DEF Swallow, env
  <2>2. Answered(msg)
    BY <1>1, <1>4, <2>1 DEF Answered, Handled
  <2>3. EnvOK' /\ screen' \in {"browser", "stats"} /\ FlightOK(flight')
    BY <1>0, <1>2, <2>1 DEF EnvOK, BrowserInv
  <2> HIDE DEF rest
  <2>4. QED
    BY <1>2, <2>1, <2>2, <2>3, FlightKeeps
<1>5. QED
  BY <1>3, <1>4

-----------------------------------------------------------------------------
(* Resyncs *)

LEMMA RequestResyncKeeps == ASSUME BrowserInv, RequestResync PROVE BrowserInv' /\ ReloadKept
<1>0. ModelInv(m) /\ m \in Model /\ FlightOK(flight) /\ EnvOK
  BY DEF BrowserInv, ModelInv, EnvOK
<1> DEFINE n == [m EXCEPT !.resync = TRUE]
           k == UpdateChildModels(n, TRUE)
<1>1. /\ Becomes(k, flight) /\ incidents < MaxIncidents /\ incidents' = incidents + 1
      /\ screen = "browser" /\ UNCHANGED <<screen, store, lost>>
  BY DEF RequestResync, Update
<1>2. Flags(m, n)
  BY <1>0 DEF Flags, Model, SamePane
<1> HIDE DEF n
<1>3. Moves(m, n)
  BY <1>0, <1>2, FlagsMove
<1>4. Moves(n, k) /\ ListFollows(k)
  BY <1>3, UpdateChildModelsStep DEF Moves
<1> HIDE DEF k
<1>5. Moves(m, k)
  BY <1>0, <1>3, <1>4, MovesTransitive DEF Moves, ModelInv
<1>6. EnvOK' /\ screen' \in {"browser", "stats"}
  BY <1>0, <1>1, BoundsAssumption DEF EnvOK
<1>7. QED
  BY <1>0, <1>1, <1>4, <1>5, <1>6, UpdateKeeps

LEMMA ImportKeeps == ASSUME BrowserInv, Import PROVE BrowserInv' /\ ReloadKept
<1>0. FlightOK(flight) /\ screen \in {"browser", "stats"} /\ EnvOK
  BY DEF BrowserInv, EnvOK
<1>1. PICK c \in Conversations : \E r \in {0, incidents + 1, store[c]} : store' = [store EXCEPT ![c] = r]
  BY DEF Import
<1>2. UNCHANGED <<m, flight, screen, incidents, lost>>
  BY DEF Import
<1>3. \A r \in {0, incidents + 1, store[c]} : r \in Revisions
  BY <1>0, BoundsAssumption DEF EnvOK, Revisions
<1>4. EnvOK' /\ FlightOK(flight') /\ screen' \in {"browser", "stats"}
  BY <1>0, <1>1, <1>2, <1>3 DEF EnvOK
<1>5. QED
  BY <1>2, <1>4, FlightKeeps

\* Told to the browser, the resync loads the list again; told to the
\* statistics, it is lost.
LEMMA FinishResyncKeeps == ASSUME BrowserInv, FinishResync PROVE BrowserInv' /\ ReloadKept
<1>0. ModelInv(m) /\ FlightOK(flight) /\ screen \in {"browser", "stats"} /\ EnvOK
  BY DEF BrowserInv, EnvOK
<1>1. UNCHANGED <<screen, store, incidents>>
  BY DEF FinishResync
<1>2. EnvOK' /\ screen' \in {"browser", "stats"}
  BY <1>0, <1>1 DEF EnvOK
<1>3. CASE screen = "browser" /\ reloaded' = store
           /\ Becomes([PrepareForResyncReload(m) EXCEPT !.cmds = {[kind |-> "list"]}], flight)
  <2> DEFINE list == {[kind |-> "list"]}
             k == [PrepareForResyncReload(m) EXCEPT !.cmds = list]
  <2>1. Becomes(k, flight) /\ lost' = lost
    BY <1>3 DEF FinishResync
  <2>2. list \in SUBSET Command
    BY DEF Command
  <2>3. /\ ModelInv(k) /\ k.cmds = list /\ k.loading = None
        /\ k.query = m.query /\ k.status = m.status /\ k.revision = m.revision
    BY <1>0, <2>2, PrepareForResyncReloadModel
  <2>4. [kind |-> "list"] \in list
    OBVIOUS
  <2> HIDE DEF k, list
  <2>5. /\ ModelInv(m') /\ m'.cmds = {} /\ m'.ctx = "kept"
        /\ SameList(k, m') /\ SamePane(k, m')
        /\ FlightOK(flight') /\ k.cmds \subseteq BagToSet(flight')
        /\ \A x \in BagToSet(flight) : \E y \in BagToSet(flight') : Still(x, y)
    BY <1>0, <2>1, <2>3, BecomesKeeps
  <2>6. Under("list")' # {}
    BY <2>3, <2>4, <2>5 DEF Under
  <2>7. SearchUnderWay'
    <3>1. ASSUME NEW kinds, "search" \in kinds \/ "timer" \in kinds, Asked(kinds)
          PROVE  Asked(kinds)'
      BY <2>3, <2>5, <3>1 DEF Asked, MatchesQuestion, Still, SameList
    <3>2. QED
      BY <2>1, <2>3, <2>5, <3>1 DEF SearchUnderWay, SameList, BrowserInv
  <2>8. LoadUnderWay' /\ PaneFollowsCursor' /\ ReloadKept
    BY <2>3, <2>5, <2>6 DEF LoadUnderWay, PaneFollowsCursor, ReloadKept, Stranded, Reloading,
                            SamePane, Under
  <2>9. QED
    BY <1>2, <2>5, <2>7, <2>8 DEF BrowserInv, EnvOK
<1>4. CASE screen # "browser"
  <2>1. lost' = lost \cup {"resync"} /\ UNCHANGED <<m, flight>>
    BY <1>4 DEF FinishResync
  <2>2. QED
    BY <1>0, <1>2, <2>1, FlightKeeps
<1>5. CASE screen = "browser" /\ Becomes([m EXCEPT !.resync = FALSE], flight)
  <2> DEFINE k == [m EXCEPT !.resync = FALSE]
  <2>1. Becomes(k, flight) /\ lost' = lost
    BY <1>5 DEF FinishResync
  <2>2. m \in Model /\ k \in Model
    BY <1>0 DEF ModelInv, Model
  <2>3. Flags(m, k) /\ SameList(m, k) /\ SamePane(m, k)
        /\ k.mode = m.mode /\ k.focus = m.focus /\ k.cursor = m.cursor
    BY <2>2 DEF Flags, Model, SamePane, SameList
  <2> HIDE DEF k
  <2>4. Moves(m, k)
    BY <1>0, <2>3, FlagsMove
  <2>5. /\ SameList(k, m') /\ SamePane(k, m')
        /\ m'.mode = k.mode /\ m'.focus = k.focus /\ m'.cursor = k.cursor
        /\ \A x \in BagToSet(flight) : \E y \in BagToSet(flight') : Still(x, y)
    BY <1>0, <2>1, <2>4, BecomesKeeps DEF Moves
  <2>6. Reloading => Reloading'
    BY <2>1, <2>5 DEF Reloading, Under, Still
  <2>7. PaneFollowsCursor'
    BY <2>3, <2>5, <2>6 DEF BrowserInv, PaneFollowsCursor, SameList, SamePane
  <2>8. QED
    BY <1>0, <1>2, <2>1, <2>4, <2>7, UpdateKeeps
<1>6. QED
  BY <1>3, <1>4, <1>5 DEF FinishResync

-----------------------------------------------------------------------------
LEMMA InitBrowserInv == Init => BrowserInv
<1> SUFFICES ASSUME Init PROVE BrowserInv
  OBVIOUS
<1> DEFINE f == CHOOSE g \in Filters : Passes[g] = Conversations
           first == [kind |-> "list"]
<1>1. f \in Filters
  BY SearchAssumption
<1> HIDE DEF f
<1>2. /\ m = [all |-> {}, base |-> {}, visible |-> {}, cursor |-> None, selected |-> None,
              query |-> NoQuery, status |-> "idle", revision |-> 0, applied |-> 0,
              editing |-> FALSE, filter |-> f, filterOpen |-> FALSE,
              mode |-> "closed", focus |-> "list", open |-> None, loading |-> None,
              pending |-> None, help |-> FALSE, busy |-> "none", viewer |-> None,
              shown |-> [rev |-> 0, whole |-> TRUE], cache |-> NoSessions, order |-> <<>>,
              resync |-> FALSE, cmds |-> {}, ctx |-> "kept"]
      /\ flight = SetToBag({first}) /\ screen = "browser" /\ incidents = 0
      /\ store = [c \in Conversations |-> 1]
  BY DEF Init, f
<1>3. NoSessions \in Caches /\ DOMAIN NoSessions = {}
  <2>1. DOMAIN NoSessions = {} /\ NoSessions \in [DOMAIN NoSessions -> Contents]
    BY DEF NoSessions
  <2>2. QED
    BY <2>1, CacheTyped
<1>4. [rev |-> 0, whole |-> TRUE] \in Contents /\ 1 \in Revisions
  BY BoundsAssumption DEF Contents, Revisions
<1>5. m \in Model
  BY <1>1, <1>2, <1>3, <1>4 DEF Model, Places, Statuses, Modes
<1>6. ModelInv(m)
  BY <1>2, <1>3, <1>5, PaneAssumption DEF ModelInv, CacheOK, QuestionOK, Asking, Distinct
<1>7. FlightOK(flight)
  BY <1>2, BagOfSet DEF FlightOK, MessageOK, Message, Command
<1>8. EnvOK
  BY <1>2, <1>4, BoundsAssumption DEF EnvOK
<1>9. SearchUnderWay /\ LoadUnderWay /\ PaneFollowsCursor
  BY <1>2 DEF SearchUnderWay, LoadUnderWay, PaneFollowsCursor
<1>10. m.cmds = {} /\ m.ctx = "kept" /\ screen = "browser"
  BY <1>2
<1>11. QED
  BY <1>6, <1>7, <1>8, <1>9, <1>10 DEF BrowserInv, EnvOK

LEMMA StepKeepsBrowserInv == BrowserInv /\ [Next]_vars => BrowserInv' /\ ReloadKept
<1> SUFFICES ASSUME BrowserInv, [Next]_vars PROVE BrowserInv' /\ ReloadKept
  OBVIOUS
<1>1. CASE Keys
  BY <1>1, FlagKeysKeep, SearchKeysKeep, PaneKeysKeep DEF Keys
<1>2. CASE Commands
  BY <1>2, CommandsKeep
<1>3. CASE DeliverMessage
  BY <1>3, DeliverKeeps
<1>4. CASE OpenStats \/ OpenStatsSession \/ CloseStats
  BY <1>4, StatsKeep
<1>5. CASE SwallowMessage
  BY <1>5, SwallowKeeps
<1>6. CASE RequestResync
  BY <1>6, RequestResyncKeeps
<1>7. CASE Import
  BY <1>7, ImportKeeps
<1>8. CASE FinishResync
  BY <1>8, FinishResyncKeeps
<1>9. CASE UNCHANGED vars
  <2>1. UNCHANGED <<m, flight, screen, store, incidents, lost>>
    BY <1>9 DEF vars, env
  <2>2. FlightOK(flight') /\ EnvOK' /\ screen' \in {"browser", "stats"}
    BY <2>1 DEF BrowserInv, EnvOK
  <2>3. QED
    BY <2>1, <2>2, FlightKeeps
<1>10. QED
  BY <1>1, <1>2, <1>3, <1>4, <1>5, <1>6, <1>7, <1>8, <1>9 DEF Next

LEMMA BrowserInvAlways == Spec => []BrowserInv
BY InitBrowserInv, StepKeepsBrowserInv, PTL DEF Spec

-----------------------------------------------------------------------------
(* The caches of any size stay within it, in any run of keys, answers,      *)
(* resyncs and sessions of the statistics (cacheViewer, openViewer).        *)
THEOREM CachesInOrder == Spec => []CacheInOrder
<1>1. BrowserInv => CacheInOrder
  BY DEF BrowserInv, ModelInv, CacheOK, Distinct, Listed, CacheInOrder, InOrder
<1>2. QED
  BY <1>1, BrowserInvAlways, PTL

(* No order of timers, answers and edits shows the answer to an earlier     *)
(* query (applyDeepSearchResult).                                           *)
THEOREM AnswersOnlyWhatWasAsked == Spec => []NoOtherQuestion
<1>1. BrowserInv => NoOtherQuestion
  BY DEF BrowserInv, ModelInv, QuestionOK, Asking, NoOtherQuestion
<1>2. QED
  BY <1>1, BrowserInvAlways, PTL

(* What the list or the pane says it waits for is in flight, or its loss is *)
(* accounted for; the model keeps its types.                                *)
THEOREM WaitsOnlyForWork == Spec => []UnderWay
<1>1. BrowserInv => TypeOK
  <2> SUFFICES ASSUME BrowserInv PROVE TypeOK
    OBVIOUS
  <2>1. m \in Model /\ m.cmds = {} /\ m.ctx = "kept" /\ IsABag(flight)
        /\ screen \in {"browser", "stats"}
    BY DEF BrowserInv, ModelInv, FlightOK
  <2>2. m.cache \in Caches
    BY <2>1 DEF Model
  <2>3. DOMAIN m.cache \subseteq Conversations /\ m.cache \in [DOMAIN m.cache -> Contents]
    BY <2>2, CacheTyped
  <2>4. \A c \in DOMAIN m.cache : m.cache[c] \in Contents
    BY <2>3
  <2>5. QED
    BY <2>1, <2>3, <2>4 DEF TypeOK, Model, Places
<1>2. BrowserInv => UnderWay
  BY <1>1 DEF BrowserInv, UnderWay
<1>3. QED
  BY <1>2, BrowserInvAlways, PTL

(* In split mode the pane shows or loads what the cursor is on, unless the  *)
(* list of a resync has still to arrive (syncTranscriptSelection).          *)
THEOREM PaneFollows == Spec => []PaneFollowsCursor
<1>1. BrowserInv => PaneFollowsCursor
  BY DEF BrowserInv
<1>2. QED
  BY <1>1, BrowserInvAlways, PTL

(* A pending reload is dropped only by clearing the query, by a search that *)
(* fails, a list that cannot be loaded, or a message the statistics take:   *)
(* in every other run something is under way that reopens the transcript    *)
(* (reloadTranscriptAfterResync, applyDeepSearchResult).                    *)
THEOREM ReloadsHappen == Spec => ReloadHappens
<1>1. BrowserInv /\ [Next]_vars => [ReloadKept]_vars
  BY StepKeepsBrowserInv
<1>2. Spec => [][ReloadKept]_vars
  BY <1>1, BrowserInvAlways, PTL DEF Spec
<1>3. QED
  BY <1>2 DEF ReloadHappens, ReloadKept

-----------------------------------------------------------------------------
(* The chunks of the text search                                            *)

\* And a set of places of a sequence has a greatest one.
LEMMA Greatest ==
  ASSUME NEW n \in Nat, NEW S \in SUBSET (1..n), S # {}
  PROVE  Max(S) \in S /\ \A y \in S : y <= Max(S)
<1> DEFINE T == {n - x : x \in S}
<1>0. \A x \in S : x \in Nat /\ n - x \in Nat
  OBVIOUS
<1>1. T \in SUBSET Nat /\ T # {}
  BY <1>0
<1>2. PICK t \in T : \A u \in T : t <= u
  BY <1>1, Least
<1>3. PICK x \in S : t = n - x
  BY <1>2
<1>4. \A y \in S : y <= x
  <2> TAKE y \in S
  <2>1. t <= n - y /\ x \in Nat /\ y \in Nat
    BY <1>0, <1>2, <1>3
  <2>2. QED
    BY <1>3, <2>1
<1>5. QED
  BY <1>3, <1>4 DEF Max

\* A chunk is longer than its overlap with the next.
LEMMA Steps ==
  /\ ChunkRunes \in Nat \ {0} /\ Overlap \in Nat /\ ChunkStep \in Nat \ {0}
  /\ Overlap + ChunkStep = ChunkRunes
<1>1. ChunkRunes \div 2 \in Nat /\ ChunkRunes \div 2 < ChunkRunes
  BY ChunkAssumption
<1>2. Overlap \in Nat /\ Overlap < ChunkRunes
  BY <1>1, ChunkAssumption DEF Overlap
<1>3. QED
  BY <1>2, ChunkAssumption DEF ChunkStep

\* How the places of a text are divided among steps.
LEMMA StepOf ==
  ASSUME NEW i \in Nat \ {0}
  PROVE  \E k \in Nat \ {0} : (k - 1) * ChunkStep + 1 <= i /\ i <= (k - 1) * ChunkStep + ChunkStep
<1> DEFINE s == ChunkStep
           q == (i - 1) \div s
<1>1. s \in Nat \ {0}
  BY Steps
<1> HIDE DEF s
<1>2. q \in Nat /\ s * q <= i - 1 /\ i - 1 < s * q + s
  BY <1>1
<1> HIDE DEF q
<1>3. ((q + 1) - 1) * s = s * q /\ s * q \in Int
  BY <1>1, <1>2
<1>4. q + 1 \in Nat \ {0} /\ ((q + 1) - 1) * s + 1 <= i /\ i <= ((q + 1) - 1) * s + s
  BY <1>1, <1>2, <1>3
<1>5. QED
  BY <1>4 DEF s

\* A product with a positive factor is no less than the other.
LEMMA Grows ==
  ASSUME NEW a \in Nat, NEW b \in Nat, NEW s \in Nat \ {0}
  PROVE  a * s \in Nat /\ a <= a * s /\ (a <= b => a * s <= b * s)
  OBVIOUS

\* The end of a chunk: its length, or the end of the text.
LEMMA Ends ==
  ASSUME NEW n \in Nat \ {0}, NEW k \in Nat \ {0}
  PROVE  LET full == (k - 1) * ChunkStep + ChunkRunes
         IN full \in Nat /\ ChunkEnd(n, k) = IF full <= n THEN full ELSE n
<1> DEFINE full == (k - 1) * ChunkStep + ChunkRunes
<1>1. full \in Nat
  BY Steps, Grows
<1> HIDE DEF full
<1>2. Min({full, n}) \in {full, n} /\ Min({full, n}) <= full /\ Min({full, n}) <= n
  BY <1>1, Least
<1>3. Min({full, n}) = IF full <= n THEN full ELSE n
  BY <1>1, <1>2
<1>4. QED
  BY <1>1, <1>3 DEF full, ChunkEnd

\* The loop ends, with the first chunk that reaches the end of the text.
LEMMA LoopEnds ==
  ASSUME NEW n \in Nat \ {0}
  PROVE  /\ ChunkCount(n) \in 1..n /\ ChunkEnd(n, ChunkCount(n)) = n
         /\ \A k \in 1..n : ChunkEnd(n, k) = n => ChunkCount(n) <= k
<1> DEFINE S == {k \in 1..n : ChunkEnd(n, k) = n}
<1>1. ChunkEnd(n, n) = n
  <2>1. n - 1 \in Nat /\ (n - 1) * ChunkStep \in Nat /\ n - 1 <= (n - 1) * ChunkStep
    BY Steps, Grows
  <2>2. (n - 1) * ChunkStep + ChunkRunes >= n
    BY <2>1, Steps
  <2>3. QED
    BY <2>2, Ends
<1>2. S \in SUBSET Nat /\ n \in S
  BY <1>1
<1>3. Min(S) \in S /\ \A k \in S : Min(S) <= k
  BY <1>2, Least
<1>4. QED
  BY <1>3 DEF ChunkCount

\* No two places that are at most the overlap apart are in no chunk together.
LEMMA NearIsTogether ==
  ASSUME NEW n \in Nat \ {0}, NEW i \in 1..n, NEW j \in i..n, j - i <= Overlap
  PROVE  \E k \in 1..ChunkCount(n) :
             /\ ChunkStart(k) \in 1..i /\ ChunkEnd(n, k) \in j..n
<1> DEFINE last == ChunkCount(n)
<1>1. last \in 1..n /\ ChunkEnd(n, last) = n
  BY LoopEnds
<1> HIDE DEF last
<1>2. PICK k \in Nat \ {0} :
          (k - 1) * ChunkStep + 1 <= i /\ i <= (k - 1) * ChunkStep + ChunkStep
  BY StepOf
<1>3. ChunkStep \in Nat \ {0} /\ Overlap \in Nat /\ Overlap + ChunkStep = ChunkRunes
  BY Steps
<1>4. CASE k <= last
  <2>1. (k - 1) * ChunkStep \in Nat
    BY <1>3, Grows
  <2>2. ChunkStart(k) \in 1..i
    BY <1>2, <2>1 DEF ChunkStart
  <2>3. j <= (k - 1) * ChunkStep + ChunkRunes
    BY <1>2, <1>3, <2>1
  <2>4. ChunkEnd(n, k) \in j..n
    BY <2>1, <2>3, Ends
  <2>5. QED
    BY <1>4, <2>2, <2>4 DEF last
<1>5. CASE last < k
  <2>1. (k - 1) * ChunkStep \in Nat /\ (last - 1) * ChunkStep \in Nat
        /\ (last - 1) * ChunkStep <= (k - 1) * ChunkStep
    BY <1>1, <1>3, <1>5, Grows
  <2>2. ChunkStart(last) \in 1..i
    BY <1>2, <2>1 DEF ChunkStart
  <2>3. QED
    BY <1>1, <2>2 DEF last
<1>6. QED
  BY <1>1, <1>4, <1>5

\* Where places are in a part that begins at a.
LEMMA Offsets ==
  ASSUME NEW a \in Nat \ {0}, NEW b \in Nat, NEW i \in Nat, NEW j \in Nat, a <= i, i <= j, j <= b
  PROVE  /\ i - a + 1 \in 1..(b - a + 1) /\ j - a + 1 \in (i - a + 1)..(b - a + 1)
         /\ j - a + 1 \in 1..(b - a + 1) /\ b - a + 1 \in Nat \ {0}
         /\ i - a + 1 \in Nat \ {0} /\ j - a + 1 = (i - a + 1) + (j - i)
         /\ a + (i - a + 1) - 1 = i /\ a + (j - a + 1) - 1 = j
  OBVIOUS

\* A part of a part of a text is a part of the text.
LEMMA Parts ==
  ASSUME NEW text \in Seq(Int), NEW a \in Nat \ {0}, NEW b \in Nat, a <= b, b <= Len(text)
  PROVE  /\ SubSeq(text, a, b) \in Seq(Int) /\ Len(SubSeq(text, a, b)) = b - a + 1
         /\ \A x \in 1..(b - a + 1) : SubSeq(text, a, b)[x] = text[a + x - 1]
<1>1. \A x \in a..b : text[x] \in Int
  OBVIOUS
<1>2. QED
  BY <1>1, SubSeqProperties

LEMMA PartsOfParts ==
  ASSUME NEW text \in Seq(Int), NEW a \in Nat \ {0}, NEW b \in Nat,
         NEW i \in Nat, NEW j \in Nat, a <= i, i <= j, j <= b, b <= Len(text),
         NEW part \in Seq(Int), part = SubSeq(text, a, b)
  PROVE  /\ i - a + 1 \in DOMAIN part /\ j - a + 1 \in (i - a + 1)..Len(part)
         /\ part[i - a + 1] = text[i] /\ part[j - a + 1] = text[j]
         /\ SubSeq(part, i - a + 1, j - a + 1) = SubSeq(text, i, j)
<1>0. i \in Nat \ {0} /\ i <= j /\ j <= Len(text)
  OBVIOUS
<1>1. PICK head \in Nat \ {0}, tail \in Nat : head = i - a + 1 /\ tail = j - a + 1
  BY Offsets
<1>2. Len(part) = b - a + 1 /\ \A x \in 1..Len(part) : part[x] = text[a + x - 1]
  BY Parts
<1>3. /\ head <= tail /\ tail <= Len(part) /\ a + head - 1 = i /\ a + tail - 1 = j
      /\ tail - head + 1 = j - i + 1 /\ Len(part) \in Nat
  BY <1>1, <1>2
<1>4. /\ Len(SubSeq(part, head, tail)) = j - i + 1 /\ SubSeq(part, head, tail) \in Seq(Int)
      /\ \A x \in 1..(j - i + 1) : SubSeq(part, head, tail)[x] = part[head + x - 1]
  <2>1. /\ Len(SubSeq(part, head, tail)) = tail - head + 1 /\ SubSeq(part, head, tail) \in Seq(Int)
        /\ \A x \in 1..(tail - head + 1) : SubSeq(part, head, tail)[x] = part[head + x - 1]
    BY <1>3, Parts
  <2>2. QED
    BY <1>3, <2>1
<1>5. /\ Len(SubSeq(text, i, j)) = j - i + 1 /\ SubSeq(text, i, j) \in Seq(Int)
      /\ \A x \in 1..(j - i + 1) : SubSeq(text, i, j)[x] = text[i + x - 1]
  BY <1>0, Parts
<1>6. \A x \in 1..(j - i + 1) : part[head + x - 1] = text[i + x - 1]
  <2> TAKE x \in 1..(j - i + 1)
  <2>1. head + x - 1 \in 1..Len(part) /\ a + (head + x - 1) - 1 = i + x - 1
    BY <1>3
  <2>2. QED
    BY <1>2, <2>1
<1>7. \A x \in 1..(j - i + 1) : SubSeq(part, head, tail)[x] = SubSeq(text, i, j)[x]
  BY <1>4, <1>5, <1>6
<1>8. SubSeq(part, head, tail) = SubSeq(text, i, j)
  BY <1>4, <1>5, <1>7, SeqEqual
<1>9. part[head] = text[i] /\ part[tail] = text[j]
  <2>1. head \in 1..Len(part) /\ tail \in 1..Len(part)
    BY <1>3
  <2>2. QED
    BY <1>2, <1>3, <2>1
<1>10. head \in DOMAIN part /\ tail \in head..Len(part)
  BY <1>3
<1>11. QED
  BY <1>1, <1>8, <1>9, <1>10

\* Trimming keeps what is between two places that are not space.
LEMMA TrimKeeps ==
  ASSUME NEW text \in Seq(Int), NEW i \in DOMAIN text, NEW j \in i..Len(text),
         ~IsSpace(text[i]), ~IsSpace(text[j])
  PROVE  \E a \in 1..i, b \in j..Len(text) : TrimSpace(text) = SubSeq(text, a, b)
<1> DEFINE inked == {x \in DOMAIN text : ~IsSpace(text[x])}
<1>1. inked \in SUBSET (1..Len(text)) /\ i \in inked /\ j \in inked /\ inked \in SUBSET Nat
  OBVIOUS
<1>2. TrimSpace(text) = SubSeq(text, Min(inked), Max(inked))
  BY <1>1 DEF TrimSpace
<1> HIDE DEF inked
<1>3. Len(text) \in Nat /\ i \in Nat /\ j \in Nat
  OBVIOUS
<1>4. Min(inked) \in 1..Len(text) /\ Min(inked) <= i
  BY <1>1, Least
<1>5. Max(inked) \in 1..Len(text) /\ j <= Max(inked)
  <2>1. inked # {}
    BY <1>1
  <2>2. Max(inked) \in inked /\ \A y \in inked : y <= Max(inked)
    BY <1>1, <1>3, <2>1, Greatest
  <2>3. QED
    BY <1>1, <2>2
<1>6. Min(inked) \in 1..i /\ Max(inked) \in j..Len(text)
  BY <1>3, <1>4, <1>5
<1>7. QED
  BY <1>2, <1>6

\* A sequence holds its parts.
LEMMA HoldsItsParts ==
  ASSUME NEW part \in Seq(Int), NEW x \in Nat \ {0}, NEW y \in Nat, x <= y, y <= Len(part)
  PROVE  Holds(part, SubSeq(part, x, y))
<1>1. Len(SubSeq(part, x, y)) = y - x + 1
  BY Parts
<1>2. x + Len(SubSeq(part, x, y)) - 1 = y /\ x \in DOMAIN part
  BY <1>1
<1>3. QED
  BY <1>2 DEF Holds, At

\* Trimmed, it holds those that begin and end with no space.
LEMMA TrimmedHolds ==
  ASSUME NEW part \in Seq(Int), NEW i \in Nat \ {0}, NEW j \in Nat, i <= j, j <= Len(part),
         ~IsSpace(part[i]), ~IsSpace(part[j])
  PROVE  Holds(TrimSpace(part), SubSeq(part, i, j))
<1>1. i \in DOMAIN part /\ j \in i..Len(part) /\ Len(part) \in Nat
  OBVIOUS
<1>2. PICK a \in 1..i, b \in j..Len(part) : TrimSpace(part) = SubSeq(part, a, b)
  BY <1>1, TrimKeeps
<1>3. a \in Nat \ {0} /\ b \in Nat /\ a <= i /\ j <= b /\ b <= Len(part) /\ a <= b
  BY <1>1, <1>2
<1>4. TrimSpace(part) \in Seq(Int)
  BY <1>2, <1>3, Parts
<1>5. /\ i - a + 1 \in DOMAIN TrimSpace(part)
      /\ j - a + 1 \in (i - a + 1)..Len(TrimSpace(part))
      /\ SubSeq(TrimSpace(part), i - a + 1, j - a + 1) = SubSeq(part, i, j)
  BY <1>2, <1>3, <1>4, PartsOfParts
<1>6. i - a + 1 \in Nat \ {0} /\ j - a + 1 \in Nat /\ i - a + 1 <= j - a + 1
  BY <1>3, Offsets
<1>7. j - a + 1 <= Len(TrimSpace(part))
  BY <1>3, <1>4, <1>5
<1>8. QED
  BY <1>4, <1>5, <1>6, <1>7, HoldsItsParts

\* A trimmed part of a text holds what the part has between two characters.
LEMMA ChunkHolds ==
  ASSUME NEW text \in Seq(Int), NEW a \in Nat \ {0}, NEW b \in Nat,
         NEW i \in Nat, NEW j \in Nat, a <= i, i <= j, j <= b, b <= Len(text),
         ~IsSpace(text[i]), ~IsSpace(text[j])
  PROVE  Holds(TrimSpace(SubSeq(text, a, b)), SubSeq(text, i, j))
<1>1. a <= b /\ a <= i /\ i <= j /\ j <= b /\ b <= Len(text)
  OBVIOUS
<1> DEFINE part == SubSeq(text, a, b)
<1>2. part \in Seq(Int)
  BY <1>1, Parts
<1>3. /\ i - a + 1 \in DOMAIN part /\ j - a + 1 \in (i - a + 1)..Len(part)
      /\ part[i - a + 1] = text[i] /\ part[j - a + 1] = text[j]
      /\ SubSeq(part, i - a + 1, j - a + 1) = SubSeq(text, i, j)
  BY <1>1, <1>2, PartsOfParts
<1> HIDE DEF part
<1>4. i - a + 1 \in Nat \ {0} /\ j - a + 1 \in Nat /\ i - a + 1 <= j - a + 1
  BY Offsets
<1>5. j - a + 1 <= Len(part)
  BY <1>3, <1>4
<1>6. Holds(TrimSpace(part), SubSeq(part, i - a + 1, j - a + 1))
  BY <1>2, <1>3, <1>4, <1>5, TrimmedHolds
<1>7. QED
  BY <1>3, <1>6 DEF part

(* What a stretch of a text no longer than the overlap and one says, between *)
(* two characters that are not space, is said whole by one of its chunks:    *)
(* for every length of chunks and of overlap (search.go, chunkSearchText).   *)
THEOREM ChunksTearNothingShort ==
  ASSUME NEW text \in Seq(Int), NEW i \in DOMAIN text, NEW j \in i..Len(text),
         j - i <= Overlap, ~IsSpace(text[i]), ~IsSpace(text[j])
  PROVE  \E unit \in ToSet(ChunkSearchText(text)) : Holds(unit, SubSeq(text, i, j))
<1> DEFINE n == Len(text)
<1>1. /\ n \in Nat \ {0} /\ i \in 1..n /\ j \in i..n
      /\ i \in Nat \ {0} /\ j \in Nat /\ i <= j /\ j <= n
  OBVIOUS
<1>2. CASE n <= ChunkRunes
  <2>1. ChunkSearchText(text) = <<text>>
    BY <1>2 DEF ChunkSearchText
  <2>2. text \in ToSet(ChunkSearchText(text))
    BY <2>1 DEF ToSet
  <2>3. Holds(text, SubSeq(text, i, j))
    BY <1>1, HoldsItsParts
  <2>4. QED
    BY <2>2, <2>3
<1>3. CASE ~ (n <= ChunkRunes)
  <2>1. PICK k \in 1..ChunkCount(n) : ChunkStart(k) \in 1..i /\ ChunkEnd(n, k) \in j..n
    BY <1>1, NearIsTogether
  <2> DEFINE a == ChunkStart(k)
             b == ChunkEnd(n, k)
  <2>2. TrimSpace(SubSeq(text, a, b)) \in ToSet(ChunkSearchText(text))
    <3>1. ChunkSearchText(text)
              = [p \in 1..ChunkCount(n) |->
                    TrimSpace(SubSeq(text, ChunkStart(p), ChunkEnd(n, p)))]
      BY <1>3 DEF ChunkSearchText
    <3>2. QED
      BY <2>1, <3>1 DEF ToSet
  <2>3. a \in 1..i /\ b \in j..n
    BY <2>1
  <2> HIDE DEF a, b
  <2>4. a \in Nat \ {0} /\ b \in Nat /\ a <= i /\ j <= b /\ b <= n
    BY <1>1, <2>3
  <2>5. Holds(TrimSpace(SubSeq(text, a, b)), SubSeq(text, i, j))
    BY <1>1, <2>4, ChunkHolds
  <2>6. QED
    BY <2>2, <2>5
<1>4. QED
  BY <1>2, <1>3
================================================================================
