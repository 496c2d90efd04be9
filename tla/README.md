# carn: a verification project

carn is a terminal program that archives the session logs of Claude Code and
Codex, builds a searchable canonical store from the archive, and lets its user
browse, search, read and measure the sessions while it resyncs. This directory
holds TLA+ models of its core, TLC runs that check them on small instances, and
TLAPS proofs of what matters most for every instance.

Contents: [the system](#the-system), [the modules](#the-modules), [what the runs
show](#what-the-runs-show), [fairness and deadlock](#fairness-and-deadlock),
[what is proved](#what-is-proved), [what is only
checked](#what-is-only-checked), [what the code does not
keep](#what-the-code-does-not-keep), [not modelled](#not-modelled),
[plan](#plan). `PROJECT.json` maps every definition to the lines it models and
lists the hazards, each with the properties that would catch it.

## The system

| component | code | state | operations |
|---|---|---|---|
| Import pipeline | `internal/archive`, `internal/source/source.go` | archived files, their sizes and times | `Analyze`, `Run`, `copyFile`, `FileNeedsSync` |
| Analysis of the sources | `internal/source/*/analyze.go`, `internal/source/claude/import*.go` | none: reads the sources and the archive | `Analyze`, `SyncCandidates`, classification by conversation |
| Canonical store: files | `internal/canonical` (`store*.go`, `sqlite_db.go`) | SQLite file and WAL, cached handle, cached catalog | `RebuildAll`, `NeedsRebuild`, `List`, `Load`, `DeepSearch`, the `Query` calls |
| Canonical store: content | `internal/canonical` (`incremental.go`, `sqlite_*.go`) | conversations, chunks, search index, statistics | the transaction of an incremental rebuild, the full rebuild |
| Incremental resolution | `internal/source/claude/incremental.go`, `internal/source/codex/incremental.go` | none: reads the store and the changed files | `ResolveIncremental`, grouping |
| Claude transcripts | `internal/source/claude` | one buffer for all sessions of a conversation | scan, parallel parse |
| Codex transcripts | `internal/source/codex` | request window, pending thoughts and plans | scan, load, merging of subagent threads |
| Application | `internal/app` | screen, import phase, event channels, a goroutine per operation | `Update` and its handlers |
| Deep search | `internal/canonical` (`search.go`, `sqlite_search.go`) | none: reads the index | chunking, `DeepSearch` |
| Browser | `internal/app/browser` (`browser_*.go`) | list, query, search status, open and loading conversation, caches | search, open, load, resync messages |
| Transcript viewer | `internal/app/browser` (`viewer_*.go`), `internal/app/elements` | toggles, viewport, search, dock, render cache | keys of an open transcript |
| Statistics | `internal/stats`, `internal/app/stats` | filter, range, split, tab, cached figures | keys, queries of stored rows |

How they interact. The application starts an operation as a command: a goroutine
that calls `Pipeline.Analyze` or `Pipeline.Run` and sends what happens through
an unbuffered channel; each message makes the screen that is shown wait for the
next. `Run` copies the changed files into the archive, asks the store whether it
has to be built, and hands `RebuildAll` the changed paths. `RebuildAll` asks the
sources which conversations these paths replace and applies the answer in one
transaction through the cached handle, or falls back to a full rebuild, which
writes a temporary database and renames it over the old. The browser, the viewer
it opens and the statistics read the same store from goroutines of their own.

Behaviours that are hard: the providers write the files being copied; a run is
several steps of which each may fail alone, and the process may die between any
two; the store is one name for a sequence of files to which readers hold handles
across renames; an operation is heard only while each of its messages is handled
by a screen that waits for the next; an incremental rebuild must leave what a
full one would, though only the changed files decide what it looks at; answers
arrive in another order than they were asked for; two passes over the same
records must agree.

## The modules

Of the modules, `SnapshotStore` is what a component promises, the `MC` modules
hold the instances, the `Proofs` modules the theorems, and all others model code. Operators keep the names of the functions they translate.

**ImportPipeline.** One `Analyze` or `Run` at a time and the providers beside it.
`source[f]` is a provider's file (a revision is also its modification time),
`raw[f]` the archived copy (`rev` 0: no complete content), `store[f]` and `built`
what the store has read, `status[f]` and `stamp[f]` the copy in flight. `CopyOpen`,
`CopyWrite`, `CopyStamp` are the moments of `copyFile`, for several files side by
side as in `syncCandidates`; every step may fail and the process may die. The
error of `syncImportStage` is no step of its own: it comes of quitting, which is
`Crash`.

**ImportAnalysis** extends it with what `Analyze` says before a run. A source is a
value: projects of sessions with the lines their slug is read from, and rollouts.
How each file stands to its copy, which files cannot be read and which projects
cannot be listed are parameters, so that every combination is looked at in one
state, and `Found` is the combination that a state of `ImportPipeline` is.

**CanonicalStore, SnapshotStore.** Every call of `Store` step by step: `pathExists`,
`cachedDB`, open, `cacheDB`, use. Files are numbered by inode, so that a handle
(`on`) and the name (`final`) can part; `wal` is the file whose log lies under the
store's name. The content of a database is the set of archive changes it has
taken up. `setting` says whether calls may overlap and what may fail.
`SnapshotStore` is what the next process that opens the store is promised: a
snapshot that only grows, or nothing, and what replaces nothing holds every
acknowledged change. The refinement mapping is
`snapshot <- IF Usable THEN Reopened ELSE NoCatalog`.

**ClaudeSessions, CodexRollouts, IncrementalRebuild.** The two sources are
operators of the archive and of the stored rows: which files form which
conversation, and which stored conversations a change replaces.
`IncrementalRebuild` composes them with the tables (`rows`, `chunks`, `fts`,
`stats`), each SQL statement of the transaction an operator, in the order of the
code. Row IDs are reused as SQLite reuses them. Files grow as the providers let
them grow: a slug or a parent, once written, stays. `CanonicalStore` looks at the
same rebuild from outside.

**AppRouter.** Messages are a bag, because every command is a goroutine of its own
and nothing orders them. An operation (`ops[id]`) is the goroutine with what it
still has to send, `waits[id]` counts the commands blocked on its channel, and
`Deliver` is their rendezvous. `Habits` says what the user does without waiting:
open the statistics during a resync, edit the configuration during an analysis,
press a key before the last one took effect. What a `Run` does is reduced to
four states per file; `ImportPipeline` has the rest. A file is `stranded` when the
`Run` that copied it has failed in `NeedsRebuild` or `RebuildAll`: no other will
hand it to a rebuild, because it equals its source, until the provider writes it
again or the whole store is built.

**TranscriptPane, BrowserSearch, Browser.** The Go model of the browser is a value,
and so is `m` here: every operator takes it and returns the next one with the
commands it issues. `Browser` puts keys, commands in flight, resyncs and the
statistics screen around it. A resync that failed or found nothing to do is only
cleared; whether the key of a transcript reaches it does not depend on the filter
(`ViewerKey`).

**DeepSearch, BrowserWithSearch.** The text search as operators: which texts of a
conversation are indexed, how they are cut into chunks, which chunks a query finds,
which conversations come of it, in which order and with which previews. SQLite's
index is external. `Browser` takes the answers as a constant; `BrowserWithSearch`
says that they are those of `DeepSearch` (`AnswersAssumption`).

**CodexTranscript, ClaudeTranscript.** A step reads one record, in the scan and in
the load, or (Claude) one goroutine appends one message to the shared buffer.
What was said is kept beside them (`said`, `file`), so that nothing lost and
nothing shown twice can be told.

**ContextLedger, TranscriptLines, TranscriptViewer.** From messages to the Context
Series, to segments under the toggles, to rendered lines with the map that tells
which message is on a line; then the keys of the viewer, its render cache and its
search. A line is a few words and a word ten columns.

**StatsAggregation, StatsScreen.** The figures (totals, heaviest sessions, activity
from sessions and from stored rows, streaks, trend, tool calls, each split by a
dimension) as operators, and the screen that caches them under filter, range and
split while queries of stored rows fail and recover. A session has a total of its
own (`usage`), which the Overview sums; the stored rows sum its messages. The two
need not agree, see below.

**TurnFigures, CacheFigures, ToolFigures, PerformanceSequence, PerformanceFigures,
StatsFigures.** The figures of the other tabs as operators over sessions and their
messages: turns by position and the statistic modes, cache rates and first turns
by version, tool rates, what the order of a session's actions says, and the
scorecard with its days, periods, buckets, trends and scores. Where the code has
floating point a figure is a pair of numerator and denominator. They have no state
of their own; `StatsFigures` puts them beside the screen.

## What the runs show

| run | instance | properties |
|---|---|---|
| `pipeline` | 2 files, 3 writes, 2 faults of any kind; beside them sources of 3 sessions, or of 2 projects and a rollout | `TypeOK`, `DoneMeansStoreCurrent`, `NothingForgotten`, `CurrentMeansArchived`, `AnalysisTrue`, `DeletedSourcesKeepTheirCopy`, `StaleFilesRecover`, `CatchesUp` |
| `store` | 2 readers and 1 writer in two settings: taking turns under every fault, and overlapping without faults; 2 changes, 6 inodes, 4 handles, 2 faults | `AckedDurable`, `CachesSound`, `RefinesSnapshotStore`, `StoreHeals` |
| `incremental` | 3 Claude files of one project (one a subagent's), one slug, and 3 rollouts; 4 Claude or 5 Codex writes, 2 when both sources are written; 1 file lost | `TablesAgree`, `ConversationsCurrent`, `SessionsKept` |
| `app_router` | 2 files, 3 slots, 1 report, 1 edit, 1 fault, a user who waits | `Listened`, `OneRunAtATime`, `OverviewTrue`, `ResyncEnds`, `CopiedGetsStored` |
| `app_any_user` | 2 files, 2 slots, 1 edit, 1 fault, no reports, every habit; symmetric | `CopiedIsHeld` |
| `app_stats_during_resync` | habit `stats` | counterexample to `ResyncEnds` |
| `browser` | 2 conversations, a cache of 1, 1 query, 2 filters, 2 revisions, 1 incident, 2 commands in flight; texts up to 15 characters, 2 archives under 8 searches | `CacheInOrder`, `NoOtherQuestion`, `UnderWay`, `PaneFollowsCursor`, `ReloadHappens`, `SearchRight` |
| `browser_settles` | 1 conversation, the rest as above | `Settles` |
| `codex_transcript` | 5 records of a main thread and two subagents | `TranscriptFaithful`, `ThreadsMerged`, `UsageAttachedOnce` |
| `claude_transcript` | 2 session files, 3 records each, 4 in all | `SessionsWhole`, `CountedOnce`, `ScanAgreesWithParse` |
| `statistics` | an archive of 3 conversations with 5 sessions and an empty one, 2 ranges, 3 filter dimensions, 2 splits, the 2 heaviest sessions; short sessions of every mix of messages for the figures of the other tabs | `DerivedCurrent`, `FiguresAgree`, `NotificationTrue` |
| `transcript_viewer` | 4 transcripts under keys, layouts and reopenings, 324 short ones under two toggles, 2 cached renderings | `ViewerTrue`, `TranscriptMarked`, `ReaderKept` |

Why the bounds are enough:

* Two files let one be copied while the other is rebuilt or fails; three writes
  give one before, one during and one after a run; two faults let the failure of
  one step meet the failure of the recovery.
* A full rebuild needs three store files alive (old, backup or temporary, one
  still open), so six inodes never run out; two changes give an acknowledged
  one and one in flight.
* Three Claude files give two members of a group and a subagent beside one of
  them, four writes let a member arrive, gain its slug and grow in syncs of
  their own. Three rollouts are the shortest chain with an orphan that has an
  orphan; five writes are one more than the shortest history of any
  counterexample met while the properties were written. The two sources share
  nothing but row IDs, so they need few writes together.
* An analysis and the sync it leads to need two slots, and a channel that is
  still remembered a third.
* Three sessions in every mix of one with the slug, one without and a subagent's
  are the fewest in which a conversation meets a new, a stale and a current file in
  every order; each takes every standing, readable or not.
* A cache of one is full at once. Two revisions make an answer late; two commands
  in flight arrive out of order.
* Chunks of five characters that overlap by two give up to five chunks in texts of
  fifteen; the letters of a text are its positions, so that a stretch lost or found
  elsewhere is seen, and blanks stand at every place of the texts up to seven.
* Five records let text, thinking, a call, its result and a token count meet in
  every order; the fourth Claude record runs into the neighbour's slice.
* One fault makes a `Run` fail after its copies, and the symmetric instances need no
  reports of progress: a report moves no file, and `app_router` has them.
* The archive of the statistics has a subagent with its parent's name, sessions
  of equal weight in two projects and with one time, one past midnight, one without
  a model and a message without a time, and Codex sessions whose totals are more
  than their messages show. The other figures are compared with definitions that count in another
  way, on sequences long enough for a second turn after a subagent's, a repeated
  action after a change, and a period before the range with and without sessions.

Several properties join conditions on one part of the screen or the store:
`FiguresAgree` says of every tab that its figures are right and of the list of
heaviest sessions that each opens the session it shows, `CachesSound` also that no
reader is shown an empty database in place of a store that is there, `AnalysisTrue`
that every analysis counts right and that the run offered is the run that follows.

New and to update are told apart in the order in which the files of a conversation
are seen (`recordClassifiedConversation`): a conversation with a new and a stale file
counts as new if the new one is seen first. `CountsRight` leaves exactly this open.

Every property has a mutant of the code it is about: an operator next to the
definition it replaces, listed in `PROJECT.json`, under which the run fails.

## Fairness and deadlock

* ImportPipeline: a run that has begun goes on (the goroutines of
  `syncCandidates` are scheduled) and the user runs again and again, since nothing
  in carn starts a run by itself. `StaleFilesRecover` and `CatchesUp` are about
  such a user.
* CanonicalStore: a call that has begun goes on, and runs are started again and
  again; strong fairness for `Run`, because readers may take turns for ever.
* AppRouter: weak fairness of every goroutine, of the rendezvous on its channel,
  of `Update` (Bubble Tea's loop keeps taking messages) and of closing the
  statistics, so that the resync that never ends is not one nobody looks at. No
  other key has to be pressed.
* Browser: weak fairness of timers and commands of the search, and of `Update`
  taking their messages. No key has to be pressed.
* The other modules state no liveness: their steps are keys or records.

`CHECK_DEADLOCK FALSE` stands where the system really stops: an application,
browser, viewer or statistics screen that waits for a key, and a finite history
of writes or records that has been read. The pipeline and the store check for
deadlock.

## What is proved

All theorems hold for every value of the constants that satisfies the
assumptions of the modules. TLC evaluates each assumption on the instances.

**ImportPipelineProofs**, for any files, writes and failures. `TypeCorrect` and
`DeletedSourcesSafe` whatever fails; `ArchiveRemembered`, `RunsLeaveStoreCurrent`
and `AnalysisTruthful` as long as the only failures that have struck are sources
that could not be looked at and copies that could not be opened or written, which
the properties say themselves (`OnlyCopiesFailed`). The
inductive invariant has `StageInv` (the stage of the run against the status of the
copies), `CopyInv` (what stamp, content and source of a copy in flight can be to
each other, so that an equal time means equal content or a different size),
`NothingForgotten`, and `SourceInv` (revisions and sizes are bounded by the clock).
None is inductive without the others.

The same module proves `ImportScreenTruthful`: `AnalysisTrue` for any projects,
sessions and rollouts, however their files stand and whichever cannot be read. It
assumes of a layout that a file is in one place (`LayoutsAssumption`; the tree is
walked once, and the two sources have directories of their own) and of a slug that it
is no path (`SlugsAssumption`; `classify` puts both into one key, so otherwise a
session could fall into another's group). Nothing about the states of the pipeline
is needed. The counts of a project are cardinalities of sets of groups
(`ProjectCounted`), a group stands as its files do in whatever order they are seen
(`StandsAll`), and what two projects add shares no file, so that counts, queues and
conversations add up together (`CountsAdd`). `AnalyzeClaude`, `ClaudeCandidates`,
`ConversationState` and `Kept` are recursive functions: that each exists follows from
`IteratesExist`, and what it holds is carried from 0 to its end by `UpTo`.

**CanonicalStoreProofs**, where calls take turns, for any number of goroutines,
changes, inodes and failures: `AcknowledgedIsDurable` and `CachesAreSound`. The
invariant `TurnsInv` says what the files are (`FilesInv`: the
log under the store's name is the store's, a moved file is whole), what handles
and catalog may be (`HandlesInv`, `CatalogInv`), and what each stage of a call has
established (`LoadStage`, `RebuildStage`). `StoreImplementsSnapshot`, at its end,
shows the refinement: every step publishes, loses or stutters, because a step that
takes nothing out of the file under the store's name maps to one of them
(`GrowingStepMaps`).

**IncrementalRebuildProofs**, for any files, slugs, parents, writes, losses and
rebuilds of both kinds in any order: `TablesAlwaysAgree`, in its first part. The invariant `TablesInv`
says that rows are of two kinds, that row and chunk IDs and cache keys are unique
and bounded, that chunks belong to rows and statistics follow them, and that the
index holds the postings of the chunks and no others. The step that is not
obvious is the transaction of an incremental rebuild. Everything it inserts has
to be under a key it deletes; but a key that several conversations name is
attached to one of them, in an order the code does not fix, and deleted only if
that one parsed. `ParsedIsReplaced` shows that the conversation with the key of its
own is never left behind: for Claude because a slug, once written, stays, so a row
that holds a file is keyed by the file's path or by its present group; for Codex
because every resolved family parses and two families never give one key. The
climb along parents is a recursive function, and what is needed of it follows
from the least-number principle (`LeastNatural`, `StagesExist`, `UpTo`).

Its third part has, with the same generality, `ConversationsAlwaysCurrent` and
`SessionsAreKept`. `ContentInv` joins `TablesInv` with two invariants.

* `SessionsInv`, of the Claude rows: a file that waits for a rebuild is there or
  lost; the files of a row scan, and a row keyed by a path holds that file alone.
  A rebuild groups all sessions that share the key of a changed one, so a
  conversation that is not settled is resolved as a whole.
* `CodexInv`, of the Codex rows: each row is *founded* on its thread (`ThreadsOK`),
  that is, every chain of parents among its files leads to the thread or is broken
  by a file that disappeared, and the row of a subagent holds nothing else. From it
  follow the three steps of the argument. The row that the store gives for the root
  of a walk is the row of that root (`RootOfStored`), so a rebuild replaces rows by
  families that list their rollouts (`RolloutsStayListed`). A changed rollout of a
  main thread is resolved to that thread, unless a subagent above it has a row of
  its own (`RootOfAFamily`). And a row that could hide a rollout in this way is
  never removed without such a row taking its place or the thread's own row being
  written anew (`NothingStranded`, by induction from the thread downwards): so what
  `CodexRootsCurrent` excludes after the rebuild was excluded before it.

The walk itself is the subject of the second part. What is below a thread and
what is above a rollout are least sets, so that induction is a subset; the climb,
which counts steps, meets them in `BelowIsClimbed` (the shortest way up repeats
nothing, hence is no longer than the climb) and in `WalksEnd` (a walk ends on a cycle
of ancestors, or at a rollout without a changed parent, where all that climb there
end). TLC found `ThreadsOK` and the parts of `SessionsInv` true on the instance of the
run `incremental`.

**AppProofs**, first part, of `AppRouter`, for any files, operations and failures. For every user:
`CopiedHeldAlways`, from `HeldInv`, which asks for a holder that is still copying or
has announced its rebuild: a `Run` hands on what it holds, stores it or, when
`NeedsRebuild` or `RebuildAll` fails, strands it. For the user who waits (`Habits = {}`):
`AlwaysListened`, `RunsOneAtATime`, `OverviewAlwaysTrue`, from `CalmInv`: one operation
is under way, the screen shown is the one that started it, and exactly one
token (a message on its way or a command that waits) keeps it heard.

Its second part is about `TranscriptViewer`, for any transcripts, layouts, queries
and size of the cache: `ViewerAlwaysTrue` and `ReaderAlwaysKept`. It goes the way of
the modules, one lemma for each operator: the segments come in the order of the
messages, the ledger keeps that order, and the rendering (`ContentDrawn`) is a
sequence of lines with a map in which later lines are of later messages. A
scroll to the line of a message stays on that message (`PreservingKeeps`) and an
offset for a line shows the line (`OffsetShows`). `ViewerInv` says what the two
properties rest on: toggles and layout are among those of the setting
(`Standing`), what is shown is the rendering of the present view (`Showing`), the
cache, its shared copy and the viewer kept for reopening hold views of that
transcript alone (`Caching`), the offset fits the lines (`Placed`) and the matches
are those of the text shown (`Searching`). Of the constants it assumes that
transcripts are sequences of messages, and that a setting has a layout
(`SessionsAssumption`, `SettingsAssumption`).

**BrowserProofs**, for any conversations, queries and
filters, any size of the cache and any number of commands in flight:
`CachesInOrder`, `AnswersOnlyWhatWasAsked`, `WaitsOnlyForWork`, `PaneFollows`,
`ReloadsHappen`. The first half has a lemma for each operator of the Go model:
which of the parts `CacheOK`, `QuestionOK`, `LoadKept`, `SearchKept` it preserves.
`BrowserInv` adds what is in flight; an update may stop waiting for something or
issue the command for it, and a message may be taken only by an update that does
one of the two. With every step comes what it does to a reload that is pending
(`ReloadKept`): it takes the reload, leaves a list or the search for the query under
way, or is one of the four that drop it. The third part is about chunks of any length and
overlap: `ChunksTearNothingShort`, that a stretch of a text no longer than the
overlap and one, between characters that are not space, is whole in a chunk. `Ends`
and `LoopEnds` count the steps of the loop that cuts, `Least` finds the chunk whose
beginning is the last before the stretch, and `TrimKeeps` shows that trimming a
chunk takes nothing of what it holds.

**StatsScreenProofs**, for any archive, dimensions and sequence of keys:
`FiguresFollowKeys` and `NotificationsKeepUp`. The proof looks at which steps change
an input of the cached figures, never at what is computed. What is computed without
a fold is proved for all values after them: `DaysNumberedAlways` (the day numbers of
`civilDayNumber` follow the calendar of every year), `BaselineAdjoins` (the period
before a range), `BucketsCoverTheRange` (for every length of a range), and
`ScoresAlwaysRight` (bounds, symmetry, and that a better figure never scores less).

**CodexTranscriptProofs**, for any texts, any number of subagents and records in any
order: `FaithfulAlways` (the calls and results of a rollout are all shown, each once
and in order; its plans and thoughts are those that are shown, as sets; a thought is
never taken for hidden when it is shown; an answer and its echo give one message; the
scan counts, titles and fails what is shown) and `UsageAlwaysOnce` (no step takes a
usage off a message, changes it, or gives one to an answer from before the last
question). `IInv` has three parts. `LoadGood`: the messages are in the order of their
times, the window of the request under way holds none that was asked or paid for, and
what is pending belongs after the last message. `ScanFits`: what the scan remembers of
the last message and of the calls is what the load shows. `Told`: what was said is
what is shown together with what is pending. None is inductive alone, because an echo
is told by the last message, which the scan has not kept but its role and text.
Sequences are taken apart into the parts that a property looks at (calls, results,
dividers), and for each there is a lemma that says what one message more adds.

**ClaudeTranscriptProofs**, for any number of files with any records:
`SessionsAlwaysWhole`, `AlwaysCountedOnce`, `ScanAlwaysAgrees`. The invariant `IInv` has

* `FilesFit`: the scan of a file and what parsing it alone gives fit together
  (`ScanFits`). They track a response by the last ID of its thread, the scan at its
  first record and the parse at the first that shows something; that both count
  the responses follows from `PaidFor`, which says of a tracker that the thread can go
  on only with a response it holds, if that one was counted (`PaidForMore`).
* `ParsesFit`: a goroutine has what parsing the records it has read alone gives,
  within its part of the buffer or, once that was full, in a slice of its own.
  The parts of two files lie apart, since they begin at sums of the same counts
  (`PartsApart`), so a write in place changes nothing for the others (`OthersStay`).
* `BufferFits`, `BundleFits`: the buffer is as long as the counts, and what is
  loaded is made of the slices. Where every part is full the buffer is their
  concatenation (`ExactIsFlat`).

TLC found `IInv` true on the instance of the run `claude_transcript`. What a file parsed alone
gives is a recursive function of the number of its records, and so are sums and
concatenations; what is needed of them follows from `UpTo`, an induction over a
set.

## What is only checked

* Liveness: `StaleFilesRecover`, `CatchesUp`, `StoreHeals`, `ResyncEnds`,
  `CopiedGetsStored`, `Settles`. The installed provers have no liveness and no
  `ENABLED`.
* What folds over sequences compute: the merging of subagents into their parent's
  transcript (`ThreadsMerged`), the figures (`FiguresAgree`), the ranking of a
  search (`SearchRight`, except for what the chunks keep) and where the renderings
  put their dividers and marks (`TranscriptMarked`).
  Induction over data takes theorems with an operator parameter, which the provers
  cannot instantiate; where a state goes through the data step by step, as the two
  transcripts do, an invariant takes its place.
* CanonicalStore where calls overlap: with `overlap` the safety properties
  are checked as far as they hold.

## What the code does not keep

`app_stats_during_resync` is the one run that expects a counterexample: opening
the statistics during a resync drops the message that would have waited for the
next one. The resync never ends, R is dead, and files already copied wait for a
restart.

TLC also refutes the following. The definitions stand at the end of the modules
or become visible when the condition named is dropped; no run keeps them.

* ImportPipeline without `OnlyCopiesFailed`, and `RetryRefreshes` of AppRouter: a
  rebuild or its decision that fails, or a process that dies, after the copies. The
  import screen offers to "retry importing queued files and refreshing the local
  store" (`import_overview_help.go:79`; also `README.md:132`,
  `import_overview_activity.go:116`), but the changed paths lived only in that call
  (`import_pipeline.go:46`): the retry finds every file equal to its source, hands no
  path to a rebuild and reports success, and the file is missing from the store
  until its source changes. `CopiedIsHeld` and `CopiedGetsStored` name this failure
  as the one way out.
* CanonicalStore with overlap: a `List` during an incremental rebuild puts the old
  catalog back after `RebuildAll` dropped it (`store.go:99`); a reader reopens the
  old file between `invalidateDB` and the rename, or finds it there and creates an
  empty database when it has gone (`HandleOnStore`, `NeverBlank`, `AckedDurable`;
  `rebuild.go:77`, `store_sqlite.go:81`); two writers lose each other's changes.
  Where calls overlap the run therefore begins with a missing store.
* AppRouter: an analysis that outlives an edit of the configuration reports to
  the new screen (`AnalysisOfConfig`, add `configure` to `Habits`); two R keys start
  two Runs (`OneRunAtATime`, add `hasty`).
* IncrementalRebuild: an orphan of an orphan vanishes (`OrphansKept`,
  `codex/incremental.go:195`, against `VOCABULARY.md`, "processing the rest"); a
  stored transcript is not what parsing its files gives, because a subagent file
  beside it changed (`TranscriptsReusedUnchanged`, `VOCABULARY.md:45`); subagents
  whose parent arrived late stay where they were (`SubagentsNested`,
  `subagent_test.go:14`). A rollout below an orphan is listed in two rows, and a
  change of it reaches the older one only (`CodexRootsCurrent` without `Stranded`,
  five writes).
* Browser: `ShownPassFilter`, `ShownIsCurrent`, `TranscriptCanBeLeft`,
  `EnterOpensWhole` (`VOCABULARY.md:43`). Four things drop a reload that is
  pending, and the transcript on screen stays the old one: clearing the query, a
  search that fails (`browser_messages.go:119`), a list that cannot be loaded, and
  the statistics when they take the message (`ReloadHappens` names them); a filter
  changed during a search shows "context canceled" as a failure.
* CodexTranscript: the messages of a subagent need not follow their divider
  (`SubagentsContiguous`); a token count that carries rate limits only sets the
  session's usage back (`TotalUsageKept`).
* ClaudeTranscript: the scan counts empty assistant records and leaves out meta
  records, the parse does the opposite; plans of linked subagent files are not
  deduplicated. At most one plan per message keeps the in-place deduplication of
  shared arrays harmless.
* Statistics: the tokens of the Overview (`overview.go:65`, the totals of the
  sessions) are not those of Activity (`sqlite_stats.go:297`, their messages): for
  Codex a total may be larger (`load_usage_test.go:50`, 150 against 640;
  `load_request_usage_test.go:140`; `daily_tokens_test.go:13`). `BucketsAgree` is about the
  rows and the messages only. When the query of stored rows fails, the Activity tab shows zeros
  while its split falls back to the sessions; the snapshot is computed twice at
  start, first with an empty archive directory; the timer that clears a
  notification may clear a later one; an hour of daylight saving compares ranges
  of different numbers of days.
* Viewer: "above the first message nothing moves" (`viewer_scroll_anchor.go:5`)
  fails while a search is active, because a rendering moves to the first match,
  and every rendering returns to the first match; `p` is refused when all plans
  are in hidden messages.

## Not modelled

* Of the figures: the diagnostics and explanations of the scorecard, formatting,
  and the rounding of floating point, in whose place are exact ratios. Of the
  screen (`StatsScreen.Figures`): the rows of turns and action sequences that a
  filter by version drops, and the split of the cache tab, whose figures are checked
  apart from the keys (`StatsFigures`). The clock stands still between two
  recomputations, and every session has a file, as a scan gives it one.
* Of the transcripts: Codex calls without an identifier, and the difference between
  a rejected call and a failed one.
* Of the store: an error in closing the second of two handles opened at once
  (`store.go:211`); the calls that open two overlap, and no fault strikes there.
* Of the search: the folding of case and accents, the shortening of previews.
* Blob codecs, JSON fields, drift reports: pure functions of their input, covered
  by the repository's tests.
* Widgets and layout, configuration files, logging, release tools: input and
  output.
* Quitting cancels every operation, which for the archive is `Crash`. Two
  processes on one archive are outside every run: the code excludes nothing there.

## Plan

1. `ImportPipeline`, `CanonicalStore` refining `SnapshotStore`, `AppRouter`,
   `Browser`: modelled, checked, proved.
2. `IncrementalRebuild`: modelled, checked, proved: the tables, the content of the
   rows and that no session is dropped.
3. Transcripts and the analysis of the sources: modelled, checked, proved, but for the
   merging of Codex threads. The viewer: modelled, checked, proved, but for the
   dividers and marks. Statistics with the figures of every tab, deep
   search: modelled and checked; proved: the statistics screen as far as it does not
   depend on what is computed, calendar, periods, buckets and scores, and that chunks
   tear no short word.
4. Left to prove: the dividers and marks of a transcript; the calls that
   overlap in `CanonicalStore`, under the weaker properties they keep.
