------------------------------ MODULE AppRouter ------------------------------
(***************************************************************************)
(* The message routing of carn's terminal application: appModel.Update     *)
(* sends every message to the screen that is shown, and a background       *)
(* operation (an archive analysis or a sync) reports to the application    *)
(* through an unbuffered channel that only keeps flowing while each of its *)
(* messages makes some screen wait for the next one.                       *)
(*                                                                         *)
(*   actors     the user's keys, Update (one message at a time), and one   *)
(*              goroutine per operation                                    *)
(*   ops        the goroutines and what each still has to send             *)
(*   waits      the commands blocked in waitForAsyncImportMsg, per channel *)
(*   inbox      the messages commands have returned: every command is a    *)
(*              goroutine of its own, so they reach Update in any order    *)
(*                                                                         *)
(* A message and the channel of an operation are named by the operation.   *)
(* Quitting (which cancels every operation) is left out, and so is what a  *)
(* Run does to the disk beyond the state of each file: that is             *)
(* ImportPipeline.                                                         *)
(***************************************************************************)
EXTENDS Naturals, FiniteSets, Bags

CONSTANTS Files,        \* the session files of the sources
          Ops,          \* slots for operations, reused once nothing refers to them
          MaxProgress,  \* progress reports of one analysis, at most
          MaxEdits,     \* bound: how often the configuration is edited
          MaxFaults,    \* bound: how many operations fail
          Habits        \* what the user does without waiting, of AllHabits

AllHabits == {"stats",      \* opens the statistics while a resync runs
              "configure",  \* edits the configuration while an analysis runs
              "hasty"}      \* presses a key before the last one took effect

ASSUME RouterAssumption ==
    /\ IsFiniteSet(Ops) /\ IsFiniteSet(Files)
    /\ MaxProgress \in Nat /\ MaxEdits \in Nat /\ MaxFaults \in Nat
    /\ Habits \subseteq AllHabits

VARIABLES
    view,          \* appModel.state
    config,        \* [gen: which configuration is in force, valid: its status]
    overview,      \* importOverviewModel: phase, analysis and event channels
    resync,        \* browserResyncState.phase; "idle" is active = false
    resyncEvents,  \* appModel.resyncEvents
    ops, waits, inbox,
    file,          \* per file: in the store; newer at its source ("fresh"); archived and
                   \* not stored, by a Run that goes on ("copied") or failed ("stranded")
    built,         \* the canonical store exists
    faults

vars == <<view, config, overview, resync, resyncEvents, ops, waits, inbox,
          file, built, faults>>

None == "none"

(***************************************************************************)
(* What an operation reports at its end: the configuration it was started  *)
(* under, ImportAnalysis.NeedsSync and the error.                          *)
(***************************************************************************)
Result(gen, needs, err) == [gen |-> gen, needs |-> needs, err |-> err]
NoResult == Result(0, FALSE, FALSE)

Message(type, from, result) == [type |-> type, from |-> from, result |-> result]
Note(type, from) == Message(type, from, NoResult)

KeyMessages == {"resyncRequested", "openStats", "closeStats",
                "configEditRequested", "configEdited"}
AsyncMessages == {"analysisStarted", "analysisProgress", "analysisFinished",
                  "syncStarted", "syncProgress", "syncFinished"}

Closed == [kind |-> "analysis", gen |-> 0, pc |-> "closed", left |-> 0,
           unsent |-> 0, todo |-> {}, took |-> {}, result |-> NoResult]

Running(id) == ops[id].pc # "closed"
Pending(types) == {m \in BagToSet(inbox) : m.type \in types}

(***************************************************************************)
(* Slots nothing refers to any more.                                       *)
(***************************************************************************)
Unused ==
    {id \in Ops : /\ ~Running(id) /\ waits[id] = 0
                  /\ id \notin {resyncEvents, overview.analysisEvents,
                                overview.syncEvents}
                  /\ \A m \in BagToSet(inbox) : m.from # id}

(***************************************************************************)
(* startImportAnalysisCmd and startImportSyncCmd: a goroutine starts and   *)
(* the command returns its channel. `others` is the inbox besides.         *)
(***************************************************************************)
Launch(kind, started, gen, others) ==
    \E id \in Unused :
       /\ ops' = [ops EXCEPT ![id] =
                    [Closed EXCEPT !.kind = kind, !.gen = gen, !.left = MaxProgress,
                         !.pc = IF kind = "analysis" THEN "scan" ELSE "collect"]]
       /\ inbox' = others (+) SetToBag({Note(started, id)})

StartAnalysis(gen, others) == Launch("analysis", "analysisStarted", gen, others)
StartSync(others) == Launch("sync", "syncStarted", config.gen, others)

(***************************************************************************)
(* waitForAsyncImportMsg: one more command receives from the channel; a    *)
(* nil channel gives no command.                                           *)
(***************************************************************************)
WaitFor(events) ==
    waits' = [id \in Ops |-> IF id = events THEN waits[id] + 1 ELSE waits[id]]

NewOverview(valid) ==
    [phase |-> IF valid THEN "analyzing" ELSE "ready", analysis |-> NoResult,
     analysisEvents |-> None, syncEvents |-> None]

(***************************************************************************)
(* The application as it starts, with a valid or an invalid configuration; *)
(* importOverviewModel.Init starts the first analysis. The store and each  *)
(* file may be in any state an earlier session left complete.              *)
(***************************************************************************)
Init ==
    /\ view = "import" /\ resync = "idle" /\ resyncEvents = None
    /\ waits = [id \in Ops |-> 0] /\ faults = 0
    /\ built \in BOOLEAN /\ file \in [Files -> {"stored", "fresh"}]
    /\ built \/ file = [f \in Files |-> "fresh"]
    /\ \E valid \in BOOLEAN, id \in Ops :
         /\ config = [gen |-> 0, valid |-> valid]
         /\ overview = NewOverview(valid)
         /\ ops = [i \in Ops |-> IF valid /\ i = id
                       THEN [Closed EXCEPT !.pc = "scan", !.left = MaxProgress]
                       ELSE Closed]
         /\ inbox = IF valid THEN SetToBag({Note("analysisStarted", id)})
                             ELSE EmptyBag

-----------------------------------------------------------------------------
(* The user's keys. *)

Calm == "hasty" \in Habits \/ Pending(KeyMessages) = {}

Press(type) == inbox' = inbox (+) SetToBag({Note(type, None)})

(***************************************************************************)
(* Enter on the import screen: startSync, or on to the browser.            *)
(***************************************************************************)
PressEnter ==
    /\ view = "import" /\ config.valid /\ Calm
    /\ \/ /\ overview.phase = "ready" /\ ~overview.analysis.err
          /\ overview.analysis.needs
          /\ overview' = [overview EXCEPT !.phase = "syncing"]
          /\ StartSync(inbox)
          /\ UNCHANGED view
       \/ /\ \/ overview.phase = "done"
             \/ /\ overview.phase = "ready" /\ ~overview.analysis.err
                /\ ~overview.analysis.needs
          /\ view' = "browser"
          /\ UNCHANGED <<overview, ops, inbox>>
    /\ UNCHANGED <<config, resync, resyncEvents, waits, file, built, faults>>

PressConfigure ==
    /\ view = "import" /\ Calm
    /\ overview.phase = "ready"
         \/ (overview.phase = "analyzing" /\ "configure" \in Habits)
    /\ config.gen + Cardinality(Pending({"configEditRequested", "configEdited"})) < MaxEdits
    /\ Press("configEditRequested")
    /\ UNCHANGED <<view, config, overview, resync, resyncEvents, ops, waits, file,
                   built, faults>>

(***************************************************************************)
(* R is dead while a resync is active, and S is not.                       *)
(***************************************************************************)
PressResync ==
    /\ view = "browser" /\ Calm /\ resync = "idle"
    /\ LET request == Note("resyncRequested", None) IN
           BagIn(request, inbox) => inbox[request] < 2
    /\ Press("resyncRequested")
    /\ UNCHANGED <<view, config, overview, resync, resyncEvents, ops, waits, file,
                   built, faults>>

PressStats ==
    /\ view = "browser" /\ Calm
    /\ resync = "idle" \/ "stats" \in Habits
    /\ Pending({"openStats"}) = {}
    /\ Press("openStats")
    /\ UNCHANGED <<view, config, overview, resync, resyncEvents, ops, waits, file,
                   built, faults>>

PressClose ==
    /\ view = "stats" /\ Calm /\ Pending({"closeStats"}) = {}
    /\ Press("closeStats")
    /\ UNCHANGED <<view, config, overview, resync, resyncEvents, ops, waits, file,
                   built, faults>>

-----------------------------------------------------------------------------
(* appModel.Update: one message, to the screen that is shown. *)

Arrives(type, m) == m.type = type /\ BagIn(m, inbox)
Rest(m) == inbox (-) SetToBag({m})

(***************************************************************************)
(* Messages the shown screen has no handler for: the statistics know none  *)
(* of these, the browser only those of its own resync while it is active.  *)
(***************************************************************************)
Ignored(m) ==
    \/ view = "stats" /\ m.type # "closeStats"
    \/ view = "browser" /\ m.type \in {"configEditRequested", "configEdited", "closeStats"}
    \/ view = "browser" /\ m.type \in AsyncMessages /\ resync = "idle"

Drop(m) ==
    /\ BagIn(m, inbox) /\ Ignored(m)
    /\ inbox' = Rest(m)
    /\ UNCHANGED <<view, config, overview, resync, resyncEvents, ops, waits, file,
                   built, faults>>

(***************************************************************************)
(* The statistics screen opens over the browser and closes again.          *)
(***************************************************************************)
SwitchStats(m) ==
    /\ \/ Arrives("openStats", m) /\ view = "browser" /\ view' = "stats"
       \/ Arrives("closeStats", m) /\ view = "stats" /\ view' = "browser"
    /\ inbox' = Rest(m)
    /\ UNCHANGED <<config, overview, resync, resyncEvents, ops, waits, file, built,
                   faults>>

(***************************************************************************)
(* createAndEditConfigCmd: the editor runs while Update stands still, and  *)
(* a goroutine then sends what the file has become.                        *)
(***************************************************************************)
EditConfig(m) ==
    /\ Arrives("configEditRequested", m) /\ view = "import"
    /\ \E bad \in BOOLEAN :
         inbox' = Rest(m) (+) SetToBag({Message("configEdited", None, Result(0, FALSE, bad))})
    /\ UNCHANGED <<view, config, overview, resync, resyncEvents, ops, waits, file,
                   built, faults>>

\* Mutant of ApplyConfig: the screen keeps showing what it had found.
ApplyConfigKeepsOverview(m) ==
    /\ Arrives("configEdited", m) /\ view = "import"
    /\ LET valid == ~m.result.err IN
       /\ config' = [gen |-> config.gen + 1, valid |-> valid]
       /\ IF valid THEN StartAnalysis(config.gen + 1, Rest(m))
                   ELSE inbox' = Rest(m) /\ UNCHANGED ops
    /\ resync' = "idle"
    /\ UNCHANGED <<view, overview, resyncEvents, waits, file, built, faults>>

(***************************************************************************)
(* applyConfigState: every screen is built anew, and a valid configuration *)
(* is analysed.                                                            *)
(***************************************************************************)
ApplyConfig(m) ==
    /\ Arrives("configEdited", m) /\ view = "import"
    /\ LET valid == ~m.result.err IN
       /\ config' = [gen |-> config.gen + 1, valid |-> valid]
       /\ overview' = NewOverview(valid)
       /\ IF valid THEN StartAnalysis(config.gen + 1, Rest(m))
                   ELSE inbox' = Rest(m) /\ UNCHANGED ops
    /\ resync' = "idle"
    /\ UNCHANGED <<view, resyncEvents, waits, file, built, faults>>

\* Mutant of OverviewProgress: a report of the sync waits on the other channel.
OverviewProgressMixesChannels(m) ==
    /\ view = "import"
    /\ Arrives("analysisProgress", m) \/ Arrives("syncProgress", m)
    /\ WaitFor(overview.analysisEvents)
    /\ inbox' = Rest(m)
    /\ UNCHANGED <<view, config, overview, resync, resyncEvents, ops, file, built,
                   faults>>

(***************************************************************************)
(* The import screen: importOverviewModel.Update.                          *)
(***************************************************************************)
OverviewStarted(m) ==
    /\ view = "import"
    /\ \/ /\ Arrives("analysisStarted", m)
          /\ overview' = [overview EXCEPT !.analysisEvents = m.from]
       \/ /\ Arrives("syncStarted", m)
          /\ overview' = [overview EXCEPT !.syncEvents = m.from]
    /\ WaitFor(m.from)
    /\ inbox' = Rest(m)
    /\ UNCHANGED <<view, config, resync, resyncEvents, ops, file, built, faults>>

OverviewProgress(m) ==
    /\ view = "import"
    /\ \/ Arrives("analysisProgress", m) /\ WaitFor(overview.analysisEvents)
       \/ Arrives("syncProgress", m) /\ WaitFor(overview.syncEvents)
    /\ inbox' = Rest(m)
    /\ UNCHANGED <<view, config, overview, resync, resyncEvents, ops, file, built,
                   faults>>

OverviewAnalysed(m) ==
    /\ view = "import" /\ Arrives("analysisFinished", m)
    /\ overview' = [overview EXCEPT !.phase = "ready", !.analysis = m.result,
                                    !.analysisEvents = None]
    /\ inbox' = Rest(m)
    /\ UNCHANGED <<view, config, resync, resyncEvents, ops, waits, file, built, faults>>

OverviewSynced(m) ==
    /\ view = "import" /\ Arrives("syncFinished", m)
    /\ overview' = [overview EXCEPT !.phase = IF m.result.err THEN "ready" ELSE "done",
                                    !.syncEvents = None]
    /\ inbox' = Rest(m)
    /\ UNCHANGED <<view, config, resync, resyncEvents, ops, waits, file, built, faults>>

(***************************************************************************)
(* The browser's resync: handleBrowserResyncMsg. A request does not touch  *)
(* a resync that is active already, and analyses in either case.           *)
(***************************************************************************)
ResyncRequested(m) ==
    /\ view = "browser" /\ Arrives("resyncRequested", m)
    /\ resync' = IF resync = "idle" THEN "analyzing" ELSE resync
    /\ StartAnalysis(config.gen, Rest(m))
    /\ UNCHANGED <<view, config, overview, resyncEvents, waits, file, built, faults>>

\* Mutant of ResyncStarted: the channel of the sync is not remembered, and its
\* first report waits on that of the analysis.
ResyncStartedKeepsOldChannel(m) ==
    /\ view = "browser" /\ resync # "idle"
    /\ Arrives("analysisStarted", m) \/ Arrives("syncStarted", m)
    /\ resyncEvents' = IF m.type = "syncStarted" THEN resyncEvents ELSE m.from
    /\ WaitFor(m.from)
    /\ inbox' = Rest(m)
    /\ UNCHANGED <<view, config, overview, resync, ops, file, built, faults>>

\* Mutant of ResyncProgress: a report does not wait for the next one.
ResyncProgressWaitsNoMore(m) ==
    /\ view = "browser" /\ resync # "idle"
    /\ \/ Arrives("analysisProgress", m) /\ resync' = "analyzing"
       \/ Arrives("syncProgress", m) /\ resync' = "syncing"
    /\ inbox' = Rest(m)
    /\ UNCHANGED <<view, config, overview, resyncEvents, ops, waits, file, built, faults>>

ResyncStarted(m) ==
    /\ view = "browser" /\ resync # "idle"
    /\ Arrives("analysisStarted", m) \/ Arrives("syncStarted", m)
    /\ resyncEvents' = m.from
    /\ WaitFor(m.from)
    /\ inbox' = Rest(m)
    /\ UNCHANGED <<view, config, overview, resync, ops, file, built, faults>>

\* Mutant of ResyncAnalysed: the resync is over, and R works, once its sync starts.
ResyncAnalysedEndsResync(m) ==
    /\ view = "browser" /\ resync # "idle" /\ Arrives("analysisFinished", m)
    /\ resync' = "idle"
    /\ IF m.result.err \/ ~m.result.needs
         THEN inbox' = Rest(m) /\ UNCHANGED ops
         ELSE StartSync(Rest(m))
    /\ UNCHANGED <<view, config, overview, resyncEvents, waits, file, built, faults>>

ResyncProgress(m) ==
    /\ view = "browser" /\ resync # "idle"
    /\ \/ Arrives("analysisProgress", m) /\ resync' = "analyzing"
       \/ Arrives("syncProgress", m) /\ resync' = "syncing"
    /\ WaitFor(resyncEvents)
    /\ inbox' = Rest(m)
    /\ UNCHANGED <<view, config, overview, resyncEvents, ops, file, built, faults>>

\* Mutant of ResyncSynced: a sync that failed leaves the resync active.
ResyncSyncedForgetsFailure(m) ==
    /\ view = "browser" /\ resync # "idle" /\ Arrives("syncFinished", m)
    /\ resync' = IF m.result.err THEN resync ELSE "idle"
    /\ inbox' = Rest(m)
    /\ UNCHANGED <<view, config, overview, resyncEvents, ops, waits, file, built, faults>>

ResyncAnalysed(m) ==
    /\ view = "browser" /\ resync # "idle" /\ Arrives("analysisFinished", m)
    /\ IF m.result.err \/ ~m.result.needs
         THEN resync' = "idle" /\ inbox' = Rest(m) /\ UNCHANGED ops
         ELSE resync' = "syncing" /\ StartSync(Rest(m))
    /\ UNCHANGED <<view, config, overview, resyncEvents, waits, file, built, faults>>

ResyncSynced(m) ==
    /\ view = "browser" /\ resync # "idle" /\ Arrives("syncFinished", m)
    /\ resync' = "idle"
    /\ inbox' = Rest(m)
    /\ UNCHANGED <<view, config, overview, resyncEvents, ops, waits, file, built, faults>>

Update ==
    \E m \in BagToSet(inbox) :
        \/ Drop(m) \/ SwitchStats(m) \/ EditConfig(m) \/ ApplyConfig(m)
        \/ OverviewStarted(m) \/ OverviewProgress(m)
        \/ OverviewAnalysed(m) \/ OverviewSynced(m)
        \/ ResyncRequested(m) \/ ResyncStarted(m) \/ ResyncProgress(m)
        \/ ResyncAnalysed(m) \/ ResyncSynced(m)

-----------------------------------------------------------------------------
(* The goroutine of an operation. *)

OpStep(id, next) ==
    /\ ops' = [ops EXCEPT ![id] = next]
    /\ UNCHANGED <<view, config, overview, resync, resyncEvents, waits, inbox>>

Fresh == {f \in Files : file[f] = "fresh"}
CanFail == faults < MaxFaults

(***************************************************************************)
(* RebuildAll: what a Run took is stored. An incremental rebuild that      *)
(* fails is followed by a full one, which takes in the whole archive, as   *)
(* does the first.                                                         *)
(***************************************************************************)
Stored(took, whole) ==
    [f \in Files |-> IF file[f] \in {"copied", "stranded"} /\ (f \in took \/ whole \/ ~built)
                       THEN "stored" ELSE file[f]]

(***************************************************************************)
(* A Run that fails after its copies: the next one finds them equal to     *)
(* their sources. When the store is lost too, nothing is in it.            *)
(***************************************************************************)
Strands(took, lost) ==
    [f \in Files |-> IF (file[f] = "copied" /\ f \in took) \/ (file[f] = "stored" /\ lost)
                       THEN "stranded" ELSE file[f]]

(***************************************************************************)
(* Pipeline.Analyze: progress now and then, each report blocking until it  *)
(* is received, and a result.                                              *)
(***************************************************************************)
Scan(id) ==
    /\ ops[id].pc = "scan" /\ ops[id].unsent = 0
    /\ \/ /\ ops[id].left > 0
          /\ OpStep(id, [ops[id] EXCEPT !.left = @ - 1, !.unsent = 1])
          /\ UNCHANGED faults
       \/ \E err \in BOOLEAN :
            /\ err => CanFail
            /\ faults' = faults + (IF err THEN 1 ELSE 0)
            /\ OpStep(id, [ops[id] EXCEPT !.pc = "report", !.unsent = 1,
                     !.result = Result(ops[id].gen, ~err /\ (Fresh # {} \/ ~built), err)])
    /\ UNCHANGED <<file, built>>

Report(op, err) ==
    [op EXCEPT !.pc = "report", !.unsent = 1, !.result = Result(op.gen, FALSE, err)]

(***************************************************************************)
(* Pipeline.Run: collect the changed files, copy them side by side while   *)
(* their reports queue up behind one mutex, announce the rebuild, rebuild. *)
(***************************************************************************)
CollectChanged(id) ==
    /\ ops[id].pc = "collect"
    /\ \/ OpStep(id, [ops[id] EXCEPT !.pc = "copy", !.todo = Fresh]) /\ UNCHANGED faults
       \/ CanFail /\ faults' = faults + 1 /\ OpStep(id, Report(ops[id], TRUE))
    /\ UNCHANGED <<file, built>>

\* Mutant of CopiesDone: the store is rebuilt only when it is missing.
CopiesDoneTrustingTheStore(id) ==
    /\ ops[id].pc = "copy" /\ ops[id].todo = {} /\ ops[id].unsent = 0
    /\ OpStep(id, IF ~built THEN [ops[id] EXCEPT !.pc = "announce", !.unsent = 1]
                            ELSE Report(ops[id], FALSE))
    /\ UNCHANGED <<file, built, faults>>

CopyFile(id, f) ==
    /\ ops[id].pc = "copy" /\ f \in ops[id].todo
    /\ \/ /\ file' = [file EXCEPT ![f] = "copied"]
          /\ OpStep(id, [ops[id] EXCEPT !.todo = @ \ {f}, !.took = @ \cup {f},
                                        !.unsent = @ + 1])
          /\ UNCHANGED faults
       \/ /\ CanFail /\ faults' = faults + 1
          /\ OpStep(id, [ops[id] EXCEPT !.todo = @ \ {f}, !.unsent = @ + 1])
          /\ UNCHANGED file
    /\ UNCHANGED built

(***************************************************************************)
(* NeedsRebuild, which may fail, and whether the store is rebuilt.         *)
(***************************************************************************)
CopiesDone(id) ==
    /\ ops[id].pc = "copy" /\ ops[id].todo = {} /\ ops[id].unsent = 0
    /\ \/ /\ OpStep(id, IF ops[id].took # {} \/ ~built
                          THEN [ops[id] EXCEPT !.pc = "announce", !.unsent = 1]
                          ELSE Report(ops[id], FALSE))
          /\ UNCHANGED <<file, faults>>
       \/ /\ CanFail /\ faults' = faults + 1
          /\ file' = Strands(ops[id].took, FALSE)
          /\ OpStep(id, Report(ops[id], TRUE))
    /\ UNCHANGED built

(***************************************************************************)
(* A rebuild that fails leaves the store as it was; or gone, when the      *)
(* renames and their undoing fail; or done, when the old file stays.       *)
(***************************************************************************)
Rebuild(id) ==
    LET took == ops[id].took
    IN  /\ ops[id].pc = "announce" /\ ops[id].unsent = 0
        /\ \/ /\ \E whole \in BOOLEAN : file' = Stored(took, whole)
              /\ built' = TRUE
              /\ OpStep(id, Report(ops[id], FALSE))
              /\ UNCHANGED faults
           \/ /\ CanFail /\ faults' = faults + 1
              /\ \/ file' = Strands(took, FALSE) /\ UNCHANGED built
                 \/ file' = Strands(took, TRUE) /\ built' = FALSE
                 \/ file' = Stored(took, TRUE) /\ built /\ UNCHANGED built
              /\ OpStep(id, Report(ops[id], TRUE))

Work(id) ==
    \/ Scan(id) \/ CollectChanged(id) \/ CopiesDone(id) \/ Rebuild(id)
    \/ \E f \in Files : CopyFile(id, f)

(***************************************************************************)
(* A send meets a receive on the unbuffered channel: the waiting command   *)
(* returns the message. The goroutine closes its channel after the last.   *)
(***************************************************************************)
Outgoing(id) ==
    LET op == ops[id] IN
    CASE op.pc = "report" /\ op.kind = "analysis" ->
             Message("analysisFinished", id, op.result)
      [] op.pc = "report" /\ op.kind = "sync" -> Message("syncFinished", id, op.result)
      [] op.pc = "scan" -> Note("analysisProgress", id)
      [] OTHER -> Note("syncProgress", id)

Deliver(id) ==
    /\ waits[id] > 0 /\ ops[id].unsent > 0
    /\ inbox' = inbox (+) SetToBag({Outgoing(id)})
    /\ waits' = [waits EXCEPT ![id] = @ - 1]
    /\ ops' = [ops EXCEPT ![id] =
                 IF ops[id].pc = "report" THEN Closed
                 ELSE [ops[id] EXCEPT !.unsent = ops[id].unsent - 1]]
    /\ UNCHANGED <<view, config, overview, resync, resyncEvents, file, built, faults>>

(***************************************************************************)
(* A command still waiting on a closed channel returns nothing.            *)
(***************************************************************************)
WaitInVain(id) ==
    /\ waits[id] > 0 /\ ~Running(id)
    /\ waits' = [waits EXCEPT ![id] = @ - 1]
    /\ UNCHANGED <<view, config, overview, resync, resyncEvents, ops, inbox, file,
                   built, faults>>

(***************************************************************************)
(* A provider writes to one of its session files.                          *)
(***************************************************************************)
ProviderWrites(f) ==
    /\ file[f] # "fresh"
    /\ file' = [file EXCEPT ![f] = "fresh"]
    /\ UNCHANGED <<view, config, overview, resync, resyncEvents, ops, waits, inbox,
                   built, faults>>

Keys == PressEnter \/ PressConfigure \/ PressResync \/ PressStats \/ PressClose

Next ==
    \/ Keys \/ Update
    \/ \E id \in Ops : Work(id) \/ Deliver(id) \/ WaitInVain(id)
    \/ \E f \in Files : ProviderWrites(f)

Spec == Init /\ [][Next]_vars

(***************************************************************************)
(* The Go scheduler runs every goroutine that can run, and Bubble Tea's    *)
(* loop keeps calling Update while messages wait. A user who has opened    *)
(* the statistics closes them some day; no other key has to be pressed.    *)
(***************************************************************************)
Fairness ==
    /\ WF_vars(Update) /\ WF_vars(PressClose)
    /\ \A id \in Ops : WF_vars(Work(id)) /\ WF_vars(Deliver(id))

FairSpec == Spec /\ Fairness

-----------------------------------------------------------------------------
Events == Ops \cup {None}
Results == [gen : 0 .. MaxEdits, needs : BOOLEAN, err : BOOLEAN]

(***************************************************************************)
(* The type of every variable.                                             *)
(***************************************************************************)
TypeOK ==
    /\ view \in {"import", "browser", "stats"}
    /\ config \in [gen : 0 .. MaxEdits, valid : BOOLEAN]
    /\ overview \in [phase : {"analyzing", "ready", "syncing", "done"},
                     analysis : Results, analysisEvents : Events, syncEvents : Events]
    /\ resync \in {"idle", "analyzing", "syncing"} /\ resyncEvents \in Events
    /\ ops \in [Ops -> [kind : {"analysis", "sync"}, gen : 0 .. MaxEdits,
                        pc : {"scan", "collect", "copy", "announce", "report", "closed"},
                        left : 0 .. MaxProgress, unsent : 0 .. Cardinality(Files) + 1,
                        todo : SUBSET Files, took : SUBSET Files, result : Results]]
    /\ waits \in [Ops -> Nat]
    /\ BagToSet(inbox) \subseteq [type : KeyMessages \cup AsyncMessages, from : Events,
                                  result : Results]
    /\ file \in [Files -> {"stored", "fresh", "copied", "stranded"}] /\ built \in BOOLEAN
    /\ faults \in 0 .. MaxFaults

(***************************************************************************)
(* A goroutine that has not finished will be heard: its start or a message *)
(* of its has still to reach Update, or a command waits on its channel.    *)
(* Otherwise it blocks for ever in its next send (import_overview_cmds.go: *)
(* 40-80) and, in a sync, files it copied are never brought into the store.*)
(***************************************************************************)
Listened ==
    \A id \in Ops : Running(id) =>
        waits[id] > 0 \/ \E m \in BagToSet(inbox) : m.from = id

(***************************************************************************)
(* No two Pipeline.Run calls are ever under way: they would copy the same  *)
(* files and rebuild the same database (the store locks nothing across     *)
(* processes or calls of RebuildAll, canonical/store.go:94).               *)
(***************************************************************************)
OneRunAtATime ==
    Cardinality({id \in Ops : Running(id) /\ ops[id].kind = "sync"}) <= 1

(***************************************************************************)
(* What the import screen shows as the analysis is one of the              *)
(* configuration in force: its NeedsSync decides whether Enter syncs or    *)
(* goes straight to the browser (import_overview.go:233).                  *)
(***************************************************************************)
AnalysisOfConfig ==
    view = "import" /\ overview.phase = "ready" /\ config.valid
        => overview.analysis.gen = config.gen

(***************************************************************************)
(* The import screen offers Enter or configure (ready, done) only when no  *)
(* operation it started is still under way.                                *)
(***************************************************************************)
OffersWhenIdle ==
    view = "import" /\ overview.phase \in {"ready", "done"}
        => \A id \in Ops : ~Running(id)

(***************************************************************************)
(* The import screen tells the truth about the operation behind it.        *)
(***************************************************************************)
OverviewTrue == TypeOK /\ AnalysisOfConfig /\ OffersWhenIdle

(***************************************************************************)
(* Whatever the user does: a file that is in the archive and not yet in    *)
(* the store is one that a Run still under way will hand to RebuildAll, or *)
(* the Run that copied it failed in NeedsRebuild or RebuildAll             *)
(* (import_pipeline.go:40, 57), and only then is it stranded. No other Run *)
(* will: it does not see the file as changed (import_pipeline.go:92).      *)
(***************************************************************************)
CopiedIsHeld ==
    \A f \in Files :
        /\ file[f] = "copied" => \E id \in Ops : Running(id) /\ f \in ops[id].took
        /\ file[f] = "stranded" => faults > 0

(***************************************************************************)
(* A resync that began comes to an end: the status bar loses its [resync]  *)
(* and R works again (browser_messages.go:222).                            *)
(***************************************************************************)
ResyncEnds == (resync # "idle") ~> (resync = "idle")

(***************************************************************************)
(* A file copied into the archive reaches the store (or is overtaken by a  *)
(* newer version of its source), while the application runs, unless the    *)
(* Run that copied it fails in NeedsRebuild or RebuildAll                  *)
(* (import_pipeline.go:40, 57).                                            *)
(***************************************************************************)
CopiedGetsStored ==
    \A f \in Files : (file[f] = "copied") ~> (file[f] \in {"stored", "fresh", "stranded"})

(***************************************************************************)
(* After a failed sync, Enter will "retry importing queued files and       *)
(* refreshing the local store" (import_overview_help.go:79): when that is  *)
(* done, no archived file is missing from the store. The code does not     *)
(* keep this: the second Run finds nothing to copy and does not rebuild.   *)
(***************************************************************************)
RetryRefreshes ==
    view = "import" /\ overview.phase = "done" => \A f \in Files : file[f] # "stranded"
=============================================================================
