------------------------------ MODULE AppProofs ------------------------------
(***************************************************************************)
(* Proofs about the application: the routing of its messages (AppRouter)   *)
(* and the transcript it has open (TranscriptViewer).                      *)
(*                                                                         *)
(* Of AppRouter, for any set of files and any number of operations:        *)
(*   every user (any Habits): a file that is archived and not yet in the   *)
(*     store is in the hands of a Run that has its rebuild ahead, unless   *)
(*     the Run that copied it has failed;                                  *)
(*   the calm user (no Habits), who waits for each key to take effect:     *)
(*     every operation is heard, no two syncs are under way, and the       *)
(*     import screen shows what is true.                                   *)
(* Of TranscriptViewer, for any transcripts, layouts and queries:          *)
(*   the screen shows the rendering of the present toggles, whichever      *)
(*     cache it came from, and its matches are those of that text;         *)
(*   a toggle keeps the reader's place.                                    *)
(***************************************************************************)
EXTENDS FiniteSetTheorems, SequenceTheorems, AppRouter, TranscriptViewer, TLAPS

\* The shape of an operation, without the bounds TLC needs.
Op == [kind : {"analysis", "sync"}, gen : Nat,
       pc : {"scan", "collect", "copy", "announce", "report", "closed"},
       left : Nat, unsent : Nat, todo : SUBSET Files, took : SUBSET Files,
       result : [gen : Nat, needs : BOOLEAN, err : BOOLEAN]]

ShapeInv ==
    /\ config \in [gen : Nat, valid : BOOLEAN]
    /\ ops \in [Ops -> Op]
    /\ file \in [Files -> {"stored", "fresh", "copied", "stranded"}]

\* CopiedIsHeld is not inductive: a Run about to report its end may have no
\* rebuild left. The Run that holds a file is one that will still rebuild.
BeforeRebuild == {"copy", "announce"}
HeldInv ==
    \A f \in Files : file[f] = "copied" =>
        \E id \in Ops : ops[id].pc \in BeforeRebuild /\ f \in ops[id].took

Inv == ShapeInv /\ HeldInv

-----------------------------------------------------------------------------
\* A new goroutine takes a slot no Run is in (startImportAnalysisCmd,
\* startImportSyncCmd).
LEMMA LaunchKeeps ==
    ASSUME ShapeInv,
           NEW kind \in {"analysis", "sync"}, NEW gen \in Nat, NEW started, NEW others,
           Launch(kind, started, gen, others)
    PROVE  /\ ops' \in [Ops -> Op]
           /\ \A id \in Ops : Running(id) => ops'[id] = ops[id]
<1> USE RouterAssumption DEF ShapeInv
<1>1. PICK id \in Unused :
        ops' = [ops EXCEPT ![id] =
                  [Closed EXCEPT !.kind = kind, !.gen = gen, !.left = MaxProgress,
                       !.pc = IF kind = "analysis" THEN "scan" ELSE "collect"]]
  BY DEF Launch
<1>2. id \in Ops /\ ~Running(id)
  BY DEF Unused
<1>3. [Closed EXCEPT !.kind = kind, !.gen = gen, !.left = MaxProgress,
           !.pc = IF kind = "analysis" THEN "scan" ELSE "collect"] \in Op
  BY DEF Closed, Op, NoResult, Result
<1> QED
  BY <1>1, <1>2, <1>3

\* A step that moves no file and changes no Run before its rebuild keeps HeldInv.
LEMMA HeldKept ==
    ASSUME HeldInv,
           \A f \in Files : file'[f] = "copied" => file[f] = "copied",
           \A id \in Ops : ops[id].pc \in BeforeRebuild =>
               ops'[id].pc \in BeforeRebuild /\ ops[id].took \subseteq ops'[id].took
    PROVE  HeldInv'
BY DEF HeldInv, BeforeRebuild

\* What a rebuild, or its failure, makes of the files.
LEMMA RebuiltFiles ==
    ASSUME file \in [Files -> {"stored", "fresh", "copied", "stranded"}],
           NEW took, NEW flag \in BOOLEAN
    PROVE  /\ Stored(took, flag) \in [Files -> {"stored", "fresh", "copied", "stranded"}]
           /\ Strands(took, flag) \in [Files -> {"stored", "fresh", "copied", "stranded"}]
           /\ \A f \in Files : Stored(took, flag)[f] = "copied" =>
                  file[f] = "copied" /\ f \notin took
           /\ \A f \in Files : Strands(took, flag)[f] = "copied" =>
                  file[f] = "copied" /\ f \notin took
BY DEF Stored, Strands

\* A Run may end, failed or not, once no file it took is still on its way.
LEMMA LetGo ==
    ASSUME HeldInv, NEW id \in Ops,
           \A f \in Files : file'[f] = "copied" => file[f] = "copied" /\ f \notin ops[id].took,
           \A i \in Ops \ {id} : ops'[i] = ops[i]
    PROVE  HeldInv'
BY DEF HeldInv, BeforeRebuild

-----------------------------------------------------------------------------
LEMMA InitInv == Init => Inv
<1> SUFFICES ASSUME Init PROVE Inv
  OBVIOUS
<1> USE RouterAssumption
<1>1. file \in [Files -> {"stored", "fresh"}]
  BY DEF Init
<1>2. Closed \in Op /\ [Closed EXCEPT !.pc = "scan", !.left = MaxProgress] \in Op
  BY DEF Closed, Op, NoResult, Result
<1>3. PICK valid \in BOOLEAN, id \in Ops :
        /\ config = [gen |-> 0, valid |-> valid]
        /\ ops = [i \in Ops |-> IF valid /\ i = id
                      THEN [Closed EXCEPT !.pc = "scan", !.left = MaxProgress]
                      ELSE Closed]
  BY DEF Init
<1>4. ShapeInv
  BY <1>1, <1>2, <1>3 DEF ShapeInv
<1> QED
  BY <1>1, <1>4 DEF Inv, HeldInv

\* Keys: only Enter starts an operation (handleEnterKey).
LEMMA KeysKeep == ASSUME Inv, Keys PROVE Inv'
<1> USE DEF Inv
<1>1. CASE PressEnter
  <2>1. UNCHANGED <<config, file>>
    BY <1>1 DEF PressEnter
  <2>2. CASE StartSync(inbox)
    <3>1. ops' \in [Ops -> Op] /\ \A id \in Ops : Running(id) => ops'[id] = ops[id]
      BY <2>2, LaunchKeeps DEF StartSync, ShapeInv
    <3> QED
      BY <2>1, <3>1, HeldKept DEF ShapeInv, Running, BeforeRebuild
  <2>3. CASE UNCHANGED ops
    BY <2>1, <2>3, HeldKept DEF ShapeInv
  <2> QED
    BY <1>1, <2>2, <2>3 DEF PressEnter
<1>2. CASE PressConfigure \/ PressResync \/ PressStats \/ PressClose
  <2>1. UNCHANGED <<config, file, ops>>
    BY <1>2 DEF PressConfigure, PressResync, PressStats, PressClose
  <2> QED
    BY <2>1, HeldKept DEF ShapeInv
<1> QED
  BY <1>1, <1>2 DEF Keys

\* Update: three handlers start an operation, none touches one that runs.
LEMMA UpdateKeeps == ASSUME Inv, Update PROVE Inv'
<1> USE DEF Inv
<1>1. PICK m \in BagToSet(inbox) :
        \/ Drop(m) \/ SwitchStats(m) \/ EditConfig(m) \/ ApplyConfig(m)
        \/ OverviewStarted(m) \/ OverviewProgress(m)
        \/ OverviewAnalysed(m) \/ OverviewSynced(m)
        \/ ResyncRequested(m) \/ ResyncStarted(m) \/ ResyncProgress(m)
        \/ ResyncAnalysed(m) \/ ResyncSynced(m)
  BY DEF Update
<1>2. CASE ApplyConfig(m)
  <2>1. config' \in [gen : Nat, valid : BOOLEAN] /\ UNCHANGED file
    BY <1>2 DEF ApplyConfig, ShapeInv
  <2>2. CASE StartAnalysis(config.gen + 1, Rest(m))
    <3>1. config.gen + 1 \in Nat
      BY DEF ShapeInv
    <3>2. ops' \in [Ops -> Op] /\ \A id \in Ops : Running(id) => ops'[id] = ops[id]
      BY <2>2, <3>1, LaunchKeeps DEF StartAnalysis
    <3> QED
      BY <2>1, <3>2, HeldKept DEF ShapeInv, Running, BeforeRebuild
  <2>3. CASE UNCHANGED ops
    BY <2>1, <2>3, HeldKept DEF ShapeInv
  <2> QED
    BY <1>2, <2>2, <2>3 DEF ApplyConfig
<1>3. CASE ResyncRequested(m)
  <2>1. UNCHANGED <<config, file>> /\ StartAnalysis(config.gen, Rest(m))
    BY <1>3 DEF ResyncRequested
  <2>2. ops' \in [Ops -> Op] /\ \A id \in Ops : Running(id) => ops'[id] = ops[id]
    BY <2>1, LaunchKeeps DEF StartAnalysis, ShapeInv
  <2> QED
    BY <2>1, <2>2, HeldKept DEF ShapeInv, Running, BeforeRebuild
<1>4. CASE ResyncAnalysed(m)
  <2>1. UNCHANGED <<config, file>>
    BY <1>4 DEF ResyncAnalysed
  <2>2. CASE StartSync(Rest(m))
    <3>1. ops' \in [Ops -> Op] /\ \A id \in Ops : Running(id) => ops'[id] = ops[id]
      BY <2>2, LaunchKeeps DEF StartSync, ShapeInv
    <3> QED
      BY <2>1, <3>1, HeldKept DEF ShapeInv, Running, BeforeRebuild
  <2>3. CASE UNCHANGED ops
    BY <2>1, <2>3, HeldKept DEF ShapeInv
  <2> QED
    BY <1>4, <2>2, <2>3 DEF ResyncAnalysed
<1>5. CASE \/ Drop(m) \/ SwitchStats(m) \/ EditConfig(m)
           \/ OverviewStarted(m) \/ OverviewProgress(m)
           \/ OverviewAnalysed(m) \/ OverviewSynced(m)
           \/ ResyncStarted(m) \/ ResyncProgress(m) \/ ResyncSynced(m)
  <2>1. UNCHANGED <<config, file, ops>>
    BY <1>5 DEF Drop, SwitchStats, EditConfig, OverviewStarted, OverviewProgress,
                OverviewAnalysed, OverviewSynced, ResyncStarted, ResyncProgress,
                ResyncSynced
  <2> QED
    BY <2>1, HeldKept DEF ShapeInv
<1> QED
  BY <1>1, <1>2, <1>3, <1>4, <1>5

-----------------------------------------------------------------------------
\* The goroutine's own steps, and the delivery of what it sends.
LEMMA WorkKeeps == ASSUME Inv, NEW id \in Ops, Work(id) PROVE Inv'
<1> USE DEF Inv
<1> DEFINE op == ops[id]
<1>0. op \in Op /\ UNCHANGED config
  BY DEF Work, Scan, CollectChanged, CopiesDone, Rebuild, CopyFile, OpStep, ShapeInv
<1>1. ASSUME NEW next \in Op, OpStep(id, next)
      PROVE  ops' \in [Ops -> Op] /\ ops'[id] = next
             /\ \A i \in Ops \ {id} : ops'[i] = ops[i]
  BY <1>1 DEF OpStep, ShapeInv
<1>2. \A err \in BOOLEAN : Report(op, err) \in Op /\ Report(op, err).pc = "report"
  BY <1>0 DEF Report, Result, Op
<1>3. CASE Scan(id)
  <2>1. op.pc = "scan" /\ UNCHANGED file
    BY <1>3 DEF Scan
  <2>2. CASE op.left > 0 /\ OpStep(id, [op EXCEPT !.left = @ - 1, !.unsent = 1])
    <3>1. op.left - 1 \in Nat
      BY <1>0, <2>2 DEF Op
    <3>2. [op EXCEPT !.left = @ - 1, !.unsent = 1] \in Op
      BY <1>0, <3>1 DEF Op
    <3> QED
      BY <1>0, <1>1, <2>1, <2>2, <3>2, HeldKept DEF ShapeInv, BeforeRebuild
  <2>3. ASSUME NEW err \in BOOLEAN,
               OpStep(id, [op EXCEPT !.pc = "report", !.unsent = 1,
                   !.result = Result(op.gen, ~err /\ (Fresh # {} \/ ~built), err)])
        PROVE  Inv'
    <3> DEFINE needs == ~err /\ (Fresh # {} \/ ~built)
    <3>1. needs \in BOOLEAN
      OBVIOUS
    <3> HIDE DEF needs
    <3>2. [op EXCEPT !.pc = "report", !.unsent = 1, !.result = Result(op.gen, needs, err)]
            \in Op
      BY <1>0, <3>1 DEF Op, Result
    <3>3. OpStep(id, [op EXCEPT !.pc = "report", !.unsent = 1,
                         !.result = Result(op.gen, needs, err)])
      BY <2>3 DEF needs
    <3> QED
      BY <1>0, <1>1, <2>1, <3>2, <3>3, HeldKept DEF ShapeInv, BeforeRebuild
  <2> QED
    BY <1>3, <2>2, <2>3 DEF Scan
<1>4. CASE CollectChanged(id)
  <2>1. op.pc = "collect" /\ UNCHANGED file
    BY <1>4 DEF CollectChanged
  <2>2. CASE OpStep(id, [op EXCEPT !.pc = "copy", !.todo = Fresh])
    <3>1. [op EXCEPT !.pc = "copy", !.todo = Fresh] \in Op
      BY <1>0 DEF Op, Fresh
    <3> QED
      BY <1>0, <1>1, <2>1, <2>2, <3>1, HeldKept DEF ShapeInv, BeforeRebuild
  <2>3. CASE OpStep(id, Report(op, TRUE))
    BY <1>0, <1>1, <1>2, <2>1, <2>3, HeldKept DEF ShapeInv, BeforeRebuild
  <2> QED
    BY <1>4, <2>2, <2>3 DEF CollectChanged
\* The file a Run copies is from now on in its hands.
<1>5. CASE \E f \in Files : CopyFile(id, f)
  <2>1. PICK f \in Files : CopyFile(id, f)
    BY <1>5
  <2>2. op.pc = "copy"
    BY <2>1 DEF CopyFile
  <2> DEFINE copied == [op EXCEPT !.todo = @ \ {f}, !.took = @ \cup {f},
                                  !.unsent = @ + 1]
             failed == [op EXCEPT !.todo = @ \ {f}, !.unsent = @ + 1]
  <2>3. copied \in Op /\ failed \in Op
    <3>1. /\ op.unsent + 1 \in Nat
          /\ op.todo \ {f} \in SUBSET Files /\ op.took \cup {f} \in SUBSET Files
      BY <1>0 DEF Op
    <3> QED
      BY <1>0, <3>1 DEF Op
  <2>4. CASE file' = [file EXCEPT ![f] = "copied"] /\ OpStep(id, copied)
    <3>1. ops' \in [Ops -> Op] /\ ops'[id] = copied
          /\ \A i \in Ops \ {id} : ops'[i] = ops[i]
      BY <1>1, <2>3, <2>4
    <3>2. ops'[id].pc = "copy" /\ ops'[id].took = op.took \cup {f}
      BY <1>0, <2>2, <3>1 DEF Op
    <3>3. HeldInv'
      BY <2>4, <3>1, <3>2 DEF HeldInv, BeforeRebuild, ShapeInv
    <3> QED
      BY <1>0, <2>4, <3>1, <3>3 DEF ShapeInv
  <2>5. CASE UNCHANGED file /\ OpStep(id, failed)
    <3>1. failed.pc = "copy" /\ failed.took = op.took
      BY <1>0, <2>2 DEF Op
    <3> QED
      BY <1>0, <1>1, <2>3, <2>5, <3>1, HeldKept DEF ShapeInv, BeforeRebuild
  <2> QED
    BY <2>1, <2>4, <2>5 DEF CopyFile
\* A Run that took nothing has nothing to hold; any other goes on to rebuild,
\* or fails and leaves what it took.
<1>6. CASE CopiesDone(id)
  <2>1. op.pc = "copy"
    BY <1>6 DEF CopiesDone
  <2>2. CASE OpStep(id, [op EXCEPT !.pc = "announce", !.unsent = 1]) /\ UNCHANGED file
    <3> DEFINE next == [op EXCEPT !.pc = "announce", !.unsent = 1]
    <3>1. next \in Op /\ next.pc = "announce" /\ next.took = op.took
      BY <1>0 DEF Op
    <3> QED
      BY <1>0, <1>1, <2>1, <2>2, <3>1, HeldKept DEF ShapeInv, BeforeRebuild
  <2>3. CASE op.took = {} /\ OpStep(id, Report(op, FALSE)) /\ UNCHANGED file
    <3>1. ops' \in [Ops -> Op] /\ \A i \in Ops \ {id} : ops'[i] = ops[i]
      BY <1>1, <1>2, <2>3
    <3>2. HeldInv'
      BY <2>3, <3>1, LetGo
    <3> QED
      BY <1>0, <2>3, <3>1, <3>2 DEF ShapeInv
  <2>4. CASE file' = Strands(op.took, FALSE) /\ OpStep(id, Report(op, TRUE))
    <3>1. ops' \in [Ops -> Op] /\ \A i \in Ops \ {id} : ops'[i] = ops[i]
      BY <1>1, <1>2, <2>4
    <3>2. /\ file' \in [Files -> {"stored", "fresh", "copied", "stranded"}]
          /\ \A f \in Files : file'[f] = "copied" => file[f] = "copied" /\ f \notin op.took
      BY <2>4, RebuiltFiles DEF ShapeInv
    <3>3. HeldInv'
      BY <3>1, <3>2, LetGo
    <3> QED
      BY <1>0, <3>1, <3>2, <3>3 DEF ShapeInv
  <2> QED
    BY <1>6, <2>2, <2>3, <2>4 DEF CopiesDone
\* What this Run held is stored or left; what is still copied is held by another.
<1>7. CASE Rebuild(id)
  <2>1. /\ OpStep(id, Report(op, FALSE)) \/ OpStep(id, Report(op, TRUE))
        /\ \E flag \in BOOLEAN : file' = Stored(op.took, flag) \/ file' = Strands(op.took, flag)
    BY <1>7 DEF Rebuild
  <2>2. ops' \in [Ops -> Op] /\ \A i \in Ops \ {id} : ops'[i] = ops[i]
    BY <1>1, <1>2, <2>1
  <2>3. /\ file' \in [Files -> {"stored", "fresh", "copied", "stranded"}]
        /\ \A f \in Files : file'[f] = "copied" => file[f] = "copied" /\ f \notin op.took
    BY <2>1, RebuiltFiles DEF ShapeInv
  <2>4. HeldInv'
    BY <2>2, <2>3, LetGo
  <2> QED
    BY <1>0, <2>2, <2>3, <2>4 DEF ShapeInv
<1> QED
  BY <1>3, <1>4, <1>5, <1>6, <1>7 DEF Work

LEMMA DeliverKeeps == ASSUME Inv, NEW id \in Ops, Deliver(id) PROVE Inv'
<1> USE DEF Inv
<1> DEFINE next == IF ops[id].pc = "report" THEN Closed
                   ELSE [ops[id] EXCEPT !.unsent = ops[id].unsent - 1]
<1>1. UNCHANGED <<config, file>> /\ ops[id].unsent > 0
      /\ ops' = [ops EXCEPT ![id] = next]
  BY DEF Deliver
<1>2. next \in Op
  <2>1. ops[id] \in Op /\ ops[id].unsent - 1 \in Nat
    BY <1>1 DEF ShapeInv, Op
  <2>2. Closed \in Op
    BY DEF Op, Closed, NoResult, Result
  <2>3. [ops[id] EXCEPT !.unsent = ops[id].unsent - 1] \in Op
    BY <2>1 DEF Op
  <2>4. QED
    BY <2>2, <2>3
<1>3. ops' \in [Ops -> Op]
  BY <1>1, <1>2 DEF ShapeInv
<1>4. ASSUME NEW i \in Ops, ops[i].pc \in BeforeRebuild
      PROVE  ops'[i].pc \in BeforeRebuild /\ ops[i].took \subseteq ops'[i].took
  BY <1>1, <1>4 DEF ShapeInv, BeforeRebuild, Op
<1> QED
  BY <1>1, <1>3, <1>4, HeldKept DEF ShapeInv

\* A command that waited in vain, and a provider that overtakes a copy.
LEMMA OthersKeep ==
    ASSUME Inv,
           \/ \E id \in Ops : WaitInVain(id)
           \/ \E f \in Files : ProviderWrites(f)
    PROVE  Inv'
<1> USE DEF Inv
<1>1. CASE \E id \in Ops : WaitInVain(id)
  BY <1>1, HeldKept DEF WaitInVain, ShapeInv
<1>2. CASE \E f \in Files : ProviderWrites(f)
  BY <1>2, HeldKept DEF ProviderWrites, ShapeInv
<1> QED
  BY <1>1, <1>2

-----------------------------------------------------------------------------
\* Only a failure strands a file.
StrandedInv ==
    faults \in Nat /\ \A f \in Files : file[f] = "stranded" => faults > 0

\* A goroutine that has no fault strands nothing (Pipeline.Run).
LEMMA WorkStrands ==
    ASSUME Inv, StrandedInv, NEW id \in Ops, Work(id)
    PROVE  /\ faults' = faults \/ faults' = faults + 1
           /\ \A f \in Files : file'[f] = "stranded" => file[f] = "stranded" \/ faults' = faults + 1
<1> DEFINE Kept == \A f \in Files : file'[f] = "stranded" => file[f] = "stranded"
<1>1. CASE Scan(id)
  <2>1. /\ UNCHANGED file
        /\ UNCHANGED faults \/ \E err \in BOOLEAN : faults' = faults + (IF err THEN 1 ELSE 0)
    BY <1>1, Zenon DEF Scan
  <2>2. QED
    BY <2>1 DEF StrandedInv
<1>2. CASE CollectChanged(id)
  BY <1>2 DEF CollectChanged
<1>3. CASE \E f \in Files : CopyFile(id, f)
  <2>1. PICK f \in Files : CopyFile(id, f)
    BY <1>3
  <2>2. /\ faults' = faults \/ faults' = faults + 1
        /\ file' = [file EXCEPT ![f] = "copied"] \/ UNCHANGED file
    BY <2>1 DEF CopyFile
  <2>3. QED
    BY <2>2 DEF Inv, ShapeInv
<1>4. CASE CopiesDone(id)
  BY <1>4 DEF CopiesDone
<1>5. CASE Rebuild(id)
  <2>1. CASE faults' = faults + 1
    BY <2>1
  <2>2. CASE ~(faults' = faults + 1)
    <3>1. UNCHANGED faults /\ \E whole \in BOOLEAN : file' = Stored(ops[id].took, whole)
      BY <1>5, <2>2 DEF Rebuild
    <3>2. QED
      BY <3>1 DEF Stored
  <2>3. QED
    BY <2>1, <2>2
<1>6. QED
  BY <1>1, <1>2, <1>3, <1>4, <1>5 DEF Work

\* No other step moves a file to where only a failed Run leaves it.
LEMMA StrandedKeeps == ASSUME Inv, StrandedInv, [Next]_vars PROVE StrandedInv'
<1>1. CASE \E id \in Ops : Work(id)
  BY <1>1, WorkStrands DEF StrandedInv
<1>2. CASE \E f \in Files : ProviderWrites(f)
  BY <1>2 DEF ProviderWrites, StrandedInv, Inv, ShapeInv
<1>3. CASE Keys \/ Update \/ \E id \in Ops : Deliver(id) \/ WaitInVain(id)
  <2>1. UNCHANGED <<file, faults>>
    <3>1. CASE Keys
      BY <3>1 DEF Keys, PressEnter, PressConfigure, PressResync, PressStats, PressClose
    <3>2. CASE Update
      BY <3>2 DEF Update, Drop, SwitchStats, EditConfig, ApplyConfig, OverviewStarted,
                  OverviewProgress, OverviewAnalysed, OverviewSynced, ResyncRequested,
                  ResyncStarted, ResyncProgress, ResyncAnalysed, ResyncSynced
    <3>3. CASE \E id \in Ops : Deliver(id) \/ WaitInVain(id)
      BY <3>3 DEF Deliver, WaitInVain
    <3>4. QED
      BY <1>3, <3>1, <3>2, <3>3
  <2>2. QED
    BY <2>1 DEF StrandedInv
<1>4. CASE UNCHANGED vars
  BY <1>4 DEF vars, StrandedInv
<1>5. QED
  BY <1>1, <1>2, <1>3, <1>4 DEF Next

\* A file in the archive that the store has not taken up is held by a Run under
\* way, whatever keys are pressed and whatever messages are dropped, unless the Run
\* that copied it failed in NeedsRebuild or RebuildAll; where nothing has failed,
\* it is held (Pipeline.Run, syncCandidates).
THEOREM CopiedHeldAlways == Spec => []CopiedIsHeld
<1>1. Inv /\ StrandedInv /\ [Next]_vars => (Inv /\ StrandedInv)'
  <2> SUFFICES ASSUME Inv, StrandedInv, [Next]_vars PROVE Inv'
    BY StrandedKeeps
  <2>1. CASE Next
    BY <2>1, KeysKeep, UpdateKeeps, WorkKeeps, DeliverKeeps, OthersKeep DEF Next
  <2>2. CASE UNCHANGED vars
    BY <2>2 DEF Inv, ShapeInv, HeldInv, vars
  <2> QED
    BY <2>1, <2>2
<1>2. Inv /\ StrandedInv => CopiedIsHeld
  BY DEF Inv, HeldInv, StrandedInv, CopiedIsHeld, Running, BeforeRebuild
<1>3. Init => StrandedInv
  BY DEF Init, StrandedInv
<1> QED
  BY InitInv, <1>1, <1>2, <1>3, PTL DEF Spec

-----------------------------------------------------------------------------
(***************************************************************************)
(* The calm user (no Habits): every key waits until the last one took      *)
(* effect. Then at most one operation is under way, and exactly one thing  *)
(* keeps it going: the message it has in the inbox, or one command that    *)
(* waits on its channel.                                                   *)
(***************************************************************************)
CalmOp ==
    [kind : {"analysis", "sync"}, gen : 0 .. MaxEdits,
     pc : {"scan", "collect", "copy", "announce", "report", "closed"},
     left : 0 .. MaxProgress, unsent : 0 .. Cardinality(Files) + 1,
     todo : SUBSET Files, took : SUBSET Files, result : Results]

\* What an operation does at each pc, and how many reports it may owe.
OpOK(op) ==
    /\ op.pc = "scan" => op.kind = "analysis"
    /\ op.pc \in {"collect", "copy", "announce"} => op.kind = "sync"
    /\ op.pc = "collect" => op.unsent = 0
    /\ op.pc = "copy" => op.unsent <= Cardinality(Files \ op.todo)
    /\ op.pc = "report" => op.result.gen = op.gen

One(m) == SetToBag({m})

StartedOf(kind) == IF kind = "analysis" THEN "analysisStarted" ELSE "syncStarted"
ProgressOf(kind) == IF kind = "analysis" THEN "analysisProgress" ELSE "syncProgress"
FinishedOf(kind) == IF kind = "analysis" THEN "analysisFinished" ELSE "syncFinished"

\* The message m is how the operation id, whose channel is events, is heard.
Says(m, id, kind, events) ==
    /\ m.from = id
    /\ \/ Running(id) /\ m.type = StartedOf(kind)
       \/ Running(id) /\ m.type = ProgressOf(kind) /\ events = id
       \/ ~Running(id) /\ m.type = FinishedOf(kind) /\ m.result.gen = config.gen

Alone(id, kind, events) ==
    /\ \A i \in Ops \ {id} : ~Running(i) /\ waits[i] = 0
    /\ Running(id) => ops[id].kind = kind /\ ops[id].gen = config.gen
    /\ \/ Running(id) /\ waits[id] = 1 /\ events = id /\ inbox = EmptyBag
       \/ waits[id] = 0 /\ \E m \in BagToSet(inbox) : inbox = One(m) /\ Says(m, id, kind, events)

Working(kind, events) == \E id \in Ops : Alone(id, kind, events)

Quiet == \A id \in Ops : ~Running(id) /\ waits[id] = 0

Idle(types) ==
    Quiet /\ (inbox = EmptyBag \/ \E m \in BagToSet(inbox) : inbox = One(m) /\ m.type \in types)

\* What each screen shows, and what is under way behind it.
ImportInv ==
    /\ resync = "idle"
    /\ overview.phase = "analyzing" =>
           config.valid /\ Working("analysis", overview.analysisEvents)
    /\ overview.phase = "syncing" =>
           overview.analysis.gen = config.gen /\ Working("sync", overview.syncEvents)
    /\ overview.phase = "ready" =>
           /\ Idle({"configEditRequested", "configEdited"})
           /\ config.valid => overview.analysis.gen = config.gen
           /\ inbox # EmptyBag => config.gen < MaxEdits
    /\ overview.phase = "done" => Idle({})

BrowserScreenInv ==
    /\ resync = "idle" => Idle({"resyncRequested", "openStats"})
    /\ resync = "analyzing" => Working("analysis", resyncEvents)
    /\ resync = "syncing" => Working("sync", resyncEvents)

StatsInv == resync = "idle" /\ Idle({"closeStats"})

ViewInv ==
    /\ view = "import" => ImportInv
    /\ view = "browser" => BrowserScreenInv
    /\ view = "stats" => StatsInv

CalmInv == TypeOK /\ (\A id \in Ops : OpOK(ops[id])) /\ ViewInv

-----------------------------------------------------------------------------
\* An inbox of one message.
LEMMA OneMessage ==
    ASSUME NEW m
    PROVE  /\ EmptyBag (+) SetToBag({m}) = One(m) /\ BagToSet(One(m)) = {m}
           /\ One(m) (-) SetToBag({m}) = EmptyBag /\ One(m) # EmptyBag
           /\ BagToSet(EmptyBag) = {}
<1>1. EmptyBag (+) SetToBag({m}) = One(m)
  BY DEF (+), EmptyBag, SetToBag, One
<1>2. One(m) (-) SetToBag({m}) = EmptyBag
  BY DEF (-), EmptyBag, SetToBag, One
<1>3. QED
  BY <1>1, <1>2 DEF BagToSet, EmptyBag, SetToBag, One

LEMMA EmptyBagHoldsNone == BagToSet(EmptyBag) = {}
BY OneMessage

LEMMA CalmTypes ==
    /\ NoResult \in Results /\ 0 \in 0 .. MaxEdits /\ 0 \in 0 .. MaxProgress
    /\ MaxProgress \in 0 .. MaxProgress
    /\ Cardinality(Files) \in Nat
    /\ 0 \in 0 .. Cardinality(Files) + 1 /\ 1 \in 0 .. Cardinality(Files) + 1
<1>0. IsFiniteSet(Files)
  BY RouterAssumption
<1>1. Cardinality(Files) \in Nat
  BY <1>0, FS_CardinalityType
<1>2. QED
  BY <1>1, RouterAssumption DEF NoResult, Result, Results

\* A goroutine starts where nothing was under way.
LEMMA LaunchAlone ==
    ASSUME CalmInv, Quiet, NEW kind \in {"analysis", "sync"}, NEW gen \in 0 .. MaxEdits,
           Launch(kind, StartedOf(kind), gen, EmptyBag), waits' = waits,
           config'.gen = gen
    PROVE  /\ ops' \in [Ops -> CalmOp] /\ \A id \in Ops : OpOK(ops'[id])
           /\ BagToSet(inbox') \subseteq [type : KeyMessages \cup AsyncMessages,
                                          from : Events, result : Results]
           /\ \E id \in Ops : \A events : Alone(id, kind, events)'
<1> DEFINE op == [Closed EXCEPT !.kind = kind, !.gen = gen, !.left = MaxProgress,
                      !.pc = IF kind = "analysis" THEN "scan" ELSE "collect"]
<1>1. PICK id \in Unused :
        ops' = [ops EXCEPT ![id] = op] /\ inbox' = EmptyBag (+) SetToBag({Note(StartedOf(kind), id)})
  BY DEF Launch
<1>2. op \in CalmOp /\ OpOK(op) /\ op.kind = kind /\ op.gen = gen /\ op.pc # "closed"
  BY CalmTypes DEF Closed, CalmOp, OpOK
<1>3. id \in Ops /\ ops \in [Ops -> CalmOp] /\ waits \in [Ops -> Nat]
  BY DEF Unused, CalmInv, TypeOK, CalmOp
<1> HIDE DEF op
<1>4. ops' \in [Ops -> CalmOp] /\ ops'[id] = op /\ \A i \in Ops \ {id} : ops'[i] = ops[i]
  BY <1>1, <1>2, <1>3
<1> DEFINE note == Note(StartedOf(kind), id)
<1>5. /\ note.from = id /\ note.type = StartedOf(kind)
      /\ note \in [type : KeyMessages \cup AsyncMessages, from : Events, result : Results]
  BY <1>3, CalmTypes DEF Note, Message, StartedOf, Events, AsyncMessages
<1>6. inbox' = EmptyBag (+) SetToBag({note})
  BY <1>1
<1> HIDE DEF note
<1>7. inbox' = One(note) /\ BagToSet(inbox') = {note}
  BY <1>6, OneMessage
<1>8. ASSUME NEW events PROVE Alone(id, kind, events)'
  BY <1>2, <1>3, <1>4, <1>5, <1>7 DEF Alone, Quiet, Running, Says
<1>9. QED
  BY <1>2, <1>3, <1>4, <1>5, <1>7, <1>8 DEF CalmInv

-----------------------------------------------------------------------------
\* A goroutine at work stays what it is: it takes no message and sends none.
LEMMA WorkCalm ==
    ASSUME CalmInv, NEW id \in Ops, Work(id)
    PROVE  /\ ops' \in [Ops -> CalmOp] /\ \A i \in Ops : OpOK(ops'[i])
           /\ \A i \in Ops : /\ Running(i) <=> Running(i)'
                             /\ ops'[i].kind = ops[i].kind /\ ops'[i].gen = ops[i].gen
           /\ file' \in [Files -> {"stored", "fresh", "copied", "stranded"}]
           /\ built' \in BOOLEAN /\ faults' \in 0 .. MaxFaults
           /\ UNCHANGED <<view, config, overview, resync, resyncEvents, waits, inbox>>
<1> DEFINE op == ops[id]
<1>0. /\ op \in CalmOp /\ OpOK(op) /\ ops \in [Ops -> CalmOp] /\ \A i \in Ops : OpOK(ops[i])
      /\ file \in [Files -> {"stored", "fresh", "copied", "stranded"}] /\ built \in BOOLEAN
      /\ faults \in 0 .. MaxFaults /\ MaxFaults \in Nat
  BY RouterAssumption DEF CalmInv, TypeOK, CalmOp
<1>1. UNCHANGED <<view, config, overview, resync, resyncEvents, waits, inbox>>
  BY DEF Work, Scan, CollectChanged, CopiesDone, Rebuild, CopyFile, OpStep
<1>2. /\ built' \in BOOLEAN
      /\ file' \in [Files -> {"stored", "fresh", "copied", "stranded"}]
  <2>1. CASE CopiesDone(id) \/ Rebuild(id)
    <3>1. UNCHANGED file \/ \E flag \in BOOLEAN :
              file' = Stored(op.took, flag) \/ file' = Strands(op.took, flag)
      BY <2>1 DEF CopiesDone, Rebuild
    <3>2. built' \in {built, TRUE, FALSE}
      BY <2>1 DEF CopiesDone, Rebuild
    <3>3. file' \in [Files -> {"stored", "fresh", "copied", "stranded"}]
      BY <1>0, <3>1, RebuiltFiles
    <3>4. built' \in BOOLEAN
      BY <1>0, <3>2
    <3>5. QED
      BY <3>3, <3>4
  <2>2. CASE Scan(id) \/ CollectChanged(id) \/ \E f \in Files : CopyFile(id, f)
    BY <1>0, <2>2 DEF Scan, CollectChanged, CopyFile
  <2>3. QED
    BY <2>1, <2>2 DEF Work
<1>3. faults' \in 0 .. MaxFaults
  <2>1. CASE Scan(id)
    <3>1. CASE UNCHANGED faults
      BY <1>0, <3>1
    <3>2. CASE \E err \in BOOLEAN : (err => CanFail) /\ faults' = faults + (IF err THEN 1 ELSE 0)
      BY <1>0, <3>2 DEF CanFail
    <3>3. QED
      BY <2>1, <3>1, <3>2 DEF Scan
  <2>2. CASE ~Scan(id)
    <3>0. CollectChanged(id) \/ CopiesDone(id) \/ Rebuild(id) \/ \E f \in Files : CopyFile(id, f)
      BY <2>2 DEF Work
    <3>1. faults' = faults \/ (CanFail /\ faults' = faults + 1)
      <4>1. CASE CollectChanged(id)
        BY <4>1, Zenon DEF CollectChanged
      <4>2. CASE CopiesDone(id) \/ Rebuild(id)
        BY <4>2, Zenon DEF CopiesDone, Rebuild
      <4>3. CASE \E f \in Files : CopyFile(id, f)
        BY <4>3, Zenon DEF CopyFile
      <4>4. QED
        BY <3>0, <4>1, <4>2, <4>3
    <3>2. QED
      BY <1>0, <3>1 DEF CanFail
  <2>3. QED
    BY <2>1, <2>2
<1>4. ASSUME NEW next, next \in CalmOp, OpOK(next), next.pc # "closed", op.pc # "closed",
             next.kind = op.kind, next.gen = op.gen, OpStep(id, next)
      PROVE  /\ ops' \in [Ops -> CalmOp] /\ \A i \in Ops : OpOK(ops'[i])
             /\ \A i \in Ops : /\ Running(i) <=> Running(i)'
                               /\ ops'[i].kind = ops[i].kind /\ ops'[i].gen = ops[i].gen
  BY <1>0, <1>4 DEF OpStep, Running
<1>5. \A err \in BOOLEAN :
        /\ Report(op, err) \in CalmOp /\ OpOK(Report(op, err))
        /\ Report(op, err).pc = "report" /\ Report(op, err).kind = op.kind
        /\ Report(op, err).gen = op.gen
  <2> TAKE err \in BOOLEAN
  <2>1. Result(op.gen, FALSE, err) \in Results /\ Result(op.gen, FALSE, err).gen = op.gen
    BY <1>0 DEF Result, Results, CalmOp
  <2>2. Report(op, err) =
          [op EXCEPT !.pc = "report", !.unsent = 1, !.result = Result(op.gen, FALSE, err)]
    BY DEF Report
  <2>a. PICK result : result = Result(op.gen, FALSE, err)
    OBVIOUS
  <2>b. PICK next : next = [op EXCEPT !.pc = "report", !.unsent = 1, !.result = result]
    OBVIOUS
  <2>3. next \in CalmOp
    BY <1>0, <2>1, <2>a, <2>b, CalmTypes DEF CalmOp
  <2>4. /\ next.pc = "report" /\ next.kind = op.kind /\ next.gen = op.gen
        /\ next.result = result /\ next = Report(op, err)
    BY <1>0, <2>2, <2>a, <2>b DEF CalmOp
  <2>5. OpOK(next)
    BY <2>1, <2>4, <2>a DEF OpOK
  <2>6. QED
    BY <2>3, <2>4, <2>5
<1>6. CASE Scan(id)
  <2>1. op.pc = "scan" /\ op.kind = "analysis"
    BY <1>0, <1>6 DEF Scan, OpOK
  <2>2. CASE op.left > 0 /\ OpStep(id, [op EXCEPT !.left = @ - 1, !.unsent = 1])
    <3> DEFINE next == [op EXCEPT !.left = @ - 1, !.unsent = 1]
    <3>1. op.left - 1 \in 0 .. MaxProgress
      BY <1>0, <2>2, RouterAssumption DEF CalmOp
    <3>2. /\ next \in CalmOp /\ OpOK(next) /\ next.pc = "scan" /\ next.kind = op.kind
          /\ next.gen = op.gen
      BY <1>0, <2>1, <3>1, CalmTypes DEF CalmOp, OpOK
    <3>3. QED
      BY <1>1, <1>2, <1>3, <1>4, <2>1, <2>2, <3>2
  <2>3. ASSUME NEW err \in BOOLEAN,
               OpStep(id, [op EXCEPT !.pc = "report", !.unsent = 1,
                   !.result = Result(op.gen, ~err /\ (Fresh # {} \/ ~built), err)])
        PROVE  /\ ops' \in [Ops -> CalmOp] /\ \A i \in Ops : OpOK(ops'[i])
               /\ \A i \in Ops : /\ Running(i) <=> Running(i)'
                                 /\ ops'[i].kind = ops[i].kind /\ ops'[i].gen = ops[i].gen
    <3> DEFINE needs == ~err /\ (Fresh # {} \/ ~built)
               result == Result(op.gen, needs, err)
               next == [op EXCEPT !.pc = "report", !.unsent = 1, !.result = result]
    <3>1. needs \in BOOLEAN
      OBVIOUS
    <3> HIDE DEF needs
    <3>2. result \in Results /\ result.gen = op.gen
      BY <1>0, <3>1 DEF Result, Results, CalmOp
    <3> HIDE DEF result
    <3>3. /\ next \in CalmOp /\ OpOK(next) /\ next.pc = "report" /\ next.kind = op.kind
          /\ next.gen = op.gen
      BY <1>0, <3>2, CalmTypes DEF CalmOp, OpOK
    <3>4. OpStep(id, next)
      BY <2>3 DEF result, needs
    <3>5. QED
      BY <1>4, <2>1, <3>3, <3>4
  <2>4. QED
    BY <1>1, <1>2, <1>3, <1>6, <2>2, <2>3 DEF Scan
<1>7. CASE CollectChanged(id)
  <2>1. op.pc = "collect" /\ op.kind = "sync" /\ op.unsent = 0
    BY <1>0, <1>7 DEF CollectChanged, OpOK
  <2>2. CASE OpStep(id, [op EXCEPT !.pc = "copy", !.todo = Fresh])
    <3> DEFINE next == [op EXCEPT !.pc = "copy", !.todo = Fresh]
    <3>0. Fresh \in SUBSET Files
      BY DEF Fresh
    <3>1. Cardinality(Files \ Fresh) \in Nat
      BY RouterAssumption, FS_Subset, FS_CardinalityType
    <3>2. /\ next \in CalmOp /\ next.pc = "copy" /\ next.kind = op.kind /\ next.gen = op.gen
          /\ next.unsent = 0 /\ next.todo = Fresh
      BY <1>0, <2>1, <3>0 DEF CalmOp
    <3> HIDE DEF next
    <3>a. OpOK(next)
      BY <2>1, <3>1, <3>2 DEF OpOK
    <3>b. OpStep(id, next)
      BY <2>2 DEF next
    <3>3. QED
      BY <1>1, <1>2, <1>3, <1>4, <2>1, <3>2, <3>a, <3>b
  <2>3. CASE OpStep(id, Report(op, TRUE))
    BY <1>1, <1>2, <1>3, <1>4, <1>5, <2>1, <2>3
  <2>4. QED
    BY <1>7, <2>2, <2>3 DEF CollectChanged
\* Every file that left todo has one report, and it may still be unsent.
<1>8. CASE \E f \in Files : CopyFile(id, f)
  <2>1. PICK f \in op.todo : CopyFile(id, f)
    BY <1>8 DEF CopyFile
  <2>2. op.pc = "copy" /\ op.kind = "sync" /\ f \in Files /\ op.todo \in SUBSET Files
    BY <1>0, <2>1 DEF CopyFile, OpOK, CalmOp
  <2> DEFINE todo == op.todo \ {f}
             copied == [op EXCEPT !.todo = todo, !.took = @ \cup {f}, !.unsent = @ + 1]
             failed == [op EXCEPT !.todo = todo, !.unsent = @ + 1]
  <2>3. /\ Cardinality(Files \ todo) = Cardinality(Files \ op.todo) + 1
        /\ Cardinality(Files \ todo) <= Cardinality(Files)
    <3>1. Files \ todo = (Files \ op.todo) \cup {f} /\ f \notin Files \ op.todo
      BY <2>1, <2>2
    <3>2. IsFiniteSet(Files \ op.todo) /\ IsFiniteSet(Files)
      BY RouterAssumption, FS_Subset
    <3>3. Cardinality((Files \ op.todo) \cup {f}) = Cardinality(Files \ op.todo) + 1
      BY <3>1, <3>2, FS_AddElement
    <3>4. Cardinality(Files \ todo) <= Cardinality(Files)
      BY <3>2, FS_Subset
    <3>5. QED
      BY <3>1, <3>3, <3>4
  <2>4. /\ op.unsent + 1 <= Cardinality(Files \ todo)
        /\ op.unsent + 1 \in 0 .. Cardinality(Files) + 1
    <3>1. op.unsent <= Cardinality(Files \ op.todo) /\ op.unsent \in Nat
      BY <1>0, <2>2, CalmTypes DEF OpOK, CalmOp
    <3>2. Cardinality(Files \ op.todo) \in Nat /\ Cardinality(Files) \in Nat
      BY RouterAssumption, FS_Subset, FS_CardinalityType
    <3>3. QED
      BY <2>3, <3>1, <3>2
  <2>5. todo \in SUBSET Files /\ op.took \cup {f} \in SUBSET Files
    BY <1>0, <2>2 DEF CalmOp
  <2>6. OpStep(id, copied) \/ OpStep(id, failed)
    BY <2>1 DEF CopyFile
  <2> HIDE DEF todo
  <2>7. /\ copied \in CalmOp /\ OpOK(copied) /\ copied.pc = "copy" /\ copied.kind = op.kind
        /\ copied.gen = op.gen
    BY <1>0, <2>2, <2>4, <2>5 DEF CalmOp, OpOK
  <2>8. /\ failed \in CalmOp /\ OpOK(failed) /\ failed.pc = "copy" /\ failed.kind = op.kind
        /\ failed.gen = op.gen
    BY <1>0, <2>2, <2>4, <2>5 DEF CalmOp, OpOK
  <2>9. QED
    BY <1>1, <1>2, <1>3, <1>4, <2>2, <2>6, <2>7, <2>8
<1>9. CASE CopiesDone(id)
  <2> DEFINE next == [op EXCEPT !.pc = "announce", !.unsent = 1]
  <2>1. op.pc = "copy" /\ op.kind = "sync"
    BY <1>0, <1>9 DEF CopiesDone, OpOK
  <2>2. /\ next \in CalmOp /\ OpOK(next) /\ next.pc = "announce" /\ next.kind = op.kind
        /\ next.gen = op.gen
    BY <1>0, <2>1, CalmTypes DEF CalmOp, OpOK
  <2>3. \/ OpStep(id, next)
        \/ \E err \in BOOLEAN : OpStep(id, Report(op, err))
    BY <1>9 DEF CopiesDone
  <2>4. QED
    BY <1>1, <1>2, <1>3, <1>4, <1>5, <2>1, <2>2, <2>3
<1>10. CASE Rebuild(id)
  <2>1. op.pc = "announce" /\ \E err \in BOOLEAN : OpStep(id, Report(op, err))
    BY <1>10 DEF Rebuild
  <2>2. QED
    BY <1>1, <1>2, <1>3, <1>4, <1>5, <2>1
<1>11. QED
  BY <1>6, <1>7, <1>8, <1>9, <1>10 DEF Work

\* Nothing changes for the screens while no operation starts, ends or is heard.
LEMMA ScreensUndisturbed ==
    ASSUME ViewInv,
           \A i \in Ops : /\ Running(i) <=> Running(i)'
                          /\ ops'[i].kind = ops[i].kind /\ ops'[i].gen = ops[i].gen,
           UNCHANGED <<view, config, overview, resync, resyncEvents, waits, inbox>>
    PROVE  ViewInv'
<1>1. ASSUME NEW kind, NEW events, Working(kind, events)
      PROVE  Working(kind, events)'
  <2>1. PICK id \in Ops : Alone(id, kind, events)
    BY <1>1 DEF Working
  <2>2. Alone(id, kind, events)'
    BY <2>1 DEF Alone, Says
  <2>3. QED
    BY <2>2 DEF Working
<1>2. Quiet => Quiet'
  BY DEF Quiet
<1>3. ASSUME NEW types, Idle(types) PROVE Idle(types)'
  BY <1>2, <1>3 DEF Idle
<1>4. ImportInv => ImportInv'
  BY <1>1, <1>3 DEF ImportInv
<1>5. BrowserScreenInv => BrowserScreenInv'
  BY <1>1, <1>3 DEF BrowserScreenInv
<1>6. StatsInv => StatsInv'
  BY <1>3 DEF StatsInv
<1>7. QED
  BY <1>4, <1>5, <1>6 DEF ViewInv

LEMMA WorkKeepsCalm ==
    ASSUME CalmInv, NEW id \in Ops, Work(id)
    PROVE  CalmInv'
<1>1. ViewInv'
  BY WorkCalm, ScreensUndisturbed DEF CalmInv
<1>2. TypeOK'
  BY WorkCalm DEF CalmInv, TypeOK, CalmOp
<1>3. QED
  BY <1>1, <1>2, WorkCalm DEF CalmInv

\* A report reaches the inbox, and its operation is heard there or is over.
LEMMA DeliverAlone ==
    ASSUME CalmInv, NEW id \in Ops, Deliver(id), NEW kind \in {"analysis", "sync"},
           NEW events, Working(kind, events)
    PROVE  Working(kind, events)'
<1>1. PICK i \in Ops : Alone(i, kind, events)
  BY DEF Working
<1>2. /\ waits[id] > 0 /\ waits \in [Ops -> Nat] /\ ops \in [Ops -> CalmOp] /\ OpOK(ops[id])
      /\ inbox' = inbox (+) SetToBag({Outgoing(id)})
      /\ waits' = [waits EXCEPT ![id] = @ - 1]
      /\ ops' = [ops EXCEPT ![id] = IF ops[id].pc = "report" THEN Closed
                                    ELSE [ops[id] EXCEPT !.unsent = ops[id].unsent - 1]]
      /\ config' = config
  BY DEF Deliver, CalmInv, TypeOK, CalmOp
<1>3. /\ i = id /\ Running(id) /\ waits[id] = 1 /\ events = id /\ inbox = EmptyBag
      /\ ops[id].kind = kind /\ ops[id].gen = config.gen
  BY <1>1, <1>2 DEF Alone
<1>a. PICK m : m = Outgoing(id)
  OBVIOUS
<1>4. m.from = id
  BY <1>a DEF Outgoing, Message, Note
<1>5. ops[id].pc = "report" => m.type = FinishedOf(kind) /\ m.result.gen = config.gen
  BY <1>a, <1>2, <1>3 DEF Outgoing, Message, FinishedOf, OpOK
<1>6. ops[id].pc # "report" => m.type = ProgressOf(kind)
  BY <1>a, <1>2, <1>3 DEF Outgoing, Message, Note, ProgressOf, OpOK, CalmOp, Running
<1>7. inbox' = EmptyBag (+) SetToBag({m})
  BY <1>a, <1>2, <1>3
<1>8. inbox' = One(m) /\ BagToSet(inbox') = {m}
  BY <1>7, OneMessage
<1>9. waits'[id] = 0 /\ \A j \in Ops \ {id} : waits'[j] = waits[j] /\ ops'[j] = ops[j]
  BY <1>2, <1>3
<1>10. /\ ops[id].pc = "report" => ~Running(id)'
       /\ ops[id].pc # "report" => Running(id)' /\ ops'[id].kind = kind /\ ops'[id].gen = config.gen
  BY <1>2, <1>3 DEF Running, Closed, CalmOp
<1>b. \A j \in Ops \ {id} : ~Running(j) /\ waits[j] = 0
  BY <1>1, <1>3 DEF Alone
<1>11. \A j \in Ops \ {id} : ~Running(j)' /\ waits'[j] = 0
  BY <1>9, <1>b DEF Running
<1>12. Says(m, id, kind, events)'
  BY <1>2, <1>3, <1>4, <1>5, <1>6, <1>10 DEF Says
<1>13. Alone(id, kind, events)'
  BY <1>2, <1>8, <1>9, <1>10, <1>11, <1>12 DEF Alone
<1>14. QED
  BY <1>13 DEF Working

LEMMA DeliverKeepsCalm ==
    ASSUME CalmInv, NEW id \in Ops, Deliver(id)
    PROVE  CalmInv'
<1> DEFINE next == IF ops[id].pc = "report" THEN Closed
                   ELSE [ops[id] EXCEPT !.unsent = ops[id].unsent - 1]
           m == Outgoing(id)
<1>1. /\ waits[id] > 0 /\ ops[id].unsent > 0
      /\ inbox' = inbox (+) SetToBag({m})
      /\ waits' = [waits EXCEPT ![id] = @ - 1]
      /\ ops' = [ops EXCEPT ![id] = next]
      /\ UNCHANGED <<view, config, overview, resync, resyncEvents, file, built, faults>>
  BY DEF Deliver
<1>2. /\ waits \in [Ops -> Nat] /\ ops \in [Ops -> CalmOp] /\ \A i \in Ops : OpOK(ops[i])
  BY DEF CalmInv, TypeOK, CalmOp
<1>3. next \in CalmOp /\ OpOK(next)
  <2>1. CASE ops[id].pc = "report"
    <3>1. Closed \in CalmOp /\ OpOK(Closed)
      BY CalmTypes DEF Closed, CalmOp, OpOK
    <3>2. QED
      BY <2>1, <3>1
  <2>2. CASE ops[id].pc # "report"
    <3> DEFINE less == [ops[id] EXCEPT !.unsent = ops[id].unsent - 1]
    <3>1. /\ ops[id].unsent - 1 \in 0 .. Cardinality(Files) + 1
      BY <1>1, <1>2, CalmTypes DEF CalmOp
    <3>2. less \in CalmOp /\ less.pc = ops[id].pc /\ less.kind = ops[id].kind
          /\ less.todo = ops[id].todo /\ less.unsent = ops[id].unsent - 1
      BY <1>2, <3>1 DEF CalmOp
    <3> HIDE DEF less
    <3>3. Cardinality(Files \ less.todo) \in Nat
      BY RouterAssumption, FS_Subset, FS_CardinalityType
    <3>4. ops[id].unsent \in Nat
      BY <1>2, CalmTypes DEF CalmOp
    <3>5. OpOK(less)
      BY <1>1, <1>2, <2>2, <3>2, <3>3, <3>4 DEF OpOK
    <3>6. QED
      BY <2>2, <3>2, <3>5 DEF less
  <2>3. QED
    BY <2>1, <2>2
<1>4. m \in [type : KeyMessages \cup AsyncMessages, from : Events, result : Results]
  BY <1>2, CalmTypes DEF Outgoing, Message, Note, AsyncMessages, Events, CalmOp
<1> HIDE DEF next, m
<1>5. ops' \in [Ops -> CalmOp] /\ \A i \in Ops : OpOK(ops'[i])
  BY <1>1, <1>2, <1>3
<1>6. waits' \in [Ops -> Nat]
  BY <1>1, <1>2
<1>7. ~Quiet /\ \A types : ~Idle(types)
  BY <1>1, <1>2 DEF Quiet, Idle
<1>8. \E kind \in {"analysis", "sync"} : \E events : Working(kind, events)
  BY <1>7 DEF CalmInv, TypeOK, ViewInv, ImportInv, BrowserScreenInv, StatsInv
<1>9. inbox = EmptyBag
  BY <1>1, <1>2, <1>8 DEF Working, Alone
<1>10. BagToSet(inbox') = {m}
  BY <1>1, <1>9, OneMessage
<1>11. TypeOK'
  BY <1>1, <1>4, <1>5, <1>6, <1>10 DEF CalmInv, TypeOK, CalmOp
<1>12. ASSUME NEW kind \in {"analysis", "sync"}, NEW events, Working(kind, events)
       PROVE  Working(kind, events)'
  BY <1>12, DeliverAlone
<1>13. ViewInv'
  <2>1. CASE view = "import"
    BY <1>1, <1>7, <1>12, <2>1 DEF CalmInv, TypeOK, ViewInv, ImportInv
  <2>2. CASE view = "browser"
    BY <1>1, <1>7, <1>12, <2>2 DEF CalmInv, TypeOK, ViewInv, BrowserScreenInv
  <2>3. CASE view = "stats"
    BY <1>1, <1>7, <2>3 DEF CalmInv, ViewInv, StatsInv
  <2>4. QED
    BY <2>1, <2>2, <2>3 DEF CalmInv, TypeOK
<1>14. QED
  BY <1>5, <1>11, <1>13 DEF CalmInv

-----------------------------------------------------------------------------
(* Keys of the calm user *)

LEMMA NothingPending ==
    ASSUME CalmInv, Habits = {}, Calm, NEW types \in SUBSET KeyMessages, Idle(types)
    PROVE  inbox = EmptyBag /\ Quiet
<1>1. ASSUME NEW m \in BagToSet(inbox), inbox = One(m), m.type \in types
      PROVE  FALSE
  <2>1. m \in Pending(KeyMessages)
    BY <1>1 DEF Pending
  <2>2. QED
    BY <2>1 DEF Calm
<1>2. QED
  BY <1>1 DEF Idle

LEMMA PressIdle ==
    ASSUME CalmInv, inbox = EmptyBag, Quiet, NEW type \in KeyMessages, Press(type),
           UNCHANGED <<ops, waits>>
    PROVE  /\ \A types : type \in types => Idle(types)'
           /\ BagToSet(inbox') \subseteq [type : KeyMessages \cup AsyncMessages,
                                          from : Events, result : Results]
<1>a. PICK m : m = Note(type, None)
  OBVIOUS
<1>1. m \in [type : KeyMessages \cup AsyncMessages, from : Events, result : Results]
      /\ m.type = type
  BY <1>a, CalmTypes DEF Note, Message, Events
<1>2. inbox' = EmptyBag (+) SetToBag({m})
  BY <1>a DEF Press
<1>3. inbox' = One(m) /\ BagToSet(inbox') = {m}
  BY <1>2, OneMessage
<1>4. Quiet'
  BY DEF Quiet, Running
<1>5. QED
  BY <1>1, <1>3, <1>4 DEF Idle

LEMMA PressEnterCalm == ASSUME CalmInv, Habits = {}, PressEnter PROVE CalmInv'
<1>1. /\ view = "import" /\ config.valid /\ Calm /\ overview.phase \in {"ready", "done"}
      /\ UNCHANGED <<config, resync, resyncEvents, waits, file, built, faults>>
  BY DEF PressEnter
<1>2. resync = "idle" /\ inbox = EmptyBag /\ Quiet
  <2>1. {} \in SUBSET KeyMessages
        /\ {"configEditRequested", "configEdited"} \in SUBSET KeyMessages
    BY DEF KeyMessages
  <2>2. resync = "idle" /\ (Idle({}) \/ Idle({"configEditRequested", "configEdited"}))
    BY <1>1 DEF CalmInv, ViewInv, ImportInv
  <2>3. QED
    BY <1>1, <2>1, <2>2, NothingPending
<1>3. CASE /\ overview.phase = "ready" /\ overview' = [overview EXCEPT !.phase = "syncing"]
           /\ StartSync(inbox) /\ UNCHANGED view
  <2>1. Launch("sync", StartedOf("sync"), config.gen, EmptyBag) /\ config'.gen = config.gen
        /\ waits' = waits /\ config.gen \in 0 .. MaxEdits
    BY <1>1, <1>2, <1>3 DEF StartSync, StartedOf, CalmInv, TypeOK
  <2>2. /\ ops' \in [Ops -> CalmOp] /\ \A id \in Ops : OpOK(ops'[id])
        /\ BagToSet(inbox') \subseteq [type : KeyMessages \cup AsyncMessages,
                                       from : Events, result : Results]
        /\ \E id \in Ops : \A events : Alone(id, "sync", events)'
    BY <1>2, <2>1, LaunchAlone
  <2>3. ASSUME NEW events PROVE Working("sync", events)'
    BY <2>2 DEF Working
  <2>4. overview.analysis.gen = config.gen
    BY <1>1, <1>3 DEF CalmInv, ViewInv, ImportInv
  <2>5. TypeOK'
    BY <1>1, <1>3, <2>2 DEF CalmInv, TypeOK, CalmOp
  <2>6. /\ overview'.phase = "syncing" /\ overview'.analysis = overview.analysis
        /\ overview'.syncEvents = overview.syncEvents
    BY <1>3 DEF CalmInv, TypeOK
  <2>7. ImportInv'
    BY <1>1, <1>2, <2>3, <2>4, <2>6 DEF ImportInv
  <2>8. QED
    BY <1>1, <1>3, <2>2, <2>5, <2>7 DEF CalmInv, ViewInv
<1>4. CASE view' = "browser" /\ UNCHANGED <<overview, ops, inbox>>
  <2>1. TypeOK'
    BY <1>1, <1>4 DEF CalmInv, TypeOK
  <2>2. Quiet'
    BY <1>1, <1>2, <1>4 DEF Quiet, Running
  <2>3. BrowserScreenInv'
    BY <1>1, <1>2, <1>4, <2>2 DEF BrowserScreenInv, Idle
  <2>4. QED
    BY <1>1, <1>4, <2>1, <2>3 DEF CalmInv, ViewInv
<1>5. QED
  BY <1>1, <1>3, <1>4 DEF PressEnter

LEMMA PressOthersCalm ==
    ASSUME CalmInv, Habits = {}, PressConfigure \/ PressResync \/ PressStats \/ PressClose
    PROVE  CalmInv'
<1>1. /\ Calm
      /\ UNCHANGED <<view, config, overview, resync, resyncEvents, ops, waits, file, built, faults>>
  BY DEF PressConfigure, PressResync, PressStats, PressClose
<1>2. ASSUME NEW type \in KeyMessages, Press(type), inbox = EmptyBag, Quiet
      PROVE  TypeOK' /\ \A types : type \in types => Idle(types)'
  <2>1. /\ \A types : type \in types => Idle(types)'
        /\ BagToSet(inbox') \subseteq [type : KeyMessages \cup AsyncMessages,
                                       from : Events, result : Results]
    BY <1>1, <1>2, PressIdle
  <2>2. QED
    BY <1>1, <2>1 DEF CalmInv, TypeOK
<1>3. \A i \in Ops : OpOK(ops'[i])
  BY <1>1 DEF CalmInv
<1>4. CASE PressConfigure
  <2> DEFINE types == {"configEditRequested", "configEdited"}
  <2>1. /\ view = "import" /\ overview.phase = "ready" /\ Press("configEditRequested")
        /\ config.gen + Cardinality(Pending(types)) < MaxEdits
    BY <1>4 DEF PressConfigure
  <2>2. types \in SUBSET KeyMessages /\ "configEditRequested" \in types
    BY DEF KeyMessages
  <2>3. Idle(types) /\ (config.valid => overview.analysis.gen = config.gen) /\ resync = "idle"
    BY <2>1 DEF CalmInv, ViewInv, ImportInv
  <2> HIDE DEF types
  <2>4. inbox = EmptyBag /\ Quiet
    BY <1>1, <2>2, <2>3, NothingPending
  <2>5. config.gen < MaxEdits
    <3>1. Pending(types) = {}
      BY <2>4, OneMessage DEF Pending
    <3>2. config.gen \in Nat
      BY RouterAssumption DEF CalmInv, TypeOK
    <3>3. QED
      BY <2>1, <3>1, <3>2, FS_EmptySet
  <2>6. TypeOK' /\ Idle(types)'
    BY <1>2, <2>1, <2>2, <2>4
  <2>7. ImportInv'
    BY <1>1, <2>1, <2>3, <2>5, <2>6 DEF ImportInv, types
  <2>8. QED
    BY <1>1, <1>3, <2>1, <2>6, <2>7 DEF CalmInv, ViewInv
<1>5. CASE PressResync \/ PressStats
  <2> DEFINE types == {"resyncRequested", "openStats"}
  <2>1. /\ view = "browser" /\ resync = "idle"
        /\ Press("resyncRequested") \/ Press("openStats")
    BY <1>5 DEF PressResync, PressStats
  <2>2. types \in SUBSET KeyMessages /\ types = {"resyncRequested", "openStats"}
    BY DEF KeyMessages
  <2>3. Idle(types)
    BY <2>1 DEF CalmInv, ViewInv, BrowserScreenInv
  <2> HIDE DEF types
  <2>4. inbox = EmptyBag /\ Quiet
    BY <1>1, <2>2, <2>3, NothingPending
  <2>5. TypeOK' /\ Idle(types)'
    BY <1>2, <2>1, <2>2, <2>4
  <2>6. BrowserScreenInv'
    BY <1>1, <2>1, <2>5 DEF BrowserScreenInv, types
  <2>7. QED
    BY <1>1, <1>3, <2>1, <2>5, <2>6 DEF CalmInv, ViewInv
<1>6. CASE PressClose
  <2>1. view = "stats" /\ Press("closeStats")
    BY <1>6 DEF PressClose
  <2>2. {"closeStats"} \in SUBSET KeyMessages /\ "closeStats" \in {"closeStats"}
    BY DEF KeyMessages
  <2>3. Idle({"closeStats"}) /\ resync = "idle"
    BY <2>1 DEF CalmInv, ViewInv, StatsInv
  <2>4. inbox = EmptyBag /\ Quiet
    BY <1>1, <2>2, <2>3, NothingPending
  <2>5. TypeOK' /\ Idle({"closeStats"})'
    BY <1>2, <2>1, <2>2, <2>4
  <2>6. StatsInv'
    BY <1>1, <2>3, <2>5 DEF StatsInv
  <2>7. QED
    BY <1>1, <1>3, <2>1, <2>5, <2>6 DEF CalmInv, ViewInv
<1>7. QED
  BY <1>4, <1>5, <1>6

-----------------------------------------------------------------------------
(* Update, one message at a time *)

LEMMA MessageOfIdle ==
    ASSUME NEW types, Idle(types), NEW m \in BagToSet(inbox)
    PROVE  m.type \in types /\ Quiet /\ inbox = One(m) /\ Rest(m) = EmptyBag
<1>1. PICK n \in BagToSet(inbox) : inbox = One(n) /\ n.type \in types
  BY EmptyBagHoldsNone DEF Idle
<1>2. m = n
  <2>1. BagToSet(One(n)) = {n}
    BY OneMessage
  <2>2. QED
    BY <1>1, <2>1
<1>3. Rest(m) = EmptyBag
  BY <1>1, <1>2, OneMessage DEF Rest
<1>4. QED
  BY <1>1, <1>2, <1>3 DEF Idle

LEMMA MessageOfWork ==
    ASSUME NEW kind, NEW events, Working(kind, events), NEW m \in BagToSet(inbox)
    PROVE  /\ inbox = One(m) /\ Rest(m) = EmptyBag
           /\ m.from \in Ops /\ Alone(m.from, kind, events)
           /\ waits[m.from] = 0 /\ Says(m, m.from, kind, events)
<1>1. PICK id \in Ops : Alone(id, kind, events)
  BY DEF Working
<1>2. inbox # EmptyBag
  BY EmptyBagHoldsNone
<1>3. PICK n \in BagToSet(inbox) : inbox = One(n) /\ Says(n, id, kind, events) /\ waits[id] = 0
  BY <1>1, <1>2 DEF Alone
<1>4. m = n /\ m.from = id
  <2>1. BagToSet(One(n)) = {n}
    BY OneMessage
  <2>2. QED
    BY <1>3, <2>1 DEF Says
<1>5. Rest(m) = EmptyBag
  BY <1>3, <1>4, OneMessage DEF Rest
<1>6. QED
  BY <1>1, <1>3, <1>4, <1>5

\* A handler that answers a message of an operation by waiting for the next one
\* keeps the operation heard, on the channel the message came from.
LEMMA WaitAlone ==
    ASSUME CalmInv, NEW kind, NEW events, NEW id \in Ops, Alone(id, kind, events),
           Running(id), waits[id] = 0, WaitFor(id), inbox' = EmptyBag,
           UNCHANGED <<ops, config>>
    PROVE  Working(kind, id)' /\ waits' \in [Ops -> Nat]
<1>0. waits \in [Ops -> Nat]
  BY DEF CalmInv, TypeOK
<1>1. waits' \in [Ops -> Nat] /\ waits'[id] = 1 /\ \A i \in Ops \ {id} : waits'[i] = waits[i]
  BY <1>0 DEF WaitFor
<1>2. \A i \in Ops \ {id} : ~Running(i)' /\ waits'[i] = 0
  BY <1>1 DEF Alone, Running
<1>3. Running(id)' /\ ops'[id].kind = kind /\ ops'[id].gen = config'.gen
  BY DEF Alone, Running
<1>4. Alone(id, kind, id)'
  BY <1>1, <1>2, <1>3 DEF Alone
<1>5. QED
  BY <1>1, <1>4 DEF Working

\* Once its last message is handled, nothing is under way.
LEMMA FinishQuiet ==
    ASSUME NEW kind, NEW events, NEW id \in Ops, Alone(id, kind, events), ~Running(id),
           waits[id] = 0
    PROVE  Quiet
BY DEF Alone, Quiet

Typed(bag) ==
    BagToSet(bag) \subseteq [type : KeyMessages \cup AsyncMessages, from : Events,
                             result : Results]

\* Messages the calm user's application cannot meet.
LEMMA NothingDropped == ASSUME CalmInv, NEW m \in BagToSet(inbox) PROVE ~Ignored(m)
<1>1. CASE view = "import"
  BY <1>1 DEF Ignored
<1>2. CASE view = "browser"
  <2>1. CASE resync = "idle"
    <3>1. m.type \in {"resyncRequested", "openStats"}
      BY <1>2, <2>1, MessageOfIdle DEF CalmInv, ViewInv, BrowserScreenInv
    <3>2. QED
      BY <1>2, <3>1 DEF Ignored, AsyncMessages
  <2>2. CASE resync # "idle"
    <3>1. \E kind \in {"analysis", "sync"} : Says(m, m.from, kind, resyncEvents)
      BY <1>2, <2>2, MessageOfWork DEF CalmInv, TypeOK, ViewInv, BrowserScreenInv
    <3>2. m.type \in AsyncMessages
      BY <3>1 DEF Says, StartedOf, ProgressOf, FinishedOf, AsyncMessages
    <3>3. QED
      BY <1>2, <2>2, <3>2 DEF Ignored, AsyncMessages
  <2>3. QED
    BY <2>1, <2>2
<1>3. CASE view = "stats"
  <2>1. m.type = "closeStats"
    BY <1>3, MessageOfIdle DEF CalmInv, ViewInv, StatsInv
  <2>2. QED
    BY <1>3, <2>1 DEF Ignored
<1>4. QED
  BY <1>1, <1>2, <1>3 DEF CalmInv, TypeOK

\* The application's own messages: the statistics, and the configuration.
LEMMA OwnMessagesCalm ==
    ASSUME CalmInv, NEW m \in BagToSet(inbox), SwitchStats(m) \/ EditConfig(m)
    PROVE  CalmInv'
<1>1. CASE SwitchStats(m)
  <2>1. /\ inbox' = Rest(m)
        /\ UNCHANGED <<config, overview, resync, resyncEvents, ops, waits, file, built, faults>>
        /\ \/ m.type = "openStats" /\ view = "browser" /\ view' = "stats"
           \/ m.type = "closeStats" /\ view = "stats" /\ view' = "browser"
    BY <1>1 DEF SwitchStats, Arrives
  <2>2. Quiet /\ Rest(m) = EmptyBag /\ resync = "idle"
    <3>1. CASE m.type = "openStats" /\ view = "browser"
      <4>1. resync = "idle"
        <5>1. ASSUME resync # "idle" PROVE FALSE
          <6>1. \E kind \in {"analysis", "sync"} : Says(m, m.from, kind, resyncEvents)
            BY <3>1, <5>1, MessageOfWork DEF CalmInv, TypeOK, ViewInv, BrowserScreenInv
          <6>2. QED
            BY <3>1, <6>1 DEF Says, StartedOf, ProgressOf, FinishedOf
        <5>2. QED
          BY <5>1
      <4>2. QED
        BY <3>1, <4>1, MessageOfIdle DEF CalmInv, ViewInv, BrowserScreenInv
    <3>2. CASE view = "stats"
      BY <3>2, MessageOfIdle DEF CalmInv, ViewInv, StatsInv
    <3>3. QED
      BY <2>1, <3>1, <3>2
  <2>3. Quiet' /\ inbox' = EmptyBag
    BY <2>1, <2>2 DEF Quiet, Running
  <2>4. TypeOK'
    BY <2>1, <2>3, OneMessage DEF CalmInv, TypeOK
  <2>5. ViewInv'
    BY <2>1, <2>2, <2>3 DEF ViewInv, BrowserScreenInv, StatsInv, Idle
  <2>6. QED
    BY <2>1, <2>4, <2>5 DEF CalmInv
<1>2. CASE EditConfig(m)
  <2> DEFINE types == {"configEditRequested", "configEdited"}
  <2>1. /\ view = "import" /\ m.type = "configEditRequested"
        /\ UNCHANGED <<view, config, overview, resync, resyncEvents, ops, waits, file,
                       built, faults>>
    BY <1>2 DEF EditConfig, Arrives
  <2>2. PICK bad \in BOOLEAN :
          inbox' = Rest(m) (+) SetToBag({Message("configEdited", None, Result(0, FALSE, bad))})
    BY <1>2 DEF EditConfig
  <2>a. PICK edited : edited = Message("configEdited", None, Result(0, FALSE, bad))
    OBVIOUS
  <2>3. /\ overview.phase = "ready" /\ resync = "idle"
        /\ Quiet /\ inbox = One(m) /\ Rest(m) = EmptyBag
    <3>1. \A kind, events : Says(m, m.from, kind, events) => m.type # "configEditRequested"
      BY DEF Says, StartedOf, ProgressOf, FinishedOf
    <3>2. overview.phase \in {"ready", "done"}
      BY <2>1, <3>1, MessageOfWork DEF CalmInv, TypeOK, ViewInv, ImportInv
    <3>3. overview.phase = "ready"
      BY <2>1, <3>2, MessageOfIdle DEF CalmInv, ViewInv, ImportInv
    <3>4. QED
      BY <2>1, <3>3, MessageOfIdle DEF CalmInv, ViewInv, ImportInv
  <2>4. /\ edited \in [type : KeyMessages \cup AsyncMessages, from : Events, result : Results]
        /\ edited.type \in types
    BY <2>a, RouterAssumption DEF Message, Result, Results, Events, KeyMessages
  <2>5. inbox' = One(edited) /\ BagToSet(inbox') = {edited}
    <3>1. inbox' = EmptyBag (+) SetToBag({edited})
      BY <2>2, <2>3, <2>a
    <3>2. QED
      BY <3>1, OneMessage
  <2> HIDE DEF types
  <2>6. TypeOK'
    BY <2>1, <2>4, <2>5 DEF CalmInv, TypeOK
  <2>7. Idle(types)'
    BY <2>1, <2>3, <2>4, <2>5 DEF Idle, Quiet, Running
  <2>8. (config.valid => overview.analysis.gen = config.gen) /\ config.gen < MaxEdits
    BY <2>1, <2>3, OneMessage DEF CalmInv, ViewInv, ImportInv
  <2>9. ImportInv'
    BY <2>1, <2>3, <2>7, <2>8 DEF ImportInv, types
  <2>10. QED
    BY <2>1, <2>6, <2>9 DEF CalmInv, ViewInv
<1>3. QED
  BY <1>1, <1>2

LEMMA ApplyConfigCalm ==
    ASSUME CalmInv, NEW m \in BagToSet(inbox), ApplyConfig(m)
    PROVE  CalmInv'
<1> DEFINE valid == ~m.result.err
           gen == config.gen + 1
<1>1. /\ m.type = "configEdited" /\ view = "import"
      /\ config' = [gen |-> gen, valid |-> valid]
      /\ overview' = NewOverview(valid)
      /\ IF valid THEN StartAnalysis(gen, Rest(m)) ELSE inbox' = Rest(m) /\ UNCHANGED ops
      /\ resync' = "idle"
      /\ UNCHANGED <<view, resyncEvents, waits, file, built, faults>>
  BY DEF ApplyConfig, Arrives
<1>2. /\ overview.phase = "ready" /\ Quiet /\ inbox = One(m) /\ Rest(m) = EmptyBag
  <2>1. \A kind, events : Says(m, m.from, kind, events) => m.type # "configEdited"
    BY DEF Says, StartedOf, ProgressOf, FinishedOf
  <2>2. overview.phase \in {"ready", "done"}
    BY <1>1, <2>1, MessageOfWork DEF CalmInv, TypeOK, ViewInv, ImportInv
  <2>3. overview.phase = "ready"
    BY <1>1, <2>2, MessageOfIdle DEF CalmInv, ViewInv, ImportInv
  <2>4. QED
    BY <1>1, <2>3, MessageOfIdle DEF CalmInv, ViewInv, ImportInv
<1>3. gen \in 0 .. MaxEdits
  <2>1. config.gen < MaxEdits
    BY <1>1, <1>2, OneMessage DEF CalmInv, ViewInv, ImportInv
  <2>2. QED
    BY <2>1, RouterAssumption DEF CalmInv, TypeOK
<1>4. valid \in BOOLEAN
  OBVIOUS
<1> HIDE DEF valid, gen
<1>5. config' \in [gen : 0 .. MaxEdits, valid : BOOLEAN] /\ config'.gen = gen /\ config'.valid = valid
  BY <1>1, <1>3, <1>4
<1>6. /\ overview' \in [phase : {"analyzing", "ready", "syncing", "done"},
                        analysis : Results, analysisEvents : Events, syncEvents : Events]
      /\ overview'.phase = IF valid THEN "analyzing" ELSE "ready"
  BY <1>1, CalmTypes DEF NewOverview, Events
<1>7. CASE valid
  <2>1. Launch("analysis", StartedOf("analysis"), gen, EmptyBag) /\ waits' = waits
    BY <1>1, <1>2, <1>7 DEF StartAnalysis, StartedOf
  <2>2. /\ ops' \in [Ops -> CalmOp] /\ \A id \in Ops : OpOK(ops'[id])
        /\ Typed(inbox')
        /\ \E id \in Ops : \A events : Alone(id, "analysis", events)'
    BY <1>2, <1>3, <1>5, <2>1, LaunchAlone DEF Typed
  <2>3. ASSUME NEW events PROVE Working("analysis", events)'
    BY <2>2 DEF Working
  <2>4. TypeOK'
    BY <1>1, <1>5, <1>6, <2>2 DEF CalmInv, TypeOK, CalmOp, Typed
  <2>5. ImportInv'
    BY <1>1, <1>5, <1>6, <1>7, <2>3 DEF ImportInv
  <2>6. QED
    BY <1>1, <2>2, <2>4, <2>5 DEF CalmInv, ViewInv
<1>8. CASE ~valid
  <2>1. inbox' = EmptyBag /\ UNCHANGED ops
    BY <1>1, <1>2, <1>8
  <2>2. Quiet'
    BY <1>1, <1>2, <2>1 DEF Quiet, Running
  <2>3. TypeOK'
    BY <1>1, <1>5, <1>6, <2>1, OneMessage DEF CalmInv, TypeOK
  <2>4. ImportInv'
    BY <1>1, <1>5, <1>6, <1>8, <2>1, <2>2 DEF ImportInv, Idle
  <2>5. QED
    BY <1>1, <2>1, <2>3, <2>4 DEF CalmInv, ViewInv
<1>9. QED
  BY <1>7, <1>8

\* The import screen starts, follows and ends its analysis or its sync.
LEMMA OverviewCalm ==
    ASSUME CalmInv, NEW m \in BagToSet(inbox),
           \/ OverviewStarted(m) \/ OverviewProgress(m)
           \/ OverviewAnalysed(m) \/ OverviewSynced(m)
    PROVE  CalmInv'
<1>1. /\ view = "import" /\ inbox' = Rest(m) /\ m.type \in AsyncMessages
      /\ UNCHANGED <<view, config, resync, resyncEvents, ops, file, built, faults>>
  BY DEF OverviewStarted, OverviewProgress, OverviewAnalysed, OverviewSynced, Arrives,
         AsyncMessages
<1>2. overview.phase \in {"analyzing", "syncing"} /\ resync = "idle"
  <2>1. overview.phase \notin {"ready", "done"}
    BY <1>1, MessageOfIdle DEF CalmInv, ViewInv, ImportInv, AsyncMessages
  <2>2. QED
    BY <1>1, <2>1 DEF CalmInv, TypeOK, ViewInv, ImportInv
<1> DEFINE kind == IF overview.phase = "analyzing" THEN "analysis" ELSE "sync"
           events == IF overview.phase = "analyzing" THEN overview.analysisEvents
                     ELSE overview.syncEvents
           id == m.from
<1>3. Working(kind, events)
  BY <1>1, <1>2 DEF CalmInv, ViewInv, ImportInv
<1>4. /\ Rest(m) = EmptyBag /\ id \in Ops /\ Alone(id, kind, events) /\ waits[id] = 0
      /\ Says(m, id, kind, events)
  BY <1>3, MessageOfWork
<1>5. inbox' = EmptyBag /\ Typed(inbox')
  BY <1>1, <1>4, EmptyBagHoldsNone DEF Typed
<1>6. /\ overview \in [phase : {"analyzing", "ready", "syncing", "done"},
                       analysis : Results, analysisEvents : Events, syncEvents : Events]
      /\ m.result \in Results
      /\ overview.phase = "analyzing" => config.valid
      /\ overview.phase = "syncing" => overview.analysis.gen = config.gen
      /\ \A i \in Ops : OpOK(ops'[i])
  BY <1>1 DEF CalmInv, TypeOK, ViewInv, ImportInv
<1>7. CASE OverviewStarted(m) \/ OverviewProgress(m)
  <2>1. Running(id) /\ WaitFor(id)
    <3>1. CASE OverviewStarted(m)
      BY <1>4, <3>1 DEF OverviewStarted, Arrives, Says, FinishedOf
    <3>2. CASE OverviewProgress(m)
      <4>1. Running(id) /\ events = id /\ m.type = ProgressOf(kind)
        BY <1>4, <3>2 DEF OverviewProgress, Arrives, Says, StartedOf, FinishedOf
      <4>2. WaitFor(events)
        BY <1>2, <3>2, <4>1 DEF OverviewProgress, Arrives, ProgressOf
      <4>3. QED
        BY <4>1, <4>2
    <3>3. QED
      BY <1>7, <3>1, <3>2
  <2>2. /\ overview' \in [phase : {"analyzing", "ready", "syncing", "done"},
                          analysis : Results, analysisEvents : Events, syncEvents : Events]
        /\ overview'.phase = overview.phase /\ overview'.analysis = overview.analysis
        /\ overview.phase = "analyzing" => overview'.analysisEvents = id
        /\ overview.phase = "syncing" => overview'.syncEvents = id
    <3>1. CASE OverviewStarted(m)
      <4>1. m.type = StartedOf(kind)
        BY <1>4, <3>1 DEF OverviewStarted, Arrives, Says, StartedOf, ProgressOf, FinishedOf
      <4>2. id \in Events
        BY <1>4 DEF Events
      <4>3. \/ overview.phase = "analyzing" /\ overview' = [overview EXCEPT !.analysisEvents = id]
            \/ overview.phase = "syncing" /\ overview' = [overview EXCEPT !.syncEvents = id]
        BY <1>2, <3>1, <4>1 DEF OverviewStarted, Arrives, StartedOf
      <4>4. QED
        BY <1>6, <4>2, <4>3
    <3>2. CASE OverviewProgress(m)
      <4>1. events = id
        BY <1>4, <3>2 DEF OverviewProgress, Arrives, Says, StartedOf, FinishedOf
      <4>2. overview' = overview
        BY <3>2 DEF OverviewProgress
      <4>3. QED
        BY <1>6, <4>1, <4>2
    <3>3. QED
      BY <1>7, <3>1, <3>2
  <2>a. PICK k, o : k = kind /\ o = id
    OBVIOUS
  <2>3. Working(k, o)' /\ waits' \in [Ops -> Nat]
    BY <1>1, <1>4, <1>5, <2>1, <2>a, WaitAlone
  <2>4. TypeOK'
    BY <1>1, <1>5, <2>2, <2>3 DEF CalmInv, TypeOK, Typed
  <2>5. ImportInv'
    <3>1. CASE overview.phase = "analyzing"
      BY <1>1, <1>2, <1>6, <2>2, <2>3, <2>a, <3>1 DEF ImportInv
    <3>2. CASE overview.phase = "syncing"
      BY <1>1, <1>2, <1>6, <2>2, <2>3, <2>a, <3>2 DEF ImportInv
    <3>3. QED
      BY <1>2, <3>1, <3>2
  <2>6. QED
    BY <1>1, <1>6, <2>4, <2>5 DEF CalmInv, ViewInv
<1>8. CASE OverviewAnalysed(m) \/ OverviewSynced(m)
  <2>1. ~Running(id) /\ m.type = FinishedOf(kind) /\ m.result.gen = config.gen
    BY <1>4, <1>8 DEF OverviewAnalysed, OverviewSynced, Arrives, Says, StartedOf, ProgressOf
  <2>2. Quiet /\ UNCHANGED waits
    BY <1>4, <1>8, <2>1, FinishQuiet DEF OverviewAnalysed, OverviewSynced
  <2>3. Quiet'
    BY <1>1, <2>2 DEF Quiet, Running
  <2>4. /\ overview' \in [phase : {"analyzing", "ready", "syncing", "done"},
                          analysis : Results, analysisEvents : Events, syncEvents : Events]
        /\ overview'.phase \in {"ready", "done"}
        /\ overview'.analysis.gen = config.gen
    <3>1. CASE overview.phase = "analyzing"
      <4>1. overview' = [overview EXCEPT !.phase = "ready", !.analysis = m.result,
                                         !.analysisEvents = None]
        BY <1>8, <2>1, <3>1 DEF OverviewAnalysed, OverviewSynced, Arrives, FinishedOf
      <4>2. None \in Events
        BY DEF Events
      <4>3. QED
        BY <1>6, <2>1, <4>1, <4>2
    <3>2. CASE overview.phase = "syncing"
      <4>1. overview' = [overview EXCEPT !.phase = IF m.result.err THEN "ready" ELSE "done",
                                         !.syncEvents = None]
        BY <1>8, <2>1, <3>2 DEF OverviewAnalysed, OverviewSynced, Arrives, FinishedOf
      <4>2. None \in Events
        BY DEF Events
      <4>3. QED
        BY <1>6, <3>2, <4>1, <4>2
    <3>3. QED
      BY <1>2, <3>1, <3>2
  <2>5. TypeOK'
    BY <1>1, <1>5, <2>2, <2>4 DEF CalmInv, TypeOK, Typed
  <2>6. ImportInv'
    BY <1>1, <1>2, <1>5, <2>3, <2>4 DEF ImportInv, Idle
  <2>7. QED
    BY <1>1, <1>6, <2>5, <2>6 DEF CalmInv, ViewInv
<1>9. QED
  BY <1>7, <1>8

\* The browser's R: nothing else is under way when its analysis starts.
LEMMA ResyncRequestCalm ==
    ASSUME CalmInv, NEW m \in BagToSet(inbox), ResyncRequested(m)
    PROVE  CalmInv'
<1>1. /\ view = "browser" /\ m.type = "resyncRequested"
      /\ resync' = IF resync = "idle" THEN "analyzing" ELSE resync
      /\ StartAnalysis(config.gen, Rest(m))
      /\ UNCHANGED <<view, config, overview, resyncEvents, waits, file, built, faults>>
  BY DEF ResyncRequested, Arrives
<1>2. resync = "idle"
  <2>1. ASSUME resync # "idle" PROVE FALSE
    <3>1. \E kind \in {"analysis", "sync"} : Says(m, m.from, kind, resyncEvents)
      BY <1>1, <2>1, MessageOfWork DEF CalmInv, TypeOK, ViewInv, BrowserScreenInv
    <3>2. QED
      BY <1>1, <3>1 DEF Says, StartedOf, ProgressOf, FinishedOf
  <2>2. QED
    BY <2>1
<1>3. Quiet /\ Rest(m) = EmptyBag
  BY <1>1, <1>2, MessageOfIdle DEF CalmInv, ViewInv, BrowserScreenInv
<1>4. Launch("analysis", StartedOf("analysis"), config.gen, EmptyBag)
  BY <1>1, <1>3 DEF StartAnalysis, StartedOf
<1>a. config.gen \in 0 .. MaxEdits /\ config'.gen = config.gen /\ waits' = waits
  BY <1>1 DEF CalmInv, TypeOK
<1>5. /\ ops' \in [Ops -> CalmOp] /\ \A id \in Ops : OpOK(ops'[id])
      /\ Typed(inbox')
      /\ \E id \in Ops : \A events : Alone(id, "analysis", events)'
  BY <1>3, <1>4, <1>a, LaunchAlone DEF Typed
<1>6. ASSUME NEW events PROVE Working("analysis", events)'
  BY <1>5 DEF Working
<1>b. resync' = "analyzing"
  BY <1>1, <1>2
<1>7. TypeOK'
  BY <1>1, <1>5, <1>b DEF CalmInv, TypeOK, CalmOp, Typed
<1>8. BrowserScreenInv'
  BY <1>6, <1>b DEF BrowserScreenInv
<1>9. QED
  BY <1>1, <1>5, <1>7, <1>8 DEF CalmInv, ViewInv

\* The resync follows its analysis, starts its sync, follows that and ends.
LEMMA ResyncCalm ==
    ASSUME CalmInv, NEW m \in BagToSet(inbox),
           \/ ResyncStarted(m) \/ ResyncProgress(m)
           \/ ResyncAnalysed(m) \/ ResyncSynced(m)
    PROVE  CalmInv'
<1>1. /\ view = "browser" /\ resync \in {"analyzing", "syncing"}
      /\ UNCHANGED <<view, config, overview, file, built, faults>>
  BY DEF ResyncStarted, ResyncProgress, ResyncAnalysed, ResyncSynced, CalmInv, TypeOK
<1> DEFINE kind == IF resync = "analyzing" THEN "analysis" ELSE "sync"
           id == m.from
<1>2. Working(kind, resyncEvents)
  BY <1>1 DEF CalmInv, ViewInv, BrowserScreenInv
<1>3. /\ Rest(m) = EmptyBag /\ id \in Ops /\ Alone(id, kind, resyncEvents) /\ waits[id] = 0
      /\ Says(m, id, kind, resyncEvents)
  BY <1>2, MessageOfWork
<1>4. Typed(EmptyBag) /\ \A i \in Ops : OpOK(ops[i])
  BY EmptyBagHoldsNone DEF Typed, CalmInv
<1>5. CASE ResyncStarted(m) \/ ResyncProgress(m)
  <2>1. inbox' = EmptyBag /\ ops' = ops
    BY <1>3, <1>5 DEF ResyncStarted, ResyncProgress
  <2>2. Running(id) /\ WaitFor(id) /\ resyncEvents' = id /\ resync' = resync
    <3>1. CASE ResyncStarted(m)
      BY <1>3, <3>1 DEF ResyncStarted, Arrives, Says, FinishedOf, ProgressOf
    <3>2. CASE ResyncProgress(m)
      <4>1. Running(id) /\ resyncEvents = id /\ m.type = ProgressOf(kind)
        BY <1>3, <3>2 DEF ResyncProgress, Arrives, Says, StartedOf, FinishedOf
      <4>2. WaitFor(resyncEvents) /\ resyncEvents' = resyncEvents
        BY <3>2 DEF ResyncProgress
      <4>3. resync' = resync
        BY <1>1, <3>2, <4>1 DEF ResyncProgress, Arrives, ProgressOf
      <4>4. QED
        BY <4>1, <4>2, <4>3
    <3>3. QED
      BY <1>5, <3>1, <3>2
  <2>a. PICK k, o : k = kind /\ o = id
    OBVIOUS
  <2>3. Working(k, o)' /\ waits' \in [Ops -> Nat]
    BY <1>1, <1>3, <2>1, <2>2, <2>a, WaitAlone
  <2>4. id \in Events
    BY <1>3 DEF Events
  <2>5. TypeOK'
    BY <1>1, <1>4, <2>1, <2>2, <2>3, <2>4 DEF CalmInv, TypeOK, Typed
  <2>6. BrowserScreenInv'
    BY <1>1, <2>2, <2>3, <2>a DEF BrowserScreenInv
  <2>7. QED
    BY <1>1, <1>4, <2>1, <2>5, <2>6 DEF CalmInv, ViewInv
<1>6. CASE ResyncAnalysed(m) \/ ResyncSynced(m)
  <2>1. ~Running(id) /\ m.type = FinishedOf(kind)
    BY <1>3, <1>6 DEF ResyncAnalysed, ResyncSynced, Arrives, Says, StartedOf, ProgressOf
  <2>2. Quiet /\ UNCHANGED <<waits, resyncEvents>>
    BY <1>3, <1>6, <2>1, FinishQuiet DEF ResyncAnalysed, ResyncSynced
  <2>3. CASE resync' = "idle" /\ inbox' = Rest(m) /\ UNCHANGED ops
    <3>1. inbox' = EmptyBag /\ ops' = ops
      BY <1>3, <2>3
    <3>2. Quiet'
      BY <2>2, <3>1 DEF Quiet, Running
    <3>3. TypeOK'
      BY <1>1, <1>4, <2>2, <2>3, <3>1 DEF CalmInv, TypeOK, Typed
    <3>4. BrowserScreenInv'
      BY <2>3, <3>1, <3>2 DEF BrowserScreenInv, Idle
    <3>5. QED
      BY <1>1, <1>4, <3>1, <3>3, <3>4 DEF CalmInv, ViewInv
  <2>4. CASE resync' = "syncing" /\ StartSync(Rest(m))
    <3>1. Launch("sync", StartedOf("sync"), config.gen, EmptyBag)
      BY <1>3, <2>4 DEF StartSync, StartedOf
    <3>2. config.gen \in 0 .. MaxEdits /\ config'.gen = config.gen /\ waits' = waits
      BY <1>1, <2>2 DEF CalmInv, TypeOK
    <3>3. /\ ops' \in [Ops -> CalmOp] /\ \A i \in Ops : OpOK(ops'[i])
          /\ Typed(inbox')
          /\ \E i \in Ops : \A events : Alone(i, "sync", events)'
      BY <2>2, <3>1, <3>2, LaunchAlone DEF Typed
    <3>4. ASSUME NEW events PROVE Working("sync", events)'
      BY <3>3 DEF Working
    <3>5. TypeOK'
      BY <1>1, <2>2, <2>4, <3>3 DEF CalmInv, TypeOK, CalmOp, Typed
    <3>6. BrowserScreenInv'
      BY <2>4, <3>4 DEF BrowserScreenInv
    <3>7. QED
      BY <1>1, <3>3, <3>5, <3>6 DEF CalmInv, ViewInv
  <2>5. QED
    BY <1>3, <1>6, <2>3, <2>4 DEF ResyncAnalysed, ResyncSynced
<1>7. QED
  BY <1>5, <1>6

LEMMA UpdateCalm == ASSUME CalmInv, Update PROVE CalmInv'
<1>1. PICK m \in BagToSet(inbox) :
        \/ Drop(m) \/ SwitchStats(m) \/ EditConfig(m) \/ ApplyConfig(m)
        \/ OverviewStarted(m) \/ OverviewProgress(m)
        \/ OverviewAnalysed(m) \/ OverviewSynced(m)
        \/ ResyncRequested(m) \/ ResyncStarted(m) \/ ResyncProgress(m)
        \/ ResyncAnalysed(m) \/ ResyncSynced(m)
  BY DEF Update
<1>2. ~Drop(m)
  BY NothingDropped DEF Drop
<1>3. CASE SwitchStats(m) \/ EditConfig(m)
  BY <1>3, OwnMessagesCalm
<1>4. CASE ApplyConfig(m)
  BY <1>4, ApplyConfigCalm
<1>5. CASE OverviewStarted(m) \/ OverviewProgress(m) \/ OverviewAnalysed(m) \/ OverviewSynced(m)
  BY <1>5, OverviewCalm
<1>6. CASE ResyncRequested(m)
  BY <1>6, ResyncRequestCalm
<1>7. CASE ResyncStarted(m) \/ ResyncProgress(m) \/ ResyncAnalysed(m) \/ ResyncSynced(m)
  BY <1>7, ResyncCalm
<1>8. QED
  BY <1>1, <1>2, <1>3, <1>4, <1>5, <1>6, <1>7

-----------------------------------------------------------------------------
(* The rest of Next, and the start *)

\* Whatever the screen, either nothing is under way or one operation is.
LEMMA QuietOrAlone ==
    ASSUME CalmInv
    PROVE  Quiet \/ \E id \in Ops, kind \in {"analysis", "sync"} :
                        \E events : Alone(id, kind, events)
<1>1. CASE view = "import"
  BY <1>1 DEF CalmInv, TypeOK, ViewInv, ImportInv, Working, Idle
<1>2. CASE view = "browser"
  BY <1>2 DEF CalmInv, TypeOK, ViewInv, BrowserScreenInv, Working, Idle
<1>3. CASE view = "stats"
  BY <1>3 DEF CalmInv, TypeOK, ViewInv, StatsInv, Idle
<1>4. QED
  BY <1>1, <1>2, <1>3 DEF CalmInv, TypeOK

LEMMA NoWaitInVain == ASSUME CalmInv, NEW id \in Ops PROVE ~WaitInVain(id)
<1>1. waits \in [Ops -> Nat]
  BY DEF CalmInv, TypeOK
<1>2. QED
  BY <1>1, QuietOrAlone DEF WaitInVain, Quiet, Alone

LEMMA ProviderCalm == ASSUME CalmInv, NEW f \in Files, ProviderWrites(f) PROVE CalmInv'
<1>1. /\ UNCHANGED <<view, config, overview, resync, resyncEvents, ops, waits, inbox, built,
                     faults>>
      /\ file' = [file EXCEPT ![f] = "fresh"]
  BY DEF ProviderWrites
<1>2. TypeOK'
  BY <1>1 DEF CalmInv, TypeOK
<1>3. ViewInv'
  BY <1>1, ScreensUndisturbed DEF CalmInv, Running
<1>4. QED
  BY <1>1, <1>2, <1>3 DEF CalmInv

LEMMA CalmStart == Init => CalmInv
<1> SUFFICES ASSUME Init PROVE CalmInv
  OBVIOUS
<1>1. /\ view = "import" /\ resync = "idle" /\ resyncEvents = None
      /\ waits = [id \in Ops |-> 0] /\ faults = 0
      /\ built \in BOOLEAN /\ file \in [Files -> {"stored", "fresh"}]
  BY DEF Init
<1> DEFINE scan == [Closed EXCEPT !.pc = "scan", !.left = MaxProgress]
<1>2. PICK valid \in BOOLEAN, id \in Ops :
        /\ config = [gen |-> 0, valid |-> valid]
        /\ overview = NewOverview(valid)
        /\ ops = [i \in Ops |-> IF valid /\ i = id THEN scan ELSE Closed]
        /\ inbox = IF valid THEN SetToBag({Note("analysisStarted", id)}) ELSE EmptyBag
  BY DEF Init
<1>3. /\ Closed \in CalmOp /\ OpOK(Closed) /\ Closed.pc = "closed"
      /\ scan \in CalmOp /\ OpOK(scan) /\ scan.pc = "scan"
      /\ scan.kind = "analysis" /\ scan.gen = 0
  BY CalmTypes DEF Closed, CalmOp, OpOK
<1> HIDE DEF scan
<1>4. ops \in [Ops -> CalmOp] /\ \A i \in Ops : OpOK(ops[i])
  BY <1>2, <1>3
<1>5. /\ overview \in [phase : {"analyzing", "ready", "syncing", "done"},
                       analysis : Results, analysisEvents : Events, syncEvents : Events]
      /\ overview.phase = IF valid THEN "analyzing" ELSE "ready"
  BY <1>2, CalmTypes DEF NewOverview, Events
<1>a. PICK m : m = Note("analysisStarted", id)
  OBVIOUS
<1>6. /\ m.from = id /\ m.type = StartedOf("analysis")
      /\ m \in [type : KeyMessages \cup AsyncMessages, from : Events, result : Results]
  BY <1>a, CalmTypes DEF Note, Message, StartedOf, Events, AsyncMessages
<1>7. Typed(inbox) /\ (valid => inbox = One(m) /\ BagToSet(inbox) = {m})
      /\ (~valid => inbox = EmptyBag)
  <2>1. CASE valid
    <3>1. inbox = One(m)
      BY <1>2, <1>a, <2>1 DEF One
    <3>2. BagToSet(One(m)) = {m}
      BY OneMessage
    <3>3. BagToSet(inbox) = {m}
      BY <3>1, <3>2
    <3>4. QED
      BY <1>6, <2>1, <3>1, <3>3 DEF Typed
  <2>2. CASE ~valid
    BY <1>2, <2>2, EmptyBagHoldsNone DEF Typed
  <2>3. QED
    BY <2>1, <2>2
<1>8. TypeOK
  <2>1. config \in [gen : 0 .. MaxEdits, valid : BOOLEAN] /\ 0 \in 0 .. MaxFaults
    BY <1>2, RouterAssumption
  <2>2. QED
    BY <1>1, <1>4, <1>5, <1>7, <2>1 DEF TypeOK, CalmOp, Typed, Events
<1>9. CASE valid
  <2>1. /\ Running(id) /\ ops[id].kind = "analysis" /\ ops[id].gen = config.gen
        /\ \A i \in Ops \ {id} : ~Running(i)
        /\ \A i \in Ops : waits[i] = 0
    BY <1>1, <1>2, <1>3, <1>9 DEF Running
  <2>2. \A events : Alone(id, "analysis", events)
    BY <1>6, <1>7, <1>9, <2>1 DEF Alone, Says
  <2>3. ImportInv
    BY <1>1, <1>2, <1>5, <1>9, <2>2 DEF ImportInv, Working
  <2>4. QED
    BY <1>1, <1>4, <1>8, <2>3 DEF CalmInv, ViewInv
<1>10. CASE ~valid
  <2>1. Quiet
    BY <1>1, <1>2, <1>3, <1>10 DEF Quiet, Running
  <2>2. ImportInv
    BY <1>1, <1>2, <1>5, <1>7, <1>10, <2>1 DEF ImportInv, Idle
  <2>3. QED
    BY <1>1, <1>4, <1>8, <2>2 DEF CalmInv, ViewInv
<1>11. QED
  BY <1>9, <1>10

LEMMA CalmStep == ASSUME Habits = {}, CalmInv, [Next]_vars PROVE CalmInv'
<1>1. CASE Keys
  BY <1>1, PressEnterCalm, PressOthersCalm DEF Keys
<1>2. CASE Update
  BY <1>2, UpdateCalm
<1>3. CASE \E id \in Ops : Work(id) \/ Deliver(id) \/ WaitInVain(id)
  BY <1>3, WorkKeepsCalm, DeliverKeepsCalm, NoWaitInVain
<1>4. CASE \E f \in Files : ProviderWrites(f)
  BY <1>4, ProviderCalm
<1>5. CASE UNCHANGED vars
  <2>1. UNCHANGED <<view, config, overview, resync, resyncEvents, ops, waits, inbox,
                    file, built, faults>>
    BY <1>5 DEF vars
  <2>2. TypeOK'
    BY <2>1 DEF CalmInv, TypeOK
  <2>3. ViewInv'
    BY <2>1, ScreensUndisturbed DEF CalmInv, Running
  <2>4. QED
    BY <2>1, <2>2, <2>3 DEF CalmInv
<1>6. QED
  BY <1>1, <1>2, <1>3, <1>4, <1>5 DEF Next

-----------------------------------------------------------------------------
\* With a user who waits for each key to take effect, a goroutine that has not
\* finished is always going to be heard: no operation blocks for ever in a send
\* (waitForAsyncImportMsg, import_overview_cmds.go).
THEOREM AlwaysListened == ASSUME Habits = {} PROVE Spec => []Listened
<1>1. CalmInv => Listened
  <2> SUFFICES ASSUME CalmInv, NEW i \in Ops, Running(i)
               PROVE  waits[i] > 0 \/ \E m \in BagToSet(inbox) : m.from = i
    BY DEF Listened
  <2>a. PICK id \in Ops, kind \in {"analysis", "sync"} : \E events : Alone(id, kind, events)
    BY QuietOrAlone DEF Quiet
  <2>1. PICK events : Alone(id, kind, events)
    BY <2>a
  <2>2. i = id
    BY <2>1 DEF Alone
  <2>3. QED
    BY <2>1, <2>2 DEF Alone, Says
<1>2. QED
  BY CalmStart, CalmStep, <1>1, PTL DEF Spec

\* The same user never has two Pipeline.Run calls under way, whatever the
\* screens they were started from.
THEOREM RunsOneAtATime == ASSUME Habits = {} PROVE Spec => []OneRunAtATime
<1>1. CalmInv => OneRunAtATime
  <2> SUFFICES ASSUME CalmInv PROVE OneRunAtATime
    OBVIOUS
  <2> DEFINE syncs == {id \in Ops : Running(id) /\ ops[id].kind = "sync"}
  <2>1. \E id : syncs \subseteq {id}
    BY QuietOrAlone DEF Quiet, Alone
  <2>2. syncs = {} \/ \E id : syncs = {id}
    BY <2>1
  <2> HIDE DEF syncs
  <2>3. Cardinality(syncs) <= 1
    <3>1. CASE syncs = {}
      BY <3>1, FS_EmptySet
    <3>2. ASSUME NEW id, syncs = {id} PROVE Cardinality(syncs) <= 1
      <4>1. Cardinality({id}) = 1
        BY FS_Singleton
      <4>2. QED
        BY <3>2, <4>1
    <3>3. QED
      BY <2>2, <3>1, <3>2
  <2>4. QED
    BY <2>3 DEF OneRunAtATime, syncs
<1>2. QED
  BY CalmStart, CalmStep, <1>1, PTL DEF Spec

\* And what the import screen shows is true of the operation behind it: the
\* analysis is of the configuration in force, and Enter is offered only when
\* nothing is under way (handleEnterKey, applyConfigState).
THEOREM OverviewAlwaysTrue == ASSUME Habits = {} PROVE Spec => []OverviewTrue
<1>1. CalmInv => OverviewTrue
  <2> SUFFICES ASSUME CalmInv PROVE OverviewTrue
    OBVIOUS
  <2>1. AnalysisOfConfig
    BY DEF CalmInv, ViewInv, ImportInv, AnalysisOfConfig
  <2>2. OffersWhenIdle
    BY DEF CalmInv, ViewInv, ImportInv, OffersWhenIdle, Idle, Quiet
  <2>3. QED
    BY <2>1, <2>2 DEF CalmInv, OverviewTrue
<1>2. QED
  BY CalmStart, CalmStep, <1>1, PTL DEF Spec

-----------------------------------------------------------------------------
(***************************************************************************)
(* TranscriptViewer.  First what the proofs need of numbers and sequences. *)
(***************************************************************************)
\* The order of the natural numbers, as a relation.
NatOrder == {ss \in Nat \X Nat : ss[1] < ss[2]}

\* A set of natural numbers has a least one.
LEMMA LeastNatural ==
  ASSUME NEW T \in SUBSET Nat, T # {}
  PROVE  \E least \in T : \A k \in T : least <= k
<1>1. IsWellFoundedOn(NatOrder, Nat)
  BY NatLessThanWellFounded, Zenon DEF OpToRel, NatOrder
<1>2. PICK least \in T : \A k \in T : ~(<<k, least>> \in NatOrder)
  BY <1>1, WFMin
<1>3. ASSUME NEW k \in T PROVE least <= k
  <2>1. k \in Nat /\ least \in Nat
    OBVIOUS
  <2>2. k < least => <<k, least>> \in NatOrder
    BY <2>1 DEF NatOrder
  <2>3. QED
    BY <1>2, <2>1, <2>2
<1>4. QED
  BY <1>3

\* Induction up to a bound, for a set.
LEMMA UpTo ==
  ASSUME NEW bound \in Nat, NEW T,
         0 \in T, \A n \in 1..bound : n - 1 \in T => n \in T
  PROVE  0..bound \subseteq T
<1> DEFINE bad == {n \in 0..bound : n \notin T}
<1>1. ASSUME bad # {} PROVE FALSE
  <2>1. bad \in SUBSET Nat
    OBVIOUS
  <2>2. \E j \in bad : \A i \in bad : j <= i
    <3> HIDE DEF bad
    <3>1. QED
      BY <1>1, <2>1, LeastNatural
  <2>3. PICK j \in bad : \A i \in bad : j <= i
    BY <2>2
  <2>4. j # 0 /\ j \in 0..bound /\ j \notin T
    BY <2>3
  <2>5. j - 1 \in 0..bound /\ j \in 1..bound /\ ~(j <= j - 1)
    BY <2>4
  <2>6. j - 1 \in T
    BY <2>3, <2>5
  <2>7. QED
    BY <2>4, <2>5, <2>6
<1>2. QED
  BY <1>1

\* up begins with first, and each step gives the next.
Iterates(first, step, n, up) ==
    up[0] = first /\ \A i \in 1..n : up[i] = step[<<up[i - 1], i>>]

\* A step can be taken any number of times.
LEMMA IteratesExist ==
  ASSUME NEW X, NEW first \in X, NEW n \in Nat, NEW step \in [X \X (1..n) -> X]
  PROVE  \E up \in [0..n -> X] : Iterates(first, step, n, up)
<1> DEFINE good == {k \in 0..n : \E up \in [0..k -> X] : Iterates(first, step, k, up)}
<1>1. 0 \in good
  <2>1. [i \in 0..0 |-> first] \in [0..0 -> X] /\ Iterates(first, step, 0, [i \in 0..0 |-> first])
    BY DEF Iterates
  <2>2. QED
    BY <2>1
<1>2. ASSUME NEW k \in 1..n, k - 1 \in good PROVE k \in good
  <2>1. PICK up \in [0..(k - 1) -> X] : Iterates(first, step, k - 1, up)
    BY <1>2
  <2>2. PICK next \in X : next = step[<<up[k - 1], k>>]
    OBVIOUS
  <2>3. PICK longer : longer = [i \in 0..k |-> IF i = k THEN next ELSE up[i]]
    OBVIOUS
  <2>4. \A i \in 0..k : i # k => i \in 0..(k - 1)
    OBVIOUS
  <2>5. longer \in [0..k -> X]
    BY <2>3, <2>4
  <2>6. longer[0] = first
    BY <2>1, <2>3 DEF Iterates
  <2>7. ASSUME NEW i \in 1..k PROVE longer[i] = step[<<longer[i - 1], i>>]
    <3>1. i - 1 \in 0..(k - 1) /\ longer[i - 1] = up[i - 1]
      BY <2>3
    <3>2. CASE i = k
      <4>1. longer[i] = next
        BY <2>3, <3>2
      <4>2. next = step[<<up[i - 1], i>>]
        BY <2>2, <3>2
      <4>3. QED
        BY <3>1, <4>1, <4>2
    <3>3. CASE i # k
      <4>1. i \in 1..(k - 1) /\ longer[i] = up[i]
        BY <2>3, <3>3
      <4>2. QED
        BY <2>1, <3>1, <4>1 DEF Iterates
    <3>4. QED
      BY <3>2, <3>3
  <2>8. Iterates(first, step, k, longer)
    BY <2>6, <2>7 DEF Iterates
  <2>9. QED
    BY <2>5, <2>8
<1>3. 0..n \subseteq good
  <2> HIDE DEF good
  <2>1. QED
    BY <1>1, <1>2, UpTo
<1>4. QED
  BY <1>3

\* up holds the concatenations of the first parts of ss, n of them.
Partial(ss, n, up) ==
    up = [i \in 1 .. n |-> IF i = 1 THEN ss[i] ELSE up[i - 1] \o ss[i]]

\* They exist, however many parts there are.
LEMMA PartialExists ==
  ASSUME NEW ss, NEW n \in Nat
  PROVE  \E up : Partial(ss, n, up)
<1> DEFINE good == {k \in 0 .. n : \E up : Partial(ss, k, up)}
<1>1. 0 \in good
  <2>1. Partial(ss, 0, <<>>)
    BY DEF Partial
  <2>2. QED
    BY <2>1
<1>2. ASSUME NEW k \in 1 .. n, k - 1 \in good PROVE k \in good
  <2>1. PICK up : Partial(ss, k - 1, up)
    BY <1>2
  <2>2. PICK longer : longer = [i \in 1 .. k |-> IF i = k
                                    THEN IF k = 1 THEN ss[k] ELSE up[k - 1] \o ss[k]
                                    ELSE up[i]]
    OBVIOUS
  <2>3. \A i \in 1 .. (k - 1) : up[i] = IF i = 1 THEN ss[i] ELSE up[i - 1] \o ss[i]
    BY <2>1 DEF Partial
  <2>4. \A i \in 1 .. k : longer[i] = IF i = 1 THEN ss[i] ELSE longer[i - 1] \o ss[i]
    <3> TAKE i \in 1 .. k
    <3>1. CASE i = k
      BY <2>2, <3>1
    <3>2. CASE i # k
      <4>1. i \in 1 .. (k - 1) /\ (i # 1 => i - 1 \in 1 .. (k - 1))
        BY <3>2
      <4>2. longer[i] = up[i] /\ (i # 1 => longer[i - 1] = up[i - 1])
        BY <2>2, <3>2, <4>1
      <4>3. QED
        BY <2>3, <4>1, <4>2
    <3>3. QED
      BY <3>1, <3>2
  <2>5. longer = [i \in 1 .. k |-> longer[i]]
    BY <2>2
  <2>6. Partial(ss, k, longer)
    BY <2>4, <2>5 DEF Partial
  <2>7. QED
    BY <2>6
<1>3. 0 .. n \subseteq good
  <2> HIDE DEF good
  <2>1. QED
    BY <1>1, <1>2, UpTo
<1>4. QED
  BY <1>3

\* FlattenSeq is the last of them.
LEMMA FlattenIsPartial ==
  ASSUME NEW ss, Len(ss) \in Nat \ {0}
  PROVE  \E up : Partial(ss, Len(ss), up) /\ FlattenSeq(ss) = up[Len(ss)]
<1>1. PICK n \in Nat : n = Len(ss) /\ n # 0
  OBVIOUS
<1>2. FlattenSeq(ss) = (CHOOSE up : Partial(ss, n, up))[n]
  BY <1>1 DEF FlattenSeq, Partial
<1>3. \E up : Partial(ss, n, up)
  BY PartialExists
<1>4. QED
  BY <1>1, <1>2, <1>3

\* They are sequences.
LEMMA PartialType ==
  ASSUME NEW S, NEW n \in Nat, NEW ss, \A i \in 1 .. n : ss[i] \in Seq(S),
         NEW up, Partial(ss, n, up)
  PROVE  \A i \in 1 .. n : up[i] \in Seq(S)
<1> DEFINE good == {k \in 0 .. n : k # 0 => up[k] \in Seq(S)}
<1>1. \A i \in 1 .. n : up[i] = IF i = 1 THEN ss[i] ELSE up[i - 1] \o ss[i]
  BY DEF Partial
<1>2. 0 \in good
  OBVIOUS
<1>3. ASSUME NEW k \in 1 .. n, k - 1 \in good PROVE k \in good
  <2>1. CASE k = 1
    BY <1>1, <2>1
  <2>2. CASE k # 1
    <3>1. k - 1 \in 0 .. n /\ k - 1 # 0 /\ k \in 0 .. n
      BY <2>2
    <3>2. up[k - 1] \in Seq(S)
      BY <1>3, <3>1
    <3>3. up[k] = up[k - 1] \o ss[k] /\ ss[k] \in Seq(S)
      BY <1>1, <2>2
    <3>4. up[k] \in Seq(S)
      BY <3>2, <3>3, ConcatProperties
    <3>5. QED
      BY <3>1, <3>4
  <2>3. QED
    BY <2>1, <2>2
<1>4. 0 .. n \subseteq good
  <2> HIDE DEF good
  <2>1. QED
    BY <1>2, <1>3, UpTo
<1>5. QED
  BY <1>4

\* Concatenating no parts.
LEMMA FlattenEmpty == FlattenSeq(<<>>) = <<>>
  BY DEF FlattenSeq

\* Concatenating sequences gives a sequence.
LEMMA FlattenType ==
  ASSUME NEW S, NEW ss \in Seq(Seq(S))
  PROVE  FlattenSeq(ss) \in Seq(S)
<1>1. CASE ss = <<>>
  BY <1>1, FlattenEmpty, EmptySeq
<1>2. CASE ss # <<>>
  <2>1. Len(ss) \in Nat \ {0} /\ \A i \in 1 .. Len(ss) : ss[i] \in Seq(S)
    BY <1>2, EmptySeq, ElementOfSeq
  <2>2. PICK up : Partial(ss, Len(ss), up) /\ FlattenSeq(ss) = up[Len(ss)]
    BY <2>1, FlattenIsPartial
  <2>3. \A i \in 1 .. Len(ss) : up[i] \in Seq(S)
    BY <2>1, <2>2, PartialType
  <2>4. QED
    BY <2>1, <2>2, <2>3
<1>3. QED
  BY <1>1, <1>2

\* A function on places is a sequence.
LEMMA ByElements ==
  ASSUME NEW S, NEW n \in Nat, NEW f, f = [i \in 1..n |-> f[i]], \A i \in 1..n : f[i] \in S
  PROVE  f \in Seq(S) /\ Len(f) = n /\ DOMAIN f = 1..n
<1>1. f \in [1..n -> S]
  OBVIOUS
<1>2. f \in Seq(S)
  BY <1>1, SeqDef
<1>3. QED
  BY <1>1, <1>2, LenProperties

\* To compute it at once changes nothing.
LEMMA EagerIs ==
  ASSUME NEW n \in Nat, NEW f, f = [i \in 1..n |-> f[i]]
  PROVE  Eager(f) = f /\ Len(f) = n
<1>1. PICK S : S = {f[i] : i \in 1..n}
  OBVIOUS
<1>2. \A i \in 1..n : f[i] \in S
  BY <1>1
<1>3. f \in Seq(S) /\ Len(f) = n
  BY <1>2, ByElements
<1>4. QED
  BY <1>3, SubSeqFull DEF Eager

LEMMA LeastIs ==
  ASSUME NEW T \in SUBSET Nat, T # {}
  PROVE  Least(T) \in T /\ \A k \in T : Least(T) <= k
<1>1. \E x \in T : \A y \in T : x <= y
  BY LeastNatural
<1>2. QED
  BY <1>1 DEF Least

LEMMA GreatestIs ==
  ASSUME NEW T \in SUBSET Nat, T # {}, NEW bound \in Nat, \A k \in T : k <= bound
  PROVE  Greatest(T) \in T /\ \A k \in T : k <= Greatest(T)
<1> DEFINE gaps == {bound - k : k \in T}
<1>1. gaps \in SUBSET Nat /\ gaps # {}
  <2>1. \A k \in T : k \in Nat /\ bound - k \in Nat
    OBVIOUS
  <2>2. QED
    BY <2>1
<1>2. \E gap \in gaps : \A other \in gaps : gap <= other
  <2> HIDE DEF gaps
  <2>1. QED
    BY <1>1, LeastNatural
<1>3. PICK x \in T : \A other \in gaps : bound - x <= other
  BY <1>2
<1>4. \A k \in T : x >= k
  <2> TAKE k \in T
  <2>1. bound - x <= bound - k /\ x \in Nat /\ k \in Nat
    BY <1>3
  <2>2. QED
    BY <2>1
<1>5. Greatest(T) \in T /\ \A k \in T : Greatest(T) >= k
  BY <1>4 DEF Greatest
<1>6. QED
  <2>1. Greatest(T) \in Nat /\ \A k \in T : k \in Nat
    BY <1>5
  <2>2. QED
    BY <1>5, <2>1

-----------------------------------------------------------------------------
(* Sums *)

\* sums is the recursive function of Total.
Sums(s, n, sums) == sums = [i \in 0..n |-> IF i = 0 THEN 0 ELSE sums[i - 1] + s[i]]

LEMMA SumsExist ==
  ASSUME NEW n \in Nat, NEW s, \A i \in 1..n : s[i] \in Nat
  PROVE  \E sums \in [0..n -> Nat] : Sums(s, n, sums)
<1>1. PICK step : step = [xi \in Nat \X (1..n) |-> xi[1] + s[xi[2]]]
  OBVIOUS
<1>2. step \in [Nat \X (1..n) -> Nat]
  BY <1>1
<1>3. PICK sums \in [0..n -> Nat] : Iterates(0, step, n, sums)
  BY <1>2, IteratesExist
<1>4. \A i \in 1..n : sums[i] = sums[i - 1] + s[i]
  <2> TAKE i \in 1..n
  <2>1. sums[i - 1] \in Nat
    <3>1. i - 1 \in 0..n
      OBVIOUS
    <3>2. QED
      BY <3>1
  <2>2. sums[i] = step[<<sums[i - 1], i>>]
    BY <1>3 DEF Iterates
  <2>3. QED
    BY <1>1, <2>1, <2>2
<1>5. sums[0] = 0
  BY <1>3 DEF Iterates
<1>6. \A i \in 0..n : sums[i] = IF i = 0 THEN 0 ELSE sums[i - 1] + s[i]
  <2> TAKE i \in 0..n
  <2>1. i # 0 => i \in 1..n
    OBVIOUS
  <2>2. QED
    BY <1>4, <1>5, <2>1
<1>7. QED
  BY <1>6 DEF Sums

LEMMA SumsAgree ==
  ASSUME NEW k \in Nat, NEW n \in Nat, k <= n, NEW s, NEW t, \A i \in 1..k : s[i] = t[i],
         NEW sums, NEW more, Sums(s, k, sums), Sums(t, n, more)
  PROVE  sums[k] = more[k]
<1> DEFINE good == {i \in 0..k : sums[i] = more[i]}
<1>1. \A i \in 0..k : sums[i] = IF i = 0 THEN 0 ELSE sums[i - 1] + s[i]
  BY DEF Sums
<1>2. \A i \in 0..n : more[i] = IF i = 0 THEN 0 ELSE more[i - 1] + t[i]
  BY DEF Sums
<1>3. 0 \in good
  BY <1>1, <1>2
<1>4. ASSUME NEW i \in 1..k, i - 1 \in good PROVE i \in good
  <2>1. i \in 0..k /\ i \in 0..n /\ i # 0
    OBVIOUS
  <2>2. sums[i] = sums[i - 1] + s[i] /\ more[i] = more[i - 1] + t[i]
    BY <1>1, <1>2, <2>1
  <2>3. QED
    BY <1>4, <2>1, <2>2
<1>5. 0..k \subseteq good
  <2> HIDE DEF good
  <2>1. QED
    BY <1>3, <1>4, UpTo
<1>6. QED
  BY <1>5

\* The total of a sequence, and that of its first elements.
LEMMA TotalIs ==
  ASSUME NEW n \in Nat, NEW s, \A i \in 1..n : s[i] \in Nat,
         NEW sums, Sums(s, n, sums), NEW k \in 0..n
  PROVE  Total([i \in 1..k |-> s[i]]) = sums[k]
<1>1. PICK t : t = [i \in 1..k |-> s[i]]
  OBVIOUS
<1>2. Len(t) = k
  BY <1>1, EagerIs
<1>3. Total(t) = (CHOOSE some : Sums(t, k, some))[k]
  BY <1>2 DEF Total, Sums
<1>4. \E some : Sums(t, k, some)
  <2>1. k \in Nat /\ \A i \in 1..k : t[i] \in Nat
    BY <1>1
  <2>2. \E some \in [0..k -> Nat] : Sums(t, k, some)
    BY <2>1, SumsExist
  <2>3. QED
    BY <2>2
<1>5. PICK some : Sums(t, k, some) /\ Total(t) = some[k]
  BY <1>3, <1>4
<1>6. \A i \in 1..k : t[i] = s[i]
  BY <1>1
<1>7. k \in Nat /\ k <= n
  OBVIOUS
<1>8. some[k] = sums[k]
  BY <1>5, <1>6, <1>7, SumsAgree
<1>9. QED
  BY <1>1, <1>5, <1>8

\* Sums grow.
LEMMA SumsGrow ==
  ASSUME NEW n \in Nat, NEW s, \A i \in 1..n : s[i] \in Nat,
         NEW sums \in [0..n -> Nat], Sums(s, n, sums), NEW k \in 0..n
  PROVE  \A j \in k..n : sums[k] <= sums[j] /\ (j > k => s[j] <= sums[j])
<1> DEFINE good == {j \in 0..n : j >= k => sums[k] <= sums[j] /\ (j > k => s[j] <= sums[j])}
<1>1. \A i \in 1..n : sums[i] = sums[i - 1] + s[i]
  <2> TAKE i \in 1..n
  <2>1. i \in 0..n /\ i # 0
    OBVIOUS
  <2>2. QED
    BY <2>1 DEF Sums
<1>2. 0 \in good
  OBVIOUS
<1>3. ASSUME NEW j \in 1..n, j - 1 \in good PROVE j \in good
  <2>1. j - 1 \in 0..n /\ j \in 0..n
    OBVIOUS
  <2>2. sums[j] \in Nat /\ sums[j - 1] \in Nat /\ s[j] \in Nat /\ sums[k] \in Nat
    BY <2>1
  <2>3. sums[j] = sums[j - 1] + s[j]
    BY <1>1
  <2>4. CASE j > k
    <3>1. sums[k] <= sums[j - 1]
      BY <1>3, <2>4
    <3>2. sums[k] <= sums[j] /\ s[j] <= sums[j]
      BY <2>2, <2>3, <3>1
    <3>3. QED
      BY <2>1, <3>2
  <2>5. CASE ~(j > k)
    BY <2>1, <2>2, <2>5
  <2>6. QED
    BY <2>4, <2>5
<1>4. 0..n \subseteq good
  <2> HIDE DEF good
  <2>1. QED
    BY <1>2, <1>3, UpTo
<1>5. QED
  <2> TAKE j \in k..n
  <2>1. j \in good
    BY <1>4
  <2>2. QED
    BY <2>1

-----------------------------------------------------------------------------
(* What is chosen from a sequence, and what is joined *)

\* chosen is the recursive function of Chosen.
Chooses(s, positions, n, chosen) ==
    chosen = [i \in 0..n |->
                 IF i = 0 THEN <<>>
                 ELSE IF i \in positions THEN Append(chosen[i - 1], s[i]) ELSE chosen[i - 1]]

LEMMA ChosenType ==
  ASSUME NEW S, NEW s \in Seq(S), NEW positions
  PROVE  Chosen(s, positions) \in Seq(S)
<1>1. PICK n \in Nat : n = Len(s)
  BY LenProperties
<1>2. \A i \in 1..n : s[i] \in S
  BY <1>1, ElementOfSeq
<1>3. \E chosen : Chooses(s, positions, n, chosen) /\ chosen[n] \in Seq(S)
  <2> DEFINE next(t, i) == IF i \in positions THEN Append(t, s[i]) ELSE t
  <2>1. \A t \in Seq(S), i \in 1..n : next(t, i) \in Seq(S)
    BY <1>2, AppendProperties
  <2>2. PICK step : step = [ti \in Seq(S) \X (1..n) |-> next(ti[1], ti[2])]
    OBVIOUS
  <2> HIDE DEF next
  <2>3. step \in [Seq(S) \X (1..n) -> Seq(S)]
    BY <2>1, <2>2
  <2>4. <<>> \in Seq(S)
    BY EmptySeq
  <2>5. PICK chosen \in [0..n -> Seq(S)] : Iterates(<<>>, step, n, chosen)
    BY <2>3, <2>4, IteratesExist
  <2>6. \A i \in 1..n : chosen[i] = next(chosen[i - 1], i)
    <3> TAKE i \in 1..n
    <3>1. chosen[i - 1] \in Seq(S)
      <4>1. i - 1 \in 0..n
        OBVIOUS
      <4>2. QED
        BY <4>1
    <3>2. chosen[i] = step[<<chosen[i - 1], i>>]
      BY <2>5 DEF Iterates
    <3>3. QED
      BY <2>2, <3>1, <3>2
  <2>7. chosen = [i \in 0..n |-> chosen[i]] /\ chosen[0] = <<>>
    BY <2>5 DEF Iterates
  <2>8. \A i \in 0..n : chosen[i] = IF i = 0 THEN <<>> ELSE next(chosen[i - 1], i)
    <3> TAKE i \in 0..n
    <3>1. i # 0 => i \in 1..n
      OBVIOUS
    <3>2. QED
      BY <2>6, <2>7, <3>1
  <2>9. chosen = [i \in 0..n |-> IF i = 0 THEN <<>> ELSE next(chosen[i - 1], i)]
    BY <2>7, <2>8
  <2>10. Chooses(s, positions, n, chosen)
    BY <2>9 DEF Chooses, next
  <2>11. chosen[n] \in Seq(S)
    BY <2>5
  <2>12. QED
    BY <2>10, <2>11
<1>4. Chosen(s, positions) = (CHOOSE chosen : Chooses(s, positions, n, chosen))[n]
  BY <1>1 DEF Chosen, Chooses
<1>5. PICK chosen : Chooses(s, positions, n, chosen) /\ Chosen(s, positions) = chosen[n]
  BY <1>3, <1>4
<1> DEFINE good == {k \in 0..n : chosen[k] \in Seq(S)}
<1>6. \A i \in 0..n : chosen[i] = IF i = 0 THEN <<>>
                                  ELSE IF i \in positions THEN Append(chosen[i - 1], s[i])
                                  ELSE chosen[i - 1]
  BY <1>5 DEF Chooses
<1>7. 0 \in good
  <2>1. 0 \in 0..n /\ chosen[0] = <<>>
    <3>1. 0 \in 0..n
      OBVIOUS
    <3>2. QED
      BY <1>6, <3>1
  <2>2. <<>> \in Seq(S)
    BY EmptySeq
  <2>3. QED
    BY <2>1, <2>2
<1>8. ASSUME NEW k \in 1..n, k - 1 \in good PROVE k \in good
  <2>1. k \in 0..n /\ k # 0 /\ s[k] \in S
    BY <1>2
  <2>2. PICK t \in Seq(S) : t = chosen[k - 1]
    BY <1>8
  <2>3. chosen[k] = IF k \in positions THEN Append(t, s[k]) ELSE t
    BY <1>6, <2>1, <2>2
  <2>4. chosen[k] \in Seq(S)
    BY <2>1, <2>3, AppendProperties
  <2>5. QED
    BY <2>1, <2>4
<1>9. 0..n \subseteq good
  <2> HIDE DEF good
  <2>1. QED
    BY <1>7, <1>8, UpTo
<1>10. QED
  BY <1>5, <1>9

\* The parts of a sequence of parts, each of them of one level, that does not fall.
Rising(s, level) == \A p, q \in 1..Len(s) : p <= q => level[s[p]] <= level[s[q]]

\* n parts, the i-th of them of level of[i].
Leveled(ss, n, level, of) ==
    /\ \A i, j \in 1..n : i <= j => of[i] <= of[j]
    /\ \A i \in 1..n : \A p \in 1..Len(ss[i]) : level[ss[i][p]] = of[i]

LEMMA FlattenRising ==
  ASSUME NEW S, NEW ss \in Seq(Seq(S)), NEW n \in Nat, Len(ss) = n, NEW level \in [S -> Nat],
         NEW of \in [1..n -> Nat], Leveled(ss, n, level, of)
  PROVE  Rising(FlattenSeq(ss), level)
<1>1. /\ n = Len(ss)
      /\ \A i, j \in 1..n : i <= j => of[i] <= of[j]
      /\ \A i \in 1..n : \A p \in 1..Len(ss[i]) : level[ss[i][p]] = of[i]
  BY DEF Leveled
<1>2. CASE n = 0
  <2>1. FlattenSeq(ss) = <<>>
    BY <1>1, <1>2, FlattenEmpty, EmptySeq
  <2>2. Len(<<>>) = 0
    BY EmptySeq
  <2>3. QED
    BY <2>1, <2>2 DEF Rising
<1>3. CASE n # 0
  <2>1. PICK up : Partial(ss, n, up) /\ FlattenSeq(ss) = up[n]
    BY <1>1, <1>3, FlattenIsPartial
  <2>2. \A i \in 1..n : ss[i] \in Seq(S)
    BY <1>1, ElementOfSeq
  <2>3. \A i \in 1..n : up[i] \in Seq(S)
    BY <2>1, <2>2, PartialType
  <2>4. \A i \in 1..n : up[i] = IF i = 1 THEN ss[i] ELSE up[i - 1] \o ss[i]
    BY <2>1 DEF Partial
  <2> DEFINE Fits(k) == Rising(up[k], level) /\ \A p \in 1..Len(up[k]) : level[up[k][p]] <= of[k]
             good == {k \in 0..n : k # 0 => Fits(k)}
  <2>5. 0 \in good
    OBVIOUS
  <2>6. ASSUME NEW k \in 1..n, k - 1 \in good PROVE k \in good
    <3>1. PICK t \in Seq(S), more \in Nat :
              t = ss[k] /\ more = Len(t) /\ \A p \in 1..more : level[t[p]] = of[k]
      BY <1>1, <2>2, LenProperties
    <3>2. of[k] \in Nat
      BY <1>1
    <3>3. CASE k = 1
      <4>1. up[k] = t
        BY <2>4, <3>1, <3>3
      <4>2. Fits(k)
        BY <3>1, <3>2, <4>1 DEF Rising
      <4>3. QED
        BY <4>2
    <3>4. CASE k # 1
      <4>1. k - 1 \in 1..n /\ k - 1 # 0 /\ k - 1 <= k
        BY <3>4
      <4>2. PICK s \in Seq(S), old \in Nat : s = up[k - 1] /\ old = Len(s)
        BY <2>3, <4>1, LenProperties
      <4>3. Rising(s, level) /\ \A p \in 1..old : level[s[p]] <= of[k - 1]
        BY <2>6, <4>1, <4>2
      <4>4. of[k - 1] \in Nat /\ of[k - 1] <= of[k]
        BY <1>1, <4>1
      <4>5. PICK st \in Seq(S) : st = s \o t
        BY ConcatProperties
      <4>6. Len(st) = old + more /\ \A p \in 1..(old + more) : st[p] = IF p <= old THEN s[p] ELSE t[p - old]
        <5>1. /\ Len(s \o t) = Len(s) + Len(t)
              /\ \A p \in 1..(Len(s) + Len(t)) : (s \o t)[p] = IF p <= Len(s) THEN s[p] ELSE t[p - Len(s)]
          BY ConcatProperties
        <5>2. QED
          BY <3>1, <4>2, <4>5, <5>1
      <4>7. \A p \in 1..(old + more) : st[p] \in S /\ level[st[p]] \in Nat
        BY <4>6, ElementOfSeq
      <4>8. \A p \in 1..(old + more) : ~(p <= old) => level[st[p]] = of[k]
        <5> TAKE p \in 1..(old + more)
        <5>1. HAVE ~(p <= old)
        <5>2. p - old \in 1..more
          BY <5>1
        <5>3. QED
          BY <3>1, <4>6, <5>1, <5>2
      <4>9. \A p \in 1..(old + more) : p <= old => p \in 1..old /\ st[p] = s[p]
        BY <4>6
      <4>10. \A p \in 1..(old + more) : level[st[p]] <= of[k]
        <5> TAKE p \in 1..(old + more)
        <5>1. PICK here \in Nat, before \in Nat, top \in Nat :
                  here = level[st[p]] /\ before = of[k - 1] /\ top = of[k] /\ before <= top
          BY <3>2, <4>4, <4>7
        <5>2. CASE p <= old
          <6>1. p \in 1..old /\ st[p] = s[p]
            BY <4>9, <5>2
          <6>2. level[s[p]] <= of[k - 1]
            BY <4>3, <6>1
          <6>3. here <= before
            BY <5>1, <6>1, <6>2
          <6>4. here <= top
            BY <5>1, <6>3
          <6>5. QED
            BY <5>1, <6>4
        <5>3. CASE ~(p <= old)
          <6>1. level[st[p]] = of[k]
            BY <4>8, <5>3
          <6>2. here <= top
            BY <5>1, <6>1
          <6>3. QED
            BY <5>1, <6>2
        <5>4. QED
          BY <5>2, <5>3
      <4>11. ASSUME NEW p \in 1..(old + more), NEW q \in 1..(old + more), p <= q
             PROVE  level[st[p]] <= level[st[q]]
        <5>1. CASE q <= old
          <6>1. p <= old
            BY <4>11, <5>1
          <6>2. QED
            BY <4>2, <4>3, <4>9, <4>11, <5>1, <6>1 DEF Rising
        <5>2. CASE ~(q <= old)
          BY <4>8, <4>10, <5>2
        <5>3. QED
          BY <5>1, <5>2
      <4>12. Rising(st, level)
        BY <4>6, <4>11 DEF Rising
      <4>13. up[k] = st
        BY <2>4, <3>1, <3>4, <4>2, <4>5
      <4>14. QED
        BY <4>6, <4>10, <4>12, <4>13
    <3>5. QED
      BY <3>3, <3>4
  <2>7. 0..n \subseteq good
    <3> HIDE DEF good
    <3>1. QED
      BY <2>5, <2>6, UpTo
  <2>8. QED
    BY <1>3, <2>1, <2>7
<1>4. QED
  BY <1>2, <1>3

-----------------------------------------------------------------------------
(* The segments of a transcript *)

Word == Words \cup {Mark}
Line == [msg : Nat, words : Seq(Word)]

Roles == {"none", "user", "assistant", "system"}
PlainKinds == {"header", "thinking", "unavailable", "call", "result"}

Markdowns ==
    [kind : {"markdown"}, role : Roles, text : Seq(Line), msg : Nat, continuation : BOOLEAN]
Plains ==
    [kind : PlainKinds, role : Roles, text : Seq(Word), msg : Nat, continuation : BOOLEAN]
Segs == Markdowns \cup Plains

Writes ==
    [segments : Seq(Segs), text : Seq(Line), index : Nat, has : BOOLEAN, continued : BOOLEAN,
     lastRole : Roles, forceHeader : BOOLEAN]

\* Segments in the order of their messages, none after message n.
InOrder(segs, n) ==
    /\ \A p, q \in 1..Len(segs) : p <= q => segs[p].msg <= segs[q].msg
    /\ \A p \in 1..Len(segs) : segs[p].msg <= n

\* What is written after message n: what the buffer holds comes after the segments.
Orderly(r, n) ==
    /\ r \in Writes
    /\ InOrder(r.segments, n)
    /\ r.text # <<>> => r.index <= n /\ InOrder(r.segments, r.index)

LEMMA SegmentNumbers ==
  ASSUME NEW segs \in Seq(Segs)
  PROVE  Len(segs) \in Nat /\ \A p \in 1..Len(segs) : segs[p] \in Segs /\ segs[p].msg \in Nat
<1>1. Len(segs) \in Nat /\ \A p \in 1..Len(segs) : segs[p] \in Segs
  BY LenProperties, ElementOfSeq
<1>2. \A seg \in Segs : seg.msg \in Nat
  BY DEF Segs, Markdowns, Plains
<1>3. QED
  BY <1>1, <1>2

\* Some segments more, of one message.
LEMMA SegmentsMore ==
  ASSUME NEW segs \in Seq(Segs), NEW n \in Nat, InOrder(segs, n), NEW more \in Seq(Segs),
         \A p \in 1..Len(more) : more[p].msg = n
  PROVE  segs \o more \in Seq(Segs) /\ InOrder(segs \o more, n)
<1>1. PICK all \in Seq(Segs) : all = segs \o more
  BY ConcatProperties
<1>2. PICK a \in Nat, b \in Nat : a = Len(segs) /\ b = Len(more)
  BY LenProperties
<1>3. Len(all) = a + b /\ \A p \in 1..(a + b) : all[p] = IF p <= a THEN segs[p] ELSE more[p - a]
  <2>1. /\ Len(segs \o more) = Len(segs) + Len(more)
        /\ \A p \in 1..(Len(segs) + Len(more)) :
              (segs \o more)[p] = IF p <= Len(segs) THEN segs[p] ELSE more[p - Len(segs)]
    BY ConcatProperties
  <2>2. QED
    BY <1>1, <1>2, <2>1
<1>4. \A p \in 1..a : segs[p].msg \in Nat
  BY <1>2, SegmentNumbers
<1>5. ASSUME NEW p \in 1..(a + b), ~(p <= a) PROVE all[p].msg = n
  <2>1. p - a \in 1..b
    BY <1>5
  <2>2. QED
    BY <1>2, <1>3, <1>5, <2>1
<1>6. \A p \in 1..(a + b) : p <= a => p \in 1..a /\ all[p] = segs[p]
  BY <1>3
<1>7. \A p \in 1..(a + b) : all[p].msg <= n
  <2> TAKE p \in 1..(a + b)
  <2>1. CASE p <= a
    BY <1>2, <1>6, <2>1 DEF InOrder
  <2>2. CASE ~(p <= a)
    <3>1. all[p].msg = n /\ n <= n
      BY <1>5, <2>2
    <3>2. QED
      BY <3>1
  <2>3. QED
    BY <2>1, <2>2
<1>8. ASSUME NEW p \in 1..(a + b), NEW q \in 1..(a + b), p <= q PROVE all[p].msg <= all[q].msg
  <2>1. CASE q <= a
    <3>1. p <= a
      BY <1>8, <2>1
    <3>2. QED
      BY <1>2, <1>6, <1>8, <2>1, <3>1 DEF InOrder
  <2>2. CASE ~(q <= a)
    BY <1>5, <1>7, <2>2
  <2>3. QED
    BY <2>1, <2>2
<1>9. InOrder(all, n)
  BY <1>3, <1>7, <1>8 DEF InOrder
<1>10. QED
  BY <1>1, <1>9

LEMMA SegmentMore ==
  ASSUME NEW segs \in Seq(Segs), NEW n \in Nat, InOrder(segs, n), NEW seg \in Segs, seg.msg = n
  PROVE  Append(segs, seg) \in Seq(Segs) /\ InOrder(Append(segs, seg), n)
<1>1. PICK one : one = <<seg>>
  OBVIOUS
<1>2. one \in Seq(Segs) /\ Len(one) = 1 /\ one[1] = seg
  BY <1>1
<1>3. \A p \in 1..Len(one) : one[p].msg = n
  BY <1>2
<1>4. segs \o one \in Seq(Segs) /\ InOrder(segs \o one, n)
  BY <1>2, <1>3, SegmentsMore
<1>5. segs \o <<seg>> = Append(segs, seg)
  BY AppendIsConcat
<1>6. QED
  BY <1>1, <1>4, <1>5

\* A later message is after all of them.
LEMMA OrderlyLater ==
  ASSUME NEW segs \in Seq(Segs), NEW k \in Nat, NEW n \in Nat, k <= n, InOrder(segs, k)
  PROVE  InOrder(segs, n)
<1>1. ASSUME NEW p \in 1..Len(segs) PROVE segs[p].msg <= n
  <2>1. PICK here \in Nat : here = segs[p].msg
    BY SegmentNumbers
  <2>2. here <= k
    BY <2>1 DEF InOrder
  <2>3. here <= n
    BY <2>2
  <2>4. QED
    BY <2>1, <2>3
<1>2. QED
  BY <1>1 DEF InOrder

LEMMA OrderlyNext ==
  ASSUME NEW n \in Nat, NEW r, Orderly(r, n)
  PROVE  Orderly(r, n + 1)
<1>1. r \in Writes /\ InOrder(r.segments, n) /\ r.segments \in Seq(Segs) /\ r.index \in Nat
  BY DEF Orderly, Writes
<1>2. InOrder(r.segments, n + 1)
  <2>1. n + 1 \in Nat /\ n <= n + 1
    OBVIOUS
  <2>2. QED
    BY <1>1, <2>1, OrderlyLater
<1>3. r.text # <<>> => r.index <= n + 1 /\ InOrder(r.segments, r.index)
  BY <1>1 DEF Orderly
<1>4. QED
  BY <1>1, <1>2, <1>3 DEF Orderly

LEMMA FlushKeeps ==
  ASSUME NEW n \in Nat, NEW r, Orderly(r, n)
  PROVE  Orderly(Flush(r), n) /\ Flush(r).text = <<>>
<1>1. r \in Writes /\ InOrder(r.segments, n) /\ r.segments \in Seq(Segs) /\ r.index \in Nat
      /\ r.text \in Seq(Line) /\ r.continued \in BOOLEAN
  BY DEF Orderly, Writes
<1>2. CASE r.text = <<>>
  BY <1>2 DEF Flush
<1>3. CASE r.text # <<>>
  <2>1. PICK seg : seg = Segment("markdown", "none", r.text, r.index, r.continued)
    OBVIOUS
  <2>2. seg \in Segs /\ seg.msg = r.index
    BY <1>1, <2>1 DEF Segment, Segs, Markdowns, Roles
  <2>3. r.index <= n /\ InOrder(r.segments, r.index)
    BY <1>3 DEF Orderly
  <2>4. PICK segs \in Seq(Segs) : segs = Append(r.segments, seg) /\ InOrder(segs, r.index)
    BY <1>1, <2>2, <2>3, SegmentMore
  <2>5. InOrder(segs, n)
    BY <1>1, <2>3, <2>4, OrderlyLater
  <2>6. <<>> \in Seq(Line)
    BY EmptySeq
  <2>7. Flush(r) = [r EXCEPT !.segments = segs, !.text = <<>>, !.has = FALSE, !.continued = FALSE]
    BY <1>3, <2>1, <2>4 DEF Flush
  <2>8. Flush(r) \in Writes /\ Flush(r).segments = segs /\ Flush(r).text = <<>>
    BY <1>1, <2>6, <2>7 DEF Writes
  <2>9. QED
    BY <2>5, <2>8 DEF Orderly
<1>4. QED
  BY <1>2, <1>3

\* Lines of a message, as the buffer holds them.
LEMMA OwnLines ==
  ASSUME NEW n \in Nat, NEW lines \in Seq(Seq(Word))
  PROVE  /\ [l \in DOMAIN lines |-> [msg |-> n, words |-> lines[l]]] \in Seq(Line)
         /\ Own(n, lines) = [l \in DOMAIN lines |-> [msg |-> n, words |-> lines[l]]]
         /\ Len(Own(n, lines)) = Len(lines)
<1>1. PICK k \in Nat : k = Len(lines) /\ DOMAIN lines = 1..k
  BY LenProperties
<1>2. PICK f : f = [l \in 1..k |-> [msg |-> n, words |-> lines[l]]]
  OBVIOUS
<1>3. \A l \in 1..k : lines[l] \in Seq(Word)
  BY <1>1, ElementOfSeq
<1>4. \A l \in 1..k : f[l] \in Line
  BY <1>2, <1>3 DEF Line
<1>5. f = [l \in 1..k |-> f[l]]
  BY <1>2
<1>6. f \in Seq(Line) /\ Eager(f) = f /\ Len(f) = k
  BY <1>4, <1>5, ByElements, EagerIs
<1>7. QED
  BY <1>1, <1>2, <1>6 DEF Own

LEMMA WriteStringKeeps ==
  ASSUME NEW n \in Nat, NEW r, Orderly(r, n), NEW lines \in Seq(Seq(Word))
  PROVE  Orderly(WriteString(r, n, lines), n)
<1> DEFINE visible == \E l \in DOMAIN lines : lines[l] # Blank
           more == [l \in DOMAIN lines |-> [msg |-> n, words |-> lines[l]]]
<1>1. PICK q : q = IF visible /\ r.has /\ r.index # n THEN [Flush(r) EXCEPT !.continued = TRUE] ELSE r
  OBVIOUS
<1>2. Orderly(q, n)
  <2>1. CASE visible /\ r.has /\ r.index # n
    <3>1. PICK f : f = Flush(r) /\ Orderly(f, n)
      BY FlushKeeps
    <3>2. q = [f EXCEPT !.continued = TRUE]
      BY <1>1, <2>1, <3>1
    <3>3. f \in Writes
      BY <3>1 DEF Orderly
    <3>4. q \in Writes /\ q.segments = f.segments /\ q.text = f.text /\ q.index = f.index
      BY <3>2, <3>3 DEF Writes
    <3>5. QED
      BY <3>1, <3>4 DEF Orderly
  <2>2. CASE ~(visible /\ r.has /\ r.index # n)
    BY <1>1, <2>2
  <2>3. QED
    BY <2>1, <2>2
<1>3. PICK has \in BOOLEAN : has = (q.text # <<>> /\ q.has)
  OBVIOUS
<1>4. q \in Writes /\ q.segments \in Seq(Segs) /\ q.text \in Seq(Line) /\ q.index \in Nat
  BY <1>2 DEF Orderly, Writes
<1>5. PICK index : index = IF q.text = <<>> \/ (~has /\ visible) THEN n ELSE q.index
  OBVIOUS
<1>6. PICK text \in Seq(Line) : text = q.text \o more
  <2>1. more \in Seq(Line)
    BY OwnLines
  <2> HIDE DEF more
  <2>2. QED
    BY <1>4, <2>1, ConcatProperties
<1>7. WriteString(r, n, lines) = [q EXCEPT !.index = index, !.has = has \/ visible, !.text = text]
  <2>1. WriteString(r, n, lines) =
          [q EXCEPT !.index = IF q.text = <<>> \/ (~(q.text # <<>> /\ q.has) /\ visible) THEN n ELSE @,
                    !.has = (q.text # <<>> /\ q.has) \/ visible,
                    !.text = @ \o more]
    BY <1>1, Zenon DEF WriteString
  <2> HIDE DEF more, visible
  <2>2. QED
    BY <1>3, <1>4, <1>5, <1>6, <2>1 DEF Writes
<1>8. index \in Nat /\ index <= n /\ InOrder(q.segments, index)
  <2>1. CASE q.text = <<>> \/ (~has /\ visible)
    <3>1. index = n
      BY <1>5, <2>1
    <3>2. QED
      BY <1>2, <3>1 DEF Orderly
  <2>2. CASE ~(q.text = <<>> \/ (~has /\ visible))
    <3>1. index = q.index /\ q.text # <<>>
      BY <1>5, <2>2
    <3>2. QED
      BY <1>2, <1>4, <3>1 DEF Orderly
  <2>3. QED
    BY <2>1, <2>2
<1>9. PICK w : w = WriteString(r, n, lines)
  OBVIOUS
<1>10. w \in Writes /\ w.segments = q.segments /\ w.index = index
  <2> HIDE DEF visible
  <2>1. QED
    BY <1>4, <1>6, <1>7, <1>8, <1>9 DEF Writes
<1>11. Orderly(w, n)
  BY <1>2, <1>8, <1>10 DEF Orderly
<1>12. QED
  BY <1>9, <1>11

LEMMA AppendSegmentsKeep ==
  ASSUME NEW n \in Nat, NEW r, Orderly(r, n), NEW kind \in PlainKinds, NEW text \in Seq(Word),
         NEW count \in Nat
  PROVE  Orderly(AppendSegments(r, n, kind, text, count), n)
<1>1. PICK q : q = Flush(r) /\ Orderly(q, n) /\ q.text = <<>>
  BY FlushKeeps
<1>2. PICK more : more = [i \in 1..count |-> Segment(kind, "none", text, n, FALSE)]
  OBVIOUS
<1>3. \A i \in 1..count : more[i] \in Segs /\ more[i].msg = n
  BY <1>2 DEF Segment, Segs, Plains, Roles
<1>4. more \in Seq(Segs) /\ Len(more) = count
  <2>1. more = [i \in 1..count |-> more[i]]
    BY <1>2
  <2>2. QED
    BY <1>3, <2>1, ByElements
<1>5. q \in Writes /\ q.segments \in Seq(Segs) /\ InOrder(q.segments, n)
  BY <1>1 DEF Orderly, Writes
<1>6. PICK segs \in Seq(Segs) : segs = q.segments \o more /\ InOrder(segs, n)
  BY <1>3, <1>4, <1>5, SegmentsMore
<1>7. PICK w : w = AppendSegments(r, n, kind, text, count)
  OBVIOUS
<1>8. w = [q EXCEPT !.segments = segs]
  BY <1>1, <1>2, <1>6, <1>7 DEF AppendSegments
<1>9. w \in Writes /\ w.segments = segs /\ w.text = <<>>
  BY <1>1, <1>5, <1>8 DEF Writes
<1>10. Orderly(w, n)
  BY <1>6, <1>9 DEF Orderly
<1>11. QED
  BY <1>7, <1>10

LEMMA AppendRoleHeaderKeeps ==
  ASSUME NEW n \in Nat, NEW r, Orderly(r, n), NEW role \in Roles
  PROVE  Orderly(AppendRoleHeader(r, n, role), n)
<1>1. PICK q : q = Flush(r) /\ Orderly(q, n) /\ q.text = <<>>
  BY FlushKeeps
<1>2. PICK seg : seg = Segment("header", role, <<>>, n, FALSE)
  OBVIOUS
<1>3. seg \in Segs /\ seg.msg = n
  <2>1. <<>> \in Seq(Word)
    BY EmptySeq
  <2>2. QED
    BY <1>2, <2>1 DEF Segment, Segs, Plains, PlainKinds
<1>4. q \in Writes /\ q.segments \in Seq(Segs) /\ InOrder(q.segments, n)
  BY <1>1 DEF Orderly, Writes
<1>5. PICK segs \in Seq(Segs) : segs = Append(q.segments, seg) /\ InOrder(segs, n)
  BY <1>3, <1>4, SegmentMore
<1>6. PICK w : w = [q EXCEPT !.segments = segs, !.lastRole = role, !.forceHeader = FALSE]
  OBVIOUS
<1>7. w \in Writes /\ w.segments = segs /\ w.text = <<>>
  BY <1>1, <1>4, <1>6 DEF Writes
<1>8. Orderly(w, n)
  BY <1>5, <1>7 DEF Orderly
<1>9. AppendRoleHeader(r, n, role) = w \/ AppendRoleHeader(r, n, role) = r
  BY <1>1, <1>2, <1>5, <1>6 DEF AppendRoleHeader
<1>10. QED
  BY <1>8, <1>9

LEMMA BreakGroupKeeps ==
  ASSUME NEW n \in Nat, NEW r, Orderly(r, n)
  PROVE  Orderly(BreakGroup(r), n)
<1>1. PICK w : w = BreakGroup(r)
  OBVIOUS
<1>2. w = [r EXCEPT !.forceHeader = TRUE] /\ r \in Writes
  BY <1>1 DEF BreakGroup, Orderly
<1>3. w \in Writes /\ w.segments = r.segments /\ w.text = r.text /\ w.index = r.index
  BY <1>2 DEF Writes
<1>4. Orderly(w, n)
  BY <1>3 DEF Orderly
<1>5. QED
  BY <1>1, <1>4

LEMMA SmallTexts ==
  ASSUME NEW text \in Seq(Word)
  PROVE  /\ <<>> \in Seq(Word) /\ <<Blank>> \in Seq(Seq(Word)) /\ <<text, Blank>> \in Seq(Seq(Word))
         /\ <<Mark>> \in Seq(Word) /\ <<<<Mark>>>> \in Seq(Seq(Word))
         /\ <<<<Mark>>, Blank>> \in Seq(Seq(Word)) /\ <<<<Mark>>, <<Mark>>>> \in Seq(Seq(Word))
<1>1. PICK blank \in Seq(Word) : blank = <<>>
  BY EmptySeq
<1>2. Mark \in Word
  BY DEF Word
<1>3. PICK mark \in Seq(Word) : mark = <<Mark>>
  <2>1. \A word \in Word : <<word>> \in Seq(Word)
    OBVIOUS
  <2>2. QED
    BY <1>2, <2>1
<1>4. PICK T : T = Seq(Word)
  OBVIOUS
<1>5. text \in T /\ blank \in T /\ mark \in T
  BY <1>4
<1>6. /\ <<blank>> \in Seq(T) /\ <<text, blank>> \in Seq(T) /\ <<mark>> \in Seq(T)
      /\ <<mark, blank>> \in Seq(T) /\ <<mark, mark>> \in Seq(T)
  BY <1>5
<1>7. QED
  BY <1>1, <1>3, <1>4, <1>6 DEF Blank

LEMMA MessageText ==
  ASSUME NEW msg \in Messages
  PROVE  /\ msg.text \in Seq(Word) /\ msg.thinking \in Seq(Word) /\ msg.role \in Roles
         /\ msg.calls \in Nat /\ msg.results \in Nat /\ msg.plans \in Nat
<1>1. /\ msg.text \in Seq(Words) /\ msg.thinking \in Seq(Words) /\ msg.role \in Roles
      /\ msg.calls \in Nat /\ msg.results \in Nat /\ msg.plans \in Nat
  BY DEF Messages, Roles
<1>2. Words \subseteq Word
  BY DEF Word
<1>3. QED
  BY <1>1, <1>2, SeqMonotonic

LEMMA WriteParagraphKeeps ==
  ASSUME NEW n \in Nat, NEW r, Orderly(r, n), NEW text \in Seq(Word)
  PROVE  Orderly(WriteParagraph(r, n, text), n)
<1>1. PICK lines \in Seq(Seq(Word)) : lines = <<text, Blank>>
  BY SmallTexts
<1>2. Orderly(WriteString(r, n, lines), n)
  BY WriteStringKeeps
<1>3. QED
  BY <1>1, <1>2 DEF WriteParagraph

LEMMA PartsKeep ==
  ASSUME NEW n \in Nat, NEW r, Orderly(r, n), NEW msg \in Messages, NEW options
  PROVE  /\ Orderly(AppendThinking(r, n, msg, options), n)
         /\ Orderly(AppendCalls(r, n, msg, options), n)
         /\ Orderly(AppendResults(r, n, msg, options), n)
         /\ Orderly(AppendDivider(r, n, msg), n)
<1>1. msg.text \in Seq(Word) /\ msg.thinking \in Seq(Word) /\ <<>> \in Seq(Word)
      /\ msg.calls \in Nat /\ msg.results \in Nat
  BY MessageText, EmptySeq
<1>2. PICK blank \in Seq(Seq(Word)) : blank = <<Blank>>
  BY <1>1, SmallTexts
<1>3. {"thinking", "unavailable", "call", "result"} \subseteq PlainKinds
  BY DEF PlainKinds
<1>4. Orderly(AppendThinking(r, n, msg, options), n)
  <2>1. /\ Orderly(AppendSegments(r, n, "thinking", msg.thinking, 1), n)
        /\ Orderly(AppendSegments(r, n, "unavailable", <<>>, 1), n)
    BY <1>1, <1>3, AppendSegmentsKeep
  <2>2. QED
    BY <2>1 DEF AppendThinking
<1>5. Orderly(AppendCalls(r, n, msg, options), n)
  <2>1. PICK q : q = AppendSegments(r, n, "call", <<>>, msg.calls) /\ Orderly(q, n)
    BY <1>1, <1>3, AppendSegmentsKeep
  <2>2. Orderly(WriteString(q, n, blank), n)
    BY <2>1, WriteStringKeeps
  <2>3. QED
    BY <1>2, <2>1, <2>2 DEF AppendCalls
<1>6. Orderly(AppendResults(r, n, msg, options), n)
  <2>1. PICK q : q = AppendSegments(r, n, "result", <<>>, msg.results) /\ Orderly(q, n)
    BY <1>1, <1>3, AppendSegmentsKeep
  <2>2. Orderly(WriteString(q, n, blank), n)
    BY <2>1, WriteStringKeeps
  <2>3. QED
    BY <1>2, <2>1, <2>2 DEF AppendResults
<1>7. Orderly(AppendDivider(r, n, msg), n)
  <2>1. PICK lines \in Seq(Seq(Word)) :
            lines = <<<<Mark>>, <<Mark>>>> \o <<msg.text>> \o <<<<Mark>>, Blank>>
    <3>1. PICK T : T = Seq(Word)
      OBVIOUS
    <3>2. <<<<Mark>>, <<Mark>>>> \in Seq(T) /\ <<<<Mark>>, Blank>> \in Seq(T) /\ msg.text \in T
      BY <1>1, <3>1, SmallTexts
    <3>3. <<msg.text>> \in Seq(T)
      BY <3>2
    <3>4. <<<<Mark>>, <<Mark>>>> \o <<msg.text>> \in Seq(T)
      BY <3>2, <3>3, ConcatProperties
    <3>5. <<<<Mark>>, <<Mark>>>> \o <<msg.text>> \o <<<<Mark>>, Blank>> \in Seq(T)
      BY <3>2, <3>4, ConcatProperties
    <3>6. QED
      BY <3>1, <3>5
  <2>2. Orderly(Flush(r), n)
    BY FlushKeeps
  <2>3. Orderly(WriteString(Flush(r), n, lines), n)
    BY <2>2, WriteStringKeeps
  <2>4. Orderly(BreakGroup(WriteString(Flush(r), n, lines)), n)
    BY <2>3, BreakGroupKeeps
  <2>5. QED
    BY <2>1, <2>4 DEF AppendDivider
<1>8. QED
  BY <1>4, <1>5, <1>6, <1>7

LEMMA AppendTranscriptMessageKeeps ==
  ASSUME NEW n \in Nat, NEW r, Orderly(r, n), NEW msg \in Messages, NEW options
  PROVE  Orderly(AppendTranscriptMessage(r, n, msg, options), n)
<1>1. msg.text \in Seq(Word) /\ msg.role \in Roles /\ "assistant" \in Roles
  BY MessageText DEF Roles
<1>2. Orderly(AppendHidden(r, n, msg, options), n)
  <2>1. PICK q : q = AppendThinking(r, n, msg, options) /\ Orderly(q, n)
    BY PartsKeep
  <2>2. PICK p : p = AppendCalls(q, n, msg, options) /\ Orderly(p, n)
    BY <2>1, PartsKeep
  <2>3. PICK o : o = AppendResults(p, n, msg, options) /\ Orderly(o, n)
    BY <2>2, PartsKeep
  <2>4. QED
    BY <2>1, <2>2, <2>3, BreakGroupKeeps DEF AppendHidden
<1>3. Orderly(AppendSpoken(r, n, msg, options), n)
  <2>1. PICK q : q = AppendRoleHeader(r, n, msg.role) /\ Orderly(q, n)
    BY <1>1, AppendRoleHeaderKeeps
  <2>2. PICK p : p = WriteParagraph(q, n, msg.text) /\ Orderly(p, n)
    BY <1>1, <2>1, WriteParagraphKeeps
  <2>3. Orderly(AppendResults(p, n, msg, options), n)
    BY <2>2, PartsKeep
  <2>4. QED
    BY <2>1, <2>2, <2>3 DEF AppendSpoken
<1>4. Orderly(AppendAssistant(r, n, msg, options), n)
  <2>1. PICK q : q = AppendRoleHeader(r, n, "assistant") /\ Orderly(q, n)
    BY <1>1, AppendRoleHeaderKeeps
  <2>2. PICK p : p = AppendThinking(q, n, msg, options) /\ Orderly(p, n)
    BY <2>1, PartsKeep
  <2>3. PICK o : o = WriteParagraph(p, n, msg.text) /\ Orderly(o, n)
    BY <1>1, <2>2, WriteParagraphKeeps
  <2>4. Orderly(AppendCalls(o, n, msg, options), n)
    BY <2>3, PartsKeep
  <2>5. QED
    BY <2>1, <2>2, <2>3, <2>4 DEF AppendAssistant
<1>5. Orderly(AppendDivider(r, n, msg), n) /\ Orderly(BreakGroup(r), n)
  BY PartsKeep, BreakGroupKeeps
<1>6. QED
  BY <1>2, <1>3, <1>4, <1>5 DEF AppendTranscriptMessage

\* after is the recursive function of RenderTranscriptSegmented.
Afters(messages, options, n, after) ==
    after = [i \in 0..n |->
                IF i = 0 THEN NewRender
                ELSE AppendTranscriptMessage(after[i - 1], i, messages[i], options)]

LEMMA NewRenderOrderly == Orderly(NewRender, 0)
<1>1. <<>> \in Seq(Segs) /\ <<>> \in Seq(Line)
  BY EmptySeq
<1>2. NewRender \in Writes
  BY <1>1 DEF NewRender, Writes, Roles, NoMessage
<1>3. Len(<<>>) = 0
  BY EmptySeq
<1>4. InOrder(<<>>, 0)
  BY <1>3 DEF InOrder
<1>5. NewRender.segments = <<>> /\ NewRender.text = <<>>
  BY DEF NewRender
<1>6. QED
  BY <1>2, <1>4, <1>5 DEF Orderly

LEMMA AftersExist ==
  ASSUME NEW messages \in Seq(Messages), NEW options, NEW n \in Nat, n = Len(messages)
  PROVE  \E after : Afters(messages, options, n, after)
<1> DEFINE next(r, i) == AppendTranscriptMessage(r, i, messages[i], options)
<1>1. ASSUME NEW i \in 1..n, NEW r, Orderly(r, i - 1)
      PROVE  Orderly(next(r, i), i) /\ next(r, i) \in Writes
  <2>1. i - 1 \in Nat /\ (i - 1) + 1 = i /\ i \in Nat
    OBVIOUS
  <2>2. Orderly(r, i)
    BY <1>1, <2>1, OrderlyNext
  <2>3. messages[i] \in Messages
    BY ElementOfSeq
  <2>4. Orderly(next(r, i), i)
    BY <2>1, <2>2, <2>3, AppendTranscriptMessageKeeps
  <2>5. QED
    BY <2>4 DEF Orderly
<1> HIDE DEF next
<1>2. PICK step : step = [ri \in Writes \X (1..n) |->
                             IF Orderly(ri[1], ri[2] - 1) THEN next(ri[1], ri[2]) ELSE ri[1]]
  OBVIOUS
<1>3. step \in [Writes \X (1..n) -> Writes]
  BY <1>1, <1>2
<1>4. NewRender \in Writes /\ Orderly(NewRender, 0)
  BY NewRenderOrderly DEF Orderly
<1>5. PICK after \in [0..n -> Writes] : Iterates(NewRender, step, n, after)
  BY <1>3, <1>4, IteratesExist
<1>6. \A i \in 1..n : after[i] = IF Orderly(after[i - 1], i - 1) THEN next(after[i - 1], i) ELSE after[i - 1]
  <2> TAKE i \in 1..n
  <2>1. i - 1 \in 0..n /\ after[i - 1] \in Writes
    <3>1. i - 1 \in 0..n
      OBVIOUS
    <3>2. QED
      BY <3>1
  <2>2. after[i] = step[<<after[i - 1], i>>]
    BY <1>5 DEF Iterates
  <2>3. QED
    BY <1>2, <2>1, <2>2
<1> DEFINE good == {k \in 0..n : Orderly(after[k], k)}
<1>7. 0 \in good
  BY <1>4, <1>5 DEF Iterates
<1>8. ASSUME NEW k \in 1..n, k - 1 \in good PROVE k \in good
  <2>1. Orderly(after[k - 1], k - 1)
    BY <1>8
  <2>2. after[k] = next(after[k - 1], k)
    BY <1>6, <2>1
  <2>3. Orderly(after[k], k)
    BY <1>1, <2>1, <2>2
  <2>4. QED
    BY <2>3
<1>9. 0..n \subseteq good
  <2> HIDE DEF good
  <2>1. QED
    BY <1>7, <1>8, UpTo
<1>10. \A i \in 0..n : after[i] = IF i = 0 THEN NewRender ELSE next(after[i - 1], i)
  <2> TAKE i \in 0..n
  <2>1. CASE i = 0
    BY <1>5, <2>1 DEF Iterates
  <2>2. CASE i # 0
    <3>1. i \in 1..n /\ i - 1 \in 0..n
      BY <2>2
    <3>2. Orderly(after[i - 1], i - 1)
      BY <1>9, <3>1
    <3>3. QED
      BY <1>6, <2>2, <3>1, <3>2
  <2>3. QED
    BY <2>1, <2>2
<1>11. after = [i \in 0..n |-> after[i]]
  OBVIOUS
<1>12. after = [i \in 0..n |-> IF i = 0 THEN NewRender ELSE next(after[i - 1], i)]
  BY <1>10, <1>11
<1>13. Afters(messages, options, n, after)
  BY <1>12 DEF Afters, next
<1>14. QED
  BY <1>13

\* The segments of a transcript are segments, in the order of its messages.
LEMMA SegmentedIs ==
  ASSUME NEW messages \in Seq(Messages), NEW options
  PROVE  /\ RenderTranscriptSegmented(messages, options) \in Seq(Segs)
         /\ InOrder(RenderTranscriptSegmented(messages, options), Len(messages))
<1>1. PICK n \in Nat : n = Len(messages)
  BY LenProperties
<1>2. \E after : Afters(messages, options, n, after)
  BY <1>1, AftersExist
<1>3. RenderTranscriptSegmented(messages, options)
        = Flush((CHOOSE after : Afters(messages, options, n, after))[n]).segments
  BY <1>1, Zenon DEF RenderTranscriptSegmented, Afters
<1>4. PICK after : /\ Afters(messages, options, n, after)
                   /\ RenderTranscriptSegmented(messages, options) = Flush(after[n]).segments
  BY <1>2, <1>3
<1>5. \A i \in 0..n : after[i] = IF i = 0 THEN NewRender
                                 ELSE AppendTranscriptMessage(after[i - 1], i, messages[i], options)
  BY <1>4 DEF Afters
<1> DEFINE good == {k \in 0..n : Orderly(after[k], k)}
<1>6. 0 \in good
  BY <1>5, NewRenderOrderly
<1>7. ASSUME NEW k \in 1..n, k - 1 \in good PROVE k \in good
  <2>1. k - 1 \in Nat /\ (k - 1) + 1 = k /\ k \in Nat /\ k \in 0..n /\ k # 0
    OBVIOUS
  <2>2. PICK r : r = after[k - 1] /\ Orderly(r, k)
    BY <1>7, <2>1, OrderlyNext
  <2>3. messages[k] \in Messages
    BY <1>1, ElementOfSeq
  <2>4. after[k] = AppendTranscriptMessage(r, k, messages[k], options)
    BY <1>5, <2>1, <2>2
  <2>5. Orderly(after[k], k)
    BY <2>1, <2>2, <2>3, <2>4, AppendTranscriptMessageKeeps
  <2>6. QED
    BY <2>1, <2>5
<1>8. 0..n \subseteq good
  <2> HIDE DEF good
  <2>1. QED
    BY <1>6, <1>7, UpTo
<1>9. Orderly(after[n], n)
  BY <1>8
<1>10. PICK f : f = Flush(after[n]) /\ Orderly(f, n)
  BY <1>9, FlushKeeps
<1>11. f.segments \in Seq(Segs) /\ InOrder(f.segments, n)
  BY <1>10 DEF Orderly, Writes
<1>12. QED
  BY <1>1, <1>4, <1>10, <1>11

-----------------------------------------------------------------------------
(* The lines of a segment *)

\* What can be rendered.
Renders(seg) ==
    /\ seg.kind \in PlainKinds \cup {"markdown"} /\ seg.msg \in Nat
    /\ seg.kind = "markdown" => seg.text \in Seq(Line)
    /\ seg.kind # "markdown" => seg.text \in Seq(Word)

LEMMA SegsRender ==
  ASSUME NEW seg \in Segs
  PROVE  Renders(seg)
<1>1. "markdown" \notin PlainKinds
  BY DEF PlainKinds
<1>2. QED
  BY <1>1 DEF Renders, Segs, Markdowns, Plains

LEMMA TrimBlankType ==
  ASSUME NEW lines \in Seq(Line)
  PROVE  TrimBlank(lines) \in Seq(Line)
<1> DEFINE written == {l \in DOMAIN lines : lines[l].words # Blank}
<1>1. PICK n \in Nat : n = Len(lines) /\ DOMAIN lines = 1..n
  BY LenProperties
<1>2. written \in SUBSET Nat /\ \A l \in written : l \in 1..n
  BY <1>1
<1>3. TrimBlank(lines) = IF written = {} THEN <<>> ELSE SubSeq(lines, Least(written), Greatest(written))
  BY Zenon DEF TrimBlank
<1> HIDE DEF written
<1>4. CASE written = {}
  BY <1>3, <1>4, EmptySeq
<1>5. CASE written # {}
  <2>1. PICK a \in 1..n : a = Least(written)
    BY <1>2, <1>5, LeastIs
  <2>2. PICK b \in 1..n : b = Greatest(written)
    <3>1. \A l \in written : l <= n
      BY <1>2
    <3>2. QED
      BY <1>2, <1>5, <3>1, GreatestIs
  <2>3. \A l \in a..b : lines[l] \in Line
    <3>1. \A l \in a..b : l \in 1..n
      OBVIOUS
    <3>2. QED
      BY <1>1, <3>1, ElementOfSeq
  <2>4. a \in Int /\ b \in Int
    OBVIOUS
  <2>5. SubSeq(lines, a, b) \in Seq(Line)
    BY <2>3, <2>4, SubSeqProperties
  <2>6. QED
    BY <1>3, <1>5, <2>1, <2>2, <2>5
<1>6. QED
  BY <1>4, <1>5

LEMMA WrapTextType ==
  ASSUME NEW words \in Seq(Word), NEW width \in Nat
  PROVE  WrapText(words, width) \in Seq(Seq(Word))
<1>1. PICK n \in Nat : n = Larger(width \div WordWidth, 1) /\ n # 0
  <2>1. width \div WordWidth \in Nat
    BY DEF WordWidth
  <2>2. QED
    BY <2>1 DEF Larger
<1>2. PICK len \in Nat : len = Len(words)
  BY LenProperties
<1>3. PICK count \in Nat : count = (len + n - 1) \div n
  <2>1. PICK a \in Nat : a = len + n - 1
    BY <1>1
  <2>2. a \div n \in Nat
    BY <1>1
  <2>3. QED
    BY <2>1, <2>2
<1> DEFINE row(l) == SubSeq(words, (l - 1) * n + 1, Smaller(l * n, len))
<1>4. ASSUME NEW l \in 1..count PROVE row(l) \in Seq(Word)
  <2>1. PICK a \in Nat : a = (l - 1) * n
    <3>1. l - 1 \in Nat
      OBVIOUS
    <3>2. (l - 1) * n \in Nat
      BY <3>1
    <3>3. QED
      BY <3>2
  <2>2. PICK b \in Nat : b = l * n
    OBVIOUS
  <2>3. PICK c \in Nat : c = Smaller(b, len) /\ c <= len
    BY DEF Smaller
  <2>4. \A i \in (a + 1)..c : words[i] \in Word
    <3>1. \A i \in (a + 1)..c : i \in 1..len
      BY <2>3
    <3>2. QED
      BY <1>2, <3>1, ElementOfSeq
  <2>5. SubSeq(words, a + 1, c) \in Seq(Word)
    <3>1. a + 1 \in Int /\ c \in Int
      OBVIOUS
    <3>2. QED
      BY <2>4, <3>1, SubSeqProperties
  <2>6. QED
    BY <2>1, <2>2, <2>3, <2>5
<1>5. WrapText(words, width) = [l \in 1..count |-> row(l)]
  BY <1>1, <1>2, <1>3, Zenon DEF WrapText
<1> HIDE DEF row
<1>6. PICK f : f = [l \in 1..count |-> row(l)]
  OBVIOUS
<1>7. f = [l \in 1..count |-> f[l]] /\ \A l \in 1..count : f[l] \in Seq(Word)
  BY <1>4, <1>6
<1>8. f \in Seq(Seq(Word))
  BY <1>7, ByElements
<1>9. QED
  BY <1>5, <1>6, <1>8

LEMMA OwnType ==
  ASSUME NEW n \in Nat, NEW lines \in Seq(Seq(Word))
  PROVE  Own(n, lines) \in Seq(Line)
  BY OwnLines

LEMMA WrapLineType ==
  ASSUME NEW line \in Line, NEW width \in Nat
  PROVE  WrapLine(line, width) \in Seq(Line)
<1>1. line.msg \in Nat /\ line.words \in Seq(Word)
  BY DEF Line
<1>2. <<line>> \in Seq(Line)
  OBVIOUS
<1>3. Own(line.msg, WrapText(line.words, width)) \in Seq(Line)
  BY <1>1, WrapTextType, OwnType
<1>4. QED
  BY <1>2, <1>3 DEF WrapLine

\* A sequence of blocks of lines.
LEMMA BlocksType ==
  ASSUME NEW n \in Nat, NEW blocks, blocks = [i \in 1..n |-> blocks[i]],
         \A i \in 1..n : blocks[i] \in Seq(Line)
  PROVE  blocks \in Seq(Seq(Line)) /\ Len(blocks) = n /\ FlattenSeq(blocks) \in Seq(Line)
<1>1. blocks \in Seq(Seq(Line)) /\ Len(blocks) = n
  BY ByElements
<1>2. QED
  BY <1>1, FlattenType

LEMMA RenderMarkdownType ==
  ASSUME NEW seg, Renders(seg), seg.kind = "markdown", NEW width \in Nat
  PROVE  RenderMarkdown(seg, width) \in Seq(Line)
<1>1. seg.msg \in Nat /\ seg.text \in Seq(Line)
  BY DEF Renders
<1>2. Own(seg.msg, IF seg.continuation THEN <<Blank>> ELSE <<Blank, Blank>>) \in Seq(Line)
  <2>1. PICK T : T = Seq(Word)
    OBVIOUS
  <2>2. Blank \in T
    BY <2>1, EmptySeq DEF Blank
  <2>3. <<Blank>> \in Seq(T) /\ <<Blank, Blank>> \in Seq(T)
    BY <2>2
  <2>4. PICK lines \in Seq(Seq(Word)) : lines = IF seg.continuation THEN <<Blank>> ELSE <<Blank, Blank>>
    BY <2>1, <2>3
  <2>5. QED
    BY <1>1, <2>4, OwnType
<1>3. PICK trimmed \in Seq(Line) : trimmed = TrimBlank(seg.text)
  BY <1>1, TrimBlankType
<1>4. PICK n \in Nat : n = Len(trimmed) /\ DOMAIN trimmed = 1..n
  BY LenProperties
<1>5. PICK blocks : blocks = [l \in 1..n |-> WrapLine(trimmed[l], width)]
  OBVIOUS
<1>6. \A l \in 1..n : blocks[l] \in Seq(Line)
  BY <1>4, <1>5, ElementOfSeq, WrapLineType
<1>7. FlattenSeq(blocks) \in Seq(Line)
  BY <1>5, <1>6, BlocksType
<1>8. QED
  BY <1>2, <1>3, <1>4, <1>5, <1>7, ConcatProperties DEF RenderMarkdown

LEMMA RenderSegmentType ==
  ASSUME NEW seg, Renders(seg), NEW width \in Nat
  PROVE  RenderSegment(seg, width) \in Seq(Line)
<1>1. seg.msg \in Nat
  BY DEF Renders
<1>2. CASE seg.kind = "markdown"
  BY <1>2, RenderMarkdownType DEF RenderSegment
<1>3. CASE seg.kind # "markdown"
  <2>1. seg.kind \in PlainKinds /\ seg.text \in Seq(Word)
    BY <1>3 DEF Renders
  <2>2. PICK T : T = Seq(Word)
    OBVIOUS
  <2>3. <<Mark>> \in T /\ Blank \in T /\ seg.text \in T
    <3>1. <<Mark>> \in Seq(Word) /\ <<>> \in Seq(Word)
      BY <2>1, SmallTexts
    <3>2. QED
      BY <2>1, <2>2, <3>1 DEF Blank
  <2>4. /\ <<<<Mark>>>> \in Seq(T) /\ <<<<Mark>>, Blank>> \in Seq(T)
        /\ <<<<Mark>>, seg.text, Blank>> \in Seq(T) /\ <<<<Mark>>, <<Mark>>, Blank>> \in Seq(T)
    BY <2>3
  <2>5. /\ Own(seg.msg, <<<<Mark>>>>) \in Seq(Line) /\ Own(seg.msg, <<<<Mark>>, Blank>>) \in Seq(Line)
        /\ Own(seg.msg, <<<<Mark>>, seg.text, Blank>>) \in Seq(Line)
        /\ Own(seg.msg, <<<<Mark>>, <<Mark>>, Blank>>) \in Seq(Line)
    BY <1>1, <2>2, <2>4, OwnType
  <2>6. QED
    BY <2>1, <2>5 DEF RenderSegment, PlainKinds
<1>4. QED
  BY <1>2, <1>3

-----------------------------------------------------------------------------
(* The items of the Turn Ledger *)

ItemFields == {"kind", "seg", "role", "annotation", "growth"}

\* An item shows one of some segments.
IsItem(item, segs) == DOMAIN item = ItemFields /\ item.seg \in segs

\* An item decorated shows the same.
LEMMA Decorating ==
  ASSUME NEW item, DOMAIN item = ItemFields, NEW value
  PROVE  /\ DOMAIN [item EXCEPT !.annotation = value] = ItemFields
         /\ DOMAIN [item EXCEPT !.growth = value] = ItemFields
         /\ DOMAIN [item EXCEPT !.role = value] = ItemFields
         /\ [item EXCEPT !.annotation = value].seg = item.seg
         /\ [item EXCEPT !.annotation = value].kind = item.kind
         /\ [item EXCEPT !.growth = value].seg = item.seg
         /\ [item EXCEPT !.growth = value].kind = item.kind
         /\ [item EXCEPT !.role = value].seg = item.seg
         /\ [item EXCEPT !.role = value].kind = item.kind
  BY DEF ItemFields

LEMMA ItemIs ==
  ASSUME NEW kind, NEW seg
  PROVE  DOMAIN Item(kind, seg) = ItemFields /\ Item(kind, seg).seg = seg /\ Item(kind, seg).kind = kind
  BY DEF Item, ItemFields

\* The items of segments: a sequence of items, in the order of the segments.
Itemized(items, segs) ==
    /\ items = [h \in 1..Len(items) |-> items[h]] /\ Len(items) \in Nat
    /\ \A h \in 1..Len(items) :
          /\ DOMAIN items[h] = ItemFields
          /\ \E i \in 1..Len(segs) : items[h].seg = segs[i]
    /\ \A h, j \in 1..Len(items) : h <= j => items[h].seg.msg <= items[j].seg.msg

\* Decorations leave what is shown and where.
LEMMA DecoratingKeeps ==
  ASSUME NEW items, NEW segs, Itemized(items, segs), NEW others,
         others = [h \in 1..Len(items) |-> others[h]],
         \A h \in 1..Len(items) : DOMAIN others[h] = ItemFields /\ others[h].seg = items[h].seg
  PROVE  Itemized(others, segs) /\ Eager(others) = others
<1>1. PICK n \in Nat : n = Len(items)
  BY DEF Itemized
<1>2. others = [h \in 1..n |-> others[h]]
  BY <1>1
<1>3. Len(others) = n /\ Eager(others) = others
  BY <1>2, EagerIs
<1>4. QED
  BY <1>1, <1>3 DEF Itemized

\* The items of a ledger, where P are the steps, S the segments and R the roles.
Marking(seg, s) == [Item("divider", seg) EXCEPT !.annotation = <<s.prompt - s.delta, s.prompt>>]
Dividers(S, P) == {Marking(seg, s) : seg \in S, s \in P}
Headers(S, R) == {[Item("header", seg) EXCEPT !.role = role] : seg \in S, role \in R}
Shows(S) == {Item("segment", seg) : seg \in S}

LEMMA LedgerSets ==
  ASSUME NEW S, NEW P, NEW R, NEW item \in Dividers(S, P) \cup Headers(S, R) \cup Shows(S)
  PROVE  DOMAIN item = ItemFields /\ item.seg \in S
<1>1. CASE item \in Dividers(S, P)
  <2>1. PICK seg \in S, s \in P :
            item = [Item("divider", seg) EXCEPT !.annotation = <<s.prompt - s.delta, s.prompt>>]
    BY <1>1 DEF Dividers, Marking
  <2>2. QED
    BY <2>1, ItemIs, Decorating
<1>2. CASE item \in Headers(S, R)
  <2>1. PICK seg \in S, role \in R : item = [Item("header", seg) EXCEPT !.role = role]
    BY <1>2 DEF Headers
  <2>2. QED
    BY <2>1, ItemIs, Decorating
<1>3. CASE item \in Shows(S)
  BY <1>3, ItemIs DEF Shows
<1>4. QED
  BY <1>1, <1>2, <1>3

\* Segments that can be rendered, in order.
Lined(segs, n) ==
    /\ segs = [i \in 1..n |-> segs[i]]
    /\ \A i \in 1..n : Renders(segs[i])
    /\ \A i, j \in 1..n : i <= j => segs[i].msg <= segs[j].msg

LEMMA InsertResetDividersIs ==
  ASSUME NEW n \in Nat, NEW segs, Lined(segs, n), NEW P, NEW series, series.steps \in Seq(P)
  PROVE  Itemized(InsertResetDividers(segs, series), segs)
<1> DEFINE Due(i) ==
            Chosen(series.steps,
                   {k \in DOMAIN series.steps :
                        /\ series.steps[k].reset /\ series.steps[k].msg <= segs[i].msg
                        /\ \A j \in 1 .. i - 1 : segs[j].msg < series.steps[k].msg})
           Over(i) == {j \in 1 .. i : segs[j].kind = "header"}
           Role(i) == IF Over(i) = {} THEN "assistant" ELSE segs[Greatest(Over(i))].role
           Divider(s, i) ==
            [Item("divider", segs[i]) EXCEPT !.annotation = <<s.prompt - s.delta, s.prompt>>]
           Inserted(i) == [d \in DOMAIN Due(i) |-> Divider(Due(i)[d], i)]
           Repeated(i) == IF Due(i) # <<>> /\ segs[i].kind # "header"
                          THEN <<[Item("header", segs[i]) EXCEPT !.role = Role(i)]>> ELSE <<>>
           Part(i) == Inserted(i) \o Repeated(i) \o <<Item("segment", segs[i])>>
<1>1. DOMAIN segs = 1..n /\ Len(segs) = n
  <2>1. segs = [i \in 1..n |-> segs[i]]
    BY DEF Lined
  <2>2. Len(segs) = n
    BY <2>1, EagerIs
  <2>3. QED
    BY <2>1, <2>2, Zenon
<1>2. InsertResetDividers(segs, series) = FlattenSeq([i \in DOMAIN segs |-> Part(i)])
  BY Zenon DEF InsertResetDividers
<1>3. PICK S : S = {segs[i] : i \in 1..n}
  OBVIOUS
<1>4. PICK R : R = {Role(i) : i \in 1..n}
  OBVIOUS
<1>5. PICK T : T = Dividers(S, P) \cup Headers(S, R) \cup Shows(S)
  OBVIOUS
<1>6. \A i \in 1..n : segs[i] \in S /\ Role(i) \in R
  BY <1>3, <1>4
<1>7. \A i \in 1..n : Due(i) \in Seq(P)
  <2> TAKE i \in 1..n
  <2>1. QED
    BY ChosenType
<1> HIDE DEF Due, Role
<1>8. ASSUME NEW i \in 1..n
      PROVE  /\ Part(i) \in Seq(T)
             /\ \A p \in 1..Len(Part(i)) : Part(i)[p].seg = segs[i]
  <2> DEFINE here == Dividers({segs[i]}, P) \cup Headers({segs[i]}, R) \cup Shows({segs[i]})
  <2>1. here \subseteq T
    <3>1. {segs[i]} \subseteq S
      BY <1>6
    <3>2. QED
      BY <3>1, <1>5 DEF Dividers, Headers, Shows
  <2>2. Inserted(i) \in Seq(here)
    <3>1. PICK d \in Seq(P) : d = Due(i)
      BY <1>7
    <3>2. PICK k \in Nat : k = Len(d) /\ DOMAIN d = 1..k
      BY LenProperties
    <3>3. PICK f : f = [j \in 1..k |-> Divider(d[j], i)]
      OBVIOUS
    <3>4. \A j \in 1..k : f[j] \in here
      <4> TAKE j \in 1..k
      <4>1. d[j] \in P
        BY <3>2, ElementOfSeq
      <4>2. f[j] = Marking(segs[i], d[j])
        BY <3>3 DEF Marking
      <4>3. f[j] \in Dividers({segs[i]}, P)
        BY <4>1, <4>2 DEF Dividers
      <4>4. QED
        BY <4>3, Zenon
    <3>5. f \in Seq(here)
      <4> HIDE DEF here, Divider
      <4>1. QED
        BY <3>3, <3>4, ByElements
    <3>6. QED
      BY <3>1, <3>2, <3>3, <3>5
  <2>3. Repeated(i) \in Seq(here)
    <3>1. \A x \in here : <<x>> \in Seq(here)
      OBVIOUS
    <3>2. [Item("header", segs[i]) EXCEPT !.role = Role(i)] \in here
      BY <1>6 DEF Headers
    <3>3. <<>> \in Seq(here)
      BY EmptySeq
    <3> HIDE DEF here
    <3>4. QED
      BY <3>1, <3>2, <3>3
  <2>4. <<Item("segment", segs[i])>> \in Seq(here)
    <3>1. \A x \in here : <<x>> \in Seq(here)
      OBVIOUS
    <3>2. Item("segment", segs[i]) \in here
      BY DEF Shows
    <3> HIDE DEF here
    <3>3. QED
      BY <3>1, <3>2
  <2>5. Part(i) \in Seq(here)
    <3> HIDE DEF here, Inserted, Repeated
    <3>1. Inserted(i) \o Repeated(i) \in Seq(here)
      BY <2>2, <2>3, ConcatProperties
    <3>2. QED
      BY <3>1, <2>4, ConcatProperties
  <2>6. \A x \in here : x.seg = segs[i]
    <3> TAKE x \in here
    <3>1. x.seg \in {segs[i]}
      BY LedgerSets
    <3>2. QED
      BY <3>1
  <2>7. PICK part \in Seq(here) : part = Part(i)
    BY <2>5
  <2> HIDE DEF here, Part
  <2>8. part \in Seq(T)
    BY <2>1, SeqMonotonic
  <2>9. \A p \in 1..Len(part) : part[p] \in here
    BY ElementOfSeq
  <2>10. QED
    BY <2>6, <2>7, <2>8, <2>9
<1>9. PICK parts : parts = [i \in 1..n |-> Part(i)]
  OBVIOUS
<1> HIDE DEF Part
<1>10. parts \in Seq(Seq(T)) /\ Len(parts) = n
  <2>1. \A i \in 1..n : parts[i] \in Seq(T)
    BY <1>8, <1>9
  <2>2. QED
    BY <1>9, <2>1, ByElements
<1>11. \A x \in T : DOMAIN x = ItemFields /\ x.seg \in S
  BY <1>5, LedgerSets
<1>12. \A seg \in S : seg.msg \in Nat
  BY <1>3 DEF Lined, Renders
<1>13. PICK level \in [T -> Nat] : level = [x \in T |-> x.seg.msg]
  BY <1>11, <1>12
<1>14. PICK of \in [1..n -> Nat] : of = [i \in 1..n |-> segs[i].msg]
  BY <1>6, <1>12
<1>15. PICK items \in Seq(T) : items = FlattenSeq(parts)
  BY <1>10, FlattenType
<1>16. Rising(items, level)
  <2>1. \A i, j \in 1..Len(parts) : i <= j => of[i] <= of[j]
    BY <1>10, <1>14 DEF Lined
  <2>2. \A i \in 1..Len(parts) : \A p \in 1..Len(parts[i]) : level[parts[i][p]] = of[i]
    <3> TAKE i \in 1..Len(parts)
    <3> i \in 1..n
      BY <1>10
    <3> TAKE p \in 1..Len(parts[i])
    <3>1. parts[i] = Part(i) /\ parts[i] \in Seq(T)
      BY <1>9, <1>8
    <3>2. parts[i][p] \in T
      BY <3>1, ElementOfSeq
    <3>3. parts[i][p].seg = segs[i]
      BY <3>1, <1>8
    <3>4. QED
      BY <3>2, <3>3, <1>13, <1>14
  <2>3. Leveled(parts, n, level, of)
    BY <1>10, <2>1, <2>2 DEF Leveled
  <2>5. Rising(FlattenSeq(parts), level)
    BY <1>10, <2>3, FlattenRising
  <2>6. QED
    BY <1>15, <2>5
<1>17. InsertResetDividers(segs, series) = items
  BY <1>1, <1>2, <1>9, <1>15
<1>18. PICK k \in Nat : k = Len(items) /\ DOMAIN items = 1..k
  BY LenProperties
<1>19. \A h \in 1..k : items[h] \in T /\ DOMAIN items[h] = ItemFields /\ items[h].seg \in S
  BY <1>11, <1>18, ElementOfSeq
<1>20. \A h, j \in 1..k : h <= j => items[h].seg.msg <= items[j].seg.msg
  BY <1>13, <1>16, <1>18, <1>19 DEF Rising
<1>21. items = [h \in 1..k |-> items[h]]
  BY <1>18
<1>22. \A h \in 1..k : \E i \in 1..n : items[h].seg = segs[i]
  BY <1>3, <1>19
<1>23. QED
  BY <1>1, <1>17, <1>18, <1>19, <1>20, <1>21, <1>22 DEF Itemized

LEMMA AnnotateLedgerHeadersIs ==
  ASSUME NEW items, NEW segs, Itemized(items, segs), NEW series, NEW count
  PROVE  Itemized(AnnotateLedgerHeaders(items, series, count), segs)
<1>1. PICK n \in Nat : n = Len(items) /\ items = [h \in 1..n |-> items[h]] /\ DOMAIN items = 1..n
  <2>1. PICK n \in Nat : n = Len(items) /\ items = [h \in 1..n |-> items[h]]
    BY DEF Itemized
  <2>2. DOMAIN [h \in 1..n |-> items[h]] = 1..n
    OBVIOUS
  <2>3. QED
    BY <2>1, <2>2
<1> DEFINE Later(h) == {j \in DOMAIN items : j > h /\ IsHeader(items[j])}
           GroupEnd(h) == IF Later(h) = {} THEN count + 1 ELSE items[Least(Later(h))].seg.msg
           FirstStep(h) == Larger(StepAt(series, items[h].seg.msg), 1)
           LastStep(h) == StepAt(series, Larger(GroupEnd(h) - 1, items[h].seg.msg))
           Annotated(h) == /\ IsHeader(items[h]) /\ items[h].role = "assistant"
                           /\ ~items[h].seg.side
                           /\ LastStep(h) > 0
           told(h) == <<series.steps[FirstStep(h)].prompt, series.steps[LastStep(h)].prompt>>
<1>2. PICK others : others = [h \in DOMAIN items |->
            IF Annotated(h) THEN [items[h] EXCEPT !.annotation = told(h)] ELSE items[h]]
  OBVIOUS
<1>3. AnnotateLedgerHeaders(items, series, count) = Eager(others)
  BY <1>2, Zenon DEF AnnotateLedgerHeaders
<1> HIDE DEF Annotated, told
<1>4. \A h \in 1..n : DOMAIN items[h] = ItemFields
  BY <1>1 DEF Itemized
<1>5. \A h \in 1..n : DOMAIN others[h] = ItemFields /\ others[h].seg = items[h].seg
  BY <1>1, <1>2, <1>4, Decorating
<1>6. others = [h \in 1..n |-> others[h]]
  BY <1>1, <1>2
<1>7. /\ others = [h \in 1..Len(items) |-> others[h]]
      /\ \A h \in 1..Len(items) : DOMAIN others[h] = ItemFields /\ others[h].seg = items[h].seg
  BY <1>1, <1>5, <1>6
<1>8. Itemized(others, segs) /\ Eager(others) = others
  BY <1>7, DecoratingKeeps
<1>9. QED
  BY <1>3, <1>8

LEMMA TagLedgerGrowthIs ==
  ASSUME NEW items, NEW segs, Itemized(items, segs), NEW series
  PROVE  Itemized(TagLedgerGrowth(items, series), segs)
<1>1. PICK n \in Nat : n = Len(items) /\ items = [h \in 1..n |-> items[h]] /\ DOMAIN items = 1..n
  <2>1. PICK n \in Nat : n = Len(items) /\ items = [h \in 1..n |-> items[h]]
    BY DEF Itemized
  <2>2. DOMAIN [h \in 1..n |-> items[h]] = 1..n
    OBVIOUS
  <2>3. QED
    BY <2>1, <2>2
<1> DEFINE Tagged(k) ==
                LET calls == GrowthTargets(items, series, k, "call")
                    results == GrowthTargets(items, series, k, "result")
                IN  IF calls # {} THEN {Greatest(calls)}
                    ELSE IF results # {} THEN {Greatest(results)} ELSE {}
           Steps(i) == {k \in DOMAIN series.steps :
                            series.steps[k].growth >= MinGrowth(series) /\ i \in Tagged(k)}
           Growth(k) == series.steps[k].growth
           tag(k) == <<Growth(k), Growth(k) >= LargeGrowth(series)>>
<1>2. PICK others : others = [i \in DOMAIN items |->
            IF Steps(i) = {} THEN items[i]
            ELSE [items[i] EXCEPT !.growth = tag(Greatest(Steps(i)))]]
  OBVIOUS
<1>3. TagLedgerGrowth(items, series) = Eager(others)
  BY <1>2, Zenon DEF TagLedgerGrowth
<1> HIDE DEF Steps, tag
<1>4. \A h \in 1..n : DOMAIN items[h] = ItemFields
  BY <1>1 DEF Itemized
<1>5. \A h \in 1..n : DOMAIN others[h] = ItemFields /\ others[h].seg = items[h].seg
  BY <1>1, <1>2, <1>4, Decorating
<1>6. others = [h \in 1..n |-> others[h]]
  BY <1>1, <1>2
<1>7. /\ others = [h \in 1..Len(items) |-> others[h]]
      /\ \A h \in 1..Len(items) : DOMAIN others[h] = ItemFields /\ others[h].seg = items[h].seg
  BY <1>1, <1>5, <1>6
<1>8. Itemized(others, segs) /\ Eager(others) = others
  BY <1>7, DecoratingKeeps
<1>9. QED
  BY <1>3, <1>8

LEMMA SegmentItemsAre ==
  ASSUME NEW n \in Nat, NEW segs, Lined(segs, n)
  PROVE  Itemized([i \in DOMAIN segs |-> Item("segment", segs[i])], segs)
<1>1. DOMAIN segs = 1..n /\ Len(segs) = n
  <2>1. segs = [i \in 1..n |-> segs[i]]
    BY DEF Lined
  <2>2. Len(segs) = n
    BY <2>1, EagerIs
  <2>3. QED
    BY <2>1, <2>2, Zenon
<1>2. PICK items : items = [i \in 1..n |-> Item("segment", segs[i])]
  OBVIOUS
<1>3. \A i \in 1..n : DOMAIN items[i] = ItemFields /\ items[i].seg = segs[i]
  BY <1>2, ItemIs
<1>4. items = [i \in 1..n |-> items[i]]
  BY <1>2
<1>5. Len(items) = n
  BY <1>4, EagerIs
<1>6. \A i, j \in 1..n : i <= j => items[i].seg.msg <= items[j].seg.msg
  BY <1>3 DEF Lined
<1>7. Itemized(items, segs)
  BY <1>1, <1>3, <1>4, <1>5, <1>6 DEF Itemized
<1>8. QED
  BY <1>1, <1>2, <1>7

\* The steps of a Context Series are a sequence, each of a message.
LEMMA SeriesSteps ==
  ASSUME NEW messages \in Seq(Messages), NEW conv
  PROVE  \E P : /\ NewContextSeries(conv, messages).steps \in Seq(P)
               /\ \A s \in P : s.msg \in Nat
<1>1. PICK m \in Nat : m = Len(messages) /\ DOMAIN messages = 1..m
  BY LenProperties
<1>2. PICK places : places = {i \in DOMAIN messages : StartsStep(conv, messages[i])}
  OBVIOUS
<1>3. PICK numbers : numbers = [i \in DOMAIN messages |-> i]
  OBVIOUS
<1>4. numbers \in Seq(Nat)
  <2>1. numbers = [i \in 1..m |-> numbers[i]] /\ \A i \in 1..m : numbers[i] \in Nat
    BY <1>1, <1>3
  <2>2. QED
    BY <2>1, ByElements
<1>5. PICK at \in Seq(Nat) : at = Chosen(numbers, places)
  BY <1>4, ChosenType
<1>6. PICK n \in Nat : n = Len(at)
  BY LenProperties
<1> DEFINE Prompt(k) == messages[at[k]].prompt
           Delta(k) == IF k = 1 THEN Prompt(1) ELSE Prompt(k) - Prompt(k - 1)
           Reset(k) == k > 1 /\ IsContextReset(Prompt(k - 1), Prompt(k))
           Step(k) == [msg |-> at[k],
                       next |-> IF k < n THEN at[k + 1] ELSE Len(messages) + 1,
                       prompt |-> Prompt(k),
                       delta |-> Delta(k),
                       growth |-> IF k = n \/ Reset(k + 1) THEN 0 ELSE Delta(k + 1),
                       reset |-> Reset(k)]
           prompts == {Prompt(k) : k \in 1 .. n}
           peak == IF n = 0 THEN 0 ELSE Least({k \in 1 .. n : Prompt(k) = Greatest(prompts)})
<1>7. NewContextSeries(conv, messages) =
        [steps |-> Eager([k \in 1 .. n |-> Step(k)]),
         peak |-> peak,
         window |-> ResolveContextWindow(conv, IF n = 0 THEN 0 ELSE Prompt(peak))]
  BY <1>2, <1>3, <1>5, <1>6, Zenon DEF NewContextSeries
<1>8. PICK steps : steps = [k \in 1..n |-> Step(k)]
  OBVIOUS
<1>16. \A k \in 1..n : steps[k].msg \in Nat
  <2> TAKE k \in 1..n
  <2>1. steps[k].msg = at[k]
    BY <1>8
  <2>2. at[k] \in Nat
    BY <1>6, ElementOfSeq
  <2>3. QED
    BY <2>1, <2>2
<1> HIDE DEF Step, peak, Prompt
<1>9. steps = [k \in 1..n |-> steps[k]]
  BY <1>8
<1>10. Eager(steps) = steps
  BY <1>9, EagerIs
<1>11. NewContextSeries(conv, messages).steps = steps
  BY <1>7, <1>8, <1>10
<1>12. PICK P : P = {steps[k] : k \in 1..n}
  OBVIOUS
<1>13. \A k \in 1..n : steps[k] \in P
  BY <1>12
<1>14. steps \in Seq(P)
  BY <1>9, <1>13, ByElements
<1>15. QED
  <2>1. \A s \in P : s.msg \in Nat
    BY <1>12, <1>16
  <2>2. QED
    BY <1>11, <1>14, <2>1

\* Items are segments in the order of the segments, and what the ledger inserts between.
LEMMA LedgerItemsAre ==
  ASSUME NEW n \in Nat, NEW segs, Lined(segs, n), NEW messages \in Seq(Messages), NEW conv, NEW options
  PROVE  Itemized(LedgerItems(segs, conv, messages, options), segs)
<1>1. Itemized([i \in DOMAIN segs |-> Item("segment", segs[i])], segs)
  BY SegmentItemsAre
<1>2. PICK series : series = NewContextSeries(conv, messages)
  OBVIOUS
<1>3. PICK P : series.steps \in Seq(P)
  BY <1>2, SeriesSteps
<1>4. PICK inserted : inserted = InsertResetDividers(segs, series) /\ Itemized(inserted, segs)
  BY <1>3, InsertResetDividersIs
<1>5. PICK annotated : /\ annotated = AnnotateLedgerHeaders(inserted, series, Len(messages))
                       /\ Itemized(annotated, segs)
  BY <1>4, AnnotateLedgerHeadersIs
<1>6. Itemized(TagLedgerGrowth(annotated, series), segs)
  BY <1>5, TagLedgerGrowthIs
<1>7. Itemized(PlanContextLedger(segs, series, Len(messages)), segs)
  BY <1>1, <1>4, <1>5, <1>6, Zenon DEF PlanContextLedger
<1>8. QED
  BY <1>1, <1>2, <1>7, Zenon DEF LedgerItems

\* Decorated segments are those segments.
LEMMA DecoratedIs ==
  ASSUME NEW segs \in Seq(Segs), NEW n \in Nat, InOrder(segs, n), NEW conv, NEW messages
  PROVE  Lined(Decorated(segs, conv, messages), Len(segs))
<1>1. PICK k \in Nat : k = Len(segs) /\ DOMAIN segs = 1..k
  BY LenProperties
<1>2. PICK others : others = [i \in 1..k |->
        [kind |-> segs[i].kind, role |-> segs[i].role, text |-> segs[i].text,
         msg |-> segs[i].msg, continuation |-> segs[i].continuation,
         side |-> ~OnThread(conv, messages[segs[i].msg])]]
  OBVIOUS
<1>3. Decorated(segs, conv, messages) = Eager(others)
  BY <1>1, <1>2, Zenon DEF Decorated
<1>4. others = [i \in 1..k |-> others[i]]
  BY <1>2
<1>5. Eager(others) = others
  BY <1>4, EagerIs
<1>6. \A i \in 1..k : /\ others[i].kind = segs[i].kind /\ others[i].text = segs[i].text
                      /\ others[i].msg = segs[i].msg
  BY <1>2
<1>7. \A i \in 1..k : Renders(others[i])
  <2> TAKE i \in 1..k
  <2>1. segs[i] \in Segs
    BY <1>1, ElementOfSeq
  <2>2. Renders(segs[i])
    BY <2>1, SegsRender
  <2>3. QED
    BY <1>6, <2>2 DEF Renders
<1>8. \A i, j \in 1..k : i <= j => others[i].msg <= others[j].msg
  BY <1>1, <1>6 DEF InOrder
<1>9. QED
  BY <1>1, <1>3, <1>4, <1>5, <1>7, <1>8 DEF Lined

-----------------------------------------------------------------------------
(* The lines of a transcript *)

LEMMA RenderItemType ==
  ASSUME NEW item, Renders(item.seg), NEW width \in Nat
  PROVE  RenderItem(item, width) \in Seq(Line)
<1>1. item.seg.msg \in Nat
  BY DEF Renders
<1>2. PICK T : T = Seq(Word)
  OBVIOUS
<1>3. <<Mark>> \in T /\ Blank \in T
  <2>1. <<Mark>> \in Seq(Word) /\ <<>> \in Seq(Word)
    <3>1. <<>> \in Seq(Word)
      BY EmptySeq
    <3>2. QED
      BY <3>1, SmallTexts
  <2>2. QED
    BY <2>1, <1>2 DEF Blank
<1>4. <<<<Mark>>, Blank>> \in Seq(T)
  BY <1>3
<1>5. Own(item.seg.msg, <<<<Mark>>, Blank>>) \in Seq(Line)
  BY <1>1, <1>2, <1>4, OwnType
<1>6. QED
  BY <1>5, RenderSegmentType DEF RenderItem

LEMMA FlattenSegmentType ==
  ASSUME NEW seg \in Segs
  PROVE  FlattenSegment(seg) \in Seq(Line)
<1>1. Renders(seg)
  BY SegsRender
<1>2. RenderSegment(seg, WordWidth) \in Seq(Line)
  BY <1>1, RenderSegmentType DEF WordWidth
<1>3. QED
  BY <1>1, <1>2 DEF FlattenSegment, Renders

\* How many plans a transcript has.
LEMMA PlansCounted ==
  ASSUME NEW messages \in Seq(Messages)
  PROVE  /\ Total([m \in DOMAIN messages |-> messages[m].plans]) \in Nat
         /\ \A m \in DOMAIN messages :
               messages[m].plans <= Total([k \in DOMAIN messages |-> messages[k].plans])
<1>1. PICK n \in Nat : n = Len(messages) /\ DOMAIN messages = 1..n
  BY LenProperties
<1>2. PICK plans : plans = [i \in 1..n |-> messages[i].plans]
  OBVIOUS
<1>3. \A i \in 1..n : plans[i] \in Nat
  <2> TAKE i \in 1..n
  <2>1. messages[i] \in Messages
    BY <1>1, ElementOfSeq
  <2>2. QED
    BY <2>1, <1>2 DEF Messages
<1>4. PICK sums \in [0..n -> Nat] : Sums(plans, n, sums)
  BY <1>3, SumsExist
<1>5. [m \in DOMAIN messages |-> messages[m].plans] = [i \in 1..n |-> plans[i]]
  BY <1>1, <1>2
<1>6. Total([m \in DOMAIN messages |-> messages[m].plans]) = sums[n]
  <2>1. n \in 0..n
    OBVIOUS
  <2>2. Total([i \in 1..n |-> plans[i]]) = sums[n]
    BY <1>3, <1>4, <2>1, TotalIs
  <2>3. QED
    BY <1>5, <2>2
<1>7. \A m \in 1..n : plans[m] <= sums[n]
  <2> TAKE m \in 1..n
  <2>1. n \in 0..n /\ m - 1 \in 0..n /\ n \in (m - 1)..n /\ m \in (m - 1)..n /\ m > m - 1
    OBVIOUS
  <2>2. plans[m] <= sums[m]
    BY <1>3, <1>4, <2>1, SumsGrow
  <2>3. sums[m] <= sums[n]
    <3>1. m \in 0..n /\ n \in m..n
      OBVIOUS
    <3>2. QED
      BY <1>3, <1>4, <3>1, SumsGrow
  <2>4. sums[m] \in Nat /\ sums[n] \in Nat /\ plans[m] \in Nat
    BY <1>3, <2>1
  <2>5. QED
    BY <2>2, <2>3, <2>4
<1>8. sums[n] \in Nat
  OBVIOUS
<1>9. QED
  BY <1>1, <1>2, <1>6, <1>7, <1>8

LEMMA PlanLinesType ==
  ASSUME NEW messages \in Seq(Messages), NEW expanded
  PROVE  PlanLines(messages, expanded) \in Seq(Line)
<1>1. PICK plans \in Nat : plans = Total([m \in DOMAIN messages |-> messages[m].plans])
  BY PlansCounted
<1>2. PICK n \in Nat : n = IF expanded THEN 2 * plans ELSE Smaller(plans, 1)
  BY DEF Smaller
<1>3. PICK T : T = Seq(Word)
  OBVIOUS
<1>4. <<Mark>> \in T
  <2>1. <<>> \in Seq(Word)
    BY EmptySeq
  <2>2. QED
    BY <1>3, <2>1, SmallTexts
<1>5. PICK lines : lines = [i \in 1..n |-> <<Mark>>]
  OBVIOUS
<1>6. lines = [i \in 1..n |-> lines[i]] /\ \A i \in 1..n : lines[i] \in T
  BY <1>4, <1>5
<1>7. lines \in Seq(T)
  BY <1>6, ByElements
<1>8. Own(NoMessage, lines) \in Seq(Line)
  BY <1>3, <1>7, OwnType DEF NoMessage
<1>9. QED
  BY <1>1, <1>2, <1>5, <1>8, Zenon DEF PlanLines

-----------------------------------------------------------------------------
(* The line map *)

Anchors == [line : Nat, msg : Nat]

\* Starts of blocks that follow each other, of messages that follow each other.
Charted(starts, n) ==
    /\ starts = [i \in 1..n |-> starts[i]]
    /\ \A i \in 1..n : starts[i] \in Anchors
    /\ \A i, j \in 1..n : i <= j => starts[i].line <= starts[j].line /\ starts[i].msg <= starts[j].msg

\* A map in which later lines are of later messages.
Charts(map) ==
    /\ map \in SUBSET Anchors
    /\ \A a, b \in map : a.line <= b.line => a.msg <= b.msg

LEMMA StartsAre ==
  ASSUME NEW prefix \in Nat, NEW n \in Nat, NEW blocks \in Seq(Seq(Line)), Len(blocks) = n,
         NEW owners, \A i \in 1..n : owners[i] \in Nat,
         \A i, j \in 1..n : i <= j => owners[i] <= owners[j]
  PROVE  Charted(Starts(prefix, blocks, owners), n)
<1>1. DOMAIN blocks = 1..n
  BY LenProperties
<1>2. PICK sizes : sizes = [i \in 1..n |-> Len(blocks[i])]
  OBVIOUS
<1>3. \A i \in 1..n : sizes[i] \in Nat
  <2> TAKE i \in 1..n
  <2>1. blocks[i] \in Seq(Line)
    BY ElementOfSeq
  <2>2. QED
    BY <2>1, <1>2, LenProperties
<1>4. PICK sums \in [0..n -> Nat] : Sums(sizes, n, sums)
  BY <1>3, SumsExist
<1>5. \A i \in 1..n : Total([j \in 1 .. i - 1 |-> Len(blocks[j])]) = sums[i - 1]
  <2> TAKE i \in 1..n
  <2>1. PICK k \in 0..n : k = i - 1
    OBVIOUS
  <2>2. Total([j \in 1..k |-> sizes[j]]) = sums[k]
    BY <1>3, <1>4, TotalIs
  <2>3. [j \in 1..k |-> sizes[j]] = [j \in 1 .. i - 1 |-> Len(blocks[j])]
    BY <1>2, <2>1
  <2>4. QED
    BY <2>1, <2>2, <2>3
<1>6. PICK starts : starts = Starts(prefix, blocks, owners)
  OBVIOUS
<1>7. starts = [i \in 1..n |-> [line |-> prefix + Total([j \in 1 .. i - 1 |-> Len(blocks[j])]),
                                msg |-> owners[i]]]
  BY <1>1, <1>6, Zenon DEF Starts
<1>8. \A i \in 1..n : /\ starts[i].line = prefix + sums[i - 1] /\ starts[i].msg = owners[i]
                      /\ starts[i] = [line |-> starts[i].line, msg |-> starts[i].msg]
  <2> TAKE i \in 1..n
  <2>1. PICK place : place = prefix + sums[i - 1]
    OBVIOUS
  <2>2. starts[i] = [line |-> place, msg |-> owners[i]]
    BY <1>5, <1>7, <2>1, Zenon
  <2>3. QED
    BY <2>1, <2>2
<1>9. \A i \in 1..n : starts[i] \in Anchors
  <2> TAKE i \in 1..n
  <2>1. i - 1 \in 0..n
    OBVIOUS
  <2>2. sums[i - 1] \in Nat
    BY <2>1
  <2>3. prefix + sums[i - 1] \in Nat
    BY <2>2
  <2>4. starts[i].line \in Nat /\ starts[i].msg \in Nat
    BY <1>8, <2>3
  <2>5. PICK place \in Nat, owner \in Nat : starts[i] = [line |-> place, msg |-> owner]
    BY <1>8, <2>4
  <2>6. QED
    BY <2>5 DEF Anchors
<1>10. ASSUME NEW i \in 1..n, NEW j \in 1..n, i <= j
       PROVE  starts[i].line <= starts[j].line /\ starts[i].msg <= starts[j].msg
  <2>1. PICK a \in 0..n, b \in 0..n : a = i - 1 /\ b = j - 1 /\ b \in a..n
    BY <1>10
  <2>2. sums[a] <= sums[b]
    BY <1>3, <1>4, <2>1, SumsGrow
  <2>3. sums[a] \in Nat /\ sums[b] \in Nat
    OBVIOUS
  <2>4. starts[i].line = prefix + sums[a] /\ starts[j].line = prefix + sums[b]
    <3>1. starts[i].line = prefix + sums[i - 1] /\ starts[j].line = prefix + sums[j - 1]
      BY <1>8
    <3>2. QED
      BY <2>1, <3>1
  <2>5. starts[i].line <= starts[j].line
    BY <2>2, <2>3, <2>4
  <2>6. starts[i].msg = owners[i] /\ starts[j].msg = owners[j] /\ owners[i] <= owners[j]
    BY <1>8, <1>10
  <2>7. QED
    BY <2>5, <2>6
<1>11. starts = [i \in 1..n |-> starts[i]]
  BY <1>7
<1>12. QED
  BY <1>6, <1>9, <1>10, <1>11 DEF Charted

LEMMA NewContextLineMapIs ==
  ASSUME NEW n \in Nat, NEW starts, Charted(starts, n)
  PROVE  Charts(NewContextLineMap(starts))
<1>1. DOMAIN starts = 1..n
  <2>1. starts = [i \in 1..n |-> starts[i]]
    BY DEF Charted
  <2>2. QED
    BY <2>1, Zenon
<1>2. PICK map : map = NewContextLineMap(starts)
  OBVIOUS
<1>3. \A a \in map : \E i \in 1..n :
            a = starts[i] /\ \A j \in 1..n : j > i => starts[j].line # starts[i].line
  BY <1>1, <1>2 DEF NewContextLineMap
<1>4. map \in SUBSET Anchors
  BY <1>3 DEF Charted
<1>5. ASSUME NEW a \in map, NEW b \in map, a.line <= b.line
      PROVE  a.msg <= b.msg
  <2>1. PICK i \in 1..n : a = starts[i]
    BY <1>3
  <2>2. PICK j \in 1..n : b = starts[j] /\ \A k \in 1..n : k > j => starts[k].line # starts[j].line
    BY <1>3
  <2>3. CASE i <= j
    BY <2>1, <2>2, <2>3 DEF Charted
  <2>4. CASE ~(i <= j)
    <3>1. j <= i /\ i > j
      BY <2>4
    <3>2. b.line <= a.line
      BY <2>1, <2>2, <3>1 DEF Charted
    <3>3. a.line \in Nat /\ b.line \in Nat
      BY <1>4 DEF Anchors
    <3>4. a.line = b.line
      BY <1>5, <3>2, <3>3
    <3>5. QED
      BY <2>1, <2>2, <3>1, <3>4
  <2>5. QED
    BY <2>3, <2>4
<1>6. QED
  BY <1>2, <1>4, <1>5 DEF Charts

\* What a rendering is.
Drawn(r) == r.lines \in Seq(Line) /\ Charts(r.map)

LEMMA RenderingDrawn ==
  ASSUME NEW lines \in Seq(Line), NEW n \in Nat, NEW starts, Charted(starts, n), NEW items
  PROVE  Drawn(Rendering(lines, starts, items))
  BY NewContextLineMapIs DEF Rendering, Drawn

LEMMA FramedItemsDrawn ==
  ASSUME NEW head \in Seq(Line), NEW width \in Nat, NEW n \in Nat, NEW segs, Lined(segs, n),
         Len(segs) = n, NEW items, Itemized(items, segs)
  PROVE  Drawn(FramedItems(head, items, width))
<1>1. PICK k \in Nat : k = Len(items) /\ items = [h \in 1..k |-> items[h]] /\ DOMAIN items = 1..k
  <2>1. PICK k \in Nat : k = Len(items) /\ items = [h \in 1..k |-> items[h]]
    BY DEF Itemized
  <2>2. DOMAIN [h \in 1..k |-> items[h]] = 1..k
    OBVIOUS
  <2>3. QED
    BY <2>1, <2>2
<1>2. \A h \in 1..k : Renders(items[h].seg)
  <2> TAKE h \in 1..k
  <2>1. PICK i \in 1..n : items[h].seg = segs[i]
    BY <1>1 DEF Itemized
  <2>2. QED
    BY <2>1 DEF Lined
<1>3. PICK blocks : blocks = [i \in 1..k |-> RenderItem(items[i], width)]
  OBVIOUS
<1>4. blocks = [i \in 1..k |-> blocks[i]] /\ \A i \in 1..k : blocks[i] \in Seq(Line)
  BY <1>2, <1>3, RenderItemType
<1>5. blocks \in Seq(Seq(Line)) /\ Len(blocks) = k /\ FlattenSeq(blocks) \in Seq(Line)
  BY <1>4, BlocksType
<1>6. Eager(blocks) = blocks
  BY <1>4, EagerIs
<1>7. FramedItems(head, items, width) = Framed(head, items, blocks)
  BY <1>1, <1>3, <1>6, Zenon DEF FramedItems
<1>8. Own(NoMessage, <<Blank>>) \in Seq(Line)
  <2>1. <<>> \in Seq(Word)
    BY EmptySeq
  <2>2. <<Blank>> \in Seq(Seq(Word))
    BY <2>1, SmallTexts
  <2>3. QED
    BY <2>2, OwnType DEF NoMessage
<1>9. PICK lines \in Seq(Line) : lines = head \o FlattenSeq(blocks) \o Own(NoMessage, <<Blank>>)
  <2>1. head \o FlattenSeq(blocks) \in Seq(Line)
    BY <1>5, ConcatProperties
  <2>2. QED
    BY <1>8, <2>1, ConcatProperties
<1>10. PICK owners : owners = [i \in 1..k |-> items[i].seg.msg]
  OBVIOUS
<1>11. \A i \in 1..k : owners[i] \in Nat
  BY <1>2, <1>10 DEF Renders
<1>12. \A i, j \in 1..k : i <= j => owners[i] <= owners[j]
  BY <1>1, <1>10 DEF Itemized
<1>13. PICK prefix \in Nat : prefix = Len(head)
  BY LenProperties
<1>14. Charted(Starts(prefix, blocks, owners), k)
  BY <1>5, <1>11, <1>12, StartsAre
<1>15. Framed(head, items, blocks) = Rendering(lines, Starts(prefix, blocks, owners), items)
  BY <1>1, <1>9, <1>10, <1>13, Zenon DEF Framed
<1>16. QED
  BY <1>7, <1>14, <1>15, RenderingDrawn

\* A framed transcript is drawn.
LEMMA RenderContentDrawn ==
  ASSUME NEW messages \in Seq(Messages), NEW conv, NEW options, NEW expanded, NEW width \in Nat
  PROVE  Drawn(RenderContent(conv, messages, options, expanded, width))
<1>1. PICK plain \in Seq(Segs), n \in Nat :
            /\ plain = RenderTranscriptSegmented(messages, options)
            /\ InOrder(plain, n)
  BY SegmentedIs, LenProperties
<1>2. PICK segs : segs = Decorated(plain, conv, messages)
  OBVIOUS
<1>3. PICK k \in Nat : Lined(segs, k)
  BY <1>1, <1>2, DecoratedIs, LenProperties
<1>4. Len(segs) = k
  BY <1>3, EagerIs DEF Lined
<1>5. PICK items : /\ items = LedgerItems(segs, conv, messages, options)
                   /\ Itemized(items, segs)
  BY <1>3, LedgerItemsAre
<1>6. Own(NoMessage, <<<<Mark>>, Blank>>) \in Seq(Line)
  <2>1. <<>> \in Seq(Word)
    BY EmptySeq
  <2>2. <<<<Mark>>, Blank>> \in Seq(Seq(Word))
    BY <2>1, SmallTexts
  <2>3. QED
    BY <2>2, OwnType DEF NoMessage
<1>7. PICK head \in Seq(Line) : head = Own(NoMessage, <<<<Mark>>, Blank>>) \o PlanLines(messages, expanded)
  BY <1>6, PlanLinesType, ConcatProperties
<1>8. Drawn(FramedItems(head, items, width))
  BY <1>3, <1>4, <1>5, FramedItemsDrawn
<1>9. QED
  BY <1>1, <1>2, <1>5, <1>7, <1>8, Zenon DEF RenderContent

LEMMA BlankLine == Own(NoMessage, <<Blank>>) \in Seq(Line)
<1>1. <<>> \in Seq(Word)
  BY EmptySeq
<1>2. <<Blank>> \in Seq(Seq(Word))
  BY <1>1, SmallTexts
<1>3. QED
  BY <1>2, OwnType DEF NoMessage

\* Starts that move up together still follow each other.
LEMMA ShiftedCharted ==
  ASSUME NEW n \in Nat, NEW starts, Charted(starts, n), NEW by \in Nat, NEW others,
         others = [i \in 1..n |-> [starts[i] EXCEPT !.line = Larger(@ - by, 0)]]
  PROVE  Charted(others, n)
<1>1. \A i \in 1..n : starts[i].line \in Nat /\ starts[i].msg \in Nat
  BY DEF Charted, Anchors
<1>2. \A i \in 1..n : /\ others[i] \in Anchors
                      /\ others[i].line = Larger(starts[i].line - by, 0)
                      /\ others[i].msg = starts[i].msg
  <2> TAKE i \in 1..n
  <2>1. PICK start \in Anchors : start = starts[i]
    BY DEF Charted
  <2>2. PICK line \in Nat : line = Larger(start.line - by, 0)
    BY DEF Larger, Anchors
  <2>3. others[i] = [start EXCEPT !.line = line]
    BY <2>1, <2>2
  <2>4. QED
    BY <2>1, <2>2, <2>3 DEF Anchors
<1>3. \A i, j \in 1..n : i <= j => others[i].line <= others[j].line /\ others[i].msg <= others[j].msg
  <2> TAKE i, j \in 1..n
  <2>1. HAVE i <= j
  <2>2. starts[i].line <= starts[j].line /\ starts[i].msg <= starts[j].msg
    BY <2>1 DEF Charted
  <2>3. Larger(starts[i].line - by, 0) <= Larger(starts[j].line - by, 0)
    BY <1>1, <2>2 DEF Larger
  <2>4. QED
    BY <1>2, <2>2, <2>3
<1>4. others = [i \in 1..n |-> others[i]]
  OBVIOUS
<1>5. QED
  BY <1>2, <1>3, <1>4 DEF Charted

LEMMA TrimmedDrawn ==
  ASSUME NEW full \in Seq(Line), NEW n \in Nat, NEW starts, Charted(starts, n)
  PROVE  Drawn(Trimmed(full, starts))
<1> DEFINE written == {l \in DOMAIN full : full[l].words # Blank}
           by == Least(written) - 1
           others == [i \in DOMAIN starts |-> [starts[i] EXCEPT !.line = Larger(@ - by, 0)]]
<1>1. Trimmed(full, starts) =
        IF written = {} THEN Rendering(Own(NoMessage, <<Blank>>), <<>>, <<>>)
        ELSE Rendering(TrimBlank(full) \o Own(NoMessage, <<Blank>>), others, <<>>)
  BY Zenon DEF Trimmed
<1>2. CASE written = {}
  <2>1. Charted(<<>>, 0)
    BY DEF Charted
  <2>2. Drawn(Rendering(Own(NoMessage, <<Blank>>), <<>>, <<>>))
    BY <2>1, BlankLine, RenderingDrawn
  <2> HIDE DEF written, others
  <2>3. QED
    BY <1>1, <1>2, <2>2
<1>3. CASE written # {}
  <2>1. PICK k \in Nat : k = Len(full) /\ DOMAIN full = 1..k
    BY LenProperties
  <2>2. written \in SUBSET Nat /\ \A l \in written : l >= 1
    BY <2>1
  <2>3. PICK shift \in Nat : shift = by
    <3> HIDE DEF written
    <3>1. Least(written) \in written
      BY <1>3, <2>2, LeastIs
    <3>2. PICK first \in Nat : first = Least(written) /\ first >= 1
      BY <2>2, <3>1
    <3>3. first - 1 \in Nat /\ by = first - 1
      BY <3>2
    <3>4. QED
      BY <3>3, Zenon
  <2>4. DOMAIN starts = 1..n
    <3>1. starts = [i \in 1..n |-> starts[i]]
      BY DEF Charted
    <3>2. QED
      BY <3>1, Zenon
  <2> HIDE DEF written
  <2>5. PICK moved : moved = others
    OBVIOUS
  <2>6. moved = [i \in 1..n |-> [starts[i] EXCEPT !.line = Larger(@ - shift, 0)]]
    BY <2>3, <2>4, <2>5
  <2>7. Charted(moved, n)
    BY <2>6, ShiftedCharted
  <2>8. PICK lines \in Seq(Line) : lines = TrimBlank(full) \o Own(NoMessage, <<Blank>>)
    BY BlankLine, TrimBlankType, ConcatProperties
  <2>9. Drawn(Rendering(lines, moved, <<>>))
    BY <2>7, RenderingDrawn
  <2> HIDE DEF others
  <2>10. QED
    BY <1>1, <1>3, <2>5, <2>8, <2>9
<1>4. QED
  BY <1>2, <1>3

LEMMA PlainDrawn ==
  ASSUME NEW plans \in Seq(Line), NEW segs \in Seq(Segs), NEW last \in Nat, InOrder(segs, last)
  PROVE  Drawn(Plain(plans, segs))
<1>1. PICK n \in Nat : n = Len(segs) /\ DOMAIN segs = 1..n
  BY LenProperties
<1>2. PICK blocks : blocks = [i \in 1..n |-> FlattenSegment(segs[i])]
  OBVIOUS
<1>3. blocks = [i \in 1..n |-> blocks[i]] /\ \A i \in 1..n : blocks[i] \in Seq(Line)
  BY <1>1, <1>2, ElementOfSeq, FlattenSegmentType
<1>4. blocks \in Seq(Seq(Line)) /\ Len(blocks) = n /\ FlattenSeq(blocks) \in Seq(Line)
  BY <1>3, BlocksType
<1>5. Eager(blocks) = blocks
  BY <1>3, EagerIs
<1>6. PICK owners : owners = [i \in 1..n |-> segs[i].msg]
  OBVIOUS
<1>7. \A i \in 1..n : owners[i] \in Nat
  BY <1>1, <1>6, SegmentNumbers
<1>8. \A i, j \in 1..n : i <= j => owners[i] <= owners[j]
  BY <1>1, <1>6 DEF InOrder
<1>9. PICK prefix \in Nat : prefix = Len(plans)
  BY LenProperties
<1>10. PICK starts : starts = Starts(prefix, blocks, owners) /\ Charted(starts, n)
  BY <1>4, <1>7, <1>8, StartsAre
<1>11. PICK full \in Seq(Line) : full = plans \o FlattenSeq(blocks)
  BY <1>4, ConcatProperties
<1>12. Plain(plans, segs) = Trimmed(full, starts)
  BY <1>1, <1>2, <1>5, <1>6, <1>9, <1>10, <1>11, Zenon DEF Plain
<1>13. QED
  BY <1>10, <1>12, TrimmedDrawn

\* A plain transcript is drawn.
LEMMA RenderVisibleConversationDrawn ==
  ASSUME NEW messages \in Seq(Messages), NEW options, NEW expanded
  PROVE  Drawn(RenderVisibleConversation(messages, options, expanded))
<1>1. PICK segs \in Seq(Segs), n \in Nat :
            /\ segs = RenderTranscriptSegmented(messages, options)
            /\ InOrder(segs, n)
  BY SegmentedIs, LenProperties
<1>2. PICK plans \in Seq(Line) : plans = IF expanded THEN PlanLines(messages, TRUE) ELSE <<>>
  BY PlanLinesType, EmptySeq
<1>3. Drawn(Plain(plans, segs))
  BY <1>1, PlainDrawn
<1>4. QED
  BY <1>1, <1>2, <1>3 DEF RenderVisibleConversation

-----------------------------------------------------------------------------
(* The renderings of the views *)

LEMMA TranscriptsAre ==
  Transcripts = Sessions /\ \A i \in DOMAIN Sessions : Sessions[i].messages \in Seq(Messages)
<1>1. Sessions \in Seq([conv : Conversations, messages : Seq(Messages)])
  BY SessionsAssumption
<1>2. PICK n \in Nat : n = Len(Sessions) /\ DOMAIN Sessions = 1..n
  BY <1>1, LenProperties
<1>3. \A i \in DOMAIN Sessions : Sessions[i].messages \in Seq(Messages)
  <2> TAKE i \in DOMAIN Sessions
  <2>1. Sessions[i] \in [conv : Conversations, messages : Seq(Messages)]
    BY <1>1, <1>2, ElementOfSeq
  <2>2. QED
    BY <2>1
<1>4. Transcripts = Sessions
  BY <1>1, SubSeqFull DEF Transcripts, Eager
<1>5. QED
  BY <1>3, <1>4

LEMMA RenderDrawn ==
  ASSUME NEW v, v.session \in DOMAIN Sessions, v.width \in Nat
  PROVE  Drawn(Render(v))
<1>1. PICK messages, conv :
            /\ messages \in Seq(Messages)
            /\ messages = Transcripts[v.session].messages /\ conv = Transcripts[v.session].conv
  BY TranscriptsAre
<1>2. MarkdownWrapWidth(v.width, FALSE) \in Nat
  BY DEF MarkdownWrapWidth, Larger, BorderAndPadding, Margin
<1>3. /\ Drawn(RenderVisibleConversation(messages, v.opts, v.plan))
      /\ Drawn(RenderContent(conv, messages, v.opts, v.plan, MarkdownWrapWidth(v.width, FALSE)))
  BY <1>1, <1>2, RenderVisibleConversationDrawn, RenderContentDrawn
<1>4. Render(v) = IF v.selecting THEN RenderVisibleConversation(messages, v.opts, v.plan)
                  ELSE RenderContent(conv, messages, v.opts, v.plan, MarkdownWrapWidth(v.width, FALSE))
  BY <1>1, Zenon DEF Render
<1>5. QED
  BY <1>3, <1>4

\* A view of an open transcript.
LEMMA ViewIs ==
  ASSUME NEW s \in Settings, NEW v \in ViewsOf(s)
  PROVE  /\ v.session = s.session /\ v.session \in DOMAIN Sessions
         /\ v.width \in Nat /\ v.selecting \in BOOLEAN
<1>1. s.session \in DOMAIN Sessions /\ s.layouts \in Seq(Layouts)
  BY SettingsAssumption
<1>2. PICK o \in OptionsOf(s), p \in Positions(s, "plan"), c \in Positions(s, "selection"),
           l \in DOMAIN s.layouts : v = View(s.session, o, p, c, s.layouts[l].width)
  BY DEF ViewsOf
<1>3. s.layouts[l] \in Layouts
  <2>1. PICK n \in Nat : n = Len(s.layouts) /\ DOMAIN s.layouts = 1..n
    BY <1>1, LenProperties
  <2>2. QED
    BY <1>1, <2>1, ElementOfSeq
<1>4. s.layouts[l].width \in Nat
  BY <1>3 DEF Layouts
<1>5. c \in BOOLEAN
  BY DEF Positions
<1>6. QED
  BY <1>1, <1>2, <1>4, <1>5 DEF View

LEMMA AView ==
  ASSUME NEW s \in Settings, NEW o \in OptionsOf(s), NEW p \in Positions(s, "plan"),
         NEW c \in Positions(s, "selection"), NEW l \in DOMAIN s.layouts
  PROVE  View(s.session, o, p, c, s.layouts[l].width) \in ViewsOf(s)
<1>1. PICK v : v = View(s.session, o, p, c, s.layouts[l].width)
  OBVIOUS
<1>2. v \in ViewsOf(s)
  BY <1>1 DEF ViewsOf
<1>3. QED
  BY <1>1, <1>2

\* What was rendered in advance is what is rendered.
LEMMA RenderedIs ==
  ASSUME NEW s \in Settings, NEW v \in ViewsOf(s)
  PROVE  Rendered(v) = Render(v) /\ Drawn(Render(v))
<1>1. v.session = s.session /\ v.session \in DOMAIN Sessions /\ v.width \in Nat
  BY ViewIs
<1>2. Drawn(Render(v))
  BY <1>1, RenderDrawn
<1> DEFINE views(i) == UNION {ViewsOf(t) : t \in {t \in Settings : t.session = i}}
           table(i) == [u \in views(i) |-> Render(u)]
<1>3. PICK n \in Nat : n = Len(Sessions) /\ DOMAIN Sessions = 1..n
  BY SessionsAssumption, LenProperties
<1>4. PICK tables : tables = [i \in 1..n |-> Tabled(table(i))]
  OBVIOUS
<1>5. Eager(tables) = tables
  <2>1. tables = [i \in 1..n |-> tables[i]]
    BY <1>4
  <2>2. QED
    BY <2>1, EagerIs
<1>6. Renderings = tables
  BY <1>3, <1>4, <1>5, Zenon DEF Renderings
<1>7. v \in views(v.session)
  BY <1>1
<1>8. tables[v.session] = Tabled(table(v.session))
  BY <1>1, <1>3, <1>4
<1> HIDE DEF views
<1>9. PICK here : here = table(v.session)
  OBVIOUS
<1>10. DOMAIN here = views(v.session) /\ here[v] = Render(v)
  BY <1>7, <1>9
<1>11. Tabled(here) = here
  BY DEF Tabled
<1>12. Rendered(v) = Render(v)
  BY <1>6, <1>8, <1>9, <1>10, <1>11, Zenon DEF Rendered
<1>13. QED
  BY <1>2, <1>12

\* Views of one key render to the same.
LEMMA SameKey ==
  ASSUME NEW u, NEW v, RenderKey(u) = RenderKey(v)
  PROVE  Render(u) = Render(v)
<1>1. /\ u.session = v.session /\ u.opts = v.opts /\ u.plan = v.plan /\ u.selecting = v.selecting
      /\ MarkdownWrapWidth(u.width, u.selecting) = MarkdownWrapWidth(v.width, v.selecting)
  BY DEF RenderKey
<1>2. CASE u.selecting
  <2>1. Render(u) = RenderVisibleConversation(Transcripts[u.session].messages, u.opts, u.plan)
    BY <1>2, Zenon DEF Render
  <2>2. Render(v) = RenderVisibleConversation(Transcripts[v.session].messages, v.opts, v.plan)
    BY <1>1, <1>2, Zenon DEF Render
  <2>3. QED
    BY <1>1, <2>1, <2>2
<1>3. CASE ~u.selecting
  <2>1. MarkdownWrapWidth(u.width, FALSE) = MarkdownWrapWidth(v.width, FALSE)
    <3>1. \A w : MarkdownWrapWidth(w, u.selecting) = MarkdownWrapWidth(w, FALSE)
      BY <1>3 DEF MarkdownWrapWidth
    <3>2. QED
      BY <1>1, <3>1
  <2>2. Render(u) = RenderContent(Transcripts[u.session].conv, Transcripts[u.session].messages,
                                  u.opts, u.plan, MarkdownWrapWidth(u.width, FALSE))
    BY <1>3, Zenon DEF Render
  <2>3. Render(v) = RenderContent(Transcripts[v.session].conv, Transcripts[v.session].messages,
                                  v.opts, v.plan, MarkdownWrapWidth(v.width, FALSE))
    BY <1>1, <1>3, Zenon DEF Render
  <2>4. QED
    BY <1>1, <2>1, <2>2, <2>3
<1>4. QED
  BY <1>2, <1>3

-----------------------------------------------------------------------------
(* Searching in the lines *)

\* The numbers of the lines, from 0, on which a query was found.
LEMMA OccurrencesAre ==
  ASSUME NEW lines \in Seq(Line), NEW query, NEW n \in Nat, n = Len(lines)
  PROVE  /\ CollectSearchOccurrences(lines, query) \in Seq(Nat)
         /\ \A p \in 1..Len(CollectSearchOccurrences(lines, query)) :
               CollectSearchOccurrences(lines, query)[p] < n
<1>1. DOMAIN lines = 1..n
  BY LenProperties
<1>2. PICK S : S = 0 .. (n - 1)
  OBVIOUS
<1>3. \A x \in S : x \in Nat /\ x < n
  BY <1>2
<1> DEFINE Places(l) == {p \in DOMAIN lines[l].words : lines[l].words[p] = query}
<1>4. PICK parts : parts = [l \in 1..n |-> [h \in 1 .. Cardinality(Places(l)) |-> l - 1]]
  OBVIOUS
<1>5. \A l \in 1..n : parts[l] \in Seq(S)
  <2> TAKE l \in 1..n
  <2>1. PICK words \in Seq(Word) : words = lines[l].words
    <3>1. lines[l] \in Line
      BY ElementOfSeq
    <3>2. QED
      BY <3>1 DEF Line
  <2>2. PICK k \in Nat : k = Len(words) /\ DOMAIN words = 1..k
    BY LenProperties
  <2>3. IsFiniteSet(Places(l))
    <3>1. Places(l) \subseteq 1..k
      BY <2>1, <2>2
    <3>2. IsFiniteSet(1..k)
      BY FS_Interval
    <3>3. QED
      BY <3>1, <3>2, FS_Subset
  <2>4. PICK c \in Nat : c = Cardinality(Places(l))
    BY <2>3, FS_CardinalityType
  <2>5. PICK part : part = [h \in 1..c |-> l - 1]
    OBVIOUS
  <2>6. l - 1 \in S
    BY <1>2
  <2>7. part = [h \in 1..c |-> part[h]] /\ \A h \in 1..c : part[h] \in S
    BY <2>5, <2>6
  <2>8. part \in Seq(S)
    BY <2>7, ByElements
  <2>9. parts[l] = part
    BY <1>4, <2>4, <2>5
  <2>10. QED
    BY <2>8, <2>9
<1>6. parts \in Seq(Seq(S))
  <2>1. parts = [l \in 1..n |-> parts[l]]
    BY <1>4
  <2>2. QED
    BY <1>5, <2>1, ByElements
<1>7. CollectSearchOccurrences(lines, query) = IF query = NoQuery THEN <<>> ELSE FlattenSeq(parts)
  BY <1>1, <1>4, Zenon DEF CollectSearchOccurrences
<1>8. PICK found \in Seq(S) : found = CollectSearchOccurrences(lines, query)
  BY <1>6, <1>7, FlattenType, EmptySeq
<1>9. S \subseteq Nat
  BY <1>3
<1>10. found \in Seq(Nat)
  BY <1>9, SeqMonotonic
<1>11. \A p \in 1..Len(found) : found[p] < n
  BY <1>3, ElementOfSeq
<1>12. QED
  BY <1>8, <1>10, <1>11

\* Lines of one text have the same occurrences, and are as many.
LEMMA SameOccurrences ==
  ASSUME NEW lines \in Seq(Line), NEW others \in Seq(Line), Text(lines) = Text(others), NEW query
  PROVE  /\ CollectSearchOccurrences(lines, query) = CollectSearchOccurrences(others, query)
         /\ Len(lines) = Len(others)
<1>1. PICK n \in Nat : n = Len(lines) /\ DOMAIN lines = 1..n
  BY LenProperties
<1>2. PICK k \in Nat : k = Len(others) /\ DOMAIN others = 1..k
  BY LenProperties
<1>3. DOMAIN Text(lines) = 1..n /\ DOMAIN Text(others) = 1..k
  BY <1>1, <1>2 DEF Text
<1>4. 1..n = 1..k
  BY <1>3
<1>5. n = k
  <2>1. n # 0 => n <= k
    <3>1. n # 0 => n \in 1..n
      OBVIOUS
    <3>2. n \in 1..k => n <= k
      OBVIOUS
    <3>3. QED
      BY <1>4, <3>1, <3>2
  <2>2. k # 0 => k <= n
    <3>1. k # 0 => k \in 1..k
      OBVIOUS
    <3>2. k \in 1..n => k <= n
      OBVIOUS
    <3>3. QED
      BY <1>4, <3>1, <3>2
  <2>3. QED
    BY <2>1, <2>2
<1>6. \A l \in 1..n : lines[l].words = others[l].words
  <2> TAKE l \in 1..n
  <2>1. Text(lines)[l] = lines[l].words /\ Text(others)[l] = others[l].words
    BY <1>1, <1>2, <1>5 DEF Text
  <2>2. QED
    BY <2>1
<1> DEFINE Hits1(l) == {p \in DOMAIN lines[l].words : lines[l].words[p] = query}
           Hits2(l) == {p \in DOMAIN others[l].words : others[l].words[p] = query}
           parts1 == [l \in 1..n |-> [h \in 1 .. Cardinality(Hits1(l)) |-> l - 1]]
           parts2 == [l \in 1..n |-> [h \in 1 .. Cardinality(Hits2(l)) |-> l - 1]]
<1>7. parts1 = parts2
  <2>1. \A l \in 1..n : Hits1(l) = Hits2(l)
    BY <1>6
  <2> HIDE DEF Hits1, Hits2
  <2>2. QED
    BY <2>1
<1>8. CollectSearchOccurrences(lines, query) = IF query = NoQuery THEN <<>> ELSE FlattenSeq(parts1)
  BY <1>1, Zenon DEF CollectSearchOccurrences
<1>9. CollectSearchOccurrences(others, query) = IF query = NoQuery THEN <<>> ELSE FlattenSeq(parts2)
  BY <1>2, <1>5, Zenon DEF CollectSearchOccurrences
<1>10. QED
  <2> HIDE DEF parts1, parts2
  <2>1. QED
    BY <1>1, <1>2, <1>5, <1>7, <1>8, <1>9

-----------------------------------------------------------------------------
(* The viewport *)

Tall(rows) == rows \in Nat \ {0}

LEMMA ViewportTall ==
  ASSUME NEW open, NEW lay, lay.height \in Nat, NEW selecting
  PROVE  Tall(ViewportHeight(open, lay, selecting))
<1>1. PICK body \in Nat : body = BodyHeight(lay.height, selecting)
  BY DEF BodyHeight, Larger, FramedFooterRows, FramedChromeHeight
<1>2. PICK dock \in Nat : dock = DockHeight(open, lay, selecting)
  <2>1. DockHeight(open, lay, selecting) = 0 \/ DockHeight(open, lay, selecting) = ContextDockHeight
    BY DEF DockHeight
  <2>2. QED
    BY <2>1 DEF ContextDockHeight
<1>3. Larger(body - dock, 1) \in Nat \ {0}
  BY DEF Larger
<1>4. QED
  BY <1>1, <1>2, <1>3 DEF ViewportHeight, Tall

LEMMA OffsetFits ==
  ASSUME NEW lines \in Seq(Line), NEW rows, Tall(rows), NEW y \in Int
  PROVE  /\ MaxYOffset(lines, rows) \in Nat
         /\ SetYOffset(lines, rows, y) \in 0 .. MaxYOffset(lines, rows)
         /\ y \in 0 .. MaxYOffset(lines, rows) => SetYOffset(lines, rows, y) = y
<1>1. PICK n \in Nat : n = Len(lines)
  BY LenProperties
<1>2. rows \in Nat
  BY DEF Tall
<1>3. PICK top \in Nat : top = MaxYOffset(lines, rows)
  <2>1. MaxYOffset(lines, rows) = Larger(n - rows, 0)
    BY <1>1 DEF MaxYOffset
  <2>2. Larger(n - rows, 0) \in Nat
    BY <1>2 DEF Larger
  <2>3. QED
    BY <2>1, <2>2
<1>4. SetYOffset(lines, rows, y) = Larger(Smaller(y, top), 0)
  BY <1>3 DEF SetYOffset
<1>5. /\ Larger(Smaller(y, top), 0) \in 0 .. top
      /\ y \in 0 .. top => Larger(Smaller(y, top), 0) = y
  BY DEF Larger, Smaller
<1>6. QED
  BY <1>3, <1>4, <1>5

\* The offset of a line on which something was found shows that line.
LEMMA OffsetShows ==
  ASSUME NEW lines \in Seq(Line), NEW rows, Tall(rows), NEW y \in Nat, y < Len(lines)
  PROVE  y \in SetYOffset(lines, rows, y) .. (SetYOffset(lines, rows, y) + rows - 1)
<1>1. PICK n \in Nat : n = Len(lines)
  BY LenProperties
<1>2. rows \in Nat \ {0}
  BY DEF Tall
<1>3. PICK at : at = SetYOffset(lines, rows, y)
  OBVIOUS
<1>4. at = Larger(Smaller(y, Larger(n - rows, 0)), 0)
  BY <1>1, <1>3 DEF SetYOffset, MaxYOffset
<1>5. y \in at .. (at + rows - 1)
  BY <1>1, <1>2, <1>4 DEF Larger, Smaller
<1>6. QED
  BY <1>3, <1>5

-----------------------------------------------------------------------------
(* The inductive invariant of the viewer *)

LayoutsOf(s) == {s.layouts[l] : l \in DOMAIN s.layouts}

\* What is toggled is among what the keys of the setting can reach.
Standing ==
    /\ setting \in Settings /\ layout \in LayoutsOf(setting) /\ opts \in OptionsOf(setting)
    /\ planExpanded \in Positions(setting, "plan")
    /\ selectionMode \in Positions(setting, "selection")
    /\ dockOpen \in BOOLEAN

Showing == shown \in ViewsOf(setting) /\ ContentCurrent

CacheOf(s, cache) ==
    /\ cache \subseteq ViewsOf(s) /\ IsFiniteSet(cache)
    /\ Cardinality(cache) \in 1 .. RenderCacheLimit

\* The viewer kept for reopening has the cache of this one while they share it.
Kepts(s) == [width : Nat, cache : SUBSET ViewsOf(s), shared : BOOLEAN]
Caching ==
    /\ CacheOf(setting, renderCache)
    /\ kept \in Kepts(setting) /\ CacheOf(setting, kept.cache)
    /\ kept.shared => kept.cache = renderCache

Placed == yOffset \in 0 .. MaxYOffset(content.lines, Rows)

Searches ==
    [editing : BOOLEAN, query : Queries \cup {NoQuery}, matches : Seq(Nat), current : Nat,
     applied : Queries \cup {NoQuery}, valid : BOOLEAN]

\* Matches that count as valid are those of the query.
SearchOf(s, lines) ==
    /\ s \in Searches
    /\ s.matches = CollectSearchOccurrences(lines, s.query)
    /\ s.matches # <<>> => s.current < Len(s.matches)
    /\ s.valid => s.applied = s.query

Searching == SearchOf(search, content.lines)

Overlays ==
    [action : Actions \cup {NoAction}, picking : BOOLEAN, pickFor : Actions \cup {NoAction},
     selected : Nat]
Overlaying ==
    /\ overlay \in Overlays
    /\ overlay.picking => /\ overlay.action = NoAction /\ overlay.pickFor \in Actions
                          /\ overlay.selected < AllPlans /\ AllPlans > 1

ViewerInv == Standing /\ Showing /\ Caching /\ Placed /\ Searching /\ Overlaying

LEMMA LayoutIs ==
  ASSUME NEW s \in Settings, NEW lay \in LayoutsOf(s)
  PROVE  lay.width \in Nat /\ lay.height \in Nat
<1>1. s.layouts \in Seq(Layouts)
  BY SettingsAssumption
<1>2. PICK l \in DOMAIN s.layouts : lay = s.layouts[l]
  BY DEF LayoutsOf
<1>3. PICK n \in Nat : n = Len(s.layouts) /\ DOMAIN s.layouts = 1..n
  BY <1>1, LenProperties
<1>4. lay \in Layouts
  BY <1>1, <1>2, <1>3, ElementOfSeq
<1>5. QED
  BY <1>4 DEF Layouts

LEMMA FirstLayout ==
  ASSUME NEW s \in Settings
  PROVE  s.layouts[1] \in LayoutsOf(s)
<1>1. s.layouts \in Seq(Layouts) /\ s.layouts # <<>>
  BY SettingsAssumption
<1>2. PICK n \in Nat : n = Len(s.layouts) /\ DOMAIN s.layouts = 1..n
  BY <1>1, LenProperties
<1>3. n # 0
  BY <1>1, <1>2, EmptySeq
<1>4. 1 \in DOMAIN s.layouts
  BY <1>2, <1>3
<1>5. QED
  BY <1>4 DEF LayoutsOf

LEMMA ViewReached ==
  ASSUME NEW s \in Settings, NEW o \in OptionsOf(s), NEW p \in Positions(s, "plan"),
         NEW c \in Positions(s, "selection"), NEW lay \in LayoutsOf(s)
  PROVE  View(s.session, o, p, c, lay.width) \in ViewsOf(s)
<1>1. PICK l \in DOMAIN s.layouts : lay = s.layouts[l]
  BY DEF LayoutsOf
<1>2. QED
  BY <1>1, AView

LEMMA DefaultReached ==
  ASSUME NEW s \in Settings, NEW lay \in LayoutsOf(s)
  PROVE  /\ DefaultTranscriptOptions \in OptionsOf(s)
         /\ FALSE \in Positions(s, "plan") /\ FALSE \in Positions(s, "selection")
         /\ View(s.session, DefaultTranscriptOptions, FALSE, FALSE, lay.width) \in ViewsOf(s)
<1>1. {} \in SUBSET (s.keys \cap Toggles)
  OBVIOUS
<1>2. DefaultTranscriptOptions = (DefaultTranscriptOptions \ {}) \cup ({} \ DefaultTranscriptOptions)
  OBVIOUS
<1>3. DefaultTranscriptOptions \in OptionsOf(s)
  BY <1>1, <1>2 DEF OptionsOf
<1>4. FALSE \in Positions(s, "plan") /\ FALSE \in Positions(s, "selection")
  BY DEF Positions
<1>5. View(s.session, DefaultTranscriptOptions, FALSE, FALSE, lay.width) \in ViewsOf(s)
  BY <1>3, <1>4, ViewReached
<1>6. QED
  BY <1>3, <1>4, <1>5

\* A toggle of the setting stays among its options.
LEMMA FlipReached ==
  ASSUME NEW s, NEW o \in OptionsOf(s), NEW key \in Toggles, key \in s.keys
  PROVE  Flip(o, key) \in OptionsOf(s)
<1>1. PICK x \in SUBSET (s.keys \cap Toggles) :
            o = (DefaultTranscriptOptions \ x) \cup (x \ DefaultTranscriptOptions)
  BY DEF OptionsOf
<1>2. PICK y : y = IF key \in x THEN x \ {key} ELSE x \cup {key}
  OBVIOUS
<1>3. y \in SUBSET (s.keys \cap Toggles)
  BY <1>2
<1>4. Flip(o, key) = (DefaultTranscriptOptions \ y) \cup (y \ DefaultTranscriptOptions)
  BY <1>1, <1>2 DEF Flip
<1>5. QED
  BY <1>3, <1>4 DEF OptionsOf

LEMMA OptionsAreToggles ==
  ASSUME NEW s, NEW o \in OptionsOf(s)
  PROVE  o \subseteq Toggles
<1>1. PICK x \in SUBSET (s.keys \cap Toggles) :
            o = (DefaultTranscriptOptions \ x) \cup (x \ DefaultTranscriptOptions)
  BY DEF OptionsOf
<1>2. DefaultTranscriptOptions \subseteq Toggles
  BY DEF DefaultTranscriptOptions, Toggles
<1>3. QED
  BY <1>1, <1>2

\* What a cache returns for a view renders as that view, and it has room for it.
LEMMA CacheAnswers ==
  ASSUME NEW s \in Settings, NEW cache \in SUBSET ViewsOf(s), IsFiniteSet(cache),
         Cardinality(cache) \in 0 .. RenderCacheLimit, NEW v \in ViewsOf(s)
  PROVE  /\ Outcome(cache, v) \in ViewsOf(s)
         /\ Rendered(Outcome(cache, v)) = Rendered(v)
         /\ CacheOf(s, StoreRenderCache(cache, v))
<1>1. CASE Hits(cache, v) # {}
  <2>1. PICK c \in Hits(cache, v) : c = Outcome(cache, v)
    BY <1>1 DEF Outcome
  <2>2. c \in cache /\ RenderKey(c) = RenderKey(v)
    BY DEF Hits
  <2>3. Render(c) = Render(v)
    BY <2>2, SameKey
  <2>4. Rendered(c) = Rendered(v)
    BY <2>2, <2>3, RenderedIs
  <2>5. Cardinality(cache) # 0
    BY <2>2, FS_EmptySet
  <2>6. CacheOf(s, cache)
    BY <2>5, SettingsAssumption DEF CacheOf
  <2>7. QED
    BY <1>1, <2>1, <2>2, <2>4, <2>6 DEF StoreRenderCache
<1>2. CASE Hits(cache, v) = {}
  <2>1. Outcome(cache, v) = v
    BY <1>2 DEF Outcome
  <2>2. RenderCacheLimit \in Nat \ {0}
    BY SettingsAssumption
  <2>3. Cardinality(cache) \in Nat
    BY <2>2
  <2>4. CASE Cardinality(cache) >= RenderCacheLimit
    <3>1. StoreRenderCache(cache, v) = {v}
      BY <1>2, <2>4 DEF StoreRenderCache
    <3>2. IsFiniteSet({v}) /\ Cardinality({v}) = 1
      BY FS_Singleton
    <3>3. QED
      BY <2>1, <2>2, <3>1, <3>2 DEF CacheOf
  <2>5. CASE ~(Cardinality(cache) >= RenderCacheLimit)
    <3>1. StoreRenderCache(cache, v) = cache \cup {v}
      BY <1>2, <2>5 DEF StoreRenderCache
    <3>2. /\ IsFiniteSet(cache \cup {v})
          /\ Cardinality(cache \cup {v}) = IF v \in cache THEN Cardinality(cache) ELSE Cardinality(cache) + 1
      BY FS_AddElement
    <3>3. v \notin cache
      BY <1>2 DEF Hits
    <3>4. Cardinality(cache \cup {v}) \in 1 .. RenderCacheLimit
      BY <2>2, <2>3, <2>5, <3>2, <3>3
    <3>5. QED
      BY <2>1, <3>1, <3>2, <3>4 DEF CacheOf
  <2>6. QED
    BY <2>4, <2>5
<1>3. QED
  BY <1>1, <1>2

\* A search collects what is found in the lines.
LEMMA PerformSearchKeeps ==
  ASSUME NEW lines \in Seq(Line), NEW s \in Searches,
         s.valid /\ s.applied = s.query => s.matches = CollectSearchOccurrences(lines, s.query)
  PROVE  /\ SearchOf(PerformSearch(s, lines), lines)
         /\ PerformSearch(s, lines).query = s.query /\ PerformSearch(s, lines).current = 0
<1>1. PICK found \in Seq(Nat) : found = CollectSearchOccurrences(lines, s.query)
  BY OccurrencesAre, LenProperties
<1>2. PICK fresh \in BOOLEAN : fresh = (s.valid /\ s.applied = s.query)
  OBVIOUS
<1>3. PICK matches \in Seq(Nat) :
            /\ matches = IF fresh THEN s.matches ELSE CollectSearchOccurrences(lines, s.query)
            /\ matches = found
  BY <1>1, <1>2
<1>4. PICK t : t = [s EXCEPT !.current = 0, !.matches = matches, !.applied = s.query, !.valid = TRUE]
  OBVIOUS
<1>5. PerformSearch(s, lines) = t
  BY <1>2, <1>3, <1>4 DEF PerformSearch
<1>6. /\ t \in Searches /\ t.matches = found /\ t.query = s.query /\ t.current = 0
      /\ t.applied = s.query
  BY <1>3, <1>4 DEF Searches
<1>7. found # <<>> => 0 < Len(found)
  BY EmptySeq, LenProperties
<1>8. SearchOf(t, lines)
  BY <1>1, <1>6, <1>7 DEF SearchOf
<1>9. QED
  BY <1>5, <1>6, <1>8

\* Matches are line numbers.
LEMMA MatchesFit ==
  ASSUME NEW lines \in Seq(Line), NEW s, SearchOf(s, lines)
  PROVE  \A p \in 1..Len(s.matches) : s.matches[p] \in Nat /\ s.matches[p] < Len(lines)
<1>1. PICK n \in Nat : n = Len(lines)
  BY LenProperties
<1>2. s.matches = CollectSearchOccurrences(lines, s.query)
  BY DEF SearchOf
<1>3. PICK found \in Seq(Nat) : found = s.matches /\ \A p \in 1..Len(found) : found[p] < n
  BY <1>1, <1>2, OccurrencesAre
<1>4. \A p \in 1..Len(found) : found[p] \in Nat
  BY ElementOfSeq
<1>5. QED
  BY <1>1, <1>3, <1>4

LEMMA AfterSearchFits ==
  ASSUME NEW lines \in Seq(Line), NEW s, SearchOf(s, lines), NEW rows, Tall(rows),
         NEW y \in 0 .. MaxYOffset(lines, rows)
  PROVE  AfterSearch(s, lines, rows, y) \in 0 .. MaxYOffset(lines, rows)
<1>1. CASE s.matches = <<>>
  BY <1>1 DEF AfterSearch
<1>2. CASE s.matches # <<>>
  <2>1. s.matches \in Seq(Nat)
    BY DEF SearchOf, Searches
  <2>2. 1 \in 1..Len(s.matches)
    BY <1>2, <2>1, EmptySeq, LenProperties
  <2>3. s.matches[1] \in Int
    BY <2>2, MatchesFit
  <2>4. QED
    BY <1>2, <2>3, OffsetFits DEF AfterSearch
<1>3. QED
  BY <1>1, <1>2

\* A view among those of the setting, drawn.
LEMMA ContentDrawn ==
  ASSUME Standing, Showing
  PROVE  /\ CurrentView \in ViewsOf(setting)
         /\ content = Rendered(CurrentView)
         /\ content.lines \in Seq(Line) /\ Charts(content.map)
<1>1. CurrentView \in ViewsOf(setting)
  BY ViewReached DEF Standing, CurrentView
<1>2. content = Rendered(CurrentView)
  BY DEF Showing, ContentCurrent
<1>3. Drawn(Rendered(CurrentView))
  BY <1>1, RenderedIs DEF Standing
<1>4. QED
  BY <1>1, <1>2, <1>3 DEF Drawn

LEMMA RowsTall ==
  ASSUME Standing
  PROVE  Tall(Rows)
<1>1. layout.height \in Nat
  BY LayoutIs DEF Standing
<1>2. QED
  BY <1>1, ViewportTall DEF Rows

\* What showing a view keeps.
LEMMA ShowViewKeeps ==
  ASSUME ViewerInv, NEW v \in ViewsOf(setting), ShowView(v), setting' = setting
  PROVE  /\ shown' \in ViewsOf(setting) /\ content' = Rendered(v)
         /\ content'.lines \in Seq(Line) /\ Charts(content'.map)
         /\ Caching' /\ Searching'
<1>1. Standing /\ Showing /\ Caching /\ Searching /\ setting \in Settings
  BY DEF ViewerInv, Standing
<1>2. /\ shown' = Outcome(renderCache, v) /\ content' = Rendered(shown')
      /\ renderCache' = StoreRenderCache(renderCache, v) /\ kept' = SharedCache(v)
      /\ SearchAgain
  BY DEF ShowView
<1>3. /\ renderCache \in SUBSET ViewsOf(setting) /\ IsFiniteSet(renderCache)
      /\ Cardinality(renderCache) \in 0 .. RenderCacheLimit
  BY <1>1, SettingsAssumption DEF Caching, CacheOf
<1>4. /\ shown' \in ViewsOf(setting) /\ content' = Rendered(v)
      /\ CacheOf(setting, renderCache')
  BY <1>1, <1>2, <1>3, CacheAnswers
<1>5. content'.lines \in Seq(Line) /\ Charts(content'.map)
  <2>1. Drawn(Rendered(v))
    BY <1>1, RenderedIs
  <2>2. QED
    BY <1>4, <2>1 DEF Drawn
<1>6. Caching'
  <2>1. /\ kept \in Kepts(setting) /\ CacheOf(setting, kept.cache)
        /\ kept.shared => kept.cache = renderCache
    BY <1>1 DEF Caching
  <2>2. CASE ~kept.shared \/ Hits(renderCache, v) # {}
    <3>1. kept' = kept
      BY <1>2, <2>2 DEF SharedCache
    <3>2. Hits(renderCache, v) # {} => renderCache' = renderCache
      BY <1>2 DEF StoreRenderCache
    <3>3. QED
      BY <1>4, <2>1, <2>2, <3>1, <3>2 DEF Caching
  <2>3. CASE kept.shared /\ Hits(renderCache, v) = {}
    <3>1. CASE Cardinality(renderCache) >= RenderCacheLimit
      <4>1. kept' = [kept EXCEPT !.shared = FALSE]
        BY <1>2, <2>3, <3>1 DEF SharedCache
      <4>2. kept' \in Kepts(setting) /\ kept'.cache = kept.cache /\ ~kept'.shared
        BY <2>1, <4>1 DEF Kepts
      <4>3. QED
        BY <1>4, <2>1, <4>2 DEF Caching
    <3>2. CASE ~(Cardinality(renderCache) >= RenderCacheLimit)
      <4>1. kept' = [kept EXCEPT !.cache = renderCache']
        BY <1>2, <2>3, <3>2 DEF SharedCache
      <4>2. renderCache' \in SUBSET ViewsOf(setting)
        BY <1>4 DEF CacheOf
      <4>3. kept' \in Kepts(setting) /\ kept'.cache = renderCache'
        BY <2>1, <4>1, <4>2 DEF Kepts
      <4>4. QED
        BY <1>4, <4>3 DEF Caching
    <3>3. QED
      BY <3>1, <3>2
  <2>4. QED
    BY <2>2, <2>3
<1>7. Searching'
  <2>1. content.lines \in Seq(Line) /\ SearchOf(search, content.lines)
    BY <1>1, ContentDrawn DEF Searching
  <2>2. PICK s : s = IF SameText THEN search ELSE [search EXCEPT !.valid = FALSE]
    OBVIOUS
  <2>3. search' = IF s.query = NoQuery THEN s ELSE PerformSearch(s, content'.lines)
    BY <1>2, <2>2 DEF SearchAgain
  <2>4. search \in Searches
    BY <2>1 DEF SearchOf
  <2>5. /\ s \in Searches /\ s.query = search.query /\ s.matches = search.matches
        /\ s.current = search.current /\ s.applied = search.applied
        /\ s.valid => SameText /\ search.valid
    BY <2>2, <2>4 DEF Searches
  <2>6. s.valid => s.matches = CollectSearchOccurrences(content'.lines, s.query)
    <3>1. HAVE s.valid
    <3>2. Text(content'.lines) = Text(content.lines)
      BY <2>5, <3>1 DEF SameText
    <3>3. CollectSearchOccurrences(content'.lines, s.query)
            = CollectSearchOccurrences(content.lines, s.query)
      BY <1>5, <2>1, <3>2, SameOccurrences
    <3>4. QED
      BY <2>1, <2>5, <3>3 DEF SearchOf
  <2>7. CASE s.query = NoQuery
    <3>1. \A lines : CollectSearchOccurrences(lines, NoQuery) = <<>>
      BY DEF CollectSearchOccurrences
    <3>2. search' = s
      BY <2>3, <2>7
    <3>3. s.matches = <<>>
      BY <2>1, <2>5, <2>7, <3>1 DEF SearchOf
    <3>4. SearchOf(s, content'.lines)
      BY <2>1, <2>5, <2>7, <3>1, <3>3 DEF SearchOf
    <3>5. QED
      BY <3>2, <3>4 DEF Searching
  <2>8. CASE s.query # NoQuery
    <3>1. SearchOf(PerformSearch(s, content'.lines), content'.lines)
      BY <1>5, <2>5, <2>6, PerformSearchKeeps
    <3>2. QED
      BY <2>3, <2>8, <3>1 DEF Searching
  <2>9. QED
    BY <2>7, <2>8
<1>8. QED
  BY <1>4, <1>5, <1>6, <1>7

-----------------------------------------------------------------------------
(* Reading the line map *)

\* The first line at or after a message.
LEMMA LineOfIs ==
  ASSUME NEW map, Charts(map), NEW m \in Nat
  PROVE  /\ LineOf(map, m) \in Nat \/ LineOf(map, m) = -1
         /\ LineOf(map, m) \in Nat => \E a \in map : a.line = LineOf(map, m) /\ a.msg >= m
         /\ \A a \in map : a.msg >= m => LineOf(map, m) \in Nat /\ LineOf(map, m) <= a.line
<1> DEFINE from == {a \in map : a.msg >= m}
           at == {a.line : a \in from}
<1>1. LineOf(map, m) = IF at = {} THEN -1 ELSE Least(at)
  BY Zenon DEF LineOf
<1>2. \A a \in map : a.line \in Nat /\ a.msg \in Nat
  BY DEF Charts, Anchors
<1>3. at \in SUBSET Nat /\ \A l \in at : \E a \in map : a.line = l /\ a.msg >= m
  BY <1>2
<1>4. \A a \in map : a.msg >= m => a.line \in at
  OBVIOUS
<1> HIDE DEF at
<1>5. CASE at = {}
  <2>1. LineOf(map, m) = -1
    BY <1>1, <1>5
  <2>2. \A a \in map : ~(a.msg >= m)
    BY <1>4, <1>5
  <2>3. QED
    BY <2>1, <2>2
<1>6. CASE at # {}
  <2>1. PICK l \in Nat : l = LineOf(map, m) /\ l \in at /\ \A k \in at : l <= k
    BY <1>1, <1>3, <1>6, LeastIs
  <2>2. QED
    BY <1>3, <1>4, <2>1
<1>7. QED
  BY <1>5, <1>6

\* The message on a line is that of the last entry at or before it.
LEMMA MessageAtIs ==
  ASSUME NEW map, Charts(map), NEW line \in Nat
  PROVE  /\ MessageAt(map, line) \in Nat
         /\ MessageAt(map, line) # NoMessage =>
                \E a \in map : a.line <= line /\ a.msg = MessageAt(map, line)
         /\ \A a \in map : a.line <= line =>
                \E b \in map : /\ b.line <= line /\ b.msg = MessageAt(map, line)
                               /\ \A c \in map : c.line <= line => c.line <= b.line
<1> DEFINE before == {a \in map : a.line <= line}
<1>1. MessageAt(map, line) =
        IF before = {} THEN NoMessage ELSE (CHOOSE a \in before : \A b \in before : b.line <= a.line).msg
  BY Zenon DEF MessageAt
<1>2. \A a \in map : a.line \in Nat /\ a.msg \in Nat
  BY DEF Charts, Anchors
<1>3. CASE before = {}
  <2>1. MessageAt(map, line) = NoMessage
    BY <1>1, <1>3
  <2>2. \A a \in map : ~(a.line <= line)
    BY <1>3
  <2>3. QED
    BY <2>1, <2>2 DEF NoMessage
<1>4. CASE before # {}
  <2> DEFINE lines == {a.line : a \in before}
  <2>1. lines \in SUBSET Nat /\ lines # {} /\ \A l \in lines : l <= line
    BY <1>2, <1>4
  <2>2. PICK top : top \in lines /\ \A l \in lines : l <= top
    <3> HIDE DEF lines
    <3>1. QED
      BY <2>1, GreatestIs
  <2>3. PICK a \in before : a.line = top
    BY <2>2
  <2>4. \A b \in before : b.line <= a.line
    BY <2>2, <2>3
  <2>5. PICK c : c = CHOOSE x \in before : \A b \in before : b.line <= x.line
    OBVIOUS
  <2>6. c \in before /\ \A b \in before : b.line <= c.line
    BY <2>3, <2>4, <2>5, Zenon
  <2>7. MessageAt(map, line) = c.msg
    BY <1>1, <1>4, <2>5
  <2>8. QED
    BY <1>2, <2>6, <2>7
<1>5. QED
  BY <1>3, <1>4

\* Entries on one line are of one message.
LEMMA MessageOnLine ==
  ASSUME NEW map, Charts(map), NEW a \in map, NEW line \in Nat, a.line <= line
  PROVE  \E b \in map : /\ b.line <= line /\ b.msg = MessageAt(map, line) /\ a.line <= b.line
                        /\ a.msg <= b.msg
<1>1. PICK b \in map : /\ b.line <= line /\ b.msg = MessageAt(map, line)
                       /\ \A c \in map : c.line <= line => c.line <= b.line
  BY MessageAtIs
<1>2. a.line <= b.line
  BY <1>1
<1>3. a.msg <= b.msg
  BY <1>2 DEF Charts
<1>4. QED
  BY <1>1, <1>2, <1>3

\* Down to the target, the lines are of the message.
Stays(map, line, target) ==
    /\ target \in Nat /\ line <= target
    /\ \A y \in line .. target : MessageAt(map, y) = MessageAt(map, line)

LEMMA ScrollTargetStays ==
  ASSUME NEW map, Charts(map), NEW m \in Nat, NEW delta \in Nat, NEW total \in Nat,
         LineOf(map, m) \in Nat
  PROVE  Stays(map, LineOf(map, m), ScrollTarget(map, m, delta, total))
<1>1. PICK line \in Nat : line = LineOf(map, m)
  OBVIOUS
<1> DEFINE beyond == {a \in map : a.msg > m}
           later == {a.line : a \in beyond}
<1>2. PICK bottom : bottom = (IF later = {} THEN total ELSE Least(later)) - 1
  OBVIOUS
<1>3. ScrollTarget(map, m, delta, total) =
        IF line < 0 \/ MessageAt(map, line) # m THEN line
        ELSE Smaller(line + delta, Larger(bottom, line))
  BY <1>1, <1>2, Zenon DEF ScrollTarget
<1>4. \A a \in map : a.line \in Nat /\ a.msg \in Nat
  BY DEF Charts, Anchors
<1>5. later \in SUBSET Nat /\ \A a \in map : a.msg > m => a.line \in later
  BY <1>4
<1> HIDE DEF later
<1>6. bottom \in Int /\ \A a \in map : a.msg > m => bottom < a.line
  <2>1. CASE later = {}
    <3>1. bottom \in Int
      BY <1>2, <2>1
    <3>2. \A a \in map : ~(a.msg > m)
      BY <1>5, <2>1
    <3>3. QED
      BY <3>1, <3>2
  <2>2. CASE later # {}
    <3>1. PICK first \in Nat : first = Least(later) /\ \A k \in later : first <= k
      BY <1>5, <2>2, LeastIs
    <3>2. bottom = first - 1
      BY <1>2, <2>2, <3>1
    <3>3. \A a \in map : a.msg > m => bottom < a.line
      BY <1>4, <1>5, <3>1, <3>2
    <3>4. QED
      BY <3>2, <3>3
  <2>3. QED
    BY <2>1, <2>2
<1>7. CASE MessageAt(map, line) # m
  <2>1. ScrollTarget(map, m, delta, total) = line
    BY <1>3, <1>7
  <2>2. QED
    BY <1>1, <2>1 DEF Stays
<1>8. CASE MessageAt(map, line) = m
  <2>1. PICK target \in Nat : /\ target = ScrollTarget(map, m, delta, total)
                              /\ target = Smaller(line + delta, Larger(bottom, line))
    <3>1. Smaller(line + delta, Larger(bottom, line)) \in Nat
      BY <1>6 DEF Smaller, Larger
    <3>2. ~(line < 0)
      OBVIOUS
    <3>3. QED
      BY <1>3, <1>8, <3>1, <3>2
  <2>2. line <= target /\ (target = line \/ target <= bottom)
    BY <1>6, <2>1 DEF Smaller, Larger
  <2>3. PICK e \in map : e.line = line /\ e.msg >= m
    BY <1>1, LineOfIs
  <2>4. ASSUME NEW y \in line .. target PROVE MessageAt(map, y) = m
    <3>1. CASE y = line
      BY <1>8, <3>1
    <3>2. CASE y # line
      <4>1. y \in Nat /\ y <= bottom /\ line <= y
        BY <1>6, <2>2, <3>2
      <4>2. PICK b \in map : /\ b.line <= y /\ b.msg = MessageAt(map, y) /\ e.msg <= b.msg
        BY <2>3, <4>1, MessageOnLine
      <4>3. ~(b.msg > m)
        BY <1>4, <1>6, <4>1, <4>2
      <4>4. b.msg \in Nat /\ e.msg \in Nat
        BY <1>4
      <4>5. b.msg = m
        BY <2>3, <4>2, <4>3, <4>4
      <4>6. QED
        BY <4>2, <4>5
    <3>3. QED
      BY <3>1, <3>2
  <2>5. QED
    BY <1>1, <1>8, <2>1, <2>2, <2>4 DEF Stays
<1>9. QED
  BY <1>7, <1>8

-----------------------------------------------------------------------------
(* Rendering around the reader *)

LEMMA OffsetAppliedFits ==
  ASSUME content.lines \in Seq(Line), content'.lines \in Seq(Line), Searching',
         NEW rows, Tall(rows), NEW y \in 0 .. MaxYOffset(content.lines, rows)
  PROVE  /\ OffsetApplied(rows, y) \in 0 .. MaxYOffset(content'.lines, rows)
         /\ search'.query = NoQuery => OffsetApplied(rows, y) = SetYOffset(content'.lines, rows, y)
<1>1. y \in Nat
  BY OffsetFits
<1>2. PICK held : held = IF SameText THEN y ELSE SetYOffset(content'.lines, rows, y)
  OBVIOUS
<1>3. held \in 0 .. MaxYOffset(content'.lines, rows) /\ held = SetYOffset(content'.lines, rows, y)
  <2>1. CASE SameText
    <3>1. Text(content'.lines) = Text(content.lines)
      BY <2>1 DEF SameText
    <3>2. Len(content'.lines) = Len(content.lines)
      BY <3>1, SameOccurrences
    <3>3. MaxYOffset(content'.lines, rows) = MaxYOffset(content.lines, rows)
      BY <3>2 DEF MaxYOffset
    <3>4. y \in 0 .. MaxYOffset(content'.lines, rows)
      BY <3>3
    <3>5. SetYOffset(content'.lines, rows, y) = y
      BY <1>1, <3>4, OffsetFits
    <3>6. QED
      BY <1>2, <2>1, <3>4, <3>5
  <2>2. CASE ~SameText
    BY <1>1, <1>2, <2>2, OffsetFits
  <2>3. QED
    BY <2>1, <2>2
<1>4. OffsetApplied(rows, y) =
        IF search'.query = NoQuery THEN held ELSE AfterSearch(search', content'.lines, rows, held)
  BY <1>2 DEF OffsetApplied
<1>5. SearchOf(search', content'.lines)
  BY DEF Searching
<1>6. AfterSearch(search', content'.lines, rows, held) \in 0 .. MaxYOffset(content'.lines, rows)
  BY <1>3, <1>5, AfterSearchFits
<1>7. QED
  BY <1>3, <1>4, <1>6

LEMMA RenderContentOfKeeps ==
  ASSUME ViewerInv, NEW v \in ViewsOf(setting), setting' = setting, NEW rows, Tall(rows),
         NEW y \in 0 .. MaxYOffset(content.lines, rows), RenderContentOf(v, rows, y)
  PROVE  yOffset' \in 0 .. MaxYOffset(content'.lines, rows)
<1>1. content.lines \in Seq(Line)
  BY ContentDrawn DEF ViewerInv
<1>2. ShowView(v) /\ yOffset' = OffsetApplied(rows, y)
  BY DEF RenderContentOf
<1>3. content'.lines \in Seq(Line) /\ Searching'
  BY <1>2, ShowViewKeeps
<1>4. OffsetApplied(rows, y) \in 0 .. MaxYOffset(content'.lines, rows)
  BY <1>1, <1>3, OffsetAppliedFits
<1>5. QED
  BY <1>2, <1>4

\* What rendering around the reader keeps.
LEMMA PreservingKeeps ==
  ASSUME ViewerInv, NEW v \in ViewsOf(setting), setting' = setting,
         RenderContentPreservingScroll(v), NEW rows, rows = Rows, NEW m, m = Reading
  PROVE  /\ yOffset' \in 0 .. MaxYOffset(content'.lines, rows)
         /\ m # NoMessage /\ LineOf(content'.map, m) >= 0 =>
                \/ MessageAt(content'.map, yOffset') = MessageAt(content'.map, LineOf(content'.map, m))
                \/ yOffset' = MaxYOffset(content'.lines, rows) /\ LineOf(content'.map, m) >= yOffset'
         /\ m = NoMessage /\ search'.query = NoQuery =>
                yOffset' = SetYOffset(content'.lines, rows, yOffset)
<1>1. Standing /\ Showing /\ Placed
  BY DEF ViewerInv
<1>2. content.lines \in Seq(Line) /\ Charts(content.map) /\ Tall(rows)
  BY <1>1, ContentDrawn, RowsTall
<1>3. PICK y \in Nat : y = yOffset /\ y \in 0 .. MaxYOffset(content.lines, rows)
  <2>1. yOffset \in 0 .. MaxYOffset(content.lines, rows)
    BY <1>1 DEF Placed
  <2>2. MaxYOffset(content.lines, rows) \in Nat
    BY <1>2, OffsetFits
  <2>3. QED
    BY <2>1, <2>2
<1>4. PICK delta, target, map, lines :
            /\ delta = yOffset - LineOf(content.map, m)
            /\ map = content'.map /\ lines = content'.lines
            /\ target = ScrollTarget(map, m, delta, Len(lines))
  OBVIOUS
<1>5. /\ ShowView(v)
      /\ yOffset' = IF m = NoMessage \/ target < 0 THEN OffsetApplied(rows, y)
                    ELSE SetYOffset(lines, rows, target)
  BY <1>3, <1>4 DEF RenderContentPreservingScroll, Reading
<1>6. lines \in Seq(Line) /\ Charts(map) /\ Searching'
  BY <1>4, <1>5, ShowViewKeeps
<1>7. /\ OffsetApplied(rows, y) \in 0 .. MaxYOffset(lines, rows)
      /\ search'.query = NoQuery => OffsetApplied(rows, y) = SetYOffset(lines, rows, y)
  BY <1>2, <1>3, <1>4, <1>6, OffsetAppliedFits
<1>8. CASE m = NoMessage
  <2>1. yOffset' = OffsetApplied(rows, y)
    BY <1>5, <1>8
  <2>2. QED
    BY <1>3, <1>4, <1>7, <1>8, <2>1
<1>9. CASE m # NoMessage
  <2>1. m \in Nat /\ \E a \in content.map : a.line <= y /\ a.msg = m
    BY <1>2, <1>3, <1>9, MessageAtIs DEF Reading
  <2>2. delta \in Nat
    <3>1. PICK a \in content.map : a.line <= y /\ a.msg = m
      BY <2>1
    <3>2. a.line \in Nat
      BY <1>2 DEF Charts, Anchors
    <3>3. a.msg >= m
      BY <2>1, <3>1
    <3>4. LineOf(content.map, m) \in Nat /\ LineOf(content.map, m) <= a.line
      BY <1>2, <2>1, <3>3, LineOfIs
    <3>5. QED
      BY <1>3, <1>4, <3>1, <3>2, <3>4
  <2>3. PICK total \in Nat : total = Len(lines)
    BY <1>6, LenProperties
  <2>4. LineOf(map, m) \in Nat \/ LineOf(map, m) = -1
    BY <1>6, <2>1, LineOfIs
  <2>5. CASE LineOf(map, m) = -1
    <3>1. target = -1
      <4>1. LineOf(map, m) < 0
        BY <2>5
      <4>2. ScrollTarget(map, m, delta, total) = LineOf(map, m)
        BY <4>1, Zenon DEF ScrollTarget
      <4>3. QED
        BY <1>4, <2>3, <2>5, <4>2
    <3>2. yOffset' = OffsetApplied(rows, y)
      BY <1>5, <3>1
    <3>3. ~(LineOf(map, m) >= 0)
      BY <2>5
    <3>4. QED
      BY <1>4, <1>7, <1>9, <3>2, <3>3
  <2>6. CASE LineOf(map, m) \in Nat
    <3>1. PICK line \in Nat : line = LineOf(map, m)
      BY <2>6
    <3>2. /\ target \in Nat /\ line <= target
          /\ \A k \in line .. target : MessageAt(map, k) = MessageAt(map, line)
      <4>1. target = ScrollTarget(map, m, delta, total)
        BY <1>4, <2>3
      <4>2. Charts(map) /\ m \in Nat /\ LineOf(map, m) \in Nat
        BY <1>6, <2>1, <2>6
      <4>3. Stays(map, LineOf(map, m), ScrollTarget(map, m, delta, total))
        BY <2>2, <4>2, ScrollTargetStays
      <4>4. QED
        BY <3>1, <4>1, <4>3 DEF Stays
    <3>3. yOffset' = SetYOffset(lines, rows, target)
      <4>1. ~(target < 0)
        BY <3>2
      <4>2. QED
        BY <1>5, <1>9, <4>1
    <3>4. PICK top \in Nat : top = MaxYOffset(lines, rows)
      BY <1>2, <1>6, OffsetFits
    <3>5. yOffset' \in 0 .. top
      <4>1. SetYOffset(lines, rows, target) \in 0 .. MaxYOffset(lines, rows)
        <5>1. target \in Int
          BY <3>2
        <5>2. QED
          BY <1>2, <1>6, <5>1, OffsetFits
      <4>2. QED
        BY <3>3, <3>4, <4>1
    <3>6. yOffset' = IF target <= top THEN target ELSE top
      <4>1. SetYOffset(lines, rows, target) = Larger(Smaller(target, top), 0)
        BY <3>4 DEF SetYOffset
      <4>2. Larger(Smaller(target, top), 0) = IF target <= top THEN target ELSE top
        BY <3>2 DEF Larger, Smaller
      <4>3. QED
        BY <3>3, <4>1, <4>2
    <3>7. \/ MessageAt(map, yOffset') = MessageAt(map, line)
          \/ yOffset' = top /\ line >= yOffset'
      <4>1. CASE line <= yOffset'
        <5>1. yOffset' \in line .. target
          BY <3>2, <3>5, <3>6, <4>1
        <5>2. QED
          BY <3>2, <5>1
      <4>2. CASE ~(line <= yOffset')
        BY <3>2, <3>5, <3>6, <4>2
      <4>3. QED
        BY <4>1, <4>2
    <3>8. QED
      BY <1>4, <1>9, <3>1, <3>4, <3>5, <3>7
  <2>7. QED
    BY <2>4, <2>5, <2>6
<1>10. QED
  BY <1>8, <1>9

-----------------------------------------------------------------------------
(* The steps of the viewer *)

\* What depends on the setting alone, and the rows on what is passed.
LEMMA SettingHolds ==
  ASSUME setting' = setting
  PROVE  /\ AllPlans' = AllPlans /\ Series' = Series
         /\ <<layout, dockOpen, selectionMode>>' = <<layout, dockOpen, selectionMode>> => Rows' = Rows
  BY DEF AllPlans, Session, Series, Rows, ViewportHeight, DockHeight

LEMMA RenderStep ==
  ASSUME ViewerInv, NEW v \in ViewsOf(setting), setting' = setting, ShowView(v),
         Standing', v = CurrentView', yOffset' \in 0 .. MaxYOffset(content'.lines, Rows'),
         overlay' = overlay
  PROVE  ViewerInv'
<1>1. /\ shown' \in ViewsOf(setting) /\ content' = Rendered(v)
      /\ Caching' /\ Searching'
  BY ShowViewKeeps
<1>2. Showing'
  BY <1>1 DEF Showing, ContentCurrent
<1>3. Placed'
  BY DEF Placed
<1>4. Overlaying'
  BY SettingHolds DEF ViewerInv, Overlaying
<1>5. QED
  BY <1>1, <1>2, <1>3, <1>4 DEF ViewerInv

\* A step that renders nothing.
LEMMA QuietStep ==
  ASSUME ViewerInv, Standing', Searching', Overlaying',
         <<setting, opts, planExpanded, selectionMode, layout, shown, content, renderCache, kept>>'
            = <<setting, opts, planExpanded, selectionMode, layout, shown, content, renderCache, kept>>,
         yOffset' \in 0 .. MaxYOffset(content.lines, Rows')
  PROVE  ViewerInv'
<1>1. Showing'
  BY DEF ViewerInv, Showing, ContentCurrent, CurrentView
<1>2. Caching'
  BY DEF ViewerInv, Caching
<1>3. Placed'
  BY DEF Placed
<1>4. QED
  BY <1>1, <1>2, <1>3 DEF ViewerInv

LEMMA ToggleOptionKeeps ==
  ASSUME ViewerInv, NEW key \in Toggles, ToggleOption(key)
  PROVE  ViewerInv'
<1>1. /\ key \in setting.keys /\ opts' = Flip(opts, key)
      /\ <<setting, planExpanded, selectionMode, layout, dockOpen, overlay>>'
            = <<setting, planExpanded, selectionMode, layout, dockOpen, overlay>>
      /\ RenderContentPreservingScroll(
            View(setting.session, opts', planExpanded, selectionMode, layout.width))
  BY DEF ToggleOption, Ready
<1>2. Standing
  BY DEF ViewerInv
<1>3. Standing'
  BY <1>1, <1>2, FlipReached DEF Standing
<1>4. PICK v : v = View(setting.session, opts', planExpanded, selectionMode, layout.width)
  OBVIOUS
<1>5. v = CurrentView'
  BY <1>1, <1>4 DEF CurrentView
<1>6. v \in ViewsOf(setting)
  <2>1. opts' \in OptionsOf(setting)
    BY <1>1, <1>3 DEF Standing
  <2>2. QED
    BY <1>2, <1>4, <2>1, ViewReached DEF Standing
<1>7. RenderContentPreservingScroll(v)
  BY <1>1, <1>4
<1>8. PICK rows, m : rows = Rows /\ m = Reading
  OBVIOUS
<1>9. yOffset' \in 0 .. MaxYOffset(content'.lines, rows)
  BY <1>1, <1>6, <1>7, <1>8, PreservingKeeps
<1>10. Rows' = rows
  BY <1>1, <1>8, SettingHolds
<1>11. ShowView(v)
  BY <1>7 DEF RenderContentPreservingScroll
<1>12. QED
  BY <1>1, <1>3, <1>5, <1>6, <1>9, <1>10, <1>11, RenderStep

LEMMA TogglePlanKeeps ==
  ASSUME ViewerInv, TogglePlan
  PROVE  ViewerInv'
<1>1. /\ "plan" \in setting.keys /\ planExpanded' = ~planExpanded
      /\ <<setting, opts, selectionMode, layout, dockOpen, overlay>>'
            = <<setting, opts, selectionMode, layout, dockOpen, overlay>>
      /\ RenderContentPreservingScroll(
            View(setting.session, opts, planExpanded', selectionMode, layout.width))
  BY DEF TogglePlan, Ready
<1>2. Standing
  BY DEF ViewerInv
<1>3. planExpanded' \in Positions(setting, "plan")
  BY <1>1, <1>2 DEF Positions
<1>4. Standing'
  BY <1>1, <1>2, <1>3 DEF Standing
<1>5. PICK v : v = View(setting.session, opts, planExpanded', selectionMode, layout.width)
  OBVIOUS
<1>6. v = CurrentView'
  BY <1>1, <1>5 DEF CurrentView
<1>7. v \in ViewsOf(setting)
  BY <1>2, <1>3, <1>5, ViewReached DEF Standing
<1>8. RenderContentPreservingScroll(v)
  BY <1>1, <1>5
<1>9. PICK rows, m : rows = Rows /\ m = Reading
  OBVIOUS
<1>10. yOffset' \in 0 .. MaxYOffset(content'.lines, rows)
  BY <1>1, <1>7, <1>8, <1>9, PreservingKeeps
<1>11. Rows' = rows
  BY <1>1, <1>9, SettingHolds
<1>12. ShowView(v)
  BY <1>8 DEF RenderContentPreservingScroll
<1>13. QED
  BY <1>1, <1>4, <1>6, <1>7, <1>10, <1>11, <1>12, RenderStep

LEMMA ToggleSelectionModeKeeps ==
  ASSUME ViewerInv, ToggleSelectionMode
  PROVE  ViewerInv'
<1>1. /\ "selection" \in setting.keys /\ selectionMode' = ~selectionMode
      /\ <<setting, opts, planExpanded, layout, dockOpen, overlay>>'
            = <<setting, opts, planExpanded, layout, dockOpen, overlay>>
  BY DEF ToggleSelectionMode, Ready
<1>2. Standing
  BY DEF ViewerInv
<1>3. selectionMode' \in Positions(setting, "selection")
  BY <1>1, <1>2 DEF Positions
<1>4. Standing'
  BY <1>1, <1>2, <1>3 DEF Standing
<1>5. PICK v, rows, y :
            /\ v = View(setting.session, opts, planExpanded, selectionMode', layout.width)
            /\ rows = ViewportHeight(dockOpen, layout, selectionMode')
            /\ y = SetYOffset(content.lines, rows, yOffset)
  OBVIOUS
<1>6. RenderContentOf(v, rows, y)
  BY <1>5 DEF ToggleSelectionMode
<1>7. v = CurrentView'
  BY <1>1, <1>5 DEF CurrentView
<1>8. v \in ViewsOf(setting)
  BY <1>2, <1>3, <1>5, ViewReached DEF Standing
<1>9. Rows' = rows
  BY <1>1, <1>5 DEF Rows, ViewportHeight, DockHeight, Series
<1>10. Tall(rows)
  BY <1>2, <1>5, LayoutIs, ViewportTall DEF Standing
<1>11. y \in 0 .. MaxYOffset(content.lines, rows)
  <2>1. content.lines \in Seq(Line)
    BY ContentDrawn DEF ViewerInv
  <2>2. yOffset \in Int
    BY DEF ViewerInv, Placed
  <2>3. QED
    BY <1>5, <1>10, <2>1, <2>2, OffsetFits
<1>12. yOffset' \in 0 .. MaxYOffset(content'.lines, rows)
  BY <1>1, <1>6, <1>8, <1>10, <1>11, RenderContentOfKeeps
<1>13. ShowView(v)
  BY <1>6 DEF RenderContentOf
<1>14. QED
  BY <1>1, <1>4, <1>7, <1>8, <1>9, <1>12, <1>13, RenderStep

LEMMA SetSizeKeeps ==
  ASSUME ViewerInv, SetSize
  PROVE  ViewerInv'
<1>1. PICK l, next, screen, at, rows :
        /\ l \in DOMAIN setting.layouts
        /\ next = setting.layouts[l] /\ screen = [layout EXCEPT !.fullscreen = next.fullscreen]
        /\ at = IF screen = layout THEN yOffset
                ELSE SetYOffset(content.lines, ViewportHeight(dockOpen, screen, selectionMode), yOffset)
        /\ rows = ViewportHeight(dockOpen, next, selectionMode)
        /\ layout' = next
        /\ RenderContentOf(View(setting.session, opts, planExpanded, selectionMode, next.width),
                           rows, SetYOffset(content.lines, rows, at))
        /\ <<setting, opts, planExpanded, selectionMode, dockOpen, overlay, pendingGotoTop>>'
              = <<setting, opts, planExpanded, selectionMode, dockOpen, overlay, pendingGotoTop>>
  BY DEF SetSize
<1>2. Standing
  BY DEF ViewerInv
<1>3. next \in LayoutsOf(setting)
  BY <1>1 DEF LayoutsOf
<1>4. Standing'
  BY <1>1, <1>2, <1>3 DEF Standing
<1>5. PICK v, y : /\ v = View(setting.session, opts, planExpanded, selectionMode, next.width)
                  /\ y = SetYOffset(content.lines, rows, at)
  OBVIOUS
<1>6. v = CurrentView'
  BY <1>1, <1>5 DEF CurrentView
<1>7. v \in ViewsOf(setting)
  BY <1>2, <1>3, <1>5, ViewReached DEF Standing
<1>8. Rows' = rows
  BY <1>1 DEF Rows, ViewportHeight, DockHeight, Series
<1>9. next.height \in Nat /\ layout.height \in Nat
  BY <1>2, <1>3, LayoutIs DEF Standing
<1>10. Tall(rows)
  BY <1>1, <1>9, ViewportTall
<1>11. content.lines \in Seq(Line)
  BY ContentDrawn DEF ViewerInv
<1>12. at \in Int
  <2>1. yOffset \in Int
    BY DEF ViewerInv, Placed
  <2>2. screen.height = layout.height
    BY <1>1
  <2>3. Tall(ViewportHeight(dockOpen, screen, selectionMode))
    BY <1>9, <2>2, ViewportTall
  <2>4. PICK tall : tall = ViewportHeight(dockOpen, screen, selectionMode) /\ Tall(tall)
    BY <2>3
  <2>5. SetYOffset(content.lines, tall, yOffset) \in Int
    BY <1>11, <2>1, <2>4, OffsetFits
  <2>6. QED
    BY <1>1, <2>1, <2>4, <2>5
<1>13. y \in 0 .. MaxYOffset(content.lines, rows)
  BY <1>5, <1>10, <1>11, <1>12, OffsetFits
<1>14. RenderContentOf(v, rows, y)
  BY <1>1, <1>5
<1>15. yOffset' \in 0 .. MaxYOffset(content'.lines, rows)
  BY <1>1, <1>7, <1>10, <1>13, <1>14, RenderContentOfKeeps
<1>16. ShowView(v)
  BY <1>14 DEF RenderContentOf
<1>17. QED
  BY <1>1, <1>4, <1>6, <1>7, <1>8, <1>15, <1>16, RenderStep

\* A search that was ended, of any lines.
LEMMA NoSearchFits ==
  ASSUME NEW lines
  PROVE  SearchOf(NoSearch, lines)
<1>1. NoSearch \in Searches
  BY EmptySeq DEF NoSearch, Searches
<1>2. CollectSearchOccurrences(lines, NoQuery) = <<>>
  BY DEF CollectSearchOccurrences
<1>3. QED
  BY <1>1, <1>2 DEF SearchOf, NoSearch

LEMMA NoOverlayFits == NoOverlay \in Overlays /\ ~NoOverlay.picking
  BY DEF NoOverlay, Overlays

\* A viewer just opened, in a layout of its setting.
LEMMA OpenedRight ==
  ASSUME NEW s \in Settings, NEW lay \in LayoutsOf(s), NEW v, NEW drawn,
         v = View(s.session, DefaultTranscriptOptions, FALSE, FALSE, lay.width),
         drawn = Rendered(v)
  PROVE  /\ v \in ViewsOf(s) /\ drawn.lines \in Seq(Line)
         /\ \A rows : Tall(rows) => 0 \in 0 .. MaxYOffset(drawn.lines, rows)
<1>1. v \in ViewsOf(s)
  BY DefaultReached
<1>2. drawn.lines \in Seq(Line)
  BY <1>1, RenderedIs DEF Drawn
<1>3. \A rows : Tall(rows) => 0 \in 0 .. MaxYOffset(drawn.lines, rows)
  <2> TAKE rows
  <2>1. HAVE Tall(rows)
  <2>2. 0 \in Int
    OBVIOUS
  <2>3. PICK top \in Nat : top = MaxYOffset(drawn.lines, rows)
    BY <1>2, <2>1, <2>2, OffsetFits
  <2>4. 0 \in 0 .. top
    OBVIOUS
  <2>5. QED
    BY <2>3, <2>4
<1>4. QED
  BY <1>1, <1>2, <1>3

LEMMA ReopenKeeps ==
  ASSUME ViewerInv, Reopen
  PROVE  ViewerInv'
<1>layout. PICK lay \in {layout, setting.layouts[1]} :
        LET v == OpeningView(lay.width)
            cache == IF kept.width = lay.width THEN kept.cache ELSE {}
        IN  /\ layout' = lay
            /\ shown' = Outcome(cache, v)
            /\ content' = Rendered(shown')
            /\ renderCache' = StoreRenderCache(cache, v)
            /\ kept' = [width |-> lay.width, cache |-> StoreRenderCache(cache, v), shared |-> TRUE]
            /\ opts' = DefaultTranscriptOptions
            /\ planExpanded' = FALSE /\ selectionMode' = FALSE /\ dockOpen' = FALSE
            /\ yOffset' = 0
            /\ search' = NoSearch /\ overlay' = NoOverlay
            /\ setting' = setting
  BY Zenon DEF Reopen
<1>opened. PICK v, cache : /\ v = OpeningView(lay.width)
                           /\ cache = IF kept.width = lay.width THEN kept.cache ELSE {}
  OBVIOUS
<1>1. /\ lay \in {layout, setting.layouts[1]}
      /\ v = OpeningView(lay.width)
      /\ cache = IF kept.width = lay.width THEN kept.cache ELSE {}
      /\ layout' = lay
      /\ shown' = Outcome(cache, v)
      /\ content' = Rendered(shown')
      /\ renderCache' = StoreRenderCache(cache, v)
      /\ kept' = [width |-> lay.width, cache |-> StoreRenderCache(cache, v), shared |-> TRUE]
      /\ opts' = DefaultTranscriptOptions
      /\ planExpanded' = FALSE /\ selectionMode' = FALSE /\ dockOpen' = FALSE
      /\ yOffset' = 0
      /\ search' = NoSearch /\ overlay' = NoOverlay
      /\ setting' = setting
  BY <1>layout, <1>opened
<1>2. Standing /\ Caching /\ setting \in Settings
  BY DEF ViewerInv, Standing
<1>3. lay \in LayoutsOf(setting)
  BY <1>1, <1>2, FirstLayout DEF Standing
<1>4. Standing'
  BY <1>1, <1>2, <1>3, DefaultReached DEF Standing
<1>5. v = View(setting.session, DefaultTranscriptOptions, FALSE, FALSE, lay.width)
  BY <1>1 DEF OpeningView
<1>6. PICK drawn : drawn = Rendered(v)
  OBVIOUS
<1>7. /\ v \in ViewsOf(setting)
      /\ \A rows : Tall(rows) => 0 \in 0 .. MaxYOffset(drawn.lines, rows)
  BY <1>2, <1>3, <1>5, <1>6, OpenedRight
<1>8. /\ cache \in SUBSET ViewsOf(setting) /\ IsFiniteSet(cache)
      /\ Cardinality(cache) \in 0 .. RenderCacheLimit
  <2>1. RenderCacheLimit \in Nat
    BY SettingsAssumption
  <2>2. CacheOf(setting, kept.cache)
    BY <1>2 DEF Caching
  <2>3. QED
    BY <1>1, <2>1, <2>2, FS_EmptySet DEF CacheOf
<1>9. /\ shown' \in ViewsOf(setting) /\ content' = drawn
      /\ CacheOf(setting, renderCache')
  BY <1>1, <1>2, <1>6, <1>7, <1>8, CacheAnswers
<1>10. Showing'
  <2>1. v = CurrentView'
    BY <1>1, <1>5 DEF CurrentView
  <2>2. QED
    BY <1>1, <1>6, <1>9, <2>1 DEF Showing, ContentCurrent
<1>11. Caching'
  <2>1. lay.width \in Nat
    BY <1>2, <1>3, LayoutIs
  <2>2. kept' \in Kepts(setting) /\ kept'.cache = renderCache'
    BY <1>1, <1>9, <2>1 DEF Kepts, CacheOf
  <2>3. QED
    BY <1>1, <1>9, <2>2 DEF Caching
<1>12. Placed'
  <2>1. PICK rows : rows = Rows'
    OBVIOUS
  <2>2. Tall(rows)
    <3>1. rows = ViewportHeight(dockOpen', layout', selectionMode')
      BY <1>1, <2>1 DEF Rows, ViewportHeight, DockHeight, Series
    <3>2. lay.height \in Nat
      BY <1>2, <1>3, LayoutIs
    <3>3. QED
      BY <1>1, <3>1, <3>2, ViewportTall
  <2>3. QED
    BY <1>1, <1>7, <1>9, <2>1, <2>2 DEF Placed
<1>13. Searching'
  BY <1>1, NoSearchFits DEF Searching
<1>14. Overlaying'
  BY <1>1, NoOverlayFits DEF Overlaying
<1>15. QED
  BY <1>4, <1>10, <1>11, <1>12, <1>13, <1>14 DEF ViewerInv

LEMMA InitRight ==
  ASSUME ViewerInit
  PROVE  ViewerInv
<1>1. setting \in Settings /\ layout = setting.layouts[1]
  BY DEF ViewerInit
<1>2. layout \in LayoutsOf(setting)
  BY <1>1, FirstLayout
<1>3. Standing
  BY <1>1, <1>2, DefaultReached DEF ViewerInit, Standing
<1>4. PICK v : v = View(setting.session, DefaultTranscriptOptions, FALSE, FALSE, layout.width)
  OBVIOUS
<1>5. shown = v /\ content = Rendered(v) /\ renderCache = {v}
      /\ kept = [width |-> layout.width, cache |-> {v}, shared |-> TRUE]
  BY <1>4 DEF ViewerInit, OpeningView
<1>6. /\ v \in ViewsOf(setting)
      /\ \A rows : Tall(rows) => 0 \in 0 .. MaxYOffset(content.lines, rows)
  BY <1>1, <1>2, <1>4, <1>5, OpenedRight
<1>7. Showing
  BY <1>4, <1>5, <1>6 DEF Showing, ContentCurrent, CurrentView, ViewerInit
<1>8. Caching
  <2>1. CacheOf(setting, {v})
    <3>1. IsFiniteSet({v}) /\ Cardinality({v}) = 1
      BY FS_Singleton
    <3>2. RenderCacheLimit \in Nat \ {0}
      BY SettingsAssumption
    <3>3. 1 \in 1 .. RenderCacheLimit
      BY <3>2
    <3>4. QED
      BY <1>6, <3>1, <3>3 DEF CacheOf
  <2>2. layout.width \in Nat
    BY <1>1, <1>2, LayoutIs
  <2>3. {v} \in SUBSET ViewsOf(setting)
    BY <1>6
  <2>4. kept \in Kepts(setting) /\ kept.cache = {v}
    BY <1>5, <2>2, <2>3 DEF Kepts
  <2>5. QED
    BY <1>5, <2>1, <2>4 DEF Caching
<1>9. Placed
  <2>1. Tall(Rows)
    BY <1>3, RowsTall
  <2>2. QED
    BY <1>6, <2>1 DEF Placed, ViewerInit
<1>10. Searching
  BY NoSearchFits DEF Searching, ViewerInit
<1>11. Overlaying
  BY NoOverlayFits DEF Overlaying, ViewerInit
<1>12. QED
  BY <1>3, <1>7, <1>8, <1>9, <1>10, <1>11 DEF ViewerInv

\* Where the viewport goes when it is sent somewhere.
LEMMA ScrollFits ==
  ASSUME ViewerInv, NEW y \in Int
  PROVE  Scroll(y) \in 0 .. MaxYOffset(content.lines, Rows)
<1>1. content.lines \in Seq(Line) /\ Tall(Rows)
  BY ContentDrawn, RowsTall DEF ViewerInv
<1>2. PICK rows : rows = Rows /\ Tall(rows)
  BY <1>1
<1>3. SetYOffset(content.lines, rows, y) \in 0 .. MaxYOffset(content.lines, rows)
  BY <1>1, <1>2, OffsetFits
<1>4. QED
  BY <1>2, <1>3 DEF Scroll

LEMMA ToggleDockKeeps ==
  ASSUME ViewerInv, ToggleDock
  PROVE  ViewerInv'
<1>1. /\ dockOpen' = ~dockOpen
      /\ yOffset' = SetYOffset(content.lines, ViewportHeight(dockOpen', layout, selectionMode), yOffset)
      /\ <<setting, opts, planExpanded, selectionMode, layout, shown, content, renderCache, kept>>'
            = <<setting, opts, planExpanded, selectionMode, layout, shown, content, renderCache, kept>>
      /\ search' = search /\ overlay' = overlay
  BY DEF ToggleDock
<1>2. PICK rows : rows = ViewportHeight(dockOpen', layout, selectionMode)
  OBVIOUS
<1>3. Rows' = rows
  BY <1>1, <1>2 DEF Rows, ViewportHeight, DockHeight, Series
<1>4. Tall(rows)
  BY <1>2, LayoutIs, ViewportTall DEF ViewerInv, Standing
<1>5. content.lines \in Seq(Line) /\ yOffset \in Int
  BY ContentDrawn DEF ViewerInv, Placed
<1>6. yOffset' \in 0 .. MaxYOffset(content.lines, rows)
  BY <1>1, <1>2, <1>4, <1>5, OffsetFits
<1>7. Standing'
  BY <1>1 DEF ViewerInv, Standing
<1>8. Searching'
  BY <1>1 DEF ViewerInv, Searching
<1>9. Overlaying'
  BY <1>1, SettingHolds DEF ViewerInv, Overlaying
<1>10. QED
  BY <1>1, <1>3, <1>6, <1>7, <1>8, <1>9, QuietStep

\* Steps that leave everything but the offset.
LEMMA OffsetStep ==
  ASSUME ViewerInv, yOffset' \in 0 .. MaxYOffset(content.lines, Rows),
         <<setting, opts, planExpanded, selectionMode, layout, dockOpen, shown, content,
           renderCache, search, overlay, kept>>'
            = <<setting, opts, planExpanded, selectionMode, layout, dockOpen, shown, content,
                renderCache, search, overlay, kept>>
  PROVE  ViewerInv'
<1>1. Rows' = Rows
  BY SettingHolds
<1>2. Standing'
  BY DEF ViewerInv, Standing
<1>3. Searching'
  BY DEF ViewerInv, Searching
<1>4. Overlaying'
  BY SettingHolds DEF ViewerInv, Overlaying
<1>5. QED
  BY <1>1, <1>2, <1>3, <1>4, QuietStep

LEMMA StepsOfSeries ==
  ASSUME setting \in Settings
  PROVE  \A k \in DOMAIN Series.steps : Series.steps[k].msg \in Nat
<1>1. PICK n \in Nat : n = Len(Sessions) /\ DOMAIN Sessions = 1..n
  BY SessionsAssumption, LenProperties
<1>2. PICK all : all = [i \in 1..n |-> NewContextSeries(Transcripts[i].conv, Transcripts[i].messages)]
  OBVIOUS
<1>3. Eager(all) = all
  <2>1. all = [i \in 1..n |-> all[i]]
    BY <1>2
  <2>2. QED
    BY <2>1, EagerIs
<1>4. AllSeries = all
  BY <1>1, <1>2, <1>3, Zenon DEF AllSeries
<1>5. setting.session \in 1..n
  BY <1>1, SettingsAssumption
<1>6. PICK messages, conv :
        /\ messages \in Seq(Messages)
        /\ messages = Transcripts[setting.session].messages
        /\ conv = Transcripts[setting.session].conv
  BY <1>1, <1>5, TranscriptsAre
<1>7. Series = NewContextSeries(conv, messages)
  BY <1>2, <1>4, <1>5, <1>6 DEF Series
<1>8. PICK P : Series.steps \in Seq(P) /\ \A s \in P : s.msg \in Nat
  BY <1>6, <1>7, SeriesSteps
<1>9. PICK k \in Nat : k = Len(Series.steps) /\ DOMAIN Series.steps = 1..k
  BY <1>8, LenProperties
<1>10. QED
  BY <1>8, <1>9, ElementOfSeq

LEMMA JumpToNotableKeeps ==
  ASSUME ViewerInv, JumpToNotable
  PROVE  ViewerInv'
<1>1. PICK lines, later, earlier :
        /\ lines = NotableLines(Series, content.map)
        /\ later = {l \in lines : l > yOffset} /\ earlier = {l \in lines : l < yOffset}
        /\ \/ later # {} /\ yOffset' = Scroll(Least(later))
           \/ earlier # {} /\ yOffset' = Scroll(Greatest(earlier))
        /\ <<setting, opts, planExpanded, selectionMode, layout, dockOpen, shown, content,
             renderCache, search, overlay, kept>>'
              = <<setting, opts, planExpanded, selectionMode, layout, dockOpen, shown, content,
                  renderCache, search, overlay, kept>>
  BY DEF JumpToNotable
<1>2. yOffset \in Nat
  <2>1. Tall(Rows) /\ content.lines \in Seq(Line) /\ 0 \in Int
    BY ContentDrawn, RowsTall DEF ViewerInv
  <2>2. MaxYOffset(content.lines, Rows) \in Nat
    BY <2>1, OffsetFits
  <2>3. QED
    BY <2>2 DEF ViewerInv, Placed
<1>3. lines \in SUBSET Nat
  <2>1. Charts(content.map)
    BY ContentDrawn DEF ViewerInv
  <2>2. \A k \in DOMAIN Series.steps : Series.steps[k].msg \in Nat
    BY StepsOfSeries DEF ViewerInv, Standing
  <2>3. \A k \in DOMAIN Series.steps :
            \/ LineOf(content.map, Series.steps[k].msg) \in Nat
            \/ LineOf(content.map, Series.steps[k].msg) = -1
    BY <2>1, <2>2, LineOfIs
  <2>4. QED
    BY <1>1, <2>3 DEF NotableLines
<1>4. CASE later # {} /\ yOffset' = Scroll(Least(later))
  <2>1. later \in SUBSET Nat
    BY <1>1, <1>3
  <2>2. Least(later) \in Int
    <3>1. Least(later) \in later
      BY <1>4, <2>1, LeastIs
    <3>2. \A x \in later : x \in Int
      BY <2>1
    <3>3. QED
      BY <3>1, <3>2
  <2>3. yOffset' \in 0 .. MaxYOffset(content.lines, Rows)
    BY <1>4, <2>2, ScrollFits
  <2>4. QED
    BY <1>1, <2>3, OffsetStep
<1>5. CASE earlier # {} /\ yOffset' = Scroll(Greatest(earlier))
  <2>1. earlier \in SUBSET Nat /\ \A k \in earlier : k <= yOffset
    BY <1>1, <1>2, <1>3
  <2>2. PICK y \in Nat : y = yOffset
    BY <1>2
  <2>3. Greatest(earlier) \in Int
    <3>1. \A k \in earlier : k <= y
      BY <2>1, <2>2
    <3>2. Greatest(earlier) \in earlier
      BY <1>5, <2>1, <3>1, GreatestIs
    <3>3. \A x \in earlier : x \in Int
      BY <2>1
    <3>4. QED
      BY <3>2, <3>3
  <2>4. yOffset' \in 0 .. MaxYOffset(content.lines, Rows)
    BY <1>5, <2>3, ScrollFits
  <2>5. QED
    BY <1>1, <2>4, OffsetStep
<1>6. QED
  BY <1>1, <1>4, <1>5

LEMMA ScrollLinesKeeps ==
  ASSUME ViewerInv, ScrollLines
  PROVE  ViewerInv'
<1>1. /\ yOffset' \in {Scroll(yOffset - 1), Scroll(yOffset + 1), Scroll(Len(content.lines))}
      /\ <<setting, opts, planExpanded, selectionMode, layout, dockOpen, shown, content,
           renderCache, search, overlay, kept>>'
            = <<setting, opts, planExpanded, selectionMode, layout, dockOpen, shown, content,
                renderCache, search, overlay, kept>>
  BY DEF ScrollLines
<1>2. yOffset - 1 \in Int /\ yOffset + 1 \in Int
  BY DEF ViewerInv, Placed
<1>3. Len(content.lines) \in Int
  BY ContentDrawn, LenProperties DEF ViewerInv
<1>4. yOffset' \in 0 .. MaxYOffset(content.lines, Rows)
  BY <1>1, <1>2, <1>3, ScrollFits
<1>5. QED
  BY <1>1, <1>4, OffsetStep

LEMMA GotoTopKeeps ==
  ASSUME ViewerInv, GotoTop
  PROVE  ViewerInv'
<1>1. /\ yOffset' = IF pendingGotoTop THEN 0 ELSE yOffset
      /\ <<setting, opts, planExpanded, selectionMode, layout, dockOpen, shown, content,
           renderCache, search, overlay, kept>>'
            = <<setting, opts, planExpanded, selectionMode, layout, dockOpen, shown, content,
                renderCache, search, overlay, kept>>
  BY DEF GotoTop
<1>2. PICK top \in Nat : top = MaxYOffset(content.lines, Rows)
  <2>1. Tall(Rows) /\ content.lines \in Seq(Line) /\ 0 \in Int
    BY ContentDrawn, RowsTall DEF ViewerInv
  <2>2. QED
    BY <2>1, OffsetFits
<1>3. yOffset \in 0 .. top
  BY <1>2 DEF ViewerInv, Placed
<1>4. yOffset' \in 0 .. top
  BY <1>1, <1>3
<1>5. QED
  BY <1>1, <1>2, <1>4, OffsetStep

\* Steps that leave everything but the search and the offset.
LEMMA SearchStep ==
  ASSUME ViewerInv, yOffset' \in 0 .. MaxYOffset(content.lines, Rows),
         SearchOf(search', content.lines),
         <<setting, opts, planExpanded, selectionMode, layout, dockOpen, shown, content,
           renderCache, overlay, kept>>'
            = <<setting, opts, planExpanded, selectionMode, layout, dockOpen, shown, content,
                renderCache, overlay, kept>>
  PROVE  ViewerInv'
<1>1. Rows' = Rows
  BY SettingHolds
<1>2. Standing'
  BY DEF ViewerInv, Standing
<1>3. Searching'
  BY DEF Searching
<1>4. Overlaying'
  BY SettingHolds DEF ViewerInv, Overlaying
<1>5. QED
  BY <1>1, <1>2, <1>3, <1>4, QuietStep

LEMMA EditSearchKeeps ==
  ASSUME ViewerInv, EditSearch
  PROVE  ViewerInv'
<1>1. /\ search' = [search EXCEPT !.editing = TRUE] /\ yOffset' = yOffset
      /\ <<setting, opts, planExpanded, selectionMode, layout, dockOpen, shown, content,
           renderCache, overlay, kept>>'
            = <<setting, opts, planExpanded, selectionMode, layout, dockOpen, shown, content,
                renderCache, overlay, kept>>
  BY DEF EditSearch
<1>2. SearchOf(search, content.lines) /\ yOffset \in 0 .. MaxYOffset(content.lines, Rows)
  BY DEF ViewerInv, Searching, Placed
<1>3. SearchOf(search', content.lines)
  <2>1. search \in Searches
    BY <1>2 DEF SearchOf
  <2>2. /\ search' \in Searches /\ search'.query = search.query /\ search'.matches = search.matches
        /\ search'.current = search.current /\ search'.applied = search.applied
        /\ search'.valid = search.valid
    BY <1>1, <2>1 DEF Searches
  <2>3. QED
    BY <1>2, <2>2 DEF SearchOf
<1>4. QED
  BY <1>1, <1>2, <1>3, SearchStep

\* Searching for a query, from what was searched before.
LEMMA EnteredSearch ==
  ASSUME NEW lines \in Seq(Line), NEW s, SearchOf(s, lines), NEW query \in Queries \cup {NoQuery},
         NEW t, t = PerformSearch([s EXCEPT !.editing = FALSE, !.query = query], lines)
  PROVE  SearchOf(t, lines) /\ t.query = query /\ t.current = 0
<1>1. s \in Searches
  BY DEF SearchOf
<1>2. PICK u : u = [s EXCEPT !.editing = FALSE, !.query = query]
  OBVIOUS
<1>3. /\ u \in Searches /\ u.query = query /\ u.matches = s.matches /\ u.applied = s.applied
      /\ u.valid = s.valid
  BY <1>1, <1>2 DEF Searches
<1>4. u.valid /\ u.applied = u.query => u.matches = CollectSearchOccurrences(lines, u.query)
  BY <1>3 DEF SearchOf
<1>5. /\ SearchOf(PerformSearch(u, lines), lines)
      /\ PerformSearch(u, lines).query = u.query /\ PerformSearch(u, lines).current = 0
  BY <1>3, <1>4, PerformSearchKeeps
<1>6. QED
  BY <1>2, <1>3, <1>5

LEMMA EnterSearchKeeps ==
  ASSUME ViewerInv, NEW query \in Queries \cup {NoQuery}, EnterSearch(query)
  PROVE  ViewerInv'
<1>1. /\ search' = PerformSearch([search EXCEPT !.editing = FALSE, !.query = query], content.lines)
      /\ yOffset' = AfterSearch(search', content.lines, Rows, yOffset)
      /\ <<setting, opts, planExpanded, selectionMode, layout, dockOpen, shown, content,
           renderCache, overlay, kept>>'
            = <<setting, opts, planExpanded, selectionMode, layout, dockOpen, shown, content,
                renderCache, overlay, kept>>
  BY DEF EnterSearch
<1>2. PICK rows : rows = Rows /\ Tall(rows)
  BY RowsTall DEF ViewerInv
<1>3. /\ SearchOf(search, content.lines) /\ content.lines \in Seq(Line)
      /\ yOffset \in 0 .. MaxYOffset(content.lines, rows)
  BY <1>2, ContentDrawn DEF ViewerInv, Searching, Placed
<1>4. SearchOf(search', content.lines)
  <2>1. PICK t : t = PerformSearch([search EXCEPT !.editing = FALSE, !.query = query], content.lines)
    OBVIOUS
  <2>2. PICK s, lines : /\ s = search /\ lines = content.lines
                        /\ lines \in Seq(Line) /\ SearchOf(s, lines)
    BY <1>3
  <2>3. t = PerformSearch([s EXCEPT !.editing = FALSE, !.query = query], lines)
    BY <2>1, <2>2
  <2>4. SearchOf(t, lines)
    BY <2>2, <2>3, EnteredSearch
  <2>5. QED
    BY <1>1, <2>1, <2>2, <2>4
<1>5. AfterSearch(search', content.lines, rows, yOffset) \in 0 .. MaxYOffset(content.lines, rows)
  BY <1>2, <1>3, <1>4, AfterSearchFits
<1>6. QED
  BY <1>1, <1>2, <1>4, <1>5, SearchStep

LEMMA ClearSearchKeeps ==
  ASSUME ViewerInv, ClearSearch
  PROVE  ViewerInv'
<1>1. /\ search' = NoSearch /\ yOffset' = yOffset
      /\ <<setting, opts, planExpanded, selectionMode, layout, dockOpen, shown, content,
           renderCache, overlay, kept>>'
            = <<setting, opts, planExpanded, selectionMode, layout, dockOpen, shown, content,
                renderCache, overlay, kept>>
  BY DEF ClearSearch
<1>2. yOffset \in 0 .. MaxYOffset(content.lines, Rows)
  BY DEF ViewerInv, Placed
<1>3. SearchOf(search', content.lines)
  BY <1>1, NoSearchFits
<1>4. QED
  BY <1>1, <1>2, <1>3, SearchStep

\* Going from match to match, in a ring.
LEMMA JumpedSearch ==
  ASSUME NEW lines, NEW s, SearchOf(s, lines), s.matches # <<>>, NEW t,
         NEW n, n = Len(s.matches), NEW delta \in {1, n - 1},
         t = [s EXCEPT !.current = (@ + delta) % n]
  PROVE  SearchOf(t, lines) /\ t.current + 1 \in 1..Len(t.matches)
<1>1. s \in Searches /\ s.matches \in Seq(Nat) /\ s.current \in Nat
  BY DEF SearchOf, Searches
<1>2. n \in Nat \ {0}
  BY <1>1, EmptySeq, LenProperties
<1>3. PICK next : next = (s.current + delta) % n
  OBVIOUS
<1>4. next \in 0 .. (n - 1)
  BY <1>1, <1>2, <1>3
<1>5. t = [s EXCEPT !.current = next]
  BY <1>3
<1>6. /\ t \in Searches /\ t.query = s.query /\ t.matches = s.matches /\ t.current = next
      /\ t.applied = s.applied /\ t.valid = s.valid
  BY <1>1, <1>4, <1>5, SMTT(30) DEF Searches
<1>7. QED
  BY <1>2, <1>4, <1>6 DEF SearchOf

LEMMA JumpToMatchKeeps ==
  ASSUME ViewerInv, JumpToMatch
  PROVE  /\ ViewerInv'
         /\ SearchOf(search', content.lines) /\ search'.current + 1 \in 1..Len(search'.matches)
<1>1. /\ search.matches # <<>>
      /\ yOffset' = Scroll(search'.matches[search'.current + 1])
      /\ <<setting, opts, planExpanded, selectionMode, layout, dockOpen, shown, content,
           renderCache, overlay, kept>>'
            = <<setting, opts, planExpanded, selectionMode, layout, dockOpen, shown, content,
                renderCache, overlay, kept>>
  BY DEF JumpToMatch
<1>2. PICK n, delta : /\ n = Len(search.matches) /\ delta \in {1, n - 1}
                      /\ search' = [search EXCEPT !.current = (@ + delta) % n]
  BY DEF JumpToMatch
<1>3. SearchOf(search, content.lines) /\ content.lines \in Seq(Line)
  BY ContentDrawn DEF ViewerInv, Searching
<1>4. SearchOf(search', content.lines) /\ search'.current + 1 \in 1..Len(search'.matches)
  BY <1>1, <1>2, <1>3, JumpedSearch
<1>5. search'.matches[search'.current + 1] \in Int
  BY <1>3, <1>4, MatchesFit
<1>6. yOffset' \in 0 .. MaxYOffset(content.lines, Rows)
  BY <1>1, <1>5, ScrollFits
<1>7. QED
  BY <1>1, <1>4, <1>6, SearchStep

\* Steps that leave everything but the overlay.
LEMMA OverlayStep ==
  ASSUME ViewerInv, NEW o, Overlaid(o), o \in Overlays,
         o.picking => /\ o.action = NoAction /\ o.pickFor \in Actions
                      /\ o.selected < AllPlans /\ AllPlans > 1
  PROVE  ViewerInv'
<1>1. /\ overlay' = o
      /\ <<setting, opts, planExpanded, selectionMode, layout, dockOpen, shown, content, yOffset,
           renderCache, search, kept>>'
            = <<setting, opts, planExpanded, selectionMode, layout, dockOpen, shown, content,
                yOffset, renderCache, search, kept>>
  BY DEF Overlaid
<1>2. yOffset' \in 0 .. MaxYOffset(content.lines, Rows') /\ Standing'
  BY <1>1, SettingHolds DEF ViewerInv, Placed, Standing
<1>3. Searching'
  BY <1>1 DEF ViewerInv, Searching
<1>4. Overlaying'
  BY <1>1, SettingHolds DEF Overlaying
<1>5. QED
  BY <1>1, <1>2, <1>3, <1>4, QuietStep

LEMMA StartActionModeKeeps ==
  ASSUME ViewerInv, NEW action \in Actions, StartActionMode(action)
  PROVE  ViewerInv'
<1>1. PICK o : o = [NoOverlay EXCEPT !.action = action]
  OBVIOUS
<1>2. Overlaid(o)
  BY <1>1 DEF StartActionMode
<1>3. o \in Overlays /\ ~o.picking
  BY <1>1, NoOverlayFits DEF Overlays
<1>4. QED
  BY <1>2, <1>3, OverlayStep

LEMMA EndActionKeeps ==
  ASSUME ViewerInv, EndAction
  PROVE  ViewerInv'
  BY NoOverlayFits, OverlayStep DEF EndAction

\* How many plans the open transcript has.
LEMMA AllPlansCounted ==
  ASSUME setting \in Settings
  PROVE  AllPlans \in Nat /\ (HasPlans => AllPlans > 0)
<1>1. setting.session \in DOMAIN Sessions
  BY SettingsAssumption
<1>2. PICK messages \in Seq(Messages) : messages = Session.messages
  BY <1>1, TranscriptsAre DEF Session
<1>3. PICK plans \in Nat : /\ plans = Total([m \in DOMAIN messages |-> messages[m].plans])
                           /\ \A m \in DOMAIN messages : messages[m].plans <= plans
  BY PlansCounted
<1>4. AllPlans = plans
  BY <1>2, <1>3 DEF AllPlans
<1>5. HasPlans => plans > 0
  <2>1. HAVE HasPlans
  <2>2. PICK m \in DOMAIN messages : messages[m].plans > 0
    BY <1>2, <2>1 DEF HasPlans
  <2>3. PICK n \in Nat : n = Len(messages) /\ DOMAIN messages = 1..n
    BY LenProperties
  <2>4. messages[m] \in Messages
    BY <2>3, ElementOfSeq
  <2>5. messages[m].plans \in Nat
    BY <2>4 DEF Messages
  <2>6. QED
    BY <1>3, <2>2, <2>5
<1>6. QED
  BY <1>4, <1>5

LEMMA ExecutePlanTargetKeeps ==
  ASSUME ViewerInv, ExecutePlanTarget
  PROVE  ViewerInv'
<1>1. /\ overlay.action # NoAction /\ HasPlans
      /\ Overlaid(IF AllPlans = 1 THEN NoOverlay
                  ELSE [NoOverlay EXCEPT !.picking = TRUE, !.pickFor = overlay.action])
  BY DEF ExecutePlanTarget
<1>2. overlay.action \in Actions
  BY <1>1 DEF ViewerInv, Overlaying, Overlays
<1>3. PICK o : o = IF AllPlans = 1 THEN NoOverlay
                   ELSE [NoOverlay EXCEPT !.picking = TRUE, !.pickFor = overlay.action]
  OBVIOUS
<1>4. Overlaid(o)
  BY <1>1, <1>3
<1>5. CASE AllPlans = 1
  BY <1>3, <1>4, <1>5, NoOverlayFits, OverlayStep
<1>6. CASE AllPlans # 1
  <2>1. AllPlans \in Nat /\ AllPlans > 1
    BY <1>1, <1>6, AllPlansCounted DEF ViewerInv, Standing
  <2>2. o = [NoOverlay EXCEPT !.picking = TRUE, !.pickFor = overlay.action]
    BY <1>3, <1>6
  <2>3. /\ o \in Overlays /\ o.action = NoAction /\ o.pickFor \in Actions
        /\ o.selected = 0
    BY <1>2, <2>2 DEF NoOverlay, Overlays
  <2>4. QED
    BY <1>4, <2>1, <2>3, OverlayStep
<1>7. QED
  BY <1>5, <1>6

LEMMA MoveInPickerKeeps ==
  ASSUME ViewerInv, MoveInPicker
  PROVE  ViewerInv'
<1>1. /\ overlay \in Overlays /\ overlay.picking
      /\ overlay.action = NoAction /\ overlay.pickFor \in Actions
      /\ overlay.selected < AllPlans /\ AllPlans > 1
  BY DEF ViewerInv, Overlaying, MoveInPicker
<1>2. AllPlans \in Nat
  BY AllPlansCounted DEF ViewerInv, Standing
<1>3. PICK at \in Nat : Overlaid([overlay EXCEPT !.selected = at]) /\ at < AllPlans
  <2>1. overlay.selected \in Nat
    BY <1>1 DEF Overlays
  <2>2. CASE overlay.selected > 0 /\ Overlaid([overlay EXCEPT !.selected = @ - 1])
    <3>1. overlay.selected - 1 \in Nat /\ overlay.selected - 1 < AllPlans
      BY <1>1, <1>2, <2>1, <2>2
    <3>2. QED
      BY <2>2, <3>1
  <2>3. CASE overlay.selected < AllPlans - 1 /\ Overlaid([overlay EXCEPT !.selected = @ + 1])
    <3>1. overlay.selected + 1 \in Nat /\ overlay.selected + 1 < AllPlans
      BY <1>1, <1>2, <2>1, <2>3
    <3>2. QED
      BY <2>3, <3>1
  <2>4. QED
    BY <2>2, <2>3 DEF MoveInPicker
<1>4. PICK o : o = [overlay EXCEPT !.selected = at]
  OBVIOUS
<1>5. /\ o \in Overlays /\ o.action = overlay.action /\ o.pickFor = overlay.pickFor
      /\ o.selected = at
  BY <1>1, <1>4 DEF Overlays
<1>6. QED
  BY <1>1, <1>3, <1>4, <1>5, OverlayStep

-----------------------------------------------------------------------------
(* What the viewer shows, and what it keeps *)

LEMMA NextKeeps ==
  ASSUME ViewerInv, [ViewerNext]_viewerVars
  PROVE  ViewerInv'
<1>1. ASSUME NEW key \in Toggles, ToggleOption(key) PROVE ViewerInv'
  BY <1>1, ToggleOptionKeeps
<1>2. CASE TogglePlan
  BY <1>2, TogglePlanKeeps
<1>3. CASE ToggleSelectionMode
  BY <1>3, ToggleSelectionModeKeeps
<1>4. CASE ToggleDock
  BY <1>4, ToggleDockKeeps
<1>5. CASE JumpToNotable
  BY <1>5, JumpToNotableKeeps
<1>6. CASE ScrollLines
  BY <1>6, ScrollLinesKeeps
<1>7. CASE GotoTop
  BY <1>7, GotoTopKeeps
<1>8. CASE EditSearch
  BY <1>8, EditSearchKeeps
<1>9. ASSUME NEW query \in Queries \cup {NoQuery}, EnterSearch(query) PROVE ViewerInv'
  BY <1>9, EnterSearchKeeps
<1>10. CASE ClearSearch
  BY <1>10, ClearSearchKeeps
<1>11. CASE JumpToMatch
  BY <1>11, JumpToMatchKeeps
<1>12. ASSUME NEW action \in Actions, StartActionMode(action) PROVE ViewerInv'
  BY <1>12, StartActionModeKeeps
<1>13. CASE EndAction
  BY <1>13, EndActionKeeps
<1>14. CASE ExecutePlanTarget
  BY <1>14, ExecutePlanTargetKeeps
<1>15. CASE MoveInPicker
  BY <1>15, MoveInPickerKeeps
<1>16. CASE SetSize
  BY <1>16, SetSizeKeeps
<1>17. CASE Reopen
  BY <1>17, ReopenKeeps
<1>18. CASE UNCHANGED viewerVars
  <2>1. <<setting, opts, planExpanded, selectionMode, layout, dockOpen, shown, content, yOffset,
          renderCache, search, overlay, kept>>'
          = <<setting, opts, planExpanded, selectionMode, layout, dockOpen, shown, content, yOffset,
              renderCache, search, overlay, kept>>
    BY <1>18 DEF viewerVars
  <2>2. yOffset' \in 0 .. MaxYOffset(content.lines, Rows)
    BY <2>1 DEF ViewerInv, Placed
  <2>3. QED
    BY <2>1, <2>2, OffsetStep
<1>19. QED
  BY <1>1, <1>2, <1>3, <1>4, <1>5, <1>6, <1>7, <1>8, <1>9, <1>10, <1>11, <1>12, <1>13, <1>14,
     <1>15, <1>16, <1>17, <1>18 DEF ViewerNext

LEMMA ViewerInvAlways == ViewerSpec => []ViewerInv
<1>1. ViewerInit => ViewerInv
  BY InitRight
<1>2. ViewerInv /\ [ViewerNext]_viewerVars => ViewerInv'
  BY NextKeeps
<1>3. QED
  BY <1>1, <1>2, PTL DEF ViewerSpec

\* The dock leaves the transcript its rows.
LEMMA DockLeavesRows ==
  ASSUME Standing, DockHeight(dockOpen, layout, selectionMode) > 0
  PROVE  /\ Rows >= DockMinViewportRows
         /\ Rows + ContextDockHeight + FramedChromeHeight = layout.height
<1>1. /\ dockOpen /\ ~selectionMode /\ DockFits(layout)
      /\ DockHeight(dockOpen, layout, selectionMode) = ContextDockHeight
  BY DEF DockHeight
<1>2. layout.height \in Nat /\ layout.height >= 16
  <2>1. layout.height \in Nat
    BY LayoutIs DEF Standing
  <2>2. layout.height >= FramedChromeHeight + DockMinViewportRows + ContextDockHeight
    BY <1>1 DEF DockFits
  <2>3. QED
    BY <2>1, <2>2 DEF FramedChromeHeight, DockMinViewportRows, ContextDockHeight
<1>3. BodyHeight(layout.height, selectionMode) = layout.height - 4
  <2>1. BodyHeight(layout.height, selectionMode) = Larger(layout.height - FramedChromeHeight, 1)
    BY <1>1 DEF BodyHeight
  <2>2. QED
    BY <1>2, <2>1 DEF Larger, FramedChromeHeight
<1>4. Rows = Larger(layout.height - 4 - 9, 1)
  BY <1>1, <1>3 DEF Rows, ViewportHeight, ContextDockHeight
<1>5. QED
  BY <1>2, <1>4 DEF Larger, DockMinViewportRows, ContextDockHeight, FramedChromeHeight

(* What is on the screen is the rendering of the present toggles and width, *)
(* whichever cache it came from; the matches are those of that text; the    *)
(* plan picker offers plans that exist; the dock leaves rows: whatever the  *)
(* transcripts, the settings and the size of the cache.                     *)
THEOREM ViewerAlwaysTrue == ViewerSpec => []ViewerTrue
<1>1. ViewerInv => ViewerTrue
  <2>1. SUFFICES ASSUME ViewerInv PROVE ViewerTrue
    OBVIOUS
  <2>2. ViewerTypeOK
    <3>1. opts \subseteq Toggles /\ {planExpanded, selectionMode, dockOpen} \subseteq BOOLEAN
      <4>1. opts \subseteq Toggles
        BY <2>1, OptionsAreToggles DEF ViewerInv, Standing
      <4>2. planExpanded \in BOOLEAN /\ selectionMode \in BOOLEAN /\ dockOpen \in BOOLEAN
        BY <2>1 DEF ViewerInv, Standing, Positions
      <4>3. QED
        BY <4>1, <4>2
    <3>2. /\ setting \in Settings /\ renderCache \subseteq ViewsOf(setting)
          /\ shown \in ViewsOf(setting) /\ Cardinality(renderCache) \in 1 .. RenderCacheLimit
          /\ yOffset \in 0 .. MaxYOffset(content.lines, Rows)
      BY <2>1 DEF ViewerInv, Standing, Caching, CacheOf, Showing, Placed
    <3>3. overlay \in Overlays
      BY <2>1 DEF ViewerInv, Overlaying
    <3>4. QED
      BY <3>1, <3>2, <3>3 DEF ViewerTypeOK, Overlays
  <2>3. ContentCurrent
    BY <2>1 DEF ViewerInv, Showing
  <2>4. MatchesCurrent
    BY <2>1 DEF ViewerInv, Searching, SearchOf, MatchesCurrent
  <2>5. OverlaysFit
    <3>1. overlay.picking => /\ overlay.action = NoAction /\ overlay.pickFor \in Actions
                             /\ overlay.selected < AllPlans /\ AllPlans > 1
      BY <2>1 DEF ViewerInv, Overlaying
    <3>2. DockHeight(dockOpen, layout, selectionMode) > 0 =>
                /\ Rows >= DockMinViewportRows
                /\ Rows + ContextDockHeight + FramedChromeHeight = layout.height
      BY <2>1, DockLeavesRows DEF ViewerInv
    <3>3. QED
      BY <3>1, <3>2 DEF OverlaysFit
  <2>6. QED
    BY <2>2, <2>3, <2>4, <2>5 DEF ViewerTrue
<1>2. QED
  BY <1>1, ViewerInvAlways, PTL

\* A toggle keeps the reader where he was.
LEMMA ToggledKeepsReader ==
  ASSUME ViewerInv, [ViewerNext]_viewerVars, Toggled
  PROVE  IF Reading # NoMessage THEN StaysOn(Reading)
         ELSE search.query = NoQuery => yOffset' = SetYOffset(content'.lines, Rows', yOffset)
<1>1. PICK v : /\ v = CurrentView' /\ RenderContentPreservingScroll(v)
               /\ <<setting, selectionMode, layout, dockOpen>>' = <<setting, selectionMode, layout, dockOpen>>
  <2>1. CASE TogglePlan
    <3>1. PICK v : v = View(setting.session, opts, planExpanded', selectionMode, layout.width)
      OBVIOUS
    <3>2. v = CurrentView'
      BY <2>1, <3>1 DEF TogglePlan, CurrentView
    <3>3. QED
      BY <2>1, <3>1, <3>2 DEF TogglePlan
  <2>2. ASSUME NEW key \in Toggles, ToggleOption(key)
        PROVE  \E v : /\ v = CurrentView' /\ RenderContentPreservingScroll(v)
                      /\ <<setting, selectionMode, layout, dockOpen>>'
                            = <<setting, selectionMode, layout, dockOpen>>
    <3>1. PICK v : v = View(setting.session, opts', planExpanded, selectionMode, layout.width)
      OBVIOUS
    <3>2. v = CurrentView'
      BY <2>2, <3>1 DEF ToggleOption, CurrentView
    <3>3. QED
      BY <2>2, <3>1, <3>2 DEF ToggleOption
  <2>3. QED
    BY <2>1, <2>2 DEF Toggled
<1>2. setting' = setting /\ v \in ViewsOf(setting)
  <2>1. ViewerInv'
    BY NextKeeps
  <2>2. CurrentView' \in ViewsOf(setting')
    <3>1. setting' \in Settings /\ layout' \in LayoutsOf(setting') /\ opts' \in OptionsOf(setting')
          /\ planExpanded' \in Positions(setting', "plan")
          /\ selectionMode' \in Positions(setting', "selection")
      BY <2>1 DEF ViewerInv, Standing
    <3>2. CurrentView' = View(setting'.session, opts', planExpanded', selectionMode', layout'.width)
      BY DEF CurrentView
    <3>3. QED
      BY <3>1, <3>2, ViewReached
  <2>3. QED
    BY <1>1, <2>2
<1>3. PICK rows, m : rows = Rows /\ m = Reading
  OBVIOUS
<1>4. Rows' = rows
  BY <1>1, <1>3, SettingHolds
<1>5. /\ m # NoMessage /\ LineOf(content'.map, m) >= 0 =>
            \/ MessageAt(content'.map, yOffset') = MessageAt(content'.map, LineOf(content'.map, m))
            \/ yOffset' = MaxYOffset(content'.lines, rows) /\ LineOf(content'.map, m) >= yOffset'
      /\ m = NoMessage /\ search'.query = NoQuery =>
            yOffset' = SetYOffset(content'.lines, rows, yOffset)
  BY <1>1, <1>2, <1>3, PreservingKeeps
<1>6. search'.query = search.query
  <2>1. ShowView(v)
    BY <1>1 DEF RenderContentPreservingScroll
  <2>2. SearchAgain
    BY <2>1 DEF ShowView
  <2>3. search \in Searches
    BY DEF ViewerInv, Searching, SearchOf
  <2>4. PICK s : s = IF SameText THEN search ELSE [search EXCEPT !.valid = FALSE]
    OBVIOUS
  <2>5. s \in Searches /\ s.query = search.query
    BY <2>3, <2>4 DEF Searches
  <2>6. search' = IF s.query = NoQuery THEN s ELSE PerformSearch(s, content'.lines)
    BY <2>2, <2>4 DEF SearchAgain
  <2>7. PerformSearch(s, content'.lines).query = s.query
    BY <2>5 DEF PerformSearch, Searches
  <2>8. QED
    BY <2>5, <2>6, <2>7
<1>7. CASE m # NoMessage
  BY <1>3, <1>4, <1>5, <1>7 DEF StaysOn
<1>8. CASE m = NoMessage
  BY <1>3, <1>4, <1>5, <1>6, <1>8
<1>9. QED
  BY <1>3, <1>7, <1>8

\* A search brings its match on the screen.
LEMMA FoundIsShown ==
  ASSUME ViewerInv, [ViewerNext]_viewerVars, Found
  PROVE  search'.matches[search'.current + 1] \in yOffset' .. yOffset' + Rows' - 1
<1>1. PICK rows : rows = Rows /\ Tall(rows)
  BY RowsTall DEF ViewerInv
<1>2. content.lines \in Seq(Line) /\ SearchOf(search, content.lines)
  BY ContentDrawn DEF ViewerInv, Searching
<1>3. CASE JumpToMatch
  <2>1. SearchOf(search', content.lines) /\ search'.current + 1 \in 1..Len(search'.matches)
    BY <1>3, JumpToMatchKeeps
  <2>2. PICK y \in Nat : y = search'.matches[search'.current + 1] /\ y < Len(content.lines)
    BY <1>2, <2>1, MatchesFit
  <2>3. yOffset' = SetYOffset(content.lines, rows, y)
    BY <1>1, <1>3, <2>2 DEF JumpToMatch, Scroll
  <2>4. Rows' = rows
    BY <1>1, <1>3, SettingHolds DEF JumpToMatch
  <2>5. y \in SetYOffset(content.lines, rows, y) .. (SetYOffset(content.lines, rows, y) + rows - 1)
    BY <1>1, <1>2, <2>2, OffsetShows
  <2>6. QED
    BY <2>2, <2>3, <2>4, <2>5
<1>4. ASSUME NEW q \in Queries, EnterSearch(q)
      PROVE  search'.matches[search'.current + 1] \in yOffset' .. yOffset' + Rows' - 1
  <2>1. PICK t, s, lines :
            /\ t = search' /\ s = search /\ lines = content.lines
            /\ t = PerformSearch([s EXCEPT !.editing = FALSE, !.query = q], lines)
            /\ yOffset' = AfterSearch(t, lines, rows, yOffset)
    BY <1>1, <1>4 DEF EnterSearch
  <2>2. SearchOf(t, lines) /\ t.current = 0
    <3>1. lines \in Seq(Line) /\ SearchOf(s, lines)
      BY <1>2, <2>1
    <3>2. PICK query \in Queries \cup {NoQuery} : query = q
      OBVIOUS
    <3>3. t = PerformSearch([s EXCEPT !.editing = FALSE, !.query = query], lines)
      BY <2>1, <3>2
    <3>4. SearchOf(t, lines)
      BY <3>1, <3>2, <3>3, EnteredSearch
    <3>5. s \in Searches
      BY <3>1 DEF SearchOf
    <3>6. t.current = 0
      BY <3>3, <3>5 DEF PerformSearch, Searches
    <3>7. QED
      BY <3>4, <3>6
  <2>3. t.matches # <<>>
    BY <2>1 DEF Found
  <2>4. t.matches \in Seq(Nat)
    BY <2>2 DEF SearchOf, Searches
  <2>5. 1 \in 1..Len(t.matches)
    BY <2>3, <2>4, EmptySeq, LenProperties
  <2>6. PICK y \in Nat : y = t.matches[1] /\ y < Len(lines)
    BY <1>2, <2>1, <2>2, <2>5, MatchesFit
  <2>7. yOffset' = SetYOffset(lines, rows, y)
    BY <2>1, <2>3, <2>6 DEF AfterSearch
  <2>8. Rows' = rows
    BY <1>1, <1>4, SettingHolds DEF EnterSearch
  <2>9. y \in SetYOffset(lines, rows, y) .. (SetYOffset(lines, rows, y) + rows - 1)
    BY <1>1, <1>2, <2>1, <2>6, OffsetShows
  <2>10. t.matches[t.current + 1] = y
    BY <2>2, <2>6
  <2>11. QED
    BY <2>1, <2>7, <2>8, <2>9, <2>10
<1>5. QED
  BY <1>3, <1>4 DEF Found

(* A toggle keeps the reader on the message on the top line, or on the next *)
(* one shown; a search or a jump brings the current match on the screen.    *)
THEOREM ReaderAlwaysKept == ViewerSpec => ReaderKept
<1>1. ViewerInv /\ [ViewerNext]_viewerVars =>
        [/\ Toggled => IF Reading # NoMessage THEN StaysOn(Reading)
                       ELSE search.query = NoQuery => yOffset' = SetYOffset(content'.lines, Rows', yOffset)
         /\ Found => search'.matches[search'.current + 1] \in yOffset' .. yOffset' + Rows' - 1]_viewerVars
  BY ToggledKeepsReader, FoundIsShown
<1>2. QED
  BY <1>1, ViewerInvAlways, PTL DEF ViewerSpec, ReaderKept

=============================================================================
