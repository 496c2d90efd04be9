---------------------------- MODULE ImportPipeline ----------------------------
(***************************************************************************)
(* The import pipeline of internal/archive: Pipeline.Analyze decides       *)
(* whether anything has to be done, Pipeline.Run copies the provider files *)
(* that FileNeedsSync selects into the raw archive (syncCandidates and     *)
(* copyFile, in parallel, file by file) and rebuilds the canonical store   *)
(* from the files it copied.  Around it, the providers append to, rewrite  *)
(* and delete their files at any moment, calls fail, and the process may   *)
(* die between any two steps.                                              *)
(*                                                                         *)
(* What a file contains is abstracted to a revision: the wall-clock tick   *)
(* of the write that produced it.  Revision 0 stands for "no complete      *)
(* revision": a missing, truncated or partly copied file.  The store is    *)
(* abstracted to the revision of each raw file its last rebuild has read;  *)
(* its own files and handles are the subject of module CanonicalStore.     *)
(***************************************************************************)
EXTENDS Naturals, Sequences

CONSTANTS
  Files,      \* the provider session files, all backends together
  MaxTick,    \* bound: writes the providers make
  MaxFaults,  \* bound: failures that strike the pipeline
  Faults      \* the kinds of failure that may strike

FaultKinds == {"look", "open", "copy", "chtimes", "rebuild", "crash"}

ASSUME BoundsAssumption == MaxTick \in Nat /\ MaxFaults \in Nat
ASSUME FaultsAssumption == Faults \subseteq FaultKinds

VARIABLES
  clock,   \* wall clock: ticks at every provider write
  source,  \* provider files: revision (= mtime), size, deleted or not
  raw,     \* archive copies: revision they hold, size, mtime
  store,   \* revision of each raw file the canonical store was built from
  built,   \* the store file exists and its meta versions are current
  pc,      \* where Analyze / Run is
  status,  \* per file: progress of copyFile in this run
  stamp,   \* per file: source mtime copyFile read with Stat
  faults   \* the failures that have struck, in order

vars == <<clock, source, raw, store, built, pc, status, stamp, faults>>
env == <<clock, source>>
run == <<pc, status, stamp>>

Revision == 0..MaxTick
Stages == {"idle", "ready", "current", "syncing", "rebuilding", "done", "failed"}
\* A "failed" copy and a file that is no candidate leave the same mark, "none":
\* changedRawPathsByProvider ignores both.
CopyStatus == {"none", "queued", "created", "written", "copied"}

TypeOK ==
  /\ clock \in Revision
  /\ source \in [Files -> [rev : Revision, size : Revision, gone : BOOLEAN]]
  /\ raw \in [Files -> [rev : Revision, size : Revision, mtime : Revision]]
  /\ store \in [Files -> Revision]
  /\ built \in BOOLEAN
  /\ pc \in Stages
  /\ status \in [Files -> CopyStatus]
  /\ stamp \in [Files -> Revision]
  /\ faults \in Seq(Faults) /\ Len(faults) <= MaxFaults

-----------------------------------------------------------------------------
(* Helpers *)

Exists(f) == source[f].rev # 0 /\ ~source[f].gone

\* Mutant: the size comparison is dropped.
NeedsSyncByTimeOnly(f) == Exists(f) /\ source[f].rev > raw[f].mtime

\* FileNeedsSync: the copy is missing, of another size, or older.
NeedsSync(f) ==
  /\ Exists(f)
  /\ raw[f].size # source[f].size \/ source[f].rev > raw[f].mtime

\* Mutant: updated files are left out, only new ones are reported.
ChangedNewOnly == {f \in Files : status[f] = "copied" /\ store[f] = 0}

\* changedRawPathsByProvider: what this run copied, without the failures.
Changed == {f \in Files : status[f] = "copied"}

Strike(kind) ==
  /\ kind \in Faults
  /\ Len(faults) < MaxFaults
  /\ faults' = Append(faults, kind)

NoCopies == [f \in Files |-> "none"]

Init ==
  /\ clock = 0
  /\ source = [f \in Files |-> [rev |-> 0, size |-> 0, gone |-> FALSE]]
  /\ raw = [f \in Files |-> [rev |-> 0, size |-> 0, mtime |-> 0]]
  /\ store = [f \in Files |-> 0]
  /\ built = FALSE
  /\ pc = "idle"
  /\ status = NoCopies
  /\ stamp = [f \in Files |-> 0]
  /\ faults = <<>>

-----------------------------------------------------------------------------
(* The providers: they know nothing of the pipeline.  A session file is a  *)
(* JSONL log that grows; a rewrite keeps its size; a name is never reused. *)

ProviderWrites(f) ==
  /\ clock < MaxTick
  /\ ~source[f].gone
  /\ clock' = clock + 1
  /\ \E grown \in {0, 1} :
       /\ source[f].rev = 0 => grown = 1
       /\ source' = [source EXCEPT ![f] =
                      [rev |-> clock + 1, size |-> source[f].size + grown, gone |-> FALSE]]
  /\ UNCHANGED <<raw, store, built, run, faults>>

ProviderDeletes(f) ==
  /\ Exists(f)
  /\ source' = [source EXCEPT ![f].gone = TRUE]
  /\ UNCHANGED <<clock, raw, store, built, run, faults>>

-----------------------------------------------------------------------------
(* Pipeline.Analyze and ImportAnalysis.NeedsSync: queued files or a store  *)
(* that has to be built make a run available, anything else is "current".  *)

\* Mutant: the analysis asks for a run only when the store must be built.
AnalyzeStoreOnly ==
  /\ pc \in {"idle", "current", "done", "failed"}
  /\ pc' = IF ~built THEN "ready" ELSE "current"
  /\ UNCHANGED <<env, raw, store, built, status, stamp, faults>>

Analyze ==
  /\ pc \in {"idle", "current", "done", "failed"}
  /\ pc' = IF (\E f \in Files : NeedsSync(f)) \/ ~built THEN "ready" ELSE "current"
  /\ UNCHANGED <<env, raw, store, built, status, stamp, faults>>

\* A source, a copy or the store cannot be looked at: the import is blocked, an
\* error among what Analyze returns.
AnalyzeFails ==
  /\ pc \in {"idle", "current", "done", "failed"}
  /\ Strike("look")
  /\ pc' = "idle"
  /\ UNCHANGED <<env, raw, store, built, status, stamp>>

\* Run collects its own candidates; the user may also start it again on the
\* failed screen without a new analysis.
Collect ==
  /\ pc \in {"ready", "failed"}
  /\ pc' = "syncing"
  /\ status' = [f \in Files |-> IF NeedsSync(f) THEN "queued" ELSE "none"]
  /\ UNCHANGED <<env, raw, store, built, stamp, faults>>

CollectFails ==
  /\ pc \in {"ready", "failed"}
  /\ Strike("look")
  /\ pc' = "failed"
  /\ UNCHANGED <<env, raw, store, built, status, stamp>>

-----------------------------------------------------------------------------
(* copyFile, one goroutine per candidate: open and stat the source, create *)
(* (and so truncate) the copy, write it to the source's end, stamp it with *)
(* the mtime read first.  A failure at any point only marks the file.      *)

CopyOpen(f) ==
  /\ pc = "syncing"
  /\ status[f] = "queued"
  /\ Exists(f)
  /\ status' = [status EXCEPT ![f] = "created"]
  /\ stamp' = [stamp EXCEPT ![f] = source[f].rev]
  /\ raw' = [raw EXCEPT ![f] = [rev |-> 0, size |-> 0, mtime |-> clock]]
  /\ UNCHANGED <<env, store, built, pc, faults>>

\* Mutant: the copy is created, and truncated, before the source is opened.
CopyOpenFailsTruncated(f) ==
  /\ pc = "syncing"
  /\ status[f] = "queued"
  /\ IF Exists(f) THEN Strike("open") ELSE UNCHANGED faults
  /\ status' = [status EXCEPT ![f] = "none"]
  /\ raw' = [raw EXCEPT ![f] = [rev |-> 0, size |-> 0, mtime |-> clock]]
  /\ UNCHANGED <<env, store, built, pc, stamp>>

\* The source is gone, or cannot be opened, or the copy cannot be created.
CopyOpenFails(f) ==
  /\ pc = "syncing"
  /\ status[f] = "queued"
  /\ IF Exists(f) THEN Strike("open") ELSE UNCHANGED faults
  /\ status' = [status EXCEPT ![f] = "none"]
  /\ UNCHANGED <<env, raw, store, built, pc, stamp>>

\* The open descriptor still reads a source deleted meanwhile, and reads what
\* was appended after the Stat.
CopyWrite(f) ==
  /\ pc = "syncing"
  /\ status[f] = "created"
  /\ status' = [status EXCEPT ![f] = "written"]
  /\ raw' = [raw EXCEPT ![f] = [rev |-> source[f].rev, size |-> source[f].size, mtime |-> clock]]
  /\ UNCHANGED <<env, store, built, pc, stamp, faults>>

CopyWriteFails(f) ==
  /\ pc = "syncing"
  /\ status[f] = "created"
  /\ Strike("copy")
  /\ status' = [status EXCEPT ![f] = "none"]
  /\ \E n \in Revision :
       /\ n < source[f].size
       /\ raw' = [raw EXCEPT ![f] = [rev |-> 0, size |-> n, mtime |-> clock]]
  /\ UNCHANGED <<env, store, built, pc, stamp>>

\* Mutant: the mtime is rounded up to the next tick.
CopyStampRoundedUp(f) ==
  /\ pc = "syncing"
  /\ status[f] = "written"
  /\ status' = [status EXCEPT ![f] = "copied"]
  /\ raw' = [raw EXCEPT ![f].mtime = stamp[f] + 1]
  /\ UNCHANGED <<env, store, built, pc, stamp, faults>>

\* Mutant: the source is stat'ed after the copy instead of before it.
CopyStampStatLate(f) ==
  /\ pc = "syncing"
  /\ status[f] = "written"
  /\ status' = [status EXCEPT ![f] = "copied"]
  /\ raw' = [raw EXCEPT ![f].mtime = source[f].rev]
  /\ UNCHANGED <<env, store, built, pc, stamp, faults>>

CopyStamp(f) ==
  /\ pc = "syncing"
  /\ status[f] = "written"
  /\ status' = [status EXCEPT ![f] = "copied"]
  /\ raw' = [raw EXCEPT ![f].mtime = stamp[f]]
  /\ UNCHANGED <<env, store, built, pc, stamp, faults>>

\* Close or Chtimes reports an error after the last byte was written.
CopyStampFails(f) ==
  /\ pc = "syncing"
  /\ status[f] = "written"
  /\ Strike("chtimes")
  /\ status' = [status EXCEPT ![f] = "none"]
  /\ UNCHANGED <<env, raw, store, built, pc, stamp>>

-----------------------------------------------------------------------------
(* The end of Run: rebuild when something was copied or the store needs    *)
(* it, otherwise finish at once.                                           *)

\* Mutant: a store that exists is not rebuilt.
SyncEndsStoreOnly ==
  /\ pc = "syncing"
  /\ \A f \in Files : status[f] \in {"none", "copied"}
  /\ pc' = IF ~built THEN "rebuilding" ELSE "done"
  /\ UNCHANGED <<env, raw, store, built, status, stamp, faults>>

SyncEnds ==
  /\ pc = "syncing"
  /\ \A f \in Files : status[f] \in {"none", "copied"}
  /\ pc' = IF Changed # {} \/ ~built THEN "rebuilding" ELSE "done"
  /\ UNCHANGED <<env, raw, store, built, status, stamp, faults>>

\* NeedsRebuild returns an error: the run ends with its copies made.
NeedsRebuildFails ==
  /\ pc = "syncing"
  /\ \A f \in Files : status[f] \in {"none", "copied"}
  /\ Strike("rebuild")
  /\ pc' = "failed"
  /\ status' = NoCopies
  /\ UNCHANGED <<env, raw, store, built, stamp>>

\* The conversations of the changed files are read again, the others kept.
RebuildIncremental ==
  /\ pc = "rebuilding"
  /\ built
  /\ Changed # {}
  /\ store' = [f \in Files |-> IF f \in Changed THEN raw[f].rev ELSE store[f]]
  /\ pc' = "done"
  /\ status' = NoCopies
  /\ UNCHANGED <<env, raw, built, stamp, faults>>

\* No usable store, or the incremental rebuild failed: every raw file is read.
RebuildFull ==
  /\ pc = "rebuilding"
  /\ store' = [f \in Files |-> raw[f].rev]
  /\ built' = TRUE
  /\ pc' = "done"
  /\ status' = NoCopies
  /\ UNCHANGED <<env, raw, stamp, faults>>

\* RebuildAll returns an error: the list of changed paths is dropped with it.
RebuildFails ==
  /\ pc = "rebuilding"
  /\ Strike("rebuild")
  /\ pc' = "failed"
  /\ status' = NoCopies
  /\ UNCHANGED <<env, raw, store, built, stamp>>

\* The process dies; what is on disk is all that is left of the run.
Crash ==
  /\ Strike("crash")
  /\ pc' = "idle"
  /\ status' = NoCopies
  /\ UNCHANGED <<env, raw, store, built, stamp>>

CopyStep(f) == CopyOpen(f) \/ CopyOpenFails(f) \/ CopyWrite(f) \/ CopyStamp(f)
RebuildStep == RebuildIncremental \/ RebuildFull

Next ==
  \/ \E f \in Files :
       \/ ProviderWrites(f) \/ ProviderDeletes(f)
       \/ CopyStep(f) \/ CopyWriteFails(f) \/ CopyStampFails(f)
  \/ Analyze \/ Collect \/ SyncEnds \/ RebuildStep
  \/ AnalyzeFails \/ CollectFails \/ NeedsRebuildFails \/ RebuildFails \/ Crash

\* The goroutines of a run are scheduled, and the user keeps resyncing and
\* starting the runs that are offered.
Fairness ==
  /\ \A f \in Files : WF_vars(CopyStep(f))
  /\ WF_vars(Analyze)
  /\ WF_vars(Collect)
  /\ WF_vars(SyncEnds)
  /\ WF_vars(RebuildStep)

Spec == Init /\ [][Next]_vars
FairSpec == Spec /\ Fairness

-----------------------------------------------------------------------------
(* Properties *)

\* No failure has struck but files that could not be looked at and copies that
\* could not be opened or written.  A rebuild that failed or was not decided on,
\* a copy without its time and a process that died lose the list of the changed
\* files, and the statements below with it.
OnlyCopiesFailed == \A i \in 1..Len(faults) : faults[i] \in {"look", "open", "copy"}

\* A run that ends without an error leaves a store built from exactly what
\* the archive holds, but for the copies that are known to be incomplete
\* (Pipeline.Run).
DoneMeansStoreCurrent ==
  OnlyCopiesFailed /\ pc = "done" =>
    built /\ \A f \in Files : raw[f].rev # 0 => store[f] = raw[f].rev

\* No archived revision is forgotten: one the store has not read is being
\* copied or waiting for the rebuild of the current run, or the whole store
\* is still to be built.
Owed(f) == pc \in {"syncing", "rebuilding"} /\ status[f] \in {"written", "copied"}
NothingForgotten ==
  OnlyCopiesFailed =>
    \A f \in Files :
      raw[f].rev # 0 /\ store[f] # raw[f].rev => Owed(f) \/ ~built

\* "Current" is the whole truth when the analysis says it: a provider file
\* FileNeedsSync passes over is in the store at its last revision.
CurrentMeansArchived ==
  OnlyCopiesFailed /\ pc = "current" =>
    \A f \in Files : Exists(f) /\ ~NeedsSync(f) => store[f] = source[f].rev

\* The archive outlives its sources: once a provider has deleted a file, only
\* a copy that was already reading it may still touch the archived one.
DeletedSourcesKeepTheirCopy ==
  [][\A f \in Files :
       source[f].gone /\ status[f] \notin {"created", "written"} => raw'[f] = raw[f]]_vars

\* Whatever failed before - a rebuild, a stamp, the process itself - a file the
\* sync still sees as stale when the failures are over ends up in the store.
StaleFilesRecover ==
  \A f \in Files :
    Len(faults) = MaxFaults /\ NeedsSync(f) ~> ~Exists(f) \/ store[f] = source[f].rev

\* Once the providers fall silent the store catches up with every file that
\* is left, whatever copies failed on the way.
CatchesUp ==
  <>[](OnlyCopiesFailed => \A f \in Files : Exists(f) => store[f] = source[f].rev)
=============================================================================
