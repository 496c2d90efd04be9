------------------------- MODULE ImportPipelineProofs -------------------------
(***************************************************************************)
(* Proofs about ImportPipeline for any set of files, any number of writes  *)
(* and any number of failures.  Type correctness and the protection of     *)
(* deleted sources hold whatever fails; the three statements about the     *)
(* store hold as long as the only failures that have struck are copies     *)
(* that could not be opened or written, which they say themselves          *)
(* (OnlyCopiesFailed).                                                     *)
(*                                                                         *)
(* And about ImportAnalysis for any projects, sessions and rollouts: what  *)
(* the import screen says is right however the files stand and whichever   *)
(* cannot be read.  Its recursive functions exist (IteratesExist), and     *)
(* what they hold is carried from 0 up (UpTo).                             *)
(***************************************************************************)
EXTENDS ImportAnalysis, FiniteSetTheorems, SequenceTheorems, TLAPS

\* What ties sizes, revisions and mtimes together, on both sides of a copy.
SourceInv ==
  /\ \A f \in Files :
       /\ source[f].rev <= clock
       /\ source[f].size <= source[f].rev
       /\ source[f].rev # 0 => source[f].size # 0
  /\ \A f \in Files : status[f] \in {"created", "written", "copied"} => source[f].rev # 0

\* A failure is remembered, within its bound.
LEMMA StrikeTyped ==
  ASSUME faults \in Seq(Faults), Len(faults) <= MaxFaults, NEW kind, Strike(kind)
  PROVE  faults' \in Seq(Faults) /\ Len(faults') <= MaxFaults
<1>1. /\ kind \in Faults /\ Len(faults) < MaxFaults
      /\ faults' = Append(faults, kind)
  BY DEF Strike
<1>2. Len(faults') = Len(faults) + 1 /\ Len(faults) \in Nat
  BY <1>1
<1>3. QED
  BY <1>1, <1>2, BoundsAssumption

\* Every variable keeps its type, and a source what a size and a time say of it
\* (FileNeedsSync, copyFile).
THEOREM TypeCorrect == Spec => [](TypeOK /\ SourceInv)
<1> DEFINE T == TypeOK /\ SourceInv
<1> USE BoundsAssumption, FaultsAssumption
<1>1. Init => T
  <2> SUFFICES ASSUME Init PROVE T
    OBVIOUS
  <2> USE DEF Init, Revision, CopyStatus, NoCopies
  <2>1. clock \in Revision /\ store \in [Files -> Revision] /\ stamp \in [Files -> Revision]
    OBVIOUS
  <2>2. source \in [Files -> [rev : Revision, size : Revision, gone : BOOLEAN]]
    OBVIOUS
  <2>3. raw \in [Files -> [rev : Revision, size : Revision, mtime : Revision]]
    OBVIOUS
  <2>4. status \in [Files -> CopyStatus] /\ faults \in Seq(Faults) /\ Len(faults) <= MaxFaults
    OBVIOUS
  <2>5. SourceInv
    BY DEF SourceInv
  <2>6. QED
    BY <2>1, <2>2, <2>3, <2>4, <2>5 DEF TypeOK, Stages
<1>2. T /\ [Next]_vars => T'
  <2> SUFFICES ASSUME T, [Next]_vars PROVE T'
    OBVIOUS
  <2> USE DEF TypeOK, SourceInv, Revision, Stages, CopyStatus, env, run
  <2>1. ASSUME NEW f \in Files, ProviderWrites(f) PROVE T'
    <3>1. PICK grown \in {0, 1} :
            /\ source[f].rev = 0 => grown = 1
            /\ source' = [source EXCEPT ![f] =
                           [rev |-> clock + 1, size |-> source[f].size + grown, gone |-> FALSE]]
      BY <2>1 DEF ProviderWrites
    <3>2. clock + 1 \in Revision /\ source[f].size + grown \in Revision
      <4>1. /\ clock < MaxTick /\ clock \in 0..MaxTick /\ source[f].size \in 0..MaxTick
            /\ source[f].rev <= clock /\ source[f].size <= source[f].rev
            /\ source[f].rev \in 0..MaxTick
        BY <2>1 DEF ProviderWrites
      <4> HIDE DEF TypeOK, SourceInv
      <4>2. QED
        BY <4>1
    <3>3. source' \in [Files -> [rev : Revision, size : Revision, gone : BOOLEAN]]
      BY <3>1, <3>2
    <3>4. TypeOK'
      BY <2>1, <3>2, <3>3 DEF ProviderWrites
    <3>5. SourceInv'
      <4>1. \A g \in Files : g # f => source'[g] = source[g]
        BY <3>1
      <4>2. source'[f] = [rev |-> clock + 1, size |-> source[f].size + grown, gone |-> FALSE]
        BY <3>1
      <4>3. /\ clock' = clock + 1 /\ status' = status
            /\ clock \in Nat /\ source[f].size \in Nat
            /\ source[f].size <= clock
            /\ \A g \in Files : source[g].rev \in Nat
        BY <2>1 DEF ProviderWrites
      <4> HIDE DEF TypeOK, Revision
      <4>4. QED
        BY <3>1, <4>1, <4>2, <4>3
    <3>6. QED
      BY <3>4, <3>5
  <2>2. ASSUME NEW f \in Files, ProviderDeletes(f) PROVE T'
    <3>1. UNCHANGED <<clock, raw, store, built, pc, status, stamp, faults>>
      BY <2>2 DEF ProviderDeletes
    <3>2. source' = [source EXCEPT ![f].gone = TRUE]
      BY <2>2 DEF ProviderDeletes
    <3>3. source \in [Files -> [rev : Revision, size : Revision, gone : BOOLEAN]]
      OBVIOUS
    <3>4. /\ source' \in [Files -> [rev : Revision, size : Revision, gone : BOOLEAN]]
          /\ \A g \in Files : source'[g].rev = source[g].rev /\ source'[g].size = source[g].size
      <4> HIDE DEF TypeOK, SourceInv, Revision
      <4>1. QED
        BY <3>2, <3>3
    <3> HIDE DEF Revision
    <3>5. QED
      BY <3>1, <3>4
  <2>3. ASSUME NEW f \in Files, CopyOpen(f) PROVE T'
    BY <2>3 DEF CopyOpen, Exists
  <2>4. ASSUME NEW f \in Files, CopyOpenFails(f) PROVE T'
    BY <2>4, StrikeTyped DEF CopyOpenFails
  <2>5. ASSUME NEW f \in Files, CopyWrite(f) PROVE T'
    BY <2>5 DEF CopyWrite
  <2>6. ASSUME NEW f \in Files, CopyWriteFails(f) PROVE T'
    <3>1. faults' \in Seq(Faults) /\ Len(faults') <= MaxFaults
      BY <2>6, StrikeTyped DEF CopyWriteFails
    <3>2. /\ raw' \in [Files -> [rev : Revision, size : Revision, mtime : Revision]]
          /\ UNCHANGED <<clock, source, store, built, pc>>
      BY <2>6 DEF CopyWriteFails
    <3>3. /\ status' \in [Files -> CopyStatus] /\ stamp' \in [Files -> Revision]
          /\ \A g \in Files : status'[g] \in {status[g], "none"}
      BY <2>6 DEF CopyWriteFails
    <3>4. TypeOK'
      BY <3>1, <3>2, <3>3
    <3>5. SourceInv'
      BY <3>2, <3>3
    <3>6. QED
      BY <3>4, <3>5
  <2>7. ASSUME NEW f \in Files, CopyStamp(f) PROVE T'
    BY <2>7 DEF CopyStamp
  <2>8. ASSUME NEW f \in Files, CopyStampFails(f) PROVE T'
    BY <2>8, StrikeTyped DEF CopyStampFails
  <2>9. CASE Analyze
    BY <2>9 DEF Analyze
  <2>10. CASE Collect
    BY <2>10 DEF Collect
  <2>11. CASE SyncEnds
    BY <2>11 DEF SyncEnds
  <2>12. CASE RebuildIncremental
    BY <2>12 DEF RebuildIncremental, NoCopies
  <2>13. CASE RebuildFull
    BY <2>13 DEF RebuildFull, NoCopies
  <2>14. CASE RebuildFails
    BY <2>14, StrikeTyped DEF RebuildFails, NoCopies
  <2>15. CASE Crash
    BY <2>15, StrikeTyped DEF Crash, NoCopies
  <2>16. CASE AnalyzeFails \/ CollectFails
    BY <2>16, StrikeTyped DEF AnalyzeFails, CollectFails
  <2>17. CASE NeedsRebuildFails
    BY <2>17, StrikeTyped DEF NeedsRebuildFails, NoCopies
  <2>18. CASE UNCHANGED vars
    BY <2>18 DEF vars
  <2>19. QED
    BY <2>1, <2>2, <2>3, <2>4, <2>5, <2>6, <2>7, <2>8, <2>9, <2>10, <2>11, <2>12,
       <2>13, <2>14, <2>15, <2>16, <2>17, <2>18 DEF Next, CopyStep, RebuildStep
<1>3. QED
  BY <1>1, <1>2, PTL DEF Spec

-----------------------------------------------------------------------------
(* Archived copies of deleted sources, whatever fails.                     *)

\* No step but a copy already under way writes the archived copy of a source
\* the provider has deleted (copyFile opens the source before it creates).
THEOREM DeletedSourcesSafe == Spec => DeletedSourcesKeepTheirCopy
<1> DEFINE Keeps ==
      \A f \in Files :
        source[f].gone /\ status[f] \notin {"created", "written"} => raw'[f] = raw[f]
<1>1. TypeOK /\ [Next]_vars => Keeps
  <2> SUFFICES ASSUME TypeOK, [Next]_vars, NEW f \in Files, source[f].gone,
                      status[f] \notin {"created", "written"}
               PROVE raw'[f] = raw[f]
    OBVIOUS
  <2>1. CASE UNCHANGED raw
    BY <2>1
  <2>2. ASSUME NEW g \in Files,
               CopyOpen(g) \/ CopyWrite(g) \/ CopyWriteFails(g) \/ CopyStamp(g)
        PROVE raw'[f] = raw[f]
    <3>1. g # f
      BY <2>2 DEF CopyOpen, CopyWrite, CopyWriteFails, CopyStamp, Exists
    <3>2. PICK copy : raw' = [raw EXCEPT ![g] = copy]
      BY <2>2 DEF CopyOpen, CopyWrite, CopyWriteFails, CopyStamp, TypeOK
    <3>3. QED
      BY <3>1, <3>2 DEF TypeOK
  <2>3. QED
    BY <2>1, <2>2 DEF Next, CopyStep, RebuildStep, ProviderWrites, ProviderDeletes,
       CopyOpenFails, CopyStampFails, Analyze, Collect, SyncEnds, RebuildIncremental,
       RebuildFull, AnalyzeFails, CollectFails, NeedsRebuildFails, RebuildFails, Crash, run, vars
<1>2. Spec => []TypeOK
  BY TypeCorrect, PTL
<1>3. QED
  BY <1>1, <1>2, PTL DEF Spec, DeletedSourcesKeepTheirCopy

-----------------------------------------------------------------------------
(* The store and the archive, as long as no failure has struck after the   *)
(* last byte of a copy was written.                                        *)

\* What the stage of the run says about the copies and about the store.
StageInv ==
  /\ pc \notin {"syncing", "rebuilding"} => \A f \in Files : status[f] = "none"
  /\ pc = "rebuilding" => \A f \in Files : status[f] \in {"none", "copied"}
  /\ pc \in {"done", "current"} => built

\* What a copy's mtime and size say about the revision it holds: never more
\* than is true.  Only a copy that is written and not yet stamped looks newer.
CopyTrue(f) ==
  /\ status[f] = "created" => raw[f].rev = 0
  /\ status[f] \in {"created", "written", "copied"} => stamp[f] <= source[f].rev
  /\ status[f] \in {"written", "copied"} => raw[f].rev # 0 /\ stamp[f] <= raw[f].rev
  /\ raw[f].rev # 0 /\ status[f] # "written" => raw[f].mtime <= raw[f].rev
  /\ raw[f].rev <= source[f].rev
  /\ raw[f].rev = 0 => raw[f].size < source[f].size \/ (raw[f].size = 0 /\ source[f].rev = 0)
CopyInv == \A f \in Files : CopyTrue(f)

StoreInv == OnlyCopiesFailed => StageInv /\ CopyInv /\ NothingForgotten

\* Failures are never taken back, and a step that strikes otherwise than in a
\* copy is seen in what has struck.
LEMMA FailuresRemembered ==
  ASSUME TypeOK, NEW kind, Strike(kind)
  PROVE  OnlyCopiesFailed' => OnlyCopiesFailed /\ kind \in {"look", "open", "copy"}
<1>1. /\ faults \in Seq(Faults) /\ kind \in Faults
      /\ faults' = Append(faults, kind)
  BY DEF TypeOK, Strike
<1>2. /\ Len(faults') = Len(faults) + 1
      /\ faults'[Len(faults) + 1] = kind
      /\ \A i \in 1..Len(faults) : faults'[i] = faults[i]
      /\ Len(faults) \in Nat
  BY <1>1
<1>3. QED
  BY <1>2 DEF OnlyCopiesFailed

\* What a copy holds and was stamped with are times.
LEMMA CopiesAreNumbers ==
  ASSUME TypeOK
  PROVE  \A g \in Files : /\ raw[g].rev \in Nat /\ raw[g].size \in Nat /\ stamp[g] \in Nat
                          /\ source[g].rev \in Nat /\ source[g].size \in Nat
<1>1. \A g \in Files : /\ raw[g].rev \in Revision /\ raw[g].size \in Revision
                       /\ stamp[g] \in Revision
                       /\ source[g].rev \in Revision /\ source[g].size \in Revision
  BY DEF TypeOK
<1>2. Revision \subseteq Nat
  BY BoundsAssumption DEF Revision
<1>3. QED
  BY <1>1, <1>2

\* A step of one file's copy leaves what is known of the others.
LEMMA OnlyThisCopy ==
  ASSUME NEW f \in Files, CopyInv, NothingForgotten, OnlyCopiesFailed,
         UNCHANGED <<built, store, pc>>,
         \A g \in Files : g # f => /\ source'[g] = source[g] /\ raw'[g] = raw[g]
                                  /\ status'[g] = status[g] /\ stamp'[g] = stamp[g],
         CopyTrue(f)',
         raw'[f].rev # 0 /\ store[f] # raw'[f].rev => Owed(f)' \/ ~built
  PROVE  CopyInv' /\ NothingForgotten'
<1>1. \A g \in Files : g # f => CopyTrue(g)'
  BY DEF CopyInv, CopyTrue
<1>2. \A g \in Files : g # f => (Owed(g)' <=> Owed(g))
  BY DEF Owed
<1>3. QED
  BY <1>1, <1>2 DEF CopyInv, NothingForgotten

\* Every step keeps the store and the archive in agreement.
LEMMA StoreInvInductive ==
  ASSUME TypeOK, SourceInv, TypeOK', SourceInv', StoreInv, [Next]_vars
  PROVE  StoreInv'
<1> DEFINE Sound == StageInv /\ CopyInv /\ NothingForgotten
<1> SUFFICES ASSUME OnlyCopiesFailed' PROVE Sound'
  BY DEF StoreInv
<1>a. /\ ~Strike("chtimes") /\ ~Strike("rebuild") /\ ~Strike("crash")
  BY FailuresRemembered
<1>b. OnlyCopiesFailed
  <2>1. CASE UNCHANGED faults
    BY <2>1 DEF OnlyCopiesFailed
  <2>2. CASE \E kind : Strike(kind)
    BY <2>2, FailuresRemembered
  <2>3. QED
    BY <2>1, <2>2 DEF Next, CopyStep, RebuildStep, ProviderWrites, ProviderDeletes, CopyOpen,
       CopyOpenFails, CopyWrite, CopyWriteFails, CopyStamp, CopyStampFails, Analyze, Collect,
       SyncEnds, RebuildIncremental, RebuildFull, AnalyzeFails, CollectFails, NeedsRebuildFails,
       RebuildFails, Crash, vars
<1>c. StageInv /\ CopyInv /\ NothingForgotten
  BY <1>b DEF StoreInv
<1>d. \A f \in Files : /\ raw[f].rev \in Nat /\ raw[f].size \in Nat /\ stamp[f] \in Nat
                       /\ source[f].rev \in Nat /\ source[f].size \in Nat
  BY CopiesAreNumbers
<1>e. /\ DOMAIN source = Files /\ DOMAIN raw = Files
      /\ DOMAIN status = Files /\ DOMAIN stamp = Files
  BY DEF TypeOK
<1>1. ASSUME NEW f \in Files, ProviderWrites(f) PROVE Sound'
  <2>1. UNCHANGED <<raw, status, stamp, pc, built, store>>
    BY <1>1 DEF ProviderWrites, run
  <2>2. PICK grown \in {0, 1} :
          /\ source[f].rev = 0 => grown = 1
          /\ source' = [source EXCEPT ![f] =
                         [rev |-> clock + 1, size |-> source[f].size + grown, gone |-> FALSE]]
    BY <1>1 DEF ProviderWrites
  <2>3. /\ source'[f].rev = clock + 1 /\ source'[f].size = source[f].size + grown
        /\ \A g \in Files : g # f => source'[g] = source[g]
    BY <1>e, <2>2
  <2>4. clock \in Nat /\ source[f].rev <= clock /\ (source[f].rev # 0 => source[f].size # 0)
    BY BoundsAssumption DEF TypeOK, SourceInv, Revision
  <2>5. CopyTrue(f)'
    BY <1>c, <1>d, <2>1, <2>2, <2>3, <2>4 DEF CopyInv, CopyTrue
  <2>6. raw'[f].rev # 0 /\ store[f] # raw'[f].rev => Owed(f)' \/ ~built
    BY <1>b, <1>c, <2>1 DEF NothingForgotten, Owed
  <2>7. StageInv'
    BY <1>c, <2>1 DEF StageInv
  <2>8. QED
    BY <1>b, <1>c, <2>1, <2>3, <2>5, <2>6, <2>7, OnlyThisCopy
<1>2. ASSUME NEW f \in Files, ProviderDeletes(f) PROVE Sound'
  <2>1. UNCHANGED <<raw, status, stamp, pc, built, store>>
    BY <1>2 DEF ProviderDeletes, run
  <2>2. \A g \in Files : source'[g].rev = source[g].rev /\ source'[g].size = source[g].size
    BY <1>2, <1>e DEF ProviderDeletes, TypeOK
  <2>3. CopyInv'
    BY <1>c, <2>1, <2>2 DEF CopyInv, CopyTrue
  <2>4. QED
    BY <1>b, <1>c, <2>1, <2>3 DEF StageInv, NothingForgotten, Owed
<1>3. ASSUME NEW f \in Files, CopyOpen(f) PROVE Sound'
  <2>1. /\ UNCHANGED <<source, built, store, pc>> /\ pc = "syncing"
        /\ status' = [status EXCEPT ![f] = "created"]
        /\ stamp' = [stamp EXCEPT ![f] = source[f].rev]
        /\ raw' = [raw EXCEPT ![f] = [rev |-> 0, size |-> 0, mtime |-> clock]]
        /\ source[f].rev # 0
    BY <1>3 DEF CopyOpen, Exists, env
  <2>2. /\ status'[f] = "created" /\ stamp'[f] = source[f].rev
        /\ raw'[f].rev = 0 /\ raw'[f].size = 0
        /\ \A g \in Files : g # f => /\ raw'[g] = raw[g] /\ status'[g] = status[g]
                                     /\ stamp'[g] = stamp[g]
    BY <1>e, <2>1
  <2>3. source[f].size # 0
    BY <2>1 DEF SourceInv
  <2>4. CopyTrue(f)'
    BY <1>d, <2>1, <2>2, <2>3 DEF CopyTrue
  <2>5. StageInv'
    BY <2>1 DEF StageInv
  <2>6. QED
    BY <1>b, <1>c, <2>1, <2>2, <2>4, <2>5, OnlyThisCopy
<1>4. ASSUME NEW f \in Files, CopyOpenFails(f) PROVE Sound'
  <2>1. /\ UNCHANGED <<source, raw, stamp, built, store, pc>> /\ pc = "syncing"
        /\ status[f] = "queued" /\ status' = [status EXCEPT ![f] = "none"]
    BY <1>4 DEF CopyOpenFails, env
  <2>2. status'[f] = "none" /\ \A g \in Files : g # f => status'[g] = status[g]
    BY <1>e, <2>1
  <2>3. CopyTrue(f)'
    BY <1>c, <2>1, <2>2 DEF CopyInv, CopyTrue
  <2>4. raw[f].rev # 0 /\ store[f] # raw[f].rev => ~built
    BY <1>b, <1>c, <2>1 DEF NothingForgotten, Owed
  <2>5. StageInv'
    BY <2>1 DEF StageInv
  <2>6. QED
    BY <1>b, <1>c, <2>1, <2>2, <2>3, <2>4, <2>5, OnlyThisCopy
<1>5. ASSUME NEW f \in Files, CopyWrite(f) PROVE Sound'
  <2>1. /\ UNCHANGED <<source, stamp, built, store, pc>> /\ pc = "syncing"
        /\ status[f] = "created" /\ status' = [status EXCEPT ![f] = "written"]
        /\ raw' = [raw EXCEPT ![f] = [rev |-> source[f].rev, size |-> source[f].size,
                                      mtime |-> clock]]
    BY <1>5 DEF CopyWrite, env
  <2>2. /\ status'[f] = "written" /\ raw'[f].rev = source[f].rev
        /\ \A g \in Files : g # f => raw'[g] = raw[g] /\ status'[g] = status[g]
    BY <1>e, <2>1
  <2>3. source[f].rev # 0
    BY <2>1 DEF SourceInv
  <2>4. CopyTrue(f)'
    BY <1>c, <1>d, <2>1, <2>2, <2>3 DEF CopyInv, CopyTrue
  <2>5. Owed(f)'
    BY <2>1, <2>2 DEF Owed
  <2>6. StageInv'
    BY <2>1 DEF StageInv
  <2>7. QED
    BY <1>b, <1>c, <2>1, <2>2, <2>4, <2>5, <2>6, OnlyThisCopy
<1>6. ASSUME NEW f \in Files, CopyWriteFails(f) PROVE Sound'
  <2>1. /\ UNCHANGED <<source, stamp, built, store, pc>> /\ pc = "syncing"
        /\ status[f] = "created" /\ status' = [status EXCEPT ![f] = "none"]
    BY <1>6 DEF CopyWriteFails, env
  <2>2. PICK n \in Revision :
          /\ n < source[f].size
          /\ raw' = [raw EXCEPT ![f] = [rev |-> 0, size |-> n, mtime |-> clock]]
    BY <1>6 DEF CopyWriteFails
  <2>3. /\ status'[f] = "none" /\ raw'[f].rev = 0 /\ raw'[f].size = n
        /\ \A g \in Files : g # f => raw'[g] = raw[g] /\ status'[g] = status[g]
    BY <1>e, <2>1, <2>2
  <2>4. CopyTrue(f)'
    BY <1>d, <2>1, <2>2, <2>3 DEF CopyTrue
  <2>5. StageInv'
    BY <2>1 DEF StageInv
  <2>6. QED
    BY <1>b, <1>c, <2>1, <2>3, <2>4, <2>5, OnlyThisCopy
<1>7. ASSUME NEW f \in Files, CopyStamp(f) PROVE Sound'
  <2>1. /\ UNCHANGED <<source, stamp, built, store, pc>> /\ pc = "syncing"
        /\ status[f] = "written" /\ status' = [status EXCEPT ![f] = "copied"]
        /\ raw' = [raw EXCEPT ![f].mtime = stamp[f]]
    BY <1>7 DEF CopyStamp, env
  <2>2. /\ status'[f] = "copied" /\ raw'[f].mtime = stamp[f]
        /\ raw'[f].rev = raw[f].rev /\ raw'[f].size = raw[f].size
        /\ \A g \in Files : g # f => raw'[g] = raw[g] /\ status'[g] = status[g]
    BY <1>e, <2>1 DEF TypeOK
  <2>3. CopyTrue(f)'
    BY <1>c, <2>1, <2>2 DEF CopyInv, CopyTrue
  <2>4. Owed(f)'
    BY <2>1, <2>2 DEF Owed
  <2>5. StageInv'
    BY <2>1 DEF StageInv
  <2>6. QED
    BY <1>b, <1>c, <2>1, <2>2, <2>3, <2>4, <2>5, OnlyThisCopy
<1> USE <1>b, <1>c DEF StageInv, NothingForgotten, Owed
<1>8. CASE Analyze \/ AnalyzeFails \/ CollectFails
  BY <1>8 DEF Analyze, AnalyzeFails, CollectFails, env, CopyInv, CopyTrue
<1>9. CASE Collect
  <2>1. UNCHANGED <<source, raw, stamp, store, built>> /\ pc' = "syncing"
        /\ pc \notin {"syncing", "rebuilding"}
        /\ \A g \in Files : status'[g] \in {"queued", "none"} /\ status[g] = "none"
    BY <1>9 DEF Collect, env
  <2>2. CopyInv'
    BY <2>1 DEF CopyInv, CopyTrue
  <2>3. QED
    BY <2>1, <2>2
<1>10. CASE SyncEnds
  BY <1>10 DEF SyncEnds, Changed, env, CopyInv, CopyTrue
<1>11. CASE RebuildIncremental \/ RebuildFull
  <2>1. /\ UNCHANGED <<source, raw, stamp>> /\ built' /\ pc' = "done"
        /\ status' = NoCopies /\ \A g \in Files : status'[g] = "none"
    BY <1>11 DEF RebuildIncremental, RebuildFull, NoCopies, env
  <2>2. \A g \in Files : raw[g].rev # 0 => store'[g] = raw[g].rev
    BY <1>11 DEF RebuildIncremental, RebuildFull, Changed
  <2>3. \A g \in Files : status[g] \in {"none", "copied"}
    BY <1>11 DEF RebuildIncremental, RebuildFull
  <2>4. CopyInv'
    BY <2>1, <2>3 DEF CopyInv, CopyTrue
  <2>5. QED
    BY <2>1, <2>2, <2>4
<1>12. CASE UNCHANGED vars
  BY <1>12 DEF vars, env, run, CopyInv, CopyTrue
<1>13. QED
  BY <1>a, <1>1, <1>2, <1>3, <1>4, <1>5, <1>6, <1>7, <1>8, <1>9, <1>10, <1>11, <1>12
  DEF Next, CopyStep, RebuildStep, CopyStampFails, NeedsRebuildFails, RebuildFails, Crash

\* So they agree in every state.
LEMMA StoreInvAlways == Spec => [](TypeOK /\ SourceInv /\ StoreInv)
<1>1. Init => StoreInv
  BY DEF Init, StoreInv, StageInv, CopyInv, CopyTrue, NothingForgotten, NoCopies
<1>2. TypeOK /\ SourceInv /\ TypeOK' /\ SourceInv' /\ StoreInv /\ [Next]_vars => StoreInv'
  BY StoreInvInductive
<1>3. QED
  BY <1>1, <1>2, TypeCorrect, PTL DEF Spec

\* No archived revision is forgotten (Pipeline.Run, changedRawPathsByProvider).
THEOREM ArchiveRemembered == Spec => []NothingForgotten
<1>1. StoreInv => NothingForgotten
  BY DEF StoreInv, NothingForgotten
<1>2. QED
  BY <1>1, StoreInvAlways, PTL

\* A run that ends without an error leaves the store current (Pipeline.Run).
THEOREM RunsLeaveStoreCurrent == Spec => []DoneMeansStoreCurrent
<1>1. StoreInv => DoneMeansStoreCurrent
  BY DEF StoreInv, StageInv, NothingForgotten, DoneMeansStoreCurrent, Owed
<1>2. QED
  BY <1>1, StoreInvAlways, PTL

\* The analysis says "current" of nothing the store has not read
\* (Pipeline.Analyze, FileNeedsSync and copyFile together).
THEOREM AnalysisTruthful == Spec => []CurrentMeansArchived
<1>1. TypeOK /\ StoreInv => CurrentMeansArchived
  <2> SUFFICES ASSUME TypeOK, StoreInv, OnlyCopiesFailed, pc = "current", NEW f \in Files, Exists(f), ~NeedsSync(f)
               PROVE store[f] = source[f].rev
    BY DEF CurrentMeansArchived
  <2> USE DEF StoreInv
  <2>1. raw[f].size = source[f].size /\ source[f].rev <= raw[f].mtime
    BY BoundsAssumption DEF NeedsSync, TypeOK, Revision
  <2>2. raw[f].rev # 0
    BY <2>1, BoundsAssumption DEF StoreInv, CopyInv, CopyTrue, Exists, TypeOK, Revision
  <2>3. raw[f].rev = source[f].rev
    <3>1. status[f] = "none"
      BY DEF StoreInv, StageInv
    <3>2. raw[f].mtime <= raw[f].rev /\ raw[f].rev <= source[f].rev
      BY <2>2, <3>1 DEF StoreInv, CopyInv, CopyTrue
    <3>3. raw[f].rev \in Nat /\ raw[f].mtime \in Nat /\ source[f].rev \in Nat
      BY BoundsAssumption DEF TypeOK, Revision
    <3>4. QED
      BY <2>1, <3>2, <3>3
  <2>4. QED
    BY <2>2, <2>3 DEF StoreInv, StageInv, NothingForgotten, Owed
<1>2. QED
  BY <1>1, StoreInvAlways, PTL

-----------------------------------------------------------------------------
(* For the analysis: numbers, recursive functions, sequences *)

\* The order of the natural numbers, as a relation.
NatOrder == {ss \in Nat \X Nat : ss[1] < ss[2]}

\* A set of natural numbers has a least one.
LEMMA LeastNatural ==
  ASSUME NEW T \in SUBSET Nat, T # {}
  PROVE  \E m \in T : \A k \in T : m <= k
<1>1. IsWellFoundedOn(NatOrder, Nat)
  BY NatLessThanWellFounded, Zenon DEF OpToRel, NatOrder
<1>2. PICK m \in T : \A k \in T : ~(<<k, m>> \in NatOrder)
  BY <1>1, WFMin
<1>3. ASSUME NEW k \in T PROVE m <= k
  <2>1. k \in Nat /\ m \in Nat
    OBVIOUS
  <2>2. k < m => <<k, m>> \in NatOrder
    BY <2>1 DEF NatOrder
  <2>3. QED
    BY <1>2, <2>1, <2>2
<1>4. QED
  BY <1>3

\* Induction up to a bound, for a set.
LEMMA UpTo ==
  ASSUME NEW m \in Nat, NEW T,
         0 \in T, \A n \in 1..m : n - 1 \in T => n \in T
  PROVE  0..m \subseteq T
<1> DEFINE bad == {n \in 0..m : n \notin T}
<1>1. ASSUME bad # {} PROVE FALSE
  <2>1. bad \in SUBSET Nat
    OBVIOUS
  <2>2. \E j \in bad : \A i \in bad : j <= i
    <3> HIDE DEF bad
    <3>1. QED
      BY <1>1, <2>1, LeastNatural
  <2>3. PICK j \in bad : \A i \in bad : j <= i
    BY <2>2
  <2>4. j # 0 /\ j \in 0..m /\ j \notin T
    BY <2>3
  <2>5. j - 1 \in 0..m /\ j \in 1..m /\ ~(j <= j - 1)
    BY <2>4
  <2>6. j - 1 \in T
    BY <2>3, <2>5
  <2>7. QED
    BY <2>4, <2>5, <2>6
<1>2. QED
  BY <1>1

\* up begins with first, and each step gives the next.
Iterates(first, step, n, up) ==
    up[0] = first /\ \A i \in 1..n : up[i] = step[<<up[i - 1], i>>]

\* A step can be taken any number of times.
LEMMA IteratesExist ==
  ASSUME NEW X, NEW first \in X, NEW n \in Nat, NEW step \in [X \X (1..n) -> X]
  PROVE  \E up \in [0..n -> X] : Iterates(first, step, n, up)
<1> DEFINE good == {k \in 0..n : \E up \in [0..k -> X] : Iterates(first, step, k, up)}
<1>1. 0 \in good
  <2>1. [i \in 0..0 |-> first] \in [0..0 -> X] /\ Iterates(first, step, 0, [i \in 0..0 |-> first])
    BY DEF Iterates
  <2>2. QED
    BY <2>1
<1>2. ASSUME NEW k \in 1..n, k - 1 \in good PROVE k \in good
  <2>1. PICK up \in [0..(k - 1) -> X] : Iterates(first, step, k - 1, up)
    BY <1>2
  <2>2. PICK next \in X : next = step[<<up[k - 1], k>>]
    OBVIOUS
  <2>3. PICK longer : longer = [i \in 0..k |-> IF i = k THEN next ELSE up[i]]
    OBVIOUS
  <2>4. \A i \in 0..k : i # k => i \in 0..(k - 1)
    OBVIOUS
  <2>5. longer \in [0..k -> X]
    BY <2>3, <2>4
  <2>6. longer[0] = first
    BY <2>1, <2>3 DEF Iterates
  <2>7. ASSUME NEW i \in 1..k PROVE longer[i] = step[<<longer[i - 1], i>>]
    <3>1. i - 1 \in 0..(k - 1) /\ longer[i - 1] = up[i - 1]
      BY <2>3
    <3>2. CASE i = k
      <4>1. longer[i] = next
        BY <2>3, <3>2
      <4>2. next = step[<<up[i - 1], i>>]
        BY <2>2, <3>2
      <4>3. QED
        BY <3>1, <4>1, <4>2
    <3>3. CASE i # k
      <4>1. i \in 1..(k - 1) /\ longer[i] = up[i]
        BY <2>3, <3>3
      <4>2. QED
        BY <2>1, <3>1, <4>1 DEF Iterates
    <3>4. QED
      BY <3>2, <3>3
  <2>8. Iterates(first, step, k, longer)
    BY <2>6, <2>7 DEF Iterates
  <2>9. QED
    BY <2>5, <2>8
<1>3. 0..n \subseteq good
  <2> HIDE DEF good
  <2>1. QED
    BY <1>1, <1>2, UpTo
<1>4. QED
  BY <1>3

\* No element twice.
Distinct(s) == \A i, j \in DOMAIN s : s[i] = s[j] => i = j

\* One element more.
LEMMA AppendSet ==
  ASSUME NEW S, NEW s \in Seq(S), NEW e \in S
  PROVE  /\ Append(s, e) \in Seq(S) /\ ToSet(Append(s, e)) = ToSet(s) \cup {e}
         /\ Distinct(s) /\ e \notin ToSet(s) => Distinct(Append(s, e))
<1>1. PICK t \in Seq(S) : t = Append(s, e)
  BY AppendProperties
<1>2. PICK n \in Nat : n = Len(s)
  BY LenProperties
<1>3. Len(t) = n + 1 /\ t[n + 1] = e /\ \A i \in 1..n : t[i] = s[i]
  BY <1>1, <1>2, AppendProperties
<1>4. DOMAIN s = 1..n /\ DOMAIN t = 1..(n + 1)
  BY <1>2, <1>3, LenProperties
<1>5. ToSet(s) = {s[i] : i \in 1..n} /\ ToSet(t) = {t[i] : i \in 1..(n + 1)}
  BY <1>4 DEF ToSet
<1>6. \A i \in 1..(n + 1) : i \in 1..n \/ i = n + 1
  OBVIOUS
<1>7. 1..n \subseteq 1..(n + 1) /\ n + 1 \in 1..(n + 1)
  OBVIOUS
<1>8. ToSet(t) = ToSet(s) \cup {e}
  <2>1. ASSUME NEW x \in ToSet(t) PROVE x \in ToSet(s) \cup {e}
    BY <1>3, <1>5, <1>6
  <2>2. ASSUME NEW x \in ToSet(s) \cup {e} PROVE x \in ToSet(t)
    BY <1>3, <1>5, <1>7
  <2>3. QED
    BY <2>1, <2>2
<1>9. ASSUME Distinct(s), e \notin ToSet(s) PROVE Distinct(t)
  <2>1. ASSUME NEW i \in 1..(n + 1), NEW j \in 1..(n + 1), t[i] = t[j] PROVE i = j
    BY <1>3, <1>4, <1>5, <1>6, <1>9, <2>1 DEF Distinct
  <2>2. QED
    BY <1>4, <2>1 DEF Distinct
<1>10. QED
  BY <1>1, <1>8, <1>9

\* Two sequences joined.
LEMMA ConcatSet ==
  ASSUME NEW S, NEW s \in Seq(S), NEW t \in Seq(S)
  PROVE  /\ s \o t \in Seq(S) /\ ToSet(s \o t) = ToSet(s) \cup ToSet(t)
         /\ Distinct(s) /\ Distinct(t) /\ ToSet(s) \cap ToSet(t) = {} => Distinct(s \o t)
<1>1. PICK st \in Seq(S) : st = s \o t
  BY ConcatProperties
<1>2. PICK n \in Nat, m \in Nat : n = Len(s) /\ m = Len(t)
  BY LenProperties
<1>3. Len(st) = n + m /\ \A i \in 1..(n + m) : st[i] = IF i <= n THEN s[i] ELSE t[i - n]
  BY <1>1, <1>2, ConcatProperties
<1>4. DOMAIN s = 1..n /\ DOMAIN t = 1..m /\ DOMAIN st = 1..(n + m)
  BY <1>2, <1>3, LenProperties
<1>5. \A i \in 1..(n + m) : (i <= n => i \in 1..n) /\ (~(i <= n) => i - n \in 1..m)
  OBVIOUS
<1>6. \A i \in 1..n : i \in 1..(n + m) /\ i <= n
  OBVIOUS
<1>7. \A i \in 1..m : i + n \in 1..(n + m) /\ ~(i + n <= n) /\ (i + n) - n = i
  OBVIOUS
<1>8. /\ ToSet(s) = {s[i] : i \in 1..n} /\ ToSet(t) = {t[i] : i \in 1..m}
      /\ ToSet(st) = {st[i] : i \in 1..(n + m)}
  BY <1>4 DEF ToSet
<1>9. ToSet(st) = ToSet(s) \cup ToSet(t)
  <2>1. ASSUME NEW x \in ToSet(st) PROVE x \in ToSet(s) \cup ToSet(t)
    BY <1>3, <1>5, <1>8
  <2>2. ASSUME NEW x \in ToSet(s) PROVE x \in ToSet(st)
    BY <1>3, <1>6, <1>8
  <2>3. ASSUME NEW x \in ToSet(t) PROVE x \in ToSet(st)
    BY <1>3, <1>7, <1>8
  <2>4. QED
    BY <2>1, <2>2, <2>3
<1>10. ASSUME Distinct(s), Distinct(t), ToSet(s) \cap ToSet(t) = {} PROVE Distinct(st)
  <2>1. ASSUME NEW i \in 1..(n + m), NEW j \in 1..(n + m), st[i] = st[j] PROVE i = j
    <3>1. CASE i <= n /\ j <= n
      BY <1>3, <1>4, <1>5, <1>10, <2>1, <3>1 DEF Distinct
    <3>2. CASE ~(i <= n) /\ ~(j <= n)
      <4>1. i - n \in 1..m /\ j - n \in 1..m /\ t[i - n] = t[j - n]
        BY <1>3, <1>5, <2>1, <3>2
      <4>2. i - n = j - n
        BY <1>4, <1>10, <4>1 DEF Distinct
      <4>3. QED
        BY <4>2
    <3>3. CASE ~((i <= n) <=> (j <= n))
      <4>1. st[i] \in ToSet(s) \cap ToSet(t)
        BY <1>3, <1>5, <1>8, <2>1, <3>3
      <4>2. QED
        BY <1>10, <4>1
    <3>4. QED
      BY <3>1, <3>2, <3>3
  <2>2. QED
    BY <1>4, <2>1 DEF Distinct
<1>11. QED
  BY <1>1, <1>9, <1>10

\* The elements of a sequence are as many as its places, if it has none twice.
LEMMA ElementsCounted ==
  ASSUME NEW S, NEW s \in Seq(S)
  PROVE  IsFiniteSet(ToSet(s)) /\ (Distinct(s) => Cardinality(ToSet(s)) = Len(s))
<1>1. PICK n \in Nat : n = Len(s) /\ DOMAIN s = 1..n
  BY LenProperties
<1>2. PICK at : at = [i \in 1..n |-> s[i]]
  OBVIOUS
<1>3. at \in Surjection(1..n, ToSet(s))
  BY <1>1, <1>2 DEF Surjection, ToSet
<1>4. IsFiniteSet(1..n) /\ Cardinality(1..n) = n
  BY FS_Interval
<1>5. IsFiniteSet(ToSet(s))
  BY <1>3, <1>4, FS_Surjection
<1>6. ASSUME Distinct(s) PROVE Cardinality(ToSet(s)) = n
  <2>1. at \in Bijection(1..n, ToSet(s))
    BY <1>1, <1>2, <1>3, <1>6 DEF Bijection, Injection, Surjection, IsInjective, Distinct
  <2>2. QED
    BY <2>1, FS_CountingElements DEF ExistsBijection
<1>7. QED
  BY <1>1, <1>5, <1>6

\* One number more.
LEMMA OneMore ==
  ASSUME NEW n \in Nat, NEW k \in 1..n
  PROVE  /\ k - 1 \in Nat /\ k - 1 \in 0..n /\ k \in 0..n /\ k # 0
         /\ 1..k = 1..(k - 1) \cup {k} /\ k \notin 1..(k - 1) /\ 1..k \subseteq 1..n
  OBVIOUS

\* kept is the recursive function of Kept.
Keeps(s, which, n, kept) ==
    kept = [i \in 0..n |->
               IF i = 0 THEN <<>>
               ELSE IF s[i] \in which THEN Append(kept[i - 1], s[i])
               ELSE kept[i - 1]]

\* What Kept leaves: the elements that are to be kept, none twice if there was none.
LEMMA KeptIs ==
  ASSUME NEW S, NEW s \in Seq(S), NEW which
  PROVE  /\ Kept(s, which) \in Seq(S) /\ ToSet(Kept(s, which)) = ToSet(s) \cap which
         /\ Distinct(s) => Distinct(Kept(s, which))
<1>1. PICK n \in Nat : n = Len(s) /\ DOMAIN s = 1..n
  BY LenProperties
<1>2. \A i \in 1..n : s[i] \in S
  BY <1>1, ElementOfSeq
<1>3. \E kept : Keeps(s, which, n, kept)
  <2> DEFINE next(t, i) == IF s[i] \in which THEN Append(t, s[i]) ELSE t
  <2>1. \A t \in Seq(S), i \in 1..n : next(t, i) \in Seq(S)
    BY <1>2, AppendProperties
  <2>2. PICK step : step = [ti \in Seq(S) \X (1..n) |-> next(ti[1], ti[2])]
    OBVIOUS
  <2> HIDE DEF next
  <2>3. step \in [Seq(S) \X (1..n) -> Seq(S)]
    BY <2>1, <2>2
  <2>4. <<>> \in Seq(S)
    BY EmptySeq
  <2>5. PICK kept \in [0..n -> Seq(S)] : Iterates(<<>>, step, n, kept)
    BY <2>3, <2>4, IteratesExist
  <2>6. \A i \in 1..n : kept[i - 1] \in Seq(S) /\ kept[i] = next(kept[i - 1], i)
    <3> TAKE i \in 1..n
    <3>1. kept[i - 1] \in Seq(S)
      BY OneMore
    <3>2. kept[i] = step[<<kept[i - 1], i>>]
      BY <2>5 DEF Iterates
    <3>3. QED
      BY <2>2, <3>1, <3>2
  <2>7. kept = [i \in 0..n |-> kept[i]] /\ kept[0] = <<>>
    BY <2>5 DEF Iterates
  <2>8. \A i \in 0..n : kept[i] = IF i = 0 THEN <<>> ELSE next(kept[i - 1], i)
    <3> TAKE i \in 0..n
    <3>1. CASE i = 0
      BY <2>7, <3>1
    <3>2. CASE i # 0
      <4>1. i \in 1..n
        BY <3>2
      <4>2. QED
        BY <2>6, <3>2, <4>1
    <3>3. QED
      BY <3>1, <3>2
  <2>9. kept = [i \in 0..n |-> IF i = 0 THEN <<>> ELSE next(kept[i - 1], i)]
    BY <2>7, <2>8
  <2>10. Keeps(s, which, n, kept)
    BY <2>9 DEF Keeps, next
  <2>11. QED
    BY <2>10
<1>4. Kept(s, which) = (CHOOSE kept : Keeps(s, which, n, kept))[n]
  BY <1>1 DEF Kept, Keeps
<1>5. PICK kept : Keeps(s, which, n, kept) /\ Kept(s, which) = kept[n]
  BY <1>3, <1>4
<1> DEFINE good ==
      {k \in 0..n : /\ kept[k] \in Seq(S) /\ ToSet(kept[k]) = {s[i] : i \in 1..k} \cap which
                    /\ Distinct(s) => Distinct(kept[k])}
<1>6. 0 \in good
  <2>1. 0 \in 0..n /\ kept[0] = <<>>
    <3>1. 0 \in 0..n
      OBVIOUS
    <3>2. QED
      BY <1>5, <3>1 DEF Keeps
  <2>2. <<>> \in Seq(S) /\ ToSet(<<>>) = {} /\ Distinct(<<>>)
    BY EmptySeq DEF ToSet, Distinct
  <2>3. {s[i] : i \in 1..0} = {}
    OBVIOUS
  <2>4. QED
    BY <2>1, <2>2, <2>3
<1>7. ASSUME NEW k \in 1..n, k - 1 \in good PROVE k \in good
  <2>1. PICK t \in Seq(S) : t = kept[k - 1]
    BY <1>7
  <2>2. ToSet(t) = {s[i] : i \in 1..(k - 1)} \cap which /\ (Distinct(s) => Distinct(t))
    BY <1>7, <2>1
  <2>3. kept[k] = IF s[k] \in which THEN Append(t, s[k]) ELSE t
    <3>1. k \in 0..n /\ k # 0
      BY OneMore
    <3>2. kept[k] = IF s[k] \in which THEN Append(kept[k - 1], s[k]) ELSE kept[k - 1]
      BY <1>5, <3>1 DEF Keeps
    <3>3. QED
      BY <2>1, <3>2
  <2>4. s[k] \in S
    BY <1>2
  <2>5. {s[i] : i \in 1..k} = {s[i] : i \in 1..(k - 1)} \cup {s[k]}
    <3>1. 1..k = 1..(k - 1) \cup {k}
      BY OneMore
    <3>2. QED
      BY <3>1
  <2>6. Distinct(s) => s[k] \notin {s[i] : i \in 1..(k - 1)}
    BY <1>1, OneMore DEF Distinct
  <2>7. CASE s[k] \in which
    <3>1. /\ Append(t, s[k]) \in Seq(S) /\ ToSet(Append(t, s[k])) = ToSet(t) \cup {s[k]}
          /\ Distinct(t) /\ s[k] \notin ToSet(t) => Distinct(Append(t, s[k]))
      BY <2>4, AppendSet
    <3>2. kept[k] = Append(t, s[k])
      BY <2>3, <2>7
    <3>3. k \in 0..n
      BY OneMore
    <3>4. QED
      BY <2>2, <2>5, <2>6, <2>7, <3>1, <3>2, <3>3
  <2>8. CASE s[k] \notin which
    <3>1. kept[k] = t /\ k \in 0..n
      BY <2>3, <2>8, OneMore
    <3>2. QED
      BY <2>2, <2>5, <2>8, <3>1
  <2>9. QED
    BY <2>7, <2>8
<1>8. 0..n \subseteq good
  <2> HIDE DEF good
  <2>1. QED
    BY <1>6, <1>7, UpTo
<1>9. n \in 0..n /\ n \in good
  <2>1. n \in 0..n
    OBVIOUS
  <2>2. QED
    BY <1>8, <2>1
<1>10. {s[i] : i \in 1..n} = ToSet(s)
  BY <1>1 DEF ToSet
<1>11. QED
  BY <1>5, <1>9, <1>10

-----------------------------------------------------------------------------
(* Conversations of a project *)

\* A session has a slug or has none.
LEMMA SlugIs ==
  ASSUME NEW x \in Session
  PROVE  SlugOf(x.lines) \in Slugs \cup {NoSlug}
<1> DEFINE named == {i \in DOMAIN x.lines : x.lines[i].user /\ x.lines[i].slug # NoSlug}
<1>1. x.lines \in Seq([user : BOOLEAN, slug : Slugs \cup {NoSlug}])
  BY DEF Session
<1>2. \A i \in DOMAIN x.lines : i \in Nat /\ x.lines[i].slug \in Slugs \cup {NoSlug}
  <2>1. PICK lines \in Seq([user : BOOLEAN, slug : Slugs \cup {NoSlug}]) : lines = x.lines
    BY <1>1
  <2>2. \A i \in 1..Len(lines) : lines[i] \in [user : BOOLEAN, slug : Slugs \cup {NoSlug}]
    BY ElementOfSeq
  <2>3. DOMAIN lines = 1..Len(lines) /\ Len(lines) \in Nat
    BY LenProperties
  <2>4. QED
    BY <2>1, <2>2, <2>3
<1>3. SlugOf(x.lines) = IF named = {} THEN NoSlug ELSE x.lines[Min(named)].slug
  BY DEF SlugOf
<1>4. CASE named = {}
  BY <1>3, <1>4
<1>5. CASE named # {}
  <2>1. named \in SUBSET Nat /\ named \subseteq DOMAIN x.lines
    BY <1>2
  <2> HIDE DEF named
  <2>2. Min(named) \in named
    BY <1>5, <2>1, LeastNatural DEF Min
  <2>3. QED
    BY <1>2, <1>3, <1>5, <2>1, <2>2
<1>6. QED
  BY <1>4, <1>5

\* How the files of a conversation stand after the first k.
StandsAfter(files, found, k, state) ==
    /\ state \in [hasUpToDate : BOOLEAN, hasStale : BOOLEAN, allNew : BOOLEAN]
    /\ state.hasUpToDate <=> \E i \in 1..k : found[files[i]] = "current"
    /\ state.hasStale <=> \E i \in 1..k : found[files[i]] # "current"
    /\ state.allNew <=> /\ k # 0 /\ found[files[1]] = "new"
                       /\ \A i \in 1..k : found[files[i]] # "current"

\* One file more.
LEMMA StandsNext ==
  ASSUME NEW files, NEW found, NEW n \in Nat, NEW k \in 1..n, NEW state,
         StandsAfter(files, found, k - 1, state)
  PROVE  StandsAfter(files, found, k, RecordClassifiedConversation(state, found[files[k]]))
<1>1. PICK standing : standing = found[files[k]]
  OBVIOUS
<1>2. PICK up \in BOOLEAN, stale \in BOOLEAN, new \in BOOLEAN :
        state = [hasUpToDate |-> up, hasStale |-> stale, allNew |-> new]
  BY DEF StandsAfter
<1>3. /\ up <=> \E i \in 1..(k - 1) : found[files[i]] = "current"
      /\ stale <=> \E i \in 1..(k - 1) : found[files[i]] # "current"
      /\ new <=> /\ k - 1 # 0 /\ found[files[1]] = "new"
                /\ \A i \in 1..(k - 1) : found[files[i]] # "current"
  BY <1>2 DEF StandsAfter
<1>4. 1..k = 1..(k - 1) \cup {k} /\ k # 0 /\ k \notin 1..(k - 1) /\ (k - 1 = 0 => k = 1)
  BY OneMore
<1>5. k - 1 # 0 => 1 \in 1..(k - 1)
  OBVIOUS
<1>6. k - 1 = 0 => 1..(k - 1) = {}
  OBVIOUS
<1>7. CASE standing = "current"
  <2>1. RecordClassifiedConversation(state, found[files[k]])
          = [hasUpToDate |-> TRUE, hasStale |-> stale, allNew |-> FALSE]
    BY <1>1, <1>2, <1>7 DEF RecordClassifiedConversation
  <2>2. \E i \in 1..k : found[files[i]] = "current"
    BY <1>1, <1>4, <1>7
  <2>3. stale <=> \E i \in 1..k : found[files[i]] # "current"
    BY <1>1, <1>3, <1>4, <1>7
  <2>4. QED
    BY <2>1, <2>2, <2>3 DEF StandsAfter
<1>8. CASE standing # "current"
  <2>1. PICK new2 \in BOOLEAN : new2 = (~up /\ (new \/ (standing = "new" /\ ~stale)))
    OBVIOUS
  <2>2. RecordClassifiedConversation(state, found[files[k]])
          = [hasUpToDate |-> up, hasStale |-> TRUE, allNew |-> new2]
    BY <1>1, <1>2, <1>8, <2>1 DEF RecordClassifiedConversation
  <2>3. \E i \in 1..k : found[files[i]] # "current"
    BY <1>1, <1>4, <1>8
  <2>4. up <=> \E i \in 1..k : found[files[i]] = "current"
    BY <1>1, <1>3, <1>4, <1>8
  <2>5. ~up <=> \A i \in 1..k : found[files[i]] # "current"
    BY <2>4
  <2>6. new2 <=> ~up /\ found[files[1]] = "new"
    <3>1. CASE k - 1 = 0
      BY <1>1, <1>3, <1>4, <1>6, <2>1, <3>1
    <3>2. CASE k - 1 # 0
      <4>1. ~up => stale
        BY <1>3, <1>5, <3>2
      <4>2. new <=> found[files[1]] = "new" /\ ~up
        BY <1>3, <3>2
      <4>3. QED
        BY <2>1, <4>1, <4>2
    <3>3. QED
      BY <3>1, <3>2
  <2>7. QED
    BY <1>4, <2>2, <2>3, <2>4, <2>5, <2>6 DEF StandsAfter
<1>9. QED
  BY <1>7, <1>8

\* after is the recursive function of ConversationState.
Records(files, found, n, after) ==
    after = [i \in 0..n |->
                IF i = 0 THEN Unseen
                ELSE RecordClassifiedConversation(after[i - 1], found[files[i]])]

\* What is recorded of a conversation tells how all of its files stand.
LEMMA ConversationStands ==
  ASSUME NEW files, NEW found, NEW n \in Nat, n = Len(files)
  PROVE  StandsAfter(files, found, n, ConversationState(files, found))
<1> DEFINE States == [hasUpToDate : BOOLEAN, hasStale : BOOLEAN, allNew : BOOLEAN]
           next(state, i) == RecordClassifiedConversation(state, found[files[i]])
<1>1. \E after : Records(files, found, n, after)
  <2>1. \A state \in States, i \in 1..n : next(state, i) \in States
    BY DEF RecordClassifiedConversation
  <2>2. PICK step : step = [si \in States \X (1..n) |-> next(si[1], si[2])]
    OBVIOUS
  <2>3. Unseen \in States
    BY DEF Unseen
  <2> HIDE DEF next, States
  <2>4. step \in [States \X (1..n) -> States]
    BY <2>1, <2>2
  <2>5. PICK after \in [0..n -> States] : Iterates(Unseen, step, n, after)
    BY <2>3, <2>4, IteratesExist
  <2>6. \A i \in 0..n : after[i] = IF i = 0 THEN Unseen ELSE next(after[i - 1], i)
    <3> TAKE i \in 0..n
    <3>1. CASE i = 0
      BY <2>5, <3>1 DEF Iterates
    <3>2. CASE i # 0
      <4>1. i \in 1..n /\ after[i - 1] \in States
        BY <3>2
      <4>2. after[i] = step[<<after[i - 1], i>>]
        BY <2>5, <4>1 DEF Iterates
      <4>3. QED
        BY <2>2, <3>2, <4>1, <4>2
    <3>3. QED
      BY <3>1, <3>2
  <2>7. after = [i \in 0..n |-> IF i = 0 THEN Unseen ELSE next(after[i - 1], i)]
    BY <2>6
  <2>8. Records(files, found, n, after)
    BY <2>7 DEF Records, next
  <2>9. QED
    BY <2>8
<1>2. ConversationState(files, found) = (CHOOSE after : Records(files, found, n, after))[n]
  BY DEF ConversationState, Records
<1>3. PICK after : Records(files, found, n, after) /\ ConversationState(files, found) = after[n]
  BY <1>1, <1>2
<1> DEFINE good == {k \in 0..n : StandsAfter(files, found, k, after[k])}
<1>4. 0 \in good
  <2>1. 0 \in 0..n /\ after[0] = Unseen
    <3>1. 0 \in 0..n
      OBVIOUS
    <3>2. QED
      BY <1>3, <3>1 DEF Records
  <2>2. StandsAfter(files, found, 0, Unseen)
    BY DEF StandsAfter, Unseen
  <2>3. QED
    BY <2>1, <2>2
<1>5. ASSUME NEW k \in 1..n, k - 1 \in good PROVE k \in good
  <2>1. k \in 0..n /\ k # 0
    BY OneMore
  <2>2. after[k] = RecordClassifiedConversation(after[k - 1], found[files[k]])
    BY <1>3, <2>1 DEF Records
  <2>3. StandsAfter(files, found, k - 1, after[k - 1])
    BY <1>5
  <2>4. QED
    BY <2>1, <2>2, <2>3, StandsNext
<1>6. 0..n \subseteq good
  <2> HIDE DEF good
  <2>1. QED
    BY <1>4, <1>5, UpTo
<1>7. n \in 0..n
  OBVIOUS
<1>8. QED
  BY <1>3, <1>6, <1>7

\* The same in terms of the set of files.
LEMMA StandsAll ==
  ASSUME NEW files \in Seq(Paths), NEW found, NEW state, state = ConversationState(files, found)
  PROVE  /\ state.hasStale <=> \E f \in ToSet(files) : found[f] # "current"
         /\ state.allNew => /\ \A f \in ToSet(files) : found[f] # "current"
                           /\ \E f \in ToSet(files) : found[f] = "new"
         /\ files # <<>> /\ (\A f \in ToSet(files) : found[f] = "new") => state.allNew
<1>1. PICK n \in Nat : n = Len(files) /\ DOMAIN files = 1..n
  BY LenProperties
<1>2. StandsAfter(files, found, n, state)
  BY <1>1, ConversationStands
<1>3. ToSet(files) = {files[i] : i \in 1..n}
  BY <1>1 DEF ToSet
<1>4. n # 0 => 1 \in 1..n
  OBVIOUS
<1>5. files # <<>> => n # 0
  BY <1>1, EmptySeq
<1>6. /\ state.hasStale <=> \E i \in 1..n : found[files[i]] # "current"
      /\ state.allNew <=> /\ n # 0 /\ found[files[1]] = "new"
                         /\ \A i \in 1..n : found[files[i]] # "current"
  BY <1>2 DEF StandsAfter
<1>7. (\A f \in ToSet(files) : found[f] = "new") => \A i \in 1..n : found[files[i]] # "current"
  BY <1>3
<1>8. QED
  BY <1>3, <1>4, <1>5, <1>6, <1>7

\* The files of some sessions.
LEMMA FilesAre ==
  ASSUME NEW sessions \in Seq(Session)
  PROVE  /\ FilesOf(sessions) \in Seq(Paths) /\ Len(FilesOf(sessions)) = Len(sessions)
         /\ ToSet(FilesOf(sessions)) = {x.file : x \in ToSet(sessions)}
         /\ Distinct(sessions) /\ (\A x, y \in ToSet(sessions) : x.file = y.file => x = y)
                => Distinct(FilesOf(sessions))
<1>1. PICK n \in Nat : n = Len(sessions) /\ DOMAIN sessions = 1..n
  BY LenProperties
<1>2. \A i \in 1..n : sessions[i] \in Session /\ sessions[i].file \in Paths
  <2>1. \A i \in 1..n : sessions[i] \in Session
    BY <1>1, ElementOfSeq
  <2>2. \A x \in Session : x.file \in Paths
    BY DEF Session
  <2>3. QED
    BY <2>1, <2>2
<1>3. PICK files : files = [i \in 1..n |-> sessions[i].file]
  OBVIOUS
<1>4. FilesOf(sessions) = files /\ DOMAIN files = 1..n
  BY <1>1, <1>3 DEF FilesOf
<1>5. files \in Seq(Paths) /\ Len(files) = n
  <2>1. files \in [1..n -> Paths]
    BY <1>2, <1>3
  <2>2. QED
    BY <2>1
<1>6. ToSet(files) = {x.file : x \in ToSet(sessions)}
  BY <1>1, <1>3, <1>4 DEF ToSet
<1>7. ASSUME Distinct(sessions), \A x, y \in ToSet(sessions) : x.file = y.file => x = y
      PROVE  Distinct(files)
  <2>1. \A i \in 1..n : sessions[i] \in ToSet(sessions)
    BY <1>1 DEF ToSet
  <2>2. ASSUME NEW i \in 1..n, NEW j \in 1..n, files[i] = files[j] PROVE i = j
    BY <1>1, <1>3, <1>7, <2>1, <2>2 DEF Distinct
  <2>3. QED
    BY <1>4, <2>2 DEF Distinct
<1>8. QED
  BY <1>1, <1>4, <1>5, <1>6, <1>7

\* Sets told apart are as many as what they are told apart by.
LEMMA ImagesCounted ==
  ASSUME NEW G, IsFiniteSet(G), NEW image, \A g, h \in G : image[g] = image[h] => g = h
  PROVE  IsFiniteSet({image[g] : g \in G}) /\ Cardinality({image[g] : g \in G}) = Cardinality(G)
<1>1. PICK of : of = [g \in G |-> image[g]]
  OBVIOUS
<1>2. of \in Bijection(G, {image[g] : g \in G})
  BY <1>1 DEF Bijection, Injection, Surjection, IsInjective
<1>3. QED
  BY <1>2, FS_Bijection DEF ExistsBijection

\* The counts of three parts are the count of the whole.
LEMMA PartsCounted ==
  ASSUME NEW G, IsFiniteSet(G), NEW new \in SUBSET G, NEW stale \in SUBSET G, new \subseteq stale
  PROVE  /\ Cardinality(new) \in Nat /\ Cardinality(stale \ new) \in Nat
         /\ Cardinality(G \ (new \cup stale)) \in Nat /\ Cardinality(G) \in Nat
         /\ Cardinality(new) + Cardinality(stale \ new) + Cardinality(G \ (new \cup stale)) = Cardinality(G)
<1>1. IsFiniteSet(new) /\ IsFiniteSet(stale)
  BY FS_Subset
<1>2. G \cap stale = stale /\ stale \cap new = new /\ new \cup stale = stale
  OBVIOUS
<1>3. IsFiniteSet(G \ stale) /\ Cardinality(G \ stale) = Cardinality(G) - Cardinality(stale)
  BY <1>2, FS_Difference
<1>4. IsFiniteSet(stale \ new) /\ Cardinality(stale \ new) = Cardinality(stale) - Cardinality(new)
  <2>1. /\ IsFiniteSet(stale \ new)
        /\ Cardinality(stale \ new) = Cardinality(stale) - Cardinality(stale \cap new)
    BY <1>1, FS_Difference
  <2>2. Cardinality(stale \cap new) = Cardinality(new)
    BY <1>2
  <2>3. QED
    BY <2>1, <2>2
<1>5. /\ Cardinality(new) \in Nat /\ Cardinality(stale) \in Nat /\ Cardinality(G) \in Nat
      /\ Cardinality(stale \ new) \in Nat /\ Cardinality(G \ stale) \in Nat
  BY <1>1, <1>3, <1>4, FS_CardinalityType
<1>6. Cardinality(new) + Cardinality(stale \ new) + Cardinality(G \ stale) = Cardinality(G)
  BY <1>3, <1>4, <1>5
<1>7. G \ (new \cup stale) = G \ stale
  OBVIOUS
<1>8. QED
  BY <1>5, <1>6, <1>7

\* The files of the sessions of a group.
FilesIn(S, group) == {x.file : x \in {y \in S : GroupOf(y) = group}}

\* Sessions are of one group if they are of one conversation.
LEMMA TogetherIsGroup ==
  ASSUME NEW s \in Session, NEW t \in Session, s.file = t.file => s = t
  PROVE  Together(s, t) <=> GroupOf(s) = GroupOf(t)
<1>1. /\ s.file \in Paths /\ t.file \in Paths
      /\ s.file \notin Slugs \cup {NoSlug} /\ t.file \notin Slugs \cup {NoSlug}
  BY SlugsAssumption DEF Session
<1>2. SlugOf(s.lines) \in Slugs \cup {NoSlug} /\ SlugOf(t.lines) \in Slugs \cup {NoSlug}
  BY SlugIs
<1>3. s.subagent \in BOOLEAN /\ t.subagent \in BOOLEAN
  BY DEF Session
<1>4. QED
  BY <1>1, <1>2, <1>3 DEF Together, GroupOf

\* The conversations of a project are its groups.
LEMMA ConversationsAreGroups ==
  ASSUME NEW S \in SUBSET Session, \A x, y \in S : x.file = y.file => x = y
  PROVE  ProjectConversations(S) = {FilesIn(S, g) : g \in {GroupOf(x) : x \in S}}
<1>1. ASSUME NEW s \in S
      PROVE  {t.file : t \in {x \in S : Together(s, x)}} = FilesIn(S, GroupOf(s))
  <2>1. \A t \in S : Together(s, t) <=> GroupOf(t) = GroupOf(s)
    BY TogetherIsGroup
  <2>2. {x \in S : Together(s, x)} = {y \in S : GroupOf(y) = GroupOf(s)}
    BY <2>1
  <2>3. QED
    BY <2>2 DEF FilesIn
<1>2. ProjectConversations(S) = {FilesIn(S, GroupOf(s)) : s \in S}
  BY <1>1, Zenon DEF ProjectConversations
<1>3. QED
  BY <1>2, Zenon

\* Conversations of which all files stand as wanted.
AllStand(found, standings) == {g \in SUBSET Paths : \A f \in g : found[f] \in standings}
Mixed(found) == AllStand(found, {"new", "stale"}) \ AllStand(found, {"stale"})

\* What the counts of an analysis say of conversations.
AreConversations(groups) == IsFiniteSet(groups) /\ {} \notin groups /\ groups \subseteq SUBSET Paths

\* The three numbers, as conversations stand.
NumbersFit(new, toUpdate, upToDate, groups, found) ==
    /\ new \in Nat /\ toUpdate \in Nat /\ upToDate \in Nat
    /\ new + toUpdate + upToDate = Cardinality(groups)
    /\ upToDate = Cardinality(groups \cap AllStand(found, {"current"}))
    /\ new >= Cardinality(groups \cap AllStand(found, {"new"}))
    /\ new <= Cardinality(groups \cap Mixed(found))

\* The queue: what waits of them, each once.
QueueFits(queued, groups, found) ==
    /\ queued \in Seq(Paths) /\ Distinct(queued)
    /\ ToSet(queued) = {f \in UNION groups : found[f] \in {"new", "stale"}}

\* An analysis of conversations.
CountsFit(a, groups, found) ==
    /\ AreConversations(groups)
    /\ NumbersFit(a.new, a.toUpdate, a.upToDate, groups, found)
    /\ QueueFits(a.queued, groups, found)

\* Of conversations with no file in common, those of a kind are counted apart.
KindsAdd(A, B, K) ==
    /\ Cardinality(A \cap K) \in Nat /\ Cardinality(B \cap K) \in Nat
    /\ Cardinality((A \cup B) \cap K) = Cardinality(A \cap K) + Cardinality(B \cap K)

\* They are, where no conversation is in both.
LEMMA KindsCounted ==
  ASSUME NEW A, NEW B, IsFiniteSet(A), IsFiniteSet(B), A \cap B = {}, NEW K
  PROVE  KindsAdd(A, B, K)
<1>1. PICK AK, BK : AK = A \cap K /\ BK = B \cap K
  OBVIOUS
<1>2. IsFiniteSet(AK) /\ IsFiniteSet(BK)
  BY <1>1, FS_Intersection
<1>3. (A \cup B) \cap K = AK \cup BK /\ AK \cap BK = {}
  BY <1>1
<1>4. Cardinality(AK \cup BK) = Cardinality(AK) + Cardinality(BK) - Cardinality(AK \cap BK)
  BY <1>2, FS_Union
<1>5. Cardinality(AK \cap BK) = 0
  BY <1>3, FS_EmptySet
<1>6. Cardinality(AK) \in Nat /\ Cardinality(BK) \in Nat
  BY <1>2, FS_CardinalityType
<1>7. Cardinality(AK \cup BK) = Cardinality(AK) + Cardinality(BK)
  BY <1>4, <1>5, <1>6
<1>8. QED
  BY <1>1, <1>3, <1>6, <1>7 DEF KindsAdd

\* So the counts of two are added.
LEMMA NumbersAdd ==
  ASSUME NEW A, NEW B, IsFiniteSet(A), IsFiniteSet(B), A \cap B = {}, NEW found,
         NEW n, NEW t, NEW u, NEW m, NEW v, NEW w,
         NumbersFit(n, t, u, A, found), NumbersFit(m, v, w, B, found)
  PROVE  NumbersFit(n + m, t + v, u + w, A \cup B, found)
<1>1. n \in Nat /\ t \in Nat /\ u \in Nat /\ m \in Nat /\ v \in Nat /\ w \in Nat
  BY DEF NumbersFit
<1>2. PICK total : total = Cardinality(A) + Cardinality(B) /\ total = Cardinality(A \cup B)
  <2>1. PICK C : C = A \cup B
    OBVIOUS
  <2>2. KindsAdd(A, B, C)
    BY KindsCounted, Zenon
  <2>3. A \cap C = A /\ B \cap C = B /\ (A \cup B) \cap C = C
    BY <2>1
  <2>4. QED
    BY <2>1, <2>2, <2>3 DEF KindsAdd
<1>3. (n + m) + (t + v) + (u + w) = total
  <2>1. n + t + u = Cardinality(A) /\ m + v + w = Cardinality(B)
    BY DEF NumbersFit
  <2>2. QED
    BY <1>1, <1>2, <2>1
<1>4. u + w = Cardinality((A \cup B) \cap AllStand(found, {"current"}))
  <2>1. PICK K : K = AllStand(found, {"current"})
    OBVIOUS
  <2>2. u = Cardinality(A \cap K) /\ w = Cardinality(B \cap K)
    BY <2>1 DEF NumbersFit
  <2>3. Cardinality((A \cup B) \cap K) = Cardinality(A \cap K) + Cardinality(B \cap K)
    <3>1. KindsAdd(A, B, K)
      BY KindsCounted, Zenon
    <3>2. QED
      BY <3>1, Zenon DEF KindsAdd
  <2>4. QED
    BY <2>1, <2>2, <2>3
<1>5. n + m >= Cardinality((A \cup B) \cap AllStand(found, {"new"}))
  <2>1. PICK K : K = AllStand(found, {"new"})
    OBVIOUS
  <2>2. n >= Cardinality(A \cap K) /\ m >= Cardinality(B \cap K)
    BY <2>1 DEF NumbersFit
  <2>3. PICK x \in Nat, y \in Nat : x = Cardinality(A \cap K) /\ y = Cardinality(B \cap K)
                                  /\ Cardinality((A \cup B) \cap K) = x + y
    <3>1. KindsAdd(A, B, K)
      BY KindsCounted, Zenon
    <3>2. QED
      BY <3>1, Zenon DEF KindsAdd
  <2>4. n + m >= x + y
    BY <1>1, <2>2, <2>3
  <2>5. QED
    BY <2>1, <2>3, <2>4
<1>6. n + m <= Cardinality((A \cup B) \cap Mixed(found))
  <2>1. PICK K : K = Mixed(found)
    OBVIOUS
  <2>2. n <= Cardinality(A \cap K) /\ m <= Cardinality(B \cap K)
    BY <2>1 DEF NumbersFit
  <2>3. PICK x \in Nat, y \in Nat : x = Cardinality(A \cap K) /\ y = Cardinality(B \cap K)
                                  /\ Cardinality((A \cup B) \cap K) = x + y
    <3>1. KindsAdd(A, B, K)
      BY KindsCounted, Zenon
    <3>2. QED
      BY <3>1, Zenon DEF KindsAdd
  <2>4. n + m <= x + y
    BY <1>1, <2>2, <2>3
  <2>5. QED
    BY <2>1, <2>3, <2>4
<1>7. n + m \in Nat /\ t + v \in Nat /\ u + w \in Nat
  BY <1>1
<1>8. QED
  BY <1>2, <1>3, <1>4, <1>5, <1>6, <1>7, Zenon DEF NumbersFit

\* What is in one of two sets of sets.
LEMMA UnionJoined ==
  ASSUME NEW A, NEW B
  PROVE  UNION (A \cup B) = (UNION A) \cup (UNION B)
<1>1. ASSUME NEW x \in UNION (A \cup B) PROVE x \in (UNION A) \cup (UNION B)
  <2>1. PICK g \in A \cup B : x \in g
    OBVIOUS
  <2>2. QED
    BY <2>1
<1>2. ASSUME NEW x \in UNION A PROVE x \in UNION (A \cup B)
  <2>1. PICK g \in A : x \in g
    OBVIOUS
  <2>2. QED
    BY <2>1
<1>3. ASSUME NEW x \in UNION B PROVE x \in UNION (A \cup B)
  <2>1. PICK g \in B : x \in g
    OBVIOUS
  <2>2. QED
    BY <2>1
<1>4. QED
  BY <1>1, <1>2, <1>3

\* Two queues of different files are joined.
LEMMA QueuesJoin ==
  ASSUME NEW A, NEW B, (UNION A) \cap (UNION B) = {}, NEW found, NEW q, NEW r,
         QueueFits(q, A, found), QueueFits(r, B, found)
  PROVE  QueueFits(q \o r, A \cup B, found)
<1>1. /\ q \in Seq(Paths) /\ Distinct(q)
      /\ ToSet(q) = {f \in UNION A : found[f] \in {"new", "stale"}}
  BY Zenon DEF QueueFits
<1>2. /\ r \in Seq(Paths) /\ Distinct(r)
      /\ ToSet(r) = {f \in UNION B : found[f] \in {"new", "stale"}}
  BY Zenon DEF QueueFits
<1>3. PICK UA, UB : UA = UNION A /\ UB = UNION B /\ UA \cap UB = {}
  OBVIOUS
<1>4. /\ ToSet(q) = {f \in UA : found[f] \in {"new", "stale"}}
      /\ ToSet(r) = {f \in UB : found[f] \in {"new", "stale"}}
  BY <1>1, <1>2, <1>3
<1>5. q \o r \in Seq(Paths) /\ ToSet(q \o r) = ToSet(q) \cup ToSet(r) /\ Distinct(q \o r)
  <2>1. ToSet(q) \cap ToSet(r) = {}
    BY <1>3, <1>4
  <2>2. QED
    BY <1>1, <1>2, <2>1, ConcatSet
<1>6. ToSet(q \o r) = {f \in UNION (A \cup B) : found[f] \in {"new", "stale"}}
  <2>1. UNION (A \cup B) = UA \cup UB
    BY <1>3, UnionJoined
  <2>2. {f \in UA \cup UB : found[f] \in {"new", "stale"}} = ToSet(q) \cup ToSet(r)
    BY <1>4
  <2>3. QED
    BY <1>5, <2>1, <2>2
<1>7. QED
  BY <1>5, <1>6, Zenon DEF QueueFits

\* Two analyses of different files are added.
LEMMA CountsAdd ==
  ASSUME NEW a, NEW b, NEW A, NEW B, NEW found, CountsFit(a, A, found), CountsFit(b, B, found),
         (UNION A) \cap (UNION B) = {}
  PROVE  CountsFit(Plus(a, b), A \cup B, found)
<1>1. AreConversations(A) /\ AreConversations(B)
  BY Zenon DEF CountsFit
<1>2. A \cap B = {}
  <2>1. ASSUME NEW g \in A, g \in B PROVE FALSE
    <3>1. g # {}
      BY <1>1, <2>1, Zenon DEF AreConversations
    <3>2. PICK f \in g : TRUE
      BY <3>1, Zenon
    <3>3. PICK UA, UB : UA = UNION A /\ UB = UNION B
      OBVIOUS
    <3>4. f \in UA /\ f \in UB
      BY <2>1, <3>2, <3>3
    <3>5. UA \cap UB = {}
      BY <3>3
    <3>6. QED
      BY <3>4, <3>5
  <2>2. QED
    BY <2>1, Zenon
<1>3. AreConversations(A \cup B)
  <2>1. IsFiniteSet(A \cup B)
    BY <1>1, FS_Union DEF AreConversations
  <2>2. QED
    BY <1>1, <2>1, Zenon DEF AreConversations
<1>4. NumbersFit(a.new + b.new, a.toUpdate + b.toUpdate, a.upToDate + b.upToDate, A \cup B, found)
  <2>1. IsFiniteSet(A) /\ IsFiniteSet(B)
    BY <1>1, Zenon DEF AreConversations
  <2>2. NumbersFit(a.new, a.toUpdate, a.upToDate, A, found) /\ NumbersFit(b.new, b.toUpdate, b.upToDate, B, found)
    BY Zenon DEF CountsFit
  <2>3. QED
    BY <1>2, <2>1, <2>2, NumbersAdd, Zenon
<1>5. QueueFits(a.queued \o b.queued, A \cup B, found)
  BY QueuesJoin, Zenon DEF CountsFit
<1>6. PICK c : c = Plus(a, b)
  OBVIOUS
<1>7. /\ c.new = a.new + b.new /\ c.toUpdate = a.toUpdate + b.toUpdate
      /\ c.upToDate = a.upToDate + b.upToDate /\ c.queued = a.queued \o b.queued
  BY <1>6 DEF Plus
<1>8. CountsFit(c, A \cup B, found)
  BY <1>3, <1>4, <1>5, <1>7, Zenon DEF CountsFit
<1>9. QED
  BY <1>6, <1>8

\* What Claude's analysis of a project looks at.
LEMMA ClassifiedAre ==
  ASSUME NEW project \in Seq(Session), NEW found, NEW unreadable
  PROVE  /\ Discovered(project, found) \in Seq(Session)
         /\ Classified(project, found, unreadable) \in Seq(Session)
         /\ ToSet(Classified(project, found, unreadable)) =
              {x \in ToSet(project) : found[x.file] # "absent" /\ (x.subagent \/ x.file \notin unreadable)}
         /\ Distinct(project) => Distinct(Classified(project, found, unreadable))
<1>1. PICK there : there = {x \in ToSet(project) : found[x.file] # "absent"}
  OBVIOUS
<1>2. PICK listed : listed = Kept(project, there)
  OBVIOUS
<1>3. /\ listed \in Seq(Session) /\ ToSet(listed) = ToSet(project) \cap there
      /\ Distinct(project) => Distinct(listed)
  BY <1>2, KeptIs
<1>4. PICK read : read = {x \in ToSet(project) : x.subagent \/ x.file \notin unreadable}
  OBVIOUS
<1>5. /\ Kept(listed, read) \in Seq(Session) /\ ToSet(Kept(listed, read)) = ToSet(listed) \cap read
      /\ Distinct(listed) => Distinct(Kept(listed, read))
  BY <1>3, KeptIs
<1>6. Discovered(project, found) = listed /\ Classified(project, found, unreadable) = Kept(listed, read)
  BY <1>1, <1>2, <1>4 DEF Discovered, Classified
<1>7. (ToSet(project) \cap there) \cap read =
        {x \in ToSet(project) : found[x.file] # "absent" /\ (x.subagent \/ x.file \notin unreadable)}
  BY <1>1, <1>4
<1>8. QED
  BY <1>3, <1>5, <1>6, <1>7

\* The files that wait, of a list.
LEMMA WaitingAre ==
  ASSUME NEW files \in Seq(Paths), NEW found
  PROVE  /\ Waiting(files, found) \in Seq(Paths)
         /\ ToSet(Waiting(files, found)) = {f \in ToSet(files) : found[f] \in {"new", "stale"}}
         /\ Distinct(files) => Distinct(Waiting(files, found))
<1>1. PICK which : which = {f \in ToSet(files) : found[f] \in {"new", "stale"}}
  OBVIOUS
<1>2. /\ Kept(files, which) \in Seq(Paths) /\ ToSet(Kept(files, which)) = ToSet(files) \cap which
      /\ Distinct(files) => Distinct(Kept(files, which))
  BY KeptIs
<1>3. Waiting(files, found) = Kept(files, which) /\ ToSet(files) \cap which = which
  BY <1>1 DEF Waiting
<1>4. QED
  BY <1>1, <1>2, <1>3

\* What is recorded of the groups of a project.
Seen(sessions, found) ==
    [group \in {GroupOf(x) : x \in ToSet(sessions)} |->
        ConversationState(FilesOf(Kept(sessions, {x \in ToSet(sessions) : GroupOf(x) = group})), found)]

\* Those recorded as new, and as waiting.
NewIn(seen) == {group \in DOMAIN seen : seen[group].allNew}
StaleIn(seen) == {group \in DOMAIN seen : seen[group].hasStale}

\* What AnalyzeProject makes of what is recorded.
CountedFrom(a, sessions, seen, found) ==
    /\ a.new = Cardinality(NewIn(seen)) /\ a.toUpdate = Cardinality(StaleIn(seen) \ NewIn(seen))
    /\ a.upToDate = Cardinality(DOMAIN seen \ (NewIn(seen) \cup StaleIn(seen)))
    /\ a.queued = Waiting(FilesOf(sessions), found)

\* Which is what it does.
LEMMA AnalyzeProjectIs ==
  ASSUME NEW project, NEW found, NEW unreadable
  PROVE  CountedFrom(AnalyzeProject(project, found, unreadable), Classified(project, found, unreadable),
                     Seen(Classified(project, found, unreadable), found), found)
<1>1. PICK sessions : sessions = Classified(project, found, unreadable)
  OBVIOUS
<1>2. PICK seen : seen = Seen(sessions, found)
  OBVIOUS
<1>3. AnalyzeProject(project, found, unreadable)
          = [inspected |-> Len(Discovered(project, found)), new |-> Cardinality(NewIn(seen)),
             toUpdate |-> Cardinality(StaleIn(seen) \ NewIn(seen)),
             upToDate |-> Cardinality(DOMAIN seen \ (NewIn(seen) \cup StaleIn(seen))),
             queued |-> Waiting(FilesOf(sessions), found)]
  BY <1>1, <1>2, Zenon DEF AnalyzeProject, Seen, NewIn, StaleIn
<1>4. CountedFrom(AnalyzeProject(project, found, unreadable), sessions, seen, found)
  BY <1>3 DEF CountedFrom
<1>5. QED
  BY <1>1, <1>2, <1>4

\* A group as it is recorded and as its files stand.
LEMMA GroupSeen ==
  ASSUME NEW sessions \in Seq(Session), NEW found,
         NEW group \in {GroupOf(x) : x \in ToSet(sessions)},
         NEW state, state = Seen(sessions, found)[group],
         NEW files, files = FilesIn(ToSet(sessions), group)
  PROVE  /\ files # {} /\ files \subseteq Paths
         /\ state.hasStale <=> \E f \in files : found[f] # "current"
         /\ state.allNew => (\A f \in files : found[f] # "current") /\ (\E f \in files : found[f] = "new")
         /\ (\A f \in files : found[f] = "new") => state.allNew
<1>1. PICK which : which = {x \in ToSet(sessions) : GroupOf(x) = group}
  OBVIOUS
<1>2. PICK members : members = Kept(sessions, which)
  OBVIOUS
<1>3. members \in Seq(Session) /\ ToSet(members) = ToSet(sessions) \cap which
  BY <1>2, KeptIs
<1>4. ToSet(members) = which
  BY <1>1, <1>3
<1>5. FilesOf(members) \in Seq(Paths) /\ ToSet(FilesOf(members)) = {x.file : x \in ToSet(members)}
  BY <1>3, FilesAre
<1>6. ToSet(FilesOf(members)) = files
  BY <1>1, <1>4, <1>5 DEF FilesIn
<1>7. state = ConversationState(FilesOf(members), found)
  BY <1>1, <1>2 DEF Seen
<1>8. PICK x \in ToSet(sessions) : GroupOf(x) = group
  OBVIOUS
<1>9. files # {}
  BY <1>8 DEF FilesIn
<1>10. FilesOf(members) # <<>>
  <2>1. ToSet(<<>>) = {}
    BY DEF ToSet
  <2>2. QED
    BY <1>6, <1>9, <2>1
<1>11. files \subseteq Paths
  BY <1>5, <1>6 DEF ToSet
<1>12. PICK fs \in Seq(Paths) : fs = FilesOf(members)
  BY <1>5
<1>13. /\ state.hasStale <=> \E f \in ToSet(fs) : found[f] # "current"
       /\ state.allNew => /\ \A f \in ToSet(fs) : found[f] # "current"
                         /\ \E f \in ToSet(fs) : found[f] = "new"
       /\ fs # <<>> /\ (\A f \in ToSet(fs) : found[f] = "new") => state.allNew
  BY <1>7, <1>12, StandsAll
<1>14. ToSet(fs) = files /\ fs # <<>>
  BY <1>6, <1>10, <1>12
<1>15. QED
  BY <1>9, <1>11, <1>13, <1>14, Zenon

\* How the files of a project are told apart, and what stands where.
IsProject(project, found) ==
    /\ project \in Seq(Session)
    /\ \A i, j \in DOMAIN project : project[i].file = project[j].file => i = j
    /\ \A x \in ToSet(project) : found[x.file] \in FileStates

\* What is looked at has a copy or waits for one, and a file is one session.
LEMMA ClassifiedStand ==
  ASSUME NEW project, NEW found, IsProject(project, found), NEW unreadable,
         NEW sessions, sessions = Classified(project, found, unreadable)
  PROVE  /\ sessions \in Seq(Session) /\ Distinct(sessions)
         /\ \A x, y \in ToSet(sessions) : x.file = y.file => x = y
         /\ \A x \in ToSet(sessions) : found[x.file] \in {"new", "stale", "current"}
<1>1. PICK n \in Nat : DOMAIN project = 1..n /\ project \in Seq(Session)
  BY LenProperties DEF IsProject
<1>2. \A i, j \in 1..n : project[i].file = project[j].file => i = j
  BY <1>1 DEF IsProject
<1>3. ToSet(project) = {project[i] : i \in 1..n}
  BY <1>1 DEF ToSet
<1>4. Distinct(project)
  BY <1>1, <1>2 DEF Distinct
<1>5. \A x, y \in ToSet(project) : x.file = y.file => x = y
  BY <1>2, <1>3
<1>6. \A x \in ToSet(project) : found[x.file] \in {"absent", "new", "stale", "current"}
  BY DEF IsProject, FileStates
<1>7. /\ sessions \in Seq(Session)
      /\ ToSet(sessions) =
           {x \in ToSet(project) : found[x.file] # "absent" /\ (x.subagent \/ x.file \notin unreadable)}
      /\ Distinct(project) => Distinct(sessions)
  BY <1>1, ClassifiedAre
<1>8. QED
  BY <1>4, <1>5, <1>6, <1>7

\* The queue of a project.
LEMMA ProjectQueue ==
  ASSUME NEW project, NEW found, IsProject(project, found), NEW unreadable,
         NEW sessions, sessions = Classified(project, found, unreadable),
         NEW groups, UNION groups = {x.file : x \in ToSet(sessions)}
  PROVE  QueueFits(Waiting(FilesOf(sessions), found), groups, found)
<1>1. /\ sessions \in Seq(Session) /\ Distinct(sessions)
      /\ \A x, y \in ToSet(sessions) : x.file = y.file => x = y
  BY ClassifiedStand
<1>2. PICK files \in Seq(Paths) : /\ files = FilesOf(sessions) /\ Distinct(files)
                                /\ ToSet(files) = {x.file : x \in ToSet(sessions)}
  BY <1>1, FilesAre
<1>3. /\ Waiting(files, found) \in Seq(Paths)
      /\ ToSet(Waiting(files, found)) = {f \in ToSet(files) : found[f] \in {"new", "stale"}}
      /\ Distinct(files) => Distinct(Waiting(files, found))
  BY WaitingAre
<1>4. ToSet(files) = UNION groups
  BY <1>2
<1>5. QED
  BY <1>2, <1>3, <1>4, Zenon DEF QueueFits

\* The conversations of a project are counted as they stand.
LEMMA ProjectCounted ==
  ASSUME NEW project, NEW found, IsProject(project, found), NEW unreadable,
         NEW S, S = ToSet(Classified(project, found, unreadable))
  PROVE  /\ CountsFit(AnalyzeProject(project, found, unreadable), ProjectConversations(S), found)
         /\ UNION ProjectConversations(S) = {x.file : x \in S}
<1>1. PICK sessions : sessions = Classified(project, found, unreadable)
  OBVIOUS
<1>2. /\ sessions \in Seq(Session) /\ S = ToSet(sessions) /\ S \in SUBSET Session
      /\ \A x, y \in S : x.file = y.file => x = y
      /\ \A x \in S : found[x.file] \in {"new", "stale", "current"}
  <2>1. /\ sessions \in Seq(Session)
        /\ \A x, y \in ToSet(sessions) : x.file = y.file => x = y
        /\ \A x \in ToSet(sessions) : found[x.file] \in {"new", "stale", "current"}
    BY <1>1, ClassifiedStand
  <2>2. ToSet(sessions) \in SUBSET Session
    BY <2>1, ElementOfSeq, LenProperties DEF ToSet
  <2>3. QED
    BY <1>1, <2>1, <2>2
<1>3. PICK G : G = {GroupOf(x) : x \in S}
  OBVIOUS
<1>4. PICK files : files = [g \in G |-> FilesIn(S, g)]
  OBVIOUS
<1>5. PICK groups : groups = {files[g] : g \in G}
  OBVIOUS
<1>6. ProjectConversations(S) = groups
  <2>1. ProjectConversations(S) = {FilesIn(S, g) : g \in G}
    BY <1>2, <1>3, ConversationsAreGroups
  <2>2. QED
    BY <1>4, <1>5, <2>1
<1>7. IsFiniteSet(G)
  <2>1. IsFiniteSet(S)
    BY <1>2, ElementsCounted
  <2>2. PICK of : of = [x \in S |-> GroupOf(x)]
    OBVIOUS
  <2>3. of \in Surjection(S, G)
    BY <1>3, <2>2 DEF Surjection
  <2>4. QED
    BY <2>1, <2>3, FS_Surjection
<1>8. \A g, h \in G : files[g] = files[h] => g = h
  <2>1. ASSUME NEW g \in G, NEW h \in G, files[g] = files[h] PROVE g = h
    <3>1. PICK x \in S : GroupOf(x) = g
      BY <1>3
    <3>2. x.file \in FilesIn(S, g)
      BY <3>1 DEF FilesIn
    <3>3. x.file \in FilesIn(S, h)
      BY <1>4, <2>1, <3>2
    <3>4. PICK y \in S : GroupOf(y) = h /\ y.file = x.file
      BY <3>3 DEF FilesIn
    <3>5. QED
      BY <1>2, <3>1, <3>4
  <2>2. QED
    BY <2>1
<1>9. PICK seen : seen = Seen(sessions, found)
  OBVIOUS
<1>10. DOMAIN seen = G
  BY <1>2, <1>3, <1>9 DEF Seen
<1>11. ASSUME NEW g \in G
       PROVE  /\ files[g] # {} /\ files[g] \subseteq Paths
              /\ seen[g].hasStale <=> \E f \in files[g] : found[f] # "current"
              /\ seen[g].allNew => /\ \A f \in files[g] : found[f] # "current"
                                   /\ \E f \in files[g] : found[f] = "new"
              /\ (\A f \in files[g] : found[f] = "new") => seen[g].allNew
  <2>1. g \in {GroupOf(x) : x \in ToSet(sessions)} /\ files[g] = FilesIn(ToSet(sessions), g)
    BY <1>2, <1>3, <1>4
  <2>2. QED
    BY <1>2, <1>9, <2>1, GroupSeen
<1>12. PICK new, stale : /\ new = {g \in G : seen[g].allNew} /\ stale = {g \in G : seen[g].hasStale}
                         /\ new \subseteq stale
  <2>1. ASSUME NEW g \in G, seen[g].allNew PROVE seen[g].hasStale
    BY <1>11, <2>1
  <2>2. QED
    BY <2>1
<1>13. PICK a : a = AnalyzeProject(project, found, unreadable)
  OBVIOUS
<1>14. /\ a.new = Cardinality(new) /\ a.toUpdate = Cardinality(stale \ new)
       /\ a.upToDate = Cardinality(G \ (new \cup stale))
       /\ a.queued = Waiting(FilesOf(sessions), found)
  <2>1. CountedFrom(a, sessions, seen, found)
    BY <1>1, <1>9, <1>13, AnalyzeProjectIs
  <2>2. new = NewIn(seen) /\ stale = StaleIn(seen)
    BY <1>10, <1>12 DEF NewIn, StaleIn
  <2>3. QED
    BY <1>10, <2>1, <2>2 DEF CountedFrom
<1>15. UNION groups = {x.file : x \in S}
  <2>1. ASSUME NEW f \in UNION groups PROVE f \in {x.file : x \in S}
    <3>1. PICK g \in G : f \in FilesIn(S, g)
      BY <1>4, <1>5
    <3>2. QED
      BY <3>1 DEF FilesIn
  <2>2. ASSUME NEW x \in S PROVE x.file \in UNION groups
    <3>1. GroupOf(x) \in G /\ x.file \in FilesIn(S, GroupOf(x))
      BY <1>3 DEF FilesIn
    <3>2. FilesIn(S, GroupOf(x)) \in groups
      BY <1>4, <1>5, <3>1
    <3>3. QED
      BY <3>1, <3>2
  <2>3. QED
    BY <2>1, <2>2
<1>16. QueueFits(a.queued, groups, found)
  <2>1. QueueFits(Waiting(FilesOf(sessions), found), groups, found)
    BY <1>1, <1>2, <1>15, ProjectQueue
  <2>2. QED
    BY <1>14, <2>1
<1>17. AreConversations(groups)
  <2>1. IsFiniteSet(groups)
    BY <1>5, <1>7, <1>8, ImagesCounted
  <2>2. {} \notin groups /\ groups \subseteq SUBSET Paths
    BY <1>5, <1>11
  <2>3. QED
    BY <2>1, <2>2 DEF AreConversations
<1>18. ASSUME NEW K
       PROVE  LET kind == {g \in G : files[g] \in K}
              IN  IsFiniteSet(kind) /\ Cardinality(groups \cap K) = Cardinality(kind)
  <2>1. PICK kind : kind = {g \in G : files[g] \in K}
    OBVIOUS
  <2>2. kind \in SUBSET G
    BY <2>1
  <2>3. IsFiniteSet(kind)
    BY <1>7, <2>2, FS_Subset
  <2>4. \A g, h \in kind : files[g] = files[h] => g = h
    BY <1>8, <2>2
  <2>5. Cardinality({files[g] : g \in kind}) = Cardinality(kind)
    BY <2>3, <2>4, ImagesCounted
  <2>6. groups \cap K = {files[g] : g \in kind}
    BY <1>5, <2>1
  <2>7. QED
    BY <2>1, <2>3, <2>5, <2>6
<1>19. NumbersFit(a.new, a.toUpdate, a.upToDate, groups, found)
  <2>1. /\ a.new \in Nat /\ a.toUpdate \in Nat /\ a.upToDate \in Nat
        /\ a.new + a.toUpdate + a.upToDate = Cardinality(G)
    <3>1. new \in SUBSET G /\ stale \in SUBSET G
      BY <1>12
    <3>2. /\ Cardinality(new) \in Nat /\ Cardinality(stale \ new) \in Nat
          /\ Cardinality(G \ (new \cup stale)) \in Nat /\ Cardinality(G) \in Nat
          /\ Cardinality(new) + Cardinality(stale \ new) + Cardinality(G \ (new \cup stale)) = Cardinality(G)
      BY <1>7, <1>12, <3>1, PartsCounted, Zenon
    <3>3. QED
      BY <1>14, <3>2
  <2>2. Cardinality(groups) = Cardinality(G)
    BY <1>5, <1>7, <1>8, ImagesCounted
  <2>3. a.upToDate = Cardinality(groups \cap AllStand(found, {"current"}))
    <3>1. ASSUME NEW g \in G
          PROVE  g \in G \ (new \cup stale) <=> files[g] \in AllStand(found, {"current"})
      <4>1. g \in G \ (new \cup stale) <=> ~seen[g].hasStale
        BY <1>12
      <4>2. files[g] \in AllStand(found, {"current"}) <=> \A f \in files[g] : found[f] = "current"
        BY <1>11 DEF AllStand
      <4>3. QED
        BY <1>11, <4>1, <4>2
    <3>2. G \ (new \cup stale) = {g \in G : files[g] \in AllStand(found, {"current"})}
      BY <3>1
    <3>3. QED
      BY <1>14, <1>18, <3>2
  <2>4. a.new >= Cardinality(groups \cap AllStand(found, {"new"}))
    <3>1. PICK kind : kind = {g \in G : files[g] \in AllStand(found, {"new"})}
      OBVIOUS
    <3>2. kind \in SUBSET new
      BY <1>11, <1>12, <3>1 DEF AllStand
    <3>3. IsFiniteSet(new)
      BY <1>7, <1>12, FS_Subset
    <3>4. Cardinality(kind) <= Cardinality(new)
      BY <3>2, <3>3, FS_Subset
    <3>5. IsFiniteSet(kind) /\ Cardinality(groups \cap AllStand(found, {"new"})) = Cardinality(kind)
      BY <1>18, <3>1
    <3>6. Cardinality(kind) \in Nat /\ Cardinality(new) \in Nat
      BY <3>3, <3>5, FS_CardinalityType
    <3>7. QED
      BY <1>14, <3>4, <3>5, <3>6
  <2>5. a.new <= Cardinality(groups \cap Mixed(found))
    <3>1. PICK kind : kind = {g \in G : files[g] \in Mixed(found)}
      OBVIOUS
    <3>2. ASSUME NEW g \in new PROVE g \in kind
      <4>1. g \in G /\ seen[g].allNew
        BY <1>12
      <4>2. /\ files[g] \subseteq Paths /\ \A f \in files[g] : found[f] # "current"
            /\ \E f \in files[g] : found[f] = "new"
        BY <1>11, <4>1
      <4>3. \A f \in files[g] : found[f] \in {"new", "stale", "current"}
        BY <1>2, <1>4, <4>1 DEF FilesIn
      <4>4. files[g] \in AllStand(found, {"new", "stale"})
        BY <4>2, <4>3 DEF AllStand
      <4>5. files[g] \notin AllStand(found, {"stale"})
        BY <4>2 DEF AllStand
      <4>6. QED
        BY <3>1, <4>1, <4>4, <4>5 DEF Mixed
    <3>3. new \in SUBSET kind
      BY <3>2
    <3>4. IsFiniteSet(kind) /\ Cardinality(groups \cap Mixed(found)) = Cardinality(kind)
      BY <1>18, <3>1
    <3>5. Cardinality(new) <= Cardinality(kind)
      BY <3>3, <3>4, FS_Subset
    <3>6. QED
      BY <1>14, <3>4, <3>5
  <2>6. QED
    BY <2>1, <2>2, <2>3, <2>4, <2>5, Zenon DEF NumbersFit
<1>20. CountsFit(a, groups, found)
  BY <1>16, <1>17, <1>19, Zenon DEF CountsFit
<1>21. QED
  BY <1>6, <1>13, <1>15, <1>20

-----------------------------------------------------------------------------
(* All projects, and rollouts *)

\* Where there is nothing, nothing is counted.
LEMMA NothingCounted == ASSUME NEW found PROVE CountsFit(Nothing, {}, found)
<1>1. IsFiniteSet({}) /\ Cardinality({}) = 0
  BY FS_EmptySet
<1>2. AreConversations({})
  BY <1>1 DEF AreConversations
<1>3. NumbersFit(0, 0, 0, {}, found)
  <2>1. \A K : {} \cap K = {}
    OBVIOUS
  <2>2. QED
    BY <1>1, <2>1 DEF NumbersFit
<1>4. QueueFits(<<>>, {}, found)
  <2>1. <<>> \in Seq(Paths) /\ Distinct(<<>>) /\ ToSet(<<>>) = {}
    BY EmptySeq DEF Distinct, ToSet
  <2>2. QED
    BY <2>1 DEF QueueFits
<1>5. Nothing.new = 0 /\ Nothing.toUpdate = 0 /\ Nothing.upToDate = 0 /\ Nothing.queued = <<>>
  BY DEF Nothing
<1>6. QED
  BY <1>2, <1>3, <1>4, <1>5 DEF CountsFit

\* What Plus adds.
Analysis ==
    [inspected : Nat, new : Nat, toUpdate : Nat, upToDate : Nat, queued : Seq(Paths)]

\* The analysis of a project has its type.
LEMMA AnalysisType ==
  ASSUME NEW project, NEW found, IsProject(project, found), NEW unreadable
  PROVE  AnalyzeProject(project, found, unreadable) \in Analysis
<1>1. PICK a : a = AnalyzeProject(project, found, unreadable)
  OBVIOUS
<1>2. PICK S : S = ToSet(Classified(project, found, unreadable))
  OBVIOUS
<1>3. CountsFit(a, ProjectConversations(S), found)
  BY <1>1, <1>2, ProjectCounted
<1>4. a.new \in Nat /\ a.toUpdate \in Nat /\ a.upToDate \in Nat /\ a.queued \in Seq(Paths)
  BY <1>3 DEF CountsFit, NumbersFit, QueueFits
<1>5. PICK n \in Nat : n = Len(Discovered(project, found))
  BY ClassifiedAre, LenProperties DEF IsProject
<1>6. a = [inspected |-> n, new |-> a.new, toUpdate |-> a.toUpdate,
           upToDate |-> a.upToDate, queued |-> a.queued]
  BY <1>1, <1>5 DEF AnalyzeProject
<1>7. QED
  BY <1>1, <1>4, <1>6 DEF Analysis

\* Projects that share no file.
AreProjects(projects, found) ==
    /\ projects \in Seq(Seq(Session))
    /\ \A p \in DOMAIN projects : IsProject(projects[p], found)
    /\ \A p, q \in DOMAIN projects : \A x \in ToSet(projects[p]), y \in ToSet(projects[q]) :
           x.file = y.file => p = q

\* The conversations of a project, and of the first k.
GroupsAt(projects, p, found, unreadable) ==
    ProjectConversations(ToSet(Classified(projects[p], found, unreadable)))
GroupsTo(projects, k, found, unreadable, broken) ==
    UNION {GroupsAt(projects, p, found, unreadable) : p \in (1..k) \ broken}

\* after is the recursive function of AnalyzeClaude.
Analyzes(projects, found, unreadable, broken, n, after) ==
    after = [p \in 0..n |->
                IF p = 0 THEN Nothing
                ELSE IF p \in broken THEN after[p - 1]
                ELSE Plus(after[p - 1], AnalyzeProject(projects[p], found, unreadable))]

\* There is one.
LEMMA AnalyzesExists ==
  ASSUME NEW projects, NEW found, AreProjects(projects, found), NEW unreadable, NEW broken,
         NEW n \in Nat, DOMAIN projects = 1..n
  PROVE  \E after : Analyzes(projects, found, unreadable, broken, n, after)
<1> DEFINE next(a, p) == IF p \in broken THEN a ELSE Plus(a, AnalyzeProject(projects[p], found, unreadable))
<1>1. \A p \in 1..n : AnalyzeProject(projects[p], found, unreadable) \in Analysis
  BY AnalysisType DEF AreProjects
<1>2. ASSUME NEW a \in Analysis, NEW b \in Analysis PROVE Plus(a, b) \in Analysis
  <2>1. a.queued \o b.queued \in Seq(Paths)
    BY ConcatProperties DEF Analysis
  <2>2. QED
    BY <2>1, SMTT(30) DEF Plus, Analysis
<1>3. \A a \in Analysis, p \in 1..n : next(a, p) \in Analysis
  BY <1>1, <1>2
<1>4. Nothing \in Analysis
  BY EmptySeq DEF Nothing, Analysis
<1>5. PICK step : step = [ap \in Analysis \X (1..n) |-> next(ap[1], ap[2])]
  OBVIOUS
<1> HIDE DEF next
<1>6. step \in [Analysis \X (1..n) -> Analysis]
  BY <1>3, <1>5
<1>7. PICK after \in [0..n -> Analysis] : Iterates(Nothing, step, n, after)
  BY <1>4, <1>6, IteratesExist
<1>8. \A p \in 0..n : after[p] = IF p = 0 THEN Nothing ELSE next(after[p - 1], p)
  <2> TAKE p \in 0..n
  <2>1. CASE p = 0
    BY <1>7, <2>1 DEF Iterates
  <2>2. CASE p # 0
    <3>1. p \in 1..n /\ after[p - 1] \in Analysis
      BY <2>2
    <3>2. after[p] = step[<<after[p - 1], p>>]
      BY <1>7, <3>1 DEF Iterates
    <3>3. QED
      BY <1>5, <2>2, <3>1, <3>2
  <2>3. QED
    BY <2>1, <2>2
<1>9. after = [p \in 0..n |-> IF p = 0 THEN Nothing ELSE next(after[p - 1], p)]
  BY <1>8
<1>10. Analyzes(projects, found, unreadable, broken, n, after)
  BY <1>9 DEF Analyzes, next
<1>11. QED
  BY <1>10

\* One project more.
LEMMA GroupsMore ==
  ASSUME NEW projects, NEW found, AreProjects(projects, found), NEW unreadable, NEW broken,
         NEW n \in Nat, DOMAIN projects = 1..n, NEW k \in 1..n
  PROVE  /\ k \in broken => GroupsTo(projects, k, found, unreadable, broken)
                             = GroupsTo(projects, k - 1, found, unreadable, broken)
         /\ k \notin broken => GroupsTo(projects, k, found, unreadable, broken)
                                = GroupsTo(projects, k - 1, found, unreadable, broken)
                                    \cup GroupsAt(projects, k, found, unreadable)
         /\ (UNION GroupsTo(projects, k - 1, found, unreadable, broken))
                \cap (UNION GroupsAt(projects, k, found, unreadable)) = {}
<1>1. PICK at : at = [p \in 1..n |-> GroupsAt(projects, p, found, unreadable)]
  OBVIOUS
<1>2. 1..k = 1..(k - 1) \cup {k} /\ 1..k \subseteq 1..n /\ k \notin 1..(k - 1)
  BY OneMore
<1>3. /\ GroupsTo(projects, k, found, unreadable, broken) = UNION {at[p] : p \in (1..k) \ broken}
      /\ GroupsTo(projects, k - 1, found, unreadable, broken) = UNION {at[p] : p \in (1..(k - 1)) \ broken}
      /\ GroupsAt(projects, k, found, unreadable) = at[k]
  BY <1>1, <1>2 DEF GroupsTo
<1>4. k \in broken => (1..k) \ broken = (1..(k - 1)) \ broken
  BY <1>2
<1>5. k \notin broken => {at[p] : p \in (1..k) \ broken} = {at[p] : p \in (1..(k - 1)) \ broken} \cup {at[k]}
  <2>1. k \notin broken => (1..k) \ broken = ((1..(k - 1)) \ broken) \cup {k}
    BY <1>2
  <2>2. QED
    BY <2>1
<1>6. k \notin broken => UNION {at[p] : p \in (1..k) \ broken}
                         = (UNION {at[p] : p \in (1..(k - 1)) \ broken}) \cup at[k]
  <2>1. UNION {at[k]} = at[k]
    OBVIOUS
  <2>2. QED
    BY <1>5, <2>1, UnionJoined
<1>7. ASSUME NEW p \in 1..n, NEW f \in UNION at[p] PROVE \E x \in ToSet(projects[p]) : x.file = f
  <2>1. PICK S : S = ToSet(Classified(projects[p], found, unreadable))
    OBVIOUS
  <2>2. IsProject(projects[p], found) /\ projects[p] \in Seq(Session)
    BY DEF AreProjects, IsProject
  <2>3. UNION at[p] = {x.file : x \in S}
    BY <1>1, <2>1, <2>2, ProjectCounted DEF GroupsAt
  <2>4. S \subseteq ToSet(projects[p])
    BY <2>1, <2>2, ClassifiedAre
  <2>5. QED
    BY <1>7, <2>3, <2>4
<1>8. ASSUME NEW f \in UNION (UNION {at[p] : p \in (1..(k - 1)) \ broken}), f \in UNION at[k] PROVE FALSE
  <2>1. PICK p \in (1..(k - 1)) \ broken : f \in UNION at[p]
    <3>1. PICK g \in UNION {at[p] : p \in (1..(k - 1)) \ broken} : f \in g
      OBVIOUS
    <3>2. PICK p \in (1..(k - 1)) \ broken : g \in at[p]
      BY <3>1
    <3>3. QED
      BY <3>1, <3>2
  <2>2. p \in 1..n /\ p # k /\ k \in 1..n
    BY <1>2, <2>1
  <2>3. PICK x \in ToSet(projects[p]), y \in ToSet(projects[k]) : x.file = f /\ y.file = f
    BY <1>7, <1>8, <2>1, <2>2
  <2>4. QED
    BY <2>2, <2>3 DEF AreProjects
<1>9. QED
  BY <1>3, <1>4, <1>6, <1>8, Zenon

\* The conversations of the projects that can be listed are counted as they stand.
LEMMA ClaudeCounted ==
  ASSUME NEW projects, NEW found, AreProjects(projects, found), NEW unreadable, NEW broken,
         NEW n \in Nat, DOMAIN projects = 1..n
  PROVE  CountsFit(AnalyzeClaude(projects, found, unreadable, broken),
                   GroupsTo(projects, n, found, unreadable, broken), found)
<1>1. n = Len(projects)
  BY LenProperties DEF AreProjects
<1>2. AnalyzeClaude(projects, found, unreadable, broken)
        = (CHOOSE after : Analyzes(projects, found, unreadable, broken, n, after))[n]
  BY <1>1 DEF AnalyzeClaude, Analyzes
<1>3. PICK after : /\ Analyzes(projects, found, unreadable, broken, n, after)
                   /\ AnalyzeClaude(projects, found, unreadable, broken) = after[n]
  BY <1>2, AnalyzesExists
<1> DEFINE good == {k \in 0..n : CountsFit(after[k], GroupsTo(projects, k, found, unreadable, broken), found)}
<1>4. 0 \in good
  <2>1. 0 \in 0..n /\ after[0] = Nothing
    <3>1. 0 \in 0..n
      OBVIOUS
    <3>2. QED
      BY <1>3, <3>1 DEF Analyzes
  <2>2. GroupsTo(projects, 0, found, unreadable, broken) = {}
    BY DEF GroupsTo
  <2>3. CountsFit(Nothing, {}, found)
    BY NothingCounted
  <2>4. QED
    BY <2>1, <2>2, <2>3
<1>5. ASSUME NEW k \in 1..n, k - 1 \in good PROVE k \in good
  <2>1. k \in 0..n /\ k # 0
    BY OneMore
  <2>2. after[k] = IF k \in broken THEN after[k - 1]
                   ELSE Plus(after[k - 1], AnalyzeProject(projects[k], found, unreadable))
    BY <1>3, <2>1 DEF Analyzes
  <2>3. PICK A : A = GroupsTo(projects, k - 1, found, unreadable, broken)
    OBVIOUS
  <2>4. CountsFit(after[k - 1], A, found)
    BY <1>5, <2>3
  <2>5. CASE k \in broken
    <3>1. GroupsTo(projects, k, found, unreadable, broken) = A
      BY <2>3, <2>5, GroupsMore
    <3>2. QED
      BY <2>1, <2>2, <2>4, <2>5, <3>1
  <2>6. CASE k \notin broken
    <3>1. PICK B : B = GroupsAt(projects, k, found, unreadable)
      OBVIOUS
    <3>2. CountsFit(AnalyzeProject(projects[k], found, unreadable), B, found)
      BY <3>1, ProjectCounted DEF GroupsAt, AreProjects
    <3>3. (UNION A) \cap (UNION B) = {} /\ GroupsTo(projects, k, found, unreadable, broken) = A \cup B
      BY <2>3, <2>6, <3>1, GroupsMore
    <3>4. CountsFit(Plus(after[k - 1], AnalyzeProject(projects[k], found, unreadable)), A \cup B, found)
      BY <2>4, <3>2, <3>3, CountsAdd
    <3>5. QED
      BY <2>1, <2>2, <2>6, <3>3, <3>4
  <2>7. QED
    BY <2>5, <2>6
<1>6. 0..n \subseteq good
  <2> HIDE DEF good
  <2>1. QED
    BY <1>4, <1>5, UpTo
<1>7. n \in 0..n
  OBVIOUS
<1>8. QED
  BY <1>3, <1>6, <1>7

\* As many files as conversations of one.
LEMMA AloneCounted ==
  ASSUME NEW S, IsFiniteSet(S)
  PROVE  IsFiniteSet({{f} : f \in S}) /\ Cardinality({{f} : f \in S}) = Cardinality(S)
<1>1. PICK alone : alone = [f \in S |-> {f}]
  OBVIOUS
<1>2. \A f, g \in S : alone[f] = alone[g] => f = g
  BY <1>1
<1>3. {alone[f] : f \in S} = {{f} : f \in S}
  BY <1>1
<1>4. IsFiniteSet({alone[f] : f \in S}) /\ Cardinality({alone[f] : f \in S}) = Cardinality(S)
  BY <1>2, ImagesCounted
<1>5. QED
  BY <1>3, <1>4

\* The rollouts that can be analysed are counted as they stand.
LEMMA CodexCounted ==
  ASSUME NEW rollouts \in Seq(Paths), Distinct(rollouts),
         NEW found, \A f \in ToSet(rollouts) : found[f] \in FileStates,
         NEW unreadable, ~RolloutsFail(rollouts, found, unreadable)
  PROVE  CountsFit(AnalyzeCodex(rollouts, found, unreadable),
                   {{f} : f \in ToSet(ListRolloutPaths(rollouts, found))}, found)
<1>1. PICK paths : paths = ListRolloutPaths(rollouts, found)
  OBVIOUS
<1>2. /\ paths \in Seq(Paths) /\ Distinct(paths)
      /\ \A f \in ToSet(paths) : f \in Paths /\ found[f] \in {"new", "stale", "current"}
  <2>1. PICK there : there = {f \in ToSet(rollouts) : found[f] # "absent"}
    OBVIOUS
  <2>2. paths = Kept(rollouts, there)
    BY <1>1, <2>1 DEF ListRolloutPaths
  <2>3. paths \in Seq(Paths) /\ ToSet(paths) = ToSet(rollouts) \cap there /\ Distinct(paths)
    BY <2>2, KeptIs
  <2>4. ToSet(rollouts) \subseteq Paths
    BY ElementOfSeq, LenProperties DEF ToSet
  <2>5. QED
    BY <2>1, <2>3, <2>4 DEF FileStates
<1>3. PICK S : S = ToSet(paths) /\ IsFiniteSet(S)
  BY <1>2, ElementsCounted
<1>4. PICK groups : groups = {{f} : f \in S}
  OBVIOUS
<1>5. PICK new, stale : new = {f \in S : found[f] = "new"} /\ stale = {f \in S : found[f] \in {"new", "stale"}}
  OBVIOUS
<1>6. /\ stale \ new = {f \in S : found[f] = "stale"}
      /\ S \ (new \cup stale) = {f \in S : found[f] = "current"}
  BY <1>2, <1>3, <1>5
<1>7. ASSUME NEW standing
      PROVE  Len(Kept(paths, {f \in ToSet(paths) : found[f] = standing}))
               = Cardinality({f \in S : found[f] = standing})
  <2>1. PICK which : which = {f \in S : found[f] = standing}
    OBVIOUS
  <2>2. PICK kept \in Seq(Paths) : /\ kept = Kept(paths, which) /\ ToSet(kept) = S \cap which /\ Distinct(kept)
    BY <1>2, <1>3, KeptIs
  <2>3. Cardinality(ToSet(kept)) = Len(kept)
    BY <2>2, ElementsCounted
  <2>4. S \cap which = which
    BY <2>1
  <2>5. QED
    BY <1>3, <2>1, <2>2, <2>3, <2>4
<1>8. PICK a : a = AnalyzeCodex(rollouts, found, unreadable)
  OBVIOUS
<1>9. a = [inspected |-> Len(paths),
           new |-> Len(Kept(paths, {f \in ToSet(paths) : found[f] = "new"})),
           toUpdate |-> Len(Kept(paths, {f \in ToSet(paths) : found[f] = "stale"})),
           upToDate |-> Len(Kept(paths, {f \in ToSet(paths) : found[f] = "current"})),
           queued |-> Waiting(paths, found)]
  BY <1>1, <1>8, Zenon DEF AnalyzeCodex
<1>10. /\ a.new = Cardinality(new) /\ a.toUpdate = Cardinality(stale \ new)
       /\ a.upToDate = Cardinality(S \ (new \cup stale)) /\ a.queued = Waiting(paths, found)
  BY <1>5, <1>6, <1>7, <1>9
<1>11. UNION groups = S
  BY <1>4
<1>12. QueueFits(a.queued, groups, found)
  <2>1. /\ Waiting(paths, found) \in Seq(Paths)
        /\ ToSet(Waiting(paths, found)) = {f \in ToSet(paths) : found[f] \in {"new", "stale"}}
        /\ Distinct(paths) => Distinct(Waiting(paths, found))
    BY <1>2, WaitingAre
  <2>2. QED
    BY <1>2, <1>3, <1>10, <1>11, <2>1 DEF QueueFits
<1>13. AreConversations(groups)
  <2>1. IsFiniteSet(groups)
    BY <1>3, <1>4, AloneCounted
  <2>2. {} \notin groups /\ groups \subseteq SUBSET Paths
    BY <1>2, <1>3, <1>4
  <2>3. QED
    BY <2>1, <2>2 DEF AreConversations
<1>14. ASSUME NEW T \in SUBSET S PROVE IsFiniteSet(T) /\ Cardinality({{f} : f \in T}) = Cardinality(T)
  BY <1>3, <1>14, FS_Subset, AloneCounted
<1>15. NumbersFit(a.new, a.toUpdate, a.upToDate, groups, found)
  <2>1. new \in SUBSET S /\ stale \in SUBSET S /\ new \subseteq stale
    BY <1>5
  <2>2. /\ Cardinality(new) \in Nat /\ Cardinality(stale \ new) \in Nat
        /\ Cardinality(S \ (new \cup stale)) \in Nat /\ Cardinality(S) \in Nat
        /\ Cardinality(new) + Cardinality(stale \ new) + Cardinality(S \ (new \cup stale)) = Cardinality(S)
    BY <1>3, <2>1, PartsCounted, Zenon
  <2>3. Cardinality(groups) = Cardinality(S)
    BY <1>3, <1>4, AloneCounted
  <2>4. a.upToDate = Cardinality(groups \cap AllStand(found, {"current"}))
    <3>1. PICK T : T = S \ (new \cup stale) /\ T \in SUBSET S
      OBVIOUS
    <3>2. groups \cap AllStand(found, {"current"}) = {{f} : f \in T}
      BY <1>2, <1>3, <1>4, <1>6, <3>1 DEF AllStand
    <3>3. QED
      BY <1>10, <1>14, <3>1, <3>2
  <2>5. groups \cap AllStand(found, {"new"}) = {{f} : f \in new}
    BY <1>2, <1>3, <1>4, <1>5 DEF AllStand
  <2>6. groups \cap Mixed(found) = {{f} : f \in new}
    <3>1. ASSUME NEW f \in S
          PROVE  {f} \in Mixed(found) <=> f \in new
      <4>1. {f} \in SUBSET Paths /\ found[f] \in {"new", "stale", "current"}
        BY <1>2, <1>3
      <4>2. {f} \in AllStand(found, {"new", "stale"}) <=> found[f] \in {"new", "stale"}
        BY <4>1 DEF AllStand
      <4>3. {f} \in AllStand(found, {"stale"}) <=> found[f] = "stale"
        BY <4>1 DEF AllStand
      <4>4. QED
        BY <1>5, <4>1, <4>2, <4>3 DEF Mixed
    <3>2. QED
      BY <1>4, <1>5, <3>1
  <2>7. Cardinality({{f} : f \in new}) = Cardinality(new)
    BY <1>14, <2>1
  <2>8. a.new >= Cardinality(groups \cap AllStand(found, {"new"})) /\ a.new <= Cardinality(groups \cap Mixed(found))
    <3>1. PICK x \in Nat : x = Cardinality(new) /\ a.new = x
      BY <1>10, <2>2
    <3>2. Cardinality(groups \cap AllStand(found, {"new"})) = x /\ Cardinality(groups \cap Mixed(found)) = x
      BY <2>5, <2>6, <2>7, <3>1
    <3>3. x >= x /\ x <= x
      OBVIOUS
    <3>4. QED
      BY <3>1, <3>2, <3>3
  <2>9. QED
    BY <1>10, <2>2, <2>3, <2>4, <2>8 DEF NumbersFit
<1>16. CountsFit(a, groups, found)
  BY <1>12, <1>13, <1>15 DEF CountsFit
<1>17. QED
  BY <1>1, <1>3, <1>4, <1>8, <1>16

\* How the files of a layout stand.
Stand(layout, found) == \A f \in AllFiles(layout) : found[f] \in FileStates

\* What a layout says, list by list.
LayoutFits(layout, found) ==
    /\ AreProjects(layout.projects, found)
    /\ layout.rollouts \in Seq(Paths) /\ Distinct(layout.rollouts)
    /\ \A f \in ToSet(layout.rollouts) : found[f] \in FileStates
    /\ \A p \in DOMAIN layout.projects : \A x \in ToSet(layout.projects[p]) : x.file \notin ToSet(layout.rollouts)

\* Every layout does.
LEMMA ALayoutFits ==
  ASSUME NEW layout, IsLayout(layout), NEW found, Stand(layout, found)
  PROVE  LayoutFits(layout, found)
<1>1. PICK projects, rollouts : /\ projects = layout.projects /\ rollouts = layout.rollouts
                                /\ projects \in Seq(Seq(Session)) /\ rollouts \in Seq(Paths)
  BY DEF IsLayout
<1>2. /\ \A p, q \in DOMAIN projects : \A i \in DOMAIN projects[p], j \in DOMAIN projects[q] :
             projects[p][i].file = projects[q][j].file => p = q /\ i = j
      /\ \A i, j \in DOMAIN rollouts : rollouts[i] = rollouts[j] => i = j
      /\ \A p \in DOMAIN projects : \A i \in DOMAIN projects[p] : projects[p][i].file \notin ToSet(rollouts)
  BY <1>1 DEF IsLayout
<1>3. ASSUME NEW p \in DOMAIN projects
      PROVE  /\ projects[p] \in Seq(Session) /\ projects[p] \in ToSet(projects)
             /\ \A x \in ToSet(projects[p]) : \E i \in DOMAIN projects[p] : x = projects[p][i]
  <2>1. projects[p] \in Seq(Session)
    BY <1>1, ElementOfSeq, LenProperties
  <2>2. QED
    BY <2>1 DEF ToSet
<1>4. ASSUME NEW p \in DOMAIN projects, NEW x \in ToSet(projects[p]) PROVE found[x.file] \in FileStates
  <2>1. x.file \in {session.file : session \in ToSet(projects[p])}
    OBVIOUS
  <2>2. x.file \in UNION {{session.file : session \in ToSet(project)} : project \in ToSet(projects)}
    BY <1>3, <2>1
  <2>3. QED
    BY <1>1, <2>2 DEF AllFiles, Stand
<1>5. AreProjects(projects, found)
  <2>1. ASSUME NEW p \in DOMAIN projects PROVE IsProject(projects[p], found)
    BY <1>2, <1>3, <1>4 DEF IsProject
  <2>2. ASSUME NEW p \in DOMAIN projects, NEW q \in DOMAIN projects,
               NEW x \in ToSet(projects[p]), NEW y \in ToSet(projects[q]), x.file = y.file
        PROVE  p = q
    BY <1>2, <1>3, <2>2
  <2>3. QED
    BY <1>1, <2>1, <2>2 DEF AreProjects
<1>6. \A f \in ToSet(rollouts) : found[f] \in FileStates
  BY <1>1 DEF AllFiles, Stand
<1>7. \A p \in DOMAIN projects : \A x \in ToSet(projects[p]) : x.file \notin ToSet(rollouts)
  BY <1>2, <1>3
<1>8. QED
  BY <1>1, <1>2, <1>5, <1>6, <1>7, Zenon DEF LayoutFits, Distinct

\* The conversations of a project have files of the project only.
LEMMA GroupsWithin ==
  ASSUME NEW projects, NEW found, AreProjects(projects, found), NEW unreadable, NEW p \in DOMAIN projects
  PROVE  \A f \in UNION GroupsAt(projects, p, found, unreadable) : \E x \in ToSet(projects[p]) : x.file = f
<1>1. PICK S : S = ToSet(Classified(projects[p], found, unreadable))
  OBVIOUS
<1>2. IsProject(projects[p], found) /\ projects[p] \in Seq(Session)
  BY DEF AreProjects, IsProject
<1>3. UNION GroupsAt(projects, p, found, unreadable) = {x.file : x \in S}
  BY <1>1, <1>2, ProjectCounted DEF GroupsAt
<1>4. S \subseteq ToSet(projects[p])
  BY <1>1, <1>2, ClassifiedAre
<1>5. QED
  BY <1>3, <1>4

\* The rollouts that are said something of.
RolloutGroups(layout, found, unreadable) ==
    IF RolloutsFail(layout.rollouts, found, unreadable) THEN {}
    ELSE {{f} : f \in ToSet(ListRolloutPaths(layout.rollouts, found))}

\* They are counted, or none is.
LEMMA RolloutGroupsCounted ==
  ASSUME NEW layout, NEW found, LayoutFits(layout, found), NEW unreadable
  PROVE  /\ CountsFit(AnalyzeCodex(layout.rollouts, found, unreadable),
                      RolloutGroups(layout, found, unreadable), found)
         /\ UNION RolloutGroups(layout, found, unreadable) \subseteq ToSet(layout.rollouts)
<1>1. /\ layout.rollouts \in Seq(Paths) /\ Distinct(layout.rollouts)
      /\ \A f \in ToSet(layout.rollouts) : found[f] \in FileStates
  BY DEF LayoutFits
<1>2. CASE RolloutsFail(layout.rollouts, found, unreadable)
  <2>1. AnalyzeCodex(layout.rollouts, found, unreadable) = Nothing
    BY <1>2 DEF AnalyzeCodex
  <2>2. RolloutGroups(layout, found, unreadable) = {}
    BY <1>2 DEF RolloutGroups
  <2>3. QED
    BY <2>1, <2>2, NothingCounted
<1>3. CASE ~RolloutsFail(layout.rollouts, found, unreadable)
  <2>1. RolloutGroups(layout, found, unreadable) = {{f} : f \in ToSet(ListRolloutPaths(layout.rollouts, found))}
    BY <1>3 DEF RolloutGroups
  <2>2. CountsFit(AnalyzeCodex(layout.rollouts, found, unreadable),
                  RolloutGroups(layout, found, unreadable), found)
    BY <1>1, <1>3, <2>1, CodexCounted
  <2>3. PICK there : there = {f \in ToSet(layout.rollouts) : found[f] # "absent"}
    OBVIOUS
  <2>4. ToSet(ListRolloutPaths(layout.rollouts, found)) = ToSet(layout.rollouts) \cap there
    BY <1>1, <2>3, KeptIs DEF ListRolloutPaths
  <2>5. UNION RolloutGroups(layout, found, unreadable) = ToSet(ListRolloutPaths(layout.rollouts, found))
    BY <2>1
  <2>6. QED
    BY <2>2, <2>4, <2>5
<1>4. QED
  BY <1>2, <1>3

\* The conversations of the sources, of Claude Code and of Codex.
LEMMA ConversationsAre ==
  ASSUME NEW layout, NEW found, NEW unreadable, NEW broken,
         NEW n \in Nat, DOMAIN layout.projects = 1..n
  PROVE  Conversations(layout, found, unreadable, broken)
           = GroupsTo(layout.projects, n, found, unreadable, broken)
             \cup RolloutGroups(layout, found, unreadable)
BY DEF Conversations, GroupsTo, GroupsAt, RolloutGroups

\* All conversations are counted as they stand.
LEMMA AllCounted ==
  ASSUME NEW layout, NEW found, LayoutFits(layout, found), NEW unreadable, NEW broken
  PROVE  CountsFit(PipelineAnalyze(layout, found, unreadable, broken).analysis,
                   Conversations(layout, found, unreadable, broken), found)
<1>1. AreProjects(layout.projects, found)
  BY DEF LayoutFits
<1>2. PICK n \in Nat : DOMAIN layout.projects = 1..n
  BY <1>1, LenProperties DEF AreProjects
<1>3. PICK A : A = GroupsTo(layout.projects, n, found, unreadable, broken)
  OBVIOUS
<1>4. PICK B : B = RolloutGroups(layout, found, unreadable)
  OBVIOUS
<1>5. CountsFit(AnalyzeClaude(layout.projects, found, unreadable, broken), A, found)
  BY <1>1, <1>2, <1>3, ClaudeCounted
<1>6. CountsFit(AnalyzeCodex(layout.rollouts, found, unreadable), B, found) /\ UNION B \subseteq ToSet(layout.rollouts)
  BY <1>4, RolloutGroupsCounted
<1>7. ASSUME NEW f \in UNION A, f \in UNION B PROVE FALSE
  <2>1. PICK g \in A : f \in g
    OBVIOUS
  <2>2. PICK p \in (1..n) \ broken : g \in GroupsAt(layout.projects, p, found, unreadable)
    BY <1>3, <2>1 DEF GroupsTo
  <2>3. p \in DOMAIN layout.projects /\ f \in UNION GroupsAt(layout.projects, p, found, unreadable)
    BY <1>2, <2>1, <2>2
  <2>4. PICK x \in ToSet(layout.projects[p]) : x.file = f
    BY <1>1, <2>3, GroupsWithin
  <2>5. QED
    BY <1>6, <1>7, <2>3, <2>4 DEF LayoutFits
<1>8. (UNION A) \cap (UNION B) = {}
  BY <1>7
<1>9. CountsFit(Plus(AnalyzeClaude(layout.projects, found, unreadable, broken),
                     AnalyzeCodex(layout.rollouts, found, unreadable)), A \cup B, found)
  BY <1>5, <1>6, <1>8, CountsAdd
<1>10. PipelineAnalyze(layout, found, unreadable, broken).analysis
         = Plus(AnalyzeClaude(layout.projects, found, unreadable, broken),
                AnalyzeCodex(layout.rollouts, found, unreadable))
  BY DEF PipelineAnalyze
<1>11. Conversations(layout, found, unreadable, broken) = A \cup B
  BY <1>2, <1>3, <1>4, ConversationsAre
<1>12. QED
  BY <1>9, <1>10, <1>11

\* Which says what CountsRight does.
LEMMA CountsAreRight ==
  ASSUME NEW layout, NEW found, LayoutFits(layout, found), NEW unreadable, NEW broken
  PROVE  CountsRight(layout, found, unreadable, broken)
<1>1. PICK a : a = PipelineAnalyze(layout, found, unreadable, broken).analysis
  OBVIOUS
<1>2. PICK groups : groups = Conversations(layout, found, unreadable, broken)
  OBVIOUS
<1>3. CountsFit(a, groups, found)
  BY <1>1, <1>2, AllCounted
<1>4. groups \subseteq SUBSET Paths
  BY <1>3 DEF CountsFit, AreConversations
<1> DEFINE All(g, standings) == \A f \in g : found[f] \in standings
<1>5. /\ {g \in groups : All(g, {"current"})} = groups \cap AllStand(found, {"current"})
      /\ {g \in groups : All(g, {"new"})} = groups \cap AllStand(found, {"new"})
      /\ {g \in groups : All(g, {"new", "stale"}) /\ ~All(g, {"stale"})} = groups \cap Mixed(found)
  BY <1>4 DEF AllStand, Mixed
<1>6. /\ a.new + a.toUpdate + a.upToDate = Cardinality(groups)
      /\ a.upToDate = Cardinality(groups \cap AllStand(found, {"current"}))
      /\ a.new >= Cardinality(groups \cap AllStand(found, {"new"}))
      /\ a.new <= Cardinality(groups \cap Mixed(found))
  BY <1>3 DEF CountsFit, NumbersFit
<1>7. /\ a.queued \in Seq(Paths) /\ Distinct(a.queued)
      /\ ToSet(a.queued) = {f \in UNION groups : found[f] \in {"new", "stale"}}
  BY <1>3 DEF CountsFit, QueueFits
<1>8. Cardinality(ToSet(a.queued)) = Len(a.queued)
  BY <1>7, ElementsCounted
<1>9. /\ a.new + a.toUpdate + a.upToDate = Cardinality(groups)
      /\ a.upToDate = Cardinality({g \in groups : All(g, {"current"})})
      /\ a.new >= Cardinality({g \in groups : All(g, {"new"})})
      /\ a.new <= Cardinality({g \in groups : All(g, {"new", "stale"}) /\ ~All(g, {"stale"})})
  BY <1>5, <1>6
<1>10. QED
  BY <1>1, <1>2, <1>7, <1>8, <1>9, Zenon DEF CountsRight

\* before is the recursive function of ClaudeCandidates.
Collects(projects, found, unreadable, n, before) ==
    before = [p \in 0..n |->
                 IF p = 0 THEN <<>>
                 ELSE before[p - 1] \o Waiting(FilesOf(Classified(projects[p], found, unreadable)), found)]

\* What a project gives a run.
LEMMA ProjectCandidates ==
  ASSUME NEW projects, NEW found, AreProjects(projects, found), NEW unreadable, NEW p \in DOMAIN projects
  PROVE  QueueFits(Waiting(FilesOf(Classified(projects[p], found, unreadable)), found),
                   GroupsAt(projects, p, found, unreadable), found)
<1>1. IsProject(projects[p], found)
  BY DEF AreProjects
<1>2. PICK sessions : sessions = Classified(projects[p], found, unreadable)
  OBVIOUS
<1>3. UNION GroupsAt(projects, p, found, unreadable) = {x.file : x \in ToSet(sessions)}
  BY <1>1, <1>2, ProjectCounted DEF GroupsAt
<1>4. QueueFits(Waiting(FilesOf(sessions), found), GroupsAt(projects, p, found, unreadable), found)
  BY <1>1, <1>2, <1>3, ProjectQueue
<1>5. QED
  BY <1>2, <1>4

\* There is one.
LEMMA CollectsExists ==
  ASSUME NEW projects, NEW found, AreProjects(projects, found), NEW unreadable,
         NEW n \in Nat, DOMAIN projects = 1..n
  PROVE  \E before \in [0..n -> Seq(Paths)] : Collects(projects, found, unreadable, n, before)
<1> DEFINE more(p) == Waiting(FilesOf(Classified(projects[p], found, unreadable)), found)
<1>1. \A p \in 1..n : more(p) \in Seq(Paths)
  BY ProjectCandidates DEF QueueFits
<1> HIDE DEF more
<1>2. PICK step : step = [bp \in Seq(Paths) \X (1..n) |-> bp[1] \o more(bp[2])]
  OBVIOUS
<1>3. step \in [Seq(Paths) \X (1..n) -> Seq(Paths)]
  <2>1. \A b \in Seq(Paths), p \in 1..n : b \o more(p) \in Seq(Paths)
    BY <1>1, ConcatProperties
  <2>2. QED
    BY <1>2, <2>1
<1>4. <<>> \in Seq(Paths)
  BY EmptySeq
<1>5. PICK before \in [0..n -> Seq(Paths)] : Iterates(<<>>, step, n, before)
  BY <1>3, <1>4, IteratesExist
<1>6. \A p \in 0..n : before[p] = IF p = 0 THEN <<>> ELSE before[p - 1] \o more(p)
  <2> TAKE p \in 0..n
  <2>1. CASE p = 0
    BY <1>5, <2>1 DEF Iterates
  <2>2. CASE p # 0
    <3>1. p \in 1..n /\ before[p - 1] \in Seq(Paths)
      BY <2>2
    <3>2. before[p] = step[<<before[p - 1], p>>]
      BY <1>5, <3>1 DEF Iterates
    <3>3. QED
      BY <1>2, <2>2, <3>1, <3>2
  <2>3. QED
    BY <2>1, <2>2
<1>7. before = [p \in 0..n |-> IF p = 0 THEN <<>> ELSE before[p - 1] \o more(p)]
  BY <1>6
<1>8. Collects(projects, found, unreadable, n, before)
  BY <1>7 DEF Collects, more
<1>9. QED
  BY <1>8

\* Where every project can be listed, a run takes the files that wait.
LEMMA ClaudeCollected ==
  ASSUME NEW projects, NEW found, AreProjects(projects, found), NEW unreadable,
         NEW n \in Nat, DOMAIN projects = 1..n
  PROVE  /\ ClaudeCandidates(projects, found, unreadable) \in Seq(Paths)
         /\ ToSet(ClaudeCandidates(projects, found, unreadable))
              = {f \in UNION GroupsTo(projects, n, found, unreadable, {}) : found[f] \in {"new", "stale"}}
<1>1. n = Len(projects)
  BY LenProperties DEF AreProjects
<1>2. ClaudeCandidates(projects, found, unreadable)
        = (CHOOSE before : Collects(projects, found, unreadable, n, before))[n]
  BY <1>1 DEF ClaudeCandidates, Collects
<1>3. PICK before : /\ Collects(projects, found, unreadable, n, before)
                    /\ ClaudeCandidates(projects, found, unreadable) = before[n]
  BY <1>2, CollectsExists
<1> DEFINE groups(k) == GroupsTo(projects, k, found, unreadable, {})
           waiting(k) == {f \in UNION groups(k) : found[f] \in {"new", "stale"}}
           good == {k \in 0..n : before[k] \in Seq(Paths) /\ ToSet(before[k]) = waiting(k)}
<1>4. 0 \in good
  <2>1. 0 \in 0..n
    OBVIOUS
  <2>2. before[0] = <<>>
    BY <1>3, <2>1 DEF Collects
  <2>3. waiting(0) = {}
    BY DEF GroupsTo
  <2>4. <<>> \in Seq(Paths) /\ ToSet(<<>>) = {}
    BY EmptySeq DEF ToSet
  <2>5. QED
    BY <2>1, <2>2, <2>3, <2>4
<1>5. ASSUME NEW k \in 1..n, k - 1 \in good PROVE k \in good
  <2>1. k \in 0..n /\ k # 0
    BY OneMore
  <2>2. PICK more : more = Waiting(FilesOf(Classified(projects[k], found, unreadable)), found)
    OBVIOUS
  <2>3. before[k] = before[k - 1] \o more
    BY <1>3, <2>1, <2>2 DEF Collects
  <2>4. PICK B : B = GroupsAt(projects, k, found, unreadable)
    OBVIOUS
  <2>5. more \in Seq(Paths) /\ ToSet(more) = {f \in UNION B : found[f] \in {"new", "stale"}}
    BY <2>2, <2>4, ProjectCandidates DEF QueueFits
  <2>6. PICK earlier \in Seq(Paths) : earlier = before[k - 1] /\ ToSet(earlier) = waiting(k - 1)
    BY <1>5
  <2>7. earlier \o more \in Seq(Paths) /\ ToSet(earlier \o more) = ToSet(earlier) \cup ToSet(more)
    BY <2>5, <2>6, ConcatSet
  <2>8. PICK A : A = groups(k - 1)
    OBVIOUS
  <2>9. groups(k) = A \cup B
    <3>1. GroupsTo(projects, k, found, unreadable, {})
            = GroupsTo(projects, k - 1, found, unreadable, {}) \cup GroupsAt(projects, k, found, unreadable)
      <4>1. k \notin {}
        OBVIOUS
      <4>2. QED
        BY <4>1, GroupsMore
    <3>2. QED
      BY <2>4, <2>8, <3>1
  <2>10. UNION groups(k) = (UNION A) \cup (UNION B)
    BY <2>9, UnionJoined
  <2>11. waiting(k) = waiting(k - 1) \cup ToSet(more)
    BY <2>5, <2>8, <2>10
  <2>12. QED
    BY <2>1, <2>3, <2>6, <2>7, <2>11
<1>6. 0..n \subseteq good
  <2> HIDE DEF good
  <2>1. QED
    BY <1>4, <1>5, UpTo
<1>7. n \in 0..n
  OBVIOUS
<1>8. QED
  BY <1>3, <1>6, <1>7

\* And the rollouts that wait.
LEMMA CodexCollected ==
  ASSUME NEW layout, NEW found, LayoutFits(layout, found), NEW unreadable,
         ~RolloutsFail(layout.rollouts, found, unreadable)
  PROVE  /\ CodexCandidates(layout.rollouts, found) \in Seq(Paths)
         /\ ToSet(CodexCandidates(layout.rollouts, found))
              = {f \in UNION RolloutGroups(layout, found, unreadable) : found[f] \in {"new", "stale"}}
<1>1. PICK there : there = {f \in ToSet(layout.rollouts) : found[f] # "absent"}
  OBVIOUS
<1>2. PICK paths \in Seq(Paths) : paths = ListRolloutPaths(layout.rollouts, found)
  BY <1>1, KeptIs DEF ListRolloutPaths, LayoutFits
<1>3. /\ Waiting(paths, found) \in Seq(Paths)
      /\ ToSet(Waiting(paths, found)) = {f \in ToSet(paths) : found[f] \in {"new", "stale"}}
  BY WaitingAre
<1>4. RolloutGroups(layout, found, unreadable) = {{f} : f \in ToSet(paths)}
  BY <1>2 DEF RolloutGroups
<1>5. UNION RolloutGroups(layout, found, unreadable) = ToSet(paths)
  BY <1>4
<1>6. CodexCandidates(layout.rollouts, found) = Waiting(paths, found)
  BY <1>2 DEF CodexCandidates
<1>7. QED
  BY <1>3, <1>5, <1>6

\* What is queued is what a run takes.
LEMMA OffersAreRuns ==
  ASSUME NEW layout, NEW found, LayoutFits(layout, found), NEW unreadable, NEW broken
  PROVE  SaysWhatRunDoes(layout, found, unreadable, broken)
<1>1. PICK result : result = PipelineAnalyze(layout, found, unreadable, broken)
  OBVIOUS
<1>2. PICK candidates : candidates = SyncCandidates(layout, found, unreadable, broken)
  OBVIOUS
<1>3. result.err = (broken # {} \/ RolloutsFail(layout.rollouts, found, unreadable))
  BY <1>1 DEF PipelineAnalyze
<1>4. candidates.err = (broken # {} \/ RolloutsFail(layout.rollouts, found, unreadable))
  BY <1>2 DEF SyncCandidates
<1>5. ASSUME ~result.err PROVE ToSet(result.analysis.queued) = ToSet(candidates.files)
  <2>1. broken = {} /\ ~RolloutsFail(layout.rollouts, found, unreadable)
    BY <1>3, <1>5
  <2>2. AreProjects(layout.projects, found)
    BY DEF LayoutFits
  <2>3. PICK n \in Nat : DOMAIN layout.projects = 1..n
    BY <2>2, LenProperties DEF AreProjects
  <2>4. PICK A, B : /\ A = GroupsTo(layout.projects, n, found, unreadable, {})
                    /\ B = RolloutGroups(layout, found, unreadable)
    OBVIOUS
  <2>5. PICK some \in Seq(Paths) : /\ some = ClaudeCandidates(layout.projects, found, unreadable)
                                   /\ ToSet(some) = {f \in UNION A : found[f] \in {"new", "stale"}}
    BY <2>2, <2>3, <2>4, ClaudeCollected
  <2>6. PICK others \in Seq(Paths) : /\ others = CodexCandidates(layout.rollouts, found)
                                     /\ ToSet(others) = {f \in UNION B : found[f] \in {"new", "stale"}}
    BY <2>1, <2>4, CodexCollected
  <2>7. candidates.files = some \o others
    BY <1>2, <2>1, <2>5, <2>6 DEF SyncCandidates
  <2>8. ToSet(some \o others) = ToSet(some) \cup ToSet(others)
    BY ConcatSet
  <2>9. Conversations(layout, found, unreadable, broken) = A \cup B
    BY <2>1, <2>3, <2>4, ConversationsAre
  <2>10. UNION Conversations(layout, found, unreadable, broken) = (UNION A) \cup (UNION B)
    BY <2>9, UnionJoined
  <2>11. ToSet(result.analysis.queued)
           = {f \in UNION Conversations(layout, found, unreadable, broken) : found[f] \in {"new", "stale"}}
    BY <1>1, AllCounted DEF CountsFit, QueueFits
  <2>12. QED
    BY <2>5, <2>6, <2>7, <2>8, <2>10, <2>11
<1>6. QED
  BY <1>1, <1>2, <1>3, <1>4, <1>5 DEF SaysWhatRunDoes

\* Of every layout, whatever is found and cannot be read.
LEMMA EveryAnalysisIsRight == EveryAnalysisRight
<1>1. SUFFICES ASSUME NEW layout \in Layouts, NEW found \in [AllFiles(layout) -> FileStates],
                      NEW unreadable \in SUBSET AllFiles(layout), NEW broken \in SUBSET DOMAIN layout.projects
               PROVE  /\ CountsRight(layout, found, unreadable, broken)
                      /\ SaysWhatRunDoes(layout, found, unreadable, broken)
  BY Zenon DEF EveryAnalysisRight
<1>2. IsLayout(layout)
  BY LayoutsAssumption, Zenon
<1>3. Stand(layout, found)
  BY DEF Stand
<1>4. LayoutFits(layout, found)
  BY <1>2, <1>3, ALayoutFits
<1>5. QED
  BY <1>4, CountsAreRight, OffersAreRuns

\* Where everything can be read, the conversations have every file there is.
LEMMA FilesCovered ==
  ASSUME NEW layout, NEW found, LayoutFits(layout, found)
  PROVE  {f \in UNION Conversations(layout, found, {}, {}) : found[f] \in {"new", "stale"}}
           = {f \in AllFiles(layout) : found[f] \in {"new", "stale"}}
<1>1. AreProjects(layout.projects, found)
  BY DEF LayoutFits
<1>2. PICK projects, rollouts : /\ projects = layout.projects /\ rollouts = layout.rollouts
                                /\ projects \in Seq(Seq(Session)) /\ rollouts \in Seq(Paths)
  BY DEF LayoutFits, AreProjects
<1>3. PICK n \in Nat : DOMAIN projects = 1..n
  BY <1>2, LenProperties
<1>4. PICK A, B : /\ A = GroupsTo(projects, n, found, {}, {}) /\ B = RolloutGroups(layout, found, {})
                  /\ Conversations(layout, found, {}, {}) = A \cup B
  BY <1>2, <1>3, ConversationsAre
<1>5. ASSUME NEW p \in 1..n
      PROVE  UNION GroupsAt(projects, p, found, {})
               = {x.file : x \in {y \in ToSet(projects[p]) : found[y.file] # "absent"}}
  <2>1. PICK S : S = ToSet(Classified(projects[p], found, {}))
    OBVIOUS
  <2>2. IsProject(projects[p], found) /\ projects[p] \in Seq(Session)
    BY <1>1, <1>2, <1>3 DEF AreProjects, IsProject
  <2>3. UNION GroupsAt(projects, p, found, {}) = {x.file : x \in S}
    BY <2>1, <2>2, ProjectCounted DEF GroupsAt
  <2>4. S = {y \in ToSet(projects[p]) : found[y.file] # "absent" /\ (y.subagent \/ y.file \notin {})}
    BY <2>1, <2>2, ClassifiedAre
  <2>5. S = {y \in ToSet(projects[p]) : found[y.file] # "absent"}
    BY <2>4
  <2>6. QED
    BY <2>3, <2>5
<1>6. UNION B = {f \in ToSet(rollouts) : found[f] # "absent"}
  <2>1. ~RolloutsFail(rollouts, found, {})
    BY DEF RolloutsFail
  <2>2. PICK there : there = {f \in ToSet(rollouts) : found[f] # "absent"}
    OBVIOUS
  <2>3. ToSet(ListRolloutPaths(rollouts, found)) = ToSet(rollouts) \cap there
    BY <1>2, <2>2, KeptIs DEF ListRolloutPaths
  <2>4. B = {{f} : f \in ToSet(ListRolloutPaths(rollouts, found))}
    BY <1>2, <1>4, <2>1 DEF RolloutGroups
  <2>5. UNION B = ToSet(ListRolloutPaths(rollouts, found))
    BY <2>4
  <2>6. QED
    BY <2>2, <2>3, <2>5
<1>7. ToSet(projects) = {projects[p] : p \in 1..n}
  BY <1>3 DEF ToSet
<1>8. AllFiles(layout) = (UNION {{x.file : x \in ToSet(project)} : project \in ToSet(projects)}) \cup ToSet(rollouts)
  BY <1>2 DEF AllFiles
<1>9. ASSUME NEW f \in UNION (A \cup B) PROVE f \in AllFiles(layout)
  <2>1. PICK g \in A \cup B : f \in g
    BY <1>9
  <2>2. CASE g \in B
    BY <1>6, <1>8, <2>1, <2>2
  <2>3. CASE g \in A
    <3>1. PICK p \in (1..n) \ {} : g \in GroupsAt(projects, p, found, {})
      BY <1>4, <2>3 DEF GroupsTo
    <3>2. f \in UNION GroupsAt(projects, p, found, {})
      BY <2>1, <3>1
    <3>3. PICK x \in ToSet(projects[p]) : x.file = f
      BY <1>5, <3>1, <3>2
    <3>4. f \in {y.file : y \in ToSet(projects[p])} /\ projects[p] \in ToSet(projects)
      BY <1>7, <3>1, <3>3
    <3>5. QED
      BY <1>8, <3>4
  <2>4. QED
    BY <2>1, <2>2, <2>3
<1>10. ASSUME NEW f \in AllFiles(layout), found[f] # "absent" PROVE f \in UNION (A \cup B)
  <2>1. UNION (A \cup B) = (UNION A) \cup (UNION B)
    BY UnionJoined
  <2>2. CASE f \in ToSet(rollouts)
    BY <1>6, <1>10, <2>1, <2>2
  <2>3. CASE f \notin ToSet(rollouts)
    <3>1. PICK project \in ToSet(projects) : f \in {x.file : x \in ToSet(project)}
      BY <1>8, <2>3
    <3>2. PICK p \in 1..n : project = projects[p]
      BY <1>7
    <3>3. f \in UNION GroupsAt(projects, p, found, {})
      BY <1>5, <1>10, <3>1, <3>2
    <3>4. PICK g \in GroupsAt(projects, p, found, {}) : f \in g
      BY <3>3
    <3>5. g \in A
      BY <1>4, <3>4 DEF GroupsTo
    <3>6. QED
      BY <2>1, <3>4, <3>5
  <2>4. QED
    BY <2>2, <2>3
<1>11. QED
  BY <1>4, <1>9, <1>10

\* Which of the files of the pipeline wait.
LEMMA FoundStands ==
  /\ \A f \in Files : Found[f] \in FileStates
  /\ \A f \in Files : Found[f] \in {"new", "stale"} <=> NeedsSync(f)
<1>1. SUFFICES ASSUME NEW f \in Files
               PROVE  Found[f] \in FileStates /\ (Found[f] \in {"new", "stale"} <=> NeedsSync(f))
  OBVIOUS
<1>2. NeedsSync(f) => Exists(f)
  BY DEF NeedsSync
<1>3. Found[f] = CASE ~Exists(f) -> "absent"
                   [] Exists(f) /\ ~NeedsSync(f) -> "current"
                   [] NeedsSync(f) /\ raw[f].mtime = 0 -> "new"
                   [] NeedsSync(f) /\ raw[f].mtime # 0 -> "stale"
  BY Zenon DEF Found
<1>4. CASE ~Exists(f)
  BY <1>2, <1>3, <1>4 DEF FileStates
<1>5. CASE Exists(f) /\ ~NeedsSync(f)
  BY <1>3, <1>5 DEF FileStates
<1>6. CASE NeedsSync(f) /\ raw[f].mtime = 0
  BY <1>2, <1>3, <1>6 DEF FileStates
<1>7. CASE NeedsSync(f) /\ raw[f].mtime # 0
  BY <1>2, <1>3, <1>7 DEF FileStates
<1>8. QED
  BY <1>4, <1>5, <1>6, <1>7

\* The screen and the pipeline agree, in every state of the pipeline.
LEMMA AnalysisAgrees == AgreesWithPipeline
<1>1. IsLayout(SourceTree) /\ AllFiles(SourceTree) = Files
  BY LayoutsAssumption
<1>2. PICK found : found = Found
  OBVIOUS
<1>3. Stand(SourceTree, found)
  BY <1>1, <1>2, FoundStands DEF Stand
<1>4. LayoutFits(SourceTree, found)
  BY <1>1, <1>3, ALayoutFits
<1>5. PICK result : result = PipelineAnalyze(SourceTree, found, {}, {})
  OBVIOUS
<1>6. PICK queued \in Seq(Paths) :
        /\ queued = result.analysis.queued
        /\ ToSet(queued) = {f \in UNION Conversations(SourceTree, found, {}, {}) : found[f] \in {"new", "stale"}}
  <2>1. CountsFit(result.analysis, Conversations(SourceTree, found, {}, {}), found)
    BY <1>4, <1>5, AllCounted
  <2>2. QueueFits(result.analysis.queued, Conversations(SourceTree, found, {}, {}), found)
    BY <2>1, Zenon DEF CountsFit
  <2>3. QED
    BY <2>2, Zenon DEF QueueFits
<1>7. ToSet(queued) = {f \in Files : NeedsSync(f)}
  <2>1. ToSet(queued) = {f \in AllFiles(SourceTree) : found[f] \in {"new", "stale"}}
    BY <1>4, <1>6, FilesCovered
  <2>2. QED
    BY <1>1, <1>2, <2>1, FoundStands
<1>8. ~result.err
  <2>1. ~RolloutsFail(SourceTree.rollouts, found, {})
    BY DEF RolloutsFail
  <2>2. QED
    BY <1>5, <2>1 DEF PipelineAnalyze
<1>9. queued # <<>> <=> \E f \in Files : NeedsSync(f)
  <2>1. queued # <<>> <=> ToSet(queued) # {}
    <3>1. PICK n \in Nat : n = Len(queued) /\ DOMAIN queued = 1..n
      BY LenProperties
    <3>2. queued # <<>> <=> n # 0
      BY <3>1, EmptySeq
    <3>3. n # 0 <=> 1..n # {}
      <4>1. n # 0 => 1 \in 1..n
        OBVIOUS
      <4>2. n = 0 => 1..n = {}
        OBVIOUS
      <4>3. QED
        BY <4>1, <4>2
    <3>4. QED
      BY <3>1, <3>2, <3>3 DEF ToSet
  <2>2. QED
    BY <1>7, <2>1
<1>10. OffersRun(result, ~built) <=> ((\E f \in Files : NeedsSync(f)) \/ ~built)
  BY <1>6, <1>8, <1>9 DEF OffersRun
<1>11. QED
  BY <1>2, <1>5, <1>6, <1>7, <1>10 DEF AgreesWithPipeline

\* What the import screen says is true, of any projects and rollouts, however
\* their files stand and whichever of them cannot be read: every conversation
\* is counted once and as it stands, every file that waits is queued once, and
\* what is offered is what a run takes (Pipeline.Analyze, classifyConversations,
\* recordClassifiedConversation, analyzePath, syncCandidates).
THEOREM ImportScreenTruthful == Spec => []AnalysisTrue
<1>1. AnalysisTrue
  BY EveryAnalysisIsRight, AnalysisAgrees DEF AnalysisTrue
<1>2. QED
  BY <1>1, PTL
=============================================================================
