------------------------- MODULE CanonicalStoreProofs -------------------------
(***************************************************************************)
(* Proofs about CanonicalStore for any number of goroutines, changes and   *)
(* failures.                                                               *)
(*                                                                         *)
(* In every setting no open handle is forgotten.  Where calls take turns,  *)
(* and whatever fails or crashes between two of their steps, the store is  *)
(* sound: what was acknowledged is there for the next process, the cached  *)
(* handle is on the store's file, the cached catalog is what the store     *)
(* holds, and no call leaves an empty database behind.  With calls that    *)
(* overlap these four are false in general; the runs say how far they go.  *)
(***************************************************************************)
EXTENDS CanonicalStore, TLAPS

\* The state is made of functions on the right domains; this is all the
\* ownership of handles needs to know of it.
Shape ==
  /\ on = [h \in Handle |-> on[h]]
  /\ pc = [p \in Procs |-> pc[p]]
  /\ held = [p \in Procs |-> held[p]]

LEMMA ShapeAlways == Spec => []Shape
<1>1. Init => Shape
  BY DEF Init, Shape
<1>2. Shape /\ [Next]_<<vars, setting>> => Shape'
  <2> SUFFICES ASSUME Shape, [Next]_<<vars, setting>> PROVE Shape'
    OBVIOUS
  <2> USE DEF Goto, Return, BeginRebuildAll, vars, files, caches, calls, jobs
  <2>1. ASSUME NEW p \in Procs, LoadDB(p) \/ Call(p) \/ Read(p) PROVE Shape'
    BY <2>1 DEF Shape, LoadDB, FileExists, FileMissing, CachedDB, OpenDB, OpenFails, CacheDB, Close, Call,
       Read, UseList, CacheCatalog, UseRead, UseSearch
  <2>2. ASSUME NEW p \in Procs, Run(p) \/ Incremental(p) PROVE Shape'
    BY <2>2 DEF Shape, Run, Incremental, UseNeeds, UseCheck, ApplyIncremental, ApplyFails
  <2>3. ASSUME NEW p \in Procs, Full(p) PROVE Shape'
    BY <2>3 DEF Shape, Full, InvalidateDB, CloseDropped, CloseDroppedFails, Close, WriteTemp, WriteFails,
       RemoveSidecars, RenameBackup, RenameBackupFails, RenameFinal, RenameFinalFails
  <2>4. CASE Crash \/ UNCHANGED vars
    BY <2>4 DEF Shape, Crash
  <2>5. QED
    BY <2>1, <2>2, <2>3, <2>4 DEF Next, Procs
<1>3. QED
  BY <1>1, <1>2, PTL DEF Spec

\* Each step leaves every open handle with an owner.
LEMMA OwnedInductive == Shape /\ HandlesOwned /\ [Next]_<<vars, setting>> => HandlesOwned'
<1> SUFFICES ASSUME Shape, HandlesOwned, [Next]_<<vars, setting>>, NEW h \in Handle, on'[h] # None
             PROVE h = cached' \/ \E p \in Procs : held'[p] = h /\ pc'[p] \in {"cache", "close"}
  BY DEF HandlesOwned
<1> USE DEF Shape, HandlesOwned, Goto, Return
\* Steps of p that neither open nor close, while p owns no handle.
<1>1. ASSUME NEW p \in Procs, pc[p] \notin {"cache", "close"},
             UNCHANGED <<on, cached>>,
             \A q \in Procs \ {p} : pc'[q] = pc[q] /\ held'[q] = held[q]
      PROVE h = cached' \/ \E q \in Procs : held'[q] = h /\ pc'[q] \in {"cache", "close"}
  BY <1>1
<1>2. ASSUME NEW p \in Procs, OpenDB(p)
      PROVE h = cached' \/ \E q \in Procs : held'[q] = h /\ pc'[q] \in {"cache", "close"}
  BY <1>2 DEF OpenDB
<1>3. ASSUME NEW p \in Procs, CacheDB(p)
      PROVE h = cached' \/ \E q \in Procs : held'[q] = h /\ pc'[q] \in {"cache", "close"}
  <2>1. /\ pc'[p] = "use"
        /\ \A q \in Procs \ {p} : pc'[q] = pc[q] /\ held'[q] = held[q]
    BY <1>3 DEF CacheDB
  <2>2. CASE cached = None
    <3>1. cached' = held[p] /\ on' = on
      BY <1>3, <2>2 DEF CacheDB
    <3>2. h # cached
      BY <2>2 DEF Handle, None
    <3>3. QED
      BY <2>1, <3>1, <3>2
  <2>3. CASE cached # None
    <3>1. cached' = cached /\ on' = [on EXCEPT ![held[p]] = None]
      BY <1>3, <2>3 DEF CacheDB, Close
    <3>2. h # held[p] /\ on[h] # None
      BY <3>1
    <3>3. QED
      BY <2>1, <3>1, <3>2
  <2>4. QED
    BY <2>2, <2>3
<1>4. ASSUME NEW w \in Procs, InvalidateDB(w)
      PROVE h = cached' \/ \E q \in Procs : held'[q] = h /\ pc'[q] \in {"cache", "close"}
  BY <1>4 DEF InvalidateDB
<1>5. ASSUME NEW w \in Procs, CloseDropped(w) \/ CloseDroppedFails(w)
      PROVE h = cached' \/ \E q \in Procs : held'[q] = h /\ pc'[q] \in {"cache", "close"}
  <2>1. /\ on' = [on EXCEPT ![held[w]] = None] /\ cached' = cached
        /\ held' = [held EXCEPT ![w] = None] /\ \E l : Goto(w, l)
    BY <1>5 DEF CloseDropped, CloseDroppedFails, Close
  <2>2. h # held[w] /\ on[h] # None
    BY <2>1
  <2>3. \A q \in Procs \ {w} : pc'[q] = pc[q] /\ held'[q] = held[q]
    BY <2>1
  <2>4. CASE h = cached
    BY <2>1, <2>4
  <2>5. ASSUME NEW q \in Procs, held[q] = h, pc[q] \in {"cache", "close"}
        PROVE  held'[q] = h /\ pc'[q] \in {"cache", "close"}
    BY <2>2, <2>3, <2>5
  <2>6. QED
    BY <2>2, <2>4, <2>5
<1>6. ASSUME NEW p \in Procs, FileExists(p) \/ FileMissing(p) \/ CachedDB(p) \/ OpenFails(p)
      PROVE h = cached' \/ \E q \in Procs : held'[q] = h /\ pc'[q] \in {"cache", "close"}
  <2>1. CASE FileExists(p)
    BY <1>1, <2>1 DEF FileExists, caches
  <2>2. CASE FileMissing(p)
    <3>1. pc[p] \notin {"cache", "close"} /\ UNCHANGED <<on, cached>>
      BY <2>2 DEF FileMissing
    <3>2. (\E l : Goto(p, l)) /\ (held' = held \/ held' = [held EXCEPT ![p] = None])
      BY <2>2 DEF FileMissing, BeginRebuildAll
    <3>3. \A q \in Procs \ {p} : pc'[q] = pc[q] /\ held'[q] = held[q]
      BY <3>2
    <3>4. QED
      BY <1>1, <3>1, <3>3
  <2>3. CASE CachedDB(p)
    BY <1>1, <2>3 DEF CachedDB, caches
  <2>4. CASE OpenFails(p)
    BY <1>1, <2>4 DEF OpenFails, caches
  <2>5. QED
    BY <1>6, <2>1, <2>2, <2>3, <2>4
<1>7. ASSUME NEW r \in Procs, Call(r) \/ Read(r)
      PROVE h = cached' \/ \E q \in Procs : held'[q] = h /\ pc'[q] \in {"cache", "close"}
  BY <1>1, <1>7 DEF Call, Read, UseList, CacheCatalog, UseRead, UseSearch, MayStart, Active, caches
<1>8. ASSUME NEW w \in Procs, Run(w) \/ Incremental(w)
      PROVE h = cached' \/ \E q \in Procs : held'[q] = h /\ pc'[q] \in {"cache", "close"}
  <2>1. pc[w] \notin {"cache", "close"} /\ UNCHANGED <<on, cached>>
    BY <1>8 DEF Run, Incremental, UseNeeds, UseCheck, ApplyIncremental, ApplyFails,
       BeginRebuildAll, MayStart, Active, caches
  <2>2. /\ \E l : Goto(w, l)
        /\ held' = held \/ held' = [held EXCEPT ![w] = None]
    BY <1>8 DEF Run, Incremental, UseNeeds, UseCheck, ApplyIncremental, ApplyFails,
       BeginRebuildAll
  <2>3. \A q \in Procs \ {w} : pc'[q] = pc[q] /\ held'[q] = held[q]
    BY <2>2
  <2>4. QED
    BY <1>1, <2>1, <2>3
<1>9. ASSUME NEW w \in Procs, WriteTemp(w) \/ WriteFails(w) \/ RemoveSidecars(w) \/ RenameBackup(w)
                              \/ RenameBackupFails(w) \/ RenameFinal(w) \/ RenameFinalFails(w)
      PROVE h = cached' \/ \E q \in Procs : held'[q] = h /\ pc'[q] \in {"cache", "close"}
  BY <1>1, <1>9 DEF WriteTemp, WriteFails, RemoveSidecars, RenameBackup, RenameBackupFails,
     RenameFinal, RenameFinalFails, caches
<1>10. CASE Crash
  BY <1>10 DEF Crash
<1>11. CASE UNCHANGED vars
  BY <1>11 DEF vars, caches, calls
<1>12. QED
  BY <1>2, <1>3, <1>4, <1>5, <1>6, <1>7, <1>8, <1>9, <1>10, <1>11
  DEF Next, LoadDB, Full, Procs, vars

\* No handle leaks, in any setting: a handle that is open is the cached one,
\* or a call has it in hand and is about to cache or close it (loadDB,
\* cacheDB, invalidateDB).
THEOREM NoHandleLeaks == Spec => []HandlesOwned
<1>1. Init => HandlesOwned
  BY DEF Init, HandlesOwned
<1>2. QED
  BY <1>1, OwnedInductive, ShapeAlways, PTL DEF Spec

-----------------------------------------------------------------------------
(* Calls that take turns.  The invariant says what each stage of a call    *)
(* relies on, while every other goroutine is idle.                         *)

OneAtATime == \A p, q \in Procs : Active(p) /\ Active(q) => p = q

\* The log is the store's and nothing acknowledged is outside of it.
FilesInv ==
  /\ wal \in {None, final}
  /\ final # None => disk[final].kind \in {"current", "stale"}
  /\ final # None /\ wal = None => disk[final].log = {}
  /\ acked \subseteq 1..archive
  /\ \A w \in Writers : batch[w] \subseteq 1..archive
  /\ Usable => acked \subseteq Seen(final)

\* Every handle is on the store, and while one is open so is the log.
HandlesInv ==
  /\ \A h \in Handle : on[h] # None => on[h] = final /\ wal = final
  /\ cached # None => on[cached] # None

CatalogInv == catalog # NoCatalog => catalog = Reopened

\* A call that loads the handle: what it knows before each of its steps.
LoadStage(p) ==
  /\ ~Active(p) => held[p] = None
  /\ pc[p] \in {"stat", "open", "cache"} => cached = None
  /\ pc[p] \in {"stat", "open"} => held[p] = None
  /\ pc[p] = "open" => final # None
  /\ pc[p] \in {"cache", "close"} => held[p] \in Handle /\ on[held[p]] # None
  /\ pc[p] = "use" => held[p] = cached /\ cached # None
  /\ pc[p] = "keep" => p \in Readers /\ got[p] = Reopened
  /\ Active(p) /\ want[p] \in {"needs", "check", "apply"} => p \in Writers
  /\ Active(p) /\ want[p] \in {"check", "apply"} => catalog = NoCatalog
  /\ want[p] \in {"check", "apply"} =>  \* the handle needsRebuild has cached
       /\ pc[p] = "exists" /\ final # None => cached # None
       /\ pc[p] = "load" => cached # None
       /\ pc[p] \notin {"stat", "open"}

\* A rebuild: the old store is closed and whole, the new one complete.
RebuildStage(p) ==
  /\ pc[p] \in Rebuilding => p \in Writers /\ want[p] \in {"check", "apply"}
  /\ pc[p] = "drop" /\ final # None => cached # None
  /\ pc[p] \in Rebuilding \ {"drop"} => cached = None
  /\ pc[p] \in {"scan", "clear", "backup", "swap"} /\ final # None => disk[final].log = {}
  /\ pc[p] \in {"clear", "backup", "swap"} =>
       /\ temp[p] \in Inode \ {final}
       /\ disk[temp[p]] = [kind |-> "current", base |-> 1..archive, log |-> {}]
  /\ pc[p] = "backup" => final # None
  /\ pc[p] \in {"backup", "swap"} => wal = None
  /\ pc[p] = "swap" =>
       /\ final = None
       /\ backup[p] # None =>
            /\ disk[backup[p]].kind \in {"current", "stale"} /\ disk[backup[p]].log = {}
            /\ disk[backup[p]].kind = "current" => acked \subseteq disk[backup[p]].base
  /\ p \in Writers /\ pc[p] # "swap" => backup[p] = None
  /\ p \in Writers /\ pc[p] \notin {"clear", "backup", "swap"} => temp[p] = None

TurnsInv ==
  /\ TypeOK /\ OneAtATime /\ HandlesOwned
  /\ FilesInv /\ HandlesInv /\ CatalogInv
  /\ \A p \in Procs : LoadStage(p) /\ RebuildStage(p)

StoreInv == ~setting.overlap => TurnsInv

\* What a step of p has to establish; the rest of TurnsInv follows.
Good(p) ==
  TypeOK /\ FilesInv /\ HandlesInv /\ CatalogInv /\ LoadStage(p) /\ RebuildStage(p)

\* p changes neither what the others hold nor where they are, and they rest.
Alone(p) ==
  /\ pc = [q \in Procs |-> IF q = p THEN pc[p] ELSE "idle"]
  /\ \A q \in Procs \ {p} : pc'[q] = pc[q] /\ held'[q] = held[q]
  /\ \A w \in Writers \ {p} : temp'[w] = temp[w] /\ backup'[w] = backup[w]

LEMMA TurnTaken ==
  ASSUME TurnsInv, NEW p \in Procs, Alone(p), Good(p)', HandlesOwned'
  PROVE  TurnsInv'
<1>1. \A q \in Procs \ {p} :
        /\ pc[q] = "idle" /\ pc'[q] = "idle" /\ held'[q] = None
        /\ q \in Writers => temp'[q] = None /\ backup'[q] = None
  BY DEF TurnsInv, Alone, LoadStage, RebuildStage, Active
<1>2. OneAtATime'
  BY <1>1 DEF OneAtATime, Active
<1>3. \A q \in Procs \ {p} : LoadStage(q)' /\ RebuildStage(q)'
  BY <1>1 DEF LoadStage, RebuildStage, Active, Rebuilding
<1>4. QED
  BY <1>2, <1>3 DEF TurnsInv, Good

\* A step that touches no file and no handle, and at most drops the catalog.
LEMMA TurnOfCalls ==
  ASSUME TurnsInv, NEW p \in Procs, UNCHANGED <<files, on, cached, jobs, setting>>,
         catalog' \in {catalog, NoCatalog}, TypeOK', LoadStage(p)', RebuildStage(p)'
  PROVE  Good(p)'
<1> USE DEF TurnsInv, files, jobs
<1>1. FilesInv'
  BY DEF FilesInv, Usable, Seen
<1>2. HandlesInv'
  BY DEF HandlesInv
<1>3. CatalogInv'
  BY DEF CatalogInv, Reopened
<1>4. QED
  BY <1>1, <1>2, <1>3 DEF Good

\* While p runs, a handle is open only if it is cached or in p's hands.
LEMMA OpenHandles ==
  ASSUME TurnsInv, NEW p \in Procs, Active(p)
  PROVE  /\ \A q \in Procs \ {p} : pc[q] = "idle" /\ held[q] = None
         /\ \A h \in Handle : on[h] # None =>
              h = cached \/ (held[p] = h /\ pc[p] \in {"cache", "close"})
         /\ \A w \in Writers \ {p} : temp[w] = None /\ backup[w] = None
<1>1. \A q \in Procs \ {p} : pc[q] = "idle"
  BY DEF TurnsInv, OneAtATime, Active
<1>2. QED
  BY <1>1 DEF TurnsInv, LoadStage, RebuildStage, HandlesOwned, Active, Procs

Labels == {"idle", "keep"} \cup Loading \cup Rebuilding

\* Where a step of p may lead without a type going wrong.
LEMMA CallsTyped ==
  ASSUME TypeOK, UNCHANGED <<files, on, cached, jobs, setting>>,
         catalog' \in {catalog, NoCatalog},
         faults' = faults \/ \E kind : Strike(kind),
         NEW p \in Procs, NEW l \in Labels, Goto(p, l),
         NEW h \in Handle \cup {None}, held' = held \/ held' = [held EXCEPT ![p] = h],
         NEW need \in Wants, want' = want \/ want' = [want EXCEPT ![p] = need],
         NEW rows \in SUBSET Change, got' = got \/ got' = [got EXCEPT ![p] = rows]
  PROVE  TypeOK'
<1>1. pc' \in [Procs -> Labels]
  BY DEF TypeOK, Goto, Labels
<1>2. held' \in [Procs -> Handle \cup {None}] /\ want' \in [Procs -> Wants]
  BY DEF TypeOK
<1>3. got' \in [Readers -> SUBSET Change]
  BY DEF TypeOK
<1>4. faults' \in 0..MaxFaults
  BY SettingsAssumption DEF TypeOK, Strike
<1>5. /\ archive' = archive /\ disk' = disk /\ final' = final /\ wal' = wal /\ acked' = acked
      /\ on' = on /\ cached' = cached /\ setting' = setting
      /\ batch' = batch /\ temp' = temp /\ backup' = backup
  BY DEF files, jobs
<1>6. catalog' \in (SUBSET Change) \cup {NoCatalog}
  BY DEF TypeOK
<1>7. QED
  BY <1>1, <1>2, <1>3, <1>4, <1>5, <1>6 DEF TypeOK, Labels

\* While the files are exchanged nothing is open, and the store's log is empty.
LEMMA StoreClosed ==
  ASSUME TurnsInv, NEW w \in Writers, pc[w] \in {"scan", "clear", "backup", "swap"}
  PROVE  /\ cached = None /\ catalog = NoCatalog
         /\ final # None => final \in Inode /\ disk[final].log = {}
         /\ \A h \in Handle : on[h] = None
<1> USE ProcsAssumption DEF TurnsInv, Procs
<1>1. Active(w)
  BY DEF Active
<1>2. cached = None /\ catalog = NoCatalog
  BY <1>1 DEF LoadStage, RebuildStage, Rebuilding
<1>3. final # None => final \in Inode /\ disk[final].log = {}
  BY DEF RebuildStage, TypeOK
<1>4. \A h \in Handle : h # cached
  BY <1>2 DEF Handle, None
<1>5. QED
  BY <1>1, <1>2, <1>3, <1>4, OpenHandles

LEMMA FileExistsTurn ==
  ASSUME TurnsInv, NEW p \in Procs, FileExists(p), UNCHANGED setting
  PROVE  Good(p)'
<1> USE DEF TurnsInv, FileExists, Goto, files, caches, jobs
<1>1. TypeOK'
  BY DEF TypeOK, Loading, Change
<1>2. LoadStage(p)' /\ RebuildStage(p)'
  BY DEF LoadStage, RebuildStage, TypeOK, Active, Reopened, Rebuilding
<1>3. QED
  BY <1>1, <1>2, TurnOfCalls

LEMMA FileMissingTurn ==
  ASSUME TurnsInv, NEW p \in Procs, FileMissing(p), UNCHANGED setting
  PROVE  Good(p)'
<1> USE ProcsAssumption DEF TurnsInv, FileMissing, BeginRebuildAll, Return, Goto, files, caches, jobs, Procs
<1>1. TypeOK'
  BY CallsTyped DEF TypeOK, Labels, Loading, Rebuilding, Wants
<1>2. LoadStage(p)' /\ RebuildStage(p)'
  BY DEF LoadStage, RebuildStage, TypeOK, Active, Reopened, Rebuilding, Usable, Seen
<1>3. QED
  BY <1>1, <1>2, TurnOfCalls DEF Strike

LEMMA CachedDBTurn ==
  ASSUME TurnsInv, NEW p \in Procs, CachedDB(p), UNCHANGED setting
  PROVE  Good(p)'
<1> USE ProcsAssumption DEF TurnsInv, CachedDB, Goto, files, caches, jobs, Procs
<1>1. TypeOK'
  BY CallsTyped DEF TypeOK, Labels, Loading, Rebuilding, Wants
<1>2. LoadStage(p)' /\ RebuildStage(p)'
  BY DEF LoadStage, RebuildStage, TypeOK, Active, Reopened, Rebuilding, Usable, Seen
<1>3. QED
  BY <1>1, <1>2, TurnOfCalls DEF Strike

LEMMA OpenFailsTurn ==
  ASSUME TurnsInv, NEW p \in Procs, OpenFails(p), UNCHANGED setting
  PROVE  Good(p)'
<1> USE DEF TurnsInv, OpenFails, Strike, Return, Goto, files, caches, jobs
<1>1. want[p] \notin {"check", "apply"}
  BY DEF LoadStage
<1>2. TypeOK'
  BY <1>1, CallsTyped DEF TypeOK, Labels, Loading, Rebuilding, Wants
<1>3. LoadStage(p)' /\ RebuildStage(p)'
  BY <1>1 DEF LoadStage, RebuildStage, TypeOK, Active, Reopened, Rebuilding, Usable, Seen
<1>4. QED
  BY <1>2, <1>3, TurnOfCalls DEF Strike

LEMMA UseListTurn ==
  ASSUME TurnsInv, NEW r \in Readers, UseList(r), UNCHANGED setting
  PROVE  Good(r)'
<1> USE ProcsAssumption DEF TurnsInv, UseList, Return, Goto, files, caches, jobs, Procs
<1> DEFINE rows == Seen(on[held[r]])
<1>a. CASE Broken(r)
  <2>1. TypeOK'
    BY <1>a, CallsTyped DEF TypeOK, Labels, Loading, Rebuilding, Wants
  <2>2. pc'[r] = "idle" /\ held'[r] = None
    BY <1>a DEF TypeOK
  <2>3. LoadStage(r)' /\ RebuildStage(r)'
    BY <2>2 DEF LoadStage, RebuildStage, Active, Rebuilding
  <2>4. QED
    BY <2>1, <2>3, TurnOfCalls
<1>b. CASE ~Broken(r)
  <2>1. on[held[r]] \in Inode /\ held[r] \in Handle
    BY <1>b DEF Broken, TypeOK, LoadStage, Procs
  <2>2. rows = Reopened /\ rows \in SUBSET Change
    BY <2>1 DEF HandlesInv, Seen, Reopened, TypeOK, Inode, None
  <2>3. Goto(r, "keep") /\ got' = [got EXCEPT ![r] = rows] /\ held' = held
    BY <1>b
  <2>4. UNCHANGED <<files, on, cached, catalog, want, jobs, faults>>
    BY DEF caches
  <2> HIDE DEF rows
  <2>5. TypeOK'
    BY <2>2, <2>3, <2>4, CallsTyped DEF TypeOK, Labels, Loading, Wants
  <2>6. Reopened' = Reopened
    BY <2>4 DEF Reopened, files
  <2>7. pc'[r] = "keep" /\ got'[r] = rows /\ held'[r] = held[r]
    BY <2>3 DEF TypeOK
  <2>8. LoadStage(r)'
    BY <2>2, <2>3, <2>4, <2>6, <2>7 DEF LoadStage, TypeOK, Active, Rebuilding
  <2>9. RebuildStage(r)'
    BY <2>7 DEF RebuildStage, Rebuilding
  <2>10. QED
    BY <2>4, <2>5, <2>8, <2>9, TurnOfCalls DEF jobs
<1>c. QED
  BY <1>a, <1>b

LEMMA UseReadTurn ==
  ASSUME TurnsInv, NEW r \in Readers, UseRead(r), UNCHANGED setting
  PROVE  Good(r)'
<1> USE ProcsAssumption DEF TurnsInv, UseRead, Return, Goto, files, caches, jobs, Procs
<1>1. TypeOK'
  BY DEF TypeOK, Loading, Rebuilding, Change, Wants, FaultKinds, Procs
<1>2. LoadStage(r)' /\ RebuildStage(r)'
  BY DEF LoadStage, RebuildStage, TypeOK, Active, Reopened, Rebuilding, Usable, Seen
<1>3. QED
  BY <1>1, <1>2, TurnOfCalls DEF Strike

LEMMA UseSearchTurn ==
  ASSUME TurnsInv, NEW r \in Readers, UseSearch(r), UNCHANGED setting
  PROVE  Good(r)'
<1> USE ProcsAssumption DEF TurnsInv, UseSearch, Return, Goto, files, caches, jobs, Procs
<1>1. TypeOK'
  BY DEF TypeOK, Loading, Rebuilding, Change, Wants, FaultKinds, Procs
<1>2. LoadStage(r)' /\ RebuildStage(r)'
  BY DEF LoadStage, RebuildStage, TypeOK, Active, Reopened, Rebuilding, Usable, Seen
<1>3. QED
  BY <1>1, <1>2, TurnOfCalls DEF Strike

LEMMA CallTurn ==
  ASSUME TurnsInv, NEW r \in Readers, Call(r), UNCHANGED setting
  PROVE  Good(r)'
<1> USE ProcsAssumption DEF TurnsInv, Call, MayStart, Goto, files, caches, jobs, Procs
<1>1. TypeOK'
  BY DEF TypeOK, Loading, Rebuilding, Change, Wants, FaultKinds, Procs
<1>2. LoadStage(r)' /\ RebuildStage(r)'
  BY DEF LoadStage, RebuildStage, TypeOK, Active, Reopened, Rebuilding, Usable, Seen
<1>3. QED
  BY <1>1, <1>2, TurnOfCalls DEF Strike

LEMMA UseNeedsTurn ==
  ASSUME TurnsInv, NEW w \in Writers, UseNeeds(w), UNCHANGED setting
  PROVE  Good(w)'
<1> USE ProcsAssumption DEF TurnsInv, UseNeeds, BeginRebuildAll, Return, Goto, files, caches, jobs, Procs
<1>1. TypeOK'
  BY CallsTyped DEF TypeOK, Labels, Loading, Rebuilding, Wants
<1>2. LoadStage(w)' /\ RebuildStage(w)'
  BY DEF LoadStage, RebuildStage, TypeOK, Active, Reopened, Rebuilding, Usable, Seen
<1>3. QED
  BY <1>1, <1>2, TurnOfCalls DEF Strike

LEMMA UseCheckTurn ==
  ASSUME TurnsInv, NEW w \in Writers, UseCheck(w), UNCHANGED setting
  PROVE  Good(w)'
<1> USE ProcsAssumption DEF TurnsInv, UseCheck, Goto, files, caches, jobs, Procs
<1>1. TypeOK'
  BY DEF TypeOK, Loading, Rebuilding, Change, Wants, FaultKinds, Procs
<1>2. LoadStage(w)' /\ RebuildStage(w)'
  BY DEF LoadStage, RebuildStage, TypeOK, Active, Reopened, Rebuilding, Usable, Seen
<1>3. QED
  BY <1>1, <1>2, TurnOfCalls DEF Strike

LEMMA ApplyFailsTurn ==
  ASSUME TurnsInv, NEW w \in Writers, ApplyFails(w), UNCHANGED setting
  PROVE  Good(w)'
<1> USE ProcsAssumption DEF TurnsInv, ApplyFails, Strike, Goto, files, caches, jobs, Procs
<1>1. TypeOK'
  BY CallsTyped DEF TypeOK, Labels, Loading, Rebuilding, Wants
<1>2. LoadStage(w)' /\ RebuildStage(w)'
  BY DEF LoadStage, RebuildStage, TypeOK, Active, Reopened, Rebuilding, Usable, Seen
<1>3. QED
  BY <1>1, <1>2, TurnOfCalls DEF Strike

LEMMA WriteFailsTurn ==
  ASSUME TurnsInv, NEW w \in Writers, WriteFails(w), UNCHANGED setting
  PROVE  Good(w)'
<1> USE ProcsAssumption DEF TurnsInv, WriteFails, Strike, Return, Goto, files, caches, jobs, Procs
<1>1. TypeOK'
  BY CallsTyped DEF TypeOK, Labels, Loading, Rebuilding, Wants
<1>2. LoadStage(w)' /\ RebuildStage(w)'
  BY DEF LoadStage, RebuildStage, TypeOK, Active, Reopened, Rebuilding, Usable, Seen
<1>3. QED
  BY <1>1, <1>2, TurnOfCalls DEF Strike

\* The catalog a reader puts into the cache is the one it has just read.
LEMMA CacheCatalogTurn ==
  ASSUME TurnsInv, NEW r \in Readers, CacheCatalog(r), UNCHANGED setting
  PROVE  Good(r)'
<1> USE ProcsAssumption DEF TurnsInv, CacheCatalog, Goto, Return, files, jobs, Procs
<1>1. got[r] = Reopened /\ got[r] \in SUBSET Change
  BY DEF LoadStage, TypeOK
<1>2. UNCHANGED <<archive, disk, final, wal, acked, on, cached, temp, backup, batch>>
  OBVIOUS
<1>3. TypeOK'
  BY <1>1, <1>2 DEF TypeOK, Loading, Rebuilding
<1>4. FilesInv' /\ HandlesInv'
  BY <1>2 DEF FilesInv, HandlesInv, Usable, Seen
<1>5. CatalogInv'
  BY <1>1, <1>2 DEF CatalogInv, Reopened
<1>6. LoadStage(r)' /\ RebuildStage(r)'
  BY <1>2 DEF LoadStage, RebuildStage, TypeOK, Active, Rebuilding
<1>7. QED
  BY <1>3, <1>4, <1>5, <1>6 DEF Good

LEMMA OpenDBTurn ==
  ASSUME TurnsInv, NEW p \in Procs, OpenDB(p), UNCHANGED setting
  PROVE  Good(p)'
<1> USE BoundsAssumption, ProcsAssumption DEF TurnsInv, Procs
<1> DEFINE h == FreeHandle
<1>1. /\ pc[p] = "open" /\ final # None /\ cached = None
      /\ \A g \in Handle : on[g] = None
  BY OpenHandles DEF OpenDB, LoadStage, Active, Handle, None
<1>2. h \in Handle
  <2>1. \A q \in Procs : held[q] = None
    BY <1>1, OpenHandles DEF LoadStage, Active
  <2>2. 1 \in Handle /\ on[1] = None /\ 1 # cached /\ \A q \in Procs : held[q] # 1
    BY <1>1, <2>1 DEF Handle, None
  <2>3. QED
    BY <2>2 DEF FreeHandle
<1> HIDE DEF h
<1>3. /\ final' = final /\ disk' = disk /\ wal' = final /\ on' = [on EXCEPT ![h] = final]
      /\ held' = [held EXCEPT ![p] = h] /\ Goto(p, "cache")
      /\ UNCHANGED <<archive, cached, catalog, acked, want, got, batch, temp, backup, faults>>
  BY <1>1 DEF OpenDB, h, jobs
<1>4. TypeOK'
  BY <1>1, <1>2, <1>3 DEF TypeOK, Goto, Loading
<1>5. FilesInv'
  BY <1>1, <1>3 DEF FilesInv, Usable, Seen
<1>6. HandlesInv'
  BY <1>1, <1>2, <1>3 DEF HandlesInv, TypeOK
<1>7. Reopened' = Reopened
  BY <1>1, <1>3 DEF Reopened, FilesInv
<1>8. CatalogInv'
  BY <1>3, <1>7 DEF CatalogInv
<1>9. LoadStage(p)' /\ RebuildStage(p)'
  BY <1>1, <1>2, <1>3 DEF LoadStage, RebuildStage, TypeOK, Goto, Active, Rebuilding
<1>10. QED
  BY <1>4, <1>5, <1>6, <1>8, <1>9 DEF Good

LEMMA CacheDBTurn ==
  ASSUME TurnsInv, NEW p \in Procs, CacheDB(p), UNCHANGED setting
  PROVE  Good(p)'
<1> USE ProcsAssumption DEF TurnsInv, Procs
<1>1. pc[p] = "cache" /\ cached = None /\ held[p] \in Handle /\ on[held[p]] # None
  BY DEF CacheDB, LoadStage
<1>2. /\ cached' = held[p] /\ Goto(p, "use")
      /\ UNCHANGED <<archive, disk, final, wal, acked, on, catalog, want, held, got, batch, temp,
                     backup, faults>>
  BY <1>1 DEF CacheDB, jobs
<1>3. TypeOK'
  BY <1>1, <1>2 DEF TypeOK, Goto, Loading
<1>4. FilesInv' /\ HandlesInv' /\ CatalogInv'
  BY <1>1, <1>2 DEF FilesInv, Usable, Seen, HandlesInv, CatalogInv, Reopened
<1>5. LoadStage(p)' /\ RebuildStage(p)'
  BY <1>1, <1>2 DEF LoadStage, RebuildStage, TypeOK, Goto, Active, Rebuilding, Handle, None
<1>6. QED
  BY <1>3, <1>4, <1>5 DEF Good

LEMMA RunTurn ==
  ASSUME TurnsInv, NEW w \in Writers, Run(w), UNCHANGED setting
  PROVE  Good(w)'
<1> USE BoundsAssumption, ProcsAssumption DEF TurnsInv, Procs
<1>1. PICK n \in archive..MaxChange :
        archive' = n /\ batch' = [batch EXCEPT ![w] = (archive + 1)..n]
  BY DEF Run
<1>2. /\ pc[w] = "idle" /\ want' = [want EXCEPT ![w] = "needs"] /\ Goto(w, "exists")
      /\ UNCHANGED <<disk, final, wal, acked, on, cached, catalog, held, got, temp, backup, faults>>
  BY DEF Run, caches, MayStart, Active
<1>3. archive \in Nat /\ n \in Nat /\ archive <= n /\ n <= MaxChange
  BY <1>1 DEF TypeOK
<1>4. TypeOK'
  <2>1. (archive + 1)..n \in SUBSET Change /\ n \in 0..MaxChange
    BY <1>3 DEF Change
  <2>2. QED
    BY <1>1, <1>2, <2>1 DEF TypeOK, Goto, Loading, Wants
<1>5. 1..archive \subseteq 1..n
  BY <1>3
<1>6. FilesInv' /\ HandlesInv' /\ CatalogInv'
  <2>1. (archive + 1)..n \subseteq 1..n
    BY <1>3
  <2>2. \A v \in Writers : batch'[v] \subseteq 1..archive'
    BY <1>1, <1>5, <2>1 DEF FilesInv, TypeOK
  <2>3. acked' \subseteq 1..archive'
    BY <1>1, <1>2, <1>5 DEF FilesInv
  <2>4. QED
    BY <1>1, <1>2, <2>2, <2>3 DEF FilesInv, Usable, Seen, HandlesInv, CatalogInv, Reopened
<1>7. LoadStage(w)' /\ RebuildStage(w)'
  BY <1>1, <1>2 DEF LoadStage, RebuildStage, TypeOK, Goto, Active, Rebuilding
<1>8. QED
  BY <1>4, <1>6, <1>7 DEF Good

LEMMA InvalidateDBTurn ==
  ASSUME TurnsInv, NEW w \in Writers, InvalidateDB(w), UNCHANGED setting
  PROVE  Good(w)'
<1> USE ProcsAssumption DEF TurnsInv, Procs
<1>1. /\ pc[w] = "drop" /\ catalog' = NoCatalog /\ cached' = None
      /\ held' = [held EXCEPT ![w] = cached]
      /\ Goto(w, IF cached # None THEN "close" ELSE "scan")
      /\ UNCHANGED <<archive, disk, final, wal, acked, on, want, got, batch, temp, backup, faults>>
  BY DEF InvalidateDB, files, jobs
<1>2. TypeOK'
  BY <1>1 DEF TypeOK, Goto, Rebuilding, None
<1>3. FilesInv' /\ HandlesInv' /\ CatalogInv'
  BY <1>1 DEF FilesInv, Usable, Seen, HandlesInv, CatalogInv
<1>4. LoadStage(w)' /\ RebuildStage(w)'
  BY <1>1 DEF LoadStage, RebuildStage, TypeOK, Goto, Active, Rebuilding, HandlesInv
<1>5. QED
  BY <1>2, <1>3, <1>4 DEF Good

\* The last handle closes: the log goes into the file.
LEMMA CloseDroppedTurn ==
  ASSUME TurnsInv, NEW w \in Writers, CloseDropped(w), UNCHANGED setting
  PROVE  Good(w)'
<1> USE ProcsAssumption DEF TurnsInv, Procs
<1>1. /\ pc[w] = "close" /\ cached = None /\ catalog = NoCatalog
      /\ held[w] \in Handle /\ on[held[w]] = final /\ wal = final /\ final \in Inode
  BY DEF CloseDropped, LoadStage, RebuildStage, HandlesInv, Rebuilding, Active, TypeOK
<1>2. \A g \in Handle \ {held[w]} : on[g] = None
  BY <1>1, OpenHandles DEF Active, Handle, None
<1>3. /\ on' = [on EXCEPT ![held[w]] = None] /\ wal' = None
      /\ disk' = [disk EXCEPT ![final].base = Seen(final), ![final].log = {}]
      /\ held' = [held EXCEPT ![w] = None] /\ Goto(w, "scan")
      /\ UNCHANGED <<archive, final, acked, cached, catalog, want, got, batch, temp, backup, faults>>
  BY <1>1, <1>2 DEF CloseDropped, Close, jobs, Inode, None
<1>4. /\ disk'[final].kind = disk[final].kind /\ disk'[final].log = {}
      /\ disk'[final].base = Seen(final)
  BY <1>1, <1>3 DEF TypeOK
<1>5. TypeOK'
  <2>1. disk[final].base \in SUBSET Change /\ disk[final].log \in SUBSET Change
    BY <1>1 DEF TypeOK
  <2>2. Seen(final) \in SUBSET Change
    BY <2>1 DEF Seen
  <2>3. disk' \in [Inode -> [kind : Kind, base : SUBSET Change, log : SUBSET Change]]
    <3>1. disk[final] \in [kind : Kind, base : SUBSET Change, log : SUBSET Change]
      BY <1>1 DEF TypeOK
    <3>2. [[disk[final] EXCEPT !.base = Seen(final)] EXCEPT !.log = {}]
             \in [kind : Kind, base : SUBSET Change, log : SUBSET Change]
      BY <2>2, <3>1
    <3>3. disk' = [disk EXCEPT ![final] = [[disk[final] EXCEPT !.base = Seen(final)] EXCEPT !.log = {}]]
      BY <1>1, <1>3 DEF TypeOK
    <3>4. QED
      BY <3>2, <3>3 DEF TypeOK
  <2>4. QED
    BY <1>1, <1>3, <2>3 DEF TypeOK, Goto, Rebuilding
<1>6. FilesInv' /\ HandlesInv' /\ CatalogInv'
  BY <1>1, <1>2, <1>3, <1>4 DEF FilesInv, Usable, Seen, HandlesInv, CatalogInv, TypeOK, Inode, None
<1>7. LoadStage(w)' /\ RebuildStage(w)'
  BY <1>1, <1>3, <1>4 DEF LoadStage, RebuildStage, TypeOK, Goto, Active, Rebuilding
<1>8. QED
  BY <1>5, <1>6, <1>7 DEF Good

\* Whether the log went into the file or not, the store has it.
LEMMA CloseDroppedFailsTurn ==
  ASSUME TurnsInv, NEW w \in Writers, CloseDroppedFails(w), UNCHANGED setting
  PROVE  Good(w)'
<1> USE ProcsAssumption DEF TurnsInv, Procs
<1>1. /\ pc[w] = "close" /\ cached = None /\ catalog = NoCatalog
      /\ held[w] \in Handle /\ on[held[w]] = final /\ wal = final /\ final \in Inode
  BY DEF CloseDroppedFails, LoadStage, RebuildStage, HandlesInv, Rebuilding, Active, TypeOK
<1>2. \A g \in Handle \ {held[w]} : on[g] = None
  BY <1>1, OpenHandles DEF Active, Handle, None
<1>3. /\ on' = [on EXCEPT ![held[w]] = None]
      /\ \/ wal' = wal /\ disk' = disk
         \/ /\ wal' = None
            /\ disk' = [disk EXCEPT ![final].base = Seen(final), ![final].log = {}]
      /\ held' = [held EXCEPT ![w] = None] /\ Goto(w, "idle")
      /\ UNCHANGED <<archive, final, acked, cached, catalog, want, got, batch, temp, backup>>
  BY <1>1, <1>2 DEF CloseDroppedFails, Close, Return, jobs, Inode, None
<1>4. /\ disk'[final].kind = disk[final].kind
      /\ disk'[final].base \cup disk'[final].log = Seen(final)
      /\ wal' = None => disk'[final].log = {}
  <2>1. CASE wal' = wal /\ disk' = disk
    BY <1>1, <2>1 DEF Seen, Inode, None
  <2>2. CASE disk' = [disk EXCEPT ![final].base = Seen(final), ![final].log = {}]
    <3>1. /\ disk'[final].kind = disk[final].kind /\ disk'[final].log = {}
          /\ disk'[final].base = Seen(final)
      BY <1>1, <2>2 DEF TypeOK
    <3>2. QED
      BY <3>1
  <2>3. QED
    BY <1>3, <2>1, <2>2
<1>5. TypeOK'
  <2>1. disk[final] \in [kind : Kind, base : SUBSET Change, log : SUBSET Change]
    BY <1>1 DEF TypeOK
  <2>2. Seen(final) \in SUBSET Change
    BY <2>1 DEF Seen
  <2>3. [[disk[final] EXCEPT !.base = Seen(final)] EXCEPT !.log = {}]
           \in [kind : Kind, base : SUBSET Change, log : SUBSET Change]
    BY <2>1, <2>2
  <2>4. disk' = disk \/ disk' = [disk EXCEPT ![final] = [[disk[final] EXCEPT !.base = Seen(final)] EXCEPT !.log = {}]]
    BY <1>1, <1>3 DEF TypeOK
  <2>5. disk' \in [Inode -> [kind : Kind, base : SUBSET Change, log : SUBSET Change]]
    BY <2>3, <2>4 DEF TypeOK
  <2>6. faults' \in 0..MaxFaults
    BY SettingsAssumption DEF CloseDroppedFails, Strike, TypeOK
  <2>7. QED
    BY <1>1, <1>3, <2>5, <2>6 DEF TypeOK, Goto, Rebuilding, None
<1>6. FilesInv' /\ HandlesInv' /\ CatalogInv'
  BY <1>1, <1>2, <1>3, <1>4 DEF FilesInv, Usable, Seen, HandlesInv, CatalogInv, TypeOK, Inode, None
<1>7. LoadStage(w)' /\ RebuildStage(w)'
  BY <1>1, <1>3 DEF LoadStage, RebuildStage, TypeOK, Goto, Active, Rebuilding
<1>8. QED
  BY <1>5, <1>6, <1>7 DEF Good

\* The commit of an incremental rebuild is acknowledged and in the store,
\* in the log or already in the file.
LEMMA ApplyIncrementalTurn ==
  ASSUME TurnsInv, NEW w \in Writers, ApplyIncremental(w), UNCHANGED setting
  PROVE  Good(w)'
<1> USE ProcsAssumption DEF TurnsInv, Procs
<1> DEFINE added == Seen(final) \cup batch[w]
<1>1. /\ pc[w] = "use" /\ want[w] = "apply" /\ held[w] = cached /\ catalog = NoCatalog
      /\ on[held[w]] = final /\ wal = final /\ final \in Inode
  BY DEF ApplyIncremental, LoadStage, HandlesInv, Active, TypeOK
<1>2. disk[final].base \in SUBSET Change /\ disk[final].log \in SUBSET Change
  BY <1>1 DEF TypeOK
<1>3. added \in SUBSET Change
  BY <1>2 DEF Seen, TypeOK
<1>4. /\ \/ disk' = [disk EXCEPT ![final].log = added \ disk[final].base]
         \/ disk' = [disk EXCEPT ![final].log = {}, ![final].base = added]
      /\ acked' = acked \cup batch[w]
      /\ Goto(w, "idle") /\ held' = [held EXCEPT ![w] = None]
      /\ UNCHANGED <<archive, final, wal, on, cached, catalog, want, got, batch, temp, backup, faults>>
  BY <1>1 DEF ApplyIncremental, Return, caches, jobs
<1> HIDE DEF added
<1>5. disk'[final].kind = disk[final].kind
  BY <1>1, <1>4 DEF TypeOK
<1>6. (Seen(final))' = added
  <2>1. CASE disk' = [disk EXCEPT ![final].log = added \ disk[final].base]
    <3>1. disk'[final].log = added \ disk[final].base /\ disk'[final].base = disk[final].base
      BY <1>1, <2>1 DEF TypeOK
    <3>2. disk[final].base \subseteq added
      BY DEF added, Seen
    <3>3. QED
      BY <1>4, <3>1, <3>2 DEF Seen
  <2>2. CASE disk' = [disk EXCEPT ![final].log = {}, ![final].base = added]
    <3>1. disk'[final].log = {} /\ disk'[final].base = added
      BY <1>1, <2>2 DEF TypeOK
    <3>2. QED
      BY <1>4, <3>1 DEF Seen
  <2>3. QED
    BY <1>4, <2>1, <2>2
<1>7. TypeOK'
  <2>1. disk' \in [Inode -> [kind : Kind, base : SUBSET Change, log : SUBSET Change]]
    BY <1>1, <1>3, <1>4 DEF TypeOK
  <2>2. acked' \in SUBSET Change
    BY <1>4 DEF TypeOK
  <2>3. QED
    BY <1>4, <2>1, <2>2 DEF TypeOK, Goto
<1>8. batch[w] \subseteq 1..archive
  BY DEF FilesInv
<1>9. FilesInv'
  BY <1>1, <1>4, <1>5, <1>6, <1>8 DEF FilesInv, Usable, added, Inode, None
<1>10. HandlesInv' /\ CatalogInv'
  BY <1>1, <1>4 DEF HandlesInv, CatalogInv
<1>11. LoadStage(w)' /\ RebuildStage(w)'
  BY <1>1, <1>4 DEF LoadStage, RebuildStage, TypeOK, Goto, Active, Rebuilding
<1>12. QED
  BY <1>7, <1>9, <1>10, <1>11 DEF Good

\* The temporary file holds the whole archive.
LEMMA WriteTempTurn ==
  ASSUME TurnsInv, NEW w \in Writers, WriteTemp(w), UNCHANGED setting
  PROVE  Good(w)'
<1> USE ProcsAssumption DEF TurnsInv, Procs
<1> DEFINE i == FreeInode
<1>1. /\ pc[w] = "scan" /\ cached = None /\ catalog = NoCatalog
      /\ final # None => final \in Inode /\ disk[final].log = {}
      /\ \A h \in Handle : on[h] = None
  BY StoreClosed DEF WriteTemp
<1>2. i \in Inode /\ i # final
  <2>1. \A v \in Writers : temp[v] = None /\ backup[v] = None
    <3>1. temp[w] = None /\ backup[w] = None
      BY <1>1 DEF RebuildStage
    <3>2. \A v \in Writers \ {w} : temp[v] = None /\ backup[v] = None
      BY <1>1, OpenHandles DEF Active
    <3>3. QED
      BY <3>1, <3>2
  <2>2. PICK n \in {1, 2} : n # final
    BY DEF None
  <2>3. n \in Inode /\ n # None
    BY BoundsAssumption DEF Inode, None
  <2>4. ~Alive(n)
    BY <1>1, <2>1, <2>2, <2>3 DEF Alive, FilesInv
  <2>5. i \in Inode /\ ~Alive(i)
    BY <2>3, <2>4 DEF FreeInode
  <2>6. QED
    BY <2>5 DEF Alive
<1> HIDE DEF i
<1>3. /\ disk' = [disk EXCEPT ![i] = [kind |-> "current", base |-> 1..archive, log |-> {}]]
      /\ temp' = [temp EXCEPT ![w] = i] /\ Goto(w, "clear")
      /\ UNCHANGED <<archive, final, wal, acked, on, cached, catalog, want, held, got, batch, backup, faults>>
  BY DEF WriteTemp, i, caches
<1>4. /\ disk'[i] = [kind |-> "current", base |-> 1..archive, log |-> {}]
      /\ final # None => final \in Inode /\ disk'[final] = disk[final]
  BY <1>2, <1>3 DEF TypeOK
<1>5. TypeOK'
  <2>1. 1..archive \in SUBSET Change /\ "current" \in Kind
    BY BoundsAssumption DEF TypeOK, Change, Kind
  <2>2. disk' \in [Inode -> [kind : Kind, base : SUBSET Change, log : SUBSET Change]]
    BY <1>2, <1>3, <2>1 DEF TypeOK
  <2>3. QED
    BY <1>2, <1>3, <2>2 DEF TypeOK, Goto, Rebuilding
<1>6. FilesInv' /\ HandlesInv' /\ CatalogInv'
  BY <1>1, <1>3, <1>4 DEF FilesInv, Usable, Seen, HandlesInv, CatalogInv
<1>7. LoadStage(w)' /\ RebuildStage(w)'
  BY <1>1, <1>2, <1>3, <1>4 DEF LoadStage, RebuildStage, TypeOK, Goto, Active, Rebuilding
<1>8. QED
  BY <1>5, <1>6, <1>7 DEF Good

\* The old store is closed: there is no log to lose.
LEMMA RemoveSidecarsTurn ==
  ASSUME TurnsInv, NEW w \in Writers, RemoveSidecars(w), UNCHANGED setting
  PROVE  Good(w)'
<1> USE ProcsAssumption DEF TurnsInv, Procs
<1>1. /\ pc[w] = "clear" /\ cached = None /\ catalog = NoCatalog
      /\ final # None => final \in Inode /\ disk[final].log = {}
      /\ \A h \in Handle : on[h] = None
  BY StoreClosed DEF RemoveSidecars
<1>2. /\ wal' = None /\ Goto(w, IF final # None THEN "backup" ELSE "swap")
      /\ UNCHANGED <<archive, disk, final, acked, on, cached, catalog, want, held, got, batch, temp,
                     backup, faults>>
  BY DEF RemoveSidecars, caches, jobs
<1>3. TypeOK'
  BY <1>2 DEF TypeOK, Goto, Rebuilding
<1>4. FilesInv' /\ HandlesInv' /\ CatalogInv'
  BY <1>1, <1>2 DEF FilesInv, Usable, Seen, HandlesInv, CatalogInv
<1>5. LoadStage(w)' /\ RebuildStage(w)'
  BY <1>1, <1>2 DEF LoadStage, RebuildStage, TypeOK, Goto, Active, Rebuilding
<1>6. QED
  BY <1>3, <1>4, <1>5 DEF Good

LEMMA RenameBackupTurn ==
  ASSUME TurnsInv, NEW w \in Writers, RenameBackup(w), UNCHANGED setting
  PROVE  Good(w)'
<1> USE ProcsAssumption DEF TurnsInv, Procs
<1>1. /\ pc[w] = "backup" /\ cached = None /\ catalog = NoCatalog
      /\ wal = None /\ final # None
      /\ final # None => final \in Inode /\ disk[final].log = {}
      /\ \A h \in Handle : on[h] = None
  BY StoreClosed DEF RenameBackup, RebuildStage
<1>2. /\ final' = None /\ backup' = [backup EXCEPT ![w] = final] /\ Goto(w, "swap")
      /\ UNCHANGED <<archive, disk, wal, acked, on, cached, catalog, want, held, got, batch, temp, faults>>
  BY DEF RenameBackup, caches
<1>3. TypeOK'
  BY <1>1, <1>2 DEF TypeOK, Goto, Rebuilding
<1>4. FilesInv' /\ HandlesInv' /\ CatalogInv'
  BY <1>1, <1>2 DEF FilesInv, Usable, HandlesInv, CatalogInv
<1>5. disk[final].kind = "current" => acked \subseteq disk[final].base
  BY <1>1 DEF FilesInv, Usable, Seen
<1>6. LoadStage(w)'
  BY <1>1, <1>2 DEF LoadStage, RebuildStage, TypeOK, Goto, Active, Rebuilding
<1>7. RebuildStage(w)'
  <2>1. pc'[w] = "swap" /\ backup'[w] = final
    BY <1>2 DEF TypeOK, Goto
  <2>2. /\ want[w] \in {"check", "apply"} /\ temp[w] \in Inode
        /\ disk[temp[w]] = [kind |-> "current", base |-> 1..archive, log |-> {}]
    BY <1>1 DEF RebuildStage, Rebuilding
  <2>3. disk[final].kind \in {"current", "stale"} /\ None \notin Inode
    BY <1>1 DEF FilesInv, Inode, None
  <2>4. QED
    BY <1>1, <1>2, <1>5, <2>1, <2>2, <2>3 DEF RebuildStage
<1>8. QED
  BY <1>3, <1>4, <1>6, <1>7 DEF Good

LEMMA RenameBackupFailsTurn ==
  ASSUME TurnsInv, NEW w \in Writers, RenameBackupFails(w), UNCHANGED setting
  PROVE  Good(w)'
<1> USE ProcsAssumption DEF TurnsInv, Procs
<1>1. /\ pc[w] = "backup" /\ cached = None /\ catalog = NoCatalog
      /\ \A h \in Handle : on[h] = None
  BY StoreClosed DEF RenameBackupFails
<1>2. /\ temp' = [temp EXCEPT ![w] = None] /\ Goto(w, "idle") /\ held' = [held EXCEPT ![w] = None]
      /\ UNCHANGED <<archive, disk, final, wal, acked, on, cached, catalog, want, got, batch, backup>>
  BY DEF RenameBackupFails, Return, files, caches
<1>3. faults' \in 0..MaxFaults
  BY SettingsAssumption DEF RenameBackupFails, Strike, TypeOK
<1>4. TypeOK'
  BY <1>2, <1>3 DEF TypeOK, Goto
<1>5. FilesInv' /\ HandlesInv' /\ CatalogInv'
  BY <1>1, <1>2 DEF FilesInv, Usable, Seen, HandlesInv, CatalogInv
<1>6. LoadStage(w)' /\ RebuildStage(w)'
  BY <1>1, <1>2 DEF LoadStage, RebuildStage, TypeOK, Goto, Active, Rebuilding
<1>7. QED
  BY <1>4, <1>5, <1>6 DEF Good

\* The new file has the store's name; all of the archive is in it.
LEMMA RenameFinalTurn ==
  ASSUME TurnsInv, NEW w \in Writers, RenameFinal(w), UNCHANGED setting
  PROVE  Good(w)'
<1> USE ProcsAssumption DEF TurnsInv, Procs
<1> DEFINE i == temp[w]
<1>1. /\ pc[w] = "swap" /\ cached = None /\ catalog = NoCatalog
      /\ \A h \in Handle : on[h] = None
  BY StoreClosed DEF RenameFinal
<1>2. /\ i \in Inode /\ wal = None
      /\ disk[i].kind = "current" /\ disk[i].base = 1..archive /\ disk[i].log = {}
  BY <1>1 DEF RebuildStage
<1> HIDE DEF i
<1>3. /\ final' = i /\ temp' = [temp EXCEPT ![w] = None] /\ backup' = [backup EXCEPT ![w] = None]
      /\ Goto(w, "idle") /\ held' = [held EXCEPT ![w] = None]
      /\ UNCHANGED <<archive, disk, wal, on, cached, catalog, want, got, batch>>
  BY DEF RenameFinal, Return, caches, i
<1>4. acked' \subseteq 1..archive /\ acked' \in SUBSET Change
  <2>1. acked' = acked \cup disk[i].base \/ acked' = acked
    BY DEF RenameFinal, i
  <2>2. disk[i].base \in SUBSET Change
    BY <1>2 DEF TypeOK
  <2>3. QED
    BY <1>2, <2>1, <2>2 DEF FilesInv, TypeOK
<1>5. faults' \in 0..MaxFaults
  BY SettingsAssumption DEF RenameFinal, Strike, TypeOK
<1>6. TypeOK'
  BY <1>2, <1>3, <1>4, <1>5 DEF TypeOK, Goto
<1>7. FilesInv' /\ HandlesInv' /\ CatalogInv'
  BY <1>1, <1>2, <1>3, <1>4 DEF FilesInv, Usable, Seen, HandlesInv, CatalogInv
<1>8. LoadStage(w)' /\ RebuildStage(w)'
  BY <1>1, <1>3 DEF LoadStage, RebuildStage, TypeOK, Goto, Active, Rebuilding
<1>9. QED
  BY <1>6, <1>7, <1>8 DEF Good

\* The old file is back under the store's name, or no file is there.
LEMMA RenameFinalFailsTurn ==
  ASSUME TurnsInv, NEW w \in Writers, RenameFinalFails(w), UNCHANGED setting
  PROVE  Good(w)'
<1> USE ProcsAssumption DEF TurnsInv, Procs
<1>1. /\ pc[w] = "swap" /\ cached = None /\ catalog = NoCatalog
      /\ \A h \in Handle : on[h] = None
  BY StoreClosed DEF RenameFinalFails
<1>2. /\ final = None /\ wal = None /\ backup[w] \in Inode \cup {None}
      /\ backup[w] # None =>
           /\ disk[backup[w]].kind \in {"current", "stale"} /\ disk[backup[w]].log = {}
           /\ disk[backup[w]].kind = "current" => acked \subseteq disk[backup[w]].base
  BY <1>1 DEF RebuildStage, TypeOK
<1>3. /\ final' \in {None, backup[w]}
      /\ temp' = [temp EXCEPT ![w] = None] /\ backup' = [backup EXCEPT ![w] = None]
      /\ Goto(w, "idle") /\ held' = [held EXCEPT ![w] = None]
      /\ UNCHANGED <<archive, disk, wal, acked, on, cached, catalog, want, got, batch>>
  BY <1>2 DEF RenameFinalFails, Return, caches
<1>4. faults' \in 0..MaxFaults
  BY SettingsAssumption DEF RenameFinalFails, Strike, TypeOK
<1>5. TypeOK'
  BY <1>2, <1>3, <1>4 DEF TypeOK, Goto
<1>6. FilesInv' /\ HandlesInv' /\ CatalogInv'
  BY <1>1, <1>2, <1>3 DEF FilesInv, Usable, Seen, HandlesInv, CatalogInv
<1>7. LoadStage(w)' /\ RebuildStage(w)'
  BY <1>1, <1>3 DEF LoadStage, RebuildStage, TypeOK, Goto, Active, Rebuilding
<1>8. QED
  BY <1>5, <1>6, <1>7 DEF Good

\* What was acknowledged survives the process: it is in the file, or in the
\* log the next process finds under the store's name.
LEMMA CrashTurn ==
  ASSUME TurnsInv, HandlesOwned', Crash, UNCHANGED setting
  PROVE  TurnsInv'
<1> USE DEF TurnsInv
<1>1. /\ UNCHANGED <<archive, final, wal, acked, want, batch>>
      /\ disk' = [i \in Inode |-> IF i = wal THEN disk[i] ELSE [disk[i] EXCEPT !.log = {}]]
      /\ cached' = None /\ catalog' = NoCatalog
      /\ on' = [h \in Handle |-> None] /\ pc' = [p \in Procs |-> "idle"]
      /\ held' = [p \in Procs |-> None] /\ got' = [r \in Readers |-> {}]
      /\ temp' = [w \in Writers |-> None] /\ backup' = [w \in Writers |-> None]
      /\ faults' \in 0..MaxFaults
  BY SettingsAssumption DEF Crash, Strike, TypeOK
<1>2. \A i \in Inode :
        /\ disk'[i] \in [kind : Kind, base : SUBSET Change, log : SUBSET Change]
        /\ disk'[i].kind = disk[i].kind /\ disk'[i].base = disk[i].base
        /\ i = wal => disk'[i].log = disk[i].log
        /\ i # wal => disk'[i].log = {}
  BY <1>1 DEF TypeOK
<1>3. TypeOK'
  <2>1. disk' \in [Inode -> [kind : Kind, base : SUBSET Change, log : SUBSET Change]]
    BY <1>1, <1>2
  <2>2. QED
    BY <1>1, <2>1 DEF TypeOK
<1>4. FilesInv'
  <2>1. final # None => final \in Inode
    BY DEF TypeOK
  <2>2. Usable' => Usable /\ (Seen(final))' = Seen(final)
    BY <1>1, <1>2, <2>1 DEF Usable, Seen, FilesInv
  <2>3. QED
    BY <1>1, <1>2, <2>1, <2>2 DEF FilesInv
<1>5. HandlesInv' /\ CatalogInv' /\ OneAtATime'
  BY <1>1 DEF HandlesInv, CatalogInv, OneAtATime, Active
<1>6. \A p \in Procs : LoadStage(p)' /\ RebuildStage(p)'
  BY <1>1 DEF LoadStage, RebuildStage, Active, Rebuilding
<1>7. QED
  BY <1>3, <1>4, <1>5, <1>6

\* A goroutine takes a step only in its turn.
LEMMA StepsTakeTurns ==
  ASSUME TurnsInv, ~setting.overlap, NEW p \in Procs,
         LoadDB(p) \/ (p \in Readers /\ (Call(p) \/ Read(p)))
                   \/ (p \in Writers /\ (Run(p) \/ Incremental(p) \/ Full(p)))
  PROVE  Alone(p)
<1> USE DEF TurnsInv, Goto, Return
<1>1. \A q \in Procs \ {p} : pc[q] = "idle"
  <2>1. CASE Active(p)
    BY <2>1, OpenHandles
  <2>2. CASE ~Active(p)
    <3>1. MayStart(p)
      BY <2>2 DEF Active, LoadDB, FileExists, FileMissing, CachedDB, OpenDB, OpenFails, CacheDB, Read, UseList,
         CacheCatalog, UseRead, UseSearch, Call, Run, Incremental, UseNeeds, UseCheck,
         ApplyIncremental, ApplyFails, Full, InvalidateDB, CloseDropped, CloseDroppedFails, WriteTemp, WriteFails,
         RemoveSidecars, RenameBackup, RenameBackupFails, RenameFinal, RenameFinalFails
    <3>2. QED
      BY <3>1 DEF MayStart, Active
  <2>3. QED
    BY <2>1, <2>2
<1>2. pc = [q \in Procs |-> IF q = p THEN pc[p] ELSE "idle"]
  BY <1>1 DEF TypeOK
<1>3. CASE LoadDB(p)
  BY <1>2, <1>3 DEF Alone, TypeOK, LoadDB, FileExists, FileMissing, CachedDB, OpenDB, OpenFails, CacheDB, Close,
     BeginRebuildAll, jobs
<1>4. CASE p \in Readers /\ (Call(p) \/ Read(p))
  BY <1>2, <1>4 DEF Alone, TypeOK, Call, Read, UseList, CacheCatalog, UseRead, UseSearch, jobs
<1>5. CASE p \in Writers /\ (Run(p) \/ Incremental(p))
  BY <1>2, <1>5 DEF Alone, TypeOK, Run, Incremental, UseNeeds, UseCheck, ApplyIncremental, ApplyFails,
     BeginRebuildAll, jobs
<1>6. CASE p \in Writers /\ Full(p)
  BY <1>2, <1>6 DEF Alone, TypeOK, Full, InvalidateDB, CloseDropped, CloseDroppedFails, WriteTemp, WriteFails,
     RemoveSidecars, RenameBackup, RenameBackupFails, RenameFinal, RenameFinalFails, jobs
<1>7. QED
  BY <1>3, <1>4, <1>5, <1>6

LEMMA StoreInvInductive ==
  ASSUME StoreInv, HandlesOwned, HandlesOwned', [Next]_<<vars, setting>>
  PROVE  StoreInv'
<1> SUFFICES ASSUME ~setting.overlap PROVE TurnsInv'
  BY DEF StoreInv, Next, vars
<1>1. TurnsInv
  BY DEF StoreInv
<1>2. ASSUME NEW p \in Procs, LoadDB(p), UNCHANGED setting PROVE TurnsInv'
  <2>1. Good(p)'
    BY <1>1, <1>2, FileExistsTurn, FileMissingTurn, CachedDBTurn, OpenDBTurn, OpenFailsTurn,
       CacheDBTurn DEF LoadDB
  <2>2. QED
    BY <1>1, <1>2, <2>1, StepsTakeTurns, TurnTaken
<1>3. ASSUME NEW r \in Readers, Call(r) \/ Read(r), UNCHANGED setting PROVE TurnsInv'
  <2>1. Good(r)'
    BY <1>1, <1>3, CallTurn, UseListTurn, CacheCatalogTurn, UseReadTurn, UseSearchTurn DEF Read
  <2>2. QED
    BY <1>1, <1>3, <2>1, StepsTakeTurns, TurnTaken DEF Procs
<1>4. ASSUME NEW w \in Writers, Run(w) \/ Incremental(w), UNCHANGED setting PROVE TurnsInv'
  <2>1. Good(w)'
    BY <1>1, <1>4, RunTurn, UseNeedsTurn, UseCheckTurn, ApplyIncrementalTurn, ApplyFailsTurn
    DEF Incremental
  <2>2. QED
    BY <1>1, <1>4, <2>1, StepsTakeTurns, TurnTaken DEF Procs
<1>5. ASSUME NEW w \in Writers, Full(w), UNCHANGED setting PROVE TurnsInv'
  <2>1. Good(w)'
    BY <1>1, <1>5, InvalidateDBTurn, CloseDroppedTurn, CloseDroppedFailsTurn, WriteTempTurn, WriteFailsTurn,
       RemoveSidecarsTurn, RenameBackupTurn, RenameBackupFailsTurn, RenameFinalTurn,
       RenameFinalFailsTurn DEF Full
  <2>2. QED
    BY <1>1, <1>5, <2>1, StepsTakeTurns, TurnTaken DEF Procs
<1>6. CASE Crash /\ UNCHANGED setting
  BY <1>1, <1>6, CrashTurn
<1>7. CASE UNCHANGED <<vars, setting>>
  <2> USE <1>1 DEF TurnsInv
  <2>1. UNCHANGED <<archive, disk, final, wal, acked, on, cached, catalog, pc, want, held, got,
                    batch, temp, backup, faults, setting>>
    BY <1>7 DEF vars, files, caches, calls, jobs
  <2>2. TypeOK' /\ OneAtATime'
    BY <2>1 DEF TypeOK, OneAtATime, Active
  <2>3. FilesInv' /\ HandlesInv' /\ CatalogInv'
    BY <2>1 DEF FilesInv, HandlesInv, CatalogInv, Usable, Seen, Reopened
  <2>4. ASSUME NEW p \in Procs PROVE LoadStage(p)' /\ RebuildStage(p)'
    <3>1. LoadStage(p) /\ RebuildStage(p) /\ Reopened' = Reopened
      BY <2>1 DEF Reopened
    <3> HIDE DEF TurnsInv
    <3>2. LoadStage(p)'
      BY <2>1, <3>1 DEF LoadStage, Active
    <3>3. RebuildStage(p)'
      BY <2>1, <3>1 DEF RebuildStage
    <3>4. QED
      BY <3>2, <3>3
  <2>5. QED
    BY <2>2, <2>3, <2>4
<1>8. QED
  BY <1>2, <1>3, <1>4, <1>5, <1>6, <1>7 DEF Next

LEMMA StoreInvAlways == Spec => []StoreInv
<1>1. Init => StoreInv
  <2> SUFFICES ASSUME Init, ~setting.overlap PROVE TurnsInv
    BY DEF StoreInv
  <2> USE BoundsAssumption, SettingsAssumption, ProcsAssumption DEF Init
  <2>1. TypeOK
    <3>1. disk \in [Inode -> [kind : Kind, base : SUBSET Change, log : SUBSET Change]]
      BY DEF Kind
    <3>2. final \in Inode \cup {None} /\ faults \in 0..MaxFaults /\ archive \in 0..MaxChange
      BY DEF Inode, None
    <3>3. QED
      BY <3>1, <3>2 DEF TypeOK, Wants, NoCatalog
  <2>2. FilesInv
    BY DEF FilesInv, Usable, Inode, None
  <2>3. OneAtATime /\ HandlesOwned /\ HandlesInv /\ CatalogInv
    BY DEF OneAtATime, HandlesOwned, HandlesInv, CatalogInv, Active
  <2>4. \A p \in Procs : LoadStage(p) /\ RebuildStage(p)
    BY DEF LoadStage, RebuildStage, Active, Rebuilding
  <2>5. QED
    BY <2>1, <2>2, <2>3, <2>4 DEF TurnsInv
<1>2. StoreInv /\ HandlesOwned /\ HandlesOwned' /\ [Next]_<<vars, setting>> => StoreInv'
  BY StoreInvInductive
<1>3. QED
  BY <1>1, <1>2, NoHandleLeaks, PTL DEF Spec

\* When calls take turns, what a rebuild acknowledged is there for the next
\* process, whatever failed in between and wherever the process died
\* (RebuildAll, replaceSQLiteFile, invalidateDB).
THEOREM AcknowledgedIsDurable == Spec => [](~setting.overlap => AckedDurable)
<1>1. StoreInv => (~setting.overlap => AckedDurable)
  <2> SUFFICES ASSUME TurnsInv, Usable PROVE acked \subseteq Reopened
    BY DEF StoreInv, AckedDurable
  <2>1. CASE wal = final
    BY <2>1 DEF TurnsInv, FilesInv, Usable, Seen, Reopened
  <2>2. CASE wal = None
    BY <2>2 DEF TurnsInv, FilesInv, Usable, Seen, Reopened
  <2>3. QED
    BY <2>1, <2>2 DEF TurnsInv, FilesInv
<1>2. QED
  BY <1>1, StoreInvAlways, PTL

\* When calls take turns, the cached handle and the cached catalog are those
\* of the file under the store's name, and no call creates an empty database
\* there (invalidateDB, cacheCatalog, loadDB, pathExists).
THEOREM CachesAreSound == Spec => [](~setting.overlap => CachesSound)
<1>1. StoreInv => (~setting.overlap => CachesSound)
  BY DEF StoreInv, TurnsInv, FilesInv, CachesSound, NeverBlank, HandleOnStore, CatalogCurrent, HandlesInv, CatalogInv, TypeOK,
     None
<1>2. QED
  BY <1>1, StoreInvAlways, PTL

-----------------------------------------------------------------------------
(***************************************************************************)
(* Proof that CanonicalStore implements SnapshotStore where calls take     *)
(* turns, for any number of goroutines, changes and failures: whatever the *)
(* files do, the process that opens the store next finds a snapshot that   *)
(* has only grown, or nothing, and never one without what was              *)
(* acknowledged.                                                           *)
(*                                                                         *)
(* While the store is usable, what a fresh process finds is all that the   *)
(* store's file and its log hold (FilesInv).  A step therefore publishes   *)
(* or loses a snapshot if it takes nothing out of the file under the       *)
(* store's name, and every step is looked at for that alone.               *)
(***************************************************************************)

\* A step that keeps what the store holds, and acknowledges nothing without
\* a usable store.
Grows ==
  /\ Usable /\ Usable' => Seen(final) \subseteq (Seen(final))'
  /\ acked \subseteq acked'
  /\ ~Usable' => acked' = acked

LEMMA GrowingStepMaps ==
  ASSUME TurnsInv, TurnsInv', Grows
  PROVE  [Snapshot!Publish \/ Snapshot!Lose]_Snapshot!vars
<1>1. CASE Usable'
  <2>1. Reopened' = (Seen(final))'
    BY <1>1 DEF TurnsInv, FilesInv, Usable, Reopened, Seen
  <2>a. Usable => Reopened = Seen(final)
    BY DEF TurnsInv, FilesInv, Usable, Reopened, Seen
  <2>2. Reopened' \in SUBSET Change
    <3>1. (Seen(final) \in SUBSET Change)'
      BY <1>1 DEF TurnsInv, TypeOK, Usable, Seen
    <3>2. QED
      BY <2>1, <3>1
  <2>3. acked \subseteq acked' /\ acked' \subseteq Reopened'
    BY <1>1, <2>1 DEF TurnsInv, FilesInv, Grows
  <2>4. Usable => Reopened \subseteq Reopened'
    BY <1>1, <2>1, <2>a DEF Grows
  <2>5. Snapshot!Publish
    BY <1>1, <2>2, <2>3, <2>4 DEF Snapshot!Publish
  <2>6. QED
    BY <2>5
<1>2. CASE ~Usable'
  BY <1>2 DEF Grows, Snapshot!Lose
<1>3. QED
  BY <1>1, <1>2

\* Most steps change neither a file nor what is acknowledged.
LEMMA UnchangedGrows ==
  ASSUME UNCHANGED <<disk, final, acked>>
  PROVE  Grows
BY DEF Grows, Usable, Seen

LEMMA LoadGrows ==
  ASSUME TurnsInv, NEW p \in Procs, LoadDB(p)
  PROVE  Grows
<1>1. pc[p] = "open" => final # None
  BY DEF TurnsInv, LoadStage
<1>2. pc[p] = "cache" => cached = None
  BY DEF TurnsInv, LoadStage
<1>3. UNCHANGED <<disk, final, acked>>
  BY <1>1, <1>2 DEF LoadDB, FileExists, FileMissing, CachedDB, OpenDB, OpenFails, CacheDB, files
<1>4. QED
  BY <1>3, UnchangedGrows


\* An incremental rebuild is applied only to a store of the current version.
ApplyStage(p) == pc[p] \in Loading /\ want[p] = "apply" => Usable

ApplyInv == ~setting.overlap => \A p \in Procs : ApplyStage(p)

LEMMA ApplyIncrementalGrows ==
  ASSUME TurnsInv, NEW w \in Writers, ApplyStage(w), ApplyIncremental(w)
  PROVE  Grows
<1> DEFINE added == Seen(final) \cup batch[w]
<1>1. on[held[w]] = final /\ final \in Inode /\ Usable
  BY DEF TurnsInv, ApplyIncremental, LoadStage, HandlesInv, TypeOK, Procs, Broken, ApplyStage,
     Loading, Usable
<1>2. /\ \/ disk' = [disk EXCEPT ![final].log = added \ disk[final].base]
         \/ disk' = [disk EXCEPT ![final].log = {}, ![final].base = added]
      /\ acked' = acked \cup batch[w] /\ final' = final
  BY <1>1 DEF ApplyIncremental
<1> HIDE DEF added
<1>3. /\ disk'[final].kind = disk[final].kind
      /\ added \subseteq disk'[final].base \cup disk'[final].log
  <2>1. CASE disk' = [disk EXCEPT ![final].log = added \ disk[final].base]
    BY <1>1, <2>1 DEF TurnsInv, TypeOK
  <2>2. CASE disk' = [disk EXCEPT ![final].log = {}, ![final].base = added]
    BY <1>1, <2>2 DEF TurnsInv, TypeOK
  <2>3. QED
    BY <1>2, <2>1, <2>2
<1>4. Seen(final) \subseteq (Seen(final))' /\ Usable'
  BY <1>1, <1>2, <1>3 DEF Seen, added, Usable
<1>5. QED
  BY <1>2, <1>4 DEF Grows

\* The log goes into the file when its last handle closes.
LEMMA CloseDroppedGrows ==
  ASSUME TurnsInv, NEW w \in Writers, CloseDropped(w) \/ CloseDroppedFails(w)
  PROVE  Grows
<1>1. /\ final' = final /\ acked' = acked
      /\ \/ disk' = disk
         \/ disk' = [disk EXCEPT ![on[held[w]]].base = Seen(on[held[w]]), ![on[held[w]]].log = {}]
  BY DEF CloseDropped, CloseDroppedFails, Close
<1>2. on[held[w]] = final
  BY DEF CloseDropped, CloseDroppedFails, TurnsInv, LoadStage, HandlesInv, Procs
<1>3. Usable /\ disk' # disk => (Seen(final))' = Seen(final)
  BY <1>1, <1>2 DEF TurnsInv, TypeOK, Usable, Seen
<1>4. Usable' => Usable
  BY <1>1, <1>2 DEF TurnsInv, TypeOK, Usable
<1>5. QED
  BY <1>1, <1>3, <1>4 DEF Grows, Seen

LEMMA WriteTempGrows ==
  ASSUME TurnsInv, NEW w \in Writers, WriteTemp(w), Good(w)'
  PROVE  Grows
<1>1. temp'[w] # final /\ final' = final /\ acked' = acked
  BY DEF WriteTemp, Good, RebuildStage, TurnsInv, TypeOK, Goto, Procs
<1>2. PICK i : temp' = [temp EXCEPT ![w] = i] /\ \E f : disk' = [disk EXCEPT ![i] = f]
  BY DEF WriteTemp
<1>3. Usable => disk'[final] = disk[final]
  BY <1>1, <1>2 DEF TurnsInv, TypeOK, Usable
<1>4. Usable' => Usable
  BY <1>1, <1>2 DEF TurnsInv, TypeOK, Usable
<1>5. QED
  BY <1>1, <1>3, <1>4 DEF Grows, Seen

\* While the old file is a backup there is no store to lose; the new one is
\* complete.
LEMMA RenamesGrow ==
  ASSUME TurnsInv, NEW w \in Writers,
         RenameBackup(w) \/ RenameFinal(w) \/ RenameFinalFails(w)
  PROVE  Grows
<1>1. CASE RenameBackup(w)
  BY <1>1 DEF RenameBackup, Grows, Usable
<1>2. CASE RenameFinal(w)
  <2>1. /\ ~Usable /\ temp[w] \in Inode /\ temp[w] # None
        /\ disk[temp[w]].kind = "current"
    BY <1>2 DEF RenameFinal, TurnsInv, RebuildStage, Procs, Usable, Inode, None
  <2>2. disk' = disk /\ final' = temp[w] /\ acked \subseteq acked'
    BY <1>2 DEF RenameFinal
  <2>3. QED
    BY <2>1, <2>2 DEF Grows, Usable
<1>3. CASE RenameFinalFails(w)
  <2>1. ~Usable /\ acked' = acked
    BY <1>3 DEF RenameFinalFails, TurnsInv, RebuildStage, Procs, Usable
  <2>2. QED
    BY <2>1 DEF Grows
<1>4. QED
  BY <1>1, <1>2, <1>3

\* The log under the store's name outlives the process.
LEMMA CrashGrows == ASSUME TurnsInv, Crash PROVE Grows
<1>1. /\ final' = final /\ acked' = acked
      /\ disk' = [i \in Inode |-> IF i = wal THEN disk[i] ELSE [disk[i] EXCEPT !.log = {}]]
  BY DEF Crash
<1>2. final # None =>
        /\ disk'[final].kind = disk[final].kind /\ disk'[final].base = disk[final].base
        /\ disk'[final].log = disk[final].log
  BY <1>1 DEF TurnsInv, TypeOK, FilesInv
<1>3. QED
  BY <1>1, <1>2 DEF Grows, Usable, Seen

LEMMA EveryStepGrows ==
  ASSUME TurnsInv, ~setting.overlap, \A p \in Procs : ApplyStage(p), [Next]_<<vars, setting>>
  PROVE  Grows
<1>1. ASSUME NEW p \in Procs, LoadDB(p) PROVE Grows
  BY <1>1, LoadGrows
<1>2. ASSUME NEW r \in Readers, Call(r) \/ Read(r) PROVE Grows
  BY <1>2, UnchangedGrows DEF Call, Read, UseList, CacheCatalog, UseRead, UseSearch, files
<1>3. ASSUME NEW w \in Writers, Run(w) \/ Incremental(w) PROVE Grows
  BY <1>3, UnchangedGrows, ApplyIncrementalGrows
  DEF Run, Incremental, UseNeeds, UseCheck, ApplyFails, files, Procs
<1>4. ASSUME NEW w \in Writers, Full(w), UNCHANGED setting PROVE Grows
  <2>1. CASE WriteTemp(w)
    BY <1>4, <2>1, WriteTempTurn, WriteTempGrows
  <2>2. CASE InvalidateDB(w) \/ WriteFails(w) \/ RemoveSidecars(w) \/ RenameBackupFails(w)
    BY <2>2, UnchangedGrows DEF InvalidateDB, WriteFails, RemoveSidecars, RenameBackupFails, files
  <2>3. QED
    BY <1>4, <2>1, <2>2, CloseDroppedGrows, RenamesGrow DEF Full
<1>5. CASE Crash
  BY <1>5, CrashGrows
<1>6. CASE UNCHANGED <<vars, setting>>
  BY <1>6, UnchangedGrows DEF vars, files
<1>7. QED
  BY <1>1, <1>2, <1>3, <1>4, <1>5, <1>6 DEF Next

\* Nothing touches the store between the check of its version and the commit.
LEMMA ApplyInductive ==
  ASSUME TurnsInv, ~setting.overlap, \A p \in Procs : ApplyStage(p), [Next]_<<vars, setting>>
  PROVE  \A p \in Procs : ApplyStage(p)'
<1> USE ProcsAssumption DEF Goto, Return
<1>1. ASSUME NEW p \in Procs, Alone(p), NEW q \in Procs \ {p}
      PROVE  ApplyStage(q)'
  BY <1>1 DEF Alone, ApplyStage, Loading
<1>2. ASSUME NEW p \in Procs, LoadDB(p) PROVE ApplyStage(p)'
  <2>1. pc[p] = "open" => final # None
    BY DEF TurnsInv, LoadStage
  <2>2. pc[p] = "cache" => cached = None
    BY DEF TurnsInv, LoadStage
  <2>3. UNCHANGED <<disk, final>>
    BY <1>2, <2>1, <2>2 DEF LoadDB, FileExists, FileMissing, CachedDB, OpenDB, OpenFails, CacheDB, files
  <2>4. pc'[p] \in Loading /\ want'[p] = "apply" => pc[p] \in Loading /\ want[p] = "apply"
    BY <1>2 DEF LoadDB, FileExists, FileMissing, BeginRebuildAll, CachedDB, OpenDB, OpenFails, CacheDB,
       TurnsInv, TypeOK, Loading
  <2>5. QED
    BY <2>3, <2>4 DEF ApplyStage, Usable
<1>3. ASSUME NEW r \in Readers, Call(r) \/ Read(r) PROVE ApplyStage(r)'
  <2>1. pc'[r] \in Loading => want'[r] # "apply"
    BY <1>3 DEF Call, Read, UseList, CacheCatalog, UseRead, UseSearch, TurnsInv, TypeOK, Procs,
       Loading
  <2>2. QED
    BY <2>1 DEF ApplyStage
<1>4. ASSUME NEW w \in Writers, Run(w) \/ Incremental(w) PROVE ApplyStage(w)'
  <2>1. CASE UseCheck(w)
    <3>1. on[held[w]] = final /\ final # None
      BY <2>1 DEF UseCheck, TurnsInv, LoadStage, HandlesInv, TypeOK, Procs
    <3>2. pc'[w] \in Loading => Usable
      BY <2>1, <3>1 DEF UseCheck, TurnsInv, TypeOK, Procs, Loading, Usable
    <3>3. QED
      BY <2>1, <3>2 DEF ApplyStage, UseCheck, files, Usable
  <2>2. CASE Run(w) \/ UseNeeds(w) \/ ApplyIncremental(w) \/ ApplyFails(w)
    <3>1. pc'[w] \in Loading => want'[w] # "apply"
      BY <2>2 DEF Run, UseNeeds, BeginRebuildAll, ApplyIncremental, ApplyFails, TurnsInv, TypeOK,
         Procs, Loading
    <3>2. QED
      BY <3>1 DEF ApplyStage
  <2>3. QED
    BY <1>4, <2>1, <2>2 DEF Incremental
<1>5. ASSUME NEW w \in Writers, Full(w) PROVE ApplyStage(w)'
  <2>1. pc'[w] \notin Loading
    BY <1>5 DEF Full, InvalidateDB, CloseDropped, CloseDroppedFails, WriteTemp, WriteFails, RemoveSidecars, RenameBackup,
       RenameBackupFails, RenameFinal, RenameFinalFails, TurnsInv, TypeOK, Procs, Loading
  <2>2. QED
    BY <2>1 DEF ApplyStage
<1>6. CASE Crash
  BY <1>6 DEF Crash, ApplyStage, Loading
<1>7. CASE UNCHANGED <<vars, setting>>
  BY <1>7 DEF vars, files, calls, ApplyStage, Usable
<1>8. QED
  <2>1. ASSUME NEW p \in Procs,
               LoadDB(p) \/ (p \in Readers /\ (Call(p) \/ Read(p)))
                         \/ (p \in Writers /\ (Run(p) \/ Incremental(p) \/ Full(p)))
        PROVE  \A q \in Procs : ApplyStage(q)'
    BY <2>1, <1>1, <1>2, <1>3, <1>4, <1>5, StepsTakeTurns
  <2>2. QED
    BY <2>1, <1>6, <1>7 DEF Next, Procs

\* When calls take turns, the store is to the next process a snapshot that
\* only grows, that is lost as a whole or not at all, and that holds whatever
\* was acknowledged: each step of the code publishes or loses one, or changes
\* nothing the next process can see (RebuildAll, replaceSQLiteFile, Close).
THEOREM StoreImplementsSnapshot == Spec /\ ~setting.overlap => RefinesSnapshotStore
<1>1. Init => Snapshot!Init
  <2>1. Init => ~Usable /\ acked = {}
    BY BoundsAssumption DEF Init, Usable, Inode, None
  <2>2. QED
    BY <2>1 DEF Snapshot!Init
<1>2. Init => ApplyInv
  BY DEF Init, ApplyInv, ApplyStage, Loading
<1>3. StoreInv /\ ApplyInv /\ [Next]_<<vars, setting>> => ApplyInv'
  <2> SUFFICES ASSUME StoreInv, ApplyInv, [Next]_<<vars, setting>>, ~setting.overlap
               PROVE  \A p \in Procs : ApplyStage(p)'
    BY DEF ApplyInv, Next, vars
  <2>1. QED
    BY ApplyInductive DEF StoreInv, ApplyInv
<1>4. ~setting.overlap /\ [Next]_<<vars, setting>> => (~setting.overlap)'
  BY DEF Next
<1>5. /\ ~setting.overlap /\ (~setting.overlap)' /\ StoreInv /\ StoreInv' /\ ApplyInv
      /\ [Next]_<<vars, setting>>
      => [Snapshot!Publish \/ Snapshot!Lose]_Snapshot!vars
  BY EveryStepGrows, GrowingStepMaps DEF StoreInv, ApplyInv
<1>6. QED
  BY <1>1, <1>2, <1>3, <1>4, <1>5, StoreInvAlways, PTL DEF Spec, RefinesSnapshotStore, Snapshot!Spec
=============================================================================
