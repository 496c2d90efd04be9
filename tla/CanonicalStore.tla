----------------------------- MODULE CanonicalStore -----------------------------
(***************************************************************************)
(* The canonical store of internal/canonical: one SQLite file, a cached    *)
(* handle on it and a cached catalog, shared by the goroutines that read   *)
(* (List, Load, DeepSearch, the queries of the statistics) and the ones    *)
(* that rebuild (RebuildAll under Pipeline.Run).  An incremental rebuild   *)
(* commits a transaction through the cached handle; a full one writes a    *)
(* temporary file and renames it over the store.                           *)
(*                                                                         *)
(* The archive is a growing number of changes; the content of a store file *)
(* is the set of changes it reflects.  What SQLite does is modelled as far *)
(* as the code relies on it: a handle stays on the file it opened whatever *)
(* happens to the name, opening a missing name creates an empty database,  *)
(* commits stay in the -wal file until the last handle closes, and the     *)
(* -wal file is found by the store's name.                                 *)
(***************************************************************************)
EXTENDS Naturals, FiniteSets

CONSTANTS
  Readers,     \* goroutines of the browser and of the statistics
  Writers,     \* goroutines of import runs
  Settings,    \* what is explored: may a call begin before the last one
               \* returned (overlap), and which failures may strike (faults)
  MaxChange,   \* bound: changes the archive takes up
  MaxInode,    \* bound: store files alive at the same time
  MaxHandle,   \* bound: handles in use at the same time
  MaxFaults    \* bound: failures

FaultKinds ==
  {"open", "incremental", "close", "scan", "rename", "restore", "remove", "crash"}

ASSUME SettingsAssumption ==
  /\ Settings \subseteq [overlap : BOOLEAN, faults : SUBSET FaultKinds]
  /\ MaxFaults \in Nat
ASSUME ProcsAssumption == Readers \cap Writers = {}
ASSUME BoundsAssumption ==
  MaxChange \in Nat /\ MaxInode \in Nat \ {0, 1} /\ MaxHandle \in Nat \ {0}

Procs == Readers \cup Writers
Change == 1..MaxChange
Inode == 1..MaxInode
Handle == 1..MaxHandle
None == 0
NoCatalog == {0}  \* no set of changes

VARIABLES
  archive,  \* number of changes in the raw archive
  disk,     \* store files: kind of their meta table, checkpointed and logged changes
  final,    \* inode named canonical.sqlite, or None
  wal,      \* inode whose log is in canonical.sqlite-wal, or None
  on,       \* handles: inode they are open on, None when closed
  cached,   \* Store.db: the cached handle, or None
  catalog,  \* Store.catalog: the set of changes it was read from, or NoCatalog
  pc,       \* per goroutine: where it is
  want,     \* per goroutine: what it needs the handle for
  held,     \* per goroutine: the handle it got
  got,      \* per reader: the catalog List has read
  batch,    \* per writer: the changes RebuildAll was told of
  temp,     \* per writer: inode of the temporary file, or None
  backup,   \* per writer: inode of the backup, or None
  acked,    \* changes of the rebuilds that returned without an error
  faults,   \* failures so far
  setting   \* the member of Settings this behaviour is about

files == <<archive, disk, final, wal, acked>>
caches == <<on, cached, catalog>>
calls == <<pc, want, held, got>>
jobs == <<batch, temp, backup>>
vars == <<files, caches, calls, jobs, faults>>  \* all but the setting, which stays

\* "stale": the meta table carries other versions; "blank": there is none.
Kind == {"none", "current", "stale", "blank"}
Loading == {"exists", "load", "stat", "open", "cache", "use"}
Rebuilding == {"drop", "close", "scan", "clear", "backup", "swap"}
Wants == {"list", "read", "search", "needs", "check", "apply"}

TypeOK ==
  /\ archive \in 0..MaxChange
  /\ disk \in [Inode -> [kind : Kind, base : SUBSET Change, log : SUBSET Change]]
  /\ final \in Inode \cup {None}
  /\ wal \in Inode \cup {None}
  /\ on \in [Handle -> Inode \cup {None}]
  /\ cached \in Handle \cup {None}
  /\ catalog \in (SUBSET Change) \cup {NoCatalog}
  /\ pc \in [Procs -> {"idle", "keep"} \cup Loading \cup Rebuilding]
  /\ want \in [Procs -> Wants]
  /\ held \in [Procs -> Handle \cup {None}]
  /\ got \in [Readers -> SUBSET Change]
  /\ batch \in [Writers -> SUBSET Change]
  /\ temp \in [Writers -> Inode \cup {None}]
  /\ backup \in [Writers -> Inode \cup {None}]
  /\ acked \in SUBSET Change
  /\ faults \in 0..MaxFaults
  /\ setting \in Settings

-----------------------------------------------------------------------------
(* Helpers *)

Seen(i) == disk[i].base \cup disk[i].log
Usable == final # None /\ disk[final].kind = "current"

\* What a fresh process finds under the store's name.
Reopened ==
  IF final = None THEN {}
  ELSE disk[final].base \cup (IF wal = final THEN disk[final].log ELSE {})

Alive(i) ==
  \/ i \in {final, wal}
  \/ \E h \in Handle : on[h] = i
  \/ \E w \in Writers : i \in {temp[w], backup[w]}
FreeInode == CHOOSE i \in Inode : ~Alive(i)
FreeHandle == CHOOSE h \in Handle : on[h] = None /\ h # cached /\ \A p \in Procs : held[p] # h

Active(p) == pc[p] # "idle"
MayStart(p) ==
  /\ ~Active(p)
  /\ setting.overlap \/ \A q \in Procs : ~Active(q)

Goto(p, l) == pc' = [pc EXCEPT ![p] = l]
Return(p) == Goto(p, "idle") /\ held' = [held EXCEPT ![p] = None]

Strike(kind) ==
  /\ kind \in setting.faults
  /\ faults < MaxFaults
  /\ faults' = faults + 1

\* db.Close: the last handle on a file checkpoints its log and removes the
\* -wal file by name.
Close(h) ==
  LET i == on[h]
  IN /\ on' = [on EXCEPT ![h] = None]
     /\ IF i = None \/ \E g \in Handle \ {h} : on[g] = i
        THEN UNCHANGED <<disk, wal>>
        ELSE /\ disk' = [disk EXCEPT ![i].base = Seen(i), ![i].log = {}]
             /\ wal' = None

Init ==
  /\ archive = 0
  /\ setting \in Settings
  /\ \E kind \in {"none", "stale"} :
       /\ setting.overlap => kind = "none"
       /\ disk = [i \in Inode |-> [kind |-> IF i = 1 THEN kind ELSE "none", base |-> {}, log |-> {}]]
       /\ final = IF kind = "none" THEN None ELSE 1
  /\ wal = None
  /\ on = [h \in Handle |-> None]
  /\ cached = None
  /\ catalog = NoCatalog
  /\ pc = [p \in Procs |-> "idle"]
  /\ want = [p \in Procs |-> "read"]
  /\ held = [p \in Procs |-> None]
  /\ got = [r \in Readers |-> {}]
  /\ batch = [w \in Writers |-> {}]
  /\ temp = [w \in Writers |-> None]
  /\ backup = [w \in Writers |-> None]
  /\ acked = {}
  /\ faults = 0

-----------------------------------------------------------------------------
(* Store.loadDB, step by step: cachedDB, pathExists, openSQLiteDB, cacheDB. *)
(* needsRebuild looks for the file before it asks for the handle.           *)

\* A goroutine of the browser calls List, Load or a Query*, or DeepSearch;
\* List returns at once what cachedCatalog has.
Call(r) ==
  /\ MayStart(r)
  /\ \E op \in {"list", "read", "search"} :
       /\ op = "list" => catalog = NoCatalog
       /\ want' = [want EXCEPT ![r] = op]
       /\ Goto(r, IF op = "search" THEN "exists" ELSE "load")
  /\ UNCHANGED <<files, caches, held, got, jobs, faults>>

\* Mutant: the catalog is kept.
BeginRebuildAllKeepsCatalog(w) ==
  /\ UNCHANGED catalog
  /\ want' = [want EXCEPT ![w] = "check"]
  /\ Goto(w, IF batch[w] # {} THEN "exists" ELSE "drop")
  /\ held' = [held EXCEPT ![w] = None]

\* RebuildAll: the catalog is dropped, and changed files are tried first as
\* an incremental rebuild.
BeginRebuildAll(w) ==
  /\ catalog' = NoCatalog
  /\ want' = [want EXCEPT ![w] = "check"]
  /\ Goto(w, IF batch[w] # {} THEN "exists" ELSE "drop")
  /\ held' = [held EXCEPT ![w] = None]

FileExists(p) ==
  /\ pc[p] \in {"exists", "stat"}
  /\ final # None
  /\ Goto(p, IF pc[p] = "exists" THEN "load" ELSE "open")
  /\ UNCHANGED <<files, caches, want, held, got, jobs, faults>>

\* Mutant: a store that is missing is no reason to rebuild.
FileMissingIgnored(p) ==
  /\ pc[p] \in {"exists", "stat"}
  /\ final = None
  /\ IF want[p] \in {"check", "apply"} THEN Goto(p, "drop") /\ UNCHANGED held ELSE Return(p)
  /\ UNCHANGED <<files, caches, want, got, jobs, faults>>

\* Readers get nothing, a run a store to be built, an incremental rebuild an
\* error that makes it a full one.
FileMissing(p) ==
  /\ pc[p] \in {"exists", "stat"}
  /\ final = None
  /\ CASE want[p] = "needs" -> BeginRebuildAll(p)
       [] want[p] \in {"check", "apply"} -> Goto(p, "drop") /\ UNCHANGED <<catalog, want, held>>
       [] OTHER -> Return(p) /\ UNCHANGED <<catalog, want>>
  /\ UNCHANGED <<files, on, cached, got, jobs, faults>>

\* Mutant: the file is opened without looking whether it is there.
CachedDBOpensBlindly(p) ==
  /\ pc[p] = "load"
  /\ held' = [held EXCEPT ![p] = cached]
  /\ Goto(p, IF cached # None THEN "use" ELSE "open")
  /\ UNCHANGED <<files, caches, want, got, jobs, faults>>

CachedDB(p) ==
  /\ pc[p] = "load"
  /\ held' = [held EXCEPT ![p] = cached]
  /\ Goto(p, IF cached # None THEN "use" ELSE "stat")
  /\ UNCHANGED <<files, caches, want, got, jobs, faults>>

\* A name that has gone since pathExists becomes an empty database.
OpenDB(p) ==
  /\ pc[p] = "open"
  /\ LET i == IF final # None THEN final ELSE FreeInode
         h == FreeHandle
     IN /\ final' = i
        /\ disk' = IF final # None THEN disk
                   ELSE [disk EXCEPT ![i] = [kind |-> "blank", base |-> {}, log |-> {}]]
        /\ wal' = i
        /\ on' = [on EXCEPT ![h] = i]
        /\ held' = [held EXCEPT ![p] = h]
  /\ Goto(p, "cache")
  /\ UNCHANGED <<archive, cached, catalog, acked, want, got, jobs, faults>>

\* The store is there and cannot be opened: an incremental rebuild becomes a
\* full one, every other caller reports the error.
OpenFails(p) ==
  /\ pc[p] = "open"
  /\ Strike("open")
  /\ IF want[p] \in {"check", "apply"} THEN Goto(p, "drop") /\ UNCHANGED held ELSE Return(p)
  /\ UNCHANGED <<files, caches, want, got, jobs>>

\* Mutant: the second of two opened handles is not closed.
CacheDBKeepsBoth(p) ==
  /\ pc[p] = "cache"
  /\ cached' = IF cached = None THEN held[p] ELSE cached
  /\ held' = [held EXCEPT ![p] = cached']
  /\ Goto(p, "use")
  /\ UNCHANGED <<files, on, catalog, want, got, jobs, faults>>

CacheDB(p) ==
  /\ pc[p] = "cache"
  /\ IF cached = None
     THEN cached' = held[p] /\ UNCHANGED <<disk, wal, on, held>>
     ELSE /\ Close(held[p])
          /\ held' = [held EXCEPT ![p] = cached]
          /\ UNCHANGED cached
  /\ Goto(p, "use")
  /\ UNCHANGED <<archive, final, catalog, acked, want, got, jobs, faults>>

-----------------------------------------------------------------------------
(* What readers do with the handle.  A closed handle and a database without *)
(* tables are errors the caller shows.                                      *)

Broken(p) == on[held[p]] = None \/ disk[on[held[p]]].kind = "blank"

UseList(r) ==
  /\ pc[r] = "use" /\ want[r] = "list"
  /\ IF Broken(r)
     THEN Return(r) /\ UNCHANGED got
     ELSE Goto(r, "keep") /\ got' = [got EXCEPT ![r] = Seen(on[held[r]])] /\ UNCHANGED held
  /\ UNCHANGED <<files, caches, want, jobs, faults>>

CacheCatalog(r) ==
  /\ pc[r] = "keep"
  /\ catalog' = IF catalog = NoCatalog THEN got[r] ELSE catalog
  /\ got' = [got EXCEPT ![r] = {}]
  /\ Return(r)
  /\ UNCHANGED <<files, on, cached, want, jobs, faults>>

UseRead(r) ==
  /\ pc[r] = "use" /\ want[r] = "read"
  /\ Return(r)
  /\ UNCHANGED <<files, caches, want, got, jobs, faults>>

\* DeepSearch asks needsRebuild first and then loads the handle again.
UseSearch(r) ==
  /\ pc[r] = "use" /\ want[r] = "search"
  /\ IF Broken(r) \/ disk[on[held[r]]].kind # "current"
     THEN Return(r) /\ UNCHANGED want
     ELSE /\ want' = [want EXCEPT ![r] = "read"]
          /\ Goto(r, "load")
          /\ held' = [held EXCEPT ![r] = None]
  /\ UNCHANGED <<files, caches, got, jobs, faults>>

-----------------------------------------------------------------------------
(* Pipeline.Run and RebuildAll.                                            *)

\* A run has copied some files (or none) and asks NeedsRebuild.
Run(w) ==
  /\ MayStart(w)
  /\ \E n \in archive..MaxChange :
       /\ archive' = n
       /\ batch' = [batch EXCEPT ![w] = (archive + 1)..n]
  /\ want' = [want EXCEPT ![w] = "needs"]
  /\ Goto(w, "exists")
  /\ UNCHANGED <<disk, final, wal, acked, caches, held, got, temp, backup, faults>>

UseNeeds(w) ==
  /\ pc[w] = "use" /\ want[w] = "needs"
  /\ IF Broken(w) \/ (batch[w] = {} /\ disk[on[held[w]]].kind = "current")
     THEN Return(w) /\ UNCHANGED <<catalog, want>>
     ELSE BeginRebuildAll(w)
  /\ UNCHANGED <<files, on, cached, got, jobs, faults>>

\* tryIncrementalRebuildWithSources asks needsRebuild again.
UseCheck(w) ==
  /\ pc[w] = "use" /\ want[w] = "check"
  /\ IF Broken(w) \/ disk[on[held[w]]].kind # "current"
     THEN Goto(w, "drop") /\ UNCHANGED want
     ELSE Goto(w, "load") /\ want' = [want EXCEPT ![w] = "apply"]
  /\ held' = [held EXCEPT ![w] = None]
  /\ UNCHANGED <<files, caches, got, jobs, faults>>

\* The conversations of the changed files are resolved, parsed and committed;
\* SQLite may checkpoint the log with the commit.
ApplyIncremental(w) ==
  /\ pc[w] = "use" /\ want[w] = "apply"
  /\ ~Broken(w)
  /\ LET i == on[held[w]]
         added == Seen(i) \cup batch[w]
     IN \/ disk' = [disk EXCEPT ![i].log = added \ disk[i].base]
        \/ disk' = [disk EXCEPT ![i].log = {}, ![i].base = added]
  /\ acked' = acked \cup batch[w]
  /\ Return(w)
  /\ UNCHANGED <<archive, final, wal, caches, want, got, jobs, faults>>

\* Any error of the incremental rebuild leads to a full one.
ApplyFails(w) ==
  /\ pc[w] = "use" /\ want[w] = "apply"
  /\ IF Broken(w) THEN UNCHANGED faults ELSE Strike("incremental")
  /\ Goto(w, "drop")
  /\ held' = [held EXCEPT ![w] = None]
  /\ UNCHANGED <<files, caches, want, got, jobs>>

\* Mutant: only the catalog is dropped, the handle stays open and cached.
InvalidateDBKeepsHandle(w) ==
  /\ pc[w] = "drop"
  /\ catalog' = NoCatalog
  /\ Goto(w, "scan")
  /\ UNCHANGED <<files, on, cached, want, held, got, jobs, faults>>

\* invalidateDB: the caches are emptied under the lock, the handle is closed
\* after it.
InvalidateDB(w) ==
  /\ pc[w] = "drop"
  /\ catalog' = NoCatalog
  /\ cached' = None
  /\ held' = [held EXCEPT ![w] = cached]
  /\ Goto(w, IF cached # None THEN "close" ELSE "scan")
  /\ UNCHANGED <<files, on, want, got, jobs, faults>>

CloseDropped(w) ==
  /\ pc[w] = "close"
  /\ Close(held[w])
  /\ held' = [held EXCEPT ![w] = None]
  /\ Goto(w, "scan")
  /\ UNCHANGED <<archive, final, acked, cached, catalog, want, got, jobs, faults>>

\* An error of Close ends the rebuild; the handle is gone, the log may be left
\* for the next process.
CloseDroppedFails(w) ==
  /\ pc[w] = "close"
  /\ Strike("close")
  /\ \/ Close(held[w])
     \/ on' = [on EXCEPT ![held[w]] = None] /\ UNCHANGED <<disk, wal>>
  /\ Return(w)
  /\ UNCHANGED <<archive, final, acked, cached, catalog, want, got, jobs>>

\* Everything in the archive is scanned, parsed and written to a temporary
\* file, which is then checked and closed.
WriteTemp(w) ==
  /\ pc[w] = "scan"
  /\ LET i == FreeInode
     IN /\ disk' = [disk EXCEPT ![i] = [kind |-> "current", base |-> 1..archive, log |-> {}]]
        /\ temp' = [temp EXCEPT ![w] = i]
  /\ Goto(w, "clear")
  /\ UNCHANGED <<archive, final, wal, acked, caches, want, held, got, batch, backup, faults>>

WriteFails(w) ==
  /\ pc[w] = "scan"
  /\ Strike("scan")
  /\ Return(w)
  /\ UNCHANGED <<files, caches, want, got, jobs>>

\* replaceSQLiteFile: the -wal of the old file goes, then the file itself is
\* renamed to a backup, then the temporary one takes its name.
RemoveSidecars(w) ==
  /\ pc[w] = "clear"
  /\ wal' = None
  /\ Goto(w, IF final # None THEN "backup" ELSE "swap")
  /\ UNCHANGED <<archive, disk, final, acked, caches, want, held, got, jobs, faults>>

RenameBackup(w) ==
  /\ pc[w] = "backup"
  /\ final # None
  /\ backup' = [backup EXCEPT ![w] = final]
  /\ final' = None
  /\ Goto(w, "swap")
  /\ UNCHANGED <<archive, disk, wal, acked, caches, want, held, got, batch, temp, faults>>

\* The rename fails, or another run has renamed the file: the temporary file
\* is removed.
RenameBackupFails(w) ==
  /\ pc[w] = "backup"
  /\ IF final # None THEN Strike("rename") ELSE UNCHANGED faults
  /\ temp' = [temp EXCEPT ![w] = None]
  /\ Return(w)
  /\ UNCHANGED <<files, caches, want, got, batch, backup>>

\* An error of the backup's removal is returned though the store is in place.
RenameFinal(w) ==
  /\ pc[w] = "swap"
  /\ final' = temp[w]
  /\ \/ acked' = acked \cup disk[temp[w]].base /\ UNCHANGED faults
     \/ Strike("remove") /\ backup[w] # None /\ UNCHANGED acked
  /\ temp' = [temp EXCEPT ![w] = None]
  /\ backup' = [backup EXCEPT ![w] = None]
  /\ Return(w)
  /\ UNCHANGED <<archive, disk, wal, caches, want, got, batch>>

\* The backup is put back; that may fail as well.
RenameFinalFails(w) ==
  /\ pc[w] = "swap"
  /\ \/ Strike("rename") /\ (final' = IF backup[w] # None THEN backup[w] ELSE final)
     \/ Strike("restore") /\ backup[w] # None /\ UNCHANGED final
  /\ temp' = [temp EXCEPT ![w] = None]
  /\ backup' = [backup EXCEPT ![w] = None]
  /\ Return(w)
  /\ UNCHANGED <<archive, disk, wal, acked, caches, want, got, batch>>

\* The process ends, closing nothing: a log lives on only under the store's
\* name, and temporary and backup files are never looked at again.
Crash ==
  /\ Strike("crash")
  /\ disk' = [i \in Inode |-> IF i = wal THEN disk[i] ELSE [disk[i] EXCEPT !.log = {}]]
  /\ on' = [h \in Handle |-> None]
  /\ cached' = None
  /\ catalog' = NoCatalog
  /\ pc' = [p \in Procs |-> "idle"]
  /\ held' = [p \in Procs |-> None]
  /\ got' = [r \in Readers |-> {}]
  /\ temp' = [w \in Writers |-> None]
  /\ backup' = [w \in Writers |-> None]
  /\ UNCHANGED <<archive, final, wal, acked, want, batch>>

LoadDB(p) ==
  \/ FileExists(p) \/ FileMissing(p) \/ CachedDB(p)
  \/ OpenDB(p) \/ OpenFails(p) \/ CacheDB(p)
Read(r) == UseList(r) \/ CacheCatalog(r) \/ UseRead(r) \/ UseSearch(r)
Incremental(w) == UseNeeds(w) \/ UseCheck(w) \/ ApplyIncremental(w) \/ ApplyFails(w)
Full(w) ==
  \/ InvalidateDB(w) \/ CloseDropped(w) \/ CloseDroppedFails(w)
  \/ WriteTemp(w) \/ WriteFails(w)
  \/ RemoveSidecars(w) \/ RenameBackup(w) \/ RenameBackupFails(w)
  \/ RenameFinal(w) \/ RenameFinalFails(w)

Next ==
  /\ \/ \E p \in Procs : LoadDB(p)
     \/ \E r \in Readers : Call(r) \/ Read(r)
     \/ \E w \in Writers : Run(w) \/ Incremental(w) \/ Full(w)
     \/ Crash
  /\ UNCHANGED setting

\* Goroutines are scheduled; the user resyncs, or starts carn, again and again.
Fairness ==
  /\ \A p \in Procs : WF_vars(LoadDB(p))
  /\ \A r \in Readers : WF_vars(Read(r))
  /\ \A w \in Writers : WF_vars(Incremental(w)) /\ WF_vars(Full(w)) /\ SF_vars(Run(w))

Spec == Init /\ [][Next]_<<vars, setting>>
FairSpec == Spec /\ Fairness

-----------------------------------------------------------------------------
(* Properties *)

Resting == \A w \in Writers : ~Active(w)

\* What a rebuild that returned without an error has put into the store is
\* there for the next process, or the whole store is to be built again
\* (RebuildAll, replaceSQLiteFile).
AckedDurable == Usable => acked \subseteq Reopened

\* Between runs the cached handle is on the file the name stands for
\* (invalidateDB, replaceSQLiteFile).
HandleOnStore == Resting /\ cached # None => on[cached] = final

\* Between runs that nothing overlapped, the cached catalog is what the store
\* holds (RebuildAll, cacheCatalog).
CatalogCurrent == ~setting.overlap /\ Resting /\ catalog # NoCatalog => catalog = Reopened

\* A handle that is open is cached or in the hands of a caller that will
\* cache or close it (loadDB, cacheDB, invalidateDB).
HandlesOwned ==
  \A h \in Handle :
    on[h] # None => h = cached \/ \E p \in Procs : held[p] = h /\ pc[p] \in {"cache", "close"}

\* A store that is missing, half replaced when the process ended or of another
\* version is there again after enough runs (NeedsRebuild, RebuildAll).
StoreHeals == <>[]Usable

\* To the next process the store is a SnapshotStore, whatever the files do.
Snapshot == INSTANCE SnapshotStore WITH
  snapshot <- IF Usable THEN Reopened ELSE NoCatalog, Nothing <- NoCatalog
RefinesSnapshotStore == Snapshot!Spec

\* No call creates an empty database under the store's name (loadDB).
NeverBlank == final # None => disk[final].kind # "blank"

\* The caches of a Store and its file tell of one store, which is never an empty
\* one, and no handle leaks.
CachesSound == TypeOK /\ HandleOnStore /\ CatalogCurrent /\ HandlesOwned /\ NeverBlank
===============================================================================
