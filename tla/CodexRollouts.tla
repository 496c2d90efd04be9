---------------------------- MODULE CodexRollouts ----------------------------
(***************************************************************************)
(* The Codex source: how rollouts form families under their root thread,   *)
(* and which families a change of some rollouts makes an incremental       *)
(* rebuild replace (internal/source/codex).                                *)
(*                                                                         *)
(* A rollout file holds one thread, so the file stands for its session ID. *)
(*   parent  the thread that spawned it, NoParent for a main thread;       *)
(*   named   whether its session_meta line, hence its ID, was written;     *)
(*   whole   whether every line parses (the scan rejects the file if not); *)
(*   rev     how often it was written.                                     *)
(***************************************************************************)
EXTENDS FiniteSets, Integers

CONSTANTS
    CodexFiles,
    NoParent,
    Absent          \* the entry of a rollout the archive does not hold

ASSUME CodexFilesAssumption == IsFiniteSet(CodexFiles) /\ NoParent \notin CodexFiles

CodexEntries(revs) ==
    [parent : CodexFiles \cup {NoParent}, named : BOOLEAN, whole : BOOLEAN, rev : revs]

(* The mark of a rollout that is not there is no entry.                     *)
ASSUME AbsentAssumption == Absent \notin CodexEntries(Nat)

CodexScans(archive, f) ==
    archive[f] # Absent /\ archive[f].whole /\ archive[f].named

IsSubagent(archive, f) == archive[f].parent # NoParent

(* The thread n steps up from f as long as the parent is in the set. *)
Climb(archive, set, f) ==
    LET up[n \in 0..Cardinality(set)] ==
            IF n = 0 THEN f
            ELSE IF archive[up[n - 1]].parent \in set
                 THEN archive[up[n - 1]].parent
                 ELSE up[n - 1]
    IN  up

(* A subagent belongs to the main thread its chain of parents ends in; one  *)
(* with a missing ancestor, or on a cycle, has no root.                     *)
RootsIn(archive, set, f) ==
    LET top == Climb(archive, set, f)[Cardinality(set)]
    IN  IF IsSubagent(archive, top) THEN {} ELSE {top}

CodexConversation(id, files) == [ref |-> <<"codex", id>>, files |-> files]

GroupRollouts(archive, set) ==
    {CodexConversation(r, {f \in set : RootsIn(archive, set, f) = {r}}) :
        r \in {f \in set : ~IsSubagent(archive, f)}}
    \cup
    {CodexConversation(f, {f}) : f \in {g \in set : RootsIn(archive, set, g) = {}}}

CodexConversations(archive) ==
    GroupRollouts(archive, {f \in CodexFiles : CodexScans(archive, f)})

CodexTranscript(archive, c) == {<<f, archive[f].rev>> : f \in c.files}

-----------------------------------------------------------------------------
(* Incremental resolution *)

(* The oldest stored conversation that lists the thread. *)
StoredThread(rows, f) ==
    {r \in rows : f \in r.files /\ \A q \in rows : f \in q.files => r.id <= q.id}

StoredRoots(rows, f) == {r.ref[2] : r \in StoredThread(rows, f)}
\* Mutant: a parent that did not change is not looked up in the store.
IncrementalRootOfChanged(archive, good, rows, f) ==
    Climb(archive, good, f)[Cardinality(good)]

(* Follow the parents through the changed rollouts; from the last of them   *)
(* ask the store for the conversation of its parent. A cycle, a main thread *)
(* or a parent nobody knows end the walk where it stands.                   *)
IncrementalRoot(archive, good, rows, f) ==
    LET up     == Climb(archive, good, f)
        twice  == {n \in 1..Cardinality(good) :
                     archive[up[n - 1]].parent \in good
                     /\ up[n] \in {up[m] : m \in 0..(n - 1)}}
        last   == up[Cardinality(good)]
        stored == StoredRoots(rows, archive[last].parent)
    IN  IF twice # {}
            THEN up[CHOOSE n \in twice : \A m \in twice : n <= m]
        ELSE IF ~IsSubagent(archive, last) \/ stored = {}
            THEN last
        ELSE CHOOSE r \in stored : TRUE

(* A family is scanned again from the files stored under its root and the   *)
(* changed ones; one bad file leaves the whole family as it is stored.      *)
CodexFamily(archive, root, members, rows) ==
    LET stored  == StoredThread(rows, root)
        paths   == members \cup UNION {r.files : r \in stored}
        present == {f \in paths : archive[f] # Absent}
        grouped == GroupRollouts(archive, present)
        kept    == IF stored = {} THEN grouped
                   ELSE {c \in grouped : c.ref = <<"codex", root>>}
        refs    == {r.ref : r \in stored} \cup {c.ref : c \in grouped}
    IN  IF \E f \in present : ~CodexScans(archive, f) THEN {}
        ELSE {[ref |-> c.ref, files |-> c.files, replaces |-> refs] : c \in kept}

CodexResolve(archive, changed, rows) ==
    LET good    == {f \in changed : CodexScans(archive, f)}
        gone    == {f \in changed : archive[f] = Absent}
        bad     == changed \ (good \cup gone)
        blocked == UNION {StoredRoots(rows, f) : f \in bad}
        rootOf  == [f \in good |-> IncrementalRoot(archive, good, rows, f)]
        roots   == (UNION {StoredRoots(rows, f) : f \in gone}) \cup {rootOf[f] : f \in good}
    IN  UNION {CodexFamily(archive, root, {f \in good : rootOf[f] = root}, rows) :
                  root \in roots \ blocked}
=============================================================================
