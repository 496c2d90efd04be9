--------------------------- MODULE ClaudeSessions ---------------------------
(***************************************************************************)
(* The Claude source as the canonical store sees it: which archived files  *)
(* form which conversation, what parsing a conversation reads, and which   *)
(* conversations a change of some files makes an incremental rebuild       *)
(* replace (internal/source/claude).                                       *)
(*                                                                         *)
(* A file is abstracted to what these decisions read of it:                *)
(*   slug   the first non-empty slug found by the metadata scan;           *)
(*   level  0 no session metadata, 1 metadata only, 2 visible content;     *)
(*   whole  whether its last line is complete JSON;                        *)
(*   rev    how often it was written, the stand-in for its messages.       *)
(* All operators are functions of the archive and of the stored rows, so   *)
(* that IncrementalRebuild can apply them at each rebuild.                 *)
(***************************************************************************)
EXTENDS FiniteSets, Integers

CONSTANTS
    ClaudeFiles,    \* archived session files
    SubagentOf,     \* [subagent file -> the session file whose directory holds it]
    ProjectOf,      \* [ClaudeFiles -> project directory]
    Slugs, NoSlug,
    Missing         \* the entry of a file the archive does not hold

ASSUME ClaudeFilesAssumption ==
    /\ IsFiniteSet(ClaudeFiles)
    /\ DOMAIN SubagentOf \subseteq ClaudeFiles
    /\ \A s \in DOMAIN SubagentOf : SubagentOf[s] \in ClaudeFiles \ DOMAIN SubagentOf
    /\ DOMAIN ProjectOf = ClaudeFiles
    /\ \A s \in DOMAIN SubagentOf : ProjectOf[s] = ProjectOf[SubagentOf[s]]
    /\ NoSlug \notin Slugs

ClaudeEntries(revs) ==
    [slug : Slugs \cup {NoSlug}, level : 0..2, whole : BOOLEAN, rev : revs]

ASSUME MissingAssumption == Missing \notin ClaudeEntries(Nat)

(* scanSessionFile fails only for a file without metadata or a missing one: *)
(* the metadata scan skips the lines it cannot read.                        *)
ClaudeScans(archive, f) == archive[f] # Missing /\ archive[f].level > 0

(* A subagent file or a file without a slug is a conversation of its own;   *)
(* the others share the conversation of their project and slug.             *)
ClaudeRef(archive, f) ==
    IF f \in DOMAIN SubagentOf \/ archive[f].slug = NoSlug
        THEN <<"path", f>>
        ELSE <<"group", ProjectOf[f], archive[f].slug>>

ClaudeMembers(archive, ref) ==
    {f \in ClaudeFiles : ClaudeScans(archive, f) /\ ClaudeRef(archive, f) = ref}

(* A group is a conversation when one member has something to show. *)
ClaudeConversations(archive) ==
    LET refs == {ClaudeRef(archive, f) : f \in {g \in ClaudeFiles : ClaudeScans(archive, g)}}
    IN  {[ref |-> r, files |-> ClaudeMembers(archive, r)] :
            r \in {q \in refs : \E f \in ClaudeMembers(archive, q) : archive[f].level = 2}}

(* One unreadable line of a member makes the whole conversation malformed. *)
ClaudeParses(archive, c) ==
    \A f \in c.files : archive[f] # Missing /\ archive[f].whole

(* The transcript holds the messages of every member and of the subagent   *)
(* files beside it; a subagent file that does not parse is left out.        *)
LinkedSubagents(archive, f) ==
    {s \in DOMAIN SubagentOf :
        /\ SubagentOf[s] = f
        /\ archive[s] # Missing
        /\ archive[s].whole
        /\ archive[s].level = 2}

ClaudeTranscript(archive, c) ==
    {<<f, archive[f].rev>> :
        f \in c.files \cup UNION {LinkedSubagents(archive, g) : g \in c.files}}

-----------------------------------------------------------------------------
(* Incremental resolution *)

(* The stored conversation of a changed file; the store answers with the    *)
(* oldest row that lists the file.                                          *)
StoredRow(rows, f) ==
    {r \in rows : f \in r.files /\ \A q \in rows : f \in q.files => r.id <= q.id}

StoredRefs(rows, f) == {r.ref : r \in StoredRow(rows, f)}
\* Mutant: only the conversation the store has the file in is replaced.
ClaudeReplacesStored(archive, changed, rows, ref) ==
    UNION {StoredRefs(rows, f) :
        f \in {g \in changed : ClaudeScans(archive, g) /\ ClaudeRef(archive, g) = ref}}

(* What a change replaces: the conversation the file belongs to now and the *)
(* one the store has it in.                                                 *)
ClaudeReplaces(archive, changed, rows, ref) ==
    UNION {{ref} \cup StoredRefs(rows, f) :
        f \in {g \in changed : ClaudeScans(archive, g) /\ ClaudeRef(archive, g) = ref}}

(* A changed file that disappeared blocks the conversation stored for it. *)
ClaudeBlocked(archive, changed, rows) ==
    UNION {StoredRefs(rows, f) : f \in {g \in changed : archive[g] = Missing}}
\* Mutant: a conversation comes back with its changed files only.
ClaudeResolveChanged(archive, changed, rows) ==
    {[ref |-> c.ref, files |-> c.files \cap changed,
      replaces |-> ClaudeReplaces(archive, changed, rows, c.ref)] :
        c \in {d \in ClaudeConversations(archive) : d.files \cap changed # {}}}

(* The project of a target is scanned again, so that a conversation comes   *)
(* back with all of its files, the unchanged ones included.                 *)
ClaudeResolve(archive, changed, rows) ==
    LET targets == {ClaudeRef(archive, f) : f \in {g \in changed : ClaudeScans(archive, g)}}
        blocked == ClaudeBlocked(archive, changed, rows)
    IN  {[ref |-> c.ref, files |-> c.files,
          replaces |-> ClaudeReplaces(archive, changed, rows, c.ref)] :
            c \in {d \in ClaudeConversations(archive) :
                    /\ d.ref \in targets
                    /\ ClaudeReplaces(archive, changed, rows, d.ref) \cap blocked = {}}}
=============================================================================
