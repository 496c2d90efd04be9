------------------------- MODULE IncrementalRebuild -------------------------
(***************************************************************************)
(* What a rebuild writes into the canonical store: the tables, the full    *)
(* rebuild from the whole archive and the incremental one from the files a *)
(* sync changed (internal/canonical). ImportPipeline and CanonicalStore    *)
(* treat a rebuild as one step that makes the store current; this module   *)
(* looks inside that step.                                                 *)
(*                                                                         *)
(* The transcript of a conversation is the set of file revisions it shows. *)
(* Its search chunks are one chunk with that text: what matters is that    *)
(* the index, which has no foreign key, follows the chunk table.           *)
(***************************************************************************)
EXTENDS ClaudeSessions, CodexRollouts, FiniteSetsExt

CONSTANTS
    MaxClaudeWrites,    \* bound: writes to the Claude files
    MaxCodexWrites,     \* bound: writes to the rollouts
    MaxMixedWrites,     \* bound: writes once both sources have been written to
    MaxLost             \* bound: files that disappear between a sync and its rebuild

ASSUME BoundsAssumption ==
    /\ MaxClaudeWrites \in Nat /\ MaxCodexWrites \in Nat
    /\ MaxMixedWrites \in Nat /\ MaxLost \in Nat

(* Each source archives its files in a directory of its own. *)
ASSUME SourcesAssumption == ClaudeFiles \cap CodexFiles = {}

VARIABLES
    claude,     \* [ClaudeFiles -> entry or Missing]: the archived Claude files
    codex,      \* [CodexFiles -> entry or Absent]
    pending,    \* files written by a sync and not yet given to a rebuild
    db,         \* the tables: rows, chunks, fts, stats
    built,      \* the database exists with current versions
    outcome,    \* what the last rebuild did
    writes,     \* writes so far, per source
    lost        \* files that disappeared for good

vars == <<claude, codex, pending, db, built, outcome, writes, lost>>

Files == ClaudeFiles \cup CodexFiles

EmptyTables == [rows |-> {}, chunks |-> {}, fts |-> {}, stats |-> {}]

-----------------------------------------------------------------------------
(* The tables *)
\* Mutant: the next ID is the number of rows.
NextIDByCount(table) == 1 + Cardinality(table)

(* SQLite gives a new row the largest row ID plus one, so the ID of a       *)
(* deleted last row is used again.                                          *)
NextID(table) == 1 + Max({0} \cup {x.id : x \in table})

ChunksOf(tables, refs) ==
    {c \in tables.chunks : \E r \in tables.rows : r.id = c.conversation /\ r.ref \in refs}

(* The index is told rowid and text; it keeps what does not match exactly. *)
Postings(chunks) == {[rowid |-> c.id, text |-> c.text] : c \in chunks}

DeleteSearchIndex(tables, refs) ==
    [tables EXCEPT !.fts = @ \ Postings(ChunksOf(tables, refs))]

(* Statistics are keyed by the cache key and survive the conversation row. *)
DeleteStats(tables, refs) ==
    [tables EXCEPT !.stats = {s \in @ : s.ref \notin refs}]

(* The chunk rows cascade. *)
DeleteConversations(tables, refs) ==
    [tables EXCEPT !.chunks = @ \ ChunksOf(tables, refs),
                   !.rows   = {r \in @ : r.ref \notin refs}]

(* One transaction inserts row after row, in an order nothing depends on.   *)
InsertConversations(tables, convs) ==
    LET place == CHOOSE p \in Bijection(convs, 0 .. Cardinality(convs) - 1) : TRUE
        Row(c) == [id |-> NextID(tables.rows) + place[c], ref |-> c.ref,
                   files |-> c.files, text |-> c.text]
        Chunk(c) == [id |-> NextID(tables.chunks) + place[c],
                     conversation |-> Row(c).id, text |-> c.text]
    IN  [tables EXCEPT
            !.rows   = @ \cup {Row(c) : c \in convs},
            !.chunks = @ \cup {Chunk(c) : c \in convs},
            !.stats  = @ \cup UNION {{[ref |-> c.ref, file |-> f] : f \in c.files} : c \in convs}]

PopulateSearchIndex(tables, refs) ==
    [tables EXCEPT !.fts = @ \cup Postings(ChunksOf(tables, refs))]

(* A cache key is unique: the insert of a stored one fails the transaction. *)
Collides(tables, convs) ==
    \E c \in convs : \E r \in tables.rows : r.ref = c.ref

-----------------------------------------------------------------------------
(* Scan and parse *)

Claude(c) == [ref |-> c.ref, files |-> c.files, text |-> ClaudeTranscript(claude, c)]

Codex(c) == [ref |-> c.ref, files |-> c.files, text |-> CodexTranscript(codex, c)]

(* Malformed conversations are left out; the scan has already rejected a    *)
(* Codex file that would not parse.                                         *)
ParsedClaude(convs) == {Claude(c) : c \in {d \in convs : ClaudeParses(claude, d)}}

ParsedCodex(convs) == {Codex(c) : c \in convs}

FullContents ==
    ParsedClaude(ClaudeConversations(claude)) \cup ParsedCodex(CodexConversations(codex))

(* A full rebuild writes a new database file. *)
FullTables ==
    LET filled == InsertConversations(EmptyTables, FullContents)
    IN  PopulateSearchIndex(filled, {r.ref : r \in filled.rows})

Resolution ==
    ClaudeResolve(claude, pending \cap ClaudeFiles, db.rows)
    \cup CodexResolve(codex, pending \cap CodexFiles, db.rows)

Parsed(resolution) ==
    ParsedClaude({c \in resolution : c.files \subseteq ClaudeFiles})
    \cup ParsedCodex({c \in resolution : c.files \subseteq CodexFiles})

(* Every key to replace is attached to one conversation, the first that     *)
(* names it in an order the resolvers do not fix.                           *)
Attachments(resolution) ==
    {a \in [UNION {c.replaces : c \in resolution} -> resolution] :
        \A ref \in DOMAIN a : ref \in a[ref].replaces}
\* Mutant: the keys of malformed conversations are replaced as well.
ReplacedRefsAll(attached, parsed) == DOMAIN attached

(* Only the keys of conversations that parsed are replaced. *)
ReplacedRefs(attached, parsed) ==
    {ref \in DOMAIN attached : \E c \in parsed : c.ref = attached[ref].ref}
\* Mutant: the index is cleared from the chunks that are left.
ClearedIndexLast(refs) ==
    DeleteSearchIndex(DeleteConversations(DeleteStats(db, refs), refs), refs)

\* Mutant: statistics are expected to follow their conversation.
ClearedKeepsStats(refs) == DeleteConversations(DeleteSearchIndex(db, refs), refs)

(* The transaction, statement by statement. *)
Cleared(refs) ==
    DeleteConversations(DeleteStats(DeleteSearchIndex(db, refs), refs), refs)

Applied(refs, parsed) ==
    PopulateSearchIndex(InsertConversations(Cleared(refs), parsed), refs)

-----------------------------------------------------------------------------
Init ==
    /\ claude  = [f \in ClaudeFiles |-> Missing]
    /\ codex   = [f \in CodexFiles |-> Absent]
    /\ pending = {}
    /\ db      = EmptyTables
    /\ built   = FALSE
    /\ outcome = "none"
    /\ writes  = [claude |-> 0, codex |-> 0]
    /\ lost    = {}

(* Files only grow: a slug or a parent, once written, stays. *)
ClaudeGrows(old, new) ==
    IF old = Missing THEN new.rev = 1
    ELSE /\ old.slug \in {NoSlug, new.slug}
         /\ old.level <= new.level
         /\ new.rev = old.rev + 1

CodexGrows(old, new) ==
    IF old = Absent THEN new.rev = 1
    ELSE /\ old.parent = new.parent
         /\ old.named => new.named
         /\ new.rev = old.rev + 1

(* Bounds only: the sources share nothing but the row IDs of the tables. *)
MayWrite(own, max, other) == own < max /\ (other = 0 \/ own + other < MaxMixedWrites)

WriteClaude(f) ==
    /\ f \notin lost
    /\ MayWrite(writes.claude, MaxClaudeWrites, writes.codex)
    /\ \E new \in ClaudeEntries(1..MaxClaudeWrites) :
        /\ new.slug # NoSlug => new.level > 0
        /\ ClaudeGrows(claude[f], new)
        /\ claude' = [claude EXCEPT ![f] = new]
    /\ pending' = pending \cup {f}
    /\ writes' = [writes EXCEPT !.claude = @ + 1]
    /\ UNCHANGED <<codex, db, built, outcome, lost>>

WriteCodex(f) ==
    /\ f \notin lost
    /\ MayWrite(writes.codex, MaxCodexWrites, writes.claude)
    /\ \E new \in CodexEntries(1..MaxCodexWrites) :
        /\ new.parent # f
        /\ CodexGrows(codex[f], new)
        /\ codex' = [codex EXCEPT ![f] = new]
    /\ pending' = pending \cup {f}
    /\ writes' = [writes EXCEPT !.codex = @ + 1]
    /\ UNCHANGED <<claude, db, built, outcome, lost>>

(* A file named by the sync is gone when the rebuild opens it. *)
LoseFile(f) ==
    /\ f \in pending \ lost
    /\ Cardinality(lost) < MaxLost
    /\ lost' = lost \cup {f}
    /\ IF f \in ClaudeFiles
        THEN claude' = [claude EXCEPT ![f] = Missing] /\ UNCHANGED codex
        ELSE codex' = [codex EXCEPT ![f] = Absent] /\ UNCHANGED claude
    /\ UNCHANGED <<pending, db, built, outcome, writes>>

WriteFull(how) ==
    /\ db' = FullTables
    /\ built' = TRUE
    /\ pending' = {}
    /\ outcome' = how
    /\ UNCHANGED <<claude, codex, writes, lost>>

(* Store.RebuildAll without changed paths, or an incremental rebuild given  *)
(* up before its transaction (no store, stale versions, an I/O error).      *)
RebuildFull == WriteFull("full")

RebuildIncremental ==
    /\ built
    /\ pending # {}
    /\ LET resolution == Resolution
           parsed     == Parsed(resolution)
       IN  \E attached \in Attachments(resolution) :
            LET refs == ReplacedRefs(attached, parsed)
            IN  IF Collides(Cleared(refs), parsed)
                    THEN WriteFull("collided")
                    ELSE /\ db' = Applied(refs, parsed)
                         /\ pending' = {}
                         /\ outcome' = "incremental"
                         /\ UNCHANGED <<claude, codex, built, writes, lost>>

Next ==
    \/ \E f \in ClaudeFiles : WriteClaude(f)
    \/ \E f \in CodexFiles : WriteCodex(f)
    \/ \E f \in Files : LoseFile(f)
    \/ RebuildFull
    \/ RebuildIncremental

Spec == Init /\ [][Next]_vars

-----------------------------------------------------------------------------
(* Properties *)

(* The tables have the shape the schema declares: keys and row IDs are      *)
(* unique and the archive holds entries of the two sources.                 *)
TypeOK ==
    /\ claude \in [ClaudeFiles -> ClaudeEntries(1..MaxClaudeWrites) \cup {Missing}]
    /\ codex \in [CodexFiles -> CodexEntries(1..MaxCodexWrites) \cup {Absent}]
    /\ pending \subseteq Files
    /\ outcome \in {"none", "full", "incremental", "collided"}
    /\ built \in BOOLEAN
    /\ writes \in [claude : 0..MaxClaudeWrites, codex : 0..MaxCodexWrites]
    /\ lost \subseteq Files
    /\ \A q, r \in db.rows : q.ref = r.ref \/ q.id = r.id => q = r

(* Deep search finds exactly what the stored transcripts say: the index has *)
(* no posting of a deleted chunk, misses none, and each conversation has    *)
(* the chunks of its own transcript, although row IDs are reused and the    *)
(* triggers are dropped during a rebuild.                                   *)
IndexMatchesTranscripts ==
    /\ db.fts = Postings(db.chunks)
    /\ \A c \in db.chunks : \E r \in db.rows : r.id = c.conversation /\ r.text = c.text
    /\ \A r \in db.rows : \E c \in db.chunks : c.conversation = r.id

(* The statistics tables, which no foreign key ties to the catalogue, hold  *)
(* the sessions of the stored conversations and of no other.                *)
StatsMatchCatalog ==
    db.stats = UNION {{[ref |-> r.ref, file |-> f] : f \in r.files} : r \in db.rows}

(* The conversations an incremental rebuild inserts are among those it      *)
(* deletes or new: no cache key is ever stored twice, so the transaction    *)
(* never has to be given up for a full rebuild.                             *)
NeverCollides == outcome # "collided"

(* However rebuilds follow one another, the tables tell of one catalogue.   *)
TablesAgree == TypeOK /\ IndexMatchesTranscripts /\ StatsMatchCatalog /\ NeverCollides

Catalogued == UNION {r.files : r \in db.rows}

Archived == {f \in ClaudeFiles : claude[f] # Missing}
            \cup {f \in CodexFiles : codex[f] # Absent}

(* The parents of a rollout, and theirs, as far as the archive knows them.  *)
Ancestors(f) ==
    {a \in CodexFiles : \A S \in SUBSET CodexFiles :
        (/\ codex[f].parent \in S \cup {NoParent}
         /\ \A g \in S : codex[g] # Absent => codex[g].parent \in S \cup {NoParent}) => a \in S}

(* Subagents below a rollout that is stored as a conversation of its own    *)
(* although it is a subagent, because its parent was not there in time, or  *)
(* below one whose file disappeared.                                        *)
Stranded ==
    {f \in CodexFiles \cap Archived :
        \/ Ancestors(f) \cap lost # {}
        \/ \E r \in db.rows :
            /\ r.ref[1] = "codex"
            /\ codex[r.ref[2]] # Absent => IsSubagent(codex, r.ref[2])
            /\ r.files \cap Ancestors(f) # {}}

Incremental == pending # {} /\ pending' = {} /\ outcome' = "incremental"

(* An incremental rebuild never drops a session the catalogue listed and    *)
(* the archive still holds, however malformed its conversation has become:  *)
(* a stored conversation is replaced by its successor or not at all.        *)
SessionsKept ==
    [][Incremental => (Catalogued \cap Archived) \ Stranded \subseteq Catalogued']_vars

Settled(files) == files \cap pending = {}

OwnRevisions(r, members, archive) ==
    \A f \in members : <<f, archive[f].rev>> \in r.text

(* Once its files have been given to a rebuild, a Claude conversation whose *)
(* members all parse is stored with the last revision of each of them, even *)
(* when a member arrived, gained its slug or was completed in other syncs   *)
(* than the rest.                                                           *)
ClaudeConversationsCurrent ==
    built => \A c \in ClaudeConversations(claude) :
        Settled(c.files) /\ ClaudeParses(claude, c) /\ lost = {} =>
            \E r \in db.rows : r.ref = c.ref /\ OwnRevisions(r, c.files, claude)

(* The row of a main thread holds the last revision of every rollout it     *)
(* lists, unless one of them does not scan, or is stranded: a rollout below *)
(* an orphan is looked up under the orphan, whose row is the older one, and *)
(* what it says never reaches the family that lists it as well.             *)
CodexRootsCurrent ==
    \A r \in db.rows :
        (/\ r.ref[1] = "codex"
         /\ \A f \in r.files : CodexScans(codex, f)
         /\ ~IsSubagent(codex, r.ref[2])
         /\ r.files \cap Stranded = {}
         /\ Settled(r.files)) => OwnRevisions(r, r.files, codex)

(* What a rebuild was given is in the conversations, of either provider.    *)
ConversationsCurrent == ClaudeConversationsCurrent /\ CodexRootsCurrent

-----------------------------------------------------------------------------
(* What the vocabulary and the tests say, and TLC refutes *)

(* VOCABULARY.md: an incremental rebuild reuses unchanged transcripts. Yet  *)
(* a stored transcript whose files all parse and are settled may differ     *)
(* from the one parsing them now gives.                                     *)
TranscriptsReusedUnchanged ==
    built => \A c \in ClaudeConversations(claude) :
        LET inputs == c.files \cup {s \in DOMAIN SubagentOf : SubagentOf[s] \in c.files}
        IN  (/\ Settled(inputs)
             /\ lost = {}
             /\ \A f \in inputs : claude[f] # Missing => claude[f].whole) =>
                \E r \in db.rows : r.ref = c.ref /\ r.text = ClaudeTranscript(claude, c)

(* VOCABULARY.md: a rebuild skips the affected item and keeps processing    *)
(* the rest. Yet an orphaned subagent of an orphaned subagent is resolved   *)
(* into the family of its parent, which keeps only the parent.              *)
OrphansKept ==
    [][Incremental =>
        \A f \in Catalogued \cap Archived :
            f \in ClaudeFiles \/ f \notin Ancestors(f) => f \in Catalogued']_vars

(* A stored subagent whose chain of parents is stored sits in the           *)
(* conversation of its root, and in no other.                               *)
SubagentsNested ==
    LET good == {f \in CodexFiles : CodexScans(codex, f)}
    IN  (pending = {} /\ lost = {} /\ good = {f \in CodexFiles : codex[f] # Absent}) =>
            \A r \in db.rows, f \in good :
                r.ref[1] = "codex" /\ f \in r.files =>
                    RootsIn(codex, good, f) \subseteq {r.ref[2]}
=============================================================================
