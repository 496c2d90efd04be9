---------------------------- MODULE ImportAnalysis ----------------------------
(***************************************************************************)
(* What the import screen says before a run (Pipeline.Analyze and the      *)
(* backends of internal/source/claude and internal/source/codex): the      *)
(* files of each source are listed, compared with their copies, and        *)
(* counted by conversation as new, to update or up to date.                *)
(*                                                                         *)
(* A session of Claude Code is its file, the lines its slug is read from,  *)
(* and whether it is a subagent's; a rollout of Codex is a conversation of *)
(* its own.  found tells how each file stands: absent, new (no copy yet),  *)
(* stale (its copy is of another size or older) or current.  unreadable    *)
(* are files that cannot be read, broken are projects that cannot be       *)
(* listed.  Reports of progress are messages of AppRouter.                 *)
(***************************************************************************)
EXTENDS ImportPipeline, FiniteSets, SequencesExt

CONSTANTS
    Paths,      \* of files, and
    Slugs,      \* of sessions
    Layouts,    \* records: sequences of projects, and of rollouts
    SourceTree  \* a layout of Files

NoSlug == "no slug"
FileStates == {"absent", "new", "stale", "current"}

Session ==
    [file : Paths, subagent : BOOLEAN,
     lines : Seq([user : BOOLEAN, slug : Slugs \cup {NoSlug}])]

AllFiles(layout) ==
    (UNION {{session.file : session \in ToSet(project)} : project \in ToSet(layout.projects)})
    \cup ToSet(layout.rollouts)

(* A file is in one place. *)
IsLayout(layout) ==
    LET File(p, i) == layout.projects[p][i].file
    IN /\ layout \in [projects : Seq(Seq(Session)), rollouts : Seq(Paths)]
       /\ \A p, q \in DOMAIN layout.projects :
            \A i \in DOMAIN layout.projects[p], j \in DOMAIN layout.projects[q] :
                File(p, i) = File(q, j) => p = q /\ i = j
       /\ \A i, j \in DOMAIN layout.rollouts : layout.rollouts[i] = layout.rollouts[j] => i = j
       /\ \A p \in DOMAIN layout.projects : \A i \in DOMAIN layout.projects[p] :
            File(p, i) \notin ToSet(layout.rollouts)

(* A slug has no separator, which a path has. *)
ASSUME SlugsAssumption == Paths \cap (Slugs \cup {NoSlug}) = {}
ASSUME LayoutsAssumption ==
    (\A layout \in Layouts \cup {SourceTree} : IsLayout(layout)) /\ AllFiles(SourceTree) = Files

Kept(sequence, which) ==
    LET kept[n \in 0..Len(sequence)] ==
            IF n = 0 THEN <<>>
            ELSE IF sequence[n] \in which THEN Append(kept[n - 1], sequence[n])
            ELSE kept[n - 1]
    IN kept[Len(sequence)]

-----------------------------------------------------------------------------
(* Claude Code *)

(* The first that a line of the user has. *)
SlugOf(lines) ==
    LET named == {i \in DOMAIN lines : lines[i].user /\ lines[i].slug # NoSlug}
    IN IF named = {} THEN NoSlug ELSE lines[Min(named)].slug

\* Mutant: a subagent counts with the conversation it belongs to.
GroupOfAny(session) ==
    IF SlugOf(session.lines) = NoSlug THEN session.file ELSE SlugOf(session.lines)

GroupOf(session) ==
    IF session.subagent \/ SlugOf(session.lines) = NoSlug THEN session.file ELSE SlugOf(session.lines)

Discovered(project, found) == Kept(project, {x \in ToSet(project) : found[x.file] # "absent"})

(* The slug of a subagent is not read. *)
Classified(project, found, unreadable) ==
    Kept(Discovered(project, found),
         {x \in ToSet(project) : x.subagent \/ x.file \notin unreadable})

Waiting(files, found) == Kept(files, {f \in ToSet(files) : found[f] \in {"new", "stale"}})
FilesOf(sessions) == [i \in DOMAIN sessions |-> sessions[i].file]

Unseen == [hasUpToDate |-> FALSE, hasStale |-> FALSE, allNew |-> FALSE]

\* Mutant: an up-to-date file leaves "new" standing.
RecordForgetful(state, standing) ==
    IF standing = "current" THEN [state EXCEPT !.hasUpToDate = TRUE]
    ELSE [state EXCEPT
              !.hasStale = TRUE,
              !.allNew = state.allNew \/ (standing = "new" /\ ~state.hasUpToDate /\ ~state.hasStale)]

RecordClassifiedConversation(state, standing) ==
    IF standing = "current" THEN [state EXCEPT !.hasUpToDate = TRUE, !.allNew = FALSE]
    ELSE [state EXCEPT
              !.hasStale = TRUE,
              !.allNew = /\ ~state.hasUpToDate
                         /\ state.allNew \/ (standing = "new" /\ ~state.hasStale)]

(* The files of one, in the order they are listed. *)
ConversationState(files, found) ==
    LET after[n \in 0..Len(files)] ==
            IF n = 0 THEN Unseen
            ELSE RecordClassifiedConversation(after[n - 1], found[files[n]])
    IN after[Len(files)]

Nothing == [inspected |-> 0, new |-> 0, toUpdate |-> 0, upToDate |-> 0, queued |-> <<>>]

AnalyzeProject(project, found, unreadable) ==
    LET sessions == Classified(project, found, unreadable)
        Members(group) == FilesOf(Kept(sessions, {x \in ToSet(sessions) : GroupOf(x) = group}))
        seen == [group \in {GroupOf(session) : session \in ToSet(sessions)} |->
                    ConversationState(Members(group), found)]
        new == {group \in DOMAIN seen : seen[group].allNew}
        stale == {group \in DOMAIN seen : seen[group].hasStale}
    IN [inspected |-> Len(Discovered(project, found)),
        new |-> Cardinality(new),
        toUpdate |-> Cardinality(stale \ new),
        upToDate |-> Cardinality(DOMAIN seen \ (new \cup stale)),
        queued |-> Waiting(FilesOf(sessions), found)]

Plus(a, b) ==
    [inspected |-> a.inspected + b.inspected, new |-> a.new + b.new,
     toUpdate |-> a.toUpdate + b.toUpdate, upToDate |-> a.upToDate + b.upToDate,
     queued |-> a.queued \o b.queued]

(* A project that cannot be listed is left out. *)
AnalyzeClaude(projects, found, unreadable, broken) ==
    LET after[p \in 0..Len(projects)] ==
            IF p = 0 THEN Nothing
            ELSE IF p \in broken THEN after[p - 1]
            ELSE Plus(after[p - 1], AnalyzeProject(projects[p], found, unreadable))
    IN after[Len(projects)]

-----------------------------------------------------------------------------
(* Codex *)

ListRolloutPaths(rollouts, found) == Kept(rollouts, {f \in ToSet(rollouts) : found[f] # "absent"})

RolloutsFail(rollouts, found, unreadable) ==
    ToSet(ListRolloutPaths(rollouts, found)) \cap unreadable # {}

(* One rollout that cannot be read, and nothing is said of any. *)
AnalyzeCodex(rollouts, found, unreadable) ==
    LET paths == ListRolloutPaths(rollouts, found)
        Count(standing) == Len(Kept(paths, {f \in ToSet(paths) : found[f] = standing}))
    IN IF RolloutsFail(rollouts, found, unreadable) THEN Nothing
       ELSE [inspected |-> Len(paths), new |-> Count("new"), toUpdate |-> Count("stale"),
             upToDate |-> Count("current"), queued |-> Waiting(paths, found)]

-----------------------------------------------------------------------------
(* Both *)

PipelineAnalyze(layout, found, unreadable, broken) ==
    [analysis |-> Plus(AnalyzeClaude(layout.projects, found, unreadable, broken),
                       AnalyzeCodex(layout.rollouts, found, unreadable)),
     err |-> broken # {} \/ RolloutsFail(layout.rollouts, found, unreadable)]

(* ImportAnalysis.NeedsSync: not after an error. *)
OffersRun(result, storeNeedsBuild) ==
    ~result.err /\ (result.analysis.queued # <<>> \/ storeNeedsBuild)

ClaudeCandidates(projects, found, unreadable) ==
    LET before[p \in 0..Len(projects)] ==
            IF p = 0 THEN <<>>
            ELSE before[p - 1] \o Waiting(FilesOf(Classified(projects[p], found, unreadable)), found)
    IN before[Len(projects)]

CodexCandidates(rollouts, found) == Waiting(ListRolloutPaths(rollouts, found), found)

(* What Pipeline.Run copies; an error ends it. *)
SyncCandidates(layout, found, unreadable, broken) ==
    IF broken # {} \/ RolloutsFail(layout.rollouts, found, unreadable)
    THEN [err |-> TRUE, files |-> <<>>]
    ELSE [err |-> FALSE,
          files |-> ClaudeCandidates(layout.projects, found, unreadable)
                    \o CodexCandidates(layout.rollouts, found)]

Found ==
    [f \in Files |->
        CASE ~Exists(f) -> "absent"
          [] Exists(f) /\ ~NeedsSync(f) -> "current"
          [] NeedsSync(f) /\ raw[f].mtime = 0 -> "new"
          [] NeedsSync(f) /\ raw[f].mtime # 0 -> "stale"]

-----------------------------------------------------------------------------
(* Properties *)

(* Main sessions of one project that bear the same slug are one conversation. *)
Together(s, t) ==
    s = t \/ (~s.subagent /\ ~t.subagent /\ SlugOf(s.lines) # NoSlug /\ SlugOf(s.lines) = SlugOf(t.lines))

(* Conversations, as sets of files. *)
ProjectConversations(sessions) ==
    {{t.file : t \in {x \in sessions : Together(s, x)}} : s \in sessions}

Conversations(layout, found, unreadable, broken) ==
    (UNION {ProjectConversations(ToSet(Classified(layout.projects[p], found, unreadable))) :
                p \in DOMAIN layout.projects \ broken})
    \cup (IF RolloutsFail(layout.rollouts, found, unreadable) THEN {}
          ELSE {{f} : f \in ToSet(ListRolloutPaths(layout.rollouts, found))})

(* Every conversation is counted once: up to date if none of its files waits *)
(* for a run, new only if none has an up-to-date copy and always if none has *)
(* a copy; and what is queued are its files that wait, each once             *)
(* (recordClassifiedConversation, classifyConversations, analyzePath).       *)
CountsRight(layout, found, unreadable, broken) ==
    LET a == PipelineAnalyze(layout, found, unreadable, broken).analysis
        groups == Conversations(layout, found, unreadable, broken)
        All(group, standings) == \A f \in group : found[f] \in standings
    IN /\ a.new + a.toUpdate + a.upToDate = Cardinality(groups)
       /\ a.upToDate = Cardinality({g \in groups : All(g, {"current"})})
       /\ a.new >= Cardinality({g \in groups : All(g, {"new"})})
       /\ a.new <= Cardinality({g \in groups : All(g, {"new", "stale"}) /\ ~All(g, {"stale"})})
       /\ ToSet(a.queued) = {f \in UNION groups : found[f] \in {"new", "stale"}}
       /\ Cardinality(ToSet(a.queued)) = Len(a.queued)

(* The screen fails when a run would, and otherwise offers what a run would  *)
(* copy, neither more nor less, whatever cannot be read.                     *)
SaysWhatRunDoes(layout, found, unreadable, broken) ==
    LET result == PipelineAnalyze(layout, found, unreadable, broken)
        candidates == SyncCandidates(layout, found, unreadable, broken)
    IN /\ result.err = candidates.err
       /\ ~result.err => ToSet(result.analysis.queued) = ToSet(candidates.files)

EveryAnalysisRight ==
    \A layout \in Layouts :
        \A found \in [AllFiles(layout) -> FileStates],
           unreadable \in SUBSET AllFiles(layout), broken \in SUBSET DOMAIN layout.projects :
            /\ CountsRight(layout, found, unreadable, broken)
            /\ SaysWhatRunDoes(layout, found, unreadable, broken)

(* Analyze and Collect of ImportPipeline, where every file can be read.      *)
AgreesWithPipeline ==
    pc \in {"idle", "current", "done", "failed"} =>
        LET result == PipelineAnalyze(SourceTree, Found, {}, {})
        IN /\ OffersRun(result, ~built) <=> ((\E f \in Files : NeedsSync(f)) \/ ~built)
           /\ ToSet(result.analysis.queued) = {f \in Files : NeedsSync(f)}

(* The import screen tells the truth about the run it offers.                *)
AnalysisTrue == EveryAnalysisRight /\ AgreesWithPipeline
=============================================================================
