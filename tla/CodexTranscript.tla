--------------------------- MODULE CodexTranscript ---------------------------
(***************************************************************************)
(* How the messages of a Codex rollout are read, and how the rollouts of   *)
(* subagents are merged into the transcript of their main thread           *)
(* (internal/source/codex).                                                *)
(*                                                                         *)
(* Codex writes one thing several times: a message as an event and as a    *)
(* response item, a token count again whenever it redraws.  Two passes     *)
(* make sense of it record by record: the scan, which fills the catalogue, *)
(* and the load, which builds the messages.  A step reads one record in    *)
(* both.  Its time is the number of records written before it.             *)
(*                                                                         *)
(* Left out: performance counters, phases and the text of tool calls.      *)
(***************************************************************************)
EXTENDS SequencesExt, Integers

CONSTANTS
    Main,       \* the rollout of the main thread
    Children,   \* the rollouts of its subagents
    Texts,      \* texts of messages, thoughts, plans and call IDs
    Records,    \* what a rollout may hold, a subset of AllRecords
    ChildRecords,
    MaxRecords  \* bound: records written

None == "none"
NoTotal == -1

Roles == {"user", "assistant", "hidden", "divider"}

AllRecords ==
    [kind : {"message"}, role : Roles, text : Texts]
    \cup [kind : {"reasoning"}, text : Texts \cup {None}, encrypted : BOOLEAN]
    \cup [kind : {"call", "plan"}, text : Texts]
    \cup [kind : {"result"}, text : Texts, bad : BOOLEAN]
    \cup [kind : {"tokens"}, total : Nat \cup {NoTotal}, last : BOOLEAN]

Rollouts == {Main} \cup Children

ASSUME RecordsAssumption ==
    /\ Records \subseteq AllRecords /\ ChildRecords \subseteq Records
    /\ None \notin Texts /\ Main \notin Children /\ MaxRecords \in Nat

VARIABLES
    scan,     \* [Rollouts -> scanState]
    load,     \* [Rollouts -> loadState]
    started,  \* [Rollouts -> time of the session's metadata], 0 before it exists
    clock,    \* records written
    said      \* what the main rollout's records held, for the properties

vars == <<scan, load, started, clock, said>>

NewScan ==
    [count |-> 0, first |-> None, lastRole |-> None, lastText |-> None,
     calls |-> {}, errors |-> 0, usage |-> 0]

NothingPending == [thoughts |-> <<>>, hidden |-> FALSE, calls |-> <<>>, results |-> <<>>,
                   plans |-> <<>>, time |-> 0]

(* Indexes count from 1: windowFirst 0 is the code's -1. *)
NewLoad ==
    [messages |-> <<>>, called |-> {}, pending |-> NothingPending,
     windowStart |-> 1, windowFirst |-> 0, total |-> 0]

NothingSaid == [calls |-> <<>>, results |-> <<>>, plans |-> {}, thoughts |-> {}]

Init ==
    /\ scan = [f \in Rollouts |-> NewScan]
    /\ load = [f \in Rollouts |-> NewLoad]
    /\ started = [f \in Rollouts |-> IF f = Main THEN 1 ELSE 0]
    /\ clock = 1
    /\ said = NothingSaid

-----------------------------------------------------------------------------
(* The scan *)
\* Mutant: every echo is counted.
ScanMessageEach(s, r) ==
    IF r.role \in {"hidden", "divider"} THEN s
    ELSE [s EXCEPT !.count = @ + 1,
                   !.first = IF r.role = "user" /\ @ = None THEN r.text ELSE @]

(* Echoes are told by the last counted message only: tool calls and hidden  *)
(* messages in between do not part two equal texts.                         *)
ScanMessage(s, r) ==
    IF r.role \in {"hidden", "divider"} \/ (s.lastRole = r.role /\ s.lastText = r.text) THEN s
    ELSE [s EXCEPT !.count = @ + 1,
                   !.lastRole = r.role,
                   !.lastText = r.text,
                   !.first = IF r.role = "user" /\ @ = None THEN r.text ELSE @]

ScanResult(s, r) ==
    IF r.bad /\ r.text \in s.calls THEN [s EXCEPT !.errors = @ + 1] ELSE s

(* A token count without a total resets the session's usage to nothing. *)
ScanTokens(s, r) == [s EXCEPT !.usage = IF r.total = NoTotal THEN 0 ELSE r.total]

ScanRecord(s, r) ==
    CASE r.kind = "message" -> ScanMessage(s, r)
      [] r.kind = "call" -> [s EXCEPT !.calls = @ \cup {r.text}]
      [] r.kind = "result" -> ScanResult(s, r)
      [] r.kind = "tokens" -> ScanTokens(s, r)
      [] OTHER -> s

-----------------------------------------------------------------------------
(* The load *)

NewMessage(role, text, time) ==
    [role |-> role, text |-> text, time |-> time, thoughts |-> <<>>, hidden |-> FALSE,
     calls |-> <<>>, results |-> <<>>, plans |-> <<>>, usage |-> 0, sidechain |-> FALSE]

(* A user message, a hidden one or a divider: an adjacent echo is dropped. *)
AppendPlain(messages, role, text, time) ==
    IF messages # <<>> /\ Last(messages).role = role /\ Last(messages).text = text
        THEN messages
        ELSE Append(messages, NewMessage(role, text, time))

(* Plans that are there already are left out, of the added ones too. *)
AppendUniquePlans(plans, added) ==
    LET upTo[n \in 0..Len(added)] ==
            IF n = 0 THEN plans
            ELSE IF Contains(upTo[n - 1], added[n]) THEN upTo[n - 1]
            ELSE Append(upTo[n - 1], added[n])
    IN  IF plans = <<>> THEN added ELSE upTo[Len(added)]

JoinUniqueText(existing, added) ==
    IF added = existing THEN existing ELSE existing \o added

MaxTime(a, b) == IF b > a THEN b ELSE a

AssistantMessage(p, text, time) ==
    [NewMessage("assistant", text, MaxTime(p.time, time)) EXCEPT
        !.thoughts = p.thoughts,
        !.hidden   = p.hidden /\ p.thoughts = <<>>,
        !.calls    = p.calls,
        !.results  = p.results,
        !.plans    = p.plans]
\* Mutant: a message that brings only results is taken for empty.
IsEmptyMessageWithResults(msg) ==
    msg.text = None /\ ~msg.hidden /\ msg.thoughts = <<>> /\ msg.calls = <<>> /\ msg.plans = <<>>

IsEmptyMessage(msg) ==
    /\ msg.text = None /\ ~msg.hidden
    /\ msg.thoughts = <<>> /\ msg.calls = <<>> /\ msg.results = <<>> /\ msg.plans = <<>>
\* Mutant: an echo that brings thoughts is taken for a new message.
IsEchoBare(messages, msg) ==
    /\ messages # <<>> /\ msg.text # None /\ msg.thoughts = <<>>
    /\ Last(messages).role = "assistant" /\ Last(messages).text = msg.text

IsEcho(messages, msg) ==
    /\ messages # <<>>
    /\ Last(messages).role = "assistant"
    /\ msg.text # None
    /\ Last(messages).text = msg.text

MergeAdjacent(old, msg) ==
    LET thoughts == JoinUniqueText(old.thoughts, msg.thoughts) IN
    [old EXCEPT !.thoughts = thoughts,
                !.hidden   = thoughts = <<>> /\ (@ \/ msg.hidden),
                !.calls    = @ \o msg.calls,
                !.results  = @ \o msg.results,
                !.plans    = AppendUniquePlans(@, msg.plans),
                !.time     = MaxTime(@, msg.time)]

AppendAssistant(messages, msg) ==
    IF IsEmptyMessage(msg) THEN messages
    ELSE IF IsEcho(messages, msg)
        THEN [messages EXCEPT ![Len(messages)] = MergeAdjacent(messages[Len(messages)], msg)]
    ELSE Append(messages, msg)

\* Mutant: a message made before the window may become its first.
FlushAssistantIntoOld(l, text, time) ==
    LET msg      == AssistantMessage(l.pending, text, time)
        messages == AppendAssistant(l.messages, msg)
    IN  [l EXCEPT !.messages = messages,
                  !.pending = NothingPending,
                  !.windowFirst =
                      IF @ = 0 /\ ~IsEmptyMessage(msg) THEN Len(messages) ELSE @]

(* The first message made in a request window is the one its usage goes to. *)
FlushAssistant(l, text, time) ==
    LET msg      == AssistantMessage(l.pending, text, time)
        messages == AppendAssistant(l.messages, msg)
    IN  [l EXCEPT !.messages = messages,
                  !.pending = NothingPending,
                  !.windowFirst =
                      IF @ = 0 /\ ~IsEmptyMessage(msg) /\ Len(messages) >= l.windowStart
                          THEN Len(messages) ELSE @]

Flush(l) == FlushAssistant(l, None, 0)
\* Mutant: the window opens one message too late.
OpenRequestWindowLate(l) ==
    [l EXCEPT !.windowStart = Len(l.messages) + 2, !.windowFirst = 0]

OpenRequestWindow(l) == [l EXCEPT !.windowStart = Len(l.messages) + 1, !.windowFirst = 0]

LoadPlain(l, r, time) ==
    LET flushed == Flush(l) IN
    [flushed EXCEPT !.messages = AppendPlain(@, r.role, r.text, time)]

LoadMessage(l, r, time) ==
    CASE r.role = "assistant" -> FlushAssistant(l, r.text, time)
      [] r.role = "user" -> OpenRequestWindow(LoadPlain(l, r, time))
      [] OTHER -> LoadPlain(l, r, time)

LoadReasoning(l, r, time) ==
    LET thoughts == l.pending.thoughts
        echo     == thoughts # <<>> /\ Last(thoughts) = r.text
        pending  == [l.pending EXCEPT !.time = MaxTime(@, time)]
    IN  [l EXCEPT !.pending =
            IF r.text = None THEN [pending EXCEPT !.hidden = @ \/ r.encrypted]
            ELSE IF echo THEN pending
            ELSE [pending EXCEPT !.thoughts = Append(@, r.text)]]

LoadCall(l, r, time) ==
    [l EXCEPT !.called = @ \cup {r.text},
              !.pending.calls = Append(@, r.text),
              !.pending.time = MaxTime(@, time)]

(* A result whose call was never seen goes by its call ID. *)
LoadResult(l, r, time) ==
    [l EXCEPT !.pending.results =
                  Append(@, [call |-> r.text, known |-> r.text \in l.called, bad |-> r.bad]),
              !.pending.time = MaxTime(@, time)]

(* A plan after an assistant message belongs to it, unless something waits  *)
(* for the next one; hidden thinking that waits does not count.             *)
LoadPlan(l, r, time) ==
    LET p == l.pending IN
    IF /\ l.messages # <<>> /\ Last(l.messages).role = "assistant"
       /\ p.thoughts = <<>> /\ p.calls = <<>> /\ p.results = <<>> /\ p.plans = <<>>
    THEN [l EXCEPT !.messages[Len(l.messages)].plans = AppendUniquePlans(@, <<r.text>>)]
    ELSE [l EXCEPT !.pending.plans = AppendUniquePlans(@, <<r.text>>),
                   !.pending.time = MaxTime(@, time)]

(* A token count is repeated while the total has not grown. *)
IsNewRequest(l, r) == r.last /\ r.total # l.total

HasPending(l) ==
    \/ l.pending.thoughts # <<>> \/ l.pending.hidden \/ l.pending.calls # <<>>
    \/ l.pending.results # <<>> \/ l.pending.plans # <<>>
\* Mutant: the window stays open after its usage was reported.
AttachRequestUsageAgain(l, usage) ==
    LET flushed == IF HasPending(l) THEN Flush(l) ELSE l IN
    IF flushed.windowFirst = 0 THEN flushed
    ELSE [flushed EXCEPT !.messages[flushed.windowFirst].usage = usage]

AttachRequestUsage(l, usage) ==
    LET flushed == IF HasPending(l) THEN Flush(l) ELSE l IN
    OpenRequestWindow(
        IF flushed.windowFirst = 0 THEN flushed
        ELSE [flushed EXCEPT !.messages[flushed.windowFirst].usage = usage])

(* The usage is told by the time of the count that reported it. *)
LoadTokens(l, r, time) ==
    IF ~IsNewRequest(l, r) THEN l
    ELSE AttachRequestUsage(
             [l EXCEPT !.total = IF r.total = NoTotal THEN @ ELSE r.total], time)

LoadRecord(l, r, time) ==
    CASE r.kind = "message" -> LoadMessage(l, r, time)
      [] r.kind = "reasoning" -> LoadReasoning(l, r, time)
      [] r.kind = "call" -> LoadCall(l, r, time)
      [] r.kind = "result" -> LoadResult(l, r, time)
      [] r.kind = "plan" -> LoadPlan(l, r, time)
      [] OTHER -> LoadTokens(l, r, time)

(* What the load returns: the last messages are flushed when the file ends. *)
Transcript(f) == Flush(load[f]).messages

-----------------------------------------------------------------------------
(* Merging subagents into their main thread *)

(* Subagents in the order they were started; empty ones are left out. *)
Linked ==
    SetToSortSeq({c \in Children : started[c] # 0 /\ Transcript(c) # <<>>},
                 LAMBDA a, b : started[a] < started[b])

Dividers(messages) ==
    SetToSortSeq({i \in 1..Len(messages) : messages[i].role = "divider"}, LAMBDA i, j : i < j)

LinkedTitle(messages) ==
    LET prompts == {i \in 1..Len(messages) : messages[i].role = "user"}
    IN  IF prompts = {} THEN None
        ELSE messages[CHOOSE i \in prompts : \A j \in prompts : i <= j].text

FindInsertPosition(messages, anchor) ==
    LET before == {i \in 1..Len(messages) : messages[i].time <= anchor}
    IN  IF before = {} THEN 1 ELSE 1 + (CHOOSE i \in before : \A j \in before : j <= i)

InsertSliceAt(messages, position, slice) ==
    SubSeq(messages, 1, position - 1) \o slice \o SubSeq(messages, position, Len(messages))

\* Mutant: the messages are flagged from the divider on.
MergeLinkedFlagsDivider(base, linked) ==
    LET merge(messages, t) ==
            LET position == FindInsertPosition(messages, t.anchor)
                divider  == NewMessage("divider", t.title, t.anchor)
                spread   == InsertSliceAt(messages, position, <<divider>> \o t.messages)
            IN  [i \in 1..Len(spread) |->
                    IF i \in position..(position + Len(t.messages) - 1)
                        THEN [spread[i] EXCEPT !.sidechain = TRUE] ELSE spread[i]]
    IN  FoldLeft(merge, base, linked)

(* Each subagent goes after the latest message that is no later than its    *)
(* start, behind a divider; its messages are flagged after the insertion.   *)
MergeLinkedTranscripts(base, linked) ==
    LET merge(messages, t) ==
            LET position == FindInsertPosition(messages, t.anchor)
                divider  == NewMessage("divider", t.title, t.anchor)
                spread   == InsertSliceAt(messages, position, <<divider>> \o t.messages)
            IN  [i \in 1..Len(spread) |->
                    IF i \in (position + 1)..(position + Len(t.messages))
                        THEN [spread[i] EXCEPT !.sidechain = TRUE] ELSE spread[i]]
    IN  FoldLeft(merge, base, linked)

(* The i-th subagent takes the place of the i-th divider and its text. *)
MergeSubagentTranscripts ==
    LET parent   == Transcript(Main)
        children == Linked
        dividers == Dividers(parent)
        consumed == {dividers[i] : i \in 1..Min({Len(children), Len(dividers)})}
        title(i) == IF i <= Len(dividers) THEN parent[dividers[i]].text
                    ELSE LinkedTitle(Transcript(children[i]))
        linked   == [i \in 1..Len(children) |->
                        [title |-> title(i), anchor |-> started[children[i]],
                         messages |-> Transcript(children[i])]]
        base     == FoldLeft(LAMBDA kept, i : IF i \in consumed THEN kept
                                              ELSE Append(kept, parent[i]),
                             <<>>, [i \in 1..Len(parent) |-> i])
    IN  MergeLinkedTranscripts(base, linked)

-----------------------------------------------------------------------------
(* Steps: the providers' files, read as they were written *)

Heard(r) ==
    CASE r.kind = "call" -> [said EXCEPT !.calls = Append(@, r.text)]
      [] r.kind = "result" -> [said EXCEPT !.results = Append(@, <<r.text, r.bad>>)]
      [] r.kind = "plan" -> [said EXCEPT !.plans = @ \cup {r.text}]
      [] r.kind = "reasoning" -> [said EXCEPT !.thoughts = @ \cup ({r.text} \ {None})]
      [] OTHER -> said

StartChild(c) ==
    /\ started[c] = 0
    /\ clock <= MaxRecords
    /\ started' = [started EXCEPT ![c] = clock + 1]
    /\ clock' = clock + 1
    /\ UNCHANGED <<scan, load, said>>

ReadRecord(f, r) ==
    /\ started[f] # 0
    /\ clock <= MaxRecords
    /\ r.kind = "tokens" /\ r.total # NoTotal => r.total >= load[f].total
    /\ clock' = clock + 1
    /\ scan' = [scan EXCEPT ![f] = ScanRecord(scan[f], r)]
    /\ load' = [load EXCEPT ![f] = LoadRecord(load[f], r, clock + 1)]
    /\ said' = IF f = Main THEN Heard(r) ELSE said
    /\ UNCHANGED started

Next ==
    \/ \E c \in Children : StartChild(c)
    \/ \E r \in Records : ReadRecord(Main, r)
    \/ \E c \in Children, r \in ChildRecords : ReadRecord(c, r)

Spec == Init /\ [][Next]_vars

-----------------------------------------------------------------------------
(* Properties *)

(* Messages, pending content and window indexes are what their types say.   *)
TypeOK ==
    /\ \A f \in Rollouts :
        /\ \A i \in 1..Len(load[f].messages) :
            /\ load[f].messages[i].role \in Roles
            /\ load[f].messages[i].usage \in 0..clock
            /\ load[f].messages[i].time \in 1..clock
        /\ load[f].pending.time \in 0..clock
        /\ load[f].windowStart \in 1..(Len(load[f].messages) + 1)
        /\ load[f].windowFirst \in 0..Len(load[f].messages)
    /\ clock \in 1..(MaxRecords + 1)

(* The window of the model request under way: its first message, if it has  *)
(* one, was made inside the window, is an assistant's and has no usage yet. *)
WindowOpen ==
    \A f \in Rollouts :
        LET l == load[f] IN
        /\ l.windowStart \in 1..(Len(l.messages) + 1)
        /\ l.windowFirst # 0 =>
            /\ l.windowFirst \in l.windowStart..Len(l.messages)
            /\ l.messages[l.windowFirst].role = "assistant"
            /\ l.messages[l.windowFirst].usage = 0

(* The usage of a request is attached once and to its own answer: a message *)
(* never loses or changes its usage, and no usage goes to an answer given   *)
(* before the last question.                                                *)
UsageAttachedOnce ==
    [][\A f \in Rollouts : \A i \in 1..Len(load[f].messages) :
        LET old == load[f].messages[i]
            new == load'[f].messages[i]
        IN  new.usage # old.usage =>
                /\ old.usage = 0
                /\ \A j \in i..Len(load'[f].messages) : load'[f].messages[j].role # "user"]_vars

CallsOf(messages) == FlattenSeq([i \in 1..Len(messages) |-> messages[i].calls])
ResultsOf(messages) == FlattenSeq([i \in 1..Len(messages) |-> messages[i].results])
PlansOf(messages) == UNION {ToSet(messages[i].plans) : i \in 1..Len(messages)}
ThoughtsOf(messages) == UNION {ToSet(messages[i].thoughts) : i \in 1..Len(messages)}

(* What the records said of each result. *)
Outcomes(results) == [k \in 1..Len(results) |-> <<results[k].call, results[k].bad>>]

(* Whatever is flushed, merged or dropped as an echo: the calls and results *)
(* of a rollout are in its transcript once each and in order, every plan    *)
(* and thought is there, and no thinking is called hidden that is shown.    *)
NothingLost ==
    LET shown == Transcript(Main) IN
    /\ CallsOf(shown) = said.calls
    /\ Outcomes(ResultsOf(shown)) = said.results
    /\ PlansOf(shown) = said.plans
    /\ ThoughtsOf(shown) = said.thoughts
    /\ \A i \in 1..Len(shown) : shown[i].hidden => shown[i].thoughts = <<>>

(* What Codex writes twice is shown once. *)
NoEchoShown ==
    \A f \in Rollouts :
        LET shown == Transcript(f) IN
        \A i \in 1..(Len(shown) - 1) :
            shown[i].role = shown[i + 1].role /\ shown[i].text = shown[i + 1].text =>
                shown[i].text = None

Visible(messages) ==
    {i \in 1..Len(messages) : messages[i].role \in {"user", "assistant"} /\ messages[i].text # None}

Failed(results) == {k \in 1..Len(results) : results[k].known /\ results[k].bad}

(* The catalogue, filled by the scan, and the transcript, built by the      *)
(* load, tell of the same session: the list never counts a message the      *)
(* transcript does not show, opens with the same prompt, and counts the     *)
(* same failed calls.                                                       *)
ScanAgreesWithLoad ==
    \A f \in Rollouts :
        LET shown == Transcript(f) IN
        /\ scan[f].count <= Cardinality(Visible(shown))
        /\ scan[f].first = LinkedTitle(shown)
        /\ scan[f].errors = Cardinality(Failed(ResultsOf(shown)))

(* Everything said is shown, once, in messages of the right request, and    *)
(* the catalogue tells of the same.                                         *)
TranscriptFaithful ==
    TypeOK /\ WindowOpen /\ NothingLost /\ NoEchoShown /\ ScanAgreesWithLoad

Times(messages) == [i \in 1..Len(messages) |-> messages[i].time]

(* Merging loses nothing, shows nothing twice, and keeps the order of every *)
(* thread; exactly the messages of subagents are flagged as a sidechain.    *)
ThreadsMerged ==
    LET shown   == Transcript(Main)
        merged  == MergeSubagentTranscripts
        dropped == Min({Len(Linked), Len(Dividers(shown))})
        own(messages) ==
            Times(SelectSeq(messages, LAMBDA msg : ~msg.sidechain /\ msg.role # "divider"))
        linked(c) ==
            Times(SelectSeq(merged, LAMBDA msg :
                      msg.sidechain /\ msg.time \in ToSet(Times(Transcript(c)))))
    IN  /\ own(merged) = own(shown)
        /\ \A c \in Children : linked(c) = Times(Transcript(c))
        /\ Len(merged) = Len(shown) - dropped
               + FoldLeft(LAMBDA n, c : n + 1 + Len(Transcript(c)), 0, Linked)


(* Refuted: the messages of a subagent follow its own divider.  A subagent  *)
(* started while another one ran is put between the other's messages.       *)
SubagentsContiguous ==
    LET merged == MergeSubagentTranscripts IN
    \A c \in Children : \A i, j \in 1..Len(merged) :
        LET of == ToSet(Times(Transcript(c))) IN
        i < j /\ merged[i].time \in of /\ merged[j].time \in of =>
            \A k \in i..j : merged[k].time \in of

(* Refuted: the usage of the session is the last total Codex reported.  A   *)
(* token count that carries rate limits only sets it back to nothing.       *)
TotalUsageKept == \A f \in Rollouts : scan[f].usage >= load[f].total
=============================================================================
