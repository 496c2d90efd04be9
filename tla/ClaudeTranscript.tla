-------------------------- MODULE ClaudeTranscript --------------------------
(***************************************************************************)
(* How the sessions of a Claude conversation are read                      *)
(* (internal/source/claude).  A metadata scan reads every file first and   *)
(* fills the catalogue: counts, usage, first message.  The load parses the *)
(* files of the conversation in parallel, each into its own part of one    *)
(* buffer as long as the scan's counts say.  The two do not count alike:   *)
(* the scan counts assistant records that show nothing and leaves out meta *)
(* records, the parse does the opposite; so a part may be too long or too  *)
(* short.                                                                  *)
(*                                                                         *)
(* Claude writes one record per content block and repeats id and usage of  *)
(* the response on each.  Left out: subagent files, models, performance    *)
(* counters, and user records whose only text block is empty.              *)
(***************************************************************************)
EXTENDS SequencesExt, Integers

CONSTANTS
    Sessions,   \* sequence: the files of the conversation by first timestamp
    Records,    \* what a file may hold, a subset of AllRecords
    Calls,      \* IDs of tool calls
    Plans,      \* paths of plans
    MaxRecords, \* bound: records of a file
    MaxTotal    \* bound: records of all files

None == "none"
Prompt == "prompt"
System == "system"  \* an interrupt or the output of a command

Files == ToSet(Sessions)

UserRecords ==
    [kind : {"user"}, text : {None, Prompt, System}, meta : BOOLEAN, slug : BOOLEAN,
     sidechain : BOOLEAN, result : Calls \cup {None}, outcome : {"ok", "error", "rejected"},
     blank : BOOLEAN, plan : Plans \cup {None}]

AssistantRecords ==
    [kind : {"assistant"}, named : BOOLEAN, shown : BOOLEAN, sidechain : BOOLEAN,
     usage : BOOLEAN, call : Calls \cup {None}, id : Nat]

(* A line cut off before its end, of a record of the role. *)
TornRecords == [kind : {"torn"}, role : {"user", "assistant"}]

AllRecords == UserRecords \cup AssistantRecords \cup TornRecords

ASSUME RecordsAssumption ==
    /\ Records \subseteq AllRecords
    /\ Sessions \in Seq(Files) /\ IsInjective(Sessions) /\ Sessions # <<>>
    /\ None \notin Plans
    /\ MaxRecords \in Nat /\ MaxTotal \in Nat

VARIABLES
    file,   \* [Files -> Seq of records], id of an assistant record is that of its response
    scan,   \* [Files -> scanStats and metadata]
    phase,  \* "writing", "parsing" or "done"
    parse,  \* [Files -> a goroutine of the load]
    buffer, \* the preallocated messages
    bundle  \* what the load returns

vars == <<file, scan, phase, parse, buffer, bundle>>

(* lastID is the request tracker: one response per thread. *)
NoID == 0
NewTracker == [thread \in BOOLEAN |-> NoID]

NewScan ==
    [count |-> 0, main |-> 0, found |-> FALSE, slugged |-> FALSE, content |-> FALSE,
     usage |-> 0, lastID |-> NewTracker, calls |-> {}, errors |-> 0, rejects |-> 0]

(* own holds the messages once they no longer fit into the buffer. *)
NewParse ==
    [next |-> 1, calls |-> {}, lastID |-> NewTracker,
     len |-> 0, detached |-> FALSE, own |-> <<>>, status |-> "running"]

NoBundle == [outcome |-> "none", messages |-> <<>>, sessions |-> <<>>, usage |-> 0]

-----------------------------------------------------------------------------
(* Usage is repeated on every record of a response. *)
IsNew(tracker, r) == r.id = NoID \/ tracker[r.sidechain] # r.id

Track(tracker, r) ==
    IF r.id = NoID THEN tracker ELSE [tracker EXCEPT ![r.sidechain] = r.id]

-----------------------------------------------------------------------------
(* The metadata scan *)

\* Mutant: a result counts as content before its text is looked at.
UserContentOfBlank(s, r) ==
    IF s.found /\ s.slugged
        THEN r.text = Prompt \/ r.result # None
        ELSE ~r.meta /\ (r.text = Prompt \/ r.result # None)

(* Once the first message and the slug are known only markers are looked    *)
(* for: meta is not read any more, nor is the content of a result.          *)
UserContent(s, r) ==
    IF s.found /\ s.slugged
        THEN r.text = Prompt \/ r.result # None
        ELSE ~r.meta /\ (r.text = Prompt \/ (r.result # None /\ ~r.blank))

Counted(s, r) ==
    [s EXCEPT !.count = @ + 1, !.main = IF r.sidechain THEN @ ELSE @ + 1]

(* A rejection is told by its content. *)
Rejected(r) == r.outcome = "rejected" /\ ~r.blank

\* Mutant: a failure is counted only in records that have content.
ScanUserOfContent(s, r) ==
    LET content == UserContent(s, r)
        failed  == content /\ r.result \in s.calls /\ r.outcome # "ok"
        seen    == [s EXCEPT !.slugged = @ \/ r.slug,
                             !.found = @ \/ (r.text = Prompt /\ ~r.meta),
                             !.content = @ \/ content,
                             !.errors = IF failed /\ ~Rejected(r) THEN @ + 1 ELSE @,
                             !.rejects = IF failed /\ Rejected(r) THEN @ + 1 ELSE @]
    IN  IF content THEN Counted(seen, r) ELSE seen

ScanUser(s, r) ==
    LET content == UserContent(s, r)
        failed  == r.result \in s.calls /\ r.outcome # "ok"
        seen    == [s EXCEPT !.slugged = @ \/ r.slug,
                             !.found = @ \/ (r.text = Prompt /\ ~r.meta),
                             !.content = @ \/ content,
                             !.errors = IF failed /\ ~Rejected(r) THEN @ + 1 ELSE @,
                             !.rejects = IF failed /\ Rejected(r) THEN @ + 1 ELSE @]
    IN  IF content THEN Counted(seen, r) ELSE seen

Shows(r) == r.shown \/ r.call # None

ScanAssistant(s, r) ==
    LET new == r.usage /\ IsNew(s.lastID, r) IN
    [Counted(s, r) EXCEPT !.content = @ \/ Shows(r),
                          !.usage = IF new THEN @ + 1 ELSE @,
                          !.lastID = IF new THEN Track(@, r) ELSE @,
                          !.calls = @ \cup ({r.call} \ {None})]

\* Mutant: the record is counted again where parsing it fails.
ScanTornCountedAgain(s, r) ==
    IF r.role = "assistant" THEN [s EXCEPT !.count = @ + 2, !.main = @ + 2] ELSE s

(* An assistant record is counted before it is parsed. *)
ScanTorn(s, r) ==
    IF r.role = "assistant" THEN [s EXCEPT !.count = @ + 1, !.main = @ + 1] ELSE s

ScanRecord(s, r) ==
    CASE r.kind = "user" -> ScanUser(s, r)
      [] r.kind = "assistant" -> ScanAssistant(s, r)
      [] r.kind = "torn" -> ScanTorn(s, r)

-----------------------------------------------------------------------------
(* Parsing: a record gives a sequence of one message or none *)

NewMessage(role, r) ==
    [role |-> role, text |-> None, sidechain |-> r.sidechain, call |-> None, usage |-> NoID,
     paid |-> FALSE, result |-> None, linked |-> FALSE, bad |-> FALSE, plan |-> None]

(* What a preallocated slot holds. *)
ZeroMessage == NewMessage("", [sidechain |-> FALSE])

UserMessages(p, r) ==
    IF r.text = None /\ (r.result = None \/ r.blank) THEN <<>>
    ELSE <<[NewMessage(IF r.text = System THEN "system" ELSE "user", r) EXCEPT
              !.text = r.text,
              !.result = IF r.blank THEN None ELSE r.result,
              !.linked = ~r.blank /\ r.result \in p.calls,
              !.bad = ~r.blank /\ r.result # None /\ r.outcome # "ok",
              !.plan = r.plan]>>

(* The usage goes to the first record of a response that shows something. *)
AssistantMessages(p, r) ==
    IF ~Shows(r) THEN <<>>
    ELSE <<[NewMessage("assistant", r) EXCEPT !.call = r.call,
                                              !.usage = r.id,
                                              !.paid = r.usage /\ IsNew(p.lastID, r)]>>

MessagesOf(p, r) ==
    CASE r.kind = "user" -> UserMessages(p, r)
      [] r.kind = "assistant" -> AssistantMessages(p, r)
      [] r.kind = "torn" -> <<>>

\* Mutant: the response of an empty record is taken for attributed.
IndexedEmptyToo(p, r) ==
    IF r.kind # "assistant" THEN p
    ELSE [p EXCEPT !.calls = @ \cup ({r.call} \ {None}),
                   !.lastID = IF r.usage /\ IsNew(@, r) THEN Track(@, r) ELSE @]

Indexed(p, r) ==
    IF r.kind # "assistant" \/ ~Shows(r) THEN p
    ELSE [p EXCEPT !.calls = @ \cup ({r.call} \ {None}),
                   !.lastID = IF r.usage /\ IsNew(@, r) THEN Track(@, r) ELSE @]

(* A parse with the messages it gave, and what they are a record later. *)
NothingParsed == [parse |-> NewParse, messages |-> <<>>]

ParsedOneMore(before, r) ==
    [parse    |-> Indexed(before.parse, r),
     messages |-> before.messages \o MessagesOf(before.parse, r)]

(* What parsing the first n records of a file alone gives. *)
ParsedTo(records, n) ==
    LET read[k \in 0..n] ==
            IF k = 0 THEN NothingParsed ELSE ParsedOneMore(read[k - 1], records[k])
    IN  read[n]

(* What parsing all of it gives. *)
Alone(records) == ParsedTo(records, Len(records)).messages

Torn(records) == \E i \in 1..Len(records) : records[i].kind = "torn"

-----------------------------------------------------------------------------
(* The buffer *)

(* The sum of the first n numbers of a sequence. *)
SumTo(s, n) ==
    LET total[k \in 0..n] == IF k = 0 THEN 0 ELSE total[k - 1] + s[k] IN total[n]

Place(f) == CHOOSE i \in 1..Len(Sessions) : Sessions[i] = f

Counts == [i \in 1..Len(Sessions) |-> scan[Sessions[i]].count]
Total == SumTo(Counts, Len(Sessions))
Offset(f) == SumTo(Counts, Place(f) - 1)

(* The messages a goroutine has: a slice of the buffer, or its own. *)
Slice(f) ==
    IF parse[f].detached THEN parse[f].own
    ELSE SubSeq(buffer, Offset(f) + 1, Offset(f) + parse[f].len)

\* Mutant: the slice is not capped, append runs on into the next part.
AppendMessageUncapped(f, p, msg) ==
    IF ~p.detached /\ Offset(f) + p.len < Len(buffer)
        THEN /\ buffer' = [buffer EXCEPT ![Offset(f) + p.len + 1] = msg]
             /\ parse' = [parse EXCEPT ![f] = [p EXCEPT !.len = @ + 1]]
        ELSE /\ parse' = [parse EXCEPT ![f] =
                    [p EXCEPT !.detached = TRUE, !.own = Append(Slice(f), msg), !.len = @ + 1]]
             /\ UNCHANGED buffer

(* append writes in place as long as the part has room, and moves the whole *)
(* slice away from the buffer when it has not.                              *)
AppendMessage(f, p, msg) ==
    IF ~p.detached /\ p.len < scan[f].count
        THEN /\ buffer' = [buffer EXCEPT ![Offset(f) + p.len + 1] = msg]
             /\ parse' = [parse EXCEPT ![f] = [p EXCEPT !.len = @ + 1]]
        ELSE /\ parse' = [parse EXCEPT ![f] =
                    [p EXCEPT !.detached = TRUE, !.own = Append(Slice(f), msg), !.len = @ + 1]]
             /\ UNCHANGED buffer

\* Mutant: the first keeps it.
DeduplicatePlansFirst(messages) ==
    [i \in 1..Len(messages) |->
        IF \E j \in 1..(i - 1) : messages[j].plan = messages[i].plan
            THEN [messages[i] EXCEPT !.plan = None] ELSE messages[i]]

(* Of the messages with the same plan the last keeps it. *)
DeduplicatePlans(messages) ==
    [i \in 1..Len(messages) |->
        IF \E j \in (i + 1)..Len(messages) : messages[j].plan = messages[i].plan
            THEN [messages[i] EXCEPT !.plan = None] ELSE messages[i]]

Usage(messages) == Cardinality({i \in 1..Len(messages) : messages[i].paid})

Slices == [i \in 1..Len(Sessions) |-> Slice(Sessions[i])]

\* Mutant: only the total is compared with the buffer.
ExactInTotal ==
    SumTo([i \in 1..Len(Sessions) |-> parse[Sessions[i]].len], Len(Sessions)) = Total

Exact == \A f \in Files : parse[f].len = scan[f].count

(* The buffer itself is the conversation when every part is exactly full. *)
CollectProjectedConversation ==
    IF Exact THEN SubSeq(buffer, 1, Total) ELSE FlattenSeq(Slices)

-----------------------------------------------------------------------------
Init ==
    /\ file = [f \in Files |-> <<>>]
    /\ scan = [f \in Files |-> NewScan]
    /\ phase = "writing"
    /\ parse = [f \in Files |-> NewParse]
    /\ buffer = <<>>
    /\ bundle = NoBundle

(* The places of the assistant records of a thread. *)
Assistant(records, sidechain) ==
    {i \in 1..Len(records) : records[i].kind = "assistant" /\ records[i].sidechain = sidechain}

(* The response the last record of a thread belongs to, if there is one. *)
LastIDs(records, sidechain) ==
    LET thread == Assistant(records, sidechain) IN
    {records[i].id : i \in {j \in thread : \A k \in thread : k <= j}} \ {NoID}

(* The records of a response follow each other within their thread. *)
Identified(f, r) ==
    IF r.kind # "assistant" THEN {r}
    ELSE {[r EXCEPT !.id = id] :
             id \in IF r.named THEN {Len(file[f]) + 1} \cup LastIDs(file[f], r.sidechain)
                    ELSE {NoID}}

(* The provider writes a record; the scan reads it with the others before   *)
(* the load begins.  Nothing follows a torn line.                           *)
Write(f, r) ==
    /\ phase = "writing"
    /\ ~Torn(file[f])
    /\ Len(file[f]) < MaxRecords
    /\ SumTo([i \in 1..Len(Sessions) |-> Len(file[Sessions[i]])], Len(Sessions)) < MaxTotal
    /\ \E record \in Identified(f, r) :
        /\ file' = [file EXCEPT ![f] = Append(@, record)]
        /\ scan' = [scan EXCEPT ![f] = ScanRecord(@, record)]
    /\ UNCHANGED <<phase, parse, buffer, bundle>>

(* A group is loaded when one of its sessions has something to show. *)
BeginLoad ==
    /\ phase = "writing"
    /\ \E f \in Files : scan[f].content
    /\ phase' = "parsing"
    /\ buffer' = [i \in 1..Total |-> ZeroMessage]
    /\ UNCHANGED <<file, scan, parse, bundle>>

ParseRecord(f) ==
    /\ phase = "parsing" /\ parse[f].status = "running"
    /\ parse[f].next <= Len(file[f])
    /\ LET r == file[f][parse[f].next]
           p == [parse[f] EXCEPT !.next = @ + 1]
       IN  IF r.kind = "torn"
           THEN parse' = [parse EXCEPT ![f] = [p EXCEPT !.status = "failed"]] /\ UNCHANGED buffer
           ELSE IF MessagesOf(p, r) = <<>>
           THEN parse' = [parse EXCEPT ![f] = Indexed(p, r)] /\ UNCHANGED buffer
           ELSE AppendMessage(f, Indexed(p, r), Head(MessagesOf(p, r)))
    /\ UNCHANGED <<file, scan, phase, bundle>>

FinishParse(f) ==
    /\ phase = "parsing" /\ parse[f].status = "running"
    /\ parse[f].next > Len(file[f])
    /\ parse' = [parse EXCEPT ![f].status = "ok"]
    /\ UNCHANGED <<file, scan, phase, buffer, bundle>>

(* A session that does not parse makes the load start again, sequentially,  *)
(* and fail at that session: the conversation is malformed.                 *)
EndLoad ==
    /\ phase = "parsing"
    /\ \A f \in Files : parse[f].status # "running"
    /\ phase' = "done"
    /\ bundle' =
        IF \E f \in Files : parse[f].status = "failed"
        THEN [NoBundle EXCEPT !.outcome = "malformed"]
        ELSE [outcome  |-> "loaded",
              messages |-> DeduplicatePlans(CollectProjectedConversation),
              sessions |-> [i \in 1..Len(Sessions) |-> DeduplicatePlans(Slices[i])],
              usage    |-> SumTo([i \in 1..Len(Sessions) |-> Usage(Slices[i])], Len(Sessions))]
    /\ UNCHANGED <<file, scan, parse, buffer>>

Next ==
    \/ \E f \in Files, r \in Records : Write(f, r)
    \/ BeginLoad
    \/ \E f \in Files : ParseRecord(f) \/ FinishParse(f)
    \/ EndLoad

Spec == Init /\ [][Next]_vars

-----------------------------------------------------------------------------
(* Properties *)

(* Counters, cursors and the buffer stay in their types. *)
TypeOK ==
    /\ \A f \in Files :
        /\ scan[f].count \in 0..MaxRecords /\ scan[f].main \in 0..scan[f].count
        /\ scan[f].usage \in 0..MaxRecords /\ scan[f].calls \subseteq Calls
        /\ parse[f].next \in 1..(Len(file[f]) + 1)
        /\ parse[f].len \in 0..(parse[f].next - 1)
        /\ parse[f].status \in {"running", "ok", "failed"}
    /\ phase \in {"writing", "parsing", "done"}
    /\ Len(buffer) \in {0, Total}
    /\ bundle.outcome \in {"none", "loaded", "malformed"}

(* Goroutines never see each other: in whatever order they append, each has *)
(* exactly what its file gives when it is parsed alone.                     *)
SessionsApart ==
    \A f \in Files :
        parse[f].status # "failed" =>
            Slice(f) = ParsedTo(file[f], parse[f].next - 1).messages

(* What is loaded is the sessions one after the other, none lost and none   *)
(* twice, however wrong the scan's counts were; unless one is malformed.    *)
ConversationInOrder ==
    bundle.outcome = "loaded" =>
        LET alone == [i \in 1..Len(Sessions) |-> Alone(file[Sessions[i]])] IN
        /\ ~\E f \in Files : Torn(file[f])
        /\ [i \in 1..Len(bundle.messages) |-> [bundle.messages[i] EXCEPT !.plan = None]]
               = [i \in 1..Len(FlattenSeq(alone)) |-> [FlattenSeq(alone)[i] EXCEPT !.plan = None]]
        /\ \A i \in 1..Len(Sessions) : Len(bundle.sessions[i]) = Len(alone[i])

(* A plan that was approved again is shown once, at its last approval, in   *)
(* the conversation and in each session.                                    *)
PlansShownOnce ==
    bundle.outcome = "loaded" =>
        \A plan \in Plans :
            LET of(messages) == {i \in 1..Len(messages) : messages[i].plan = plan}
                loaded       == FlattenSeq(Slices)
            IN  /\ of(bundle.messages) =
                       {i \in of(loaded) : \A j \in of(loaded) : j <= i}
                /\ \A i \in 1..Len(Sessions) : Cardinality(of(bundle.sessions[i])) <= 1

(* The parallel parse of the files gives their sessions, whole and in order. *)
SessionsWhole == TypeOK /\ SessionsApart /\ ConversationInOrder

(* Where a usage stands, and where it is also shown. *)
Billed(records) ==
    {i \in 1..Len(records) : records[i].kind = "assistant" /\ records[i].usage}
BilledShown(records) == {i \in Billed(records) : Shows(records[i])}

(* The responses at the places; each record without an ID is one of its own. *)
Responses(records, places) ==
    {<<records[i].id, IF records[i].id = NoID THEN i ELSE 0>> : i \in places}

(* Neither the files nor the scan change once the load has begun: what      *)
(* relates the two passes is looked at while the files are written.         *)

(* A response is paid for once: the scan's total has every response with a  *)
(* usage, the transcript's those that show something, though main thread    *)
(* and sidechain alternate and a response may begin with an empty record.   *)
ResponsesPaidOnce ==
    /\ phase = "writing" => \A f \in Files :
        /\ scan[f].usage = Cardinality(Responses(file[f], Billed(file[f])))
        /\ Usage(Alone(file[f])) = Cardinality(Responses(file[f], BilledShown(file[f])))
    /\ bundle.outcome = "loaded" => bundle.usage = Usage(bundle.messages)

(* Neither a plan nor a response counts twice. *)
CountedOnce == PlansShownOnce /\ ResponsesPaidOnce

(* The catalogue lists only what the viewer can show: a session with        *)
(* content has a message, one with a first message has that prompt.         *)
ListedIsShown ==
    phase = "writing" => \A f \in Files :
        /\ scan[f].content => Alone(file[f]) # <<>>
        /\ scan[f].found => \E msg \in ToSet(Alone(file[f])) : msg.text = Prompt

(* The failed calls the statistics count are those the transcript links to  *)
(* their calls, and those whose result was empty and is not shown.          *)
FailuresAgree ==
    phase = "writing" => \A f \in Files :
        LET shown  == Alone(file[f])
            linked == Cardinality({i \in 1..Len(shown) : shown[i].linked /\ shown[i].bad})
            failed == scan[f].errors + scan[f].rejects
        IN  /\ failed >= linked
            /\ (\A r \in ToSet(file[f]) : r.kind = "user" => ~r.blank) => failed = linked

(* What the scan lists and counts is what the parse shows.                  *)
ScanAgreesWithParse == ListedIsShown /\ FailuresAgree
=============================================================================
