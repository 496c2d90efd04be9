--------------------------- MODULE TranscriptLines ---------------------------
(***************************************************************************)
(* From the messages of a session to the lines a reader scrolls through:   *)
(* the segments of a transcript under the toggles that hide and show parts *)
(* of it (internal/app/browser/transcript_segments.go), the buffer that    *)
(* gathers markdown, the rendered lines and the map that tells which       *)
(* message is on a line (elements/context_line_map.go).                    *)
(*                                                                         *)
(* A line is a sequence of words, with the message that wrote it: the line *)
(* map has to find that message from the starts of the segments alone.     *)
(* Left out: styles, and every block of a fixed size is as small as it can *)
(* be while it keeps its first line.                                       *)
(***************************************************************************)
EXTENDS ContextLedger

CONSTANT Words \* what texts are made of

Toggles == {"thinking", "tools", "results", "system", "nosidechain", "ledger"}
DefaultTranscriptOptions == {"ledger"}

(* A word takes ten columns; text is wrapped at that width. *)
WordWidth == 10

Blank == <<>>
Mark == "mark" \* what the viewer writes itself: rules, labels and badges
NoMessage == 0

ASSUME WordsAssumption == Mark \notin Words

Messages ==
    [role : {"user", "assistant", "system"}, text : Seq(Words), thinking : Seq(Words),
     hiddenThinking : BOOLEAN, calls : Nat, results : Nat, plans : Nat,
     sidechain : BOOLEAN, divider : BOOLEAN, visible : BOOLEAN, prompt : Nat]

-----------------------------------------------------------------------------
(* Segments and the markdown buffer.  text is what the buffer holds, a     *)
(* sequence of lines; has says whether some of it is visible and index     *)
(* which message wrote that first.                                         *)

NewRender ==
    [segments |-> <<>>, text |-> <<>>, index |-> NoMessage, has |-> FALSE, continued |-> FALSE,
     lastRole |-> "none", forceHeader |-> TRUE]

Segment(kind, role, text, m, continuation) ==
    [kind |-> kind, role |-> role, text |-> text, msg |-> m, continuation |-> continuation]

Flush(r) ==
    IF r.text = <<>> THEN r
    ELSE [r EXCEPT !.segments = Append(@, Segment("markdown", "none", r.text, r.index, r.continued)),
                   !.text = <<>>, !.has = FALSE, !.continued = FALSE]

\* Mutant of WriteString: text of two messages shares a segment.
WriteStringJoined(r, m, lines) ==
    LET visible == \E l \in DOMAIN lines : lines[l] # Blank
        has == r.text # <<>> /\ r.has
    IN  [r EXCEPT !.index = IF r.text = <<>> \/ (~has /\ visible) THEN m ELSE @,
                  !.has = has \/ visible,
                  !.text = @ \o [l \in DOMAIN lines |-> [msg |-> m, words |-> lines[l]]]]

(* Text of two messages never shares a segment; a bare newline left behind *)
(* by an earlier message does not count as text.                           *)
WriteString(r, m, lines) ==
    LET visible == \E l \in DOMAIN lines : lines[l] # Blank
        q == IF visible /\ r.has /\ r.index # m THEN [Flush(r) EXCEPT !.continued = TRUE] ELSE r
        has == q.text # <<>> /\ q.has
    IN  [q EXCEPT !.index = IF q.text = <<>> \/ (~has /\ visible) THEN m ELSE @,
                  !.has = has \/ visible,
                  !.text = @ \o [l \in DOMAIN lines |-> [msg |-> m, words |-> lines[l]]]]

WriteParagraph(r, m, text) == IF text = <<>> THEN r ELSE WriteString(r, m, <<text, Blank>>)

AppendSegments(r, m, kind, text, n) ==
    LET q == Flush(r)
    IN  [q EXCEPT !.segments = @ \o [i \in 1 .. n |-> Segment(kind, "none", text, m, FALSE)]]

AppendRoleHeader(r, m, role) ==
    LET q == Flush(r)
    IN  IF r.forceHeader \/ r.lastRole # role
        THEN [q EXCEPT !.segments = Append(@, Segment("header", role, <<>>, m, FALSE)),
                       !.lastRole = role, !.forceHeader = FALSE]
        ELSE r

BreakGroup(r) == [r EXCEPT !.forceHeader = TRUE]

AppendThinking(r, m, msg, options) ==
    IF "thinking" \notin options THEN r
    ELSE IF msg.thinking # <<>> THEN AppendSegments(r, m, "thinking", msg.thinking, 1)
    ELSE IF msg.hiddenThinking THEN AppendSegments(r, m, "unavailable", <<>>, 1) ELSE r

ShowsCalls(msg, options) == "tools" \in options /\ msg.calls > 0
ShowsResults(msg, options) == "results" \in options /\ msg.results > 0

AppendCalls(r, m, msg, options) ==
    IF ShowsCalls(msg, options)
    THEN WriteString(AppendSegments(r, m, "call", <<>>, msg.calls), m, <<Blank>>) ELSE r

AppendResults(r, m, msg, options) ==
    IF ShowsResults(msg, options)
    THEN WriteString(AppendSegments(r, m, "result", <<>>, msg.results), m, <<Blank>>) ELSE r

AppendDivider(r, m, msg) ==
    BreakGroup(WriteString(Flush(r), m,
        <<<<Mark>>, <<Mark>>>> \o <<msg.text>> \o <<<<Mark>>, Blank>>))

(* A message hidden from the transcript shows what its toggles ask for,    *)
(* without a header.                                                       *)
AppendHidden(r, m, msg, options) ==
    BreakGroup(AppendResults(AppendCalls(AppendThinking(r, m, msg, options), m, msg, options),
                             m, msg, options))

AppendSpoken(r, m, msg, options) ==
    IF msg.text # <<>> \/ ShowsResults(msg, options)
    THEN AppendResults(WriteParagraph(AppendRoleHeader(r, m, msg.role), m, msg.text), m, msg, options)
    ELSE r

AssistantHasContent(msg, options) ==
    \/ msg.text # <<>>
    \/ "thinking" \in options /\ (msg.thinking # <<>> \/ msg.hiddenThinking)
    \/ ShowsCalls(msg, options)

AppendAssistant(r, m, msg, options) ==
    IF AssistantHasContent(msg, options)
    THEN AppendCalls(WriteParagraph(AppendThinking(AppendRoleHeader(r, m, "assistant"),
                                                   m, msg, options), m, msg.text), m, msg, options)
    ELSE r

AppendTranscriptMessage(r, m, msg, options) ==
    IF "nosidechain" \in options /\ msg.sidechain THEN BreakGroup(r)
    ELSE IF msg.divider THEN AppendDivider(r, m, msg)
    ELSE IF ~msg.visible /\ "system" \notin options THEN AppendHidden(r, m, msg, options)
    ELSE IF msg.role = "assistant" THEN AppendAssistant(r, m, msg, options)
    ELSE AppendSpoken(r, m, msg, options)

RenderTranscriptSegmented(messages, options) ==
    LET after[m \in 0 .. Len(messages)] ==
            IF m = 0 THEN NewRender ELSE AppendTranscriptMessage(after[m - 1], m, messages[m], options)
    IN  Flush(after[Len(messages)]).segments

-----------------------------------------------------------------------------
(* Lines.                                                                  *)

Own(m, lines) == Eager([l \in DOMAIN lines |-> [msg |-> m, words |-> lines[l]]])

WrapText(words, width) ==
    LET n == Larger(width \div WordWidth, 1)
    IN  [l \in 1 .. ((Len(words) + n - 1) \div n) |->
            SubSeq(words, (l - 1) * n + 1, Smaller(l * n, Len(words)))]

WrapLine(line, width) ==
    IF line.words = Blank THEN <<line>> ELSE Own(line.msg, WrapText(line.words, width))

TrimBlank(lines) ==
    LET inked == {l \in DOMAIN lines : lines[l].words # Blank}
    IN  IF inked = {} THEN <<>> ELSE SubSeq(lines, Least(inked), Greatest(inked))

(* External: glamour puts a margin of two blank lines before a document;   *)
(* a continuation keeps one of them.                                       *)
RenderMarkdown(seg, width) ==
    Own(seg.msg, IF seg.continuation THEN <<Blank>> ELSE <<Blank, Blank>>)
        \o FlattenSeq([l \in DOMAIN TrimBlank(seg.text) |-> WrapLine(TrimBlank(seg.text)[l], width)])

RenderSegment(seg, width) ==
    CASE seg.kind = "markdown" -> RenderMarkdown(seg, width)
      [] seg.kind = "call" -> Own(seg.msg, <<<<Mark>>>>)
      [] seg.kind \in {"result", "header"} -> Own(seg.msg, <<<<Mark>>, Blank>>)
      [] seg.kind = "thinking" -> Own(seg.msg, <<<<Mark>>, seg.text, Blank>>)
      [] seg.kind = "unavailable" -> Own(seg.msg, <<<<Mark>>, <<Mark>>, Blank>>)

RenderItem(item, width) ==
    IF item.kind = "segment" THEN RenderSegment(item.seg, width)
    ELSE Own(item.seg.msg, <<<<Mark>>, Blank>>)

FlattenSegment(seg) == IF seg.kind = "markdown" THEN seg.text ELSE RenderSegment(seg, WordWidth)

(* The line a segment starts on, counted from 0, and its message; of       *)
(* segments that start on one line the last.                               *)
NewContextLineMap(starts) ==
    {starts[i] : i \in {i \in DOMAIN starts : \A j \in DOMAIN starts :
                            j > i => starts[j].line # starts[i].line}}

MessageAt(map, line) ==
    LET before == {a \in map : a.line <= line}
    IN  IF before = {} THEN NoMessage
        ELSE (CHOOSE a \in before : \A b \in before : b.line <= a.line).msg

(* The first line of the first message at or after m, -1 when there is none. *)
LineOf(map, m) ==
    LET at == {a.line : a \in {a \in map : a.msg >= m}}
    IN  IF at = {} THEN -1 ELSE Least(at)

\* Mutant of ScrollTarget: the offset may leave a message that became shorter.
ScrollTargetUnbounded(map, m, delta, total) ==
    LET line == LineOf(map, m)
    IN  IF line < 0 \/ MessageAt(map, line) # m THEN line ELSE line + delta

(* delta lines below the first line of m, inside the message.  total is    *)
(* the number of lines rendered.                                           *)
ScrollTarget(map, m, delta, total) ==
    LET line == LineOf(map, m)
        later == {a.line : a \in {a \in map : a.msg > m}}
        bottom == (IF later = {} THEN total ELSE Least(later)) - 1
    IN  IF line < 0 \/ MessageAt(map, line) # m THEN line
        ELSE Smaller(line + delta, Larger(bottom, line))

(* The lines the Notable Steps start on. *)
NotableLines(series, map) ==
    {LineOf(map, series.steps[k].msg) :
        k \in {k \in DOMAIN series.steps : IsNotable(series, k)}} \ {-1}

Starts(prefix, blocks, owners) ==
    [i \in DOMAIN blocks |->
        [line |-> prefix + Total([j \in 1 .. i - 1 |-> Len(blocks[j])]),
         msg |-> owners[i]]]

(* What a rendering leaves: the lines, the line map and the planned ledger. *)
Rendering(lines, starts, items) ==
    [lines |-> lines, map |-> NewContextLineMap(starts), items |-> items]

(* The plans above a transcript: the last one, or all of them. *)
PlanLines(messages, expanded) ==
    LET plans == Total([m \in DOMAIN messages |-> messages[m].plans])
    IN  Own(NoMessage, [i \in 1 .. (IF expanded THEN 2 * plans ELSE Smaller(plans, 1)) |-> <<Mark>>])

Decorated(segments, conv, messages) ==
    Eager([i \in DOMAIN segments |->
        [kind |-> segments[i].kind, role |-> segments[i].role, text |-> segments[i].text,
         msg |-> segments[i].msg, continuation |-> segments[i].continuation,
         side |-> ~OnThread(conv, messages[segments[i].msg])]])

LedgerItems(segments, conv, messages, options) ==
    IF "ledger" \in options
    THEN PlanContextLedger(segments, NewContextSeries(conv, messages), Len(messages))
    ELSE [i \in DOMAIN segments |-> Item("segment", segments[i])]

Framed(head, items, blocks) ==
    Rendering(head \o FlattenSeq(blocks) \o Own(NoMessage, <<Blank>>),
              Starts(Len(head), blocks, [i \in DOMAIN items |-> items[i].seg.msg]), items)

FramedItems(head, items, width) ==
    Framed(head, items, Eager([i \in DOMAIN items |-> RenderItem(items[i], width)]))

(* The framed view: header, plans, then the segments with their ledger.    *)
RenderContent(conv, messages, options, expanded, width) ==
    FramedItems(Own(NoMessage, <<<<Mark>>, Blank>>) \o PlanLines(messages, expanded),
                LedgerItems(Decorated(RenderTranscriptSegmented(messages, options), conv, messages),
                            conv, messages, options),
                width)

(* Selection mode: plain text, without the blank lines around it. *)
Trimmed(full, starts) ==
    LET inked == {l \in DOMAIN full : full[l].words # Blank}
        Shifted(s) == [s EXCEPT !.line = Larger(@ - (Least(inked) - 1), 0)]
    IN  IF inked = {} THEN Rendering(Own(NoMessage, <<Blank>>), <<>>, <<>>)
        ELSE Rendering(TrimBlank(full) \o Own(NoMessage, <<Blank>>),
                       [i \in DOMAIN starts |-> Shifted(starts[i])], <<>>)

Plain(plans, segments) ==
    LET blocks == Eager([i \in DOMAIN segments |-> FlattenSegment(segments[i])])
    IN  Trimmed(plans \o FlattenSeq(blocks),
                Starts(Len(plans), blocks, [i \in DOMAIN segments |-> segments[i].msg]))

RenderVisibleConversation(messages, options, expanded) ==
    Plain(IF expanded THEN PlanLines(messages, TRUE) ELSE <<>>,
          RenderTranscriptSegmented(messages, options))
=============================================================================
