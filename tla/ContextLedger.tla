---------------------------- MODULE ContextLedger ----------------------------
(***************************************************************************)
(* What a transcript says of the context window: the Context Series of a   *)
(* conversation (internal/conversation/context_series.go), the Turn Ledger *)
(* that decorates the segments of the transcript with it, and the columns  *)
(* of the Context Dock (internal/app/elements).                            *)
(*                                                                         *)
(* Indexes count from 1, and 0 is the code's -1 or "not found".  Tokens    *)
(* are counted in thousands.                                               *)
(***************************************************************************)
EXTENDS SequencesExt, Integers

ContextResetMinDrop == 10
MinGrowthFloor == 5
LargeGrowthFloor == 20
ClaudeContextTiers == {200, 1000}

Larger(a, b) == IF a > b THEN a ELSE b
Smaller(a, b) == IF a < b THEN a ELSE b
(* The same sequence; TLC evaluates each element of this one once. *)
Eager(seq) == SubSeq(seq, 1, Len(seq))
(* And the same function. *)
Tabled(f) == CHOOSE g \in {f} : g = f

Total(seq) ==
    LET last == Len(seq)
        sum[n \in 0 .. last] == IF n = 0 THEN 0 ELSE sum[n - 1] + seq[n]
    IN  sum[last]
(* What stands at some positions of a sequence, in its order. *)
Chosen(seq, positions) ==
    LET chosen[n \in 0 .. Len(seq)] ==
            IF n = 0 THEN <<>>
            ELSE IF n \in positions THEN Append(chosen[n - 1], seq[n]) ELSE chosen[n - 1]
    IN  chosen[Len(seq)]
Least(S) == CHOOSE x \in S : \A y \in S : x <= y
Greatest(S) == CHOOSE x \in S : \A y \in S : x >= y

-----------------------------------------------------------------------------
(* The Context Series.                                                     *)

(* An ordinary conversation hides the sidechain messages of its subagents; *)
(* the conversation of a subagent is its own main thread.                  *)
OnThread(conv, msg) == ~msg.sidechain \/ conv.subagent

StartsStep(conv, msg) ==
    /\ msg.role = "assistant" /\ msg.visible /\ ~msg.divider
    /\ OnThread(conv, msg)
    /\ msg.prompt > 0

IsContextReset(previous, current) ==
    2 * current < previous /\ previous - current >= ContextResetMinDrop

ResolveContextWindow(conv, peak) ==
    LET holding == {tier \in ClaudeContextTiers : peak <= tier}
    IN  IF conv.window > 0 THEN [tokens |-> conv.window, known |-> TRUE]
        ELSE IF peak = 0 THEN [tokens |-> 0, known |-> FALSE]
        ELSE IF conv.claude /\ holding # {} THEN [tokens |-> Least(holding), known |-> TRUE]
        ELSE [tokens |-> peak, known |-> FALSE]

NewContextSeries(conv, messages) ==
    LET at == Chosen([i \in DOMAIN messages |-> i],
                     {i \in DOMAIN messages : StartsStep(conv, messages[i])})
        n == Len(at)
        Prompt(k) == messages[at[k]].prompt
        Delta(k) == IF k = 1 THEN Prompt(1) ELSE Prompt(k) - Prompt(k - 1)
        Reset(k) == k > 1 /\ IsContextReset(Prompt(k - 1), Prompt(k))
        Step(k) == [msg |-> at[k],
                    next |-> IF k < n THEN at[k + 1] ELSE Len(messages) + 1,
                    prompt |-> Prompt(k),
                    delta |-> Delta(k),
                    growth |-> IF k = n \/ Reset(k + 1) THEN 0 ELSE Delta(k + 1),
                    reset |-> Reset(k)]
        prompts == {Prompt(k) : k \in 1 .. n}
        peak == IF n = 0 THEN 0 ELSE Least({k \in 1 .. n : Prompt(k) = Greatest(prompts)})
    IN  [steps |-> Eager([k \in 1 .. n |-> Step(k)]),
         peak |-> peak,
         window |-> ResolveContextWindow(conv, IF n = 0 THEN 0 ELSE Prompt(peak))]

(* The last step at or before a message, 0 before the first one. *)
StepAt(series, m) == Cardinality({k \in DOMAIN series.steps : series.steps[k].msg <= m})

MinGrowth(series) == Larger(MinGrowthFloor, series.window.tokens \div 100)
LargeGrowth(series) == Larger(LargeGrowthFloor, series.window.tokens \div 20)

IsNotable(series, k) ==
    /\ k \in DOMAIN series.steps /\ k > 1
    /\ series.steps[k].reset \/ series.steps[k].delta >= MinGrowth(series)

-----------------------------------------------------------------------------
(* The Turn Ledger.  A segment of the transcript has the kind of thing it  *)
(* shows, the message that produced it, and side for a message that is not *)
(* on the thread of the series.  An item is a segment with its decoration, *)
(* or a divider or header that the ledger inserts.                         *)

Item(kind, seg) ==
    [kind |-> kind, seg |-> seg, role |-> seg.role, annotation |-> <<>>, growth |-> <<>>]

IsHeader(item) ==
    item.kind = "header" \/ (item.kind = "segment" /\ item.seg.kind = "header")

\* Mutant of InsertResetDividers: a reset is marked after its own message.
InsertResetDividersLate(segments, series) ==
    LET Due(i) ==
            SelectSeq(series.steps,
                      LAMBDA s : /\ s.reset /\ s.msg < segments[i].msg
                                 /\ \A j \in 1 .. i - 1 : segments[j].msg <= s.msg)
        Divider(s, i) ==
            [Item("divider", segments[i]) EXCEPT !.annotation = <<s.prompt - s.delta, s.prompt>>]
    IN  FlattenSeq([i \in DOMAIN segments |->
            [d \in DOMAIN Due(i) |-> Divider(Due(i)[d], i)] \o <<Item("segment", segments[i])>>])

(* A divider goes before the first segment at or after each Context Reset; *)
(* where it interrupts a group, the header is repeated.                    *)
InsertResetDividers(segments, series) ==
    LET Due(i) ==
            Chosen(series.steps,
                   {k \in DOMAIN series.steps :
                        /\ series.steps[k].reset /\ series.steps[k].msg <= segments[i].msg
                        /\ \A j \in 1 .. i - 1 : segments[j].msg < series.steps[k].msg})
        Headers(i) == {j \in 1 .. i : segments[j].kind = "header"}
        Role(i) == IF Headers(i) = {} THEN "assistant" ELSE segments[Greatest(Headers(i))].role
        Divider(s, i) ==
            [Item("divider", segments[i]) EXCEPT !.annotation = <<s.prompt - s.delta, s.prompt>>]
        Inserted(i) == [d \in DOMAIN Due(i) |-> Divider(Due(i)[d], i)]
        Repeated(i) == IF Due(i) # <<>> /\ segments[i].kind # "header"
                       THEN <<[Item("header", segments[i]) EXCEPT !.role = Role(i)]>> ELSE <<>>
    IN  FlattenSeq([i \in DOMAIN segments |->
            Inserted(i) \o Repeated(i) \o <<Item("segment", segments[i])>>])

\* Mutant of AnnotateLedgerHeaders: a group ends with the message it starts with.
AnnotateLedgerHeadersShort(items, series, messageCount) ==
    LET At(h) == StepAt(series, items[h].seg.msg)
        Annotated(h) == IsHeader(items[h]) /\ items[h].role = "assistant" /\ ~items[h].seg.side
    IN  Eager([h \in DOMAIN items |->
            IF Annotated(h) /\ At(h) > 0
            THEN [items[h] EXCEPT !.annotation =
                    <<series.steps[At(h)].prompt, series.steps[At(h)].prompt>>]
            ELSE items[h]])

(* An Assistant header tells the prompts of the first and the last step of *)
(* its group, which ends at the next header.                               *)
AnnotateLedgerHeaders(items, series, messageCount) ==
    LET Later(h) == {j \in DOMAIN items : j > h /\ IsHeader(items[j])}
        GroupEnd(h) == IF Later(h) = {} THEN messageCount + 1 ELSE items[Least(Later(h))].seg.msg
        FirstStep(h) == Larger(StepAt(series, items[h].seg.msg), 1)
        LastStep(h) == StepAt(series, Larger(GroupEnd(h) - 1, items[h].seg.msg))
        Annotated(h) == /\ IsHeader(items[h]) /\ items[h].role = "assistant"
                        /\ ~items[h].seg.side
                        /\ LastStep(h) > 0
    IN  Eager([h \in DOMAIN items |->
            IF Annotated(h)
            THEN [items[h] EXCEPT !.annotation =
                    <<series.steps[FirstStep(h)].prompt, series.steps[LastStep(h)].prompt>>]
            ELSE items[h]])

(* The items a step's Growth Tag may sit on. *)
GrowthTargets(items, series, k, kind) ==
    {i \in DOMAIN items : /\ items[i].kind = "segment" /\ items[i].seg.kind = kind
                          /\ ~items[i].seg.side
                          /\ StepAt(series, items[i].seg.msg) = k}

\* Mutant of TagLedgerGrowth: every call of a step that grew is tagged.
TagLedgerGrowthEach(items, series) ==
    Eager([i \in DOMAIN items |->
        LET k == IF items[i].kind = "segment" /\ items[i].seg.kind = "call" /\ ~items[i].seg.side
                 THEN StepAt(series, items[i].seg.msg) ELSE 0
        IN  IF k > 0 /\ series.steps[k].growth >= MinGrowth(series)
            THEN [items[i] EXCEPT !.growth = <<series.steps[k].growth, FALSE>>] ELSE items[i]])

(* The last tool call of a step that grew, or its last result when no call *)
(* is shown, carries the Growth Tag.                                       *)
TagLedgerGrowth(items, series) ==
    LET Tagged(k) ==
            LET calls == GrowthTargets(items, series, k, "call")
                results == GrowthTargets(items, series, k, "result")
            IN  IF calls # {} THEN {Greatest(calls)}
                ELSE IF results # {} THEN {Greatest(results)} ELSE {}
        Steps(i) == {k \in DOMAIN series.steps :
                        series.steps[k].growth >= MinGrowth(series) /\ i \in Tagged(k)}
        Growth(k) == series.steps[k].growth
    IN  Eager([i \in DOMAIN items |->
            IF Steps(i) = {} THEN items[i]
            ELSE LET k == Greatest(Steps(i))
                 IN  [items[i] EXCEPT !.growth = <<Growth(k), Growth(k) >= LargeGrowth(series)>>]])

PlanContextLedger(segments, series, messageCount) ==
    IF series.steps = <<>> THEN [i \in DOMAIN segments |-> Item("segment", segments[i])]
    ELSE TagLedgerGrowth(
            AnnotateLedgerHeaders(InsertResetDividers(segments, series), series, messageCount),
            series)

-----------------------------------------------------------------------------
(* The Context Dock: steps laid out over the columns of a chart, counted   *)
(* from 0 like the steps here.                                             *)

NewContextDockColumns(prompts, chartWidth) ==
    LET n == Len(prompts)
        perStep == chartWidth \div n
        FirstOf(c) == IF n <= chartWidth THEN c \div perStep ELSE (c * n) \div chartWidth
        LastOf(c) == IF n <= chartWidth THEN FirstOf(c)
                   ELSE Larger(((c + 1) * n) \div chartWidth - 1, FirstOf(c))
        Cell(c) == [first |-> FirstOf(c), last |-> LastOf(c),
                    tokens |-> Greatest({prompts[k + 1] : k \in FirstOf(c) .. LastOf(c)})]
    IN  IF n = 0 \/ chartWidth <= 0 THEN <<>>
        ELSE [c \in 1 .. (IF n <= chartWidth THEN perStep * n ELSE chartWidth) |-> Cell(c - 1)]

\* Mutant of Span: the first guess is taken.
SpanGuessed(cells, n, chartWidth, step) ==
    IF n <= chartWidth THEN <<step * (chartWidth \div n), chartWidth \div n>>
    ELSE <<Smaller((step * chartWidth) \div n, Len(cells) - 1), 1>>

(* The first column of a step and how many columns are its own.  The code  *)
(* corrects its first guess column by column.                              *)
Span(cells, n, chartWidth, step) ==
    LET perStep == chartWidth \div n
        guess == Smaller((step * chartWidth) \div n, Len(cells) - 1)
        left == Greatest({0} \cup {c \in 0 .. guess : cells[c + 1].first <= step})
        right == Least({Len(cells) - 1} \cup {c \in left .. Len(cells) - 1 : cells[c + 1].last >= step})
    IN  IF n <= chartWidth THEN <<step * perStep, perStep>> ELSE <<right, 1>>
=============================================================================
