------------------------- MODULE PerformanceSequence -------------------------
(***************************************************************************)
(* What the Performance tab reads from the order of a session's actions    *)
(* (internal/stats/performance_messages_collect.go): how much came before  *)
(* the first change, which changes were blind, which actions repeated, how *)
(* often the user had to follow up and if it ended with a passing test.    *)
(*                                                                         *)
(* A message tells who wrote it, whether it has text, its tokens, its      *)
(* visible reasoning in characters and if some was hidden, and its calls   *)
(* and results.  An action has a kind, "" for none, and targets; a target  *)
(* tells if it is the path of a file, and its value.                       *)
(***************************************************************************)
EXTENDS Integers, FiniteSets, Sequences, SequencesExt

CONSTANT ActionLogs  \* message sequences

Mutations == {"mutate", "rewrite"}
Verifications == {"test", "build"}

(* A search covers the changes among the next three actions. *)
SearchReach == 3

-----------------------------------------------------------------------------
NewSequenceCollector ==
    [followups |-> 0, verified |-> FALSE, assistantTurns |-> 0, visible |-> 0, hidden |-> 0,
     actions |-> 0, loops |-> 0, mutations |-> 0, rewrites |-> 0, hunks |-> 0,
     targeted |-> 0, blind |-> 0, distinct |-> 0,
     actionsBefore |-> 0, tokensBefore |-> 0, turnsBefore |-> 0,
     \* not part of the summary
     read |-> {}, lastSearch |-> -1000, lastPattern |-> <<>>, anchored |-> FALSE,
     failedAfter |-> FALSE, turns |-> 0, tokens |-> 0]

Mutated(c) == c.mutations > 0

ConsumeMessageMeta(c, m) ==
    LET prompts == m.from = "user" /\ m.text
        answers == m.from = "assistant"
        One(condition) == IF condition THEN 1 ELSE 0
    IN [c EXCEPT !.turns = @ + One(prompts),
                 !.followups = @ + One(prompts /\ c.anchored /\ ~c.verified),
                 !.assistantTurns = @ + One(answers),
                 !.visible = @ + IF answers THEN m.thinking ELSE 0,
                 !.hidden = @ + One(answers /\ m.hidden /\ m.thinking = 0),
                 !.tokens = @ + IF Mutated(c) THEN 0 ELSE m.tokens]

ActionPattern(call) ==
    IF call.targets = <<>> \/ call.targets[1].value = "" THEN <<call.kind>>
    ELSE <<call.kind, call.targets[1].value>>

(* The paths of the files an action is about. *)
Files(call) ==
    LET files == SelectSeq(call.targets, LAMBDA t : t.file /\ t.value # "")
    IN [i \in DOMAIN files |-> files[i].value]

\* Mutant: a read covers only the changes right after it.
ClassifyMutationForgetful(c, call) ==
    LET unseen == SelectSeq(Files(call), LAMBDA f : f \notin c.read)
    IN [c EXCEPT !.targeted = @ + Len(Files(call)),
                 !.blind = @ + IF c.actions - c.lastSearch > SearchReach THEN Len(unseen) ELSE 0,
                 !.distinct = @ + Cardinality(ToSet(Files(call))),
                 !.read = {}]

(* A target is changed blindly when it was not read before and nothing was  *)
(* searched just now.                                                       *)
ClassifyMutationTargets(c, call) ==
    LET unseen == SelectSeq(Files(call), LAMBDA f : f \notin c.read)
    IN [c EXCEPT !.targeted = @ + Len(Files(call)),
                 !.blind = @ + IF c.actions - c.lastSearch > SearchReach THEN Len(unseen) ELSE 0,
                 !.distinct = @ + Cardinality(ToSet(Files(call)))]

ConsumeMutation(c, call) ==
    LET first == ~Mutated(c)
        counted == [c EXCEPT !.mutations = @ + 1,
                             !.rewrites = IF call.kind = "rewrite" THEN @ + 1 ELSE @,
                             !.anchored = @ \/ first,
                             !.actionsBefore = IF first THEN c.actions - 1 ELSE @,
                             !.tokensBefore = IF first THEN c.tokens ELSE @,
                             !.turnsBefore = IF first THEN c.turns ELSE @]
    IN ClassifyMutationTargets(counted, call)

ConsumeToolCall(c, call) ==
    LET pattern == ActionPattern(call)
        counted == [c EXCEPT !.actions = @ + 1,
                             !.loops = IF pattern = c.lastPattern THEN @ + 1 ELSE @,
                             !.lastPattern = pattern]
    IN CASE call.kind = "" -> c
         [] call.kind = "read" -> [counted EXCEPT !.read = @ \cup ToSet(Files(call))]
         [] call.kind = "search" -> [counted EXCEPT !.lastSearch = counted.actions]
         [] call.kind \in Mutations -> ConsumeMutation(counted, call)
         [] OTHER -> counted

\* Mutant: a test that passed before any change ends the follow-ups.
ConsumeToolResultAnytime(c, result) ==
    LET patched == [c EXCEPT !.hunks = @ + result.hunks]
        passed == ~result.error /\ result.kind \in Verifications
        anchors == result.error /\ (Mutated(c) \/ result.kind \in Mutations)
    IN IF result.kind = "" THEN patched
       ELSE [patched EXCEPT !.anchored = (@ \/ anchors) /\ ~passed,
                            !.failedAfter = @ \/ (Mutated(c) /\ result.error),
                            !.verified = @ \/ passed]

ConsumeToolResult(c, result) ==
    LET patched == [c EXCEPT !.hunks = @ + result.hunks]
        passed == Mutated(c) /\ ~result.error /\ result.kind \in Verifications
        anchors == result.error /\ (Mutated(c) \/ result.kind \in Mutations)
    IN IF result.kind = "" THEN patched
       ELSE [patched EXCEPT !.anchored = (@ \/ anchors) /\ ~passed,
                            !.failedAfter = @ \/ (Mutated(c) /\ result.error),
                            !.verified = @ \/ passed]

ConsumeMessage(c, m) ==
    FoldLeft(ConsumeToolResult, FoldLeft(ConsumeToolCall, ConsumeMessageMeta(c, m), m.calls), m.results)

Summary(c) ==
    c @@
    [mutated |-> Mutated(c),
     resolved |-> /\ Mutated(c) /\ c.followups = 0 /\ c.loops = 0
                  /\ c.mutations <= 2 /\ c.blind = 0 /\ ~c.failedAfter]

CollectPerformanceSequenceSession(log) ==
    Summary(FoldLeft(ConsumeMessage, NewSequenceCollector, log))

-----------------------------------------------------------------------------
(* Properties *)

(* The session as one sequence of events, each in its message. *)
Event(i, type, item) == [message |-> i, type |-> type, item |-> item]

Events(log) ==
    LET Of(i) == <<Event(i, "message", log[i])>>
                 \o [n \in DOMAIN log[i].calls |-> Event(i, "call", log[i].calls[n])]
                 \o [n \in DOMAIN log[i].results |-> Event(i, "result", log[i].results[n])]
    IN FlattenSeq([i \in DOMAIN log |-> Of(i)])

SequenceRightIn(log, events, summary) ==
    LET Acts(kinds) == {e \in DOMAIN events : events[e].type = "call" /\ events[e].item.kind \in kinds}
        actions == {e \in DOMAIN events : events[e].type = "call" /\ events[e].item.kind # ""}
        changes == Acts(Mutations)
        Outcomes(error, kinds) ==
            {e \in DOMAIN events : /\ events[e].type = "result" /\ events[e].item.error = error
                                   /\ events[e].item.kind \in kinds}
        errors == {e \in DOMAIN events : /\ events[e].type = "result" /\ events[e].item.error
                                           /\ events[e].item.kind # ""}
        prompts == {e \in DOMAIN events : /\ events[e].type = "message"
                                          /\ events[e].item.from = "user" /\ events[e].item.text}
        Since(e, S) == \E x \in S : x < e
        verified == {e \in Outcomes(FALSE, Verifications) : Since(e, changes)}
        trouble == changes \cup Outcomes(TRUE, Mutations)
        Between(d, e) == Cardinality({x \in actions : d < x /\ x < e})
        Seen(file, e) ==
            \/ \E d \in Acts({"read"}) : d < e /\ file \in ToSet(Files(events[d].item))
            \/ \E d \in Acts({"search"}) : d < e /\ Between(d, e) < SearchReach
        Blind(e) == SelectSeq(Files(events[e].item), LAMBDA file : ~Seen(file, e))
        Repeats(e) ==
            \E d \in actions : /\ d < e /\ Between(d, e) = 0
                               /\ ActionPattern(events[d].item) = ActionPattern(events[e].item)
        loops == {e \in actions : Repeats(e)}
        followups == {e \in prompts : Since(e, trouble) /\ ~Since(e, verified)}
        blind == MapThenSumSet(LAMBDA e : Len(Blind(e)), changes)
    IN /\ summary.mutated = (changes # {})
       /\ summary.verified = (verified # {})
       /\ summary.followups = Cardinality(followups)
       /\ summary.actions = Cardinality(actions)
       /\ summary.loops = Cardinality(loops)
       /\ summary.blind = blind
       /\ changes # {} =>
              LET first == Min(changes) IN
              /\ summary.actionsBefore = Cardinality({e \in actions : e < first})
              /\ summary.turnsBefore = Cardinality({e \in prompts : e < first})
              /\ summary.tokensBefore
                     = MapThenSumSet(LAMBDA i : log[i].tokens, 1..events[first].message)
       /\ summary.resolved
              = /\ changes # {} /\ Cardinality(changes) <= 2
                /\ followups = {} /\ loops = {} /\ blind = 0
                /\ \A e \in errors : ~Since(e, changes)

(* A session was solved at the first attempt if it changed something in at  *)
(* most two attempts, none of them blind, repeated nothing, and nothing     *)
(* failed and no prompt came after the first change; a prompt is a follow-  *)
(* up from the first change, or failed change, to the first test that       *)
(* passes after a change; what came before the first change is told apart   *)
(* at that change (performance_messages_collect.go).                        *)
SequenceRight ==
    \A log \in ActionLogs :
        SequenceRightIn(log, Events(log), CollectPerformanceSequenceSession(log))
=============================================================================
