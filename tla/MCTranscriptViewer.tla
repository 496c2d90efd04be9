------------------------- MODULE MCTranscriptViewer --------------------------
(* Four transcripts for the keys of the viewer, and every short one of a    *)
(* few kinds of messages, for what is marked in them.                       *)
EXTENDS TranscriptViewer

MCWords == {"w", "q"}

Says(role, text) ==
    [role |-> role, text |-> text, thinking |-> <<>>, hiddenThinking |-> FALSE, calls |-> 0,
     results |-> 0, plans |-> 0, sidechain |-> FALSE, divider |-> FALSE, visible |-> TRUE,
     prompt |-> 0]

Long == <<"w", "q", "w", "w", "w", "q", "w", "w">>
User == Says("user", <<"q">>)
Answer(prompt) == [Says("assistant", Long) EXCEPT !.prompt = prompt]
Works(prompt) == [Says("assistant", <<>>) EXCEPT !.prompt = prompt, !.calls = 2]
Thinks(prompt) == [Says("assistant", <<"w">>) EXCEPT !.prompt = prompt, !.thinking = <<"q", "w">>]
Results == [Says("user", <<>>) EXCEPT !.results = 1]
Plans(n) == [Says("assistant", <<"w">>) EXCEPT !.plans = n, !.hiddenThinking = TRUE]
Side == [Works(90) EXCEPT !.sidechain = TRUE, !.text = <<"w">>]
Divider == [Says("user", <<"w">>) EXCEPT !.divider = TRUE]
Hidden == [Says("assistant", <<"w">>) EXCEPT !.visible = FALSE, !.calls = 1, !.results = 1]

Main == [subagent |-> FALSE, claude |-> TRUE, window |-> 0, compacted |-> FALSE]
Agent == [subagent |-> TRUE, claude |-> FALSE, window |-> 0, compacted |-> FALSE]

Longs ==
    <<[conv |-> Main, messages |-> <<User, Works(40), Results, Answer(50), User, Works(20), Side, Answer(21)>>],
      [conv |-> Main, messages |-> <<User, Thinks(30), Plans(1), Hidden, Answer(31), Plans(1), User>>],
      [conv |-> Main, messages |-> <<User, Answer(100), Divider, Side, Results, Works(40), Thinks(44)>>],
      [conv |-> Agent, messages |-> <<User, Side, Results, Plans(1), Thinks(10)>>]>>

Shapes == <<User, Works(60), Answer(20), Results, Works(40), Thinks(46), Side, Divider, Hidden>>

(* Every transcript of an opening and three more messages, the last of them *)
(* one of the first four shapes.                                            *)
Short(n) ==
    [conv |-> Main,
     messages |-> <<User, Works(40), Shapes[(n % 9) + 1], Shapes[((n \div 9) % 9) + 1],
                    Shapes[((n \div 81) % 4) + 1]>>]

MCSessions == Longs \o Eager([n \in 1 .. 324 |-> Short(n)])

Wide == [fullscreen |-> TRUE, width |-> 76, height |-> 16]
Split == [fullscreen |-> FALSE, width |-> 38, height |-> 16]
Low == [fullscreen |-> TRUE, width |-> 76, height |-> 9]

Setting(session, keys, layouts) == [session |-> session, keys |-> keys, layouts |-> layouts]

MCSettings ==
    {Setting(1, {"tools", "nosidechain", "search", "scroll"}, <<Low>>),
     Setting(1, {"ledger", "dock", "notable", "results", "scroll"}, <<Split, Wide, Low>>),
     Setting(2, {"thinking", "plan", "actions", "system", "scroll"}, <<Low>>),
     Setting(2, {"thinking", "search", "selection", "scroll", "reopen"}, <<Split, Wide>>),
     Setting(3, {"results", "tools", "system", "nosidechain", "top", "scroll"}, <<Low>>),
     Setting(4, {"ledger", "tools", "dock", "actions"}, <<Wide, Low>>)}
    \cup {Setting(s, {"tools", "results"}, <<Split>>) : s \in 5 .. Len(MCSessions)}
=============================================================================
