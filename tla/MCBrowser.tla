----------------------------- MODULE MCBrowser -----------------------------
(* Chunks of five characters that overlap by two.  The letters of a text to *)
(* cut are its positions, so that no stretch occurs twice.  The word is     *)
(* said in every conversation but the newest, which the filter keeps.       *)
EXTENDS BrowserWithSearch

MCSearchTexts ==
    UNION {{[i \in 1..n |-> IF shape[i] = 1 THEN i ELSE shape[i]] :
                shape \in [1..n -> {1, Space, Newline}]} : n \in 0..7}
    \cup {[i \in 1..n |-> IF i = blank THEN Space ELSE i + first] :
               n \in {8, 11, 14, 15}, blank \in {0, 1, 5, 6, 8}, first \in {0, 50, 90}}
    \cup {<<1, Return, 2>>, <<1, 2, 3, 4, 5, 6, Return, Newline, 8>>, <<Space, Return, 3>>}

Message(text, calls, plans) == [visible |-> TRUE, text |-> text, calls |-> calls, plans |-> plans]
Hidden(text) == [Message(text, <<>>, <<>>) EXCEPT !.visible = FALSE]

(* Seven is far from three in the second, and near it in the third. *)
Conversation(key, at, messages) == [key |-> key, at |-> at, subagent |-> FALSE, messages |-> messages]

MCArchives ==
    {<<Conversation(1, 3, <<Hidden(<<3>>), Message(<<8, 8, Newline, 9>>, <<>>, <<>>)>>),
       Conversation(2, 2, <<Message(<<3, 4, Space, 9, 9, 9, 9, 9, Space, 7>>, <<<<3, 4>>>>, <<>>)>>),
       Conversation(3, 1, <<Message(<<>>, <<<<7, Space, 3>>>>, <<<<3>>, <<3, Newline, 3, 3>>, <<3, 5>>>>)>>)>>,
     <<Conversation(1, 1, <<Message(<<3, 4, 5, 6, 7, 3, 4>>, <<>>, <<>>)>>),
       [Conversation(2, 2, <<Message(<<3>>, <<>>, <<>>)>>) EXCEPT !.subagent = TRUE],
       Conversation(3, 3, <<Message(<<3, 101>>, <<>>, <<<<5>>>>)>>)>>}

MCSearches == {<<>>, <<<<3>>>>, <<<<7>>>>, <<<<3>>, <<7>>>>, <<<<3, 4>>>>, <<<<5>>>>, <<<<3, 4, 5, 6>>>>, <<<<9>>, <<3>>>>}

MCArchive == <<Conversation(1, 3, <<Hidden(<<3>>)>>), Conversation(2, 2, <<Message(<<8, Space, 3>>, <<>>, <<>>)>>)>>

MCTermsOf == [q \in Queries |-> <<<<3>>>>]

MCAnswers == [q \in Queries |-> Conversations \ {1}]

MCPasses == [f \in Filters |-> IF f = "all" THEN Conversations ELSE {1}]
=============================================================================
