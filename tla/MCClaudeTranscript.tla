------------------------- MODULE MCClaudeTranscript -------------------------
(* Records of each kind the two passes treat in ways of their own. *)
EXTENDS ClaudeTranscript

User(text, result, outcome) ==
    [kind |-> "user", text |-> text, meta |-> FALSE, slug |-> FALSE, sidechain |-> FALSE,
     result |-> result, outcome |-> outcome, blank |-> FALSE, plan |-> None]

Answer(shown, sidechain, call) ==
    [kind |-> "assistant", named |-> TRUE, shown |-> shown, sidechain |-> sidechain,
     usage |-> TRUE, call |-> call, id |-> NoID]

MCRecords ==
    {[User(Prompt, None, "ok") EXCEPT !.slug = TRUE],
     [User(Prompt, None, "ok") EXCEPT !.meta = TRUE],
     [User(None, "c", "error") EXCEPT !.meta = TRUE],
     [User(None, "c", "rejected") EXCEPT !.blank = TRUE],
     [User(None, "c", "ok") EXCEPT !.plan = "plan"],
     Answer(TRUE, FALSE, None), [Answer(TRUE, FALSE, None) EXCEPT !.named = FALSE],
     Answer(FALSE, FALSE, None),
     Answer(TRUE, TRUE, None), Answer(FALSE, FALSE, "c"),
     [kind |-> "torn", role |-> "assistant"]}

MCSessions == <<"s1", "s2">>
=============================================================================
