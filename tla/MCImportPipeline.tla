--------------------------- MODULE MCImportPipeline ---------------------------
(* Three sessions of one project in every mix of sessions with the slug of   *)
(* the first, with none, and of subagents; and two projects that use the     *)
(* same slug beside a rollout.                                               *)
EXTENDS ImportAnalysis

CONSTANTS f1, f2

Line(user, slug) == [user |-> user, slug |-> slug]

Kinds ==
    {[subagent |-> FALSE, lines |-> <<Line(TRUE, NoSlug), Line(TRUE, "a"), Line(TRUE, "b")>>],
     [subagent |-> FALSE, lines |-> <<Line(FALSE, "b"), Line(TRUE, "a")>>],
     [subagent |-> FALSE, lines |-> <<Line(FALSE, "a")>>],
     [subagent |-> TRUE, lines |-> <<Line(TRUE, "a")>>]}

SessionAt(f, kind) == [file |-> f, subagent |-> kind.subagent, lines |-> kind.lines]

Slugged == CHOOSE kind \in Kinds : kind.lines[1].slug = NoSlug

MCPaths == {"x", "y", "z", f1, f2}

MCLayouts ==
    {[projects |-> <<<<SessionAt("x", Slugged), SessionAt("y", k), SessionAt("z", l)>>>>, rollouts |-> <<>>] :
         k, l \in Kinds}
    \cup {[projects |-> <<<<SessionAt("x", Slugged)>>, <<SessionAt("y", k)>>>>, rollouts |-> <<"z">>] :
             k \in Kinds}

MCSourceTree == [projects |-> <<<<SessionAt(f1, Slugged)>>>>, rollouts |-> <<f2>>]
=============================================================================
