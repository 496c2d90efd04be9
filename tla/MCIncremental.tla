---------------------------- MODULE MCIncremental ----------------------------
(* Two sessions of one project, a subagent file of the first, and rollouts. *)
EXTENDS IncrementalRebuild

CONSTANTS f1, f2, sub, p1

MCSubagentOf == [s \in {sub} |-> f1]

MCProjectOf == [f \in ClaudeFiles |-> p1]
=============================================================================
