-------------------------- MODULE MCCodexTranscript --------------------------
(* A main thread with two subagents; what the subagents write is shorter.   *)
EXTENDS CodexTranscript

MCRecords ==
    [kind : {"message"}, role : {"assistant"}, text : Texts]
    \cup [kind : {"message"}, role : {"user", "hidden", "divider"}, text : {"a"}]
    \cup [kind : {"reasoning"}, text : {"a"}, encrypted : {FALSE}]
    \cup [kind : {"reasoning"}, text : {None}, encrypted : {TRUE}]
    \cup [kind : {"call", "plan"}, text : {"a"}]
    \cup [kind : {"result"}, text : {"a"}, bad : {TRUE}]
    \cup [kind : {"tokens"}, total : {1, 2}, last : {TRUE}]
    \cup [kind : {"tokens"}, total : {NoTotal}, last : BOOLEAN]

MCChildRecords == [kind : {"message"}, role : {"user", "assistant"}, text : {"a"}]
=============================================================================
