------------------------------ MODULE MCJobPhases ------------------------------
(* JobPhases for TLC: the task files a phase may leave. *)
EXTENDS JobPhases

MCStatus == {"proposed", "measure", "implement", "todo", "done"}

StatusKey(s) == [key |-> "status", is |-> s]
Padded(s) == [key |-> "padded", is |-> s]
OtherKey == [key |-> "other", is |-> "todo"]

Lines == {StatusKey("measure"), StatusKey("done"), Padded("measure"), OtherKey}
Heads == {<<>>} \cup {<<l>> : l \in Lines} \cup {<<l, m>> : l, m \in Lines}

\* Every front matter of at most two such lines, closed or not, and a task that
\* quotes a queued one.
MCDrafts ==
  [head : Heads, closed : {TRUE}, body : {{}}]
    \cup [head : {<<OtherKey>>}, closed : BOOLEAN, body : {{}, {"measure"}}]
=============================================================================
