------------------------------ MODULE MCTaskStore ------------------------------
(* TaskStore for TLC: two tasks, the id of one a prefix of the other's. *)
EXTENDS TaskStoreProofs, TLC

CONSTANTS p1, p2,           \* processes
          auth, authflow    \* ids, and the references that name them

Nested == {<<auth, auth>>, <<auth, authflow>>, <<authflow, authflow>>}
AnyProcess == Permutations(Process)

PlainIssue == {<<Plain("prose")>>}
\* A code block with a heading and a list in it, after a blank line.
Snippets ==
  {<<Blank, Plain("prose"), Plain("fence"), Section(Log), Entry(0), Plain("fence")>>}
\* The heading in its code block right below the line it goes with.
Attached == {<<Plain("fence"), Section(Log), Plain("fence")>>}

New(i, issue) == [NoCommand EXCEPT !.verb = "new", !.id = i, !.issue = issue, !.section = Context]
AppendTo(section, r) == [NoCommand EXCEPT !.verb = "append", !.section = section, !.refs = <<r>>]
Compact(r) == [NoCommand EXCEPT !.verb = "compact", !.refs = <<r>>]
Close(rs, merge) == [NoCommand EXCEPT !.refs = rs, !.merge = merge]

EachVerb ==
  {New(i, issue) : i \in Id, issue \in Issues}
  \cup {AppendTo(Decisions, auth), AppendTo(Decisions, authflow), Compact(auth),
        Close(<<authflow>>, FALSE), Close(<<auth, authflow>>, TRUE)}
OnlyCompact == {Compact(auth)}

\* auth is there, with a wrapped entry in its Log; authflow is not.
OneTask ==
  [i \in Id |-> IF i # auth THEN Absent
     ELSE [state |-> "task", status |-> "todo",
           body |-> SubSeq(Template, 1, 8)
                      \o <<Blank, Entry(0), Plain("prose"), Entry(0), Blank>>]]

\* What the theorems of TaskStoreProofs suppose of the text and of the tasks there at
\* first.
ASSUME TheTheoremsApply == ContainedText /\ ShapedSeeds
=============================================================================
