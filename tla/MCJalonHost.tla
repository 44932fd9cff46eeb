------------------------------- MODULE MCJalonHost -------------------------------
(* One task, in the clone since before the first day, and one line to drop it. *)
EXTENDS JalonHost

CONSTANT rate

OneTask == [r \in {here} |-> {rate}]
Ids == [i \in Slug \X (0..MaxDays) |-> 1]
OneLine == <<[say |-> "command", repo |-> NoRepo, slug |-> rate]>>
Drop == [i \in 0..1 |-> IF i = 1 THEN "done" ELSE "none"]

\* The task starts in no queue.
MCInit == Init /\ status[1] = "proposed"
MCSpec == MCInit /\ [][Next]_vars
=============================================================================
