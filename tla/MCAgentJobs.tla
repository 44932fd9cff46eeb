------------------------------ MODULE MCAgentJobs ------------------------------
(* AgentJobs for TLC: processes a person starts are interchangeable, and so    *)
(* are no two timers or tasks (the queue orders tasks by age).                 *)
EXTENDS AgentJobs, TLC

HandSymmetry == Permutations(Hands)
=============================================================================
