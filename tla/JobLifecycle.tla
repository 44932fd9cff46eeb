------------------------------ MODULE JobLifecycle ------------------------------
(***************************************************************************)
(* What the jobs promise to the owner of the repository, whatever runs     *)
(* them: a job is worked on by one process at a time; its branch reaches   *)
(* origin only out of that work; and it ends by having landed or by        *)
(* leaving something unread, never in silence.                             *)
(***************************************************************************)
CONSTANT Job

VARIABLES life,      \* each job: out, being worked on, or landed on origin
          onOrigin,  \* the jobs whose branch origin has
          unread     \* the jobs that failed and that nobody has looked at

lifeVars == <<life, onOrigin, unread>>

Init ==
  /\ life = [j \in Job |-> "out"]
  /\ onOrigin = {}
  /\ unread = {}

Start(j) ==
  /\ life[j] = "out"
  /\ life' = [life EXCEPT ![j] = "working"]
  /\ UNCHANGED <<onOrigin, unread>>

Land(j) ==
  /\ life[j] = "working"
  /\ j \notin onOrigin
  /\ life' = [life EXCEPT ![j] = "landed"]
  /\ onOrigin' = onOrigin \cup {j}
  /\ UNCHANGED unread

Finish(j) ==
  /\ life[j] = "landed"
  /\ life' = [life EXCEPT ![j] = "out"]
  /\ UNCHANGED <<onOrigin, unread>>

\* A failed job may have landed all the same, when the answer got lost.
Fail(j) ==
  /\ life[j] # "out"
  /\ life' = [life EXCEPT ![j] = "out"]
  /\ unread' = unread \cup {j}
  /\ onOrigin' \in {onOrigin, onOrigin \cup {j}}

LookAt(j) ==
  /\ unread' = unread \ {j}
  /\ UNCHANGED <<life, onOrigin>>

DeleteFromOrigin(j) ==
  /\ onOrigin' = onOrigin \ {j}
  /\ UNCHANGED <<life, unread>>

Next ==
  \E j \in Job :
    \/ Start(j)
    \/ Land(j)
    \/ Finish(j)
    \/ Fail(j)
    \/ LookAt(j)
    \/ DeleteFromOrigin(j)

Spec == Init /\ [][Next]_lifeVars
=============================================================================
