--------------------------- MODULE AgentJobsRefinement ---------------------------
(***************************************************************************)
(* The jobs keep the promise of JobLifecycle, for every set of tasks,      *)
(* timers and people.                                                      *)
(***************************************************************************)
EXTENDS AgentJobsProofs

USE DEF origin, clone, history, vars

\* Where one process has brought its job.
Stage(r) ==
  IF run[r].pc \in {"phases", "switch", "push"} THEN "working"
  ELSE IF run[r].pc \in {"pr", "clean"} THEN "landed"
  ELSE "out"

LEMMA LifeHeld ==
  ASSUME TypeOK, WorktreeIsExclusive, NEW r \in Runner, Holds(r), JobOf(r) \in Job
  PROVE  Life[JobOf(r)] = Stage(r)
BY DEF Life, Stage, WorktreeIsExclusive, Holds, Holding

LEMMA LifeFree ==
  ASSUME NEW j \in Job, \A r \in Runner : Holds(r) => JobOf(r) # j
  PROVE  Life[j] = "out"
BY DEF Life, Holds, Holding

LEMMA HeldJob ==
  ASSUME TypeOK, NEW r \in Runner, Holds(r)
  PROVE  JobOf(r) \in Job
BY DEF TypeOK, Holds, Holding, HasTask, JobOf, Job, Process

\* A step of one process moves the life of its own job and of no other.
LEMMA LifeStep ==
  ASSUME TypeOK, WorktreeIsExclusive, TypeOK', WorktreeIsExclusive',
         NEW r \in Runner, Progress(r) \/ Outage(r) \/ RunByHand(r)
  PROVE  /\ Elsewhere(r) => Life' = Life
         /\ Enters(r) => /\ Life[JobOf(r)] = "out"
                         /\ Life' = [Life EXCEPT ![JobOf(r)] = Stage(r)']
         /\ Stays(r) => /\ Life[JobOf(r)] = Stage(r)
                        /\ Life' = [Life EXCEPT ![JobOf(r)] = Stage(r)']
         /\ Leaves(r) => /\ Life[JobOf(r)] = Stage(r)
                         /\ Life' = [Life EXCEPT ![JobOf(r)] = "out"]
<1>1. \A q \in Runner : q # r => run'[q] = run[q] /\ JobOf(q)' = JobOf(q)
                                 /\ (Holds(q)' <=> Holds(q))
  BY StepOfOne DEF JobOf, Holds
<1>2. ASSUME Elsewhere(r) PROVE Life' = Life
  <2>1. ~ Holds(r) /\ ~ Holds(r)'
    BY <1>2 DEF Elsewhere
  <2>2. /\ run[r].pc \notin {"phases", "switch", "push", "pr", "clean"}
        /\ run'[r].pc \notin {"phases", "switch", "push", "pr", "clean"}
    BY <2>1 DEF Holds, Holding
  <2> QED BY <1>1, <2>2 DEF Life
<1>3. ASSUME NEW j \in Job, j # JobOf(r), JobOf(r)' = JobOf(r) \/ ~ Holds(r)'
      PROVE  Life'[j] = Life[j]
  <2>1. ~ Holds(r)' => run'[r].pc \notin {"phases", "switch", "push", "pr", "clean"}
    BY DEF Holds, Holding
  <2> QED BY <1>1, <1>3, <2>1 DEF Life
<1>4. ASSUME Enters(r)
      PROVE  /\ Life[JobOf(r)] = "out"
             /\ Life' = [Life EXCEPT ![JobOf(r)] = Stage(r)']
  <2>1. JobOf(r) \in Job /\ JobOf(r)' = JobOf(r) /\ Holds(r)'
    BY <1>4, HeldJob DEF Enters, TypeOK
  <2>2. \A q \in Runner : Holds(q) => JobOf(q) # JobOf(r)
    BY <1>4 DEF Enters, WorktreeIsExclusive
  <2>3. Life[JobOf(r)] = "out"
    BY <2>1, <2>2, LifeFree
  <2>4. Life'[JobOf(r)] = Stage(r)'
    BY <1>1, <2>1, <2>2 DEF Life, Stage, Holds, Holding
  <2> QED BY <1>3, <2>1, <2>3, <2>4 DEF Life
<1>5. ASSUME Stays(r)
      PROVE  /\ Life[JobOf(r)] = Stage(r)
             /\ Life' = [Life EXCEPT ![JobOf(r)] = Stage(r)']
  <2>1. JobOf(r) \in Job /\ JobOf(r)' = JobOf(r) /\ Holds(r)' /\ Holds(r)
    BY <1>5, HeldJob DEF Stays
  <2>2. Life[JobOf(r)] = Stage(r)
    BY <2>1, LifeHeld
  <2>3. \A q \in Runner : q # r /\ Holds(q) => JobOf(q) # JobOf(r)
    BY <2>1 DEF WorktreeIsExclusive
  <2>4. Life'[JobOf(r)] = Stage(r)'
    BY <1>1, <2>1, <2>3 DEF Life, Stage, Holds, Holding
  <2> QED BY <1>3, <2>1, <2>2, <2>4 DEF Life
<1>6. ASSUME Leaves(r)
      PROVE  /\ Life[JobOf(r)] = Stage(r)
             /\ Life' = [Life EXCEPT ![JobOf(r)] = "out"]
  <2>1. JobOf(r) \in Job /\ Holds(r) /\ ~ Holds(r)'
    BY <1>6, HeldJob DEF Leaves
  <2>2. Life[JobOf(r)] = Stage(r)
    BY <2>1, LifeHeld
  <2>3. \A q \in Runner : q # r /\ Holds(q) => JobOf(q) # JobOf(r)
    BY <2>1 DEF WorktreeIsExclusive
  <2>4. Life'[JobOf(r)] = "out"
    BY <1>1, <2>1, <2>3 DEF Life, Holds, Holding
  <2> QED BY <1>3, <2>1, <2>2, <2>4 DEF Life
<1> QED BY <1>2, <1>4, <1>5, <1>6

-----------------------------------------------------------------------------
LEMMA LifeSame ==
  ASSUME NEW j, Life' = [Life EXCEPT ![j] = Life[j]]
  PROVE  Life' = Life
BY DEF Life

LEMMA StepRefines ==
  ASSUME TypeOK, WorktreeIsExclusive, EvidenceInv, TypeOK', WorktreeIsExclusive',
         NEW r \in Runner, Progress(r) \/ Outage(r) \/ RunByHand(r)
  PROVE  [L!Next]_(L!lifeVars)
<1> USE DEF L!lifeVars, At
<1> DEFINE j == JobOf(r)
<1>1. ASSUME Holds(r) PROVE j \in Job
  BY <1>1, HeldJob
<1>2. CASE UNCHANGED <<published, unread>> /\ Elsewhere(r)
  BY <1>2, LifeStep
<1>3. CASE AddWorktree(r)
  <2>1. CASE ExitFailed(r)
    BY <1>2, <1>3, <2>1, ExitJob, StepOfOne
    DEF AddWorktree, Enters, Leaves, Stays, Holds, Holding
  <2>2. CASE ~ ExitFailed(r)
    <3>1. run'[r].pc = "phases" /\ run[r].pc = "add"
      BY <1>3, <2>2, GotoJob DEF AddWorktree, Step, Holding
    <3>2. Enters(r)
      BY <3>1, StepOfOne DEF Leaves, Stays, Elsewhere, Holds, Holding
    <3>3. j \in Job
      BY <3>2 DEF Enters, TypeOK
    <3>4. L!Start(j)
      BY <1>3, <3>1, <3>2, LifeStep DEF AddWorktree, L!Start, Stage
    <3> QED BY <3>3, <3>4 DEF L!Next
  <2> QED BY <2>1, <2>2
<1>4. ASSUME Stays(r), Stage(r)' = Stage(r), UNCHANGED <<published, unread>>
      PROVE  UNCHANGED L!lifeVars
  BY <1>4, LifeStep, LifeSame
<1>5. CASE RunPhases(r) \/ CreatePR(r) \/ ClearOlderWreck(r) \/ (SwitchBranch(r) /\ ~ Keep(r))
  <2>1. /\ Holds(r) /\ Holds(r)' /\ Stage(r)' = Stage(r)
        /\ UNCHANGED <<published, unread>>
    BY <1>5, GotoJob
    DEF RunPhases, CreatePR, ClearOlderWreck, SwitchBranch, Holds, Holding, Stage, Step
  <2>2. Stays(r)
    BY <2>1, StepOfOne DEF Enters, Leaves, Elsewhere
  <2> QED BY <1>4, <2>1, <2>2
<1>6. CASE Push(r)
  <2>1. /\ run[r].pc = "push" /\ run'[r].pc = "pr"
        /\ published' = published \cup {j} /\ unread' = unread /\ j \notin published
    BY <1>6, GotoJob DEF Push, Step, Holding
  <2>2. Stays(r) /\ j \in Job
    BY <1>1, <2>1, StepOfOne DEF Enters, Leaves, Elsewhere, Holds, Holding
  <2>3. L!Land(j)
    BY <2>1, <2>2, LifeStep DEF L!Land, Stage
  <2> QED BY <2>2, <2>3 DEF L!Next
<1>7. CASE Keep(r) /\ (PhasesFail(r) \/ SwitchBranch(r) \/ PushFails(r))
  <2>1. /\ run[r].pc \in {"phases", "switch", "push"} /\ run'[r].pc = "park"
        /\ unread' = unread \cup {j}
        /\ published' \in {published, published \cup {j}}
    BY <1>7, GotoJob DEF Keep, PhasesFail, SwitchBranch, PushFails, Step, Holding
  <2>2. Stays(r) /\ j \in Job
    BY <1>1, <2>1, StepOfOne DEF Enters, Leaves, Elsewhere, Holds, Holding
  <2>3. L!Fail(j)
    BY <2>1, <2>2, LifeStep DEF L!Fail, Stage
  <2> QED BY <2>2, <2>3 DEF L!Next
<1>8. CASE Remove(r) \/ LeaveInPlace(r)
  <2>1. Holds(r) /\ run[r].pc = "clean" /\ ~ Holds(r)' /\ UNCHANGED <<published, unread>>
    BY <1>8, ExitJob DEF Remove, LeaveInPlace, Holds, Holding
  <2>2. Leaves(r) /\ j \in Job
    BY <1>1, <2>1, StepOfOne DEF Enters, Stays, Elsewhere
  <2>3. L!Finish(j)
    BY <2>1, <2>2, LifeStep DEF L!Finish, Stage
  <2> QED BY <2>2, <2>3 DEF L!Next
<1>9. ASSUME Leaves(r), Parking(r), UNCHANGED <<published, unread>>
      PROVE  UNCHANGED L!lifeVars
  <2>1. Stage(r) = "out"
    BY <1>9 DEF Parking, Stage
  <2> QED BY <1>9, <2>1, LifeStep, LifeSame
<1>10. CASE MoveWorktree(r) \/ ParkFails(r)
  <2>1. Holds(r) /\ Parking(r) /\ ~ Holds(r)' /\ UNCHANGED <<published, unread>>
    BY <1>10, ExitJob DEF MoveWorktree, ParkFails, Holds, Holding, Parking
  <2>2. Leaves(r)
    BY <2>1, StepOfOne DEF Enters, Stays, Elsewhere
  <2> QED BY <1>9, <2>1, <2>2
<1>11. CASE Crash(r) /\ Holds(r)
  <2>1. ~ Holds(r)' /\ published' = published /\ unread' = unread \cup {j}
    BY <1>11, ExitJob DEF Crash
  <2>2. Leaves(r) /\ j \in Job
    BY <1>1, <1>11, <2>1, StepOfOne DEF Enters, Stays, Elsewhere
  <2>3. CASE Parking(r)
    <3>1. j \in unread
      BY <2>3 DEF EvidenceInv
    <3> QED BY <1>9, <2>1, <2>2, <2>3, <3>1
  <2>4. CASE ~ Parking(r)
    <3>1. Stage(r) # "out"
      BY <1>11, <2>4 DEF Stage, Parking, Holds, Holding
    <3>2. L!Fail(j)
      BY <2>1, <2>2, <3>1, LifeStep DEF L!Fail
    <3> QED BY <2>2, <3>2 DEF L!Next
  <2> QED BY <2>3, <2>4
<1>12. ASSUME ~ Holds(r), ~ Holds(r)' PROVE Elsewhere(r)
  BY <1>12, StepOfOne DEF Enters, Leaves, Stays
<1>13. ASSUME ~ Holds(r), UNCHANGED <<published, unread, worktrees>>
       PROVE  [L!Next]_(L!lifeVars)
  <2>1. Elsewhere(r)
    BY <1>13, StepOfOne DEF Enters, Leaves, Stays
  <2> QED BY <1>2, <1>13, <2>1
<1> QED
  BY <1>3, <1>5, <1>6, <1>7, <1>8, <1>10, <1>11, <1>13
  DEF Progress, Outage, Tick, RunByHand, FetchDefault, NextTask, ReadTask, DoctorGit,
      DoctorCriterion, ReadSlot, TruncateSlot, WriteSlot, CheckRoom, FetchForWorktree,
      PhasesFail, PushFails, GrepDies, Refused, Crash, Holds, Holding

LEMMA NextRefines ==
  TypeOK /\ WorktreeIsExclusive /\ EvidenceInv /\ TypeOK' /\ WorktreeIsExclusive'
    /\ [Next]_vars => [L!Next]_(L!lifeVars)
<1> SUFFICES ASSUME TypeOK, WorktreeIsExclusive, EvidenceInv, TypeOK',
                    WorktreeIsExclusive', [Next]_vars
             PROVE  [L!Next]_(L!lifeVars)
  OBVIOUS
<1> USE DEF L!lifeVars
<1>1. ASSUME \A r \in Runner : run'[r].pc = run[r].pc /\ JobOf(r)' = JobOf(r)
      PROVE  Life' = Life
  BY <1>1 DEF Life
<1>2. CASE Person
  <2>1. Life' = Life
    BY <1>1, <1>2 DEF Person, EditStatus, MergePR, ClosePR, DeleteBranch, RemoveWreck,
                      RemoveStale, JobOf
  <2>2. ASSUME NEW j \in Job, DeleteBranch(j) PROVE L!DeleteFromOrigin(j)
    BY <2>1, <2>2 DEF DeleteBranch, L!DeleteFromOrigin
  <2>3. ASSUME NEW j \in Job, RemoveWreck(j) \/ RemoveStale(j), unread' # unread
        PROVE  L!LookAt(j)
    BY <2>1, <2>3 DEF RemoveWreck, RemoveStale, L!LookAt
  <2>4. CASE UNCHANGED <<published, unread>>
    BY <2>1, <2>4
  <2>5. ASSUME NEW j \in Job, DeleteBranch(j) PROVE [L!Next]_(L!lifeVars)
    BY <2>2, <2>5 DEF L!Next
  <2>6. ASSUME NEW j \in Job, RemoveWreck(j) \/ RemoveStale(j) PROVE [L!Next]_(L!lifeVars)
    <3>1. published' = published
      BY <2>6 DEF RemoveWreck, RemoveStale
    <3> QED BY <2>3, <2>4, <2>6, <3>1 DEF L!Next
  <2> QED BY <1>2, <2>4, <2>5, <2>6 DEF Person, EditStatus, MergePR, ClosePR
<1>3. CASE Midnight
  <2>1. \A r \in Runner : run'[r].pc = run[r].pc /\ JobOf(r)' = JobOf(r)
    BY <1>3, ClockStays
  <2> QED BY <1>1, <1>3, <2>1 DEF Midnight
<1>4. CASE InboxFetch \/ UNCHANGED vars
  BY <1>1, <1>4 DEF InboxFetch, JobOf
<1> QED BY <1>2, <1>3, <1>4, StepRefines DEF Next

\* The jobs implement the promise: worked on by one process at a time, out of
\* that work onto origin, and ended landed or unread.
THEOREM JobsKeepThePromise == Spec => Lifecycle
<1>1. Init => L!Init
  BY DEF Init, L!Init, Life, Idle
<1>2. Spec => []EvidenceInv
  <2>1. Init => EvidenceInv
    BY DEF Init, EvidenceInv, EvidenceIsKept, Parking, Idle
  <2> QED BY <2>1, TypeCorrect, Exclusive, EvidenceStep, PTL DEF Spec
<1> QED BY <1>1, <1>2, TypeCorrect, Exclusive, NextRefines, PTL
        DEF Spec, Lifecycle, L!Spec
=============================================================================
