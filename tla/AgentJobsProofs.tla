---------------------------- MODULE AgentJobsProofs ----------------------------
(***************************************************************************)
(* What holds of the jobs for every set of tasks, timers and people, and   *)
(* every cap.                                                              *)
(***************************************************************************)
EXTENDS AgentJobs, FiniteSetTheorems, TLAPS

USE DEF origin, clone, history, vars

LEMMA EmptyType == Empty \in Count
BY CapAssumption, SMT DEF Empty, Count

LEMMA IdleType == Idle \in Process
BY EmptyType, Zenon DEF Idle, Process, Step, Holding, Kind, Status

LEMMA BeginType ==
  ASSUME NEW k \in Kind, NEW next \in BOOLEAN, NEW t \in Task \cup {NoTask}
  PROVE  Begin(k, next, t) \in Process
BY EmptyType DEF Begin, Idle, Process, Step, Holding, Status

LEMMA InitType == Init => TypeOK
<1> SUFFICES ASSUME Init PROVE TypeOK
  OBVIOUS
<1>1. run \in [Runner -> Process]
  BY IdleType DEF Init
<1>2. \A r \in Runner : ~ HasTask(r)
  BY DEF Init, HasTask, Idle
<1>3. started \in 0..(DailyJobCap + 1) /\ acts \in Nat /\ counter \in Count
  BY EmptyType, CapAssumption DEF Init
<1> QED BY <1>1, <1>2, <1>3 DEF Init, TypeOK

LEMMA ExitType ==
  ASSUME TypeOK, NEW r \in Runner, ExitFailed(r) \/ ExitOk(r)
  PROVE  /\ run' \in [Runner -> Process]
         /\ \A q \in Runner : HasTask(q)' => run'[q].task \in Task
<1>1. Idle \in Process /\ Begin("work", TRUE, NoTask) \in Process
  BY IdleType, BeginType DEF Kind
<1>2. CASE ExitFailed(r)
  BY <1>1, <1>2 DEF TypeOK, ExitFailed, HasTask, Idle
<1>3. CASE ExitOk(r)
  BY <1>1, <1>3 DEF TypeOK, ExitOk, HasTask, Idle, Begin
<1> QED BY <1>2, <1>3

LEMMA GotoType ==
  ASSUME TypeOK, NEW r \in Runner, NEW l \in Step, Goto(r, l),
         HasTask(r) \/ (l = "pick" /\ run[r].next)
  PROVE  /\ run' \in [Runner -> Process]
         /\ \A q \in Runner : HasTask(q)' => run'[q].task \in Task
<1>1. run' \in [Runner -> Process]
  BY DEF TypeOK, Goto, Process
<1>2. \A q \in Runner : HasTask(q)' => run'[q].task \in Task
  BY DEF TypeOK, Goto, HasTask, Process
<1> QED BY <1>1, <1>2

\* The steps of one process, by what they do to its record.
LEMMA ProgressType ==
  ASSUME TypeOK, NEW r \in Runner, Progress(r)
  PROVE  TypeOK'
<1> USE DEF TypeOK
<1>1. CASE Tick(r)
  BY <1>1, BeginType DEF Tick, Kind, HasTask, Begin, Idle
<1>2. CASE FetchDefault(r)
  BY <1>2, GotoType DEF FetchDefault, At, HasTask, Step
<1>3. CASE NextTask(r)
  <2>1. CASE ExitOk(r)
    BY <1>3, <2>1, ExitType DEF NextTask
  <2>2. CASE \E t \in InQueue(run[r].kind) :
               run' = [run EXCEPT ![r] = [@ EXCEPT !.pc = "read", !.task = t]]
    <3>1. PICK t \in Task :
            run' = [run EXCEPT ![r] = [@ EXCEPT !.pc = "read", !.task = t]]
      BY <2>2 DEF InQueue
    <3> DEFINE p == [run[r] EXCEPT !.pc = "read", !.task = t]
    <3>p. p \in Process
      BY DEF Process, Step
    <3>2. run' \in [Runner -> Process]
      BY <3>1, <3>p
    <3>3. \A q \in Runner : HasTask(q)' => run'[q].task \in Task
      BY <3>1 DEF Process, HasTask
    <3> QED BY <1>3, <3>2, <3>3 DEF NextTask
  <2> QED BY <1>3, <2>1, <2>2 DEF NextTask
<1>4. CASE ReadTask(r)
  BY <1>4, ExitType, GotoType DEF ReadTask, At, HasTask, Step
<1>5. CASE DoctorGit(r) \/ DoctorCriterion(r)
  BY <1>5, ExitType, GotoType DEF DoctorGit, DoctorCriterion, At, HasTask, Step
<1>6. CASE ReadSlot(r)
  <2>1. CASE ExitFailed(r)
    BY <1>6, <2>1, ExitType DEF ReadSlot
  <2>2. CASE ~ ExitFailed(r)
    <3>1. [today |-> TRUE, n |-> SlotsTaken + 1] \in Count
      BY <1>6, <2>2, CapAssumption DEF ReadSlot, SlotsTaken, Count
    <3> DEFINE p == [run[r] EXCEPT !.pc = "truncate",
                                   !.slot = [today |-> TRUE, n |-> SlotsTaken + 1]]
    <3>p. p \in Process
      BY <3>1 DEF Process, Step
    <3>2. run' \in [Runner -> Process]
      BY <1>6, <2>2, <3>p DEF ReadSlot
    <3>0. run' = [run EXCEPT ![r] = p]
      BY <1>6, <2>2 DEF ReadSlot
    <3>1a. p.task = run[r].task /\ HasTask(r)
      BY <1>6 DEF ReadSlot, Process, HasTask, At
    <3> HIDE DEF p
    <3>3. \A q \in Runner : HasTask(q)' => run'[q].task \in Task
      BY <3>0, <3>1a DEF HasTask
    <3> QED BY <1>6, <3>2, <3>3 DEF ReadSlot
  <2> QED BY <2>1, <2>2
<1>7. CASE TruncateSlot(r)
  BY <1>7, GotoType, EmptyType DEF TruncateSlot, At, HasTask, Step
<1>8. CASE WriteSlot(r)
  <2> DEFINE p == [run[r] EXCEPT !.pc = "room", !.slot = Empty]
  <2>p. p \in Process
    BY EmptyType DEF Process, Step
  <2>1. run' \in [Runner -> Process]
    BY <1>8, <2>p DEF WriteSlot
  <2>2. \A q \in Runner : HasTask(q)' => run'[q].task \in Task
    BY <1>8 DEF WriteSlot, Process, HasTask, At
  <2>3. counter' \in Count /\ started' \in 0..(DailyJobCap + 1)
    BY <1>8, CapAssumption DEF WriteSlot, Process
  <2> QED BY <1>8, <2>1, <2>2, <2>3 DEF WriteSlot
<1>9. CASE CheckRoom(r) \/ FetchForWorktree(r)
  BY <1>9, ExitType, GotoType DEF CheckRoom, FetchForWorktree, At, HasTask, Step
<1>10. ASSUME HasTask(r) PROVE JobOf(r) \in Job
  BY <1>10 DEF JobOf, Job, Process
<1>11. CASE AddWorktree(r)
  BY <1>10, <1>11, ExitType, GotoType DEF AddWorktree, At, HasTask, Step, Holding
<1>12. ASSUME Holds(r) PROVE HasTask(r)
  BY <1>12 DEF Holds, Holding, HasTask
<1>13. CASE RunPhases(r) \/ PhasesFail(r) \/ SwitchBranch(r)
  BY <1>10, <1>12, <1>13, GotoType
  DEF RunPhases, PhasesFail, SwitchBranch, Keep, At, Holds, Step, Holding
<1>14. CASE Push(r) \/ PushFails(r) \/ CreatePR(r)
  BY <1>10, <1>12, <1>14, GotoType
  DEF Push, PushFails, CreatePR, Keep, At, Holds, Step, Holding
<1>15. CASE Remove(r) \/ LeaveInPlace(r) \/ MoveWorktree(r)
  BY <1>10, <1>12, <1>15, ExitType
  DEF Remove, LeaveInPlace, MoveWorktree, At, Holds, Holding
<1>16. CASE ClearOlderWreck(r)
  BY <1>12, <1>16, GotoType DEF ClearOlderWreck, At, Holds, Step, Holding
<1> QED BY <1>1, <1>2, <1>3, <1>4, <1>5, <1>6, <1>7, <1>8, <1>9, <1>11, <1>13,
           <1>14, <1>15, <1>16 DEF Progress

LEMMA OutageType ==
  ASSUME TypeOK, NEW r \in Runner, Outage(r)
  PROVE  TypeOK'
<1> USE DEF TypeOK
<1>1. CASE GrepDies(r) \/ ParkFails(r) \/ Refused(r)
  BY <1>1, ExitType DEF GrepDies, ParkFails, Refused
<1>2. CASE Crash(r)
  <2>1. ASSUME Holds(r) PROVE JobOf(r) \in Job
    BY <2>1 DEF Holds, Holding, HasTask, JobOf, Job, Process
  <2> QED BY <1>2, <2>1, ExitType DEF Crash
<1> QED BY <1>1, <1>2 DEF Outage

LEMMA PersonType ==
  ASSUME TypeOK, Person
  PROVE  TypeOK'
<1> USE DEF TypeOK, Act
<1>0. UNCHANGED run => \A q \in Runner : HasTask(q)' => run'[q].task \in Task
  BY DEF HasTask
<1>1. ASSUME NEW t \in Task, NEW s \in Status, EditStatus(t, s) PROVE TypeOK'
  BY <1>0, <1>1 DEF EditStatus
<1>2. ASSUME NEW j \in Job, MergePR(j) PROVE TypeOK'
  <2>1. status' \in [Task -> Status]
    BY <1>2 DEF MergePR, Status
  <2> QED BY <1>0, <1>2, <2>1 DEF MergePR
<1>3. ASSUME NEW j \in Job, ClosePR(j) \/ DeleteBranch(j) PROVE TypeOK'
  <2>1. pr' \in [Job -> {"none", "open", "answered"}]
    BY <1>3 DEF ClosePR, DeleteBranch
  <2> QED BY <1>0, <1>3, <2>1 DEF ClosePR, DeleteBranch
<1>4. ASSUME NEW j \in Job, RemoveWreck(j) \/ RemoveStale(j) PROVE TypeOK'
  BY <1>0, <1>4 DEF RemoveWreck, RemoveStale
<1> QED BY <1>1, <1>2, <1>3, <1>4 DEF Person

\* The date changes nothing of where a process is and what it works on.
LEMMA ClockStays ==
  ASSUME TypeOK, Midnight, NEW r \in Runner
  PROVE  /\ run'[r].pc = run[r].pc /\ run'[r].next = run[r].next
         /\ JobOf(r)' = JobOf(r)
         /\ UNCHANGED <<worktrees, wrecks, published, unread>>
<1>1. run[r] \in Process
  BY DEF TypeOK
<1>2. run'[r] = [run[r] EXCEPT !.slot.today = FALSE]
  BY DEF Midnight
<1>3. /\ run'[r].pc = run[r].pc /\ run'[r].next = run[r].next
      /\ run'[r].kind = run[r].kind /\ run'[r].task = run[r].task
  BY <1>1, <1>2 DEF Process
<1> QED BY <1>3 DEF Midnight, JobOf, origin

LEMMA ClockType ==
  ASSUME TypeOK, Midnight
  PROVE  TypeOK'
<1>1. run' \in [Runner -> Process]
  <2> SUFFICES ASSUME NEW r \in Runner
               PROVE  [run[r] EXCEPT !.slot.today = FALSE] \in Process
    BY DEF Midnight
  <2>1. run[r] \in Process
    BY DEF TypeOK
  <2>2. [run[r].slot EXCEPT !.today = FALSE] \in Count
    BY <2>1 DEF Process, Count
  <2> QED BY <2>1, <2>2 DEF Process
<1>2. \A q \in Runner : HasTask(q)' => run'[q].task \in Task
  BY DEF TypeOK, Midnight, Process, HasTask
<1>3. counter' \in Count
  BY DEF TypeOK, Midnight, Count
<1>4. started' \in 0..(DailyJobCap + 1)
  BY CapAssumption DEF Midnight
<1>5. torn' \in BOOLEAN
  BY DEF Midnight
<1>6. UNCHANGED <<origin, fetchHead, localBranches, worktrees, wrecks, unread, acts>>
  BY DEF Midnight
<1> QED BY <1>1, <1>2, <1>3, <1>4, <1>5, <1>6 DEF TypeOK

LEMMA HandType ==
  ASSUME TypeOK, NEW r \in Runner, RunByHand(r)
  PROVE  TypeOK'
<1>1. PICK k \in Kind, t \in Task \cup {NoTask} :
         run' = [run EXCEPT ![r] = Begin(k, t = NoTask, t)]
  BY DEF RunByHand
<1>2. Begin(k, t = NoTask, t) \in Process
  BY BeginType
<1>3. \A q \in Runner : HasTask(q)' => run'[q].task \in Task
  BY <1>1 DEF TypeOK, HasTask, Begin, Idle
<1> QED BY <1>1, <1>2, <1>3 DEF RunByHand, TypeOK

LEMMA TypeStep == TypeOK /\ [Next]_vars => TypeOK'
<1> SUFFICES ASSUME TypeOK, [Next]_vars PROVE TypeOK'
  OBVIOUS
<1>1. CASE InboxFetch \/ UNCHANGED vars
  BY <1>1 DEF InboxFetch, TypeOK, HasTask
<1> QED BY <1>1, ProgressType, OutageType, HandType, PersonType, ClockType DEF Next

\* Every variable keeps to its type, and a process past the queue has a task.
THEOREM TypeCorrect == Spec => []TypeOK
BY InitType, TypeStep, PTL DEF Spec

-----------------------------------------------------------------------------
(* One process, one worktree *)

\* Entering, staying in and leaving the worktree, as seen by everybody else.
Enters(r) ==
  /\ ~ Holds(r) /\ Holds(r)' /\ JobOf(r)' = JobOf(r)
  /\ JobOf(r) \notin worktrees
  /\ worktrees' = worktrees \cup {JobOf(r)}

Leaves(r) ==
  /\ Holds(r) /\ ~ Holds(r)'
  /\ worktrees' \in {worktrees, worktrees \ {JobOf(r)}}

Stays(r) ==
  /\ Holds(r) /\ Holds(r)' /\ JobOf(r)' = JobOf(r)
  /\ worktrees' = worktrees

Elsewhere(r) ==
  /\ ~ Holds(r) /\ ~ Holds(r)'
  /\ worktrees' = worktrees

LEMMA GotoJob ==
  ASSUME TypeOK, NEW r \in Runner, NEW l \in Step, Goto(r, l)
  PROVE  /\ run'[r].pc = l
         /\ JobOf(r)' = JobOf(r)
         /\ \A q \in Runner : q # r => run'[q] = run[q]
BY DEF TypeOK, Goto, JobOf, Process

LEMMA IdlePc == Idle.pc = "idle"
BY DEF Idle

LEMMA BeginPc == \A k, next, t : Begin(k, next, t).pc = "fetch"
BY DEF Begin, Idle

LEMMA ExitJob ==
  ASSUME TypeOK, NEW r \in Runner, ExitFailed(r) \/ ExitOk(r)
  PROVE  /\ run'[r].pc \in {"idle", "fetch"}
         /\ ~ Holds(r)'
         /\ \A q \in Runner : q # r => run'[q] = run[q]
<1>1. /\ run'[r].pc \in {"idle", "fetch"}
      /\ \A q \in Runner : q # r => run'[q] = run[q]
  <2>1. CASE ExitFailed(r)
    BY <2>1, IdlePc DEF TypeOK, ExitFailed
  <2>2. CASE ExitOk(r)
    <3>1. Begin("work", TRUE, NoTask).pc = "fetch"
      BY BeginPc
    <3> QED BY <2>2, <3>1, IdlePc DEF TypeOK, ExitOk
  <2> QED BY <2>1, <2>2
<1> QED BY <1>1 DEF Holds, Holding

LEMMA StepOfOne ==
  ASSUME TypeOK, NEW r \in Runner, Progress(r) \/ Outage(r) \/ RunByHand(r)
  PROVE  /\ \A q \in Runner : q # r => run'[q] = run[q]
         /\ Enters(r) \/ Leaves(r) \/ Stays(r) \/ Elsewhere(r)
<1> DEFINE Goal == /\ \A q \in Runner : q # r => run'[q] = run[q]
                   /\ Enters(r) \/ Leaves(r) \/ Stays(r) \/ Elsewhere(r)
<1> USE DEF At, Holds, Holding
<1>1. CASE Tick(r) \/ RunByHand(r)
  <2>1. PICK b : b.pc = "fetch" /\ run' = [run EXCEPT ![r] = b]
    <3>1. ASSUME Tick(r)
          PROVE  \E b : b.pc = "fetch" /\ run' = [run EXCEPT ![r] = b]
      BY <3>1, BeginPc, Zenon DEF Tick
    <3>2. ASSUME RunByHand(r)
          PROVE  \E b : b.pc = "fetch" /\ run' = [run EXCEPT ![r] = b]
      <4>1. PICK k \in Kind, t \in Task \cup {NoTask} :
              run' = [run EXCEPT ![r] = Begin(k, t = NoTask, t)]
        BY <3>2 DEF RunByHand
      <4>2. Begin(k, t = NoTask, t).pc = "fetch"
        BY BeginPc
      <4> QED BY <4>1, <4>2
    <3> QED BY <1>1, <3>1, <3>2
  <2> QED BY <1>1, <2>1 DEF Tick, RunByHand, TypeOK, Elsewhere
<1>2. CASE NextTask(r) \/ GrepDies(r)
  <2>1. CASE ExitOk(r)
    BY <1>2, <2>1, ExitJob DEF NextTask, GrepDies, Elsewhere
  <2>2. CASE ~ ExitOk(r)
    <3>1. PICK t : run' = [run EXCEPT ![r] = [@ EXCEPT !.pc = "read", !.task = t]]
      BY <1>2, <2>2 DEF NextTask, GrepDies
    <3>2. run'[r].pc = "read"
      BY <3>1 DEF TypeOK, Process
    <3> QED BY <1>2, <3>1, <3>2 DEF NextTask, GrepDies, TypeOK, Elsewhere
  <2> QED BY <2>1, <2>2
<1>3. CASE ReadTask(r) \/ ReadSlot(r) \/ WriteSlot(r)
  <2>1. CASE ExitFailed(r)
    BY <1>3, <2>1, ExitJob DEF ReadTask, ReadSlot, WriteSlot, Elsewhere
  <2>2. CASE ~ ExitFailed(r)
    <3>1. run'[r].pc \in {"doctor", "truncate", "room"}
      <4>1. CASE ReadTask(r)
        BY <2>2, <4>1 DEF Goto, ReadTask, TypeOK, Process
      <4>2. CASE ReadSlot(r)
        <5>1. run' = [run EXCEPT ![r] = [@ EXCEPT
                        !.pc = "truncate",
                        !.slot = [today |-> TRUE, n |-> SlotsTaken + 1]]]
          BY <2>2, <4>2 DEF ReadSlot
        <5> QED BY <5>1 DEF TypeOK, Process
      <4>3. CASE WriteSlot(r)
        BY <4>3 DEF WriteSlot, TypeOK, Process
      <4> QED BY <1>3, <4>1, <4>2, <4>3
    <3>2. \A q \in Runner : q # r => run'[q] = run[q]
      BY <1>3, <2>2 DEF Goto, ReadTask, ReadSlot, WriteSlot, TypeOK
    <3> QED BY <1>3, <3>1, <3>2 DEF ReadTask, ReadSlot, WriteSlot, Elsewhere
  <2> QED BY <2>1, <2>2
<1>4. CASE FetchDefault(r) \/ TruncateSlot(r) \/ FetchForWorktree(r) \/ DoctorCriterion(r)
  BY <1>4, GotoJob
  DEF FetchDefault, TruncateSlot, FetchForWorktree, DoctorCriterion, Elsewhere, Step
<1>5. CASE DoctorGit(r) \/ CheckRoom(r) \/ Refused(r)
  BY <1>5, GotoJob, ExitJob DEF DoctorGit, CheckRoom, Refused, Elsewhere, Step
<1>6. CASE AddWorktree(r)
  BY <1>6, GotoJob, ExitJob DEF AddWorktree, Enters, Elsewhere, Step
<1>7. CASE RunPhases(r) \/ PhasesFail(r) \/ SwitchBranch(r) \/ Push(r) \/ PushFails(r)
             \/ CreatePR(r) \/ ClearOlderWreck(r)
  BY <1>7, GotoJob
  DEF RunPhases, PhasesFail, SwitchBranch, Push, PushFails, CreatePR,
      ClearOlderWreck, Keep, Stays, Step
<1>8. CASE Remove(r) \/ LeaveInPlace(r) \/ MoveWorktree(r) \/ ParkFails(r)
  BY <1>8, ExitJob DEF Remove, LeaveInPlace, MoveWorktree, ParkFails, Leaves
<1>9. CASE Crash(r)
  BY <1>9, ExitJob DEF Crash, Leaves, Elsewhere
<1> QED BY <1>1, <1>2, <1>3, <1>4, <1>5, <1>6, <1>7, <1>8, <1>9
        DEF Progress, Outage

LEMMA ExclusiveStep ==
  TypeOK /\ WorktreeIsExclusive /\ [Next]_vars => WorktreeIsExclusive'
<1> SUFFICES ASSUME TypeOK, WorktreeIsExclusive, [Next]_vars
             PROVE  WorktreeIsExclusive'
  OBVIOUS
<1> USE DEF WorktreeIsExclusive
<1>1. CASE \E r \in Runner : Progress(r) \/ Outage(r) \/ RunByHand(r)
  <2>1. PICK r \in Runner : Progress(r) \/ Outage(r) \/ RunByHand(r)
    BY <1>1
  <2>2. \A q \in Runner : q # r => (Holds(q)' <=> Holds(q)) /\ JobOf(q)' = JobOf(q)
    BY <2>1, StepOfOne DEF Holds, JobOf
  <2>3. CASE Enters(r)
    BY <2>2, <2>3 DEF Enters
  <2>4. CASE Leaves(r)
    BY <2>2, <2>4 DEF Leaves
  <2>5. CASE Stays(r)
    BY <2>2, <2>5 DEF Stays
  <2>6. CASE Elsewhere(r)
    BY <2>2, <2>6 DEF Elsewhere
  <2> QED BY <2>1, <2>3, <2>4, <2>5, <2>6, StepOfOne
<1>2. CASE Person
  <2>1. \A r \in Runner : (Holds(r)' <=> Holds(r)) /\ JobOf(r)' = JobOf(r)
    BY <1>2 DEF Person, EditStatus, MergePR, ClosePR, DeleteBranch, RemoveWreck,
               RemoveStale, Holds, JobOf
  <2>2. CASE UNCHANGED worktrees
    BY <2>1, <2>2
  <2>3. ASSUME NEW j \in Job, RemoveStale(j) PROVE WorktreeIsExclusive'
    BY <2>1, <2>3 DEF RemoveStale
  <2> QED BY <1>2, <2>2, <2>3
          DEF Person, EditStatus, MergePR, ClosePR, DeleteBranch, RemoveWreck
<1>3. CASE Midnight
  <2>1. \A r \in Runner : (Holds(r)' <=> Holds(r)) /\ JobOf(r)' = JobOf(r)
    BY <1>3, ClockStays DEF Holds
  <2>2. worktrees' = worktrees
    BY <1>3 DEF Midnight
  <2> QED BY <2>1, <2>2
<1>4. CASE InboxFetch \/ UNCHANGED vars
  BY <1>4 DEF InboxFetch, Holds, JobOf
<1> QED BY <1>1, <1>2, <1>3, <1>4 DEF Next

\* Two processes never work in one worktree, and none loses it under its feet.
THEOREM Exclusive == Spec => []WorktreeIsExclusive
<1>1. Init => WorktreeIsExclusive
  BY DEF Init, WorktreeIsExclusive, Holds, Holding, Idle
<1> QED BY <1>1, TypeCorrect, ExclusiveStep, PTL DEF Spec

-----------------------------------------------------------------------------
(* Evidence *)

Working(r) == Holds(r) /\ ~ Parking(r)

\* EvidenceIsKept is not inductive alone: removing the worktree of a job that
\* succeeds must not take away what an earlier failure of it left.
EvidenceInv ==
  /\ EvidenceIsKept
  /\ \A r \in Runner : Working(r) /\ JobOf(r) \in unread => JobOf(r) \in wrecks
  /\ \A r \in Runner : Parking(r) => JobOf(r) \in unread

LEMMA EvidenceStep ==
  TypeOK /\ WorktreeIsExclusive /\ EvidenceInv /\ [Next]_vars => EvidenceInv'
<1> SUFFICES ASSUME TypeOK, WorktreeIsExclusive, EvidenceInv, [Next]_vars
             PROVE  EvidenceInv'
  OBVIOUS
<1> USE DEF EvidenceInv, EvidenceIsKept
<1>1. ASSUME NEW r \in Runner, Progress(r) \/ Outage(r) \/ RunByHand(r)
      PROVE  EvidenceInv'
  <2>1. \A q \in Runner : q # r => /\ (Working(q)' <=> Working(q))
                                   /\ (Parking(q)' <=> Parking(q))
                                   /\ JobOf(q)' = JobOf(q)
    BY <1>1, StepOfOne DEF Working, JobOf, Holds, Parking
  <2>2. ASSUME Holds(r)
        PROVE  /\ JobOf(r) \in worktrees
               /\ \A q \in Runner : q # r /\ (Working(q) \/ Parking(q)) => JobOf(q) # JobOf(r)
    BY <2>2 DEF WorktreeIsExclusive, Working, Parking, Holds, Holding
  <2>3. ASSUME UNCHANGED <<worktrees, wrecks, unread>>,
               JobOf(r)' = JobOf(r) \/ ~ (Working(r)' \/ Parking(r)'),
               Working(r)' => Working(r), Parking(r)' => Parking(r)
        PROVE  EvidenceInv'
    BY <2>1, <2>3
  <2>n. ASSUME UNCHANGED <<worktrees, wrecks, unread>>, ~ Holds(r) \/ ~ Holds(r)'
        PROVE  EvidenceInv'
    <3>1. ~ Holds(r)'
      BY <1>1, <2>n, StepOfOne DEF Enters, Leaves, Stays, Elsewhere
    <3>2. ~ Working(r)' /\ ~ Parking(r)'
      BY <3>1 DEF Working, Parking, Holds, Holding
    <3> QED BY <2>3, <2>n, <3>1, <3>2
  <2>4. CASE AddWorktree(r)
    <3>1. CASE ExitFailed(r) /\ UNCHANGED worktrees
      BY <2>n, <2>4, <3>1, ExitJob DEF AddWorktree
    <3>2. CASE worktrees' = worktrees \cup {JobOf(r)} /\ JobOf(r) \notin worktrees
      <4>1. run'[r].pc = "phases" /\ JobOf(r)' = JobOf(r)
        BY <2>4, <3>2, GotoJob, StepOfOne DEF AddWorktree, Step, Holding
      <4> QED BY <2>1, <2>4, <3>2, <4>1 DEF AddWorktree, Parking
    <3> QED BY <2>4, <3>1, <3>2 DEF AddWorktree
  <2>5. ASSUME Holds(r), unread' = unread \cup {JobOf(r)}, ~ Working(r)',
               JobOf(r)' = JobOf(r) \/ ~ Parking(r)',
               UNCHANGED <<worktrees, wrecks>>
        PROVE  EvidenceInv'
    BY <2>1, <2>2, <2>5
  <2>6. CASE PhasesFail(r) \/ SwitchBranch(r) \/ PushFails(r)
    <3>1. CASE Keep(r)
      BY <2>5, <2>6, <3>1, GotoJob
      DEF PhasesFail, SwitchBranch, PushFails, Keep, At, Holds, Holding, Step, Working,
          Parking
    <3>2. CASE SwitchBranch(r) /\ ~ Keep(r)
      <4>1. run[r].pc = "switch" /\ run'[r].pc = "push" /\ JobOf(r)' = JobOf(r)
        BY <3>2, GotoJob DEF SwitchBranch, At, Step, Holding
      <4> QED BY <2>3, <3>2, <4>1 DEF SwitchBranch, Working, Parking, Holds, Holding
    <3> QED BY <2>6, <3>1, <3>2 DEF PhasesFail, PushFails
  <2>p. CASE RunPhases(r) \/ Push(r) \/ CreatePR(r)
    <3>1. /\ JobOf(r)' = JobOf(r)
          /\ Working(r) /\ Working(r)' /\ ~ Parking(r)'
      BY <2>p, GotoJob
      DEF RunPhases, Push, CreatePR, At, Step, Holding, Working, Holds, Parking
    <3> QED BY <2>3, <2>p, <3>1 DEF RunPhases, Push, CreatePR
  <2>7. CASE Remove(r)
    <3>1. ~ Working(r)' /\ ~ Parking(r)' /\ Working(r) /\ Holds(r)
      BY <2>7, ExitJob DEF Remove, At, Working, Holding, Holds, Parking
    <3> QED BY <2>1, <2>7, <3>1 DEF Remove
  <2>8. CASE ClearOlderWreck(r)
    <3>1. /\ ~ Working(r)' /\ Holds(r)
          /\ Parking(r) /\ JobOf(r)' = JobOf(r)
      BY <2>8, GotoJob DEF ClearOlderWreck, At, Working, Holding, Holds, Step, Parking
    <3> QED BY <2>1, <2>2, <2>8, <3>1 DEF ClearOlderWreck
  <2>9. CASE MoveWorktree(r)
    <3>1. ~ Working(r)' /\ ~ Parking(r)' /\ Holds(r)
      BY <2>9, ExitJob DEF MoveWorktree, At, Working, Holding, Holds, Parking
    <3> QED BY <2>1, <2>9, <3>1 DEF MoveWorktree
  <2>10. CASE Crash(r)
    <3>1. ~ Working(r)' /\ ~ Parking(r)' /\ ~ Holds(r)'
      BY <2>10, ExitJob DEF Crash, Working, Holds, Parking
    <3>2. CASE Holds(r)
      BY <2>5, <2>10, <3>1, <3>2 DEF Crash
    <3>3. CASE ~ Holds(r)
      BY <2>n, <2>10, <3>3 DEF Crash
    <3> QED BY <3>2, <3>3
  <2> QED
    BY <1>1, <2>n, <2>4, <2>6, <2>7, <2>8, <2>9, <2>10, <2>p, ExitJob
    DEF Progress, Outage, Tick, RunByHand, FetchDefault, NextTask, ReadTask,
        DoctorGit, DoctorCriterion, ReadSlot, TruncateSlot, WriteSlot, CheckRoom,
        FetchForWorktree, LeaveInPlace, GrepDies, ParkFails, Refused, Holds, Holding,
        At
<1>2. CASE Person
  <2>1. \A r \in Runner : /\ (Working(r)' <=> Working(r)) /\ JobOf(r)' = JobOf(r)
                          /\ (Parking(r)' <=> Parking(r))
    BY <1>2 DEF Person, EditStatus, MergePR, ClosePR, DeleteBranch, RemoveWreck,
               RemoveStale, Working, JobOf, Holds, Parking
  <2>2. CASE UNCHANGED <<worktrees, wrecks, unread>>
    BY <2>1, <2>2
  <2>3. ASSUME NEW j \in Job, RemoveStale(j) PROVE EvidenceInv'
    BY <2>1, <2>3 DEF RemoveStale, Working, Parking, Holds, Holding
  <2>4. ASSUME NEW j \in Job, RemoveWreck(j) PROVE EvidenceInv'
    <3>1. \A r \in Runner : Parking(r) => JobOf(r) \in worktrees
      BY DEF WorktreeIsExclusive, Parking, Holds, Holding
    <3> QED BY <2>1, <2>4, <3>1 DEF RemoveWreck, WorktreeIsExclusive, Working, Parking, Holds, Holding
  <2> QED BY <1>2, <2>2, <2>3, <2>4 DEF Person, EditStatus, MergePR, ClosePR, DeleteBranch
<1>3. CASE Midnight
  <2>1. \A r \in Runner : /\ Working(r)' <=> Working(r)
                          /\ Parking(r)' <=> Parking(r)
                          /\ JobOf(r)' = JobOf(r)
    BY <1>3, ClockStays DEF Working, Holds, Parking
  <2>2. UNCHANGED <<worktrees, wrecks, unread>>
    BY <1>3 DEF Midnight
  <2> QED BY <2>1, <2>2
<1>4. CASE InboxFetch \/ UNCHANGED vars
  BY <1>4 DEF InboxFetch, Working, JobOf, Holds, Parking
<1> QED BY <1>1, <1>2, <1>3, <1>4 DEF Next

\* What a failed job left stays on the machine until a person removes it.
THEOREM Evidence == Spec => []EvidenceIsKept
<1>1. Init => EvidenceInv
  BY DEF Init, EvidenceInv, EvidenceIsKept, Parking, Idle
<1>2. EvidenceInv => EvidenceIsKept
  BY DEF EvidenceInv
<1> QED BY <1>1, <1>2, TypeCorrect, Exclusive, EvidenceStep, PTL DEF Spec

-----------------------------------------------------------------------------
(* One process alone in the clone: the timer, with nobody running a verb       *)

\* Between the read and the end of the write the process holds the count the
\* file should have; otherwise the file has it.
SlotInv(c) ==
  \/ torn
  \/ /\ run[c].pc # "count" => SlotsTaken = started
     /\ run[c].pc \in {"truncate", "count"} =>
          /\ run[c].slot.today => run[c].slot.n = started + 1
          /\ ~ run[c].slot.today => started = 0
     /\ started <= DailyJobCap

LEMMA SlotStep ==
  ASSUME NEW c, Runner = {c}
  PROVE  TypeOK /\ SlotInv(c) /\ [Next]_vars => SlotInv(c)'
<1> SUFFICES ASSUME TypeOK, SlotInv(c), [Next]_vars PROVE SlotInv(c)'
  OBVIOUS
<1> USE CapAssumption DEF SlotInv
<1>0. run[c] \in Process /\ c \in Runner /\ counter \in Count /\ started \in Nat
  BY DEF TypeOK
<1>1. ASSUME UNCHANGED <<counter, started, torn>>, run[c].pc # "count",
             run'[c].pc \notin {"truncate", "count"}
      PROVE  SlotInv(c)'
  BY <1>1 DEF SlotsTaken
<1>2. CASE ReadSlot(c)
  <2>1. CASE ExitFailed(c)
    BY <1>0, <1>1, <1>2, <2>1, ExitJob DEF ReadSlot, At
  <2>2. CASE ~ ExitFailed(c)
    <3>1. run' = [run EXCEPT ![c] = [@ EXCEPT
                    !.pc = "truncate",
                    !.slot = [today |-> TRUE, n |-> SlotsTaken + 1]]]
      BY <1>2, <2>2 DEF ReadSlot
    <3>2. run'[c].pc = "truncate" /\ run'[c].slot = [today |-> TRUE, n |-> SlotsTaken + 1]
      BY <3>1, <1>0 DEF TypeOK, Process
    <3>3. run'[c].slot.today /\ run'[c].slot.n = SlotsTaken + 1
      BY <3>2
    <3>4. UNCHANGED <<counter, started, torn>> /\ run[c].pc = "slot"
      BY <1>2 DEF ReadSlot, At
    <3> QED BY <1>0, <3>2, <3>3, <3>4 DEF SlotsTaken
  <2> QED BY <2>1, <2>2
<1>3. CASE TruncateSlot(c)
  <2>1. run'[c].pc = "count" /\ run'[c].slot = run[c].slot
    BY <1>0, <1>3 DEF TruncateSlot, Goto, TypeOK, Process
  <2> QED BY <1>0, <1>3, <2>1 DEF TruncateSlot, At
<1>4. CASE WriteSlot(c)
  <2>1. run'[c].pc = "room"
    BY <1>0, <1>4 DEF WriteSlot, TypeOK, Process
  <2>2. run[c].pc = "count" /\ counter' = run[c].slot /\ torn' = torn
    BY <1>4 DEF WriteSlot, At
  <2>3. started' = IF run[c].slot.today /\ started <= DailyJobCap
                   THEN started + 1 ELSE started
    BY <1>4 DEF WriteSlot
  <2>4. run[c].slot.n \in 0..DailyJobCap
    BY <1>0 DEF Process, Count
  <2> QED BY <1>0, <2>1, <2>2, <2>3, <2>4 DEF SlotsTaken
<1>5. CASE Midnight
  <2>1. run'[c].pc = run[c].pc /\ run'[c].slot.today = FALSE
    BY <1>0, <1>5 DEF Midnight, Process, Count
  <2>2. started' = 0 /\ torn' = FALSE
    BY <1>5 DEF Midnight
  <2>3. counter'.today = FALSE
    BY <1>0, <1>5 DEF Midnight, Count
  <2> QED BY <2>1, <2>2, <2>3 DEF SlotsTaken
<1>6. CASE Refused(c) \/ Crash(c)
  <2>1. CASE At(c, "count")
    BY <1>6, <2>1 DEF Refused, Crash
  <2>2. CASE ~ At(c, "count")
    BY <1>0, <1>1, <1>6, <2>2, ExitJob DEF Refused, Crash, At, TypeOK
  <2> QED BY <2>1, <2>2
<1>7. CASE Person \/ InboxFetch \/ UNCHANGED vars
  BY <1>7 DEF InboxFetch, Person, EditStatus, MergePR, ClosePR, DeleteBranch, RemoveWreck,
              RemoveStale, SlotsTaken
<1>8. CASE RunByHand(c) \/ (Progress(c) /\ ~ ReadSlot(c) /\ ~ TruncateSlot(c) /\ ~ WriteSlot(c))
  <2>1. UNCHANGED <<counter, started, torn>> /\ run[c].pc \notin {"slot", "truncate", "count"}
    BY <1>8
    DEF Progress, Tick, RunByHand, FetchDefault, NextTask, ReadTask, DoctorGit,
        DoctorCriterion, CheckRoom, FetchForWorktree, AddWorktree, RunPhases,
        PhasesFail, SwitchBranch, Push, PushFails, CreatePR, Remove, LeaveInPlace,
        ClearOlderWreck, MoveWorktree, At
  <2>2. run'[c].pc \notin {"truncate", "count"}
    <3>1. CASE Tick(c) \/ RunByHand(c)
      <4>1. ASSUME Tick(c) PROVE run'[c].pc = "fetch"
        BY <4>1, <1>0, BeginPc DEF Tick, TypeOK
      <4>2. ASSUME RunByHand(c) PROVE run'[c].pc = "fetch"
        <5>1. PICK k \in Kind, t \in Task \cup {NoTask} :
                run' = [run EXCEPT ![c] = Begin(k, t = NoTask, t)]
          BY <4>2 DEF RunByHand
        <5>2. Begin(k, t = NoTask, t).pc = "fetch"
          BY BeginPc
        <5> QED BY <5>1, <5>2, <1>0 DEF TypeOK
      <4> QED BY <3>1, <4>1, <4>2
    <3>2. CASE NextTask(c)
      <4>1. CASE ExitOk(c)
        BY <1>0, <4>1, ExitJob
      <4>2. CASE ~ ExitOk(c)
        <5>1. PICK t : run' = [run EXCEPT ![c] = [@ EXCEPT !.pc = "read", !.task = t]]
          BY <3>2, <4>2 DEF NextTask
        <5> QED BY <1>0, <5>1 DEF TypeOK, Process
      <4> QED BY <4>1, <4>2
    <3>3. CASE ReadTask(c)
      <4>1. CASE ExitFailed(c)
        BY <1>0, <4>1, ExitJob
      <4>2. CASE ~ ExitFailed(c)
        BY <1>0, <3>3, <4>2 DEF Goto, ReadTask, TypeOK, Process
      <4> QED BY <4>1, <4>2
    <3>4. CASE \E l \in Step \ {"truncate", "count"} : Goto(c, l)
      BY <1>0, <3>4, GotoJob
    <3>5. CASE ExitFailed(c) \/ ExitOk(c)
      BY <1>0, <3>5, ExitJob
    <3>6. CASE FetchDefault(c)
      BY <1>0, <3>6, GotoJob DEF FetchDefault, Step
    <3> QED
      BY <1>8, <3>1, <3>2, <3>3, <3>4, <3>5, <3>6
      DEF Progress, DoctorGit, DoctorCriterion, CheckRoom, FetchForWorktree,
          AddWorktree, RunPhases, PhasesFail, SwitchBranch, Push, PushFails, CreatePR,
          Remove, LeaveInPlace, ClearOlderWreck, MoveWorktree, Keep, Step, Holding
  <2> QED BY <1>1, <2>1, <2>2
<1>9. CASE GrepDies(c) \/ ParkFails(c)
  BY <1>0, <1>1, <1>9, ExitJob DEF GrepDies, ParkFails, At
<1> QED
  BY <1>0, <1>2, <1>3, <1>4, <1>5, <1>6, <1>7, <1>8, <1>9 DEF Next, Outage

\* A timer alone never starts more jobs in a day than the cap allows.
THEOREM SoloDailyCap ==
  ASSUME NEW c, Runner = {c}
  PROVE  Spec => []DailyCap
<1>1. Init => SlotInv(c)
  BY CapAssumption DEF Init, SlotInv, SlotsTaken, Empty, Idle
<1>2. TypeOK /\ SlotInv(c) => DailyCap
  BY DEF SlotInv, DailyCap
<1> QED BY <1>1, <1>2, TypeCorrect, SlotStep, PTL DEF Spec

\* The stretches of a run that the queue's promises and the cap on wrecks rest
\* on: a task is chosen, no worktree was found, there was room for a wreck.
Clear == {"criterion", "slot", "truncate", "count", "room", "refetch", "add"}
Chosen == {"read", "doctor"} \cup Clear
Roomy == {"refetch", "add"} \cup Holding

Restarted(r) == run'[r].pc \in {"idle", "fetch"}

Picked(r) ==
  /\ run[r].pc = "pick" /\ run'[r].pc = "read"
  /\ run'[r].task \in InQueue(run'[r].kind)
  /\ UNCHANGED <<worktrees, wrecks, published>>

Advanced(r) ==
  /\ JobOf(r)' = JobOf(r) /\ run'[r].next = run[r].next
  /\ run'[r].pc \in Chosen =>
       \/ run[r].pc \in Chosen
       \/ run[r].pc = "fetch" /\ ~ run[r].next
  /\ run'[r].pc = "pick" => fetchHead' = status
  /\ run'[r].pc \in Clear => run[r].pc \in Clear \/ worktrees = {}
  /\ run'[r].pc \in Chosen => UNCHANGED <<worktrees, wrecks, published>>
  /\ run'[r].pc \in Roomy =>
       \/ run[r].pc \in Roomy
       \/ ~ (Cardinality(wrecks) >= MaxFailed) /\ UNCHANGED wrecks

LEMMA GotoCarries ==
  ASSUME TypeOK, NEW r \in Runner, NEW l \in Step, Goto(r, l)
  PROVE  run'[r].next = run[r].next
BY DEF TypeOK, Goto, Process

LEMMA Course ==
  ASSUME TypeOK, NEW r \in Runner, Progress(r) \/ Outage(r) \/ RunByHand(r)
  PROVE  Restarted(r) \/ Picked(r) \/ Advanced(r)
<1> USE DEF At
<1>1. CASE ExitFailed(r) \/ ExitOk(r)
  BY <1>1, ExitJob DEF Restarted
<1>2. CASE Tick(r) \/ RunByHand(r)
  <2>1. ASSUME Tick(r) PROVE run'[r].pc = "fetch"
    BY <2>1, BeginPc DEF Tick, TypeOK
  <2>2. ASSUME RunByHand(r) PROVE run'[r].pc = "fetch"
    <3>1. PICK k \in Kind, t \in Task \cup {NoTask} :
            run' = [run EXCEPT ![r] = Begin(k, t = NoTask, t)]
      BY <2>2 DEF RunByHand
    <3>2. Begin(k, t = NoTask, t).pc = "fetch"
      BY BeginPc
    <3> QED BY <3>1, <3>2 DEF TypeOK
  <2> QED BY <1>2, <2>1, <2>2 DEF Restarted
<1>3. CASE NextTask(r) /\ ~ ExitOk(r)
  <2>1. PICK t \in InQueue(run[r].kind) :
          run' = [run EXCEPT ![r] = [@ EXCEPT !.pc = "read", !.task = t]]
    BY <1>3 DEF NextTask
  <2>2. run'[r].pc = "read" /\ run'[r].task = t /\ run'[r].kind = run[r].kind
    BY <2>1 DEF TypeOK, Process
  <2>3. UNCHANGED <<fetchHead, worktrees, wrecks, published>>
    BY <1>3 DEF NextTask
  <2> QED BY <1>3, <2>2, <2>3 DEF NextTask, Picked, InQueue
<1>4. CASE ReadTask(r) /\ ~ ExitFailed(r)
  <2>1. run' = [run EXCEPT ![r].pc = "doctor"]
    BY <1>4 DEF ReadTask, Goto
  <2>2. /\ run'[r].pc = "doctor" /\ run'[r].next = run[r].next
        /\ JobOf(r)' = JobOf(r)
    BY <2>1 DEF TypeOK, Process, JobOf
  <2> QED BY <1>4, <2>2 DEF ReadTask, Advanced, Chosen, Clear, Roomy, Holding
<1>5. CASE ReadSlot(r) /\ ~ ExitFailed(r)
  <2>1. PICK s : run' = [run EXCEPT ![r] = [@ EXCEPT !.pc = "truncate", !.slot = s]]
    BY <1>5 DEF ReadSlot
  <2>2. /\ run'[r].pc = "truncate" /\ run'[r].next = run[r].next
        /\ JobOf(r)' = JobOf(r)
    BY <2>1 DEF TypeOK, Process, JobOf
  <2> QED BY <1>5, <2>2 DEF ReadSlot, Advanced, Chosen, Clear, Roomy, Holding
<1>6. CASE WriteSlot(r)
  <2>1. /\ run'[r].pc = "room" /\ run'[r].next = run[r].next
        /\ JobOf(r)' = JobOf(r)
    BY <1>6 DEF WriteSlot, TypeOK, Process, JobOf
  <2> QED BY <1>6, <2>1 DEF WriteSlot, Advanced, Chosen, Clear, Roomy, Holding
<1>7. CASE FetchDefault(r) \/ DoctorCriterion(r) \/ TruncateSlot(r) \/ FetchForWorktree(r)
  BY <1>7, GotoJob, GotoCarries
  DEF FetchDefault, DoctorCriterion, TruncateSlot, FetchForWorktree, Advanced,
      Restarted, Chosen, Clear, Roomy, Holding, Step
<1>8. CASE (DoctorGit(r) \/ CheckRoom(r)) /\ ~ ExitFailed(r)
  BY <1>8, GotoJob, GotoCarries
  DEF DoctorGit, CheckRoom, Advanced, Chosen, Clear, Roomy, Holding, Step
<1>9. CASE AddWorktree(r) /\ ~ ExitFailed(r)
  BY <1>9, GotoJob, GotoCarries
  DEF AddWorktree, Advanced, Chosen, Clear, Roomy, Holding, Step
<1>10. CASE \/ RunPhases(r) \/ PhasesFail(r) \/ SwitchBranch(r) \/ Push(r)
            \/ PushFails(r) \/ CreatePR(r) \/ ClearOlderWreck(r)
  BY <1>10, GotoJob, GotoCarries
  DEF RunPhases, PhasesFail, SwitchBranch, Push, PushFails, CreatePR,
      ClearOlderWreck, Keep, Advanced, Chosen, Clear, Roomy, Holding, Step
<1> QED
  BY <1>1, <1>2, <1>3, <1>4, <1>5, <1>6, <1>7, <1>8, <1>9, <1>10
  DEF Progress, Outage, GrepDies, ParkFails, Refused, Crash, Remove, LeaveInPlace,
      MoveWorktree

-----------------------------------------------------------------------------
(* What a job was chosen on *)

\* FETCH_HEAD changes only to what origin has, whoever fetches.
LEMMA FetchHeadStep == [Next]_vars => fetchHead' \in {fetchHead, status}
<1> SUFFICES ASSUME [Next]_vars PROVE fetchHead' \in {fetchHead, status}
  OBVIOUS
<1>1. ASSUME NEW r \in Runner, Progress(r) PROVE fetchHead' \in {fetchHead, status}
  BY <1>1
  DEF Progress, Tick, FetchDefault, NextTask, ReadTask, DoctorGit, DoctorCriterion,
      ReadSlot, TruncateSlot, WriteSlot, CheckRoom, FetchForWorktree, AddWorktree,
      RunPhases, PhasesFail, SwitchBranch, Push, PushFails, CreatePR, Remove,
      LeaveInPlace, ClearOlderWreck, MoveWorktree
<1>2. ASSUME NEW r \in Runner, Outage(r) \/ RunByHand(r) PROVE UNCHANGED fetchHead
  BY <1>2 DEF Outage, GrepDies, ParkFails, Refused, Crash, RunByHand
<1>3. CASE Person
  BY <1>3 DEF Person, EditStatus, MergePR, ClosePR, DeleteBranch, RemoveWreck, RemoveStale
<1>4. CASE Midnight \/ InboxFetch \/ UNCHANGED vars
  BY <1>4 DEF Midnight, InboxFetch
<1> QED BY <1>1, <1>2, <1>3, <1>4 DEF Next

\* A task picked from the queue is the one the job goes on with.
LEMMA OrderStep ==
  ASSUME TypeOK, [Next]_vars, NEW r \in Runner
  PROVE  /\ run'[r].pc = "pick" => run[r].pc = "pick" \/ fetchHead' = status
         /\ run'[r].pc \in Chosen /\ run'[r].next =>
              \/ run[r].pc \in Chosen /\ run[r].next /\ JobOf(r)' = JobOf(r)
              \/ run[r].pc = "pick" /\ run'[r].task \in InQueue(run'[r].kind)
<1> DEFINE Goal == /\ run'[r].pc = "pick" => run[r].pc = "pick" \/ fetchHead' = status
                   /\ run'[r].pc \in Chosen /\ run'[r].next =>
                        \/ run[r].pc \in Chosen /\ run[r].next /\ JobOf(r)' = JobOf(r)
                        \/ run[r].pc = "pick" /\ run'[r].task \in InQueue(run'[r].kind)
<1> SUFFICES Goal
  OBVIOUS
<1>1. ASSUME run'[r].pc = run[r].pc, run'[r].next = run[r].next, JobOf(r)' = JobOf(r)
      PROVE  Goal
  BY <1>1
<1>2. ASSUME NEW q \in Runner, Progress(q) \/ Outage(q) \/ RunByHand(q) PROVE Goal
  <2>1. CASE q # r
    BY <1>1, <1>2, <2>1, StepOfOne DEF JobOf
  <2>2. CASE q = r
    BY <1>2, <2>2, Course DEF Restarted, Picked, Advanced, Chosen, Clear
  <2> QED BY <2>1, <2>2
<1>3. CASE Midnight
  BY <1>1, <1>3, ClockStays
<1>4. CASE Person \/ InboxFetch \/ UNCHANGED vars
  <2>1. UNCHANGED run
    BY <1>4 DEF Person, EditStatus, MergePR, ClosePR, DeleteBranch, RemoveWreck,
                RemoveStale, InboxFetch
  <2> QED BY <1>1, <2>1 DEF JobOf
<1> QED BY <1>2, <1>3, <1>4 DEF Next

-----------------------------------------------------------------------------
(* The cap on wrecks *)

WreckInv(c) ==
  /\ IsFiniteSet(wrecks)
  /\ Cardinality(wrecks) <= MaxFailed
  /\ run[c].pc \in Roomy => Cardinality(wrecks) < MaxFailed

LEMMA WreckStep ==
  ASSUME NEW c, Runner = {c}
  PROVE  TypeOK /\ WreckInv(c) /\ [Next]_vars => WreckInv(c)'
<1> SUFFICES ASSUME TypeOK, WreckInv(c), [Next]_vars PROVE WreckInv(c)'
  OBVIOUS
<1> USE CapAssumption DEF WreckInv
<1>0. Cardinality(wrecks) \in Nat
  BY FS_CardinalityType
<1>1. ASSUME NEW j, wrecks' = wrecks \ {j}
      PROVE  IsFiniteSet(wrecks') /\ Cardinality(wrecks') <= Cardinality(wrecks)
  BY <1>1, FS_Subset
<1>2. CASE Progress(c) \/ Outage(c) \/ RunByHand(c)
  <2>1. Restarted(c) \/ Picked(c) \/ Advanced(c)
    BY <1>2, Course
  <2>2. CASE MoveWorktree(c)
    <3>1. run[c].pc \in Roomy /\ wrecks' = wrecks \cup {JobOf(c)}
      BY <2>2 DEF MoveWorktree, At, Roomy, Holding
    <3> DEFINE more == wrecks \cup {JobOf(c)}
    <3>a. /\ IsFiniteSet(more)
          /\ \/ Cardinality(more) = Cardinality(wrecks)
             \/ Cardinality(more) = Cardinality(wrecks) + 1
      BY FS_AddElement
    <3>2. IsFiniteSet(wrecks') /\ Cardinality(wrecks') <= Cardinality(wrecks) + 1
      BY <1>0, <3>1, <3>a
    <3>3. run'[c].pc \notin Roomy
      BY <2>2, ExitJob DEF MoveWorktree, Roomy, Holding
    <3>4. Cardinality(wrecks') \in Nat
      BY <3>2, FS_CardinalityType
    <3> QED BY <1>0, <3>1, <3>2, <3>3, <3>4
  <2>3. CASE ClearOlderWreck(c)
    <3>1. run[c].pc \in Roomy /\ wrecks' = wrecks \ {JobOf(c)}
      BY <2>3 DEF ClearOlderWreck, At, Roomy, Holding
    <3>2. IsFiniteSet(wrecks') /\ Cardinality(wrecks') <= Cardinality(wrecks)
      BY <1>1, <3>1
    <3>3. Cardinality(wrecks') \in Nat
      BY <3>2, FS_CardinalityType
    <3> QED BY <1>0, <3>1, <3>2, <3>3
  <2>4. CASE UNCHANGED wrecks
    <3>1. run'[c].pc \in Roomy => run[c].pc \in Roomy \/ ~ (Cardinality(wrecks) >= MaxFailed)
      BY <2>1 DEF Restarted, Picked, Advanced, Roomy, Holding
    <3> QED BY <1>0, <2>4, <3>1
  <2> QED
    BY <1>2, <2>2, <2>3, <2>4
    DEF Progress, Outage, Tick, RunByHand, FetchDefault, NextTask, ReadTask,
        DoctorGit, DoctorCriterion, ReadSlot, TruncateSlot, WriteSlot, CheckRoom,
        FetchForWorktree, AddWorktree, RunPhases, PhasesFail, SwitchBranch, Push,
        PushFails, CreatePR, Remove, LeaveInPlace, GrepDies, ParkFails, Refused, Crash
<1>3. CASE Person
  <2>1. UNCHANGED run
    BY <1>3 DEF Person, EditStatus, MergePR, ClosePR, DeleteBranch, RemoveWreck, RemoveStale
  <2>2. CASE UNCHANGED wrecks
    BY <2>1, <2>2
  <2>3. ASSUME NEW j \in Job, RemoveWreck(j) PROVE WreckInv(c)'
    <3>1. IsFiniteSet(wrecks') /\ Cardinality(wrecks') <= Cardinality(wrecks)
      BY <1>1, <2>3 DEF RemoveWreck
    <3>2. Cardinality(wrecks') \in Nat
      BY <3>1, FS_CardinalityType
    <3> QED BY <1>0, <2>1, <3>1, <3>2
  <2> QED BY <1>3, <2>2, <2>3
          DEF Person, EditStatus, MergePR, ClosePR, DeleteBranch, RemoveStale
<1>4. CASE Midnight
  <2>1. run'[c].pc = run[c].pc /\ UNCHANGED wrecks
    BY <1>4, ClockStays
  <2> QED BY <2>1
<1>5. CASE InboxFetch \/ UNCHANGED vars
  BY <1>5 DEF InboxFetch
<1> QED BY <1>2, <1>3, <1>4, <1>5 DEF Next

\* A timer alone never parks more wrecks than maxFailed.
THEOREM SoloWreckCap ==
  ASSUME NEW c, Runner = {c}
  PROVE  Spec => []WrecksAreBounded
<1>1. Init => WreckInv(c)
  BY CapAssumption, FS_EmptySet DEF Init, WreckInv, Roomy, Holding, Idle
<1>2. WreckInv(c) => WrecksAreBounded
  BY DEF WreckInv, WrecksAreBounded
<1> QED BY <1>1, <1>2, TypeCorrect, WreckStep, PTL DEF Spec

-----------------------------------------------------------------------------
(* The queue's promises *)

QueueInv(c) ==
  /\ run[c].pc \in Chosen /\ run[c].next => JobOf(c) \notin published \cup wrecks
  /\ run[c].pc \in Clear => worktrees = {}

LEMMA QueueStep ==
  ASSUME NEW c, Runner = {c}
  PROVE  TypeOK /\ QueueInv(c) /\ [Next]_vars => QueueInv(c)'
<1> SUFFICES ASSUME TypeOK, QueueInv(c), [Next]_vars PROVE QueueInv(c)'
  OBVIOUS
<1> USE DEF QueueInv
<1>1. CASE Progress(c) \/ Outage(c) \/ RunByHand(c)
  <2>1. CASE Restarted(c)
    BY <2>1 DEF Restarted, Chosen, Clear
  <2>2. CASE Picked(c)
    BY <2>2 DEF Picked, InQueue, JobOf, Chosen, Clear
  <2>3. CASE Advanced(c)
    BY <2>3 DEF Advanced, Chosen
  <2> QED BY <1>1, <2>1, <2>2, <2>3, Course
<1>2. CASE Person
  <2>1. /\ UNCHANGED run
        /\ published' \subseteq published
        /\ wrecks' \subseteq wrecks
        /\ worktrees' \subseteq worktrees
    BY <1>2 DEF Person, EditStatus, MergePR, ClosePR, DeleteBranch, RemoveWreck, RemoveStale
  <2> QED BY <2>1 DEF JobOf
<1>3. CASE Midnight
  <2>1. /\ run'[c].pc = run[c].pc /\ run'[c].next = run[c].next
        /\ JobOf(c)' = JobOf(c)
    BY <1>3, ClockStays
  <2> QED BY <1>3, <2>1 DEF Midnight
<1>4. CASE InboxFetch \/ UNCHANGED vars
  BY <1>4 DEF InboxFetch, JobOf
<1> QED BY <1>1, <1>2, <1>3, <1>4 DEF Next

LEMMA SoloQueue ==
  ASSUME NEW c, Runner = {c}
  PROVE  Spec => []QueueInv(c)
<1>1. Init => QueueInv(c)
  BY DEF Init, QueueInv, Chosen, Clear, Idle
<1> QED BY <1>1, TypeCorrect, QueueStep, PTL DEF Spec

\* A timer alone never runs again, by itself, a job that failed.
THEOREM SoloRetriedByAPerson ==
  ASSUME NEW c, Runner = {c}
  PROVE  Spec => RetriedByAPerson
<1>1. EvidenceIsKept /\ QueueInv(c) /\ [Next]_vars =>
        [\A r \in Runner : Starts(r) /\ run[r].next => JobOf(r) \notin unread]_vars
  BY DEF EvidenceIsKept, QueueInv, Starts, At, Chosen, Clear
<1> QED BY <1>1, Evidence, SoloQueue, PTL DEF Spec, RetriedByAPerson

\* A timer alone never measures or builds what already has a branch on origin.
THEOREM SoloNotDoneTwice ==
  ASSUME NEW c, Runner = {c}
  PROVE  Spec => NotDoneTwice
<1>1. QueueInv(c) /\ [Next]_vars =>
        [\A r \in Runner : Starts(r) /\ run[r].next => JobOf(r) \notin published]_vars
  BY DEF QueueInv, Starts, At, Chosen, Clear
<1> QED BY <1>1, SoloQueue, PTL DEF Spec, NotDoneTwice
=============================================================================
