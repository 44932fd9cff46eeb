---------------------------- MODULE JalonHostProofs ----------------------------
(* Theorems about JalonHost: each component keeps its own specification beside *)
(* the other one, and a job starts only what origin asked for while it ran.    *)
EXTENDS JalonHost, TLAPS

LEMMA JobsStutter == UNCHANGED jobVars => UNCHANGED J!vars
BY DEF jobVars, J!vars, J!origin, J!clone, J!history

LEMMA InboxStutter == UNCHANGED inboxVars => UNCHANGED C!vars
BY DEF inboxVars, C!vars

LEMMA FetchStep == J!InboxFetch => J!Next
BY DEF J!Next

\* A commit of the inbox is to the jobs an edit of one status, or nothing.
LEMMA LandsStep ==
  ASSUME NEW c, Lands(c)
  PROVE  J!Next \/ UNCHANGED J!vars
<1>1. CASE UNCHANGED jobVars
  BY <1>1, JobsStutter
<1>2. ASSUME NEW t \in JobTasks, NEW s \in J!Status, J!EditStatus(t, s) PROVE J!Next
  BY <1>2 DEF J!Next, J!Person
<1> QED BY <1>1, <1>2 DEF Lands

LEMMA JobsStep == [Next]_vars => J!Next \/ UNCHANGED J!vars
<1> SUFFICES ASSUME [Next]_vars PROVE J!Next \/ UNCHANGED J!vars
  OBVIOUS
<1>1. CASE InboxProgress
  <2>1. CASE LookUp({}) \/ AddWorktree
    BY <2>1, JobsStutter, FetchStep DEF LookUp, AddWorktree
  <2>2. CASE InboxAlone \/ NoRoom \/ PushOvertaken
    BY <2>2, JobsStutter DEF InboxAlone, NoRoom, PushOvertaken, jobVars
  <2>3. CASE PushDefault
    BY <2>3, LandsStep DEF PushDefault
  <2> QED BY <1>1, <2>1, <2>2, <2>3 DEF InboxProgress
<1>2. CASE InboxOutage
  <2>1. CASE LookUp({here})
    BY <2>1, JobsStutter, FetchStep DEF LookUp
  <2>2. CASE PushUnanswered
    BY <2>2, JobsStutter, LandsStep DEF PushUnanswered
  <2>3. CASE UNCHANGED jobVars
    BY <2>3, JobsStutter
  <2> QED BY <1>2, <2>1, <2>2, <2>3 DEF InboxOutage, jobVars
<1>3. ASSUME NEW b \in branches, MergeRequest(b) PROVE J!Next \/ UNCHANGED J!vars
  BY <1>3, LandsStep DEF MergeRequest
<1>4. ASSUME NEW r \in J!Runner, JobProgress(r) \/ JobOutage(r) PROVE J!Next
  <2>1. J!Progress(r) \/ J!Outage(r)
    BY <1>4 DEF JobProgress, JobOutage, DoctorGit, J!Progress, J!Outage
  <2> QED BY <2>1 DEF J!Next
<1>5. CASE PersonAtJobs
  BY <1>5 DEF PersonAtJobs, J!Next
<1>6. CASE PersonAtInbox
  BY <1>6, JobsStutter DEF PersonAtInbox, jobVars
<1>7. CASE Midnight
  BY <1>7 DEF Midnight, J!Next
<1>8. CASE UNCHANGED vars
  BY <1>8, JobsStutter DEF vars
<1> QED BY <1>1, <1>2, <1>3, <1>4, <1>5, <1>6, <1>7, <1>8 DEF Next

\* Beside an inbox in the same clone, the jobs are the jobs of AgentJobs.
THEOREM JobsBesideTheInbox == Spec => Jobs
<1>1. Init => J!Init
  BY DEF Init
<1>2. [Next]_vars => [J!Next]_(J!vars)
  BY JobsStep
<1> QED BY <1>1, <1>2, PTL DEF Spec, Jobs, J!Spec

LEMMA InboxStep == [Next]_vars => C!Next \/ UNCHANGED C!vars
<1> SUFFICES ASSUME [Next]_vars PROVE C!Next \/ UNCHANGED C!vars
  OBVIOUS
<1> USE DEF C!Next
<1>1. CASE InboxProgress
  BY <1>1 DEF InboxProgress, InboxAlone, LookUp, AddWorktree, NoRoom, PushDefault,
              PushOvertaken, C!Progress, C!Outage
<1>2. CASE InboxOutage
  <2>1. here \in {here} /\ here \notin {}
    OBVIOUS
  <2>2. {here} # {}
    BY <2>1
  <2>3. {here} \in (SUBSET {here}) \ {{}}
    BY <2>2
  <2> QED BY <1>2, <2>3 DEF InboxOutage, LookUp, PushUnanswered, C!Outage
<1>3. ASSUME NEW b \in branches, MergeRequest(b) PROVE C!Next
  BY <1>3 DEF MergeRequest, C!Person
<1>4. ASSUME NEW r \in J!Runner, JobProgress(r) \/ JobOutage(r) PROVE UNCHANGED C!vars
  BY <1>4, InboxStutter DEF JobProgress, JobOutage, DoctorGit, inboxVars
<1>5. CASE PersonAtJobs
  BY <1>5, InboxStutter DEF PersonAtJobs
<1>6. CASE PersonAtInbox
  BY <1>6 DEF PersonAtInbox, C!Person
<1>7. CASE Midnight
  BY <1>7, InboxStutter DEF Midnight
<1>8. CASE UNCHANGED vars
  BY <1>8, InboxStutter DEF vars
<1> QED BY <1>1, <1>2, <1>3, <1>4, <1>5, <1>6, <1>7, <1>8 DEF Next

\* Beside the jobs in the same clone, the inbox is the inbox of Capture.
THEOREM InboxBesideTheJobs == Spec => Inbox
<1>1. Init => C!Init
  BY DEF Init
<1>2. [Next]_vars => [C!Next]_(C!vars)
  BY InboxStep
<1> QED BY <1>1, <1>2, PTL DEF Spec, Inbox, C!Spec

-----------------------------------------------------------------------------
(* What is proved of the jobs alone, carried over.  JP!X and J!X are the same   *)
(* definition instantiated twice, which the provers see once both are expanded. *)

JP == INSTANCE AgentJobsProofs WITH Task <- JobTasks, run <- jobRun, worktrees <- jobWorktrees

USE DEF J!At, JP!At, J!Goto, JP!Goto, J!ExitFailed, JP!ExitFailed,
        J!ExitOk, JP!ExitOk, J!Begin, JP!Begin, J!Idle, JP!Idle,
        J!Empty, JP!Empty, J!JobOf, JP!JobOf, J!Holds, JP!Holds,
        J!Parking, JP!Parking, J!Keep, JP!Keep, J!Act, JP!Act,
        J!InQueue, JP!InQueue, J!QueueStatus, JP!QueueStatus,
        J!SlotsTaken, JP!SlotsTaken, J!NoTask, JP!NoTask, J!Status, JP!Status,
        J!Job, JP!Job, J!Kind, JP!Kind, J!Runner, JP!Runner, J!Count, JP!Count,
        J!Process, JP!Process, J!Step, JP!Step, J!Holding, JP!Holding,
        J!origin, JP!origin, J!clone, JP!clone, J!history, JP!history,
        J!vars, JP!vars, J!HasTask, JP!HasTask

LEMMA SameSize == \A S : J!Cardinality(S) = JP!Cardinality(S)
BY DEF J!Cardinality, JP!Cardinality

LEMMA SameState == (J!TypeOK <=> JP!TypeOK) /\ (J!Init <=> JP!Init)
BY DEF J!TypeOK, JP!TypeOK, J!Init, JP!Init

LEMMA SameProgress == \A r : J!Progress(r) <=> JP!Progress(r)
<1> TAKE r
<1>1. J!Tick(r) <=> JP!Tick(r)
  BY DEF J!Tick, JP!Tick
<1>2. J!FetchDefault(r) <=> JP!FetchDefault(r)
  BY DEF J!FetchDefault, JP!FetchDefault
<1>3. J!NextTask(r) <=> JP!NextTask(r)
  BY DEF J!NextTask, JP!NextTask
<1>4. J!ReadTask(r) <=> JP!ReadTask(r)
  BY DEF J!ReadTask, JP!ReadTask
<1>5. J!DoctorGit(r) <=> JP!DoctorGit(r)
  BY DEF J!DoctorGit, JP!DoctorGit
<1>6. J!DoctorCriterion(r) <=> JP!DoctorCriterion(r)
  BY DEF J!DoctorCriterion, JP!DoctorCriterion
<1>7. J!ReadSlot(r) <=> JP!ReadSlot(r)
  BY DEF J!ReadSlot, JP!ReadSlot
<1>8. J!TruncateSlot(r) <=> JP!TruncateSlot(r)
  BY DEF J!TruncateSlot, JP!TruncateSlot
<1>9. J!WriteSlot(r) <=> JP!WriteSlot(r)
  BY DEF J!WriteSlot, JP!WriteSlot
<1>10. J!CheckRoom(r) <=> JP!CheckRoom(r)
  BY SameSize DEF J!CheckRoom, JP!CheckRoom
<1>11. J!FetchForWorktree(r) <=> JP!FetchForWorktree(r)
  BY DEF J!FetchForWorktree, JP!FetchForWorktree
<1>12. J!AddWorktree(r) <=> JP!AddWorktree(r)
  BY DEF J!AddWorktree, JP!AddWorktree
<1>13. J!RunPhases(r) <=> JP!RunPhases(r)
  BY DEF J!RunPhases, JP!RunPhases
<1>14. J!PhasesFail(r) <=> JP!PhasesFail(r)
  BY DEF J!PhasesFail, JP!PhasesFail
<1>15. J!SwitchBranch(r) <=> JP!SwitchBranch(r)
  BY DEF J!SwitchBranch, JP!SwitchBranch
<1>16. J!Push(r) <=> JP!Push(r)
  BY DEF J!Push, JP!Push
<1>17. J!PushFails(r) <=> JP!PushFails(r)
  BY DEF J!PushFails, JP!PushFails
<1>18. J!CreatePR(r) <=> JP!CreatePR(r)
  BY DEF J!CreatePR, JP!CreatePR
<1>19. J!Remove(r) <=> JP!Remove(r)
  BY DEF J!Remove, JP!Remove
<1>20. J!LeaveInPlace(r) <=> JP!LeaveInPlace(r)
  BY DEF J!LeaveInPlace, JP!LeaveInPlace
<1>21. J!ClearOlderWreck(r) <=> JP!ClearOlderWreck(r)
  BY DEF J!ClearOlderWreck, JP!ClearOlderWreck
<1>22. J!MoveWorktree(r) <=> JP!MoveWorktree(r)
  BY DEF J!MoveWorktree, JP!MoveWorktree
<1> QED BY <1>1, <1>2, <1>3, <1>4, <1>5, <1>6, <1>7, <1>8, <1>9, <1>10, <1>11,
           <1>12, <1>13, <1>14, <1>15, <1>16, <1>17, <1>18, <1>19, <1>20, <1>21,
           <1>22 DEF J!Progress, JP!Progress

LEMMA SameOutage == \A r : J!Outage(r) <=> JP!Outage(r)
BY DEF J!Outage, JP!Outage, J!GrepDies, JP!GrepDies, J!ParkFails, JP!ParkFails,
       J!Refused, JP!Refused, J!Crash, JP!Crash

LEMMA SamePerson == J!Person <=> JP!Person
<1>1. \A t, s : J!EditStatus(t, s) <=> JP!EditStatus(t, s)
  BY DEF J!EditStatus, JP!EditStatus
<1>2. \A j : (J!MergePR(j) <=> JP!MergePR(j)) /\ (J!ClosePR(j) <=> JP!ClosePR(j))
  BY DEF J!MergePR, JP!MergePR, J!ClosePR, JP!ClosePR
<1>3. \A j : J!DeleteBranch(j) <=> JP!DeleteBranch(j)
  BY DEF J!DeleteBranch, JP!DeleteBranch
<1>4. \A j : /\ J!RemoveWreck(j) <=> JP!RemoveWreck(j)
             /\ J!RemoveStale(j) <=> JP!RemoveStale(j)
  BY DEF J!RemoveWreck, JP!RemoveWreck, J!RemoveStale, JP!RemoveStale
<1> QED BY <1>1, <1>2, <1>3, <1>4 DEF J!Person, JP!Person

LEMMA SameStep == J!Next <=> JP!Next
<1>1. \A r : J!RunByHand(r) <=> JP!RunByHand(r)
  BY DEF J!RunByHand, JP!RunByHand
<1>2. (J!Midnight <=> JP!Midnight) /\ (J!InboxFetch <=> JP!InboxFetch)
  BY DEF J!Midnight, JP!Midnight, J!InboxFetch, JP!InboxFetch
<1> QED BY SameProgress, SameOutage, SamePerson, <1>1, <1>2 DEF J!Next, JP!Next

LEMMA SameSpec == Spec => JP!Spec
<1>1. J!Spec => JP!Spec
  BY SameState, SameStep, PTL DEF J!Spec, JP!Spec
<1> QED BY JobsBesideTheInbox, <1>1, PTL DEF Jobs

\* Every variable of the jobs keeps to its type beside an inbox.
THEOREM TypeBesideTheInbox == Spec => []J!TypeOK
<1>1. JP!Spec => []JP!TypeOK
  BY JP!TypeCorrect, JobsAssumption
<1> QED BY <1>1, SameSpec, SameState, PTL

\* What a failed or killed job left stays on the machine, the inbox's worktrees
\* and fetches in the same clone or not.
THEOREM EvidenceBesideTheInbox == Spec => []J!EvidenceIsKept
<1>1. JP!Spec => []JP!EvidenceIsKept
  BY JP!Evidence, JobsAssumption
<1>2. JP!EvidenceIsKept => J!EvidenceIsKept
  BY DEF J!EvidenceIsKept, JP!EvidenceIsKept
<1> QED BY <1>1, <1>2, SameSpec, PTL

-----------------------------------------------------------------------------
(* A job starts what origin asked for while it ran *)

\* What a process read from FETCH_HEAD, and the task it took from there, were on
\* origin since it began.
FreshInv ==
  \A r \in J!Runner :
    /\ jobRun[r].pc = "pick" => \A t \in JobTasks : <<t, fetchHead[t]>> \in seen[r]
    /\ jobRun[r].pc \in JP!Chosen /\ jobRun[r].next =>
         <<jobRun[r].task, J!QueueStatus(jobRun[r].kind)>> \in seen[r]

\* Every step of the host updates the history the same way.
LEMMA WatchStep == Next => Watch
<1> SUFFICES ASSUME Next PROVE Watch
  OBVIOUS
<1>1. CASE InboxProgress \/ InboxOutage
  BY <1>1 DEF InboxProgress, InboxOutage, InboxAlone, LookUp, AddWorktree, NoRoom,
              PushDefault, PushOvertaken, PushUnanswered
<1>2. CASE ~ (InboxProgress \/ InboxOutage)
  BY <1>2 DEF Next, MergeRequest, JobProgress, JobOutage, DoctorGit, PersonAtJobs,
              PersonAtInbox, Midnight
<1> QED BY <1>1, <1>2

LEMMA FreshStep == J!TypeOK /\ FreshInv /\ [Next]_vars => FreshInv'
<1> SUFFICES ASSUME J!TypeOK, FreshInv, [Next]_vars, NEW r \in J!Runner
             PROVE  /\ jobRun'[r].pc = "pick" =>
                         \A t \in JobTasks : <<t, fetchHead'[t]>> \in seen'[r]
                    /\ jobRun'[r].pc \in JP!Chosen /\ jobRun'[r].next =>
                         <<jobRun'[r].task, J!QueueStatus(jobRun'[r].kind)>> \in seen'[r]
  BY DEF FreshInv
<1>1. CASE UNCHANGED vars
  BY <1>1 DEF vars, jobVars, FreshInv
<1>2. CASE Next
  <2>1. ASSUME jobRun'[r].pc \notin {"idle", "fetch"}
        PROVE  /\ seen[r] \subseteq seen'[r]
               /\ \A t \in JobTasks : <<t, status[t]>> \in seen'[r]
    BY <1>2, <2>1, WatchStep DEF Watch
  <2>2. JP!TypeOK /\ [JP!Next]_(JP!vars)
    BY JobsStep, SameState, SameStep
  <2>3. fetchHead' \in {fetchHead, status}
    BY <2>2, JP!FetchHeadStep, JobsAssumption
  <2>4. /\ jobRun'[r].pc = "pick" => jobRun[r].pc = "pick" \/ fetchHead' = status
        /\ jobRun'[r].pc \in JP!Chosen /\ jobRun'[r].next =>
             \/ /\ jobRun[r].pc \in JP!Chosen /\ jobRun[r].next
                /\ JP!JobOf(r)' = JP!JobOf(r)
             \/ /\ jobRun[r].pc = "pick"
                /\ jobRun'[r].task \in JP!InQueue(jobRun'[r].kind)
    BY <2>2, JP!OrderStep, JobsAssumption
  <2>5. ASSUME jobRun'[r].pc = "pick", NEW t \in JobTasks
        PROVE  <<t, fetchHead'[t]>> \in seen'[r]
    BY <2>1, <2>3, <2>4, <2>5 DEF FreshInv
  <2>6. ASSUME jobRun'[r].pc \in JP!Chosen, jobRun'[r].next
        PROVE  <<jobRun'[r].task, J!QueueStatus(jobRun'[r].kind)>> \in seen'[r]
    BY <2>1, <2>4, <2>6 DEF FreshInv, JP!Chosen, JP!Clear
  <2> QED BY <2>5, <2>6
<1> QED BY <1>1, <1>2

\* A job started with -next works on a task that origin's default branch had in
\* that verb's queue at some moment since the process began.
THEOREM OrdersAreFresh == Spec => OrderIsFresh
<1>1. Init => FreshInv
  BY DEF Init, J!Init, FreshInv, JP!Chosen, JP!Clear
<1>2. FreshInv /\ [Next]_vars =>
        [\A r \in J!Runner :
           /\ jobRun[r].pc = "add" /\ jobRun[r].next
           /\ jobRun'[r].pc = "phases"
           => <<jobRun[r].task, J!QueueStatus(jobRun[r].kind)>> \in seen[r]]_vars
  BY DEF FreshInv, JP!Chosen, JP!Clear
<1> QED BY <1>1, <1>2, FreshStep, TypeBesideTheInbox, PTL DEF Spec, OrderIsFresh
=============================================================================
