------------------------------- MODULE JalonHost -------------------------------
(***************************************************************************)
(* One machine: the jobs of AgentJobs and the inbox of Capture over one    *)
(* clone of one repository, the way docs/agent.md deploys them.            *)
(*                                                                         *)
(* They meet in five places.  A line that reaches the default branch       *)
(* changes the status of its task, which is the jobs' queue.  Both fetch   *)
(* into the clone's one FETCH_HEAD.  The wrecks of the jobs count against  *)
(* the inbox's worktrees (newWorktree).  The inbox's worktrees stop the    *)
(* preflight of every job (gitCheck).  And a commit of one, or a person's, *)
(* is what the inbox's push to the default branch finds in its way.        *)
(***************************************************************************)
EXTENDS Naturals, FiniteSets, Sequences

CONSTANTS
  JobTasks, Timers, Hands, MaxFailed, DailyJobCap, MaxActs,        \* AgentJobs
  here, Protected, Slug, NoSlug, NoRepo, Extends, Lines, Seeds,    \* Capture
  MaxPerTick, MaxDays,
  IdOf,      \* the task number of a slug and the day in its id
  Orders,    \* the status each line writes, "none" when it only adds text
  MaxPeople  \* bound on what people do; the rest of MaxActs is the inbox's

VARIABLES
  status, published, pr, fetchHead, localBranches, jobWorktrees, wrecks, counter,
  jobRun, started, torn, unread, acts,
  day, arrived, cursor, main, branches, inboxWorktrees, inboxRun, said, closed,
  moved,     \* the default branch moved since the inbox cut its worktree
  seen       \* history: the statuses origin had since each job's process began

jobVars == <<status, published, pr, fetchHead, localBranches, jobWorktrees, wrecks,
             counter, jobRun, started, torn, unread, acts>>
inboxVars == <<day, arrived, cursor, main, branches, inboxWorktrees, inboxRun, said,
               closed>>
vars == <<jobVars, inboxVars, moved, seen>>

J == INSTANCE AgentJobs WITH Task <- JobTasks, run <- jobRun, worktrees <- jobWorktrees
C == INSTANCE Capture WITH Repo <- {here}, run <- inboxRun, worktrees <- inboxWorktrees

ASSUME JobsAssumption ==
  /\ JobTasks \subseteq Nat \ {0}
  /\ Timers \cap Hands = {}
  /\ MaxFailed \in Nat \ {0} /\ DailyJobCap \in Nat \ {0} /\ MaxActs \in Nat
ASSUME InboxAssumption ==
  /\ NoSlug \notin Slug /\ NoRepo # here
  /\ Lines \in Seq(C!Line)
  /\ \A n \in C!Index : Lines[n].say = "idea" => Lines[n].repo = here
  /\ Protected \subseteq {here}
  /\ Seeds \in [{here} -> SUBSET Slug]
  /\ MaxPerTick \in Nat \ {0} /\ MaxDays \in Nat \ {0}
ASSUME OrdersAssumption ==
  /\ IdOf \in [Slug \X (0..MaxDays) -> JobTasks]
  /\ Orders \in [0..Len(Lines) -> J!Status \cup {"none"}]

\* The task a commit of the inbox is about.
About(c) == IdOf[<<c.task.slug, c.task.day>>]

\* A task no seed names is not there yet, which reads like one that is done.
Init ==
  /\ J!Init
  /\ C!Init
  /\ moved = FALSE
  /\ seen = [r \in J!Runner |-> {}]
  /\ \A t \in JobTasks :
       (\A s \in Seeds[here] : IdOf[<<s, 0>>] # t) => status[t] = "done"

\* Nothing is seen by a process that is not running, the rest as it goes.
Watch ==
  seen' = [r \in J!Runner |->
             IF jobRun'[r].pc \in {"idle", "fetch"} THEN {}
             ELSE seen[r] \cup {<<t, status[t]>> : t \in JobTasks}
                          \cup {<<t, status'[t]>> : t \in JobTasks}]

-----------------------------------------------------------------------------
(* The inbox in the jobs' clone *)

\* A commit of a line lands: the status it writes is what the jobs read next.
Lands(c) ==
  \/ Orders[c.line] \in {"none", status[About(c)]} /\ UNCHANGED jobVars
  \/ \E t \in JobTasks, s \in J!Status :
       t = About(c) /\ s = Orders[c.line] /\ J!EditStatus(t, s)

LookUp(down) ==
  /\ C!LookUp(down)
  /\ IF here \in down THEN UNCHANGED jobVars ELSE J!InboxFetch
  /\ UNCHANGED moved /\ Watch

\* newWorktree counts the wrecks, looks at the path, fetches, adds.
AddWorktree ==
  /\ Cardinality(wrecks) < MaxFailed
  /\ C!AddWorktree
  /\ IF C!Place \in inboxWorktrees THEN UNCHANGED jobVars ELSE J!InboxFetch
  /\ moved' = FALSE /\ Watch

NoRoom ==
  /\ C!At("room")
  /\ Cardinality(wrecks) >= MaxFailed
  /\ C!Refused
  /\ UNCHANGED <<jobVars, moved>> /\ Watch

PushDefault ==
  /\ ~ moved
  /\ C!PushDefault
  /\ Lands(C!New)
  /\ UNCHANGED moved /\ Watch

\* origin refuses a push that does not build on what it has.
PushOvertaken ==
  /\ moved
  /\ C!PushUnanswered
  /\ ~ inboxRun'.landed
  /\ UNCHANGED <<jobVars, moved>> /\ Watch

PushUnanswered ==
  /\ C!PushUnanswered
  /\ IF inboxRun'.landed THEN ~ moved /\ Lands(C!New) ELSE UNCHANGED jobVars
  /\ UNCHANGED moved /\ Watch

MergeRequest(b) ==
  /\ C!MergeRequest(b)
  /\ Lands(b.commit)
  /\ moved' = TRUE /\ Watch

\* The rest of the inbox's steps touch nothing of the jobs.
InboxAlone ==
  /\ \/ C!Tick \/ C!PollInbox \/ C!TakeLine
     \/ C!WriteStub \/ C!WriteCommand
     \/ C!DefaultRefused \/ C!PushBranch \/ C!OpenRequest \/ C!RequestRefused
     \/ C!Clean \/ C!Reply \/ C!TruncateCursor \/ C!WriteCursor
  /\ UNCHANGED <<jobVars, moved>> /\ Watch

InboxProgress ==
  \/ InboxAlone
  \/ LookUp({})
  \/ AddWorktree
  \/ NoRoom
  \/ PushDefault
  \/ PushOvertaken

InboxOutage ==
  \/ LookUp({here})
  \/ PushUnanswered
  \/ /\ C!Refused \/ C!RequestUnanswered \/ C!CleanFails \/ C!Crash
     /\ UNCHANGED <<jobVars, moved>> /\ Watch

-----------------------------------------------------------------------------
(* The jobs in the inbox's clone *)

\* gitCheck fails on any directory under review.worktrees, the inbox's too.
DoctorGit(r) ==
  /\ J!At(r, "doctor")
  /\ IF inboxWorktrees = {} THEN J!DoctorGit(r) ELSE J!Refused(r)
  /\ UNCHANGED <<inboxVars, moved>> /\ Watch

JobProgress(r) ==
  \/ DoctorGit(r)
  \/ /\ ~ J!At(r, "doctor")
     /\ J!Progress(r)
     /\ UNCHANGED <<inboxVars, moved>> /\ Watch

JobOutage(r) ==
  /\ J!Outage(r)
  /\ UNCHANGED <<inboxVars, moved>> /\ Watch

-----------------------------------------------------------------------------
(* People and the date *)

PersonAtJobs ==
  /\ acts < MaxPeople
  /\ J!Person \/ \E r \in J!Runner : J!RunByHand(r)
  /\ moved' \in IF status' # status THEN {TRUE}
               ELSE IF pr' # pr THEN {moved, TRUE} ELSE {moved}
  /\ UNCHANGED inboxVars /\ Watch

PersonAtInbox ==
  /\ \/ C!Send
     \/ \E b \in branches : C!CloseRequest(b)
     \/ \E p \in inboxWorktrees : C!RemoveStale(p)
  /\ UNCHANGED <<jobVars, moved>> /\ Watch

\* The days past MaxDays are one day to the inbox.
Midnight ==
  /\ J!Midnight
  /\ C!Midnight \/ (day = MaxDays /\ UNCHANGED inboxVars)
  /\ UNCHANGED moved /\ Watch

-----------------------------------------------------------------------------
Next ==
  \/ InboxProgress
  \/ InboxOutage
  \/ \E b \in branches : MergeRequest(b)
  \/ \E r \in J!Runner : JobProgress(r) \/ JobOutage(r)
  \/ PersonAtJobs
  \/ PersonAtInbox
  \/ Midnight

Spec == Init /\ [][Next]_vars

-----------------------------------------------------------------------------
(* Properties *)

\* The jobs beside an inbox are still the jobs of AgentJobs: nothing the inbox
\* does to the clone or to origin is a step they do not expect, so all that is
\* proved of them holds here (worktree.go, queue.go: one clone, one FETCH_HEAD).
Jobs == J!Spec

\* The inbox beside the jobs is still the inbox of Capture, its worktrees not
\* touched by the preflight and its pushes overtaken as it expects (capture.go).
Inbox == C!Spec

\* A job starts only a task that origin asked for since its process began, however
\* the two verbs share FETCH_HEAD and however the queue changed under them
\* (queue.go fetchDefault: the queue is read on what the forge has).
OrderIsFresh ==
  [][\A r \in J!Runner :
       /\ jobRun[r].pc = "add" /\ jobRun[r].next
       /\ jobRun'[r].pc = "phases"
       => <<jobRun[r].task, J!QueueStatus(jobRun[r].kind)>> \in seen[r]]_vars
=============================================================================
