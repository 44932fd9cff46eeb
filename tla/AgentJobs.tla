------------------------------- MODULE AgentJobs -------------------------------
(***************************************************************************)
(* The jobs of `jalon review` and `jalon work` over one clone of a target  *)
(* repository (agent/review.go, agent/work.go, agent/queue.go,             *)
(* agent/worktree.go and the systemd unit that runs them).                 *)
(*                                                                         *)
(* The queue is the status of each task on origin's default branch.  A job *)
(* takes the oldest queued task that has neither a branch on origin nor a  *)
(* parked wreck, runs the preflight, takes one slot of the day's counter   *)
(* file, cuts a worktree, lets the model work in it, and either pushes a   *)
(* branch and opens a pull request or parks the worktree.                  *)
(*                                                                         *)
(* One action is one stretch of the code between two points where another  *)
(* process, a person or a crash can be seen: every external command, every *)
(* file read and every file write of shared state is a step of its own.    *)
(***************************************************************************)
EXTENDS Naturals, FiniteSets

CONSTANTS Task,        \* task ids; YYMMDD-slug sorts by age, so a number each
          Timers,      \* processes the systemd timer starts: review, then work
          Hands,       \* processes a person starts in the same clone
          MaxFailed,   \* maxFailed, the cap on parked wrecks
          DailyJobCap, \* agent.daily_job_cap
          MaxActs      \* bound on what people do to the forge and the clone

ASSUME TaskAssumption == Task \subseteq Nat \ {0}
ASSUME RunnerAssumption == Timers \cap Hands = {}
ASSUME CapAssumption == /\ MaxFailed \in Nat \ {0}
                        /\ DailyJobCap \in Nat \ {0}
                        /\ MaxActs \in Nat

Runner == Timers \cup Hands
Kind == {"review", "work"}
Job == [kind : Kind, task : Task]   \* names task/<id>, work/<id>, review-<id>, work-<id>
NoTask == 0

\* "proposed" stands for every open status no queue reads, "done" also for a
\* task that origin does not have: readTask refuses both.
Status == {"measure", "implement", "proposed", "done"}
QueueStatus(k) == IF k = "review" THEN "measure" ELSE "implement"

VARIABLES
  status,         \* origin's default branch: the status of each task
  published,      \* origin's branches task/<id> and work/<id>
  pr,             \* the pull request of each job: none, open, answered
  fetchHead,      \* the clone's FETCH_HEAD: status as last fetched
  localBranches,  \* the clone's own branches
  worktrees,      \* directories under review.worktrees
  wrecks,         \* directories under .jalon/failed
  counter,        \* agent.counter_file: is its date today, and its count
  run,            \* each process
  started,        \* history: slots taken today, saturating past the cap
  torn,           \* history: the counter lost its count today to a half write
  unread,         \* history: failed jobs no person has looked at
  acts            \* what people have done so far

origin == <<status, published, pr>>
clone == <<fetchHead, localBranches, worktrees, wrecks, counter>>
history == <<started, torn, unread>>
vars == <<origin, clone, run, history, acts>>

Holding == {"phases", "switch", "push", "pr", "clean", "park", "move"}
Step == {"idle", "fetch", "pick", "read", "doctor", "criterion", "slot",
         "truncate", "count", "room", "refetch", "add"} \cup Holding
Count == [today : BOOLEAN, n : 0..DailyJobCap]
Process == [pc : Step, kind : Kind, next : BOOLEAN, task : Task \cup {NoTask},
            slot : Count]

Empty == [today |-> FALSE, n |-> 0]   \* a missing, empty or half-written file
Idle == [pc |-> "idle", kind |-> "review", next |-> TRUE, task |-> NoTask,
         slot |-> Empty]
Begin(k, next, t) ==
  [Idle EXCEPT !.pc = "fetch", !.kind = k, !.next = next, !.task = t]

JobOf(r) == [kind |-> run[r].kind, task |-> run[r].task]
Holds(r) == run[r].pc \in Holding
Parking(r) == run[r].pc \in {"park", "move"}

At(r, l) == run[r].pc = l
Goto(r, l) == run' = [run EXCEPT ![r].pc = l]
ExitFailed(r) == run' = [run EXCEPT ![r] = Idle]
\* The unit's second ExecStart runs only when the first one exited 0.
ExitOk(r) ==
  run' = [run EXCEPT ![r] = IF r \in Timers /\ run[r].kind = "review"
                            THEN Begin("work", TRUE, NoTask) ELSE Idle]

Init ==
  /\ status \in [Task -> Status]
  /\ published = {}
  /\ pr = [j \in Job |-> "none"]
  /\ fetchHead = status
  /\ localBranches = {}
  /\ worktrees = {}
  /\ wrecks = {}
  /\ counter = Empty
  /\ run = [r \in Runner |-> Idle]
  /\ started = 0
  /\ torn = FALSE
  /\ unread = {}
  /\ acts = 0

-----------------------------------------------------------------------------
(* Starting a process *)

\* MUTANT of Tick: the unit's first line loses its -next.
TickWithoutNext(r) ==
  /\ r \in Timers
  /\ At(r, "idle")
  /\ run' = [run EXCEPT ![r] = Begin("review", FALSE, NoTask)]
  /\ UNCHANGED <<origin, clone, history, acts>>

\* The hourly timer starts the oneshot unit, whose first line is review -next.
Tick(r) ==
  /\ r \in Timers
  /\ At(r, "idle")
  /\ run' = [run EXCEPT ![r] = Begin("review", TRUE, NoTask)]
  /\ UNCHANGED <<origin, clone, history, acts>>

\* A person runs one verb, with -next or with an id of the local checkout.
RunByHand(r) ==
  /\ r \in Hands
  /\ At(r, "idle")
  /\ \E k \in Kind, t \in Task \cup {NoTask} :
       run' = [run EXCEPT ![r] = Begin(k, t = NoTask, t)]
  /\ UNCHANGED <<origin, clone, history, acts>>

-----------------------------------------------------------------------------
(* Choosing a task *)

\* MUTANT of FetchDefault: a FETCH_HEAD that is there is read as it is.
FetchDefaultOnce(r) ==
  /\ At(r, "fetch")
  /\ Goto(r, IF run[r].next THEN "pick" ELSE "read")
  /\ UNCHANGED <<origin, clone, history, acts>>

FetchDefault(r) ==
  /\ At(r, "fetch")
  /\ fetchHead' = status
  /\ Goto(r, IF run[r].next THEN "pick" ELSE "read")
  /\ UNCHANGED <<origin, localBranches, worktrees, wrecks, counter, history, acts>>

\* MUTANT of InQueue: a wreck does not take its task out of the queue.
InQueueIgnoringWrecks(k) ==
  {t \in Task : /\ fetchHead[t] = QueueStatus(k)
                /\ [kind |-> k, task |-> t] \notin published}

\* MUTANT of InQueue: a branch on origin does not take its task out of the queue.
InQueueIgnoringBranches(k) ==
  {t \in Task : /\ fetchHead[t] = QueueStatus(k)
                /\ [kind |-> k, task |-> t] \notin wrecks}

InQueue(k) ==
  {t \in Task : /\ fetchHead[t] = QueueStatus(k)
                /\ [kind |-> k, task |-> t] \notin published \cup wrecks}

NextTask(r) ==
  /\ At(r, "pick")
  /\ \/ /\ InQueue(run[r].kind) = {}
        /\ ExitOk(r)
     \/ \E t \in InQueue(run[r].kind) :
          /\ \A u \in InQueue(run[r].kind) : t <= u
          /\ run' = [run EXCEPT ![r] = [@ EXCEPT !.pc = "read", !.task = t]]
  /\ UNCHANGED <<origin, clone, history, acts>>

\* git grep on FETCH_HEAD that dies prints nothing, and an empty list is taken
\* for an empty queue.
GrepDies(r) ==
  /\ At(r, "pick")
  /\ ExitOk(r)
  /\ UNCHANGED <<origin, clone, history, acts>>

ReadTask(r) ==
  /\ At(r, "read")
  /\ IF fetchHead[run[r].task] = "done"
       THEN ExitFailed(r)
       ELSE Goto(r, "doctor")
  /\ UNCHANGED <<origin, clone, history, acts>>

-----------------------------------------------------------------------------
(* The preflight: gitCheck looks for a worktree left behind, then the          *)
(* repository's criterion runs for minutes.                                    *)

DoctorGit(r) ==
  /\ At(r, "doctor")
  /\ IF worktrees # {} THEN ExitFailed(r) ELSE Goto(r, "criterion")
  /\ UNCHANGED <<origin, clone, history, acts>>

DoctorCriterion(r) ==
  /\ At(r, "criterion")
  /\ Goto(r, "slot")
  /\ UNCHANGED <<origin, clone, history, acts>>

-----------------------------------------------------------------------------
(* takeJobSlot: read the counter file, then os.WriteFile truncates it and      *)
(* writes the new count.                                                       *)

SlotsTaken == IF counter.today THEN counter.n ELSE 0

\* MUTANT of ReadSlot: > where the code has >=.
ReadSlotOneTooMany(r) ==
  /\ At(r, "slot")
  /\ IF SlotsTaken > DailyJobCap
       THEN ExitFailed(r)
       ELSE run' = [run EXCEPT ![r] = [@ EXCEPT
                      !.pc = "truncate",
                      !.slot = [today |-> TRUE, n |-> SlotsTaken + 1]]]
  /\ UNCHANGED <<origin, clone, history, acts>>

ReadSlot(r) ==
  /\ At(r, "slot")
  /\ IF SlotsTaken >= DailyJobCap
       THEN ExitFailed(r)
       ELSE run' = [run EXCEPT ![r] = [@ EXCEPT
                      !.pc = "truncate",
                      !.slot = [today |-> TRUE, n |-> SlotsTaken + 1]]]
  /\ UNCHANGED <<origin, clone, history, acts>>

TruncateSlot(r) ==
  /\ At(r, "truncate")
  /\ counter' = Empty
  /\ Goto(r, "count")
  /\ UNCHANGED <<origin, fetchHead, localBranches, worktrees, wrecks, history, acts>>

\* A slot whose day ended between the read and the write belongs to yesterday.
WriteSlot(r) ==
  /\ At(r, "count")
  /\ counter' = run[r].slot
  /\ run' = [run EXCEPT ![r] = [@ EXCEPT !.pc = "room", !.slot = Empty]]
  /\ started' = IF run[r].slot.today /\ started <= DailyJobCap
                THEN started + 1 ELSE started
  /\ UNCHANGED <<origin, fetchHead, localBranches, worktrees, wrecks, torn,
                 unread, acts>>

-----------------------------------------------------------------------------
(* newWorktree *)

\* MUTANT of CheckRoom: nobody counts the wrecks.
CheckRoomWithoutCap(r) ==
  /\ At(r, "room")
  /\ IF JobOf(r) \in worktrees THEN ExitFailed(r) ELSE Goto(r, "refetch")
  /\ UNCHANGED <<origin, clone, history, acts>>

\* MUTANT of CheckRoom: a worktree in the way is cleared to start afresh.
CheckRoomAfresh(r) ==
  /\ At(r, "room")
  /\ IF Cardinality(wrecks) >= MaxFailed
       THEN ExitFailed(r) /\ UNCHANGED worktrees
       ELSE /\ worktrees' = worktrees \ {JobOf(r)}
            /\ Goto(r, "refetch")
  /\ UNCHANGED <<origin, fetchHead, localBranches, wrecks, counter, history, acts>>

CheckRoom(r) ==
  /\ At(r, "room")
  /\ IF Cardinality(wrecks) >= MaxFailed \/ JobOf(r) \in worktrees
       THEN ExitFailed(r)
       ELSE Goto(r, "refetch")
  /\ UNCHANGED <<origin, clone, history, acts>>

FetchForWorktree(r) ==
  /\ At(r, "refetch")
  /\ fetchHead' = status
  /\ Goto(r, "add")
  /\ UNCHANGED <<origin, localBranches, worktrees, wrecks, counter, history, acts>>

\* MUTANT of AddWorktree: worktree add --force, on the check made before the
\* fetch.
AddWorktreeForced(r) ==
  /\ At(r, "add")
  /\ worktrees' = worktrees \cup {JobOf(r)}
  /\ Goto(r, "phases")
  /\ UNCHANGED <<origin, fetchHead, localBranches, wrecks, counter, history, acts>>

\* git worktree add refuses a path that exists.
AddWorktree(r) ==
  /\ At(r, "add")
  /\ IF JobOf(r) \in worktrees
       THEN ExitFailed(r) /\ UNCHANGED worktrees
       ELSE /\ worktrees' = worktrees \cup {JobOf(r)}
            /\ Goto(r, "phases")
  /\ UNCHANGED <<origin, fetchHead, localBranches, wrecks, counter, history, acts>>

-----------------------------------------------------------------------------
(* In the worktree: the phases and their gates, then the publication.  Every   *)
(* failure from here is kept: keep -> failJob -> park.                         *)

Keep(r) ==
  /\ Goto(r, "park")
  /\ unread' = unread \cup {JobOf(r)}

RunPhases(r) ==
  /\ At(r, "phases")
  /\ Goto(r, "switch")
  /\ UNCHANGED <<origin, clone, history, acts>>

\* MUTANT of PhasesFail: one error path returns err instead of keep(err).
PhasesFailUnkept(r) ==
  /\ At(r, "phases")
  /\ ExitFailed(r)
  /\ UNCHANGED <<origin, clone, history, acts>>

PhasesFail(r) ==
  /\ At(r, "phases")
  /\ Keep(r)
  /\ UNCHANGED <<origin, clone, started, torn, acts>>

\* publish: git switch -c refuses a branch the clone already has.
SwitchBranch(r) ==
  /\ At(r, "switch")
  /\ IF JobOf(r) \in localBranches
       THEN Keep(r) /\ UNCHANGED localBranches
       ELSE /\ localBranches' = localBranches \cup {JobOf(r)}
            /\ Goto(r, "push")
            /\ UNCHANGED unread
  /\ UNCHANGED <<origin, fetchHead, worktrees, wrecks, counter, started, torn, acts>>

\* publish: commit and push.  origin refuses a branch it already has, which
\* this commit does not descend from.
Push(r) ==
  /\ At(r, "push")
  /\ JobOf(r) \notin published
  /\ published' = published \cup {JobOf(r)}
  /\ Goto(r, "pr")
  /\ UNCHANGED <<status, pr, clone, history, acts>>

\* The commit fails, the push is refused, or its answer never came back.
PushFails(r) ==
  /\ At(r, "push")
  /\ published' \in {published, published \cup {JobOf(r)}}
  /\ Keep(r)
  /\ UNCHANGED <<status, pr, clone, started, torn, acts>>

\* createPR's error is dropped: res.PR, _ = createPR(...).
CreatePR(r) ==
  /\ At(r, "pr")
  /\ \/ /\ JobOf(r) \in published
        /\ pr' = [pr EXCEPT ![JobOf(r)] = "open"]
     \/ UNCHANGED pr
  /\ Goto(r, "clean")
  /\ UNCHANGED <<status, published, clone, history, acts>>

\* remove, unless -keep-worktree was asked for; its error is only printed.
Remove(r) ==
  /\ At(r, "clean")
  /\ worktrees' = worktrees \ {JobOf(r)}
  /\ ExitOk(r)
  /\ UNCHANGED <<origin, fetchHead, localBranches, wrecks, counter, history, acts>>

LeaveInPlace(r) ==
  /\ At(r, "clean")
  /\ ExitOk(r)
  /\ UNCHANGED <<origin, clone, history, acts>>

-----------------------------------------------------------------------------
(* park: clear the older wreck of the same job, then move this one there.      *)

ClearOlderWreck(r) ==
  /\ At(r, "park")
  /\ wrecks' = wrecks \ {JobOf(r)}
  /\ Goto(r, "move")
  /\ UNCHANGED <<origin, fetchHead, localBranches, worktrees, counter, history, acts>>

\* MUTANT of MoveWorktree: the worktree is removed, as after a success.
MoveWorktreeAway(r) ==
  /\ At(r, "move")
  /\ worktrees' = worktrees \ {JobOf(r)}
  /\ ExitFailed(r)
  /\ UNCHANGED <<origin, fetchHead, localBranches, wrecks, counter, history, acts>>

MoveWorktree(r) ==
  /\ At(r, "move")
  /\ worktrees' = worktrees \ {JobOf(r)}
  /\ wrecks' = wrecks \cup {JobOf(r)}
  /\ ExitFailed(r)
  /\ UNCHANGED <<origin, fetchHead, localBranches, counter, history, acts>>

\* Either git call may fail: the worktree stays where it is.
ParkFails(r) ==
  /\ run[r].pc \in {"park", "move"}
  /\ ExitFailed(r)
  /\ UNCHANGED <<origin, clone, history, acts>>

-----------------------------------------------------------------------------
(* What goes wrong around a process *)

\* An external command or a file operation fails before the worktree exists:
\* the verb returns the error and nothing is kept.
Refused(r) ==
  /\ run[r].pc \in {"fetch", "pick", "doctor", "criterion", "slot", "truncate",
                    "count", "refetch", "add"}
  /\ ExitFailed(r)
  /\ torn' = (torn \/ At(r, "count"))
  /\ UNCHANGED <<origin, clone, started, unread, acts>>

\* SIGKILL, a reboot, the unit's outer timeout.
Crash(r) ==
  /\ ~ At(r, "idle")
  /\ ExitFailed(r)
  /\ torn' = (torn \/ At(r, "count"))
  /\ unread' = IF Holds(r) THEN unread \cup {JobOf(r)} ELSE unread
  /\ UNCHANGED <<origin, clone, started, acts>>

-----------------------------------------------------------------------------
(* People and the clock *)

Act == acts < MaxActs /\ acts' = acts + 1

\* A commit to the default branch: a person's, or one the inbox makes.
EditStatus(t, s) ==
  /\ Act
  /\ status[t] # s
  /\ status' = [status EXCEPT ![t] = s]
  /\ UNCHANGED <<published, pr, clone, run, history>>

\* Merging a proposal lands its status; merging work lands code, and the
\* task stays as it was until a person commits what the hook closed.
MergePR(j) ==
  /\ Act
  /\ pr[j] = "open"
  /\ pr' = [pr EXCEPT ![j] = "answered"]
  /\ status' = IF j.kind = "review" THEN [status EXCEPT ![j.task] = "proposed"]
               ELSE status
  /\ UNCHANGED <<published, clone, run, history>>

ClosePR(j) ==
  /\ Act
  /\ pr[j] = "open"
  /\ pr' = [pr EXCEPT ![j] = "answered"]
  /\ UNCHANGED <<status, published, clone, run, history>>

\* Deleting the branch on origin closes its pull request.
DeleteBranch(j) ==
  /\ Act
  /\ j \in published
  /\ published' = published \ {j}
  /\ pr' = [pr EXCEPT ![j] = IF pr[j] = "open" THEN "answered" ELSE pr[j]]
  /\ UNCHANGED <<status, clone, run, history>>

\* git worktree remove --force .jalon/failed/<name>, once it has been read; a
\* newer failure of the same job that is being parked stays unread.
RemoveWreck(j) ==
  /\ Act
  /\ j \in wrecks
  /\ wrecks' = wrecks \ {j}
  /\ unread' = IF \E r \in Runner : Parking(r) /\ JobOf(r) = j
               THEN unread ELSE unread \ {j}
  /\ UNCHANGED <<origin, fetchHead, localBranches, worktrees, counter, run,
                 started, torn>>

\* The same for a worktree that stayed in place and that no process is using.
RemoveStale(j) ==
  /\ Act
  /\ j \in worktrees
  /\ \A r \in Runner : Holds(r) => JobOf(r) # j
  /\ worktrees' = worktrees \ {j}
  /\ unread' = unread \ {j}
  /\ UNCHANGED <<origin, fetchHead, localBranches, wrecks, counter, run,
                 started, torn>>

\* Every date written before now is no longer today's.
Midnight ==
  /\ counter' = [counter EXCEPT !.today = FALSE]
  /\ run' = [r \in Runner |-> [run[r] EXCEPT !.slot.today = FALSE]]
  /\ started' = 0
  /\ torn' = FALSE
  /\ UNCHANGED <<origin, fetchHead, localBranches, worktrees, wrecks, unread, acts>>

\* Another verb of jalon in this clone, the inbox's, fetches the default branch:
\* FETCH_HEAD is one file for all of them.
InboxFetch ==
  /\ fetchHead' = status
  /\ UNCHANGED <<origin, localBranches, worktrees, wrecks, counter, run, history, acts>>

-----------------------------------------------------------------------------
Progress(r) ==
  \/ Tick(r)
  \/ FetchDefault(r)
  \/ NextTask(r)
  \/ ReadTask(r)
  \/ DoctorGit(r)
  \/ DoctorCriterion(r)
  \/ ReadSlot(r)
  \/ TruncateSlot(r)
  \/ WriteSlot(r)
  \/ CheckRoom(r)
  \/ FetchForWorktree(r)
  \/ AddWorktree(r)
  \/ RunPhases(r)
  \/ PhasesFail(r)
  \/ SwitchBranch(r)
  \/ Push(r)
  \/ PushFails(r)
  \/ CreatePR(r)
  \/ Remove(r)
  \/ LeaveInPlace(r)
  \/ ClearOlderWreck(r)
  \/ MoveWorktree(r)

Outage(r) ==
  \/ GrepDies(r)
  \/ ParkFails(r)
  \/ Refused(r)
  \/ Crash(r)

Person ==
  \/ \E t \in Task, s \in Status : EditStatus(t, s)
  \/ \E j \in Job : \/ MergePR(j)
                    \/ ClosePR(j)
                    \/ DeleteBranch(j)
                    \/ RemoveWreck(j)
                    \/ RemoveStale(j)

Next ==
  \/ \E r \in Runner : Progress(r) \/ Outage(r) \/ RunByHand(r)
  \/ Person
  \/ Midnight
  \/ InboxFetch

Spec == Init /\ [][Next]_vars

\* The timer fires every hour, a process takes its next step, midnight comes;
\* outages end (a step of the code that looks like one is no outage) and, for
\* what follows, people leave the machine alone.
Fairness ==
  /\ \A r \in Timers : WF_vars(Progress(r))
  /\ \A r \in Hands : WF_vars(Progress(r))
  /\ WF_vars(Midnight)
  /\ <>[][\A r \in Runner : Outage(r) => Progress(r)]_vars

FairSpec == Spec /\ Fairness

-----------------------------------------------------------------------------
(* Invariants *)

\* A process knows its task from the start, or once it has picked one.
HasTask(r) ==
  IF run[r].next THEN run[r].pc \notin {"idle", "fetch", "pick"}
                 ELSE run[r].pc # "idle"

\* Every variable keeps to its type, and a process past the queue has a task
\* of the queue, the NoTask of review -next never reaching readTask.
TypeOK ==
  /\ status \in [Task -> Status]
  /\ published \subseteq Job
  /\ pr \in [Job -> {"none", "open", "answered"}]
  /\ fetchHead \in [Task -> Status]
  /\ localBranches \subseteq Job
  /\ worktrees \subseteq Job
  /\ wrecks \subseteq Job
  /\ counter \in Count
  /\ run \in [Runner -> Process]
  /\ \A r \in Runner : HasTask(r) => run[r].task \in Task
  /\ started \in 0..(DailyJobCap + 1)
  /\ torn \in BOOLEAN
  /\ unread \subseteq Job
  /\ acts \in Nat

\* A process in its worktree has it to itself: the directory is there, and no
\* other process is in it, whoever started them and wherever they crashed
\* (worktree.go: an existing worktree is deliberately not reused).
WorktreeIsExclusive ==
  \A r \in Runner : Holds(r) =>
    /\ JobOf(r) \in worktrees
    /\ \A q \in Runner : Holds(q) /\ JobOf(q) = JobOf(r) => q = r

\* A failed job is never lost: until a person removes it, what it left is
\* under review.worktrees or under .jalon/failed, even when parking it fails
\* half way or the process is killed (worktree.go park, review.go keep).
EvidenceIsKept == unread \subseteq worktrees \cup wrecks

\* No day starts more jobs than agent.daily_job_cap, unless the counter file
\* was cut short by a failed or killed write (review.go takeJobSlot).
DailyCap == torn \/ started <= DailyJobCap

\* .jalon/failed never holds more than maxFailed wrecks (worktree.go).
WrecksAreBounded == Cardinality(wrecks) <= MaxFailed

\* A branch on origin is never invisible to its owner: it has or had a pull
\* request, or its worktree is still on the machine (review.go, work.go).
PublishedIsVisible ==
  \A j \in published : pr[j] # "none" \/ j \in worktrees \cup wrecks

\* A job whose phases passed and whose branch is not on origin can publish:
\* the clone has no branch of that name (review.go publish).
RequeuedCanPublish ==
  \A r \in Runner :
    At(r, "switch") /\ JobOf(r) \notin published => JobOf(r) \notin localBranches

-----------------------------------------------------------------------------
(* Action properties *)

Starts(r) == At(r, "add") /\ run'[r].pc = "phases"

\* The clock never starts a job that failed before and that nobody has looked
\* at since (queue.go nextTask: retried by a person and not by the clock).
RetriedByAPerson ==
  [][\A r \in Runner : Starts(r) /\ run[r].next => JobOf(r) \notin unread]_vars

\* The queue never starts a job whose branch origin has: nothing is measured
\* or built twice (queue.go nextTask: a published task leaves the queue).
NotDoneTwice ==
  [][\A r \in Runner : Starts(r) /\ run[r].next => JobOf(r) \notin published]_vars

-----------------------------------------------------------------------------
(* The promise, and how it is kept *)

Life ==
  [j \in Job |->
     IF \E r \in Runner : JobOf(r) = j /\ run[r].pc \in {"phases", "switch", "push"}
       THEN "working"
     ELSE IF \E r \in Runner : JobOf(r) = j /\ run[r].pc \in {"pr", "clean"}
       THEN "landed"
     ELSE "out"]

L == INSTANCE JobLifecycle WITH life <- Life, onOrigin <- published

\* One process at a time works on a job, its branch comes only out of that
\* work, and the job ends landed or unread (review.go, work.go: keep).
Lifecycle == L!Spec

-----------------------------------------------------------------------------
(* Liveness *)

Queued(k, t) ==
  /\ status[t] = QueueStatus(k)
  /\ [kind |-> k, task |-> t] \notin published \cup wrecks

\* What only a person can end: a worktree nobody is using, or a full
\* .jalon/failed.
WaitsForAPerson ==
  \/ Cardinality(wrecks) >= MaxFailed
  \/ \E j \in worktrees : \A r \in Runner : Holds(r) => JobOf(r) # j

\* A queued task is published, parked or taken back by a person, or the
\* machine stops and waits for one (queue.go, jalon-agent.service).
QueueIsServed ==
  \A k \in Kind, t \in Task : Queued(k, t) ~> ~ Queued(k, t) \/ WaitsForAPerson
=============================================================================
