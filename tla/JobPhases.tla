------------------------------- MODULE JobPhases -------------------------------
(***************************************************************************)
(* One job inside its worktree: what AgentJobs takes as the steps between  *)
(* AddWorktree and the end (agent/review.go, agent/work.go,                *)
(* agent/claude.go).                                                       *)
(*                                                                         *)
(* A review asks for probes, runs the listed ones, asks a skeptic, then    *)
(* has the task rewritten; work has code written and runs the criterion.   *)
(* What each phase prints is saved before its error is looked at; git, and *)
(* not the phase, says what changed; then jalon commits and pushes.        *)
(*                                                                         *)
(* The worktree is the set of the kinds of path that differ from the       *)
(* commit it was cut from.                                                 *)
(***************************************************************************)
EXTENDS Naturals, FiniteSets, Sequences

CONSTANTS Status,          \* what a status line may say
          Drafts,          \* the task files a writing phase may leave
          ProbeWrites,     \* what listed probes may change in the worktree
          CriterionWrites  \* what the criterion may change there

Kind == {"review", "work"}
Phase == {"facts", "skeptic", "task", "work"}

\* The task's own file, the rest of .tasks, what git sees elsewhere, .claude,
\* and what .gitignore hides.  jalon's scratch directory is `outputs`.
Path == {"task", "others", "code", "claude", "ignored"}
TaskPaths == {"task", "others"}

\* A line of the plan: a listed command, one not on the list or composed of
\* several, one whose program is not installed.
Probe == {"listed", "refused", "absent"}

\* A front matter line: it starts with "status:", it has that key once trimmed,
\* or it has another one.  body: what lines "status: ..." below it say.
Line == [key : {"status", "padded", "other"}, is : Status]
File == [head : Seq(Line), closed : BOOLEAN, body : SUBSET Status]

ASSUME StatusAssumption == {"proposed", "measure", "implement", "todo"} \subseteq Status
ASSUME DraftsAssumption == Drafts \subseteq File
ASSUME WritesAssumption == ProbeWrites \subseteq Path /\ CriterionWrites \subseteq Path

VARIABLES
  kind,     \* which verb
  pc,       \* where it is
  cause,    \* where it was when it failed or was killed
  failing,  \* did the phase that was just run return an error?
  asked,    \* the phases that have been run
  plan,     \* the probes the gathering phase printed
  outputs,  \* the files in the scratch directory
  tree,     \* what differs in the worktree
  file,     \* the task file
  seen,     \* history: what differed when the criterion was started
  commit,   \* what the commit holds
  pushed,   \* did origin take the branch?
  request   \* is there a pull request?

work == <<asked, plan, outputs, tree, file, seen>>
publication == <<commit, pushed, request>>
vars == <<kind, pc, cause, failing, work, publication>>

Save == [facts |-> "save plan", skeptic |-> "save answer", task |-> "save text",
         work |-> "save report"]
Output == [facts |-> "probes.md", skeptic |-> "skeptic.md", task |-> "task.md",
           work |-> "work.md"]
Working == {"setup", "probes", "gate", "status", "changed", "criterion", "commit", "push"}
             \cup Phase \cup {Save[p] : p \in Phase}
Landed == {"request", "clean"}
Ended == {"kept", "killed", "done"}
Step == {"out"} \cup Working \cup Landed \cup Ended

At(l) == pc = l
Goto(l) == pc' = l /\ UNCHANGED <<kind, cause, failing>>
Keep(why) == pc' = "kept" /\ cause' = why /\ UNCHANGED <<kind, failing>>

Init ==
  /\ kind \in Kind
  /\ pc = "out"
  /\ cause = "out"
  /\ failing = FALSE
  /\ asked = {}
  /\ plan = {}
  /\ outputs = {}
  /\ tree = {}
  /\ file \in Drafts
  /\ seen = {}
  /\ commit = {}
  /\ pushed = FALSE
  /\ request = FALSE

-----------------------------------------------------------------------------
(* The phases *)

\* The worktree has just been cut: AgentJobs!AddWorktree.
Begin ==
  /\ At("out")
  /\ Goto("setup")
  /\ UNCHANGED <<work, publication>>

\* materializeSkills and the scratch directory.
SetUp ==
  /\ At("setup")
  /\ Goto(IF kind = "review" THEN "facts" ELSE "work")
  /\ UNCHANGED <<work, publication>>

\* runPhase: the model changed W of what its tools reach, and its process ended
\* well or not (an exit status, the budget, the timeout).
Ask(p, W) ==
  /\ At(p)
  /\ asked' = asked \cup {p}
  /\ tree' = tree \cup W
  /\ failing' \in BOOLEAN
  /\ pc' = Save[p]
  /\ UNCHANGED <<kind, cause, outputs, seen, publication>>

\* Read, Grep and Glob only: the answer is the list of probes.
AskForProbes ==
  /\ plan' \in SUBSET Probe
  /\ Ask("facts", {})
  /\ UNCHANGED file

AskSkeptic ==
  /\ \E W \in SUBSET ProbeWrites : Ask("skeptic", W)
  /\ UNCHANGED <<plan, file>>

\* Edit(.tasks/**) and the jalon verbs that write there.
AskForTask ==
  /\ \E W \in SUBSET TaskPaths :
       /\ Ask("task", W)
       /\ IF "task" \in W THEN file' \in Drafts ELSE UNCHANGED file
  /\ UNCHANGED plan

AskForWork ==
  /\ \E W \in SUBSET Path :
       /\ Ask("work", W)
       /\ IF "task" \in W THEN file' \in Drafts ELSE UNCHANGED file
  /\ UNCHANGED plan

AfterSave == [facts |-> "probes", skeptic |-> "task", task |-> "gate", work |-> "changed"]

\* MUTANT of SaveOutput: the error is looked at first.
SaveOutputOfSuccess ==
  \E p \in Phase :
    /\ At(Save[p])
    /\ outputs' = IF failing THEN outputs ELSE outputs \cup {Output[p]}
    /\ IF failing THEN Keep(p) ELSE Goto(AfterSave[p])
    /\ UNCHANGED <<asked, plan, tree, file, seen, publication>>

\* What the phase printed goes to disk; then its error ends the job.
SaveOutput ==
  \E p \in Phase :
    /\ At(Save[p])
    /\ outputs' = outputs \cup {Output[p]}
    /\ IF failing THEN Keep(p) ELSE Goto(AfterSave[p])
    /\ UNCHANGED <<asked, plan, tree, file, seen, publication>>

-----------------------------------------------------------------------------
(* The gates of a review *)

Ran == plan \cap {"listed"}

\* MUTANT of RunProbes: a plan of refused lines passes for a measurement.
RunProbesCountingLines ==
  /\ At("probes")
  /\ \E W \in SUBSET ProbeWrites : tree' = IF Ran = {} THEN tree ELSE tree \cup W
  /\ outputs' = outputs \cup {"facts.md"}
  /\ IF plan = {} THEN Keep("probes") ELSE Goto("skeptic")
  /\ UNCHANGED <<asked, plan, file, seen, publication>>

\* runProbes, premiseGrep and facts.md; the gate is that one probe ran, well or
\* not.
RunProbes ==
  /\ At("probes")
  /\ \E W \in SUBSET ProbeWrites : tree' = IF Ran = {} THEN tree ELSE tree \cup W
  /\ outputs' = outputs \cup {"facts.md"}
  /\ IF Ran = {} THEN Keep("probes") ELSE Goto("skeptic")
  /\ UNCHANGED <<asked, plan, file, seen, publication>>

\* MUTANT of OnlyThisTaskChanged: it is enough that the task is among the changes.
ThisTaskChanged ==
  /\ At("gate")
  /\ IF "task" \in tree THEN Goto("status") ELSE Keep("gate")
  /\ UNCHANGED <<work, publication>>

OnlyThisTaskChanged ==
  /\ At("gate")
  /\ IF tree \cap TaskPaths = {"task"} THEN Goto("status") ELSE Keep("gate")
  /\ UNCHANGED <<work, publication>>

\* MUTANT of StatusLine: the value is quoted.
QuotedStatusLine(s) == [key |-> "status", is |-> "'" \o s \o "'"]

StatusLine(s) == [key |-> "status", is |-> s]
HasStatus(head) == \E i \in DOMAIN head : head[i].key = "status"

\* MUTANT of WithStatus: the first line only.
WithFirstStatus(head, s) ==
  IF HasStatus(head)
    THEN [i \in DOMAIN head |->
            IF /\ head[i].key = "status"
               /\ \A j \in DOMAIN head : head[j].key = "status" => i <= j
            THEN StatusLine(s) ELSE head[i]]
    ELSE <<StatusLine(s)>> \o head

\* setStatus: every line that starts with "status:", or a new first line.
WithStatus(head, s) ==
  IF HasStatus(head)
    THEN [i \in DOMAIN head |->
            IF head[i].key = "status" THEN StatusLine(s) ELSE head[i]]
    ELSE <<StatusLine(s)>> \o head

SetProposed ==
  /\ At("status")
  /\ IF file.closed
       THEN /\ file' = [file EXCEPT !.head = WithStatus(@, "proposed")]
            /\ Goto("commit")
       ELSE UNCHANGED file /\ Keep("status")
  /\ UNCHANGED <<asked, plan, outputs, tree, seen, publication>>

-----------------------------------------------------------------------------
(* The gates of work *)

Committed == IF kind = "review" THEN {"task"} ELSE Path \ {"claude", "ignored"}

ChangedFiles ==
  /\ At("changed")
  /\ IF tree \cap Committed # {} THEN Goto("criterion") ELSE Keep("changed")
  /\ UNCHANGED <<work, publication>>

\* MUTANT of RunCriterion: it runs in the clone, as the preflight's does.
RunCriterionInClone ==
  /\ At("criterion")
  /\ seen' = {}
  /\ Goto("commit") \/ Keep("criterion")
  /\ UNCHANGED <<asked, plan, outputs, tree, file, publication>>

RunCriterion ==
  /\ At("criterion")
  /\ seen' = tree
  /\ \E W \in SUBSET CriterionWrites : tree' = tree \cup W
  /\ Goto("commit") \/ Keep("criterion")
  /\ UNCHANGED <<asked, plan, outputs, file, publication>>

-----------------------------------------------------------------------------
(* publish and what follows *)

\* switch, add with the verb's pathspec, commit.
Commit ==
  /\ At("commit")
  /\ commit' = tree \cap Committed
  /\ Goto("push")
  /\ UNCHANGED <<work, pushed, request>>

Push ==
  /\ At("push")
  /\ pushed' = TRUE
  /\ Goto("request")
  /\ UNCHANGED <<work, commit, request>>

\* createPR's error is dropped.
CreatePR ==
  /\ At("request")
  /\ request' \in BOOLEAN
  /\ Goto("clean")
  /\ UNCHANGED <<work, commit, pushed>>

Finish ==
  /\ At("clean")
  /\ Goto("done")
  /\ UNCHANGED <<work, publication>>

\* MUTANT of Refused: one error path returns err instead of keep(err).
RefusedUnkept ==
  /\ pc \in Working \ Phase
  /\ Goto("out")
  /\ pushed' \in IF At("push") THEN BOOLEAN ELSE {pushed}
  /\ UNCHANGED <<work, commit, request>>

\* A git command or a file write fails; a push may have been taken all the same.
Refused ==
  /\ pc \in Working \ Phase
  /\ Keep(pc)
  /\ pushed' \in IF At("push") THEN BOOLEAN ELSE {pushed}
  /\ UNCHANGED <<work, commit, request>>

\* SIGKILL, a reboot, the unit's outer timeout.
Kill ==
  /\ pc \in Working \cup Landed
  /\ pc' = "killed"
  /\ cause' = pc
  /\ UNCHANGED <<kind, failing, work, publication>>

Next ==
  \/ Begin
  \/ SetUp
  \/ AskForProbes
  \/ AskSkeptic
  \/ AskForTask
  \/ AskForWork
  \/ SaveOutput
  \/ RunProbes
  \/ OnlyThisTaskChanged
  \/ SetProposed
  \/ ChangedFiles
  \/ RunCriterion
  \/ Commit
  \/ Push
  \/ CreatePR
  \/ Finish
  \/ Refused
  \/ Kill

Spec == Init /\ [][Next]_vars

-----------------------------------------------------------------------------
(* Properties *)

TypeOK ==
  /\ kind \in Kind
  /\ pc \in Step
  /\ cause \in Step
  /\ failing \in BOOLEAN
  /\ asked \subseteq Phase
  /\ plan \subseteq Probe
  /\ outputs \subseteq {Output[p] : p \in Phase} \cup {"facts.md"}
  /\ tree \subseteq Path
  /\ file \in File
  /\ seen \subseteq Path
  /\ commit \subseteq Path
  /\ pushed \in BOOLEAN
  /\ request \in BOOLEAN

\* What was paid for can be read: the answer of every phase that was run is in
\* the worktree, whatever failed afterwards and whether the phase itself failed,
\* unless the write is what failed or was cut short (review.go: written before
\* the error is checked).
EveryAnswerIsOnDisk ==
  \A p \in asked : \/ Output[p] \in outputs
                   \/ At(Save[p])
                   \/ pc \in Ended /\ cause = Save[p]

\* No task is rewritten before something was measured and a skeptic asked: one
\* probe ran, and what it printed and what the skeptic said are on disk
\* (review.go Review: facts, then an attempt to refute them, then the task).
MeasuredBeforeWritten ==
  "task" \in asked => /\ Ran # {}
                      /\ {"facts.md", "skeptic.md"} \subseteq outputs

\* A published proposal leaves nothing of .tasks behind: what the phases and the
\* probes changed there is in the commit, which holds nothing else (review.go:
\* exactly this one file, rewritten).
NothingProposedIsDropped ==
  kind = "review" /\ pushed => commit = tree \cap TaskPaths

\* The branch of a work job holds only what its criterion was run on, or wrote
\* (work.go: the gate, and the whole gate).
CriterionSawTheChange ==
  kind = "work" /\ pushed => commit # {} /\ commit \subseteq seen \cup CriterionWrites

\* What jalon's parser reads: keys are trimmed and the last one wins.
StatusLines(head) == {i \in DOMAIN head : head[i].key # "other"}
Reads(head, s) ==
  IF StatusLines(head) = {}
    THEN s = "todo"
    ELSE \A i \in StatusLines(head) :
           (\A j \in StatusLines(head) : j <= i) => head[i].is = s

\* What the queue's grep over the whole file reads.
Queued(f) == {f.head[i].is : i \in {j \in DOMAIN f.head : f.head[j].key = "status"}} \cup f.body

\* A proposal whose front matter has no padded status key reads as proposed to
\* the parser, however many status lines the phase wrote, and its front matter
\* puts it in no queue (review.go setStatus, task.go parseFrontMatter, queue.go
\* nextTask).
ProposedUnlessPadded ==
  kind = "review" /\ pushed /\ (\A i \in DOMAIN file.head : file.head[i].key # "padded")
    => Reads(file.head, "proposed") /\ Queued(file) \subseteq {"proposed"} \cup file.body

-----------------------------------------------------------------------------
(* The promise *)

Life ==
  [j \in {"this"} |-> IF pc \in Working THEN "working"
                      ELSE IF pc \in Landed THEN "landed" ELSE "out"]
L == INSTANCE JobLifecycle WITH
  Job <- {"this"},
  life <- Life,
  onOrigin <- IF pushed THEN {"this"} ELSE {},
  unread <- IF pc \in {"kept", "killed"} THEN {"this"} ELSE {}

\* Inside its worktree too the job keeps the promise AgentJobs is shown to keep:
\* its branch comes only out of its work, and it lands or is left to be read
\* (review.go, work.go: keep).
Lifecycle == L!Spec
=============================================================================
