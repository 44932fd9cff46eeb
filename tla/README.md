# jalon, specified

TLA+ modules, TLC runs and TLAPS proofs kept beside
[jalon](https://github.com/AltSoyuz/jalon), a task manager whose tasks are
markdown files in the repository, with an agent layer that measures and builds
them from a timer.

    tlasany AgentJobs.tla                            # parse
    tlc -config AgentJobs.cfg AgentJobs              # model-check one run
    tlapm AgentJobsProofs.tla                        # check proofs

## 1. The system

| part | source | state it keeps | operations |
| --- | --- | --- | --- |
| task file | `task.go` | one `.tasks/<YYMMDD-slug>.md`: front matter, Context, Decisions, Log | parse, save, append an entry, truncate, close |
| verbs | `main.go` | none of their own; read and rewrite task files | new, list, append, digest, compact, close, render |
| agent jobs | `agent/review.go`, `work.go`, `queue.go`, `worktree.go`, `gh.go` | the clone's worktrees, wrecks, branches, FETCH_HEAD, counter file; branches and pull requests on origin | review, work, with an id or `-next` |
| inbox | `agent/capture.go` | a cursor file; stubs and commands pushed to origin | capture |
| preflight | `agent/doctor.go` | none | a list of checks, two of which look at the clone |
| configuration | `agent/config.go`, `toml.go` | `.jalon/agent.toml` | load, validate |
| recap | `agent/recap.go` | none | one note on what waits for a person |
| units | `agent/setup/*` | none | an hourly oneshot: `review -next`, then `work -next` |
| rest | `digest.go`, `github.go`, `render.go`, `metrics.go`, `agent/skills.go` | none | read only, or one line appended |

How they meet: everything goes through git. A person, or the inbox, sets a
task's status on origin's default branch; the timer starts a job; the job reads
the queue from FETCH_HEAD, works in a throwaway worktree of one clone, and
leaves by pushing a branch, or by parking its worktree in `.jalon/failed`. The
clone is shared by every process that runs in it: the timer's unit, the inbox's
unit, and a person at a shell. No lock protects it.

What is hard: several processes in one clone, a check and its use minutes
apart, kills between two git commands, answers that get lost after the forge
did what it was asked, errors that are deliberately not fatal, and a queue whose
only marks are a branch on origin and a directory on disk. The full list, each at its
line with the property that watches it, is `hazards` in `PROJECT.json`.

What makes each part correct:

- jobs: one process per worktree; no failure without evidence; the caps on jobs
  a day and on wrecks; nothing done twice, nothing retried by the clock; every
  queued task is served or a person is asked for;
- inbox: every line ends in the repository it names or in an answer; nothing is
  captured twice; an acknowledged line stays; one bad line does not stop the rest;
- a job inside its worktree: what was paid for can be read; nothing is written
  before something was measured; what is published is what was gated;
- both on one machine: each is still what it is alone, and a job works on what origin
  asked for;
- configuration: a file means what it looks like or does not load;
- task file: a verb changes what it says and keeps every other byte; two verbs
  do not undo each other; an id names one task; the page shows the task.

## 2. Modules

| module | models | state and actions |
| --- | --- | --- |
| `AgentJobs` | `review` and `work` over one clone, origin, people, the clock | below |
| `JobLifecycle` | what the jobs promise, whatever runs them | `life`, `onOrigin`, `unread` of each job; Start, Land, Finish, Fail, LookAt |
| `MCAgentJobs` | `AgentJobs` with symmetry for TLC | |
| `AgentJobsProofs` | theorems about `AgentJobs` | |
| `AgentJobsRefinement` | `AgentJobs` implements `JobLifecycle` | |
| `Capture` | `capture` over one inbox, origin, people, the date | below |
| `MCCapture` | the inboxes and repositories TLC's runs use | |
| `CaptureProofs` | theorems about `Capture` | |
| `JobPhases` | one job inside its worktree: phases, gates, publication | below |
| `MCJobPhases`, `JobPhasesProofs` | the task files a phase may leave, for TLC; its theorems | |
| `JalonHost` | `AgentJobs` and `Capture` composed over one clone | below |
| `MCJalonHost`, `JalonHostProofs` | one task and one line, for TLC; its theorems | |
| `TomlText` | one string of `agent.toml`: comment, quotes, escapes; the grammar it is held against | no state |
| `AgentConfig` | `parseTOML`, `loadConfig`, `validate` over one file | below |
| `MCAgentConfig`, `AgentConfigProofs` | the files TLC reads; its theorems | |
| `TaskFile` | the body of a task: sections, entries, the three rewrites, as operators on lines | no state |
| `TaskFileProofs` | what the rewrites keep of any body, and what its page shows | |
| `TaskPage` | `mdToHTML`: the page of a task's body, and how it is read back | no state |
| `TaskStore` | the verbs over the shared task files | below |
| `MCTaskStore`, `TaskStoreProofs` | the verbs, edits and files TLC's runs use; its theorems | |

### AgentJobs

One process is a record in `run`: where it is (`pc`), which verb (`kind`),
whether it was started with `-next`, the task, the slot it is
about to write. One action is one stretch of code between two points where
another process or a kill can be seen:

| action | code |
| --- | --- |
| `Tick`, `RunByHand` | the unit's first `ExecStart`; a person's verb |
| `FetchDefault`, `NextTask`, `GrepDies`, `ReadTask` | `fetchDefault`, `nextTask`, `readTask` |
| `DoctorGit`, `DoctorCriterion` | `gitCheck`, `criterionCheck` |
| `ReadSlot`, `TruncateSlot`, `WriteSlot` | `takeJobSlot`: the read, and the two halves of `os.WriteFile` |
| `CheckRoom`, `FetchForWorktree`, `AddWorktree` | `newWorktree` |
| `RunPhases`, `PhasesFail` | everything from `materializeSkills` to the last gate |
| `SwitchBranch`, `Push`, `PushFails`, `CreatePR` | `publish`, `createPR` |
| `Remove`, `LeaveInPlace` | `remove`, or `-keep-worktree`, or a removal that failed |
| `ClearOlderWreck`, `MoveWorktree`, `ParkFails` | `park`, reached only by `keep` |
| `Refused`, `Crash` | an external command that fails; a kill |
| `EditStatus` ... `RemoveStale`, `Midnight` | people, and the date |

`ExitOk` holds the unit's rule that the second `ExecStart` runs only when the
first exited 0. Three history variables record what no file holds: `started`,
the slots really taken today; `torn`, that a write of the counter was cut short
today; `unread`, the failed jobs nobody has looked at.

Abstracted: a task is its id (a number, because ids sort by age) and its status;
every open status that no queue reads is `proposed`; a task origin does not have
is `done`, because `readTask` refuses both. The phases and their gates are one
step that passes or fails: `JobPhases` opens it. `InboxFetch` is the one step of
another verb in the clone, a fetch that writes FETCH_HEAD; `JalonHost` says who does
it. The environment checks of `doctor` are
part of `Refused`: they change nothing.

### Capture

`run` is the one process: where it is, the line, the last line of the batch, the
repository, what its worktree was cut from (`base`), the task it writes.

| action | code |
| --- | --- |
| `Tick`, `PollInbox`, `TakeLine` | the timer; `pollInbox`; the routing in `Capture` |
| `LookUp(down)` | the loop over the repositories, those in `down` failing to fetch |
| `AddWorktree`, `Clean`, `CleanFails` | `newWorktree`; the deferred `remove` |
| `WriteStub`, `WriteCommand` | `captureOne` up to the append; `commandOne` up to the push |
| `PushDefault`, `DefaultRefused`, `PushUnanswered` | `pushStub`'s first push |
| `PushBranch`, `OpenRequest`, `RequestRefused`, `RequestUnanswered` | its branch and pull request |
| `Reply` | `reply`, which never fails the verb |
| `TruncateCursor`, `WriteCursor` | the two halves of `writeCursor`'s `os.WriteFile` |
| `Refused`, `Crash` | an external command that fails; a kill |
| `Send`, `MergeRequest`, `CloseRequest`, `RemoveStale`, `Midnight` | people, and the date |

A task is a slug, the day in its id, and the line that made it; a default branch
is the set of commits it holds, a commit a line and a task. `origin` takes a push
that builds on what it has and is not protected. Two history variables say what the
thread was told (`said`), and whose pull request a person closed (`closed`).

Abstracted: `build`, `decide` and `drop` are one command, since they differ in the
text they write; a `decide` without text is a line sent back. What a command's
prefix of an id matches is given by its slug. The cap on wrecks, which
`newWorktree` checks too, is in `JalonHost`, where there are wrecks; two captures at
once are not modelled.

### JobPhases

The worktree is the set of the kinds of path that differ in it (`tree`); `file` the
task's front matter, as lines that are a status line, a padded one or another, and
the status lines its body quotes; `outputs` the files of the scratch directory.

| action | code |
| --- | --- |
| `Begin`, `SetUp` | the worktree is there; skills and scratch directory |
| `AskForProbes`, `AskSkeptic`, `AskForTask`, `AskForWork` | `runPhase`, with what each phase's tools reach |
| `SaveOutput` | what the phase printed, then its error |
| `RunProbes` | `runProbes`, `premiseGrep`, `facts.md`, the gate on one probe that ran |
| `OnlyThisTaskChanged`, `SetProposed` | the review's gate; `setStatus` |
| `ChangedFiles`, `RunCriterion` | the gates of work |
| `Commit`, `Push`, `CreatePR`, `Finish` | `publish` and what follows |
| `Refused`, `Kill` | an error path (`keep`); a kill |

A phase may change anything its tools reach and end well or not: nothing is assumed of
the model behind it. Abstracted: prompts, costs, budgets and the text of answers.

### JalonHost

Both modules are instantiated over one set of variables. They meet in five places, and
a joint step is a step of each or of one: a line that lands writes a task's status
(`Lands`, from `Orders`); both fetch into one FETCH_HEAD (`LookUp`, `AddWorktree`); the
wrecks of the jobs count against the inbox's worktree (`NoRoom`); any worktree of the
inbox stops a job's preflight (`DoctorGit`); a push to the default branch is refused
when someone else's came between (`moved`, `PushOvertaken`). The history variable
`seen` holds what origin said of each task since each process began.

Abstracted: one repository, and every line about it; the day of `Capture` stops at
`MaxDays` while the counter's midnight goes on.

### AgentConfig and TomlText

A file is a sequence of lines, a line what `parseTOML` tells apart; a value is a text
(marks and words, `TomlText`), a number, an open bracket or junk. One action reads one
line (`BlankLine`, `Header`, `Setting`, `Element`, `CloseArray`, or `RefuseLine`), then
`EndOfFile`, `LoadConfig` and `Validate` are the passes. `Duration` wraps at `Width`
bits. `Sound` says, from the lines and without the parser, which files an owner may
write; `Meanings` what a string means, by every way to cut it and not from left to
right. `Sound(TRUE)` and `Sound(FALSE)` differ by the three readings of section 5.

Abstracted: the spelling of numbers and of names; which words hold a shell character, a
blank at their ends, or a character no branch has, is given.

### TaskFile and TaskStore

A line is its kind (title, section, entry, compaction marker, prose, blank, fence)
and a number: which section, which entry, what the marker counts. `InCode` counts
the fences above, as `sectionLines` does; `Content`, `Entries`, `SetSection`,
`AppendEntry` and `TruncateSection` are the functions of that name.

| action | code |
| --- | --- |
| `Start` | `run`: a verb of `Commands` |
| `Create`, `WriteTemplate`, `Reparse` | `CreateTask`: `O_EXCL`, the write, `ParseTask`; then what `-issue` needs |
| `Resolve`, `ReadFile` | `resolveTask`: the glob, then the read, and each verb's early returns |
| `Truncate`, `Write` | the two halves of `Save`; `Edited` is what the verb made of what it read |
| `Stop` | a kill, or a file operation that fails |
| `HandEdit` | a person's editor |

`BadRef` and `NextRef` hold the loop of `close`: a bad reference ends it, or is
skipped with `-from-merge`. Two writes at once leave the end of the longer one
(`Over`). The history variable `spoiled` names the files on which a save was cut
short or overwrote what it had not read; `acked` the decisions reported done.

Abstracted: the front matter is its status; a heading of level three and more is
not a line of the model; a save cut short leaves an empty file and not half of one;
the offset at which a longer write sticks out is a line, not a byte.

`TaskPage` reads the same lines one after another, as `mdToHTML` does; a page is the tags
it opens and closes and the numbers of the lines it shows. `Nesting` reads it back as a browser does, and
`ShowsTheBody` holds it against `InCode`, `IsEntry` and the headings as the verbs see
them. What a line looks like inside (`inlineHTML`) is left out.

## 3. Runs

| run | question | bounds | result |
| --- | --- | --- | --- |
| `jobs` | does the deployment as documented (one timer, people on the forge) keep its promises, and is every queued task served? | 2 tasks, caps 2 and 1, 1 human act, fair | passes; also implements `JobLifecycle` |
| `jobs_hands` | do two people in one clone disturb each other? | 1 task (2 jobs), 2 processes, cap 1 | passes |
| `capture_lines` | does the cursor only pass answered lines, and can two ideas get one id? | 4 lines, 2 repositories, batch 2, 1 day | passes |
| `capture_served` | does what was told stay done, and is every line handled, or its obstacle one a person must lift? | 3 lines, protected, 2 days, fair | passes |
| `tasks` | do two verbs, kills and edits by hand keep decisions and sections, and does the page show what is left? | 2 tasks, 2 processes, 3 verbs, 1 edit, `-keep 1` | passes |
| `phases` | is what a job spent readable, what it wrote measured, what it published gated? | every set of paths, 24 task files | passes; also implements `JobLifecycle` |
| `host` | with the inbox in the same clone, is a job's order one origin gave? | 1 task, 1 line that drops it, caps 1, 1 human act | passes |
| `config` | does a file that loads say what it says, and is every refusal due? | below | passes |
| `jobs_lost_pull_request` | can a published branch stay invisible? | 1 task, timer alone | violated |
| `jobs_requeued` | can a task put back in the queue be published? | 1 task, 2 acts | violated |
| `capture_overwrites` | does a second command leave the first one's work? | 2 lines, protected | violated |
| `tasks_snippet` | does compact keep the newest entries below a code block? | 1 verb, 1 edit | violated |

Bounds. Two tasks are enough for one to starve or overtake the other; two
processes are enough for every check-then-use pair; caps of one and two put the
counters at their limit; a human act is needed to reach each of merge, close,
delete, remove and edit. `MaxActs` bounds only what people do. `Midnight` is
not bounded in `AgentJobs`: the counter's date is only today's or not; `MaxDays`
bounds it in `Capture`, where two days are enough for a line to be read again
under another id. The proofs of section 4 carry the safety results of `jobs`,
`jobs_hands`, `capture_lines`, `phases` and `host`, and of `tasks` its type, decision
and section properties, to every bound.

In `host`, the task starts in no queue (`MCInit`), so the one human act is what puts
it there, and the line then drops it at any moment of the job; what the acts of the
inbox cost is on top (`MaxActs` is `MaxPeople` and one for the line). That the host
implements `AgentJobs` and `Capture` is proved and not run: the instance is too large.

In `config`, the files are a template like the one of `docs/agent.md`, with and without
its `[notify]`, and every file one edit away from either: a line dropped, two
exchanged, a line of `Edits` put in place of another or between two. `Edits` has the
template's own lines, so a key set twice, a header out of place and an array left open
are among them, and the values at and beyond each bound. The criterion is besides every
text of at most three marks, bare or quoted, with a comment or without. A duration has
`Width` 24 bits and a second 1000 units, so that 3600 seconds fit and a number of five
digits wraps into the bounds, as 18446744075 seconds do in 64 bits.

Fairness (`FairSpec`). The timer is `Persistent=true` and hourly, so a process
that can take a step eventually takes one; midnight comes; outages (an external
command that fails, a kill, a grep that dies) end. An outage is a step
that no step of the code itself explains: a queue that is empty, a cap that is
reached, a title that is refused end a process the same way and may do so for
ever. Nothing is assumed of people:
`QueueIsServed` allows the states in which only a person can help, a worktree
left in place or a full `.jalon/failed`, and no others. Whether the phases
succeed or fail is never assumed either. `Capture` is alike, its timer firing every
fifteen minutes; `LinesAreServed` allows a line to wait only while it is blocked
for good (`Stuck`: its worktree is in its way, its title has no id or its id is
taken, its branch has an open pull request).

In `tasks`, a file is there at first with a wrapped entry in its Log, so three verbs
are enough for an append, a compaction and a third that races either; the edit by
hand puts a code block with a heading and a list anywhere outside code.

No liveness is claimed of the verbs, which a person runs, nor of one job's phases, one
file's lines or the host: what serves the queue and the inbox is in the two modules
the host composes. Processes of `TaskStore`, `JobPhases` and `AgentConfig` end, so
a state without a successor is no deadlock there.

Every property of a passing run has a mutant, an operator whose comment says
MUTANT, which breaks it: a plausible slip in the code the definition models.

## 4. Proofs

All by TLAPS. Of the jobs, for every set of tasks, timers and people and every
cap:

- `TypeCorrect`: `TypeOK` is inductive as it stands; its one strengthening,
  `HasTask`, says a process past the queue knows its task.
- `Exclusive`: `WorktreeIsExclusive` is inductive with `TypeOK`. `StepOfOne`
  classifies every step of a process as entering, staying in, leaving or
  elsewhere than its worktree; `git worktree add` is the only way in.
- `Evidence`: not inductive alone, because removing the worktree of a success
  must not remove what an earlier failure left. `EvidenceInv` adds that a job
  still working whose earlier failure is unread has that wreck parked, and that
  a job being parked is unread.
- `SoloDailyCap`, `SoloWreckCap`, `SoloRetriedByAPerson`, `SoloNotDoneTwice`:
  with exactly one process in the clone, the four promises that two processes
  break (section 5). `SlotInv` says who holds the count between the read and the
  write; `WreckInv` that a job past `CheckRoom` still has its place; `QueueInv`
  that what made a task eligible stays true until its worktree exists.
- `JobsKeepThePromise`: `Spec => Lifecycle`, a step of the jobs being one step of
  `JobLifecycle` or a stutter. It needs `EvidenceInv` for a kill while parking.

Of the inbox, in `CaptureProofs`, for every inbox, repositories and batch size:

- `TypeCorrect`: `TypeOK` is inductive.
- `Settles`: the cursor only passes settled lines. `BatchIsSettled` adds that the
  lines of the batch before the current one are settled, and the current one
  once the cursor is being written. `ReaderStep` sums up what a step does to both.
- `IdsAreUnique`: two tasks of a default branch never share an id. `FreshOrKnown`
  says what the worktree was cut from is still on origin, that the task being
  pushed is one of those or fits among them, and that a branch holds a new task
  or one of its default branch; a push that builds on origin does the rest.

- `KeptUnlessRivalled`: a line the thread was told is kept is on the default branch, in
  an open pull request or was closed by a person, or another line on the same task has
  come in since. `SaidWhenSafe` says it of what is about to be said, too; `OnItsTask`
  that the process, and every branch, is on the task its line is about, so a forced push
  can only replace the work of a rival.
- `Acknowledged`: `AcknowledgedIsKept`, in an inbox where no two lines are on one task
  (`NoRivals`). Without that it is false, and `capture_overwrites` shows how.

Of one job inside its worktree, in `JobPhasesProofs`, for every set of statuses and of
task files, and whatever probes and criterion write:

- `TypeCorrect`, `Answers`, `Measures`, `ProposesTheTaskOnly`, `CriterionDecides`,
  `Proposes`: the type invariant and the five safety invariants of the run. Each has
  an inductive form which says at which places of `pc` it is being made true: what is
  asked is saved or about to be; past the probes one ran; past its gate the worktree
  holds the task and nothing else of `.tasks`, and past `setStatus` its front matter
  says proposed on every unpadded line; past the criterion `seen` holds all there is
  but what the criterion wrote.
- `PhasesKeepThePromise`: `Spec => Lifecycle`, the same `JobLifecycle` that
  `AgentJobs` implements, so taking the phases for one step there loses nothing of it.

Of both on one machine, in `JalonHostProofs`, for every set of tasks, lines and people:

- `JobsBesideTheInbox`, `InboxBesideTheJobs`: the host implements `AgentJobs` and
  `Capture`. Every joint step is a step of each or leaves its variables alone, so what is
  proved of either alone holds of both in one clone: `TypeBesideTheInbox` and
  `EvidenceBesideTheInbox` are the instances this one clone makes interesting.
- `OrdersAreFresh`: `OrderIsFresh`. `FreshInv` adds that what FETCH_HEAD says, for a
  process that has fetched, is a status origin had since that process began, and keeps
  being one through the inbox's fetches, which only bring newer ones.

Of the configuration, in `AgentConfigProofs`, for every set of files:

- `TypeCorrect`: `TypeOK`.
- `EveryLine`: `EveryLineCounts`, whatever the length of the file. `Placed` says where
  each line that was read is: its key is set from it, or is the array being read; an
  element is in an array that no bracket has closed. The step that reads a line is split
  in what every line does (`ReadsStep`), what only its own kind can disturb
  (`Undisturbed`) and one lemma per kind.
- `SaysWhatIsWritten`, `OnlySound`, `RefusalsDue`: `AsWritten`, `OnlySoundIsLoaded` and
  `RefusalsAreDue`. Together the last two say that the parser and the passes take the
  files an owner was told of and no others, but for the three readings of section 5.
  `Placed` says nothing of values nor of what a refusal was for, so `Values` adds it:
  every line behind the reader is where its kind may be (`Shaped`); a key holds what its
  line says, and an array that is set was closed behind the reader (`DocCarries`); the
  array being read holds its elements so far, in order (`OpenLists`, with `Rank` for the
  order); and what each pass found (`Found`). From it the passes are held against the file
  one key at a time: `CompleteIsKeyed`, `Checks`, `Texts`, `ProbesKey`; and a refused line
  against the layout: `InArray`, `OutsideArrays`, `SoundFits`.
- `MeaningIsRead`, `ReadHasMeaning`: for a text of any length, what `strip` and `str` read
  from left to right is what the grammar means by it, and what they refuse it does not
  have; the one exception is the string that opens again. `ReadTo` is why: where the
  grammar's string ends the scan is outside of any quote, and nowhere before (`InBasic`
  follows the escapes); `CutOnce` that a body has one cut at its escapes.
- `InsideStays`: for a path of any length, cleaning it and looking at its beginning decides
  whether it ever climbs out, but for the parent itself. `CleanHolds` counts, element by
  element, how deep the cleaned path is.

What these three read is defined by recursive functions (`Inside`, `Escapes`, `Unescaped`,
`Cleaned`), so each is first shown to exist and to take its steps (`StepsExist`), and then
reasoned about by counting up its argument (`CountingUp`, from a least counterexample):
the induction is in the lemma and needs no operator as a parameter.

Of a task's body, in `TaskFileProofs`, for every body of any length, sections missing,
doubled or in code included:

- `SetSectionKeeps`, `AppendEntryKeeps`, `TruncateSectionKeeps`: the rewrite of one
  section returns every other line for line, the last of the three only those above.
  The first two are one argument, `Patch`: a rewrite replaces a stretch of lines by
  another that closes as many fences and has no heading outside code, so every line
  after it is in code if it was (`PatchInCode`), the headings are the same ones moved
  (`PatchStops`), and a section that the stretch is not inside has the same content.
  `TruncateSection` may drop one fence of a pair and is no such patch; it changes
  nothing before the first line it drops, which is below its heading.
- Every task keeps its three sections with Log last (`Shaped`), and every line a
  section holds (`Holds`), under the rewrites that the verbs do.
- `PagesShow`: the page shows every line that holds something once, in order, where the
  verbs see it, and closes every tag. `mdToHTML` keeps its own flag for code and never
  asks `InCode`; that they agree is the argument: between two lines the state of the
  page is one of four (`Free`, `Listing`, `Writing`, `Coding`), the last one exactly while
  the fences above are odd (`Stands`), and in each `Under` says which tags are open and
  that the lines above are shown. A paragraph is put on the page when it ends, so
  `Writing` speaks of the page with the paragraph's opening tag and its lines so far put
  after it. `NextLine` is split in one lemma per kind of line.

Of the verbs, in `TaskStoreProofs`, for every set of processes, tasks and commands and
every number of runs and edits:

- `TypeCorrect`: `TypeOK`. `Sound` adds that a process that is about to save has read a
  task with the section it rewrites.
- `DecisionsStay`: `DecisionsAreKept`. It is far from inductive. `KeptInv` adds that a
  task no save was cut short on is `Shaped`, and so is what a process has read of it;
  that between its truncation and its write a process is alone at the file, which is
  empty, and has in hand all that was acknowledged of it (`AloneAtWrite`); that whoever
  creates a file has it to himself until the template is in it (`AloneAtCreation`); and
  that no file goes away. A step that writes is about one file, and `BesideStep` reduces
  it to that file.
- `OtherSectionsStay`: `OnlyItsSection`, an action property, from the same invariant and
  the theorems about the rewrites.
- `PagesStay`: `PagesShowTheirTasks`, from the type invariant and `PagesShow`.

`DecisionsStay` and `OtherSectionsStay` suppose that the text issues and hands put in closes its fences and has
its headings in code (`ContainedText`), and that the tasks there at first came from the
template (`ShapedSeeds`); `MCTaskStore` has TLC evaluate both on the text of the runs,
code blocks with headings included. The code does not see to the first: an issue's own
`## Decisions` becomes the first one of its task, and hides what was decided.

The assumptions are the named ones of the modules: ids are positive numbers,
timers and people are different processes, the caps are positive (`validate`
refuses less for `daily_job_cap`; `maxFailed` is 10), an idea names a known
repository, batches and days are at least one, a file is a sequence of lines of the
kinds `parseTOML` tells apart, and an hour fits a duration (it does in 64 bits).

Only model-checked: liveness, which is out of the prover's reach; `EntriesFollow`, which
is false of some text (`tasks_snippet`); and the violations. Every other property of a
run that passes is a theorem.

## 5. Where the code and what it says of itself differ

Each of these is a run that TLC must find violated, and an entry of `findings`:

1. A task queued again cannot be published from this clone (`jobs_requeued`).
2. A branch can be published with no pull request and no trace of the error
   (`jobs_lost_pull_request`).
3. A second command on a task of a protected repository undoes the first
   (`capture_overwrites`).
4. Compacting a Log with a code block in it can break the sections
   (`tasks_snippet`).

Met while modelling, and without a run of their own:

- a person beside the timer breaks `DailyCap` (`takeJobSlot` reads and rewrites the
  counter without a lock), `WrecksAreBounded` (`countFailed` is read before the
  job, the wreck parked after it) and `RetriedByAPerson` (`nextTask` looks for a
  wreck minutes before the job starts): give `AgentJobs.cfg` one hand to see each;
- `readTask` and `newWorktree` fetch apart, so the text a phase is given can be
  older than its worktree (`queue.go:110` says they are the same);
- a line read twice on two days makes two tasks (`docs/agent.md:53` says one);
- a line whose title has no character an id can have fails at every tick, and the lines
  after it wait for good (`task.go:337`, `capture.go:174`; `capture.go:58` says the rest
  is picked up next tick);
- an unroutable line whose reply fails leaves nothing (`capture.go:26` says nothing
  is silently lost);
- a command whose id is in two repositories goes to one when the other cannot be
  fetched (`docs/agent.md:78` says it comes back as a question);
- the full id of a task is refused when it is the prefix of another's
  (`README.md:92`: every command takes an id or its unique prefix);
- `close -from-merge` stops at a task without a Log and leaves the good references
  after it (`main.go:375` says it must not);
- the headings of an issue become sections of its task (`main.go:291`;
  `docs/format.md:130`: it never rewrites a section it was not asked to change);
- a front matter key written `status :` is read by the parser (it trims) and not
  rewritten by `setStatus` (it wants `status:`), so such a proposal keeps the status the
  phase wrote (`review.go:282`); `ProposedUnlessPadded` says so;
- a line `status: measure` or `status: implement` in a task's body puts it in a queue
  (`queue.go:55` greps the file);
- the cost of a review that fails is nowhere: it is summed after the last gate
  (`review.go:219`; `docs/agent.md:304`: every job leaves its `cost_usd`);
- a pull request says the criterion passed on its branch, which leaves out what the
  phase wrote under `.claude` and what `.gitignore` hides, both there when it ran
  (`work.go:267`);
- a `build` is answered "queued" though a wreck or a branch of the same name keeps it
  out; a `drop` that lands during a job does not stop it: the job's order was origin's
  when it began, which is all `OrderIsFresh` says;
- three readings of the configuration that `OnlySoundIsLoaded` lets through: `"a" "b"`
  is one string (`toml.go:22` has no such form), a timeout of 18446744075 seconds wraps
  into 1..3600 (`config.go:71`, `161`), and `..` is inside the repository, though
  nothing below it is (`config.go:216`);
- the recap reads the clone's checkout, which no unit updates, and lists neither a
  worktree left behind nor a branch without a pull request (`recap.go`);
- the marker of a compaction counts lines, the previous marker among them, so a
  second compaction loses the first one's count (`task.go:288`).

## 6. Plan, and what is not modelled

Done: the jobs, the inbox, both in one clone, a job's phases, the configuration, the
task file, its verbs and its page. What is left that could be done:

1. `EntriesFollow` as a theorem, for text without headings, and a promise about
   `-from-merge`: what it reports closed is closed, what it can close it closes.
2. The recap as a reading of `AgentJobs` and `Capture`'s state: every task that waits
   for a person is in it.
3. Two captures at once, and the fifteen minutes' timer of a second repository.

Not modelled, and why:

- recap, digest and list (`recap.go`, `digest.go`, `github.go`): they read files and
  the forge, print, and change nothing; what is hard in them is wording and dates;
- the inline text, links and index of `render.go`: they change nothing, and are about
  characters, which the models have none of;
- metrics (`metrics.go`): one line appended to a log that only the recap reads;
- setup and skills (`agent/setup.go`, `skills.go`): templates and prompts copied out
  once; what the units do when they run is in `AgentJobs`;
- the environment checks of `doctor.go`: a report, or a `Refused`;
- prompts, costs and the model itself: a phase may do whatever its tools reach.

`hazards` in `PROJECT.json` has three without a property: the text a phase is given
against the worktree it works in (`queue.go:112`), a repository that cannot be fetched
during a lookup (`capture.go:114`), and a task without a Log in a merge
(`main.go:389`). The first two are steps of the models and known to go wrong, as
section 5 says; the third is one branch.
