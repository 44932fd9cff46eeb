-------------------------------- MODULE Capture --------------------------------
(***************************************************************************)
(* `jalon capture` (agent/capture.go): the lines of one inbox topic, read  *)
(* from a cursor and turned into commits on the repositories they name.    *)
(*                                                                         *)
(* A line is an idea, a command on a task that exists, a line that names   *)
(* no known repository, or one to skip (blank, or titled: jalon's own      *)
(* messages come back in the same topic).  The commit goes to the default  *)
(* branch, or, when that push fails for any reason, to a branch            *)
(* capture/<id> with a pull request.  Whatever happens, the worktree is    *)
(* removed; only then the thread is told and the cursor moves.             *)
(***************************************************************************)
EXTENDS Naturals, FiniteSets, Sequences

CONSTANTS
  Repo,        \* repository roots, as given on the command line
  Protected,   \* those whose default branch takes no push
  Slug,        \* what NewID makes of a title
  NoSlug,      \* a title with no character usable in an id
  NoRepo,      \* no repository named
  Extends,     \* pairs <<long, short>>: short is a prefix of long
  Lines,       \* what people will send, in order
  Seeds,       \* the tasks each repository starts with, by slug
  MaxPerTick,  \* maxPerTick, the lines one run handles at most
  MaxDays      \* bound on the days that pass

Say == {"idea", "command", "unrouted", "skip"}
Line == [say : Say, repo : Repo \cup {NoRepo}, slug : Slug \cup {NoSlug}]
Index == 1..Len(Lines)

ASSUME NameAssumption == NoSlug \notin Slug /\ NoRepo \notin Repo
ASSUME LinesAssumption ==
  /\ Lines \in Seq(Line)
  /\ \A n \in Index : Lines[n].say = "idea" => Lines[n].repo \in Repo
ASSUME SetupAssumption ==
  /\ Protected \subseteq Repo
  /\ Seeds \in [Repo -> SUBSET Slug]
  /\ MaxPerTick \in Nat \ {0}
  /\ MaxDays \in Nat \ {0}

\* An id is a date and a slug; by is the line that made the task, 0 for a task
\* that was there before the first day.
Task == [slug : Slug, day : 0..MaxDays, by : 0..Len(Lines)]
Commit == [line : 0..Len(Lines), task : Task]
Tasks(tree) == {c.task : c \in tree}
SameId(t, u) == t.slug = u.slug /\ t.day = u.day

VARIABLES
  day,        \* the date
  arrived,    \* how many lines the topic holds
  cursor,     \* the cursor file: the last line handled, 0 when it has none
  main,       \* each repository's default branch on origin, a set of commits
  branches,   \* origin's capture/<id> branches: repository, commit, open request?
  worktrees,  \* the worktrees capture-<message> left in each clone
  run,        \* the process
  said,       \* history: what the code has answered to each line
  closed      \* history: the lines whose pull request a person closed

vars == <<day, arrived, cursor, main, branches, worktrees, run, said, closed>>

InWorktree == {"write", "push", "branch", "request", "clean"}
Step == {"idle", "poll", "take", "lookup", "room", "reply", "truncate", "cursor"}
          \cup InWorktree
NoTask == [slug |-> NoSlug, day |-> 0, by |-> 0]
Idle == [pc |-> "idle", line |-> 0, upto |-> 0, root |-> NoRepo, base |-> {},
         task |-> NoTask, says |-> "back", landed |-> FALSE, ok |-> TRUE]

At(l) == run.pc = l
Goto(l) == run' = [run EXCEPT !.pc = l]
Exit == run' = Idle
Now == Lines[run.line]
New == [line |-> run.line, task |-> run.task]
Place == [repo |-> run.root, line |-> run.line]

Init ==
  /\ day = 1
  /\ arrived = 0
  /\ cursor = 0
  /\ main = [r \in Repo |->
       {[line |-> 0, task |-> [slug |-> s, day |-> 0, by |-> 0]] : s \in Seeds[r]}]
  /\ branches = {}
  /\ worktrees = {}
  /\ run = Idle
  /\ said = [n \in Index |-> "nothing"]
  /\ closed = {}

-----------------------------------------------------------------------------
(* Reading the inbox *)

Tick ==
  /\ At("idle")
  /\ run' = [Idle EXCEPT !.pc = "poll"]
  /\ UNCHANGED <<day, arrived, cursor, main, branches, worktrees, said, closed>>

\* Everything after the cursor, or the whole topic without one, cut at
\* maxPerTick.
PollInbox ==
  /\ At("poll")
  /\ IF cursor >= arrived
       THEN Exit
       ELSE run' = [run EXCEPT !.pc = "take", !.line = cursor + 1,
                      !.upto = IF arrived - cursor > MaxPerTick
                               THEN cursor + MaxPerTick ELSE arrived]
  /\ UNCHANGED <<day, arrived, cursor, main, branches, worktrees, said, closed>>

\* MUTANT of TakeLine: a line without a repository is dropped.
TakeLineSilently ==
  /\ At("take")
  /\ run' = [run EXCEPT
       !.root = Now.repo, !.task = NoTask, !.says = "back", !.landed = FALSE, !.ok = TRUE,
       !.pc = CASE Now.say \in {"skip", "unrouted"} -> "truncate"
                [] Now.say \in {"idea", "command"} /\ Now.repo = NoRepo -> "lookup"
                [] OTHER -> "room"]
  /\ UNCHANGED <<day, arrived, cursor, main, branches, worktrees, said, closed>>

\* MUTANT of TakeLine: a titled line is skipped and the cursor stays.
TakeLineKeepingCursor ==
  /\ At("take")
  /\ IF Now.say = "skip"
       THEN run' = IF run.line < run.upto THEN [run EXCEPT !.line = @ + 1] ELSE Idle
       ELSE run' = [run EXCEPT
              !.root = Now.repo, !.task = NoTask, !.says = "back", !.landed = FALSE, !.ok = TRUE,
              !.pc = CASE Now.say = "unrouted" -> "reply"
                       [] Now.say \in {"idea", "command"} /\ Now.repo = NoRepo -> "lookup"
                       [] OTHER -> "room"]
  /\ UNCHANGED <<day, arrived, cursor, main, branches, worktrees, said, closed>>

TakeLine ==
  /\ At("take")
  /\ run' = [run EXCEPT
       !.root = Now.repo, !.task = NoTask, !.says = "back", !.landed = FALSE, !.ok = TRUE,
       !.pc = CASE Now.say = "skip" -> "truncate"
                [] Now.say = "unrouted" -> "reply"
                [] Now.say \in {"idea", "command"} /\ Now.repo = NoRepo -> "lookup"
                [] OTHER -> "room"]
  /\ UNCHANGED <<day, arrived, cursor, main, branches, worktrees, said, closed>>

\* The tasks a command's id, or prefix of an id, may mean.
Named(tree) == {t \in Tasks(tree) : t.slug = Now.slug}

\* A command that names no repository: the one where the id is found.  A
\* repository that cannot be fetched is passed over.
LookUp(down) ==
  /\ At("lookup")
  /\ LET found == {r \in Repo \ down : Named(main[r]) # {}} IN
       \/ \E r \in found : /\ found = {r}
                           /\ run' = [run EXCEPT !.pc = "room", !.root = r]
       \/ /\ Cardinality(found) # 1
          /\ Goto("reply")
  /\ UNCHANGED <<day, arrived, cursor, main, branches, worktrees, said, closed>>

-----------------------------------------------------------------------------
(* captureOne and commandOne *)

\* newWorktree: a path that exists is refused, the rest is cut from origin.
AddWorktree ==
  /\ At("room")
  /\ IF Place \in worktrees
       THEN Exit /\ UNCHANGED worktrees
       ELSE /\ worktrees' = worktrees \cup {Place}
            /\ run' = [run EXCEPT !.pc = "write", !.base = main[run.root]]
  /\ UNCHANGED <<day, arrived, cursor, main, branches, said, closed>>

\* MUTANT of Refuses: the file is opened without O_EXCL.
RefusesOnlyTitles(slug, tree) ==
  \/ slug = NoSlug
  \/ \E t \in Tasks(tree) : t.day = day /\ <<t.slug, slug>> \in Extends

\* jalon new refuses a title without a slug and an id that exists; jalon append
\* refuses an id that is the prefix of another.
Refuses(slug, tree) ==
  \/ slug = NoSlug
  \/ \E t \in Tasks(tree) : t.day = day /\ (t.slug = slug \/ <<t.slug, slug>> \in Extends)

WriteStub ==
  /\ At("write")
  /\ Now.say = "idea"
  /\ run' = IF Refuses(Now.slug, run.base)
              THEN [run EXCEPT !.pc = "clean", !.ok = FALSE]
              ELSE [run EXCEPT !.pc = "push", !.says = "kept",
                      !.task = [slug |-> Now.slug, day |-> day, by |-> run.line]]
  /\ UNCHANGED <<day, arrived, cursor, main, branches, worktrees, said, closed>>

\* No task or several: nothing is written and the thread is told.
WriteCommand ==
  /\ At("write")
  /\ Now.say = "command"
  /\ \/ \E t \in Named(run.base) :
          /\ Named(run.base) = {t}
          /\ run' = [run EXCEPT !.pc = "push", !.says = "kept", !.task = t]
     \/ /\ Cardinality(Named(run.base)) # 1
        /\ Goto("clean")
  /\ UNCHANGED <<day, arrived, cursor, main, branches, worktrees, said, closed>>

-----------------------------------------------------------------------------
(* pushStub *)

\* origin takes a push that is not protected and builds on what it has.
CanPush == run.root \notin Protected /\ run.base = main[run.root]

PushDefault ==
  /\ At("push")
  /\ CanPush
  /\ main' = [main EXCEPT ![run.root] = @ \cup {New}]
  /\ Goto("clean")
  /\ UNCHANGED <<day, arrived, cursor, branches, worktrees, said, closed>>

DefaultRefused ==
  /\ At("push")
  /\ ~ CanPush
  /\ Goto("branch")
  /\ UNCHANGED <<day, arrived, cursor, main, branches, worktrees, said, closed>>

\* capture/<id> is one branch, whichever line made the id.
Branch(r, t) == {b \in branches : b.repo = r /\ SameId(b.commit.task, t)}
Requested == \E b \in Branch(run.root, run.task) : b.open

\* switch -C and push --force: the branch holds this commit and no other, and
\* an open pull request follows it.
PushBranch ==
  /\ At("branch")
  /\ branches' = (branches \ Branch(run.root, run.task))
                   \cup {[repo |-> run.root, commit |-> New, open |-> Requested]}
  /\ Goto("request")
  /\ UNCHANGED <<day, arrived, cursor, main, worktrees, said, closed>>

\* gh pr create refuses a second request for a branch, and a branch with
\* nothing in it that the default branch has not.
CanRequest == ~ Requested /\ ~ run.landed

OpenRequest ==
  /\ At("request")
  /\ CanRequest
  /\ branches' = (branches \ Branch(run.root, run.task))
                   \cup {[repo |-> run.root, commit |-> New, open |-> TRUE]}
  /\ Goto("clean")
  /\ UNCHANGED <<day, arrived, cursor, main, worktrees, said, closed>>

RequestRefused ==
  /\ At("request")
  /\ ~ CanRequest
  /\ run' = [run EXCEPT !.pc = "clean", !.ok = FALSE]
  /\ UNCHANGED <<day, arrived, cursor, main, branches, worktrees, said, closed>>

\* The deferred remove: on every way out, before anything is said.
Clean ==
  /\ At("clean")
  /\ worktrees' = worktrees \ {Place}
  /\ IF run.ok THEN Goto("reply") ELSE Exit
  /\ UNCHANGED <<day, arrived, cursor, main, branches, said, closed>>

-----------------------------------------------------------------------------
(* The answer, then the cursor *)

\* A failed reply is printed and never fatal.
Reply ==
  /\ At("reply")
  /\ said' = [said EXCEPT ![run.line] = run.says]
  /\ Goto("truncate")
  /\ UNCHANGED <<day, arrived, cursor, main, branches, worktrees, closed>>

\* os.WriteFile truncates the cursor, then writes the message's id.
TruncateCursor ==
  /\ At("truncate")
  /\ cursor' = 0
  /\ Goto("cursor")
  /\ UNCHANGED <<day, arrived, main, branches, worktrees, said, closed>>

\* MUTANT of WriteCursor: one line past the end of the batch.
WriteCursorRunsOn ==
  /\ At("cursor")
  /\ cursor' = run.line
  /\ run' = IF run.line <= run.upto
              THEN [run EXCEPT !.pc = "take", !.line = @ + 1]
              ELSE Idle
  /\ UNCHANGED <<day, arrived, main, branches, worktrees, said, closed>>

WriteCursor ==
  /\ At("cursor")
  /\ cursor' = run.line
  /\ run' = IF run.line < run.upto
              THEN [run EXCEPT !.pc = "take", !.line = @ + 1]
              ELSE Idle
  /\ UNCHANGED <<day, arrived, main, branches, worktrees, said, closed>>

-----------------------------------------------------------------------------
(* What goes wrong *)

\* An external command or a file operation fails: the verb stops, after the
\* deferred remove when there is a worktree.
Refused ==
  /\ \/ run.pc \in {"poll", "room", "truncate", "cursor"} /\ Exit
     \/ /\ run.pc \in {"write", "push", "branch"}
        /\ run' = [run EXCEPT !.pc = "clean", !.ok = FALSE]
  /\ UNCHANGED <<day, arrived, cursor, main, branches, worktrees, said, closed>>

\* The push to the default branch fails on the way there, or on the way back.
PushUnanswered ==
  /\ At("push")
  /\ CanPush
  /\ \E landed \in BOOLEAN :
       /\ main' = [main EXCEPT ![run.root] = IF landed THEN @ \cup {New} ELSE @]
       /\ run' = [run EXCEPT !.pc = "branch", !.landed = landed]
  /\ UNCHANGED <<day, arrived, cursor, branches, worktrees, said, closed>>

\* MUTANT of RequestUnanswered: the error is dropped, as review drops it.
RequestErrorDropped ==
  /\ At("request")
  /\ CanRequest
  /\ Goto("clean")
  /\ UNCHANGED <<day, arrived, cursor, main, branches, worktrees, said, closed>>

\* Likewise the pull request.
RequestUnanswered ==
  /\ At("request")
  /\ CanRequest
  /\ \/ branches' = (branches \ Branch(run.root, run.task))
                      \cup {[repo |-> run.root, commit |-> New, open |-> TRUE]}
     \/ UNCHANGED branches
  /\ run' = [run EXCEPT !.pc = "clean", !.ok = FALSE]
  /\ UNCHANGED <<day, arrived, cursor, main, worktrees, said, closed>>

\* remove failed and its error was printed.
CleanFails ==
  /\ At("clean")
  /\ IF run.ok THEN Goto("reply") ELSE Exit
  /\ UNCHANGED <<day, arrived, cursor, main, branches, worktrees, said, closed>>

Crash ==
  /\ ~ At("idle")
  /\ Exit
  /\ UNCHANGED <<day, arrived, cursor, main, branches, worktrees, said, closed>>

-----------------------------------------------------------------------------
(* People and the date *)

Send ==
  /\ arrived < Len(Lines)
  /\ arrived' = arrived + 1
  /\ UNCHANGED <<day, cursor, main, branches, worktrees, run, said, closed>>

\* Two files of one name do not merge.
MergeRequest(b) ==
  /\ b \in branches
  /\ b.open
  /\ b.commit.line = b.commit.task.by =>
       \A t \in Tasks(main[b.repo]) : SameId(t, b.commit.task) => t = b.commit.task
  /\ main' = [main EXCEPT ![b.repo] = @ \cup {b.commit}]
  /\ branches' = branches \ {b}
  /\ run' = IF At("request") /\ b.repo = run.root /\ b.commit = New
            THEN [run EXCEPT !.landed = TRUE] ELSE run
  /\ UNCHANGED <<day, arrived, cursor, worktrees, said, closed>>

CloseRequest(b) ==
  /\ b \in branches
  /\ b.open
  /\ branches' = (branches \ {b}) \cup {[b EXCEPT !.open = FALSE]}
  /\ closed' = closed \cup {b.commit.line}
  /\ UNCHANGED <<day, arrived, cursor, main, worktrees, run, said>>

\* git worktree remove --force of one that was left behind.
RemoveStale(p) ==
  /\ p \in worktrees
  /\ ~ (run.pc \in InWorktree /\ p = Place)
  /\ worktrees' = worktrees \ {p}
  /\ UNCHANGED <<day, arrived, cursor, main, branches, run, said, closed>>

Midnight ==
  /\ day < MaxDays
  /\ day' = day + 1
  /\ UNCHANGED <<arrived, cursor, main, branches, worktrees, run, said, closed>>

-----------------------------------------------------------------------------
Progress ==
  \/ Tick
  \/ PollInbox
  \/ TakeLine
  \/ LookUp({})
  \/ AddWorktree
  \/ WriteStub
  \/ WriteCommand
  \/ PushDefault
  \/ DefaultRefused
  \/ PushBranch
  \/ OpenRequest
  \/ RequestRefused
  \/ Clean
  \/ Reply
  \/ TruncateCursor
  \/ WriteCursor

Outage ==
  \/ \E down \in (SUBSET Repo) \ {{}} : LookUp(down)
  \/ Refused
  \/ PushUnanswered
  \/ RequestUnanswered
  \/ CleanFails
  \/ Crash

Person ==
  \/ Send
  \/ \E b \in branches : MergeRequest(b) \/ CloseRequest(b)
  \/ \E p \in worktrees : RemoveStale(p)

Next == Progress \/ Outage \/ Person \/ Midnight

Spec == Init /\ [][Next]_vars

\* The unit runs every fifteen minutes, midnight comes, and outages end (a step of
\* the code that looks like one is no outage); people need not do anything.
Fairness ==
  /\ WF_vars(Progress)
  /\ WF_vars(Midnight)
  /\ <>[][Outage => Progress]_vars

FairSpec == Spec /\ Fairness

-----------------------------------------------------------------------------
(* Invariants *)

Process ==
  [pc : Step, line : 0..Len(Lines), upto : 0..Len(Lines), root : Repo \cup {NoRepo},
   base : SUBSET Commit, task : Task \cup {NoTask}, says : {"kept", "back"},
   landed : BOOLEAN, ok : BOOLEAN]

\* Every variable keeps to its type; a process past the poll has a line, and one
\* in a worktree has a repository.
TypeOK ==
  /\ day \in 1..MaxDays
  /\ arrived \in 0..Len(Lines)
  /\ cursor \in 0..Len(Lines)
  /\ main \in [Repo -> SUBSET Commit]
  /\ branches \subseteq [repo : Repo, commit : Commit, open : BOOLEAN]
  /\ worktrees \subseteq [repo : Repo, line : Index]
  /\ run \in Process
  /\ run.pc \notin {"idle", "poll"} => run.line \in Index
  /\ run.pc \in InWorktree \cup {"room"} => run.root \in Repo
  /\ run.pc \in {"push", "branch", "request"} => run.task \in Task
  /\ said \in [Index -> {"nothing", "kept", "back"}]
  /\ closed \subseteq 0..Len(Lines)

Settled(n) == Lines[n].say = "skip" \/ said[n] # "nothing"

\* The cursor never passes a line that was neither skipped nor answered,
\* wherever the process was killed and whatever the file lost (capture.go: the
\* cursor stays).
PassedIsSettled == \A n \in 1..cursor : Settled(n)

\* Two ideas never share an id on a default branch, through pushes that race,
\* branches and merges (task.go CreateTask never overwrites; capture.go cuts
\* from origin).
StubsDoNotCollide ==
  \A r \in Repo : \A t, u \in Tasks(main[r]) : SameId(t, u) => t = u

Kept(n) ==
  \/ \E r \in Repo : \E c \in main[r] : c.line = n
  \/ \E b \in branches : b.open /\ b.commit.line = n
  \/ n \in closed

\* What the thread was told is done stays done: it is on the default branch or in
\* an open pull request, unless a person closed it (capture.go: so the stub is
\* never lost).
AcknowledgedIsKept == \A n \in Index : said[n] = "kept" => Kept(n)

-----------------------------------------------------------------------------
(* Liveness *)

\* What a person or the next day must undo before line n can be handled: its
\* worktree was left behind, its title has no id or its id is taken, or its
\* branch already has a pull request.
Stuck(n) ==
  \/ \E p \in worktrees : p.line = n /\ ~ (run.pc \in InWorktree /\ p = Place)
  \/ Lines[n].say = "idea" /\ Refuses(Lines[n].slug, main[Lines[n].repo])
  \/ \E b \in branches : /\ b.open
                         /\ b.commit.task.slug = Lines[n].slug
                         /\ Lines[n].say = "idea" => b.commit.task.day = day

\* The next line is one of those.
Blocked == cursor < arrived /\ Stuck(cursor + 1)

\* Every line is handled, unless the inbox is blocked for good (capture.go
\* Capture: the first error ends the tick, the next tick starts from the same
\* line).
LinesAreServed ==
  \A n \in Index : arrived >= n ~> (cursor >= n \/ []Blocked)

=============================================================================
