----------------------------- MODULE CaptureProofs -----------------------------
(* What Capture promises for every inbox, every set of repositories and     *)
(* every batch size, proved.                                                 *)
EXTENDS Capture, TLAPS

LEMMA LineType ==
  ASSUME NEW n \in Index
  PROVE  Lines[n] \in Line
BY LinesAssumption DEF Index

LEMMA SeedsAreTasks ==
  ASSUME NEW r \in Repo, NEW s \in Seeds[r]
  PROVE  [slug |-> s, day |-> 0, by |-> 0] \in Task
<1>1. s \in Slug
  BY SetupAssumption
<1>2. 0 \in 0..MaxDays /\ 0 \in 0..Len(Lines)
  BY SetupAssumption, LinesAssumption
<1> QED
  BY <1>1, <1>2 DEF Task

LEMMA InitTypeOK == Init => TypeOK
<1> SUFFICES ASSUME Init
             PROVE  TypeOK
  OBVIOUS
<1> USE DEF Init
<1>1. 0 \in 0..Len(Lines) /\ 1 \in 1..MaxDays
  BY LinesAssumption, SetupAssumption
<1>2. main \in [Repo -> SUBSET Commit]
  BY <1>1, SeedsAreTasks DEF Commit
<1>3. run \in Process
  BY <1>1 DEF Process, Idle, Step, NoTask
<1>4. run.pc = "idle"
  BY DEF Idle
<1> QED
  BY <1>1, <1>2, <1>3, <1>4 DEF TypeOK, InWorktree

LEMMA NewCommit ==
  ASSUME TypeOK, run.pc \in {"push", "branch", "request"}
  PROVE  New \in Commit /\ run.root \in Repo /\ run.line \in Index
BY DEF TypeOK, New, Commit, InWorktree, Process

LEMMA NamedAreTasks ==
  ASSUME TypeOK, NEW t \in Tasks(run.base)
  PROVE  t \in Task
BY DEF TypeOK, Process, Tasks, Commit

LEMMA ExitTypeOK ==
  ASSUME TypeOK, Exit
  PROVE  /\ run' \in Process
         /\ run'.pc = "idle"
BY LinesAssumption DEF Exit, Idle, Process, Step, NoTask

LEMMA GotoTypeOK ==
  ASSUME TypeOK, NEW l \in Step, Goto(l), run.pc \notin {"idle", "poll"},
         l \in InWorktree \cup {"room"} => run.root \in Repo,
         l \in {"push", "branch", "request"} => run.task \in Task
  PROVE  /\ run' \in Process
         /\ run'.pc \notin {"idle", "poll"} => run'.line \in Index
         /\ run'.pc \in InWorktree \cup {"room"} => run'.root \in Repo
         /\ run'.pc \in {"push", "branch", "request"} => run'.task \in Task
BY DEF TypeOK, Goto, Process

LEMMA PlaceType ==
  ASSUME TypeOK, run.pc \in InWorktree \cup {"room"}
  PROVE  /\ Place \in [repo : Repo, line : Index]
         /\ run.root \in Repo
         /\ run.line \in Index
         /\ Lines[run.line] \in Line
BY LineType DEF TypeOK, Place, InWorktree

\* Up to the worktree.
LEMMA ReadingType ==
  ASSUME TypeOK, Tick \/ PollInbox \/ TakeLine \/ (\E down \in SUBSET Repo : LookUp(down))
  PROVE  TypeOK'
<1> USE DEF TypeOK, InWorktree
<1>0. 0 \in 0..Len(Lines) /\ Idle \in Process /\ Idle.pc = "idle"
  BY LinesAssumption DEF Idle, Process, Step, NoTask
<1>1. CASE Tick
  BY <1>0, <1>1 DEF Tick, Idle, Process, Step
<1>2. CASE PollInbox
  <2>1. CASE cursor >= arrived
    BY <1>0, <1>2, <2>1 DEF PollInbox, Exit
  <2>2. CASE ~ (cursor >= arrived)
    <3>1. cursor + 1 \in Index /\ cursor + 1 \in 0..Len(Lines)
      BY <2>2, LinesAssumption DEF Index
    <3> DEFINE last == IF arrived - cursor > MaxPerTick
                       THEN cursor + MaxPerTick ELSE arrived
    <3>2. last \in 0..Len(Lines)
      BY <2>2, LinesAssumption, SetupAssumption
    <3>3. run' = [run EXCEPT !.pc = "take", !.line = cursor + 1, !.upto = last]
      BY <1>2, <2>2 DEF PollInbox
    <3> HIDE DEF last
    <3>4. run' \in Process /\ run'.line \in Index /\ run'.pc = "take"
      BY <3>1, <3>2, <3>3 DEF Process, Step
    <3> QED BY <1>2, <3>4 DEF PollInbox
  <2> QED BY <2>1, <2>2
<1>3. CASE TakeLine
  <2>1. Now \in Line
    BY <1>3, LineType DEF TakeLine, At, Now
  <2>2. Now.say = "idea" => Now.repo \in Repo
    BY <1>3, LinesAssumption DEF TakeLine, At, Now
  <2>3. run'.root = Now.repo /\ run'.task = NoTask /\ run'.line = run.line
    BY <1>3 DEF TakeLine, Process
  <2>4. run'.pc \in {"truncate", "reply", "lookup", "room"}
    BY <1>3 DEF TakeLine, Process
  <2>5. run'.pc = "room" => Now.repo \in Repo
    BY <1>3, <2>1, <2>2 DEF TakeLine, Process, Line, Say
  <2> DEFINE l == CASE Now.say = "skip" -> "truncate"
                    [] Now.say = "unrouted" -> "reply"
                    [] Now.say \in {"idea", "command"} /\ Now.repo = NoRepo -> "lookup"
                    [] OTHER -> "room"
  <2>6. l \in Step
    BY DEF Step
  <2>7. run' = [run EXCEPT !.root = Now.repo, !.task = NoTask, !.says = "back",
                           !.landed = FALSE, !.ok = TRUE, !.pc = l]
    BY <1>3 DEF TakeLine
  <2> HIDE DEF l
  <2>8. Now.repo \in Repo \cup {NoRepo}
    BY <2>1 DEF Line
  <2>9. run' \in Process
    BY <2>6, <2>7, <2>8 DEF Process
  <2> QED BY <1>3, <2>3, <2>4, <2>5, <2>9 DEF TakeLine, At
<1>4. ASSUME NEW down \in SUBSET Repo, LookUp(down)
      PROVE  TypeOK'
  <2>1. CASE Goto("reply")
    BY <1>4, <2>1, GotoTypeOK DEF LookUp, At, Step
  <2>2. ASSUME NEW r \in Repo, run' = [run EXCEPT !.pc = "room", !.root = r]
        PROVE  TypeOK'
    BY <1>4, <2>2 DEF LookUp, At, Process, Step
  <2> QED BY <1>4, <2>1, <2>2 DEF LookUp
<1> QED BY <1>1, <1>2, <1>3, <1>4

LEMMA FailType ==
  ASSUME TypeOK, run.pc \in InWorktree,
         run' = [run EXCEPT !.pc = "clean", !.ok = FALSE]
  PROVE  /\ run' \in Process
         /\ run'.pc = "clean"
         /\ run'.line \in Index
         /\ run'.root \in Repo
BY DEF TypeOK, Process, InWorktree, Step

LEMMA WrittenType ==
  ASSUME TypeOK, NEW t \in Task,
         run' = [run EXCEPT !.pc = "push", !.says = "kept", !.task = t]
  PROVE  /\ run' \in Process
         /\ run'.pc = "push"
         /\ run'.line = run.line
         /\ run'.root = run.root
         /\ run'.task = t
BY DEF TypeOK, Process, InWorktree, Step

\* In the worktree, until the push.
LEMMA WritingType ==
  ASSUME TypeOK, AddWorktree \/ WriteStub \/ WriteCommand
  PROVE  TypeOK'
<1> USE DEF TypeOK
<1>0. run.line \in Index /\ run.root \in Repo /\ Place \in [repo : Repo, line : Index]
  BY PlaceType DEF AddWorktree, WriteStub, WriteCommand, At, InWorktree
<1>1. CASE AddWorktree
  <2>1. CASE Exit
    BY <1>1, <2>1, <1>0, ExitTypeOK DEF AddWorktree, InWorktree
  <2>2. CASE run' = [run EXCEPT !.pc = "write", !.base = main[run.root]]
    <3>1. main[run.root] \in SUBSET Commit
      BY <1>0
    <3> DEFINE tree == main[run.root]
    <3>2. run' = [run EXCEPT !.pc = "write", !.base = tree]
      BY <2>2
    <3> HIDE DEF tree
    <3>3. /\ run' \in Process /\ run'.pc = "write" /\ run'.line = run.line
          /\ run'.root = run.root
      BY <3>1, <3>2 DEF Process, Step, InWorktree, tree
    <3>4. worktrees' \subseteq [repo : Repo, line : Index]
      BY <1>1, <1>0 DEF AddWorktree
    <3> QED BY <1>1, <3>3, <3>4, <1>0 DEF AddWorktree
  <2> QED BY <1>1, <2>1, <2>2 DEF AddWorktree
<1>2. CASE WriteStub
  <2>1. CASE run' = [run EXCEPT !.pc = "clean", !.ok = FALSE]
    BY <1>2, <2>1, <1>0, FailType DEF WriteStub, At, InWorktree
  <2>2. CASE ~ Refuses(Now.slug, run.base)
    <3> DEFINE t == [slug |-> Now.slug, day |-> day, by |-> run.line]
    <3>1. Now.slug \in Slug
      BY <2>2, <1>0, LineType DEF Refuses, Now, Line
    <3>2. t \in Task
      BY <3>1, <1>0, SetupAssumption DEF Task, Index
    <3>3. run' = [run EXCEPT !.pc = "push", !.says = "kept", !.task = t]
      BY <1>2, <2>2 DEF WriteStub
    <3> HIDE DEF t
    <3> QED BY <1>2, <3>2, <3>3, <1>0, WrittenType DEF WriteStub
  <2> QED BY <1>2, <2>1, <2>2 DEF WriteStub
<1>3. CASE WriteCommand
  <2>1. CASE Goto("clean")
    BY <1>3, <2>1, <1>0, GotoTypeOK DEF WriteCommand, At, InWorktree, Step
  <2>2. ASSUME NEW t \in Named(run.base),
               run' = [run EXCEPT !.pc = "push", !.says = "kept", !.task = t]
        PROVE  TypeOK'
    <3>1. t \in Task
      BY NamedAreTasks DEF Named
    <3> QED BY <1>3, <2>2, <3>1, <1>0, WrittenType DEF WriteCommand
  <2> QED BY <1>3, <2>1, <2>2 DEF WriteCommand
<1> QED BY <1>1, <1>2, <1>3

\* The push and the pull request.
LEMMA PushingType ==
  ASSUME TypeOK,
         \/ PushDefault \/ DefaultRefused \/ PushUnanswered
         \/ PushBranch \/ OpenRequest \/ RequestRefused \/ RequestUnanswered
  PROVE  TypeOK'
<1>0. run.pc \in {"push", "branch", "request"}
  BY DEF PushDefault, DefaultRefused, PushUnanswered, PushBranch, OpenRequest,
         RequestRefused, RequestUnanswered, At
<1>1. New \in Commit /\ run.root \in Repo /\ run.line \in Index /\ run.task \in Task
  BY <1>0, NewCommit DEF TypeOK
<1> USE DEF TypeOK
<1>r. [repo |-> run.root, commit |-> New, open |-> TRUE]
        \in [repo : Repo, commit : Commit, open : BOOLEAN]
  BY <1>1
<1>2. CASE PushDefault \/ DefaultRefused
  <2>1. \E l \in {"clean", "branch"} : Goto(l)
    BY <1>2 DEF PushDefault, DefaultRefused
  <2> QED BY <1>2, <2>1, <1>0, <1>1, GotoTypeOK
          DEF PushDefault, DefaultRefused, InWorktree, Step
<1>3. CASE PushUnanswered
  <2>1. PICK landed \in BOOLEAN :
          /\ main' = [main EXCEPT ![run.root] = IF landed THEN @ \cup {New} ELSE @]
          /\ run' = [run EXCEPT !.pc = "branch", !.landed = landed]
    BY <1>3 DEF PushUnanswered
  <2>2. main' \in [Repo -> SUBSET Commit]
    BY <2>1, <1>1
  <2>3. /\ run' \in Process /\ run'.pc = "branch" /\ run'.line = run.line
        /\ run'.root = run.root /\ run'.task = run.task
    BY <2>1 DEF Process, Step, InWorktree
  <2> QED BY <1>3, <2>2, <2>3, <1>1 DEF PushUnanswered
<1>4. CASE PushBranch
  <2>1. Requested \in BOOLEAN
    BY DEF Requested
  <2> QED BY <1>4, <2>1, <1>0, <1>1, GotoTypeOK DEF PushBranch, InWorktree, Step
<1>5. CASE OpenRequest
  <2>1. branches' \subseteq [repo : Repo, commit : Commit, open : BOOLEAN]
    BY <1>5, <1>r DEF OpenRequest
  <2>2. "clean" \in Step /\ "clean" \notin {"push", "branch", "request"}
    BY DEF InWorktree, Step
  <2> QED BY <1>5, <1>0, <1>1, <2>1, <2>2, GotoTypeOK DEF OpenRequest
<1>6. CASE RequestRefused
  BY <1>6, <1>0, FailType DEF RequestRefused, InWorktree
<1>7. CASE RequestUnanswered
  <2>1. branches' \subseteq [repo : Repo, commit : Commit, open : BOOLEAN]
    <3>1. CASE UNCHANGED branches
      BY <3>1
    <3>2. CASE branches' = (branches \ Branch(run.root, run.task))
                 \cup {[repo |-> run.root, commit |-> New, open |-> TRUE]}
      BY <1>r, <3>2
    <3> QED BY <1>7, <3>1, <3>2 DEF RequestUnanswered
  <2>2. /\ run' \in Process /\ run'.pc = "clean"
        /\ run'.line \in Index /\ run'.root \in Repo
    BY <1>7, <1>0, FailType DEF RequestUnanswered, InWorktree
  <2> QED BY <1>7, <2>1, <2>2 DEF RequestUnanswered
<1> QED BY <1>2, <1>3, <1>4, <1>5, <1>6, <1>7

\* The answer and the cursor.
LEMMA AnsweringType ==
  ASSUME TypeOK,
         Clean \/ CleanFails \/ Reply \/ TruncateCursor \/ WriteCursor
  PROVE  TypeOK'
<1> USE DEF TypeOK
<1>0. run.line \in Index /\ run.line \in 0..Len(Lines)
  BY DEF Clean, CleanFails, Reply, TruncateCursor, WriteCursor, At,
         Process
<1>1. CASE Clean \/ CleanFails
  <2>1. worktrees' \subseteq [repo : Repo, line : Index]
    BY <1>1 DEF Clean, CleanFails
  <2>2. CASE Exit
    BY <1>1, <2>1, <2>2, ExitTypeOK DEF Clean, CleanFails, InWorktree
  <2>3. CASE Goto("reply")
    BY <1>1, <2>1, <2>3, GotoTypeOK DEF Clean, CleanFails, At, InWorktree, Step
  <2> QED BY <1>1, <2>2, <2>3 DEF Clean, CleanFails
<1>2. CASE Reply
  <2>1. run.says \in {"kept", "back"}
    BY DEF Process
  <2>2. said' \in [Index -> {"nothing", "kept", "back"}]
    BY <1>2, <2>1 DEF Reply
  <2> QED BY <1>2, <2>2, GotoTypeOK DEF Reply, At, InWorktree, Step
<1>3. CASE TruncateCursor
  <2>1. cursor' \in 0..Len(Lines)
    BY <1>3, LinesAssumption DEF TruncateCursor
  <2> QED BY <1>3, <2>1, GotoTypeOK DEF TruncateCursor, At, InWorktree, Step
<1>4. CASE WriteCursor
  <2>1. CASE run.line < run.upto
    <3> DEFINE next == run.line + 1
    <3>1. next \in Index /\ next \in 0..Len(Lines)
      BY <1>0, <2>1, LinesAssumption DEF Process, Index
    <3>2. run' = [run EXCEPT !.pc = "take", !.line = next]
      BY <1>4, <2>1 DEF WriteCursor
    <3> HIDE DEF next
    <3>3. run' \in Process /\ run'.pc = "take" /\ run'.line = next
      BY <3>1, <3>2 DEF Process, Step
    <3> QED BY <1>0, <1>4, <3>1, <3>3 DEF WriteCursor, InWorktree
  <2>2. CASE ~ (run.line < run.upto)
    <3>1. Exit
      BY <1>4, <2>2 DEF WriteCursor, Exit
    <3> QED BY <1>0, <1>4, <3>1, ExitTypeOK DEF WriteCursor, InWorktree
  <2> QED BY <2>1, <2>2
<1> QED BY <1>1, <1>2, <1>3, <1>4

\* People, the date, and processes that stop.
LEMMA AroundType ==
  ASSUME TypeOK, Refused \/ Crash \/ Person \/ Midnight
  PROVE  TypeOK'
<1> USE DEF TypeOK
<1>1. CASE Refused
  <2>1. CASE Exit
    BY <1>1, <2>1, ExitTypeOK DEF Refused, InWorktree
  <2>2. CASE /\ run.pc \in InWorktree
             /\ run' = [run EXCEPT !.pc = "clean", !.ok = FALSE]
    BY <1>1, <2>2, FailType DEF Refused
  <2> QED BY <1>1, <2>1, <2>2 DEF Refused, InWorktree
<1>2. CASE Crash
  BY <1>2, ExitTypeOK DEF Crash, InWorktree
<1>3. CASE Send
  <2>1. arrived' \in 0..Len(Lines)
    BY <1>3, LinesAssumption DEF Send
  <2> QED BY <1>3, <2>1 DEF Send
<1>4. ASSUME NEW b \in branches, MergeRequest(b)
      PROVE  TypeOK'
  <2>1. main' \in [Repo -> SUBSET Commit]
    BY <1>4 DEF MergeRequest
  <2>2. /\ run' \in Process
        /\ run'.pc = run.pc /\ run'.line = run.line
        /\ run'.root = run.root /\ run'.task = run.task
    BY <1>4 DEF MergeRequest, Process
  <2>3. branches' \subseteq branches
    BY <1>4 DEF MergeRequest
  <2> QED BY <1>4, <2>1, <2>2, <2>3 DEF MergeRequest
<1>5. ASSUME NEW b \in branches, CloseRequest(b)
      PROVE  TypeOK'
  <2>1. [b EXCEPT !.open = FALSE] \in [repo : Repo, commit : Commit, open : BOOLEAN]
    OBVIOUS
  <2>2. b.commit.line \in 0..Len(Lines)
    BY DEF Commit
  <2> QED BY <1>5, <2>1, <2>2 DEF CloseRequest
<1>6. ASSUME NEW p \in worktrees, RemoveStale(p)
      PROVE  TypeOK'
  BY <1>6 DEF RemoveStale
<1>7. CASE Midnight
  <2>1. day' \in 1..MaxDays
    BY <1>7, SetupAssumption DEF Midnight
  <2> QED BY <1>7, <2>1 DEF Midnight
<1> QED BY <1>1, <1>2, <1>3, <1>4, <1>5, <1>6, <1>7 DEF Person

LEMMA TypeStep == TypeOK /\ [Next]_vars => TypeOK'
<1> SUFFICES ASSUME TypeOK, [Next]_vars
             PROVE  TypeOK'
  OBVIOUS
<1>1. CASE Tick \/ PollInbox \/ TakeLine \/ (\E down \in SUBSET Repo : LookUp(down))
  BY <1>1, ReadingType
<1>2. CASE AddWorktree \/ WriteStub \/ WriteCommand
  BY <1>2, WritingType
<1>3. CASE \/ PushDefault \/ DefaultRefused \/ PushUnanswered
           \/ PushBranch \/ OpenRequest \/ RequestRefused \/ RequestUnanswered
  BY <1>3, PushingType
<1>4. CASE Clean \/ CleanFails \/ Reply \/ TruncateCursor \/ WriteCursor
  BY <1>4, AnsweringType
<1>5. CASE Refused \/ Crash \/ Person \/ Midnight
  BY <1>5, AroundType
<1>6. CASE UNCHANGED vars
  BY <1>6 DEF vars, TypeOK
<1>7. Next => \/ \E down \in SUBSET Repo : LookUp(down)
              \/ Tick \/ PollInbox \/ TakeLine \/ AddWorktree \/ WriteStub
              \/ WriteCommand \/ PushDefault \/ DefaultRefused \/ PushUnanswered
              \/ PushBranch \/ OpenRequest \/ RequestRefused \/ RequestUnanswered
              \/ Clean \/ CleanFails \/ Reply \/ TruncateCursor
              \/ WriteCursor \/ Refused \/ Crash \/ Person \/ Midnight
  BY DEF Next, Progress, Outage
<1> QED BY <1>1, <1>2, <1>3, <1>4, <1>5, <1>6, <1>7

\* Every variable keeps to its type whatever the inbox holds and however its
\* processes stop (agent/capture.go).
THEOREM TypeCorrect == Spec => []TypeOK
<1>1. Init => TypeOK
  BY InitTypeOK
<1>2. TypeOK /\ [Next]_vars => TypeOK'
  BY TypeStep
<1> QED BY <1>1, <1>2, PTL DEF Spec

-----------------------------------------------------------------------------
(* The cursor.  A line is only left through its answer, and the lines of one   *)
(* batch are taken in order.                                                   *)

BatchIsSettled ==
  /\ run.pc \notin {"idle", "poll"} => \A n \in Index : n < run.line => Settled(n)
  /\ run.pc \in {"truncate", "cursor"} => Settled(run.line)

LEMMA ExitStep == Exit => run'.pc = "idle"
BY DEF Exit, Idle

LEMMA GotoStep ==
  ASSUME TypeOK, NEW l, Goto(l)
  PROVE  run'.pc = l /\ run'.line = run.line
BY DEF TypeOK, Goto, Process

\* What a step does to the reader of the inbox.
LEMMA ReaderStep ==
  ASSUME TypeOK, [Next]_vars
  PROVE  \/ PollInbox \/ TakeLine \/ Reply \/ TruncateCursor \/ WriteCursor
         \/ /\ UNCHANGED <<cursor, said>>
            /\ \/ run'.pc \in {"idle", "poll"}
               \/ run'.line = run.line /\ run'.pc = run.pc
               \/ /\ run'.line = run.line /\ run.pc \notin {"idle", "poll"}
                  /\ run'.pc \in InWorktree \cup {"room", "reply"}
<1> USE DEF TypeOK, Process
<1>1. CASE Tick \/ (\E down \in SUBSET Repo : LookUp(down))
  <2>1. CASE Tick
    BY <2>1 DEF Tick, Idle
  <2>2. ASSUME NEW down \in SUBSET Repo, LookUp(down)
        PROVE  /\ UNCHANGED <<cursor, said>>
               /\ run'.line = run.line /\ run.pc \notin {"idle", "poll"}
               /\ run'.pc \in InWorktree \cup {"room", "reply"}
    BY <2>2, GotoStep DEF LookUp, At
  <2> QED BY <1>1, <2>1, <2>2
<1>2. CASE AddWorktree \/ WriteStub \/ WriteCommand
  <2>1. CASE AddWorktree
    <3>1. CASE Exit
      BY <2>1, <3>1, ExitStep DEF AddWorktree
    <3>2. CASE run' = [run EXCEPT !.pc = "write", !.base = main[run.root]]
      BY <2>1, <3>2 DEF AddWorktree, At, InWorktree
    <3> QED BY <2>1, <3>1, <3>2 DEF AddWorktree
  <2>2. CASE WriteStub
    BY <2>2 DEF WriteStub, At, InWorktree
  <2>3. CASE WriteCommand
    BY <2>3 DEF WriteCommand, At, Goto, InWorktree
  <2> QED BY <1>2, <2>1, <2>2, <2>3
<1>3. CASE \/ PushDefault \/ DefaultRefused \/ PushUnanswered \/ PushBranch
           \/ OpenRequest \/ RequestRefused \/ RequestUnanswered
  <2>1. CASE PushDefault \/ DefaultRefused \/ PushBranch \/ OpenRequest
    BY <2>1, GotoStep DEF PushDefault, DefaultRefused, PushBranch, OpenRequest, At, InWorktree
  <2>2. CASE PushUnanswered
    BY <2>2 DEF PushUnanswered, At, InWorktree
  <2>3. CASE RequestRefused \/ RequestUnanswered
    <3>1. run' = [run EXCEPT !.pc = "clean", !.ok = FALSE] /\ run.pc = "request"
      BY <2>3 DEF RequestRefused, RequestUnanswered, At
    <3>2. UNCHANGED <<cursor, said>>
      BY <2>3 DEF RequestRefused, RequestUnanswered
    <3> QED BY <3>1, <3>2 DEF InWorktree
  <2> QED BY <1>3, <2>1, <2>2, <2>3
<1>4. CASE Clean \/ CleanFails \/ Refused \/ Crash
  <2>1. UNCHANGED <<cursor, said>>
    BY <1>4 DEF Clean, CleanFails, Refused, Crash
  <2>2. CASE Exit
    BY <2>1, <2>2, ExitStep
  <2>3. CASE Goto("reply") /\ run.pc = "clean"
    BY <2>1, <2>3, GotoStep
  <2>4. CASE /\ run.pc \in {"write", "push", "branch"}
             /\ run' = [run EXCEPT !.pc = "clean", !.ok = FALSE]
    BY <2>1, <2>4 DEF InWorktree
  <2> QED BY <1>4, <2>2, <2>3, <2>4 DEF Clean, CleanFails, Refused, Crash, At
<1>5. CASE Person
  <2>1. ASSUME NEW b \in branches, MergeRequest(b)
        PROVE  UNCHANGED <<cursor, said>> /\ run'.line = run.line /\ run'.pc = run.pc
    BY <2>1 DEF MergeRequest
  <2> QED BY <1>5, <2>1 DEF Person, Send, CloseRequest, RemoveStale
<1>6. CASE Midnight \/ UNCHANGED vars
  BY <1>6 DEF Midnight, vars
<1> QED BY <1>1, <1>2, <1>3, <1>4, <1>5, <1>6 DEF Next, Progress, Outage

LEMMA SettledStep ==
  ASSUME TypeOK, PassedIsSettled, BatchIsSettled, [Next]_vars
  PROVE  PassedIsSettled' /\ BatchIsSettled'
<1> USE DEF TypeOK, PassedIsSettled, BatchIsSettled
<1>1. CASE PollInbox
  <2>1. UNCHANGED <<cursor, said>>
    BY <1>1 DEF PollInbox
  <2>2. run'.pc = "idle" \/ (run'.pc = "take" /\ run'.line = cursor + 1)
    <3> DEFINE last == IF arrived - cursor > MaxPerTick
                       THEN cursor + MaxPerTick ELSE arrived
    <3>1. \/ Exit
          \/ run' = [run EXCEPT !.pc = "take", !.line = cursor + 1, !.upto = last]
      BY <1>1 DEF PollInbox
    <3> HIDE DEF last
    <3> QED BY <3>1, ExitStep DEF Process
  <2>3. \A n \in Index : n < cursor + 1 => n \in 1..cursor
    BY LinesAssumption DEF Index
  <2> QED BY <2>1, <2>2, <2>3 DEF Settled
<1>2. CASE TakeLine
  <2>1. UNCHANGED <<cursor, said>> /\ run'.line = run.line /\ At("take")
    BY <1>2 DEF TakeLine, Process
  <2>2. run'.pc \in {"truncate", "cursor"} => Now.say = "skip"
    BY <1>2 DEF TakeLine, Process
  <2> QED BY <2>1, <2>2 DEF Settled, At, Now
<1>3. CASE Reply
  <2>1. cursor' = cursor /\ run'.line = run.line /\ run.line \in Index /\ At("reply")
    BY <1>3 DEF Reply, Goto, At, Process
  <2>2. said' = [said EXCEPT ![run.line] = run.says] /\ run.says # "nothing"
    BY <1>3 DEF Reply, Process
  <2>3. \A n \in Index : Settled(n) => Settled(n)'
    BY <2>1, <2>2 DEF Settled
  <2>4. Settled(run.line)'
    BY <2>1, <2>2 DEF Settled
  <2>5. \A n \in 1..cursor : n \in Index
    BY LinesAssumption DEF Index
  <2> QED BY <2>1, <2>3, <2>4, <2>5 DEF At
<1>4. CASE TruncateCursor
  BY <1>4 DEF TruncateCursor, Goto, At, Settled, Process
<1>5. CASE WriteCursor
  <2>1. cursor' = run.line /\ UNCHANGED said /\ At("cursor")
    BY <1>5 DEF WriteCursor
  <2>2. run'.pc = "idle" \/ (run'.pc = "take" /\ run'.line = run.line + 1)
    BY <1>5 DEF WriteCursor, Idle, Process
  <2>3. \A n \in 1..run.line : n \in Index /\ (n < run.line \/ n = run.line)
    BY <2>1, LinesAssumption DEF At, Index
  <2>4. \A n \in Index : n < run.line + 1 => n \in 1..run.line
    BY <2>1, LinesAssumption DEF At, Index
  <2> QED BY <2>1, <2>2, <2>3, <2>4 DEF At, Settled
<1>6. ASSUME UNCHANGED <<cursor, said>>,
             \/ run'.pc \in {"idle", "poll"}
             \/ run'.line = run.line /\ run'.pc = run.pc
             \/ /\ run'.line = run.line /\ run.pc \notin {"idle", "poll"}
                /\ run'.pc \in InWorktree \cup {"room", "reply"}
      PROVE  PassedIsSettled' /\ BatchIsSettled'
  BY <1>6 DEF Settled, InWorktree
<1> QED BY <1>1, <1>2, <1>3, <1>4, <1>5, <1>6, ReaderStep

\* The cursor never passes a line nobody answered: a crash, a torn cursor and a
\* line sent while a batch runs only make capture read again (agent/capture.go).
THEOREM Settles == Spec => []PassedIsSettled
<1> DEFINE Inv == TypeOK /\ PassedIsSettled /\ BatchIsSettled
<1>1. Init => Inv
  <2>1. Init => PassedIsSettled /\ BatchIsSettled
    BY DEF Init, PassedIsSettled, BatchIsSettled, Idle
  <2> QED BY <2>1, InitTypeOK
<1>2. Inv /\ [Next]_vars => Inv'
  BY TypeStep, SettledStep
<1>3. Inv => PassedIsSettled
  OBVIOUS
<1> QED BY <1>1, <1>2, <1>3, PTL DEF Spec

-----------------------------------------------------------------------------
(* Ids.  A worktree holds what origin had, and git only takes a push that      *)
(* builds on what origin has, or a merge of two files with two names.          *)

Fits(task, tree) == \A t \in Tasks(tree) : SameId(t, task) => t = task

FreshOrKnown ==
  /\ run.pc \in InWorktree => run.base \subseteq main[run.root]
  /\ run.pc \in {"push", "branch", "request"} =>
       \/ run.task \in Tasks(run.base)
       \/ run.task.by = run.line /\ Fits(run.task, run.base)
  /\ \A b \in branches :
       b.commit.line = b.commit.task.by \/ b.commit.task \in Tasks(main[b.repo])

\* A commit on a task that fits, or that is there, brings no collision.
LEMMA CommitFits ==
  ASSUME TypeOK, StubsDoNotCollide, NEW r \in Repo, NEW c \in Commit,
         c.task \in Tasks(main[r]) \/ Fits(c.task, main[r]),
         main' = [main EXCEPT ![r] = @ \cup {c}]
  PROVE  StubsDoNotCollide'
<1>1. Tasks(main'[r]) = Tasks(main[r]) \cup {c.task}
  BY DEF TypeOK, Tasks
<1>2. \A q \in Repo : q # r => main'[q] = main[q]
  BY DEF TypeOK
<1>3. \A t \in Tasks(main[r]) :
        /\ SameId(t, c.task) => t = c.task
        /\ SameId(c.task, t) => t = c.task
  BY DEF StubsDoNotCollide, Fits, SameId
<1>4. SUFFICES ASSUME NEW q \in Repo,
                      NEW t \in Tasks(main'[q]), NEW u \in Tasks(main'[q]), SameId(t, u)
               PROVE  t = u
  BY DEF StubsDoNotCollide, SameId
<1>5. CASE q # r
  BY <1>2, <1>4, <1>5 DEF StubsDoNotCollide
<1>6. CASE q = r
  <2>1. CASE t = c.task
    BY <1>1, <1>3, <1>4, <1>6, <2>1
  <2>2. CASE u = c.task
    BY <1>1, <1>3, <1>4, <1>6, <2>2
  <2>3. CASE t \in Tasks(main[r]) /\ u \in Tasks(main[r])
    BY <1>4, <2>3 DEF StubsDoNotCollide
  <2> QED BY <1>1, <1>6, <2>1, <2>2, <2>3
<1> QED BY <1>5, <1>6

LEMMA MainGrows ==
  ASSUME TypeOK, [Next]_vars
  PROVE  \A r \in Repo : main[r] \subseteq main'[r]
<1>1. ASSUME NEW r \in Repo, NEW X, main' = [main EXCEPT ![r] = @ \cup X]
      PROVE  \A q \in Repo : main[q] \subseteq main'[q]
  BY <1>1 DEF TypeOK
<1>2. CASE PushDefault \/ PushUnanswered
  <2>1. run.root \in Repo
    BY <1>2 DEF PushDefault, PushUnanswered, At, TypeOK, InWorktree
  <2>2. main' = [main EXCEPT ![run.root] = @ \cup {New}] \/ main' = main
    BY <1>2 DEF PushDefault, PushUnanswered, TypeOK
  <2> QED BY <1>1, <2>1, <2>2
<1>3. ASSUME NEW b \in branches, MergeRequest(b)
      PROVE  \A q \in Repo : main[q] \subseteq main'[q]
  BY <1>1, <1>3 DEF MergeRequest, TypeOK
<1>4. CASE ~ (PushDefault \/ PushUnanswered \/ \E b \in branches : MergeRequest(b))
  BY <1>4 DEF Next, Progress, Outage, Person, Tick, PollInbox, TakeLine, LookUp,
       AddWorktree, WriteStub, WriteCommand, DefaultRefused, PushBranch, OpenRequest,
       RequestRefused, Clean, Reply, TruncateCursor, WriteCursor, Refused,
       RequestUnanswered, CleanFails, Crash, Send, CloseRequest,
       RemoveStale, Midnight, vars
<1> QED BY <1>2, <1>3, <1>4

LEMMA CollisionStep ==
  ASSUME TypeOK, StubsDoNotCollide, FreshOrKnown, [Next]_vars
  PROVE  StubsDoNotCollide'
<1>1. CASE PushDefault \/ PushUnanswered
  <2>1. New \in Commit /\ run.root \in Repo /\ run.base = main[run.root] /\ At("push")
    BY <1>1, NewCommit DEF PushDefault, PushUnanswered, CanPush, At
  <2>2. run.task \in Tasks(main[run.root]) \/ Fits(run.task, main[run.root])
    BY <2>1 DEF FreshOrKnown, At
  <2>3. main' = [main EXCEPT ![run.root] = @ \cup {New}] \/ main' = main
    BY <1>1 DEF PushDefault, PushUnanswered, TypeOK
  <2>4. New.task = run.task
    BY DEF New
  <2> QED BY <2>1, <2>2, <2>3, <2>4, CommitFits DEF StubsDoNotCollide
<1>2. ASSUME NEW b \in branches, MergeRequest(b)
      PROVE  StubsDoNotCollide'
  <2>1. b.repo \in Repo /\ b.commit \in Commit
    BY DEF TypeOK
  <2>2. b.commit.task \in Tasks(main[b.repo]) \/ Fits(b.commit.task, main[b.repo])
    BY <1>2 DEF MergeRequest, FreshOrKnown, Fits
  <2>3. main' = [main EXCEPT ![b.repo] = @ \cup {b.commit}]
    BY <1>2 DEF MergeRequest
  <2> QED BY <2>1, <2>2, <2>3, CommitFits
<1>3. CASE ~ (PushDefault \/ PushUnanswered \/ \E b \in branches : MergeRequest(b))
  <2>1. main' = main
    BY <1>3 DEF Next, Progress, Outage, Person, Tick, PollInbox, TakeLine, LookUp,
       AddWorktree, WriteStub, WriteCommand, DefaultRefused, PushBranch, OpenRequest,
       RequestRefused, Clean, Reply, TruncateCursor, WriteCursor, Refused,
       RequestUnanswered, CleanFails, Crash, Send, CloseRequest,
       RemoveStale, Midnight, vars
  <2> QED BY <2>1 DEF StubsDoNotCollide
<1> QED BY <1>1, <1>2, <1>3

\* The branches only hold commits on new tasks or on tasks of the default branch.
LEMMA BranchesStep ==
  ASSUME TypeOK, FreshOrKnown, [Next]_vars,
         NEW b \in branches'
  PROVE  b.commit.line = b.commit.task.by \/ b.commit.task \in Tasks(main'[b.repo])
<1>1. \A r \in Repo : Tasks(main[r]) \subseteq Tasks(main'[r])
  BY MainGrows DEF Tasks
<1>2. \/ \E c \in branches : b.repo = c.repo /\ b.commit = c.commit
      \/ /\ run.pc \in {"branch", "request"}
         /\ b.repo = run.root /\ b.commit = New
  <2>1. CASE PushBranch \/ OpenRequest \/ RequestUnanswered
    BY <2>1 DEF PushBranch, OpenRequest, RequestUnanswered, At
  <2>2. CASE \E c \in branches : MergeRequest(c)
    BY <2>2 DEF MergeRequest
  <2>3. ASSUME NEW c \in branches, CloseRequest(c)
        PROVE  \E d \in branches : b.repo = d.repo /\ b.commit = d.commit
    <3>1. b \in branches \/ b = [c EXCEPT !.open = FALSE]
      BY <2>3 DEF CloseRequest
    <3>2. [c EXCEPT !.open = FALSE].repo = c.repo
          /\ [c EXCEPT !.open = FALSE].commit = c.commit
      BY DEF TypeOK
    <3> QED BY <3>1, <3>2
  <2>4. CASE ~ (PushBranch \/ OpenRequest \/ RequestUnanswered
                \/ (\E c \in branches : MergeRequest(c) \/ CloseRequest(c)))
    <3>1. branches' = branches
      BY <2>4 DEF Next, Progress, Outage, Person, Tick, PollInbox, TakeLine, LookUp,
         AddWorktree, WriteStub, WriteCommand, PushDefault, DefaultRefused,
         RequestRefused, Clean, Reply, TruncateCursor, WriteCursor, Refused,
         PushUnanswered, CleanFails, Crash, Send, RemoveStale, Midnight,
         vars
    <3> QED BY <3>1
  <2> QED BY <2>1, <2>2, <2>3, <2>4
<1>3. CASE \E c \in branches : b.repo = c.repo /\ b.commit = c.commit
  BY <1>1, <1>3 DEF FreshOrKnown, TypeOK
<1>4. CASE /\ run.pc \in {"branch", "request"}
           /\ b.repo = run.root /\ b.commit = New
  <2>1. run.root \in Repo /\ Tasks(run.base) \subseteq Tasks(main[run.root])
    BY <1>4 DEF FreshOrKnown, TypeOK, InWorktree, Tasks
  <2>2. New.line = run.line /\ New.task = run.task
    BY DEF New
  <2> QED BY <1>1, <1>4, <2>1, <2>2 DEF FreshOrKnown
<1> QED BY <1>2, <1>3, <1>4

Publishing == {"push", "branch", "request"}

\* What a step does to the process in its worktree.
LEMMA WriterStep ==
  ASSUME TypeOK, [Next]_vars
  PROVE  \/ run'.pc \notin InWorktree
         \/ AddWorktree \/ WriteStub \/ WriteCommand
         \/ /\ run.pc \in InWorktree
            /\ run'.pc \in Publishing => run.pc \in Publishing
            /\ run'.root = run.root /\ run'.base = run.base
            /\ run'.task = run.task /\ run'.line = run.line
<1> USE DEF TypeOK, Process, InWorktree, Publishing
<1>1. CASE \/ PushDefault \/ DefaultRefused \/ PushUnanswered \/ PushBranch
           \/ OpenRequest \/ RequestRefused \/ RequestUnanswered
  BY <1>1 DEF PushDefault, DefaultRefused, PushUnanswered, PushBranch, OpenRequest,
              RequestRefused, RequestUnanswered, At, Goto
<1>2. CASE Clean \/ CleanFails \/ Crash \/ Refused
  <2>1. CASE Exit \/ Goto("reply")
    BY <2>1, ExitStep, GotoStep
  <2>2. CASE /\ run.pc \in {"write", "push", "branch"}
             /\ run' = [run EXCEPT !.pc = "clean", !.ok = FALSE]
    BY <2>2
  <2> QED BY <1>2, <2>1, <2>2 DEF Clean, CleanFails, Crash, Refused
<1>3. CASE Tick \/ PollInbox
  <2> DEFINE last == IF arrived - cursor > MaxPerTick
                     THEN cursor + MaxPerTick ELSE arrived
  <2>1. \/ Exit \/ run' = [Idle EXCEPT !.pc = "poll"]
        \/ run' = [run EXCEPT !.pc = "take", !.line = cursor + 1, !.upto = last]
    BY <1>3 DEF Tick, PollInbox
  <2> HIDE DEF last
  <2> QED BY <2>1, ExitStep DEF Idle
<1>4. CASE TakeLine
  <2>1. run'.pc \in {"truncate", "reply", "lookup", "room"}
    BY <1>4 DEF TakeLine
  <2> QED BY <2>1
<1>5. ASSUME NEW down \in SUBSET Repo, LookUp(down)
      PROVE  run'.pc \notin InWorktree
  <2>1. CASE Goto("reply")
    BY <2>1, GotoStep
  <2>2. ASSUME NEW r \in Repo, run' = [run EXCEPT !.pc = "room", !.root = r]
        PROVE  run'.pc \notin InWorktree
    BY <2>2
  <2> QED BY <1>5, <2>1, <2>2 DEF LookUp
<1>6. CASE Reply \/ TruncateCursor \/ WriteCursor
  <2>1. Goto("truncate") \/ Goto("cursor") \/ WriteCursor
    BY <1>6 DEF Reply, TruncateCursor
  <2>2. WriteCursor => run'.pc = "idle" \/ run'.pc = "take"
    BY DEF WriteCursor, Idle
  <2> QED BY <2>1, <2>2, GotoStep
<1>7. CASE Person \/ Midnight \/ UNCHANGED vars
  <2>1. \/ UNCHANGED run \/ run' = [run EXCEPT !.landed = TRUE]
    BY <1>7 DEF Person, Send, MergeRequest, CloseRequest, RemoveStale, Midnight, vars
  <2> QED BY <2>1
<1> QED BY <1>1, <1>2, <1>3, <1>4, <1>5, <1>6, <1>7 DEF Next, Progress, Outage

LEMMA FreshStep ==
  ASSUME TypeOK, FreshOrKnown, [Next]_vars
  PROVE  FreshOrKnown'
<1> DEFINE Carries == run'.pc \in InWorktree => run'.base \subseteq main'[run'.root]
           Knows == run'.pc \in {"push", "branch", "request"} =>
                      \/ run'.task \in Tasks(run'.base)
                      \/ run'.task.by = run'.line /\ Fits(run'.task, run'.base)
<1> SUFFICES Carries /\ Knows
  BY BranchesStep DEF FreshOrKnown, Tasks, Fits
<1> USE DEF FreshOrKnown
<1>0. \A r \in Repo : main[r] \subseteq main'[r]
  BY MainGrows
<1>1. CASE run'.pc \notin InWorktree
  BY <1>1 DEF InWorktree
<1>2. CASE AddWorktree
  <2>1. CASE Exit
    BY <1>2, <2>1, ExitStep DEF InWorktree
  <2>2. CASE run' = [run EXCEPT !.pc = "write", !.base = main[run.root]]
    BY <1>2, <2>2 DEF AddWorktree, TypeOK, Process
  <2> QED BY <1>2, <2>1, <2>2 DEF AddWorktree
<1>3. CASE WriteStub
  <2>1. run'.base = run.base /\ run'.root = run.root /\ run'.line = run.line
        /\ main' = main /\ run.pc = "write"
    BY <1>3 DEF WriteStub, TypeOK, Process, At
  <2>2. Carries
    BY <2>1 DEF InWorktree
  <2>3. CASE Refuses(Now.slug, run.base)
    BY <1>3, <2>2, <2>3 DEF WriteStub, TypeOK, Process
  <2>4. CASE ~ Refuses(Now.slug, run.base)
    <3>1. run'.task = [slug |-> Now.slug, day |-> day, by |-> run.line]
      BY <1>3, <2>4 DEF WriteStub, TypeOK, Process
    <3>2. \A t \in Tasks(run.base) : ~ SameId(t, run'.task)
      BY <2>4, <3>1 DEF Refuses, SameId
    <3> QED BY <2>1, <2>2, <3>1, <3>2 DEF Fits
  <2> QED BY <2>3, <2>4
<1>4. CASE WriteCommand
  <2>1. run'.base = run.base /\ run'.root = run.root /\ main' = main /\ run.pc = "write"
    BY <1>4 DEF WriteCommand, TypeOK, Process, At, Goto
  <2>2. Carries
    BY <2>1 DEF InWorktree
  <2>3. CASE Goto("clean")
    BY <2>2, <2>3, GotoStep
  <2>4. ASSUME NEW t \in Named(run.base),
               run' = [run EXCEPT !.pc = "push", !.says = "kept", !.task = t]
        PROVE  Knows
    BY <2>1, <2>4 DEF Named, TypeOK, Process
  <2> QED BY <1>4, <2>2, <2>3, <2>4 DEF WriteCommand
<1>5. CASE /\ run.pc \in InWorktree
           /\ run'.pc \in Publishing => run.pc \in Publishing
           /\ run'.root = run.root /\ run'.base = run.base
           /\ run'.task = run.task /\ run'.line = run.line
  <2>1. Carries
    BY <1>0, <1>5 DEF TypeOK
  <2>2. Knows
    BY <1>5 DEF Publishing
  <2> QED BY <2>1, <2>2
<1> QED BY <1>1, <1>2, <1>3, <1>4, <1>5, WriterStep DEF InWorktree

\* No two ideas share an id on a default branch, whatever is pushed, merged,
\* retried or killed in between (task.go CreateTask, agent/capture.go pushStub).
THEOREM IdsAreUnique == Spec => []StubsDoNotCollide
<1> DEFINE Inv == TypeOK /\ StubsDoNotCollide /\ FreshOrKnown
<1>1. Init => Inv
  <2>1. Init => FreshOrKnown
    BY DEF Init, FreshOrKnown, Idle, InWorktree
  <2>2. Init => StubsDoNotCollide
    BY DEF Init, StubsDoNotCollide, Tasks, SameId
  <2> QED BY <2>1, <2>2, InitTypeOK
<1>2. Inv /\ [Next]_vars => Inv'
  BY TypeStep, CollisionStep, FreshStep
<1>3. Inv => StubsDoNotCollide
  OBVIOUS
<1> QED BY <1>1, <1>2, <1>3, PTL DEF Spec
-----------------------------------------------------------------------------
(* What the thread is told.  A capture/<id> branch holds one line's commit, and *)
(* only a line about the same task can put another in its place.               *)

Rivals(n, m) ==
  /\ n # m
  /\ Lines[m].say \in {"idea", "command"}
  /\ Lines[n].slug = Lines[m].slug /\ Lines[m].slug # NoSlug
  /\ Lines[n].repo = Lines[m].repo \/ NoRepo \in {Lines[n].repo, Lines[m].repo}

\* Line n is a capture, and repository r one it may be for.
MeantFor(n, r) ==
  /\ n \in Index
  /\ Lines[n].say \in {"idea", "command"}
  /\ Lines[n].repo \in {r, NoRepo}

Overtaken(n) == \E m \in 1..arrived : Rivals(n, m)
Safe(n) == Kept(n) \/ Overtaken(n)

BatchHasArrived ==
  run.pc \notin {"idle", "poll"} => run.line <= arrived /\ run.upto <= arrived

\* The process is on the task its line is about, and so is every branch.
OnItsTask ==
  /\ run.pc = "lookup" => Now.say \in {"idea", "command"} /\ Now.repo = NoRepo
  /\ run.pc \in InWorktree \cup {"room"} => MeantFor(run.line, run.root)
  /\ run.pc \in {"push", "branch", "request"} => run.task.slug = Now.slug
  /\ \A b \in branches :
       /\ MeantFor(b.commit.line, b.repo)
       /\ b.commit.task.slug = Lines[b.commit.line].slug

WillAnswer == run.pc = "reply" \/ (run.pc = "clean" /\ run.ok)

\* What is about to be said, and what was said, of a line that was kept.
SaidWhenSafe ==
  /\ run.pc \in {"lookup", "room", "write"} => run.says = "back"
  /\ \A n \in Index : WillAnswer /\ run.says = "kept" /\ run.line = n => Safe(n)
  /\ \A n \in Index : said[n] = "kept" => Safe(n)

LEMMA ArrivedGrows ==
  ASSUME TypeOK, [Next]_vars
  PROVE  arrived \in Nat /\ arrived' \in Nat /\ arrived <= arrived'
<1>0. arrived \in Nat
  BY LinesAssumption DEF TypeOK
<1>1. CASE Send
  BY <1>0, <1>1 DEF Send
<1>2. CASE ~ Send
  <2>1. arrived' = arrived
    BY <1>2 DEF Next, Progress, Outage, Person, Tick, PollInbox, TakeLine, LookUp,
       AddWorktree, WriteStub, WriteCommand, PushDefault, DefaultRefused, PushBranch,
       OpenRequest, RequestRefused, Clean, Reply, TruncateCursor, WriteCursor, Refused,
       PushUnanswered, RequestUnanswered, CleanFails, Crash, MergeRequest,
       CloseRequest, RemoveStale, Midnight, vars
  <2> QED BY <1>0, <2>1
<1> QED BY <1>1, <1>2

LEMMA OvertakenStays ==
  ASSUME TypeOK, [Next]_vars, NEW n, Overtaken(n)
  PROVE  Overtaken(n)'
BY ArrivedGrows DEF Overtaken

\* Two lines meant for one repository and about one slug are rivals.
LEMMA SameTaskRivals ==
  ASSUME TypeOK, NEW n, NEW m, NEW r \in Repo, MeantFor(n, r), MeantFor(m, r), n # m,
         m <= arrived, Lines[n].slug = Lines[m].slug, Lines[m].slug \in Slug
  PROVE  Overtaken(n)
<1>1. m \in 1..arrived
  BY LinesAssumption DEF MeantFor, Index, TypeOK
<1> QED BY <1>1, NameAssumption DEF MeantFor, Rivals, Overtaken

\* The process that may change a branch.
Replaces ==
  \/ branches' = branches
  \/ /\ run.pc \in {"branch", "request"}
     /\ \E o \in BOOLEAN :
          /\ (\E b \in Branch(run.root, run.task) : b.open) => o
          /\ branches' = (branches \ Branch(run.root, run.task))
                           \cup {[repo |-> run.root, commit |-> New, open |-> o]}
  \/ \E b \in branches : MergeRequest(b) \/ CloseRequest(b)

LEMMA BranchStep ==
  ASSUME TypeOK, [Next]_vars
  PROVE  Replaces
<1> USE DEF Replaces
<1>1. CASE PushBranch
  <2>1. Requested \in BOOLEAN
    BY DEF Requested
  <2> QED BY <1>1, <2>1 DEF PushBranch, At, Requested
<1>2. CASE OpenRequest \/ RequestUnanswered
  BY <1>2 DEF OpenRequest, RequestUnanswered, At
<1>3. CASE \E b \in branches : MergeRequest(b) \/ CloseRequest(b)
  BY <1>3
<1>4. CASE ~ (PushBranch \/ OpenRequest \/ RequestUnanswered
              \/ (\E b \in branches : MergeRequest(b) \/ CloseRequest(b)))
  BY <1>4 DEF Next, Progress, Outage, Person, Tick, PollInbox, TakeLine, LookUp,
     AddWorktree, WriteStub, WriteCommand, PushDefault, DefaultRefused,
     RequestRefused, Clean, Reply, TruncateCursor, WriteCursor, Refused,
     PushUnanswered, CleanFails, Crash, Send, RemoveStale, Midnight, vars
<1> QED BY <1>1, <1>2, <1>3, <1>4

\* What a branch held is on the default branch, closed, or pushed aside by a rival.
LEMMA SafeStays ==
  ASSUME TypeOK, BatchHasArrived, OnItsTask, [Next]_vars, NEW n \in Index, Safe(n)
  PROVE  Safe(n)'
<1>1. CASE Overtaken(n)
  BY <1>1, OvertakenStays DEF Safe
<1>2. CASE \E r \in Repo : \E c \in main[r] : c.line = n
  BY <1>2, MainGrows DEF Safe, Kept
<1>3. CASE n \in closed
  <2>1. closed \subseteq closed'
    <3>1. CASE \E b \in branches : CloseRequest(b)
      BY <3>1 DEF CloseRequest
    <3>2. CASE ~ \E b \in branches : CloseRequest(b)
      BY <3>2 DEF Next, Progress, Outage, Person, Tick, PollInbox, TakeLine, LookUp,
         AddWorktree, WriteStub, WriteCommand, PushDefault, DefaultRefused, PushBranch,
         OpenRequest, RequestRefused, Clean, Reply, TruncateCursor, WriteCursor,
         Refused, PushUnanswered, RequestUnanswered, CleanFails, Crash, MergeRequest,
         Send, RemoveStale, Midnight, vars
    <3> QED BY <3>1, <3>2
  <2> QED BY <1>3, <2>1 DEF Safe, Kept
<1>4. ASSUME NEW b \in branches, b.open, b.commit.line = n
      PROVE  Safe(n)'
  <2>1. CASE branches' = branches
    BY <1>4, <2>1 DEF Safe, Kept
  <2>2. ASSUME run.pc \in {"branch", "request"}, NEW o \in BOOLEAN,
               (\E c \in Branch(run.root, run.task) : c.open) => o,
               branches' = (branches \ Branch(run.root, run.task))
                             \cup {[repo |-> run.root, commit |-> New, open |-> o]}
        PROVE  Safe(n)'
    <3>1. CASE b \notin Branch(run.root, run.task)
      BY <1>4, <2>2, <3>1 DEF Safe, Kept
    <3>2. CASE b \in Branch(run.root, run.task) /\ n = run.line
      <4> DEFINE d == [repo |-> run.root, commit |-> New, open |-> o]
      <4>1. d \in branches' /\ d.open /\ d.commit.line = n
        BY <1>4, <2>2, <3>2 DEF New
      <4> HIDE DEF d
      <4> QED BY <4>1 DEF Safe, Kept
    <3>3. CASE b \in Branch(run.root, run.task) /\ n # run.line
      <4>1. MeantFor(n, run.root) /\ Lines[n].slug = run.task.slug
        BY <1>4, <3>3 DEF OnItsTask, Branch, SameId
      <4>2. MeantFor(run.line, run.root) /\ run.task.slug = Lines[run.line].slug
            /\ run.root \in Repo /\ run.line <= arrived /\ run.task.slug \in Slug
        BY <2>2 DEF OnItsTask, InWorktree, Now, TypeOK, BatchHasArrived, Task
      <4> QED BY <3>3, <4>1, <4>2, SameTaskRivals, OvertakenStays DEF Safe
    <3> QED BY <3>1, <3>2, <3>3
  <2>3. ASSUME NEW c \in branches, MergeRequest(c)
        PROVE  Safe(n)'
    <3>1. CASE c = b
      <4>1. b.repo \in Repo /\ b.commit \in main'[b.repo]
        BY <2>3, <3>1 DEF MergeRequest, TypeOK
      <4> QED BY <1>4, <4>1 DEF Safe, Kept
    <3>2. CASE c # b
      BY <1>4, <2>3, <3>2 DEF MergeRequest, Safe, Kept
    <3> QED BY <3>1, <3>2
  <2>4. ASSUME NEW c \in branches, CloseRequest(c)
        PROVE  Safe(n)'
    BY <1>4, <2>4 DEF CloseRequest, Safe, Kept
  <2> QED BY <2>1, <2>2, <2>3, <2>4, BranchStep DEF Replaces
<1> QED BY <1>1, <1>2, <1>3, <1>4 DEF Safe, Kept

LEMMA BatchStep ==
  ASSUME TypeOK, BatchHasArrived, [Next]_vars
  PROVE  BatchHasArrived'
<1> USE DEF TypeOK, BatchHasArrived
<1>0. /\ arrived \in Nat /\ arrived' \in Nat /\ arrived <= arrived'
      /\ cursor \in Nat /\ run.line \in Nat /\ run.upto \in Nat
  BY ArrivedGrows, LinesAssumption DEF Process
<1>1. CASE PollInbox
  <2>1. CASE Exit
    BY <2>1, ExitStep
  <2>2. CASE ~ Exit
    <3> DEFINE last == IF arrived - cursor > MaxPerTick
                       THEN cursor + MaxPerTick ELSE arrived
    <3>1. last <= arrived
      BY <1>0, SetupAssumption
    <3>2. /\ run' = [run EXCEPT !.pc = "take", !.line = cursor + 1, !.upto = last]
          /\ cursor + 1 <= arrived
      BY <1>0, <1>1, <2>2 DEF PollInbox
    <3> HIDE DEF last
    <3>3. run'.line = cursor + 1 /\ run'.upto = last
      BY <3>2 DEF Process
    <3>4. arrived' = arrived
      BY <1>1 DEF PollInbox
    <3> QED BY <3>1, <3>2, <3>3, <3>4
  <2> QED BY <2>1, <2>2
<1>2. CASE WriteCursor
  <2>1. CASE run.line < run.upto
    <3>1. run'.line = run.line + 1 /\ run'.upto = run.upto /\ run.pc = "cursor"
      BY <1>2, <2>1 DEF WriteCursor, Process, At
    <3> QED BY <1>0, <2>1, <3>1
  <2>2. CASE ~ (run.line < run.upto)
    BY <1>2, <2>2 DEF WriteCursor, Idle
  <2> QED BY <2>1, <2>2
<1>3. CASE ~ PollInbox /\ ~ WriteCursor
  <2>1. \/ run'.pc \in {"idle", "poll"}
        \/ run'.line = run.line /\ run'.upto = run.upto /\ run.pc \notin {"idle", "poll"}
        \/ run' = run
    <3>1. CASE Tick \/ Crash \/ Exit
      BY <3>1 DEF Tick, Crash, Exit, Idle
    <3>2. ASSUME NEW l, Goto(l), run.pc \notin {"idle", "poll"}
          PROVE  run'.line = run.line /\ run'.upto = run.upto
      BY <3>2 DEF Goto, Process
    <3>3. CASE TakeLine \/ AddWorktree \/ WriteStub \/ WriteCommand
      <4>1. CASE TakeLine \/ WriteStub
        <5>1. CASE TakeLine
          BY <5>1, <3>2 DEF TakeLine, At, Process
        <5>2. CASE WriteStub
          BY <5>2, <3>2 DEF WriteStub, At, Process
        <5> QED BY <4>1, <5>1, <5>2
      <4>2. CASE AddWorktree
        <5>1. CASE run' = [run EXCEPT !.pc = "write", !.base = main[run.root]]
          BY <4>2, <5>1 DEF AddWorktree, At, Process
        <5> QED BY <3>1, <4>2, <5>1 DEF AddWorktree
      <4>3. CASE WriteCommand
        BY <3>2, <4>3 DEF WriteCommand, At, Process
      <4> QED BY <3>3, <4>1, <4>2, <4>3
    <3>4. ASSUME NEW down \in SUBSET Repo, LookUp(down)
          PROVE  run'.line = run.line /\ run'.upto = run.upto /\ run.pc = "lookup"
      BY <3>2, <3>4 DEF LookUp, At, Process
    <3>5. CASE \/ PushDefault \/ DefaultRefused \/ PushUnanswered \/ PushBranch
               \/ OpenRequest \/ RequestRefused \/ RequestUnanswered
      BY <3>2, <3>5 DEF PushDefault, DefaultRefused, PushUnanswered, PushBranch,
         OpenRequest, RequestRefused, RequestUnanswered, At, Process
    <3>6. CASE Clean \/ CleanFails \/ Reply \/ TruncateCursor \/ Refused
      BY <3>1, <3>2, <3>6 DEF Clean, CleanFails, Reply, TruncateCursor, Refused, At, Process
    <3>7. CASE Person \/ Midnight \/ UNCHANGED vars
      <4>1. run' = run \/ (run' = [run EXCEPT !.landed = TRUE] /\ run.pc = "request")
        BY <3>7 DEF Person, Send, MergeRequest, CloseRequest, RemoveStale, Midnight, vars, At
      <4> QED BY <4>1 DEF Process
    <3> QED BY <1>3, <3>1, <3>3, <3>4, <3>5, <3>6, <3>7 DEF Next, Progress, Outage
  <2> QED BY <1>0, <2>1
<1> QED BY <1>1, <1>2, <1>3

LEMMA OnItsTaskStep ==
  ASSUME TypeOK, BatchHasArrived, OnItsTask, [Next]_vars
  PROVE  OnItsTask'
<1> DEFINE Looks == run'.pc = "lookup" =>
                      Lines[run'.line].say \in {"idea", "command"} /\ Lines[run'.line].repo = NoRepo
           Works == run'.pc \in InWorktree \cup {"room"} => MeantFor(run'.line, run'.root)
           Keeps == run'.pc \in {"push", "branch", "request"} =>
                      run'.task.slug = Lines[run'.line].slug
           Holds == \A b \in branches' :
                      /\ MeantFor(b.commit.line, b.repo)
                      /\ b.commit.task.slug = Lines[b.commit.line].slug
<1>0. run.line \in Index => Lines[run.line] \in Line
  BY LineType
<1>1. Holds
  <2> SUFFICES ASSUME NEW b \in branches'
               PROVE  /\ MeantFor(b.commit.line, b.repo)
                      /\ b.commit.task.slug = Lines[b.commit.line].slug
    OBVIOUS
  <2>1. \/ \E c \in branches : b.repo = c.repo /\ b.commit = c.commit
        \/ /\ run.pc \in {"branch", "request"}
           /\ b.repo = run.root /\ b.commit = New
    <3>1. ASSUME NEW c \in branches, MergeRequest(c) \/ CloseRequest(c)
          PROVE  \E d \in branches : b.repo = d.repo /\ b.commit = d.commit
      <4>1. b \in branches \/ b = [c EXCEPT !.open = FALSE]
        BY <3>1 DEF MergeRequest, CloseRequest
      <4>2. [c EXCEPT !.open = FALSE].repo = c.repo
            /\ [c EXCEPT !.open = FALSE].commit = c.commit
        BY DEF TypeOK
      <4> QED BY <4>1, <4>2
    <3> QED BY <3>1, BranchStep DEF Replaces
  <2>2. CASE \E c \in branches : b.repo = c.repo /\ b.commit = c.commit
    BY <1>0, <2>2 DEF OnItsTask
  <2>3. CASE /\ run.pc \in {"branch", "request"}
             /\ b.repo = run.root /\ b.commit = New
    <3>1. b.commit.line = run.line /\ b.commit.task = run.task
      BY <2>3 DEF New
    <3> QED BY <1>0, <2>3, <3>1 DEF OnItsTask, InWorktree, Now
  <2> QED BY <2>1, <2>2, <2>3
<1>2. Looks /\ Works /\ Keeps
  <2>1. CASE PollInbox \/ Tick
    <3> DEFINE last == IF arrived - cursor > MaxPerTick
                       THEN cursor + MaxPerTick ELSE arrived
    <3>1. \/ Exit \/ run' = [Idle EXCEPT !.pc = "poll"]
          \/ run' = [run EXCEPT !.pc = "take", !.line = cursor + 1, !.upto = last]
      BY <2>1 DEF Tick, PollInbox
    <3> HIDE DEF last
    <3>2. run'.pc \in {"idle", "poll", "take"}
      BY <3>1, ExitStep DEF Idle, TypeOK, Process
    <3> QED BY <3>2 DEF InWorktree
  <2>2. CASE TakeLine
    <3>1. /\ run.line \in Index /\ run.line <= arrived
          /\ run'.line = run.line /\ run'.root = Now.repo
      BY <2>2 DEF TakeLine, At, TypeOK, Process, BatchHasArrived
    <3>2. /\ run'.pc \in {"truncate", "reply", "lookup", "room"}
          /\ run'.pc = "lookup" => Now.repo = NoRepo
          /\ run'.pc \in {"lookup", "room"} => Now.say \notin {"skip", "unrouted"}
      <4> DEFINE l == CASE Now.say = "skip" -> "truncate"
                        [] Now.say = "unrouted" -> "reply"
                        [] Now.say \in {"idea", "command"} /\ Now.repo = NoRepo -> "lookup"
                        [] OTHER -> "room"
      <4>1. run'.pc = l
        BY <2>2 DEF TakeLine, TypeOK, Process
      <4>2. /\ l \in {"truncate", "reply", "lookup", "room"}
            /\ l = "lookup" => Now.repo = NoRepo
            /\ l \in {"lookup", "room"} => Now.say \notin {"skip", "unrouted"}
        OBVIOUS
      <4> QED BY <4>1, <4>2
    <3>3. Now.say \in Say
      BY <1>0, <3>1 DEF Now, Line
    <3>4. Now.say \notin {"skip", "unrouted"} => MeantFor(run.line, Now.repo)
      BY <3>1, <3>3 DEF MeantFor, Say, Now
    <3> QED BY <1>0, <3>1, <3>2, <3>3, <3>4 DEF InWorktree, Say, Now
  <2>3. ASSUME NEW down \in SUBSET Repo, LookUp(down)
        PROVE  Looks /\ Works /\ Keeps
    <3>1. CASE Goto("reply")
      BY <3>1, GotoStep DEF InWorktree
    <3>2. ASSUME NEW r \in Repo, run' = [run EXCEPT !.pc = "room", !.root = r]
          PROVE  Looks /\ Works /\ Keeps
      <4>1. run'.pc = "room" /\ run'.root = r /\ run'.line = run.line
        BY <3>2 DEF TypeOK, Process
      <4>2. run.pc = "lookup"
        BY <2>3 DEF LookUp, At
      <4>3. MeantFor(run.line, r)
        BY <4>2, LinesAssumption DEF OnItsTask, MeantFor, Now, TypeOK, BatchHasArrived
      <4> QED BY <1>0, <4>1, <4>3
    <3> QED BY <2>3, <3>1, <3>2 DEF LookUp
  <2>4. CASE AddWorktree
    <3>1. CASE Exit
      BY <3>1, ExitStep DEF InWorktree
    <3>2. CASE run' = [run EXCEPT !.pc = "write", !.base = main[run.root]]
      <4>1. run'.pc = "write" /\ run'.root = run.root /\ run'.line = run.line /\ run.pc = "room"
        BY <2>4, <3>2 DEF AddWorktree, At, TypeOK, Process
      <4> QED BY <1>0, <4>1 DEF OnItsTask
    <3> QED BY <2>4, <3>1, <3>2 DEF AddWorktree
  <2>5. CASE WriteStub \/ WriteCommand
    <3>0. run.pc = "write"
      BY <2>5 DEF WriteStub, WriteCommand, At
    <3>1. /\ run'.root = run.root /\ run'.line = run.line
          /\ run'.pc \in {"push", "clean"}
          /\ run'.pc = "push" => run'.task.slug = Now.slug
      <4>1. CASE WriteStub
        BY <4>1 DEF WriteStub, TypeOK, Process
      <4>2. CASE WriteCommand
        <5>1. CASE Goto("clean")
          BY <5>1 DEF Goto, TypeOK, Process
        <5>2. ASSUME NEW t \in Named(run.base),
                     run' = [run EXCEPT !.pc = "push", !.says = "kept", !.task = t]
              PROVE  /\ run'.root = run.root /\ run'.line = run.line
                     /\ run'.pc = "push" /\ run'.task.slug = Now.slug
          BY <5>2 DEF Named, TypeOK, Process
        <5> QED BY <4>2, <5>1, <5>2 DEF WriteCommand
      <4> QED BY <2>5, <4>1, <4>2
    <3> QED BY <1>0, <3>0, <3>1 DEF OnItsTask, InWorktree, Now
  <2>6. CASE /\ run.pc \in InWorktree
             /\ run'.pc \in Publishing => run.pc \in Publishing
             /\ run'.root = run.root /\ run'.base = run.base
             /\ run'.task = run.task /\ run'.line = run.line
             /\ run'.pc \in InWorktree
    BY <1>0, <2>6 DEF OnItsTask, InWorktree, Publishing, Now
  <2>7. CASE ~ (run'.pc \in InWorktree \cup {"lookup", "room"})
    BY <2>7 DEF InWorktree
  <2>8. ASSUME ~ (PollInbox \/ Tick \/ TakeLine \/ (\E down \in SUBSET Repo : LookUp(down))),
               run'.pc \in {"lookup", "room"}
        PROVE  run'.pc = run.pc /\ run'.line = run.line /\ run'.root = run.root
    <3> USE DEF TypeOK, Process
    <3>1. CASE Exit \/ \E l \in {"clean", "branch", "request", "reply", "truncate", "cursor"} : Goto(l)
      BY <2>8, <3>1, ExitStep, GotoStep
    <3>2. CASE AddWorktree \/ WriteStub \/ WriteCommand
      <4>1. CASE AddWorktree
        BY <2>8, <3>1, <4>1 DEF AddWorktree
      <4>2. CASE WriteStub
        BY <2>8, <4>2 DEF WriteStub
      <4>3. CASE WriteCommand
        BY <2>8, <3>1, <4>3 DEF WriteCommand
      <4> QED BY <3>2, <4>1, <4>2, <4>3
    <3>3. CASE PushUnanswered \/ RequestRefused \/ RequestUnanswered
      BY <2>8, <3>3 DEF PushUnanswered, RequestRefused, RequestUnanswered
    <3>4. CASE \/ PushDefault \/ DefaultRefused \/ PushBranch \/ OpenRequest
               \/ Clean \/ CleanFails \/ Reply \/ TruncateCursor \/ Crash
      BY <3>1, <3>4 DEF PushDefault, DefaultRefused, PushBranch, OpenRequest,
         Clean, CleanFails, Reply, TruncateCursor, Crash
    <3>5. CASE Refused
      BY <2>8, <3>1, <3>5 DEF Refused
    <3>6. CASE WriteCursor
      BY <2>8, <3>6 DEF WriteCursor, Idle
    <3>7. CASE Person \/ Midnight \/ UNCHANGED vars
      <4>1. run' = run \/ run' = [run EXCEPT !.landed = TRUE]
        BY <3>7 DEF Person, Send, MergeRequest, CloseRequest, RemoveStale, Midnight, vars
      <4> QED BY <4>1
    <3> QED BY <2>8, <3>2, <3>3, <3>4, <3>5, <3>6, <3>7 DEF Next, Progress, Outage
  <2>9. CASE run'.pc = run.pc /\ run'.line = run.line /\ run'.root = run.root
             /\ run'.pc \in {"lookup", "room"}
    BY <1>0, <2>9 DEF OnItsTask, InWorktree, Now
  <2> QED BY <2>1, <2>2, <2>3, <2>4, <2>5, <2>6, <2>7, <2>8, <2>9, WriterStep
<1> QED BY <1>1, <1>2 DEF OnItsTask, Now

\* A commit that was just pushed, or a request just opened, keeps the line.
LEMMA PushedIsKept ==
  ASSUME TypeOK, NEW n, n = run.line, PushDefault \/ OpenRequest
  PROVE  Kept(n)' /\ run'.pc = "clean" /\ run'.line = n
<1>1. CASE PushDefault
  <2>1. run.root \in Repo
    BY <1>1 DEF PushDefault, At, TypeOK, InWorktree
  <2>2. New \in main'[run.root] /\ New.line = n
    BY <1>1, <2>1 DEF PushDefault, TypeOK, New
  <2> QED BY <1>1, <2>1, <2>2, GotoStep DEF PushDefault, Kept
<1>2. CASE OpenRequest
  <2> DEFINE d == [repo |-> run.root, commit |-> New, open |-> TRUE]
  <2>1. d \in branches' /\ d.open /\ d.commit.line = n
    BY <1>2 DEF OpenRequest, New
  <2> HIDE DEF d
  <2> QED BY <1>2, <2>1, GotoStep DEF OpenRequest, Kept
<1> QED BY <1>1, <1>2

\* What a step does to the answer the process is about to give.
LEMMA AnswerStep ==
  ASSUME TypeOK, SaidWhenSafe, [Next]_vars
  PROVE  /\ run'.pc \in {"lookup", "room", "write"} => run'.says = "back"
         /\ \/ ~ WillAnswer'
            \/ run'.says = "back"
            \/ (PushDefault \/ OpenRequest) /\ run'.line = run.line
            \/ WillAnswer /\ run'.says = run.says /\ run'.line = run.line
<1> USE DEF TypeOK, Process, WillAnswer
<1>a. ASSUME NEW l, Goto(l)
      PROVE  run'.pc = l /\ run'.says = run.says /\ run'.line = run.line /\ run'.ok = run.ok
  BY <1>a DEF Goto
<1>b. ASSUME run' = [run EXCEPT !.pc = "clean", !.ok = FALSE]
      PROVE  run'.pc = "clean" /\ ~ run'.ok
  BY <1>b
<1>1. CASE Tick \/ PollInbox \/ Exit
  <2> DEFINE last == IF arrived - cursor > MaxPerTick
                     THEN cursor + MaxPerTick ELSE arrived
  <2>1. \/ Exit \/ run' = [Idle EXCEPT !.pc = "poll"]
        \/ run' = [run EXCEPT !.pc = "take", !.line = cursor + 1, !.upto = last]
    BY <1>1 DEF Tick, PollInbox
  <2> HIDE DEF last
  <2>2. run'.pc \in {"idle", "poll", "take"}
    BY <2>1, ExitStep DEF Idle
  <2> QED BY <2>2
<1>2. CASE TakeLine
  BY <1>2 DEF TakeLine
<1>3. ASSUME NEW down \in SUBSET Repo, LookUp(down)
      PROVE  run'.says = "back"
  <2>1. run.says = "back"
    BY <1>3 DEF LookUp, At, SaidWhenSafe
  <2> QED BY <1>a, <1>3, <2>1 DEF LookUp
<1>4. CASE AddWorktree
  <2>1. run.says = "back"
    BY <1>4 DEF AddWorktree, At, SaidWhenSafe
  <2>2. CASE run' = [run EXCEPT !.pc = "write", !.base = main[run.root]]
    BY <2>1, <2>2
  <2> QED BY <1>1, <1>4, <2>2 DEF AddWorktree
<1>5. CASE WriteStub
  <2>1. CASE Refuses(Now.slug, run.base)
    BY <1>b, <1>5, <2>1 DEF WriteStub
  <2>2. CASE ~ Refuses(Now.slug, run.base)
    <3>1. run'.pc = "push"
      BY <1>5, <2>2 DEF WriteStub
    <3> QED BY <3>1
  <2> QED BY <2>1, <2>2
<1>6. CASE WriteCommand
  <2>1. CASE Goto("clean")
    BY <1>a, <1>6, <2>1 DEF WriteCommand, At, SaidWhenSafe
  <2>2. ASSUME NEW t, run' = [run EXCEPT !.pc = "push", !.says = "kept", !.task = t]
        PROVE  run'.pc = "push"
    BY <2>2
  <2> QED BY <1>6, <2>1, <2>2 DEF WriteCommand
<1>7. CASE \/ DefaultRefused \/ PushUnanswered \/ PushBranch
           \/ RequestRefused \/ RequestUnanswered
  <2>1. CASE DefaultRefused \/ PushBranch
    BY <1>a, <2>1 DEF DefaultRefused, PushBranch
  <2>2. CASE PushUnanswered
    BY <2>2 DEF PushUnanswered
  <2> QED BY <1>b, <1>7, <2>1, <2>2 DEF RequestRefused, RequestUnanswered
<1>8. CASE PushDefault \/ OpenRequest
  BY <1>8, PushedIsKept DEF PushDefault, OpenRequest
<1>9. CASE Clean \/ CleanFails \/ Crash \/ Refused
  <2>1. CASE Goto("reply") /\ run.pc = "clean" /\ run.ok
    <3>1. /\ run'.pc = "reply" /\ run'.says = run.says /\ run'.line = run.line
      BY <1>a, <2>1
    <3> QED BY <2>1, <3>1
  <2>2. CASE run' = [run EXCEPT !.pc = "clean", !.ok = FALSE]
    BY <1>b, <2>2
  <2> QED BY <1>1, <1>9, <2>1, <2>2 DEF Clean, CleanFails, Crash, Refused, At
<1>10. CASE Reply \/ TruncateCursor \/ WriteCursor
  <2>1. CASE Reply \/ TruncateCursor
    BY <1>a, <2>1 DEF Reply, TruncateCursor
  <2>2. CASE WriteCursor
    <3>1. run'.pc = "idle" \/ run'.pc = "take"
      BY <2>2 DEF WriteCursor, Idle
    <3> QED BY <3>1
  <2> QED BY <1>10, <2>1, <2>2
<1>11. CASE Person \/ Midnight \/ UNCHANGED vars
  <2>1. \/ UNCHANGED run \/ run' = [run EXCEPT !.landed = TRUE]
    BY <1>11 DEF Person, Send, MergeRequest, CloseRequest, RemoveStale, Midnight, vars
  <2>2. /\ run'.pc = run.pc /\ run'.says = run.says /\ run'.line = run.line
        /\ run'.ok = run.ok
    BY <2>1
  <2> QED BY <2>2 DEF SaidWhenSafe
<1> QED BY <1>1, <1>2, <1>3, <1>4, <1>5, <1>6, <1>7, <1>8, <1>9, <1>10, <1>11
        DEF Next, Progress, Outage

LEMMA SaidStep ==
  ASSUME TypeOK, BatchHasArrived, OnItsTask, SaidWhenSafe, [Next]_vars
  PROVE  SaidWhenSafe'
<1>1. \A n \in Index : Safe(n) => Safe(n)'
  BY SafeStays
<1>2. \A n \in Index : (WillAnswer /\ run.says = "kept" /\ run.line = n)' => Safe(n)'
  <2> SUFFICES ASSUME NEW n \in Index, WillAnswer', run'.says = "kept", run'.line = n
               PROVE  Safe(n)'
    OBVIOUS
  <2>1. CASE (PushDefault \/ OpenRequest) /\ run'.line = run.line
    BY <2>1, PushedIsKept DEF Safe
  <2>2. CASE WillAnswer /\ run'.says = run.says /\ run'.line = run.line
    BY <1>1, <2>2 DEF SaidWhenSafe
  <2> QED BY <2>1, <2>2, AnswerStep
<1>3. \A n \in Index : said'[n] = "kept" => Safe(n)'
  <2>1. CASE Reply
    <3>1. said' = [said EXCEPT ![run.line] = run.says] /\ run.pc = "reply"
      BY <2>1 DEF Reply, At
    <3>2. run.says = "kept" => Safe(run.line)
      BY <3>1 DEF SaidWhenSafe, WillAnswer, TypeOK
    <3>3. \A n \in Index : said'[n] = "kept" => Safe(n)
      BY <3>1, <3>2 DEF SaidWhenSafe, TypeOK
    <3> QED BY <1>1, <3>3
  <2>2. CASE ~ Reply
    <3>1. said' = said
      BY <2>2 DEF Next, Progress, Outage, Person, Tick, PollInbox, TakeLine, LookUp,
         AddWorktree, WriteStub, WriteCommand, PushDefault, DefaultRefused, PushBranch,
         OpenRequest, RequestRefused, Clean, TruncateCursor, WriteCursor, Refused,
         PushUnanswered, RequestUnanswered, CleanFails, Crash, Send, MergeRequest,
         CloseRequest, RemoveStale, Midnight, vars
    <3> QED BY <1>1, <3>1 DEF SaidWhenSafe
  <2> QED BY <2>1, <2>2
<1>4. (run.pc \in {"lookup", "room", "write"} => run.says = "back")'
  BY AnswerStep
<1> QED BY <1>2, <1>3, <1>4 DEF SaidWhenSafe

\* A line the thread was told is kept stays on the default branch, in an open pull
\* request or with the person who closed it, or another line about the same task
\* has come in (agent/capture.go pushStub: "so the stub is never lost").
THEOREM KeptUnlessRivalled == Spec => [](\A n \in Index : said[n] = "kept" => Safe(n))
<1> DEFINE Inv == TypeOK /\ BatchHasArrived /\ OnItsTask /\ SaidWhenSafe
<1>1. Init => Inv
  <2>1. Init => BatchHasArrived /\ OnItsTask /\ SaidWhenSafe
    BY DEF Init, BatchHasArrived, OnItsTask, SaidWhenSafe, WillAnswer, Idle, InWorktree
  <2> QED BY <2>1, InitTypeOK
<1>2. Inv /\ [Next]_vars => Inv'
  BY TypeStep, BatchStep, OnItsTaskStep, SaidStep
<1>3. Inv => \A n \in Index : said[n] = "kept" => Safe(n)
  BY DEF SaidWhenSafe
<1> QED BY <1>1, <1>2, <1>3, PTL DEF Spec

\* An inbox in which no two lines are about one task.
NoRivals == \A n, m \in Index : ~ Rivals(n, m)

\* There, what the thread was told is done stays done.
THEOREM Acknowledged == ASSUME NoRivals PROVE Spec => []AcknowledgedIsKept
<1>1. TypeOK /\ (\A n \in Index : said[n] = "kept" => Safe(n)) => AcknowledgedIsKept
  BY LinesAssumption DEF NoRivals, Safe, Overtaken, AcknowledgedIsKept, TypeOK, Index
<1> QED BY <1>1, TypeCorrect, KeptUnlessRivalled, PTL
=============================================================================
