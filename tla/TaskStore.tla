-------------------------------- MODULE TaskStore -------------------------------
(***************************************************************************)
(* The verbs that write task files (main.go, task.go), run by people, by   *)
(* agents and by the post-merge hook in one checkout.  A verb globs, reads *)
(* the whole file, changes it in memory and saves it with os.WriteFile,    *)
(* which truncates the file before writing it.  Nothing locks.             *)
(***************************************************************************)
EXTENDS TaskPage

CONSTANTS
  Process,    \* verbs that may run at once
  Id,         \* ids, the file names
  Ref,        \* what is typed to name a task
  Prefix,     \* pairs <<ref, id>>: ref is a prefix of id, or the whole of it
  NoId,
  Issues,     \* bodies of the issues a task may be seeded from
  Blocks,     \* what people insert by hand
  Commands,   \* what is run
  Seeds,      \* the files there at first
  Keep,       \* compact's -keep
  MaxRuns,    \* bound on the verbs run
  MaxEdits    \* bound on the edits by hand

File == [state : {"absent", "empty", "task"}, status : {"todo", "done"}, body : Seq(Line)]
Absent == [state |-> "absent", status |-> "todo", body |-> <<>>]
Empty == [Absent EXCEPT !.state = "empty"]

Verb == {"new", "append", "close", "compact"}
Command ==
  [verb : {"new"}, id : Id, issue : Issues \cup {<<>>}, section : {Context}, refs : {<<>>},
   merge : {FALSE}]
  \cup [verb : {"append"}, id : {NoId}, issue : {<<>>}, section : {Decisions, Log},
        refs : {<<r>> : r \in Ref}, merge : {FALSE}]
  \cup [verb : {"compact"}, id : {NoId}, issue : {<<>>}, section : {Log},
        refs : {<<r>> : r \in Ref}, merge : {FALSE}]
  \cup [verb : {"close"}, id : {NoId}, issue : {<<>>}, section : {Log},
        refs : {<<r>> : r \in Ref} \cup {<<r, s>> : r \in Ref, s \in Ref}, merge : BOOLEAN]

ASSUME NameAssumption ==
  /\ NoId \notin Id
  /\ Prefix \subseteq Ref \X Id
ASSUME TextAssumption == Issues \cup Blocks \subseteq Seq(Line)
ASSUME SetupAssumption == Commands \subseteq Command /\ Seeds \in [Id -> File]
ASSUME BoundAssumption == Keep \in Nat /\ MaxRuns \in Nat /\ MaxEdits \in Nat

VARIABLES
  files,      \* .tasks
  run,        \* the processes
  begun,      \* how many verbs were started
  edits,      \* how many edits were made by hand
  acked,      \* history: the decisions whose append was reported done
  spoiled     \* history: files a save was cut short on, or overwrote a newer one

vars == <<files, run, begun, edits, acked, spoiled>>

Step == {"idle", "create", "template", "reparse", "resolve", "read", "truncate", "write"}
NoCommand == [verb |-> "close", id |-> NoId, issue |-> <<>>, section |-> Log,
              refs |-> <<>>, merge |-> FALSE]
Idle == [pc |-> "idle", cmd |-> NoCommand, refs |-> <<>>, id |-> NoId, base |-> Absent, n |-> 0]

At(p, l) == run[p].pc = l
Goto(p, l) == run' = [run EXCEPT ![p].pc = l]
Exit(p) == run' = [run EXCEPT ![p] = Idle]
FileOf(p) == files[run[p].id]

Init ==
  /\ files = Seeds
  /\ run = [p \in Process |-> Idle]
  /\ begun = 0
  /\ edits = 0
  /\ acked = {}
  /\ spoiled = {}

Start(p, c) ==
  /\ At(p, "idle")
  /\ begun < MaxRuns
  /\ begun' = begun + 1
  /\ run' = [run EXCEPT ![p] =
       [Idle EXCEPT !.pc = IF c.verb = "new" THEN "create" ELSE "resolve",
                    !.cmd = c, !.refs = c.refs, !.id = c.id, !.n = begun + 1]]
  /\ UNCHANGED <<files, edits, acked, spoiled>>

-----------------------------------------------------------------------------
(* new *)

\* MUTANT of Create: without O_EXCL.
CreateOver(p) ==
  /\ At(p, "create")
  /\ files' = [files EXCEPT ![run[p].id] = Empty]
  /\ Goto(p, "template")
  /\ UNCHANGED <<begun, edits, acked, spoiled>>

\* O_CREATE|O_EXCL
Create(p) ==
  /\ At(p, "create")
  /\ IF FileOf(p) # Absent
       THEN Exit(p) /\ UNCHANGED files
       ELSE files' = [files EXCEPT ![run[p].id] = Empty] /\ Goto(p, "template")
  /\ UNCHANGED <<begun, edits, acked, spoiled>>

WriteTemplate(p) ==
  /\ At(p, "template")
  /\ files' = [files EXCEPT ![run[p].id] =
                 [state |-> "task", status |-> "todo", body |-> Template]]
  /\ Goto(p, "reparse")
  /\ UNCHANGED <<begun, edits, acked, spoiled>>

\* CreateTask reads back what it wrote; only a task seeded from an issue is
\* saved again.
Reparse(p) ==
  /\ At(p, "reparse")
  /\ IF /\ FileOf(p).state = "task"
        /\ run[p].cmd.issue # <<>>
        /\ HasSection(FileOf(p).body, Context)
       THEN run' = [run EXCEPT ![p].pc = "truncate", ![p].base = FileOf(p)]
       ELSE Exit(p)
  /\ UNCHANGED <<files, begun, edits, acked, spoiled>>

-----------------------------------------------------------------------------
(* resolveTask, then the verb *)

\* MUTANT of NextRef: the glob of the next reference is not done.
NextRefUnresolved(p) ==
  IF Len(run[p].refs) <= 1 THEN Exit(p)
  ELSE run' = [run EXCEPT ![p].pc = "read", ![p].refs = Tail(@), ![p].id = NoId,
                          ![p].base = Absent]

\* On to the next reference of a close, or out.
NextRef(p) ==
  IF Len(run[p].refs) <= 1 THEN Exit(p)
  ELSE run' = [run EXCEPT ![p].pc = "resolve", ![p].refs = Tail(@), ![p].id = NoId,
                          ![p].base = Absent]

\* An unusable reference ends the verb, or is reported and skipped with
\* -from-merge.
BadRef(p) == IF run[p].cmd.merge THEN NextRef(p) ELSE Exit(p)

Matches(ref) == {i \in Id : files[i] # Absent /\ <<ref, i>> \in Prefix}

\* The glob <ref>*.md: one match or none of it.
Resolve(p) ==
  /\ At(p, "resolve")
  /\ LET found == Matches(Head(run[p].refs)) IN
       \/ \E i \in found : /\ found = {i}
                           /\ run' = [run EXCEPT ![p].pc = "read", ![p].id = i]
       \/ Cardinality(found) # 1 /\ BadRef(p)
  /\ UNCHANGED <<files, begun, edits, acked, spoiled>>

\* A file cut short has no front matter.  A closed task is left alone, and so is
\* a Log that has nothing to drop.
ReadFile(p) ==
  /\ At(p, "read")
  /\ LET f == FileOf(p)
         c == run[p].cmd
     IN  CASE f.state # "task" -> BadRef(p)
           [] f.state = "task" /\ c.verb = "close" /\ f.status = "done" -> NextRef(p)
           [] f.state = "task" /\ ~ (c.verb = "close" /\ f.status = "done")
                /\ ~ HasSection(f.body, c.section) -> Exit(p)
           [] OTHER ->
                IF c.verb = "compact" /\ Dropped(f.body, Log, Keep) = {}
                  THEN Exit(p)
                  ELSE run' = [run EXCEPT ![p].pc = "truncate", ![p].base = f]
  /\ UNCHANGED <<files, begun, edits, acked, spoiled>>

-----------------------------------------------------------------------------
(* Save *)

\* What the verb makes of what it read.
Edited(p) ==
  LET c == run[p].cmd
      b == run[p].base
  IN  CASE c.verb = "new" -> [b EXCEPT !.body = SetSection(@, Context, c.issue)]
        [] c.verb = "append" -> [b EXCEPT !.body = AppendEntry(@, c.section, Entry(run[p].n))]
        [] c.verb = "close" -> [b EXCEPT !.status = "done",
                                         !.body = AppendEntry(@, Log, Entry(run[p].n))]
        [] c.verb = "compact" -> [b EXCEPT !.body = TruncateSection(@, Log, Keep)]

Truncate(p) ==
  /\ At(p, "truncate")
  /\ files' = [files EXCEPT ![run[p].id] = Empty]
  /\ spoiled' = IF FileOf(p) = run[p].base THEN spoiled ELSE spoiled \cup {run[p].id}
  /\ Goto(p, "write")
  /\ UNCHANGED <<begun, edits, acked>>

\* The bytes go to the start of the file: of a longer one that another process
\* wrote since the truncation, the end stays.
Over(new, old) ==
  [new EXCEPT !.body = @ \o SubSeq(old.body, Len(@) + 1, Len(old.body))]

Write(p) ==
  /\ At(p, "write")
  /\ files' = [files EXCEPT ![run[p].id] = Over(Edited(p), @)]
  /\ spoiled' = IF FileOf(p) = Empty THEN spoiled ELSE spoiled \cup {run[p].id}
  /\ acked' = IF run[p].cmd.verb = "append" /\ run[p].cmd.section = Decisions
              THEN acked \cup {[id |-> run[p].id, n |-> run[p].n]}
              ELSE acked
  /\ NextRef(p)
  /\ UNCHANGED <<begun, edits>>

\* A kill, or a file operation that fails.
Stop(p) ==
  /\ ~ At(p, "idle")
  /\ Exit(p)
  /\ spoiled' = IF At(p, "write") THEN spoiled \cup {run[p].id} ELSE spoiled
  /\ UNCHANGED <<files, begun, edits, acked>>

-----------------------------------------------------------------------------
\* A person inserts a block after some line below the title, outside code.
HandEdit(i) ==
  /\ edits < MaxEdits
  /\ files[i].state = "task"
  /\ \E block \in Blocks, k \in 3..Len(files[i].body) :
       /\ ~ InCode(files[i].body, k)
       /\ files' = [files EXCEPT ![i].body =
                      SubSeq(@, 1, k) \o block \o SubSeq(@, k + 1, Len(@))]
  /\ edits' = edits + 1
  /\ UNCHANGED <<run, begun, acked, spoiled>>

Next ==
  \/ \E p \in Process :
       \/ \E c \in Commands : Start(p, c)
       \/ Create(p)
       \/ WriteTemplate(p)
       \/ Reparse(p)
       \/ Resolve(p)
       \/ ReadFile(p)
       \/ Truncate(p)
       \/ Write(p)
       \/ Stop(p)
  \/ \E i \in Id : HandEdit(i)

Spec == Init /\ [][Next]_vars

-----------------------------------------------------------------------------
(* Properties *)

\* Every variable keeps to its type, and a process that read a file knows which.
TypeOK ==
  /\ files \in [Id -> File]
  /\ run \in [Process -> [pc : Step, cmd : Command \cup {NoCommand}, refs : Seq(Ref),
                          id : Id \cup {NoId}, base : File, n : 0..MaxRuns]]
  /\ \A p \in Process : run[p].pc \notin {"idle", "resolve"} => run[p].id \in Id
  /\ begun \in 0..MaxRuns
  /\ edits \in 0..MaxEdits
  /\ acked \subseteq [id : Id, n : 1..MaxRuns]
  /\ spoiled \subseteq Id

Saving(i) == \E p \in Process : At(p, "write") /\ run[p].id = i

\* A decision that append reported stays in Decisions through every later verb and
\* edit; only a save cut short, or one of a file that changed since it was
\* read, can lose it (docs/format.md: Decisions is append only).
DecisionsAreKept ==
  \A a \in acked :
    \/ a.id \in spoiled
    \/ Saving(a.id)
    \/ /\ HasSection(files[a.id].body, Decisions)
       /\ \E i \in DOMAIN Content(files[a.id].body, Decisions) :
            Content(files[a.id].body, Decisions)[i] = Entry(a.n)

\* A save that nothing else came between.
Saves(p) == At(p, "write") /\ run'[p].pc # "write" /\ run[p].id \notin spoiled'

\* A save changes one section: the others are there, line for line, if they were
\* (docs/format.md: it never rewrites a section it was not asked to change).
OnlyItsSection ==
  [][\A p \in Process : Saves(p) =>
       \A name \in Name \ {run[p].cmd.section} :
         HasSection(run[p].base.body, name) =>
           /\ HasSection(Edited(p).body, name)
           /\ Content(Edited(p).body, name) = Content(run[p].base.body, name)]_vars

Newest(s, n) == SubSeq(s, Len(s) - n + 1, Len(s))

\* An append adds the last entry of its section; a compaction leaves one marker and
\* the Keep newest entries, in order (task.go TruncateSection).
EntriesFollow ==
  [][\A p \in Process : Saves(p) =>
       LET c == run[p].cmd
           before == Entries(run[p].base.body, c.section)
           after == Entries(Edited(p).body, c.section)
       IN  /\ c.verb \in {"append", "close"} => after = Append(before, Entry(run[p].n))
           /\ c.verb = "compact" =>
                /\ Len(after) = Keep + 1
                /\ after[1].is = "marker"
                /\ Tail(after) = Newest(before, Keep)]_vars

\* Once no verb runs, and whatever they, kills and hands made of a task: its page
\* shows every line of it once, in order, where the verbs see it, so that what
\* append and compact take for a heading, an entry or code is one there, and every
\* tag closes (render.go: the failure mode is "never broken HTML").
PagesShowTheirTasks ==
  (\A p \in Process : At(p, "idle")) =>
    \A i \in Id : files[i].state = "task" => ShowsTheBody(files[i].body)
=============================================================================
