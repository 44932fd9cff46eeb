---------------------------- MODULE TaskStoreProofs ----------------------------
(* What the verbs, the kills and the hands leave of the tasks, for any number *)
(* of processes, tasks, runs and edits.                                       *)
EXTENDS TaskStore, TaskFileProofs

-----------------------------------------------------------------------------
(* Types                                                                      *)

LEMMA CommandIs ==
  ASSUME NEW c \in Command
  PROVE  /\ c.verb \in Verb /\ c.section \in Name /\ c.refs \in Seq(Ref)
         /\ c.id \in Id \cup {NoId} /\ c.issue \in Seq(Line)
         /\ c.issue \in Issues \cup {<<>>}
         /\ c.verb = "new" => c.id \in Id /\ c.section = Context
         /\ c.verb \in {"close", "compact"} => c.section = Log
         /\ c.verb = "append" => c.section \in {Decisions, Log}
<1>1. \A r, s \in Ref : <<r>> \in Seq(Ref) /\ <<r, s>> \in Seq(Ref)
  OBVIOUS
<1>2. <<>> \in Seq(Ref) /\ <<>> \in Seq(Line) /\ Issues \subseteq Seq(Line)
  BY TextAssumption
<1>3. Context \in Name /\ Decisions \in Name /\ Log \in Name
  BY DEF Name
<1> DEFINE N == [verb : {"new"}, id : Id, issue : Issues \cup {<<>>}, section : {Context},
                 refs : {<<>>}, merge : {FALSE}]
           A == [verb : {"append"}, id : {NoId}, issue : {<<>>}, section : {Decisions, Log},
                 refs : {<<r>> : r \in Ref}, merge : {FALSE}]
           T == [verb : {"compact"}, id : {NoId}, issue : {<<>>}, section : {Log},
                 refs : {<<r>> : r \in Ref}, merge : {FALSE}]
           two == {<<r>> : r \in Ref} \cup {<<r, s>> : r \in Ref, s \in Ref}
           C == [verb : {"close"}, id : {NoId}, issue : {<<>>}, section : {Log},
                 refs : two, merge : BOOLEAN]
<1>4. CASE c \in N
  BY <1>2, <1>3, <1>4 DEF Verb
<1>5. CASE c \in A
  BY <1>1, <1>2, <1>3, <1>5 DEF Verb
<1>6. CASE c \in T
  BY <1>1, <1>2, <1>3, <1>6 DEF Verb
<1>7. CASE c \in C
  <2>1. \A x \in two : x \in Seq(Ref)
    <3>1. \A x \in {<<r>> : r \in Ref} : x \in Seq(Ref)
      BY <1>1
    <3>2. ASSUME NEW x \in {<<r, s>> : r \in Ref, s \in Ref}
          PROVE  x \in Seq(Ref)
      <4>1. PICK r \in Ref, s \in Ref : x = <<r, s>>
        OBVIOUS
      <4> QED BY <1>1, <4>1
    <3> QED BY <3>1, <3>2
  <2> HIDE DEF two
  <2> QED BY <1>2, <1>3, <1>7, <2>1 DEF Verb
<1>8. Command = N \cup A \cup T \cup C
  BY DEF Command
<1> HIDE DEF N, A, T, C
<1>9. c \in N \/ c \in A \/ c \in T \/ c \in C
  BY <1>8
<1> QED BY <1>4, <1>5, <1>6, <1>7, <1>9

Runner == [pc : Step, cmd : Command \cup {NoCommand}, refs : Seq(Ref), id : Id \cup {NoId},
           base : File, n : 0..MaxRuns]

\* What a process at work knows: a verb that creates was given an id, and one that
\* saves has read a task that has the section it rewrites.
Sound(r) ==
  /\ r \in Runner
  /\ r.pc \notin {"idle", "resolve"} => r.id \in Id
  /\ r.pc # "idle" => r.cmd \in Command /\ r.n \in 1..MaxRuns
  /\ r.pc \in {"create", "template", "reparse"} => r.cmd.verb = "new"
  /\ r.pc \in {"truncate", "write"} =>
       r.base.state = "task" /\ HasSection(r.base.body, r.cmd.section)

RunsSound == run \in [Process -> Runner] /\ \A p \in Process : Sound(run[p])

TypeInv ==
  /\ files \in [Id -> File]
  /\ RunsSound
  /\ begun \in 0..MaxRuns
  /\ edits \in 0..MaxEdits
  /\ acked \subseteq [id : Id, n : 1..MaxRuns]
  /\ spoiled \subseteq Id

LEMMA FileTypes ==
  /\ Absent \in File /\ Empty \in File
  /\ Absent.state = "absent" /\ Empty.state = "empty" /\ Empty.body = <<>>
  /\ \A f \in File : f.body \in Seq(Line)
<1>1. <<>> \in Seq(Line)
  BY EmptySeq
<1> QED BY <1>1 DEF Absent, Empty, File

LEMMA IdleIsSound ==
  Idle \in Runner /\ Sound(Idle) /\ Idle.pc = "idle"
<1>1. NoCommand \in Command \cup {NoCommand} /\ <<>> \in Seq(Ref) /\ 0 \in 0..MaxRuns
  BY BoundAssumption
<1> QED BY <1>1, FileTypes DEF Idle, Runner, Step, Sound

\* A step that leaves the other processes alone.
LEMMA SoundStep ==
  ASSUME RunsSound, NEW p \in Process, NEW r, Sound(r), run' = [run EXCEPT ![p] = r]
  PROVE  RunsSound'
<1>1. r \in Runner
  BY DEF Sound
<1>2. run' \in [Process -> Runner]
  BY <1>1 DEF RunsSound
<1>3. ASSUME NEW q \in Process
      PROVE  Sound(run'[q])
  <2>1. run'[q] = r \/ run'[q] = run[q]
    BY DEF RunsSound
  <2>2. Sound(run[q])
    BY DEF RunsSound
  <2> QED BY <2>1, <2>2
<1> QED BY <1>2, <1>3 DEF RunsSound, Sound

LEMMA ExitIsSound ==
  ASSUME RunsSound, NEW p \in Process, Exit(p)
  PROVE  RunsSound'
<1>1. run' = [run EXCEPT ![p] = Idle]
  BY DEF Exit
<1> QED BY <1>1, IdleIsSound, SoundStep

LEMMA NextRefIsSound ==
  ASSUME RunsSound, NEW p \in Process, run[p].pc # "idle", NextRef(p)
  PROVE  RunsSound'
<1> DEFINE r == [run[p] EXCEPT !.pc = "resolve", !.refs = Tail(run[p].refs), !.id = NoId,
                               !.base = Absent]
<1>1. run[p] \in Runner /\ Sound(run[p])
  BY DEF RunsSound
<1>2. CASE Len(run[p].refs) <= 1
  <2>1. Exit(p)
    BY <1>2 DEF NextRef
  <2> QED BY <2>1, ExitIsSound
<1>3. CASE ~ (Len(run[p].refs) <= 1)
  <2>1. run' = [run EXCEPT ![p] = r]
    BY <1>1, <1>3 DEF NextRef, RunsSound
  <2>2. run[p].refs \in Seq(Ref)
    BY <1>1 DEF Runner
  <2>3. run[p].refs # <<>>
    BY <1>3
  <2>4. Tail(run[p].refs) \in Seq(Ref)
    BY <2>2, <2>3, HeadTailProperties
  <2>5. r \in Runner /\ r.pc = "resolve" /\ r.cmd = run[p].cmd /\ r.n = run[p].n
    BY <1>1, <2>4, FileTypes DEF Runner, Step
  <2> HIDE DEF r
  <2>6. Sound(r)
    BY <1>1, <2>5 DEF Sound
  <2> QED BY <2>1, <2>6, SoundStep
<1> QED BY <1>2, <1>3

LEMMA BadRefIsSound ==
  ASSUME RunsSound, NEW p \in Process, run[p].pc # "idle", BadRef(p)
  PROVE  RunsSound'
BY ExitIsSound, NextRefIsSound DEF BadRef

LEMMA EditedIs ==
  ASSUME RunsSound, NEW p \in Process, At(p, "write")
  PROVE  Edited(p) \in File /\ Edited(p).state = "task"
<1> DEFINE c == run[p].cmd
           b == run[p].base
           n == run[p].n
<1>1. /\ c \in Command /\ b \in File /\ b.state = "task" /\ HasSection(b.body, c.section)
      /\ n \in Nat /\ b.body \in Seq(Line)
  <2>1. /\ c \in Command /\ b \in File /\ b.state = "task" /\ HasSection(b.body, c.section)
        /\ n \in 1..MaxRuns
    BY DEF RunsSound, Sound, Runner, At
  <2> HIDE DEF c, b, n
  <2>2. n \in Nat
    BY <2>1, BoundAssumption
  <2> QED BY <2>1, <2>2, FileTypes
<1>2. /\ c.verb \in Verb /\ c.issue \in Seq(Line)
      /\ c.verb = "new" => c.section = Context
      /\ c.verb \in {"close", "compact"} => c.section = Log
  BY <1>1, CommandIs
<1>3. Edited(p) = CASE c.verb = "new" -> [b EXCEPT !.body = SetSection(@, Context, c.issue)]
                    [] c.verb = "append" -> [b EXCEPT !.body = AppendEntry(@, c.section, Entry(n))]
                    [] c.verb = "close" -> [b EXCEPT !.status = "done",
                                                     !.body = AppendEntry(@, Log, Entry(n))]
                    [] c.verb = "compact" -> [b EXCEPT !.body = TruncateSection(@, Log, Keep)]
  BY DEF Edited
<1> HIDE DEF c, b, n
<1>4. \A s \in Seq(Line) :
        /\ [b EXCEPT !.body = s] \in File /\ [b EXCEPT !.body = s].state = "task"
        /\ [b EXCEPT !.status = "done", !.body = s] \in File
        /\ [b EXCEPT !.status = "done", !.body = s].state = "task"
  BY <1>1 DEF File
<1>5. CASE c.verb = "new"
  <2>1. SetSection(b.body, Context, c.issue) \in Seq(Line)
    BY <1>1, <1>2, <1>5, SetType
  <2>2. Edited(p) = [b EXCEPT !.body = SetSection(b.body, Context, c.issue)]
    BY <1>3, <1>5
  <2> QED BY <1>4, <2>1, <2>2
<1>6. CASE c.verb = "append"
  <2>1. AppendEntry(b.body, c.section, Entry(n)) \in Seq(Line)
    BY <1>1, AppendType
  <2>2. Edited(p) = [b EXCEPT !.body = AppendEntry(b.body, c.section, Entry(n))]
    BY <1>3, <1>6
  <2> QED BY <1>4, <2>1, <2>2
<1>7. CASE c.verb = "close"
  <2>1. AppendEntry(b.body, Log, Entry(n)) \in Seq(Line)
    BY <1>1, <1>2, <1>7, AppendType
  <2>2. Edited(p) = [b EXCEPT !.status = "done", !.body = AppendEntry(b.body, Log, Entry(n))]
    BY <1>3, <1>7
  <2> QED BY <1>4, <2>1, <2>2
<1>8. CASE c.verb = "compact"
  <2>1. TruncateSection(b.body, Log, Keep) \in Seq(Line)
    BY <1>1, <1>2, <1>8, TruncateAbove
  <2>2. Edited(p) = [b EXCEPT !.body = TruncateSection(b.body, Log, Keep)]
    BY <1>3, <1>8
  <2> QED BY <1>4, <2>1, <2>2
<1> QED BY <1>2, <1>5, <1>6, <1>7, <1>8 DEF Verb

\* The bytes left of a longer file come after the new ones; of an empty one there
\* are none.
LEMMA OverIs ==
  ASSUME NEW new \in File, NEW old \in File
  PROVE  /\ Over(new, old) \in File
         /\ Over(new, old).state = new.state
         /\ old = Empty => Over(new, old) = new
<1> DEFINE s == new.body
           t == old.body
           u == SubSeq(t, Len(s) + 1, Len(t))
<1>1. s \in Seq(Line) /\ t \in Seq(Line) /\ Len(s) \in Nat /\ Len(t) \in Nat
  BY FileTypes, LenProperties
<1>2. Over(new, old) = [new EXCEPT !.body = s \o u]
  BY DEF Over
<1> HIDE DEF s, t
<1>3. u \in Seq(Line)
  <2>1. Len(s) + 1 \in Nat /\ Len(s) + 1 >= 1 /\ Len(t) <= Len(t)
    BY <1>1
  <2> QED BY <1>1, <2>1, PartType
<1>4. t = <<>> => u = <<>>
  <2> SUFFICES ASSUME t = <<>> PROVE u = <<>>
    OBVIOUS
  <2>1. Len(t) = 0 /\ Len(t) < Len(s) + 1 /\ Len(s) + 1 \in Int /\ Len(t) \in Int
    BY <1>1
  <2> QED BY <2>1, SubSeqEmpty
<1> HIDE DEF u
<1>5. s \o u \in Seq(Line)
  BY <1>1, <1>3, ConcatType
<1>6. u = <<>> => s \o u = s
  BY <1>1, ConcatEmptySeq
<1>7. /\ \A x \in Seq(Line) : [new EXCEPT !.body = x] \in File
      /\ \A x : [new EXCEPT !.body = x].state = new.state
      /\ [new EXCEPT !.body = s] = new
  BY DEF File, s
<1>8. old = Empty => t = <<>>
  BY FileTypes DEF t
<1>9. old = Empty => Over(new, old) = new
  BY <1>2, <1>4, <1>6, <1>7, <1>8
<1> QED BY <1>2, <1>5, <1>7, <1>9

-----------------------------------------------------------------------------
(* TypeInv, action by action                                                  *)

LEMMA RunnerOf ==
  ASSUME RunsSound, NEW p \in Process
  PROVE  run[p] \in Runner /\ Sound(run[p])
BY DEF RunsSound

LEMMA FileOfIs ==
  ASSUME TypeInv, NEW i \in Id
  PROVE  files[i] \in File /\ files[i].body \in Seq(Line)
BY FileTypes DEF TypeInv

LEMMA FilesStep ==
  ASSUME TypeInv, NEW i \in Id, NEW f \in File, files' = [files EXCEPT ![i] = f]
  PROVE  files' \in [Id -> File]
BY DEF TypeInv

LEMMA StartTypes ==
  ASSUME TypeInv, NEW p \in Process, NEW c \in Commands, Start(p, c)
  PROVE  TypeInv'
<1> DEFINE r == [Idle EXCEPT !.pc = IF c.verb = "new" THEN "create" ELSE "resolve",
                             !.cmd = c, !.refs = c.refs, !.id = c.id, !.n = begun + 1]
<1>1. begun' \in 1..MaxRuns /\ begun + 1 = begun' /\ begun' \in 0..MaxRuns
  BY BoundAssumption DEF TypeInv, Start
<1>2. c \in Command
  BY SetupAssumption
<1>3. /\ c.refs \in Seq(Ref) /\ c.id \in Id \cup {NoId}
      /\ c.verb = "new" => c.id \in Id
  BY <1>2, CommandIs
<1>4. Sound(r)
  <2>1. /\ r \in Runner /\ r.cmd = c /\ r.n = begun + 1 /\ r.id = c.id
        /\ r.pc = IF c.verb = "new" THEN "create" ELSE "resolve"
    BY <1>1, <1>2, <1>3, IdleIsSound DEF Runner, Step
  <2> HIDE DEF r
  <2> QED BY <1>1, <1>2, <1>3, <2>1 DEF Sound
<1>5. run' = [run EXCEPT ![p] = r]
  BY DEF Start
<1> HIDE DEF r
<1>6. RunsSound'
  BY <1>4, <1>5, SoundStep DEF TypeInv
<1> QED BY <1>1, <1>6 DEF TypeInv, Start

LEMMA CreateTypes ==
  ASSUME TypeInv, NEW p \in Process, Create(p)
  PROVE  TypeInv'
<1>1. RunsSound /\ run[p] \in Runner /\ Sound(run[p]) /\ run[p].pc = "create" /\ run[p].id \in Id
  BY RunnerOf DEF TypeInv, Create, At, Sound
<1>2. CASE Exit(p) /\ UNCHANGED files
  <2>1. RunsSound'
    BY <1>1, <1>2, ExitIsSound
  <2> QED BY <1>2, <2>1 DEF TypeInv, Create
<1>3. CASE files' = [files EXCEPT ![run[p].id] = Empty] /\ Goto(p, "template")
  <2> DEFINE r == [run[p] EXCEPT !.pc = "template"]
  <2>1. run' = [run EXCEPT ![p] = r]
    BY <1>1, <1>3 DEF Goto, RunsSound
  <2>2. Sound(r)
    BY <1>1 DEF Sound, Runner, Step
  <2> HIDE DEF r
  <2>3. RunsSound'
    BY <1>1, <2>1, <2>2, SoundStep
  <2>4. files' \in [Id -> File]
    BY <1>1, <1>3, FileTypes, FilesStep
  <2> QED BY <2>3, <2>4 DEF TypeInv, Create
<1> QED BY <1>2, <1>3 DEF Create

LEMMA WriteTemplateTypes ==
  ASSUME TypeInv, NEW p \in Process, WriteTemplate(p)
  PROVE  TypeInv'
<1> DEFINE r == [run[p] EXCEPT !.pc = "reparse"]
           f == [state |-> "task", status |-> "todo", body |-> Template]
<1>1. /\ RunsSound /\ run[p] \in Runner /\ Sound(run[p]) /\ run[p].pc = "template"
      /\ run[p].id \in Id
  BY RunnerOf DEF TypeInv, WriteTemplate, At, Sound
<1>2. run' = [run EXCEPT ![p] = r]
  BY <1>1 DEF WriteTemplate, Goto, RunsSound
<1>3. Sound(r)
  BY <1>1 DEF Sound, Runner, Step
<1> HIDE DEF r
<1>4. RunsSound'
  BY <1>1, <1>2, <1>3, SoundStep
<1>5. f \in File
  BY TemplateIsShaped DEF File, Shaped
<1>6. files' = [files EXCEPT ![run[p].id] = f]
  BY DEF WriteTemplate
<1> HIDE DEF f
<1>7. files' \in [Id -> File]
  BY <1>1, <1>5, <1>6, FilesStep
<1> QED BY <1>4, <1>7 DEF TypeInv, WriteTemplate

LEMMA ReparseTypes ==
  ASSUME TypeInv, NEW p \in Process, Reparse(p)
  PROVE  TypeInv'
<1>1. /\ RunsSound /\ run[p] \in Runner /\ Sound(run[p]) /\ run[p].pc = "reparse"
      /\ run[p].id \in Id /\ run[p].cmd \in Command /\ run[p].cmd.verb = "new"
  BY RunnerOf DEF TypeInv, Reparse, At, Sound
<1>2. CASE Exit(p)
  BY <1>1, <1>2, ExitIsSound DEF TypeInv, Reparse
<1>3. CASE /\ FileOf(p).state = "task" /\ HasSection(FileOf(p).body, Context)
           /\ run' = [run EXCEPT ![p].pc = "truncate", ![p].base = FileOf(p)]
  <2> DEFINE r == [run[p] EXCEPT !.pc = "truncate", !.base = FileOf(p)]
  <2>1. run' = [run EXCEPT ![p] = r]
    BY <1>1, <1>3 DEF RunsSound
  <2>2. FileOf(p) \in File
    BY <1>1, FileOfIs DEF FileOf
  <2>3. run[p].cmd.section = Context
    BY <1>1, CommandIs
  <2>4. /\ r \in Runner /\ r.pc = "truncate" /\ r.base = FileOf(p) /\ r.cmd = run[p].cmd
        /\ r.id = run[p].id /\ r.n = run[p].n
    BY <1>1, <2>2 DEF Runner, Step
  <2> HIDE DEF r
  <2>5. Sound(r)
    BY <1>1, <1>3, <2>3, <2>4 DEF Sound
  <2>6. RunsSound'
    BY <1>1, <2>1, <2>5, SoundStep
  <2> QED BY <2>6 DEF TypeInv, Reparse
<1> QED BY <1>2, <1>3 DEF Reparse

LEMMA ResolveTypes ==
  ASSUME TypeInv, NEW p \in Process, Resolve(p)
  PROVE  TypeInv'
<1>1. /\ RunsSound /\ run[p] \in Runner /\ Sound(run[p]) /\ run[p].pc = "resolve"
      /\ run[p].cmd \in Command /\ run[p].n \in 1..MaxRuns
  BY RunnerOf DEF TypeInv, Resolve, At, Sound
<1>2. CASE BadRef(p)
  <2>1. RunsSound'
    BY <1>1, <1>2, BadRefIsSound
  <2> QED BY <2>1 DEF TypeInv, Resolve
<1>3. CASE \E i \in Matches(Head(run[p].refs)) :
             run' = [run EXCEPT ![p].pc = "read", ![p].id = i]
  <2>1. PICK i \in Matches(Head(run[p].refs)) :
               run' = [run EXCEPT ![p].pc = "read", ![p].id = i]
    BY <1>3
  <2> DEFINE r == [run[p] EXCEPT !.pc = "read", !.id = i]
  <2>2. run' = [run EXCEPT ![p] = r]
    BY <1>1, <2>1 DEF RunsSound
  <2>3. i \in Id
    BY DEF Matches
  <2>4. /\ r \in Runner /\ r.pc = "read" /\ r.id = i /\ r.cmd = run[p].cmd /\ r.n = run[p].n
    BY <1>1, <2>3 DEF Runner, Step
  <2> HIDE DEF r
  <2>5. Sound(r)
    BY <1>1, <2>3, <2>4 DEF Sound
  <2>6. RunsSound'
    BY <1>1, <2>2, <2>5, SoundStep
  <2> QED BY <2>6 DEF TypeInv, Resolve
<1> QED BY <1>2, <1>3 DEF Resolve

\* Reading a file ends in one of these.
LEMMA ReadFileEnds ==
  ASSUME NEW p, ReadFile(p)
  PROVE  \/ BadRef(p)
         \/ NextRef(p)
         \/ Exit(p)
         \/ /\ FileOf(p).state = "task"
            /\ HasSection(FileOf(p).body, run[p].cmd.section)
            /\ run' = [run EXCEPT ![p].pc = "truncate", ![p].base = FileOf(p)]
<1> DEFINE f == FileOf(p)
           c == run[p].cmd
           done == c.verb = "close" /\ f.status = "done"
           save == IF c.verb = "compact" /\ Dropped(f.body, Log, Keep) = {}
                   THEN Exit(p)
                   ELSE run' = [run EXCEPT ![p].pc = "truncate", ![p].base = f]
           has == HasSection(f.body, c.section)
<1>1. (CASE f.state # "task" -> BadRef(p)
         [] f.state = "task" /\ c.verb = "close" /\ f.status = "done" -> NextRef(p)
         [] f.state = "task" /\ ~ done /\ ~ has -> Exit(p)
         [] OTHER -> save)
  BY DEF ReadFile
<1>2. CASE f.state # "task"
  BY <1>1, <1>2
<1>3. CASE f.state = "task" /\ done
  BY <1>1, <1>3
<1>4. CASE f.state = "task" /\ ~ done /\ ~ has
  BY <1>1, <1>4
<1>5. CASE f.state = "task" /\ ~ done /\ has
  <2>1. save
    BY <1>1, <1>5
  <2> QED BY <1>5, <2>1
<1> QED BY <1>2, <1>3, <1>4, <1>5

LEMMA ReadFileTypes ==
  ASSUME TypeInv, NEW p \in Process, ReadFile(p)
  PROVE  TypeInv'
<1>1. /\ RunsSound /\ run[p] \in Runner /\ Sound(run[p]) /\ run[p].pc = "read"
      /\ run[p].id \in Id /\ run[p].cmd \in Command /\ run[p].n \in 1..MaxRuns
  BY RunnerOf DEF TypeInv, ReadFile, At, Sound
<1>2. CASE BadRef(p) \/ NextRef(p) \/ Exit(p)
  <2>1. RunsSound'
    BY <1>1, <1>2, BadRefIsSound, NextRefIsSound, ExitIsSound
  <2> QED BY <2>1 DEF TypeInv, ReadFile
<1>3. CASE /\ FileOf(p).state = "task"
           /\ HasSection(FileOf(p).body, run[p].cmd.section)
           /\ run' = [run EXCEPT ![p].pc = "truncate", ![p].base = FileOf(p)]
  <2> DEFINE r == [run[p] EXCEPT !.pc = "truncate", !.base = FileOf(p)]
  <2>1. run' = [run EXCEPT ![p] = r]
    BY <1>1, <1>3 DEF RunsSound
  <2>2. FileOf(p) \in File
    BY <1>1, FileOfIs DEF FileOf
  <2>3. /\ r \in Runner /\ r.pc = "truncate" /\ r.base = FileOf(p) /\ r.cmd = run[p].cmd
        /\ r.id = run[p].id /\ r.n = run[p].n
    BY <1>1, <2>2 DEF Runner, Step
  <2> HIDE DEF r
  <2>4. Sound(r)
    BY <1>1, <1>3, <2>3 DEF Sound
  <2>5. RunsSound'
    BY <1>1, <2>1, <2>4, SoundStep
  <2> QED BY <2>5 DEF TypeInv, ReadFile
<1> QED BY <1>2, <1>3, ReadFileEnds

LEMMA TruncateTypes ==
  ASSUME TypeInv, NEW p \in Process, Truncate(p)
  PROVE  TypeInv'
<1> DEFINE r == [run[p] EXCEPT !.pc = "write"]
<1>1. /\ RunsSound /\ run[p] \in Runner /\ Sound(run[p]) /\ run[p].pc = "truncate"
      /\ run[p].id \in Id
  BY RunnerOf DEF TypeInv, Truncate, At, Sound
<1>2. run' = [run EXCEPT ![p] = r]
  BY <1>1 DEF Truncate, Goto, RunsSound
<1>3. Sound(r)
  BY <1>1 DEF Sound, Runner, Step
<1> HIDE DEF r
<1>4. RunsSound'
  BY <1>1, <1>2, <1>3, SoundStep
<1>5. files' \in [Id -> File]
  BY <1>1, FileTypes, FilesStep DEF Truncate
<1>6. spoiled' \subseteq Id
  BY <1>1 DEF Truncate, TypeInv
<1> QED BY <1>4, <1>5, <1>6 DEF TypeInv, Truncate

LEMMA WriteTypes ==
  ASSUME TypeInv, NEW p \in Process, Write(p)
  PROVE  TypeInv'
<1>1. /\ RunsSound /\ run[p] \in Runner /\ Sound(run[p]) /\ run[p].pc = "write"
      /\ run[p].id \in Id /\ run[p].n \in 1..MaxRuns /\ At(p, "write")
  BY RunnerOf DEF TypeInv, Write, At, Sound
<1>2. RunsSound'
  BY <1>1, NextRefIsSound DEF Write
<1>3. files' \in [Id -> File]
  <2> DEFINE f == Over(Edited(p), files[run[p].id])
  <2>1. f \in File
    BY <1>1, EditedIs, OverIs, FileOfIs
  <2>2. files' = [files EXCEPT ![run[p].id] = f]
    BY DEF Write
  <2> HIDE DEF f
  <2> QED BY <1>1, <2>1, <2>2, FilesStep
<1>4. spoiled' \subseteq Id
  BY <1>1 DEF Write, TypeInv
<1>5. acked' \subseteq [id : Id, n : 1..MaxRuns]
  BY <1>1 DEF Write, TypeInv
<1> QED BY <1>2, <1>3, <1>4, <1>5 DEF TypeInv, Write

LEMMA StopTypes ==
  ASSUME TypeInv, NEW p \in Process, Stop(p)
  PROVE  TypeInv'
<1>1. RunsSound /\ Sound(run[p])
  BY RunnerOf DEF TypeInv
<1>2. RunsSound'
  BY <1>1, ExitIsSound DEF Stop
<1>3. spoiled' \subseteq Id
  BY <1>1 DEF Stop, TypeInv, At, Sound
<1> QED BY <1>2, <1>3 DEF TypeInv, Stop

\* What a person's edit makes of a body.
Inserted(b, k, block) == SubSeq(b, 1, k) \o block \o SubSeq(b, k + 1, Len(b))

LEMMA HandEditIs ==
  ASSUME TypeInv, NEW i \in Id, HandEdit(i)
  PROVE  /\ files[i].state = "task"
         /\ \E block \in Blocks, k \in 1..Len(files[i].body) :
              /\ ~ InCode(files[i].body, k)
              /\ Inserted(files[i].body, k, block) \in Seq(Line)
              /\ files' = [files EXCEPT ![i] =
                             [files[i] EXCEPT !.body = Inserted(files[i].body, k, block)]]
<1> DEFINE b == files[i].body
<1>1. b \in Seq(Line) /\ Len(b) \in Nat
  BY FileOfIs, LenProperties
<1>2. PICK block \in Blocks, k \in 3..Len(b) :
        /\ ~ InCode(b, k)
        /\ files' = [files EXCEPT ![i].body =
                       SubSeq(@, 1, k) \o block \o SubSeq(@, k + 1, Len(@))]
  BY DEF HandEdit
<1>3. files' = [files EXCEPT ![i] = [files[i] EXCEPT !.body = Inserted(b, k, block)]]
  BY <1>2 DEF Inserted, TypeInv
<1> HIDE DEF b
<1>4. k \in 1..Len(b) /\ k \in Nat /\ k <= Len(b) /\ k <= k
  BY <1>1
<1>5. block \in Seq(Line)
  BY TextAssumption
<1>6. Inserted(b, k, block) \in Seq(Line)
  BY <1>1, <1>4, <1>5, SpliceIs DEF Spliced, Inserted
<1> QED BY <1>2, <1>3, <1>4, <1>6 DEF HandEdit, b

LEMMA HandEditTypes ==
  ASSUME TypeInv, NEW i \in Id, HandEdit(i)
  PROVE  TypeInv'
<1>1. PICK block \in Blocks, k \in 1..Len(files[i].body) :
        /\ Inserted(files[i].body, k, block) \in Seq(Line)
        /\ files' = [files EXCEPT ![i] =
                       [files[i] EXCEPT !.body = Inserted(files[i].body, k, block)]]
  BY HandEditIs
<1> DEFINE f == [files[i] EXCEPT !.body = Inserted(files[i].body, k, block)]
<1>2. files[i] \in File
  BY FileOfIs
<1>3. f \in File
  BY <1>1, <1>2 DEF File
<1>4. files' \in [Id -> File]
  <2> HIDE DEF f
  <2>1. files' = [files EXCEPT ![i] = f]
    BY <1>1 DEF f
  <2> QED BY <1>3, <2>1, FilesStep
<1>5. edits' \in 0..MaxEdits
  <2>1. edits < MaxEdits /\ edits' = edits + 1
    BY DEF HandEdit
  <2>2. edits \in 0..MaxEdits
    BY DEF TypeInv
  <2> QED BY <2>1, <2>2, BoundAssumption
<1>6. RunsSound'
  BY DEF HandEdit, TypeInv, RunsSound
<1> QED BY <1>4, <1>5, <1>6 DEF HandEdit, TypeInv

LEMMA InitTypes ==
  Init => TypeInv
<1> SUFFICES ASSUME Init PROVE TypeInv
  OBVIOUS
<1>1. files \in [Id -> File]
  BY SetupAssumption DEF Init
<1>2. RunsSound
  BY IdleIsSound DEF Init, RunsSound
<1>3. 0 \in 0..MaxRuns /\ 0 \in 0..MaxEdits
  BY BoundAssumption
<1> QED BY <1>1, <1>2, <1>3 DEF Init, TypeInv

LEMMA TypeInductive ==
  TypeInv /\ [Next]_vars => TypeInv'
<1> SUFFICES ASSUME TypeInv, [Next]_vars PROVE TypeInv'
  OBVIOUS
<1>1. CASE UNCHANGED vars
  BY <1>1 DEF vars, TypeInv, RunsSound
<1>2. CASE Next
  <2>1. ASSUME NEW p \in Process, NEW c \in Commands, Start(p, c)
        PROVE  TypeInv'
    BY <2>1, StartTypes
  <2>2. ASSUME NEW p \in Process, Create(p)
        PROVE  TypeInv'
    BY <2>2, CreateTypes
  <2>3. ASSUME NEW p \in Process, WriteTemplate(p)
        PROVE  TypeInv'
    BY <2>3, WriteTemplateTypes
  <2>4. ASSUME NEW p \in Process, Reparse(p)
        PROVE  TypeInv'
    BY <2>4, ReparseTypes
  <2>5. ASSUME NEW p \in Process, Resolve(p)
        PROVE  TypeInv'
    BY <2>5, ResolveTypes
  <2>6. ASSUME NEW p \in Process, ReadFile(p)
        PROVE  TypeInv'
    BY <2>6, ReadFileTypes
  <2>7. ASSUME NEW p \in Process, Truncate(p)
        PROVE  TypeInv'
    BY <2>7, TruncateTypes
  <2>8. ASSUME NEW p \in Process, Write(p)
        PROVE  TypeInv'
    BY <2>8, WriteTypes
  <2>9. ASSUME NEW p \in Process, Stop(p)
        PROVE  TypeInv'
    BY <2>9, StopTypes
  <2>10. ASSUME NEW i \in Id, HandEdit(i)
         PROVE  TypeInv'
    BY <2>10, HandEditTypes
  <2> QED BY <1>2, <2>1, <2>2, <2>3, <2>4, <2>5, <2>6, <2>7, <2>8, <2>9, <2>10 DEF Next
<1> QED BY <1>1, <1>2

\* Every variable keeps to its type: the rewrites return bodies whatever lines they
\* are given, and no process comes to the save without a file it read.
THEOREM TypeCorrect == Spec => []TypeOK
<1>1. TypeInv => TypeOK
  BY DEF TypeInv, RunsSound, Sound, Runner, TypeOK
<1> QED BY <1>1, InitTypes, TypeInductive, PTL DEF Spec

-----------------------------------------------------------------------------
(* What a task holds                                                          *)

\* What is put into a task by hand, or from an issue, starts no section: the code
\* does not see to it (an issue's own "## " headings become sections of its task).
ContainedText == \A s \in Issues \cup Blocks : Contained(s)

\* The tasks there at first came from the template.
ShapedSeeds == \A i \in Id : Seeds[i].state = "task" => Shaped(Seeds[i].body)

\* A task that no save was cut short on has its three sections, Log last.
FilesShaped == \A i \in Id \ spoiled : files[i].state = "task" => Shaped(files[i].body)

BaseShaped(p) ==
  run[p].pc \in {"truncate", "write"} /\ run[p].id \notin spoiled => Shaped(run[p].base.body)

\* Between the truncation and the write the file is empty, no other process is there,
\* and what was read holds all that was acknowledged.
AloneAtWrite(p) ==
  At(p, "write") /\ run[p].id \notin spoiled =>
    /\ files[run[p].id] = Empty
    /\ \A q \in Process \ {p} : ~ (At(q, "write") /\ run[q].id = run[p].id)
    /\ \A a \in acked : a.id = run[p].id => Holds(run[p].base.body, Decisions, Entry(a.n))

On(q, i) == run[q].pc \in {"template", "reparse", "truncate", "write"} /\ run[q].id = i

\* O_EXCL: whoever creates a file has it to himself until the template is in it.
AloneAtCreation(p) ==
  At(p, "template") =>
    /\ files[run[p].id] = Empty
    /\ \A q \in Process \ {p} : ~ On(q, run[p].id)
    /\ \A a \in acked : a.id # run[p].id

\* Nothing removes a file.
StillThere ==
  /\ \A p \in Process, i \in Id : On(p, i) => files[i] # Absent
  /\ \A a \in acked : files[a.id] # Absent

AckedIsHeld(a) ==
  \/ a.id \in spoiled
  \/ Saving(a.id)
  \/ files[a.id].state = "task" /\ Holds(files[a.id].body, Decisions, Entry(a.n))

KeptInv ==
  /\ TypeInv
  /\ FilesShaped
  /\ \A p \in Process : BaseShaped(p) /\ AloneAtWrite(p) /\ AloneAtCreation(p)
  /\ StillThere
  /\ \A a \in acked : AckedIsHeld(a)

\* A step of p that writes nothing and leaves p with no file in hand.
LEMMA QuietStep ==
  ASSUME KeptInv, TypeInv', NEW p \in Process,
         \A q \in Process \ {p} : run'[q] = run[q],
         run'[p].pc \notin {"template", "reparse", "truncate", "write"},
         files' = files, acked' = acked, spoiled \subseteq spoiled',
         At(p, "write") => run[p].id \in spoiled'
  PROVE  KeptInv'
<1>1. FilesShaped'
  BY DEF KeptInv, FilesShaped
<1>2. ASSUME NEW q \in Process
      PROVE  BaseShaped(q)' /\ AloneAtWrite(q)' /\ AloneAtCreation(q)'
  <2>1. CASE q = p
    BY <2>1 DEF BaseShaped, AloneAtWrite, AloneAtCreation, At
  <2>2. CASE q # p
    <3>1. run'[q] = run[q] /\ BaseShaped(q) /\ AloneAtWrite(q) /\ AloneAtCreation(q)
      BY <2>2 DEF KeptInv
    <3>2. BaseShaped(q)'
      BY <3>1 DEF BaseShaped
    <3>3. AloneAtWrite(q)'
      <4> SUFFICES ASSUME run'[q].pc = "write", run'[q].id \notin spoiled'
                   PROVE  /\ files'[run'[q].id] = Empty
                          /\ \A o \in Process \ {q} :
                               ~ (run'[o].pc = "write" /\ run'[o].id = run'[q].id)
                          /\ \A a \in acked' : a.id = run'[q].id =>
                               Holds(run'[q].base.body, Decisions, Entry(a.n))
        BY DEF AloneAtWrite, At
      <4>1. /\ files[run[q].id] = Empty
            /\ \A o \in Process \ {q} : ~ (run[o].pc = "write" /\ run[o].id = run[q].id)
            /\ \A a \in acked : a.id = run[q].id =>
                 Holds(run[q].base.body, Decisions, Entry(a.n))
        BY <3>1 DEF AloneAtWrite, At
      <4> QED BY <3>1, <4>1
    <3>4. AloneAtCreation(q)'
      <4> SUFFICES ASSUME run'[q].pc = "template"
                   PROVE  /\ files'[run'[q].id] = Empty
                          /\ \A o \in Process \ {q} : ~ On(o, run[q].id)'
                          /\ \A a \in acked' : a.id # run'[q].id
        BY <3>1 DEF AloneAtCreation, At, On
      <4>1. /\ files[run[q].id] = Empty
            /\ \A o \in Process \ {q} : ~ On(o, run[q].id)
            /\ \A a \in acked : a.id # run[q].id
        BY <3>1 DEF AloneAtCreation, At
      <4> QED BY <3>1, <4>1 DEF On
    <3> QED BY <3>2, <3>3, <3>4
  <2> QED BY <2>1, <2>2
<1>3. StillThere'
  <2>1. ASSUME NEW q \in Process, NEW i \in Id, On(q, i)'
        PROVE  files'[i] # Absent
    <3>1. q # p
      BY <2>1 DEF On
    <3>2. On(q, i)
      BY <2>1, <3>1 DEF On
    <3> QED BY <3>2 DEF KeptInv, StillThere
  <2>2. \A a \in acked' : files'[a.id] # Absent
    BY DEF KeptInv, StillThere
  <2> QED BY <2>1, <2>2 DEF StillThere
<1>4. ASSUME NEW a \in acked'
      PROVE  AckedIsHeld(a)'
  <2>1. AckedIsHeld(a)
    BY DEF KeptInv
  <2>2. CASE Saving(a.id)
    <3>1. PICK q \in Process : At(q, "write") /\ run[q].id = a.id
      BY <2>2 DEF Saving
    <3>2. CASE q = p
      BY <3>1, <3>2 DEF AckedIsHeld
    <3>3. CASE q # p
      BY <3>1, <3>3 DEF AckedIsHeld, Saving, At
    <3> QED BY <3>2, <3>3
  <2>3. CASE ~ Saving(a.id)
    BY <2>1, <2>3 DEF AckedIsHeld
  <2> QED BY <2>2, <2>3
<1> QED BY <1>1, <1>2, <1>3, <1>4 DEF KeptInv

\* A step of p that reads the task it is about to save.
LEMMA LoadStep ==
  ASSUME KeptInv, TypeInv', NEW p \in Process, run[p].id \in Id,
         \A q \in Process \ {p} : run'[q] = run[q],
         run[p].pc \in {"reparse", "read"},
         run'[p].pc = "truncate", run'[p].id = run[p].id, run'[p].base = files[run[p].id],
         files[run[p].id].state = "task",
         files' = files, acked' = acked, spoiled' = spoiled
  PROVE  KeptInv'
<1>1. FilesShaped'
  BY DEF KeptInv, FilesShaped
<1>2. ASSUME NEW q \in Process
      PROVE  BaseShaped(q)' /\ AloneAtWrite(q)' /\ AloneAtCreation(q)'
  <2>1. CASE q = p
    <3>1. BaseShaped(q)'
      BY <2>1 DEF BaseShaped, KeptInv, FilesShaped
    <3> QED BY <2>1, <3>1 DEF AloneAtWrite, AloneAtCreation, At
  <2>2. CASE q # p
    <3>1. run'[q] = run[q] /\ BaseShaped(q) /\ AloneAtWrite(q) /\ AloneAtCreation(q)
      BY <2>2 DEF KeptInv
    <3>2. BaseShaped(q)'
      BY <3>1 DEF BaseShaped
    <3>3. AloneAtWrite(q)'
      <4> SUFFICES ASSUME run'[q].pc = "write", run'[q].id \notin spoiled'
                   PROVE  /\ files'[run'[q].id] = Empty
                          /\ \A o \in Process \ {q} :
                               ~ (run'[o].pc = "write" /\ run'[o].id = run'[q].id)
                          /\ \A a \in acked' : a.id = run'[q].id =>
                               Holds(run'[q].base.body, Decisions, Entry(a.n))
        BY DEF AloneAtWrite, At
      <4>1. /\ files[run[q].id] = Empty
            /\ \A o \in Process \ {q} : ~ (run[o].pc = "write" /\ run[o].id = run[q].id)
            /\ \A a \in acked : a.id = run[q].id =>
                 Holds(run[q].base.body, Decisions, Entry(a.n))
        BY <3>1 DEF AloneAtWrite, At
      <4> QED BY <3>1, <4>1
    <3>4. AloneAtCreation(q)'
      <4> SUFFICES ASSUME run'[q].pc = "template"
                   PROVE  /\ files'[run'[q].id] = Empty
                          /\ \A o \in Process \ {q} : ~ On(o, run[q].id)'
                          /\ \A a \in acked' : a.id # run'[q].id
        BY <3>1 DEF AloneAtCreation, At, On
      <4>1. /\ files[run[q].id] = Empty
            /\ \A o \in Process \ {q} : ~ On(o, run[q].id)
            /\ \A a \in acked : a.id # run[q].id
        BY <3>1 DEF AloneAtCreation, At
      <4>2. run[p].id # run[q].id
        BY <4>1, FileTypes
      <4> QED BY <3>1, <4>1, <4>2 DEF On
    <3> QED BY <3>2, <3>3, <3>4
  <2> QED BY <2>1, <2>2
<1>3. StillThere'
  <2>1. ASSUME NEW q \in Process, NEW i \in Id, On(q, i)'
        PROVE  files'[i] # Absent
    <3>1. CASE q = p
      BY <2>1, <3>1, FileTypes DEF On
    <3>2. CASE q # p
      BY <2>1, <3>2 DEF On, KeptInv, StillThere
    <3> QED BY <3>1, <3>2
  <2>2. \A a \in acked' : files'[a.id] # Absent
    BY DEF KeptInv, StillThere
  <2> QED BY <2>1, <2>2 DEF StillThere
<1>4. ASSUME NEW a \in acked'
      PROVE  AckedIsHeld(a)'
  <2>1. AckedIsHeld(a)
    BY DEF KeptInv
  <2>2. CASE Saving(a.id)
    <3>1. PICK q \in Process : At(q, "write") /\ run[q].id = a.id
      BY <2>2 DEF Saving
    <3>2. q # p
      BY <3>1 DEF At
    <3> QED BY <3>1, <3>2 DEF AckedIsHeld, Saving, At
  <2>3. CASE ~ Saving(a.id)
    BY <2>1, <2>3 DEF AckedIsHeld
  <2> QED BY <2>2, <2>3
<1> QED BY <1>1, <1>2, <1>3, <1>4 DEF KeptInv

LEMMA ExitEnds ==
  ASSUME RunsSound, NEW p \in Process, Exit(p)
  PROVE  run'[p].pc = "idle" /\ \A q \in Process \ {p} : run'[q] = run[q]
BY IdleIsSound DEF Exit, RunsSound

LEMMA NextRefEnds ==
  ASSUME RunsSound, NEW p \in Process, NextRef(p)
  PROVE  run'[p].pc \in {"idle", "resolve"} /\ \A q \in Process \ {p} : run'[q] = run[q]
<1>1. CASE Exit(p)
  BY <1>1, ExitEnds
<1>2. CASE run' = [run EXCEPT ![p].pc = "resolve", ![p].refs = Tail(@), ![p].id = NoId,
                              ![p].base = Absent]
  BY <1>2 DEF RunsSound, Runner
<1> QED BY <1>1, <1>2 DEF NextRef

LEMMA BadRefEnds ==
  ASSUME RunsSound, NEW p \in Process, BadRef(p)
  PROVE  run'[p].pc \in {"idle", "resolve"} /\ \A q \in Process \ {p} : run'[q] = run[q]
BY ExitEnds, NextRefEnds DEF BadRef

LEMMA StartKeeps ==
  ASSUME KeptInv, TypeInv', NEW p \in Process, NEW c \in Commands, Start(p, c)
  PROVE  KeptInv'
<1>1. /\ run'[p].pc \notin {"template", "reparse", "truncate", "write"}
      /\ \A q \in Process \ {p} : run'[q] = run[q]
  BY DEF Start, KeptInv, TypeInv, RunsSound, Idle
<1> QED BY <1>1, QuietStep DEF Start, At

LEMMA ReparseKeeps ==
  ASSUME KeptInv, TypeInv', NEW p \in Process, Reparse(p)
  PROVE  KeptInv'
<1>1. RunsSound /\ run[p].pc = "reparse" /\ run[p].id \in Id
  BY RunnerOf DEF KeptInv, TypeInv, Reparse, At, Sound
<1>2. files' = files /\ acked' = acked /\ spoiled' = spoiled
  BY DEF Reparse
<1>3. CASE Exit(p)
  BY <1>1, <1>2, <1>3, ExitEnds, QuietStep DEF At
<1>4. CASE /\ FileOf(p).state = "task"
           /\ run' = [run EXCEPT ![p].pc = "truncate", ![p].base = FileOf(p)]
  <2>1. /\ run'[p].pc = "truncate" /\ run'[p].id = run[p].id
        /\ run'[p].base = files[run[p].id]
        /\ \A q \in Process \ {p} : run'[q] = run[q]
    BY <1>1, <1>4 DEF RunsSound, Runner, FileOf
  <2> QED BY <1>1, <1>2, <1>4, <2>1, LoadStep DEF FileOf
<1> QED BY <1>3, <1>4 DEF Reparse

LEMMA ResolveKeeps ==
  ASSUME KeptInv, TypeInv', NEW p \in Process, Resolve(p)
  PROVE  KeptInv'
<1>1. RunsSound /\ run[p].pc = "resolve"
  BY DEF KeptInv, TypeInv, Resolve, At
<1>2. files' = files /\ acked' = acked /\ spoiled' = spoiled
  BY DEF Resolve
<1>3. /\ run'[p].pc \in {"idle", "resolve", "read"}
      /\ \A q \in Process \ {p} : run'[q] = run[q]
  <2>1. CASE BadRef(p)
    BY <1>1, <2>1, BadRefEnds
  <2>2. CASE \E i \in Matches(Head(run[p].refs)) :
               run' = [run EXCEPT ![p].pc = "read", ![p].id = i]
    BY <1>1, <2>2 DEF RunsSound, Runner
  <2> QED BY <2>1, <2>2 DEF Resolve
<1> QED BY <1>1, <1>2, <1>3, QuietStep DEF At

LEMMA ReadFileKeeps ==
  ASSUME KeptInv, TypeInv', NEW p \in Process, ReadFile(p)
  PROVE  KeptInv'
<1>1. RunsSound /\ run[p].pc = "read" /\ run[p].id \in Id
  BY RunnerOf DEF KeptInv, TypeInv, ReadFile, At, Sound
<1>2. files' = files /\ acked' = acked /\ spoiled' = spoiled
  BY DEF ReadFile
<1>3. CASE BadRef(p) \/ NextRef(p) \/ Exit(p)
  <2>1. run'[p].pc \in {"idle", "resolve"} /\ \A q \in Process \ {p} : run'[q] = run[q]
    BY <1>1, <1>3, BadRefEnds, NextRefEnds, ExitEnds
  <2> QED BY <1>1, <1>2, <2>1, QuietStep DEF At
<1>4. CASE /\ FileOf(p).state = "task"
           /\ run' = [run EXCEPT ![p].pc = "truncate", ![p].base = FileOf(p)]
  <2>1. /\ run'[p].pc = "truncate" /\ run'[p].id = run[p].id
        /\ run'[p].base = files[run[p].id]
        /\ \A q \in Process \ {p} : run'[q] = run[q]
    BY <1>1, <1>4 DEF RunsSound, Runner, FileOf
  <2> QED BY <1>1, <1>2, <1>4, <2>1, LoadStep DEF FileOf
<1> QED BY <1>3, <1>4, ReadFileEnds

LEMMA StopKeeps ==
  ASSUME KeptInv, TypeInv', NEW p \in Process, Stop(p)
  PROVE  KeptInv'
<1>1. run'[p].pc = "idle" /\ \A q \in Process \ {p} : run'[q] = run[q]
  BY ExitEnds DEF Stop, KeptInv, TypeInv
<1>2. files' = files /\ acked' = acked /\ spoiled \subseteq spoiled'
  BY DEF Stop
<1>3. At(p, "write") => run[p].id \in spoiled'
  BY DEF Stop
<1> QED BY <1>1, <1>2, <1>3, QuietStep

\* A step that writes into file i only, of process p.
OnlyWrites(p, i) ==
  /\ \A q \in Process \ {p} : run'[q] = run[q]
  /\ \A j \in Id \ {i} : files'[j] = files[j]

LEMMA CreateKeeps ==
  ASSUME KeptInv, TypeInv', NEW p \in Process, Create(p)
  PROVE  KeptInv'
<1>0. PICK i \in Id : i = run[p].id
  BY RunnerOf DEF KeptInv, TypeInv, Create, At, Sound
<1>1. RunsSound /\ run[p].pc = "create" /\ files \in [Id -> File]
  BY DEF KeptInv, TypeInv, Create, At
<1>2. acked' = acked /\ spoiled' = spoiled
  BY DEF Create
<1>3. CASE Exit(p) /\ UNCHANGED files
  BY <1>1, <1>2, <1>3, ExitEnds, QuietStep DEF At
<1>4. CASE /\ files[i] = Absent /\ files' = [files EXCEPT ![i] = Empty]
           /\ Goto(p, "template")
  <2>1. /\ run'[p].pc = "template" /\ run'[p].id = i
        /\ files'[i] = Empty /\ OnlyWrites(p, i)
    BY <1>0, <1>1, <1>4 DEF Goto, RunsSound, Runner, OnlyWrites
  <2>2. /\ \A q \in Process : ~ On(q, i)
        /\ \A a \in acked : a.id # i
    BY <1>1, <1>4 DEF KeptInv, StillThere
  <2>3. FilesShaped'
    BY <1>1, <1>2, <2>1, FileTypes DEF KeptInv, FilesShaped, OnlyWrites
  <2>4. ASSUME NEW q \in Process
        PROVE  BaseShaped(q)' /\ AloneAtWrite(q)' /\ AloneAtCreation(q)'
    <3>1. CASE q = p
      <4>1. AloneAtCreation(q)'
        <5>1. \A o \in Process \ {p} : ~ On(o, i)'
          BY <2>1, <2>2 DEF On, OnlyWrites
        <5> QED BY <1>2, <2>1, <2>2, <3>1, <5>1 DEF AloneAtCreation, At, On
      <4> QED BY <2>1, <3>1, <4>1 DEF BaseShaped, AloneAtWrite, At
    <3>2. CASE q # p
      <4>1. /\ run'[q] = run[q] /\ BaseShaped(q) /\ AloneAtWrite(q) /\ AloneAtCreation(q)
            /\ ~ On(q, i) /\ Sound(run[q])
        BY <1>1, <2>1, <2>2, <3>2, RunnerOf DEF KeptInv, OnlyWrites
      <4>2. BaseShaped(q)'
        BY <1>2, <4>1 DEF BaseShaped
      <4>3. AloneAtWrite(q)'
        <5> SUFFICES ASSUME run'[q].pc = "write", run'[q].id \notin spoiled'
                     PROVE  /\ files'[run'[q].id] = Empty
                            /\ \A o \in Process \ {q} :
                                 ~ (run'[o].pc = "write" /\ run'[o].id = run'[q].id)
                            /\ \A a \in acked' : a.id = run'[q].id =>
                                 Holds(run'[q].base.body, Decisions, Entry(a.n))
          BY DEF AloneAtWrite, At
        <5>1. /\ files[run[q].id] = Empty
              /\ \A o \in Process \ {q} : ~ (run[o].pc = "write" /\ run[o].id = run[q].id)
              /\ \A a \in acked : a.id = run[q].id =>
                   Holds(run[q].base.body, Decisions, Entry(a.n))
          BY <1>2, <4>1 DEF AloneAtWrite, At
        <5>2. run[q].id # i /\ run[q].id \in Id
          BY <4>1 DEF On, Sound
        <5> QED BY <1>2, <2>1, <4>1, <5>1, <5>2 DEF OnlyWrites
      <4>4. AloneAtCreation(q)'
        <5> SUFFICES ASSUME run'[q].pc = "template"
                     PROVE  /\ files'[run'[q].id] = Empty
                            /\ \A o \in Process \ {q} : ~ On(o, run[q].id)'
                            /\ \A a \in acked' : a.id # run'[q].id
          BY <4>1 DEF AloneAtCreation, At, On
        <5>1. /\ files[run[q].id] = Empty
              /\ \A o \in Process \ {q} : ~ On(o, run[q].id)
              /\ \A a \in acked : a.id # run[q].id
          BY <4>1 DEF AloneAtCreation, At
        <5>2. run[q].id # i /\ run[q].id \in Id
          BY <4>1 DEF On, Sound
        <5> QED BY <1>2, <2>1, <4>1, <5>1, <5>2 DEF On, OnlyWrites
      <4> QED BY <4>2, <4>3, <4>4
    <3> QED BY <3>1, <3>2
  <2>5. StillThere'
    <3>1. ASSUME NEW q \in Process, NEW j \in Id, On(q, j)'
          PROVE  files'[j] # Absent
      <4>1. CASE j = i
        BY <2>1, <4>1, FileTypes
      <4>2. CASE j # i
        <5>1. q # p /\ On(q, j)
          BY <2>1, <3>1, <4>2 DEF On, OnlyWrites
        <5> QED BY <2>1, <4>2, <5>1 DEF KeptInv, StillThere, OnlyWrites
      <4> QED BY <4>1, <4>2
    <3>2. ASSUME NEW a \in acked'
          PROVE  files'[a.id] # Absent
      <4>1. a.id # i /\ a.id \in Id /\ files[a.id] # Absent
        BY <1>2, <2>2 DEF KeptInv, StillThere, TypeInv
      <4> QED BY <2>1, <4>1 DEF OnlyWrites
    <3> QED BY <3>1, <3>2 DEF StillThere
  <2>6. ASSUME NEW a \in acked'
        PROVE  AckedIsHeld(a)'
    <3>1. AckedIsHeld(a) /\ a.id # i /\ a.id \in Id
      BY <1>2, <2>2 DEF KeptInv, TypeInv
    <3>2. Saving(a.id) => Saving(a.id)'
      BY <1>1, <2>1 DEF Saving, At, OnlyWrites
    <3>3. files'[a.id] = files[a.id]
      BY <2>1, <3>1 DEF OnlyWrites
    <3> QED BY <1>2, <3>1, <3>2, <3>3 DEF AckedIsHeld
  <2> QED BY <2>3, <2>4, <2>5, <2>6 DEF KeptInv
<1> QED BY <1>0, <1>3, <1>4 DEF Create, FileOf

-----------------------------------------------------------------------------
(* What a save writes                                                         *)

\* The text an issue gives is contained, and so is none at all.
LEMMA IssueIsContained ==
  ASSUME ContainedText, NEW s \in Issues \cup {<<>>}
  PROVE  s \in Seq(Line) /\ Contained(s)
<1>1. CASE s = <<>>
  <2>1. s \in Seq(Line) /\ Len(s) = 0
    BY <1>1, EmptySeq
  <2>2. Count(s, 1, 0) = 0
    <3>1. 0 \in Nat /\ 1 \in Nat /\ \A j \in 1..0 : s[j].is # "fence"
      OBVIOUS
    <3> QED BY <3>1, CountNone
  <2> QED BY <2>1, <2>2 DEF Contained
<1>2. CASE s \in Issues
  BY <1>2, TextAssumption DEF ContainedText
<1> QED BY <1>1, <1>2

LEMMA EditedKeeps ==
  ASSUME ContainedText, TypeInv, NEW p \in Process, At(p, "write"), Shaped(run[p].base.body)
  PROVE  /\ Shaped(Edited(p).body)
         /\ \A line : Holds(run[p].base.body, Decisions, line) =>
                        Holds(Edited(p).body, Decisions, line)
         /\ run[p].cmd.verb = "append" /\ run[p].cmd.section = Decisions =>
              Holds(Edited(p).body, Decisions, Entry(run[p].n))
         /\ \A name \in Name \ {run[p].cmd.section} :
              Keeps(run[p].base.body, Edited(p).body, name)
<1> DEFINE c == run[p].cmd
           f == run[p].base
           b == f.body
           n == run[p].n
           e == Edited(p).body
<1>1. /\ c \in Command /\ f \in File /\ n \in Nat
  <2>1. c \in Command /\ f \in File /\ n \in 1..MaxRuns
    BY RunnerOf DEF TypeInv, Sound, Runner, At
  <2> HIDE DEF c, f, n
  <2> QED BY <2>1, BoundAssumption
<1>2. /\ b \in Seq(Line) /\ \A name \in Name : HasSection(b, name)
      /\ HeadOf(b, Context) < HeadOf(b, Log) /\ HeadOf(b, Decisions) < HeadOf(b, Log)
  BY DEF Shaped
<1>3. /\ c.verb \in Verb /\ c.section \in Name /\ c.issue \in Issues \cup {<<>>}
      /\ c.verb = "new" => c.section = Context
      /\ c.verb \in {"close", "compact"} => c.section = Log
  BY <1>1, CommandIs
<1>4. Edited(p) = CASE c.verb = "new" -> [f EXCEPT !.body = SetSection(@, Context, c.issue)]
                    [] c.verb = "append" -> [f EXCEPT !.body = AppendEntry(@, c.section, Entry(n))]
                    [] c.verb = "close" -> [f EXCEPT !.status = "done",
                                                     !.body = AppendEntry(@, Log, Entry(n))]
                    [] c.verb = "compact" -> [f EXCEPT !.body = TruncateSection(@, Log, Keep)]
  BY DEF Edited
<1>5. /\ Name = {Context, Decisions, Log} /\ Context # Decisions /\ Decisions # Log
  BY DEF Name, Context, Decisions, Log
<1>6. Shaped(b)
  OBVIOUS
<1> HIDE DEF c, n
<1>7. \A x : /\ [f EXCEPT !.body = x].body = x
             /\ [f EXCEPT !.status = "done", !.body = x].body = x
  BY <1>1 DEF File
<1>8. CASE c.verb = "new"
  <2>1. e = SetSection(b, Context, c.issue)
    <3>1. Edited(p) = [f EXCEPT !.body = SetSection(b, Context, c.issue)]
      BY <1>4, <1>8
    <3> QED BY <1>7, <3>1
  <2>2. PICK s \in Seq(Line) : s = c.issue /\ Contained(s)
    BY <1>3, IssueIsContained
  <2> HIDE DEF b, e, f
  <2>3. HasSection(b, Context)
    BY <1>2, <1>5
  <2>4. Patch(b, SetSection(b, Context, s), HeadOf(b, Context), EndOf(b, Context) - 1,
              HeadOf(b, Context) + (Len(s) + 2))
    BY <1>2, <2>2, <2>3, SetPatch
  <2>5. Shaped(SetSection(b, Context, s))
    BY <1>6, <2>4, PatchIsShaped
  <2>6. \A line : Holds(b, Decisions, line) => Holds(SetSection(b, Context, s), Decisions, line)
    BY <1>2, <1>5, <2>2, <2>3, SetHolds
  <2>7. \A name \in Name \ {Context} : Keeps(b, SetSection(b, Context, s), name)
    BY <1>2, <2>2, <2>3, SetSectionKeeps
  <2> QED BY <1>3, <1>8, <2>1, <2>2, <2>5, <2>6, <2>7 DEF c, b, e, f
<1>9. CASE c.verb \in {"append", "close"}
  <2>1. e = AppendEntry(b, c.section, Entry(n))
    <3>1. \/ Edited(p) = [f EXCEPT !.body = AppendEntry(b, c.section, Entry(n))]
          \/ Edited(p) = [f EXCEPT !.status = "done", !.body = AppendEntry(b, c.section, Entry(n))]
      BY <1>3, <1>4, <1>9
    <3> QED BY <1>7, <3>1
  <2> HIDE DEF b, e, f
  <2>2. PICK name \in Name : name = c.section
    BY <1>3
  <2>3. HasSection(b, name)
    BY <1>2
  <2>4. Shaped(AppendEntry(b, name, Entry(n)))
    <3>1. PICK a, y : Patch(b, AppendEntry(b, name, Entry(n)), a, a, y)
      BY <1>1, <1>2, <2>3, AppendPatch
    <3> QED BY <1>6, <3>1, PatchIsShaped
  <2>5. /\ Holds(AppendEntry(b, name, Entry(n)), name, Entry(n))
        /\ \A m, line : Holds(b, m, line) => Holds(AppendEntry(b, name, Entry(n)), m, line)
    BY <1>1, <1>2, <2>3, AppendHolds
  <2>6. \A m \in Name \ {name} : Keeps(b, AppendEntry(b, name, Entry(n)), m)
    BY <1>1, <1>2, <2>3, AppendEntryKeeps
  <2> QED BY <2>1, <2>2, <2>4, <2>5, <2>6 DEF c, b, e, f, n
<1>10. CASE c.verb = "compact"
  <2>1. e = TruncateSection(b, Log, Keep)
    <3>1. Edited(p) = [f EXCEPT !.body = TruncateSection(b, Log, Keep)]
      BY <1>4, <1>10
    <3> QED BY <1>7, <3>1
  <2> HIDE DEF b, e, f
  <2>2. HasSection(b, Log)
    BY <1>2, <1>5
  <2>3. Shaped(TruncateSection(b, Log, Keep))
    BY <1>6, TruncateIsShaped
  <2>4. \A line : Holds(b, Decisions, line) => Holds(TruncateSection(b, Log, Keep), Decisions, line)
    BY <1>2, <2>2, TruncateHolds
  <2>5. \A m \in Name \ {Log} : Keeps(b, TruncateSection(b, Log, Keep), m)
    BY <1>2, <1>5, <2>2, TruncateSectionKeeps
  <2> QED BY <1>3, <1>10, <2>1, <2>3, <2>4, <2>5 DEF c, b, e, f
<1> QED BY <1>3, <1>8, <1>9, <1>10 DEF Verb

-----------------------------------------------------------------------------
(* The steps that write                                                       *)

\* A step that has to do with file i alone.
Beside(i) ==
  /\ \A q \in Process :
       \/ run'[q] = run[q]
       \/ run[q].id = i /\ (run'[q].id = i \/
                            run'[q].pc \notin {"template", "reparse", "truncate", "write"})
  /\ \A j \in Id \ {i} : files'[j] = files[j]
  /\ \A a \in acked' : a \in acked \/ a.id = i
  /\ spoiled \subseteq spoiled'

\* A process on another file does not notice it.
LEMMA Elsewhere ==
  ASSUME KeptInv, NEW i \in Id, Beside(i),
         NEW q \in Process, run'[q] = run[q], run[q].id \in Id \ {i}
  PROVE  BaseShaped(q)' /\ AloneAtWrite(q)' /\ AloneAtCreation(q)'
<1>1. /\ BaseShaped(q) /\ AloneAtWrite(q) /\ AloneAtCreation(q)
      /\ files'[run[q].id] = files[run[q].id]
      /\ spoiled \subseteq spoiled'
      /\ \A a \in acked' : a.id = run[q].id => a \in acked
  BY DEF KeptInv, Beside
<1>2. \A o \in Process : On(o, run[q].id)' => run'[o] = run[o]
  BY DEF Beside, On
<1>3. BaseShaped(q)'
  BY <1>1 DEF BaseShaped
<1>4. AloneAtWrite(q)'
  <2> SUFFICES ASSUME run'[q].pc = "write", run'[q].id \notin spoiled'
               PROVE  /\ files'[run'[q].id] = Empty
                      /\ \A o \in Process \ {q} :
                           ~ (run'[o].pc = "write" /\ run'[o].id = run'[q].id)
                      /\ \A a \in acked' : a.id = run'[q].id =>
                           Holds(run'[q].base.body, Decisions, Entry(a.n))
    BY DEF AloneAtWrite, At
  <2>1. /\ files[run[q].id] = Empty
        /\ \A o \in Process \ {q} : ~ (run[o].pc = "write" /\ run[o].id = run[q].id)
        /\ \A a \in acked : a.id = run[q].id =>
             Holds(run[q].base.body, Decisions, Entry(a.n))
    BY <1>1 DEF AloneAtWrite, At
  <2>2. \A o \in Process : run'[o].pc = "write" /\ run'[o].id = run[q].id => run'[o] = run[o]
    BY <1>2 DEF On
  <2> QED BY <1>1, <2>1, <2>2
<1>5. AloneAtCreation(q)'
  <2> SUFFICES ASSUME run'[q].pc = "template"
               PROVE  /\ files'[run'[q].id] = Empty
                      /\ \A o \in Process \ {q} : ~ On(o, run[q].id)'
                      /\ \A a \in acked' : a.id # run'[q].id
    BY DEF AloneAtCreation, At, On
  <2>1. /\ files[run[q].id] = Empty
        /\ \A o \in Process \ {q} : ~ On(o, run[q].id)
        /\ \A a \in acked : a.id # run[q].id
    BY <1>1 DEF AloneAtCreation, At
  <2>2. \A o \in Process \ {q} : ~ On(o, run[q].id)'
    BY <1>2, <2>1 DEF On
  <2> QED BY <1>1, <2>1, <2>2
<1> QED BY <1>3, <1>4, <1>5

\* So of such a step it is enough to look at file i, at those on it and at what was
\* acknowledged of it.
LEMMA BesideStep ==
  ASSUME KeptInv, TypeInv', NEW i \in Id, Beside(i),
         files'[i] # Absent,
         i \notin spoiled' /\ files'[i].state = "task" => Shaped(files'[i].body),
         \A q \in Process : On(q, i)' =>
           BaseShaped(q)' /\ AloneAtWrite(q)' /\ AloneAtCreation(q)',
         \A a \in acked' : a.id = i => AckedIsHeld(a)'
  PROVE  KeptInv'
<1>1. FilesShaped'
  BY DEF KeptInv, FilesShaped, Beside
<1>2. ASSUME NEW q \in Process
      PROVE  BaseShaped(q)' /\ AloneAtWrite(q)' /\ AloneAtCreation(q)'
  <2>1. CASE On(q, i)'
    BY <2>1
  <2>2. CASE run'[q].pc \notin {"template", "reparse", "truncate", "write"}
    BY <2>2 DEF BaseShaped, AloneAtWrite, AloneAtCreation, At
  <2>3. CASE run'[q].pc \in {"template", "reparse", "truncate", "write"} /\ run'[q].id # i
    <3>1. run'[q] = run[q]
      BY <2>3 DEF Beside
    <3>2. run[q].id \in Id \ {i}
      BY <2>3, <3>1, RunnerOf DEF KeptInv, TypeInv, Sound
    <3> QED BY <3>1, <3>2, Elsewhere
  <2> QED BY <2>1, <2>2, <2>3 DEF On
<1>3. StillThere'
  <2>1. ASSUME NEW q \in Process, NEW j \in Id, On(q, j)'
        PROVE  files'[j] # Absent
    <3>1. CASE j # i
      <4>1. run'[q] = run[q] /\ files'[j] = files[j]
        BY <2>1, <3>1 DEF Beside, On
      <4>2. On(q, j)
        BY <2>1, <4>1 DEF On
      <4> QED BY <4>1, <4>2 DEF KeptInv, StillThere
    <3> QED BY <3>1
  <2>2. ASSUME NEW a \in acked'
        PROVE  files'[a.id] # Absent
    <3>1. CASE a.id # i
      <4>1. a \in acked /\ a.id \in Id /\ files'[a.id] = files[a.id]
        BY <3>1 DEF Beside, KeptInv, TypeInv
      <4> QED BY <4>1 DEF KeptInv, StillThere
    <3> QED BY <3>1
  <2> QED BY <2>1, <2>2 DEF StillThere
<1>4. ASSUME NEW a \in acked'
      PROVE  AckedIsHeld(a)'
  <2>1. CASE a.id # i
    <3>1. /\ a \in acked /\ a.id \in Id /\ files'[a.id] = files[a.id]
          /\ spoiled \subseteq spoiled'
      BY <2>1 DEF Beside, KeptInv, TypeInv
    <3>2. Saving(a.id) => Saving(a.id)'
      BY <2>1 DEF Saving, At, Beside
    <3> QED BY <3>1, <3>2 DEF KeptInv, AckedIsHeld
  <2> QED BY <2>1
<1> QED BY <1>1, <1>2, <1>3, <1>4 DEF KeptInv

LEMMA WriteTemplateKeeps ==
  ASSUME KeptInv, TypeInv', NEW p \in Process, WriteTemplate(p)
  PROVE  KeptInv'
<1>1. PICK i \in Id : i = run[p].id
  BY RunnerOf DEF KeptInv, TypeInv, WriteTemplate, At, Sound
<1>2. run[p].pc = "template" /\ RunsSound /\ files \in [Id -> File]
  BY DEF KeptInv, TypeInv, WriteTemplate, At
<1>3. /\ run'[p].pc = "reparse" /\ run'[p].id = i /\ \A q \in Process \ {p} : run'[q] = run[q]
  BY <1>1, <1>2 DEF WriteTemplate, Goto, RunsSound, Runner
<1>4. /\ files'[i] = [state |-> "task", status |-> "todo", body |-> Template]
      /\ \A j \in Id \ {i} : files'[j] = files[j]
      /\ acked' = acked /\ spoiled' = spoiled
  BY <1>1, <1>2 DEF WriteTemplate
<1>5. Beside(i)
  BY <1>1, <1>3, <1>4 DEF Beside
<1>6. /\ \A q \in Process \ {p} : ~ On(q, i)
      /\ \A a \in acked : a.id # i
  BY <1>1, <1>2 DEF KeptInv, AloneAtCreation, At
<1>7. files'[i] # Absent /\ files'[i].body = Template
  BY <1>4, FileTypes
<1>8. ASSUME NEW q \in Process, On(q, i)'
      PROVE  BaseShaped(q)' /\ AloneAtWrite(q)' /\ AloneAtCreation(q)'
  <2>1. q = p
    BY <1>3, <1>6, <1>8 DEF On
  <2> QED BY <1>3, <2>1 DEF BaseShaped, AloneAtWrite, AloneAtCreation, At
<1> QED BY <1>4, <1>5, <1>6, <1>7, <1>8, TemplateIsShaped, BesideStep

LEMMA TruncateKeeps ==
  ASSUME KeptInv, TypeInv', NEW p \in Process, Truncate(p)
  PROVE  KeptInv'
<1>1. PICK i \in Id : i = run[p].id
  BY RunnerOf DEF KeptInv, TypeInv, Truncate, At, Sound
<1>2. /\ run[p].pc = "truncate" /\ RunsSound /\ files \in [Id -> File]
      /\ run[p].base.state = "task"
  BY RunnerOf DEF KeptInv, TypeInv, Truncate, At, Sound
<1>3. /\ run'[p].pc = "write" /\ run'[p].id = i /\ run'[p].base = run[p].base
      /\ \A q \in Process \ {p} : run'[q] = run[q]
  BY <1>1, <1>2 DEF Truncate, Goto, RunsSound, Runner
<1>4. /\ files'[i] = Empty
      /\ \A j \in Id \ {i} : files'[j] = files[j]
      /\ acked' = acked /\ spoiled \subseteq spoiled'
      /\ i \notin spoiled' => files[i] = run[p].base
  BY <1>1, <1>2 DEF Truncate, FileOf
<1>5. Beside(i)
  BY <1>1, <1>3, <1>4 DEF Beside
<1>6. On(p, i)
  BY <1>1, <1>2 DEF On
<1>7. ASSUME i \notin spoiled', NEW q \in Process, run[q].pc = "write"
      PROVE  run[q].id # i
  BY <1>2, <1>4, <1>7, FileTypes DEF KeptInv, AloneAtWrite, At
<1>8. ASSUME NEW q \in Process, On(q, i)'
      PROVE  BaseShaped(q)' /\ AloneAtWrite(q)' /\ AloneAtCreation(q)'
  <2>1. BaseShaped(q)'
    <3>1. BaseShaped(q)
      BY DEF KeptInv
    <3> QED BY <1>1, <1>2, <1>3, <1>4, <3>1 DEF BaseShaped
  <2>2. AloneAtWrite(q)'
    <3> SUFFICES ASSUME run'[q].pc = "write", run'[q].id \notin spoiled'
                 PROVE  /\ files'[run'[q].id] = Empty
                        /\ \A o \in Process \ {q} :
                             ~ (run'[o].pc = "write" /\ run'[o].id = run'[q].id)
                        /\ \A a \in acked' : a.id = run'[q].id =>
                             Holds(run'[q].base.body, Decisions, Entry(a.n))
      BY DEF AloneAtWrite, At
    <3>1. run'[q].id = i /\ i \notin spoiled' /\ i \notin spoiled
      BY <1>4, <1>8 DEF On
    <3>2. q = p
      BY <1>3, <1>7, <3>1
    <3>3. \A o \in Process \ {p} : ~ (run'[o].pc = "write" /\ run'[o].id = i)
      BY <1>3, <1>7, <3>1
    <3>4. ASSUME NEW a \in acked, a.id = i
          PROVE  Holds(run[p].base.body, Decisions, Entry(a.n))
      <4>1. AckedIsHeld(a)
        BY DEF KeptInv
      <4>2. ~ Saving(i)
        BY <1>7, <3>1 DEF Saving, At
      <4> QED BY <1>4, <3>1, <3>4, <4>1, <4>2 DEF AckedIsHeld
    <3> QED BY <1>3, <1>4, <3>1, <3>2, <3>3, <3>4
  <2>3. AloneAtCreation(q)'
    <3>1. run'[q].pc # "template"
      <4> SUFFICES ASSUME run'[q].pc = "template" PROVE FALSE
        OBVIOUS
      <4>1. q # p /\ run'[q] = run[q] /\ run[q].id = i
        BY <1>3, <1>8 DEF On
      <4> QED BY <1>6, <4>1 DEF KeptInv, AloneAtCreation, At
    <3> QED BY <3>1 DEF AloneAtCreation, At
  <2> QED BY <2>1, <2>2, <2>3
<1>9. ASSUME NEW a \in acked', a.id = i
      PROVE  AckedIsHeld(a)'
  BY <1>3, <1>9 DEF AckedIsHeld, Saving, At
<1> QED BY <1>4, <1>5, <1>8, <1>9, FileTypes, BesideStep

LEMMA WriteKeeps ==
  ASSUME ContainedText, KeptInv, TypeInv', NEW p \in Process, Write(p)
  PROVE  KeptInv'
<1>1. PICK i \in Id : i = run[p].id
  BY RunnerOf DEF KeptInv, TypeInv, Write, At, Sound
<1>2. /\ run[p].pc = "write" /\ At(p, "write") /\ RunsSound /\ TypeInv
      /\ files \in [Id -> File] /\ files[i] \in File
  BY DEF KeptInv, TypeInv, Write, At
<1>3. /\ run'[p].pc \in {"idle", "resolve"}
      /\ \A q \in Process \ {p} : run'[q] = run[q]
  BY <1>2, NextRefEnds DEF Write
<1>4. /\ files'[i] = Over(Edited(p), files[i])
      /\ \A j \in Id \ {i} : files'[j] = files[j]
      /\ spoiled \subseteq spoiled'
      /\ i \notin spoiled' => i \notin spoiled /\ files[i] = Empty
  BY <1>1, <1>2 DEF Write, FileOf
<1>5. \A a \in acked' :
        \/ a \in acked
        \/ /\ run[p].cmd.verb = "append" /\ run[p].cmd.section = Decisions
           /\ a.id = i /\ a.n = run[p].n
  BY <1>1 DEF Write
<1>6. Beside(i)
  BY <1>1, <1>3, <1>4, <1>5 DEF Beside
<1>7. files'[i].state = "task" /\ files'[i] # Absent
  BY <1>2, <1>4, EditedIs, OverIs, FileTypes
<1>8. ASSUME i \notin spoiled'
      PROVE  /\ files'[i] = Edited(p) /\ Shaped(run[p].base.body)
             /\ \A q \in Process \ {p} : ~ (run[q].pc = "write" /\ run[q].id = i)
             /\ \A a \in acked : a.id = i =>
                  Holds(run[p].base.body, Decisions, Entry(a.n))
  <2>1. i \notin spoiled /\ files[i] = Empty
    BY <1>4, <1>8
  <2>2. files'[i] = Edited(p)
    BY <1>2, <1>4, <2>1, EditedIs, OverIs
  <2>3. BaseShaped(p) /\ AloneAtWrite(p)
    BY DEF KeptInv
  <2>4. Shaped(run[p].base.body)
    BY <1>1, <1>2, <2>1, <2>3 DEF BaseShaped
  <2>5. /\ \A q \in Process \ {p} : ~ (run[q].pc = "write" /\ run[q].id = i)
        /\ \A a \in acked : a.id = i => Holds(run[p].base.body, Decisions, Entry(a.n))
    BY <1>1, <1>2, <2>1, <2>3 DEF AloneAtWrite, At
  <2> QED BY <2>2, <2>4, <2>5
<1>9. i \notin spoiled' => Shaped(files'[i].body)
  BY <1>2, <1>8, EditedKeeps
<1>10. ASSUME NEW q \in Process, On(q, i)'
       PROVE  BaseShaped(q)' /\ AloneAtWrite(q)' /\ AloneAtCreation(q)'
  <2>1. q # p /\ run'[q] = run[q] /\ On(q, i)
    BY <1>3, <1>10 DEF On
  <2>2. BaseShaped(q)'
    <3>1. BaseShaped(q)
      BY DEF KeptInv
    <3> QED BY <1>4, <2>1, <3>1 DEF BaseShaped
  <2>3. AloneAtWrite(q)'
    <3>1. ~ (run'[q].pc = "write" /\ run'[q].id \notin spoiled')
      BY <1>8, <2>1 DEF On
    <3> QED BY <3>1 DEF AloneAtWrite, At
  <2>4. AloneAtCreation(q)'
    <3>1. On(p, i)
      BY <1>1, <1>2 DEF On
    <3>2. run[q].pc # "template"
      BY <2>1, <3>1 DEF KeptInv, AloneAtCreation, At, On
    <3> QED BY <2>1, <3>2 DEF AloneAtCreation, At
  <2> QED BY <2>2, <2>3, <2>4
<1>11. ASSUME NEW a \in acked', a.id = i
       PROVE  AckedIsHeld(a)'
  <2>1. CASE i \in spoiled'
    BY <1>11, <2>1 DEF AckedIsHeld
  <2>2. CASE i \notin spoiled'
    <3>1. Holds(Edited(p).body, Decisions, Entry(a.n))
      <4>1. CASE a \in acked
        BY <1>2, <1>8, <1>11, <2>2, <4>1, EditedKeeps
      <4>2. CASE /\ run[p].cmd.verb = "append" /\ run[p].cmd.section = Decisions
                 /\ a.n = run[p].n
        BY <1>2, <1>8, <2>2, <4>2, EditedKeeps
      <4> QED BY <1>5, <4>1, <4>2
    <3> QED BY <1>7, <1>8, <1>11, <2>2, <3>1 DEF AckedIsHeld
  <2> QED BY <2>1, <2>2
<1> QED BY <1>6, <1>7, <1>9, <1>10, <1>11, BesideStep

LEMMA HandEditKeeps ==
  ASSUME ContainedText, KeptInv, TypeInv', NEW i \in Id, HandEdit(i)
  PROVE  KeptInv'
<1>1. TypeInv /\ files \in [Id -> File] /\ files[i] \in File /\ files[i].state = "task"
  BY HandEditIs DEF KeptInv, TypeInv
<1>2. PICK block \in Blocks, k \in 1..Len(files[i].body) :
        /\ ~ InCode(files[i].body, k)
        /\ files' = [files EXCEPT ![i] =
                       [files[i] EXCEPT !.body = Inserted(files[i].body, k, block)]]
  BY <1>1, HandEditIs
<1>3. run' = run /\ acked' = acked /\ spoiled' = spoiled
  BY DEF HandEdit
<1>4. /\ files'[i].state = "task" /\ files'[i].body = Inserted(files[i].body, k, block)
      /\ \A j \in Id \ {i} : files'[j] = files[j]
  BY <1>1, <1>2 DEF File
<1>5. Beside(i)
  BY <1>3, <1>4 DEF Beside
<1>6. files'[i] # Absent /\ files[i] # Empty
  BY <1>1, <1>4, FileTypes
<1>7. PICK y : Patch(files[i].body, files'[i].body, k, k, y)
  <2>1. block \in Seq(Line) /\ Contained(block) /\ files[i].body \in Seq(Line)
    BY <1>1, TextAssumption, FileTypes DEF ContainedText
  <2> QED BY <1>2, <1>4, <2>1, InsertPatch DEF Inserted
<1>8. i \notin spoiled' => Shaped(files'[i].body)
  <2>1. i \notin spoiled => Shaped(files[i].body)
    BY <1>1 DEF KeptInv, FilesShaped
  <2> QED BY <1>3, <1>7, <2>1, PatchIsShaped
<1>9. ASSUME NEW q \in Process, On(q, i)'
      PROVE  BaseShaped(q)' /\ AloneAtWrite(q)' /\ AloneAtCreation(q)'
  <2>1. run'[q] = run[q] /\ run[q].id = i
    BY <1>3, <1>9 DEF On
  <2>2. BaseShaped(q) /\ AloneAtWrite(q) /\ AloneAtCreation(q)
    BY DEF KeptInv
  <2>3. BaseShaped(q)'
    BY <1>3, <2>1, <2>2 DEF BaseShaped
  <2>4. AloneAtWrite(q)'
    BY <1>3, <1>6, <2>1, <2>2 DEF AloneAtWrite, At
  <2>5. AloneAtCreation(q)'
    BY <1>3, <1>6, <2>1, <2>2 DEF AloneAtCreation, At
  <2> QED BY <2>3, <2>4, <2>5
<1>10. ASSUME NEW a \in acked', a.id = i
       PROVE  AckedIsHeld(a)'
  <2>1. AckedIsHeld(a)
    BY <1>3 DEF KeptInv
  <2>2. Saving(i) => Saving(i)'
    BY <1>3 DEF Saving, At
  <2>3. Holds(files[i].body, Decisions, Entry(a.n)) =>
          Holds(files'[i].body, Decisions, Entry(a.n))
    BY <1>7, PatchHolds
  <2> QED BY <1>3, <1>4, <1>10, <2>1, <2>2, <2>3 DEF AckedIsHeld
<1> QED BY <1>5, <1>6, <1>8, <1>9, <1>10, BesideStep

-----------------------------------------------------------------------------
(* The theorems                                                               *)

LEMMA InitKeeps ==
  ASSUME ShapedSeeds, Init
  PROVE  KeptInv
<1>1. TypeInv
  BY InitTypes
<1>2. FilesShaped
  BY DEF Init, ShapedSeeds, FilesShaped
<1>3. \A p \in Process : run[p].pc = "idle"
  BY IdleIsSound DEF Init
<1>4. \A p \in Process : BaseShaped(p) /\ AloneAtWrite(p) /\ AloneAtCreation(p)
  BY <1>3 DEF BaseShaped, AloneAtWrite, AloneAtCreation, At
<1>5. StillThere /\ \A a \in acked : AckedIsHeld(a)
  BY <1>3 DEF StillThere, On, Init
<1> QED BY <1>1, <1>2, <1>4, <1>5 DEF KeptInv

LEMMA KeptInductive ==
  ASSUME ContainedText
  PROVE  KeptInv /\ [Next]_vars => KeptInv'
<1> SUFFICES ASSUME KeptInv, [Next]_vars PROVE KeptInv'
  OBVIOUS
<1>1. TypeInv'
  BY TypeInductive DEF KeptInv
<1>2. CASE UNCHANGED vars
  <2>1. FilesShaped'
    BY <1>2 DEF vars, KeptInv, FilesShaped
  <2>2. ASSUME NEW p \in Process
        PROVE  BaseShaped(p)' /\ AloneAtWrite(p)' /\ AloneAtCreation(p)'
    <3>1. BaseShaped(p) /\ AloneAtWrite(p) /\ AloneAtCreation(p)
      BY DEF KeptInv
    <3> QED BY <1>2, <3>1 DEF vars, BaseShaped, AloneAtWrite, AloneAtCreation, At, On
  <2>3. StillThere'
    BY <1>2 DEF vars, KeptInv, StillThere, On
  <2>4. ASSUME NEW a \in acked'
        PROVE  AckedIsHeld(a)'
    <3>1. AckedIsHeld(a)
      BY <1>2 DEF vars, KeptInv
    <3> QED BY <1>2, <3>1 DEF vars, AckedIsHeld, Saving, At
  <2> QED BY <1>1, <2>1, <2>2, <2>3, <2>4 DEF KeptInv
<1>3. CASE Next
  <2>1. ASSUME NEW p \in Process, NEW c \in Commands, Start(p, c)
        PROVE  KeptInv'
    BY <1>1, <2>1, StartKeeps
  <2>2. ASSUME NEW p \in Process, Create(p)
        PROVE  KeptInv'
    BY <1>1, <2>2, CreateKeeps
  <2>3. ASSUME NEW p \in Process, WriteTemplate(p)
        PROVE  KeptInv'
    BY <1>1, <2>3, WriteTemplateKeeps
  <2>4. ASSUME NEW p \in Process, Reparse(p)
        PROVE  KeptInv'
    BY <1>1, <2>4, ReparseKeeps
  <2>5. ASSUME NEW p \in Process, Resolve(p)
        PROVE  KeptInv'
    BY <1>1, <2>5, ResolveKeeps
  <2>6. ASSUME NEW p \in Process, ReadFile(p)
        PROVE  KeptInv'
    BY <1>1, <2>6, ReadFileKeeps
  <2>7. ASSUME NEW p \in Process, Truncate(p)
        PROVE  KeptInv'
    BY <1>1, <2>7, TruncateKeeps
  <2>8. ASSUME NEW p \in Process, Write(p)
        PROVE  KeptInv'
    BY <1>1, <2>8, WriteKeeps
  <2>9. ASSUME NEW p \in Process, Stop(p)
        PROVE  KeptInv'
    BY <1>1, <2>9, StopKeeps
  <2>10. ASSUME NEW i \in Id, HandEdit(i)
         PROVE  KeptInv'
    BY <1>1, <2>10, HandEditKeeps
  <2> QED BY <1>3, <2>1, <2>2, <2>3, <2>4, <2>5, <2>6, <2>7, <2>8, <2>9, <2>10 DEF Next
<1> QED BY <1>2, <1>3

LEMMA KeptAlways ==
  ASSUME ContainedText, ShapedSeeds
  PROVE  Spec => []KeptInv
<1>1. Init => KeptInv
  BY InitKeeps
<1>2. KeptInv /\ [Next]_vars => KeptInv'
  BY KeptInductive
<1> QED BY <1>1, <1>2, PTL DEF Spec

\* A decision that append reported is in Decisions for good, however many verbs,
\* kills and hands come after it, unless a save of its file was cut short or
\* overwrote a newer one: AppendEntry and TruncateSection of Log leave it there,
\* O_EXCL keeps new from a file that exists, and a save that nothing came between
\* writes what it read with its own section changed.
THEOREM DecisionsStay ==
  ASSUME ContainedText, ShapedSeeds
  PROVE  Spec => []DecisionsAreKept
<1>1. KeptInv => DecisionsAreKept
  <2> SUFFICES ASSUME KeptInv, NEW a \in acked, a.id \notin spoiled, ~ Saving(a.id)
               PROVE  /\ HasSection(files[a.id].body, Decisions)
                      /\ \E i \in DOMAIN Content(files[a.id].body, Decisions) :
                           Content(files[a.id].body, Decisions)[i] = Entry(a.n)
    BY DEF DecisionsAreKept
  <2>1. Holds(files[a.id].body, Decisions, Entry(a.n))
    BY DEF KeptInv, AckedIsHeld
  <2>2. PICK b \in Seq(Line) : b = files[a.id].body
    BY FileOfIs DEF KeptInv, TypeInv
  <2>3. PICK line : line = Entry(a.n)
    OBVIOUS
  <2>4. Holds(b, Decisions, line)
    BY <2>1, <2>2, <2>3
  <2>5. \E i \in DOMAIN Content(b, Decisions) : Content(b, Decisions)[i] = line
    BY <2>4, HeldIsContent
  <2>6. HasSection(b, Decisions)
    BY <2>4 DEF Holds
  <2> QED BY <2>2, <2>3, <2>5, <2>6
<1> QED BY <1>1, KeptAlways, PTL

\* A save changes the section it was asked to change: of a task that nobody rewrote
\* since it was read, SetSection, AppendEntry and TruncateSection return every other
\* section line for line.
THEOREM OtherSectionsStay ==
  ASSUME ContainedText, ShapedSeeds
  PROVE  Spec => OnlyItsSection
<1> DEFINE Step1 == \A p \in Process : Saves(p) =>
                      \A name \in Name \ {run[p].cmd.section} :
                        HasSection(run[p].base.body, name) =>
                          /\ HasSection(Edited(p).body, name)
                          /\ Content(Edited(p).body, name) = Content(run[p].base.body, name)
<1>1. ASSUME KeptInv, [Next]_vars
      PROVE  Step1
  <2>1. spoiled \subseteq spoiled'
    BY <1>1 DEF Next, vars, Start, Create, WriteTemplate, Reparse, Resolve, ReadFile,
                Truncate, Write, Stop, HandEdit
  <2>2. ASSUME NEW p \in Process, Saves(p), NEW name \in Name \ {run[p].cmd.section}
        PROVE  Keeps(run[p].base.body, Edited(p).body, name)
    <3>1. At(p, "write") /\ run[p].id \notin spoiled
      BY <2>1, <2>2 DEF Saves
    <3>2. TypeInv /\ BaseShaped(p)
      BY <1>1 DEF KeptInv
    <3>3. Shaped(run[p].base.body)
      BY <3>1, <3>2 DEF BaseShaped, At
    <3> QED BY <2>2, <3>1, <3>2, <3>3, EditedKeeps
  <2> QED BY <2>2 DEF Keeps
<1>2. Spec => [][Step1]_vars
  BY <1>1, KeptAlways, PTL DEF Spec
<1> QED BY <1>2 DEF OnlyItsSection

\* Whatever verbs, kills and hands made of a task, an open fence or a section twice
\* included, its page shows every line of it once, in order, where the verbs see it,
\* and closes its tags.
THEOREM PagesStay == Spec => []PagesShowTheirTasks
<1>1. TypeInv => PagesShowTheirTasks
  <2> SUFFICES ASSUME TypeInv, NEW i \in Id PROVE ShowsTheBody(files[i].body)
    BY DEF PagesShowTheirTasks
  <2>1. files[i].body \in Seq(Line)
    BY FileTypes DEF TypeInv
  <2> QED BY <2>1, PagesShow
<1> QED BY <1>1, InitTypes, TypeInductive, PTL DEF Spec
=============================================================================
