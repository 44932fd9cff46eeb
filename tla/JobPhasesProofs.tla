---------------------------- MODULE JobPhasesProofs ----------------------------
(* What one job promises inside its worktree, for every set of drafts a      *)
(* phase may leave and whatever probes and the criterion write, proved.      *)
EXTENDS JobPhases, SequenceTheorems, TLAPS

Places == {"setup", "probes", "gate", "status", "changed", "criterion", "commit", "push",
           "facts", "skeptic", "task", "work",
           "save plan", "save answer", "save text", "save report"}

LEMMA PhaseNames ==
  /\ Save["facts"] = "save plan" /\ Save["skeptic"] = "save answer"
  /\ Save["task"] = "save text" /\ Save["work"] = "save report"
  /\ Output["facts"] = "probes.md" /\ Output["skeptic"] = "skeptic.md"
  /\ Output["task"] = "task.md" /\ Output["work"] = "work.md"
  /\ AfterSave["facts"] = "probes" /\ AfterSave["skeptic"] = "task"
  /\ AfterSave["task"] = "gate" /\ AfterSave["work"] = "changed"
BY DEF Save, Output, AfterSave

LEMMA WorkingPlaces == Working = Places
<1>1. {Save[p] : p \in Phase} = {Save["facts"], Save["skeptic"], Save["task"], Save["work"]}
  BY Zenon DEF Phase
<1>2. {Save[p] : p \in Phase} = {"save plan", "save answer", "save text", "save report"}
  BY <1>1, PhaseNames, Zenon
<1> QED
  BY <1>2 DEF Working, Places, Phase

\* Running a phase, whatever it changes.
LEMMA AskSteps ==
  ASSUME AskForProbes \/ AskSkeptic \/ AskForTask \/ AskForWork
  PROVE  \E p \in {"facts", "skeptic", "task", "work"} :
           /\ pc = p
           /\ pc' = Save[p]
           /\ UNCHANGED <<kind, cause, outputs, seen, publication>>
<1>1. ASSUME NEW p, NEW W, Ask(p, W)
      PROVE  pc = p /\ pc' = Save[p] /\ UNCHANGED <<kind, cause, outputs, seen, publication>>
  BY <1>1 DEF Ask, At
<1>2. CASE AskForProbes
  BY <1>1, <1>2 DEF AskForProbes
<1>3. CASE AskSkeptic
  BY <1>1, <1>3 DEF AskSkeptic
<1>4. CASE AskForTask
  BY <1>1, <1>4 DEF AskForTask
<1>5. CASE AskForWork
  BY <1>1, <1>5 DEF AskForWork
<1> QED
  BY <1>2, <1>3, <1>4, <1>5

\* SaveOutput, without its IF.
LEMMA SaveSteps ==
  ASSUME SaveOutput
  PROVE  \E p \in Phase :
           /\ pc = Save[p]
           /\ outputs' = outputs \cup {Output[p]}
           /\ \/ failing /\ Keep(p)
              \/ ~ failing /\ Goto(AfterSave[p])
           /\ UNCHANGED <<asked, plan, tree, file, seen, publication>>
BY DEF SaveOutput, At

-----------------------------------------------------------------------------
(* Types *)

LEMMA WithStatusType ==
  ASSUME NEW head \in Seq(Line), NEW s \in Status
  PROVE  WithStatus(head, s) \in Seq(Line)
<1>1. StatusLine(s) \in Line
  BY DEF StatusLine, Line
<1>2. CASE HasStatus(head)
  BY <1>1, <1>2 DEF WithStatus
<1>3. CASE ~ HasStatus(head)
  BY <1>1, <1>3, ConcatProperties DEF WithStatus
<1> QED
  BY <1>2, <1>3

LEMMA InitTypeOK == Init => TypeOK
BY DraftsAssumption DEF Init, TypeOK, Step

LEMMA NextTypeOK == TypeOK /\ [Next]_vars => TypeOK'
<1> SUFFICES ASSUME TypeOK, [Next]_vars
             PROVE  TypeOK'
  OBVIOUS
<1> USE PhaseNames, WorkingPlaces
    DEF TypeOK, Step, Places, Landed, Ended, At, Goto, Keep, work, publication
<1>1. CASE Begin
  BY <1>1 DEF Begin
<1>2. CASE SetUp
  BY <1>2 DEF SetUp
<1>3. CASE AskForProbes
  BY <1>3 DEF AskForProbes, Ask, Phase
<1>4. CASE AskSkeptic
  BY <1>4, WritesAssumption DEF AskSkeptic, Ask, Phase
<1>5. CASE AskForTask
  BY <1>5, DraftsAssumption DEF AskForTask, Ask, Phase, Path, TaskPaths
<1>6. CASE AskForWork
  BY <1>6, DraftsAssumption DEF AskForWork, Ask, Phase
<1>7. CASE SaveOutput
  <2>1. PICK p \in Phase :
          /\ pc = Save[p]
          /\ outputs' = outputs \cup {Output[p]}
          /\ \/ failing /\ Keep(p)
             \/ ~ failing /\ Goto(AfterSave[p])
          /\ UNCHANGED <<asked, plan, tree, file, seen, publication>>
    BY <1>7, SaveSteps
  <2>2. /\ Output[p] \in {Output[q] : q \in Phase}
        /\ AfterSave[p] \in {"probes", "task", "gate", "changed"}
    BY DEF Phase
  <2>3. pc' \in Step /\ cause' \in Step /\ failing' = failing /\ kind' = kind
    <3>1. CASE failing /\ Keep(p)
      BY <3>1, <2>1, <2>2 DEF Phase
    <3>2. CASE ~ failing /\ Goto(AfterSave[p])
      BY <3>2, <2>1, <2>2
    <3> QED
      BY <3>1, <3>2, <2>1
  <2>4. outputs' \subseteq {Output[q] : q \in Phase} \cup {"facts.md"}
    BY <2>1, <2>2
  <2> QED
    BY <2>1, <2>3, <2>4
<1>8. CASE RunProbes
  BY <1>8, WritesAssumption DEF RunProbes
<1>9. CASE OnlyThisTaskChanged
  BY <1>9 DEF OnlyThisTaskChanged
<1>10. CASE SetProposed
  <2>1. file.head \in Seq(Line) /\ "proposed" \in Status
    BY StatusAssumption DEF File
  <2>2. WithStatus(file.head, "proposed") \in Seq(Line)
    BY <2>1, WithStatusType
  <2>3. file' \in File
    BY <1>10, <2>2 DEF SetProposed, File
  <2> QED
    BY <1>10, <2>3 DEF SetProposed
<1>11. CASE ChangedFiles
  BY <1>11 DEF ChangedFiles
<1>12. CASE RunCriterion
  BY <1>12, WritesAssumption DEF RunCriterion
<1>13. CASE Commit
  BY <1>13 DEF Commit
<1>14. CASE Push
  BY <1>14 DEF Push
<1>15. CASE CreatePR
  BY <1>15 DEF CreatePR
<1>16. CASE Finish
  BY <1>16 DEF Finish
<1>17. CASE Refused
  BY <1>17 DEF Refused
<1>18. CASE Kill
  BY <1>18 DEF Kill
<1>19. CASE UNCHANGED vars
  BY <1>19 DEF vars
<1> QED
  BY <1>1, <1>2, <1>3, <1>4, <1>5, <1>6, <1>7, <1>8, <1>9, <1>10, <1>11, <1>12,
     <1>13, <1>14, <1>15, <1>16, <1>17, <1>18, <1>19 DEF Next

\* Every variable keeps to its type, for every set of drafts and of paths that
\* probes and the criterion write.
THEOREM TypeCorrect == Spec => []TypeOK
BY InitTypeOK, NextTypeOK, PTL DEF Spec
-----------------------------------------------------------------------------
(* What every phase answered is on disk *)

LEMMA NextAnswers == TypeOK /\ EveryAnswerIsOnDisk /\ [Next]_vars => EveryAnswerIsOnDisk'
<1> SUFFICES ASSUME TypeOK, EveryAnswerIsOnDisk, [Next]_vars
             PROVE  EveryAnswerIsOnDisk'
  OBVIOUS
<1> USE PhaseNames DEF TypeOK, EveryAnswerIsOnDisk, Phase, Ended, At, Goto, Keep, work
<1>1. CASE Begin
  BY <1>1 DEF Begin
<1>2. CASE SetUp
  BY <1>2 DEF SetUp
<1>3. CASE AskForProbes
  BY <1>3 DEF AskForProbes, Ask
<1>4. CASE AskSkeptic
  BY <1>4 DEF AskSkeptic, Ask
<1>5. CASE AskForTask
  BY <1>5 DEF AskForTask, Ask
<1>6. CASE AskForWork
  BY <1>6 DEF AskForWork, Ask
<1>7. CASE SaveOutput
  <2>1. PICK p \in Phase :
          /\ pc = Save[p]
          /\ outputs' = outputs \cup {Output[p]}
          /\ \/ failing /\ Keep(p)
             \/ ~ failing /\ Goto(AfterSave[p])
          /\ UNCHANGED <<asked, plan, tree, file, seen, publication>>
    BY <1>7, SaveSteps
  <2>2. p \in {"facts", "skeptic", "task", "work"}
    BY DEF Phase
  <2>3. SUFFICES ASSUME NEW q \in asked'
                 PROVE  Output[q] \in outputs'
    OBVIOUS
  <2>4. q \in asked /\ q \in {"facts", "skeptic", "task", "work"}
    BY <2>1
  <2>5. Output[q] \in outputs \/ pc = Save[q]
    BY <2>1, <2>2, <2>4
  <2>6. pc = Save[q] => q = p
    BY <2>1, <2>2, <2>4
  <2> QED
    BY <2>1, <2>5, <2>6
<1>8. CASE RunProbes
  BY <1>8 DEF RunProbes
<1>9. CASE OnlyThisTaskChanged
  BY <1>9 DEF OnlyThisTaskChanged
<1>10. CASE SetProposed
  BY <1>10 DEF SetProposed
<1>11. CASE ChangedFiles
  BY <1>11 DEF ChangedFiles
<1>12. CASE RunCriterion
  BY <1>12 DEF RunCriterion
<1>13. CASE Commit
  BY <1>13 DEF Commit
<1>14. CASE Push
  BY <1>14 DEF Push
<1>15. CASE CreatePR
  BY <1>15 DEF CreatePR
<1>16. CASE Finish
  BY <1>16 DEF Finish
<1>17. CASE Refused
  BY <1>17, WorkingPlaces DEF Refused, Places
<1>18. CASE Kill
  BY <1>18, WorkingPlaces DEF Kill, Places, Landed
<1>19. CASE UNCHANGED vars
  BY <1>19 DEF vars
<1> QED
  BY <1>1, <1>2, <1>3, <1>4, <1>5, <1>6, <1>7, <1>8, <1>9, <1>10, <1>11, <1>12,
     <1>13, <1>14, <1>15, <1>16, <1>17, <1>18, <1>19 DEF Next

\* What a phase printed is in the worktree whatever fails afterwards, the phase
\* included, unless the write itself is what failed.
THEOREM Answers == Spec => []EveryAnswerIsOnDisk
<1>1. Init => EveryAnswerIsOnDisk
  BY DEF Init, EveryAnswerIsOnDisk
<1> QED
  BY <1>1, InitTypeOK, NextTypeOK, NextAnswers, PTL DEF Spec

-----------------------------------------------------------------------------
(* The way through a review, and what each stretch of it rests on *)

Measured == Ran # {} /\ "facts.md" \in outputs
MeasuredInv ==
  /\ "task" \in asked => Measured /\ "skeptic.md" \in outputs
  /\ pc \in {"skeptic", "save answer"} => Measured
  /\ pc = "task" => Measured /\ "skeptic.md" \in outputs
  /\ pc \in {"out", "setup", "facts", "save plan", "probes"} => "task" \notin asked

LEMMA NextMeasured == TypeOK /\ MeasuredInv /\ [Next]_vars => MeasuredInv'
<1> SUFFICES ASSUME TypeOK, MeasuredInv, [Next]_vars
             PROVE  MeasuredInv'
  OBVIOUS
<1> USE PhaseNames DEF MeasuredInv, Measured, Ran, At, Goto, Keep, work
<1>1. CASE Begin
  BY <1>1 DEF Begin
<1>2. CASE SetUp
  BY <1>2 DEF SetUp
<1>3. CASE AskForProbes
  BY <1>3 DEF AskForProbes, Ask
<1>4. CASE AskSkeptic
  BY <1>4 DEF AskSkeptic, Ask
<1>5. CASE AskForTask
  BY <1>5 DEF AskForTask, Ask
<1>6. CASE AskForWork
  BY <1>6 DEF AskForWork, Ask
<1>7. CASE SaveOutput
  <2>1. PICK p \in Phase :
          /\ pc = Save[p]
          /\ outputs' = outputs \cup {Output[p]}
          /\ \/ failing /\ Keep(p)
             \/ ~ failing /\ Goto(AfterSave[p])
          /\ UNCHANGED <<asked, plan, tree, file, seen, publication>>
    BY <1>7, SaveSteps
  <2>2. p \in {"facts", "skeptic", "task", "work"}
    BY DEF Phase
  <2>3. CASE p = "facts"
    BY <2>1, <2>3
  <2>4. CASE p = "skeptic"
    BY <2>1, <2>4
  <2>5. CASE p \in {"task", "work"}
    BY <2>1, <2>5
  <2> QED
    BY <2>2, <2>3, <2>4, <2>5
<1>8. CASE RunProbes
  BY <1>8 DEF RunProbes
<1>9. CASE OnlyThisTaskChanged
  BY <1>9 DEF OnlyThisTaskChanged
<1>10. CASE SetProposed
  BY <1>10 DEF SetProposed
<1>11. CASE ChangedFiles
  BY <1>11 DEF ChangedFiles
<1>12. CASE RunCriterion
  BY <1>12 DEF RunCriterion
<1>13. CASE Commit
  BY <1>13 DEF Commit
<1>14. CASE Push
  BY <1>14 DEF Push
<1>15. CASE CreatePR
  BY <1>15 DEF CreatePR
<1>16. CASE Finish
  BY <1>16 DEF Finish
<1>17. CASE Refused
  BY <1>17 DEF Refused
<1>18. CASE Kill
  BY <1>18 DEF Kill
<1>19. CASE UNCHANGED vars
  BY <1>19 DEF vars
<1> QED
  BY <1>1, <1>2, <1>3, <1>4, <1>5, <1>6, <1>7, <1>8, <1>9, <1>10, <1>11, <1>12,
     <1>13, <1>14, <1>15, <1>16, <1>17, <1>18, <1>19 DEF Next

\* No task is rewritten before a probe ran and the skeptic answered.
THEOREM Measures == Spec => []MeasuredBeforeWritten
<1>1. Init => MeasuredInv
  BY DEF Init, MeasuredInv
<1>2. MeasuredInv => MeasuredBeforeWritten
  BY DEF MeasuredInv, Measured, MeasuredBeforeWritten
<1> QED
  BY <1>1, <1>2, InitTypeOK, NextTypeOK, NextMeasured, PTL DEF Spec
-----------------------------------------------------------------------------
(* What is published *)

\* The places of each verb, and that only a job past its push has a branch.
Route ==
  /\ pc \in {"facts", "save plan", "probes", "skeptic", "save answer", "task",
            "save text", "gate", "status"} => kind = "review"
  /\ pc \in {"work", "save report", "changed", "criterion"} => kind = "work"
  /\ pc \notin {"request", "clean", "kept", "killed", "done"} => ~ pushed

LEMMA NextRoute == TypeOK /\ Route /\ [Next]_vars => Route'
<1> SUFFICES ASSUME TypeOK, Route, [Next]_vars
             PROVE  Route'
  OBVIOUS
<1> USE PhaseNames DEF TypeOK, Kind, Route, At, Goto, Keep, work, publication
<1>1. CASE Begin
  BY <1>1 DEF Begin
<1>2. CASE SetUp
  BY <1>2 DEF SetUp
<1>3. CASE AskForProbes \/ AskSkeptic \/ AskForTask \/ AskForWork
  <2>1. PICK p \in {"facts", "skeptic", "task", "work"} :
          /\ pc = p
          /\ pc' = Save[p]
          /\ UNCHANGED <<kind, cause, outputs, seen, publication>>
    BY <1>3, AskSteps
  <2> QED
    BY <2>1
<1>7. CASE SaveOutput
  <2>1. PICK p \in Phase :
          /\ pc = Save[p]
          /\ outputs' = outputs \cup {Output[p]}
          /\ \/ failing /\ Keep(p)
             \/ ~ failing /\ Goto(AfterSave[p])
          /\ UNCHANGED <<asked, plan, tree, file, seen, publication>>
    BY <1>7, SaveSteps
  <2>2. p \in {"facts", "skeptic", "task", "work"}
    BY DEF Phase
  <2> QED
    BY <2>1, <2>2
<1>8. CASE RunProbes
  BY <1>8 DEF RunProbes
<1>9. CASE OnlyThisTaskChanged
  BY <1>9 DEF OnlyThisTaskChanged
<1>10. CASE SetProposed
  BY <1>10 DEF SetProposed
<1>11. CASE ChangedFiles
  BY <1>11 DEF ChangedFiles
<1>12. CASE RunCriterion
  BY <1>12 DEF RunCriterion
<1>13. CASE Commit
  BY <1>13 DEF Commit
<1>14. CASE Push
  BY <1>14 DEF Push
<1>15. CASE CreatePR
  BY <1>15 DEF CreatePR
<1>16. CASE Finish
  BY <1>16 DEF Finish
<1>17. CASE Refused
  BY <1>17, WorkingPlaces DEF Refused, Places
<1>18. CASE Kill
  BY <1>18, WorkingPlaces DEF Kill, Places
<1>19. CASE UNCHANGED vars
  BY <1>19 DEF vars
<1> QED
  BY <1>1, <1>2, <1>3, <1>7, <1>8, <1>9, <1>10, <1>11, <1>12,
     <1>13, <1>14, <1>15, <1>16, <1>17, <1>18, <1>19 DEF Next

LEMMA InitRoute == Init => Route
BY DEF Init, Route

\* A review past its gate has changed one file of .tasks; its commit is that file.
ProposalInv ==
  kind = "review" =>
    /\ pc \in {"status", "commit"} => tree \cap TaskPaths = {"task"}
    /\ pc = "push" \/ pushed => commit = tree \cap TaskPaths

LEMMA NextProposal == Route /\ ProposalInv /\ [Next]_vars => ProposalInv'
<1> SUFFICES ASSUME Route, ProposalInv, [Next]_vars
             PROVE  ProposalInv'
  OBVIOUS
<1> USE PhaseNames
    DEF Route, ProposalInv, TaskPaths, Committed, At, Goto, Keep, work, publication
<1>1. CASE Begin
  BY <1>1 DEF Begin
<1>2. CASE SetUp
  BY <1>2 DEF SetUp
<1>3. CASE AskForProbes \/ AskSkeptic \/ AskForTask \/ AskForWork
  <2>1. PICK p \in {"facts", "skeptic", "task", "work"} :
          /\ pc = p
          /\ pc' = Save[p]
          /\ UNCHANGED <<kind, cause, outputs, seen, publication>>
    BY <1>3, AskSteps
  <2> QED
    BY <2>1
<1>7. CASE SaveOutput
  <2>1. PICK p \in Phase :
          /\ pc = Save[p]
          /\ outputs' = outputs \cup {Output[p]}
          /\ \/ failing /\ Keep(p)
             \/ ~ failing /\ Goto(AfterSave[p])
          /\ UNCHANGED <<asked, plan, tree, file, seen, publication>>
    BY <1>7, SaveSteps
  <2>2. p \in {"facts", "skeptic", "task", "work"}
    BY DEF Phase
  <2> QED
    BY <2>1, <2>2
<1>8. CASE RunProbes
  BY <1>8 DEF RunProbes
<1>9. CASE OnlyThisTaskChanged
  BY <1>9 DEF OnlyThisTaskChanged
<1>10. CASE SetProposed
  BY <1>10 DEF SetProposed
<1>11. CASE ChangedFiles
  BY <1>11 DEF ChangedFiles
<1>12. CASE RunCriterion
  BY <1>12 DEF RunCriterion
<1>13. CASE Commit
  BY <1>13 DEF Commit
<1>14. CASE Push
  BY <1>14 DEF Push
<1>15. CASE CreatePR
  BY <1>15 DEF CreatePR
<1>16. CASE Finish
  BY <1>16 DEF Finish
<1>17. CASE Refused
  BY <1>17, WorkingPlaces DEF Refused, Places
<1>18. CASE Kill
  BY <1>18, WorkingPlaces DEF Kill, Places
<1>19. CASE UNCHANGED vars
  BY <1>19 DEF vars
<1> QED
  BY <1>1, <1>2, <1>3, <1>7, <1>8, <1>9, <1>10, <1>11, <1>12,
     <1>13, <1>14, <1>15, <1>16, <1>17, <1>18, <1>19 DEF Next

\* A review publishes what it changed under .tasks and nothing else, whatever its
\* phases and the probes did in the worktree.
THEOREM ProposesTheTaskOnly == Spec => []NothingProposedIsDropped
<1>1. Init => ProposalInv
  BY DEF Init, ProposalInv
<1>2. ProposalInv => NothingProposedIsDropped
  BY DEF ProposalInv, NothingProposedIsDropped
<1> QED
  BY <1>1, <1>2, InitTypeOK, NextTypeOK, InitRoute, NextRoute, NextProposal, PTL DEF Spec

\* Work past its first gate has changed something it will commit, and past its
\* criterion has in its worktree only what the criterion saw or wrote.
CriterionInv ==
  kind = "work" =>
    /\ pc \in {"criterion", "commit"} => tree \cap Committed # {}
    /\ pc = "commit" => tree \subseteq seen \cup CriterionWrites
    /\ pc = "push" \/ pushed =>
         commit # {} /\ commit \subseteq seen \cup CriterionWrites

LEMMA NextCriterion == Route /\ CriterionInv /\ [Next]_vars => CriterionInv'
<1> SUFFICES ASSUME Route, CriterionInv, [Next]_vars
             PROVE  CriterionInv'
  OBVIOUS
<1> USE PhaseNames
    DEF Route, CriterionInv, Committed, At, Goto, Keep, work, publication
<1>1. CASE Begin
  BY <1>1 DEF Begin
<1>2. CASE SetUp
  BY <1>2 DEF SetUp
<1>3. CASE AskForProbes \/ AskSkeptic \/ AskForTask \/ AskForWork
  <2>1. PICK p \in {"facts", "skeptic", "task", "work"} :
          /\ pc = p
          /\ pc' = Save[p]
          /\ UNCHANGED <<kind, cause, outputs, seen, publication>>
    BY <1>3, AskSteps
  <2> QED
    BY <2>1
<1>7. CASE SaveOutput
  <2>1. PICK p \in Phase :
          /\ pc = Save[p]
          /\ outputs' = outputs \cup {Output[p]}
          /\ \/ failing /\ Keep(p)
             \/ ~ failing /\ Goto(AfterSave[p])
          /\ UNCHANGED <<asked, plan, tree, file, seen, publication>>
    BY <1>7, SaveSteps
  <2>2. p \in {"facts", "skeptic", "task", "work"}
    BY DEF Phase
  <2> QED
    BY <2>1, <2>2
<1>8. CASE RunProbes
  BY <1>8 DEF RunProbes
<1>9. CASE OnlyThisTaskChanged
  BY <1>9 DEF OnlyThisTaskChanged
<1>10. CASE SetProposed
  BY <1>10 DEF SetProposed
<1>11. CASE ChangedFiles
  BY <1>11 DEF ChangedFiles
<1>12. CASE RunCriterion
  BY <1>12 DEF RunCriterion
<1>13. CASE Commit
  BY <1>13 DEF Commit
<1>14. CASE Push
  BY <1>14 DEF Push
<1>15. CASE CreatePR
  BY <1>15 DEF CreatePR
<1>16. CASE Finish
  BY <1>16 DEF Finish
<1>17. CASE Refused
  BY <1>17, WorkingPlaces DEF Refused, Places
<1>18. CASE Kill
  BY <1>18, WorkingPlaces DEF Kill, Places
<1>19. CASE UNCHANGED vars
  BY <1>19 DEF vars
<1> QED
  BY <1>1, <1>2, <1>3, <1>7, <1>8, <1>9, <1>10, <1>11, <1>12,
     <1>13, <1>14, <1>15, <1>16, <1>17, <1>18, <1>19 DEF Next

\* A work branch holds only what its criterion was run on or wrote.
THEOREM CriterionDecides == Spec => []CriterionSawTheChange
<1>1. Init => CriterionInv
  BY DEF Init, CriterionInv
<1>2. CriterionInv => CriterionSawTheChange
  BY DEF CriterionInv, CriterionSawTheChange
<1> QED
  BY <1>1, <1>2, InitTypeOK, NextTypeOK, InitRoute, NextRoute, NextCriterion, PTL DEF Spec

-----------------------------------------------------------------------------
(* The status line *)

ReadsProposed(head) ==
  (\A i \in DOMAIN head : head[i].key # "padded") =>
    /\ StatusLines(head) # {}
    /\ \A i \in StatusLines(head) : head[i].key = "status" /\ head[i].is = "proposed"

\* After setStatus every line the parser or the queue reads says proposed, padded
\* keys apart.
LEMMA WithStatusReads ==
  ASSUME NEW head \in Seq(Line)
  PROVE  ReadsProposed(WithStatus(head, "proposed"))
<1> DEFINE new == WithStatus(head, "proposed")
<1>1. CASE HasStatus(head)
  <2>1. /\ DOMAIN new = DOMAIN head
        /\ \A i \in DOMAIN head : new[i] = IF head[i].key = "status"
                                           THEN StatusLine("proposed") ELSE head[i]
    BY <1>1 DEF WithStatus
  <2>2. \A i \in DOMAIN head : head[i] \in Line
    OBVIOUS
  <2>3. \A i \in DOMAIN new : new[i].key \in {"status", "padded", "other"}
    BY <2>1, <2>2 DEF Line, StatusLine
  <2>4. PICK k \in DOMAIN head : head[k].key = "status"
    BY <1>1 DEF HasStatus
  <2>5. k \in StatusLines(new)
    BY <2>1, <2>4 DEF StatusLines, StatusLine
  <2> QED
    BY <2>1, <2>3, <2>5 DEF ReadsProposed, StatusLines, StatusLine
<1>2. CASE ~ HasStatus(head)
  <2>1. <<StatusLine("proposed")>> \in Seq({StatusLine("proposed")})
    OBVIOUS
  <2>2. /\ Len(new) = 1 + Len(head)
        /\ DOMAIN new = 1..(1 + Len(head))
        /\ new[1] = StatusLine("proposed")
        /\ \A i \in DOMAIN new : i # 1 => i - 1 \in DOMAIN head /\ new[i] = head[i - 1]
    BY <1>2 DEF WithStatus
  <2>3. 1 \in StatusLines(new)
    BY <2>2 DEF StatusLines, StatusLine
  <2>4. \A i \in DOMAIN head : head[i] \in Line /\ head[i].key # "status"
    BY <1>2 DEF HasStatus
  <2>5. \A i \in DOMAIN new : i # 1 => new[i].key \in {"padded", "other"}
    BY <2>2, <2>4 DEF Line
  <2> QED
    BY <2>2, <2>3, <2>5 DEF ReadsProposed, StatusLines, StatusLine
<1> QED
  BY <1>1, <1>2

StatusInv ==
  kind = "review" /\ (pc \in {"commit", "push"} \/ pushed) => ReadsProposed(file.head)

LEMMA NextStatus == TypeOK /\ Route /\ StatusInv /\ [Next]_vars => StatusInv'
<1> SUFFICES ASSUME TypeOK, Route, StatusInv, [Next]_vars
             PROVE  StatusInv'
  OBVIOUS
<1>0. file \in File
  BY DEF TypeOK
<1> USE PhaseNames
    DEF Route, StatusInv, At, Goto, Keep, work, publication
<1>1. CASE Begin
  BY <1>1 DEF Begin
<1>2. CASE SetUp
  BY <1>2 DEF SetUp
<1>3. CASE AskForProbes \/ AskSkeptic \/ AskForTask \/ AskForWork
  <2>1. PICK p \in {"facts", "skeptic", "task", "work"} :
          /\ pc = p
          /\ pc' = Save[p]
          /\ UNCHANGED <<kind, cause, outputs, seen, publication>>
    BY <1>3, AskSteps
  <2> QED
    BY <2>1
<1>7. CASE SaveOutput
  <2>1. PICK p \in Phase :
          /\ pc = Save[p]
          /\ outputs' = outputs \cup {Output[p]}
          /\ \/ failing /\ Keep(p)
             \/ ~ failing /\ Goto(AfterSave[p])
          /\ UNCHANGED <<asked, plan, tree, file, seen, publication>>
    BY <1>7, SaveSteps
  <2>2. p \in {"facts", "skeptic", "task", "work"}
    BY DEF Phase
  <2> QED
    BY <2>1, <2>2
<1>8. CASE RunProbes
  BY <1>8 DEF RunProbes
<1>9. CASE OnlyThisTaskChanged
  BY <1>9 DEF OnlyThisTaskChanged
<1>10. CASE SetProposed
  <2>1. file.head \in Seq(Line)
    BY <1>0 DEF File
  <2>2. CASE file.closed
    <3>1. file'.head = WithStatus(file.head, "proposed")
      BY <1>0, <1>10, <2>2 DEF SetProposed, File
    <3> QED
      BY <2>1, <3>1, WithStatusReads
  <2>3. CASE ~ file.closed
    BY <1>10, <2>3 DEF SetProposed
  <2> QED
    BY <2>2, <2>3
<1>11. CASE ChangedFiles
  BY <1>11 DEF ChangedFiles
<1>12. CASE RunCriterion
  BY <1>12 DEF RunCriterion
<1>13. CASE Commit
  BY <1>13 DEF Commit
<1>14. CASE Push
  BY <1>14 DEF Push
<1>15. CASE CreatePR
  BY <1>15 DEF CreatePR
<1>16. CASE Finish
  BY <1>16 DEF Finish
<1>17. CASE Refused
  BY <1>17, WorkingPlaces DEF Refused, Places
<1>18. CASE Kill
  BY <1>18, WorkingPlaces DEF Kill, Places
<1>19. CASE UNCHANGED vars
  BY <1>19 DEF vars
<1> QED
  BY <1>1, <1>2, <1>3, <1>7, <1>8, <1>9, <1>10, <1>11, <1>12,
     <1>13, <1>14, <1>15, <1>16, <1>17, <1>18, <1>19 DEF Next

\* A published proposal reads as proposed and is in no queue, unless its front
\* matter has a padded status key or its body quotes a status line.
THEOREM Proposes == Spec => []ProposedUnlessPadded
<1>1. Init => StatusInv
  BY DEF Init, StatusInv
<1>2. StatusInv => ProposedUnlessPadded
  BY DEF StatusInv, ReadsProposed, ProposedUnlessPadded, Reads, Queued, StatusLines
<1> QED
  BY <1>1, <1>2, InitTypeOK, NextTypeOK, InitRoute, NextRoute, NextStatus, PTL DEF Spec

-----------------------------------------------------------------------------
(* The promise of JobLifecycle *)

LEMMA InitPromise == Init => L!Init
BY WorkingPlaces DEF Init, L!Init, Life, Places, Landed

LEMMA NextPromise == TypeOK /\ Route /\ [Next]_vars => [L!Next]_L!lifeVars
<1> SUFFICES ASSUME TypeOK, Route, [Next]_vars
             PROVE  [L!Next]_L!lifeVars
  OBVIOUS
<1> DEFINE here == "this"
<1>0. here \in {"this"}
  OBVIOUS
<1> USE PhaseNames, WorkingPlaces
    DEF TypeOK, Step, Places, Landed, Ended, At, Goto, Keep, work, publication, Route,
        Life, L!lifeVars
<1>1. CASE Begin
  <2>1. L!Start(here)
    BY <1>1 DEF Begin, L!Start
  <2> QED
    BY <1>0, <2>1 DEF L!Next
<1>2. ASSUME pc \in Places, pc' \in Places, UNCHANGED pushed
      PROVE  UNCHANGED L!lifeVars
  <2>1. Life' = Life
    BY <1>2
  <2>2. pc \notin {"kept", "killed"} /\ pc' \notin {"kept", "killed"}
    BY <1>2
  <2> QED
    BY <1>2, <2>1, <2>2
<1>3. ASSUME pc \in Places \cup {"request", "clean"}, pc' \in {"kept", "killed"},
             pushed => pushed'
      PROVE  L!Next
  <2>1. L!Fail(here)
    BY <1>3 DEF L!Fail
  <2> QED
    BY <1>0, <2>1 DEF L!Next
<1>4. CASE SetUp
  BY <1>2, <1>4 DEF SetUp
<1>13. CASE AskForProbes \/ AskSkeptic \/ AskForTask \/ AskForWork
  <2>1. PICK p \in {"facts", "skeptic", "task", "work"} :
          pc = p /\ pc' = Save[p] /\ UNCHANGED publication
    BY <1>13, AskSteps
  <2> QED
    BY <1>2, <2>1
<1>5. CASE SaveOutput
  <2>1. PICK p \in Phase :
          /\ pc = Save[p]
          /\ \/ failing /\ Keep(p)
             \/ ~ failing /\ Goto(AfterSave[p])
          /\ UNCHANGED publication
    BY <1>5, SaveSteps
  <2>2. p \in {"facts", "skeptic", "task", "work"}
    BY DEF Phase
  <2>3. pc \in Places /\ UNCHANGED pushed
    BY <2>1, <2>2
  <2>4. CASE failing /\ Keep(p)
    BY <1>3, <2>3, <2>4
  <2>5. CASE ~ failing /\ Goto(AfterSave[p])
    <3>1. pc' \in Places
      BY <2>2, <2>5
    <3> QED
      BY <1>2, <2>3, <3>1
  <2> QED
    BY <2>1, <2>4, <2>5
<1>6. CASE RunProbes \/ OnlyThisTaskChanged \/ SetProposed \/ ChangedFiles
             \/ RunCriterion \/ Commit
  BY <1>2, <1>3, <1>6
     DEF RunProbes, OnlyThisTaskChanged, SetProposed, ChangedFiles, RunCriterion, Commit
<1>7. CASE Push
  <2>1. L!Land(here)
    BY <1>7 DEF Push, L!Land
  <2> QED
    BY <1>0, <2>1 DEF L!Next
<1>8. CASE CreatePR
  BY <1>8 DEF CreatePR
<1>9. CASE Finish
  <2>1. L!Finish(here)
    BY <1>9 DEF Finish, L!Finish
  <2> QED
    BY <1>0, <2>1 DEF L!Next
<1>10. CASE Refused
  BY <1>3, <1>10 DEF Refused
<1>11. CASE Kill
  BY <1>3, <1>11 DEF Kill
<1>12. CASE UNCHANGED vars
  BY <1>12 DEF vars
<1> QED
  BY <1>1, <1>4, <1>5, <1>6, <1>7, <1>8, <1>9, <1>10, <1>11, <1>12, <1>13 DEF Next

\* Inside its worktree the job implements JobLifecycle.
THEOREM PhasesKeepThePromise == Spec => Lifecycle
BY InitPromise, NextPromise, InitTypeOK, NextTypeOK, InitRoute, NextRoute, PTL
   DEF Spec, Lifecycle, L!Spec
=============================================================================
