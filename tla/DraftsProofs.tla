---------------------------- MODULE DraftsProofs ----------------------------
(* Proofs about Drafts: its types, that open drafts keep their work, and   *)
(* that a merge brings what was acknowledged before it.                    *)
EXTENDS Drafts, TLAPS

(* The steps of Create once there is a branch, and those of Merge and      *)
(* Discard once the draft is given up.                                     *)
Creating == {"branched", "created", "saveNew"}
Closing  == {"remove", "removeBranch", "removed", "save"}

(* What is known of the draft a manager works on: while it is created no   *)
(* other manager knows it, it is merged while it is open or after another  *)
(* manager has closed it, and it is removed when it is closed.             *)
Tasks ==
  \A m \in Managers : 
    /\ task[m].pc = "idle" <=> task[m] = NoTask
    /\ task[m].pc \in Creating =>
         /\ status[task[m].draft] = "creating" /\ task[m].draft \in branches 
         /\ task[m].draft \in trees <=> task[m].pc # "branched"
         /\ task[m].draft \in active[m] <=> task[m].pc # "branched"
         /\ task[m].draft \notin manifest.ids
         /\ \A n \in Managers \ {m} : task[m].draft \notin active[n] /\ task[n].draft # task[m].draft
    /\ task[m].pc \in {"merge", "ff", "return"} => status[task[m].draft] \in {"open", "closed"}
    /\ task[m].pc \in Closing => status[task[m].draft] = "closed"

(* Manifest and managers list only drafts that have been created, except   *)
(* the one a manager is creating; an open draft has its branch and its     *)
(* worktree.                                                               *)
Known ==
  \A d \in Drafts :
    /\ d \in manifest.ids => status[d] \in {"open", "closed"}
    /\ \A m \in Managers : d \in active[m] =>
         status[d] \in {"open", "closed"} \/ (task[m].pc \in Creating /\ task[m].draft = d)
    /\ status[d] = "new" => d \notin trees
    /\ status[d] = "open" => d \in branches \intersect trees

(* A write goes to a draft that has been created, and once stored is in    *)
(* its worktree for as long as there is one.                               *)
Writing ==
  \A w \in Writes, d \in Drafts : write[w].at = d =>
    /\ status[d] # "new" 
    /\ \A m \in Managers : task[m].draft = d => task[m].pc # "branched"
    /\ write[w].pc \in {"stored", "acked"} /\ d \in trees => w \in tree[d]

(* What was acknowledged before Merge is in the worktree, and once         *)
(* committed on the branch.                                                *)
Merging ==
  \A m \in Managers : 
    /\ task[m].pc = "merge" /\ task[m].draft \in trees => task[m].acked \subseteq tree[task[m].draft]
    /\ task[m].pc = "ff" /\ task[m].auto => task[m].acked \subseteq branch[task[m].draft]

(* What every step keeps.                                                  *)
DraftsInv == DraftsTypeOK /\ Tasks /\ Known /\ Writing /\ Merging

(* Where nothing is under way, the task and the target are in their types. *)
LEMMA NoWriteType == NoTask \in Task /\ "none" \in Drafts \union {"none"}
BY DEF NoTask, Task

(* Failures stay within their bound.                                       *)
LEMMA TroubleFacts ==
  ASSUME DraftsTypeOK, Trouble
  PROVE  trouble' \in 0 .. MaxTrouble
BY DraftsAssumption DEF DraftsTypeOK, Trouble

(* Every step keeps the types.                                             *)
LEMMA StepDraftsTypes ==
  ASSUME DraftsTypeOK, [DraftsNext]_draftVars
  PROVE  DraftsTypeOK'

<1>1. ASSUME NEW m \in Managers, StartManager(m)
       PROVE  DraftsTypeOK'
  BY <1>1, NoWriteType DEF StartManager, Orphans, DraftsTypeOK
<1>2. ASSUME NEW m \in Managers, StopManager(m)
       PROVE  DraftsTypeOK'
  BY <1>2, NoWriteType DEF StopManager, Orphans, DraftsTypeOK
<1>3. ASSUME NEW m \in Managers, NEW d \in Drafts, CreateBranch(m, d)
       PROVE  DraftsTypeOK'
  <2>1. task' \in [Managers -> Task]
    BY <1>3, NoWriteType DEF CreateBranch, DraftsTypeOK, Task
  <2>2. {branch', tree'} \subseteq [Drafts -> SUBSET Writes] /\ status' \in [Drafts -> {"new", "creating", "open", "closed"}]
    BY <1>3 DEF CreateBranch, DraftsTypeOK
  <2>3. \A n \in Managers : task'[n] = NoTask \/ (n \in running' /\ task'[n].draft \in Drafts)
    BY <1>3 DEF CreateBranch, DraftsTypeOK, NoTask
  <2> QED BY <1>3, <2>1, <2>2, <2>3 DEF CreateBranch, DraftsTypeOK
<1>4. ASSUME NEW m \in Managers, AddWorktree(m)
       PROVE  DraftsTypeOK'
  <2>1. task[m].draft \in Drafts /\ task[m] \in Task /\ m \in running
    BY <1>4 DEF AddWorktree, DraftsTypeOK, NoTask
  <2>2. task' \in [Managers -> Task]
    BY <1>4, <2>1 DEF AddWorktree, DraftsTypeOK, Task
  <2>3. branch[task[m].draft] \in SUBSET Writes
    BY <2>1 DEF DraftsTypeOK
  <2>4. branch' = branch /\ tree' \in [Drafts -> SUBSET Writes]
    BY <1>4, <2>3 DEF AddWorktree, DraftsTypeOK
  <2>5. \A n \in Managers : task'[n] = NoTask \/ (n \in running' /\ task'[n].draft \in Drafts)
    BY <1>4, <2>1 DEF AddWorktree, DraftsTypeOK
  <2> QED BY <1>4, <2>1, <2>2, <2>4, <2>5 DEF AddWorktree, DraftsTypeOK
<1>5. ASSUME NEW m \in Managers, AddWorktreeFails(m)
       PROVE  DraftsTypeOK'
  BY <1>5, NoWriteType, TroubleFacts DEF AddWorktreeFails, DraftsTypeOK
<1>6. ASSUME NEW m \in Managers, BeginSave(m)
       PROVE  DraftsTypeOK'
  BY <1>6, NoWriteType DEF BeginSave, DraftsTypeOK, gitState, Task, NoTask
<1>7. ASSUME NEW m \in Managers, Save(m)
       PROVE  DraftsTypeOK'
  BY <1>7, NoWriteType DEF Save, DraftsTypeOK, gitState
<1>8. ASSUME NEW m \in Managers, NEW d \in Drafts, MergeCalled(m, d)
       PROVE  DraftsTypeOK'
  BY <1>8, NoWriteType DEF MergeCalled, Acked, DraftsTypeOK, gitState, Task
<1>9. ASSUME NEW m \in Managers, AutoCommit(m)
       PROVE  DraftsTypeOK'
  <2>1. task[m].draft \in Drafts /\ task[m] \in Task /\ m \in running
    BY <1>9 DEF AutoCommit, DraftsTypeOK, NoTask
  <2>2. task' \in [Managers -> Task]
    BY <1>9, <2>1 DEF AutoCommit, DraftsTypeOK, Task
  <2>3. branch[task[m].draft] \union tree[task[m].draft] \in SUBSET Writes
    BY <2>1 DEF DraftsTypeOK
  <2>4. tree' = tree /\ branch' \in [Drafts -> SUBSET Writes]
    BY <1>9, <2>3 DEF AutoCommit, Committed, DraftsTypeOK
  <2>5. \A n \in Managers : task'[n] = NoTask \/ (n \in running' /\ task'[n].draft \in Drafts)
    BY <1>9, <2>1 DEF AutoCommit, DraftsTypeOK
  <2> QED BY <1>9, <2>1, <2>2, <2>4, <2>5 DEF AutoCommit, DraftsTypeOK
<1>10. ASSUME NEW m \in Managers, AutoCommitFails(m)
       PROVE  DraftsTypeOK'
  <2>1. task[m].draft \in Drafts /\ task[m] \in Task /\ m \in running
    BY <1>10 DEF AutoCommitFails, DraftsTypeOK, NoTask
  <2>2. task' \in [Managers -> Task]
    BY <1>10, <2>1 DEF AutoCommitFails, DraftsTypeOK, Task
  <2>3. \A n \in Managers : task'[n] = NoTask \/ (n \in running' /\ task'[n].draft \in Drafts)
    BY <1>10, <2>1 DEF AutoCommitFails, DraftsTypeOK
  <2>4. trouble' \in 0 .. MaxTrouble
    BY <1>10, TroubleFacts DEF AutoCommitFails, DraftsTypeOK
  <2> QED BY <1>10, <2>2, <2>3, <2>4 DEF AutoCommitFails, gitState, DraftsTypeOK
<1>11. ASSUME NEW m \in Managers, MergeBranch(m)
       PROVE  DraftsTypeOK'
  BY <1>11, NoWriteType DEF MergeBranch, FastForward, DraftsTypeOK, Task, NoTask
<1>12. ASSUME NEW m \in Managers, MergeFails(m)
       PROVE  DraftsTypeOK'
  <2>1. trouble' \in 0 .. MaxTrouble
    BY <1>12, TroubleFacts DEF MergeFails, FastForward, DraftsTypeOK
  <2> QED BY <1>12, <2>1, NoWriteType DEF MergeFails, Conflicted, DraftsTypeOK, gitState, Task, NoTask
<1>13. ASSUME NEW m \in Managers, MergeReturns(m)
       PROVE  DraftsTypeOK'
  BY <1>13, NoWriteType DEF MergeReturns, DraftsTypeOK, gitState
<1>14. ASSUME NEW m \in Managers, NEW d \in Drafts, DiscardCalled(m, d)
       PROVE  DraftsTypeOK'
  BY <1>14, NoWriteType DEF DiscardCalled, DraftsTypeOK, gitState, Task
<1>15. ASSUME NEW m \in Managers, RemoveWorktree(m)
       PROVE  DraftsTypeOK'
  BY <1>15, NoWriteType DEF RemoveWorktree, DraftsTypeOK, Task, NoTask
<1>16. ASSUME NEW m \in Managers, RemoveBranch(m)
       PROVE  DraftsTypeOK'
  BY <1>16, NoWriteType DEF RemoveBranch, DraftsTypeOK, Task, NoTask
<1>17. ASSUME NEW w \in Writes, NEW at \in WriteTargets, WriteTo(w, at)
       PROVE  DraftsTypeOK'
  BY <1>17, NoWriteType DEF WriteTo, DraftsTypeOK, gitState
<1>18. ASSUME NEW w \in Writes, StoreWrite(w)
       PROVE  DraftsTypeOK'
  BY <1>18, NoWriteType DEF StoreWrite, DraftsTypeOK
<1>19. ASSUME NEW w \in Writes, CommitWrite(w)
       PROVE  DraftsTypeOK'
  BY <1>19, NoWriteType DEF CommitWrite, DraftsTypeOK
<1>20. ASSUME NEW w \in Writes, CommitWriteFails(w)
       PROVE  DraftsTypeOK'
  BY <1>20, TroubleFacts DEF CommitWriteFails, gitState, DraftsTypeOK
<1>21. CASE Crash
  <2>1. task' \in [Managers -> Task] /\ \A m \in Managers : task'[m] = NoTask
    BY <1>21, NoWriteType DEF Crash
  <2>2. \A w \in Writes : write'[w].pc \in {"new", "started", "stored", "acked", "failed"} /\ write'[w].at = write[w].at
    BY <1>21 DEF Crash, DraftsTypeOK
  <2>3. write' \in [Writes -> [pc : {"new", "started", "stored", "acked", "failed"}, at : WriteTargets \union {"none"}]]
    BY <1>21 DEF Crash, DraftsTypeOK
  <2>4. trouble' \in 0 .. MaxTrouble
    BY <1>21, TroubleFacts DEF Crash
  <2> QED BY <1>21, <2>1, <2>3, <2>4 DEF Crash, gitState, DraftsTypeOK
<1>22. CASE UNCHANGED draftVars
  BY <1>22, NoWriteType DEF draftVars, DraftsTypeOK, gitState
<1> QED BY <1>1, <1>2, <1>3, <1>4, <1>5, <1>6, <1>7, <1>8, <1>9, <1>10, <1>11, <1>12, <1>13, <1>14, <1>15, <1>16, <1>17, <1>18, <1>19, <1>20, <1>21, <1>22 DEF DraftsNext

(* Every step keeps what is known of the drafts that managers work on.     *)
LEMMA StepTasks ==
  ASSUME DraftsInv, [DraftsNext]_draftVars
  PROVE  Tasks'
<1>i. DraftsTypeOK /\ DraftsTypeOK' /\ Tasks /\ Known
  BY StepDraftsTypes DEF DraftsInv
<1>1. ASSUME NEW m \in Managers, StartManager(m)
       PROVE  Tasks'
  <2>1. /\ task' = task /\ status' = status /\ trees' = trees /\ task[m] = NoTask
        /\ \A n \in Managers \ {m} : active'[n] = active[n]
        /\ active'[m] \subseteq manifest.ids /\ manifest'.ids \subseteq manifest.ids
        /\ branches' \subseteq branches /\ branches \ manifest.ids \subseteq branches'
    BY <1>1, <1>i DEF StartManager, Orphans, DraftsTypeOK
  <2>2. NoTask.pc = "idle"
    BY DEF NoTask
  <2> QED BY <1>i, <2>1, <2>2 DEF Tasks, Creating, Closing
<1>2. ASSUME NEW m \in Managers, StopManager(m)
       PROVE  Tasks'
  BY <1>2, <1>i DEF StopManager, Orphans, Tasks, Creating
<1>3. ASSUME NEW m \in Managers, NEW d \in Drafts, CreateBranch(m, d)
       PROVE  Tasks'
  <2>1. /\ status[d] = "new" /\ d \notin manifest.ids /\ d \notin trees
        /\ \A n \in Managers : d \notin active[n] /\ task[n].draft # d
    <3>1. status[d] = "new" /\ d # "none"
      BY <1>3, DraftsAssumption DEF CreateBranch
    <3>2. d \notin manifest.ids /\ d \notin trees
      BY <1>i, <3>1 DEF Known
    <3>3. ASSUME NEW n \in Managers PROVE task[n].draft # d
      <4>1. task[n].pc \in Creating \union {"merge", "ff", "return"} \union Closing => status[task[n].draft] # "new"
        BY <1>i DEF Tasks
      <4>2. task[n] \in Task
        BY <1>i DEF DraftsTypeOK
      <4>3. task[n].pc = "idle" => task[n].draft = "none"
        BY <1>i DEF Tasks, NoTask
      <4> QED BY <3>1, <4>1, <4>2, <4>3 DEF Task, Creating, Closing
    <3>4. \A n \in Managers : d \notin active[n]
      BY <1>i, <3>1, <3>3 DEF Known
    <3> QED BY <3>1, <3>2, <3>3, <3>4
  <2>2. task'[m].pc = "branched" /\ task'[m].draft = d
        /\ \A n \in Managers \ {m} : task'[n] = task[n]
    BY <1>3, <1>i DEF CreateBranch, DraftsTypeOK
  <2>3. status'[d] = "creating" /\ \A e \in Drafts \ {d} : status'[e] = status[e]
    BY <1>3, <1>i DEF CreateBranch, DraftsTypeOK
  <2>4. \A n \in Managers \ {m} : task[n] = NoTask \/ task[n].draft \in Drafts \ {d}
    BY <1>i, <2>1 DEF DraftsTypeOK
  <2>5. branches' = branches \union {d} /\ UNCHANGED <<trees, active, manifest>>
    BY <1>3 DEF CreateBranch
  <2>6. ASSUME NEW n \in Managers \ {m}, task[n] # NoTask
        PROVE  task'[n] = task[n] /\ status'[task[n].draft] = status[task[n].draft] /\ task[n].draft # d
    BY <2>2, <2>3, <2>4, <2>6
  <2>7. \A n \in Managers \ {m} : task[n] = NoTask => task'[n] = NoTask /\ NoTask.pc = "idle"
    BY <2>2 DEF NoTask
  <2>8. task'[m] # NoTask
    BY <2>2 DEF NoTask
  <2> QED BY <1>i, <2>1, <2>2, <2>3, <2>5, <2>6, <2>7, <2>8 DEF Tasks, Creating, Closing
<1>4. ASSUME NEW m \in Managers, AddWorktree(m)
       PROVE  Tasks'
  BY <1>4, <1>i DEF AddWorktree, DraftsTypeOK, NoTask, Tasks, Creating, Closing
<1>5. ASSUME NEW m \in Managers, AddWorktreeFails(m)
       PROVE  Tasks'
  BY <1>5, <1>i, DraftsAssumption DEF AddWorktreeFails, Trouble, DraftsTypeOK, NoTask, Tasks, Creating, Closing
<1>6. ASSUME NEW m \in Managers, BeginSave(m)
       PROVE  Tasks'
  BY <1>6, <1>i DEF BeginSave, gitState, NoTask, Tasks, Creating, Closing
<1>7. ASSUME NEW m \in Managers, Save(m)
       PROVE  Tasks'
  BY <1>7, <1>i, DraftsAssumption DEF Save, DraftsTypeOK, gitState, NoTask, Tasks, Creating, Closing
<1>8. ASSUME NEW m \in Managers, NEW d \in Drafts, MergeCalled(m, d)
       PROVE  Tasks'
  BY <1>8, <1>i DEF MergeCalled, Acked, gitState, Tasks, Known, Creating, Closing
<1>9. ASSUME NEW m \in Managers, AutoCommit(m)
       PROVE  Tasks'
  BY <1>9, <1>i DEF AutoCommit, Committed, NoTask, Tasks, Creating, Closing
<1>10. ASSUME NEW m \in Managers, AutoCommitFails(m)
       PROVE  Tasks'
  <2>1. task[m].pc = "merge" /\ task'[m].pc = "ff" /\ task'[m].draft = task[m].draft
        /\ \A n \in Managers \ {m} : task'[n] = task[n]
    BY <1>10, <1>i DEF AutoCommitFails, DraftsTypeOK
  <2>2. UNCHANGED <<status, branches, trees, active, manifest>>
    BY <1>10 DEF AutoCommitFails, gitState
  <2> QED BY <1>i, <2>1, <2>2 DEF Tasks, NoTask, Creating, Closing
<1>11. ASSUME NEW m \in Managers, MergeBranch(m)
       PROVE  Tasks'
  BY <1>11, <1>i DEF MergeBranch, FastForward, DraftsTypeOK, NoTask, Tasks, Creating
<1>12. ASSUME NEW m \in Managers, MergeFails(m)
       PROVE  Tasks'
  BY <1>12, <1>i DEF MergeFails, Conflicted, gitState, NoTask, Tasks, Creating, Closing
<1>13. ASSUME NEW m \in Managers, MergeReturns(m)
       PROVE  Tasks'
  BY <1>13, <1>i, DraftsAssumption DEF MergeReturns, DraftsTypeOK, gitState, NoTask, Tasks, Creating, Closing
<1>14. ASSUME NEW m \in Managers, NEW d \in Drafts, DiscardCalled(m, d)
       PROVE  Tasks'
  <2>1. task[m] = NoTask /\ d \in active[m] /\ task'[m].pc = "remove" /\ task'[m].draft = d
        /\ \A n \in Managers \ {m} : task'[n] = task[n]
    BY <1>14, <1>i DEF DiscardCalled, DraftsTypeOK
  <2>2. \A n \in Managers : task[n].pc \in Creating => task[n].draft # d
    BY <1>i, <2>1 DEF Tasks, Known, NoTask, Creating
  <2>3. status'[d] = "closed" /\ \A e \in Drafts \ {d} : status'[e] = status[e]
    BY <1>14, <1>i DEF DiscardCalled, DraftsTypeOK
  <2>4. UNCHANGED <<branches, trees, active, manifest>>
    BY <1>14 DEF DiscardCalled, gitState
  <2>5. \A n \in Managers : task[n] = NoTask \/ task[n].draft \in Drafts
    BY <1>i DEF DraftsTypeOK
  <2> QED BY <1>i, <2>1, <2>2, <2>3, <2>4, <2>5 DEF Tasks, NoTask, Creating, Closing
<1>15. ASSUME NEW m \in Managers, RemoveWorktree(m)
       PROVE  Tasks'
  BY <1>15, <1>i DEF RemoveWorktree, NoTask, Tasks, Creating, Closing
<1>16. ASSUME NEW m \in Managers, RemoveBranch(m)
       PROVE  Tasks'
  BY <1>16, <1>i DEF RemoveBranch, NoTask, Tasks, Creating, Closing
<1>17. ASSUME NEW w \in Writes, NEW at \in WriteTargets, WriteTo(w, at)
       PROVE  Tasks'
  BY <1>17, <1>i DEF WriteTo, gitState, Tasks
<1>18. ASSUME NEW w \in Writes, StoreWrite(w)
       PROVE  Tasks'
  BY <1>18, <1>i DEF StoreWrite, Tasks
<1>19. ASSUME NEW w \in Writes, CommitWrite(w)
       PROVE  Tasks'
  BY <1>19, <1>i DEF CommitWrite, Tasks
<1>20. ASSUME NEW w \in Writes, CommitWriteFails(w)
       PROVE  Tasks'
  BY <1>20, <1>i DEF CommitWriteFails, Trouble, gitState, Tasks
<1>21. CASE Crash
  BY <1>21, <1>i DEF Crash, Trouble, NoTask, Tasks, Creating, Closing
<1>22. CASE UNCHANGED draftVars
  BY <1>22, <1>i DEF draftVars, gitState, Tasks
<1> QED BY <1>1, <1>2, <1>3, <1>4, <1>5, <1>6, <1>7, <1>8, <1>9, <1>10, <1>11, <1>12, <1>13, <1>14, <1>15, <1>16, <1>17, <1>18, <1>19, <1>20, <1>21, <1>22 DEF DraftsNext

(* Every step keeps what is known of the lists and of open drafts.         *)
LEMMA StepKnown ==
  ASSUME DraftsInv, [DraftsNext]_draftVars
  PROVE  Known'
<1>i. DraftsTypeOK /\ DraftsTypeOK' /\ Tasks /\ Known
  BY StepDraftsTypes DEF DraftsInv
<1>1. ASSUME NEW m \in Managers, StartManager(m)
       PROVE  Known'
  BY <1>1, <1>i DEF StartManager, Orphans, Known
<1>2. ASSUME NEW m \in Managers, StopManager(m)
       PROVE  Known'
  BY <1>2, <1>i DEF StopManager, Orphans, Tasks, Known, Creating
<1>3. ASSUME NEW m \in Managers, NEW d \in Drafts, CreateBranch(m, d)
       PROVE  Known'
  BY <1>3, <1>i DEF CreateBranch, Tasks, Known, Creating
<1>4. ASSUME NEW m \in Managers, AddWorktree(m)
       PROVE  Known'
  BY <1>4, <1>i DEF AddWorktree, Tasks, Known, Creating
<1>5. ASSUME NEW m \in Managers, AddWorktreeFails(m)
       PROVE  Known'
  BY <1>5, <1>i DEF AddWorktreeFails, Trouble, Tasks, Known, Creating
<1>6. ASSUME NEW m \in Managers, BeginSave(m)
       PROVE  Known'
  BY <1>6, <1>i DEF BeginSave, gitState, Known, Creating
<1>7. ASSUME NEW m \in Managers, Save(m)
       PROVE  Known'
  BY <1>7, <1>i DEF Save, DraftsTypeOK, gitState, Tasks, Known, Creating
<1>8. ASSUME NEW m \in Managers, NEW d \in Drafts, MergeCalled(m, d)
       PROVE  Known'
  BY <1>8, <1>i DEF MergeCalled, Acked, gitState, Tasks, Known, Creating
<1>9. ASSUME NEW m \in Managers, AutoCommit(m)
       PROVE  Known'
  BY <1>9, <1>i DEF AutoCommit, Committed, Tasks, Known
<1>10. ASSUME NEW m \in Managers, AutoCommitFails(m)
       PROVE  Known'
  BY <1>10, <1>i DEF AutoCommitFails, Trouble, DraftsTypeOK, gitState, Tasks, Known
<1>11. ASSUME NEW m \in Managers, MergeBranch(m)
       PROVE  Known'
  BY <1>11, <1>i DEF MergeBranch, FastForward, DraftsTypeOK, Known
<1>12. ASSUME NEW m \in Managers, MergeFails(m)
       PROVE  Known'
  BY <1>12, <1>i DEF MergeFails, Conflicted, gitState, Tasks, Known
<1>13. ASSUME NEW m \in Managers, MergeReturns(m)
       PROVE  Known'
  BY <1>13, <1>i DEF MergeReturns, gitState, Tasks, Known
<1>14. ASSUME NEW m \in Managers, NEW d \in Drafts, DiscardCalled(m, d)
       PROVE  Known'
  BY <1>14, <1>i DEF DiscardCalled, gitState, Tasks, Known, Creating
<1>15. ASSUME NEW m \in Managers, RemoveWorktree(m)
       PROVE  Known'
  BY <1>15, <1>i DEF RemoveWorktree, Tasks, Known, Closing
<1>16. ASSUME NEW m \in Managers, RemoveBranch(m)
       PROVE  Known'
  BY <1>16, <1>i DEF RemoveBranch, Tasks, Known, Closing
<1>17. ASSUME NEW w \in Writes, NEW at \in WriteTargets, WriteTo(w, at)
       PROVE  Known'
  BY <1>17, <1>i DEF WriteTo, gitState, Known
<1>18. ASSUME NEW w \in Writes, StoreWrite(w)
       PROVE  Known'
  BY <1>18, <1>i DEF StoreWrite, Known
<1>19. ASSUME NEW w \in Writes, CommitWrite(w)
       PROVE  Known'
  BY <1>19, <1>i DEF CommitWrite, Known
<1>20. ASSUME NEW w \in Writes, CommitWriteFails(w)
       PROVE  Known'
  BY <1>20, <1>i DEF CommitWriteFails, Trouble, gitState, Known
<1>21. CASE Crash
  BY <1>21, <1>i DEF Crash, Trouble, gitState, Known
<1>22. CASE UNCHANGED draftVars
  BY <1>22, <1>i DEF draftVars, gitState, Known
<1> QED BY <1>1, <1>2, <1>3, <1>4, <1>5, <1>6, <1>7, <1>8, <1>9, <1>10, <1>11, <1>12, <1>13, <1>14, <1>15, <1>16, <1>17, <1>18, <1>19, <1>20, <1>21, <1>22 DEF DraftsNext

(* Every step keeps stored writes in their worktrees.                      *)
LEMMA StepWriting ==
  ASSUME DraftsInv, [DraftsNext]_draftVars
  PROVE  Writing'
<1>i. DraftsTypeOK /\ DraftsTypeOK' /\ Tasks /\ Known /\ Writing
  BY StepDraftsTypes DEF DraftsInv
<1>1. ASSUME NEW m \in Managers, StartManager(m)
       PROVE  Writing'
  BY <1>1, <1>i DEF StartManager, Orphans, Writing
<1>2. ASSUME NEW m \in Managers, StopManager(m)
       PROVE  Writing'
  BY <1>2, <1>i DEF StopManager, Orphans, Writing
<1>3. ASSUME NEW m \in Managers, NEW d \in Drafts, CreateBranch(m, d)
       PROVE  Writing'
  BY <1>3, <1>i DEF CreateBranch, Writing
<1>4. ASSUME NEW m \in Managers, AddWorktree(m)
       PROVE  Writing'
  BY <1>4, <1>i, DraftsAssumption DEF AddWorktree, Writing
<1>5. ASSUME NEW m \in Managers, AddWorktreeFails(m)
       PROVE  Writing'
  BY <1>5, <1>i DEF AddWorktreeFails, Trouble, NoTask, Writing
<1>6. ASSUME NEW m \in Managers, BeginSave(m)
       PROVE  Writing'
  BY <1>6, <1>i DEF BeginSave, gitState, Writing
<1>7. ASSUME NEW m \in Managers, Save(m)
       PROVE  Writing'
  BY <1>7, <1>i DEF Save, gitState, NoTask, Writing
<1>8. ASSUME NEW m \in Managers, NEW d \in Drafts, MergeCalled(m, d)
       PROVE  Writing'
  BY <1>8, <1>i DEF MergeCalled, Acked, gitState, Writing
<1>9. ASSUME NEW m \in Managers, AutoCommit(m)
       PROVE  Writing'
  BY <1>9, <1>i DEF AutoCommit, Committed, Writing
<1>10. ASSUME NEW m \in Managers, AutoCommitFails(m)
       PROVE  Writing'
  BY <1>10, <1>i DEF AutoCommitFails, Trouble, DraftsTypeOK, gitState, Writing
<1>11. ASSUME NEW m \in Managers, MergeBranch(m)
       PROVE  Writing'
  BY <1>11, <1>i DEF MergeBranch, FastForward, Writing
<1>12. ASSUME NEW m \in Managers, MergeFails(m)
       PROVE  Writing'
  BY <1>12, <1>i DEF MergeFails, Conflicted, gitState, Writing
<1>13. ASSUME NEW m \in Managers, MergeReturns(m)
       PROVE  Writing'
  BY <1>13, <1>i DEF MergeReturns, gitState, NoTask, Writing
<1>14. ASSUME NEW m \in Managers, NEW d \in Drafts, DiscardCalled(m, d)
       PROVE  Writing'
  BY <1>14, <1>i DEF DiscardCalled, gitState, Writing
<1>15. ASSUME NEW m \in Managers, RemoveWorktree(m)
       PROVE  Writing'
  BY <1>15, <1>i DEF RemoveWorktree, Writing
<1>16. ASSUME NEW m \in Managers, RemoveBranch(m)
       PROVE  Writing'
  BY <1>16, <1>i DEF RemoveBranch, Writing
<1>17. ASSUME NEW w \in Writes, NEW at \in WriteTargets, WriteTo(w, at)
       PROVE  Writing'
  BY <1>17, <1>i, DraftsAssumption DEF WriteTo, DraftsTypeOK, gitState, Tasks, Known, Writing, Creating
<1>18. ASSUME NEW w \in Writes, StoreWrite(w)
       PROVE  Writing'
  BY <1>18, <1>i DEF StoreWrite, DraftsTypeOK, Writing
<1>19. ASSUME NEW w \in Writes, CommitWrite(w)
       PROVE  Writing'
  BY <1>19, <1>i DEF CommitWrite, Writing
<1>20. ASSUME NEW w \in Writes, CommitWriteFails(w)
       PROVE  Writing'
  BY <1>20, <1>i DEF CommitWriteFails, Trouble, gitState, Writing
<1>21. CASE Crash
  BY <1>21, <1>i DEF Crash, Trouble, gitState, NoTask, Writing
<1>22. CASE UNCHANGED draftVars
  BY <1>22, <1>i DEF draftVars, gitState, Writing
<1> QED BY <1>1, <1>2, <1>3, <1>4, <1>5, <1>6, <1>7, <1>8, <1>9, <1>10, <1>11, <1>12, <1>13, <1>14, <1>15, <1>16, <1>17, <1>18, <1>19, <1>20, <1>21, <1>22 DEF DraftsNext

(* Every step keeps what a merge under way has got hold of.                *)
LEMMA StepMerging ==
  ASSUME DraftsInv, [DraftsNext]_draftVars
  PROVE  Merging'
<1>i. DraftsTypeOK /\ DraftsTypeOK' /\ Tasks /\ Known /\ Writing /\ Merging
  BY StepDraftsTypes DEF DraftsInv
<1>1. ASSUME NEW m \in Managers, StartManager(m)
       PROVE  Merging'
  BY <1>1, <1>i DEF StartManager, Orphans, Merging
<1>2. ASSUME NEW m \in Managers, StopManager(m)
       PROVE  Merging'
  BY <1>2, <1>i DEF StopManager, Orphans, Merging
<1>3. ASSUME NEW m \in Managers, NEW d \in Drafts, CreateBranch(m, d)
       PROVE  Merging'
  BY <1>3, <1>i DEF CreateBranch, Tasks, Merging
<1>4. ASSUME NEW m \in Managers, AddWorktree(m)
       PROVE  Merging'
  BY <1>4, <1>i DEF AddWorktree, Tasks, Merging, Creating
<1>5. ASSUME NEW m \in Managers, AddWorktreeFails(m)
       PROVE  Merging'
  BY <1>5, <1>i DEF AddWorktreeFails, Trouble, NoTask, Merging
<1>6. ASSUME NEW m \in Managers, BeginSave(m)
       PROVE  Merging'
  BY <1>6, <1>i DEF BeginSave, gitState, Merging
<1>7. ASSUME NEW m \in Managers, Save(m)
       PROVE  Merging'
  BY <1>7, <1>i DEF Save, gitState, NoTask, Merging
<1>8. ASSUME NEW m \in Managers, NEW d \in Drafts, MergeCalled(m, d)
       PROVE  Merging'
  BY <1>8, <1>i DEF MergeCalled, Acked, gitState, Writing, Merging
<1>9. ASSUME NEW m \in Managers, AutoCommit(m)
       PROVE  Merging'
  BY <1>9, <1>i DEF AutoCommit, Committed, DraftsTypeOK, Merging
<1>10. ASSUME NEW m \in Managers, AutoCommitFails(m)
       PROVE  Merging'
  BY <1>10, <1>i DEF AutoCommitFails, Trouble, DraftsTypeOK, gitState, Merging
<1>11. ASSUME NEW m \in Managers, MergeBranch(m)
       PROVE  Merging'
  BY <1>11, <1>i DEF MergeBranch, FastForward, Merging
<1>12. ASSUME NEW m \in Managers, MergeFails(m)
       PROVE  Merging'
  BY <1>12, <1>i DEF MergeFails, Conflicted, gitState, Merging
<1>13. ASSUME NEW m \in Managers, MergeReturns(m)
       PROVE  Merging'
  BY <1>13, <1>i DEF MergeReturns, gitState, NoTask, Merging
<1>14. ASSUME NEW m \in Managers, NEW d \in Drafts, DiscardCalled(m, d)
       PROVE  Merging'
  BY <1>14, <1>i DEF DiscardCalled, gitState, Merging
<1>15. ASSUME NEW m \in Managers, RemoveWorktree(m)
       PROVE  Merging'
  BY <1>15, <1>i DEF RemoveWorktree, Merging
<1>16. ASSUME NEW m \in Managers, RemoveBranch(m)
       PROVE  Merging'
  BY <1>16, <1>i DEF RemoveBranch, Merging
<1>17. ASSUME NEW w \in Writes, NEW at \in WriteTargets, WriteTo(w, at)
       PROVE  Merging'
  BY <1>17, <1>i DEF WriteTo, gitState, Merging
<1>18. ASSUME NEW w \in Writes, StoreWrite(w)
       PROVE  Merging'
  BY <1>18, <1>i DEF StoreWrite, Merging
<1>19. ASSUME NEW w \in Writes, CommitWrite(w)
       PROVE  Merging'
  BY <1>19, <1>i DEF CommitWrite, Merging
<1>20. ASSUME NEW w \in Writes, CommitWriteFails(w)
       PROVE  Merging'
  BY <1>20, <1>i DEF CommitWriteFails, Trouble, gitState, Merging
<1>21. CASE Crash
  BY <1>21, <1>i DEF Crash, Trouble, NoTask, Merging
<1>22. CASE UNCHANGED draftVars
  BY <1>22, <1>i DEF draftVars, gitState, Merging
<1> QED BY <1>1, <1>2, <1>3, <1>4, <1>5, <1>6, <1>7, <1>8, <1>9, <1>10, <1>11, <1>12, <1>13, <1>14, <1>15, <1>16, <1>17, <1>18, <1>19, <1>20, <1>21, <1>22 DEF DraftsNext

(* Nothing has been created at first.                                      *)
LEMMA InitDrafts == ASSUME DraftsInit PROVE DraftsInv
<1>1. DraftsTypeOK
  BY NoWriteType, DraftsAssumption DEF DraftsInit, DraftsTypeOK, NoWrite, WriteTargets
<1>2. \A m \in Managers : task[m] = NoTask /\ task[m].pc = "idle"
  BY DEF DraftsInit, NoTask
<1>3. \A w \in Writes : write[w].at = "none"
  BY DEF DraftsInit, NoWrite
<1> QED BY <1>1, <1>2, <1>3, DraftsAssumption DEF DraftsInit, DraftsInv, Tasks, Known, Writing, Merging, NoTask, Creating, Closing

(* Every step keeps the invariant.                                         *)
LEMMA StepDrafts == ASSUME DraftsInv, [DraftsNext]_draftVars PROVE DraftsInv'
BY StepDraftsTypes, StepTasks, StepKnown, StepWriting, StepMerging DEF DraftsInv

(* The invariant says what OpenDraftsKeepWork promises.                    *)
LEMMA DraftsInvKeepsWork == DraftsInv => OpenDraftsKeepWork
BY DEF DraftsInv, DraftsTypeOK, Known, Writing, OpenDraftsKeepWork, Acked

(* The invariant holds in every state, for any managers, drafts and        *)
(* writes.                                                                 *)
THEOREM DraftsInvariance == DraftsSpec => []DraftsInv
<1>1. DraftsInit => DraftsInv
  BY InitDrafts
<1>2. DraftsInv /\ [DraftsNext]_draftVars => DraftsInv'
  BY StepDrafts
<1> QED BY <1>1, <1>2, PTL DEF DraftsSpec

(* Every variable stays in its type, for any managers, drafts and writes.  *)
THEOREM DraftsTyped == DraftsSpec => []DraftsTypeOK
<1>1. DraftsInv => DraftsTypeOK
  BY DEF DraftsInv
<1> QED BY <1>1, DraftsInvariance, PTL

(* An open draft keeps its branch, its worktree and every acknowledged     *)
(* write, through any conflicts, failures, crashes and other managers.     *)
THEOREM WorkIsKept == DraftsSpec => []OpenDraftsKeepWork
BY DraftsInvariance, DraftsInvKeepsWork, PTL

(* What a step that merges does, as in MergeKeepsAcked.                    *)
MergeStep ==
  \A m \in Managers : task[m].pc = "ff" /\ task'[m].pc = "remove" =>
       main \subseteq main' /\ (task[m].auto => task[m].acked \subseteq main')

(* Only MergeBranch merges, and it moves main to a branch that has main    *)
(* and what was committed.                                                 *)
LEMMA StepMerge == ASSUME DraftsInv, [DraftsNext]_draftVars PROVE [MergeStep]_draftVars
<1> SUFFICES ASSUME NEW n \in Managers, task[n].pc = "ff", task'[n].pc = "remove"
             PROVE  main \subseteq main' /\ (task[n].auto => task[n].acked \subseteq main')
  BY DEF MergeStep
<1>n. n \in Managers /\ task[n].pc = "ff" /\ task'[n].pc = "remove"
  OBVIOUS
<1>t. DraftsTypeOK /\ Merging
  BY DEF DraftsInv
<1>1. MergeBranch(n)
<2>1. ASSUME NEW m \in Managers, StartManager(m)
       PROVE  MergeBranch(n)
  BY <2>1, <1>t, <1>n DEF StartManager, Orphans
<2>2. ASSUME NEW m \in Managers, StopManager(m)
       PROVE  MergeBranch(n)
  BY <2>2, <1>t, <1>n DEF StopManager, Orphans
<2>3. ASSUME NEW m \in Managers, NEW d \in Drafts, CreateBranch(m, d)
       PROVE  MergeBranch(n)
  BY <2>3, <1>t, <1>n DEF CreateBranch
<2>4. ASSUME NEW m \in Managers, AddWorktree(m)
       PROVE  MergeBranch(n)
  BY <2>4, <1>t, <1>n DEF AddWorktree
<2>5. ASSUME NEW m \in Managers, AddWorktreeFails(m)
       PROVE  MergeBranch(n)
  BY <2>5, <1>t, <1>n DEF AddWorktreeFails, Trouble
<2>6. ASSUME NEW m \in Managers, BeginSave(m)
       PROVE  MergeBranch(n)
  BY <2>6, <1>t, <1>n DEF BeginSave
<2>7. ASSUME NEW m \in Managers, Save(m)
       PROVE  MergeBranch(n)
  BY <2>7, <1>t, <1>n DEF Save
<2>8. ASSUME NEW m \in Managers, NEW d \in Drafts, MergeCalled(m, d)
       PROVE  MergeBranch(n)
  BY <2>8, <1>t, <1>n DEF MergeCalled, Acked
<2>9. ASSUME NEW m \in Managers, AutoCommit(m)
       PROVE  MergeBranch(n)
  BY <2>9, <1>t, <1>n DEF AutoCommit, Committed
<2>10. ASSUME NEW m \in Managers, AutoCommitFails(m)
       PROVE  MergeBranch(n)
  BY <2>10, <1>t, <1>n DEF AutoCommitFails, Trouble, DraftsTypeOK
<2>11. ASSUME NEW m \in Managers, MergeBranch(m)
       PROVE  MergeBranch(n)
  BY <2>11, <1>t, <1>n DEF MergeBranch, FastForward, DraftsTypeOK
<2>12. ASSUME NEW m \in Managers, MergeFails(m)
       PROVE  MergeBranch(n)
  BY <2>12, <1>t, <1>n DEF MergeFails, Conflicted
<2>13. ASSUME NEW m \in Managers, MergeReturns(m)
       PROVE  MergeBranch(n)
  BY <2>13, <1>t, <1>n DEF MergeReturns
<2>14. ASSUME NEW m \in Managers, NEW d \in Drafts, DiscardCalled(m, d)
       PROVE  MergeBranch(n)
  BY <2>14, <1>t, <1>n DEF DiscardCalled, NoTask
<2>15. ASSUME NEW m \in Managers, RemoveWorktree(m)
       PROVE  MergeBranch(n)
  BY <2>15, <1>t, <1>n DEF RemoveWorktree
<2>16. ASSUME NEW m \in Managers, RemoveBranch(m)
       PROVE  MergeBranch(n)
  BY <2>16, <1>t, <1>n DEF RemoveBranch
<2>17. ASSUME NEW w \in Writes, NEW at \in WriteTargets, WriteTo(w, at)
       PROVE  MergeBranch(n)
  BY <2>17, <1>t, <1>n DEF WriteTo
<2>18. ASSUME NEW w \in Writes, StoreWrite(w)
       PROVE  MergeBranch(n)
  BY <2>18, <1>t, <1>n DEF StoreWrite
<2>19. ASSUME NEW w \in Writes, CommitWrite(w)
       PROVE  MergeBranch(n)
  BY <2>19, <1>t, <1>n DEF CommitWrite
<2>20. ASSUME NEW w \in Writes, CommitWriteFails(w)
       PROVE  MergeBranch(n)
  BY <2>20, <1>t, <1>n DEF CommitWriteFails, Trouble
<2>21. CASE Crash
  BY <2>21, <1>t, <1>n DEF Crash, Trouble, NoTask
<2>22. CASE UNCHANGED draftVars
  BY <2>22, <1>t, <1>n DEF draftVars, gitState
<2> QED BY <2>1, <2>2, <2>3, <2>4, <2>5, <2>6, <2>7, <2>8, <2>9, <2>10, <2>11, <2>12, <2>13, <2>14, <2>15, <2>16, <2>17, <2>18, <2>19, <2>20, <2>21, <2>22 DEF DraftsNext
<1> QED BY <1>1, <1>t DEF MergeBranch, FastForward, Merging

(* A merge that succeeds has on main what was acknowledged before it was   *)
(* called and what main had, for any managers, drafts and writes.          *)
THEOREM MergeCarries == DraftsSpec => MergeKeepsAcked
<1>1. DraftsInv /\ [DraftsNext]_draftVars => [MergeStep]_draftVars
  BY StepMerge
<1> QED BY <1>1, DraftsInvariance, PTL DEF DraftsSpec, MergeKeepsAcked, MergeStep
=============================================================================
