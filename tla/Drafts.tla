-------------------------------- MODULE Drafts --------------------------------
(***************************************************************************)
(* Drafts (internal/draft): a branch and a worktree of the space's         *)
(* repository for each, listed in the memory of a Manager and in           *)
(* manifest.json.  A server and an MCP backend over the same root have a   *)
(* Manager each.                                                           *)
(*                                                                         *)
(* A branch is the set of the writes its commits hold, so that one can be  *)
(* fast-forwarded to another if it is a subset of it.                      *)
(***************************************************************************)
EXTENDS Naturals, FiniteSets

CONSTANTS
  Managers, Drafts, Writes,
  MaxActive,   \* Manager.maxActive
  MaxTrouble   \* bound: commits and git calls that fail, and crashes

ASSUME DraftsAssumption == {"main", "none"} \intersect Drafts = {} /\ MaxTrouble \in Nat

VARIABLES
  main,      \* the writes on the default branch
  branch,    \* branch[d]: the writes on draft/d
  branches,  \* the drafts with a branch
  tree,      \* tree[d]: the writes in the worktree
  trees,     \* the drafts with a worktree
  active,    \* active[m]: Manager.active
  manifest,  \* manifest.json: the drafts in it, and whether it can be parsed
  task,      \* task[m]: what holds Manager.mu
  running,   \* managers that have been started
  write,     \* write[w]: a request to the pipeline of a draft, or to main
  status,    \* status[d]: "new", "creating", "open" or "closed" (history)
  trouble    \* failures and crashes so far

gitState  == <<main, branch, branches, tree, trees>>
draftVars == <<gitState, active, manifest, task, running, write, status, trouble>>

WriteTargets == Drafts \union {"main"}
NoTask       == [pc |-> "idle", draft |-> "none", acked |-> {}, auto |-> TRUE]
NoWrite      == [pc |-> "new", at |-> "none"]
Task         == [pc : {"idle", "branched", "created", "saveNew", "merge", "ff", "return",
                       "remove", "removeBranch", "removed", "save"},
                 draft : Drafts \union {"none"}, acked : SUBSET Writes, auto : BOOLEAN]
Trouble      == trouble < MaxTrouble /\ trouble' = trouble + 1
Acked(d)     == {w \in Writes : write[w].pc = "acked" /\ write[w].at = d}

DraftsInit ==
  /\ main = {} /\ branches = {} /\ trees = {}
  /\ branch = [d \in Drafts |-> {}] /\ tree = [d \in Drafts |-> {}]
  /\ active = [m \in Managers |-> {}] /\ manifest = [ids |-> {}, ok |-> TRUE]
  /\ task = [m \in Managers |-> NoTask] /\ running = {}
  /\ write = [w \in Writes |-> NoWrite]
  /\ status = [d \in Drafts |-> "new"] /\ trouble = 0

-----------------------------------------------------------------------------
(* NewManager: a manifest that cannot be read is logged and replaced.      *)
(* Cleanup forgets the drafts that have no worktree.                       *)
Orphans(ids) == ids \ trees
StartManager(m) ==
  /\ m \notin running
  /\ LET ids == IF manifest.ok THEN manifest.ids ELSE {} IN
     /\ active' = [active EXCEPT ![m] = ids \ Orphans(ids)]
     /\ branches' = branches \ Orphans(ids)
     /\ manifest' = [ids |-> ids \ Orphans(ids), ok |-> TRUE]
  /\ running' = running \union {m}
  /\ UNCHANGED <<main, branch, tree, trees, task, write, status, trouble>>

(* Stack.Close: Cleanup once more, then the process ends.                  *)
StopManager(m) ==
  /\ m \in running /\ task[m] = NoTask
  /\ branches' = branches \ Orphans(active[m])
  /\ manifest' = [ids |-> active[m] \ Orphans(active[m]), ok |-> TRUE]
  /\ active' = [active EXCEPT ![m] = {}] /\ running' = running \ {m}
  /\ UNCHANGED <<main, branch, tree, trees, task, write, status, trouble>>

(* Create: branch, worktree, registration.  A worktree that cannot be      *)
(* added takes the branch with it.                                         *)
CreateBranch(m, d) ==
  /\ m \in running /\ task[m] = NoTask
  /\ Cardinality(active[m]) < MaxActive
  /\ status[d] = "new" /\ status' = [status EXCEPT ![d] = "creating"]
  /\ branches' = branches \union {d} /\ branch' = [branch EXCEPT ![d] = main]
  /\ task' = [task EXCEPT ![m] = [NoTask EXCEPT !.pc = "branched", !.draft = d]]
  /\ UNCHANGED <<main, tree, trees, active, manifest, running, write, trouble>>

AddWorktree(m) ==
  /\ task[m].pc = "branched"
  /\ trees' = trees \union {task[m].draft}
  /\ tree' = [tree EXCEPT ![task[m].draft] = branch[task[m].draft]]
  /\ active' = [active EXCEPT ![m] = @ \union {task[m].draft}]
  /\ task' = [task EXCEPT ![m].pc = "created"]
  /\ UNCHANGED <<main, branch, branches, manifest, running, write, status, trouble>>

AddWorktreeFails(m) ==
  /\ task[m].pc = "branched" /\ Trouble
  /\ branches' = branches \ {task[m].draft}
  /\ task' = [task EXCEPT ![m] = NoTask]
  /\ UNCHANGED <<main, branch, tree, trees, active, manifest, running, write, status>>

(* saveManifestLocked, the end of Create, Merge and Discard: the file is   *)
(* truncated, then written.                                                *)
BeginSave(m) ==
  /\ task[m].pc \in {"created", "removed"}
  /\ manifest' = [ids |-> {}, ok |-> FALSE]
  /\ task' = [task EXCEPT ![m].pc = IF @ = "created" THEN "saveNew" ELSE "save"]
  /\ UNCHANGED <<gitState, active, running, write, status, trouble>>

Save(m) ==
  /\ task[m].pc \in {"saveNew", "save"}
  /\ manifest' = [ids |-> active[m], ok |-> TRUE]
  /\ status' = IF task[m].pc = "saveNew" THEN [status EXCEPT ![task[m].draft] = "open"] ELSE status
  /\ task' = [task EXCEPT ![m] = NoTask]
  /\ UNCHANGED <<gitState, active, running, write, trouble>>

-----------------------------------------------------------------------------
(* Merge.                                                                  *)
MergeCalled(m, d) ==
  /\ m \in running /\ task[m] = NoTask /\ d \in active[m]
  /\ task' = [task EXCEPT ![m] = [pc |-> "merge", draft |-> d, acked |-> Acked(d), auto |-> TRUE]]
  /\ UNCHANGED <<gitState, active, manifest, running, write, status, trouble>>

(* commitWorktreeChanges.                                                  *)
CommittedMutant(d) == branch[d]
Committed(d) == tree[d]
AutoCommit(m) ==
  LET d == task[m].draft IN
  /\ task[m].pc = "merge"
  /\ d \in trees \intersect branches
  /\ branch' = [branch EXCEPT ![d] = @ \union Committed(d)]
  /\ task' = [task EXCEPT ![m].pc = "ff"]
  /\ UNCHANGED <<main, branches, tree, trees, active, manifest, running, write, status, trouble>>

(* Its failure is logged, and the merge goes on; it fails where another    *)
(* manager has removed the worktree.                                       *)
AutoCommitFails(m) ==
  /\ task[m].pc = "merge"
  /\ IF task[m].draft \in trees \intersect branches THEN Trouble ELSE UNCHANGED trouble
  /\ task' = [task EXCEPT ![m].pc = "ff", ![m].auto = FALSE]
  /\ UNCHANGED <<gitState, active, manifest, running, write, status>>

(* git merge --ff-only.                                                    *)
FastForward(d) == d \in branches /\ main \subseteq branch[d]
MergeBranch(m) ==
  LET d == task[m].draft IN
  /\ task[m].pc = "ff" /\ FastForward(d)
  /\ main' = branch[d]
  /\ status' = [status EXCEPT ![d] = "closed"]
  /\ task' = [task EXCEPT ![m].pc = "remove"]
  /\ UNCHANGED <<branch, branches, tree, trees, active, manifest, running, write, trouble>>

(* ErrConflict, or any other failure of git merge (a dirty working tree, a *)
(* lock, the end of the context): the draft stays.                         *)
ConflictedMutant == "remove"
Conflicted == "return"
MergeFails(m) ==
  /\ task[m].pc = "ff"
  /\ IF FastForward(task[m].draft) THEN Trouble ELSE UNCHANGED trouble
  /\ task' = [task EXCEPT ![m].pc = Conflicted]
  /\ UNCHANGED <<gitState, active, manifest, running, write, status>>

MergeReturns(m) ==
  /\ task[m].pc = "return"
  /\ task' = [task EXCEPT ![m] = NoTask]
  /\ UNCHANGED <<gitState, active, manifest, running, write, status, trouble>>

DiscardCalled(m, d) ==
  /\ m \in running /\ task[m] = NoTask /\ d \in active[m]
  /\ status' = [status EXCEPT ![d] = "closed"]
  /\ task' = [task EXCEPT ![m] = [NoTask EXCEPT !.pc = "remove", !.draft = d]]
  /\ UNCHANGED <<gitState, active, manifest, running, write, trouble>>

(* removeDraftLocked: worktree remove --force, then branch -D.             *)
RemoveWorktree(m) ==
  /\ task[m].pc = "remove"
  /\ trees' = trees \ {task[m].draft}
  /\ task' = [task EXCEPT ![m].pc = "removeBranch"]
  /\ UNCHANGED <<main, branch, branches, tree, active, manifest, running, write, status, trouble>>

RemoveBranch(m) ==
  /\ task[m].pc = "removeBranch"
  /\ branches' = branches \ {task[m].draft}
  /\ active' = [active EXCEPT ![m] = @ \ {task[m].draft}]
  /\ task' = [task EXCEPT ![m].pc = "removed"]
  /\ UNCHANGED <<main, branch, tree, trees, manifest, running, write, status, trouble>>

-----------------------------------------------------------------------------
(* Writes.  Pipeline(id) needs the draft, once: each request builds its    *)
(* pipeline, with a lock of its own, and may use it after a Merge.         *)
WriteTo(w, at) ==
  /\ write[w].pc = "new"
  /\ at # "main" => \E m \in running : at \in active[m]
  /\ write' = [write EXCEPT ![w] = [pc |-> "started", at |-> at]]
  /\ UNCHANGED <<gitState, active, manifest, task, running, status, trouble>>

(* Local.Write makes the directories it needs, also when the worktree has  *)
(* gone: such a write is in no worktree.                                   *)
StoreWrite(w) ==
  LET d == write[w].at IN
  /\ write[w].pc = "started"
  /\ tree' = IF d \in trees THEN [tree EXCEPT ![d] = @ \union {w}] ELSE tree
  /\ write' = [write EXCEPT ![w].pc = "stored"]
  /\ UNCHANGED <<main, branch, branches, trees, active, manifest, task, running, status, trouble>>

CommitWrite(w) ==
  LET d == write[w].at IN
  /\ write[w].pc = "stored"
  /\ main' = IF d = "main" THEN main \union {w} ELSE main
  /\ branch' = IF d \in trees \intersect branches THEN [branch EXCEPT ![d] = @ \union {w}] ELSE branch
  /\ write' = [write EXCEPT ![w].pc = "acked"]
  /\ UNCHANGED <<branches, tree, trees, active, manifest, task, running, status, trouble>>

(* A commit that fails is tracked, and the write is acknowledged.          *)
CommitWriteFails(w) ==
  /\ write[w].pc = "stored" /\ Trouble
  /\ write' = [write EXCEPT ![w].pc = "acked"]
  /\ UNCHANGED <<gitState, active, manifest, task, running, status>>

(* Every process ends.                                                     *)
Crash ==
  /\ running # {} /\ Trouble
  /\ running' = {} /\ active' = [m \in Managers |-> {}] /\ task' = [m \in Managers |-> NoTask]
  /\ write' = [w \in Writes |-> IF write[w].pc \in {"started", "stored"}
                                THEN [write[w] EXCEPT !.pc = "failed"] ELSE write[w]]
  /\ UNCHANGED <<gitState, manifest, status>>

-----------------------------------------------------------------------------
DraftsNext ==
  \/ \E m \in Managers :
       \/ StartManager(m) \/ StopManager(m) \/ AddWorktree(m) \/ AddWorktreeFails(m) \/ BeginSave(m) \/ Save(m)
       \/ AutoCommit(m) \/ AutoCommitFails(m) \/ MergeBranch(m)
       \/ MergeFails(m) \/ MergeReturns(m) \/ RemoveWorktree(m) \/ RemoveBranch(m)
       \/ \E d \in Drafts : CreateBranch(m, d) \/ MergeCalled(m, d) \/ DiscardCalled(m, d)
  \/ \E w \in Writes :
       \/ \E at \in WriteTargets : WriteTo(w, at)
       \/ StoreWrite(w) \/ CommitWrite(w) \/ CommitWriteFails(w)
  \/ Crash

DraftsSpec == DraftsInit /\ [][DraftsNext]_draftVars

-----------------------------------------------------------------------------
(* Properties.                                                             *)

(* Every variable stays in its type, and only a running manager works.     *)
DraftsTypeOK ==
  /\ main \subseteq Writes /\ branches \subseteq Drafts /\ trees \subseteq Drafts
  /\ {branch, tree} \subseteq [Drafts -> SUBSET Writes]
  /\ active \in [Managers -> SUBSET Drafts]
  /\ manifest \in [ids : SUBSET Drafts, ok : BOOLEAN]
  /\ task \in [Managers -> Task]
  /\ \A m \in Managers : task[m] = NoTask \/ (m \in running /\ task[m].draft \in Drafts)
  /\ running \subseteq Managers /\ trouble \in 0 .. MaxTrouble
  /\ write \in [Writes -> [pc : {"new", "started", "stored", "acked", "failed"},
                          at : WriteTargets \union {"none"}]]
  /\ status \in [Drafts -> {"new", "creating", "open", "closed"}]

(* "Ensure any uncommitted changes in the draft worktree are committed     *)
(* before attempting the merge": a merge that succeeds has on main every   *)
(* write acknowledged before it was called, also those whose own commit    *)
(* failed, unless the automatic commit failed as well - and everything     *)
(* main had.                                                               *)
MergeKeepsAcked ==
  [][\A m \in Managers : task[m].pc = "ff" /\ task'[m].pc = "remove" =>
       main \subseteq main' /\ (task[m].auto => task[m].acked \subseteq main')]_draftVars

(* A draft that a client created and nobody merged or discarded keeps its  *)
(* branch and its worktree, with every acknowledged write, through         *)
(* conflicts, crashes, restarts and another manager's work.                *)
OpenDraftsKeepWork ==
  \A d \in Drafts : status[d] = "open" =>
    d \in branches \intersect trees /\ Acked(d) \subseteq tree[d]
=============================================================================
