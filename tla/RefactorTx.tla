------------------------------ MODULE RefactorTx ------------------------------
(***************************************************************************)
(* One restructuring, from plan to commit: Pipeline.Refactor, ApplyRefactor *)
(* and refactorTx (internal/pipeline/refactor.go, refactor_tx.go), with the *)
(* git working tree, index and history they share with the commit loop,     *)
(* other writers of the same pages, the comments store, crashes, and        *)
(* RecoverRefactor at the next start.                                       *)
(*                                                                         *)
(* The restructuring is the one the planner builds for a rename: write the *)
(* page at To, rewrite every page that links to it, delete From, and move  *)
(* the comments file of From to To.                                        *)
(***************************************************************************)
EXTENDS Naturals, Sequences, SequencesExt

CONSTANTS
  From, To, Refs,
  StaleRetries,   \* replans after losing a race (3 in the code)
  CancelInCommit, \* the caller's context may end while git commits
  MaxWrites,      \* bound: page writes and deletes by other requests
  MaxComments,    \* bound: comments added
  MaxFails,       \* bound: store writes and git commands that fail
  MaxCancels,     \* bound: restructurings cancelled by their caller
  MaxCrashes      \* bound: crashes

ASSUME RefactorAssumption ==
  /\ From # To /\ {From, To} \intersect Refs = {} /\ IsFiniteSet(Refs)
  /\ CancelInCommit \in BOOLEAN
  /\ {StaleRetries, MaxWrites, MaxComments, MaxFails, MaxCancels, MaxCrashes} \subseteq Nat

VARIABLES
  disk,      \* disk[p]: the page in the working tree
  comments,  \* comments[q]: ids in .kiwi/comments/q.json, none if no file
  staged,    \* staged[p]: the page in git's index
  head,      \* head[p]: the page in the last commit
  tip,       \* the last commit: its number, and the digest its message has
  log,       \* paths in .kiwi/state/uncommitted.log
  journal,   \* .kiwi/state/refactor-journal.json
  tx,        \* the one Refactor call under way, or recovery at start
  reviewed,  \* the plan a caller looked at and will pin
  queue,     \* AsyncGit.pending
  batch,     \* batchPaths
  timer,     \* the batch window timer is running
  work,      \* what the commit loop is doing
  raced,     \* a comment was added while a restructuring was under way (history)
  used       \* how much of each bound is used up

vars == <<disk, comments, staged, head, tip, log, journal, tx, reviewed,
          queue, batch, timer, work, raced, used>>
files == <<disk, comments>>
git   == <<staged, head, tip>>
loop  == <<queue, batch, timer, work>>

Abs == INSTANCE AtomicRefactor WITH ws <- disk
Pages   == Abs!Pages
Content == Abs!Content
Absent  == Abs!Absent
Moved(c) == Abs!Moved(c)

-----------------------------------------------------------------------------
(* Plans.                                                                  *)

(* What BuildPlan found on disk: the page, the pages that link to it, and  *)
(* the comments to carry over.  The digest is a hash of nothing else, so   *)
(* two plans have one digest when they are equal.                          *)
PlanNow ==
  [src   |-> [p \in Pages |-> IF p = From \/ p \in Abs!Linking(disk) THEN disk[p] ELSE Absent],
   notes |-> IF comments[From] = {} THEN [q \in {From, To} |-> {}] ELSE comments]
NoPlan == [src |-> [p \in Pages |-> Absent], notes |-> [q \in {From, To} |-> {}]]

(* The page has to be there, and its destination not: ConflictExists.      *)
CanPlan == disk[From] # Absent /\ disk[To] = Absent

Sources(plan) == {p \in Pages : plan.src[p] # Absent}
Written(plan) == {To} \union (Sources(plan) \ {From})
Touches(plan) == Written(plan) \union {From}
After(plan, p) == IF p = From THEN Absent ELSE Moved(plan.src[IF p = To THEN From ELSE p])

PageStep(p, c)  == [kind |-> "page", at |-> p, page |-> c, ids |-> {}]
SideStep(q, ns) == [kind |-> "side", at |-> q, page |-> Absent, ids |-> ns]

(* applyPages and the side writes, in the order they run: a delete comes   *)
(* after the writes (no two of these paths fold to the same key).          *)
PagesInOrder(plan) == <<To>> \o SetToSeq(Written(plan) \ {To}) \o <<From>>
Steps(plan) ==
  [i \in DOMAIN PagesInOrder(plan) |->
     PageStep(PagesInOrder(plan)[i], After(plan, PagesInOrder(plan)[i]))]
  \o IF plan.notes[From] = {} THEN <<>>
     ELSE <<SideStep(From, {}), SideStep(To, plan.notes[From] \union plan.notes[To])>>

NoJournal == [state |-> "none", plan |-> NoPlan, head |-> 0, pages |-> NoPlan.src, side |-> NoPlan.notes]

RestoresMutant(j) ==
  [i \in DOMAIN PagesInOrder(j.plan) |->
     LET p == Reverse(PagesInOrder(j.plan))[i] IN PageStep(p, j.pages[p])]

(* What puts back every file the journal has a pre-image of: side files    *)
(* first, then the pages in reverse order.                                 *)
Restores(j) ==
  (IF j.plan.notes[From] = {} THEN <<>>
   ELSE <<SideStep(From, j.side[From]), SideStep(To, j.side[To])>>)
  \o [i \in DOMAIN PagesInOrder(j.plan) |->
        LET p == Reverse(PagesInOrder(j.plan))[i] IN PageStep(p, j.pages[p])]

(* The commit of j's restructuring is HEAD.                                *)
DigestCommitted(j) == tip.id # j.head /\ tip.digest = j.plan

IdleTx == [pc |-> "idle", plan |-> NoPlan, pinned |-> FALSE, attempt |-> 0,
           todo |-> <<>>, touched |-> {}, answer |-> "none"]
NoReq  == [paths |-> {}, digest |-> NoPlan, heard |-> FALSE]
IdleWork == [pc |-> "idle", req |-> NoReq, next |-> NoReq]

Fail     == used.fails < MaxFails /\ used' = [used EXCEPT !.fails = @ + 1]
CancelMe == used.cancels < MaxCancels /\ used' = [used EXCEPT !.cancels = @ + 1]

(* A page with links to it and a comment, all committed.                   *)
Init ==
  /\ disk = [p \in Pages |-> IF p = To THEN Absent ELSE [by |-> 1, moved |-> FALSE]]
  /\ comments = [q \in {From, To} |-> IF q = From THEN {0} ELSE {}]
  /\ staged = disk /\ head = disk
  /\ tip = [id |-> 1, digest |-> NoPlan]
  /\ log = {}
  /\ journal = NoJournal
  /\ tx = IdleTx
  /\ reviewed = NoPlan
  /\ queue = <<>> /\ batch = {} /\ timer = FALSE /\ work = IdleWork
  /\ raced = FALSE
  /\ used = [writes |-> 0, comments |-> 0, fails |-> 0, cancels |-> 0, crashes |-> 0]

-----------------------------------------------------------------------------
(* Refactor and ApplyRefactor.                                             *)

(* A caller previews the plan and keeps its digest.                        *)
Review ==
  /\ tx.pc = "idle" /\ CanPlan /\ reviewed # PlanNow
  /\ reviewed' = PlanNow
  /\ UNCHANGED <<files, git, log, journal, tx, loop, raced, used>>

(* Plan, without the lock; with a digest, the fresh plan must be the       *)
(* reviewed one.                                                           *)
StartRefactor(pinned) ==
  /\ tx.pc = "idle" /\ CanPlan
  /\ pinned => PlanNow = reviewed
  /\ tx' = [IdleTx EXCEPT !.pc = "lock", !.plan = PlanNow, !.pinned = pinned]
  /\ UNCHANGED <<files, git, log, journal, reviewed, loop, raced, used>>

(* Every page the plan read is as it was: Source and Delete ETags match.   *)
FreshMutant == \A p \in Sources(tx.plan) : disk[p] # Absent
Fresh == \A p \in Sources(tx.plan) : disk[p] = tx.plan.src[p]

(* With writeMu: the preconditions hold, pre-images are captured and       *)
(* written to the journal.                                                 *)
Begin ==
  /\ tx.pc = "lock" /\ Fresh
  /\ journal' = [state |-> "applying", plan |-> tx.plan, head |-> tip.id,
                 pages |-> disk, side |-> comments]
  /\ tx' = [tx EXCEPT !.pc = "apply", !.todo = Steps(tx.plan)]
  /\ UNCHANGED <<files, git, log, reviewed, loop, raced, used>>

MayRetryMutant == ~tx.pinned /\ tx.attempt <= StaleRetries
MayRetry == ~tx.pinned /\ tx.attempt < StaleRetries

(* ErrPlanStale: unless the digest is pinned, plan again, a few times.     *)
Stale ==
  /\ tx.pc = "lock" /\ ~Fresh
  /\ tx' = IF MayRetry /\ CanPlan
           THEN [tx EXCEPT !.plan = PlanNow, !.attempt = @ + 1]
           ELSE IdleTx
  /\ UNCHANGED <<files, git, log, journal, reviewed, loop, raced, used>>

(* ctx.Err under the lock, or a journal that cannot be written.            *)
BeginFails ==
  /\ tx.pc = "lock" /\ (CancelMe \/ (Fresh /\ Fail))
  /\ tx' = IdleTx
  /\ UNCHANGED <<files, git, log, journal, reviewed, loop, raced>>

Execute(s) ==
  IF s.kind = "page"
  THEN disk' = [disk EXCEPT ![s.at] = s.page] /\ UNCHANGED comments
  ELSE comments' = [comments EXCEPT ![s.at] = s.ids] /\ UNCHANGED disk

Target(s) == <<s.kind, s.at>>

(* The next store write, store delete or side write.                       *)
ApplyStep ==
  /\ tx.pc = "apply" /\ tx.todo # <<>>
  /\ Execute(Head(tx.todo))
  /\ tx' = [tx EXCEPT !.todo = Tail(@), !.touched = @ \union {Target(Head(tx.todo))}]
  /\ UNCHANGED <<git, log, journal, reviewed, loop, raced, used>>

(* rollback: restore the files in touched.                                 *)
Undo(touched) ==
  [tx EXCEPT !.pc = "rollback", !.touched = touched, !.answer = "none",
             !.todo = Restores(journal)]

(* An error, before or after the file changed.                             *)
ApplyFails ==
  /\ tx.pc = "apply" /\ tx.todo # <<>> /\ Fail
  /\ Execute(Head(tx.todo)) \/ UNCHANGED files
  /\ tx' = Undo(tx.touched \union {Target(Head(tx.todo))})
  /\ UNCHANGED <<git, log, journal, reviewed, loop, raced>>

(* paths, as applyPages returned them: what was written and deleted.       *)
CommitPathsMutant == Written(tx.plan)
CommitPaths == Touches(tx.plan)

(* CommitRecorded: hand the request to the commit loop.                    *)
SendCommit ==
  /\ tx.pc = "apply" /\ tx.todo = <<>>
  /\ queue' = Append(queue, [paths |-> CommitPaths, digest |-> tx.plan, heard |-> TRUE])
  /\ tx' = [tx EXCEPT !.pc = "wait"]
  /\ UNCHANGED <<files, git, log, journal, reviewed, batch, timer, work, raced, used>>

(* <-ctx.Done() before the request is accepted.                            *)
SendCancelled ==
  /\ tx.pc = "apply" /\ tx.todo = <<>> /\ CancelMe
  /\ tx' = Undo(tx.touched)
  /\ UNCHANGED <<files, git, log, journal, reviewed, loop, raced>>

(* <-ctx.Done() while the loop has the request, or its answer is there     *)
(* already: nobody will read the answer, the loop goes on.                 *)
Unheard(r) == [r EXCEPT !.heard = FALSE]
WaitCancelled ==
  /\ tx.pc = "wait" /\ CancelInCommit /\ CancelMe
  /\ tx' = Undo(tx.touched)
  /\ queue' = [i \in DOMAIN queue |-> Unheard(queue[i])]
  /\ work' = [work EXCEPT !.req = Unheard(@), !.next = Unheard(@)]
  /\ UNCHANGED <<files, git, log, journal, reviewed, batch, timer, raced>>

CommitReturns ==
  /\ tx.pc = "wait" /\ tx.answer # "none"
  /\ tx' = IF tx.answer = "ok" THEN [tx EXCEPT !.pc = "landed", !.answer = "none"]
           ELSE Undo(tx.touched)
  /\ UNCHANGED <<files, git, log, journal, reviewed, loop, raced, used>>

(* The journal says committed; an error is only logged.                    *)
MarkCommitted ==
  /\ tx.pc = "landed"
  /\ \/ journal' = [journal EXCEPT !.state = "committed"] /\ UNCHANGED used
     \/ Fail /\ UNCHANGED journal
  /\ tx' = [tx EXCEPT !.pc = "cleanup"]
  /\ UNCHANGED <<files, git, log, reviewed, loop, raced>>

Cleanup ==
  /\ tx.pc = "cleanup"
  /\ journal' = NoJournal
  /\ tx' = IdleTx
  /\ UNCHANGED <<files, git, log, reviewed, loop, raced, used>>

(* One restore of a rollback, which skips what was not touched, or of      *)
(* RecoverRefactor, which does not know.                                   *)
RestoreStep ==
  /\ tx.pc \in {"rollback", "recover"} /\ tx.todo # <<>>
  /\ IF tx.pc = "recover" \/ Target(Head(tx.todo)) \in tx.touched
     THEN Execute(Head(tx.todo)) ELSE UNCHANGED files
  /\ tx' = [tx EXCEPT !.todo = Tail(@)]
  /\ UNCHANGED <<git, log, journal, reviewed, loop, raced, used>>

(* rollback drops the journal and ApplyRefactor returns its error.         *)
RollbackEnds ==
  /\ tx.pc = "rollback" /\ tx.todo = <<>>
  /\ journal' = NoJournal
  /\ tx' = IdleTx
  /\ UNCHANGED <<files, git, log, reviewed, loop, raced, used>>

-----------------------------------------------------------------------------
(* Everyone else.                                                          *)

LockFree == tx.pc \in {"idle", "lock"}
Serving  == tx.pc \notin {"down", "recover"}

(* Another request writes or deletes a page: store, log, commit queue, all *)
(* under writeMu.                                                          *)
WritePage(p) ==
  /\ LockFree /\ used.writes < MaxWrites
  /\ \E c \in {[by |-> used.writes + 2, moved |-> FALSE], Absent} :
       c # disk[p] /\ disk' = [disk EXCEPT ![p] = c]
  /\ used' = [used EXCEPT !.writes = @ + 1]
  /\ log' = log \union {p}
  /\ queue' = Append(queue, [NoReq EXCEPT !.paths = {p}])
  /\ UNCHANGED <<comments, git, journal, tx, reviewed, batch, timer, work, raced>>

(* comments.Store.Add has a lock of its own, per page.                     *)
AddComment(q) ==
  /\ Serving /\ used.comments < MaxComments
  /\ comments' = [comments EXCEPT ![q] = @ \union {used.comments + 1}]
  /\ used' = [used EXCEPT !.comments = @ + 1]
  /\ raced' = (raced \/ tx.pc # "idle")
  /\ UNCHANGED <<disk, git, log, journal, tx, reviewed, loop>>

-----------------------------------------------------------------------------
(* The commit loop.  How long a batch waits is left open: the window may   *)
(* end, the batch be full or the actor of the next request another one.    *)

FlushThen(r) == [pc |-> "stage", req |-> [NoReq EXCEPT !.paths = batch], next |-> r]

TakeRequest ==
  /\ work.pc = "idle" /\ queue # <<>> /\ Head(queue).digest = NoPlan
  /\ queue' = Tail(queue)
  /\ batch' = batch \union Head(queue).paths
  /\ timer' = TRUE
  /\ UNCHANGED <<files, git, log, journal, tx, reviewed, work, raced, used>>

(* commitNow: the batch goes first.                                        *)
TakeRecorded ==
  /\ work.pc = "idle" /\ queue # <<>> /\ Head(queue).digest # NoPlan
  /\ queue' = Tail(queue)
  /\ timer' = FALSE
  /\ work' = IF batch = {} THEN [IdleWork EXCEPT !.pc = "stage", !.req = Head(queue)]
             ELSE FlushThen(Head(queue))
  /\ UNCHANGED <<files, git, log, journal, tx, reviewed, batch, raced, used>>

(* A batch whose flush failed waits for the next request.                  *)
Flush ==
  /\ work.pc = "idle" /\ batch # {} /\ (timer \/ queue # <<>>)
  /\ timer' = FALSE
  /\ work' = FlushThen(NoReq)
  /\ UNCHANGED <<files, git, log, journal, tx, reviewed, queue, batch, raced, used>>

(* git add, git rm --cached.                                               *)
Stage ==
  /\ work.pc = "stage"
  /\ staged' = [p \in Pages |-> IF p \in work.req.paths THEN disk[p] ELSE staged[p]]
  /\ work' = [work EXCEPT !.pc = "commit"]
  /\ UNCHANGED <<files, head, tip, log, journal, tx, reviewed, queue, batch, timer, raced, used>>

DoneMutant(ok) ==
  /\ IF work.req.digest = NoPlan /\ ok
     THEN batch' = {} /\ log' = {}
     ELSE UNCHANGED <<batch, log>>
  /\ tx' = IF work.req.heard /\ ok THEN [tx EXCEPT !.answer = "ok"] ELSE tx
  /\ work' = IF work.next.paths = {} THEN IdleWork
             ELSE [pc |-> "stage", req |-> work.next, next |-> NoReq]
  /\ UNCHANGED <<files, journal, reviewed, queue, timer, raced>>

(* The loop is done with work.req: a batch is emptied and the log cleared  *)
(* if it was committed; a recorded commit answers its caller.              *)
Done(ok) ==
  /\ IF work.req.digest = NoPlan /\ ok
     THEN batch' = {} /\ log' = {}
     ELSE UNCHANGED <<batch, log>>
  /\ tx' = IF work.req.heard THEN [tx EXCEPT !.answer = IF ok THEN "ok" ELSE "failed"] ELSE tx
  /\ work' = IF work.next.paths = {} THEN IdleWork
             ELSE [pc |-> "stage", req |-> work.next, next |-> NoReq]
  /\ UNCHANGED <<files, journal, reviewed, queue, timer, raced>>

(* git status lists something for the paths.                               *)
Dirty == \E p \in work.req.paths : staged[p] # head[p] \/ disk[p] # staged[p]

NothingToCommit ==
  /\ work.pc = "commit" /\ ~Dirty
  /\ Done(TRUE)
  /\ UNCHANGED <<git, used>>

(* git commit records the whole index, whoever staged what is in it.       *)
Commit ==
  /\ work.pc = "commit" /\ Dirty /\ staged # head
  /\ head' = staged
  /\ tip' = [id |-> tip.id + 1, digest |-> work.req.digest]
  /\ Done(TRUE)
  /\ UNCHANGED <<staged, used>>

(* A git command fails, or there is nothing in the index to commit: the    *)
(* paths are unstaged.                                                     *)
CommitFails ==
  /\ work.pc = "commit"
  /\ \/ Dirty /\ staged = head /\ UNCHANGED used
     \/ Fail
  /\ staged' = [p \in Pages |-> IF p \in work.req.paths THEN head[p] ELSE staged[p]]
  /\ Done(FALSE)
  /\ UNCHANGED <<head, tip>>

-----------------------------------------------------------------------------
(* Crash and restart.                                                      *)

Crash ==
  /\ tx.pc # "down" /\ used.crashes < MaxCrashes
  /\ used' = [used EXCEPT !.crashes = @ + 1]
  /\ tx' = [IdleTx EXCEPT !.pc = "down"]
  /\ queue' = <<>> /\ batch' = {} /\ timer' = FALSE /\ work' = IdleWork
  /\ UNCHANGED <<files, git, log, journal, reviewed, raced>>

(* RecoverRefactor: an applying journal whose commit is not HEAD is undone. *)
RecoverMutant(j) == <<>>
Recover(j) == IF j.state = "applying" /\ ~DigestCommitted(j) THEN Restores(j) ELSE <<>>

Restart ==
  /\ tx.pc = "down"
  /\ tx' = [tx EXCEPT !.pc = "recover", !.todo = Recover(journal)]
  /\ UNCHANGED <<files, git, log, journal, reviewed, loop, raced, used>>

(* The journal goes, and DrainUncommitted queues the logged paths.         *)
RecoverEnds ==
  /\ tx.pc = "recover" /\ tx.todo = <<>>
  /\ journal' = NoJournal
  /\ queue' = IF log = {} THEN <<>> ELSE <<[NoReq EXCEPT !.paths = log]>>
  /\ log' = {}
  /\ tx' = IdleTx
  /\ UNCHANGED <<files, git, reviewed, batch, timer, work, raced, used>>

-----------------------------------------------------------------------------
Apply == \/ Begin \/ Stale \/ BeginFails \/ ApplyStep \/ ApplyFails
         \/ SendCommit \/ SendCancelled \/ WaitCancelled \/ CommitReturns
         \/ MarkCommitted \/ Cleanup \/ RestoreStep \/ RollbackEnds \/ RecoverEnds
Loop  == TakeRequest \/ TakeRecorded \/ Flush \/ Stage \/ NothingToCommit \/ Commit \/ CommitFails

Next ==
  \/ Review
  \/ \E pinned \in BOOLEAN : StartRefactor(pinned)
  \/ Apply
  \/ \E p \in Pages : WritePage(p)
  \/ \E q \in {From, To} : AddComment(q)
  \/ Loop
  \/ Crash \/ Restart

Spec == Init /\ [][Next]_vars /\ WF_vars(Apply) /\ WF_vars(Loop)

-----------------------------------------------------------------------------
(* Properties.                                                             *)

Plans == [src : [Pages -> Content], notes : [{From, To} -> SUBSET Nat]]
Reqs  == [paths : SUBSET Pages, digest : Plans, heard : BOOLEAN]
Journals == [state : {"none", "applying", "committed"}, plan : Plans, head : Nat,
             pages : [Pages -> Content], side : [{From, To} -> SUBSET Nat]]
FileSteps == [kind : {"page", "side"}, at : Pages, page : Content, ids : SUBSET Nat]
Calls == [pc : {"idle", "lock", "apply", "wait", "landed", "cleanup", "rollback", "down", "recover"},
          plan : Plans, pinned : BOOLEAN, attempt : 0..StaleRetries, todo : Seq(FileSteps),
          touched : SUBSET ({"page", "side"} \X Pages), answer : {"none", "ok", "failed"}]
Works == [pc : {"idle", "stage", "commit"}, req : Reqs, next : Reqs]
Usages == [writes : Nat, comments : Nat, fails : Nat, cancels : Nat, crashes : Nat]

(* The variables stay in their types.                                      *)
TypeOK ==
  /\ disk \in [Pages -> Content] /\ staged \in [Pages -> Content] /\ head \in [Pages -> Content]
  /\ comments \in [{From, To} -> SUBSET Nat]
  /\ tip \in [id : Nat, digest : Plans]
  /\ log \subseteq Pages /\ batch \subseteq Pages
  /\ journal \in Journals /\ tx \in Calls
  /\ reviewed \in Plans
  /\ queue \in Seq(Reqs)
  /\ work \in Works
  /\ timer \in BOOLEAN /\ raced \in BOOLEAN
  /\ used \in Usages

(* The pages as they count: while a restructuring is not committed, the    *)
(* pre-images in its journal are what the next start would put back.       *)
Unsettled == journal.state = "applying" /\ ~DigestCommitted(journal)
Visible == [p \in Pages |->
              IF Unsettled /\ p \in Touches(journal.plan) THEN journal.pages[p] ELSE disk[p]]

(* "either fully restructured and committed, or unchanged": through write  *)
(* errors, failed commits, lost races, flushes in the middle and crashes,  *)
(* what counts changes by one page of another request, or by one whole     *)
(* restructuring of the pages as they are at that moment.                  *)
Atomic == INSTANCE AtomicRefactor WITH ws <- Visible
ImplementsAtomic == Atomic!Spec

(* When the journal goes, pages and comments are all restructured or all   *)
(* as they were, unless somebody commented meanwhile: the comments store   *)
(* does not take the lock.                                                 *)
Restructured(j) ==
  /\ \A p \in Touches(j.plan) : disk[p] = After(j.plan, p)
  /\ j.plan.notes[From] # {} => /\ comments[From] = {}
                               /\ comments[To] = j.plan.notes[From] \union j.plan.notes[To]
Unchanged(j) ==
  /\ \A p \in Touches(j.plan) : disk[p] = j.pages[p]
  /\ j.plan.notes[From] # {} => comments = j.side
WholeOrUnchanged ==
  [][journal.state # "none" /\ journal'.state = "none" /\ ~raced
       => Restructured(journal) \/ Unchanged(journal)]_vars

(* "apply with a digest applies only the plan that was reviewed": when the *)
(* first file changes, every page the reviewed plan read is still as it    *)
(* was, whatever happened between review, plan and lock.                   *)
ReviewedIsApplied ==
  [][tx.pc = "apply" /\ tx.pinned /\ tx.touched = {} /\ disk' # disk
       => \A p \in Sources(reviewed) : disk[p] = reviewed.src[p]]_vars

(* With nothing under way and no failure, cancellation or crash so far,    *)
(* the last commit holds exactly the workspace: batched writes,            *)
(* restructurings and commits that sweep up more than was asked for leave  *)
(* no file behind.                                                         *)
Quiet == tx.pc = "idle" /\ queue = <<>> /\ batch = {} /\ work = IdleWork
QuietIsCommitted ==
  Quiet /\ used.fails = 0 /\ used.cancels = 0 /\ used.crashes = 0 => head = disk

(* Refactor returns and releases writeMu, and recovery ends, whatever      *)
(* fails; the journal does not outlive them.                               *)
RefactorReturns ==
  /\ tx.pc \notin {"idle", "down"} ~> tx.pc \in {"idle", "down"}
  /\ [](tx.pc = "idle" => journal.state = "none")

(* A restructuring that is retried, cancelled or fails returns, and when   *)
(* it does the workspace is restructured or as it was.                     *)
ReturnsWholeOrUnchanged == RefactorReturns /\ WholeOrUnchanged

(* "never overwrite an existing destination": a page a restructuring       *)
(* writes over or deletes is one its plan has read.                        *)
NothingUnseenIsOverwritten ==
  [][tx.pc = "apply" /\ disk' # disk
       => \A p \in Pages : disk'[p] # disk[p] => disk[p] = tx.plan.src[p]]_vars
=============================================================================
