------------------------------ MODULE AsyncGit ------------------------------
(***************************************************************************)
(* The background committer of internal/versioning/async.go, together with *)
(* the uncommitted log on disk and Pipeline.DrainUncommitted, which replays *)
(* the log when the process starts.                                        *)
(*                                                                         *)
(* A caller holds Pipeline.writeMu from the moment it changes a file until *)
(* its Commit, BulkCommit, CommitDelete or CommitRecorded call returns, so *)
(* at most one call is under way; the commit loop runs beside it.  A file  *)
(* is represented by the stamp of the write that produced its content      *)
(* (a deletion is one more content), and a git commit records whatever is  *)
(* on disk when it runs, not what was there when it was asked for.         *)
(***************************************************************************)
EXTENDS Naturals, Sequences

CONSTANTS
  Paths,          \* workspace paths
  Actors,         \* identities commits are attributed to
  DefaultActor,   \* pipeline.DefaultActor, the author of a recommit
  QueueCap,       \* capacity of the pending channel (1000 in the code)
  BatchMax,       \* paths that force a flush (50 in the code)
  MaxWrites,      \* bound: file changes in a behaviour
  MaxFails,       \* bound: git commits that fail
  MaxEnds         \* bound: times the process ends (crash or exit)

ASSUME ConstantsAssumption ==
  /\ DefaultActor \in Actors
  /\ QueueCap \in Nat \ {0}
  /\ BatchMax \in Nat \ {0}
  /\ MaxWrites \in Nat
  /\ MaxFails \in Nat
  /\ MaxEnds \in Nat

VARIABLES
  disk,       \* disk[p]: stamp of the content in the working tree
  head,       \* head[p]: stamp of the content in the last commit
  clock,      \* stamps given out so far
  journal,    \* paths in .kiwi/state/uncommitted.log
  up,         \* the process is running
  stopped,    \* AsyncGit.stop is closed
  queue,      \* AsyncGit.pending
  batch,      \* batchPaths, each with the actor that asked for it
  batchActor, \* batchActor ("" in the code is DefaultActor with an empty batch)
  timer,      \* the batch window timer is running
  loop,       \* where the commit loop is, and the request it holds
  call,       \* where the one caller is, and its request
  drain,      \* DrainUncommitted: paths still to recommit, and whether it is done
  acked,      \* acked[p]: newest write of p whose Commit has returned nil (history)
  lost,       \* paths no longer carried after a crash or a late Close (history)
  fails,      \* failed commits so far
  ends        \* process ends so far

vars == <<disk, head, clock, journal, up, stopped, queue, batch,
          batchActor, timer, loop, call, drain, acked, lost, fails, ends>>
files == <<disk, clock>>
life  == <<up, stopped, ends>>
ghost == <<acked, lost>>
mem   == <<queue, batch, batchActor, timer, loop>>

(* The requests callers make: one path, or the two of a rename.  done is   *)
(* the channel the answer to a synchronous one is sent on, each its own;   *)
(* it is 0, nil, for the others.                                           *)
PathLists == {<<p>> : p \in Paths} \union {pq \in Paths \X Paths : pq[1] # pq[2]}
Request   == [paths : PathLists, actor : Actors, sync : BOOLEAN, done : Nat]
NoRequest == [paths |-> <<>>, actor |-> DefaultActor, sync |-> FALSE, done |-> 0]
Entry     == [path : Paths, actor : Actors]

SetOf(ps)    == {ps[i] : i \in DOMAIN ps}
Entries(req) == [i \in DOMAIN req.paths |-> [path |-> req.paths[i], actor |-> req.actor]]
BatchPaths   == {batch[i].path : i \in DOMAIN batch}
QueuedPaths  == UNION {SetOf(queue[i].paths) : i \in DOMAIN queue}

(* Every path the running process still holds for a commit to come.        *)
InFlight == QueuedPaths \union BatchPaths \union drain.todo
              \union SetOf(call.req.paths) \union SetOf(loop.req.paths)

LoopState == [pc   : {"select", "flush", "clear", "append", "record", "exited"},
              next : {"select", "append", "record", "exited"},
              req  : Request \union {NoRequest},
              closing : BOOLEAN]

IdleCall  == [pc |-> "idle", req |-> NoRequest, undo |-> [p \in Paths |-> 0]]
ActiveCall == [pc   : {"journal", "send", "wait", "rollback"},
               req  : Request,
               undo : [Paths -> Nat]]
CallState == {IdleCall} \union ActiveCall
FreshLoop == [pc |-> "select", next |-> "select", req |-> NoRequest, closing |-> FALSE]

Init ==
  /\ disk = [p \in Paths |-> 0]
  /\ head = [p \in Paths |-> 0]
  /\ clock = 0
  /\ journal = {}
  /\ up = TRUE
  /\ stopped = FALSE
  /\ queue = <<>>
  /\ batch = <<>>
  /\ batchActor = DefaultActor
  /\ timer = FALSE
  /\ loop = FreshLoop
  /\ call = IdleCall
  /\ drain = [todo |-> {}, done |-> TRUE]
  /\ acked = [p \in Paths |-> 0]
  /\ lost = {}
  /\ fails = 0
  /\ ends = 0

-----------------------------------------------------------------------------
(* The caller.                                                             *)

(* A pipeline operation by actor a changes the files ps and enters Commit, *)
(* BulkCommit or CommitDelete (sync = FALSE: journalPaths comes first) or  *)
(* CommitRecorded (sync = TRUE: nothing is journaled).                     *)
Change(a, ps, sync) ==
  /\ up /\ drain.done /\ call.pc = "idle" /\ clock < MaxWrites
  /\ clock' = clock + 1
  /\ disk' = [p \in Paths |-> IF p \in SetOf(ps) THEN clock + 1 ELSE disk[p]]
  /\ call' = [pc   |-> IF sync THEN "send" ELSE "journal",
              req  |-> [paths |-> ps, actor |-> a, sync |-> sync,
                        done |-> IF sync THEN clock + 1 ELSE 0],
              undo |-> IF sync THEN disk ELSE IdleCall.undo]
  /\ UNCHANGED <<head, journal, life, mem, drain, ghost, fails>>

JournalPaths ==
  /\ call.pc = "journal"
  /\ journal' = journal \union SetOf(call.req.paths)
  /\ call' = [call EXCEPT !.pc = "send"]
  /\ UNCHANGED <<files, head, life, mem, drain, ghost, fails>>

(* What an asynchronous call has done once it returns nil.                 *)
Acknowledge(carried) ==
  LET ps == SetOf(call.req.paths) IN
  /\ acked' = [p \in Paths |-> IF p \in ps THEN disk[p] ELSE acked[p]]
  /\ lost' = IF carried THEN lost \ ps ELSE lost \union ps

(* The buffered channel has room.                                          *)
HasRoomMutant == TRUE
HasRoom == Len(queue) < QueueCap

(* a.pending <- req: blocks while the channel is full.  Once stop is       *)
(* closed the loop may already be past its last look at the channel.       *)
Send ==
  /\ call.pc = "send"
  /\ HasRoom
  /\ queue' = Append(queue, call.req)
  /\ IF call.req.sync
     THEN /\ call' = [call EXCEPT !.pc = "wait"]
          /\ UNCHANGED ghost
     ELSE /\ call' = IdleCall
          /\ Acknowledge(~stopped)
  /\ UNCHANGED <<files, head, journal, life, batch, batchActor, timer, loop, drain, fails>>

(* <-a.stop in the same select: Commit drops the request and returns nil,  *)
(* CommitRecorded returns an error and the caller rolls its files back.    *)
SendAfterStop ==
  /\ call.pc = "send"
  /\ stopped
  /\ IF call.req.sync
     THEN /\ call' = [call EXCEPT !.pc = "rollback"]
          /\ UNCHANGED ghost
     ELSE /\ call' = IdleCall
          /\ Acknowledge(FALSE)
  /\ UNCHANGED <<files, head, journal, life, mem, drain, fails>>

(* <-ctx.Done() in CommitRecorded, before its request is accepted or while *)
(* it waits for the answer: the caller rolls its files back.  A request    *)
(* that was accepted stays where it is, and the loop will commit it.       *)
Cancel ==
  /\ call.req.sync /\ call.pc \in {"send", "wait"}
  /\ call' = [call EXCEPT !.pc = "rollback"]
  /\ UNCHANGED <<files, head, journal, life, mem, drain, ghost, fails>>

(* refactorTx.rollback after a CommitRecorded that failed.                 *)
Rollback ==
  /\ call.pc = "rollback"
  /\ disk' = [p \in Paths |-> IF p \in SetOf(call.req.paths) THEN call.undo[p] ELSE disk[p]]
  /\ call' = IdleCall
  /\ UNCHANGED <<clock, head, journal, life, mem, drain, ghost, fails>>

-----------------------------------------------------------------------------
(* The commit loop, AsyncGit.run.                                          *)

Home == IF loop.closing THEN [loop EXCEPT !.pc = "select", !.req = NoRequest]
                        ELSE FreshLoop

(* A synchronous request, or one of another actor, flushes the batch first.*)
FlushFirstMixing(req) == req.sync
FlushFirstOvertaking(req) == ~req.sync /\ req.actor # batchActor
FlushFirst(req) == req.sync \/ req.actor # batchActor

(* Take the next request; a flush on its account also stops the timer.     *)
Dequeue ==
  /\ up /\ loop.pc = "select" /\ queue # <<>>
  /\ LET req == Head(queue)
         then == IF req.sync THEN "record" ELSE "append"
     IN /\ loop' = [loop EXCEPT !.pc = IF FlushFirst(req) THEN "flush" ELSE then,
                                !.next = then, !.req = req]
        /\ timer' = (timer /\ ~FlushFirst(req))
  /\ queue' = Tail(queue)
  /\ UNCHANGED <<files, head, journal, life, batch, batchActor, call, drain, ghost, fails>>

(* batchWindow has passed since the last request.                          *)
TimerFires ==
  /\ up /\ loop.pc = "select" /\ ~loop.closing /\ timer
  /\ timer' = FALSE
  /\ loop' = [loop EXCEPT !.pc = "flush", !.next = "select"]
  /\ UNCHANGED <<files, head, journal, life, queue, batch, batchActor, call, drain, ghost, fails>>

(* git records the files ps as they are on disk now.                       *)
Record(ps) == head' = [p \in Paths |-> IF p \in ps THEN disk[p] ELSE head[p]]

FlushNothing ==
  /\ up /\ loop.pc = "flush" /\ batch = <<>>
  /\ loop' = [loop EXCEPT !.pc = loop.next]
  /\ UNCHANGED <<files, head, journal, life, queue, batch, batchActor, timer, call, drain, ghost, fails>>

FlushCommits ==
  /\ up /\ loop.pc = "flush" /\ batch # <<>>
  /\ Record(BatchPaths)
  /\ loop' = [loop EXCEPT !.pc = "clear"]
  /\ UNCHANGED <<files, journal, life, queue, batch, batchActor, timer, call, drain, ghost, fails>>

FlushFailsDropping ==
  /\ up /\ loop.pc = "flush" /\ batch # <<>> /\ fails < MaxFails
  /\ fails' = fails + 1
  /\ batch' = <<>>
  /\ loop' = [loop EXCEPT !.pc = loop.next]
  /\ UNCHANGED <<files, head, journal, life, queue, batchActor, timer, call, drain, ghost>>

(* inner.BulkCommit failed: the batch is kept, and nothing starts the      *)
(* timer again.                                                            *)
FlushFails ==
  /\ up /\ loop.pc = "flush" /\ batch # <<>> /\ fails < MaxFails
  /\ fails' = fails + 1
  /\ loop' = [loop EXCEPT !.pc = loop.next]
  /\ UNCHANGED <<files, head, journal, life, queue, batch, batchActor, timer, call, drain, ghost>>

(* clearJournal removes the whole log, then the batch is emptied.          *)
ClearJournal ==
  /\ up /\ loop.pc = "clear"
  /\ journal' = {}
  /\ batch' = <<>>
  /\ loop' = [loop EXCEPT !.pc = loop.next]
  /\ UNCHANGED <<files, head, life, queue, batchActor, timer, call, drain, ghost, fails>>

(* After an append, timer.Reset unless the batch is full or the loop is    *)
(* closing.                                                                *)
ArmTimerMutant(full) == FALSE
ArmTimer(full) == IF loop.closing THEN timer ELSE ~full

(* The rest of appendReq and its caller: a full batch is flushed at once,  *)
(* except while closing.                                                   *)
AppendReq ==
  /\ up /\ loop.pc = "append"
  /\ batch' = batch \o Entries(loop.req)
  /\ batchActor' = loop.req.actor
  /\ LET full == Len(batch') >= BatchMax IN
     /\ timer' = ArmTimer(full)
     /\ loop' = IF full /\ ~loop.closing THEN [FreshLoop EXCEPT !.pc = "flush"] ELSE Home
  /\ UNCHANGED <<files, head, journal, life, queue, call, drain, ghost, fails>>

(* commitNow, after its flush: commit the request on its own and send the  *)
(* result on its buffered done channel, where its caller waits if it has   *)
(* not given up.                                                           *)
Heard == call.pc = "wait" /\ call.req.done = loop.req.done
CommitNow ==
  /\ up /\ loop.pc = "record"
  /\ Record(SetOf(loop.req.paths))
  /\ call' = IF Heard THEN IdleCall ELSE call
  /\ loop' = Home
  /\ UNCHANGED <<files, journal, life, queue, batch, batchActor, timer, drain, ghost, fails>>

CommitNowFailsSilently ==
  /\ up /\ loop.pc = "record" /\ fails < MaxFails
  /\ fails' = fails + 1
  /\ loop' = Home
  /\ UNCHANGED <<files, head, journal, life, queue, batch, batchActor, timer, call, drain, ghost>>

CommitNowFails ==
  /\ up /\ loop.pc = "record" /\ fails < MaxFails
  /\ fails' = fails + 1
  /\ call' = IF Heard THEN [call EXCEPT !.pc = "rollback"] ELSE call
  /\ loop' = Home
  /\ UNCHANGED <<files, head, journal, life, queue, batch, batchActor, timer, drain, ghost>>

(* <-a.stop: from here the loop only drains the channel, flushes and       *)
(* returns.                                                                *)
StopSeen ==
  /\ up /\ loop.pc = "select" /\ stopped /\ ~loop.closing
  /\ loop' = [loop EXCEPT !.closing = TRUE]
  /\ UNCHANGED <<files, head, journal, life, queue, batch, batchActor, timer, call, drain, ghost, fails>>

ChannelDrainedMutant ==
  /\ up /\ loop.pc = "select" /\ loop.closing /\ queue = <<>> /\ batch # <<>>
  /\ loop' = [loop EXCEPT !.pc = "flush", !.next = "exited"]
  /\ UNCHANGED <<files, head, journal, life, queue, batch, batchActor, timer, call, drain, ghost, fails>>

ChannelDrained ==
  /\ up /\ loop.pc = "select" /\ loop.closing /\ queue = <<>>
  /\ loop' = [loop EXCEPT !.pc = "flush", !.next = "exited"]
  /\ UNCHANGED <<files, head, journal, life, queue, batch, batchActor, timer, call, drain, ghost, fails>>

-----------------------------------------------------------------------------
(* The life of the process.                                                *)

Close ==
  /\ up /\ drain.done /\ ~stopped
  /\ stopped' = TRUE
  /\ UNCHANGED <<files, head, journal, up, ends, mem, call, drain, ghost, fails>>

(* The process exits or is killed.  Memory is gone; files, repository and  *)
(* log stay.  A restructuring that was under way is undone by              *)
(* RecoverRefactor before anything else runs at the next start, unless     *)
(* its caller had given up and the last commit is that of its request.     *)
Undone == [p \in Paths |-> IF call.req.sync /\ p \in SetOf(call.req.paths) THEN call.undo[p] ELSE disk[p]]
MayBeCommitted == call.pc = "rollback" /\ \A p \in SetOf(call.req.paths) : head[p] = disk[p]
ProcessEnds ==
  /\ up /\ ends < MaxEnds
  /\ ends' = ends + 1
  /\ up' = FALSE
  /\ stopped' = FALSE
  /\ disk' = Undone \/ (MayBeCommitted /\ UNCHANGED disk)
  /\ queue' = <<>> /\ batch' = <<>> /\ batchActor' = DefaultActor /\ timer' = FALSE
  /\ loop' = FreshLoop /\ call' = IdleCall
  /\ drain' = [todo |-> {}, done |-> FALSE]
  /\ lost' = lost \union {p \in Paths : acked[p] > head[p] /\ p \notin journal}
  /\ UNCHANGED <<clock, head, journal, acked, fails>>

(* bootstrap.Build: NewAsyncGit starts the loop, then DrainUncommitted     *)
(* reads the log.                                                          *)
Restart ==
  /\ ~up
  /\ up' = TRUE
  /\ drain' = [todo |-> journal, done |-> journal = {}]
  /\ UNCHANGED <<files, head, journal, stopped, ends, mem, call, ghost, fails>>

(* Recommit one logged path: Versioner.Commit journals it again, enqueues  *)
(* it and returns nil.                                                     *)
DrainCommit(p) ==
  /\ up /\ ~drain.done /\ call.pc = "idle" /\ p \in drain.todo
  /\ drain' = [drain EXCEPT !.todo = @ \ {p}]
  /\ call' = [pc   |-> "journal",
              req  |-> [paths |-> <<p>>, actor |-> DefaultActor, sync |-> FALSE, done |-> 0],
              undo |-> IdleCall.undo]
  /\ UNCHANGED <<files, head, journal, life, mem, ghost, fails>>

(* No recommit failed: the log is removed.                                 *)
DrainRemovesLog ==
  /\ up /\ ~drain.done /\ call.pc = "idle" /\ drain.todo = {}
  /\ journal' = {}
  /\ drain' = [drain EXCEPT !.done = TRUE]
  /\ UNCHANGED <<files, head, life, mem, call, ghost, fails>>

-----------------------------------------------------------------------------
Caller == JournalPaths \/ Send \/ SendAfterStop \/ Rollback
Loop   == \/ Dequeue \/ TimerFires \/ FlushNothing \/ FlushCommits \/ FlushFails
          \/ ClearJournal \/ AppendReq \/ CommitNow \/ CommitNowFails
          \/ StopSeen \/ ChannelDrained
Drain  == (\E p \in Paths : DrainCommit(p)) \/ DrainRemovesLog

Next ==
  \/ \E a \in Actors, ps \in PathLists, sync \in BOOLEAN : Change(a, ps, sync)
  \/ Caller
  \/ Loop
  \/ Drain
  \/ Cancel
  \/ Close
  \/ ProcessEnds
  \/ Restart

(* Goroutines that can run do run.  Whether anyone writes, gives up,       *)
(* closes or restarts is up to the environment.                            *)
Spec == Init /\ [][Next]_vars /\ WF_vars(Caller) /\ WF_vars(Loop) /\ WF_vars(Drain)

-----------------------------------------------------------------------------
(* Properties.                                                             *)

(* The variables stay in their types; the channel never exceeds its        *)
(* capacity.                                                               *)
TypeOK ==
  /\ disk \in [Paths -> Nat] /\ head \in [Paths -> Nat]
  /\ clock \in 0..MaxWrites
  /\ journal \subseteq Paths
  /\ up \in BOOLEAN /\ stopped \in BOOLEAN
  /\ queue \in Seq(Request) /\ Len(queue) <= QueueCap
  /\ batch \in Seq(Entry)
  /\ batchActor \in Actors
  /\ timer \in BOOLEAN
  /\ loop \in LoopState
  /\ call \in CallState
  /\ drain \in [todo : SUBSET Paths, done : BOOLEAN]
  /\ acked \in [Paths -> Nat] /\ lost \subseteq Paths
  /\ fails \in Nat /\ ends \in Nat

(* The path of a write whose Commit returned nil was committed since, or   *)
(* the process still holds it for a commit: a failed flush, a full         *)
(* channel, a synchronous commit that fails or is given up, or a recovery  *)
(* never forgets it.  Once the loop has exited only a failed flush may     *)
(* have kept it from being committed.  The exceptions are a crash and a    *)
(* call that races Close: they put the path in lost.                       *)
AckedIsCarried ==
  up => \A p \in Paths \ lost :
    acked[p] > head[p] => IF loop.pc = "exited" THEN fails > 0 ELSE p \in InFlight

(* "never mixes authors": as long as no flush has failed, all paths in a   *)
(* batch were sent by the actor the commit will name.                      *)
NeverMixesAuthors ==
  fails = 0 => \A i \in DOMAIN batch : batch[i].actor = batchActor

(* CommitRecorded "lands after" the batched commits: when no flush failed, *)
(* nothing sent before it is still in the batch when it commits.           *)
SyncLandsAfterQueued ==
  fails = 0 /\ loop.pc = "record" => batch = <<>>

(* Without failures, crash or Close, an acknowledged write is committed    *)
(* in the end without any further traffic.                                 *)
AckedIsCommitted ==
  \A p \in Paths :
    acked[p] > head[p] ~> (acked[p] <= head[p] \/ p \in lost \/ fails > 0 \/ ~up)

(* Close returns: the loop exits even if its last flushes fail.            *)
CloseReturns == stopped ~> (loop.pc = "exited" \/ ~up)

(* No caller, and hence no holder of writeMu, is blocked for ever by a     *)
(* full channel or an unanswered synchronous commit, unless Close races it.*)
CallReturns == call.pc # "idle" ~> (call.pc = "idle" \/ stopped \/ ~up)

(* journalPaths: "If the process crashes after this but before the commit  *)
(* flushes, DrainUncommitted will find them on restart": every path that   *)
(* was sent and is not committed yet is in the log.                        *)
JournalCoversQueue ==
  \A p \in QueuedPaths \union BatchPaths :
    disk[p] # head[p] /\ acked[p] = disk[p] => p \in journal

-----------------------------------------------------------------------------
(* The inductive invariant behind the safety properties.                   *)

(* The loop holds the request its next step needs, and exits only after    *)
(* Close.                                                                  *)
Leaving == loop.pc = "exited" \/ (loop.pc \in {"flush", "clear"} /\ loop.next = "exited")
HeadedFor(x) == loop.pc = x \/ (loop.pc \in {"flush", "clear"} /\ loop.next = x)
LoopInv ==
  /\ HeadedFor("select") \/ Leaving => loop.req = NoRequest
  /\ HeadedFor("append") => ~loop.req.sync
  /\ HeadedFor("record") => loop.req.sync
  /\ Leaving => loop.closing
  /\ loop.closing => stopped

(* Draining the log happens before the server can be closed, and makes     *)
(* asynchronous calls only.                                                *)
DrainInv ==
  /\ stopped => drain.done
  /\ drain.done => drain.todo = {}
  /\ ~drain.done => ~call.req.sync

(* A stopped process has nothing in memory, and what it owed is in the log.*)
DownInv ==
  ~up => /\ ~stopped /\ ~drain.done /\ queue = <<>> /\ batch = <<>>
         /\ loop = FreshLoop /\ call = IdleCall
         /\ \A p \in Paths \ lost : acked[p] > head[p] => p \in journal

(* Stamps grow: neither a write nor a rollback, which only a synchronous    *)
(* call makes, goes behind an acknowledged write.                          *)
StampInv ==
  /\ call.pc \in {"wait", "rollback"} => call.req.sync
  /\ \A p \in Paths : acked[p] <= disk[p] /\ disk[p] <= clock
  /\ call.req.sync => \A p \in Paths : acked[p] <= call.undo[p] /\ call.undo[p] <= clock

(* What is sent to a loop that is leaving is not carried any more.         *)
LateInv ==
  /\ Leaving => \A i \in DOMAIN queue : ~queue[i].sync => SetOf(queue[i].paths) \subseteq lost
  /\ loop.pc = "exited" /\ fails = 0 => batch = <<>>

(* AckedIsCarried, with only the asynchronous requests counted as carriers *)
(* and a batch that is already committed not counted at all.               *)
Carries(p) ==
  \/ \E i \in DOMAIN queue : ~queue[i].sync /\ p \in SetOf(queue[i].paths)
  \/ loop.pc # "clear" /\ p \in BatchPaths
  \/ p \in drain.todo
  \/ ~drain.done /\ p \in SetOf(call.req.paths)
  \/ ~loop.req.sync /\ p \in SetOf(loop.req.paths)
CarryInv ==
  up => \A p \in Paths \ lost :
    acked[p] > head[p] => IF loop.pc = "exited" THEN fails > 0 ELSE Carries(p)

(* Without failed flushes, what meets the batch has its author.            *)
AuthorInv ==
  fails = 0 => /\ \A i \in DOMAIN batch : batch[i].actor = batchActor
               /\ loop.pc = "append" => batch = <<>> \/ loop.req.actor = batchActor
               /\ loop.pc = "record" => batch = <<>>

IInv == LoopInv /\ DrainInv /\ DownInv /\ StampInv /\ LateInv /\ CarryInv /\ AuthorInv
=============================================================================
