---------------------------- MODULE AsyncIndexer ----------------------------
(***************************************************************************)
(* The background indexer of internal/pipeline/async_index.go, fed by the  *)
(* pipeline's writes and deletes, beside the startup reconciliation        *)
(* SQLite.Resync, which writes the same tables without the indexer.        *)
(*                                                                         *)
(* A page's content is the stamp of the write that produced it; 0 is a     *)
(* page that does not exist.  The search database has a row of doc_paths   *)
(* for each page it lists; the words inserted under the page's row number  *)
(* in docs, a contentless full-text table, where an insertion adds to what *)
(* is there and nothing is ever taken out, so that what a listed page is   *)
(* found by is all that was ever inserted for it; and links, file_meta and *)
(* page_records, which each upsert replaces.                               *)
(***************************************************************************)
EXTENDS Naturals, Sequences, FiniteSetsExt

CONSTANTS
  Paths,
  Waiters,        \* goroutines that may call Flush
  PendingCap,     \* capacity of the pending channel (2000 in the code)
  BatchMax,       \* requests that force a flush (100 in the code)
  MaxWrites,      \* bound: writes and deletes in a behaviour
  MaxFails,       \* bound: transactions and reads that fail
  ResyncAtStart   \* Resync runs, and the tables may be out of date

ASSUME IndexerAssumption ==
  /\ PendingCap \in Nat \ {0} /\ BatchMax \in Nat \ {0}
  /\ MaxWrites \in Nat /\ MaxFails \in Nat
  /\ ResyncAtStart \in BOOLEAN
  /\ "none" \notin Waiters

VARIABLES
  disk,      \* disk[p]: the page's content in the store
  clock,     \* stamps given out so far
  index,     \* the search database: rows, words and meta, 0 for no metadata
  writer,    \* the holder of writeMu, between changing the page and enqueueing it
  pending,   \* AsyncIndexer.pending
  batch,     \* run's batch
  timer,     \* the batch window timer is running
  flushCh,   \* AsyncIndexer.flushCh, capacity 1
  loop,      \* where run is, where it goes next, and the Flush it answers
  waiter,    \* waiter[w]: a goroutine in Flush, and what it waits for
  life,      \* "up", "closing" (Stack.Close waits for Resync) or "stopped"
  resync,    \* Resync: its snapshot of the table and its walk
  sent,      \* sent[p]: newest change of p handed to the indexer (history)
  applied,   \* applied[p]: newest change of p it has processed (history)
  missed,    \* pages with a change or a turn in Resync that failed (history)
  raced,     \* pages changed while Resync was running (history)
  fails      \* failed transactions and reads so far

vars == <<disk, clock, index, writer, pending, batch, timer, flushCh, loop,
          waiter, life, resync, sent, applied, missed, raced, fails>>
store   == <<disk, clock, raced>>
channel == <<pending, sent>>
ghost   == <<applied, missed>>

None    == "none"
Content == 0 .. (MaxWrites + 2)
Req     == [path : Paths, stamp : Content, delete : BOOLEAN]
NoReq   == [path |-> None, stamp |-> 0, delete |-> FALSE]
Zero    == [p \in Paths |-> 0]

FreshLoop == [pc |-> "select", next |-> "select", answers |-> None]

(* At start the tables may lack pages that are there, list pages that are  *)
(* gone, or hold older content: whatever was pending when the process      *)
(* died.  unindexed.log names those paths, and nothing reads it.           *)
Init ==
  /\ disk  \in [Paths -> {0, 2}]
  /\ index \in [rows : SUBSET Paths, words : {[p \in Paths |-> {1}]}, meta : [Paths -> {0, 1}]]
  /\ ResyncAtStart \/ \A p \in Paths : disk[p] = 0 /\ p \notin index.rows /\ index.meta[p] = 0
  /\ clock = 2
  /\ writer = NoReq
  /\ pending = <<>> /\ batch = <<>> /\ timer = FALSE /\ flushCh = <<>>
  /\ loop = FreshLoop
  /\ waiter = [w \in Waiters |-> [pc |-> "idle", want |-> Zero]]
  /\ life = "up"
  /\ resync = [pc |-> IF ResyncAtStart THEN "list" ELSE "done",
               indexed |-> {}, onDisk |-> {},
               toVisit |-> IF ResyncAtStart THEN Paths ELSE {},
               holds |-> NoReq]
  /\ sent = Zero /\ applied = Zero
  /\ missed = {} /\ raced = {}
  /\ fails = 0

-----------------------------------------------------------------------------
(* The pipeline: indexFile and deindexFile, called with writeMu held after *)
(* the store was changed.                                                  *)

Touch(p, content) ==
  /\ writer = NoReq /\ clock < MaxWrites + 2
  /\ clock' = clock + 1
  /\ disk' = [disk EXCEPT ![p] = content]
  /\ writer' = [path |-> p, stamp |-> clock + 1, delete |-> content = 0]
  /\ raced' = IF resync.pc = "done" THEN raced ELSE raced \union {p}
  /\ UNCHANGED <<index, channel, batch, timer, flushCh, loop, waiter, life, resync, ghost, fails>>

WritePage(p)  == Touch(p, clock + 1)
DeletePage(p) == disk[p] # 0 /\ Touch(p, 0)

(* a.pending <- req.  The channel keeps its room after stop is closed, but *)
(* what enters it then may be too late.                                    *)
HasRoomMutant == TRUE
HasRoom == Len(pending) < PendingCap
Enqueue ==
  /\ writer # NoReq /\ HasRoom
  /\ pending' = Append(pending, writer)
  /\ writer' = NoReq
  /\ IF life = "stopped"
     THEN missed' = missed \union {writer.path} /\ UNCHANGED sent
     ELSE sent' = [sent EXCEPT ![writer.path] = writer.stamp]
          /\ missed' = missed \ {writer.path}
  /\ UNCHANGED <<store, index, batch, timer, flushCh, loop, waiter, life, resync, applied, fails>>

EnqueueAfterStop ==
  /\ writer # NoReq /\ life = "stopped"
  /\ missed' = missed \union {writer.path}
  /\ writer' = NoReq
  /\ UNCHANGED <<store, index, channel, batch, timer, flushCh, loop, waiter, life, resync, applied, fails>>

-----------------------------------------------------------------------------
(* Flush.                                                                  *)

CallFlush(w) ==
  /\ waiter[w].pc = "idle" /\ life # "stopped"
  /\ waiter' = [waiter EXCEPT ![w] = [pc |-> "send", want |-> sent]]
  /\ UNCHANGED <<store, index, writer, channel, batch, timer, flushCh, loop, life, resync, ghost, fails>>

SendFlush(w) ==
  /\ waiter[w].pc = "send" /\ flushCh = <<>>
  /\ flushCh' = <<w>>
  /\ waiter' = [waiter EXCEPT ![w].pc = "wait"]
  /\ UNCHANGED <<store, index, writer, channel, batch, timer, loop, life, resync, ghost, fails>>

(* <-a.stop: return without waiting for anything.                          *)
FlushAfterStop(w) ==
  /\ waiter[w].pc = "send" /\ life = "stopped"
  /\ waiter' = [waiter EXCEPT ![w] = [pc |-> "idle", want |-> Zero]]
  /\ UNCHANGED <<store, index, writer, channel, batch, timer, flushCh, loop, life, resync, ghost, fails>>

FlushReturns(w) ==
  /\ waiter[w].pc = "done"
  /\ waiter' = [waiter EXCEPT ![w] = [pc |-> "idle", want |-> Zero]]
  /\ UNCHANGED <<store, index, writer, channel, batch, timer, flushCh, loop, life, resync, ghost, fails>>

-----------------------------------------------------------------------------
(* AsyncIndexer.run.                                                       *)

(* timer.Stop before a full batch is flushed, else timer.Reset.            *)
ArmTimerMutant(full) == FALSE
ArmTimer(full) == ~full

TakeRequest ==
  /\ loop.pc = "select" /\ pending # <<>>
  /\ pending' = Tail(pending)
  /\ batch' = Append(batch, Head(pending))
  /\ LET full == Len(batch') >= BatchMax IN
     /\ timer' = ArmTimer(full)
     /\ loop' = IF full THEN [loop EXCEPT !.pc = "upserts"] ELSE loop
  /\ UNCHANGED <<store, index, writer, sent, flushCh, waiter, life, resync, ghost, fails>>

TimerFires ==
  /\ loop.pc = "select" /\ timer
  /\ timer' = FALSE
  /\ loop' = [loop EXCEPT !.pc = "upserts"]
  /\ UNCHANGED <<store, index, writer, channel, batch, flushCh, waiter, life, resync, ghost, fails>>

TakeFlushMutant ==
  /\ loop.pc = "select" /\ flushCh # <<>>
  /\ timer' = FALSE
  /\ flushCh' = <<>>
  /\ loop' = [loop EXCEPT !.pc = "drain",
                          !.answers = IF batch = <<>> THEN None ELSE Head(flushCh)]
  /\ UNCHANGED <<store, index, writer, channel, batch, waiter, life, resync, ghost, fails>>

TakeFlush ==
  /\ loop.pc = "select" /\ flushCh # <<>>
  /\ timer' = FALSE
  /\ flushCh' = <<>>
  /\ loop' = [loop EXCEPT !.pc = "drain", !.answers = Head(flushCh)]
  /\ UNCHANGED <<store, index, writer, channel, batch, waiter, life, resync, ghost, fails>>

SeeStopMutant ==
  /\ loop.pc = "select" /\ life = "stopped"
  /\ loop' = [loop EXCEPT !.pc = "upserts", !.next = "exited"]
  /\ UNCHANGED <<store, index, writer, channel, batch, timer, flushCh, waiter, life, resync, ghost, fails>>

(* <-a.stop: drain the channel, flush and return.  flushCh is not looked   *)
(* at again.                                                               *)
SeeStop ==
  /\ loop.pc = "select" /\ life = "stopped"
  /\ loop' = [loop EXCEPT !.pc = "drain", !.next = "exited"]
  /\ UNCHANGED <<store, index, writer, channel, batch, timer, flushCh, waiter, life, resync, ghost, fails>>

DrainOne ==
  /\ loop.pc = "drain" /\ pending # <<>>
  /\ batch' = Append(batch, Head(pending))
  /\ pending' = Tail(pending)
  /\ UNCHANGED <<store, index, writer, sent, timer, flushCh, loop, waiter, life, resync, ghost, fails>>

(* The inner select's default: the channel is empty now.                   *)
DrainedMutant ==
  /\ loop.pc = "drain"
  /\ loop' = [loop EXCEPT !.pc = "upserts"]
  /\ UNCHANGED <<store, index, writer, channel, batch, timer, flushCh, waiter, life, resync, ghost, fails>>

Drained ==
  /\ loop.pc = "drain" /\ pending = <<>>
  /\ loop' = [loop EXCEPT !.pc = "upserts"]
  /\ UNCHANGED <<store, index, writer, channel, batch, timer, flushCh, waiter, life, resync, ghost, fails>>

(* flushBatch splits the batch: first the upserts, in the order they came, *)
(* then the deletes.                                                       *)
Positions(del, p) == {i \in DOMAIN batch : batch[i].path = p /\ batch[i].delete = del}
Batched(del)      == {p \in Paths : Positions(del, p) # {}}

(* IndexBatch, one transaction: a row for each page, its words beside the  *)
(* ones that are there.                                                    *)
Inserted ==
  [index EXCEPT !.rows = @ \union Batched(FALSE),
                !.words = [p \in Paths |-> @[p] \union {batch[i].stamp : i \in Positions(FALSE, p)}]]

(* IndexLinks and IndexMeta replace what they have of a page, for each     *)
(* request but those in failed, whether IndexBatch succeeded or not.       *)
Described(tables, failed) ==
  [tables EXCEPT !.meta =
    [p \in Paths |-> LET done == Positions(FALSE, p) \ failed
                     IN IF done # {} THEN batch[Max(done)].stamp ELSE @[p]]]

Upserts ==
  /\ loop.pc = "upserts"
  /\ index' = Described(Inserted, {})
  /\ loop' = [loop EXCEPT !.pc = "deletes"]
  /\ UNCHANGED <<store, writer, channel, batch, timer, flushCh, waiter, life, resync, ghost, fails>>

(* An error is logged and the page is not tried again.                     *)
UpsertsFail ==
  /\ loop.pc = "upserts" /\ fails < MaxFails
  /\ \E failed \in SUBSET UNION {Positions(FALSE, p) : p \in Paths} :
       \/ /\ failed # {}
          /\ index' = Described(Inserted, failed)
          /\ missed' = missed \union {batch[i].path : i \in failed}
       \/ /\ Batched(FALSE) # {}
          /\ index' = Described(index, failed)
          /\ missed' = missed \union Batched(FALSE)
  /\ fails' = fails + 1
  /\ loop' = [loop EXCEPT !.pc = "deletes"]
  /\ UNCHANGED <<store, writer, channel, batch, timer, flushCh, waiter, life, resync, applied>>

(* After the deletes the batch is done with: clearJournal, batch[:0], and  *)
(* close(done) for the Flush being answered.                               *)
Finish ==
  /\ applied' = [p \in Paths |->
       Max({applied[p]} \union {batch[i].stamp : i \in Positions(TRUE, p) \union Positions(FALSE, p)})]
  /\ batch' = <<>>
  /\ waiter' = [w \in Waiters |-> IF w = loop.answers THEN [waiter[w] EXCEPT !.pc = "done"] ELSE waiter[w]]
  /\ loop' = [loop EXCEPT !.pc = loop.next, !.answers = None]
  /\ UNCHANGED <<store, writer, channel, timer, flushCh, life, resync>>

(* RemoveAll, a transaction for each page: the words stay.                 *)
Removed(gone) == [index EXCEPT !.rows = @ \ gone,
                               !.meta = [p \in Paths |-> IF p \in gone THEN 0 ELSE @[p]]]

DeletesMutant ==
  /\ loop.pc = "deletes"
  /\ index' = Removed(Batched(TRUE) \ Batched(FALSE))
  /\ Finish
  /\ UNCHANGED <<missed, fails>>

Deletes ==
  /\ loop.pc = "deletes"
  /\ index' = Removed(Batched(TRUE))
  /\ Finish
  /\ UNCHANGED <<missed, fails>>

(* An error is logged.                                                     *)
DeletesFail ==
  /\ loop.pc = "deletes" /\ fails < MaxFails
  /\ \E failed \in (SUBSET Batched(TRUE)) \ {{}} :
       /\ index' = Removed(Batched(TRUE) \ failed)
       /\ missed' = missed \union failed
  /\ fails' = fails + 1
  /\ Finish

-----------------------------------------------------------------------------
(* SQLite.Resync: list the table, walk the store indexing what the list    *)
(* lacks, then remove what the walk did not meet.                          *)

ResyncList ==
  /\ resync.pc = "list"
  /\ resync' = [resync EXCEPT !.pc = "walk", !.indexed = index.rows]
  /\ UNCHANGED <<store, index, writer, channel, batch, timer, flushCh, loop, waiter, life, ghost, fails>>

ResyncVisit(p) ==
  /\ resync.pc = "walk" /\ resync.holds = NoReq /\ p \in resync.toVisit
  /\ resync' = [resync EXCEPT
       !.toVisit = @ \ {p},
       !.onDisk  = IF disk[p] # 0 THEN @ \union {p} ELSE @,
       !.holds   = IF disk[p] # 0 /\ p \notin resync.indexed
                   THEN [path |-> p, stamp |-> disk[p], delete |-> FALSE] ELSE NoReq]
  /\ UNCHANGED <<store, index, writer, channel, batch, timer, flushCh, loop, waiter, life, ghost, fails>>

ResyncIndex ==
  /\ resync.pc = "walk" /\ resync.holds # NoReq
  /\ index' = [index EXCEPT !.rows = @ \union {resync.holds.path},
                            !.words[resync.holds.path] = @ \union {resync.holds.stamp}]
  /\ resync' = [resync EXCEPT !.holds = NoReq]
  /\ UNCHANGED <<store, writer, channel, batch, timer, flushCh, loop, waiter, life, ghost, fails>>

ResyncWalkedMutant ==
  /\ resync.pc = "walk" /\ resync.holds = NoReq /\ resync.toVisit = {}
  /\ resync' = [resync EXCEPT !.pc = "remove", !.indexed = index.rows \ @]
  /\ UNCHANGED <<store, index, writer, channel, batch, timer, flushCh, loop, waiter, life, ghost, fails>>

ResyncWalked ==
  /\ resync.pc = "walk" /\ resync.holds = NoReq /\ resync.toVisit = {}
  /\ resync' = [resync EXCEPT !.pc = "remove", !.indexed = @ \ resync.onDisk]
  /\ UNCHANGED <<store, index, writer, channel, batch, timer, flushCh, loop, waiter, life, ghost, fails>>

ResyncRemove(p) ==
  /\ resync.pc = "remove" /\ p \in resync.indexed
  /\ index' = [index EXCEPT !.rows = @ \ {p}]
  /\ resync' = [resync EXCEPT !.indexed = @ \ {p}]
  /\ UNCHANGED <<store, writer, channel, batch, timer, flushCh, loop, waiter, life, ghost, fails>>

(* Read, Index or Remove returns an error: the page keeps what it has, and *)
(* Resync goes on.                                                         *)
ResyncSkips(p) ==
  /\ fails < MaxFails
  /\ \/ /\ resync.pc = "walk" /\ resync.holds = NoReq
        /\ p \in resync.toVisit \ resync.indexed /\ disk[p] # 0
        /\ resync' = [resync EXCEPT !.toVisit = @ \ {p}, !.onDisk = @ \union {p}]
     \/ /\ resync.pc = "walk" /\ resync.holds # NoReq /\ resync.holds.path = p
        /\ resync' = [resync EXCEPT !.holds = NoReq]
     \/ /\ resync.pc = "remove" /\ p \in resync.indexed
        /\ resync' = [resync EXCEPT !.indexed = @ \ {p}]
  /\ fails' = fails + 1
  /\ missed' = missed \union {p}
  /\ UNCHANGED <<store, index, writer, channel, batch, timer, flushCh, loop, waiter, life, applied>>

EndedResync == [pc |-> "done", indexed |-> {}, onDisk |-> {}, toVisit |-> {}, holds |-> NoReq]

(* An error in the query of doc_paths or in listing a directory ends       *)
(* Resync; the start-up only logs it.                                      *)
ResyncAborts ==
  /\ resync.pc \in {"list", "walk"} /\ resync.holds = NoReq /\ fails < MaxFails
  /\ resync' = EndedResync
  /\ fails' = fails + 1
  /\ missed' = Paths
  /\ UNCHANGED <<store, index, writer, channel, batch, timer, flushCh, loop, waiter, life, applied>>

(* All removed, or cancelled by Stack.Close.                               *)
ResyncEnds ==
  /\ \/ resync.pc = "remove" /\ resync.indexed = {}
     \/ resync.pc # "done" /\ life = "closing"
  /\ resync' = EndedResync
  /\ UNCHANGED <<store, index, writer, channel, batch, timer, flushCh, loop, waiter, life, ghost, fails>>

-----------------------------------------------------------------------------
(* Stack.Close cancels Resync and waits for it, then closes the indexer.   *)
StackClose ==
  /\ life = "up"
  /\ life' = "closing"
  /\ UNCHANGED <<store, index, writer, channel, batch, timer, flushCh, loop, waiter, resync, ghost, fails>>

Close ==
  /\ life = "closing" /\ resync.pc = "done"
  /\ life' = "stopped"
  /\ UNCHANGED <<store, index, writer, channel, batch, timer, flushCh, loop, waiter, resync, ghost, fails>>

-----------------------------------------------------------------------------
Loop == \/ TakeRequest \/ TimerFires \/ TakeFlush \/ SeeStop \/ DrainOne \/ Drained
        \/ Upserts \/ UpsertsFail \/ Deletes \/ DeletesFail
Resync == \/ ResyncList \/ ResyncIndex \/ ResyncWalked \/ ResyncEnds \/ ResyncAborts
          \/ \E p \in Paths : ResyncVisit(p) \/ ResyncRemove(p) \/ ResyncSkips(p)
Flush(w) == SendFlush(w) \/ FlushAfterStop(w) \/ FlushReturns(w)

Next ==
  \/ \E p \in Paths : WritePage(p) \/ DeletePage(p)
  \/ Enqueue \/ EnqueueAfterStop
  \/ \E w \in Waiters : CallFlush(w) \/ Flush(w)
  \/ Loop
  \/ Resync
  \/ StackClose \/ Close

(* The indexer's goroutine runs, and so does whoever waits in Flush; the   *)
(* runtime serves the goroutines blocked on a full channel in their order, *)
(* so none is passed over for ever.                                        *)
Spec == /\ Init /\ [][Next]_vars
        /\ WF_vars(Loop) /\ WF_vars(Enqueue \/ EnqueueAfterStop)
        /\ \A w \in Waiters : WF_vars(Flush(w)) /\ SF_vars(SendFlush(w))

-----------------------------------------------------------------------------
(* Properties.                                                             *)

(* The variables stay in their types, the channel within its capacity.     *)
TypeOK ==
  /\ disk \in [Paths -> Content] /\ clock \in Content
  /\ index \in [rows : SUBSET Paths, words : [Paths -> SUBSET Content], meta : [Paths -> Content]]
  /\ writer \in Req \union {NoReq}
  /\ pending \in Seq(Req) /\ Len(pending) <= PendingCap
  /\ batch \in Seq(Req)
  /\ timer \in BOOLEAN
  /\ flushCh \in Seq(Waiters) /\ Len(flushCh) <= 1
  /\ loop \in [pc : {"select", "drain", "upserts", "deletes", "exited"},
               next : {"select", "exited"}, answers : Waiters \union {None}]
  /\ waiter \in [Waiters -> [pc : {"idle", "send", "wait", "done"}, want : [Paths -> Content]]]
  /\ life \in {"up", "closing", "stopped"}
  /\ resync \in [pc : {"list", "walk", "remove", "done"},
                 indexed : SUBSET Paths, onDisk : SUBSET Paths, toVisit : SUBSET Paths,
                 holds : Req \union {NoReq}]
  /\ sent \in [Paths -> Content] /\ applied \in [Paths -> Content]
  /\ missed \subseteq Paths /\ raced \subseteq Paths
  /\ fails \in Nat

(* "blocks until all pending items are written": when Flush returns, every *)
(* change handed over before the call has been processed, though the       *)
(* request to flush and the changes travel in different channels.          *)
FlushCoversEarlierWrites ==
  \A w \in Waiters, p \in Paths : waiter[w].pc = "done" => applied[p] >= waiter[w].want[p]

(* Whatever was accepted before Close is processed before the loop exits   *)
(* and the search database is closed.                                      *)
CloseProcessesAll ==
  loop.pc = "exited" => \A p \in Paths : applied[p] >= sent[p]

(* Nothing is on its way to the tables.                                    *)
Settled ==
  writer = NoReq /\ pending = <<>> /\ batch = <<>> /\ resync.pc = "done"

(* Once things have settled, a page the pipeline changed is only listed if *)
(* it exists, and then found by the words it has now (and by others it had *)
(* before); its links and metadata are those of what it has now, or gone.  *)
(* Excepted are pages changed while Resync ran, and requests that were     *)
(* dropped or whose transaction failed.                                    *)
NeverStale ==
  Settled => \A p \in Paths \ (missed \union raced) :
    applied[p] > 0 => /\ p \in index.rows => disk[p] # 0 /\ disk[p] \in index.words[p]
                      /\ index.meta[p] \in {0, disk[p]}

(* "used at startup to catch out-of-band filesystem changes": once things  *)
(* have settled after a Resync that was not cut short, the tables list     *)
(* exactly the pages there are, as far as the pipeline left them alone and *)
(* Resync could read, index and remove them.                               *)
ResyncReconciles ==
  Settled /\ life = "up" => \A p \in Paths \ (missed \union raced) :
    sent[p] = 0 => (p \in index.rows <=> disk[p] # 0)

(* A change is processed within the window without any further traffic.    *)
ChangesAreProcessed ==
  \A p \in Paths : sent[p] > applied[p] ~> sent[p] <= applied[p]

(* Flush does not hang, unless Close overtakes it.                         *)
FlushIsAnswered ==
  \A w \in Waiters : waiter[w].pc \in {"send", "wait"} ~> (waiter[w].pc \in {"done", "idle"} \/ life = "stopped")

(* "the search index catches up within the batch window": once things have *)
(* settled without a Resync or a failure, the tables list the pages there  *)
(* are.                                                                    *)
IndexCatchesUp ==
  Settled => \A p \in Paths \ (missed \union raced) : p \in index.rows <=> disk[p] # 0
=============================================================================
