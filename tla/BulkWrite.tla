------------------------------ MODULE BulkWrite ------------------------------
(***************************************************************************)
(* Pipeline.BulkWriteIfMatch (internal/pipeline/pipeline.go) with its      *)
(* rollback, beside single writes, the search index behind the             *)
(* AsyncIndexer or without it, and the embedding queue of Vectors.         *)
(*                                                                         *)
(* Requests only upsert pages here (AsyncIndexer has their deletion), so   *)
(* the AsyncIndexer is taken as a first-in-first-out queue, its batches    *)
(* one request at a time: BehavesAsQueue and OneAtATime of                 *)
(* AsyncIndexerProofs say why.                                             *)
(***************************************************************************)
EXTENDS Vectors, SequencesExt

INSTANCE PageTables WITH Absent <- 0

CONSTANTS
  AsyncModes,  \* whether Pipeline.AsyncIdx is set
  MaxStamps    \* bound: contents written

ASSUME BulkAssumption == AsyncModes \subseteq BOOLEAN /\ MaxStamps \in Nat

VARIABLES
  disk,      \* disk[p]: the page in the store
  clock,     \* stamps given out
  index,     \* index[p]: what the search database has of p
  asyncIdx,  \* Pipeline.AsyncIdx # nil
  pending,   \* the requests AsyncIndexer has
  op,        \* the request that holds writeMu
  aborted,   \* contents a rollback has taken back (history)
  unindexed  \* pages whose last indexing was not whole, an error in it (history)

vars  == <<service, fails, disk, clock, index, asyncIdx, pending, op, aborted, unindexed>>
tables == <<index, unindexed>>
pages == <<disk, clock>>

Content == 0 .. (MaxStamps + 1)
Idle == [pc |-> "idle", files |-> <<>>, pre |-> [p \in Paths |-> 0],
         new |-> [p \in Paths |-> 0], done |-> 0]

Init ==
  /\ disk \in [Paths -> {0, 1}] /\ index = [p \in Paths |-> Initially(disk[p])]
  /\ ServiceInit(disk)
  /\ clock = 1
  /\ asyncIdx \in AsyncModes
  /\ pending = <<>> /\ op = Idle /\ aborted = {} /\ unindexed = {}

-----------------------------------------------------------------------------
(* Of the calls that index a page any may fail, which is logged.           *)
Indexes(p, c, calls) ==
  \E lost \in SUBSET calls :
    /\ IF lost = {} THEN UNCHANGED fails ELSE Fail
    /\ index' = [index EXCEPT ![p] = Reindexed(@, c, lost \union (Calls \ calls))]
    /\ unindexed' = {q \in unindexed \union (IF lost = {} THEN {} ELSE {p}) :
                       q # p \/ ~ Shows(index'[p], c)}

(* AsyncIndexer.flushBatch, for one request.                               *)
FlushOne ==
  /\ pending # <<>>
  /\ Indexes(Head(pending).path, Head(pending).stamp, Calls)
  /\ Submit(Head(pending).path, Head(pending).stamp)
  /\ pending' = Tail(pending)
  /\ UNCHANGED <<skip, pages, asyncIdx, op, aborted>>

Enqueue(p, c) == pending' = Append(pending, [path |-> p, stamp |-> c])

(* WriteWithOpts, which cannot fail here (Pipeline has that), with         *)
(* indexFile at its end.                                                   *)
WritePage(p) ==
  /\ op = Idle /\ life = "up" /\ clock <= MaxStamps
  /\ clock' = clock + 1
  /\ disk' = [disk EXCEPT ![p] = clock + 1]
  /\ IF asyncIdx
     THEN Enqueue(p, clock + 1) /\ UNCHANGED <<tables, fails, queue, busy, vectors, life, sent, last>>
     ELSE Indexes(p, clock + 1, Calls) /\ Submit(p, clock + 1) /\ UNCHANGED pending
  /\ UNCHANGED <<skip, asyncIdx, op, aborted>>

-----------------------------------------------------------------------------
(* BulkWriteIfMatch up to the pre-images.  A stale If-Match, a file that   *)
(* may not be overwritten or a denied transition ends it before.           *)
Start(files) ==
  /\ op = Idle /\ life = "up" /\ clock + Len(files) <= MaxStamps + 1
  /\ clock' = clock + Len(files)
  /\ op' = [pc |-> "write", files |-> files, pre |-> disk, done |-> 0,
            new |-> [p \in Paths |-> IF Contains(files, p)
                       THEN clock + (CHOOSE i \in DOMAIN files : files[i] = p) ELSE disk[p]]]
  /\ UNCHANGED <<service, fails, disk, tables, asyncIdx, pending, aborted>>

File == op.files[op.done + 1]
Advance(next) == IF op.done + 1 = Len(op.files) THEN [op EXCEPT !.pc = next, !.done = 0]
                 ELSE [op EXCEPT !.done = @ + 1]

WriteFile ==
  /\ op.pc = "write"
  /\ disk' = [disk EXCEPT ![File] = op.new[File]]
  /\ op' = Advance("search")
  /\ UNCHANGED <<service, fails, clock, tables, asyncIdx, pending, aborted>>

(* rollback(upTo) undoes the first upTo files, the last one first.         *)
RollbackMutant(upTo) == [op EXCEPT !.pc = IF upTo < 2 THEN "done" ELSE "restore", !.done = upTo - 1]
Rollback(upTo) == [op EXCEPT !.pc = IF upTo = 0 THEN "done" ELSE "restore", !.done = upTo]

WriteFails ==
  /\ op.pc = "write" /\ Fail
  /\ op' = Rollback(op.done)
  /\ UNCHANGED <<service, pages, tables, asyncIdx, pending, aborted>>

(* Searcher.IndexBatch, one transaction whose error is logged, or nothing  *)
(* if there is an AsyncIndexer.                                            *)
Batched == [p \in Paths |-> IF Contains(op.files, p) THEN Reindexed(index[p], op.new[p], Calls \ {"search"})
                            ELSE index[p]]
IndexSearch ==
  /\ op.pc = "search"
  /\ \/ asyncIdx /\ UNCHANGED <<tables, fails>>
     \/ ~ asyncIdx /\ index' = Batched /\ UNCHANGED <<unindexed, fails>>
     \/ ~ asyncIdx /\ Fail /\ unindexed' = unindexed \union ToSet(op.files) /\ UNCHANGED index
  /\ op' = [op EXCEPT !.pc = "index"]
  /\ UNCHANGED <<service, pages, asyncIdx, pending, aborted>>

(* AsyncIdx.Enqueue or indexFileNonSearch, file by file.                   *)
IndexFile ==
  /\ op.pc = "index"
  /\ IF asyncIdx
     THEN Enqueue(File, op.new[File]) /\ UNCHANGED <<tables, fails, queue, busy, vectors, life, sent, last>>
     ELSE Indexes(File, op.new[File], {"links", "meta"}) /\ Submit(File, op.new[File]) /\ UNCHANGED pending
  /\ op' = Advance("commit")
  /\ UNCHANGED <<skip, pages, asyncIdx, aborted>>

Commit ==
  /\ op.pc = "commit"
  /\ op' = [op EXCEPT !.pc = "done"]
  /\ UNCHANGED <<service, fails, pages, tables, asyncIdx, pending, aborted>>

(* With versioning.async_commit false; AsyncGit.BulkCommit returns nil.    *)
CommitFails ==
  /\ op.pc = "commit" /\ Fail
  /\ op' = Rollback(Len(op.files))
  /\ UNCHANGED <<service, pages, tables, asyncIdx, pending, aborted>>

Undone == op.files[op.done]

(* SkipPath, the store, and the searcher and the links directly, AsyncIdx  *)
(* or not; the words of the aborted content stay in the full text table,   *)
(* and its metadata stays as well.                                         *)
RestoreIndexMutant(p) == UNCHANGED <<tables, fails>>
RestoreIndex(p) == Indexes(p, op.pre[p], {"search", "links"})
Restore ==
  /\ op.pc = "restore"
  /\ skip' = skip \union {Undone}
  /\ disk' = [disk EXCEPT ![Undone] = op.pre[Undone]]
  /\ RestoreIndex(Undone)
  /\ aborted' = aborted \union {op.new[Undone]}
  /\ op' = [op EXCEPT !.pc = "requeue"]
  /\ UNCHANGED <<queue, busy, vectors, life, sent, last, clock, asyncIdx, pending>>

(* Vectors.Enqueue of the pre-image, or EnqueueDelete.                     *)
RequeuedMutant(p) == op.new[p]
Requeued(p) == op.pre[p]
Requeue ==
  /\ op.pc = "requeue"
  /\ Submit(Undone, Requeued(Undone))
  /\ op' = [op EXCEPT !.pc = IF op.done = 1 THEN "done" ELSE "restore", !.done = @ - 1]
  /\ UNCHANGED <<skip, fails, pages, tables, asyncIdx, pending, aborted>>

Return ==
  /\ op.pc = "done"
  /\ op' = Idle
  /\ UNCHANGED <<service, fails, pages, tables, asyncIdx, pending, aborted>>

(* Stack.Close, when the servers have stopped: the AsyncIndexer first,     *)
(* then the vectors.                                                       *)
StackClose ==
  /\ op = Idle /\ pending = <<>>
  /\ CloseService
  /\ UNCHANGED <<pages, tables, asyncIdx, pending, op, aborted>>

-----------------------------------------------------------------------------
rest == <<pages, tables, asyncIdx, pending, op, aborted>>

Bulk == \/ WriteFile \/ WriteFails \/ IndexSearch \/ IndexFile \/ Commit \/ CommitFails
        \/ Restore \/ Requeue \/ Return
Batches == {<<p>> : p \in Paths} \union {<<p, q>> : p, q \in Paths}

Next ==
  \/ \E p \in Paths : WritePage(p)
  \/ \E files \in {f \in Batches : IsInjective(f)} : Start(files)
  \/ Bulk \/ FlushOne \/ StackClose
  \/ \E w \in Workers :
       \/ Take(w) /\ UNCHANGED rest
       \/ RemoveOld(w) /\ UNCHANGED rest
       \/ Upsert(w) /\ UNCHANGED rest
       \/ JobFails(w) /\ UNCHANGED rest
  \/ \E p \in Paths : SkipExpires(p) /\ UNCHANGED rest
  \/ Closed /\ UNCHANGED rest

Spec == /\ Init /\ [][Next]_vars
        /\ WF_vars(Bulk) /\ WF_vars(FlushOne)
        /\ WF_vars((Work \/ Closed) /\ UNCHANGED rest)

-----------------------------------------------------------------------------
(* Properties.                                                             *)

(* Every variable stays in its type and the queue within its capacity.     *)
TypeOK ==
  /\ queue \in Seq([path : Paths, stamp : Content, nr : Nat, pc : {"embed"}, raced : {FALSE}])
  /\ Len(queue) <= QueueCap
  /\ \A w \in Workers : \/ busy[w] = NoJob
                        \/ busy[w] \in [path : Paths, stamp : Content, nr : Nat,
                                        pc : {"embed", "upsert"}, raced : BOOLEAN]
  /\ skip \subseteq Paths /\ vectors \in [Paths -> SUBSET Content]
  /\ life \in {"up", "closing", "closed"} /\ sent \in [Paths -> Nat]
  /\ last \in [Paths -> {"waiting", "embedded", "lost"}]
  /\ fails \in 0 .. MaxFails /\ clock \in Content /\ aborted \subseteq Content
  /\ disk \in [Paths -> Content] /\ index \in [Paths -> Tables(Content)] /\ unindexed \subseteq Paths
  /\ asyncIdx \in AsyncModes
  /\ pending \in Seq([path : Paths, stamp : Content])
  /\ op.done \in 0 .. Len(op.files) /\ {op.pre, op.new} \subseteq [Paths -> Content]
  /\ op.pc \in {"idle", "write", "search", "index", "commit", "restore", "requeue", "done"}

(* A bulk write that returns has replaced all of its files, or none of     *)
(* them: every failure in the middle is rolled back.                       *)
BulkIsAtomic == [][op.pc = "done" /\ op' = Idle => disk' \in {op.pre, op.new}]_vars

AtRest == op = Idle /\ pending = <<>>

(* Once nothing is under way search lists a page if it is there and finds  *)
(* it by its words, and its links are its own, whatever was rolled back.   *)
(* Its metadata is its own too, or that of an aborted content, which no    *)
(* rollback takes back.  With an AsyncIndexer a rollback restores the      *)
(* tables before the aborted content, which still waits there, is indexed: *)
(* they may be those of such a content.  The exception are pages for which *)
(* a call failed since they were last indexed whole.                       *)
Expected(p) == {disk[p]} \union (IF asyncIdx THEN aborted ELSE {})
SearchSettles ==
  AtRest => \A p \in Paths \ unindexed :
    /\ \E c \in Expected(p) : Found(index[p], c)
    /\ index[p].links \in Expected(p) /\ index[p].meta \in {disk[p]} \union aborted

(* A page whose last job ran to its end, and was not dropped, skipped, or  *)
(* run at the same time as another job of the page, has exactly its own    *)
(* content's chunks in the vector store, through rollbacks and Close.  The *)
(* AsyncIndexer may submit aborted content after the rollback.             *)
VectorsSettle ==
  AtRest => \A p \in Paths : last[p] = "embedded" =>
              \/ vectors[p] = Chunks(disk[p])
              \/ asyncIdx /\ vectors[p] \intersect aborted # {}

(* "a shutdown that races with an in-flight Enqueue doesn't silently drop  *)
(* an embedding job": when Close returns no page waits for its last job.   *)
CloseRunsAll == life = "closed" => \A p \in Paths : last[p] # "waiting"

(* The queue drains: in the end each page's last job has run or has been   *)
(* dropped, and Close returns, whatever is queued when it is called.       *)
QueueDrains ==
  /\ \A p \in Paths : last[p] = "waiting" ~> last[p] # "waiting"
  /\ life = "closing" ~> life = "closed"
=============================================================================
