--------------------------- MODULE BulkWriteProofs ---------------------------
(* Proofs about BulkWrite: its types, that a bulk write replaces all of its*)
(* files or none, where search and vectors settle, and that Close leaves no*)
(* job of the embedding queue.                                             *)
EXTENDS BulkWrite, SequenceTheorems, TLAPS

-----------------------------------------------------------------------------
(* The inductive invariant.                                                *)

Contents == [Paths -> Content]
Queued   == [path : Paths, stamp : Content, nr : Nat, pc : {"embed"}, raced : {FALSE}]
Running  == [path : Paths, stamp : Content, nr : Nat, pc : {"embed", "upsert"}, raced : BOOLEAN]
Requests == [path : Paths, stamp : Content]
Entries  == [Paths -> Tables(Content)]
Stages   == {"write", "search", "index", "commit", "restore", "requeue", "done"}
Ops      == [pc : {"idle"} \union Stages, files : Seq(Paths), pre : Contents, new : Contents, done : Nat]

(* The types, with the request that holds writeMu as a whole.              *)
ServiceTypes ==
  /\ queue \in Seq(Queued) /\ Len(queue) <= QueueCap
  /\ busy \in [Workers -> Running \union {NoJob}]
  /\ skip \subseteq Paths /\ vectors \in [Paths -> SUBSET Content]
  /\ life \in {"up", "closing", "closed"}
  /\ sent \in [Paths -> Nat] /\ last \in [Paths -> {"waiting", "embedded", "lost"}]
PageTypes ==
  /\ fails \in 0 .. MaxFails /\ clock \in Content /\ aborted \subseteq Content
  /\ disk \in Contents /\ index \in Entries /\ unindexed \subseteq Paths /\ asyncIdx \in AsyncModes
  /\ pending \in Seq(Requests)
OpTypes == op \in Ops /\ op.done <= Len(op.files)
Typed == ServiceTypes /\ PageTypes /\ OpTypes

(* What a bulk write carries, and how far it is in each of its stages.     *)
OpShape ==
  IF op.pc = "idle" THEN op = Idle
  ELSE /\ op.files # <<>>
       /\ \A i, k \in DOMAIN op.files : op.files[i] = op.files[k] => i = k
       /\ \A i \in DOMAIN op.files : op.new[op.files[i]] # 0
       /\ \A p \in Paths : (\A i \in DOMAIN op.files : op.files[i] # p) => op.new[p] = op.pre[p]
       /\ op.pc \in {"write", "index"} => op.done < Len(op.files)
       /\ op.pc \in {"search", "commit", "done"} => op.done = 0
       /\ op.pc \in {"restore", "requeue"} => op.done > 0
       /\ op.pc = "requeue" => op.new[Undone] \in aborted

(* The pages while the first k files are replaced.                         *)
Written(o, k, p) == \E i \in 1 .. k : o.files[i] = p
Mixed(o, k)      == [p \in Paths |-> IF Written(o, k, p) THEN o.new[p] ELSE o.pre[p]]
DiskInv ==
  /\ op.pc \in {"write", "restore"} => disk = Mixed(op, op.done)
  /\ op.pc = "requeue" => disk = Mixed(op, op.done - 1)
  /\ op.pc \in {"search", "index", "commit"} => disk = op.new
  /\ op.pc = "done" => disk \in {op.pre, op.new}

(* The last request the AsyncIndexer has for p, if it has one, is for a    *)
(* content in ok.                                                          *)
LastPending(p, ok) ==
  \A i \in DOMAIN pending :
    pending[i].path = p /\ (\A k \in DOMAIN pending : pending[k].path = p => k <= i)
      => pending[i].stamp \in ok
NonePending(p) == \A i \in DOMAIN pending : pending[i].path # p

(* Where the tables, and the last job of the page, will end up.            *)
Holds(e, found, links, meta) ==
  (\E c \in found : Found(e, c)) /\ e.links \in links /\ e.meta \in meta
IndexSettles(p, found, links, meta) ==
  LastPending(p, found) /\ (NonePending(p) => p \in unindexed \/ Holds(index[p], found, links, meta))
Sought(p, ok) ==
  /\ last[p] = "embedded" => \E s \in ok : vectors[p] = Chunks(s)
  /\ \A i \in DOMAIN queue : queue[i].path = p /\ queue[i].nr = sent[p] => queue[i].stamp \in ok
  /\ \A w \in Workers : busy[w] # NoJob /\ busy[w].path = p /\ busy[w].nr = sent[p] => busy[w].stamp \in ok
VectorSettles(p, ok) == LastPending(p, ok) /\ (NonePending(p) => Sought(p, ok))

(* What that is in each stage of a bulk write: its new contents as far as  *)
(* it got, and while it is undone the old one or the new one.              *)
Partly(p)  == IF Written(op, op.done, p) THEN {op.new[p]} ELSE {op.pre[p]}
Undoing(p) == IF Written(op, op.done, p) THEN {op.pre[p], op.new[p]} ELSE {op.pre[p]}
SearchHas(p) ==
  CASE op.pc \in {"idle", "done"}    -> {disk[p]}
    [] op.pc \in {"write", "search"} -> {op.pre[p]}
    [] op.pc = "index"               -> IF asyncIdx THEN Partly(p) ELSE {op.new[p]}
    [] op.pc = "commit"              -> {op.new[p]}
    [] op.pc = "restore"             -> Undoing(p)
    [] op.pc = "requeue"             -> IF p = Undone THEN {op.pre[p]} ELSE Undoing(p)
VectorHas(p) ==
  CASE op.pc \in {"idle", "done"}       -> {disk[p]}
    [] op.pc \in {"write", "search"}    -> {op.pre[p]}
    [] op.pc = "index"                  -> Partly(p)
    [] op.pc = "commit"                 -> {op.new[p]}
    [] op.pc \in {"restore", "requeue"} -> Undoing(p)
LinksHas(p) == IF op.pc = "index" THEN Partly(p) ELSE SearchHas(p)
Spoilt      == IF asyncIdx THEN aborted ELSE {}
SearchOk(p) == SearchHas(p) \union Spoilt
LinksOk(p)  == LinksHas(p) \union Spoilt
MetaOk(p)   == VectorHas(p) \union aborted
VectorOk(p) == VectorHas(p) \union Spoilt
SearchInv == \A p \in Paths : IndexSettles(p, SearchOk(p), LinksOk(p), MetaOk(p))
VectorInv == \A p \in Paths : VectorSettles(p, VectorOk(p))
ModeInv   == (~ asyncIdx => pending = <<>>) /\ 0 \notin aborted

(* Jobs of a page are numbered in the order they were submitted and run in *)
(* it; one that is not raced has the page's chunks for itself; a page      *)
(* whose last job has run to its end has no job, and one that waits has.   *)
NumbersInv ==
  /\ \A i \in DOMAIN queue : queue[i].nr \in 1 .. sent[queue[i].path]
  /\ \A i, k \in DOMAIN queue : i < k /\ queue[i].path = queue[k].path => queue[i].nr < queue[k].nr
  /\ \A w \in Workers : busy[w] # NoJob =>
       /\ busy[w].nr \in 1 .. sent[busy[w].path]
       /\ \A i \in DOMAIN queue : queue[i].path = busy[w].path => busy[w].nr < queue[i].nr
RacedInv ==
  \A w \in Workers : busy[w] # NoJob /\ ~ busy[w].raced =>
    /\ \A v \in Workers \ {w} : busy[v] = NoJob \/ busy[v].path # busy[w].path
    /\ busy[w].pc = "upsert" => vectors[busy[w].path] = {}
LastInv ==
  \A p \in Paths :
    /\ last[p] = "embedded" => /\ \A i \in DOMAIN queue : queue[i].path # p
                               /\ \A w \in Workers : busy[w] # NoJob => busy[w].path # p
    /\ last[p] = "waiting" => \/ \E i \in DOMAIN queue : queue[i].path = p /\ queue[i].nr = sent[p]
                              \/ \E w \in Workers : busy[w] # NoJob /\ busy[w].path = p /\ busy[w].nr = sent[p]
JobsInv == NumbersInv /\ RacedInv /\ LastInv

(* Close comes when the requests and the AsyncIndexer have stopped.        *)
CloseInv ==
  /\ life # "up" => op = Idle /\ pending = <<>>
  /\ life = "closed" => Drained

Inv == Typed /\ OpShape /\ DiskInv /\ SearchInv /\ VectorInv /\ ModeInv /\ JobsInv /\ CloseInv

-----------------------------------------------------------------------------
(* Types.                                                                  *)

(* Submitting a job keeps the service's types.                             *)
LEMMA SubmitTypes ==
  ASSUME ServiceTypes, NEW p \in Paths, NEW s \in Content, Submit(p, s), skip' \subseteq Paths
  PROVE  ServiceTypes'
<1>1. Job(p, s, sent[p] + 1) \in Queued
  BY DEF Job, Queued, ServiceTypes
<1>2. ASSUME HasRoom
      PROVE  queue' \in Seq(Queued) /\ Len(queue') <= QueueCap /\ last' \in [Paths -> {"waiting", "embedded", "lost"}]
  <2>1. queue' = Append(queue, Job(p, s, sent[p] + 1)) /\ last' = [last EXCEPT ![p] = "waiting"]
    BY <1>2 DEF Submit
  <2>2. queue \in Seq(Queued) /\ Len(queue) \in Nat /\ Len(queue) < QueueCap
    BY <1>2 DEF HasRoom, ServiceTypes
  <2>3. queue' \in Seq(Queued) /\ Len(queue') = Len(queue) + 1
    BY <1>1, <2>1, <2>2, AppendProperties
  <2> QED BY <2>1, <2>2, <2>3, VectorsAssumption DEF ServiceTypes
<1>3. ASSUME ~ HasRoom
      PROVE  queue' \in Seq(Queued) /\ Len(queue') <= QueueCap /\ last' \in [Paths -> {"waiting", "embedded", "lost"}]
  <2>1. queue' = queue /\ last' = [last EXCEPT ![p] = "lost"]
    BY <1>3 DEF Submit
  <2> QED BY <2>1 DEF ServiceTypes
<1>4. sent' \in [Paths -> Nat] /\ busy' = busy /\ vectors' = vectors /\ life' = life
  BY DEF ServiceTypes, Submit
<1>5. queue' \in Seq(Queued) /\ Len(queue') <= QueueCap /\ last' \in [Paths -> {"waiting", "embedded", "lost"}]
  BY <1>2, <1>3
<1> QED BY <1>4, <1>5 DEF ServiceTypes

(* The queue without its head, and what its head is.                       *)
LEMMA TailTypes ==
  ASSUME ServiceTypes, queue # <<>>
  PROVE  /\ Head(queue) \in Queued /\ Tail(queue) \in Seq(Queued) /\ Len(Tail(queue)) <= QueueCap
         /\ DOMAIN Tail(queue) = 1 .. Len(queue) - 1
         /\ \A i \in DOMAIN Tail(queue) : i + 1 \in DOMAIN queue /\ Tail(queue)[i] = queue[i + 1]
         /\ Head(queue) = queue[1] /\ 1 \in DOMAIN queue
<1>1. queue \in Seq(Queued)
  BY DEF ServiceTypes
<1>2. Len(queue) \in Nat /\ Len(queue) <= QueueCap
  BY <1>1 DEF ServiceTypes
<1> QED BY <1>1, <1>2, VectorsAssumption, HeadTailProperties

(* The end of a job keeps the types.                                       *)
LEMMA FinishTypes ==
  ASSUME ServiceTypes, NEW w \in Workers, NEW fate \in {"embedded", "lost"}, Finish(w, fate)
  PROVE  /\ busy' \in [Workers -> Running \union {NoJob}]
         /\ last' \in [Paths -> {"waiting", "embedded", "lost"}]
BY DEF ServiceTypes, Finish

(* Every step of a worker, a timer and Close keeps the types.              *)
LEMMA ServiceStepTypes ==
  ASSUME ServiceTypes, fails \in 0 .. MaxFails,
         \/ \E w \in Workers : Take(w) \/ RemoveOld(w) \/ Upsert(w) \/ JobFails(w)
         \/ \E p \in Paths : SkipExpires(p)
         \/ CloseService \/ Closed
  PROVE  ServiceTypes' /\ fails' \in 0 .. MaxFails
<1>1. ASSUME NEW w \in Workers, Take(w) PROVE ServiceTypes' /\ fails' = fails
  <2>1. queue # <<>> /\ queue' = Tail(queue)
    BY <1>1 DEF Take
  <2>2. queue' \in Seq(Queued) /\ Len(queue') <= QueueCap /\ Head(queue) \in Queued
    BY <2>1, TailTypes
  <2>3. CASE Skipped(Head(queue))
    <3>1. busy' = busy /\ skip' \subseteq skip /\ last' \in [Paths -> {"waiting", "embedded", "lost"}]
      BY <1>1, <2>3 DEF Take, ServiceTypes
    <3> QED BY <1>1, <2>2, <3>1 DEF Take, ServiceTypes
  <2>4. CASE ~ Skipped(Head(queue))
    <3> DEFINE others == {v \in Workers : busy[v] # NoJob /\ busy[v].path = Head(queue).path}
               job    == [Head(queue) EXCEPT !.raced = others # {}]
    <3>1. busy' = [v \in Workers |-> IF v = w THEN job
                     ELSE IF v \in others THEN [busy[v] EXCEPT !.raced = TRUE] ELSE busy[v]]
          /\ skip' = skip /\ last' = last
      BY <1>1, <2>4 DEF Take
    <3>2. job \in Running
      <4> DEFINE r == others # {}
      <4>1. r \in BOOLEAN
        OBVIOUS
      <4> HIDE DEF r
      <4>2. [Head(queue) EXCEPT !.raced = r] \in Running
        BY <2>2, <4>1 DEF Queued, Running
      <4> QED BY <4>2 DEF r
    <3>3. \A v \in others : [busy[v] EXCEPT !.raced = TRUE] \in Running
      BY DEF ServiceTypes, Running
    <3>4. busy \in [Workers -> Running \union {NoJob}]
      BY DEF ServiceTypes
    <3>5. busy' \in [Workers -> Running \union {NoJob}]
      <4> HIDE DEF others, job
      <4> QED BY <3>1, <3>2, <3>3, <3>4
    <3> QED BY <1>1, <2>2, <3>1, <3>5 DEF Take, ServiceTypes
  <2>5. fails' = fails
    BY <1>1 DEF Take
  <2> QED BY <2>3, <2>4, <2>5
<1>2. ASSUME NEW w \in Workers, RemoveOld(w) PROVE ServiceTypes' /\ fails' = fails
  <2>1. vectors' \in [Paths -> SUBSET Content]
    BY <1>2 DEF RemoveOld, ServiceTypes
  <2>2. busy[w] # NoJob /\ busy[w] \in Running
    BY <1>2 DEF RemoveOld, ServiceTypes, NoJob
  <2>3. busy' \in [Workers -> Running \union {NoJob}] /\ last' \in [Paths -> {"waiting", "embedded", "lost"}]
    <3>1. CASE busy[w].stamp = 0
      BY <1>2, <3>1, FinishTypes DEF RemoveOld
    <3>2. CASE busy[w].stamp # 0
      <4>1. [busy[w] EXCEPT !.pc = "upsert"] \in Running
        BY <2>2 DEF Running
      <4> QED BY <1>2, <3>2, <4>1 DEF RemoveOld, ServiceTypes
    <3> QED BY <3>1, <3>2
  <2> QED BY <1>2, <2>1, <2>3 DEF RemoveOld, ServiceTypes
<1>3. ASSUME NEW w \in Workers, Upsert(w) PROVE ServiceTypes' /\ fails' = fails
  <2>1. busy[w] \in Running
    BY <1>3 DEF Upsert, ServiceTypes, NoJob
  <2>2. vectors' \in [Paths -> SUBSET Content]
    BY <1>3, <2>1 DEF Upsert, ServiceTypes, Running, Chunks
  <2> QED BY <1>3, <2>2, FinishTypes DEF Upsert, ServiceTypes
<1>4. ASSUME NEW w \in Workers, JobFails(w) PROVE ServiceTypes' /\ fails' \in 0 .. MaxFails
  BY <1>4, FinishTypes, VectorsAssumption DEF JobFails, Fail, ServiceTypes
<1>5. ASSUME NEW p \in Paths, SkipExpires(p) PROVE ServiceTypes' /\ fails' = fails
  BY <1>5 DEF SkipExpires, ServiceTypes
<1>6. CASE CloseService \/ Closed
  BY <1>6 DEF CloseService, Closed, ServiceTypes
<1> QED BY <1>1, <1>2, <1>3, <1>4, <1>5, <1>6

(* The bulk write goes on to stage c with d files done.                    *)
Moved(c, d) ==
  /\ op' \in Ops /\ op'.pc = c /\ op'.done = d
  /\ op'.files = op.files /\ op'.pre = op.pre /\ op'.new = op.new

(* A step that sets the stage, the count of files done, or both.           *)
LEMMA Moving ==
  ASSUME OpTypes, NEW c \in Stages, NEW d \in Nat
  PROVE  /\ op' = [op EXCEPT !.pc = c, !.done = d] => Moved(c, d)
         /\ op' = [op EXCEPT !.pc = c] => Moved(c, op.done)
         /\ op' = [op EXCEPT !.done = d] => Moved(op.pc, d)
BY DEF OpTypes, Ops, Moved

(* The files of a bulk write, and the one at hand.                         *)
LEMMA FilesFacts ==
  ASSUME OpTypes, OpShape, op.pc # "idle"
  PROVE  /\ op.files \in Seq(Paths) /\ Len(op.files) \in Nat \ {0} /\ op.done \in Nat /\ op.done <= Len(op.files)
         /\ DOMAIN op.files = 1 .. Len(op.files) /\ op.pre \in Contents /\ op.new \in Contents
         /\ op.pc \in {"write", "index"} => op.done + 1 \in DOMAIN op.files /\ File \in Paths
         /\ op.pc \in {"restore", "requeue"} => op.done \in DOMAIN op.files /\ Undone \in Paths
<1>1. op.files \in Seq(Paths) /\ op.done \in Nat /\ op.done <= Len(op.files) /\ op.files # <<>>
  BY DEF OpTypes, Ops, OpShape
<1>2. Len(op.files) \in Nat \ {0} /\ DOMAIN op.files = 1 .. Len(op.files)
  BY <1>1, EmptySeq
<1>3. op.pc \in {"write", "index"} => op.done + 1 \in DOMAIN op.files
  BY <1>1, <1>2 DEF OpShape
<1>4. op.pc \in {"restore", "requeue"} => op.done \in DOMAIN op.files
  BY <1>1, <1>2 DEF OpShape
<1>5. \A i \in DOMAIN op.files : op.files[i] \in Paths
  BY <1>1, <1>2
<1> QED BY <1>1, <1>2, <1>3, <1>4, <1>5 DEF File, Undone, OpTypes, Ops

(* Where a file that is done leads.                                        *)
LEMMA Advancing ==
  ASSUME OpTypes, OpShape, op.pc \in {"write", "index"}, NEW next \in Stages, op' = Advance(next)
  PROVE  \/ op.done + 1 = Len(op.files) /\ Moved(next, 0)
         \/ op.done + 1 < Len(op.files) /\ Moved(op.pc, op.done + 1)
<1>1. op.done \in Nat /\ Len(op.files) \in Nat /\ op.done < Len(op.files)
  BY FilesFacts DEF OpShape
<1>2. CASE op.done + 1 = Len(op.files)
  BY <1>2, Moving DEF Advance
<1>3. CASE op.done + 1 < Len(op.files)
  <2>1. op' = [op EXCEPT !.done = op.done + 1]
    BY <1>3 DEF Advance
  <2> QED BY <1>1, <1>3, <2>1 DEF Moved, OpTypes, Ops
<1> QED BY <1>1, <1>2, <1>3

(* Where each step of a bulk write leads.                                  *)
LEMMA BulkMoves ==
  ASSUME OpTypes, OpShape
  PROVE  /\ WriteFile => \/ op.done + 1 = Len(op.files) /\ Moved("search", 0)
                         \/ op.done + 1 < Len(op.files) /\ Moved("write", op.done + 1)
         /\ WriteFails => \/ op.done = 0 /\ Moved("done", 0)
                          \/ op.done > 0 /\ Moved("restore", op.done)
         /\ IndexSearch => op.done = 0 /\ Moved("index", 0)
         /\ IndexFile => \/ op.done + 1 = Len(op.files) /\ Moved("commit", 0)
                         \/ op.done + 1 < Len(op.files) /\ Moved("index", op.done + 1)
         /\ Commit => op.done = 0 /\ Moved("done", 0)
         /\ CommitFails => Moved("restore", Len(op.files))
         /\ Restore => Moved("requeue", op.done)
         /\ Requeue => \/ op.done = 1 /\ Moved("done", 0)
                       \/ op.done > 1 /\ Moved("restore", op.done - 1)
<1>1. WriteFile => \/ op.done + 1 = Len(op.files) /\ Moved("search", 0)
                   \/ op.done + 1 < Len(op.files) /\ Moved("write", op.done + 1)
  BY Advancing DEF WriteFile, Stages
<1>2. IndexFile => \/ op.done + 1 = Len(op.files) /\ Moved("commit", 0)
                   \/ op.done + 1 < Len(op.files) /\ Moved("index", op.done + 1)
  BY Advancing DEF IndexFile, Stages
<1>3. ASSUME WriteFails
      PROVE  \/ op.done = 0 /\ Moved("done", 0)
             \/ op.done > 0 /\ Moved("restore", op.done)
  <2>1. op.done \in Nat
    BY <1>3, FilesFacts DEF WriteFails
  <2>2. CASE op.done = 0
    <3>1. op' = [op EXCEPT !.pc = "done", !.done = 0]
      BY <1>3, <2>2 DEF WriteFails, Rollback
    <3> QED BY <2>2, <3>1, Moving DEF Stages
  <2>3. CASE op.done # 0
    <3>1. op' = [op EXCEPT !.pc = "restore", !.done = op.done]
      BY <1>3, <2>3 DEF WriteFails, Rollback
    <3>2. "restore" \in Stages /\ op.done \in Nat
      BY <2>1, <2>3 DEF Stages
    <3>3. Moved("restore", op.done)
      BY <3>1, <3>2 DEF Moved, OpTypes, Ops
    <3> QED BY <2>1, <2>3, <3>3
  <2> QED BY <2>2, <2>3
<1>4. ASSUME CommitFails PROVE Moved("restore", Len(op.files))
  <2>1. Len(op.files) \in Nat \ {0}
    BY <1>4, FilesFacts DEF CommitFails
  <2>2. op' = [op EXCEPT !.pc = "restore", !.done = Len(op.files)]
    BY <1>4, <2>1 DEF CommitFails, Rollback
  <2> QED BY <2>1, <2>2, Moving DEF Stages
<1>5. ASSUME Requeue
      PROVE  \/ op.done = 1 /\ Moved("done", 0)
             \/ op.done > 1 /\ Moved("restore", op.done - 1)
  <2>1. op.done \in Nat \ {0}
    BY <1>5, FilesFacts DEF Requeue, OpShape
  <2>2. CASE op.done = 1
    <3>1. op' = [op EXCEPT !.pc = "done", !.done = 0]
      BY <1>5, <2>2 DEF Requeue
    <3> QED BY <2>2, <3>1, Moving DEF Stages
  <2>3. CASE op.done # 1
    <3>1. op' = [op EXCEPT !.pc = "restore", !.done = op.done - 1]
      BY <1>5, <2>3 DEF Requeue
    <3>2. "restore" \in Stages /\ op.done - 1 \in Nat
      BY <2>1, <2>3 DEF Stages
    <3>3. Moved("restore", op.done - 1)
      BY <3>1, <3>2 DEF Moved, OpTypes, Ops
    <3> QED BY <2>1, <2>3, <3>3
  <2> QED BY <2>2, <2>3
<1>6. IndexSearch => op.done = 0 /\ Moved("index", 0)
  BY Moving DEF IndexSearch, Stages, OpShape
<1>7. Commit => op.done = 0 /\ Moved("done", 0)
  BY Moving DEF Commit, Stages, OpShape
<1>8. Restore => Moved("requeue", op.done)
  BY Moving DEF Restore, Stages
<1> QED BY <1>1, <1>2, <1>3, <1>4, <1>5, <1>6, <1>7, <1>8

(* What a bulk write starts with.                                          *)
LEMMA StartFacts ==
  ASSUME Typed, NEW files \in Batches, IsInjective(files), Start(files)
  PROVE  /\ op.pc = "idle" /\ clock' \in Content
         /\ op' \in Ops /\ op'.pc = "write" /\ op'.done = 0 /\ op'.files = files /\ op'.pre = disk
         /\ files \in Seq(Paths) /\ Len(files) \in Nat \ {0} /\ DOMAIN files = 1 .. Len(files)
         /\ \A i, k \in DOMAIN files : files[i] = files[k] => i = k
         /\ \A i \in DOMAIN files : op'.new[files[i]] # 0
         /\ \A p \in Paths : (\A i \in DOMAIN files : files[i] # p) => op'.new[p] = disk[p]
<1> DEFINE At(p) == CHOOSE i \in DOMAIN files : files[i] = p
           new   == [p \in Paths |-> IF Contains(files, p) THEN clock + At(p) ELSE disk[p]]
<1>1. op' = [pc |-> "write", files |-> files, pre |-> disk, done |-> 0, new |-> new]
      /\ op = Idle /\ clock' = clock + Len(files) /\ clock + Len(files) <= MaxStamps + 1
  BY DEF Start
<1>2. files \in Seq(Paths) /\ Len(files) \in Nat \ {0} /\ DOMAIN files = 1 .. Len(files)
  <2>1. CASE \E p \in Paths : files = <<p>>
    BY <2>1
  <2>2. CASE \E p, q \in Paths : files = <<p, q>>
    BY <2>2
  <2> QED BY <2>1, <2>2 DEF Batches
<1>3. clock \in Nat /\ MaxStamps \in Nat /\ disk \in Contents
  BY BulkAssumption DEF Typed, PageTypes, Content
<1>4. \A p \in Paths : Contains(files, p) => At(p) \in 1 .. Len(files)
  BY <1>2 DEF Contains
<1>5. \A p \in Paths : IF Contains(files, p) THEN new[p] \in Content \ {0} ELSE new[p] = disk[p]
  <2> SUFFICES ASSUME NEW p \in Paths
               PROVE  IF Contains(files, p) THEN new[p] \in Content \ {0} ELSE new[p] = disk[p]
    OBVIOUS
  <2>1. CASE Contains(files, p)
    <3>1. At(p) \in 1 .. Len(files) /\ new[p] = clock + At(p)
      BY <1>4, <2>1
    <3> HIDE DEF At, new
    <3> QED BY <1>1, <1>2, <1>3, <2>1, <3>1 DEF Content
  <2>2. CASE ~ Contains(files, p)
    BY <2>2
  <2> QED BY <2>1, <2>2
<1>6. new \in Contents
  <2>1. DOMAIN new = Paths /\ new = [p \in Paths |-> new[p]]
    OBVIOUS
  <2>2. \A p \in Paths : new[p] \in Content
    <3> HIDE DEF new
    <3> QED BY <1>3, <1>5 DEF Contents
  <2> HIDE DEF new
  <2> QED BY <2>1, <2>2 DEF Contents
<1>7. \A i \in DOMAIN files : files[i] \in Paths /\ Contains(files, files[i])
  BY <1>2 DEF Contains
<1>8. \A p \in Paths : (\A i \in DOMAIN files : files[i] # p) => ~ Contains(files, p)
  BY <1>2 DEF Contains
<1> HIDE DEF new
<1>9. op' \in Ops /\ op'.pc = "write" /\ op'.done = 0 /\ op'.files = files /\ op'.pre = disk /\ op'.new = new
  BY <1>1, <1>2, <1>3, <1>6 DEF Ops, Stages
<1>10. clock' \in Content
  BY <1>1, <1>2, <1>3 DEF Content
<1>11. \A i, k \in DOMAIN files : files[i] = files[k] => i = k
  BY DEF IsInjective
<1>12. op.pc = "idle"
  BY <1>1 DEF Idle
<1> QED BY <1>2, <1>5, <1>7, <1>8, <1>9, <1>10, <1>11, <1>12

-----------------------------------------------------------------------------
(* The request and the pages.                                              *)

(* A request handed to the AsyncIndexer, and the one it takes.             *)
LEMMA PendingTypes ==
  ASSUME PageTypes
  PROVE  /\ \A p \in Paths, c \in Content : Enqueue(p, c) => pending' \in Seq(Requests)
         /\ pending # <<>> => /\ Tail(pending) \in Seq(Requests) /\ Head(pending) \in Requests
                              /\ Head(pending).path \in Paths /\ Head(pending).stamp \in Content
<1>1. pending \in Seq(Requests)
  BY DEF PageTypes
<1>2. ASSUME NEW p \in Paths, NEW c \in Content, Enqueue(p, c) PROVE pending' \in Seq(Requests)
  <2>1. [path |-> p, stamp |-> c] \in Requests
    BY DEF Requests
  <2> QED BY <1>1, <1>2, <2>1, AppendProperties DEF Enqueue
<1>3. pending # <<>> => Tail(pending) \in Seq(Requests) /\ Head(pending) \in Requests
  BY <1>1, HeadTailProperties
<1>4. \A r \in Requests : r.path \in Paths /\ r.stamp \in Content
  BY DEF Requests
<1> QED BY <1>2, <1>3, <1>4

(* Indexing a page, whichever of the calls fail, keeps the types.          *)
LEMMA ReindexedTypes ==
  ASSUME NEW e \in Tables(Content), NEW c \in Content, NEW lost
  PROVE  Reindexed(e, c, lost) \in Tables(Content)
BY DEF Tables, Reindexed

LEMMA IndexesTypes ==
  ASSUME PageTypes, NEW p \in Paths, NEW c \in Content, NEW calls, Indexes(p, c, calls)
  PROVE  index' \in Entries /\ unindexed' \subseteq Paths /\ fails' \in 0 .. MaxFails
<1>1. PICK lost \in SUBSET calls :
        /\ IF lost = {} THEN UNCHANGED fails ELSE Fail
        /\ index' = [index EXCEPT ![p] = Reindexed(@, c, lost \union (Calls \ calls))]
        /\ unindexed' = {q \in unindexed \union (IF lost = {} THEN {} ELSE {p}) : q # p \/ ~ Shows(index'[p], c)}
  BY DEF Indexes
<1>2. Reindexed(index[p], c, lost \union (Calls \ calls)) \in Tables(Content)
  BY ReindexedTypes DEF PageTypes, Entries
<1>3. index' \in Entries
  BY <1>1, <1>2 DEF PageTypes, Entries
<1>4. fails' \in 0 .. MaxFails
  BY <1>1, VectorsAssumption DEF Fail, PageTypes
<1> QED BY <1>1, <1>3, <1>4 DEF PageTypes

(* What it leaves of the page: it is counted as not indexed, or shows the  *)
(* content as far as the calls are concerned; other pages are as before.   *)
LEMMA IndexesFacts ==
  ASSUME PageTypes, NEW p \in Paths, NEW c \in Content, NEW calls, Indexes(p, c, calls)
  PROVE  /\ \A q \in Paths \ {p} : index'[q] = index[q] /\ (q \in unindexed' <=> q \in unindexed)
         /\ \/ p \in unindexed' \/ Shows(index'[p], c)
            \/ p \notin unindexed /\ index'[p] = Reindexed(index[p], c, Calls \ calls)
<1>1. PICK lost \in SUBSET calls :
        /\ IF lost = {} THEN UNCHANGED fails ELSE Fail
        /\ index' = [index EXCEPT ![p] = Reindexed(@, c, lost \union (Calls \ calls))]
        /\ unindexed' = {q \in unindexed \union (IF lost = {} THEN {} ELSE {p}) : q # p \/ ~ Shows(index'[p], c)}
  BY DEF Indexes
<1>2. index'[p] = Reindexed(index[p], c, lost \union (Calls \ calls)) /\ \A q \in Paths \ {p} : index'[q] = index[q]
  BY <1>1 DEF PageTypes, Entries
<1>3. \A q \in Paths \ {p} : q \in unindexed' <=> q \in unindexed
  BY <1>1
<1>4. CASE lost = {}
  <2>1. lost \union (Calls \ calls) = Calls \ calls
    BY <1>4
  <2> QED BY <1>1, <1>2, <1>3, <1>4, <2>1
<1>5. CASE lost # {}
  BY <1>1, <1>2, <1>3, <1>5
<1> QED BY <1>4, <1>5

(* Every step keeps the types.                                             *)
LEMMA StepTyped ==
  ASSUME Typed, OpShape, [Next]_vars
  PROVE  Typed'
<1>1. ASSUME UNCHANGED service PROVE ServiceTypes'
  BY <1>1 DEF service, Typed, ServiceTypes
<1>2. ASSUME UNCHANGED op PROVE OpTypes'
  BY <1>2 DEF Typed, OpTypes
<1>3. ASSUME op' \in Ops, op'.done \in Nat, op'.done <= Len(op'.files) PROVE OpTypes'
  BY <1>3 DEF OpTypes
<1>4. ServiceTypes /\ PageTypes /\ OpTypes
  BY DEF Typed
<1>5. clock \in Nat /\ MaxStamps \in Nat
  BY <1>4, BulkAssumption DEF PageTypes, Content
<1>6. ASSUME NEW p \in Paths, WritePage(p) PROVE Typed'
  <2>1. clock + 1 \in Content
    BY <1>5, <1>6 DEF WritePage, Content
  <2>2. clock' \in Content /\ disk' \in Contents
    BY <1>4, <1>6, <2>1 DEF WritePage, PageTypes, Contents
  <2>5. index' \in Entries /\ unindexed' \subseteq Paths /\ fails' \in 0 .. MaxFails
    <3>1. asyncIdx => UNCHANGED <<index, unindexed, fails>>
      BY <1>6 DEF WritePage, tables
    <3>2. ~ asyncIdx => Indexes(p, clock + 1, Calls)
      BY <1>6 DEF WritePage
    <3> QED BY <1>4, <2>1, <3>1, <3>2, IndexesTypes DEF PageTypes
  <2>3. pending' \in Seq(Requests) /\ ServiceTypes'
    <3>1. CASE asyncIdx
      <4>1. Enqueue(p, clock + 1) /\ UNCHANGED service
        BY <1>6, <3>1 DEF WritePage, service
      <4> QED BY <1>1, <1>4, <2>1, <4>1, PendingTypes
    <3>2. CASE ~ asyncIdx
      <4>1. pending' = pending /\ Submit(p, clock + 1) /\ skip' \subseteq Paths
        BY <1>4, <1>6, <3>2 DEF WritePage, ServiceTypes
      <4> QED BY <1>4, <2>1, <4>1, SubmitTypes DEF PageTypes
    <3> QED BY <3>1, <3>2
  <2>4. UNCHANGED <<asyncIdx, op, aborted>>
    BY <1>6 DEF WritePage
  <2> QED BY <1>2, <1>4, <2>2, <2>3, <2>4, <2>5 DEF Typed, PageTypes
<1>7. ASSUME NEW files \in Batches, IsInjective(files), Start(files) PROVE Typed'
  <2>1. clock' \in Content /\ op' \in Ops /\ op'.done = 0 /\ op'.files = files /\ Len(files) \in Nat
    BY <1>7, StartFacts
  <2>2. OpTypes'
    BY <1>3, <2>1
  <2>3. UNCHANGED <<service, fails, disk, index, unindexed, asyncIdx, pending, aborted>>
    BY <1>7 DEF Start, tables
  <2> QED BY <1>1, <1>4, <2>1, <2>2, <2>3 DEF Typed, PageTypes
<1>8. CASE FlushOne
  <2>1. pending # <<>> /\ pending' = Tail(pending) /\ Submit(Head(pending).path, Head(pending).stamp)
        /\ Indexes(Head(pending).path, Head(pending).stamp, Calls) /\ skip' = skip
        /\ UNCHANGED <<pages, asyncIdx, op, aborted>>
    BY <1>8 DEF FlushOne
  <2>2. Head(pending).path \in Paths /\ Head(pending).stamp \in Content /\ pending' \in Seq(Requests)
    BY <1>4, <2>1, PendingTypes
  <2>3. ServiceTypes'
    BY <1>4, <2>1, <2>2, SubmitTypes DEF ServiceTypes
  <2>4. index' \in Entries /\ unindexed' \subseteq Paths /\ fails' \in 0 .. MaxFails
    BY <1>4, <2>1, <2>2, IndexesTypes
  <2> QED BY <1>2, <1>4, <2>1, <2>2, <2>3, <2>4 DEF Typed, PageTypes, pages
<1>9. CASE StackClose
  <2>1. ServiceTypes' /\ fails' \in 0 .. MaxFails
    BY <1>4, <1>9, ServiceStepTypes DEF StackClose, PageTypes
  <2> QED BY <1>2, <1>4, <1>9, <2>1 DEF StackClose, Typed, PageTypes, pages, tables
<1>10. ASSUME \/ \E w \in Workers : Take(w) \/ RemoveOld(w) \/ Upsert(w) \/ JobFails(w)
              \/ \E p \in Paths : SkipExpires(p)
              \/ Closed,
              UNCHANGED rest
       PROVE  Typed'
  <2>1. ServiceTypes' /\ fails' \in 0 .. MaxFails
    BY <1>4, <1>10, ServiceStepTypes DEF PageTypes
  <2> QED BY <1>2, <1>4, <1>10, <2>1 DEF rest, Typed, PageTypes, pages, tables
<1>11. CASE Bulk
  <2>1. ~ Return => op.pc # "idle"
    BY <1>11 DEF Bulk, WriteFile, WriteFails, IndexSearch, IndexFile, Commit, CommitFails, Restore, Requeue
  <2>2. OpTypes'
    <3>1. CASE Return
      <4>1. op' = Idle /\ Len(<<>>) = 0 /\ disk' \in Contents
        BY <1>4, <3>1 DEF Return, PageTypes, pages
      <4>2. Idle \in Ops
        <5>1. 0 \in Content
          BY <1>5 DEF Content
        <5> QED BY <5>1 DEF Idle, Ops, Contents
      <4> QED BY <1>3, <4>1, <4>2 DEF Idle
    <3>2. CASE ~ Return
      <4>1. op.done \in Nat /\ Len(op.files) \in Nat \ {0} /\ op.done <= Len(op.files)
        BY <1>4, <2>1, <3>2, FilesFacts
      <4>2. op' \in Ops /\ op'.files = op.files /\ op'.done \in Nat /\ op'.done <= Len(op.files)
        BY <1>4, <1>11, <3>2, <4>1, BulkMoves DEF Bulk, Moved
      <4> QED BY <1>3, <4>2
    <3> QED BY <3>1, <3>2
  <2>3. WriteFile \/ IndexFile => File \in Paths /\ op.new[File] \in Content
    BY <1>4, FilesFacts DEF WriteFile, IndexFile, Contents
  <2>4. Restore \/ Requeue => Undone \in Paths /\ op.new[Undone] \in Content /\ op.pre[Undone] \in Content
    BY <1>4, FilesFacts DEF Restore, Requeue, Contents
  <2>5. op.new \in Contents /\ op.pre \in Contents
    BY <1>4 DEF OpTypes, Ops
  <2>6. CASE WriteFile
    BY <1>1, <1>4, <2>2, <2>3, <2>6 DEF WriteFile, Typed, PageTypes, Contents, tables
  <2>7. CASE WriteFails \/ CommitFails
    <3>1. fails' \in 0 .. MaxFails
      BY <1>4, <2>7, VectorsAssumption DEF WriteFails, CommitFails, Fail, PageTypes
    <3> QED BY <1>1, <1>4, <2>2, <2>7, <3>1 DEF WriteFails, CommitFails, Typed, PageTypes, pages, tables
  <2>8. CASE IndexSearch
    <3>1. \A p \in Paths : index[p] \in Tables(Content) /\ op.new[p] \in Content
      BY <1>4, <2>5 DEF PageTypes, Entries, Contents
    <3>2. Batched \in Entries
      BY <3>1, ReindexedTypes DEF Batched, Entries
    <3>3. ToSet(op.files) \subseteq Paths
      BY <1>4 DEF OpTypes, Ops, ToSet
    <3>4. index' \in Entries /\ unindexed' \subseteq Paths /\ fails' \in 0 .. MaxFails
      BY <1>4, <2>8, <3>2, <3>3, VectorsAssumption DEF IndexSearch, Fail, PageTypes, tables
    <3> QED BY <1>1, <1>4, <2>2, <2>8, <3>4 DEF IndexSearch, Typed, PageTypes, pages
  <2>9. CASE IndexFile
    <3>1. pending' \in Seq(Requests) /\ ServiceTypes'
      <4>1. CASE asyncIdx
        <5>1. Enqueue(File, op.new[File]) /\ UNCHANGED service
          BY <2>9, <4>1 DEF IndexFile, service
        <5> QED BY <1>1, <1>4, <2>3, <2>9, <5>1, PendingTypes
      <4>2. CASE ~ asyncIdx
        <5>1. pending' = pending /\ Submit(File, op.new[File]) /\ skip' \subseteq Paths
          BY <1>4, <2>9, <4>2 DEF IndexFile, ServiceTypes
        <5> QED BY <1>4, <2>3, <2>9, <5>1, SubmitTypes DEF PageTypes
      <4> QED BY <4>1, <4>2
    <3>2. index' \in Entries /\ unindexed' \subseteq Paths /\ fails' \in 0 .. MaxFails
      <4>1. asyncIdx => UNCHANGED <<index, unindexed, fails>>
        BY <2>9 DEF IndexFile, tables
      <4>2. ~ asyncIdx => Indexes(File, op.new[File], {"links", "meta"})
        BY <2>9 DEF IndexFile
      <4> QED BY <1>4, <2>3, <2>9, <4>1, <4>2, IndexesTypes DEF PageTypes
    <3> QED BY <1>4, <2>2, <2>9, <3>1, <3>2 DEF IndexFile, Typed, PageTypes, pages
  <2>10. CASE Commit \/ Return
    BY <1>1, <1>4, <2>2, <2>10 DEF Commit, Return, Typed, PageTypes, pages, tables
  <2>11. CASE Restore
    <3>1. ServiceTypes'
      BY <1>4, <2>4, <2>11 DEF Restore, ServiceTypes
    <3>2. disk' \in Contents /\ aborted' \subseteq Content
      BY <1>4, <2>4, <2>11 DEF Restore, PageTypes, Contents
    <3>3. index' \in Entries /\ unindexed' \subseteq Paths /\ fails' \in 0 .. MaxFails
      BY <1>4, <2>4, <2>11, IndexesTypes DEF Restore, RestoreIndex
    <3> QED BY <1>4, <2>2, <2>11, <3>1, <3>2, <3>3 DEF Restore, Typed, PageTypes
  <2>12. CASE Requeue
    <3>1. ServiceTypes'
      BY <1>4, <2>4, <2>12, SubmitTypes DEF Requeue, Requeued, ServiceTypes
    <3> QED BY <1>4, <2>2, <2>12, <3>1 DEF Requeue, Typed, PageTypes, pages, tables
  <2> QED BY <1>11, <2>6, <2>7, <2>8, <2>9, <2>10, <2>11, <2>12 DEF Bulk
<1>12. CASE UNCHANGED vars
  BY <1>1, <1>2, <1>4, <1>12 DEF vars, Typed, PageTypes
<1> QED BY <1>6, <1>7, <1>8, <1>9, <1>10, <1>11, <1>12 DEF Next

(* The pages with no file done, with all, and with one more or less.       *)
LEMMA MixedFacts ==
  ASSUME OpTypes, OpShape, op.pc # "idle"
  PROVE  /\ Mixed(op, 0) = op.pre /\ Mixed(op, Len(op.files)) = op.new
         /\ \A k \in 1 .. Len(op.files) :
              /\ Mixed(op, k) = [Mixed(op, k - 1) EXCEPT ![op.files[k]] = op.new[op.files[k]]]
              /\ Mixed(op, k - 1) = [Mixed(op, k) EXCEPT ![op.files[k]] = op.pre[op.files[k]]]
<1>1. op.files \in Seq(Paths) /\ Len(op.files) \in Nat /\ DOMAIN op.files = 1 .. Len(op.files)
      /\ op.pre \in Contents /\ op.new \in Contents
  BY FilesFacts
<1>2. Mixed(op, 0) = op.pre
  BY <1>1 DEF Mixed, Written, Contents
<1>3. \A p \in Paths : ~ Written(op, Len(op.files), p) => op.new[p] = op.pre[p]
  BY <1>1 DEF OpShape, Written
<1>4. Mixed(op, Len(op.files)) = op.new
  BY <1>1, <1>3 DEF Mixed, Contents
<1>5. ASSUME NEW k \in 1 .. Len(op.files)
      PROVE  /\ Mixed(op, k) = [Mixed(op, k - 1) EXCEPT ![op.files[k]] = op.new[op.files[k]]]
             /\ Mixed(op, k - 1) = [Mixed(op, k) EXCEPT ![op.files[k]] = op.pre[op.files[k]]]
  <2>1. op.files[k] \in Paths
    BY <1>1
  <2>2. Written(op, k, op.files[k])
    BY <1>1 DEF Written
  <2>3. ~ Written(op, k - 1, op.files[k])
    BY <1>1 DEF Written, OpShape
  <2>4. \A p \in Paths \ {op.files[k]} : Written(op, k, p) <=> Written(op, k - 1, p)
    BY <1>1 DEF Written
  <2> QED BY <2>1, <2>2, <2>3, <2>4 DEF Mixed
<1> QED BY <1>2, <1>4, <1>5

(* The same pages for the next state's request.                            *)
LEMMA MixedMoves ==
  ASSUME op'.files = op.files, op'.pre = op.pre, op'.new = op.new, NEW k
  PROVE  Mixed(op', k) = Mixed(op, k)
BY DEF Mixed, Written

(* Where a step of a bulk write may lead.                                  *)
LEMMA MovedShape ==
  ASSUME OpTypes, OpShape, op.pc # "idle",
         op' \in Ops, op'.files = op.files, op'.pre = op.pre, op'.new = op.new,
         op'.pc \in Stages,
         op'.pc \in {"write", "index"} => op'.done < Len(op.files),
         op'.pc \in {"search", "commit", "done"} => op'.done = 0,
         op'.pc \in {"restore", "requeue"} => op'.done > 0,
         op'.pc = "requeue" => op.new[op.files[op'.done]] \in aborted'
  PROVE  OpShape'
<1>1. op'.pc # "idle"
  BY DEF Stages
<1> QED BY <1>1 DEF OpShape, Undone

(* Every step keeps the shape of the request.                              *)
LEMMA StepOpShape ==
  ASSUME Typed, OpShape, [Next]_vars
  PROVE  OpShape'
<1>1. ASSUME UNCHANGED <<op, aborted>> PROVE OpShape'
  BY <1>1 DEF OpShape, Undone
<1>2. OpTypes
  BY DEF Typed
<1>3. ASSUME NEW files \in Batches, IsInjective(files), Start(files) PROVE OpShape'
  BY <1>3, StartFacts DEF OpShape
<1>4. CASE Bulk
  <2>1. CASE Return
    BY <2>1 DEF Return, OpShape, Idle
  <2>2. CASE ~ Return
    <3>1. op.pc # "idle"
      BY <1>4, <2>2 DEF Bulk, WriteFile, WriteFails, IndexSearch, IndexFile, Commit, CommitFails, Restore, Requeue
    <3>2. op.done \in Nat /\ Len(op.files) \in Nat \ {0} /\ op.done <= Len(op.files)
      BY <1>2, <3>1, FilesFacts
    <3>3. CASE WriteFile \/ IndexFile
      BY <1>2, <3>1, <3>2, <3>3, BulkMoves, MovedShape DEF Moved, Stages
    <3>4. CASE WriteFails
      BY <1>2, <3>1, <3>2, <3>4, BulkMoves, MovedShape DEF Moved, Stages
    <3>5. CASE IndexSearch \/ Commit \/ CommitFails
      BY <1>2, <3>1, <3>2, <3>5, BulkMoves, MovedShape DEF Moved, Stages
    <3>6. CASE Restore
      <4>1. op.done > 0 /\ op.new[op.files[op.done]] \in aborted'
        BY <3>6 DEF Restore, Undone, OpShape
      <4> QED BY <1>2, <3>1, <3>2, <3>6, <4>1, BulkMoves, MovedShape DEF Moved, Stages
    <3>7. CASE Requeue
      BY <1>2, <3>1, <3>2, <3>7, BulkMoves, MovedShape DEF Moved, Stages
    <3> QED BY <1>4, <2>2, <3>3, <3>4, <3>5, <3>6, <3>7 DEF Bulk
  <2> QED BY <2>1, <2>2
<1>5. CASE ~ Bulk /\ ~ \E files \in Batches : IsInjective(files) /\ Start(files)
  <2>1. UNCHANGED <<op, aborted>>
    BY <1>5 DEF Next, WritePage, FlushOne, StackClose, rest, vars
  <2> QED BY <1>1, <2>1
<1> QED BY <1>3, <1>4, <1>5

(* Every step keeps the pages as the request has left them.                *)
LEMMA StepDisk ==
  ASSUME Typed, OpShape, DiskInv, [Next]_vars
  PROVE  DiskInv'
<1>1. ASSUME UNCHANGED <<op, disk>> PROVE DiskInv'
  BY <1>1 DEF DiskInv
<1>2. OpTypes /\ disk \in Contents
  BY DEF Typed, PageTypes
<1>3. ASSUME NEW p \in Paths, WritePage(p) PROVE DiskInv'
  BY <1>3 DEF WritePage, Idle, DiskInv
<1>4. ASSUME NEW files \in Batches, IsInjective(files), Start(files) PROVE DiskInv'
  <2>1. op'.pc = "write" /\ op'.done = 0 /\ op'.pre = disk /\ disk' = disk
    BY <1>4, StartFacts DEF Start
  <2>2. Mixed(op', 0) = op'.pre
    BY <1>2, <2>1 DEF Mixed, Written, Contents
  <2> QED BY <2>1, <2>2 DEF DiskInv
<1>5. CASE Bulk
  <2>1. CASE Return
    BY <2>1 DEF Return, Idle, DiskInv
  <2>2. CASE ~ Return
    <3>1. op.pc # "idle"
      BY <1>5, <2>2 DEF Bulk, WriteFile, WriteFails, IndexSearch, IndexFile, Commit, CommitFails, Restore, Requeue
    <3>2. op.done \in Nat /\ Len(op.files) \in Nat \ {0} /\ op.done <= Len(op.files)
      BY <1>2, <3>1, FilesFacts
    <3>3. op'.files = op.files /\ op'.pre = op.pre /\ op'.new = op.new
      BY <1>2, <1>5, <2>2, BulkMoves DEF Bulk, Moved
    <3>4. \A k : Mixed(op', k) = Mixed(op, k)
      BY <3>3, MixedMoves
    <3>5. Mixed(op, 0) = op.pre /\ Mixed(op, Len(op.files)) = op.new
      BY <1>2, <3>1, MixedFacts
    <3>6. CASE WriteFile
      <4>1. op.pc = "write" /\ disk = Mixed(op, op.done) /\ disk' = [disk EXCEPT ![op.files[op.done + 1]] = op.new[op.files[op.done + 1]]]
        BY <3>6 DEF WriteFile, File, DiskInv
      <4>2. op.done + 1 \in 1 .. Len(op.files) /\ (op.done + 1) - 1 = op.done
        BY <3>2, <4>1 DEF OpShape
      <4>3. disk' = Mixed(op, op.done + 1)
        BY <1>2, <3>1, <4>1, <4>2, MixedFacts
      <4> QED BY <1>2, <3>3, <3>4, <3>5, <3>6, <4>3, BulkMoves DEF Moved, DiskInv
    <3>7. CASE WriteFails
      <4>1. disk' = Mixed(op, op.done)
        BY <3>7 DEF WriteFails, DiskInv, pages
      <4> QED BY <1>2, <3>3, <3>4, <3>5, <3>7, <4>1, BulkMoves DEF Moved, DiskInv
    <3>8. CASE IndexSearch \/ IndexFile \/ Commit \/ CommitFails
      <4>1. disk' = op'.new /\ disk' = Mixed(op', Len(op.files))
        BY <3>3, <3>4, <3>5, <3>8 DEF IndexSearch, IndexFile, Commit, CommitFails, DiskInv, pages
      <4> QED BY <1>2, <3>3, <3>8, <4>1, BulkMoves DEF Moved, DiskInv
    <3>9. CASE Restore
      <4>1. disk = Mixed(op, op.done) /\ disk' = [disk EXCEPT ![op.files[op.done]] = op.pre[op.files[op.done]]]
            /\ op.done \in 1 .. Len(op.files)
        BY <3>2, <3>9 DEF Restore, Undone, DiskInv, OpShape
      <4>2. disk' = Mixed(op', op.done - 1)
        BY <1>2, <3>1, <3>4, <4>1, MixedFacts
      <4> QED BY <1>2, <3>9, <4>2, BulkMoves DEF Moved, DiskInv
    <3>10. CASE Requeue
      <4>1. disk' = Mixed(op', op.done - 1)
        BY <3>4, <3>10 DEF Requeue, DiskInv, pages
      <4> QED BY <1>2, <3>3, <3>4, <3>5, <3>10, <4>1, BulkMoves DEF Moved, DiskInv
    <3> QED BY <1>5, <2>2, <3>6, <3>7, <3>8, <3>9, <3>10 DEF Bulk
  <2> QED BY <2>1, <2>2
<1>6. CASE /\ ~ Bulk /\ ~ \E files \in Batches : IsInjective(files) /\ Start(files)
           /\ ~ \E p \in Paths : WritePage(p)
  <2>1. UNCHANGED <<op, disk>>
    BY <1>6 DEF Next, FlushOne, StackClose, rest, vars, pages
  <2> QED BY <1>1, <2>1
<1> QED BY <1>3, <1>4, <1>5, <1>6

(* Every step keeps what Close waits for, the AsyncIndexer's queue empty   *)
(* if there is none, and 0, no content, out of the aborted ones.           *)
LEMMA StepClose ==
  ASSUME Typed, OpShape, CloseInv, ModeInv, [Next]_vars
  PROVE  CloseInv' /\ ModeInv'
<1>1. OpTypes /\ pending \in Seq(Requests) /\ queue \in Seq(Queued)
  BY DEF Typed, PageTypes, ServiceTypes
<1>2. ASSUME NEW p \in Paths, WritePage(p) PROVE CloseInv' /\ ModeInv'
  <2>1. life' = "up" /\ (~ asyncIdx => pending' = pending) /\ UNCHANGED <<asyncIdx, aborted>>
    BY <1>2 DEF WritePage, Submit
  <2> QED BY <2>1 DEF CloseInv, ModeInv
<1>3. ASSUME NEW files \in Batches, Start(files) PROVE CloseInv' /\ ModeInv'
  BY <1>3 DEF Start, CloseInv, ModeInv, service
<1>4. CASE Bulk
  <2>1. op # Idle
    BY <1>4 DEF Bulk, WriteFile, WriteFails, IndexSearch, IndexFile, Commit, CommitFails, Restore, Requeue, Return, Idle
  <2>2. life = "up"
    BY <2>1 DEF CloseInv, Typed, ServiceTypes
  <2>3. life' = life /\ asyncIdx' = asyncIdx /\ (~ asyncIdx => pending' = pending)
    BY <1>4 DEF Bulk, WriteFile, WriteFails, IndexSearch, IndexFile, Commit, CommitFails, Restore, Requeue, Return, Submit, service
  <2>4. 0 \notin aborted'
    <3>1. CASE Restore
      <4>1. op.new[Undone] # 0
        BY <1>1, <3>1, FilesFacts DEF Restore, Undone, OpShape
      <4> QED BY <3>1, <4>1 DEF Restore, ModeInv
    <3>2. CASE ~ Restore
      BY <1>4, <3>2 DEF Bulk, WriteFile, WriteFails, IndexSearch, IndexFile, Commit, CommitFails, Requeue, Return, ModeInv
    <3> QED BY <3>1, <3>2
  <2> QED BY <2>2, <2>3, <2>4 DEF CloseInv, ModeInv
<1>5. CASE FlushOne
  <2>1. pending # <<>> /\ life' = life /\ UNCHANGED <<asyncIdx, aborted>>
    BY <1>5 DEF FlushOne, Submit
  <2> QED BY <2>1 DEF CloseInv, ModeInv
<1>6. CASE StackClose
  BY <1>6 DEF StackClose, CloseService, CloseInv, ModeInv
<1>7. ASSUME UNCHANGED rest PROVE ModeInv'
  BY <1>7 DEF rest, ModeInv
<1>8. ASSUME NEW w \in Workers, Take(w) \/ RemoveOld(w) \/ Upsert(w) \/ JobFails(w), UNCHANGED rest PROVE CloseInv'
  <2>1. life' = life
    BY <1>8 DEF Take, RemoveOld, Upsert, JobFails
  <2>2. life # "closed"
    <3>1. CASE Take(w)
      BY <3>1 DEF Take, MayTake
    <3>2. CASE ~ Take(w)
      BY <1>8, <3>2 DEF RemoveOld, Upsert, JobFails, NoJob, CloseInv, Drained
    <3> QED BY <3>1, <3>2
  <2> QED BY <1>8, <2>1, <2>2 DEF CloseInv, rest
<1>9. ASSUME (\E p \in Paths : SkipExpires(p)) \/ Closed, UNCHANGED rest PROVE CloseInv'
  BY <1>9 DEF SkipExpires, Closed, CloseInv, Drained, rest
<1>10. CASE UNCHANGED vars
  BY <1>10 DEF vars, service, CloseInv, ModeInv, Drained
<1> QED BY <1>2, <1>3, <1>4, <1>5, <1>6, <1>7, <1>8, <1>9, <1>10 DEF Next

-----------------------------------------------------------------------------
(* The embedding queue.                                                    *)

(* What submitting a job does.                                             *)
LEMMA SubmitFacts ==
  ASSUME ServiceTypes, NEW p \in Paths, NEW s, Submit(p, s)
  PROVE  /\ busy' = busy /\ vectors' = vectors
         /\ sent[p] \in Nat /\ sent'[p] = sent[p] + 1
         /\ \A q \in Paths \ {p} : sent'[q] = sent[q] /\ last'[q] = last[q]
         /\ \A i \in DOMAIN queue : i <= Len(queue) /\ i \in DOMAIN queue' /\ queue'[i] = queue[i]
         /\ \A i \in DOMAIN queue' : i \in DOMAIN queue \/ (i = Len(queue) + 1 /\ queue'[i] = Job(p, s, sent[p] + 1))
         /\ last'[p] # "embedded"
         /\ last'[p] = "waiting" => Len(queue) + 1 \in DOMAIN queue' /\ queue'[Len(queue) + 1] = Job(p, s, sent[p] + 1)
<1>1. busy' = busy /\ vectors' = vectors /\ sent' = [sent EXCEPT ![p] = sent[p] + 1]
  BY DEF Submit
<1>2. sent[p] \in Nat /\ sent'[p] = sent[p] + 1 /\ \A q \in Paths \ {p} : sent'[q] = sent[q]
  BY <1>1 DEF ServiceTypes
<1>3. queue \in Seq(Queued) /\ Len(queue) \in Nat /\ DOMAIN queue = 1 .. Len(queue) /\ last \in [Paths -> {"waiting", "embedded", "lost"}]
  BY DEF ServiceTypes
<1>4. CASE HasRoom
  <2>1. queue' = Append(queue, Job(p, s, sent[p] + 1)) /\ last' = [last EXCEPT ![p] = "waiting"]
    BY <1>4 DEF Submit
  <2>2. /\ Len(queue') = Len(queue) + 1 /\ DOMAIN queue' = 1 .. Len(queue) + 1
        /\ \A i \in 1 .. Len(queue) : queue'[i] = queue[i]
        /\ queue'[Len(queue) + 1] = Job(p, s, sent[p] + 1)
    BY <1>3, <2>1
  <2> QED BY <1>1, <1>2, <1>3, <2>1, <2>2
<1>5. CASE ~ HasRoom
  <2>1. queue' = queue /\ last' = [last EXCEPT ![p] = "lost"]
    BY <1>5 DEF Submit
  <2> QED BY <1>1, <1>2, <1>3, <2>1
<1> QED BY <1>4, <1>5

(* A job in the queue, or with a worker, is for a page.                    *)
LEMMA JobFacts ==
  ASSUME ServiceTypes
  PROVE  /\ \A i \in DOMAIN queue : queue[i] \in Queued /\ queue[i].path \in Paths /\ queue[i].nr \in Nat /\ i \in Nat
         /\ \A w \in Workers : busy[w] # NoJob =>
              /\ busy[w] \in Running /\ busy[w].path \in Paths /\ busy[w].nr \in Nat /\ busy[w].raced \in BOOLEAN
              /\ busy[w].stamp \in Content
         /\ \A p \in Paths : sent[p] \in Nat
<1>1. \A i \in DOMAIN queue : queue[i] \in Queued /\ i \in Nat
  BY DEF ServiceTypes
<1>2. \A w \in Workers : busy[w] # NoJob => busy[w] \in Running
  BY DEF ServiceTypes
<1>3. \A p \in Paths : sent[p] \in Nat
  BY DEF ServiceTypes
<1> QED BY <1>1, <1>2, <1>3 DEF Queued, Running

(* A job submitted keeps the numbers in order and is the last of its page. *)
LEMMA SubmitJobs ==
  ASSUME ServiceTypes, JobsInv, NEW p \in Paths, NEW s, Submit(p, s)
  PROVE  JobsInv'
<1> DEFINE job == Job(p, s, sent[p] + 1)
<1>1. job.path = p /\ job.nr = sent[p] + 1
  BY DEF Job
<1> HIDE DEF job
<1>2. /\ busy' = busy /\ vectors' = vectors /\ sent[p] \in Nat /\ sent'[p] = sent[p] + 1
      /\ \A q \in Paths \ {p} : sent'[q] = sent[q] /\ last'[q] = last[q]
      /\ \A i \in DOMAIN queue : i <= Len(queue) /\ i \in DOMAIN queue' /\ queue'[i] = queue[i]
      /\ \A i \in DOMAIN queue' : i \in DOMAIN queue \/ (i = Len(queue) + 1 /\ queue'[i] = job)
      /\ last'[p] # "embedded"
      /\ last'[p] = "waiting" => Len(queue) + 1 \in DOMAIN queue' /\ queue'[Len(queue) + 1] = job
  BY SubmitFacts DEF job
<1>3. NumbersInv /\ RacedInv /\ LastInv
  BY DEF JobsInv
<1>4. Len(queue) \in Nat /\ \A i \in DOMAIN queue : i \in Nat
  BY DEF ServiceTypes
<1>5. NumbersInv'
  <2>1. \A i \in DOMAIN queue' : queue'[i].nr \in 1 .. sent'[queue'[i].path]
    BY <1>1, <1>2, <1>3, JobFacts DEF NumbersInv
  <2>2. \A i, k \in DOMAIN queue' : i < k /\ queue'[i].path = queue'[k].path => queue'[i].nr < queue'[k].nr
    BY <1>1, <1>2, <1>3, <1>4, JobFacts DEF NumbersInv
  <2>3. \A w \in Workers : busy'[w] # NoJob =>
          /\ busy'[w].nr \in 1 .. sent'[busy'[w].path]
          /\ \A i \in DOMAIN queue' : queue'[i].path = busy'[w].path => busy'[w].nr < queue'[i].nr
    BY <1>1, <1>2, <1>3, JobFacts DEF NumbersInv
  <2> QED BY <2>1, <2>2, <2>3 DEF NumbersInv
<1>6. RacedInv'
  BY <1>2, <1>3 DEF RacedInv
<1>7. LastInv'
  BY <1>1, <1>2, <1>3 DEF LastInv
<1> QED BY <1>5, <1>6, <1>7 DEF JobsInv

(* And the page settles where that job leads; the others stay.             *)
LEMMA SubmitSought ==
  ASSUME ServiceTypes, JobsInv, NEW p \in Paths, NEW s, Submit(p, s)
  PROVE  /\ \A ok : s \in ok => Sought(p, ok)'
         /\ \A q \in Paths \ {p} : \A ok : Sought(q, ok) => Sought(q, ok)'
<1> DEFINE job == Job(p, s, sent[p] + 1)
<1>1. job.path = p /\ job.nr = sent[p] + 1 /\ job.stamp = s
  BY DEF Job
<1> HIDE DEF job
<1>2. /\ busy' = busy /\ vectors' = vectors /\ sent[p] \in Nat /\ sent'[p] = sent[p] + 1
      /\ \A q \in Paths \ {p} : sent'[q] = sent[q] /\ last'[q] = last[q]
      /\ \A i \in DOMAIN queue : i \in DOMAIN queue' /\ queue'[i] = queue[i]
      /\ \A i \in DOMAIN queue' : i \in DOMAIN queue \/ (i = Len(queue) + 1 /\ queue'[i] = job)
      /\ last'[p] # "embedded"
  BY SubmitFacts DEF job
<1>3. \A i \in DOMAIN queue : queue[i].path = p => queue[i].nr # sent[p] + 1
  BY <1>2, JobFacts DEF JobsInv, NumbersInv
<1>4. \A w \in Workers : busy[w] # NoJob /\ busy[w].path = p => busy[w].nr # sent[p] + 1
  BY <1>2, JobFacts DEF JobsInv, NumbersInv
<1> QED BY <1>1, <1>2, <1>3, <1>4 DEF Sought

(* A job that ends, with the chunks of the other pages left alone.         *)
LEMMA FinishJobs ==
  ASSUME ServiceTypes, JobsInv, NEW w \in Workers, busy[w] # NoJob, NEW fate \in {"embedded", "lost"}, Finish(w, fate),
         queue' = queue, sent' = sent, \A q \in Paths \ {busy[w].path} : vectors'[q] = vectors[q],
         fate = "embedded" /\ ~ busy[w].raced => vectors'[busy[w].path] = Chunks(busy[w].stamp)
  PROVE  /\ JobsInv'
         /\ \A q \in Paths : \A ok : Sought(q, ok) => Sought(q, ok)'
<1> DEFINE p == busy[w].path
<1>1. p \in Paths /\ busy[w].nr \in Nat /\ busy[w].raced \in BOOLEAN
  BY JobFacts
<1>2. busy'[w] = NoJob /\ \A v \in Workers \ {w} : busy'[v] = busy[v]
  BY DEF Finish, ServiceTypes
<1>3. /\ \A q \in Paths \ {p} : last'[q] = last[q]
      /\ last'[p] = IF busy[w].raced THEN "lost" ELSE IF busy[w].nr = sent[p] THEN fate ELSE last[p]
  BY <1>1 DEF Finish, ServiceTypes
<1>4. NumbersInv /\ RacedInv /\ LastInv
  BY DEF JobsInv
<1>5. NumbersInv'
  BY <1>2, <1>4 DEF NumbersInv
<1>6. RacedInv'
  <2> SUFFICES ASSUME NEW v \in Workers, busy'[v] # NoJob, ~ busy'[v].raced
               PROVE  /\ \A u \in Workers \ {v} : busy'[u] = NoJob \/ busy'[u].path # busy'[v].path
                      /\ busy'[v].pc = "upsert" => vectors'[busy'[v].path] = {}
    BY DEF RacedInv
  <2>1. v # w /\ busy'[v] = busy[v]
    BY <1>2
  <2>2. busy[v].path # p /\ busy[v].path \in Paths
    BY <1>4, <2>1, JobFacts DEF RacedInv
  <2>3. busy[v].pc = "upsert" => vectors[busy[v].path] = {}
    BY <1>4, <2>1 DEF RacedInv
  <2>4. \A u \in Workers \ {v} : busy[u] = NoJob \/ busy[u].path # busy[v].path
    BY <1>4, <2>1 DEF RacedInv
  <2> QED BY <1>2, <2>1, <2>2, <2>3, <2>4
<1>7. ASSUME ~ busy[w].raced, busy[w].nr = sent[p]
      PROVE  /\ \A i \in DOMAIN queue : queue[i].path # p
             /\ \A v \in Workers \ {w} : busy[v] # NoJob => busy[v].path # p
  <2>1. \A i \in DOMAIN queue : queue[i].path # p
    BY <1>1, <1>4, <1>7, JobFacts DEF NumbersInv
  <2> QED BY <1>4, <1>7, <2>1 DEF RacedInv
<1>8. last[p] # "embedded"
  BY <1>1, <1>4 DEF LastInv
<1>9. LastInv'
  <2> SUFFICES ASSUME NEW q \in Paths
               PROVE  /\ last'[q] = "embedded" => /\ \A i \in DOMAIN queue : queue[i].path # q
                                                  /\ \A v \in Workers : busy'[v] # NoJob => busy'[v].path # q
                      /\ last'[q] = "waiting" => \/ \E i \in DOMAIN queue : queue[i].path = q /\ queue[i].nr = sent[q]
                                                 \/ \E v \in Workers : busy'[v] # NoJob /\ busy'[v].path = q /\ busy'[v].nr = sent[q]
    BY DEF LastInv
  <2>1. CASE q # p
    BY <1>2, <1>3, <1>4, <2>1 DEF LastInv
  <2>2. CASE q = p
    <3>1. last'[q] = "embedded" => ~ busy[w].raced /\ busy[w].nr = sent[p]
      BY <1>3, <1>8, <2>2
    <3>2. last'[q] = "waiting" => last[q] = "waiting" /\ busy[w].nr # sent[p]
      BY <1>3, <2>2
    <3> QED BY <1>2, <1>4, <1>7, <2>2, <3>1, <3>2 DEF LastInv
  <2> QED BY <2>1, <2>2
<1>10. ASSUME NEW q \in Paths, NEW ok, Sought(q, ok) PROVE Sought(q, ok)'
  <2>1. \A v \in Workers : busy'[v] # NoJob => busy'[v] = busy[v]
    BY <1>2
  <2>2. last'[q] = "embedded" => \E s \in ok : vectors'[q] = Chunks(s)
    <3>1. CASE q # p
      BY <1>3, <1>10, <3>1 DEF Sought
    <3>2. CASE q = p
      <4> SUFFICES ASSUME last'[q] = "embedded" PROVE \E s \in ok : vectors'[q] = Chunks(s)
        OBVIOUS
      <4>1. fate = "embedded" /\ ~ busy[w].raced /\ busy[w].nr = sent[p]
        BY <1>3, <1>8, <3>2
      <4>2. busy[w].stamp \in ok
        BY <1>10, <3>2, <4>1 DEF Sought
      <4> QED BY <3>2, <4>1, <4>2
    <3> QED BY <3>1, <3>2
  <2> QED BY <1>10, <2>1, <2>2 DEF Sought
<1> QED BY <1>5, <1>6, <1>9, <1>10 DEF JobsInv

(* A worker that takes a job, or drops it for the page's skip marker.      *)
LEMMA TakeJobs ==
  ASSUME ServiceTypes, JobsInv, NEW w \in Workers, Take(w)
  PROVE  /\ JobsInv'
         /\ \A q \in Paths : \A ok : Sought(q, ok) => Sought(q, ok)'
<1> DEFINE j      == queue[1]
           others == {v \in Workers : busy[v] # NoJob /\ busy[v].path = queue[1].path}
<1>1. /\ busy[w] = NoJob /\ sent' = sent /\ vectors' = vectors /\ queue' = Tail(queue) /\ queue # <<>>
      /\ Head(queue) = queue[1] /\ 1 \in DOMAIN queue
      /\ \A i \in DOMAIN queue' : i + 1 \in DOMAIN queue /\ queue'[i] = queue[i + 1]
      /\ DOMAIN queue' = 1 .. Len(queue) - 1 /\ DOMAIN queue = 1 .. Len(queue) /\ Len(queue) \in Nat
  BY TailTypes DEF Take, ServiceTypes
<1>2. j.path \in Paths /\ j.nr \in Nat /\ j.pc = "embed" /\ j.raced = FALSE /\ j \in Queued
  BY <1>1, JobFacts DEF Queued
<1>3. NumbersInv /\ RacedInv /\ LastInv
  BY DEF JobsInv
<1>4. \A i \in DOMAIN queue : i # 1 => i - 1 \in DOMAIN queue' /\ queue'[i - 1] = queue[i]
  BY <1>1
<1>5. /\ \A i \in DOMAIN queue' : queue'[i].nr \in 1 .. sent'[queue'[i].path]
      /\ \A i, k \in DOMAIN queue' : i < k /\ queue'[i].path = queue'[k].path => queue'[i].nr < queue'[k].nr
      /\ \A i \in DOMAIN queue' : queue'[i].path = j.path => j.nr < queue'[i].nr
  BY <1>1, <1>3 DEF NumbersInv
<1>6. CASE Skipped(Head(queue))
  <2>1. busy' = busy /\ last' = [last EXCEPT ![j.path] = IF j.nr = sent[j.path] THEN "lost" ELSE last[j.path]]
    BY <1>1, <1>6 DEF Take
  <2>2. /\ \A q \in Paths \ {j.path} : last'[q] = last[q]
        /\ last'[j.path] = IF j.nr = sent[j.path] THEN "lost" ELSE last[j.path]
    BY <1>2, <2>1 DEF ServiceTypes
  <2>3. NumbersInv'
    BY <1>1, <1>3, <1>5, <2>1 DEF NumbersInv
  <2>4. RacedInv'
    BY <1>1, <1>3, <2>1 DEF RacedInv
  <2>5. LastInv'
    <3> SUFFICES ASSUME NEW q \in Paths
                 PROVE  /\ last'[q] = "embedded" => /\ \A i \in DOMAIN queue' : queue'[i].path # q
                                                    /\ \A v \in Workers : busy[v] # NoJob => busy[v].path # q
                        /\ last'[q] = "waiting" => \/ \E i \in DOMAIN queue' : queue'[i].path = q /\ queue'[i].nr = sent[q]
                                                   \/ \E v \in Workers : busy[v] # NoJob /\ busy[v].path = q /\ busy[v].nr = sent[q]
      BY <1>1, <2>1 DEF LastInv
    <3>1. last'[q] = "embedded" => last[q] = "embedded"
      BY <2>2
    <3>2. last'[q] = "waiting" => last[q] = "waiting" /\ (j.path = q => j.nr # sent[q])
      BY <2>2
    <3>3. \A i \in DOMAIN queue : queue[i].path = q /\ queue[i].nr = sent[q] /\ last'[q] = "waiting" => i # 1
      BY <3>2
    <3>4. last'[q] = "embedded" => /\ \A i \in DOMAIN queue' : queue'[i].path # q
                                   /\ \A v \in Workers : busy[v] # NoJob => busy[v].path # q
      BY <1>1, <1>3, <3>1 DEF LastInv
    <3>5. ASSUME last'[q] = "waiting", NEW i \in DOMAIN queue, queue[i].path = q, queue[i].nr = sent[q]
          PROVE  \E k \in DOMAIN queue' : queue'[k].path = q /\ queue'[k].nr = sent[q]
      BY <1>4, <3>3, <3>5
    <3>6. last'[q] = "waiting" => \/ \E i \in DOMAIN queue' : queue'[i].path = q /\ queue'[i].nr = sent[q]
                                  \/ \E v \in Workers : busy[v] # NoJob /\ busy[v].path = q /\ busy[v].nr = sent[q]
      BY <1>3, <3>2, <3>5 DEF LastInv
    <3> QED BY <3>4, <3>6
  <2>6. ASSUME NEW q \in Paths, NEW ok, Sought(q, ok) PROVE Sought(q, ok)'
    <3>1. last'[q] = "embedded" => last[q] = "embedded"
      BY <2>2
    <3> QED BY <1>1, <2>1, <2>6, <3>1 DEF Sought
  <2> QED BY <2>3, <2>4, <2>5, <2>6 DEF JobsInv
<1>7. CASE ~ Skipped(Head(queue))
  <2>1. /\ busy' = [v \in Workers |-> IF v = w THEN [j EXCEPT !.raced = others # {}]
                      ELSE IF v \in others THEN [busy[v] EXCEPT !.raced = TRUE] ELSE busy[v]]
        /\ last' = last
    BY <1>1, <1>7 DEF Take
  <2>2. /\ busy'[w] # NoJob /\ busy'[w].path = j.path /\ busy'[w].nr = j.nr /\ busy'[w].stamp = j.stamp
        /\ busy'[w].pc = "embed" /\ (~ busy'[w].raced => others = {})
    <3>1. busy'[w] = [j EXCEPT !.raced = others # {}]
      BY <2>1
    <3> DEFINE r == others # {}
    <3>2. r \in BOOLEAN /\ busy'[w] = [j EXCEPT !.raced = r]
      BY <3>1
    <3> HIDE DEF r
    <3>3. /\ busy'[w].path = j.path /\ busy'[w].nr = j.nr /\ busy'[w].stamp = j.stamp /\ busy'[w].pc = "embed" /\ busy'[w].raced = r
      BY <1>2, <3>2 DEF Queued
    <3>4. busy'[w] # NoJob
      BY <3>3 DEF NoJob
    <3>5. ~ busy'[w].raced => others = {}
      <4>1. ~ busy'[w].raced => ~ r
        BY <3>3
      <4> QED BY <4>1 DEF r
    <3> QED BY <3>3, <3>4, <3>5
  <2>3. ASSUME NEW v \in Workers \ {w}
        PROVE  /\ busy'[v] = NoJob <=> busy[v] = NoJob
               /\ busy[v] # NoJob => /\ busy'[v].path = busy[v].path /\ busy'[v].nr = busy[v].nr
                                     /\ busy'[v].stamp = busy[v].stamp /\ busy'[v].pc = busy[v].pc
               /\ busy[v] # NoJob /\ ~ busy'[v].raced => ~ busy[v].raced /\ busy[v].path # j.path
    <3>1. CASE v \in others
      <4>1. busy'[v] = [busy[v] EXCEPT !.raced = TRUE] /\ busy[v] # NoJob /\ busy[v] \in Running
        BY <2>1, <3>1, JobFacts
      <4>2. /\ busy'[v].path = busy[v].path /\ busy'[v].nr = busy[v].nr /\ busy'[v].stamp = busy[v].stamp
            /\ busy'[v].pc = busy[v].pc /\ busy'[v].raced = TRUE
        BY <4>1 DEF Running
      <4>3. busy'[v] # NoJob
        BY <4>2 DEF NoJob
      <4> QED BY <4>1, <4>2, <4>3
    <3>2. CASE v \notin others
      BY <2>1, <3>2
    <3> QED BY <3>1, <3>2
  <2> HIDE DEF others
  <2>4. others = {} => \A v \in Workers : busy[v] # NoJob => busy[v].path # j.path
    BY DEF others
  <2>5. NumbersInv'
    <3>1. \A v \in Workers : busy'[v] # NoJob =>
            /\ busy'[v].nr \in 1 .. sent'[busy'[v].path]
            /\ \A i \in DOMAIN queue' : queue'[i].path = busy'[v].path => busy'[v].nr < queue'[i].nr
      BY <1>1, <1>3, <1>5, <2>2, <2>3 DEF NumbersInv
    <3> QED BY <1>5, <3>1 DEF NumbersInv
  <2>6. RacedInv'
    <3> SUFFICES ASSUME NEW v \in Workers, busy'[v] # NoJob, ~ busy'[v].raced
                 PROVE  /\ \A u \in Workers \ {v} : busy'[u] = NoJob \/ busy'[u].path # busy'[v].path
                        /\ busy'[v].pc = "upsert" => vectors[busy'[v].path] = {}
      BY <1>1 DEF RacedInv
    <3>1. CASE v = w
      BY <2>2, <2>3, <2>4, <3>1
    <3>2. CASE v # w
      <4>1. busy[v] # NoJob /\ ~ busy[v].raced /\ busy[v].path # j.path /\ busy'[v].path = busy[v].path /\ busy'[v].pc = busy[v].pc
        BY <2>3, <3>2
      <4>2. /\ \A u \in Workers \ {v} : busy[u] = NoJob \/ busy[u].path # busy[v].path
            /\ busy[v].pc = "upsert" => vectors[busy[v].path] = {}
        BY <1>3, <4>1 DEF RacedInv
      <4>3. \A u \in Workers \ {v} : busy'[u] = NoJob \/ busy'[u].path # busy'[v].path
        BY <2>2, <2>3, <4>1, <4>2
      <4> QED BY <4>1, <4>2, <4>3
    <3> QED BY <3>1, <3>2
  <2>7. LastInv'
    <3> SUFFICES ASSUME NEW q \in Paths
                 PROVE  /\ last[q] = "embedded" => /\ \A i \in DOMAIN queue' : queue'[i].path # q
                                                   /\ \A v \in Workers : busy'[v] # NoJob => busy'[v].path # q
                        /\ last[q] = "waiting" => \/ \E i \in DOMAIN queue' : queue'[i].path = q /\ queue'[i].nr = sent[q]
                                                  \/ \E v \in Workers : busy'[v] # NoJob /\ busy'[v].path = q /\ busy'[v].nr = sent[q]
      BY <1>1, <2>1 DEF LastInv
    <3>1. last[q] = "embedded" => /\ \A i \in DOMAIN queue' : queue'[i].path # q
                                  /\ \A v \in Workers : busy'[v] # NoJob => busy'[v].path # q
      BY <1>1, <1>3, <2>2, <2>3 DEF LastInv
    <3>2. ASSUME last[q] = "waiting"
          PROVE  \/ \E i \in DOMAIN queue' : queue'[i].path = q /\ queue'[i].nr = sent[q]
                 \/ \E v \in Workers : busy'[v] # NoJob /\ busy'[v].path = q /\ busy'[v].nr = sent[q]
      <4>1. CASE \E i \in DOMAIN queue : queue[i].path = q /\ queue[i].nr = sent[q]
        BY <1>4, <2>2, <4>1
      <4>2. CASE \E v \in Workers : busy[v] # NoJob /\ busy[v].path = q /\ busy[v].nr = sent[q]
        BY <1>1, <2>3, <4>2
      <4> QED BY <1>3, <3>2, <4>1, <4>2 DEF LastInv
    <3> QED BY <3>1, <3>2
  <2>8. ASSUME NEW q \in Paths, NEW ok, Sought(q, ok) PROVE Sought(q, ok)'
    <3>1. \A v \in Workers : busy'[v] # NoJob /\ busy'[v].path = q /\ busy'[v].nr = sent[q] => busy'[v].stamp \in ok
      BY <1>1, <2>2, <2>3, <2>8 DEF Sought
    <3> QED BY <1>1, <2>1, <2>8, <3>1 DEF Sought
  <2> QED BY <2>5, <2>6, <2>7, <2>8 DEF JobsInv
<1> QED BY <1>6, <1>7

(* Every step of the service by itself keeps the jobs in order, and where  *)
(* the pages' chunks are going.                                            *)
LEMMA WorkJobs ==
  ASSUME ServiceTypes, JobsInv,
         \/ \E w \in Workers : Take(w) \/ RemoveOld(w) \/ Upsert(w) \/ JobFails(w)
         \/ \E p \in Paths : SkipExpires(p)
         \/ CloseService \/ Closed
  PROVE  /\ JobsInv'
         /\ \A q \in Paths : \A ok : Sought(q, ok) => Sought(q, ok)'
<1> DEFINE Kept == JobsInv' /\ \A q \in Paths : \A ok : Sought(q, ok) => Sought(q, ok)'
<1>1. ASSUME UNCHANGED <<queue, busy, vectors, sent, last>> PROVE Kept
  BY <1>1 DEF JobsInv, NumbersInv, RacedInv, LastInv, Sought
<1>2. ASSUME NEW w \in Workers, RemoveOld(w) PROVE Kept
  <2>1. /\ busy[w].pc = "embed" /\ queue' = queue /\ sent' = sent
        /\ vectors' = [vectors EXCEPT ![busy[w].path] = {}]
    BY <1>2 DEF RemoveOld
  <2>2. busy[w] # NoJob
    BY <2>1 DEF NoJob
  <2>3. busy[w].path \in Paths /\ busy[w] \in Running
    BY <2>2, JobFacts
  <2>4. vectors'[busy[w].path] = {} /\ \A q \in Paths \ {busy[w].path} : vectors'[q] = vectors[q]
    BY <2>1, <2>3 DEF ServiceTypes
  <2>5. CASE busy[w].stamp = 0
    <3>1. Finish(w, "embedded") /\ vectors'[busy[w].path] = Chunks(busy[w].stamp)
      BY <1>2, <2>4, <2>5 DEF RemoveOld, Chunks
    <3> QED BY <2>1, <2>2, <2>4, <3>1, FinishJobs
  <2>6. CASE busy[w].stamp # 0
    <3>1. busy' = [busy EXCEPT ![w].pc = "upsert"] /\ last' = last
      BY <1>2, <2>6 DEF RemoveOld
    <3>2. /\ \A v \in Workers \ {w} : busy'[v] = busy[v]
          /\ busy'[w] = [busy[w] EXCEPT !.pc = "upsert"]
      BY <3>1 DEF ServiceTypes
    <3>3. /\ busy'[w].path = busy[w].path /\ busy'[w].nr = busy[w].nr /\ busy'[w].stamp = busy[w].stamp
          /\ busy'[w].raced = busy[w].raced /\ busy'[w].pc = "upsert"
      BY <2>3, <3>2 DEF Running
    <3>4. busy'[w] # NoJob
      BY <3>3 DEF NoJob
    <3>5. NumbersInv /\ RacedInv /\ LastInv
      BY DEF JobsInv
    <3>6. NumbersInv'
      <4>1. \A v \in Workers : busy'[v] # NoJob =>
              busy[v] # NoJob /\ busy'[v].nr = busy[v].nr /\ busy'[v].path = busy[v].path
        BY <2>2, <3>2, <3>3
      <4>2. \A v \in Workers : busy'[v] # NoJob =>
              /\ busy'[v].nr \in 1 .. sent[busy'[v].path]
              /\ \A i \in DOMAIN queue : queue[i].path = busy'[v].path => busy'[v].nr < queue[i].nr
        BY <3>5, <4>1 DEF NumbersInv
      <4> QED BY <2>1, <3>5, <4>2 DEF NumbersInv
    <3>7. RacedInv'
      <4> SUFFICES ASSUME NEW v \in Workers, busy'[v] # NoJob, ~ busy'[v].raced
                   PROVE  /\ \A u \in Workers \ {v} : busy'[u] = NoJob \/ busy'[u].path # busy'[v].path
                          /\ busy'[v].pc = "upsert" => vectors'[busy'[v].path] = {}
        BY DEF RacedInv
      <4>1. busy[v] # NoJob /\ busy'[v].path = busy[v].path /\ busy[v].path \in Paths
        BY <2>2, <3>2, <3>3, JobFacts
      <4>2. ~ busy[v].raced
        BY <3>2, <3>3
      <4>3. \A u \in Workers \ {v} : busy[u] = NoJob \/ busy[u].path # busy[v].path
        BY <3>5, <4>1, <4>2 DEF RacedInv
      <4>4. \A u \in Workers \ {v} : busy'[u] = NoJob \/ busy'[u].path # busy'[v].path
        BY <2>2, <3>2, <3>3, <4>1, <4>3
      <4>5. v # w /\ busy'[v].pc = "upsert" => vectors'[busy'[v].path] = {}
        BY <2>2, <2>4, <3>2, <3>5, <4>1, <4>2, <4>3 DEF RacedInv
      <4> QED BY <2>4, <3>3, <4>4, <4>5
    <3>8. LastInv'
      BY <2>1, <2>2, <3>1, <3>2, <3>3, <3>4, <3>5 DEF LastInv
    <3>9. last[busy[w].path] # "embedded"
      BY <2>2, <2>3, <3>5 DEF LastInv
    <3>10. ASSUME NEW q \in Paths, NEW ok, Sought(q, ok) PROVE Sought(q, ok)'
      <4>1. \A v \in Workers : busy'[v] # NoJob /\ busy'[v].path = q /\ busy'[v].nr = sent[q] => busy'[v].stamp \in ok
        <5>1. \A v \in Workers : busy[v] # NoJob /\ busy[v].path = q /\ busy[v].nr = sent[q] => busy[v].stamp \in ok
          BY <3>10 DEF Sought
        <5>2. \A v \in Workers : busy'[v] # NoJob =>
                /\ busy[v] # NoJob /\ busy'[v].nr = busy[v].nr
                /\ busy'[v].path = busy[v].path /\ busy'[v].stamp = busy[v].stamp
          BY <2>2, <3>2, <3>3
        <5> QED BY <5>1, <5>2
      <4>2. last[q] = "embedded" => \E s \in ok : vectors'[q] = Chunks(s)
        BY <2>4, <3>9, <3>10 DEF Sought
      <4> QED BY <2>1, <3>1, <3>10, <4>1, <4>2 DEF Sought
    <3> QED BY <3>6, <3>7, <3>8, <3>10 DEF JobsInv
  <2> QED BY <2>5, <2>6
<1>3. ASSUME NEW w \in Workers, Upsert(w) PROVE Kept
  <2>1. /\ busy[w].pc = "upsert" /\ queue' = queue /\ sent' = sent /\ Finish(w, "embedded")
        /\ \E stay \in SUBSET vectors[busy[w].path] :
             vectors' = [vectors EXCEPT ![busy[w].path] = Chunks(busy[w].stamp) \union stay]
    BY <1>3 DEF Upsert
  <2>2. busy[w] # NoJob
    BY <2>1 DEF NoJob
  <2>3. busy[w].path \in Paths
    BY <2>2, JobFacts
  <2>4. \A q \in Paths \ {busy[w].path} : vectors'[q] = vectors[q]
    BY <2>1, <2>3 DEF ServiceTypes
  <2>5. ~ busy[w].raced => vectors[busy[w].path] = {}
    BY <2>1, <2>2 DEF JobsInv, RacedInv
  <2>6. ~ busy[w].raced => vectors'[busy[w].path] = Chunks(busy[w].stamp)
    <3>1. PICK stay \in SUBSET vectors[busy[w].path] :
            vectors' = [vectors EXCEPT ![busy[w].path] = Chunks(busy[w].stamp) \union stay]
      BY <2>1
    <3>2. vectors'[busy[w].path] = Chunks(busy[w].stamp) \union stay
      BY <2>3, <3>1 DEF ServiceTypes
    <3>3. vectors[busy[w].path] = {} => stay = {}
      BY <3>1
    <3> QED BY <2>5, <3>2, <3>3
  <2> QED BY <2>1, <2>2, <2>4, <2>6, FinishJobs
<1>4. ASSUME NEW w \in Workers, JobFails(w) PROVE Kept
  <2>1. busy[w] # NoJob /\ queue' = queue /\ sent' = sent /\ vectors' = vectors /\ Finish(w, "lost")
    BY <1>4 DEF JobFails
  <2> QED BY <2>1, FinishJobs
<1>5. ASSUME NEW p \in Paths, SkipExpires(p) PROVE Kept
  BY <1>1, <1>5 DEF SkipExpires
<1>6. CASE CloseService \/ Closed
  BY <1>1, <1>6 DEF CloseService, Closed
<1> QED BY <1>2, <1>3, <1>4, <1>5, <1>6, TakeJobs

-----------------------------------------------------------------------------
(* Where search and vectors will end up.                                   *)

(* The next state settles where it should if every page settles within it. *)
LEMMA SearchSteps ==
  ASSUME \A q \in Paths : \E s, l, m : /\ IndexSettles(q, s, l, m)' /\ s \subseteq SearchOk(q)'
                                       /\ l \subseteq LinksOk(q)' /\ m \subseteq MetaOk(q)'
  PROVE  SearchInv'
BY DEF SearchInv, IndexSettles, LastPending, NonePending, Holds

(* And so do the vectors.                                                  *)
LEMMA VectorSteps ==
  ASSUME \A q \in Paths : \E ok : VectorSettles(q, ok)' /\ ok \subseteq VectorOk(q)'
  PROVE  VectorInv'
BY DEF VectorInv, VectorSettles, LastPending, NonePending, Sought

(* Pages whose requests and tables are left alone.                         *)
LEMMA SearchStays ==
  ASSUME SearchInv, UNCHANGED <<pending, index, unindexed>>,
         \A q \in Paths : /\ SearchOk(q) \subseteq SearchOk(q)' /\ LinksOk(q) \subseteq LinksOk(q)'
                          /\ MetaOk(q) \subseteq MetaOk(q)'
  PROVE  SearchInv'
<1>1. \A q \in Paths : IndexSettles(q, SearchOk(q), LinksOk(q), MetaOk(q))
  BY DEF SearchInv
<1>2. ASSUME NEW q \in Paths
      PROVE  \E s, l, m : /\ IndexSettles(q, s, l, m)' /\ s \subseteq SearchOk(q)'
                          /\ l \subseteq LinksOk(q)' /\ m \subseteq MetaOk(q)'
  <2>1. PICK s, l, m : s = SearchOk(q) /\ l = LinksOk(q) /\ m = MetaOk(q)
    OBVIOUS
  <2>2. IndexSettles(q, s, l, m)
    BY <1>1, <2>1
  <2>3. IndexSettles(q, s, l, m)'
    BY <2>2 DEF IndexSettles, LastPending, NonePending
  <2> QED BY <2>1, <2>3
<1> QED BY <1>2, SearchSteps

(* Pages whose requests and jobs are left alone.                           *)
LEMMA VectorStays ==
  ASSUME VectorInv, UNCHANGED pending, \A q \in Paths : VectorOk(q) \subseteq VectorOk(q)',
         \A q \in Paths : \A ok : Sought(q, ok) => Sought(q, ok)'
  PROVE  VectorInv'
<1>1. \A q \in Paths : VectorSettles(q, VectorOk(q))
  BY DEF VectorInv
<1>2. ASSUME NEW q \in Paths PROVE \E ok : VectorSettles(q, ok)' /\ ok \subseteq VectorOk(q)'
  <2>1. PICK ok : ok = VectorOk(q)
    OBVIOUS
  <2>2. LastPending(q, ok) /\ (NonePending(q) => Sought(q, ok))
    BY <1>1, <2>1 DEF VectorSettles
  <2>3. LastPending(q, ok)' /\ (NonePending(q)' => NonePending(q))
    BY <2>2 DEF LastPending, NonePending
  <2> QED BY <2>1, <2>2, <2>3 DEF VectorSettles
<1> QED BY <1>2, VectorSteps

(* A request handed to the AsyncIndexer is its page's last.                *)
LEMMA EnqueueFacts ==
  ASSUME PageTypes, NEW p \in Paths, NEW c, Enqueue(p, c)
  PROVE  /\ \A ok : c \in ok => LastPending(p, ok)'
         /\ ~ NonePending(p)'
         /\ \A q \in Paths \ {p} : /\ NonePending(q)' <=> NonePending(q)
                                   /\ \A ok : LastPending(q, ok) => LastPending(q, ok)'
<1> DEFINE r == [path |-> p, stamp |-> c]
           n == Len(pending)
<1>1. n \in Nat /\ DOMAIN pending = 1 .. n /\ pending' = Append(pending, r) /\ r.path = p /\ r.stamp = c
  BY DEF PageTypes, Enqueue
<1> HIDE DEF r
<1>2. /\ DOMAIN pending' = 1 .. n + 1 /\ pending'[n + 1] = r
      /\ \A i \in 1 .. n : pending'[i] = pending[i]
  BY <1>1 DEF PageTypes
<1> HIDE DEF n
<1>3. ASSUME NEW ok, c \in ok PROVE LastPending(p, ok)'
  <2> SUFFICES ASSUME NEW i \in DOMAIN pending', pending'[i].path = p,
                      \A k \in DOMAIN pending' : pending'[k].path = p => k <= i
               PROVE  pending'[i].stamp \in ok
    BY DEF LastPending
  <2>1. i = n + 1
    BY <1>1, <1>2
  <2> QED BY <1>1, <1>2, <1>3, <2>1
<1>4. ~ NonePending(p)'
  BY <1>1, <1>2 DEF NonePending
<1>5. ASSUME NEW q \in Paths \ {p} PROVE NonePending(q)' <=> NonePending(q)
  BY <1>1, <1>2 DEF NonePending
<1>6. ASSUME NEW q \in Paths \ {p}, NEW ok, LastPending(q, ok) PROVE LastPending(q, ok)'
  <2> SUFFICES ASSUME NEW i \in DOMAIN pending', pending'[i].path = q,
                      \A k \in DOMAIN pending' : pending'[k].path = q => k <= i
               PROVE  pending'[i].stamp \in ok
    BY DEF LastPending
  <2>1. i \in DOMAIN pending /\ pending[i] = pending'[i]
    BY <1>1, <1>2
  <2>2. \A k \in DOMAIN pending : pending[k].path = q => k <= i
    BY <1>1, <1>2
  <2> QED BY <1>6, <2>1, <2>2 DEF LastPending
<1> QED BY <1>3, <1>4, <1>5, <1>6

(* A request it takes leaves the later ones.                               *)
LEMMA DequeueFacts ==
  ASSUME PageTypes, pending # <<>>, pending' = Tail(pending)
  PROVE  /\ \A q \in Paths : \A ok : LastPending(q, ok) => LastPending(q, ok)'
         /\ \A q \in Paths : q # Head(pending).path => (NonePending(q)' <=> NonePending(q))
         /\ \A q, ok : q = Head(pending).path /\ LastPending(q, ok) /\ NonePending(q)' => Head(pending).stamp \in ok
<1> DEFINE n == Len(pending)
<1>1. pending \in Seq(Requests) /\ n \in Nat \ {0} /\ DOMAIN pending = 1 .. n
  BY EmptySeq DEF PageTypes
<1>2. /\ Head(pending) = pending[1] /\ DOMAIN pending' = 1 .. n - 1
      /\ \A i \in 1 .. n - 1 : pending'[i] = pending[i + 1]
  BY <1>1, HeadTailProperties
<1> HIDE DEF n
<1>3. \A i \in 2 .. n : i - 1 \in DOMAIN pending' /\ pending'[i - 1] = pending[i]
  BY <1>1, <1>2
<1>4. ASSUME NEW q \in Paths, NEW ok, LastPending(q, ok) PROVE LastPending(q, ok)'
  <2> SUFFICES ASSUME NEW i \in DOMAIN pending', pending'[i].path = q,
                      \A k \in DOMAIN pending' : pending'[k].path = q => k <= i
               PROVE  pending'[i].stamp \in ok
    BY DEF LastPending
  <2>1. i \in Nat /\ i + 1 \in DOMAIN pending /\ pending[i + 1] = pending'[i]
    BY <1>1, <1>2
  <2>2. \A k \in DOMAIN pending : pending[k].path = q => k <= i + 1
    <3> SUFFICES ASSUME NEW k \in DOMAIN pending, pending[k].path = q PROVE k <= i + 1
      OBVIOUS
    <3>1. CASE k = 1
      BY <2>1, <3>1
    <3>2. CASE k # 1
      <4>1. k \in 2 .. n
        BY <1>1, <3>2
      <4>2. k - 1 <= i
        BY <1>3, <4>1
      <4> QED BY <1>1, <2>1, <4>1, <4>2
    <3> QED BY <3>1, <3>2
  <2> QED BY <1>4, <2>1, <2>2 DEF LastPending
<1>5. ASSUME NEW q \in Paths, q # pending[1].path PROVE NonePending(q)' <=> NonePending(q)
  <2>1. NonePending(q) => NonePending(q)'
    BY <1>1, <1>2 DEF NonePending
  <2>2. ASSUME NonePending(q)', NEW i \in DOMAIN pending PROVE pending[i].path # q
    <3>1. CASE i = 1
      BY <1>5, <3>1
    <3>2. CASE i # 1
      <4>1. \A k \in DOMAIN pending' : pending'[k].path # q
        BY <2>2 DEF NonePending
      <4>2. i \in 2 .. n
        BY <1>1, <3>2
      <4> QED BY <1>3, <4>1, <4>2
    <3> QED BY <3>1, <3>2
  <2> QED BY <2>1, <2>2 DEF NonePending
<1>6. ASSUME NEW q, NEW ok, q = pending[1].path, LastPending(q, ok), NonePending(q)'
      PROVE  pending[1].stamp \in ok
  <2>1. \A i \in DOMAIN pending' : pending'[i].path # q
    BY <1>6 DEF NonePending
  <2>2. \A k \in 2 .. n : pending[k].path # q
    BY <1>3, <2>1
  <2>3. \A k \in DOMAIN pending : pending[k].path = q => k <= 1
    BY <1>1, <2>2
  <2>4. 1 \in DOMAIN pending
    BY <1>1
  <2> QED BY <1>6, <2>3, <2>4 DEF LastPending
<1> QED BY <1>2, <1>4, <1>5, <1>6

(* Which files are among the first k.                                      *)
LEMMA WrittenFacts ==
  ASSUME OpTypes, OpShape, op.pc # "idle", NEW q \in Paths
  PROVE  /\ ~ Written(op, 0, q) /\ (~ Written(op, Len(op.files), q) => op.new[q] = op.pre[q])
         /\ \A k \in 1 .. Len(op.files) : /\ Written(op, k, q) <=> (Written(op, k - 1, q) \/ q = op.files[k])
                                          /\ ~ Written(op, k - 1, op.files[k])
<1>1. Len(op.files) \in Nat /\ DOMAIN op.files = 1 .. Len(op.files)
  BY FilesFacts
<1>2. \A i, k \in 1 .. Len(op.files) : op.files[i] = op.files[k] => i = k
  BY <1>1 DEF OpShape
<1>3. ASSUME NEW k \in 1 .. Len(op.files) PROVE Written(op, k, q) <=> (Written(op, k - 1, q) \/ q = op.files[k])
  BY <1>1 DEF Written
<1>4. ASSUME NEW k \in 1 .. Len(op.files) PROVE ~ Written(op, k - 1, op.files[k])
  BY <1>1, <1>2 DEF Written
<1>5. ~ Written(op, Len(op.files), q) => op.new[q] = op.pre[q]
  BY <1>1 DEF Written, OpShape
<1>6. ~ Written(op, 0, q)
  BY DEF Written
<1> QED BY <1>3, <1>4, <1>5, <1>6

(* The sets a bulk write settles in, by its stage, and those of the next   *)
(* state.                                                                  *)
LEMMA HasAt ==
  ASSUME NEW q \in Paths
  PROVE  /\ op.pc \in {"idle", "done"} => SearchHas(q) = {disk[q]} /\ VectorHas(q) = {disk[q]}
         /\ op.pc \in {"write", "search"} => SearchHas(q) = {op.pre[q]} /\ VectorHas(q) = {op.pre[q]}
         /\ op.pc = "index" => SearchHas(q) = (IF asyncIdx THEN Partly(q) ELSE {op.new[q]}) /\ VectorHas(q) = Partly(q)
         /\ op.pc = "commit" => SearchHas(q) = {op.new[q]} /\ VectorHas(q) = {op.new[q]}
         /\ op.pc = "restore" => SearchHas(q) = Undoing(q) /\ VectorHas(q) = Undoing(q)
         /\ op.pc = "requeue" => /\ SearchHas(q) = (IF q = Undone THEN {op.pre[q]} ELSE Undoing(q))
                                 /\ VectorHas(q) = Undoing(q)
BY DEF SearchHas, VectorHas

(* The same after a step.                                                  *)
LEMMA HasAtNext ==
  ASSUME NEW q \in Paths
  PROVE  /\ op'.pc \in {"idle", "done"} => SearchHas(q)' = {disk'[q]} /\ VectorHas(q)' = {disk'[q]}
         /\ op'.pc \in {"write", "search"} => SearchHas(q)' = {op'.pre[q]} /\ VectorHas(q)' = {op'.pre[q]}
         /\ op'.pc = "index" => SearchHas(q)' = (IF asyncIdx' THEN Partly(q)' ELSE {op'.new[q]}) /\ VectorHas(q)' = Partly(q)'
         /\ op'.pc = "commit" => SearchHas(q)' = {op'.new[q]} /\ VectorHas(q)' = {op'.new[q]}
         /\ op'.pc = "restore" => SearchHas(q)' = Undoing(q)' /\ VectorHas(q)' = Undoing(q)'
         /\ op'.pc = "requeue" => /\ SearchHas(q)' = (IF q = Undone' THEN {op'.pre[q]} ELSE Undoing(q)')
                                  /\ VectorHas(q)' = Undoing(q)'
BY DEF SearchHas, VectorHas

(* With the same files done, and in stages that differ by what is done.    *)
LEMMA PartsMove ==
  ASSUME NEW q \in Paths, op'.files = op.files, op'.pre = op.pre, op'.new = op.new
  PROVE  /\ Partly(q)' = IF Written(op, op'.done, q) THEN {op.new[q]} ELSE {op.pre[q]}
         /\ Undoing(q)' = IF Written(op, op'.done, q) THEN {op.pre[q], op.new[q]} ELSE {op.pre[q]}
BY DEF Partly, Undoing, Written

(* Where each step of a bulk write leaves these sets.                      *)
LEMMA BulkHas ==
  ASSUME Typed, OpShape, DiskInv, Bulk, NEW q \in Paths
  PROVE  /\ WriteFile \/ WriteFails \/ Commit \/ CommitFails \/ Return =>
              SearchHas(q) \subseteq SearchHas(q)' /\ VectorHas(q) \subseteq VectorHas(q)'
         /\ IndexSearch => /\ SearchHas(q) = {op.pre[q]} /\ VectorHas(q) \subseteq VectorHas(q)'
                           /\ SearchHas(q)' = IF asyncIdx THEN {op.pre[q]} ELSE {op.new[q]}
         /\ IndexFile => /\ ~ asyncIdx => SearchHas(q) \subseteq SearchHas(q)'
                         /\ IF q = File THEN op.new[q] \in VectorHas(q)' /\ op.new[q] \in SearchHas(q)'
                            ELSE VectorHas(q) \subseteq VectorHas(q)' /\ SearchHas(q) \subseteq SearchHas(q)'
         /\ Restore => /\ VectorHas(q) \subseteq VectorHas(q)'
                       /\ IF q = Undone THEN SearchHas(q) = {op.pre[q], op.new[q]} /\ SearchHas(q)' = {op.pre[q]}
                          ELSE SearchHas(q) \subseteq SearchHas(q)'
         /\ Requeue => /\ SearchHas(q) \subseteq SearchHas(q)'
                       /\ IF q = Undone THEN VectorHas(q) = {op.pre[q], op.new[q]} /\ op.pre[q] \in VectorHas(q)'
                          ELSE VectorHas(q) \subseteq VectorHas(q)'
<1>1. OpTypes
  BY DEF Typed
<1>2. CASE Return
  <2>1. op.pc = "done" /\ op'.pc = "idle" /\ disk' = disk
    BY <1>2 DEF Return, Idle, pages
  <2> QED BY <1>2, <2>1, HasAt, HasAtNext DEF WriteFile, WriteFails, IndexSearch, IndexFile, Commit, CommitFails, Restore, Requeue
<1>3. ASSUME ~ Return PROVE op.pc # "idle" /\ op'.files = op.files /\ op'.pre = op.pre /\ op'.new = op.new
  <2>1. op.pc # "idle"
    BY <1>3 DEF Bulk, WriteFile, WriteFails, IndexSearch, IndexFile, Commit, CommitFails, Restore, Requeue
  <2> QED BY <1>1, <1>3, <2>1, BulkMoves DEF Bulk, Moved
<1> DEFINE n == Len(op.files)
<1>4. ASSUME op.pc # "idle"
      PROVE  /\ op.done \in Nat /\ n \in Nat \ {0} /\ op.done <= n
             /\ ~ Written(op, 0, q) /\ (~ Written(op, n, q) => op.new[q] = op.pre[q])
             /\ op.done < n => (Written(op, op.done + 1, q) <=> (Written(op, op.done, q) \/ q = op.files[op.done + 1]))
             /\ op.done > 0 => /\ Written(op, op.done, q) <=> (Written(op, op.done - 1, q) \/ q = op.files[op.done])
                               /\ ~ Written(op, op.done - 1, op.files[op.done])
  <2>1. op.done \in Nat /\ n \in Nat \ {0} /\ op.done <= n
    BY <1>1, <1>4, FilesFacts
  <2>2. op.done < n => op.done + 1 \in 1 .. n /\ (op.done + 1) - 1 = op.done
    BY <2>1
  <2>3. op.done > 0 => op.done \in 1 .. n
    BY <2>1
  <2> QED BY <1>1, <1>4, <2>1, <2>2, <2>3, WrittenFacts
<1> HIDE DEF n
<1>5. CASE WriteFile
  <2>1. op.pc = "write" /\ op'.pc \in {"write", "search"} /\ op'.pre = op.pre
    BY <1>1, <1>5, BulkMoves DEF WriteFile, Moved
  <2> QED BY <1>5, <2>1, HasAt, HasAtNext DEF WriteFails, IndexSearch, IndexFile, Commit, CommitFails, Restore, Requeue, Return
<1>6. CASE WriteFails
  <2>1. op.pc = "write" /\ op'.pc \in {"restore", "done"} /\ (op'.pc = "done" => op.done = 0) /\ disk' = disk
    BY <1>1, <1>6, BulkMoves DEF WriteFails, Moved, pages
  <2>2. ~ Return
    BY <2>1 DEF Return
  <2>3. disk = Mixed(op, op.done)
    BY <2>1 DEF DiskInv
  <2>4. op.done = 0 => disk[q] = op.pre[q]
    BY <1>4, <2>1, <2>3 DEF Mixed
  <2>5. op.pre[q] \in SearchHas(q)' /\ op.pre[q] \in VectorHas(q)'
    BY <1>3, <2>1, <2>2, <2>4, HasAtNext, PartsMove
  <2> QED BY <1>6, <2>1, <2>5, HasAt DEF IndexSearch, IndexFile, Commit, CommitFails, Restore, Requeue
<1>7. CASE IndexSearch
  <2>1. op.pc = "search" /\ op'.pc = "index" /\ op'.done = 0 /\ asyncIdx' = asyncIdx
    BY <1>1, <1>7, BulkMoves DEF IndexSearch, Moved
  <2>2. ~ Return
    BY <2>1 DEF Return
  <2>3. Partly(q)' = {op.pre[q]}
    BY <1>3, <1>4, <2>1, <2>2, PartsMove
  <2>4. SearchHas(q)' = (IF asyncIdx THEN {op.pre[q]} ELSE {op.new[q]}) /\ VectorHas(q)' = {op.pre[q]}
    BY <1>3, <2>1, <2>2, <2>3, HasAtNext
  <2> QED BY <1>7, <2>1, <2>4, HasAt DEF WriteFile, WriteFails, IndexFile, Commit, CommitFails, Restore, Requeue, Return
<1>8. CASE IndexFile
  <2>1. op.pc = "index" /\ asyncIdx' = asyncIdx /\ op.done < n
    BY <1>8 DEF IndexFile, OpShape, n
  <2>2. ~ Return
    BY <2>1 DEF Return
  <2>3. \/ op.done + 1 = n /\ op'.pc = "commit"
        \/ op'.pc = "index" /\ op'.done = op.done + 1
    BY <1>1, <1>8, BulkMoves DEF Moved, n
  <2>4. Written(op, op.done + 1, q) <=> (Written(op, op.done, q) \/ q = File)
    BY <1>4, <2>1 DEF File
  <2>5. op'.pc = "index" => Partly(q)' = IF Written(op, op.done, q) \/ q = File THEN {op.new[q]} ELSE {op.pre[q]}
    BY <1>3, <2>2, <2>3, <2>4, PartsMove
  <2>6. op'.pc = "commit" /\ ~ Written(op, op.done, q) /\ q # File => op.new[q] = op.pre[q]
    BY <1>4, <2>1, <2>3, <2>4
  <2>7. VectorHas(q) = Partly(q) /\ SearchHas(q) = (IF asyncIdx THEN Partly(q) ELSE {op.new[q]})
    BY <2>1, HasAt
  <2>8. CASE op'.pc = "commit"
    <3>1. SearchHas(q)' = {op.new[q]} /\ VectorHas(q)' = {op.new[q]}
      BY <1>3, <2>2, <2>8, HasAtNext
    <3>2. q # File => Partly(q) = {op.new[q]}
      BY <2>6, <2>8 DEF Partly
    <3> QED BY <1>8, <2>1, <2>7, <3>1, <3>2 DEF WriteFile, WriteFails, IndexSearch, Commit, CommitFails, Restore, Requeue, Return
  <2>9. CASE op'.pc = "index"
    <3>1. VectorHas(q)' = Partly(q)' /\ SearchHas(q)' = (IF asyncIdx THEN Partly(q)' ELSE {op.new[q]})
      BY <1>3, <2>1, <2>2, <2>9, HasAtNext
    <3>2. q # File => Partly(q)' = Partly(q)
      BY <2>5, <2>9 DEF Partly
    <3>3. q = File => Partly(q)' = {op.new[q]}
      BY <2>5, <2>9
    <3> QED BY <1>8, <2>1, <2>7, <3>1, <3>2, <3>3 DEF WriteFile, WriteFails, IndexSearch, Commit, CommitFails, Restore, Requeue, Return
  <2> QED BY <2>3, <2>8, <2>9
<1>9. CASE Commit
  <2>1. op.pc = "commit" /\ op'.pc = "done" /\ disk' = op.new
    BY <1>1, <1>9, BulkMoves DEF Commit, Moved, DiskInv, pages
  <2> QED BY <1>9, <2>1, HasAt, HasAtNext DEF WriteFile, WriteFails, IndexSearch, IndexFile, CommitFails, Restore, Requeue, Return
<1>10. CASE CommitFails
  <2>1. op.pc = "commit" /\ op'.pc = "restore" /\ op'.done = n
    BY <1>1, <1>10, BulkMoves DEF CommitFails, Moved, n
  <2>2. ~ Return
    BY <2>1 DEF Return
  <2>3. op.new[q] \in Undoing(q)'
    BY <1>3, <1>4, <2>1, <2>2, PartsMove
  <2>4. op.new[q] \in SearchHas(q)' /\ op.new[q] \in VectorHas(q)'
    BY <2>1, <2>3, HasAtNext
  <2> QED BY <1>10, <2>1, <2>4, HasAt DEF WriteFile, WriteFails, IndexSearch, IndexFile, Commit, Restore, Requeue, Return
<1>11. CASE Restore
  <2>1. op.pc = "restore" /\ op'.pc = "requeue" /\ op'.done = op.done /\ op.done > 0
    BY <1>1, <1>11, BulkMoves DEF Restore, Moved, OpShape
  <2>2. ~ Return
    BY <2>1 DEF Return
  <2>3. Undoing(q)' = Undoing(q) /\ Undone' = Undone
    BY <1>3, <2>1, <2>2, PartsMove DEF Undoing, Undone
  <2>4. q = Undone => Undoing(q) = {op.pre[q], op.new[q]}
    BY <1>4, <2>1 DEF Undoing, Undone
  <2>5. SearchHas(q) = Undoing(q) /\ VectorHas(q) = Undoing(q)
    BY <2>1, HasAt
  <2>6. SearchHas(q)' = (IF q = Undone THEN {op.pre[q]} ELSE Undoing(q)) /\ VectorHas(q)' = Undoing(q)
    BY <1>3, <2>1, <2>2, <2>3, HasAtNext
  <2> QED BY <1>11, <2>1, <2>4, <2>5, <2>6 DEF WriteFile, WriteFails, IndexSearch, IndexFile, Commit, CommitFails, Requeue, Return
<1>12. CASE Requeue
  <2>1. op.pc = "requeue" /\ op.done > 0 /\ disk' = disk
        /\ \/ op.done = 1 /\ op'.pc = "done"
           \/ op'.pc = "restore" /\ op'.done = op.done - 1
    BY <1>1, <1>12, BulkMoves DEF Requeue, Moved, OpShape, pages
  <2>2. ~ Return
    BY <2>1 DEF Return
  <2>3. /\ Written(op, op.done, q) <=> (Written(op, op.done - 1, q) \/ q = Undone)
        /\ q = Undone => ~ Written(op, op.done - 1, q)
    BY <1>4, <2>1 DEF Undone
  <2>4. SearchHas(q) = (IF q = Undone THEN {op.pre[q]} ELSE Undoing(q)) /\ VectorHas(q) = Undoing(q)
    BY <2>1, HasAt
  <2>5. q = Undone => Undoing(q) = {op.pre[q], op.new[q]}
    BY <2>3 DEF Undoing
  <2>6. CASE op'.pc = "done"
    <3>1. op.done - 1 = 0 /\ disk' = Mixed(op, op.done - 1)
      BY <2>1, <2>6 DEF DiskInv
    <3>2. disk'[q] = op.pre[q] /\ ~ Written(op, op.done - 1, q)
      BY <1>4, <2>1, <3>1 DEF Mixed
    <3>3. q # Undone => Undoing(q) = {op.pre[q]}
      BY <2>3, <3>2 DEF Undoing
    <3>4. SearchHas(q)' = {op.pre[q]} /\ VectorHas(q)' = {op.pre[q]}
      BY <2>6, <3>2, HasAtNext
    <3> QED BY <1>12, <2>1, <2>4, <2>5, <3>3, <3>4 DEF WriteFile, WriteFails, IndexSearch, IndexFile, Commit, CommitFails, Restore, Return
  <2>7. CASE op'.pc = "restore"
    <3>1. Undoing(q)' = IF Written(op, op.done - 1, q) THEN {op.pre[q], op.new[q]} ELSE {op.pre[q]}
      BY <1>3, <2>1, <2>2, <2>7, PartsMove
    <3>2. q # Undone => Undoing(q)' = Undoing(q)
      BY <2>3, <3>1 DEF Undoing
    <3>3. q = Undone => Undoing(q)' = {op.pre[q]}
      BY <2>3, <3>1
    <3>4. SearchHas(q)' = Undoing(q)' /\ VectorHas(q)' = Undoing(q)'
      BY <2>7, HasAtNext
    <3> QED BY <1>12, <2>1, <2>4, <2>5, <3>2, <3>3, <3>4 DEF WriteFile, WriteFails, IndexSearch, IndexFile, Commit, CommitFails, Restore, Return
  <2> QED BY <2>1, <2>6, <2>7
<1> QED BY <1>2, <1>5, <1>6, <1>7, <1>8, <1>9, <1>10, <1>11, <1>12 DEF Bulk

(* Aborted contents stay aborted.                                          *)
LEMMA SpoiltGrows ==
  ASSUME [Next]_vars
  PROVE  asyncIdx' = asyncIdx /\ Spoilt \subseteq Spoilt'
<1>1. asyncIdx' = asyncIdx /\ aborted \subseteq aborted'
  BY DEF Next, Bulk, WritePage, Start, WriteFile, WriteFails, IndexSearch, IndexFile, Commit, CommitFails,
         Restore, Requeue, Return, FlushOne, StackClose, rest, vars
<1> QED BY <1>1 DEF Spoilt

(* Aborted contents stay in what the metadata may be from.                 *)
LEMMA AbortedGrows ==
  ASSUME [Next]_vars
  PROVE  aborted \subseteq aborted'
BY DEF Next, Bulk, WritePage, Start, WriteFile, WriteFails, IndexSearch, IndexFile, Commit, CommitFails,
       Restore, Requeue, Return, FlushOne, StackClose, rest, vars

(* Where the links settle, by stage, and in the next state.                *)
LEMMA LinksAt ==
  ASSUME NEW q \in Paths
  PROVE  /\ op.pc # "index" => LinksHas(q) = SearchHas(q)
         /\ op.pc \notin {"restore", "requeue"} /\ op.pc \in Stages \union {"idle"} => LinksHas(q) = VectorHas(q)
         /\ op'.pc # "index" => LinksHas(q)' = SearchHas(q)'
         /\ op'.pc \notin {"restore", "requeue"} /\ op'.pc \in Stages \union {"idle"} => LinksHas(q)' = VectorHas(q)'
<1>1. /\ op.pc = "index" => LinksHas(q) = Partly(q)
      /\ op.pc # "index" => LinksHas(q) = SearchHas(q)
  BY DEF LinksHas
<1>2. /\ op'.pc = "index" => LinksHas(q)' = Partly(q)'
      /\ op'.pc # "index" => LinksHas(q)' = SearchHas(q)'
  BY DEF LinksHas
<1>3. op.pc \notin {"restore", "requeue"} /\ op.pc \in Stages \union {"idle"} => LinksHas(q) = VectorHas(q)
  BY <1>1, HasAt DEF Stages
<1>4. op'.pc \notin {"restore", "requeue"} /\ op'.pc \in Stages \union {"idle"} => LinksHas(q)' = VectorHas(q)'
  BY <1>2, HasAtNext DEF Stages
<1> QED BY <1>1, <1>2, <1>3, <1>4

(* What the search settles in with an AsyncIndexer, where all tables are   *)
(* written from its requests, the others may settle in.                    *)
LEMMA AsyncOk ==
  ASSUME asyncIdx, Typed, NEW q \in Paths
  PROVE  SearchOk(q) \subseteq LinksOk(q) /\ SearchOk(q) \subseteq MetaOk(q)
<1>1. op.pc \in Stages \union {"idle"}
  BY DEF Typed, OpTypes, Ops
<1>2. SearchHas(q) \subseteq LinksHas(q)
  BY <1>1, HasAt, LinksAt
<1>3. op.pc = "requeue" => op.pre[q] \in Undoing(q)
  BY DEF Undoing
<1>4. SearchHas(q) \subseteq VectorHas(q)
  BY <1>1, <1>3, HasAt DEF Stages
<1> QED BY <1>2, <1>4 DEF SearchOk, LinksOk, MetaOk, Spoilt

(* Where the steps of a bulk write leave the sets of links and metadata.   *)
LEMMA BulkOk ==
  ASSUME Typed, OpShape, DiskInv, Bulk, [Next]_vars, NEW q \in Paths
  PROVE  /\ WriteFile \/ WriteFails \/ Commit \/ CommitFails \/ Return \/ Requeue \/ Restore \/ IndexSearch
              \/ (IndexFile /\ q # File) => MetaOk(q) \subseteq MetaOk(q)'
         /\ WriteFile \/ WriteFails \/ Commit \/ CommitFails \/ Return \/ Requeue \/ IndexSearch
              \/ (IndexFile /\ q # File) \/ (Restore /\ q # Undone) => LinksOk(q) \subseteq LinksOk(q)'
         /\ IndexFile /\ q = File => op.new[q] \in LinksOk(q)' /\ op.new[q] \in MetaOk(q)'
         /\ Restore /\ q = Undone => op.pre[q] \in LinksOk(q)' /\ op.pre[q] \in SearchOk(q)' /\ op.pre[q] \in MetaOk(q)'
<1>1. aborted \subseteq aborted' /\ Spoilt \subseteq Spoilt'
  BY AbortedGrows, SpoiltGrows
<1>2. /\ VectorHas(q) \subseteq VectorHas(q)' => MetaOk(q) \subseteq MetaOk(q)'
      /\ LinksHas(q) \subseteq LinksHas(q)' => LinksOk(q) \subseteq LinksOk(q)'
  BY <1>1 DEF MetaOk, LinksOk
<1>3. op.pc \in Stages \union {"idle"}
  BY DEF Typed, OpTypes, Ops
<1>4. CASE WriteFile \/ WriteFails \/ Commit \/ CommitFails \/ Return
  <2>1. op.pc # "index" /\ op'.pc # "index"
    BY <1>4, BulkMoves DEF WriteFile, WriteFails, Commit, CommitFails, Return, Idle, Typed, Moved
  <2>2. SearchHas(q) \subseteq SearchHas(q)' /\ VectorHas(q) \subseteq VectorHas(q)'
    BY <1>4, BulkHas
  <2>3. MetaOk(q) \subseteq MetaOk(q)' /\ LinksOk(q) \subseteq LinksOk(q)'
    BY <1>2, <2>1, <2>2, LinksAt
  <2>4. ~ Restore /\ ~ IndexFile
    BY <1>4 DEF WriteFile, WriteFails, Commit, CommitFails, Return, Restore, IndexFile
  <2> QED BY <2>3, <2>4
<1>5. CASE IndexSearch
  <2>1. op.pc = "search" /\ op'.pc = "index"
    BY <1>5, BulkMoves DEF IndexSearch, Typed, Moved
  <2>2. VectorHas(q) \subseteq VectorHas(q)'
    BY <1>5, BulkHas
  <2>3. LinksHas(q) = VectorHas(q) /\ LinksHas(q)' = VectorHas(q)'
    BY <2>1, LinksAt DEF Stages
  <2>4. ~ Restore /\ ~ IndexFile
    BY <2>1 DEF Restore, IndexFile
  <2> QED BY <1>2, <2>2, <2>3, <2>4
<1>6. CASE IndexFile
  <2>1. op.pc = "index" /\ op'.pc \in {"index", "commit"}
    BY <1>6, BulkMoves DEF IndexFile, Typed, Moved
  <2>2. LinksHas(q) = VectorHas(q) /\ LinksHas(q)' = VectorHas(q)'
    BY <2>1, LinksAt DEF Stages
  <2>3. IF q = File THEN op.new[q] \in VectorHas(q)' ELSE VectorHas(q) \subseteq VectorHas(q)'
    BY <1>6, BulkHas
  <2>4. /\ ~ Restore /\ ~ WriteFile /\ ~ WriteFails /\ ~ Commit /\ ~ CommitFails /\ ~ Return /\ ~ Requeue
        /\ ~ IndexSearch
    BY <2>1 DEF Restore, WriteFile, WriteFails, Commit, CommitFails, Return, Requeue, IndexSearch
  <2> QED BY <1>2, <2>2, <2>3, <2>4 DEF LinksOk, MetaOk
<1>7. CASE Restore
  <2>1. op.pc = "restore" /\ op'.pc = "requeue"
    BY <1>7, BulkMoves DEF Restore, Typed, Moved
  <2>2. LinksHas(q) = SearchHas(q) /\ LinksHas(q)' = SearchHas(q)'
    BY <2>1, LinksAt
  <2>3. VectorHas(q) \subseteq VectorHas(q)'
    BY <1>7, BulkHas
  <2>4. IF q = Undone THEN SearchHas(q)' = {op.pre[q]} ELSE SearchHas(q) \subseteq SearchHas(q)'
    BY <1>7, BulkHas
  <2>5. /\ ~ IndexFile /\ ~ WriteFile /\ ~ WriteFails /\ ~ Commit /\ ~ CommitFails /\ ~ Return /\ ~ Requeue
        /\ ~ IndexSearch
    BY <2>1 DEF IndexFile, WriteFile, WriteFails, Commit, CommitFails, Return, Requeue, IndexSearch
  <2>6. op.pre[q] \in MetaOk(q)'
    <3>1. op.pre[q] \in VectorHas(q)
      BY <2>1, HasAt DEF Undoing
    <3> QED BY <2>3, <3>1 DEF MetaOk
  <2> QED BY <1>2, <2>2, <2>3, <2>4, <2>5, <2>6 DEF LinksOk, SearchOk
<1>8. CASE Requeue
  <2>1. op.pc = "requeue" /\ op'.pc \in {"restore", "done"}
    BY <1>8, BulkMoves DEF Requeue, Typed, Moved
  <2>2. LinksHas(q) = SearchHas(q) /\ LinksHas(q)' = SearchHas(q)' /\ SearchHas(q) \subseteq SearchHas(q)'
    BY <1>8, <2>1, LinksAt, BulkHas
  <2>3. IF q = Undone THEN VectorHas(q) = {op.pre[q], op.new[q]} /\ op.pre[q] \in VectorHas(q)'
        ELSE VectorHas(q) \subseteq VectorHas(q)'
    BY <1>8, BulkHas
  <2>4. op.new[Undone] \in aborted
    BY <2>1 DEF OpShape
  <2>5. MetaOk(q) \subseteq MetaOk(q)'
    BY <1>1, <1>2, <2>3, <2>4 DEF MetaOk
  <2>6. ~ Restore /\ ~ IndexFile
    BY <2>1 DEF Restore, IndexFile
  <2> QED BY <1>2, <2>2, <2>5, <2>6
<1> QED BY <1>4, <1>5, <1>6, <1>7, <1>8 DEF Bulk

(* Steps that leave the request, the pages and the aborted contents alone. *)
LEMMA OkStays ==
  ASSUME UNCHANGED <<op, disk, asyncIdx, aborted>>, NEW q \in Paths
  PROVE  /\ SearchOk(q)' = SearchOk(q) /\ VectorOk(q)' = VectorOk(q)
         /\ LinksOk(q)' = LinksOk(q) /\ MetaOk(q)' = MetaOk(q)
<1>1. SearchHas(q)' = SearchHas(q) /\ VectorHas(q)' = VectorHas(q) /\ Partly(q)' = Partly(q) /\ Spoilt' = Spoilt
  BY DEF SearchHas, VectorHas, Spoilt, Partly, Undoing, Written, Undone
<1> QED BY <1>1 DEF SearchOk, VectorOk, LinksOk, MetaOk, LinksHas

(* A write of one page, and the start of a bulk write.                     *)
LEMMA WriteOk ==
  ASSUME Typed, NEW q \in Paths
  PROVE  /\ \A p \in Paths : WritePage(p) => IF q = p THEN clock + 1 \in SearchOk(q)' /\ clock + 1 \in VectorOk(q)'
                                             ELSE SearchOk(q)' = SearchOk(q) /\ VectorOk(q)' = VectorOk(q)
         /\ \A files \in Batches : IsInjective(files) /\ Start(files) =>
              SearchOk(q)' = SearchOk(q) /\ VectorOk(q)' = VectorOk(q)
<1>1. ASSUME NEW p \in Paths, WritePage(p)
      PROVE  IF q = p THEN clock + 1 \in SearchOk(q)' /\ clock + 1 \in VectorOk(q)'
             ELSE SearchOk(q)' = SearchOk(q) /\ VectorOk(q)' = VectorOk(q)
  <2>1. op.pc = "idle" /\ op'.pc = "idle" /\ disk' = [disk EXCEPT ![p] = clock + 1] /\ UNCHANGED <<asyncIdx, aborted>>
    BY <1>1 DEF WritePage, Idle
  <2>2. SearchHas(q) = {disk[q]} /\ VectorHas(q) = {disk[q]} /\ SearchHas(q)' = {disk'[q]} /\ VectorHas(q)' = {disk'[q]}
    BY <2>1, HasAt, HasAtNext
  <2>3. disk'[q] = IF q = p THEN clock + 1 ELSE disk[q]
    BY <2>1 DEF Typed, PageTypes, Contents
  <2> QED BY <2>1, <2>2, <2>3 DEF SearchOk, VectorOk, Spoilt
<1>2. ASSUME NEW files \in Batches, IsInjective(files), Start(files)
      PROVE  SearchOk(q)' = SearchOk(q) /\ VectorOk(q)' = VectorOk(q)
  <2>1. op.pc = "idle" /\ op'.pc = "write" /\ op'.pre = disk /\ UNCHANGED <<asyncIdx, aborted>>
    BY <1>2, StartFacts DEF Start
  <2>2. SearchHas(q) = {disk[q]} /\ VectorHas(q) = {disk[q]} /\ SearchHas(q)' = {disk[q]} /\ VectorHas(q)' = {disk[q]}
    BY <2>1, HasAt, HasAtNext
  <2> QED BY <2>1, <2>2 DEF SearchOk, VectorOk, Spoilt
<1> QED BY <1>1, <1>2

(* The same for links and metadata.                                        *)
LEMMA WriteTablesOk ==
  ASSUME Typed, NEW q \in Paths
  PROVE  /\ \A p \in Paths : WritePage(p) => IF q = p THEN clock + 1 \in LinksOk(q)' /\ clock + 1 \in MetaOk(q)'
                                             ELSE LinksOk(q)' = LinksOk(q) /\ MetaOk(q)' = MetaOk(q)
         /\ \A files \in Batches : IsInjective(files) /\ Start(files) =>
              LinksOk(q)' = LinksOk(q) /\ MetaOk(q)' = MetaOk(q)
<1>1. ASSUME NEW p \in Paths, WritePage(p)
      PROVE  IF q = p THEN clock + 1 \in LinksOk(q)' /\ clock + 1 \in MetaOk(q)'
             ELSE LinksOk(q)' = LinksOk(q) /\ MetaOk(q)' = MetaOk(q)
  <2>1. op.pc = "idle" /\ op'.pc = "idle" /\ disk' = [disk EXCEPT ![p] = clock + 1] /\ UNCHANGED <<asyncIdx, aborted>>
    BY <1>1 DEF WritePage, Idle
  <2>2. LinksHas(q) = {disk[q]} /\ VectorHas(q) = {disk[q]} /\ LinksHas(q)' = {disk'[q]} /\ VectorHas(q)' = {disk'[q]}
    BY <2>1, HasAt, HasAtNext, LinksAt
  <2>3. disk'[q] = IF q = p THEN clock + 1 ELSE disk[q]
    BY <2>1 DEF Typed, PageTypes, Contents
  <2> QED BY <2>1, <2>2, <2>3 DEF LinksOk, MetaOk, Spoilt
<1>2. ASSUME NEW files \in Batches, IsInjective(files), Start(files)
      PROVE  LinksOk(q)' = LinksOk(q) /\ MetaOk(q)' = MetaOk(q)
  <2>1. op.pc = "idle" /\ op'.pc = "write" /\ op'.pre = disk /\ UNCHANGED <<asyncIdx, aborted>>
    BY <1>2, StartFacts DEF Start
  <2>2. LinksHas(q) = {disk[q]} /\ VectorHas(q) = {disk[q]} /\ LinksHas(q)' = {disk[q]} /\ VectorHas(q)' = {disk[q]}
    BY <2>1, HasAt, HasAtNext, LinksAt
  <2> QED BY <2>1, <2>2 DEF LinksOk, MetaOk, Spoilt
<1> QED BY <1>1, <1>2

(* Tables of pages that show a content, or show it as far as some calls    *)
(* go, settle in it.                                                       *)
LEMMA HoldsFacts ==
  ASSUME NEW e, NEW c, NEW s, NEW l, NEW m
  PROVE  /\ Shows(e, c) /\ c \in s /\ c \in l /\ c \in m => Holds(e, s, l, m)
         /\ Shows(Reindexed(e, c, Calls \ Calls), c)
         /\ (\E d \in s : Found(e, d)) /\ c \in l /\ c \in m =>
               Holds(Reindexed(e, c, Calls \ {"links", "meta"}), s, l, m)
         /\ c \in s /\ c \in l /\ e.meta \in m => Holds(Reindexed(e, c, Calls \ {"search", "links"}), s, l, m)
         /\ c \in s /\ e.links \in l /\ e.meta \in m => Holds(Reindexed(e, c, Calls \ {"search"}), s, l, m)
<1>1. Shows(e, c) /\ c \in s /\ c \in l /\ c \in m => Holds(e, s, l, m)
  BY DEF Shows, Holds
<1>2. Shows(Reindexed(e, c, Calls \ Calls), c)
  BY DEF Shows, Found, Reindexed, Calls
<1>3. ASSUME NEW d \in s, Found(e, d), c \in l, c \in m
      PROVE  Holds(Reindexed(e, c, Calls \ {"links", "meta"}), s, l, m)
  <2>1. PICK x : x = Reindexed(e, c, Calls \ {"links", "meta"})
    OBVIOUS
  <2>2. x.row = e.row /\ x.words = e.words /\ x.links = c /\ x.meta = c
    BY <2>1 DEF Reindexed, Calls
  <2>3. Found(x, d)
    BY <1>3, <2>2 DEF Found
  <2> QED BY <1>3, <2>1, <2>2, <2>3 DEF Holds
<1>4. ASSUME c \in s, c \in l, e.meta \in m
      PROVE  Holds(Reindexed(e, c, Calls \ {"search", "links"}), s, l, m)
  <2>1. PICK x : x = Reindexed(e, c, Calls \ {"search", "links"})
    OBVIOUS
  <2>2. (x.row <=> c # 0) /\ x.words = e.words \union ({c} \ {0}) /\ x.links = c /\ x.meta = e.meta
    BY <2>1 DEF Reindexed, Calls
  <2>3. Found(x, c)
    BY <2>2 DEF Found
  <2> QED BY <1>4, <2>1, <2>2, <2>3 DEF Holds
<1>5. ASSUME c \in s, e.links \in l, e.meta \in m
      PROVE  Holds(Reindexed(e, c, Calls \ {"search"}), s, l, m)
  <2>1. PICK x : x = Reindexed(e, c, Calls \ {"search"})
    OBVIOUS
  <2>2. (x.row <=> c # 0) /\ x.words = e.words \union ({c} \ {0}) /\ x.links = e.links /\ x.meta = e.meta
    BY <2>1 DEF Reindexed, Calls
  <2>3. Found(x, c)
    BY <2>2 DEF Found
  <2> QED BY <1>5, <2>1, <2>2, <2>3 DEF Holds
<1> QED BY <1>1, <1>2, <1>3, <1>4, <1>5

(* A page all of whose calls were due.                                     *)
LEMMA IndexedWhole ==
  ASSUME PageTypes, NEW p \in Paths, NEW c \in Content, Indexes(p, c, Calls)
  PROVE  p \in unindexed' \/ Shows(index'[p], c)
<1>1. PICK x, e : x = index'[p] /\ e = index[p]
  OBVIOUS
<1>2. PICK y : y = Reindexed(e, c, Calls \ Calls)
  OBVIOUS
<1>3. Shows(y, c)
  BY <1>2, HoldsFacts
<1>4. p \in unindexed' \/ Shows(x, c) \/ x = y
  BY <1>1, <1>2, IndexesFacts
<1> QED BY <1>1, <1>3, <1>4

(* Every step keeps where the search tables will end up.                   *)
LEMMA StepSearch ==
  ASSUME Typed, OpShape, DiskInv, ModeInv, SearchInv, [Next]_vars
  PROVE  SearchInv'
<1> DEFINE Goal(q) == \E s, l, m : /\ IndexSettles(q, s, l, m)' /\ s \subseteq SearchOk(q)'
                                   /\ l \subseteq LinksOk(q)' /\ m \subseteq MetaOk(q)'
<1>1. asyncIdx' = asyncIdx /\ Spoilt \subseteq Spoilt'
  BY SpoiltGrows
<1>2. PageTypes /\ OpTypes /\ (~ asyncIdx => pending = <<>>)
  BY DEF Typed, ModeInv
<1>3. ASSUME NEW q \in Paths, NEW s, NEW l, NEW m, s = SearchOk(q), l = LinksOk(q), m = MetaOk(q)
      PROVE  LastPending(q, s) /\ (NonePending(q) => q \in unindexed \/ Holds(index[q], s, l, m))
  BY <1>3 DEF SearchInv, IndexSettles
<1>4. \A q \in Paths : SearchHas(q) \subseteq SearchHas(q)' => SearchOk(q) \subseteq SearchOk(q)'
  BY <1>1 DEF SearchOk
(* A page whose tables are as before, and whose sets grow.                 *)
<1>5. ASSUME NEW q \in Paths, index'[q] = index[q], q \in unindexed => q \in unindexed', NonePending(q)' => NonePending(q),
             \A s : LastPending(q, s) => LastPending(q, s)',
             SearchOk(q) \subseteq SearchOk(q)', LinksOk(q) \subseteq LinksOk(q)', MetaOk(q) \subseteq MetaOk(q)'
      PROVE  Goal(q)
  <2>1. PICK s, l, m : s = SearchOk(q) /\ l = LinksOk(q) /\ m = MetaOk(q)
    OBVIOUS
  <2>2. LastPending(q, s)' /\ (NonePending(q)' => q \in unindexed' \/ Holds(index'[q], s, l, m))
    BY <1>3, <1>5, <2>1
  <2>3. IndexSettles(q, s, l, m)'
    BY <2>2 DEF IndexSettles, Holds
  <2> QED BY <1>5, <2>1, <2>3
(* A page that settles in one content.                                     *)
<1>6. ASSUME NEW q \in Paths, NEW c, LastPending(q, {c})', NonePending(q)' => q \in unindexed' \/ Shows(index'[q], c),
             c \in SearchOk(q)', c \in LinksOk(q)', c \in MetaOk(q)'
      PROVE  Goal(q)
  <2>1. PICK s : s = {c}
    OBVIOUS
  <2>2. NonePending(q)' => q \in unindexed' \/ Holds(index'[q], s, s, s)
    BY <1>6, <2>1, HoldsFacts
  <2>3. IndexSettles(q, s, s, s)'
    BY <1>6, <2>1, <2>2 DEF IndexSettles, Holds
  <2> QED BY <1>6, <2>1, <2>3
<1> HIDE DEF Goal
<1>7. ASSUME \A q \in Paths : Goal(q) PROVE SearchInv'
  BY <1>7, SearchSteps DEF Goal
<1>8. CASE UNCHANGED <<op, disk, asyncIdx, aborted, pending, index, unindexed>>
  BY <1>8, OkStays, SearchStays
<1>9. ASSUME NEW p \in Paths, WritePage(p) PROVE SearchInv'
  <2>1. PICK c : c = clock + 1
    OBVIOUS
  <2>2. clock + 1 \in Content
    BY <1>2, <1>9, BulkAssumption DEF WritePage, Content, PageTypes
  <2>3. ASSUME NEW q \in Paths PROVE Goal(q)
    <3>1. IF q = p THEN c \in SearchOk(q)' /\ c \in LinksOk(q)' /\ c \in MetaOk(q)'
          ELSE SearchOk(q)' = SearchOk(q) /\ LinksOk(q)' = LinksOk(q) /\ MetaOk(q)' = MetaOk(q)
      BY <1>9, <2>1, WriteOk, WriteTablesOk
    <3>2. CASE asyncIdx
      <4>1. Enqueue(p, c) /\ UNCHANGED <<index, unindexed>>
        BY <1>9, <2>1, <3>2 DEF WritePage, tables
      <4>2. CASE q = p
        <5>1. LastPending(q, {c})' /\ ~ NonePending(q)'
          BY <1>2, <4>1, <4>2, EnqueueFacts
        <5> QED BY <1>6, <3>1, <4>2, <5>1
      <4>3. CASE q # p
        <5>1. (\A s : LastPending(q, s) => LastPending(q, s)') /\ (NonePending(q)' => NonePending(q))
          BY <1>2, <4>1, <4>3, EnqueueFacts
        <5> QED BY <1>5, <3>1, <4>1, <4>3, <5>1
      <4> QED BY <4>2, <4>3
    <3>3. CASE ~ asyncIdx
      <4>1. pending' = <<>> /\ pending = <<>> /\ Indexes(p, c, Calls)
        BY <1>2, <1>9, <2>1, <3>3 DEF WritePage
      <4>2. (\A s : LastPending(q, s)') /\ NonePending(q)
        BY <4>1 DEF LastPending, NonePending
      <4>3. CASE q = p
        <5>1. p \in unindexed' \/ Shows(index'[p], c)
          BY <1>2, <2>1, <2>2, <4>1, IndexedWhole
        <5> QED BY <1>6, <3>1, <4>2, <4>3, <5>1
      <4>4. CASE q # p
        <5>1. index'[q] = index[q] /\ (q \in unindexed => q \in unindexed')
          BY <1>2, <2>1, <2>2, <4>1, <4>4, IndexesFacts
        <5> QED BY <1>5, <3>1, <4>2, <4>4, <5>1
      <4> QED BY <4>3, <4>4
    <3> QED BY <3>2, <3>3
  <2> QED BY <1>7, <2>3
<1>10. ASSUME NEW files \in Batches, IsInjective(files), Start(files) PROVE SearchInv'
  <2>1. UNCHANGED <<pending, index, unindexed>>
    BY <1>10 DEF Start, tables
  <2>2. \A q \in Paths : SearchOk(q)' = SearchOk(q) /\ LinksOk(q)' = LinksOk(q) /\ MetaOk(q)' = MetaOk(q)
    BY <1>10, WriteOk, WriteTablesOk
  <2> QED BY <2>1, <2>2, SearchStays
<1>11. CASE FlushOne
  <2>1. PICK p, c : p = Head(pending).path /\ c = Head(pending).stamp
    OBVIOUS
  <2>2. /\ pending # <<>> /\ pending' = Tail(pending) /\ UNCHANGED <<op, disk, asyncIdx, aborted>>
        /\ Indexes(p, c, Calls) /\ p \in Paths /\ c \in Content
    BY <1>2, <1>11, <2>1, PendingTypes DEF FlushOne, pages
  <2>3. ASSUME NEW q \in Paths PROVE Goal(q)
    <3>1. SearchOk(q)' = SearchOk(q) /\ LinksOk(q)' = LinksOk(q) /\ MetaOk(q)' = MetaOk(q)
      BY <2>2, OkStays
    <3>2. PICK s, l, m : s = SearchOk(q) /\ l = LinksOk(q) /\ m = MetaOk(q)
      OBVIOUS
    <3>3. LastPending(q, s)'
      BY <1>2, <1>3, <2>2, <3>2, DequeueFacts
    <3>4. ASSUME NonePending(q)' PROVE q \in unindexed' \/ Holds(index'[q], s, l, m)
      <4>1. CASE q = p
        <5>1. c \in s
          BY <1>2, <1>3, <2>1, <2>2, <3>2, <3>4, <4>1, DequeueFacts
        <5>2. c \in l /\ c \in m
          BY <1>2, <2>2, <3>2, <5>1, AsyncOk
        <5>3. p \in unindexed' \/ Shows(index'[p], c)
          BY <1>2, <2>2, IndexedWhole
        <5> QED BY <4>1, <5>1, <5>2, <5>3, HoldsFacts
      <4>2. CASE q # p
        <5>1. NonePending(q)
          BY <1>2, <2>1, <2>2, <3>4, <4>2, DequeueFacts
        <5>2. index'[q] = index[q] /\ (q \in unindexed => q \in unindexed')
          BY <1>2, <2>2, <4>2, IndexesFacts
        <5> QED BY <1>3, <3>2, <5>1, <5>2
      <4> QED BY <4>1, <4>2
    <3>5. IndexSettles(q, s, l, m)'
      BY <3>3, <3>4 DEF IndexSettles, Holds
    <3> QED BY <3>1, <3>2, <3>5 DEF Goal
  <2> QED BY <1>7, <2>3
<1>12. CASE WriteFile \/ WriteFails \/ Commit \/ CommitFails \/ Return \/ Requeue
  <2>1. UNCHANGED <<pending, index, unindexed>>
    BY <1>12 DEF WriteFile, WriteFails, Commit, CommitFails, Return, Requeue, tables
  <2>2. \A q \in Paths : SearchHas(q) \subseteq SearchHas(q)' /\ LinksOk(q) \subseteq LinksOk(q)' /\ MetaOk(q) \subseteq MetaOk(q)'
    BY <1>12, BulkHas, BulkOk DEF Bulk
  <2> QED BY <1>4, <2>1, <2>2, SearchStays
<1>13. CASE IndexSearch
  <2>1. ASSUME NEW q \in Paths PROVE Goal(q)
    <3>1. pending' = pending /\ SearchHas(q) = {op.pre[q]} /\ SearchHas(q)' = IF asyncIdx THEN {op.pre[q]} ELSE {op.new[q]}
      BY <1>13, BulkHas DEF IndexSearch, Bulk
    <3>2. LinksOk(q) \subseteq LinksOk(q)' /\ MetaOk(q) \subseteq MetaOk(q)'
      BY <1>13, BulkOk DEF Bulk
    <3>3. (\A s : LastPending(q, s) => LastPending(q, s)') /\ (NonePending(q)' => NonePending(q))
      BY <3>1 DEF LastPending, NonePending
    <3>4. CASE asyncIdx
      <4>1. UNCHANGED <<index, unindexed>>
        BY <1>13, <3>4 DEF IndexSearch, tables
      <4> QED BY <1>4, <1>5, <3>1, <3>2, <3>3, <3>4, <4>1
    <3>5. CASE ~ asyncIdx
      <4>1. PICK s, l, m : s = SearchOk(q) /\ l = LinksOk(q) /\ m = MetaOk(q)
        OBVIOUS
      <4>2. pending = <<>> /\ NonePending(q) /\ s = {op.pre[q]}
        BY <1>2, <3>1, <3>5, <4>1 DEF SearchOk, Spoilt, NonePending
      <4>3. q \in unindexed \/ Holds(index[q], s, l, m)
        BY <1>3, <4>1, <4>2
      <4>4. PICK n : n = {op.new[q]}
        OBVIOUS
      <4>5. n \subseteq SearchOk(q)'
        BY <3>1, <3>5, <4>4 DEF SearchOk
      <4>6. \A x : LastPending(q, x)'
        BY <3>1, <4>2 DEF LastPending
      <4>7. op.files \in Seq(Paths) /\ op.pc = "search"
        BY <1>2, <1>13 DEF IndexSearch, OpTypes, Ops
      <4>8. ~ Contains(op.files, q) => op.new[q] = op.pre[q]
        BY <4>7 DEF OpShape, Contains
      <4>9. q \in unindexed' \/ Holds(index'[q], n, l, m)
        <5>1. CASE index' = Batched /\ unindexed' = unindexed
          <6>1. CASE Contains(op.files, q)
            <7>1. index'[q] = Reindexed(index[q], op.new[q], Calls \ {"search"})
              BY <5>1, <6>1 DEF Batched
            <7>2. q \in unindexed \/ (index[q].links \in l /\ index[q].meta \in m)
              BY <4>3 DEF Holds
            <7> QED BY <4>4, <5>1, <7>1, <7>2, HoldsFacts
          <6>2. CASE ~ Contains(op.files, q)
            <7>1. index'[q] = index[q] /\ n = s
              BY <4>2, <4>4, <4>8, <5>1, <6>2 DEF Batched
            <7> QED BY <4>3, <5>1, <7>1
          <6> QED BY <6>1, <6>2
        <5>2. CASE index' = index /\ unindexed' = unindexed \union ToSet(op.files)
          <6>1. CASE Contains(op.files, q)
            BY <5>2, <6>1 DEF Contains, ToSet
          <6>2. CASE ~ Contains(op.files, q)
            BY <4>2, <4>3, <4>4, <4>8, <5>2, <6>2
          <6> QED BY <6>1, <6>2
        <5> QED BY <1>13, <3>5, <5>1, <5>2 DEF IndexSearch
      <4>10. IndexSettles(q, n, l, m)'
        BY <4>6, <4>9 DEF IndexSettles, Holds
      <4> QED BY <3>2, <4>1, <4>5, <4>10 DEF Goal
    <3> QED BY <3>4, <3>5
  <2> QED BY <1>7, <2>1
<1>14. CASE IndexFile
  <2>1. PICK p, c : p = File /\ c = op.new[File]
    OBVIOUS
  <2>2. p \in Paths /\ c \in Content
    BY <1>2, <1>14, <2>1, FilesFacts DEF IndexFile, OpTypes, Ops, Contents
  <2>3. ASSUME NEW q \in Paths PROVE Goal(q)
    <3>1. /\ IF q = p THEN c \in SearchHas(q)' ELSE SearchHas(q) \subseteq SearchHas(q)'
          /\ ~ asyncIdx => SearchHas(q) \subseteq SearchHas(q)'
      BY <1>14, <2>1, BulkHas DEF Bulk
    <3>2. IF q = p THEN c \in LinksOk(q)' /\ c \in MetaOk(q)'
          ELSE LinksOk(q) \subseteq LinksOk(q)' /\ MetaOk(q) \subseteq MetaOk(q)'
      BY <1>14, <2>1, BulkOk DEF Bulk
    <3>3. IF q = p THEN c \in SearchOk(q)' ELSE SearchOk(q) \subseteq SearchOk(q)'
      BY <1>4, <3>1 DEF SearchOk
    <3>4. CASE asyncIdx
      <4>1. Enqueue(p, c) /\ UNCHANGED <<index, unindexed>>
        BY <1>14, <2>1, <3>4 DEF IndexFile, tables
      <4>2. CASE q = p
        <5>1. LastPending(q, {c})' /\ ~ NonePending(q)'
          BY <1>2, <2>2, <4>1, <4>2, EnqueueFacts
        <5> QED BY <1>6, <3>2, <3>3, <4>2, <5>1
      <4>3. CASE q # p
        <5>1. (\A s : LastPending(q, s) => LastPending(q, s)') /\ (NonePending(q)' => NonePending(q))
          BY <1>2, <2>2, <4>1, <4>3, EnqueueFacts
        <5> QED BY <1>5, <3>2, <3>3, <4>1, <4>3, <5>1
      <4> QED BY <4>2, <4>3
    <3>5. CASE ~ asyncIdx
      <4>1. pending' = <<>> /\ pending = <<>> /\ Indexes(p, c, {"links", "meta"})
        BY <1>2, <1>14, <2>1, <3>5 DEF IndexFile
      <4>2. (\A s : LastPending(q, s)') /\ NonePending(q)
        BY <4>1 DEF LastPending, NonePending
      <4>3. CASE q = p
        <5>1. PICK s, l, m : s = SearchOk(q) /\ l = LinksOk(q) /\ m = MetaOk(q)
          OBVIOUS
        <5>2. q \in unindexed \/ Holds(index[q], s, l, m)
          BY <1>3, <4>2, <5>1
        <5>3. s \subseteq SearchOk(q)'
          BY <1>4, <3>1, <3>5, <5>1
        <5>4. PICK n : n = {c}
          OBVIOUS
        <5>5. CASE Shows(index'[p], c)
          BY <1>6, <3>2, <3>3, <4>2, <4>3, <5>5
        <5>6. CASE p \in unindexed' \/ (p \notin unindexed /\ index'[p] = Reindexed(index[p], c, Calls \ {"links", "meta"}))
          <6>1. q \in unindexed' \/ Holds(index'[q], s, n, n)
            <7>1. PICK e, x : e = index[p] /\ x = index'[p]
              OBVIOUS
            <7>2. PICK y : y = Reindexed(e, c, Calls \ {"links", "meta"})
              OBVIOUS
            <7>3. Holds(e, s, l, m) => Holds(y, s, n, n)
              <8>1. c \in n
                BY <5>4
              <8>2. Holds(e, s, l, m) => \E d \in s : Found(e, d)
                BY DEF Holds
              <8>3. (\E d \in s : Found(e, d)) => Holds(y, s, n, n)
                BY <7>2, <8>1, HoldsFacts
              <8> QED BY <8>2, <8>3
            <7> QED BY <4>3, <5>2, <5>6, <7>1, <7>2, <7>3
          <6>2. IndexSettles(q, s, n, n)'
            BY <4>2, <6>1 DEF IndexSettles, Holds
          <6>3. n \subseteq LinksOk(q)' /\ n \subseteq MetaOk(q)'
            BY <3>2, <4>3, <5>4
          <6> QED BY <5>3, <6>2, <6>3 DEF Goal
        <5> QED BY <1>2, <2>2, <4>1, <5>5, <5>6, IndexesFacts
      <4>4. CASE q # p
        <5>1. index'[q] = index[q] /\ (q \in unindexed => q \in unindexed')
          BY <1>2, <2>2, <4>1, <4>4, IndexesFacts
        <5> QED BY <1>5, <3>2, <3>3, <4>2, <4>4, <5>1
      <4> QED BY <4>3, <4>4
    <3> QED BY <3>4, <3>5
  <2> QED BY <1>7, <2>3
<1>15. CASE Restore
  <2>1. PICK p, c : p = Undone /\ c = op.pre[Undone]
    OBVIOUS
  <2>2. p \in Paths /\ c \in Content /\ pending' = pending /\ Indexes(p, c, {"search", "links"})
    BY <1>2, <1>15, <2>1, FilesFacts DEF Restore, RestoreIndex, OpTypes, Ops, Contents
  <2>3. ASSUME NEW q \in Paths PROVE Goal(q)
    <3>1. MetaOk(q) \subseteq MetaOk(q)'
      BY <1>15, BulkOk DEF Bulk
    <3>2. (\A s : LastPending(q, s) => LastPending(q, s)') /\ (NonePending(q)' => NonePending(q))
      BY <2>2 DEF LastPending, NonePending
    <3>3. CASE q = p
      <4>1. c \in SearchOk(q)' /\ c \in LinksOk(q)'
        BY <1>15, <2>1, <3>3, BulkOk DEF Bulk
      <4>2. PICK s, l, m : s = SearchOk(q) /\ l = LinksOk(q) /\ m = MetaOk(q)
        OBVIOUS
      <4>6. PICK t, k, e : t = SearchOk(q)' /\ k = LinksOk(q)' /\ e = MetaOk(q)'
        OBVIOUS
      <4>3. LastPending(q, s)' /\ (NonePending(q)' => q \in unindexed \/ Holds(index[q], s, l, m))
        BY <1>3, <3>2, <4>2
      <4>4. c \in SearchHas(q)' /\ SearchHas(q) = {op.pre[q], op.new[q]} /\ aborted' = aborted \union {op.new[q]}
        BY <1>15, <2>1, <3>3, BulkHas DEF Bulk, Restore
      <4>5. LastPending(q, t)'
        <5>1. CASE asyncIdx
          <6>1. s \subseteq t
            BY <1>1, <2>1, <3>3, <4>1, <4>2, <4>4, <4>6, <5>1 DEF SearchOk, Spoilt
          <6> QED BY <4>3, <6>1 DEF LastPending
        <5>2. CASE ~ asyncIdx
          BY <1>2, <2>2, <5>2 DEF LastPending
        <5> QED BY <5>1, <5>2
      <4>7. NonePending(q)' => q \in unindexed' \/ Holds(index'[q], t, k, e)
        <5>1. ASSUME NonePending(q)' PROVE q \in unindexed' \/ Holds(index'[q], t, k, e)
          <6>1. CASE q \in unindexed'
            BY <6>1
          <6>2. CASE Shows(index'[p], c)
            <7>1. c \in e
              BY <1>15, <2>1, <3>3, <4>6, BulkOk DEF Bulk
            <7> QED BY <3>3, <4>1, <4>6, <6>2, <7>1, HoldsFacts
          <6>3. CASE p \notin unindexed /\ index'[p] = Reindexed(index[p], c, Calls \ {"search", "links"})
            <7>1. index[q].meta \in e
              BY <3>1, <3>3, <4>2, <4>3, <4>6, <5>1, <6>3 DEF Holds
            <7> QED BY <3>3, <4>1, <4>6, <6>3, <7>1, HoldsFacts
          <6> QED BY <1>2, <2>2, <3>3, <6>1, <6>2, <6>3, IndexesFacts
        <5> QED BY <5>1
      <4>8. IndexSettles(q, t, k, e)'
        BY <4>5, <4>6, <4>7 DEF IndexSettles, Holds
      <4> QED BY <4>6, <4>8 DEF Goal
    <3>4. CASE q # p
      <4>1. SearchOk(q) \subseteq SearchOk(q)' /\ LinksOk(q) \subseteq LinksOk(q)'
        BY <1>4, <1>15, <2>1, <3>4, BulkHas, BulkOk DEF Bulk
      <4>2. index'[q] = index[q] /\ (q \in unindexed => q \in unindexed')
        BY <1>2, <2>2, <3>4, IndexesFacts
      <4> QED BY <1>5, <3>1, <3>2, <4>1, <4>2
    <3> QED BY <3>3, <3>4
  <2> QED BY <1>7, <2>3
<1>16. ASSUME ~ Bulk, ~ FlushOne, ~ \E p \in Paths : WritePage(p), ~ \E files \in Batches : IsInjective(files) /\ Start(files)
       PROVE  UNCHANGED <<op, disk, asyncIdx, aborted, pending, index, unindexed>>
  BY <1>16 DEF Next, StackClose, rest, vars, pages, tables
<1> QED BY <1>8, <1>9, <1>10, <1>11, <1>12, <1>13, <1>14, <1>15, <1>16 DEF Bulk

(* Steps that leave the jobs and the vectors alone.                        *)
LEMMA JobsStay ==
  ASSUME UNCHANGED <<queue, busy, vectors, sent, last>>
  PROVE  /\ JobsInv => JobsInv'
         /\ \A q \in Paths : \A ok : Sought(q, ok) => Sought(q, ok)'
BY DEF JobsInv, NumbersInv, RacedInv, LastInv, Sought

(* What each step does to the embedding queue: nothing, a submission, or a *)
(* step of the service.                                                    *)
LEMMA ServiceMoves ==
  ASSUME Typed, OpShape, [Next]_vars
  PROVE  \/ UNCHANGED <<queue, busy, vectors, sent, last>>
         \/ \E p \in Paths : \E s : Submit(p, s)
         \/ /\ UNCHANGED rest
            /\ \/ \E w \in Workers : Take(w) \/ RemoveOld(w) \/ Upsert(w) \/ JobFails(w)
               \/ \E p \in Paths : SkipExpires(p)
               \/ CloseService \/ Closed
<1>1. PageTypes /\ OpTypes
  BY DEF Typed
<1>2. ASSUME NEW p \in Paths, WritePage(p) PROVE UNCHANGED <<queue, busy, vectors, sent, last>> \/ Submit(p, clock + 1)
  BY <1>2 DEF WritePage
<1>3. ASSUME FlushOne PROVE \E p \in Paths : \E s : Submit(p, s)
  BY <1>1, <1>3, PendingTypes DEF FlushOne
<1>4. ASSUME IndexFile PROVE UNCHANGED <<queue, busy, vectors, sent, last>> \/ \E p \in Paths : \E s : Submit(p, s)
  <2>1. File \in Paths
    BY <1>1, <1>4, FilesFacts DEF IndexFile
  <2> QED BY <1>4, <2>1 DEF IndexFile
<1>5. ASSUME Requeue PROVE \E p \in Paths : \E s : Submit(p, s)
  <2>1. Undone \in Paths
    BY <1>1, <1>5, FilesFacts DEF Requeue
  <2> QED BY <1>5, <2>1 DEF Requeue
<1>6. ASSUME Bulk, ~ IndexFile, ~ Requeue PROVE UNCHANGED <<queue, busy, vectors, sent, last>>
  BY <1>6 DEF Bulk, WriteFile, WriteFails, IndexSearch, Commit, CommitFails, Restore, Return, service
<1>7. ASSUME NEW files, Start(files) PROVE UNCHANGED <<queue, busy, vectors, sent, last>>
  BY <1>7 DEF Start, service
<1>8. StackClose => CloseService /\ UNCHANGED rest
  BY DEF StackClose, rest
<1>9. UNCHANGED vars => UNCHANGED <<queue, busy, vectors, sent, last>>
  BY DEF vars, service
<1> QED BY <1>2, <1>3, <1>4, <1>5, <1>6, <1>7, <1>8, <1>9 DEF Next

(* Every step keeps the order of the jobs.                                 *)
LEMMA StepJobs ==
  ASSUME Typed, OpShape, JobsInv, [Next]_vars
  PROVE  JobsInv'
<1>1. ServiceTypes
  BY DEF Typed
<1> QED BY <1>1, ServiceMoves, JobsStay, SubmitJobs, WorkJobs

(* Every step keeps where the vectors will end up.                         *)
LEMMA StepVector ==
  ASSUME Typed, OpShape, DiskInv, ModeInv, JobsInv, VectorInv, [Next]_vars
  PROVE  VectorInv'
<1>1. asyncIdx' = asyncIdx /\ Spoilt \subseteq Spoilt'
  BY SpoiltGrows
<1>2. ServiceTypes /\ PageTypes /\ OpTypes /\ (~ asyncIdx => pending = <<>>)
  BY DEF Typed, ModeInv
<1>3. ASSUME NEW q \in Paths, NEW ok, ok = VectorOk(q)
      PROVE  LastPending(q, ok) /\ (NonePending(q) => Sought(q, ok))
  BY <1>3 DEF VectorInv, VectorSettles
<1>4. \A q \in Paths : VectorHas(q) \subseteq VectorHas(q)' => VectorOk(q) \subseteq VectorOk(q)'
  BY <1>1 DEF VectorOk
<1>5. ASSUME pending' = pending, NEW q \in Paths, NEW ok, ok = VectorOk(q), Sought(q, ok) => Sought(q, ok)'
      PROVE  VectorSettles(q, ok)'
  BY <1>3, <1>5 DEF VectorSettles, LastPending, NonePending

(* A content handed to the AsyncIndexer, or to the vectors.                *)
<1>6. ASSUME NEW p \in Paths, NEW c, asyncIdx, Enqueue(p, c), UNCHANGED <<queue, busy, vectors, sent, last>>,
             c \in VectorOk(p)', \A q \in Paths \ {p} : VectorOk(q) \subseteq VectorOk(q)'
      PROVE  VectorInv'
  <2>1. ASSUME NEW q \in Paths PROVE \E ok : VectorSettles(q, ok)' /\ ok \subseteq VectorOk(q)'
    <3>1. CASE q = p
      <4>1. PICK ok : ok = {c}
        OBVIOUS
      <4>2. LastPending(q, ok)' /\ ~ NonePending(q)'
        BY <1>2, <1>6, <3>1, <4>1, EnqueueFacts
      <4> QED BY <1>6, <3>1, <4>1, <4>2 DEF VectorSettles
    <3>2. CASE q # p
      <4>1. PICK ok : ok = VectorOk(q)
        OBVIOUS
      <4>2. LastPending(q, ok)' /\ (NonePending(q)' => NonePending(q))
        BY <1>2, <1>3, <1>6, <3>2, <4>1, EnqueueFacts
      <4>3. Sought(q, ok) => Sought(q, ok)'
        BY <1>6, JobsStay
      <4> QED BY <1>3, <1>6, <3>2, <4>1, <4>2, <4>3 DEF VectorSettles
    <3> QED BY <3>1, <3>2
  <2> QED BY <2>1, VectorSteps
<1>7. ASSUME NEW p \in Paths, NEW c, ~ asyncIdx, Submit(p, c), pending' = pending,
             c \in VectorOk(p)', \A q \in Paths \ {p} : VectorOk(q) \subseteq VectorOk(q)'
      PROVE  VectorInv'
  <2>1. ASSUME NEW q \in Paths PROVE \E ok : VectorSettles(q, ok)' /\ ok \subseteq VectorOk(q)'
    <3>1. \A ok : LastPending(q, ok)'
      BY <1>2, <1>7 DEF LastPending
    <3>2. CASE q = p
      <4>1. PICK ok : ok = {c}
        OBVIOUS
      <4>2. Sought(q, ok)'
        BY <1>2, <1>7, <3>2, <4>1, SubmitSought
      <4> QED BY <1>7, <3>1, <3>2, <4>1, <4>2 DEF VectorSettles
    <3>3. CASE q # p
      <4>1. PICK ok : ok = VectorOk(q)
        OBVIOUS
      <4>2. Sought(q, ok) => Sought(q, ok)'
        BY <1>2, <1>7, <3>3, SubmitSought
      <4> QED BY <1>5, <1>7, <3>3, <4>1, <4>2
    <3> QED BY <3>2, <3>3
  <2> QED BY <2>1, VectorSteps

<1>8. ASSUME NEW p \in Paths, WritePage(p) PROVE VectorInv'
  <2>1. PICK c : c = clock + 1
    OBVIOUS
  <2>2. c \in VectorOk(p)' /\ \A q \in Paths \ {p} : VectorOk(q) \subseteq VectorOk(q)'
    BY <1>8, <2>1, WriteOk
  <2>3. asyncIdx => Enqueue(p, c) /\ UNCHANGED <<queue, busy, vectors, sent, last>>
    BY <1>8, <2>1 DEF WritePage
  <2>4. ~ asyncIdx => Submit(p, c) /\ pending' = pending
    BY <1>8, <2>1 DEF WritePage
  <2> QED BY <1>6, <1>7, <2>2, <2>3, <2>4
<1>9. ASSUME NEW files \in Batches, IsInjective(files), Start(files) PROVE VectorInv'
  <2>1. UNCHANGED <<pending, queue, busy, vectors, sent, last>> /\ \A q \in Paths : VectorOk(q) \subseteq VectorOk(q)'
    BY <1>9, WriteOk DEF Start, service
  <2> QED BY <2>1, JobsStay, VectorStays
<1>10. CASE FlushOne
  <2>1. /\ pending # <<>> /\ pending' = Tail(pending) /\ UNCHANGED <<op, disk, asyncIdx, aborted>>
        /\ Submit(Head(pending).path, Head(pending).stamp)
    BY <1>10 DEF FlushOne, pages
  <2>0. PICK p \in Paths : p = Head(pending).path
    BY <1>2, <2>1, PendingTypes
  <2>2. PICK s : p = Head(pending).path /\ s = Head(pending).stamp
    BY <2>0
  <2>3. Submit(p, s)
    BY <2>1, <2>2
  <2>4. ASSUME NEW q \in Paths PROVE \E ok : VectorSettles(q, ok)' /\ ok \subseteq VectorOk(q)'
    <3>1. PICK ok : ok = VectorOk(q)
      OBVIOUS
    <3>2. LastPending(q, ok)' /\ VectorOk(q)' = VectorOk(q)
      BY <1>2, <1>3, <2>1, <3>1, DequeueFacts, OkStays
    <3>3. ASSUME NonePending(q)' PROVE Sought(q, ok)'
      <4>1. CASE q = p
        <5>1. s \in ok
          BY <1>2, <1>3, <2>1, <2>2, <3>1, <3>3, <4>1, DequeueFacts
        <5> QED BY <1>2, <2>3, <4>1, <5>1, SubmitSought
      <4>2. CASE q # p
        <5>1. NonePending(q)
          BY <1>2, <2>1, <2>2, <3>3, <4>2, DequeueFacts
        <5> QED BY <1>2, <1>3, <2>3, <3>1, <4>2, <5>1, SubmitSought
      <4> QED BY <4>1, <4>2
    <3> QED BY <3>1, <3>2, <3>3 DEF VectorSettles
  <2> QED BY <2>4, VectorSteps
<1>11. CASE WriteFile \/ WriteFails \/ IndexSearch \/ Commit \/ CommitFails \/ Restore \/ Return
  <2>1. UNCHANGED <<pending, queue, busy, vectors, sent, last>>
    BY <1>11 DEF WriteFile, WriteFails, IndexSearch, Commit, CommitFails, Restore, Return, service
  <2>2. \A q \in Paths : VectorHas(q) \subseteq VectorHas(q)'
    BY <1>11, BulkHas DEF Bulk
  <2> QED BY <1>4, <2>1, <2>2, JobsStay, VectorStays
<1>12. CASE IndexFile
  <2>0. PICK p \in Paths : p = File
    BY <1>2, <1>12, FilesFacts DEF IndexFile
  <2>1. PICK c : p = File /\ c = op.new[File]
    BY <2>0
  <2>2. c \in VectorOk(p)' /\ \A q \in Paths \ {p} : VectorOk(q) \subseteq VectorOk(q)'
    <3>1. \A q \in Paths : IF q = p THEN c \in VectorHas(q)' ELSE VectorHas(q) \subseteq VectorHas(q)'
      BY <1>12, <2>1, BulkHas DEF Bulk
    <3> QED BY <1>4, <3>1 DEF VectorOk
  <2>3. asyncIdx => Enqueue(p, c) /\ UNCHANGED <<queue, busy, vectors, sent, last>>
    BY <1>12, <2>1 DEF IndexFile
  <2>4. ~ asyncIdx => Submit(p, c) /\ pending' = pending
    BY <1>12, <2>1 DEF IndexFile
  <2> QED BY <1>6, <1>7, <2>2, <2>3, <2>4
<1>13. CASE Requeue
  <2>0. PICK p \in Paths : p = Undone
    BY <1>2, <1>13, FilesFacts DEF Requeue
  <2>1. PICK c : p = Undone /\ c = op.pre[Undone]
    BY <2>0
  <2>2. Submit(p, c) /\ pending' = pending /\ aborted' = aborted
    BY <1>13, <2>1 DEF Requeue, Requeued
  <2>3. /\ VectorHas(p) = {op.pre[p], op.new[p]} /\ c \in VectorHas(p)'
        /\ \A q \in Paths \ {p} : VectorHas(q) \subseteq VectorHas(q)'
    BY <1>13, <2>1, BulkHas DEF Bulk
  <2>4. CASE ~ asyncIdx
    <3>1. c \in VectorOk(p)' /\ \A q \in Paths \ {p} : VectorOk(q) \subseteq VectorOk(q)'
      BY <1>4, <2>3 DEF VectorOk
    <3> QED BY <1>7, <2>2, <2>4, <3>1
  <2>5. CASE asyncIdx
    <3>1. op.new[p] \in aborted
      BY <1>13, <2>1 DEF OpShape, Requeue
    <3>2. op.new[p] \in VectorOk(p)' /\ c \in VectorOk(p) /\ c \in VectorOk(p)'
      BY <1>1, <2>1, <2>2, <2>3, <2>5, <3>1 DEF VectorOk, Spoilt
    <3>3. VectorOk(p) \subseteq VectorOk(p)'
      BY <1>1, <2>1, <2>3, <3>2 DEF VectorOk
    <3>4. ASSUME NEW q \in Paths PROVE \E ok : VectorSettles(q, ok)' /\ ok \subseteq VectorOk(q)'
      <4>1. PICK ok : ok = VectorOk(q)
        OBVIOUS
      <4>2. Sought(q, ok) => Sought(q, ok)'
        <5>1. CASE q = p
          BY <1>2, <2>2, <3>2, <4>1, <5>1, SubmitSought
        <5>2. CASE q # p
          BY <1>2, <2>2, <5>2, SubmitSought
        <5> QED BY <5>1, <5>2
      <4>3. ok \subseteq VectorOk(q)'
        BY <1>4, <2>3, <3>3, <4>1
      <4> QED BY <1>5, <2>2, <4>1, <4>2, <4>3
    <3> QED BY <3>4, VectorSteps
  <2> QED BY <2>4, <2>5

(* The service's own steps.                                                *)
<1>14. ASSUME UNCHANGED rest, \A q \in Paths : \A ok : Sought(q, ok) => Sought(q, ok)' PROVE VectorInv'
  <2>1. UNCHANGED <<op, disk, asyncIdx, aborted, pending>>
    BY <1>14 DEF rest, pages
  <2> QED BY <1>14, <2>1, OkStays, VectorStays
<1>15. ASSUME ~ Bulk, ~ FlushOne, ~ \E p \in Paths : WritePage(p), ~ \E files \in Batches : IsInjective(files) /\ Start(files)
       PROVE  /\ UNCHANGED rest
              /\ \/ UNCHANGED <<queue, busy, vectors, sent, last>>
                 \/ \E w \in Workers : Take(w) \/ RemoveOld(w) \/ Upsert(w) \/ JobFails(w)
                 \/ \E p \in Paths : SkipExpires(p)
                 \/ CloseService \/ Closed
  <2>1. StackClose => CloseService /\ UNCHANGED rest
    BY DEF StackClose, rest
  <2>2. UNCHANGED vars => UNCHANGED rest /\ UNCHANGED <<queue, busy, vectors, sent, last>>
    BY DEF vars, service, rest, pages, tables
  <2>3. (\E p \in Paths : SkipExpires(p) /\ UNCHANGED rest) => UNCHANGED rest /\ \E p \in Paths : SkipExpires(p)
    OBVIOUS
  <2> QED BY <1>15, <2>1, <2>2, <2>3 DEF Next
<1>16. ASSUME ~ Bulk, ~ FlushOne, ~ \E p \in Paths : WritePage(p), ~ \E files \in Batches : IsInjective(files) /\ Start(files)
       PROVE  VectorInv'
  BY <1>2, <1>14, <1>15, <1>16, JobsStay, WorkJobs
<1> QED BY <1>8, <1>9, <1>10, <1>11, <1>12, <1>13, <1>16 DEF Bulk

-----------------------------------------------------------------------------
(* The invariant and what follows from it.                                 *)

(* The tables and the vectors start with what the store has.               *)
LEMMA InitInv ==
  ASSUME Init
  PROVE  Inv
<1>1. /\ disk \in [Paths -> {0, 1}] /\ index = [p \in Paths |-> Initially(disk[p])] /\ clock = 1 /\ asyncIdx \in AsyncModes
      /\ pending = <<>> /\ op = Idle /\ aborted = {} /\ unindexed = {}
      /\ queue = <<>> /\ busy = [w \in Workers |-> NoJob] /\ skip = {}
      /\ vectors = [p \in Paths |-> Chunks(disk[p])] /\ life = "up"
      /\ sent = [p \in Paths |-> 0] /\ last = [p \in Paths |-> "embedded"] /\ fails = 0
  BY DEF Init, ServiceInit
<1>2. {0, 1} \subseteq Content /\ MaxFails \in Nat /\ QueueCap \in Nat
  BY BulkAssumption, VectorsAssumption DEF Content
<1>3. ServiceTypes
  BY <1>1, <1>2 DEF ServiceTypes, Chunks
<1>4. PageTypes
  <2>1. \A c \in Content : Initially(c) \in Tables(Content)
    BY DEF Initially, Tables
  <2>2. index \in Entries
    BY <1>1, <1>2, <2>1 DEF Entries
  <2> QED BY <1>1, <1>2, <2>2 DEF PageTypes, Contents
<1>5. OpTypes
  BY <1>1, <1>2 DEF OpTypes, Ops, Idle, Contents
<1>6. op.pc = "idle"
  BY <1>1 DEF Idle
<1>7. OpShape /\ DiskInv /\ ModeInv /\ CloseInv
  BY <1>1, <1>6 DEF OpShape, DiskInv, ModeInv, CloseInv, Idle
<1>8. JobsInv
  BY <1>1 DEF JobsInv, NumbersInv, RacedInv, LastInv
<1>9. \A p \in Paths : disk[p] \in SearchOk(p) /\ disk[p] \in VectorOk(p) /\ disk[p] \in LinksOk(p) /\ disk[p] \in MetaOk(p)
  <2>1. \A p \in Paths : SearchHas(p) = {disk[p]} /\ VectorHas(p) = {disk[p]} /\ LinksHas(p) = {disk[p]}
    BY <1>6, HasAt, LinksAt
  <2> QED BY <2>1 DEF SearchOk, VectorOk, LinksOk, MetaOk
<1>10. SearchInv
  <2> SUFFICES ASSUME NEW p \in Paths PROVE IndexSettles(p, SearchOk(p), LinksOk(p), MetaOk(p))
    BY DEF SearchInv
  <2>1. LastPending(p, SearchOk(p)) /\ index[p] = Initially(disk[p])
    BY <1>1 DEF LastPending
  <2>2. Shows(index[p], disk[p])
    <3>1. PICK c, x : c = disk[p] /\ x = Initially(c)
      OBVIOUS
    <3>2. (x.row <=> c # 0) /\ x.words = {c} \ {0} /\ x.links = c /\ x.meta = c
      BY <3>1 DEF Initially
    <3> QED BY <2>1, <3>1, <3>2 DEF Shows, Found
  <2> QED BY <1>9, <2>1, <2>2, HoldsFacts DEF IndexSettles
<1>11. VectorInv
  <2> SUFFICES ASSUME NEW p \in Paths PROVE VectorSettles(p, VectorOk(p))
    BY DEF VectorInv
  <2>1. LastPending(p, VectorOk(p)) /\ vectors[p] = Chunks(disk[p])
    BY <1>1 DEF LastPending
  <2> QED BY <1>1, <1>9, <2>1 DEF VectorSettles, Sought
<1> QED BY <1>3, <1>4, <1>5, <1>7, <1>8, <1>10, <1>11 DEF Inv, Typed

(* Every step keeps the invariant.                                         *)
LEMMA StepInv ==
  ASSUME Inv, [Next]_vars
  PROVE  Inv'
BY StepTyped, StepOpShape, StepDisk, StepSearch, StepVector, StepClose, StepJobs DEF Inv

(* Inv is an invariant of every run of BulkWrite.                          *)
THEOREM Invariance == Spec => []Inv
BY InitInv, StepInv, PTL DEF Spec

(* The types of BulkWriteIfMatch, the AsyncIndexer's requests and the      *)
(* vectorstore service, whose queue never holds more than its capacity.    *)
THEOREM TypeCorrect == Spec => []TypeOK
<1>1. Inv => TypeOK
  <2> SUFFICES ASSUME Typed PROVE TypeOK
    BY DEF Inv
  <2>1. op.done \in 0 .. Len(op.files) /\ {op.pre, op.new} \subseteq Contents /\ op.pc \in {"idle"} \union Stages
    BY DEF Typed, OpTypes, Ops
  <2> QED BY <2>1 DEF Typed, ServiceTypes, PageTypes, TypeOK, Queued, Running, Requests, Contents, Entries, Stages
<1> QED BY <1>1, Invariance, PTL

(* When nothing is under way search lists and finds the pages there are,   *)
(* and links and metadata are their own, or, behind an AsyncIndexer and    *)
(* for metadata, of a content that a rollback of BulkWriteIfMatch has      *)
(* taken back; but for pages for which a call failed.                      *)
THEOREM SearchSettlesHolds == Spec => []SearchSettles
<1>1. Inv => SearchSettles
  <2> SUFFICES ASSUME Inv, AtRest, NEW p \in Paths \ unindexed
               PROVE  /\ \E c \in Expected(p) : Found(index[p], c)
                      /\ index[p].links \in Expected(p) /\ index[p].meta \in {disk[p]} \union aborted
    BY DEF SearchSettles
  <2>1. op.pc = "idle" /\ NonePending(p)
    BY DEF AtRest, Idle, NonePending
  <2>2. Holds(index[p], SearchOk(p), LinksOk(p), MetaOk(p))
    BY <2>1 DEF Inv, SearchInv, IndexSettles
  <2>3. SearchHas(p) = {disk[p]} /\ LinksHas(p) = {disk[p]} /\ VectorHas(p) = {disk[p]}
    BY <2>1, HasAt, LinksAt
  <2>4. SearchOk(p) = Expected(p) /\ LinksOk(p) = Expected(p) /\ MetaOk(p) = {disk[p]} \union aborted
    BY <2>3 DEF SearchOk, LinksOk, MetaOk, Spoilt, Expected
  <2> QED BY <2>2, <2>4 DEF Holds
<1> QED BY <1>1, Invariance, PTL

(* A page whose last job of the embedding queue ran to its end has exactly *)
(* its content's chunks, or some of a content that a rollback took back.   *)
THEOREM VectorsSettleHolds == Spec => []VectorsSettle
<1>1. Inv => VectorsSettle
  <2> SUFFICES ASSUME Inv, AtRest, NEW p \in Paths, last[p] = "embedded"
               PROVE  vectors[p] = Chunks(disk[p]) \/ (asyncIdx /\ vectors[p] \intersect aborted # {})
    BY DEF VectorsSettle
  <2>1. op.pc = "idle" /\ NonePending(p)
    BY DEF AtRest, Idle, NonePending
  <2>2. PICK s \in VectorOk(p) : vectors[p] = Chunks(s)
    BY <2>1 DEF Inv, VectorInv, VectorSettles, Sought
  <2>3. s = disk[p] \/ (asyncIdx /\ s \in aborted /\ s # 0)
    BY <2>1, HasAt DEF VectorOk, Spoilt, Inv, ModeInv
  <2> QED BY <2>2, <2>3 DEF Chunks
<1> QED BY <1>1, Invariance, PTL

(* Service.Close returns when no job is queued or runs: none is waiting.   *)
THEOREM CloseRunsAllHolds == Spec => []CloseRunsAll
<1>1. Inv => CloseRunsAll
  <2> SUFFICES ASSUME Inv, life = "closed", NEW p \in Paths PROVE last[p] # "waiting"
    BY DEF CloseRunsAll
  <2>1. queue = <<>> /\ \A w \in Workers : busy[w] = NoJob
    BY DEF Inv, CloseInv, Drained
  <2> QED BY <2>1 DEF Inv, JobsInv, LastInv
<1> QED BY <1>1, Invariance, PTL

(* BulkWriteIfMatch returns with all of its files replaced or none.        *)
THEOREM BulkAtomic == Spec => BulkIsAtomic
<1>1. ASSUME Inv, [Next]_vars, op.pc = "done", op' = Idle PROVE disk' \in {op.pre, op.new}
  <2>1. Return \/ disk' = disk
    <3>1. op # Idle
      BY <1>1 DEF Idle
    <3> QED BY <1>1, <3>1 DEF Next, Bulk, WritePage, Start, WriteFile, WriteFails, IndexSearch, IndexFile, Commit, CommitFails,
              Restore, Requeue, FlushOne, StackClose, rest, vars, pages
  <2>2. disk' = disk
    BY <2>1 DEF Return, pages
  <2> QED BY <1>1, <2>2 DEF Inv, DiskInv
<1>2. Inv /\ [Next]_vars => [op.pc = "done" /\ op' = Idle => disk' \in {op.pre, op.new}]_vars
  BY <1>1
<1> QED BY <1>2, Invariance, PTL DEF Spec, BulkIsAtomic
=============================================================================
