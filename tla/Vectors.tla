------------------------------- MODULE Vectors -------------------------------
(***************************************************************************)
(* The embedding queue of internal/vectorstore/service.go: a bounded       *)
(* channel, a pool of workers, the skip markers a rollback leaves, Close.  *)
(* The module has the service's own steps; BulkWrite says who calls them.  *)
(*                                                                         *)
(* A page's content is the stamp of the write that produced it, 0 if there *)
(* is no page; a job for stamp 0 is a delete.                              *)
(***************************************************************************)
EXTENDS Naturals, Sequences

CONSTANTS
  Paths,
  Workers,    \* goroutines of the pool (5 in the code)
  QueueCap,   \* capacity of the queue (256 in the code)
  MaxFails    \* bound: store writes, commits and embeddings that fail

ASSUME VectorsAssumption == QueueCap \in Nat \ {0} /\ MaxFails \in Nat

VARIABLES
  queue,    \* Service.queue
  busy,     \* busy[w]: the job worker w runs, if any
  skip,     \* Service.skip
  vectors,  \* vectors[p]: the contents that chunks in the vector store are from
  life,     \* "up", "closing" (stopCh is closed) or "closed"
  sent,     \* sent[p]: jobs submitted for p (history)
  last,     \* last[p]: what became of the last of them (history)
  fails     \* failures so far

service == <<queue, busy, skip, vectors, life, sent, last>>

(* A job that runs at the same time as another one of its page is raced.   *)
NoJob == [path |-> "none", stamp |-> 0, nr |-> 0, pc |-> "idle", raced |-> FALSE]
Job(p, stamp, nr) == [path |-> p, stamp |-> stamp, nr |-> nr, pc |-> "embed", raced |-> FALSE]

Chunks(stamp) == IF stamp = 0 THEN {} ELSE {stamp}
Fail == fails < MaxFails /\ fails' = fails + 1

ServiceInit(content) ==
  /\ queue = <<>> /\ busy = [w \in Workers |-> NoJob] /\ skip = {}
  /\ vectors = [p \in Paths |-> Chunks(content[p])]
  /\ life = "up"
  /\ sent = [p \in Paths |-> 0] /\ last = [p \in Paths |-> "embedded"]
  /\ fails = 0

(* submit: a full queue drops the job.                                     *)
HasRoomMutant == Len(queue) <= QueueCap
HasRoom == Len(queue) < QueueCap
Submit(p, stamp) ==
  /\ sent' = [sent EXCEPT ![p] = @ + 1]
  /\ IF HasRoom
     THEN queue' = Append(queue, Job(p, stamp, sent[p] + 1)) /\ last' = [last EXCEPT ![p] = "waiting"]
     ELSE UNCHANGED queue /\ last' = [last EXCEPT ![p] = "lost"]
  /\ UNCHANGED <<busy, vectors, life>>

(* worker: select may take a job although stopCh is closed as well.  run:  *)
(* an upsert takes its page's skip marker and is dropped.                  *)
MayTakeMutant == life = "up"
MayTake == life # "closed"
Skipped(j) == j.stamp # 0 /\ j.path \in skip

Take(w) ==
  /\ MayTake /\ busy[w] = NoJob /\ queue # <<>>
  /\ LET j      == Head(queue)
         others == {v \in Workers : busy[v] # NoJob /\ busy[v].path = j.path}
     IN  IF Skipped(j)
         THEN /\ skip' = skip \ {j.path}
              /\ last' = [last EXCEPT ![j.path] = IF j.nr = sent[j.path] THEN "lost" ELSE @]
              /\ UNCHANGED busy
         ELSE /\ busy' = [v \in Workers |->
                            IF v = w THEN [j EXCEPT !.raced = others # {}]
                            ELSE IF v \in others THEN [busy[v] EXCEPT !.raced = TRUE] ELSE busy[v]]
              /\ UNCHANGED <<skip, last>>
  /\ queue' = Tail(queue)
  /\ UNCHANGED <<vectors, life, sent, fails>>

Finish(w, fate) ==
  /\ busy' = [busy EXCEPT ![w] = NoJob]
  /\ last' = [last EXCEPT ![busy[w].path] =
                IF busy[w].raced THEN "lost" ELSE IF busy[w].nr = sent[busy[w].path] THEN fate ELSE @]

(* Index: embed, remove the page's chunks, then insert; RemoveByPath alone *)
(* for a delete.                                                           *)
RemoveOld(w) ==
  /\ busy[w].pc = "embed"
  /\ vectors' = [vectors EXCEPT ![busy[w].path] = {}]
  /\ IF busy[w].stamp = 0 THEN Finish(w, "embedded")
     ELSE busy' = [busy EXCEPT ![w].pc = "upsert"] /\ UNCHANGED last
  /\ UNCHANGED <<queue, skip, life, sent, fails>>

(* Chunks are numbered: those of another content that are in the store by  *)
(* now are overwritten, or stay where they are more.                       *)
Upsert(w) ==
  /\ busy[w].pc = "upsert"
  /\ LET p == busy[w].path IN
     \E stay \in SUBSET vectors[p] :
       vectors' = [vectors EXCEPT ![p] = Chunks(busy[w].stamp) \union stay]
  /\ Finish(w, "embedded")
  /\ UNCHANGED <<queue, skip, life, sent, fails>>

(* The embedder or the store fails, which is logged.                       *)
JobFails(w) ==
  /\ busy[w] # NoJob /\ Fail
  /\ Finish(w, "lost")
  /\ UNCHANGED <<queue, skip, vectors, life, sent>>

(* The timer that removes a marker.                                        *)
SkipExpires(p) ==
  /\ p \in skip
  /\ skip' = skip \ {p}
  /\ UNCHANGED <<queue, busy, vectors, life, sent, last, fails>>

(* Close: the workers leave, each when it is idle, and Close runs what is  *)
(* still queued itself, one job after the other: as the last worker.       *)
CloseService ==
  /\ life = "up"
  /\ life' = "closing"
  /\ UNCHANGED <<queue, busy, skip, vectors, sent, last, fails>>

DrainedMutant == \A w \in Workers : busy[w] = NoJob
Drained == queue = <<>> /\ \A w \in Workers : busy[w] = NoJob
Closed ==
  /\ life = "closing" /\ Drained
  /\ life' = "closed"
  /\ UNCHANGED <<queue, busy, skip, vectors, sent, last, fails>>

Work == \E w \in Workers : Take(w) \/ RemoveOld(w) \/ Upsert(w)
=============================================================================
