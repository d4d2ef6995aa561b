------------------------- MODULE AsyncIndexerProofs -------------------------
(* Proofs about AsyncIndexer: its types, what Flush covers, what has been  *)
(* processed when the loop leaves, what the tables hold when nothing is on *)
(* its way to them any more, and that from outside it is an IndexQueue.    *)
EXTENDS AsyncIndexer, SequenceTheorems, WellFoundedInduction, TLAPS

(* A bounded set of numbers has a greatest one: the one with the smallest  *)
(* gap to the bound.                                                       *)
LEMMA HasGreatest ==
  ASSUME NEW n \in Nat, NEW S \in SUBSET (0 .. n), S # {}
  PROVE  \E x \in S : \A y \in S : x >= y
<1> DEFINE Gaps == {n - x : x \in S}
           Less == OpToRel(<, Nat)
<1>1. IsWellFoundedOn(Less, Nat) /\ \A d, e \in Nat : e < d => <<e, d>> \in Less
  BY NatLessThanWellFounded DEF OpToRel
<1> HIDE DEF Less
<1>2. Gaps \subseteq Nat
  OBVIOUS
<1>3. Gaps # {}
  OBVIOUS
<1>4. PICK d \in Gaps : \A e \in Gaps : <<e, d>> \notin Less
  <2> HIDE DEF Gaps
  <2> QED BY <1>1, <1>2, <1>3, WFMin
<1>5. PICK x \in S : d = n - x
  BY <1>4
<1>6. \A y \in S : n - y \in Gaps
  OBVIOUS
<1>7. \A y \in S : ~ (n - y < n - x)
  <2> HIDE DEF Gaps
  <2> QED BY <1>1, <1>2, <1>4, <1>5, <1>6
<1> QED BY <1>7

(* Max is the greatest of a bounded set of numbers.                        *)
LEMMA MaxFacts ==
  ASSUME NEW n \in Nat, NEW S \in SUBSET (0 .. n), S # {}
  PROVE  Max(S) \in S /\ \A x \in S : x <= Max(S)
<1>1. PICK t \in S : \A y \in S : t >= y
  BY HasGreatest
<1>2. Max(S) \in S /\ \A y \in S : Max(S) >= y
  BY <1>1 DEF Max
<1> QED BY <1>2

(* A sequence of requests has the change k of page p, or a later one of    *)
(* it; the indexer has taken it from the channel; it has it at all.        *)
Has(s, p, k)   == \E i \in DOMAIN s : s[i].path = p /\ s[i].stamp >= k
Taken(p, k)    == applied[p] >= k \/ Has(batch, p, k)
Covered(p, k)  == Taken(p, k) \/ Has(pending, p, k)

(* No change is newer than the clock, and the writer's is the newest.      *)
Stamps ==
  /\ \A p \in Paths : sent[p] <= clock
  /\ writer # NoReq => writer.stamp = clock

(* Every change that was handed over is processed, in the batch or in the  *)
(* channel.                                                                *)
Carried == \A p \in Paths : Covered(p, sent[p])

(* A waiter wants what was handed over before; the one that is answered    *)
(* has all of it taken before the flush, and processed after it.           *)
Answering ==
  /\ \A w \in Waiters, p \in Paths : waiter[w].want[p] <= sent[p]
  /\ \A w \in Waiters, p \in Paths : waiter[w].pc = "done" => applied[p] >= waiter[w].want[p]
  /\ flushCh # <<>> => waiter[flushCh[1]].pc = "wait" /\ flushCh[1] # loop.answers
  /\ loop.pc = "select" => loop.answers = None
  /\ loop.answers # None =>
       /\ waiter[loop.answers].pc = "wait"
       /\ loop.pc \in {"upserts", "deletes"} =>
            \A p \in Paths : Taken(p, waiter[loop.answers].want[p])

(* A loop that is about to leave has taken all that was handed over, and   *)
(* one that has left has processed it.                                     *)
Stopping ==
  /\ loop.next = "exited" =>
       /\ life = "stopped" /\ loop.pc # "select"
       /\ loop.pc \in {"upserts", "deletes"} => \A p \in Paths : Taken(p, sent[p])
  /\ loop.pc = "exited" => loop.next = "exited" /\ \A p \in Paths : applied[p] >= sent[p]

(* What every step keeps.                                                  *)
Inv == TypeOK /\ Stamps /\ Carried /\ Answering /\ Stopping

(* What the operators on sequences do with the requests in them.           *)
LEMMA HasAppend ==
  ASSUME NEW s \in Seq(Req), NEW r \in Req, NEW p, NEW k
  PROVE  /\ Append(s, r) \in Seq(Req)
         /\ Has(s, p, k) => Has(Append(s, r), p, k)
         /\ r.path = p /\ r.stamp >= k => Has(Append(s, r), p, k)
<1>1. /\ Append(s, r) \in Seq(Req) /\ DOMAIN Append(s, r) = 1 .. Len(s) + 1 /\ DOMAIN s = 1 .. Len(s) /\ Len(s) \in Nat
      /\ \A i \in 1 .. Len(s) : Append(s, r)[i] = s[i]
      /\ Append(s, r)[Len(s) + 1] = r
  BY AppendProperties, LenProperties
<1> QED BY <1>1 DEF Has

(* A sequence without its head has all it had but for the head.            *)
LEMMA HasTail ==
  ASSUME NEW s \in Seq(Req), s # <<>>
  PROVE  /\ Head(s) \in Req /\ Tail(s) \in Seq(Req) /\ Len(Tail(s)) = Len(s) - 1
         /\ \A p, k : Has(s, p, k) => Has(Tail(s), p, k) \/ (Head(s).path = p /\ Head(s).stamp >= k)
<1>1. /\ Head(s) = s[1] /\ Head(s) \in Req /\ Tail(s) \in Seq(Req) /\ Len(Tail(s)) = Len(s) - 1
      /\ DOMAIN s = 1 .. Len(s) /\ DOMAIN Tail(s) = 1 .. Len(s) - 1 /\ Len(s) \in Nat
      /\ \A i \in 1 .. Len(s) - 1 : Tail(s)[i] = s[i + 1]
  BY HeadTailProperties, LenProperties, ElementOfSeq, EmptySeq
<1> SUFFICES ASSUME NEW p, NEW k, Has(s, p, k)
             PROVE  Has(Tail(s), p, k) \/ (Head(s).path = p /\ Head(s).stamp >= k)
  BY <1>1
<1>2. PICK i \in 1 .. Len(s) : s[i].path = p /\ s[i].stamp >= k
  BY <1>1 DEF Has
<1>3. CASE i = 1
  BY <1>1, <1>2, <1>3
<1>4. CASE i # 1
  <2>1. i - 1 \in DOMAIN Tail(s) /\ Tail(s)[i - 1] = s[i]
    BY <1>1, <1>2, <1>4
  <2> QED BY <1>2, <2>1 DEF Has
<1> QED BY <1>3, <1>4

(* An empty sequence has no change.                                        *)
LEMMA NothingHas == \A p, k : ~ Has(<<>>, p, k)
BY EmptySeq, LenProperties DEF Has

(* What the search database is made of.                                    *)
Tables == [rows : SUBSET Paths, words : [Paths -> SUBSET Content], meta : [Paths -> Content]]

(* The upserts and the deletes write tables of the type, and change no     *)
(* page that has no request in the batch.                                  *)
LEMMA InsertedFacts ==
  ASSUME TypeOK
  PROVE  /\ Inserted \in Tables /\ Inserted.meta = index.meta
         /\ Inserted.rows = index.rows \union Batched(FALSE)
         /\ \A p \in Paths : Inserted.words[p] = index.words[p] \union {batch[i].stamp : i \in Positions(FALSE, p)}
<1> DEFINE w == [p \in Paths |-> index.words[p] \union {batch[i].stamp : i \in Positions(FALSE, p)}]
<1>1. \A i \in DOMAIN batch : batch[i] \in Req
  BY LenProperties, ElementOfSeq DEF TypeOK
<1>2. index \in Tables /\ Batched(FALSE) \subseteq Paths
  BY DEF TypeOK, Tables, Batched
<1>3. \A p \in Paths : \A i \in Positions(FALSE, p) : batch[i].stamp \in Content
  BY <1>1 DEF Positions, Req
<1>4. w \in [Paths -> SUBSET Content]
  <2> SUFFICES ASSUME NEW p \in Paths
               PROVE  index.words[p] \union {batch[i].stamp : i \in Positions(FALSE, p)} \in SUBSET Content
    OBVIOUS
  <2>1. index.words[p] \subseteq Content
    BY <1>2 DEF Tables
  <2> QED BY <1>3, <2>1
<1>5. Inserted = [index EXCEPT !.rows = index.rows \union Batched(FALSE), !.words = w]
  BY DEF Inserted
<1> QED
  <2> HIDE DEF w
  <2>1. Inserted \in Tables /\ Inserted.meta = index.meta /\ Inserted.rows = index.rows \union Batched(FALSE)
        /\ Inserted.words = w
    BY <1>2, <1>4, <1>5 DEF Tables
  <2> QED BY <2>1 DEF w

MetaOf(t, failed, p) ==
  IF Positions(FALSE, p) \ failed # {} THEN batch[Max(Positions(FALSE, p) \ failed)].stamp ELSE t.meta[p]
LEMMA DescribedFacts ==
  ASSUME TypeOK, NEW t \in Tables, NEW failed
  PROVE  /\ Described(t, failed) \in Tables
         /\ Described(t, failed).rows = t.rows /\ Described(t, failed).words = t.words
         /\ \A p \in Paths : Described(t, failed).meta[p] = MetaOf(t, failed, p)
<1> DEFINE d(p) == Positions(FALSE, p) \ failed
           m == [p \in Paths |-> IF d(p) # {} THEN batch[Max(d(p))].stamp ELSE t.meta[p]]
<1>1. Len(batch) \in Nat /\ DOMAIN batch = 1 .. Len(batch) /\ \A i \in DOMAIN batch : batch[i] \in Req
  BY LenProperties, ElementOfSeq DEF TypeOK
<1>2. ASSUME NEW p \in Paths, d(p) # {} PROVE batch[Max(d(p))].stamp \in Content
  <2>1. d(p) \in SUBSET (0 .. Len(batch)) /\ d(p) \subseteq DOMAIN batch
    BY <1>1 DEF Positions
  <2>2. Max(d(p)) \in d(p)
    <3> HIDE DEF d
    <3> QED BY <1>1, <1>2, <2>1, MaxFacts
  <2> HIDE DEF d
  <2> QED BY <1>1, <2>1, <2>2 DEF Req
<1>3. m \in [Paths -> Content]
  <2> HIDE DEF d
  <2> QED BY <1>2 DEF Tables
<1>4. Described(t, failed) = [t EXCEPT !.meta = m]
  BY DEF Described
<1>5. Described(t, failed) \in Tables /\ Described(t, failed).rows = t.rows
      /\ Described(t, failed).words = t.words /\ Described(t, failed).meta = m
  <2> HIDE DEF m
  <2> QED BY <1>3, <1>4 DEF Tables
<1> QED BY <1>5 DEF MetaOf

LEMMA RemovedFacts ==
  ASSUME TypeOK, NEW gone
  PROVE  /\ Removed(gone) \in Tables
         /\ Removed(gone).rows = index.rows \ gone /\ Removed(gone).words = index.words
         /\ \A p \in Paths : Removed(gone).meta[p] = IF p \in gone THEN 0 ELSE index.meta[p]
<1>1. index \in Tables /\ 0 \in Content
  BY IndexerAssumption DEF TypeOK, Tables, Content
<1> DEFINE m == [p \in Paths |-> IF p \in gone THEN 0 ELSE index.meta[p]]
<1>2. m \in [Paths -> Content]
  BY <1>1 DEF Tables
<1>3. Removed(gone) = [index EXCEPT !.rows = index.rows \ gone, !.meta = m]
  BY DEF Removed
<1>4. Removed(gone) \in Tables /\ Removed(gone).rows = index.rows \ gone
      /\ Removed(gone).words = index.words /\ Removed(gone).meta = m
  <2> HIDE DEF m
  <2> QED BY <1>1, <1>2, <1>3 DEF Tables
<1> QED BY <1>4

(* Finish moves what was taken to what has been applied.                   *)
LEMMA FinishFacts ==
  ASSUME TypeOK, Finish
  PROVE  /\ applied' \in [Paths -> Content]
         /\ \A p \in Paths : applied'[p] >= applied[p]
         /\ \A p \in Paths, k \in Nat : Taken(p, k) => applied'[p] >= k
<1> DEFINE Stamped(p) == {applied[p]} \union {batch[i].stamp : i \in Positions(TRUE, p) \union Positions(FALSE, p)}
<1>1. Len(batch) \in Nat /\ DOMAIN batch = 1 .. Len(batch) /\ \A i \in DOMAIN batch : batch[i] \in Req
  BY LenProperties, ElementOfSeq DEF TypeOK
<1>2. MaxWrites + 2 \in Nat
  BY IndexerAssumption
<1>3. applied' = [p \in Paths |-> Max(Stamped(p))]
  BY DEF Finish
<1> SUFFICES ASSUME NEW p \in Paths
             PROVE  /\ Max(Stamped(p)) \in Content
                    /\ Max(Stamped(p)) >= applied[p]
                    /\ \A k \in Nat : Taken(p, k) => Max(Stamped(p)) >= k
  BY <1>3, Zenon
<1>4. Stamped(p) \in SUBSET Content /\ applied[p] \in Stamped(p)
  BY <1>1 DEF Positions, TypeOK, Req
<1>5. Max(Stamped(p)) \in Stamped(p) /\ \A x \in Stamped(p) : x <= Max(Stamped(p))
  <2> HIDE DEF Stamped
  <2> QED BY <1>2, <1>4, MaxFacts DEF Content
<1>6. \A i \in DOMAIN batch : batch[i].path = p => batch[i].stamp \in Stamped(p)
  <2> SUFFICES ASSUME NEW i \in DOMAIN batch, batch[i].path = p PROVE batch[i].stamp \in Stamped(p)
    OBVIOUS
  <2>1. batch[i].delete \in BOOLEAN
    BY <1>1 DEF Req
  <2>2. i \in Positions(batch[i].delete, p)
    BY DEF Positions
  <2>3. i \in Positions(TRUE, p) \union Positions(FALSE, p)
    BY <2>1, <2>2
  <2> QED BY <2>3
<1>7. Max(Stamped(p)) \in Content /\ Max(Stamped(p)) >= applied[p]
  BY <1>2, <1>4, <1>5 DEF Content
<1>8. ASSUME NEW k \in Nat, Taken(p, k) PROVE Max(Stamped(p)) >= k
  <2>1. CASE applied[p] >= k
    <3> HIDE DEF Stamped
    <3>1. applied[p] \in Nat /\ Max(Stamped(p)) \in Nat
      BY <1>2, <1>4, <1>7 DEF Content
    <3> QED BY <1>7, <2>1, <3>1
  <2>2. CASE Has(batch, p, k)
    <3>1. PICK i \in DOMAIN batch : batch[i].path = p /\ batch[i].stamp >= k
      BY <2>2 DEF Has
    <3>2. batch[i].stamp \in Stamped(p) /\ batch[i].stamp \in Content
      BY <1>1, <1>6, <3>1 DEF Req
    <3> HIDE DEF Stamped
    <3> QED BY <1>2, <1>4, <1>5, <3>1, <3>2 DEF Content
  <2> QED BY <1>8, <2>1, <2>2 DEF Taken
<1> QED BY <1>7, <1>8

(* Upserts that fail count their pages as missed, and change no other page *)
(* but to what is asked for.                                               *)
LEMMA UpsertsFailFacts ==
  ASSUME TypeOK, UpsertsFail
  PROVE  /\ index' \in Tables /\ missed \subseteq missed' /\ missed' \subseteq Paths /\ fails' \in Nat
         /\ \A p \in Paths : p \notin Batched(FALSE) =>
              /\ p \in index'.rows <=> p \in index.rows
              /\ index'.words[p] = index.words[p] /\ index'.meta[p] = index.meta[p]
         /\ \A p \in Paths \ missed' : p \in Batched(FALSE) =>
              /\ p \in index'.rows /\ {batch[i].stamp : i \in Positions(FALSE, p)} \subseteq index'.words[p]
              /\ index'.meta[p] = batch[Max(Positions(FALSE, p))].stamp
<1>1. index \in Tables /\ missed \subseteq Paths /\ fails \in Nat /\ Batched(FALSE) \subseteq Paths
  BY DEF TypeOK, Tables, Batched
<1>2. \A i \in DOMAIN batch : batch[i] \in Req
  BY LenProperties, ElementOfSeq DEF TypeOK
<1>3. fails' = fails + 1
  BY Zenon DEF UpsertsFail
<1>4. PICK failed \in SUBSET UNION {Positions(FALSE, p) : p \in Paths} :
         \/ /\ index' = Described(Inserted, failed)
            /\ missed' = missed \union {batch[i].path : i \in failed}
         \/ /\ index' = Described(index, failed)
            /\ missed' = missed \union Batched(FALSE)
  BY Zenon DEF UpsertsFail
<1>5. \A i \in failed : batch[i].path \in Paths /\ i \in Positions(FALSE, batch[i].path)
  BY <1>2, <1>4 DEF Positions, Req
<1>6. missed \subseteq missed' /\ missed' \subseteq Paths /\ fails' \in Nat
  <2>1. {batch[i].path : i \in failed} \subseteq Paths
    BY <1>5
  <2>2. missed \subseteq missed' /\ missed' \subseteq Paths
    BY <1>1, <1>4, <2>1
  <2> QED BY <1>1, <1>3, <2>2
<1>7. \A p \in Paths : p \notin Batched(FALSE) => Positions(FALSE, p) = {}
  BY DEF Batched
<1>8. \A p \in Paths : p \notin missed' =>
         p \notin Batched(FALSE) \/ (index' = Described(Inserted, failed) /\ Positions(FALSE, p) \ failed = Positions(FALSE, p))
  <2> SUFFICES ASSUME NEW p \in Paths, p \notin missed', p \in Batched(FALSE)
               PROVE  index' = Described(Inserted, failed) /\ Positions(FALSE, p) \ failed = Positions(FALSE, p)
    OBVIOUS
  <2>1. index' = Described(Inserted, failed) /\ missed' = missed \union {batch[i].path : i \in failed}
    BY <1>4
  <2>2. \A i \in Positions(FALSE, p) : batch[i].path = p
    BY DEF Positions
  <2> QED BY <2>1, <2>2
<1>9. \A p \in Batched(FALSE) : Positions(FALSE, p) # {}
  BY DEF Batched
<1>d. Inserted \in Tables /\ index \in Tables
  BY <1>1, InsertedFacts
<1>e. \A t \in {Inserted, index} :
        /\ Described(t, failed) \in Tables
        /\ Described(t, failed).rows = t.rows /\ Described(t, failed).words = t.words
        /\ \A p \in Paths : Described(t, failed).meta[p] = MetaOf(t, failed, p)
  <2> SUFFICES ASSUME NEW t \in {Inserted, index}
               PROVE  /\ Described(t, failed) \in Tables
                      /\ Described(t, failed).rows = t.rows /\ Described(t, failed).words = t.words
                      /\ \A p \in Paths : Described(t, failed).meta[p] = MetaOf(t, failed, p)
    OBVIOUS
  <2>1. t \in Tables
    BY <1>d
  <2> QED BY <2>1, DescribedFacts
<1>a. PICK t \in {Inserted, index} : index' = Described(t, failed)
  BY <1>4
<1>10. index' \in Tables
  BY <1>a, <1>e
<1>11. ASSUME NEW p \in Paths, p \notin Batched(FALSE)
       PROVE  /\ p \in index'.rows <=> p \in index.rows
              /\ index'.words[p] = index.words[p] /\ index'.meta[p] = index.meta[p]
  <2>1. Positions(FALSE, p) = {} /\ Positions(FALSE, p) \ failed = {}
    BY <1>7, <1>11
  <2>2. {batch[i].stamp : i \in Positions(FALSE, p)} = {}
    BY <2>1
  <2>3. Inserted.words[p] = index.words[p] /\ (p \in Inserted.rows <=> p \in index.rows) /\ Inserted.meta = index.meta
    BY <1>11, <2>2, InsertedFacts
  <2>4. t.words[p] = index.words[p] /\ (p \in t.rows <=> p \in index.rows) /\ t.meta[p] = index.meta[p]
    BY <2>3
  <2> QED BY <1>a, <1>e, <2>1, <2>4 DEF MetaOf
<1>12. ASSUME NEW p \in Paths \ missed', p \in Batched(FALSE)
       PROVE  /\ p \in index'.rows /\ {batch[i].stamp : i \in Positions(FALSE, p)} \subseteq index'.words[p]
              /\ index'.meta[p] = batch[Max(Positions(FALSE, p))].stamp
  <2>1. index' = Described(Inserted, failed) /\ Positions(FALSE, p) \ failed = Positions(FALSE, p) /\ Positions(FALSE, p) # {}
    BY <1>8, <1>9, <1>12
  <2>2. Inserted \in Tables /\ p \in Inserted.rows
        /\ Inserted.words[p] = index.words[p] \union {batch[i].stamp : i \in Positions(FALSE, p)}
    BY <1>12, InsertedFacts
  <2>3. /\ index'.rows = Inserted.rows /\ index'.words = Inserted.words
        /\ index'.meta[p] = batch[Max(Positions(FALSE, p) \ failed)].stamp
    BY <1>e, <2>1, <2>2 DEF MetaOf
  <2> QED BY <2>1, <2>2, <2>3
<1> QED BY <1>6, <1>10, <1>11, <1>12

(* What Resync indexes keeps the types.                                    *)
LEMMA ResyncIndexFacts ==
  ASSUME TypeOK, ResyncIndex
  PROVE  /\ resync.holds \in Req /\ resync.holds.path \in Paths /\ index' \in Tables
         /\ index'.rows = index.rows \union {resync.holds.path} /\ index'.meta = index.meta
<1>1. resync.holds \in Req /\ index \in Tables
  BY DEF ResyncIndex, TypeOK, Tables
<1>2. resync.holds.path \in Paths /\ resync.holds.stamp \in Content
  BY <1>1 DEF Req
<1> DEFINE p == resync.holds.path
           w == [index.words EXCEPT ![p] = index.words[p] \union {resync.holds.stamp}]
<1>3. w \in [Paths -> SUBSET Content]
  BY <1>1, <1>2 DEF Tables
<1>4. index' = [index EXCEPT !.rows = index.rows \union {p}, !.words = w]
  BY <1>1 DEF ResyncIndex, Tables
<1> HIDE DEF w
<1> QED BY <1>1, <1>2, <1>3, <1>4 DEF Tables

(* Enqueue either hands the change over or counts it as missed.            *)
LEMMA EnqueueFacts ==
  ASSUME TypeOK, Stamps, Enqueue
  PROVE  /\ writer \in Req /\ pending' = Append(pending, writer)
         /\ \A p \in Paths : sent'[p] = sent[p] \/ (sent'[p] = writer.stamp /\ p = writer.path)
         /\ \A p \in Paths : sent'[p] >= sent[p] /\ sent'[p] <= clock
         /\ life = "stopped" => sent' = sent
<1>1. writer \in Req /\ writer.stamp = clock /\ pending' = Append(pending, writer)
  BY DEF Enqueue, TypeOK, Stamps
<1>2. sent \in [Paths -> Content] /\ writer.path \in Paths /\ clock \in Nat /\ \A p \in Paths : sent[p] \in Nat /\ sent[p] <= clock
  BY IndexerAssumption DEF TypeOK, Content, Req, Stamps, Enqueue
<1>3. sent' = sent \/ (life # "stopped" /\ sent' = [sent EXCEPT ![writer.path] = writer.stamp])
  BY DEF Enqueue
<1> QED BY <1>1, <1>2, <1>3

(* What covers a change covers the ones before it.                         *)
LEMMA TakenBelow ==
  ASSUME TypeOK, NEW p \in Paths, NEW k \in Nat, NEW j \in Nat, j <= k, Taken(p, k)
  PROVE  Taken(p, j)
<1>1. applied[p] \in Nat
  BY DEF TypeOK, Content
<1>2. DOMAIN batch = 1 .. Len(batch) /\ \A i \in DOMAIN batch : batch[i] \in Req
  BY LenProperties, ElementOfSeq DEF TypeOK
<1>3. \A i \in DOMAIN batch : batch[i].stamp \in Nat
  BY <1>2 DEF Req, Content
<1> QED BY <1>1, <1>2, <1>3 DEF Taken, Has

(* Every step keeps the types.                                             *)
LEMMA StepTypes ==
  ASSUME TypeOK, [Next]_vars
  PROVE  TypeOK'
<1> USE IndexerAssumption
<1>n. NoReq.stamp \in Content /\ 0 \in Content /\ Zero \in [Paths -> Content]
  BY DEF NoReq, Content, Zero
<1>1. ASSUME NEW p \in Paths, WritePage(p) PROVE TypeOK'
  <2>1. clock \in Content /\ clock < MaxWrites + 2 /\ clock' = clock + 1 /\ MaxWrites + 2 \in Nat
    BY <1>1 DEF WritePage, Touch, TypeOK
  <2>2. clock' \in Content
    BY <2>1 DEF Content
  <2>3. writer' \in Req
    BY <1>1, <2>2 DEF WritePage, Touch, Req
  <2>4. disk' \in [Paths -> Content] /\ raced' \subseteq Paths
    BY <1>1, <1>n, <2>1, <2>2 DEF WritePage, Touch, TypeOK
  <2> HIDE DEF Content
  <2> QED BY <1>1, <2>2, <2>3, <2>4 DEF WritePage, Touch, TypeOK, channel, ghost
<1>2. ASSUME NEW p \in Paths, DeletePage(p) PROVE TypeOK'
  <2>1. clock \in Content /\ clock < MaxWrites + 2 /\ clock' = clock + 1 /\ MaxWrites + 2 \in Nat
    BY <1>2 DEF DeletePage, Touch, TypeOK
  <2>2. clock' \in Content
    BY <2>1 DEF Content
  <2>3. writer' \in Req
    BY <1>2, <2>2 DEF DeletePage, Touch, Req
  <2>4. disk' \in [Paths -> Content] /\ raced' \subseteq Paths
    BY <1>2, <1>n, <2>1, <2>2 DEF DeletePage, Touch, TypeOK
  <2> HIDE DEF Content
  <2> QED BY <1>2, <2>2, <2>3, <2>4 DEF DeletePage, Touch, TypeOK, channel, ghost
<1>3. CASE Enqueue
  <2>1. writer \in Req /\ pending' = Append(pending, writer) /\ Len(pending) < PendingCap
    BY <1>3 DEF Enqueue, HasRoom, TypeOK
  <2>2. pending' \in Seq(Req) /\ Len(pending') <= PendingCap
    BY <2>1, AppendProperties, LenProperties DEF TypeOK
  <2>3. sent' \in [Paths -> Content] /\ missed' \subseteq Paths
    BY <1>3, <2>1 DEF Enqueue, TypeOK, Req
  <2> QED BY <1>3, <2>2, <2>3 DEF Enqueue, TypeOK, store
<1>4. CASE EnqueueAfterStop
  BY <1>4, <1>n DEF EnqueueAfterStop, TypeOK, store, channel, Req
<1>5. ASSUME NEW w \in Waiters, CallFlush(w) PROVE TypeOK'
  BY <1>5, <1>n DEF CallFlush, TypeOK, store, channel, ghost
<1>6. ASSUME NEW w \in Waiters, SendFlush(w) PROVE TypeOK'
  <2>1. flushCh' \in Seq(Waiters) /\ Len(flushCh') <= 1
    BY <1>6 DEF SendFlush
  <2>2. waiter' \in [Waiters -> [pc : {"idle", "send", "wait", "done"}, want : [Paths -> Content]]]
    BY <1>6 DEF SendFlush, TypeOK
  <2>3. UNCHANGED <<disk, clock, raced, index, writer, pending, sent, batch, timer, loop, life, resync, applied, missed, fails>>
    BY <1>6 DEF SendFlush, store, channel, ghost
  <2> HIDE DEF Content, Req, NoReq, None
  <2> QED BY <2>1, <2>2, <2>3 DEF TypeOK
<1>7. ASSUME NEW w \in Waiters, FlushAfterStop(w) PROVE TypeOK'
  BY <1>7, <1>n DEF FlushAfterStop, TypeOK, store, channel, ghost
<1>8. ASSUME NEW w \in Waiters, FlushReturns(w) PROVE TypeOK'
  BY <1>8, <1>n DEF FlushReturns, TypeOK, store, channel, ghost
<1>9. CASE TakeRequest
  <2>1. pending' \in Seq(Req) /\ Len(pending') <= PendingCap /\ batch' \in Seq(Req)
    BY <1>9, HasTail, AppendProperties, LenProperties DEF TakeRequest, TypeOK
  <2>2. timer' \in BOOLEAN
    BY <1>9 DEF TakeRequest, ArmTimer
  <2>3. loop' = loop \/ loop' = [loop EXCEPT !.pc = "upserts"]
    BY <1>9 DEF TakeRequest
  <2>4. loop' \in [pc : {"select", "drain", "upserts", "deletes", "exited"},
                    next : {"select", "exited"}, answers : Waiters \union {None}]
    BY <2>3 DEF TypeOK
  <2> QED BY <1>9, <2>1, <2>2, <2>4 DEF TakeRequest, TypeOK, store, ghost
<1>10. CASE TimerFires
  BY <1>10, <1>n DEF TimerFires, TypeOK, store, channel, ghost
<1>11. CASE TakeFlush
  <2>1. Head(flushCh) \in Waiters
    BY <1>11, HeadTailProperties DEF TakeFlush, TypeOK
  <2>2. flushCh' \in Seq(Waiters) /\ Len(flushCh') <= 1
    BY <1>11 DEF TakeFlush
  <2>3. loop' \in [pc : {"select", "drain", "upserts", "deletes", "exited"},
                    next : {"select", "exited"}, answers : Waiters \union {None}]
    BY <1>11, <2>1 DEF TakeFlush, TypeOK
  <2> QED BY <1>11, <2>2, <2>3 DEF TakeFlush, TypeOK, store, channel, ghost
<1>12. CASE SeeStop
  BY <1>12, <1>n DEF SeeStop, TypeOK, store, channel, ghost
<1>13. CASE DrainOne
  <2>1. pending' \in Seq(Req) /\ Len(pending') <= PendingCap /\ batch' \in Seq(Req)
    BY <1>13, HasTail, AppendProperties, LenProperties DEF DrainOne, TypeOK
  <2> QED BY <1>13, <2>1 DEF DrainOne, TypeOK, store, ghost
<1>14. CASE Drained
  BY <1>14, <1>n DEF Drained, TypeOK, store, channel, ghost
<1>15. CASE Upserts
  <2>1. index' \in Tables
    BY <1>15, InsertedFacts, DescribedFacts DEF Upserts
  <2> QED BY <1>15, <2>1 DEF Upserts, TypeOK, Tables, store, channel, ghost
<1>16. CASE UpsertsFail
  <2>1. index' \in Tables /\ missed' \subseteq Paths /\ fails' \in Nat
    BY <1>16, UpsertsFailFacts
  <2> QED BY <1>16, <2>1 DEF UpsertsFail, TypeOK, Tables, store, channel
<1>17. CASE Deletes
  <2>1. applied' \in [Paths -> Content]
    BY <1>17, FinishFacts DEF Deletes
  <2> HIDE DEF Content
  <2>b. Batched(TRUE) \subseteq Paths
    BY DEF Batched
  <2>i. index' \in Tables
    BY <1>17, RemovedFacts DEF Deletes
  <2>m. missed \subseteq Paths /\ fails \in Nat
    BY DEF TypeOK
  <2>2. index' \in Tables /\ missed' \subseteq Paths /\ fails' \in Nat
    <3>1. missed' \subseteq Paths /\ fails' \in Nat
      BY <1>17, <2>m DEF Deletes
    <3> QED BY <2>i, <3>1
  <2>3. waiter' \in [Waiters -> [pc : {"idle", "send", "wait", "done"}, want : [Paths -> Content]]]
    <3>1. \A w \in Waiters : [waiter[w] EXCEPT !.pc = "done"] \in [pc : {"idle", "send", "wait", "done"}, want : [Paths -> Content]]
      BY DEF TypeOK
    <3>2. waiter' = [w \in Waiters |-> IF w = loop.answers THEN [waiter[w] EXCEPT !.pc = "done"] ELSE waiter[w]]
      BY <1>17 DEF Deletes, Finish
    <3> QED BY <3>1, <3>2 DEF TypeOK
  <2>4. loop' \in [pc : {"select", "drain", "upserts", "deletes", "exited"},
                    next : {"select", "exited"}, answers : Waiters \union {None}]
    BY <1>17 DEF Deletes, Finish, TypeOK
  <2>5. batch' \in Seq(Req)
    BY <1>17, EmptySeq DEF Deletes, Finish
  <2> QED BY <1>17, <2>1, <2>2, <2>3, <2>4, <2>5 DEF Deletes, Finish, TypeOK, Tables, store, channel
<1>18. CASE DeletesFail
  <2>1. applied' \in [Paths -> Content]
    BY <1>18, FinishFacts DEF DeletesFail
  <2> HIDE DEF Content
  <2>b. Batched(TRUE) \subseteq Paths
    BY DEF Batched
  <2>i. index' \in Tables
    BY <1>18, RemovedFacts DEF DeletesFail
  <2>m. missed \subseteq Paths /\ fails \in Nat
    BY DEF TypeOK
  <2>2. index' \in Tables /\ missed' \subseteq Paths /\ fails' \in Nat
    <3> DEFINE B == Batched(TRUE)
    <3>2. fails' = fails + 1 /\ \E failed \in (SUBSET B) \ {{}} : missed' = missed \union failed
      BY <1>18, Zenon DEF DeletesFail
    <3>3. B \subseteq Paths
      BY <2>b
    <3> HIDE DEF B
    <3>1. missed' \subseteq Paths /\ fails' \in Nat
      BY <2>m, <3>2, <3>3
    <3> QED BY <2>i, <3>1
  <2>3. waiter' \in [Waiters -> [pc : {"idle", "send", "wait", "done"}, want : [Paths -> Content]]]
    <3>1. \A w \in Waiters : [waiter[w] EXCEPT !.pc = "done"] \in [pc : {"idle", "send", "wait", "done"}, want : [Paths -> Content]]
      BY DEF TypeOK
    <3>2. waiter' = [w \in Waiters |-> IF w = loop.answers THEN [waiter[w] EXCEPT !.pc = "done"] ELSE waiter[w]]
      BY <1>18 DEF DeletesFail, Finish
    <3> QED BY <3>1, <3>2 DEF TypeOK
  <2>4. loop' \in [pc : {"select", "drain", "upserts", "deletes", "exited"},
                    next : {"select", "exited"}, answers : Waiters \union {None}]
    BY <1>18 DEF DeletesFail, Finish, TypeOK
  <2>5. batch' \in Seq(Req)
    BY <1>18, EmptySeq DEF DeletesFail, Finish
  <2> QED BY <1>18, <2>1, <2>2, <2>3, <2>4, <2>5 DEF DeletesFail, Finish, TypeOK, Tables, store, channel
<1>19. CASE ResyncList
  BY <1>19, <1>n DEF ResyncList, TypeOK, store, channel, ghost
<1>20. CASE ResyncIndex
  <2>1. index' \in Tables
    BY <1>20, ResyncIndexFacts
  <2> QED BY <1>20, <1>n, <2>1 DEF ResyncIndex, TypeOK, Tables, store, channel, ghost, Req
<1>21. CASE ResyncWalked
  BY <1>21, <1>n DEF ResyncWalked, TypeOK, store, channel, ghost
<1>22. CASE ResyncEnds
  BY <1>22, <1>n DEF ResyncEnds, EndedResync, TypeOK, store, channel, ghost
<1>23. ASSUME NEW p \in Paths, ResyncVisit(p) PROVE TypeOK'
  BY <1>23, <1>n DEF ResyncVisit, TypeOK, store, channel, ghost, Req
<1>24. ASSUME NEW p \in Paths, ResyncRemove(p) PROVE TypeOK'
  BY <1>24, <1>n DEF ResyncRemove, TypeOK, store, channel, ghost
<1>28. ASSUME NEW p \in Paths, ResyncSkips(p) PROVE TypeOK'
  <2>1. resync' \in [pc : {"list", "walk", "remove", "done"},
                     indexed : SUBSET Paths, onDisk : SUBSET Paths, toVisit : SUBSET Paths,
                     holds : Req \union {NoReq}]
    <3>1. resync \in [pc : {"list", "walk", "remove", "done"},
                      indexed : SUBSET Paths, onDisk : SUBSET Paths, toVisit : SUBSET Paths,
                      holds : Req \union {NoReq}]
      BY DEF TypeOK
    <3>2. \/ resync' = [resync EXCEPT !.toVisit = @ \ {p}, !.onDisk = @ \union {p}]
          \/ resync' = [resync EXCEPT !.holds = NoReq]
          \/ resync' = [resync EXCEPT !.indexed = @ \ {p}]
      BY <1>28 DEF ResyncSkips
    <3>3. CASE resync' = [resync EXCEPT !.toVisit = @ \ {p}, !.onDisk = @ \union {p}]
      BY <3>1, <3>3
    <3>4. CASE resync' = [resync EXCEPT !.holds = NoReq]
      BY <3>1, <3>4
    <3>5. CASE resync' = [resync EXCEPT !.indexed = @ \ {p}]
      BY <3>1, <3>5
    <3> QED BY <3>2, <3>3, <3>4, <3>5
  <2>2. missed' \subseteq Paths /\ fails' \in Nat
    BY <1>28, <1>n DEF ResyncSkips, TypeOK
  <2> QED BY <1>28, <2>1, <2>2 DEF ResyncSkips, TypeOK, store, channel
<1>29. CASE ResyncAborts
  BY <1>29, <1>n DEF ResyncAborts, EndedResync, TypeOK, store, channel
<1>25. CASE StackClose
  BY <1>25, <1>n DEF StackClose, TypeOK, store, channel, ghost
<1>26. CASE Close
  BY <1>26, <1>n DEF Close, TypeOK, store, channel, ghost
<1>27. CASE UNCHANGED vars
  BY <1>27, <1>n DEF vars, TypeOK
<1> QED BY <1>1, <1>2, <1>3, <1>4, <1>5, <1>6, <1>7, <1>8, <1>9, <1>10, <1>11, <1>12, <1>13, <1>14, <1>15, <1>16, <1>17, <1>18, <1>19, <1>20, <1>21, <1>22, <1>23, <1>24, <1>25, <1>26, <1>27, <1>28, <1>29 DEF Next, Flush, Loop, Resync

(* Every step keeps the changes in order.                                  *)
LEMMA StepStamps ==
  ASSUME Inv, [Next]_vars
  PROVE  Stamps'
<1>i. TypeOK /\ Stamps
  BY DEF Inv
<1>1. ASSUME NEW p \in Paths, WritePage(p) PROVE Stamps'
  BY <1>1, <1>i DEF WritePage, Touch, channel, TypeOK, Stamps, Content
<1>2. ASSUME NEW p \in Paths, DeletePage(p) PROVE Stamps'
  BY <1>2, <1>i DEF DeletePage, Touch, channel, TypeOK, Stamps, Content
<1>3. CASE Enqueue
  <2>1. clock' = clock /\ writer' = NoReq
    BY <1>3 DEF Enqueue, store
  <2> QED BY <1>3, <1>i, <2>1, EnqueueFacts DEF Stamps
<1>4. CASE EnqueueAfterStop
  BY <1>4, <1>i DEF EnqueueAfterStop, store, channel, Stamps
<1>5. ASSUME NEW w \in Waiters, CallFlush(w) PROVE Stamps'
  BY <1>5, <1>i DEF CallFlush, store, channel, Stamps
<1>6. ASSUME NEW w \in Waiters, SendFlush(w) PROVE Stamps'
  BY <1>6, <1>i DEF SendFlush, store, channel, Stamps
<1>7. ASSUME NEW w \in Waiters, FlushAfterStop(w) PROVE Stamps'
  BY <1>7, <1>i DEF FlushAfterStop, store, channel, Stamps
<1>8. ASSUME NEW w \in Waiters, FlushReturns(w) PROVE Stamps'
  BY <1>8, <1>i DEF FlushReturns, store, channel, Stamps
<1>9. CASE TakeRequest
  BY <1>9, <1>i DEF TakeRequest, store, Stamps
<1>10. CASE TimerFires
  BY <1>10, <1>i DEF TimerFires, store, channel, Stamps
<1>11. CASE TakeFlush
  BY <1>11, <1>i DEF TakeFlush, store, channel, Stamps
<1>12. CASE SeeStop
  BY <1>12, <1>i DEF SeeStop, store, channel, Stamps
<1>13. CASE DrainOne
  BY <1>13, <1>i DEF DrainOne, store, Stamps
<1>14. CASE Drained
  BY <1>14, <1>i DEF Drained, store, channel, Stamps
<1>15. CASE Upserts
  BY <1>15, <1>i DEF Upserts, store, channel, Stamps
<1>16. CASE UpsertsFail
  BY <1>16, <1>i DEF UpsertsFail, store, channel, Stamps
<1>17. CASE Deletes
  <2>1. UNCHANGED <<sent, clock, writer>>
    BY <1>17 DEF Deletes, Finish, store, channel
  <2> QED BY <1>i, <2>1 DEF Stamps
<1>18. CASE DeletesFail
  <2>1. UNCHANGED <<sent, clock, writer>>
    BY <1>18 DEF DeletesFail, Finish, store, channel
  <2> QED BY <1>i, <2>1 DEF Stamps
<1>19. CASE ResyncList
  BY <1>19, <1>i DEF ResyncList, store, channel, Stamps
<1>20. CASE ResyncIndex
  BY <1>20, <1>i DEF ResyncIndex, store, channel, Stamps
<1>21. CASE ResyncWalked
  BY <1>21, <1>i DEF ResyncWalked, store, channel, Stamps
<1>22. CASE ResyncEnds
  BY <1>22, <1>i DEF ResyncEnds, store, channel, Stamps
<1>23. ASSUME NEW p \in Paths, ResyncVisit(p) PROVE Stamps'
  BY <1>23, <1>i DEF ResyncVisit, store, channel, Stamps
<1>24. ASSUME NEW p \in Paths, ResyncRemove(p) PROVE Stamps'
  BY <1>24, <1>i DEF ResyncRemove, store, channel, Stamps
<1>28. ASSUME NEW p \in Paths, ResyncSkips(p) PROVE Stamps'
  BY <1>28, <1>i DEF ResyncSkips, store, channel, Stamps
<1>29. CASE ResyncAborts
  BY <1>29, <1>i DEF ResyncAborts, store, channel, Stamps
<1>25. CASE StackClose
  BY <1>25, <1>i DEF StackClose, store, channel, Stamps
<1>26. CASE Close
  BY <1>26, <1>i DEF Close, store, channel, Stamps
<1>27. CASE UNCHANGED vars
  BY <1>27, <1>i DEF vars, Stamps
<1> QED BY <1>1, <1>2, <1>3, <1>4, <1>5, <1>6, <1>7, <1>8, <1>9, <1>10, <1>11, <1>12, <1>13, <1>14, <1>15, <1>16, <1>17, <1>18, <1>19, <1>20, <1>21, <1>22, <1>23, <1>24, <1>25, <1>26, <1>27, <1>28, <1>29 DEF Next, Flush, Loop, Resync

(* Every step keeps hold of what was handed over.                          *)
LEMMA StepCarried ==
  ASSUME Inv, [Next]_vars
  PROVE  Carried'
<1>i. TypeOK /\ TypeOK' /\ Stamps /\ Carried
  BY StepTypes DEF Inv
<1>1. ASSUME NEW p \in Paths, WritePage(p) PROVE Carried'
  BY <1>1, <1>i DEF WritePage, Touch, channel, ghost, Carried, Covered, Taken
<1>2. ASSUME NEW p \in Paths, DeletePage(p) PROVE Carried'
  BY <1>2, <1>i DEF DeletePage, Touch, channel, ghost, Carried, Covered, Taken
<1>3. CASE Enqueue
  <2>e. pending \in Seq(Req) /\ writer \in Req /\ pending' = Append(pending, writer)
    <3>1. pending \in Seq(Req)
      BY <1>i DEF TypeOK
    <3> QED BY <1>3, <1>i, <3>1, EnqueueFacts
  <2>1. \A p, k : Has(pending, p, k) => Has(pending', p, k)
    BY <2>e, HasAppend
  <2>2. \A p \in Paths : p = writer.path => Has(pending', p, writer.stamp)
    <3>1. writer.stamp >= writer.stamp
      BY <2>e DEF Req, Content
    <3> QED BY <2>e, <3>1, HasAppend
  <2>3. UNCHANGED <<applied, batch>>
    BY <1>3 DEF Enqueue
  <2> QED BY <1>3, <1>i, <2>1, <2>2, <2>3, EnqueueFacts DEF Carried, Covered, Taken
<1>4. CASE EnqueueAfterStop
  BY <1>4, <1>i DEF EnqueueAfterStop, channel, Carried, Covered, Taken
<1>5. ASSUME NEW w \in Waiters, CallFlush(w) PROVE Carried'
  BY <1>5, <1>i DEF CallFlush, channel, ghost, Carried, Covered, Taken
<1>6. ASSUME NEW w \in Waiters, SendFlush(w) PROVE Carried'
  BY <1>6, <1>i DEF SendFlush, channel, ghost, Carried, Covered, Taken
<1>7. ASSUME NEW w \in Waiters, FlushAfterStop(w) PROVE Carried'
  BY <1>7, <1>i DEF FlushAfterStop, channel, ghost, Carried, Covered, Taken
<1>8. ASSUME NEW w \in Waiters, FlushReturns(w) PROVE Carried'
  BY <1>8, <1>i DEF FlushReturns, channel, ghost, Carried, Covered, Taken
<1>9. CASE TakeRequest
  <2>1. \A p, k : Has(batch, p, k) => Has(batch', p, k)
    BY <1>9, <1>i, HasAppend, HasTail DEF TakeRequest, TypeOK
  <2>2. \A p, k : Has(pending, p, k) => Has(batch', p, k) \/ Has(pending', p, k)
    BY <1>9, <1>i, HasAppend, HasTail DEF TakeRequest, TypeOK
  <2> QED BY <1>9, <1>i, <2>1, <2>2 DEF TakeRequest, Carried, Covered, Taken, ghost
<1>10. CASE TimerFires
  BY <1>10, <1>i DEF TimerFires, channel, ghost, Carried, Covered, Taken
<1>11. CASE TakeFlush
  BY <1>11, <1>i DEF TakeFlush, channel, ghost, Carried, Covered, Taken
<1>12. CASE SeeStop
  BY <1>12, <1>i DEF SeeStop, channel, ghost, Carried, Covered, Taken
<1>13. CASE DrainOne
  <2>1. \A p, k : Has(batch, p, k) => Has(batch', p, k)
    BY <1>13, <1>i, HasAppend, HasTail DEF DrainOne, TypeOK
  <2>2. \A p, k : Has(pending, p, k) => Has(batch', p, k) \/ Has(pending', p, k)
    BY <1>13, <1>i, HasAppend, HasTail DEF DrainOne, TypeOK
  <2> QED BY <1>13, <1>i, <2>1, <2>2 DEF DrainOne, Carried, Covered, Taken, ghost
<1>14. CASE Drained
  BY <1>14, <1>i DEF Drained, channel, ghost, Carried, Covered, Taken
<1>15. CASE Upserts
  BY <1>15, <1>i DEF Upserts, channel, ghost, Carried, Covered, Taken
<1>16. CASE UpsertsFail
  BY <1>16, <1>i DEF UpsertsFail, channel, Carried, Covered, Taken
<1>17. CASE Deletes
  <2>1. Finish
    BY <1>17 DEF Deletes
  <2>2. \A p \in Paths : sent[p] \in Nat
    BY <1>i, IndexerAssumption DEF TypeOK, Content
  <2>3. UNCHANGED <<sent, pending>>
    BY <2>1 DEF Finish, channel
  <2> QED BY <1>i, <2>1, <2>2, <2>3, FinishFacts DEF Carried, Covered, Taken
<1>18. CASE DeletesFail
  <2>1. Finish
    BY <1>18 DEF DeletesFail
  <2>2. \A p \in Paths : sent[p] \in Nat
    BY <1>i, IndexerAssumption DEF TypeOK, Content
  <2>3. UNCHANGED <<sent, pending>>
    BY <2>1 DEF Finish, channel
  <2> QED BY <1>i, <2>1, <2>2, <2>3, FinishFacts DEF Carried, Covered, Taken
<1>19. CASE ResyncList
  BY <1>19, <1>i DEF ResyncList, channel, ghost, Carried, Covered, Taken
<1>20. CASE ResyncIndex
  BY <1>20, <1>i DEF ResyncIndex, channel, ghost, Carried, Covered, Taken
<1>21. CASE ResyncWalked
  BY <1>21, <1>i DEF ResyncWalked, channel, ghost, Carried, Covered, Taken
<1>22. CASE ResyncEnds
  BY <1>22, <1>i DEF ResyncEnds, channel, ghost, Carried, Covered, Taken
<1>23. ASSUME NEW p \in Paths, ResyncVisit(p) PROVE Carried'
  BY <1>23, <1>i DEF ResyncVisit, channel, ghost, Carried, Covered, Taken
<1>24. ASSUME NEW p \in Paths, ResyncRemove(p) PROVE Carried'
  BY <1>24, <1>i DEF ResyncRemove, channel, ghost, Carried, Covered, Taken
<1>28. ASSUME NEW p \in Paths, ResyncSkips(p) PROVE Carried'
  BY <1>28, <1>i DEF ResyncSkips, channel, Carried, Covered, Taken
<1>29. CASE ResyncAborts
  BY <1>29, <1>i DEF ResyncAborts, channel, Carried, Covered, Taken
<1>25. CASE StackClose
  BY <1>25, <1>i DEF StackClose, channel, ghost, Carried, Covered, Taken
<1>26. CASE Close
  BY <1>26, <1>i DEF Close, channel, ghost, Carried, Covered, Taken
<1>27. CASE UNCHANGED vars
  BY <1>27, <1>i DEF vars, Carried, Covered, Taken
<1> QED BY <1>1, <1>2, <1>3, <1>4, <1>5, <1>6, <1>7, <1>8, <1>9, <1>10, <1>11, <1>12, <1>13, <1>14, <1>15, <1>16, <1>17, <1>18, <1>19, <1>20, <1>21, <1>22, <1>23, <1>24, <1>25, <1>26, <1>27, <1>28, <1>29 DEF Next, Flush, Loop, Resync

(* Every step keeps what a waiter has been promised.                       *)
LEMMA StepAnswering ==
  ASSUME Inv, [Next]_vars
  PROVE  Answering'
<1> USE IndexerAssumption
<1>i. TypeOK /\ TypeOK' /\ Stamps /\ Carried /\ Answering
  BY StepTypes DEF Inv
<1>1. ASSUME NEW p \in Paths, WritePage(p) PROVE Answering'
  BY <1>1, <1>i DEF WritePage, Touch, channel, ghost, Answering, Taken
<1>2. ASSUME NEW p \in Paths, DeletePage(p) PROVE Answering'
  BY <1>2, <1>i DEF DeletePage, Touch, channel, ghost, Answering, Taken
<1>3. CASE Enqueue
  <2>n. \A p \in Paths : sent[p] \in Nat /\ sent'[p] \in Nat
    BY <1>i DEF TypeOK, Content
  <2>1. \A p \in Paths : sent'[p] >= sent[p] /\ sent[p] \in Nat /\ sent'[p] \in Nat
    BY <1>3, <1>i, <2>n, EnqueueFacts
  <2>2. \A w \in Waiters, p \in Paths : waiter[w].want[p] \in Nat
    BY <1>i DEF TypeOK, Content
  <2>3. UNCHANGED <<batch, flushCh, loop, waiter, applied>>
    BY <1>3 DEF Enqueue
  <2>4. \A w \in Waiters, p \in Paths : waiter[w].want[p] <= sent'[p]
    BY <1>i, <2>1, <2>2 DEF Answering
  <2> QED BY <1>i, <2>3, <2>4 DEF Answering, Taken
<1>4. CASE EnqueueAfterStop
  BY <1>4, <1>i DEF EnqueueAfterStop, channel, Answering, Taken
<1>5. ASSUME NEW w \in Waiters, CallFlush(w) PROVE Answering'
  <2>1. \A v \in Waiters \ {w} : waiter'[v] = waiter[v]
    BY <1>5, <1>i DEF CallFlush
  <2>2. waiter[w].pc = "idle" /\ waiter'[w] = [pc |-> "send", want |-> sent]
    BY <1>5, <1>i DEF CallFlush, TypeOK
  <2>3. UNCHANGED <<sent, applied, batch, loop>>
    BY <1>5 DEF CallFlush, channel, ghost
  <2>4. w # loop.answers
    BY <1>i, <2>2 DEF Answering, None
  <2>5. \A p \in Paths : sent[p] <= sent[p]
    BY <1>i DEF Answering, TypeOK, Content, Zero
  <2>6. flushCh # <<>> /\ flushCh[1] \in Waiters => flushCh[1] # w
    BY <1>i, <2>2 DEF Answering
  <2>7. flushCh # <<>> => flushCh[1] \in Waiters
    BY <1>i, ElementOfSeq, EmptySeq, LenProperties DEF TypeOK
  <2>8. flushCh' = flushCh
    BY <1>5 DEF CallFlush
  <2>9. loop.answers \in Waiters \union {None}
    BY <1>i DEF TypeOK
  <2> QED BY <1>i, <2>1, <2>2, <2>3, <2>4, <2>5, <2>6, <2>7, <2>8, <2>9 DEF Answering, Taken, None
<1>6. ASSUME NEW w \in Waiters, SendFlush(w) PROVE Answering'
  <2>1. \A v \in Waiters \ {w} : waiter'[v] = waiter[v]
    BY <1>6, <1>i DEF SendFlush
  <2>2. waiter[w].pc = "send" /\ waiter'[w] = [pc |-> "wait", want |-> waiter[w].want]
    BY <1>6, <1>i DEF SendFlush, TypeOK
  <2>3. UNCHANGED <<sent, applied, batch, loop>>
    BY <1>6 DEF SendFlush, channel, ghost
  <2>4. w # loop.answers
    BY <1>i, <2>2 DEF Answering, None
  <2>5. \A p \in Paths : waiter[w].want[p] <= sent[p]
    BY <1>i DEF Answering, TypeOK, Content, Zero
  <2>6. flushCh # <<>> /\ flushCh[1] \in Waiters => flushCh[1] # w
    BY <1>i, <2>2 DEF Answering
  <2>7. flushCh # <<>> => flushCh[1] \in Waiters
    BY <1>i, ElementOfSeq, EmptySeq, LenProperties DEF TypeOK
  <2>8. flushCh' = <<w>> /\ flushCh'[1] = w
    BY <1>6 DEF SendFlush
  <2>9. loop.answers \in Waiters \union {None}
    BY <1>i DEF TypeOK
  <2> QED BY <1>i, <2>1, <2>2, <2>3, <2>4, <2>5, <2>8, <2>9 DEF Answering, Taken, None
<1>7. ASSUME NEW w \in Waiters, FlushAfterStop(w) PROVE Answering'
  <2>1. \A v \in Waiters \ {w} : waiter'[v] = waiter[v]
    BY <1>7, <1>i DEF FlushAfterStop
  <2>2. waiter[w].pc = "send" /\ waiter'[w] = [pc |-> "idle", want |-> Zero]
    BY <1>7, <1>i DEF FlushAfterStop, TypeOK
  <2>3. UNCHANGED <<sent, applied, batch, loop>>
    BY <1>7 DEF FlushAfterStop, channel, ghost
  <2>4. w # loop.answers
    BY <1>i, <2>2 DEF Answering, None
  <2>5. \A p \in Paths : Zero[p] <= sent[p]
    BY <1>i DEF Answering, TypeOK, Content, Zero
  <2>6. flushCh # <<>> /\ flushCh[1] \in Waiters => flushCh[1] # w
    BY <1>i, <2>2 DEF Answering
  <2>7. flushCh # <<>> => flushCh[1] \in Waiters
    BY <1>i, ElementOfSeq, EmptySeq, LenProperties DEF TypeOK
  <2>8. flushCh' = flushCh
    BY <1>7 DEF FlushAfterStop
  <2>9. loop.answers \in Waiters \union {None}
    BY <1>i DEF TypeOK
  <2> QED BY <1>i, <2>1, <2>2, <2>3, <2>4, <2>5, <2>6, <2>7, <2>8, <2>9 DEF Answering, Taken, None
<1>8. ASSUME NEW w \in Waiters, FlushReturns(w) PROVE Answering'
  <2>1. \A v \in Waiters \ {w} : waiter'[v] = waiter[v]
    BY <1>8, <1>i DEF FlushReturns
  <2>2. waiter[w].pc = "done" /\ waiter'[w] = [pc |-> "idle", want |-> Zero]
    BY <1>8, <1>i DEF FlushReturns, TypeOK
  <2>3. UNCHANGED <<sent, applied, batch, loop>>
    BY <1>8 DEF FlushReturns, channel, ghost
  <2>4. w # loop.answers
    BY <1>i, <2>2 DEF Answering, None
  <2>5. \A p \in Paths : Zero[p] <= sent[p]
    BY <1>i DEF Answering, TypeOK, Content, Zero
  <2>6. flushCh # <<>> /\ flushCh[1] \in Waiters => flushCh[1] # w
    BY <1>i, <2>2 DEF Answering
  <2>7. flushCh # <<>> => flushCh[1] \in Waiters
    BY <1>i, ElementOfSeq, EmptySeq, LenProperties DEF TypeOK
  <2>8. flushCh' = flushCh
    BY <1>8 DEF FlushReturns
  <2>9. loop.answers \in Waiters \union {None}
    BY <1>i DEF TypeOK
  <2> QED BY <1>i, <2>1, <2>2, <2>3, <2>4, <2>5, <2>6, <2>7, <2>8, <2>9 DEF Answering, Taken, None
<1>9. CASE TakeRequest
  BY <1>9, <1>i DEF TakeRequest, ghost, Answering
<1>10. CASE TimerFires
  BY <1>10, <1>i DEF TimerFires, channel, ghost, Answering
<1>11. CASE TakeFlush
  BY <1>11, <1>i DEF TakeFlush, channel, ghost, Answering
<1>12. CASE SeeStop
  BY <1>12, <1>i DEF SeeStop, channel, ghost, Answering
<1>13. CASE DrainOne
  BY <1>13, <1>i DEF DrainOne, ghost, Answering
<1>14. CASE Drained
  <2>1. pending = <<>> /\ loop' = [loop EXCEPT !.pc = "upserts"] /\ loop.pc = "drain"
        /\ UNCHANGED <<sent, batch, flushCh, waiter, applied>>
    BY <1>14 DEF Drained, channel, ghost
  <2>2. \A p \in Paths : Taken(p, sent[p])
    BY <1>i, <2>1, NothingHas DEF Carried, Covered
  <2>3. \A w \in Waiters, p \in Paths : Taken(p, waiter[w].want[p])
    <3>1. \A w \in Waiters, p \in Paths : sent[p] \in Nat /\ waiter[w].want[p] \in Nat /\ waiter[w].want[p] <= sent[p]
      BY <1>i DEF Answering, TypeOK, Content
    <3> QED BY <1>i, <2>2, <3>1, TakenBelow
  <2> QED BY <1>i, <2>1, <2>3 DEF Answering, Taken, TypeOK
<1>15. CASE Upserts
  BY <1>15, <1>i DEF Upserts, channel, ghost, Answering, Taken
<1>16. CASE UpsertsFail
  BY <1>16, <1>i DEF UpsertsFail, channel, Answering, Taken
<1>17. CASE Deletes
  <2>1. Finish
    BY <1>17 DEF Deletes
  <2>2. \A p \in Paths : sent[p] \in Nat
    BY <1>i, IndexerAssumption DEF TypeOK, Content
  <2>3. UNCHANGED <<sent, flushCh>> /\ loop' = [loop EXCEPT !.pc = loop.next, !.answers = None] /\ loop.pc = "deletes"
        /\ waiter' = [w \in Waiters |-> IF w = loop.answers THEN [waiter[w] EXCEPT !.pc = "done"] ELSE waiter[w]]
    BY <1>17, <2>1 DEF Deletes, Finish, channel
  <2>4. loop'.answers = None
    BY <1>i, <2>3 DEF TypeOK
  <2>5. \A w \in Waiters : waiter'[w].want = waiter[w].want /\ (w # loop.answers => waiter'[w] = waiter[w])
    BY <1>i, <2>3 DEF TypeOK
  <2>6. flushCh # <<>> => flushCh[1] \in Waiters
    BY <1>i, ElementOfSeq, EmptySeq, LenProperties DEF TypeOK
  <2>7. ASSUME NEW w \in Waiters, NEW p \in Paths, waiter'[w].pc = "done" PROVE applied'[p] >= waiter[w].want[p]
    <3>1. waiter[w].want[p] \in Nat /\ applied[p] \in Nat /\ applied'[p] \in Nat
      BY <1>i DEF TypeOK, Content
    <3>2. CASE w = loop.answers
      <4>1. Taken(p, waiter[w].want[p])
        BY <1>i, <2>3, <3>2 DEF Answering, None
      <4> QED BY <1>i, <2>1, <3>1, <4>1, FinishFacts
    <3>3. CASE w # loop.answers
      <4>1. applied[p] >= waiter[w].want[p]
        BY <1>i, <2>5, <2>7, <3>3 DEF Answering
      <4>2. applied'[p] >= applied[p]
        BY <1>i, <2>1, FinishFacts
      <4> QED BY <3>1, <4>1, <4>2
    <3> QED BY <3>2, <3>3
  <2> QED BY <1>i, <2>3, <2>4, <2>5, <2>6, <2>7 DEF Answering, None
<1>18. CASE DeletesFail
  <2>1. Finish
    BY <1>18 DEF DeletesFail
  <2>2. \A p \in Paths : sent[p] \in Nat
    BY <1>i, IndexerAssumption DEF TypeOK, Content
  <2>3. UNCHANGED <<sent, flushCh>> /\ loop' = [loop EXCEPT !.pc = loop.next, !.answers = None] /\ loop.pc = "deletes"
        /\ waiter' = [w \in Waiters |-> IF w = loop.answers THEN [waiter[w] EXCEPT !.pc = "done"] ELSE waiter[w]]
    BY <1>18, <2>1 DEF DeletesFail, Finish, channel
  <2>4. loop'.answers = None
    BY <1>i, <2>3 DEF TypeOK
  <2>5. \A w \in Waiters : waiter'[w].want = waiter[w].want /\ (w # loop.answers => waiter'[w] = waiter[w])
    BY <1>i, <2>3 DEF TypeOK
  <2>6. flushCh # <<>> => flushCh[1] \in Waiters
    BY <1>i, ElementOfSeq, EmptySeq, LenProperties DEF TypeOK
  <2>7. ASSUME NEW w \in Waiters, NEW p \in Paths, waiter'[w].pc = "done" PROVE applied'[p] >= waiter[w].want[p]
    <3>1. waiter[w].want[p] \in Nat /\ applied[p] \in Nat /\ applied'[p] \in Nat
      BY <1>i DEF TypeOK, Content
    <3>2. CASE w = loop.answers
      <4>1. Taken(p, waiter[w].want[p])
        BY <1>i, <2>3, <3>2 DEF Answering, None
      <4> QED BY <1>i, <2>1, <3>1, <4>1, FinishFacts
    <3>3. CASE w # loop.answers
      <4>1. applied[p] >= waiter[w].want[p]
        BY <1>i, <2>5, <2>7, <3>3 DEF Answering
      <4>2. applied'[p] >= applied[p]
        BY <1>i, <2>1, FinishFacts
      <4> QED BY <3>1, <4>1, <4>2
    <3> QED BY <3>2, <3>3
  <2> QED BY <1>i, <2>3, <2>4, <2>5, <2>6, <2>7 DEF Answering, None
<1>19. CASE ResyncList
  BY <1>19, <1>i DEF ResyncList, channel, ghost, Answering, Taken
<1>20. CASE ResyncIndex
  BY <1>20, <1>i DEF ResyncIndex, channel, ghost, Answering, Taken
<1>21. CASE ResyncWalked
  BY <1>21, <1>i DEF ResyncWalked, channel, ghost, Answering, Taken
<1>22. CASE ResyncEnds
  BY <1>22, <1>i DEF ResyncEnds, channel, ghost, Answering, Taken
<1>23. ASSUME NEW p \in Paths, ResyncVisit(p) PROVE Answering'
  BY <1>23, <1>i DEF ResyncVisit, channel, ghost, Answering, Taken
<1>24. ASSUME NEW p \in Paths, ResyncRemove(p) PROVE Answering'
  BY <1>24, <1>i DEF ResyncRemove, channel, ghost, Answering, Taken
<1>28. ASSUME NEW p \in Paths, ResyncSkips(p) PROVE Answering'
  BY <1>28, <1>i DEF ResyncSkips, channel, Answering, Taken
<1>29. CASE ResyncAborts
  BY <1>29, <1>i DEF ResyncAborts, channel, Answering, Taken
<1>25. CASE StackClose
  BY <1>25, <1>i DEF StackClose, channel, ghost, Answering, Taken
<1>26. CASE Close
  BY <1>26, <1>i DEF Close, channel, ghost, Answering, Taken
<1>27. CASE UNCHANGED vars
  BY <1>27, <1>i DEF vars, Answering, Taken
<1> QED BY <1>1, <1>2, <1>3, <1>4, <1>5, <1>6, <1>7, <1>8, <1>9, <1>10, <1>11, <1>12, <1>13, <1>14, <1>15, <1>16, <1>17, <1>18, <1>19, <1>20, <1>21, <1>22, <1>23, <1>24, <1>25, <1>26, <1>27, <1>28, <1>29 DEF Next, Flush, Loop, Resync

(* Every step keeps what a stopped loop has done.                          *)
LEMMA StepStopping ==
  ASSUME Inv, [Next]_vars
  PROVE  Stopping'
<1>i. TypeOK /\ TypeOK' /\ Stamps /\ Carried /\ Stopping
  BY StepTypes DEF Inv
<1>1. ASSUME NEW p \in Paths, WritePage(p) PROVE Stopping'
  BY <1>1, <1>i DEF WritePage, Touch, channel, ghost, Stopping, Taken
<1>2. ASSUME NEW p \in Paths, DeletePage(p) PROVE Stopping'
  BY <1>2, <1>i DEF DeletePage, Touch, channel, ghost, Stopping, Taken
<1>3. CASE Enqueue
  BY <1>3, <1>i DEF Enqueue, Stopping, Taken
<1>4. CASE EnqueueAfterStop
  BY <1>4, <1>i DEF EnqueueAfterStop, channel, Stopping, Taken
<1>5. ASSUME NEW w \in Waiters, CallFlush(w) PROVE Stopping'
  BY <1>5, <1>i DEF CallFlush, Stopping
<1>6. ASSUME NEW w \in Waiters, SendFlush(w) PROVE Stopping'
  BY <1>6, <1>i DEF SendFlush, channel, ghost, Stopping, Taken
<1>7. ASSUME NEW w \in Waiters, FlushAfterStop(w) PROVE Stopping'
  BY <1>7, <1>i DEF FlushAfterStop, channel, ghost, Stopping, Taken
<1>8. ASSUME NEW w \in Waiters, FlushReturns(w) PROVE Stopping'
  BY <1>8, <1>i DEF FlushReturns, channel, ghost, Stopping, Taken
<1>9. CASE TakeRequest
  BY <1>9, <1>i DEF TakeRequest, Stopping
<1>10. CASE TimerFires
  BY <1>10, <1>i DEF TimerFires, Stopping
<1>11. CASE TakeFlush
  BY <1>11, <1>i DEF TakeFlush, Stopping
<1>12. CASE SeeStop
  BY <1>12, <1>i DEF SeeStop, Stopping
<1>13. CASE DrainOne
  BY <1>13, <1>i DEF DrainOne, Stopping
<1>14. CASE Drained
  <2>1. pending = <<>> /\ loop' = [loop EXCEPT !.pc = "upserts"] /\ loop.pc = "drain"
        /\ UNCHANGED <<sent, batch, applied, life>>
    BY <1>14 DEF Drained, channel, ghost
  <2>2. \A p \in Paths : Taken(p, sent[p])
    BY <1>i, <2>1, NothingHas DEF Carried, Covered
  <2> QED BY <1>i, <2>1, <2>2 DEF Stopping, Taken, TypeOK
<1>15. CASE Upserts
  BY <1>15, <1>i DEF Upserts, channel, ghost, Stopping, Taken
<1>16. CASE UpsertsFail
  BY <1>16, <1>i DEF UpsertsFail, channel, Stopping, Taken
<1>17. CASE Deletes
  <2>1. Finish
    BY <1>17 DEF Deletes
  <2>2. \A p \in Paths : sent[p] \in Nat
    BY <1>i, IndexerAssumption DEF TypeOK, Content
  <2>3. UNCHANGED <<sent, life>> /\ loop' = [loop EXCEPT !.pc = loop.next, !.answers = None] /\ loop.pc = "deletes"
    BY <1>17, <2>1 DEF Deletes, Finish, channel
  <2>4. loop'.pc = loop.next /\ loop'.next = loop.next /\ loop.next \in {"select", "exited"}
    BY <1>i, <2>3 DEF TypeOK
  <2>5. loop.next = "exited" => \A p \in Paths : applied'[p] >= sent[p]
    BY <1>i, <2>1, <2>2, <2>3, FinishFacts DEF Stopping
  <2> QED BY <1>i, <2>3, <2>4, <2>5 DEF Stopping
<1>18. CASE DeletesFail
  <2>1. Finish
    BY <1>18 DEF DeletesFail
  <2>2. \A p \in Paths : sent[p] \in Nat
    BY <1>i, IndexerAssumption DEF TypeOK, Content
  <2>3. UNCHANGED <<sent, life>> /\ loop' = [loop EXCEPT !.pc = loop.next, !.answers = None] /\ loop.pc = "deletes"
    BY <1>18, <2>1 DEF DeletesFail, Finish, channel
  <2>4. loop'.pc = loop.next /\ loop'.next = loop.next /\ loop.next \in {"select", "exited"}
    BY <1>i, <2>3 DEF TypeOK
  <2>5. loop.next = "exited" => \A p \in Paths : applied'[p] >= sent[p]
    BY <1>i, <2>1, <2>2, <2>3, FinishFacts DEF Stopping
  <2> QED BY <1>i, <2>3, <2>4, <2>5 DEF Stopping
<1>19. CASE ResyncList
  BY <1>19, <1>i DEF ResyncList, channel, ghost, Stopping, Taken
<1>20. CASE ResyncIndex
  BY <1>20, <1>i DEF ResyncIndex, channel, ghost, Stopping, Taken
<1>21. CASE ResyncWalked
  BY <1>21, <1>i DEF ResyncWalked, channel, ghost, Stopping, Taken
<1>22. CASE ResyncEnds
  BY <1>22, <1>i DEF ResyncEnds, channel, ghost, Stopping, Taken
<1>23. ASSUME NEW p \in Paths, ResyncVisit(p) PROVE Stopping'
  BY <1>23, <1>i DEF ResyncVisit, channel, ghost, Stopping, Taken
<1>24. ASSUME NEW p \in Paths, ResyncRemove(p) PROVE Stopping'
  BY <1>24, <1>i DEF ResyncRemove, channel, ghost, Stopping, Taken
<1>28. ASSUME NEW p \in Paths, ResyncSkips(p) PROVE Stopping'
  BY <1>28, <1>i DEF ResyncSkips, channel, Stopping, Taken
<1>29. CASE ResyncAborts
  BY <1>29, <1>i DEF ResyncAborts, channel, Stopping, Taken
<1>25. CASE StackClose
  BY <1>25, <1>i DEF StackClose, Stopping
<1>26. CASE Close
  BY <1>26, <1>i DEF Close, Stopping
<1>27. CASE UNCHANGED vars
  BY <1>27, <1>i DEF vars, Stopping, Taken
<1> QED BY <1>1, <1>2, <1>3, <1>4, <1>5, <1>6, <1>7, <1>8, <1>9, <1>10, <1>11, <1>12, <1>13, <1>14, <1>15, <1>16, <1>17, <1>18, <1>19, <1>20, <1>21, <1>22, <1>23, <1>24, <1>25, <1>26, <1>27, <1>28, <1>29 DEF Next, Flush, Loop, Resync

(* Nothing has been handed over at first.                                  *)
LEMMA InitInv == Init => Inv
<1> SUFFICES ASSUME Init PROVE Inv
  OBVIOUS
<1>1. 0 \in Content /\ 1 \in Content /\ 2 \in Content /\ Zero \in [Paths -> Content]
  BY IndexerAssumption DEF Content, Zero
<1>2. TypeOK
  <2>1. <<>> \in Seq(Req) /\ <<>> \in Seq(Waiters) /\ Len(<<>>) = 0
    BY EmptySeq, LenProperties
  <2> HIDE DEF Content
  <2>2. disk \in [Paths -> Content] /\ index \in Tables /\ clock \in Content
    BY <1>1 DEF Init, Tables
  <2>3. resync \in [pc : {"list", "walk", "remove", "done"},
                    indexed : SUBSET Paths, onDisk : SUBSET Paths, toVisit : SUBSET Paths,
                    holds : Req \union {NoReq}]
    BY DEF Init
  <2>4. waiter \in [Waiters -> [pc : {"idle", "send", "wait", "done"}, want : [Paths -> Content]]]
    BY <1>1 DEF Init
  <2>5. loop \in [pc : {"select", "drain", "upserts", "deletes", "exited"},
                  next : {"select", "exited"}, answers : Waiters \union {None}]
    BY DEF Init, FreshLoop
  <2>6. /\ pending \in Seq(Req) /\ Len(pending) <= PendingCap /\ batch \in Seq(Req)
        /\ flushCh \in Seq(Waiters) /\ Len(flushCh) <= 1
    BY <2>1, IndexerAssumption DEF Init
  <2>7. /\ writer \in Req \union {NoReq} /\ timer \in BOOLEAN /\ life \in {"up", "closing", "stopped"}
        /\ sent \in [Paths -> Content] /\ applied \in [Paths -> Content]
        /\ missed \subseteq Paths /\ raced \subseteq Paths /\ fails \in Nat
    BY <1>1 DEF Init
  <2> QED BY <2>2, <2>3, <2>4, <2>5, <2>6, <2>7 DEF TypeOK, Tables
<1>3. Stamps /\ Carried
  BY DEF Init, Stamps, Carried, Covered, Taken, Zero
<1>4. Answering /\ Stopping
  BY DEF Init, Answering, Stopping, FreshLoop, Zero, None
<1> QED BY <1>2, <1>3, <1>4 DEF Inv

(* Every step keeps the invariant.                                         *)
LEMMA StepInv == Inv /\ [Next]_vars => Inv'
BY StepTypes, StepStamps, StepCarried, StepAnswering, StepStopping DEF Inv

(* The invariant holds in every state.                                     *)
LEMMA Invariance == Spec => []Inv
BY InitInv, StepInv, PTL DEF Spec

(* Every variable stays in its type and the channel within its capacity,   *)
(* for any pages, waiters and bounds.                                      *)
THEOREM TypeCorrect == Spec => []TypeOK
<1>1. Inv => TypeOK
  BY DEF Inv
<1> QED BY <1>1, Invariance, PTL

(* When Flush returns, every change handed over before it was called has   *)
(* been processed, however full channel and batch were.                    *)
THEOREM FlushCovers == Spec => []FlushCoversEarlierWrites
<1>1. Inv => FlushCoversEarlierWrites
  BY DEF Inv, Answering, FlushCoversEarlierWrites
<1> QED BY <1>1, Invariance, PTL

(* When the loop has left, every change handed over before Close has been  *)
(* processed.                                                              *)
THEOREM CloseCovers == Spec => []CloseProcessesAll
<1>1. Inv => CloseProcessesAll
  BY DEF Inv, Stopping, CloseProcessesAll
<1> QED BY <1>1, Invariance, PTL
-----------------------------------------------------------------------------
(* What the tables hold.  The invariant below adds to Inv the order the    *)
(* changes travel in, where the newest one of a page is, and how far       *)
(* Resync has come.                                                        *)

Members(s)  == {s[i] : i \in DOMAIN s}
Flying      == Members(batch) \union Members(pending)
Underway(p) == writer # NoReq /\ writer.path = p
InOrder(s)  == \A i, j \in DOMAIN s : i < j => s[i].stamp < s[j].stamp
Before(s, t) == \A i \in DOMAIN s, j \in DOMAIN t : s[i].stamp < t[j].stamp
Result(r)   == IF r.delete THEN 0 ELSE r.stamp

(* What is known of a change that has stamp k: it was handed over, or it   *)
(* slipped into the channel after the indexer was stopped.                 *)
Known(p, k) == k <= sent[p] \/ (p \in missed /\ life = "stopped")

(* Changes travel in the order they were made.                             *)
Queued == InOrder(batch) /\ InOrder(pending) /\ Before(batch, pending)

(* Each is newer than what was processed of its page before, and older     *)
(* than what the pipeline is about to hand over.                           *)
Ordered ==
  /\ \A r \in Flying :
       /\ applied[r.path] < r.stamp /\ r.stamp <= clock
       /\ writer # NoReq => r.stamp < clock
       /\ Known(r.path, r.stamp)
  /\ \A p \in Paths :
       /\ applied[p] <= clock
       /\ writer # NoReq => applied[p] < clock
       /\ Known(p, applied[p])

(* The newest change of a page, wherever it is, makes of the page what is  *)
(* on disk: in the tables after the upserts, but for deletes still to come.*)
UpToDate(p) == /\ p \in index.rows => disk[p] # 0 /\ disk[p] \in index.words[p]
               /\ index.meta[p] \in {0, disk[p]}
Newest ==
  /\ writer # NoReq => disk[writer.path] = Result(writer)
  /\ \A r \in Flying :
       r.path \notin missed /\ ~ Underway(r.path) /\ r.stamp = sent[r.path] => disk[r.path] = Result(r)
  /\ \A p \in Paths \ (missed \union raced) :
       /\ applied[p] >= sent[p] /\ sent[p] > 0 /\ ~ Underway(p) => UpToDate(p)
       /\ loop.pc = "deletes" =>
            \A r \in Members(batch) :
              r.path = p /\ ~ r.delete /\ r.stamp = sent[p] =>
                sent[p] \in index.words[p] /\ index.meta[p] = sent[p]

(* What Resync has done for a page that nobody has changed: it is in the   *)
(* list iff it was indexed, on disk iff it was met, and missing from the   *)
(* tables only until it is held, or while it is listed for removal.        *)
Untouched(p) == sent[p] = 0 /\ p \notin missed \union raced /\ ~ Underway(p)
Held(p)      == resync.holds # NoReq /\ resync.holds.path = p
Walked(p) ==
  /\ resync.pc = "list" => resync.toVisit = Paths /\ resync.onDisk = {} /\ resync.holds = NoReq
  /\ resync.pc = "walk" =>
       /\ p \notin resync.toVisit => (p \in resync.onDisk <=> disk[p] # 0)
       /\ p \in resync.toVisit => p \notin resync.onDisk
       /\ p \in resync.indexed => p \in index.rows
       /\ p \notin resync.indexed /\ (p \in resync.toVisit \/ disk[p] = 0) => p \notin index.rows
       /\ p \notin resync.indexed /\ p \notin resync.toVisit /\ disk[p] # 0 => p \in index.rows \/ Held(p)
       /\ Held(p) => disk[p] # 0 /\ p \notin resync.toVisit
  /\ resync.pc = "remove" =>
       /\ p \in resync.indexed => disk[p] = 0
       /\ p \notin resync.indexed => (p \in index.rows <=> disk[p] # 0)
  /\ resync.pc = "done" => (p \in index.rows <=> disk[p] # 0)
Reconciling ==
  /\ resync.pc # "done" => life # "stopped" /\ \A p \in Paths \ raced : sent[p] = 0 /\ ~ Underway(p)
  /\ resync.holds # NoReq => resync.holds.stamp # 0
  /\ life = "up" => \A p \in Paths : Untouched(p) => Walked(p)

TablesInv == Inv /\ Queued /\ Ordered /\ Newest /\ Reconciling

(* The numbers and requests the state is made of.                          *)
LEMMA StateFacts ==
  ASSUME TypeOK
  PROVE  /\ clock \in Nat
         /\ \A p \in Paths : sent[p] \in Nat /\ applied[p] \in Nat /\ disk[p] \in Nat
         /\ \A r \in Req : r.path \in Paths /\ r.stamp \in Nat /\ r.delete \in BOOLEAN
         /\ Flying \subseteq Req /\ Members(batch) \subseteq Req /\ Members(pending) \subseteq Req
         /\ writer # NoReq => writer \in Req
<1>1. /\ \A i \in DOMAIN batch : batch[i] \in Req
      /\ \A i \in DOMAIN pending : pending[i] \in Req
  BY LenProperties, ElementOfSeq DEF TypeOK
<1>2. Content \subseteq Nat
  BY IndexerAssumption DEF Content
<1>3. Members(batch) \subseteq Req /\ Members(pending) \subseteq Req
  BY <1>1 DEF Members
<1>4. \A r \in Req : r.path \in Paths /\ r.stamp \in Nat /\ r.delete \in BOOLEAN
  BY <1>2 DEF Req
<1> QED BY <1>2, <1>3, <1>4 DEF TypeOK, Flying

(* The first request of the channel joins the end of the batch.            *)
LEMMA MoveFacts ==
  ASSUME NEW s \in Seq(Req), NEW t \in Seq(Req), t # <<>>,
         InOrder(s), InOrder(t), Before(s, t)
  PROVE  /\ InOrder(Append(s, Head(t))) /\ InOrder(Tail(t)) /\ Before(Append(s, Head(t)), Tail(t))
         /\ Members(Append(s, Head(t))) \union Members(Tail(t)) \subseteq Members(s) \union Members(t)
<1> DEFINE u == Append(s, Head(t))
           v == Tail(t)
           m == Len(s)
           n == Len(t)
<1>1. /\ Head(t) = t[1] /\ Head(t) \in Req /\ m \in Nat /\ n \in Nat /\ n >= 1
      /\ DOMAIN s = 1 .. m /\ DOMAIN t = 1 .. n
      /\ DOMAIN v = 1 .. (n - 1) /\ \A i \in 1 .. (n - 1) : v[i] = t[i + 1]
  BY HeadTailProperties, LenProperties, ElementOfSeq, EmptySeq
<1>2. /\ DOMAIN u = 1 .. (m + 1) /\ u[m + 1] = t[1]
      /\ \A i \in 1 .. m : u[i] = s[i]
  BY <1>1, AppendProperties, LenProperties
<1> HIDE DEF u, v, m, n
<1>3. /\ \A i, j \in 1 .. m : i < j => s[i].stamp < s[j].stamp
      /\ \A i, j \in 1 .. n : i < j => t[i].stamp < t[j].stamp
      /\ \A i \in 1 .. m, j \in 1 .. n : s[i].stamp < t[j].stamp
  BY <1>1 DEF InOrder, Before
<1>4. InOrder(u)
  <2> SUFFICES ASSUME NEW i \in 1 .. (m + 1), NEW j \in 1 .. (m + 1), i < j PROVE u[i].stamp < u[j].stamp
    BY <1>2 DEF InOrder
  <2>1. i \in 1 .. m /\ 1 \in 1 .. n
    BY <1>1
  <2>2. CASE j = m + 1
    BY <1>2, <1>3, <2>1, <2>2
  <2>3. CASE j \in 1 .. m
    BY <1>2, <1>3, <2>1, <2>3
  <2> QED BY <1>1, <2>2, <2>3
<1>5. InOrder(v)
  <2> SUFFICES ASSUME NEW i \in 1 .. (n - 1), NEW j \in 1 .. (n - 1), i < j PROVE v[i].stamp < v[j].stamp
    BY <1>1 DEF InOrder
  <2>1. i + 1 \in 1 .. n /\ j + 1 \in 1 .. n /\ i + 1 < j + 1
    BY <1>1
  <2> QED BY <1>1, <1>3, <2>1
<1>6. Before(u, v)
  <2> SUFFICES ASSUME NEW i \in 1 .. (m + 1), NEW j \in 1 .. (n - 1) PROVE u[i].stamp < v[j].stamp
    BY <1>1, <1>2 DEF Before
  <2>1. j + 1 \in 1 .. n /\ 1 \in 1 .. n /\ 1 < j + 1 /\ v[j] = t[j + 1]
    BY <1>1
  <2>2. CASE i = m + 1
    BY <1>2, <1>3, <2>1, <2>2
  <2>3. CASE i \in 1 .. m
    BY <1>2, <1>3, <2>1, <2>3
  <2> QED BY <1>1, <2>2, <2>3
<1>7. Members(u) \union Members(v) \subseteq Members(s) \union Members(t)
  <2>1. \A i \in 1 .. (m + 1) : u[i] \in Members(s) \union Members(t)
    <3> SUFFICES ASSUME NEW i \in 1 .. (m + 1) PROVE u[i] \in Members(s) \union Members(t)
      OBVIOUS
    <3>1. CASE i = m + 1
      <4>1. u[i] = t[1] /\ 1 \in DOMAIN t
        BY <1>1, <1>2, <3>1
      <4> QED BY <4>1 DEF Members
    <3>2. CASE i \in 1 .. m
      <4>1. u[i] = s[i] /\ i \in DOMAIN s
        BY <1>1, <1>2, <3>2
      <4> QED BY <4>1 DEF Members
    <3> QED BY <1>1, <3>1, <3>2
  <2>2. \A i \in 1 .. (n - 1) : v[i] \in Members(t)
    <3> SUFFICES ASSUME NEW i \in 1 .. (n - 1) PROVE v[i] \in Members(t)
      OBVIOUS
    <3>1. v[i] = t[i + 1] /\ i + 1 \in DOMAIN t
      BY <1>1
    <3> QED BY <3>1 DEF Members
  <2>3. Members(u) \subseteq Members(s) \union Members(t)
    BY <1>2, <2>1 DEF Members
  <2>4. Members(v) \subseteq Members(t)
    BY <1>1, <2>2 DEF Members
  <2> QED BY <2>3, <2>4
<1> QED BY <1>4, <1>5, <1>6, <1>7 DEF u, v

(* The newest request joins the end of the channel.                        *)
LEMMA JoinFacts ==
  ASSUME NEW s \in Seq(Req), NEW t \in Seq(Req), NEW r \in Req,
         InOrder(t), Before(s, t),
         \A q \in Members(s) \union Members(t) : q.stamp < r.stamp
  PROVE  /\ InOrder(Append(t, r)) /\ Before(s, Append(t, r))
         /\ Members(Append(t, r)) \subseteq Members(t) \union {r}
<1> DEFINE u == Append(t, r)
           n == Len(t)
<1>1. /\ n \in Nat /\ DOMAIN t = 1 .. n /\ DOMAIN u = 1 .. (n + 1) /\ u[n + 1] = r
      /\ \A i \in 1 .. n : u[i] = t[i]
  BY AppendProperties, LenProperties
<1>2. /\ \A i \in 1 .. n : t[i].stamp < r.stamp
      /\ \A i \in DOMAIN s : s[i].stamp < r.stamp
  BY <1>1 DEF Members
<1> HIDE DEF u, n
<1>3. InOrder(u)
  BY <1>1, <1>2 DEF InOrder
<1>4. Before(s, u)
  BY <1>1, <1>2 DEF Before
<1>5. Members(u) \subseteq Members(t) \union {r}
  BY <1>1 DEF Members
<1> QED BY <1>3, <1>4, <1>5 DEF u

(* Finish counts as processed of a page what already was, or a change of   *)
(* the batch.                                                              *)
LEMMA FinishResult ==
  ASSUME TypeOK, Finish, NEW p \in Paths
  PROVE  \/ applied'[p] = applied[p]
         \/ \E r \in Members(batch) : r.path = p /\ applied'[p] = r.stamp
<1> DEFINE Stamped == {applied[p]} \union {batch[i].stamp : i \in Positions(TRUE, p) \union Positions(FALSE, p)}
<1>1. MaxWrites + 2 \in Nat
  BY IndexerAssumption
<1>2. applied'[p] = Max(Stamped)
  BY DEF Finish
<1>3. Stamped \in SUBSET Content /\ Stamped # {}
  <2>1. \A i \in DOMAIN batch : batch[i] \in Req
    BY LenProperties, ElementOfSeq DEF TypeOK
  <2> QED BY <2>1 DEF Positions, TypeOK, Req
<1>4. Max(Stamped) \in Stamped
  <2> HIDE DEF Stamped
  <2> QED BY <1>1, <1>3, MaxFacts DEF Content
<1>5. CASE Max(Stamped) = applied[p]
  BY <1>2, <1>5
<1>6. CASE Max(Stamped) # applied[p]
  <2>1. PICK i \in Positions(TRUE, p) \union Positions(FALSE, p) : Max(Stamped) = batch[i].stamp
    BY <1>4, <1>6
  <2>2. i \in DOMAIN batch /\ batch[i].path = p
    BY <2>1 DEF Positions
  <2> QED BY <1>2, <2>1, <2>2 DEF Members
<1> QED BY <1>5, <1>6

(* The last upsert of a page is no older than any other of the batch.      *)
LastOf(p) == batch[Max(Positions(FALSE, p))].stamp
LEMMA LastIsNewest ==
  ASSUME TypeOK, InOrder(batch), NEW r \in Members(batch), ~ r.delete
  PROVE  /\ r.path \in Batched(FALSE)
         /\ r.stamp \in {batch[i].stamp : i \in Positions(FALSE, r.path)}
         /\ \E q \in Members(batch) :
              q.path = r.path /\ LastOf(r.path) = q.stamp /\ r.stamp <= q.stamp
<1> DEFINE P == Positions(FALSE, r.path)
<1>1. PICK i \in DOMAIN batch : batch[i] = r
  BY DEF Members
<1>2. Len(batch) \in Nat /\ DOMAIN batch = 1 .. Len(batch) /\ \A j \in DOMAIN batch : batch[j] \in Req
  BY LenProperties, ElementOfSeq DEF TypeOK
<1>3. r.delete = FALSE /\ r.path \in Paths /\ r.stamp \in Nat
  BY <1>1, <1>2 DEF Req, Content
<1>4. i \in P /\ P \in SUBSET (0 .. Len(batch))
  BY <1>1, <1>2, <1>3 DEF Positions
<1>5. Max(P) \in P /\ i <= Max(P)
  <2> HIDE DEF P
  <2> QED BY <1>2, <1>4, MaxFacts
<1>6. Max(P) \in DOMAIN batch /\ batch[Max(P)].path = r.path
  BY <1>5 DEF Positions
<1>7. r.stamp <= batch[Max(P)].stamp
  <2> HIDE DEF P
  <2> QED BY <1>1, <1>2, <1>3, <1>5, <1>6 DEF InOrder, Req, Content
<1>8. r.path \in Batched(FALSE)
  BY <1>3, <1>4 DEF Batched
<1>9. LastOf(r.path) = batch[Max(P)].stamp
  BY DEF LastOf
<1>10. r.stamp \in {batch[j].stamp : j \in P}
  BY <1>1, <1>4
<1> QED BY <1>6, <1>7, <1>8, <1>9, <1>10 DEF Members

(* A page whose changes are processed or never came has none in flight.    *)
LEMMA NoneFlying ==
  ASSUME TypeOK, Ordered, NEW p \in Paths, p \notin missed, applied[p] >= sent[p]
  PROVE  /\ \A r \in Flying : r.path # p
         /\ p \notin Batched(TRUE) /\ p \notin Batched(FALSE)
<1>1. \A r \in Flying : r.path # p
  BY StateFacts DEF Ordered, Known
<1>2. \A i \in DOMAIN batch : batch[i].path # p
  BY <1>1 DEF Flying, Members
<1> QED BY <1>1, <1>2 DEF Batched, Positions

(* Every step keeps the order of the changes.                              *)
LEMMA StepQueued ==
  ASSUME TypeOK, Stamps, Queued, Ordered, [Next]_vars
  PROVE  Queued' /\ Flying' \subseteq Flying \union {writer}
         /\ (~ Enqueue => Flying' \subseteq Flying)
<1> DEFINE Goal == Queued' /\ Flying' \subseteq Flying \union {writer}
                   /\ (~ Enqueue => Flying' \subseteq Flying)
<1>t. batch \in Seq(Req) /\ pending \in Seq(Req)
  BY DEF TypeOK
<1>u. UNCHANGED <<batch, pending>> => Goal
  BY DEF Queued, Flying, Members, InOrder, Before
<1>m. ASSUME pending # <<>>, batch' = Append(batch, Head(pending)), pending' = Tail(pending)
      PROVE  Goal
  <2>1. /\ InOrder(batch') /\ InOrder(pending') /\ Before(batch', pending')
        /\ Members(batch') \union Members(pending') \subseteq Members(batch) \union Members(pending)
    BY <1>t, <1>m, MoveFacts DEF Queued
  <2>2. Queued' = (InOrder(batch') /\ InOrder(pending') /\ Before(batch', pending'))
    BY DEF Queued, InOrder, Before
  <2>3. Flying' = Members(batch') \union Members(pending')
    BY DEF Flying, Members
  <2> QED BY <2>1, <2>2, <2>3 DEF Flying
<1>f. ASSUME Finish PROVE Goal
  <2>1. batch' = <<>> /\ pending' = pending
    BY <1>f DEF Finish, channel
  <2>2. DOMAIN batch' = {}
    BY <2>1, EmptySeq, LenProperties
  <2> QED BY <2>1, <2>2 DEF Queued, Flying, Members, InOrder, Before
<1>1. ASSUME NEW p \in Paths, Touch(p, clock + 1) \/ Touch(p, 0) PROVE Goal
  BY <1>1, <1>u DEF Touch, channel
<1>3. CASE Enqueue
  <2>1. writer \in Req /\ pending' = Append(pending, writer) /\ batch' = batch
    BY <1>3, EnqueueFacts DEF Enqueue
  <2>2. \A q \in Members(batch) \union Members(pending) : q.stamp < writer.stamp
    BY <1>3 DEF Enqueue, Stamps, Ordered, Flying
  <2>3. /\ InOrder(pending') /\ Before(batch, pending')
        /\ Members(pending') \subseteq Members(pending) \union {writer}
    BY <1>t, <2>1, <2>2, JoinFacts DEF Queued
  <2>4. Queued' = (InOrder(batch') /\ InOrder(pending') /\ Before(batch', pending'))
    BY DEF Queued, InOrder, Before
  <2>5. Flying' = Members(batch') \union Members(pending')
    BY DEF Flying, Members
  <2>6. InOrder(batch')
    BY <2>1 DEF Queued
  <2> QED BY <1>3, <2>1, <2>3, <2>4, <2>5, <2>6 DEF Flying
<1>4. CASE EnqueueAfterStop
  BY <1>4, <1>u DEF EnqueueAfterStop, channel
<1>5. ASSUME NEW w \in Waiters, CallFlush(w) \/ Flush(w) PROVE Goal
  BY <1>5, <1>u DEF CallFlush, Flush, SendFlush, FlushAfterStop, FlushReturns, channel
<1>6. CASE TakeRequest
  BY <1>6, <1>m DEF TakeRequest
<1>7. CASE DrainOne
  BY <1>7, <1>m DEF DrainOne
<1>8. CASE TimerFires \/ TakeFlush \/ SeeStop \/ Drained
  BY <1>8, <1>u DEF TimerFires, TakeFlush, SeeStop, Drained, channel
<1>9. CASE Upserts \/ UpsertsFail
  BY <1>9, <1>u DEF Upserts, UpsertsFail, channel
<1>10. CASE Deletes \/ DeletesFail
  BY <1>10, <1>f DEF Deletes, DeletesFail
<1>11. CASE Resync
  BY <1>11, <1>u DEF Resync, ResyncList, ResyncVisit, ResyncIndex, ResyncWalked, ResyncRemove, ResyncSkips, ResyncAborts, ResyncEnds, channel
<1>12. CASE StackClose \/ Close
  BY <1>12, <1>u DEF StackClose, Close, channel
<1>13. CASE UNCHANGED vars
  BY <1>13, <1>u DEF vars
<1> QED
  BY <1>1, <1>3, <1>4, <1>5, <1>6, <1>7, <1>8, <1>9, <1>10, <1>11, <1>12, <1>13 DEF Next, Loop, WritePage, DeletePage

(* Every step keeps what is older than what.                               *)
LEMMA StepOrdered ==
  ASSUME TypeOK, Stamps, Queued, Ordered, [Next]_vars
  PROVE  Ordered'
<1>s. /\ clock \in Nat
      /\ \A p \in Paths : sent[p] \in Nat /\ applied[p] \in Nat
      /\ \A r \in Req : r.path \in Paths /\ r.stamp \in Nat
      /\ Flying \subseteq Req /\ Members(batch) \subseteq Req
      /\ writer # NoReq => writer \in Req
  BY StateFacts
<1>f. Flying' \subseteq Flying \union {writer} /\ (~ Enqueue => Flying' \subseteq Flying)
  BY StepQueued
<1> DEFINE Same == /\ Flying' \subseteq Flying
                   /\ UNCHANGED <<applied, clock, sent>> /\ writer' \in {writer, NoReq}
                   /\ missed \subseteq missed' /\ (life = "stopped" => life' = "stopped")
<1>u. ASSUME Same PROVE Ordered'
  <2>1. \A p \in Paths, k \in Nat : Known(p, k) => Known(p, k)'
    BY <1>u DEF Known
  <2>2. \A p \in Paths : Known(p, applied[p]) => Known(p, applied[p])'
    BY <1>u DEF Known
  <2> QED BY <1>u, <1>s, <2>1, <2>2 DEF Ordered, Known
<1>e. ASSUME Finish, missed \subseteq missed' PROVE Ordered'
  <2>1. UNCHANGED <<clock, sent, writer, life>> /\ batch' = <<>> /\ pending' = pending
    BY <1>e DEF Finish, store, channel
  <2>2. \A p \in Paths : applied'[p] = applied[p] \/ \E r \in Members(batch) : r.path = p /\ applied'[p] = r.stamp
    BY <1>e, FinishResult
  <2>3. DOMAIN batch' = {}
    BY <2>1, EmptySeq, LenProperties
  <2>4. Flying' = Members(pending)
    BY <2>1, <2>3 DEF Flying, Members
  <2>5. \A b \in Members(batch), r \in Members(pending) : b.stamp < r.stamp
    BY DEF Queued, Before, Members
  <2>6. Members(batch) \subseteq Flying /\ Members(pending) \subseteq Flying
    BY DEF Flying
  <2>7. \A p \in Paths, k \in Nat : Known(p, k) => (k <= sent'[p] \/ (p \in missed' /\ life' = "stopped"))
    BY <1>e, <2>1 DEF Known
  <2>8. ASSUME NEW r \in Flying'
        PROVE  /\ applied'[r.path] < r.stamp /\ r.stamp <= clock' /\ (writer' # NoReq => r.stamp < clock')
               /\ (r.stamp <= sent'[r.path] \/ (r.path \in missed' /\ life' = "stopped"))
    <3>1. r \in Members(pending) /\ r \in Flying /\ r.path \in Paths /\ r.stamp \in Nat
      BY <1>s, <2>4, <2>6, <2>8
    <3>2. applied'[r.path] < r.stamp
      BY <2>2, <2>5, <3>1 DEF Ordered
    <3>3. r.stamp <= clock /\ (writer # NoReq => r.stamp < clock) /\ Known(r.path, r.stamp)
      BY <3>1 DEF Ordered
    <3> QED BY <2>1, <2>7, <3>1, <3>2, <3>3
  <2>9. ASSUME NEW p \in Paths
        PROVE  /\ applied'[p] <= clock' /\ (writer' # NoReq => applied'[p] < clock')
               /\ (applied'[p] <= sent'[p] \/ (p \in missed' /\ life' = "stopped"))
    <3>1. CASE applied'[p] = applied[p]
      BY <1>s, <2>1, <2>7, <3>1 DEF Ordered
    <3>2. CASE \E r \in Members(batch) : r.path = p /\ applied'[p] = r.stamp
      <4>1. PICK r \in Members(batch) : r.path = p /\ applied'[p] = r.stamp
        BY <3>2
      <4>2. r \in Flying /\ r.stamp \in Nat
        BY <1>s, <2>6, <4>1
      <4>3. r.stamp <= clock /\ (writer # NoReq => r.stamp < clock) /\ Known(p, r.stamp)
        BY <4>1, <4>2 DEF Ordered
      <4> QED BY <2>1, <2>7, <4>1, <4>2, <4>3
    <3> QED BY <2>2, <3>1, <3>2
  <2> QED BY <2>8, <2>9 DEF Ordered, Known
<1>1. ASSUME NEW p \in Paths, Touch(p, clock + 1) \/ Touch(p, 0) PROVE Ordered'
  <2>1. UNCHANGED <<applied, sent, missed, life>> /\ writer = NoReq /\ clock' = clock + 1
    BY <1>1 DEF Touch, channel, ghost
  <2>2. Flying' \subseteq Flying
    BY <1>1 DEF Touch, channel, Flying, Members
  <2> QED BY <1>s, <2>1, <2>2 DEF Ordered, Known
<1>3. CASE Enqueue
  <2>1. /\ writer \in Req /\ writer.stamp = clock /\ writer' = NoReq /\ UNCHANGED <<applied, clock, life>>
        /\ writer # NoReq /\ writer.path \in Paths
    BY <1>3, <1>s DEF Enqueue, Stamps, store
  <2>2. /\ \A p \in Paths : sent'[p] >= sent[p] /\ sent'[p] \in Nat
        /\ \A p \in Paths : p \in missed /\ life = "stopped" => p \in missed'
    BY <1>3, <1>s, <2>1, EnqueueFacts DEF Enqueue
  <2>3. sent'[writer.path] = clock \/ (writer.path \in missed' /\ life' = "stopped")
    BY <1>3, <2>1 DEF Enqueue, TypeOK
  <2>4. \A p \in Paths, k \in Nat : Known(p, k) => (k <= sent'[p] \/ (p \in missed' /\ life' = "stopped"))
    BY <1>s, <2>1, <2>2 DEF Known
  <2>5. ASSUME NEW r \in Flying'
        PROVE  /\ applied'[r.path] < r.stamp /\ r.stamp <= clock' /\ (writer' # NoReq => r.stamp < clock')
               /\ (r.stamp <= sent'[r.path] \/ (r.path \in missed' /\ life' = "stopped"))
    <3>1. CASE r = writer
      BY <1>s, <2>1, <2>3, <3>1 DEF Ordered
    <3>2. CASE r \in Flying
      <4>1. r.path \in Paths /\ r.stamp \in Nat
        BY <1>s, <3>2
      <4> QED BY <2>1, <2>4, <3>2, <4>1 DEF Ordered
    <3> QED BY <1>f, <3>1, <3>2
  <2>6. \A p \in Paths : /\ applied'[p] <= clock' /\ (writer' # NoReq => applied'[p] < clock')
                         /\ (applied'[p] <= sent'[p] \/ (p \in missed' /\ life' = "stopped"))
    BY <1>s, <2>1, <2>4 DEF Ordered
  <2> QED BY <2>5, <2>6 DEF Ordered, Known
<1>4. CASE EnqueueAfterStop
  <2>1. Flying' \subseteq Flying
    BY <1>4 DEF EnqueueAfterStop, channel, Flying, Members
  <2> QED BY <1>4, <1>u, <2>1 DEF EnqueueAfterStop, channel, store
<1>5. ASSUME NEW w \in Waiters, CallFlush(w) \/ Flush(w) PROVE Ordered'
  <2>1. Flying' \subseteq Flying
    BY <1>5 DEF CallFlush, Flush, SendFlush, FlushAfterStop, FlushReturns, channel, Flying, Members
  <2> QED BY <1>5, <1>u, <2>1 DEF CallFlush, Flush, SendFlush, FlushAfterStop, FlushReturns, channel, store, ghost
<1>6. CASE TakeRequest \/ DrainOne
  <2>1. Flying' \subseteq Flying
    BY <1>6, <1>f, <1>s DEF TakeRequest, DrainOne, Enqueue
  <2> QED BY <1>6, <1>u, <2>1 DEF TakeRequest, DrainOne, store, ghost
<1>8. CASE TimerFires \/ TakeFlush \/ SeeStop \/ Drained
  <2>1. Flying' \subseteq Flying
    BY <1>8 DEF TimerFires, TakeFlush, SeeStop, Drained, channel, Flying, Members
  <2> QED BY <1>8, <1>u, <2>1 DEF TimerFires, TakeFlush, SeeStop, Drained, channel, store, ghost
<1>9. CASE Upserts \/ UpsertsFail
  <2>1. Flying' \subseteq Flying
    BY <1>9 DEF Upserts, UpsertsFail, channel, Flying, Members
  <2>2. missed \subseteq missed'
    BY <1>9 DEF Upserts, UpsertsFail, ghost
  <2>3. UNCHANGED <<applied, clock, sent, writer, life>>
    BY <1>9 DEF Upserts, UpsertsFail, channel, store, ghost
  <2> QED BY <1>u, <2>1, <2>2, <2>3
<1>10. CASE Deletes \/ DeletesFail
  <2>1. Finish /\ missed \subseteq missed'
    BY <1>10 DEF Deletes, DeletesFail
  <2> QED BY <1>e, <2>1
<1>11. CASE Resync
  <2>1. UNCHANGED <<batch, pending, applied, clock, sent, writer, life>> /\ missed \subseteq missed'
    BY <1>11 DEF TypeOK,  Resync, ResyncList, ResyncVisit, ResyncIndex, ResyncWalked, ResyncRemove, ResyncSkips, ResyncAborts, ResyncEnds, channel, store, ghost
  <2>2. Flying' \subseteq Flying
    BY <2>1 DEF Flying, Members
  <2> QED BY <1>u, <2>1, <2>2
<1>12. CASE StackClose \/ Close
  <2>1. Flying' \subseteq Flying
    BY <1>12 DEF StackClose, Close, channel, Flying, Members
  <2> QED BY <1>12, <1>u, <2>1 DEF StackClose, Close, channel, store, ghost
<1>13. CASE UNCHANGED vars
  <2>1. Flying' \subseteq Flying
    BY <1>13 DEF vars, Flying, Members
  <2> QED BY <1>13, <1>u, <2>1 DEF vars
<1> QED BY <1>1, <1>3, <1>4, <1>5, <1>6, <1>8, <1>9, <1>10, <1>11, <1>12, <1>13 DEF Next, Loop, WritePage, DeletePage

(* What the passes of flushBatch write.                                    *)
LEMMA UpsertsFacts ==
  ASSUME TypeOK, Upserts
  PROVE  /\ index'.rows = index.rows \union Batched(FALSE)
         /\ \A p \in Paths :
              /\ index'.words[p] = index.words[p] \union {batch[i].stamp : i \in Positions(FALSE, p)}
              /\ index'.meta[p] = IF p \in Batched(FALSE) THEN LastOf(p) ELSE index.meta[p]
<1>1. index' = Described(Inserted, {})
  BY DEF Upserts
<1>2. \A p \in Paths : /\ Positions(FALSE, p) \ {} = Positions(FALSE, p)
                       /\ p \in Batched(FALSE) <=> Positions(FALSE, p) # {}
  BY DEF Batched
<1>3. Inserted \in Tables /\ Inserted.meta = index.meta /\ Inserted.rows = index.rows \union Batched(FALSE)
      /\ \A p \in Paths : Inserted.words[p] = index.words[p] \union {batch[i].stamp : i \in Positions(FALSE, p)}
  BY InsertedFacts
<1>4. /\ Described(Inserted, {}).rows = Inserted.rows /\ Described(Inserted, {}).words = Inserted.words
      /\ \A p \in Paths : Described(Inserted, {}).meta[p] = MetaOf(Inserted, {}, p)
  BY <1>3, DescribedFacts
<1>5. \A p \in Paths : index'.meta[p] = IF p \in Batched(FALSE) THEN LastOf(p) ELSE index.meta[p]
  BY <1>1, <1>2, <1>3, <1>4 DEF LastOf, MetaOf
<1> QED BY <1>1, <1>3, <1>4, <1>5

LEMMA DeletesFacts ==
  ASSUME TypeOK, Deletes \/ DeletesFail
  PROVE  /\ Finish /\ loop.pc = "deletes" /\ missed \subseteq missed'
         /\ index'.words = index.words /\ index'.rows \subseteq index.rows
         /\ \A p \in Paths : /\ index'.meta[p] \in {0, index.meta[p]}
                             /\ p \in Batched(TRUE) /\ p \notin missed' => index'.meta[p] = 0 /\ p \notin index'.rows
                             /\ p \notin Batched(TRUE) => index'.meta[p] = index.meta[p] /\ (p \in index'.rows <=> p \in index.rows)
<1>1. PICK failed \in SUBSET Batched(TRUE) : index' = Removed(Batched(TRUE) \ failed) /\ missed' = missed \union failed
  <2>1. CASE Deletes
    <3>1. Batched(TRUE) \ {} = Batched(TRUE) /\ missed \union {} = missed /\ {} \in SUBSET Batched(TRUE)
      OBVIOUS
    <3>2. index' = Removed(Batched(TRUE)) /\ missed' = missed
      BY <2>1 DEF Deletes
    <3> QED BY <3>1, <3>2
  <2>2. CASE DeletesFail
    BY <2>2, Zenon DEF DeletesFail
  <2> QED BY <2>1, <2>2
<1>2. Finish /\ loop.pc = "deletes"
  BY DEF Deletes, DeletesFail
<1> DEFINE gone == Batched(TRUE) \ failed
<1>3. /\ index'.rows = index.rows \ gone /\ index'.words = index.words
      /\ \A p \in Paths : index'.meta[p] = IF p \in gone THEN 0 ELSE index.meta[p]
  <2>1. index' = Removed(gone)
    BY <1>1
  <2> HIDE DEF gone
  <2> QED BY <2>1, RemovedFacts
<1> QED BY <1>1, <1>2, <1>3

(* Every step keeps the newest change of a page true to the page.          *)
LEMMA StepNewest ==
  ASSUME TypeOK, Stamps, Queued, Ordered, Newest, Reconciling, [Next]_vars
  PROVE  Newest'
<1>s. /\ clock \in Nat
      /\ \A p \in Paths : sent[p] \in Nat /\ applied[p] \in Nat /\ disk[p] \in Nat
      /\ \A r \in Req : r.path \in Paths /\ r.stamp \in Nat /\ r.delete \in BOOLEAN
      /\ Flying \subseteq Req /\ Members(batch) \subseteq Req
      /\ writer # NoReq => writer \in Req
  BY StateFacts
<1>f. /\ Flying' \subseteq Flying \union {writer} /\ (~ Enqueue => Flying' \subseteq Flying)
      /\ Members(batch) \subseteq Flying
  BY StepQueued DEF Flying
(* A page whose newest change is known and in flight is not up to date.    *)
<1>k. \A r \in Flying : r.path \notin missed => applied[r.path] < r.stamp /\ r.stamp <= sent[r.path]
  BY DEF Ordered, Known
(* The tables, and what the newest change is, stay as they are.            *)
<1> DEFINE Same == /\ Flying' \subseteq Flying /\ (loop'.pc = "deletes" => loop.pc = "deletes" /\ batch' = batch)
                   /\ UNCHANGED <<applied, sent, writer, disk, index, missed, raced>>
<1>u. ASSUME Same PROVE Newest'
  <2>1. loop'.pc = "deletes" => Members(batch') = Members(batch)
    BY <1>u DEF Members
  <2> QED BY <1>u, <2>1 DEF Newest, UpToDate, Underway, Result
<1>1. ASSUME NEW q \in Paths, NEW c \in {0, clock + 1}, Touch(q, c) PROVE Newest'
  <2>1. /\ UNCHANGED <<applied, sent, missed, index, batch, loop>> /\ writer = NoReq /\ raced \subseteq raced'
        /\ writer' = [path |-> q, stamp |-> clock + 1, delete |-> c = 0] /\ disk' = [disk EXCEPT ![q] = c]
    BY <1>1 DEF Touch, channel, ghost
  <2>2. Flying' \subseteq Flying /\ Members(batch') = Members(batch)
    BY <1>1 DEF Touch, channel, Flying, Members
  <2>3. \A p \in Paths : p # q => disk'[p] = disk[p]
    BY <2>1
  <2>4. disk'[q] = c /\ writer'.path = q /\ writer'.delete = (c = 0) /\ writer'.stamp = clock + 1
    BY <2>1, <1>s DEF TypeOK
  <2>5. c \in Nat /\ (c # 0 => c = clock + 1)
    BY <1>s
  <2>6. (writer' # NoReq) /\ writer'.path = q
    BY <1>s, <2>1 DEF NoReq
  <2>7. \A p : Underway(p)' <=> p = q
    BY <2>6 DEF Underway
  <2>8. disk'[writer'.path] = IF writer'.delete THEN 0 ELSE writer'.stamp
    BY <2>4, <2>5
  <2>9. \A p : ~ Underway(p)
    BY <2>1 DEF Underway
  <2>10. ASSUME NEW r \in Flying', r.path \notin missed', ~ Underway(r.path)', r.stamp = sent'[r.path]
         PROVE  disk'[r.path] = Result(r)
    <3>1. r \in Flying /\ r.path # q /\ r.path \in Paths
      BY <1>s, <2>2, <2>7, <2>10
    <3>2. disk[r.path] = Result(r)
      BY <2>1, <2>9, <2>10, <3>1 DEF Newest
    <3> QED BY <2>3, <3>1, <3>2
  <2>11. ASSUME NEW p \in Paths \ (missed' \union raced'), applied'[p] >= sent'[p], sent'[p] > 0, ~ Underway(p)'
         PROVE  UpToDate(p)'
    BY <2>1, <2>3, <2>7, <2>9, <2>11 DEF Newest, UpToDate
  <2>12. ASSUME NEW p \in Paths \ (missed' \union raced'), loop'.pc = "deletes", NEW r \in Members(batch'),
                r.path = p, ~ r.delete, r.stamp = sent'[p]
         PROVE  sent'[p] \in index'.words[p] /\ index'.meta[p] = sent'[p]
    BY <2>1, <2>2, <2>12 DEF Newest
  <2> QED BY <2>8, <2>10, <2>11, <2>12 DEF Newest, Result
<1>3. CASE Enqueue
  <2>1. /\ writer \in Req /\ writer.stamp = clock /\ writer' = NoReq /\ UNCHANGED <<applied, disk, index, batch, loop, raced>>
        /\ writer # NoReq /\ writer.path \in Paths
    BY <1>3, <1>s DEF Enqueue, Stamps, store
  <2>2. \A p \in Paths : p # writer.path => sent'[p] = sent[p] /\ (p \in missed <=> p \in missed')
    BY <1>3, <2>1, EnqueueFacts DEF Enqueue
  <2>3. sent'[writer.path] = clock \/ writer.path \in missed'
    BY <1>3, <2>1 DEF Enqueue, TypeOK
  <2>4. \A p : ~ Underway(p)' /\ (Underway(p) <=> p = writer.path)
    BY <2>1 DEF Underway
  <2>5. Members(batch') = Members(batch)
    BY <2>1 DEF Members
  <2>6. \A r \in Flying : r.stamp < clock
    BY <2>1 DEF Ordered
  <2>7. ASSUME NEW r \in Flying', r.path \notin missed', r.stamp = sent'[r.path]
        PROVE  disk'[r.path] = Result(r)
    <3>1. CASE r = writer
      BY <2>1, <3>1 DEF Newest
    <3>2. CASE r \in Flying
      <4>1. r.path # writer.path /\ r.path \in Paths
        BY <1>s, <2>3, <2>6, <2>7, <3>2
      <4> QED BY <2>1, <2>2, <2>4, <2>7, <3>2, <4>1 DEF Newest
    <3> QED BY <1>f, <3>1, <3>2
  <2>8. ASSUME NEW p \in Paths \ (missed' \union raced'), applied'[p] >= sent'[p], sent'[p] > 0
        PROVE  UpToDate(p)'
    <3>1. p # writer.path
      BY <1>s, <2>1, <2>3, <2>8 DEF Ordered
    <3>2. UpToDate(p)
      BY <2>1, <2>2, <2>4, <2>8, <3>1 DEF Newest
    <3> QED BY <2>1, <3>2 DEF UpToDate
  <2>9. ASSUME NEW p \in Paths \ (missed' \union raced'), loop'.pc = "deletes", NEW r \in Members(batch'),
                r.path = p, ~ r.delete, r.stamp = sent'[p]
        PROVE  sent'[p] \in index'.words[p] /\ index'.meta[p] = sent'[p]
    <3>1. p # writer.path
      BY <1>f, <1>s, <2>3, <2>5, <2>6, <2>9
    <3> QED BY <2>1, <2>2, <2>5, <2>9, <3>1 DEF Newest
  <2> QED BY <2>1, <2>7, <2>8, <2>9 DEF Newest
<1>4. CASE EnqueueAfterStop
  <2>1. /\ writer # NoReq /\ writer' = NoReq /\ missed' = missed \union {writer.path} /\ writer.path \in Paths
        /\ UNCHANGED <<applied, sent, disk, index, batch, pending, loop, raced>>
    BY <1>4, <1>s DEF EnqueueAfterStop, channel, store
  <2>2. Flying' = Flying /\ Members(batch') = Members(batch)
    BY <2>1 DEF Flying, Members
  <2>3. \A p : p \notin missed' => ~ Underway(p) /\ p \notin missed
    BY <2>1 DEF Underway
  <2> QED BY <2>1, <2>2, <2>3 DEF Newest, UpToDate, Result
<1>5. ASSUME NEW w \in Waiters, CallFlush(w) \/ Flush(w) PROVE Newest'
  <2>1. UNCHANGED <<applied, sent, writer, disk, index, missed, raced, batch, pending, loop>>
    BY <1>5 DEF CallFlush, Flush, SendFlush, FlushAfterStop, FlushReturns, channel, store, ghost
  <2>2. Flying' \subseteq Flying
    BY <2>1 DEF Flying, Members
  <2> QED BY <1>u, <2>1, <2>2
<1>6. CASE TakeRequest \/ DrainOne
  <2>1. UNCHANGED <<applied, sent, writer, disk, index, missed, raced>>
    BY <1>6 DEF TakeRequest, DrainOne, store, ghost
  <2>2. loop'.pc # "deletes"
    BY <1>6 DEF TakeRequest, DrainOne, TypeOK
  <2>3. Flying' \subseteq Flying
    BY <1>6, <1>f, <1>s DEF TakeRequest, DrainOne, Enqueue
  <2> QED BY <1>u, <2>1, <2>2, <2>3
<1>8. CASE TimerFires \/ TakeFlush \/ SeeStop \/ Drained
  <2>1. UNCHANGED <<applied, sent, writer, disk, index, missed, raced, batch, pending>>
    BY <1>8 DEF TimerFires, TakeFlush, SeeStop, Drained, channel, store, ghost
  <2>2. loop'.pc # "deletes"
    BY <1>8 DEF TimerFires, TakeFlush, SeeStop, Drained, TypeOK
  <2>3. Flying' \subseteq Flying
    BY <2>1 DEF Flying, Members
  <2> QED BY <1>u, <2>1, <2>2, <2>3
<1>9. CASE Upserts
  <2>1. UNCHANGED <<applied, sent, writer, disk, missed, raced, batch, pending>>
    BY <1>9 DEF Upserts, channel, store, ghost
  <2>2. Flying' = Flying /\ Members(batch') = Members(batch)
    BY <2>1 DEF Flying, Members
  <2>3. /\ index'.rows = index.rows \union Batched(FALSE)
        /\ \A p \in Paths :
             /\ index'.words[p] = index.words[p] \union {batch[i].stamp : i \in Positions(FALSE, p)}
             /\ index'.meta[p] = IF p \in Batched(FALSE) THEN LastOf(p) ELSE index.meta[p]
    BY <1>9, UpsertsFacts
  <2>4. \A p \in Paths : p \notin missed /\ applied[p] >= sent[p] =>
          /\ p \in index'.rows <=> p \in index.rows
          /\ index.words[p] \subseteq index'.words[p] /\ index'.meta[p] = index.meta[p]
    BY <2>3, NoneFlying
  <2>5. ASSUME NEW p \in Paths, p \notin missed, NEW r \in Members(batch), r.path = p, ~ r.delete, r.stamp = sent[p]
        PROVE  sent[p] \in index'.words[p] /\ index'.meta[p] = sent[p]
    <3>1. PICK q \in Members(batch) : q.path = p /\ LastOf(p) = q.stamp /\ r.stamp <= q.stamp
      BY <2>5, LastIsNewest DEF Queued
    <3>2. q.stamp <= sent[p] /\ q.stamp \in Nat
      BY <1>f, <1>k, <1>s, <2>5, <3>1
    <3>3. p \in Batched(FALSE) /\ r.stamp \in {batch[i].stamp : i \in Positions(FALSE, p)}
      BY <2>5, LastIsNewest DEF Queued
    <3>4. index'.meta[p] = LastOf(p) /\ r.stamp \in index'.words[p]
      BY <2>3, <3>3
    <3>5. q.stamp = sent[p]
      BY <1>s, <2>5, <3>1, <3>2
    <3> QED BY <2>5, <3>1, <3>4, <3>5
  <2>6. \A p \in Paths : p \notin missed /\ applied[p] >= sent[p] /\ UpToDate(p) => UpToDate(p)'
    BY <2>1, <2>4 DEF UpToDate
  <2> QED BY <2>1, <2>2, <2>5, <2>6 DEF Newest, Underway, Result
<1>10. CASE UpsertsFail
  <2>1. UNCHANGED <<applied, sent, writer, disk, raced, batch, pending>> /\ missed \subseteq missed'
    BY <1>10, UpsertsFailFacts DEF UpsertsFail, channel, store
  <2>2. Flying' = Flying /\ Members(batch') = Members(batch)
    BY <2>1 DEF Flying, Members
  <2>4. \A p \in Paths : p \notin missed' /\ applied[p] >= sent[p] =>
          /\ p \in index'.rows <=> p \in index.rows
          /\ index'.words[p] = index.words[p] /\ index'.meta[p] = index.meta[p]
    BY <1>10, <2>1, NoneFlying, UpsertsFailFacts
  <2>5. ASSUME NEW p \in Paths, p \notin missed', NEW r \in Members(batch), r.path = p, ~ r.delete, r.stamp = sent[p]
        PROVE  sent[p] \in index'.words[p] /\ index'.meta[p] = sent[p]
    <3>1. PICK q \in Members(batch) : q.path = p /\ LastOf(p) = q.stamp /\ r.stamp <= q.stamp
      BY <2>5, LastIsNewest DEF Queued
    <3>2. q.stamp <= sent[p] /\ q.stamp \in Nat
      BY <1>f, <1>k, <1>s, <2>1, <2>5, <3>1
    <3>3. p \in Batched(FALSE) /\ r.stamp \in {batch[i].stamp : i \in Positions(FALSE, p)}
      BY <2>5, LastIsNewest DEF Queued
    <3>4. index'.meta[p] = LastOf(p) /\ r.stamp \in index'.words[p]
      BY <1>10, <2>5, <3>3, UpsertsFailFacts DEF LastOf
    <3>5. q.stamp = sent[p]
      BY <1>s, <2>5, <3>1, <3>2
    <3> QED BY <2>5, <3>1, <3>4, <3>5
  <2>6. \A p \in Paths : p \notin missed' /\ applied[p] >= sent[p] /\ UpToDate(p) => UpToDate(p)'
    BY <2>1, <2>4 DEF UpToDate
  <2> QED BY <2>1, <2>2, <2>5, <2>6 DEF Newest, Underway, Result
<1>11. CASE Deletes \/ DeletesFail
  <2>1. /\ Finish /\ loop.pc = "deletes" /\ missed \subseteq missed'
        /\ index'.words = index.words /\ index'.rows \subseteq index.rows
        /\ \A p \in Paths : /\ index'.meta[p] \in {0, index.meta[p]}
                            /\ p \in Batched(TRUE) /\ p \notin missed' => index'.meta[p] = 0 /\ p \notin index'.rows
    BY <1>11, DeletesFacts
  <2>2. UNCHANGED <<sent, writer, disk, raced, pending>> /\ batch' = <<>>
    BY <2>1 DEF Finish, channel, store
  <2>3. Members(batch') = {} /\ Flying' \subseteq Flying
    BY <2>2, EmptySeq, LenProperties DEF Flying, Members
  <2>4. ASSUME NEW p \in Paths \ (missed' \union raced'), applied'[p] >= sent'[p], sent'[p] > 0, ~ Underway(p)'
        PROVE  UpToDate(p)'
    <3>1. p \notin missed /\ p \notin raced /\ ~ Underway(p)
      BY <2>1, <2>2, <2>4 DEF Underway
    <3>2. CASE applied'[p] = applied[p]
      <4>1. UpToDate(p)
        BY <2>2, <2>4, <3>1, <3>2 DEF Newest
      <4> QED BY <2>1, <2>2, <4>1 DEF UpToDate
    <3>3. CASE \E r \in Members(batch) : r.path = p /\ applied'[p] = r.stamp
      <4>1. PICK r \in Members(batch) : r.path = p /\ applied'[p] = r.stamp
        BY <3>3
      <4>2. r.stamp = sent[p] /\ r \in Req /\ r \in Flying
        BY <1>f, <1>k, <1>s, <2>2, <2>4, <3>1, <4>1
      <4>3. disk[p] = Result(r)
        BY <3>1, <4>1, <4>2 DEF Newest
      <4>4. CASE r.delete
        <5>1. p \in Batched(TRUE)
          BY <1>s, <4>1, <4>2, <4>4 DEF Batched, Positions, Members
        <5> QED BY <2>1, <2>4, <5>1 DEF UpToDate
      <4>5. CASE ~ r.delete
        <5>1. sent[p] \in index.words[p] /\ index.meta[p] = sent[p]
          BY <2>1, <3>1, <4>1, <4>2, <4>5 DEF Newest
        <5>2. disk'[p] = sent[p] /\ sent[p] # 0
          BY <1>s, <2>2, <2>4, <4>2, <4>3, <4>5 DEF Result
        <5> QED BY <2>1, <5>1, <5>2 DEF UpToDate
      <4> QED BY <4>4, <4>5
    <3> QED BY <2>1, <3>2, <3>3, FinishResult
  <2> QED BY <2>1, <2>2, <2>3, <2>4 DEF Newest, Underway, Result
<1>12. CASE ResyncIndex \/ ResyncAborts \/ \E p \in Paths : ResyncRemove(p) \/ ResyncSkips(p)
  <2>1. /\ UNCHANGED <<applied, sent, writer, disk, raced, batch, pending, loop>>
        /\ missed \subseteq missed' /\ resync.pc # "done"
    BY <1>12 DEF TypeOK, ResyncIndex, ResyncRemove, ResyncSkips, ResyncAborts, channel, store, ghost
  <2>2. Flying' = Flying /\ Members(batch') = Members(batch)
    BY <2>1 DEF Flying, Members
  <2>3. \A p \in Paths \ raced : sent[p] = 0
    BY <2>1 DEF Reconciling
  <2>4. \A r \in Members(batch) : r.path \notin missed \union raced => r.stamp > 0 /\ r.stamp <= 0
    BY <1>f, <1>k, <1>s, <2>3
  <2>5. \A p \in Paths \ (missed \union raced), r \in Members(batch) : r.path # p
    BY <1>f, <1>s, <2>4
  <2> QED BY <2>1, <2>2, <2>3, <2>5 DEF Newest, Underway, Result
<1>13. CASE ResyncList \/ ResyncWalked \/ ResyncEnds \/ \E p \in Paths : ResyncVisit(p)
  <2>1. UNCHANGED <<applied, sent, writer, disk, index, missed, raced, batch, pending, loop>>
    BY <1>13 DEF ResyncList, ResyncWalked, ResyncEnds, ResyncVisit, channel, store, ghost
  <2>2. Flying' \subseteq Flying
    BY <2>1 DEF Flying, Members
  <2> QED BY <1>u, <2>1, <2>2
<1>14. CASE StackClose \/ Close \/ UNCHANGED vars
  <2>1. UNCHANGED <<applied, sent, writer, disk, index, missed, raced, batch, pending, loop>>
    BY <1>14 DEF StackClose, Close, vars, channel, store, ghost
  <2>2. Flying' \subseteq Flying
    BY <2>1 DEF Flying, Members
  <2> QED BY <1>u, <2>1, <2>2
<1> QED BY <1>1, <1>3, <1>4, <1>5, <1>6, <1>8, <1>9, <1>10, <1>11, <1>12, <1>13, <1>14 DEF Next, Loop, Resync, WritePage, DeletePage

(* Every step keeps what Resync has done.                                  *)
LEMMA StepReconciling ==
  ASSUME TypeOK, Stamps, Queued, Ordered, Newest, Reconciling, [Next]_vars
  PROVE  Reconciling'
<1>s. /\ clock \in Nat
      /\ \A p \in Paths : sent[p] \in Nat /\ applied[p] \in Nat /\ disk[p] \in Nat
      /\ \A r \in Req : r.path \in Paths /\ r.stamp \in Nat /\ r.delete \in BOOLEAN
      /\ writer # NoReq => writer \in Req
  BY StateFacts
<1>r. /\ resync.holds # NoReq => resync.holds \in Req
      /\ NoReq.stamp = 0
      /\ index \in Tables /\ disk \in [Paths -> Content]
  BY DEF TypeOK, NoReq, Tables
<1>t. resync \in [pc : {"list", "walk", "remove", "done"},
                  indexed : SUBSET Paths, onDisk : SUBSET Paths, toVisit : SUBSET Paths,
                  holds : Req \union {NoReq}]
  BY DEF TypeOK
(* Pages become touched, and for the others nothing changes.               *)
<1> DEFINE Same == /\ resync' = resync /\ life' = life
                   /\ resync.pc # "done" => \A p \in Paths \ raced' : sent'[p] = 0 /\ ~ Underway(p)'
                   /\ \A p \in Paths : Untouched(p)' =>
                        Untouched(p) /\ (p \in index'.rows <=> p \in index.rows) /\ disk'[p] = disk[p]
<1>u. ASSUME Same PROVE Reconciling'
  BY <1>u DEF Reconciling, Walked, Held
<1>z. ASSUME UNCHANGED <<resync, life, sent, missed, raced, writer, index, disk>> PROVE Reconciling'
  BY <1>z DEF Reconciling, Walked, Held, Untouched, Underway
<1>1. ASSUME NEW q \in Paths, NEW c \in {0, clock + 1}, Touch(q, c) PROVE Reconciling'
  <2>1. /\ UNCHANGED <<sent, missed, index, resync, life>> /\ writer = NoReq /\ raced \subseteq raced'
        /\ (resync.pc # "done" => q \in raced')
        /\ writer' = [path |-> q, stamp |-> clock + 1, delete |-> c = 0] /\ disk' = [disk EXCEPT ![q] = c]
    BY <1>1 DEF Touch, channel, ghost
  <2>2. writer' # NoReq /\ writer'.path = q
    BY <1>s, <2>1 DEF NoReq
  <2>3. \A p : (Underway(p)' <=> p = q) /\ ~ Underway(p)
    BY <2>1, <2>2 DEF Underway
  <2>4. \A p \in Paths : p # q => disk'[p] = disk[p]
    BY <2>1
  <2>5. resync.pc # "done" => \A p \in Paths \ raced' : sent'[p] = 0 /\ ~ Underway(p)'
    BY <2>1, <2>3 DEF Reconciling
  <2>6. \A p \in Paths : Untouched(p)' => Untouched(p) /\ disk'[p] = disk[p]
    BY <2>1, <2>3, <2>4 DEF Untouched
  <2> QED BY <1>u, <2>1, <2>5, <2>6
<1>3. CASE Enqueue
  <2>1. /\ writer \in Req /\ writer.stamp = clock /\ writer' = NoReq /\ UNCHANGED <<disk, index, resync, raced, life>>
        /\ writer # NoReq /\ writer.path \in Paths /\ clock > 0
    BY <1>3, <1>s DEF Enqueue, Stamps, store, Ordered
  <2>2. \A p \in Paths : p # writer.path => sent'[p] = sent[p] /\ (p \in missed <=> p \in missed')
    BY <1>3, <2>1, EnqueueFacts DEF Enqueue
  <2>3. sent'[writer.path] = clock \/ writer.path \in missed'
    BY <1>3, <2>1 DEF Enqueue, TypeOK
  <2>4. \A p : ~ Underway(p)' /\ (Underway(p) <=> p = writer.path)
    BY <2>1 DEF Underway
  <2>5. resync.pc # "done" => \A p \in Paths \ raced' : sent'[p] = 0 /\ ~ Underway(p)'
    BY <2>1, <2>2, <2>4 DEF Reconciling
  <2>6. \A p \in Paths : Untouched(p)' => Untouched(p) /\ disk'[p] = disk[p]
    <3> SUFFICES ASSUME NEW p \in Paths, Untouched(p)' PROVE Untouched(p)
      BY <2>1
    <3>1. p # writer.path
      BY <1>s, <2>1, <2>3 DEF Untouched
    <3> QED BY <2>1, <2>2, <2>4, <3>1 DEF Untouched
  <2> QED BY <1>u, <2>1, <2>5, <2>6
<1>4. CASE EnqueueAfterStop
  <2>1. /\ writer # NoReq /\ writer' = NoReq /\ missed' = missed \union {writer.path} /\ writer.path \in Paths
        /\ UNCHANGED <<sent, disk, index, resync, raced, life>>
    BY <1>4, <1>s DEF EnqueueAfterStop, channel, store
  <2>2. \A p : ~ Underway(p)' /\ (Underway(p) <=> p = writer.path)
    BY <2>1 DEF Underway
  <2>3. resync.pc # "done" => \A p \in Paths \ raced' : sent'[p] = 0 /\ ~ Underway(p)'
    BY <2>1, <2>2 DEF Reconciling
  <2>4. \A p \in Paths : Untouched(p)' => Untouched(p) /\ disk'[p] = disk[p]
    BY <2>1, <2>2 DEF Untouched
  <2> QED BY <1>u, <2>1, <2>3, <2>4
<1>5. ASSUME NEW w \in Waiters, CallFlush(w) \/ Flush(w) PROVE Reconciling'
  BY <1>5, <1>z DEF CallFlush, Flush, SendFlush, FlushAfterStop, FlushReturns, channel, store, ghost
<1>6. CASE TakeRequest \/ DrainOne \/ TimerFires \/ TakeFlush \/ SeeStop \/ Drained
  BY <1>6, <1>z DEF TakeRequest, DrainOne, TimerFires, TakeFlush, SeeStop, Drained, channel, store, ghost
<1>7. CASE Upserts \/ UpsertsFail \/ Deletes \/ DeletesFail
  <2>1. /\ UNCHANGED <<sent, writer, disk, resync, raced, life>> /\ missed \subseteq missed'
    BY <1>7 DEF Upserts, UpsertsFail, Deletes, DeletesFail, Finish, channel, store, ghost
  <2>2. \A p \in Paths : p \notin Batched(FALSE) /\ p \notin Batched(TRUE) => (p \in index'.rows <=> p \in index.rows)
    <3>1. CASE Upserts
      BY <3>1, UpsertsFacts
    <3>2. CASE UpsertsFail
      BY <3>2, UpsertsFailFacts
    <3>3. CASE Deletes \/ DeletesFail
      BY <3>3, DeletesFacts
    <3> QED BY <1>7, <3>1, <3>2, <3>3
  <2>3. \A p \in Paths : Untouched(p) => (p \in index'.rows <=> p \in index.rows)
    <3> SUFFICES ASSUME NEW p \in Paths, Untouched(p) PROVE p \in index'.rows <=> p \in index.rows
      OBVIOUS
    <3>1. p \notin missed /\ applied[p] >= sent[p]
      BY <1>s DEF Untouched
    <3> QED BY <2>2, <3>1, NoneFlying
  <2>4. \A p \in Paths : Untouched(p)' =>
          Untouched(p) /\ (p \in index'.rows <=> p \in index.rows) /\ disk'[p] = disk[p]
    BY <2>1, <2>3 DEF Untouched, Underway
  <2>5. resync.pc # "done" => \A p \in Paths \ raced' : sent'[p] = 0 /\ ~ Underway(p)'
    BY <2>1 DEF Reconciling, Underway
  <2> QED BY <1>u, <2>1, <2>4, <2>5
(* Resync itself: only its record and the tables change.                   *)
<1> DEFINE Frame == UNCHANGED <<sent, writer, disk, raced, missed, life>>
<1>v. ASSUME Frame, resync.pc # "done", resync'.holds # NoReq => resync'.holds.stamp # 0,
             \A p \in Paths : Untouched(p) /\ Walked(p) => Walked(p)'
      PROVE  Reconciling'
  BY <1>v DEF Reconciling, Untouched, Underway
<1>8. CASE ResyncList
  <2>1. Frame /\ index' = index /\ resync.pc = "list"
    BY <1>8 DEF ResyncList, channel, store, ghost
  <2>2. resync'.pc = "walk" /\ resync'.holds = resync.holds /\ resync'.toVisit = resync.toVisit
        /\ resync'.onDisk = resync.onDisk /\ resync'.indexed = index.rows
    BY <1>8, <1>t DEF ResyncList
  <2>3. \A p \in Paths : Walked(p) => Walked(p)'
    BY <2>1, <2>2 DEF Walked, Held
  <2> QED BY <1>v, <2>1, <2>2, <2>3 DEF Reconciling
<1>9. ASSUME NEW q \in Paths, ResyncVisit(q) PROVE Reconciling'
  <2>1. Frame /\ index' = index /\ resync.pc = "walk" /\ resync.holds = NoReq /\ q \in resync.toVisit
    BY <1>9 DEF ResyncVisit, channel, store, ghost
  <2>2. /\ resync'.pc = "walk" /\ resync'.indexed = resync.indexed /\ resync'.toVisit = resync.toVisit \ {q}
        /\ resync'.onDisk = (IF disk[q] # 0 THEN resync.onDisk \union {q} ELSE resync.onDisk)
        /\ resync'.holds = (IF disk[q] # 0 /\ q \notin resync.indexed
                            THEN [path |-> q, stamp |-> disk[q], delete |-> FALSE] ELSE NoReq)
    BY <1>9, <1>t DEF ResyncVisit
  <2>3. resync'.holds # NoReq <=> (disk[q] # 0 /\ q \notin resync.indexed)
    BY <1>s, <2>2 DEF NoReq
  <2>4. resync'.holds # NoReq => resync'.holds.stamp = disk[q] /\ resync'.holds.path = q
    BY <2>2, <2>3
  <2>5. \A p \in Paths : (p = q => Held(p)' <=> (disk[q] # 0 /\ q \notin resync.indexed)) /\ (p # q => ~ Held(p)') /\ ~ Held(p)
    BY <2>1, <2>3, <2>4 DEF Held
  <2>6. ASSUME NEW p \in Paths, Walked(p) PROVE Walked(p)'
    <3>1. CASE p = q
      BY <2>1, <2>2, <2>3, <2>5, <2>6, <3>1 DEF Walked
    <3>2. CASE p # q
      BY <2>1, <2>2, <2>3, <2>5, <2>6, <3>2 DEF Walked
    <3> QED BY <3>1, <3>2
  <2> QED BY <1>v, <2>1, <2>3, <2>4, <2>6
<1>10. CASE ResyncIndex
  <2>1. Frame /\ resync.pc = "walk" /\ resync.holds # NoReq /\ resync.holds \in Req /\ resync.holds.path \in Paths
    BY <1>10, <1>r, <1>s DEF ResyncIndex, channel, store, ghost
  <2>2. /\ resync'.pc = "walk" /\ resync'.holds = NoReq /\ resync'.toVisit = resync.toVisit
        /\ resync'.onDisk = resync.onDisk /\ resync'.indexed = resync.indexed
        /\ index'.rows = index.rows \union {resync.holds.path}
    BY <1>10, <1>r, <1>t DEF ResyncIndex, Tables
  <2>3. \A p \in Paths : p \in index'.rows <=> Held(p) \/ p \in index.rows
    BY <2>1, <2>2 DEF Held
  <2>5. \A p \in Paths : ~ Held(p)'
    BY <2>2 DEF Held
  <2>6. ASSUME NEW p \in Paths, Walked(p) PROVE Walked(p)'
    BY <2>1, <2>2, <2>3, <2>5, <2>6 DEF Walked
  <2> QED BY <1>v, <2>1, <2>2, <2>6
<1>11. CASE ResyncWalked
  <2>1. Frame /\ index' = index /\ resync.pc = "walk" /\ resync.holds = NoReq /\ resync.toVisit = {}
    BY <1>11 DEF ResyncWalked, channel, store, ghost
  <2>2. /\ resync'.pc = "remove" /\ resync'.holds = NoReq /\ resync'.indexed = resync.indexed \ resync.onDisk
    BY <1>11, <1>t DEF ResyncWalked
  <2>3. \A p \in Paths : ~ Held(p)
    BY <2>1 DEF Held
  <2>4. ASSUME NEW p \in Paths, Walked(p) PROVE Walked(p)'
    BY <2>1, <2>2, <2>3, <2>4 DEF Walked
  <2> QED BY <1>v, <2>1, <2>2, <2>4
<1>12. ASSUME NEW q \in Paths, ResyncRemove(q) PROVE Reconciling'
  <2>1. Frame /\ resync.pc = "remove" /\ q \in resync.indexed /\ index'.rows = index.rows \ {q}
    BY <1>12, <1>r DEF Tables, ResyncRemove, channel, store, ghost
  <2>2. /\ resync'.pc = "remove" /\ resync'.holds = resync.holds /\ resync'.indexed = resync.indexed \ {q}
    BY <1>12, <1>t DEF ResyncRemove
  <2>3. \A p \in Paths : p \in index'.rows <=> p # q /\ p \in index.rows
    BY <2>1
  <2>4. ASSUME NEW p \in Paths, Walked(p) PROVE Walked(p)'
    BY <2>1, <2>2, <2>3, <2>4 DEF Walked
  <2> QED BY <1>v, <2>1, <2>2, <2>4 DEF Reconciling
<1>13. CASE ResyncEnds
  <2>1. Frame /\ index' = index /\ resync'.pc = "done" /\ resync'.holds = NoReq
    BY <1>13 DEF ResyncEnds, EndedResync, channel, store, ghost
  <2>2. CASE resync.pc = "remove" /\ resync.indexed = {}
    <3>1. \A p \in Paths : Walked(p) => Walked(p)'
      BY <2>1, <2>2 DEF Walked
    <3> QED BY <1>v, <2>1, <2>2, <3>1
  <2>3. CASE resync.pc # "done" /\ life = "closing"
    BY <2>1, <2>3 DEF Reconciling
  <2> QED BY <1>13, <2>2, <2>3 DEF ResyncEnds
<1>14. CASE StackClose
  <2>1. UNCHANGED <<resync, sent, writer, raced>> /\ life' = "closing"
    BY <1>14 DEF StackClose, channel, store
  <2> QED BY <2>1 DEF Reconciling, Underway
<1>15. CASE Close
  <2>1. UNCHANGED <<resync, sent, writer, raced>> /\ life' = "stopped" /\ resync.pc = "done"
    BY <1>15 DEF Close, channel, store
  <2> QED BY <2>1 DEF Reconciling, Underway
<1>16. CASE UNCHANGED vars
  BY <1>16, <1>z DEF vars
(* A page Resync fails on counts as missed, and the others keep theirs.    *)
<1>17. ASSUME NEW q \in Paths, ResyncSkips(q) PROVE Reconciling'
  <2>1. /\ UNCHANGED <<sent, writer, disk, raced, life, index>> /\ missed' = missed \union {q}
        /\ resync.pc # "done" /\ resync'.pc = resync.pc
        /\ resync'.toVisit \union {q} = resync.toVisit \union {q}
        /\ resync'.onDisk \union {q} = resync.onDisk \union {q}
        /\ resync'.indexed \union {q} = resync.indexed \union {q}
        /\ resync'.holds = NoReq \/ (resync'.holds = resync.holds /\ resync.pc = "remove")
        /\ resync.pc = "walk" => resync.holds = NoReq \/ resync.holds.path = q
        /\ resync.pc # "list"
    BY <1>17, <1>t DEF ResyncSkips, channel, store
  <2>2. \A p \in Paths : Untouched(p)' => Untouched(p) /\ p # q
    BY <2>1 DEF Untouched, Underway
  <2>3. ASSUME NEW p \in Paths, p # q, Walked(p) PROVE Walked(p)'
    <3>1. /\ p \in resync'.toVisit <=> p \in resync.toVisit
          /\ p \in resync'.onDisk <=> p \in resync.onDisk
          /\ p \in resync'.indexed <=> p \in resync.indexed
      BY <2>1, <2>3
    <3>2. resync.pc = "walk" => ~ Held(p) /\ ~ Held(p)'
      BY <2>1, <2>3 DEF Held
    <3> QED BY <2>1, <2>3, <3>1, <3>2 DEF Walked
  <2> QED BY <2>1, <2>2, <2>3 DEF Reconciling, Underway
<1>18. CASE ResyncAborts
  <2>1. resync'.pc = "done" /\ resync'.holds = NoReq /\ missed' = Paths
    BY <1>18 DEF ResyncAborts, EndedResync
  <2> QED BY <2>1 DEF Reconciling, Untouched
<1> QED BY <1>1, <1>3, <1>4, <1>5, <1>6, <1>7, <1>8, <1>9, <1>10, <1>11, <1>12, <1>13, <1>14, <1>15, <1>16, <1>17, <1>18 DEF Next, Loop, Resync, WritePage, DeletePage

(* The tables start as the last run left them, with nothing in flight.     *)
LEMMA InitTables == Init => TablesInv
<1> SUFFICES ASSUME Init PROVE TablesInv
  OBVIOUS
<1>1. DOMAIN batch = {} /\ DOMAIN pending = {}
  BY EmptySeq, LenProperties DEF Init
<1>2. Inv
  BY InitInv
<1>3. Queued /\ Flying = {} /\ Members(batch) = {}
  BY <1>1 DEF Queued, InOrder, Before, Flying, Members
<1>4. Ordered /\ Newest
  BY <1>3 DEF Init, Ordered, Newest, Known, Zero
<1>5. resync.pc \in {"list", "done"} /\ resync.holds = NoReq
      /\ (resync.pc = "list" => resync.toVisit = Paths /\ resync.onDisk = {})
      /\ (resync.pc = "done" => \A p \in Paths : disk[p] = 0 /\ p \notin index.rows)
  BY DEF Init
<1>6. Reconciling
  BY <1>5 DEF Init, Reconciling, Walked, Untouched, Underway, Zero
<1> QED BY <1>2, <1>3, <1>4, <1>6 DEF TablesInv

(* Every step keeps all of it.                                             *)
LEMMA StepTables == TablesInv /\ [Next]_vars => TablesInv'
<1> SUFFICES ASSUME TablesInv, [Next]_vars PROVE TablesInv'
  OBVIOUS
<1>1. Inv /\ TypeOK /\ Stamps /\ Queued /\ Ordered /\ Newest /\ Reconciling
  BY DEF TablesInv, Inv
<1>2. Inv'
  BY <1>1, StepInv
<1>3. Queued' /\ Ordered' /\ Newest' /\ Reconciling'
  BY <1>1, StepQueued, StepOrdered, StepNewest, StepReconciling
<1> QED BY <1>2, <1>3 DEF TablesInv

(* The channels, the batch, the tables and Resync agree in every state, as *)
(* the parts of TablesInv say.                                             *)
LEMMA TablesInvariance == Spec => []TablesInv
BY InitTables, StepTables, PTL DEF Spec

(* Once nothing is on its way, a page the indexer has seen a change of is  *)
(* only listed if it exists, then found by the words it has now, and its   *)
(* links and metadata are of that content or gone, however writes, deletes,*)
(* failed transactions, Resync and Close interleave; excepted are pages    *)
(* changed while Resync ran and pages with a change that was dropped or    *)
(* failed.                                                                 *)
THEOREM NeverStaleHolds == Spec => []NeverStale
<1>1. TablesInv => NeverStale
  <2> SUFFICES ASSUME TablesInv, Settled, NEW p \in Paths \ (missed \union raced), applied[p] > 0
               PROVE  UpToDate(p)
    BY DEF NeverStale, UpToDate
  <2>1. TypeOK /\ Carried /\ Ordered /\ Newest
    BY DEF TablesInv, Inv
  <2>2. sent[p] \in Nat /\ applied[p] \in Nat
    BY <2>1, StateFacts
  <2>3. Covered(p, sent[p]) /\ pending = <<>> /\ batch = <<>> /\ ~ Underway(p)
    BY <2>1 DEF Carried, Settled, Underway
  <2>4. applied[p] >= sent[p]
    BY <2>3, NothingHas DEF Covered, Taken
  <2>5. applied[p] <= sent[p]
    BY <2>1 DEF Ordered, Known
  <2> QED BY <2>1, <2>2, <2>3, <2>4, <2>5 DEF Newest
<1> QED BY <1>1, TablesInvariance, PTL

(* Once a Resync that nothing cut short is over and nothing is on its way, *)
(* a page nobody changed meanwhile and Resync did not fail on is listed iff*)
(* it is on disk, from whatever the tables held at start.                  *)
THEOREM ResyncReconcilesHolds == Spec => []ResyncReconciles
<1>1. TablesInv => ResyncReconciles
  BY DEF TablesInv, Reconciling, Walked, Untouched, Underway, ResyncReconciles, Settled
<1> QED BY <1>1, TablesInvariance, PTL

-----------------------------------------------------------------------------
(* The indexer seen from outside is IndexQueue.  Its requests leave the    *)
(* queue, and the tables show all of their effect, when the upserts are    *)
(* written: from there on the deletes only carry out what is decided.      *)
Handed == IF loop.pc = "deletes" THEN pending ELSE batch \o pending
Shown  == IF loop.pc = "deletes" THEN Removed(Batched(TRUE)) ELSE index
Queue  == INSTANCE IndexQueue
            WITH queue <- Handed, tables <- Shown, reconciling <- (resync.pc # "done")

(* A sequence followed by another: where the elements of both are.         *)
LEMMA ConcatParts ==
  ASSUME NEW S, NEW s \in Seq(S), NEW t \in Seq(S)
  PROVE  /\ s \o t \in Seq(S) /\ Len(s \o t) = Len(s) + Len(t)
         /\ \A i \in 1 .. Len(s) : (s \o t)[i] = s[i]
         /\ \A i \in 1 .. Len(t) : (s \o t)[Len(s) + i] = t[i]
<1>1. Len(s) \in Nat /\ Len(t) \in Nat
  BY LenProperties
<1>2. /\ s \o t \in Seq(S) /\ Len(s \o t) = Len(s) + Len(t)
      /\ \A i \in 1 .. Len(s) + Len(t) : (s \o t)[i] = IF i <= Len(s) THEN s[i] ELSE t[i - Len(s)]
  BY ConcatProperties
<1>3. \A i \in 1 .. Len(s) : i \in 1 .. Len(s) + Len(t) /\ i <= Len(s)
  BY <1>1
<1>4. \A i \in 1 .. Len(t) : /\ Len(s) + i \in 1 .. Len(s) + Len(t) /\ ~ (Len(s) + i <= Len(s))
                             /\ (Len(s) + i) - Len(s) = i
  BY <1>1
<1> QED BY <1>2, <1>3, <1>4

(* A sequence with these elements is the one followed by the other.        *)
LEMMA ConcatIs ==
  ASSUME NEW S, NEW s \in Seq(S), NEW t \in Seq(S), NEW u \in Seq(S),
         Len(u) = Len(s) + Len(t),
         \A i \in 1 .. Len(s) : u[i] = s[i],
         \A i \in 1 .. Len(t) : u[Len(s) + i] = t[i]
  PROVE  s \o t = u
<1> DEFINE w == s \o t
           m == Len(s)
           n == Len(t)
<1>1. m \in Nat /\ n \in Nat
  BY LenProperties
<1>2. /\ w \in Seq(S) /\ Len(w) = m + n
      /\ \A i \in 1 .. m : w[i] = s[i]
      /\ \A i \in 1 .. n : w[m + i] = t[i]
  BY ConcatParts
<1>3. /\ Len(u) = m + n
      /\ \A i \in 1 .. m : u[i] = s[i]
      /\ \A i \in 1 .. n : u[m + i] = t[i]
  OBVIOUS
<1> HIDE DEF w, m, n
<1>4. ASSUME NEW i \in 1 .. m + n PROVE w[i] = u[i]
  <2>1. CASE i <= m
    BY <1>1, <1>2, <1>3, <2>1
  <2>2. CASE ~ (i <= m)
    <3>1. i - m \in 1 .. n /\ m + (i - m) = i
      BY <1>1, <2>2
    <3> QED BY <1>2, <1>3, <3>1
  <2> QED BY <2>1, <2>2
<1>5. w = u
  BY <1>2, <1>3, <1>4, SeqEqual
<1> QED BY <1>5 DEF w

(* What becomes of the batch followed by the channel when one request is   *)
(* added at the end, moved from the one to the other, or the batch ends.   *)
LEMMA JoinedSequences ==
  ASSUME NEW S, NEW s \in Seq(S), NEW t \in Seq(S)
  PROVE  /\ \A r \in S : s \o Append(t, r) = Append(s \o t, r)
         /\ t # <<>> => Append(s, Head(t)) \o Tail(t) = s \o t
         /\ SubSeq(s \o t, 1, Len(s)) = s
         /\ SubSeq(s \o t, Len(s) + 1, Len(s \o t)) = t
<1> DEFINE m == Len(s)
           n == Len(t)
           u == s \o t
<1>1. /\ m \in Nat /\ n \in Nat
      /\ \A i \in 1 .. m : s[i] \in S
      /\ \A i \in 1 .. n : t[i] \in S
  BY LenProperties, ElementOfSeq
<1>2. /\ u \in Seq(S) /\ Len(u) = m + n
      /\ \A i \in 1 .. m : u[i] = s[i]
      /\ \A i \in 1 .. n : u[m + i] = t[i]
  BY ConcatParts
<1> HIDE DEF u
<1>3. ASSUME NEW r \in S PROVE s \o Append(t, r) = Append(u, r)
  <2> DEFINE v == Append(t, r)
             k == Append(u, r)
  <2>1. v \in Seq(S) /\ Len(v) = n + 1 /\ v[n + 1] = r /\ \A i \in 1 .. n : v[i] = t[i]
    BY AppendProperties
  <2>2. k \in Seq(S) /\ Len(k) = Len(u) + 1 /\ k[Len(u) + 1] = r /\ \A i \in 1 .. Len(u) : k[i] = u[i]
    BY <1>2, AppendProperties
  <2> HIDE DEF v, k
  <2>3. Len(k) = m + Len(v)
    BY <1>1, <1>2, <2>1, <2>2
  <2>4. \A i \in 1 .. m : k[i] = s[i]
    BY <1>1, <1>2, <2>2
  <2>5. ASSUME NEW i \in 1 .. Len(v) PROVE k[m + i] = v[i]
    <3>1. CASE i = n + 1
      BY <1>1, <1>2, <2>1, <2>2, <3>1
    <3>2. CASE i # n + 1
      <4>1. i \in 1 .. n /\ m + i \in 1 .. Len(u)
        BY <1>1, <1>2, <2>1, <2>5, <3>2
      <4> QED BY <1>2, <2>1, <2>2, <4>1
    <3> QED BY <3>1, <3>2
  <2>6. s \o v = k
    BY <2>1, <2>2, <2>3, <2>4, <2>5, ConcatIs
  <2> QED BY <2>6 DEF v, k
<1>4. ASSUME t # <<>> PROVE Append(s, Head(t)) \o Tail(t) = u
  <2> DEFINE h == Append(s, Head(t))
             v == Tail(t)
  <2>1. /\ n >= 1 /\ Head(t) = t[1] /\ Head(t) \in S
        /\ v \in Seq(S) /\ Len(v) = n - 1 /\ \A i \in 1 .. n - 1 : v[i] = t[i + 1]
    BY <1>1, <1>4, HeadTailProperties, EmptySeq
  <2>2. h \in Seq(S) /\ Len(h) = m + 1 /\ h[m + 1] = t[1] /\ \A i \in 1 .. m : h[i] = s[i]
    BY <2>1, AppendProperties
  <2> HIDE DEF h, v, m, n
  <2>3. Len(u) = Len(h) + Len(v)
    BY <1>1, <1>2, <2>1, <2>2
  <2>4. ASSUME NEW i \in 1 .. Len(h) PROVE u[i] = h[i]
    <3>1. CASE i = m + 1
      BY <1>1, <1>2, <2>1, <2>2, <3>1
    <3>2. CASE i # m + 1
      <4>1. i \in 1 .. m
        BY <1>1, <2>2, <2>4, <3>2
      <4> QED BY <1>2, <2>2, <4>1
    <3> QED BY <3>1, <3>2
  <2>5. ASSUME NEW i \in 1 .. Len(v) PROVE u[Len(h) + i] = v[i]
    <3>1. i \in 1 .. n - 1 /\ i + 1 \in 1 .. n /\ Len(h) + i = m + (i + 1)
      BY <1>1, <2>1, <2>2, <2>5
    <3> QED BY <1>2, <2>1, <3>1
  <2>6. h \o v = u
    BY <1>2, <2>1, <2>2, <2>3, <2>4, <2>5, ConcatIs
  <2> QED BY <2>6 DEF h, v
<1>5. SubSeq(u, 1, m) = s
  <2>1. \A i \in 1 .. m : u[i] \in S
    BY <1>1, <1>2
  <2>2. /\ SubSeq(u, 1, m) \in Seq(S) /\ Len(SubSeq(u, 1, m)) = (IF 1 <= m THEN m - 1 + 1 ELSE 0)
        /\ \A i \in 1 .. m - 1 + 1 : SubSeq(u, 1, m)[i] = u[1 + i - 1]
    BY <1>1, <2>1, SubSeqProperties
  <2>3. Len(SubSeq(u, 1, m)) = m /\ \A i \in 1 .. m : SubSeq(u, 1, m)[i] = s[i]
    BY <1>1, <1>2, <2>2
  <2> QED BY <2>2, <2>3, SeqEqual
<1>6. SubSeq(u, m + 1, Len(u)) = t
  <2> DEFINE w == SubSeq(u, m + 1, Len(u))
  <2>1. ASSUME NEW i \in m + 1 .. Len(u) PROVE u[i] \in S
    <3>1. i - m \in 1 .. n /\ m + (i - m) = i
      BY <1>1, <1>2, <2>1
    <3> QED BY <1>1, <1>2, <3>1
  <2>2. /\ w \in Seq(S) /\ Len(w) = (IF m + 1 <= Len(u) THEN Len(u) - (m + 1) + 1 ELSE 0)
        /\ \A i \in 1 .. Len(u) - (m + 1) + 1 : w[i] = u[m + 1 + i - 1]
    <3>1. m + 1 \in Int /\ Len(u) \in Int
      BY <1>1, <1>2
    <3> QED BY <2>1, <3>1, SubSeqProperties
  <2> HIDE DEF w
  <2>3. Len(u) - (m + 1) + 1 = n /\ Len(w) = n
    BY <1>1, <1>2, <2>2
  <2>4. ASSUME NEW i \in 1 .. n PROVE w[i] = t[i]
    <3>1. m + 1 + i - 1 = m + i
      BY <1>1
    <3> QED BY <1>2, <2>2, <2>3, <3>1
  <2>5. w = t
    BY <2>2, <2>3, <2>4, SeqEqual
  <2> QED BY <2>5 DEF w
<1> QED BY <1>3, <1>4, <1>5, <1>6 DEF u

(* Requests applied together do what they do one at a time, as long as no  *)
(* upsert follows a deletion of the same page.                             *)
THEOREM OneAtATime ==
  ASSUME NEW q \in Seq(Queue!Request), NEW r \in Queue!Request,
         NEW t \in [rows : SUBSET Paths, words : [Paths -> SUBSET Nat], meta : [Paths -> Nat]],
         ~ r.delete => Queue!Positions(q, TRUE, r.path) = {}
  PROVE  Queue!After(Append(q, r), t) = Queue!After(<<r>>, Queue!After(q, t))
<1> DEFINE a == Append(q, r)
           n == Len(q)
           one == <<r>>
           u == Queue!After(q, t)
<1>1. /\ n \in Nat /\ DOMAIN q = 1 .. n /\ DOMAIN a = 1 .. n + 1 /\ a[n + 1] = r
      /\ \A i \in 1 .. n : a[i] = q[i]
      /\ DOMAIN one = {1} /\ one[1] = r
  BY AppendProperties, LenProperties
<1>2. r.path \in Paths /\ r.delete \in BOOLEAN /\ \A P : Queue!Max(P) = Max(P)
  BY DEF Queue!Request, Queue!Max, Max
<1> HIDE DEF a, n, one
<1>3. \A d \in BOOLEAN, p \in Paths :
        /\ Queue!Positions(a, d, p) = Queue!Positions(q, d, p) \union (IF r.path = p /\ r.delete = d THEN {n + 1} ELSE {})
        /\ Queue!Positions(one, d, p) = (IF r.path = p /\ r.delete = d THEN {1} ELSE {})
        /\ Queue!Positions(q, d, p) \subseteq 1 .. n
  <2> SUFFICES ASSUME NEW d \in BOOLEAN, NEW p \in Paths
               PROVE  /\ Queue!Positions(a, d, p) = Queue!Positions(q, d, p) \union (IF r.path = p /\ r.delete = d THEN {n + 1} ELSE {})
                      /\ Queue!Positions(one, d, p) = (IF r.path = p /\ r.delete = d THEN {1} ELSE {})
                      /\ Queue!Positions(q, d, p) \subseteq 1 .. n
    OBVIOUS
  <2>1. \A i : i \in 1 .. n + 1 <=> i \in 1 .. n \/ i = n + 1
    BY <1>1
  <2>2. n + 1 \notin 1 .. n
    BY <1>1
  <2>3. Queue!Positions(a, d, p) = Queue!Positions(q, d, p) \union (IF r.path = p /\ r.delete = d THEN {n + 1} ELSE {})
    BY <1>1, <2>1, <2>2 DEF Queue!Positions
  <2>4. Queue!Positions(one, d, p) = (IF r.path = p /\ r.delete = d THEN {1} ELSE {}) /\ Queue!Positions(q, d, p) \subseteq 1 .. n
    BY <1>1 DEF Queue!Positions
  <2> QED BY <2>3, <2>4
(* The last upsert of a page: the new request, or that of q.               *)
<1>4. ASSUME NEW p \in Paths, Queue!Positions(a, FALSE, p) # {}
      PROVE  a[Max(Queue!Positions(a, FALSE, p))].stamp =
               IF r.path = p /\ ~ r.delete THEN r.stamp ELSE q[Max(Queue!Positions(q, FALSE, p))].stamp
  <2> DEFINE P == Queue!Positions(a, FALSE, p)
             Q == Queue!Positions(q, FALSE, p)
  <2>1. P = Q \union (IF r.path = p /\ ~ r.delete THEN {n + 1} ELSE {}) /\ Q \subseteq 1 .. n
    BY <1>2, <1>3
  <2>2. P # {}
    BY <1>4
  <2> HIDE DEF P, Q
  <2>3. n + 1 \in Nat /\ P \in SUBSET (0 .. n + 1) /\ Q \in SUBSET (0 .. n)
    BY <1>1, <2>1
  <2>4. CASE r.path = p /\ ~ r.delete
    <3>1. Max(P) \in P /\ \A x \in P : x <= Max(P)
      BY <2>2, <2>3, MaxFacts
    <3>2. Max(P) \in 0 .. n + 1 /\ n + 1 <= Max(P)
      BY <2>1, <2>3, <2>4, <3>1
    <3>3. Max(P) = n + 1
      BY <1>1, <3>2
    <3> QED BY <1>1, <2>4, <3>3 DEF P
  <2>5. CASE ~ (r.path = p /\ ~ r.delete)
    <3>1. P = Q /\ Q # {}
      BY <2>1, <2>2, <2>5
    <3>2. Max(Q) \in Q
      BY <1>1, <2>3, <3>1, MaxFacts
    <3>3. Max(Q) \in 1 .. n
      BY <2>1, <3>2
    <3> QED BY <1>1, <2>5, <3>1, <3>3 DEF P, Q
  <2> QED BY <2>4, <2>5
<1>5. /\ u.rows = {p \in Paths : Queue!Positions(q, TRUE, p) = {} /\ (p \in t.rows \/ Queue!Positions(q, FALSE, p) # {})}
      /\ \A p \in Paths :
           /\ u.words[p] = t.words[p] \union {q[i].stamp : i \in Queue!Positions(q, FALSE, p)}
           /\ u.meta[p] = IF Queue!Positions(q, TRUE, p) # {} THEN 0
                          ELSE IF Queue!Positions(q, FALSE, p) # {}
                          THEN q[Max(Queue!Positions(q, FALSE, p))].stamp ELSE t.meta[p]
  BY <1>2 DEF Queue!After
<1> HIDE DEF u
<1>6. ASSUME NEW p \in Paths
      PROVE  (Queue!Positions(a, TRUE, p) = {} /\ (p \in t.rows \/ Queue!Positions(a, FALSE, p) # {}))
             <=> (Queue!Positions(one, TRUE, p) = {} /\ (p \in u.rows \/ Queue!Positions(one, FALSE, p) # {}))
  <2>1. p \in u.rows <=> Queue!Positions(q, TRUE, p) = {} /\ (p \in t.rows \/ Queue!Positions(q, FALSE, p) # {})
    BY <1>5
  <2>2. CASE r.path = p /\ r.delete
    <3>1. Queue!Positions(a, TRUE, p) # {} /\ Queue!Positions(one, TRUE, p) # {}
      BY <1>2, <1>3, <2>2
    <3> QED BY <3>1
  <2>3. CASE r.path = p /\ ~ r.delete
    <3>1. /\ Queue!Positions(a, TRUE, p) = {} /\ Queue!Positions(a, FALSE, p) # {}
          /\ Queue!Positions(one, TRUE, p) = {} /\ Queue!Positions(one, FALSE, p) # {}
      BY <1>2, <1>3, <2>3
    <3> QED BY <3>1
  <2>4. CASE r.path # p
    <3>1. \A d \in BOOLEAN : Queue!Positions(a, d, p) = Queue!Positions(q, d, p) /\ Queue!Positions(one, d, p) = {}
      BY <1>3, <2>4
    <3> QED BY <2>1, <3>1
  <2> QED BY <1>2, <2>2, <2>3, <2>4
<1>7. ASSUME NEW p \in Paths
      PROVE  t.words[p] \union {a[i].stamp : i \in Queue!Positions(a, FALSE, p)}
             = u.words[p] \union {one[i].stamp : i \in Queue!Positions(one, FALSE, p)}
  <2> DEFINE Q == Queue!Positions(q, FALSE, p)
  <2>1. \A i \in Q : a[i] = q[i]
    BY <1>1, <1>3
  <2>2. u.words[p] = t.words[p] \union {q[i].stamp : i \in Q}
    BY <1>5
  <2>3. /\ Queue!Positions(a, FALSE, p) = Q \union (IF r.path = p /\ ~ r.delete THEN {n + 1} ELSE {})
        /\ Queue!Positions(one, FALSE, p) = IF r.path = p /\ ~ r.delete THEN {1} ELSE {}
    BY <1>2, <1>3
  <2> HIDE DEF Q
  <2>4. CASE r.path = p /\ ~ r.delete
    <3>1. {a[i].stamp : i \in Queue!Positions(a, FALSE, p)} = {q[i].stamp : i \in Q} \union {r.stamp}
      <4>1. Queue!Positions(a, FALSE, p) = Q \union {n + 1} /\ a[n + 1] = r
        BY <1>1, <2>3, <2>4
      <4>2. {a[i].stamp : i \in Q \union {n + 1}} = {a[i].stamp : i \in Q} \union {a[n + 1].stamp}
        OBVIOUS
      <4>3. {a[i].stamp : i \in Q} = {q[i].stamp : i \in Q}
        BY <2>1
      <4> QED BY <4>1, <4>2, <4>3
    <3>2. {one[i].stamp : i \in Queue!Positions(one, FALSE, p)} = {r.stamp}
      <4>1. Queue!Positions(one, FALSE, p) = {1} /\ one[1] = r
        BY <1>1, <2>3, <2>4
      <4>2. {one[i].stamp : i \in {1}} = {one[1].stamp}
        OBVIOUS
      <4> QED BY <4>1, <4>2
    <3> QED BY <2>2, <3>1, <3>2
  <2>5. CASE ~ (r.path = p /\ ~ r.delete)
    <3>1. {a[i].stamp : i \in Queue!Positions(a, FALSE, p)} = {q[i].stamp : i \in Q}
      BY <2>1, <2>3, <2>5
    <3>2. {one[i].stamp : i \in Queue!Positions(one, FALSE, p)} = {}
      BY <2>3, <2>5
    <3> QED BY <2>2, <3>1, <3>2
  <2> QED BY <2>4, <2>5
<1>8. ASSUME NEW p \in Paths
      PROVE  (IF Queue!Positions(a, TRUE, p) # {} THEN 0
              ELSE IF Queue!Positions(a, FALSE, p) # {} THEN a[Max(Queue!Positions(a, FALSE, p))].stamp ELSE t.meta[p])
             = (IF Queue!Positions(one, TRUE, p) # {} THEN 0
                ELSE IF Queue!Positions(one, FALSE, p) # {} THEN one[Max(Queue!Positions(one, FALSE, p))].stamp ELSE u.meta[p])
  <2>1. Max({1}) = 1
    <3>1. 1 \in Nat /\ {1} \in SUBSET (0 .. 1) /\ {1} # {}
      OBVIOUS
    <3>2. Max({1}) \in {1}
      BY <3>1, MaxFacts
    <3> QED BY <3>2
  <2>2. CASE r.path = p /\ ~ r.delete
    <3>1. Queue!Positions(a, TRUE, p) = {} /\ Queue!Positions(a, FALSE, p) # {}
          /\ Queue!Positions(one, TRUE, p) = {} /\ Queue!Positions(one, FALSE, p) = {1}
      BY <1>2, <1>3, <2>2
    <3>2. a[Max(Queue!Positions(a, FALSE, p))].stamp = r.stamp
      BY <1>4, <2>2, <3>1
    <3> QED BY <1>1, <2>1, <3>1, <3>2
  <2>3. CASE r.path = p /\ r.delete
    <3>1. Queue!Positions(a, TRUE, p) # {} /\ Queue!Positions(one, TRUE, p) # {}
      BY <1>2, <1>3, <2>3
    <3> QED BY <3>1
  <2>4. CASE r.path # p
    <3>1. /\ \A d \in BOOLEAN : Queue!Positions(a, d, p) = Queue!Positions(q, d, p) /\ Queue!Positions(one, d, p) = {}
      BY <1>3, <2>4
    <3>2. Queue!Positions(a, FALSE, p) # {} =>
            a[Max(Queue!Positions(a, FALSE, p))].stamp = q[Max(Queue!Positions(q, FALSE, p))].stamp
      BY <1>4, <2>4
    <3> QED BY <1>5, <3>1, <3>2
  <2> QED BY <2>2, <2>3, <2>4
<1>9. Queue!After(a, t) =
        [rows  |-> {p \in Paths : Queue!Positions(a, TRUE, p) = {} /\ (p \in t.rows \/ Queue!Positions(a, FALSE, p) # {})},
         words |-> [p \in Paths |-> t.words[p] \union {a[i].stamp : i \in Queue!Positions(a, FALSE, p)}],
         meta  |-> [p \in Paths |-> IF Queue!Positions(a, TRUE, p) # {} THEN 0
                                    ELSE IF Queue!Positions(a, FALSE, p) # {}
                                    THEN a[Max(Queue!Positions(a, FALSE, p))].stamp ELSE t.meta[p]]]
  BY <1>2 DEF Queue!After
<1>10. Queue!After(one, u) =
        [rows  |-> {p \in Paths : Queue!Positions(one, TRUE, p) = {} /\ (p \in u.rows \/ Queue!Positions(one, FALSE, p) # {})},
         words |-> [p \in Paths |-> u.words[p] \union {one[i].stamp : i \in Queue!Positions(one, FALSE, p)}],
         meta  |-> [p \in Paths |-> IF Queue!Positions(one, TRUE, p) # {} THEN 0
                                    ELSE IF Queue!Positions(one, FALSE, p) # {}
                                    THEN one[Max(Queue!Positions(one, FALSE, p))].stamp ELSE u.meta[p]]]
  BY <1>2 DEF Queue!After
<1>11. Queue!After(a, t) = Queue!After(one, u)
  BY <1>6, <1>7, <1>8, <1>9, <1>10, Zenon
<1> QED BY <1>11 DEF a, one, u

(* A step that leaves the batch, the channel and the tables alone, and is  *)
(* not the one between the upserts and the deletes, changes nothing here.  *)
LEMMA SameQueue ==
  ASSUME batch' = batch, pending' = pending, index' = index,
         (loop'.pc = "deletes") = (loop.pc = "deletes"),
         (resync'.pc # "done") = (resync.pc # "done")
  PROVE  UNCHANGED Queue!vars
<1>1. Batched(TRUE)' = Batched(TRUE)
  BY DEF Batched, Positions
<1>2. Handed' = Handed
  BY DEF Handed
<1>3. Shown' = Shown
  BY <1>1 DEF Shown, Removed
<1> QED BY <1>2, <1>3 DEF Queue!vars

(* A pipeline request joins the queue.                                     *)
LEMMA QueueGrows ==
  ASSUME TypeOK, Enqueue
  PROVE  Queue!Next
<1>1. /\ writer \in Req /\ pending \in Seq(Req) /\ batch \in Seq(Req)
      /\ pending' = Append(pending, writer)
      /\ UNCHANGED <<batch, index, loop, resync>>
  BY DEF Enqueue, TypeOK
<1>2. Batched(TRUE)' = Batched(TRUE)
  BY <1>1 DEF Batched, Positions
<1>3. writer \in Queue!Request
  BY <1>1, IndexerAssumption DEF Req, Queue!Request, Content
<1>4. batch \o Append(pending, writer) = Append(batch \o pending, writer)
  BY <1>1, JoinedSequences
<1>5. Handed' = Append(Handed, writer)
  BY <1>1, <1>4 DEF Handed
<1>6. Shown' = Shown /\ resync' = resync
  BY <1>1, <1>2 DEF Shown, Removed
<1>7. Queue!HandOver(writer)
  BY <1>5, <1>6 DEF Queue!HandOver
<1> QED BY <1>3, <1>7 DEF Queue!Next

(* A request that goes from the channel to the batch stays where it is in  *)
(* the queue.                                                              *)
LEMMA QueueMoves ==
  ASSUME TypeOK, TakeRequest \/ DrainOne
  PROVE  UNCHANGED Queue!vars
<1>1. /\ pending \in Seq(Req) /\ batch \in Seq(Req) /\ pending # <<>>
      /\ pending' = Tail(pending) /\ batch' = Append(batch, Head(pending))
      /\ UNCHANGED <<index, resync>>
      /\ loop.pc # "deletes" /\ loop'.pc # "deletes"
  BY DEF TakeRequest, DrainOne, TypeOK
<1>2. Handed' = Handed
  BY <1>1, JoinedSequences DEF Handed
<1>3. Shown' = Shown
  BY <1>1 DEF Shown
<1> QED BY <1>1, <1>2, <1>3 DEF Queue!vars

(* The upserts are written: all of the batch is applied.                   *)
LEMMA QueueShrinks ==
  ASSUME TypeOK, Upserts
  PROVE  [Queue!Next]_(Queue!vars)
<1>1. /\ pending \in Seq(Req) /\ batch \in Seq(Req) /\ index \in Tables
      /\ loop.pc = "upserts" /\ loop'.pc = "deletes"
      /\ UNCHANGED <<pending, batch, resync>>
  BY DEF Upserts, channel, TypeOK, Tables
<1>w. /\ index' \in Tables /\ index'.rows = index.rows \union Batched(FALSE)
      /\ \A p \in Paths :
           /\ index'.words[p] = index.words[p] \union {batch[i].stamp : i \in Positions(FALSE, p)}
           /\ index'.meta[p] = IF p \in Batched(FALSE) THEN LastOf(p) ELSE index.meta[p]
  BY UpsertsFacts, InsertedFacts, DescribedFacts DEF Upserts
<1>2. /\ Handed = batch \o pending /\ Handed' = pending /\ Shown = index
      /\ Batched(TRUE)' = Batched(TRUE)
      /\ Shown' = [index' EXCEPT !.rows = @ \ Batched(TRUE),
                                 !.meta = [p \in Paths |-> IF p \in Batched(TRUE) THEN 0 ELSE @[p]]]
  BY <1>1 DEF Handed, Shown, Batched, Positions, Removed
<1>3. \A p \in Paths, d \in BOOLEAN :
        /\ Queue!Positions(batch, d, p) = Positions(d, p)
        /\ p \in Batched(d) <=> Positions(d, p) # {}
  BY DEF Queue!Positions, Positions, Batched
<1>4. Shown' = Queue!After(batch, Shown)
  <2>1. \A p \in Paths : LastOf(p) = batch[Queue!Max(Queue!Positions(batch, FALSE, p))].stamp
    BY <1>3 DEF LastOf, Queue!Max, Max
  <2>2. Shown' = [rows |-> index'.rows \ Batched(TRUE), words |-> index'.words,
                  meta |-> [p \in Paths |-> IF p \in Batched(TRUE) THEN 0 ELSE index'.meta[p]]]
    BY <1>2, <1>w DEF Tables
  <2>3. index'.rows \ Batched(TRUE) =
          {p \in Paths : Queue!Positions(batch, TRUE, p) = {} /\ (p \in index.rows \/ Queue!Positions(batch, FALSE, p) # {})}
    BY <1>1, <1>3, <1>w DEF Tables, Batched
  <2>4. index'.words = [p \in Paths |-> index.words[p] \union {batch[i].stamp : i \in Queue!Positions(batch, FALSE, p)}]
    <3>1. \A p \in Paths : index'.words[p] = index.words[p] \union {batch[i].stamp : i \in Queue!Positions(batch, FALSE, p)}
      BY <1>3, <1>w
    <3>2. index'.words \in [Paths -> SUBSET Content]
      BY <1>w DEF Tables
    <3> QED BY <3>1, <3>2
  <2>5. \A p \in Paths : (IF p \in Batched(TRUE) THEN 0 ELSE index'.meta[p]) =
          IF Queue!Positions(batch, TRUE, p) # {} THEN 0
          ELSE IF Queue!Positions(batch, FALSE, p) # {}
          THEN batch[Queue!Max(Queue!Positions(batch, FALSE, p))].stamp ELSE index.meta[p]
    BY <1>3, <1>w, <2>1
  <2> QED BY <1>2, <2>2, <2>3, <2>4, <2>5, Zenon DEF Queue!After
<1>5. /\ Len(batch) \in Nat /\ Len(Handed) = Len(batch) + Len(pending) /\ Len(pending) \in Nat
      /\ SubSeq(Handed, 1, Len(batch)) = batch
      /\ SubSeq(Handed, Len(batch) + 1, Len(Handed)) = Handed'
  BY <1>1, <1>2, JoinedSequences, ConcatParts, LenProperties
<1>6. Queue!Process(Len(batch))
  BY <1>1, <1>4, <1>5 DEF Queue!Process
<1>7. CASE Len(batch) = 0
  <2>1. batch = <<>>
    BY <1>1, <1>7, EmptySeq
  <2>2. Handed' = Handed
    BY <1>1, <1>2, <2>1, ConcatEmptySeq
  <2>3. Shown' = Shown
    <3>1. \A p \in Paths, d \in BOOLEAN : Queue!Positions(batch, d, p) = {}
      BY <1>1, <1>7, LenProperties DEF Queue!Positions
    <3>2. \A p \in Paths : {batch[i].stamp : i \in Queue!Positions(batch, FALSE, p)} = {}
      BY <3>1
    <3>3. Queue!After(batch, index) = [rows |-> {p \in Paths : p \in index.rows},
            words |-> [p \in Paths |-> index.words[p] \union {}], meta |-> [p \in Paths |-> index.meta[p]]]
      BY <3>1, <3>2 DEF Queue!After
    <3>4. Queue!After(batch, index) = index
      BY <1>1, <3>3 DEF Tables
    <3> QED BY <1>2, <1>4, <3>4
  <2> QED BY <1>1, <2>2, <2>3 DEF Queue!vars
<1>8. CASE Len(batch) # 0
  <2>1. Len(batch) \in 1 .. Len(Handed)
    BY <1>5, <1>8
  <2> QED BY <1>6, <2>1 DEF Queue!Next
<1> QED BY <1>7, <1>8

(* The deletes carry out what the queue has decided.                       *)
LEMMA QueueStays ==
  ASSUME TypeOK, Deletes
  PROVE  UNCHANGED Queue!vars
<1>1. /\ pending \in Seq(Req) /\ loop.pc = "deletes" /\ loop'.pc # "deletes"
      /\ index' = Removed(Batched(TRUE))
      /\ batch' = <<>> /\ UNCHANGED <<pending, resync>>
  BY DEF Deletes, Finish, channel, TypeOK
<1>2. Handed' = Handed
  BY <1>1, ConcatEmptySeq DEF Handed
<1>3. Shown' = Shown
  BY <1>1 DEF Shown
<1> QED BY <1>1, <1>2, <1>3 DEF Queue!vars

(* A step of Resync is one of the queue's.                                 *)
LEMMA QueueReconciles ==
  ASSUME TypeOK, TypeOK', Resync, fails' = fails
  PROVE  [Queue!Next]_(Queue!vars)
<1>1. UNCHANGED <<batch, pending, loop>>
  BY DEF Resync, ResyncList, ResyncIndex, ResyncWalked, ResyncEnds, ResyncVisit, ResyncRemove, ResyncSkips, ResyncAborts, channel
<1>f. fails \in Nat
  BY DEF TypeOK
<1>2. Batched(TRUE)' = Batched(TRUE) /\ Handed' = Handed
  BY <1>1 DEF Batched, Positions, Handed
<1>3. CASE ResyncList \/ ResyncWalked \/ \E p \in Paths : ResyncVisit(p)
  <2>1. index' = index /\ resync.pc # "done" /\ resync'.pc # "done"
    <3>1. resync \in [pc : {"list", "walk", "remove", "done"},
                      indexed : SUBSET Paths, onDisk : SUBSET Paths, toVisit : SUBSET Paths,
                      holds : Req \union {NoReq}]
      BY DEF TypeOK
    <3> QED BY <1>3, <3>1 DEF ResyncList, ResyncWalked, ResyncVisit
  <2> QED BY <1>1, <2>1, SameQueue
<1>4. CASE ResyncEnds
  <2>1. index' = index /\ resync.pc # "done" /\ resync'.pc = "done"
    BY <1>4 DEF ResyncEnds, EndedResync
  <2>2. Shown' = Shown
    BY <1>1, <1>2, <2>1 DEF Shown, Removed
  <2> QED BY <1>2, <2>1, <2>2 DEF Queue!Reconciled, Queue!Next
<1>5. CASE ResyncIndex
  <2> DEFINE p == resync.holds.path
             c == resync.holds.stamp
  <2>1. /\ resync.holds \in Req /\ resync.pc # "done" /\ resync'.pc # "done"
        /\ index' = [index EXCEPT !.rows = @ \union {p}, !.words[p] = @ \union {c}]
    BY <1>5 DEF ResyncIndex, TypeOK
  <2>2. p \in Paths /\ c \in Nat
    BY <2>1, IndexerAssumption DEF Req, Content
  <2>3. index \in Tables
    BY DEF TypeOK, Tables
  <2> HIDE DEF p, c
  <2>4. CASE loop.pc = "deletes" /\ p \in Batched(TRUE)
    <3>1. /\ Shown  = Removed(Batched(TRUE)) /\ Shown' = [index' EXCEPT !.rows = @ \ Batched(TRUE),
                !.meta = [x \in Paths |-> IF x \in Batched(TRUE) THEN 0 ELSE @[x]]]
      BY <1>1, <1>2, <2>4 DEF Shown, Removed
    <3>3. Shown' = [rows |-> Shown.rows \union {}, words |-> [Shown.words EXCEPT ![p] = @ \union {c}], meta |-> Shown.meta]
      <4>1. /\ Shown  = [rows |-> index.rows \ Batched(TRUE), words |-> index.words,
                         meta |-> [x \in Paths |-> IF x \in Batched(TRUE) THEN 0 ELSE index.meta[x]]]
            /\ Shown' = [rows |-> (index.rows \union {p}) \ Batched(TRUE), words |-> [index.words EXCEPT ![p] = @ \union {c}],
                         meta |-> [x \in Paths |-> IF x \in Batched(TRUE) THEN 0 ELSE index.meta[x]]]
        BY <2>1, <2>3, <3>1 DEF Removed, Tables
      <4>2. (index.rows \union {p}) \ Batched(TRUE) = (index.rows \ Batched(TRUE)) \union {}
        BY <2>4
      <4> DEFINE m == [x \in Paths |-> IF x \in Batched(TRUE) THEN 0 ELSE index.meta[x]]
                 k == index.rows \ Batched(TRUE)
      <4> HIDE DEF m, k
      <4>3. /\ Shown  = [rows |-> k, words |-> index.words, meta |-> m]
            /\ Shown' = [rows |-> k \union {}, words |-> [index.words EXCEPT ![p] = @ \union {c}], meta |-> m]
        BY <4>1, <4>2 DEF m, k
      <4> QED BY <4>3
    <3>4. Queue!Reconcile(p)
      BY <1>2, <2>1, <2>2, <3>3 DEF Queue!Reconcile
    <3> QED BY <2>2, <3>4 DEF Queue!Next
  <2>5. CASE ~ (loop.pc = "deletes" /\ p \in Batched(TRUE))
    <3>1. Shown' = [rows |-> Shown.rows \union {p}, words |-> [Shown.words EXCEPT ![p] = @ \union {c}], meta |-> Shown.meta]
      <4>1. CASE loop.pc = "deletes"
        <5>1. /\ Shown  = Removed(Batched(TRUE)) /\ Shown' = [index' EXCEPT !.rows = @ \ Batched(TRUE),
                    !.meta = [x \in Paths |-> IF x \in Batched(TRUE) THEN 0 ELSE @[x]]]
          BY <1>1, <1>2, <4>1 DEF Shown, Removed
        <5>2. (index.rows \union {p}) \ Batched(TRUE) = (index.rows \ Batched(TRUE)) \union {p}
          BY <2>5, <4>1
        <5> QED BY <2>1, <2>3, <5>1, <5>2 DEF Removed, Tables
      <4>2. CASE loop.pc # "deletes"
        <5>1. Shown = index /\ Shown' = index'
          BY <1>1, <4>2 DEF Shown
        <5>2. index' = [rows |-> index.rows \union {p}, words |-> [index.words EXCEPT ![p] = @ \union {c}], meta |-> index.meta]
          BY <2>1, <2>3 DEF Tables
        <5> QED BY <5>1, <5>2
      <4> QED BY <4>1, <4>2
    <3>2. Queue!Reconcile(p)
      BY <1>2, <2>1, <2>2, <3>1 DEF Queue!Reconcile
    <3> QED BY <2>2, <3>2 DEF Queue!Next
  <2> QED BY <2>4, <2>5
<1>6. ASSUME NEW p \in Paths, ResyncRemove(p) PROVE [Queue!Next]_(Queue!vars)
  <2>1. index' = [index EXCEPT !.rows = @ \ {p}] /\ resync.pc # "done" /\ resync'.pc # "done"
    BY <1>6 DEF ResyncRemove, TypeOK
  <2>2. index \in Tables
    BY DEF TypeOK, Tables
  <2>3. Shown' = [Shown EXCEPT !.rows = @ \ {p}]
    <3>1. CASE loop.pc = "deletes"
      <4>1. /\ Shown  = Removed(Batched(TRUE)) /\ Shown' = [index' EXCEPT !.rows = @ \ Batched(TRUE),
                  !.meta = [x \in Paths |-> IF x \in Batched(TRUE) THEN 0 ELSE @[x]]]
        BY <1>1, <1>2, <3>1 DEF Shown, Removed
      <4>2. (index.rows \ {p}) \ Batched(TRUE) = (index.rows \ Batched(TRUE)) \ {p}
        OBVIOUS
      <4> QED BY <2>1, <2>2, <4>1, <4>2 DEF Removed, Tables
    <3>2. CASE loop.pc # "deletes"
      BY <1>1, <2>1, <3>2 DEF Shown
    <3> QED BY <3>1, <3>2
  <2>4. Queue!Reconcile(p)
    BY <1>2, <2>1, <2>3 DEF Queue!Reconcile
  <2> QED BY <2>4 DEF Queue!Next
<1>7. CASE ResyncAborts \/ \E p \in Paths : ResyncSkips(p)
  <2>1. fails' = fails + 1
    BY <1>7 DEF ResyncAborts, ResyncSkips
  <2> QED BY <1>f, <2>1
<1> QED BY <1>3, <1>4, <1>5, <1>6, <1>7 DEF Resync

(* Every step but a failing transaction is one of the queue's.             *)
LEMMA StepQueue ==
  ASSUME TypeOK, TypeOK', [Next]_vars, fails' = fails
  PROVE  [Queue!Next]_(Queue!vars)
<1>1. CASE Enqueue
  BY <1>1, QueueGrows
<1>2. CASE TakeRequest \/ DrainOne
  BY <1>2, QueueMoves
<1>3. CASE Upserts
  BY <1>3, QueueShrinks
<1>4. CASE Deletes
  BY <1>4, QueueStays
<1>5. CASE UpsertsFail \/ DeletesFail
  <2>1. fails \in Nat /\ fails' = fails + 1
    BY <1>5 DEF UpsertsFail, DeletesFail, TypeOK
  <2> QED BY <2>1
<1>6. CASE Resync
  BY <1>6, QueueReconciles
<1>7. CASE (\E p \in Paths : WritePage(p) \/ DeletePage(p)) \/ EnqueueAfterStop \/ StackClose \/ Close
  <2>1. UNCHANGED <<batch, pending, index, loop, resync>>
    BY <1>7 DEF WritePage, DeletePage, Touch, EnqueueAfterStop, StackClose, Close, channel
  <2> QED BY <2>1, SameQueue
<1>8. CASE \E w \in Waiters : CallFlush(w) \/ Flush(w)
  <2>1. UNCHANGED <<batch, pending, index, loop, resync>>
    BY <1>8 DEF CallFlush, Flush, SendFlush, FlushAfterStop, FlushReturns, channel
  <2> QED BY <2>1, SameQueue
<1>9. CASE TimerFires \/ TakeFlush \/ SeeStop \/ Drained
  <2>1. UNCHANGED <<batch, pending, index, resync>> /\ loop.pc # "deletes" /\ loop'.pc # "deletes"
    BY <1>9 DEF TimerFires, TakeFlush, SeeStop, Drained, channel, TypeOK
  <2> QED BY <2>1, SameQueue
<1>10. CASE UNCHANGED vars
  <2>1. UNCHANGED <<batch, pending, index, loop, resync>>
    BY <1>10 DEF vars
  <2> QED BY <2>1, SameQueue
<1> QED BY <1>1, <1>2, <1>3, <1>4, <1>5, <1>6, <1>7, <1>8, <1>9, <1>10 DEF Next, Loop

(* At start the queue is empty.                                            *)
LEMMA InitQueue == Init => Queue!Init
<1> SUFFICES ASSUME Init PROVE Queue!Init
  OBVIOUS
<1>1. batch = <<>> /\ pending = <<>> /\ loop.pc = "select" /\ index \in Tables
  BY InitInv DEF Init, FreshLoop, Inv, TypeOK, Tables
<1>2. batch \o pending = <<>>
  BY <1>1, EmptySeq, ConcatEmptySeq
<1>3. Shown \in [rows : SUBSET Paths, words : [Paths -> SUBSET Nat], meta : [Paths -> Nat]]
  <2>1. Content \subseteq Nat
    BY IndexerAssumption DEF Content
  <2> QED BY <1>1, <2>1 DEF Shown, Tables
<1> QED BY <1>1, <1>2, <1>3 DEF Queue!Init, Handed

(* Seen through Handed and Shown the indexer is a queue: every step of the *)
(* pipeline, of the loop, of Flush, Resync and Close, whatever the sizes   *)
(* of the channel and the batch, is a step of IndexQueue or changes        *)
(* nothing it shows.  Only a transaction or a read that fails is neither.  *)
THEOREM BehavesAsQueue == Spec => Queue!Init /\ [][fails' = fails => [Queue!Next]_(Queue!vars)]_vars
<1>1. TypeOK /\ TypeOK' /\ [Next]_vars => [fails' = fails => [Queue!Next]_(Queue!vars)]_vars
  BY StepQueue
<1> QED BY <1>1, InitQueue, TypeCorrect, PTL DEF Spec

(* The indexer whose transactions all succeed implements IndexQueue.       *)
THEOREM ImplementsQueue == Spec /\ [](fails = 0) => Queue!Spec
<1>1. TypeOK /\ TypeOK' /\ [Next]_vars /\ fails = 0 /\ (fails = 0)' => [Queue!Next]_(Queue!vars)
  BY StepQueue
<1> QED BY <1>1, InitQueue, TypeCorrect, PTL DEF Spec, Queue!Spec
=============================================================================
