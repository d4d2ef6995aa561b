----------------------------- MODULE IndexQueue -----------------------------
(***************************************************************************)
(* What the AsyncIndexer promises to whoever hands requests to it: a queue *)
(* whose first requests are applied to the search tables, any number of    *)
(* them at a time and in one step, whatever the channel, the batch, the    *)
(* timer and the two passes of flushBatch do in between.                   *)
(***************************************************************************)
EXTENDS Naturals, Sequences, FiniteSetsExt

CONSTANT Paths

VARIABLES
  queue,         \* requests handed over and not yet applied
  tables,        \* rows: the pages listed; words[p]: the contents p is found by;
                 \* meta[p]: the content its links and metadata are of, 0 for none
  reconciling    \* Resync writes the same tables

vars    == <<queue, tables, reconciling>>
Request == [path : Paths, stamp : Nat, delete : BOOLEAN]

Positions(q, del, p) == {i \in DOMAIN q : q[i].path = p /\ q[i].delete = del}

(* The tables t after the requests of q.  Words are added by every upsert  *)
(* and stay.  For the rest the last of several upserts of a page counts,   *)
(* and a deletion among the requests counts more than any.                 *)
After(q, t) ==
  [rows  |-> {p \in Paths : /\ Positions(q, TRUE, p) = {}
                            /\ p \in t.rows \/ Positions(q, FALSE, p) # {}},
   words |-> [p \in Paths |-> t.words[p] \union {q[i].stamp : i \in Positions(q, FALSE, p)}],
   meta  |-> [p \in Paths |-> IF Positions(q, TRUE, p) # {} THEN 0
                              ELSE IF Positions(q, FALSE, p) # {}
                              THEN q[Max(Positions(q, FALSE, p))].stamp ELSE t.meta[p]]]

Init ==
  /\ queue = <<>>
  /\ tables \in [rows : SUBSET Paths, words : [Paths -> SUBSET Nat], meta : [Paths -> Nat]]
  /\ reconciling \in BOOLEAN

HandOver(r) ==
  /\ queue' = Append(queue, r)
  /\ UNCHANGED <<tables, reconciling>>

Process(n) ==
  /\ tables' = After(SubSeq(queue, 1, n), tables)
  /\ queue' = SubSeq(queue, n + 1, Len(queue))
  /\ UNCHANGED reconciling

(* Resync inserts a page with its words, current or older, or removes its  *)
(* row; the row it inserts may be one a deletion that counts already takes *)
(* out again, and then only the words are left.                            *)
Reconcile(p) ==
  /\ reconciling
  /\ \/ \E c \in Nat, listed \in SUBSET {p} :
          tables' = [rows  |-> tables.rows \union listed,
                     words |-> [tables.words EXCEPT ![p] = @ \union {c}],
                     meta  |-> tables.meta]
     \/ tables' = [tables EXCEPT !.rows = @ \ {p}]
  /\ UNCHANGED <<queue, reconciling>>

Reconciled ==
  /\ reconciling /\ ~reconciling'
  /\ UNCHANGED <<queue, tables>>

Next ==
  \/ \E r \in Request : HandOver(r)
  \/ \E n \in 1 .. Len(queue) : Process(n)
  \/ \E p \in Paths : Reconcile(p)
  \/ Reconciled

Spec == Init /\ [][Next]_vars
=============================================================================
