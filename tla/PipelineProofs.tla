--------------------------- MODULE PipelineProofs ---------------------------
(* Proofs about Pipeline: its types, that guarded requests lose no update, *)
(* and what the indexes and git hold when nothing is under way.            *)
EXTENDS Pipeline, SequenceTheorems, TLAPS

-----------------------------------------------------------------------------
(* The inductive invariant.                                                *)

(* Pages that n stamps can make: only an append makes one longer.          *)
Upto(n) == {s \in Seq(0 .. MaxStamps) : Len(s) <= n + 1}

Kinds == {"put", "append", "delete", "rename", "observe", "observe delete"}
Ops(n) ==
  [pc : {"idle", "store", "remove", "commit", "index"}, kind : Kinds,
   path : Paths \union {NoPath}, from : Paths \union {NoPath},
   content : Upto(n), base : Upto(n), guarded : BOOLEAN,
   caller : Clients \union Flushers \union {NoPath}]
Flushes(n) ==
  [pc : {"idle", "next", "check", "lock", "locked"}, todo : SUBSET Paths,
   path : Paths \union {NoPath}, content : Upto(n)]

Entries(n) == Tables(Upto(n))

(* The types, with pages no longer than the stamps given out so far allow. *)
Contents(n) ==
  /\ disk \in [Paths -> Upto(n)] /\ head \in [Paths -> Upto(n)]
  /\ staged \in [Paths -> Upto(n)] /\ index \in [Paths -> Entries(n)]
  /\ inflight \in [Paths -> [fresh : BOOLEAN, etag : Upto(n)]]
  /\ view \in [Clients -> [path : Paths, content : Upto(n)]]
  /\ op \in Ops(n) /\ watch \in [Flushers -> Flushes(n)]
PathSets ==
  /\ log \subseteq Paths /\ dropping \subseteq Paths /\ pending \subseteq Paths
  /\ edited \subseteq Paths /\ hidden \subseteq Paths /\ untracked \subseteq Paths
Counts == stamp \in 0 .. MaxStamps /\ windows \in 0 .. MaxWindows /\ fails \in 0 .. MaxFails
Typed  == Contents(stamp) /\ PathSets /\ Counts

(* Which operations get how far, and what they carry.                      *)
OpShape ==
  op.pc # "idle" =>
  /\ op.path \in Paths
  /\ IF op.kind = "rename" THEN op.from \in Paths \ {op.path} ELSE op.from = NoPath /\ op.pc # "remove"
  /\ Removes => op.content = Absent
  /\ op.kind = "put" => op.caller \in Clients
  /\ Observes => op.pc \in {"commit", "index"} /\ op.caller \in Flushers
WatchShape ==
  \A f \in Flushers :
    /\ watch[f].pc = "idle" => watch[f].todo = {}
    /\ watch[f].pc \in {"check", "lock", "locked"} => watch[f].path \in Paths
    /\ watch[f].pc = "locked" <=> (op.pc # "idle" /\ Observes /\ op.caller = f)

(* What a guarded request replaces is what its caller was shown.           *)
Guarded ==
  op.guarded /\ op.pc = "store" /\ op.path \notin edited => disk[op.path] \in {Absent, op.base}

(* An event of the page is on its way to the pipeline.                     *)
Notified(p) ==
  p \in pending \/ \E f \in Flushers : p \in watch[f].todo \/ (watch[f].pc \in {"check", "lock"} /\ watch[f].path = p)
Due(p) == p \in edited /\ Notified(p)

(* The operation has changed the page and not yet finished with it; it is  *)
(* committed as it is, or that is owed.                                    *)
Working(p) == op.pc \notin {"idle", "store"} /\ p \in OpPaths
Owed(p)    == head[p] = disk[p] \/ p \in log \union untracked

(* git's index differs from the last commit only by what is owed.          *)
StagedInv == \A p \in Paths : staged[p] = head[p] \/ p \in log \union untracked

(* A page no operation works on is in the indexes and committed as it is,  *)
(* or an edit of it is due; a request has put on disk what it is about to  *)
(* index, and committed it.                                                *)
QuietAt(p) ==
  p \notin hidden => Due(p) \/ (Shows(index[p], disk[p]) /\ Owed(p))
RequestAt(p) ==
  p \notin hidden =>
  /\ ~ (op.pc = "remove" /\ p = op.from) => Due(p) \/ disk[p] = Final(p)
  /\ op.pc = "index" => Due(p) \/ Owed(p)
PagesInv ==
  \A p \in Paths : IF Working(p) THEN Observes \/ RequestAt(p) ELSE QuietAt(p)

Inv == Typed /\ OpShape /\ WatchShape /\ Guarded /\ StagedInv /\ PagesInv

-----------------------------------------------------------------------------
(* Pages and types.                                                        *)

(* The contents that n stamps allow.                                       *)
LEMMA UptoFacts ==
  ASSUME NEW n \in Nat
  PROVE  /\ Absent \in Upto(n)
         /\ \A k \in 0 .. MaxStamps : <<k>> \in Upto(n)
         /\ \A k \in 0 .. MaxStamps, s \in Upto(n) : Append(s, k) \in Upto(n + 1)
         /\ \A m \in Nat : n <= m => Upto(n) \subseteq Upto(m)
<1>1. Absent \in Upto(n)
  BY EmptySeq DEF Absent, Upto
<1>2. \A k \in 0 .. MaxStamps : <<k>> \in Upto(n)
  BY DEF Upto
<1>3. \A k \in 0 .. MaxStamps, s \in Upto(n) : Append(s, k) \in Upto(n + 1)
  BY AppendProperties, LenProperties DEF Upto
<1>4. \A m \in Nat : n <= m => Upto(n) \subseteq Upto(m)
  BY LenProperties DEF Upto
<1> QED BY <1>1, <1>2, <1>3, <1>4

(* The pages of the type invariant are those that MaxStamps stamps make.   *)
LEMMA UptoIsPages == ASSUME NEW n \in 0 .. MaxStamps PROVE Upto(n) \subseteq Pages
<1> SUFFICES ASSUME NEW s \in Upto(n) PROVE s \in Pages
  OBVIOUS
<1>1. s \in Seq(0 .. MaxStamps) /\ Len(s) <= n + 1 /\ Len(s) \in Nat
  BY LenProperties DEF Upto
<1>2. s \in [1 .. Len(s) -> 0 .. MaxStamps] /\ Len(s) \in 0 .. MaxStamps + 1
  BY <1>1, PipelineAssumption, LenProperties
<1> QED BY <1>2 DEF Pages

(* What n stamps can make, more can.                                       *)
LEMMA Grow == ASSUME NEW n \in Nat, NEW m \in Nat, n <= m, Contents(n) PROVE Contents(m)
<1>1. Upto(n) \subseteq Upto(m)
  BY UptoFacts
<1>2. Entries(n) \subseteq Entries(m)
  BY <1>1 DEF Entries, Tables
<1> QED BY <1>1, <1>2 DEF Contents, Ops, Flushes

(* The records that operations and flushes start from.                     *)
LEMMA IdleFacts ==
  ASSUME NEW n \in Nat
  PROVE  /\ IdleOp \in Ops(n) /\ IdleOp.pc = "idle" /\ IdleOp.path = NoPath /\ IdleOp.from = NoPath
         /\ IdleFlush \in Flushes(n) /\ NoEntry \in [fresh : BOOLEAN, etag : Upto(n)]
BY UptoFacts DEF IdleOp, IdleFlush, NoEntry, Ops, Flushes, Kinds

(* A request gets the lock.                                                *)
LEMMA StartFacts ==
  ASSUME Typed, NextStamp, op.pc = "idle",
         NEW kind \in Kinds, NEW caller \in Clients \union {NoPath}, NEW p \in Paths, NEW from \in Paths \union {NoPath},
         NEW content \in Upto(stamp + 1), NEW base \in Upto(stamp + 1), NEW guarded \in BOOLEAN,
         inflight' \in [Paths -> [fresh : BOOLEAN, etag : Upto(stamp + 1)]],
         Start(kind, caller, p, from, content, base, guarded)
  PROVE  /\ Typed'
         /\ op'.pc = "store" /\ op'.kind = kind /\ op'.caller = caller /\ op'.path = p /\ op'.from = from
         /\ op'.content = content /\ op'.base = base /\ op'.guarded = guarded
         /\ UNCHANGED <<disk, head, staged, log, untracked, index, pending, watch, edited, hidden>>
<1>1. stamp \in Nat /\ stamp' = stamp + 1 /\ stamp' \in 0 .. MaxStamps
  BY PipelineAssumption DEF NextStamp, Typed, Counts
<1>2. Contents(stamp + 1)
  BY <1>1, Grow DEF Typed
<1>3. op' = [IdleOp EXCEPT !.pc = "store", !.kind = kind, !.caller = caller, !.path = p, !.from = from,
                           !.content = content, !.base = base, !.guarded = guarded]
  BY DEF Start
<1>4. op' = [pc |-> "store", kind |-> kind, path |-> p, from |-> from,
             content |-> content, base |-> base, guarded |-> guarded, caller |-> caller]
  BY <1>3 DEF IdleOp
<1>5. op' \in Ops(stamp + 1)
  BY <1>4 DEF Ops
<1>6. UNCHANGED <<disk, head, staged, log, untracked, index, dropping, windows, view, pending, watch, edited, hidden, fails>>
  BY DEF Start, records, git
<1>7. Contents(stamp)'
  BY <1>1, <1>2, <1>5, <1>6 DEF Contents, Ops, Flushes
<1>8. PathSets' /\ Counts'
  BY <1>1, <1>6 DEF Typed, PathSets, Counts
<1> QED BY <1>4, <1>6, <1>7, <1>8 DEF Typed

(* All four kinds of request: where they leave the operation.              *)
LEMMA RequestFacts ==
  ASSUME Typed, NEW q \in Paths, RequestNext(q)
  PROVE  /\ Typed' /\ op.pc = "idle" /\ op'.pc = "store"
         /\ UNCHANGED <<disk, head, staged, log, untracked, index, pending, watch, edited, hidden>>
         /\ op'.path \in Paths
         /\ op'.kind \in {"put", "append", "delete", "rename"}
         /\ IF op'.kind = "rename" THEN op'.from \in Paths \ {op'.path} ELSE op'.from = NoPath
         /\ op'.kind = "delete" => op'.content = Absent
         /\ op'.kind = "put" => op'.caller \in Clients
         /\ op'.guarded => disk[op'.path] \in {Absent, op'.base}
<1>1. stamp \in Nat /\ Contents(stamp) /\ Contents(stamp + 1)
  BY Grow DEF Typed, Counts
<1>2. /\ Absent \in Upto(stamp + 1) /\ \A k \in 0 .. MaxStamps : <<k>> \in Upto(stamp + 1)
      /\ \A k \in 0 .. MaxStamps, s \in Upto(stamp) : Append(s, k) \in Upto(stamp + 1)
  BY <1>1, UptoFacts
<1>3. \A p \in Paths, c \in Upto(stamp + 1) : Marked(inflight, p, c) \in [Paths -> [fresh : BOOLEAN, etag : Upto(stamp + 1)]]
  BY <1>1 DEF Marked, Contents
<1>4. ASSUME NextStamp PROVE stamp' = stamp + 1 /\ stamp' \in 0 .. MaxStamps
  BY <1>1, <1>4, PipelineAssumption DEF NextStamp, Typed, Counts
<1>5. ASSUME NEW c \in Clients, NEW ifMatch \in BOOLEAN, WriteWithOpts(c, q, ifMatch)
      PROVE  /\ Typed' /\ op.pc = "idle" /\ op'.pc = "store" /\ op'.path = q /\ op'.kind = "put" /\ op'.from = NoPath
             /\ op'.caller \in Clients /\ (op'.guarded => disk[op'.path] \in {Absent, op'.base})
             /\ UNCHANGED <<disk, head, staged, log, untracked, index, pending, watch, edited, hidden>>
  <2>1. NextStamp /\ op.pc = "idle" /\ Start("put", c, q, NoPath, <<stamp'>>, view[c].content, ifMatch)
        /\ inflight' = Marked(inflight, q, <<stamp'>>) /\ (ifMatch => disk[q] \in {Absent, view[c].content})
    BY <1>5 DEF WriteWithOpts, Matches
  <2>2. <<stamp'>> \in Upto(stamp + 1) /\ view[c].content \in Upto(stamp + 1) /\ "put" \in Kinds
    BY <1>1, <1>2, <1>4, <2>1 DEF Contents, Kinds
  <2>3. inflight' \in [Paths -> [fresh : BOOLEAN, etag : Upto(stamp + 1)]]
    BY <1>3, <2>1, <2>2
  <2> DEFINE page == <<stamp'>>
             seen == view[c].content
  <2>4. Start("put", c, q, NoPath, page, seen, ifMatch) /\ page \in Upto(stamp + 1) /\ seen \in Upto(stamp + 1)
    BY <2>1, <2>2
  <2> HIDE DEF page, seen
  <2>5. CASE ifMatch = TRUE
    <3>1. Start("put", c, q, NoPath, page, seen, TRUE)
      BY <2>4, <2>5
    <3>2. /\ Typed' /\ op'.pc = "store" /\ op'.kind = "put" /\ op'.caller = c /\ op'.path = q /\ op'.from = NoPath
          /\ op'.base = seen
          /\ UNCHANGED <<disk, head, staged, log, untracked, index, pending, watch, edited, hidden>>
      BY <2>1, <2>2, <2>3, <2>4, <3>1, StartFacts
    <3> QED BY <2>1, <2>5, <3>2 DEF seen
  <2>6. CASE ifMatch = FALSE
    <3>1. Start("put", c, q, NoPath, page, seen, FALSE)
      BY <2>4, <2>6
    <3>2. /\ Typed' /\ op'.pc = "store" /\ op'.kind = "put" /\ op'.caller = c /\ op'.path = q /\ op'.from = NoPath
          /\ op'.guarded = FALSE
          /\ UNCHANGED <<disk, head, staged, log, untracked, index, pending, watch, edited, hidden>>
      BY <2>1, <2>2, <2>3, <2>4, <3>1, StartFacts
    <3> QED BY <2>1, <3>2
  <2> QED BY <2>5, <2>6
<1>6. ASSUME AppendTo(q)
      PROVE  /\ Typed' /\ op.pc = "idle" /\ op'.pc = "store" /\ op'.path = q /\ op'.kind = "append" /\ op'.from = NoPath
             /\ op'.base = disk[op'.path]
             /\ UNCHANGED <<disk, head, staged, log, untracked, index, pending, watch, edited, hidden>>
  <2>1. NextStamp /\ op.pc = "idle" /\ Start("append", NoPath, q, NoPath, Append(disk[q], stamp'), disk[q], TRUE)
        /\ inflight' = Marked(inflight, q, Append(disk[q], stamp'))
    BY <1>6 DEF AppendTo
  <2>2. Append(disk[q], stamp') \in Upto(stamp + 1) /\ disk[q] \in Upto(stamp + 1) /\ "append" \in Kinds
    BY <1>1, <1>2, <1>4, <2>1 DEF Contents, Kinds
  <2>3. inflight' \in [Paths -> [fresh : BOOLEAN, etag : Upto(stamp + 1)]]
    BY <1>3, <2>1, <2>2
  <2> DEFINE page == Append(disk[q], stamp')
             seen == disk[q]
  <2>4. Start("append", NoPath, q, NoPath, page, seen, TRUE) /\ page \in Upto(stamp + 1) /\ seen \in Upto(stamp + 1)
    BY <2>1, <2>2
  <2> HIDE DEF page, seen
  <2>5. /\ Typed' /\ op'.pc = "store" /\ op'.kind = "append" /\ op'.path = q /\ op'.from = NoPath /\ op'.base = seen
        /\ UNCHANGED <<disk, head, staged, log, untracked, index, pending, watch, edited, hidden>>
    BY <2>1, <2>2, <2>3, <2>4, StartFacts
  <2> QED BY <2>1, <2>5 DEF seen
<1>7. ASSUME DeletePage(q)
      PROVE  /\ Typed' /\ op.pc = "idle" /\ op'.pc = "store" /\ op'.path = q /\ op'.kind = "delete" /\ op'.from = NoPath
             /\ op'.content = Absent /\ ~ op'.guarded
             /\ UNCHANGED <<disk, head, staged, log, untracked, index, pending, watch, edited, hidden>>
  <2>1. NextStamp /\ op.pc = "idle" /\ Start("delete", NoPath, q, NoPath, Absent, Absent, FALSE)
        /\ inflight' = Marked(inflight, q, Absent)
    BY <1>7 DEF DeletePage
  <2>2. "delete" \in Kinds
    BY DEF Kinds
  <2>3. inflight' \in [Paths -> [fresh : BOOLEAN, etag : Upto(stamp + 1)]]
    BY <1>2, <1>3, <2>1
  <2> QED BY <1>2, <2>1, <2>2, <2>3, StartFacts
<1>8. ASSUME NEW r \in Paths, Rename(q, r)
      PROVE  /\ Typed' /\ op.pc = "idle" /\ op'.pc = "store" /\ op'.path = r /\ op'.kind = "rename" /\ op'.from = q /\ q # r
             /\ ~ op'.guarded
             /\ UNCHANGED <<disk, head, staged, log, untracked, index, pending, watch, edited, hidden>>
  <2>1. NextStamp /\ op.pc = "idle" /\ Start("rename", NoPath, r, q, disk[q], Absent, FALSE) /\ q # r
        /\ inflight' = Marked(Marked(inflight, r, disk[q]), q, Absent)
    BY <1>8 DEF Rename
  <2>2. "rename" \in Kinds /\ disk[q] \in Upto(stamp + 1)
    BY <1>1 DEF Kinds, Contents
  <2>3. inflight' \in [Paths -> [fresh : BOOLEAN, etag : Upto(stamp + 1)]]
    BY <1>1, <1>2, <2>1, <2>2 DEF Marked, Contents
  <2> QED BY <1>2, <2>1, <2>2, <2>3, StartFacts
<1> QED BY <1>5, <1>6, <1>7, <1>8 DEF RequestNext

(* Every step keeps the types.                                             *)
LEMMA StepTyped ==
  ASSUME Typed, OpShape, WatchShape, [Next]_vars
  PROVE  Typed'
<1>1. /\ stamp \in Nat /\ Contents(stamp) /\ PathSets /\ Counts
      /\ MaxStamps \in Nat /\ MaxWindows \in Nat /\ MaxFails \in Nat
      /\ OpPaths \subseteq Paths
  BY PipelineAssumption DEF Typed, Counts, OpPaths
<1>2. /\ Absent \in Upto(stamp) /\ IdleOp \in Ops(stamp) /\ IdleFlush \in Flushes(stamp)
      /\ NoEntry \in [fresh : BOOLEAN, etag : Upto(stamp)]
  BY <1>1, UptoFacts, IdleFacts
<1>3. \A c \in {"remove", "commit", "index", "store", "idle"} : [op EXCEPT !.pc = c] \in Ops(stamp)
  BY <1>1 DEF Contents, Ops
<1>4. ASSUME Fail PROVE fails' \in 0 .. MaxFails
  BY <1>1, <1>4 DEF Fail, Counts
<1>5. \A p \in Paths, c \in Upto(stamp) : SetDisk(p, c) => disk' \in [Paths -> Upto(stamp)] /\ pending' \subseteq Paths
  BY <1>1 DEF SetDisk, Contents, PathSets
<1>6. op.path \in Paths \union {NoPath} /\ op.from \in Paths \union {NoPath} /\ op.content \in Upto(stamp)
  BY <1>1 DEF Contents, Ops
<1>7. Added \in [Paths -> Upto(stamp)] /\ Removed \in [Paths -> Upto(stamp)]
  BY <1>1, <1>2, <1>6 DEF Added, Removed, Contents
<1>8. \A f \in Flushers : watch[f] \in Flushes(stamp) /\ watch[f].todo \subseteq Paths
  BY <1>1 DEF Contents, Flushes
<1>9. \A f \in Flushers : GoesOn(f) \in [Flushers -> Flushes(stamp)]
  BY <1>1, <1>2, <1>8 DEF GoesOn, Flushes, Contents
<1>10. ASSUME NEW q \in Paths, RequestNext(q) PROVE Typed'
  BY <1>10, RequestFacts
<1>11. ASSUME NEW q \in Paths, TimerNext(q) PROVE Typed'
  <2>1. inflight' \in [Paths -> [fresh : BOOLEAN, etag : Upto(stamp)]] /\ dropping' \subseteq Paths /\ windows' \in 0 .. MaxWindows
    <3>1. [inflight[q] EXCEPT !.fresh = FALSE] \in [fresh : BOOLEAN, etag : Upto(stamp)]
      BY <1>1 DEF Contents
    <3>2. inflight' \in [Paths -> [fresh : BOOLEAN, etag : Upto(stamp)]]
      BY <1>1, <1>2, <1>11, <3>1 DEF TimerNext, WindowEnds, EntryDropped, Contents
    <3>3. dropping' \subseteq Paths
      BY <1>1, <1>11 DEF TimerNext, WindowEnds, EntryDropped, PathSets
    <3>4. windows' \in 0 .. MaxWindows
      BY <1>1, <1>11 DEF TimerNext, WindowEnds, EntryDropped, Counts
    <3> QED BY <3>2, <3>3, <3>4
  <2> QED BY <1>1, <1>11, <2>1 DEF TimerNext, WindowEnds, EntryDropped, Contents, PathSets, Counts, Typed, records, git
<1>12. ASSUME NEW q \in Paths, EditorNext(q) PROVE Typed'
  <2>1. stamp' = stamp + 1 /\ stamp' \in 0 .. MaxStamps /\ Contents(stamp + 1)
    BY <1>1, <1>12, Grow DEF EditorNext, Edit, EditAway, NextStamp, Counts
  <2>2. \E c \in Upto(stamp + 1) : EditTo(q, c)
    BY <1>1, <1>12, <2>1, UptoFacts DEF EditorNext, Edit, EditAway
  <2>3. disk' \in [Paths -> Upto(stamp + 1)] /\ pending' \subseteq Paths /\ edited' \subseteq Paths
    BY <1>1, <2>1, <2>2 DEF EditTo, SetDisk, Contents, PathSets
  <2>4. UNCHANGED <<head, staged, log, untracked, index, inflight, dropping, windows, op, view, watch, hidden, fails>>
    BY <2>2 DEF EditTo, records, git, echo
  <2> QED BY <1>1, <2>1, <2>3, <2>4 DEF Contents, PathSets, Counts, Typed
<1>13. CASE Store
  <2>1. op.path \in Paths
    BY <1>13 DEF Store, OpShape
  <2>2. op' \in Ops(stamp) /\ edited' \subseteq Paths
    BY <1>1, <1>2, <1>13 DEF Store, Contents, Ops, PathSets
  <2>3. disk' \in [Paths -> Upto(stamp)] /\ pending' \subseteq Paths
    BY <1>5, <1>6, <1>13, <2>1 DEF Store
  <2> QED BY <1>1, <1>13, <2>2, <2>3 DEF Store, Contents, PathSets, Counts, Typed, records, git, echo
<1>14. CASE StoreFails
  <2>1. fails' \in 0 .. MaxFails
    BY <1>1, <1>4, <1>14 DEF StoreFails, Counts
  <2> QED BY <1>1, <1>2, <1>14, <2>1 DEF StoreFails, Contents, PathSets, Counts, Typed, records, git, echo
<1>15. CASE RemoveOld
  <2>1. op.from \in Paths
    BY <1>15 DEF RemoveOld, OpShape
  <2>2. op' \in Ops(stamp) /\ edited' \subseteq Paths
    BY <1>1, <1>3, <1>15 DEF RemoveOld, PathSets
  <2>3. disk' \in [Paths -> Upto(stamp)] /\ pending' \subseteq Paths
    BY <1>2, <1>5, <1>15, <2>1 DEF RemoveOld
  <2> QED BY <1>1, <1>15, <2>2, <2>3 DEF RemoveOld, Contents, PathSets, Counts, Typed, records, git, echo
<1>16. CASE RemoveOldFails
  <2>1. op.from \in Paths
    BY <1>16 DEF RemoveOldFails, OpShape
  <2>2. op' \in Ops(stamp) /\ log' \subseteq Paths /\ hidden' \subseteq Paths
    BY <1>1, <1>3, <1>16, <2>1 DEF RemoveOldFails, PathSets
  <2>3. fails' \in 0 .. MaxFails
    BY <1>1, <1>4, <1>16 DEF RemoveOldFails, Counts
  <2> QED BY <1>1, <1>16, <2>2, <2>3 DEF RemoveOldFails, Contents, PathSets, Counts, Typed, git, echo
<1>17. CASE Commit
  <2>1. staged' \in [Paths -> Upto(stamp)] /\ head' \in [Paths -> Upto(stamp)]
    BY <1>1, <1>7, <1>17 DEF Commit, Recorded, Contents
  <2>2. op' \in Ops(stamp) /\ untracked' \subseteq Paths
    BY <1>1, <1>3, <1>17 DEF Commit, ToIndex, PathSets
  <2> QED BY <1>1, <1>17, <2>1, <2>2 DEF Commit, Contents, PathSets, Counts, Typed, echo
<1>18. CASE CommitDelete
  <2>1. staged' \in [Paths -> Upto(stamp)] /\ head' \in [Paths -> Upto(stamp)]
    BY <1>1, <1>7, <1>18 DEF CommitDelete, Recorded, Contents
  <2>2. op' \in Ops(stamp) /\ untracked' \subseteq Paths /\ op.path \in Paths
    BY <1>1, <1>3, <1>18 DEF CommitDelete, ToIndex, PathSets, OpShape
  <2>3. disk' \in [Paths -> Upto(stamp)] /\ pending' \subseteq Paths
    BY <1>1, <1>2, <1>5, <1>18, <2>2 DEF CommitDelete, GitRm, Contents, PathSets
  <2> QED BY <1>1, <1>18, <2>1, <2>2, <2>3 DEF CommitDelete, Contents, PathSets, Counts, Typed, echo
<1>19. ASSUME NEW lost \in [OpPaths -> SUBSET Calls], Index(lost) PROVE Typed'
  <2>1. Indexed(lost) \in [Paths -> Entries(stamp)]
    <3>1. \A p \in Paths : index[p] \in Entries(stamp) /\ Final(p) \in Upto(stamp)
      BY <1>1, <1>2, <1>6 DEF Contents, Final
    <3>2. ASSUME NEW e \in Entries(stamp), NEW c \in Upto(stamp), NEW l \in SUBSET Calls
          PROVE  Reindexed(e, c, l) \in Entries(stamp)
      BY <1>2, <3>2 DEF Reindexed, Entries, Tables
    <3> QED BY <3>1, <3>2 DEF Indexed
  <2>2. inflight' \in [Paths -> [fresh : BOOLEAN, etag : Upto(stamp)]]
    BY <1>1, <1>6, <1>19 DEF Index, Marked, Contents
  <2>3. watch' \in [Flushers -> Flushes(stamp)]
    BY <1>1, <1>9, <1>19 DEF Index, Resumes, Contents, OpShape
  <2>4. hidden' \subseteq Paths
    BY <1>1, <1>19 DEF Index, PathSets
  <2>5. view' \in [Clients -> [path : Paths, content : Upto(stamp)]]
    BY <1>1, <1>6, <1>19 DEF Index, Contents, OpShape
  <2>6. fails' \in 0 .. MaxFails
    BY <1>1, <1>4, <1>19 DEF Index, Counts
  <2> QED BY <1>1, <1>2, <1>19, <2>1, <2>2, <2>3, <2>4, <2>5, <2>6 DEF Index, Contents, PathSets, Counts, Typed, records, git
<1>20. ASSUME NEW early \in BOOLEAN, CommitFails(early) PROVE Typed'
  <2>1. staged' \in [Paths -> Upto(stamp)]
    BY <1>1, <1>7, <1>20 DEF CommitFails, Contents
  <2>2. op' \in Ops(stamp) /\ log' \subseteq Paths /\ fails' \in 0 .. MaxFails
    BY <1>1, <1>3, <1>4, <1>20 DEF CommitFails, ToIndex, PathSets
  <2> QED BY <1>1, <1>20, <2>1, <2>2 DEF CommitFails, Contents, PathSets, Counts, Typed, echo
<1>21. ASSUME NEW early \in BOOLEAN, CommitDeleteFails(early) PROVE Typed'
  <2>1. staged' \in [Paths -> Upto(stamp)]
    BY <1>1, <1>7, <1>21 DEF CommitDeleteFails, Contents
  <2>2. op' \in Ops(stamp) /\ untracked' \subseteq Paths /\ fails' \in 0 .. MaxFails /\ op.path \in Paths
    BY <1>1, <1>3, <1>4, <1>21 DEF CommitDeleteFails, ToIndex, PathSets, OpShape
  <2>3. disk' \in [Paths -> Upto(stamp)] /\ pending' \subseteq Paths
    BY <1>1, <1>2, <1>5, <1>21, <2>2 DEF CommitDeleteFails, GitRm, Contents, PathSets
  <2> QED BY <1>1, <1>21, <2>1, <2>2, <2>3 DEF CommitDeleteFails, Contents, PathSets, Counts, Typed, echo
<1>22. ASSUME NEW f \in Flushers, FlushNext(f) PROVE Typed'
  <2>1. watch' \in [Flushers -> Flushes(stamp)] /\ UNCHANGED <<disk, head, staged, index, inflight, view>>
    <3>1. CASE FlushStart(f)
      <4>1. [IdleFlush EXCEPT !.pc = "next", !.todo = pending] \in Flushes(stamp)
        BY <1>1, <1>2 DEF Flushes, PathSets
      <4> QED BY <1>1, <3>1, <4>1 DEF FlushStart, Contents, records, git, echo
    <3>2. CASE FlushDone(f)
      BY <1>1, <1>2, <3>2 DEF FlushDone, Contents, records, git, echo
    <3>3. CASE Check(f)
      <4>1. [watch[f] EXCEPT !.pc = "lock"] \in Flushes(stamp)
        BY <1>8 DEF Flushes
      <4> QED BY <1>1, <1>9, <3>3, <4>1 DEF Check, Contents, records, git, echo
    <3>4. CASE Lock(f)
      <4>1. [watch[f] EXCEPT !.pc = "locked"] \in Flushes(stamp)
        BY <1>8 DEF Flushes
      <4> QED BY <1>1, <3>4, <4>1 DEF Lock, Contents, records, git, echo
    <3>5. ASSUME NEW p \in Paths, ReadFile(f, p) PROVE watch' \in [Flushers -> Flushes(stamp)] /\ UNCHANGED <<disk, head, staged, index, inflight, view>>
      <4>1. [pc |-> "check", todo |-> watch[f].todo \ {p}, path |-> p, content |-> disk[p]] \in Flushes(stamp)
        BY <1>1, <1>8 DEF Flushes, Contents
      <4> QED BY <1>1, <3>5, <4>1 DEF ReadFile, Contents, records, git, echo
    <3> QED BY <1>22, <3>1, <3>2, <3>3, <3>4, <3>5 DEF FlushNext
  <2>2. op' \in Ops(stamp)
    <3>1. CASE Lock(f)
      <4>1. watch[f].content \in Upto(stamp) /\ watch[f].path \in Paths \union {NoPath}
        BY <1>8 DEF Flushes
      <4> QED BY <1>2, <3>1, <4>1 DEF Lock, Ops, Kinds
    <3>2. CASE ~ Lock(f)
      BY <1>1, <1>22, <3>2 DEF FlushNext, FlushStart, FlushDone, Check, ReadFile, Contents
    <3> QED BY <3>1, <3>2
  <2>3. PathSets'
    BY <1>1, <1>22 DEF FlushNext, FlushStart, FlushDone, Check, ReadFile, Lock, PathSets, records, echo
  <2>4. UNCHANGED <<stamp, windows, fails>>
    BY <1>22 DEF FlushNext, FlushStart, FlushDone, Check, ReadFile, Lock, echo
  <2> QED BY <1>1, <2>1, <2>2, <2>3, <2>4 DEF Contents, Counts, Typed
<1>23. CASE UNCHANGED vars
  BY <1>23 DEF vars, Typed, Contents, PathSets, Counts
<1> QED BY <1>10, <1>11, <1>12, <1>13, <1>14, <1>15, <1>16, <1>17, <1>18, <1>19, <1>20, <1>21, <1>22, <1>23 DEF Next, OperationNext

-----------------------------------------------------------------------------
(* Shapes, and what guarded requests rely on.                              *)

(* An operation goes on: only its step and what it has checked change.     *)
LEMMA OpGoesOn ==
  ASSUME Typed, NEW c \in {"remove", "commit", "index"}, op' = [op EXCEPT !.pc = c]
  PROVE  /\ op'.pc = c /\ op'.kind = op.kind /\ op'.path = op.path /\ op'.from = op.from
         /\ op'.content = op.content /\ op'.caller = op.caller /\ OpPaths' = OpPaths
BY DEF Typed, Contents, Ops, OpPaths

(* What storing leaves of the operation.                                   *)
LEMMA StoreFacts ==
  ASSUME Typed, Store
  PROVE  /\ op'.pc = (IF op.kind = "rename" THEN "remove" ELSE "commit") /\ ~ op'.guarded
         /\ op'.kind = op.kind /\ op'.path = op.path /\ op'.from = op.from
         /\ op'.content = op.content /\ op'.caller = op.caller /\ OpPaths' = OpPaths
BY DEF Store, Typed, Contents, Ops, OpPaths

(* The operation a flush starts with the lock.                             *)
LEMMA LockFacts ==
  ASSUME Typed, NEW f \in Flushers, Lock(f)
  PROVE  /\ op.pc = "idle" /\ op'.pc = "commit" /\ op'.path = watch[f].path /\ op'.from = NoPath
         /\ op'.content = watch[f].content /\ op'.caller = f
         /\ op'.kind = (IF watch[f].content = Absent THEN "observe delete" ELSE "observe")
BY DEF Lock, IdleOp

(* What a step of flush f does to it.                                      *)
LEMMA FlushFacts ==
  ASSUME Typed, NEW f \in Flushers, FlushNext(f)
  PROVE  /\ \A g \in Flushers \ {f} : watch'[g] = watch[g]
         /\ UNCHANGED <<disk, head, staged, index, log, untracked, edited>>
         /\ \/ /\ watch[f].pc = "idle" /\ watch'[f].pc = "next" /\ watch'[f].todo = pending
               /\ pending' = {} /\ UNCHANGED <<op, hidden>>
            \/ /\ watch[f].pc = "next" /\ watch[f].todo = {} /\ watch'[f].pc = "idle" /\ watch'[f].todo = {}
               /\ UNCHANGED <<op, pending, hidden>>
            \/ /\ watch[f].pc = "next" /\ watch'[f].pc = "check" /\ watch'[f].path \in Paths
               /\ watch'[f].todo = watch[f].todo \ {watch'[f].path}
               /\ UNCHANGED <<op, pending, hidden>>
            \/ /\ watch[f].pc = "check" /\ watch'[f].pc \in {"next", "lock"} /\ watch'[f].todo = watch[f].todo
               /\ IF watch'[f].pc = "lock" THEN hidden' = hidden /\ watch'[f].path = watch[f].path
                  ELSE hidden' = hidden \union ({watch[f].path} \intersect edited)
               /\ UNCHANGED <<op, pending>>
            \/ /\ watch[f].pc = "lock" /\ watch'[f].pc = "locked" /\ watch'[f].path = watch[f].path
               /\ watch'[f].todo = watch[f].todo
               /\ Lock(f) /\ UNCHANGED <<pending, hidden>>
<1>w. watch \in [Flushers -> Flushes(stamp)] /\ watch[f] \in Flushes(stamp)
  BY DEF Typed, Contents
<1>1. CASE FlushStart(f)
  <2>1. watch' = [watch EXCEPT ![f] = [IdleFlush EXCEPT !.pc = "next", !.todo = pending]]
    BY <1>1 DEF FlushStart
  <2>2. watch'[f].pc = "next" /\ watch'[f].todo = pending /\ \A g \in Flushers \ {f} : watch'[g] = watch[g]
    BY <1>w, <2>1 DEF IdleFlush
  <2> QED BY <1>1, <2>2 DEF FlushStart, records, git
<1>2. CASE FlushDone(f)
  BY <1>2, <1>w DEF FlushDone, IdleFlush, records, git
<1>3. ASSUME NEW p \in Paths, ReadFile(f, p) PROVE UNCHANGED <<disk, head, staged, index, log, untracked, edited, op, pending, hidden>>
         /\ watch[f].pc = "next" /\ watch'[f].pc = "check" /\ watch'[f].path = p
         /\ watch'[f].todo = watch[f].todo \ {p} /\ \A g \in Flushers \ {f} : watch'[g] = watch[g]
  BY <1>3, <1>w DEF ReadFile, records, git
<1>4. CASE Check(f)
  <2>1. CASE Echo(f)
    <3>1. watch' = [watch EXCEPT ![f] = [IdleFlush EXCEPT !.pc = "next", !.todo = watch[f].todo]]
      BY <1>4, <2>1 DEF Check, GoesOn
    <3>2. watch'[f].pc = "next" /\ watch'[f].todo = watch[f].todo /\ \A g \in Flushers \ {f} : watch'[g] = watch[g]
      BY <1>w, <3>1 DEF IdleFlush
    <3>3. hidden' = hidden \union ({watch[f].path} \intersect edited)
      BY <1>4, <2>1 DEF Check
    <3> QED BY <1>4, <3>2, <3>3 DEF Check, records, git
  <2>2. CASE ~ Echo(f)
    <3>1. watch' = [watch EXCEPT ![f].pc = "lock"] /\ hidden' = hidden
      BY <1>4, <2>2 DEF Check
    <3>2. /\ watch'[f].pc = "lock" /\ watch'[f].todo = watch[f].todo /\ watch'[f].path = watch[f].path
          /\ \A g \in Flushers \ {f} : watch'[g] = watch[g]
      BY <1>w, <3>1 DEF Flushes
    <3> QED BY <1>4, <3>1, <3>2 DEF Check, records, git
  <2> QED BY <2>1, <2>2
<1>5. CASE Lock(f)
  <2>1. watch' = [watch EXCEPT ![f].pc = "locked"] /\ watch[f].pc = "lock"
    BY <1>5 DEF Lock
  <2>2. /\ watch'[f].pc = "locked" /\ watch'[f].todo = watch[f].todo /\ watch'[f].path = watch[f].path
        /\ \A g \in Flushers \ {f} : watch'[g] = watch[g]
    BY <1>w, <2>1 DEF Flushes
  <2> QED BY <1>5, <2>1, <2>2 DEF Lock, records, git
<1> QED BY <1>1, <1>2, <1>3, <1>4, <1>5 DEF FlushNext

(* Every step keeps the operation in shape.                                *)
LEMMA StepOpShape ==
  ASSUME Typed, OpShape, WatchShape, [Next]_vars
  PROVE  OpShape'
<1>1. ASSUME op' = op PROVE OpShape'
  BY <1>1 DEF OpShape, Removes, Observes
<1>2. ASSUME op' = IdleOp PROVE OpShape'
  BY <1>2 DEF OpShape, IdleOp
<1>3. ASSUME NEW q \in Paths, RequestNext(q) PROVE OpShape'
  BY <1>3, RequestFacts DEF OpShape, Removes, Observes
<1>4. CASE Store
  <2>1. op.pc = "store"
    BY <1>4 DEF Store
  <2>2. op'.kind = op.kind /\ op'.path = op.path /\ op'.from = op.from /\ op'.content = op.content /\ op'.caller = op.caller
    BY <1>4, StoreFacts
  <2>3. IF op.kind = "rename" THEN op'.pc = "remove" ELSE op'.pc = "commit"
    BY <1>4, StoreFacts
  <2> QED BY <2>1, <2>2, <2>3 DEF OpShape, Removes, Observes
<1>5. CASE RemoveOld \/ RemoveOldFails
  <2>1. op' = [op EXCEPT !.pc = "commit"] /\ op.pc = "remove"
    BY <1>5 DEF RemoveOld, RemoveOldFails
  <2> QED BY <2>1, OpGoesOn DEF OpShape, Removes, Observes
<1>6. CASE Commit \/ CommitDelete \/ \E early \in BOOLEAN : CommitFails(early) \/ CommitDeleteFails(early)
  <2>1. op' = [op EXCEPT !.pc = "index"] /\ op.pc = "commit"
    BY <1>6 DEF Commit, CommitDelete, CommitFails, CommitDeleteFails, ToIndex
  <2> QED BY <2>1, OpGoesOn DEF OpShape, Removes, Observes
<1>7. ASSUME NEW f \in Flushers, Lock(f) PROVE OpShape'
  <2>1. watch[f].path \in Paths
    BY <1>7 DEF Lock, WatchShape
  <2> QED BY <1>7, <2>1, LockFacts DEF OpShape, Removes, Observes
<1>8. CASE StoreFails \/ \E lost \in [OpPaths -> SUBSET Calls] : Index(lost)
  BY <1>2, <1>8 DEF Index, StoreFails
<1>9. ASSUME NEW f \in Flushers, FlushNext(f), ~ Lock(f) PROVE OpShape'
  BY <1>1, <1>9 DEF FlushNext, FlushStart, FlushDone, Check, ReadFile
<1>10. ASSUME NEW q \in Paths, TimerNext(q) \/ EditorNext(q) PROVE OpShape'
  BY <1>1, <1>10 DEF TimerNext, WindowEnds, EntryDropped, EditorNext, Edit, EditAway, EditTo
<1>11. CASE UNCHANGED vars
  BY <1>1, <1>11 DEF vars
<1> QED BY <1>3, <1>4, <1>5, <1>6, <1>7, <1>8, <1>9, <1>10, <1>11 DEF Next, OperationNext

(* Every step keeps the flushes in shape, and one of them locked exactly   *)
(* while its observation is under way.                                     *)
LEMMA StepWatchShape ==
  ASSUME Typed, OpShape, WatchShape, [Next]_vars
  PROVE  WatchShape'
<1>t. \A f \in Flushers : watch[f] \in Flushes(stamp)
  BY DEF Typed, Contents
<1>w. watch \in [Flushers -> Flushes(stamp)]
  BY DEF Typed, Contents
<1> DEFINE Watched == op.pc # "idle" /\ Observes
<1>1. ASSUME watch' = watch, Watched' <=> Watched, Watched => op'.caller = op.caller PROVE WatchShape'
  BY <1>1 DEF WatchShape
<1>2. ASSUME watch' = watch, ~ Watched, ~ Watched' PROVE WatchShape'
  BY <1>2 DEF WatchShape
<1>3. ASSUME NEW q \in Paths, RequestNext(q) PROVE WatchShape'
  BY <1>2, <1>3, RequestFacts DEF Observes
<1>4. CASE Store
  <2>1. watch' = watch /\ op.pc = "store"
    BY <1>4 DEF Store
  <2> QED BY <1>1, <1>4, <2>1, StoreFacts DEF Observes
<1>5. CASE RemoveOld \/ RemoveOldFails
  <2>1. op' = [op EXCEPT !.pc = "commit"] /\ op.pc = "remove" /\ watch' = watch
    BY <1>5 DEF RemoveOld, RemoveOldFails
  <2> QED BY <1>1, <2>1, OpGoesOn DEF Observes
<1>6. CASE Commit \/ CommitDelete \/ \E early \in BOOLEAN : CommitFails(early) \/ CommitDeleteFails(early)
  <2>1. op' = [op EXCEPT !.pc = "index"] /\ op.pc = "commit" /\ watch' = watch
    BY <1>6 DEF Commit, CommitDelete, CommitFails, CommitDeleteFails, ToIndex
  <2> QED BY <1>1, <2>1, OpGoesOn DEF Observes
<1>7. CASE StoreFails
  <2>1. watch' = watch /\ op.pc = "store" /\ op' = IdleOp
    BY <1>7 DEF StoreFails
  <2> QED BY <1>2, <2>1 DEF OpShape, IdleOp, Observes
<1>8. ASSUME NEW lost \in [OpPaths -> SUBSET Calls], Index(lost) PROVE WatchShape'
  <2>1. op.pc = "index" /\ op' = IdleOp /\ op'.pc = "idle"
    BY <1>8 DEF Index, IdleOp
  <2>2. CASE ~ Observes
    BY <1>2, <1>8, <2>1, <2>2 DEF Index, Resumes
  <2>3. CASE Observes
    <3>1. op.caller \in Flushers /\ watch' = [watch EXCEPT ![op.caller] = [IdleFlush EXCEPT !.pc = "next", !.todo = watch[op.caller].todo]]
      BY <1>8, <2>1, <2>3 DEF Index, Resumes, GoesOn, OpShape
    <3>2. watch'[op.caller].pc = "next" /\ \A f \in Flushers \ {op.caller} : watch'[f] = watch[f]
      BY <1>w, <3>1 DEF IdleFlush
    <3>3. \A f \in Flushers \ {op.caller} : watch[f].pc # "locked"
      BY <2>1, <2>3 DEF WatchShape
    <3> QED BY <2>1, <3>2, <3>3 DEF WatchShape
  <2> QED BY <2>2, <2>3
<1>9. ASSUME NEW f \in Flushers, Lock(f) PROVE WatchShape'
  <2>1. op.pc = "idle" /\ op'.pc # "idle" /\ op'.caller = f /\ op'.kind \in {"observe", "observe delete"}
    BY <1>9, LockFacts
  <2>2. watch'[f].pc = "locked" /\ watch'[f].path = watch[f].path /\ watch[f].pc = "lock"
        /\ \A g \in Flushers \ {f} : watch'[g] = watch[g]
    BY <1>9, <1>w DEF Lock, Flushes
  <2> QED BY <2>1, <2>2 DEF WatchShape, Observes
<1>10. ASSUME NEW f \in Flushers, FlushNext(f), ~ Lock(f) PROVE WatchShape'
  <2>1. op' = op /\ \A g \in Flushers \ {f} : watch'[g] = watch[g]
    BY <1>10, FlushFacts
  <2>2. watch[f].pc # "locked" /\ watch'[f].pc # "locked"
    BY <1>10, FlushFacts
  <2>3. /\ watch'[f].pc \in {"check", "lock"} => watch'[f].path \in Paths
        /\ watch'[f].pc = "idle" => watch'[f].todo = {}
    BY <1>10, FlushFacts DEF WatchShape
  <2>5. \A g \in Flushers : watch'[g].pc = "locked" <=> (op'.pc # "idle" /\ op'.kind \in {"observe", "observe delete"} /\ op'.caller = g)
    BY <2>1, <2>2 DEF WatchShape, Observes
  <2>6. \A g \in Flushers :
          /\ watch'[g].pc = "idle" => watch'[g].todo = {}
          /\ watch'[g].pc \in {"check", "lock", "locked"} => watch'[g].path \in Paths
    BY <2>1, <2>2, <2>3 DEF WatchShape
  <2> QED BY <2>5, <2>6 DEF WatchShape, Observes
<1>11. ASSUME NEW q \in Paths, TimerNext(q) \/ EditorNext(q) PROVE WatchShape'
  BY <1>1, <1>11 DEF TimerNext, WindowEnds, EntryDropped, EditorNext, Edit, EditAway, EditTo, Observes
<1>12. CASE UNCHANGED vars
  BY <1>1, <1>12 DEF vars, Observes
<1> QED BY <1>3, <1>4, <1>5, <1>6, <1>7, <1>8, <1>9, <1>10, <1>11, <1>12 DEF Next, OperationNext

(* Every step keeps what a guarded request relies on.                      *)
LEMMA StepGuarded ==
  ASSUME Typed, OpShape, Guarded, [Next]_vars
  PROVE  Guarded'
<1>1. ASSUME op'.pc # "store" PROVE Guarded'
  BY <1>1 DEF Guarded
<1>2. ASSUME UNCHANGED <<op, disk, edited>> PROVE Guarded'
  BY <1>2 DEF Guarded
<1>3. ASSUME NEW q \in Paths, RequestNext(q) PROVE Guarded'
  BY <1>3, RequestFacts DEF Guarded
<1>4. CASE Store
  BY <1>1, <1>4, StoreFacts
<1>5. CASE RemoveOld \/ RemoveOldFails
  <2>1. op' = [op EXCEPT !.pc = "commit"]
    BY <1>5 DEF RemoveOld, RemoveOldFails
  <2> QED BY <1>1, <2>1, OpGoesOn
<1>6. CASE Commit \/ CommitDelete \/ \E early \in BOOLEAN : CommitFails(early) \/ CommitDeleteFails(early)
  <2>1. op' = [op EXCEPT !.pc = "index"]
    BY <1>6 DEF Commit, CommitDelete, CommitFails, CommitDeleteFails, ToIndex
  <2> QED BY <1>1, <2>1, OpGoesOn
<1>7. CASE StoreFails \/ \E lost \in [OpPaths -> SUBSET Calls] : Index(lost)
  BY <1>1, <1>7 DEF Index, StoreFails, IdleOp
<1>8. ASSUME NEW f \in Flushers, Lock(f) PROVE Guarded'
  BY <1>1, <1>8, LockFacts
<1>9. ASSUME NEW f \in Flushers, FlushNext(f), ~ Lock(f) PROVE Guarded'
  BY <1>2, <1>9 DEF FlushNext, FlushStart, FlushDone, Check, ReadFile
<1>10. ASSUME NEW q \in Paths, TimerNext(q) PROVE Guarded'
  BY <1>2, <1>10 DEF TimerNext, WindowEnds, EntryDropped
<1>11. ASSUME NEW q \in Paths, EditorNext(q) PROVE Guarded'
  <2>1. op' = op /\ edited' = edited \union {q} /\ \A p \in Paths \ {q} : disk'[p] = disk[p]
    BY <1>11 DEF EditorNext, Edit, EditAway, EditTo, SetDisk, Typed, Contents
  <2> QED BY <2>1 DEF Guarded, OpShape
<1>12. CASE UNCHANGED vars
  BY <1>2, <1>12 DEF vars
<1> QED BY <1>3, <1>4, <1>5, <1>6, <1>7, <1>8, <1>9, <1>10, <1>11, <1>12 DEF Next, OperationNext

-----------------------------------------------------------------------------
(* What git and the indexes hold.                                          *)

(* The operation's pages.                                                  *)
LEMMA OpPathsFacts ==
  ASSUME OpShape, op.pc # "idle"
  PROVE  /\ op.path \in Paths
         /\ op.kind = "rename" => OpPaths = {op.path, op.from} /\ op.from \in Paths /\ op.from # op.path
         /\ op.kind # "rename" => OpPaths = {op.path}
BY PipelineAssumption DEF OpShape, OpPaths, NoPath

(* A change of one page.                                                   *)
LEMMA SetFacts ==
  ASSUME Typed, NEW p \in Paths, NEW c, SetDisk(p, c)
  PROVE  /\ disk'[p] = c /\ \A q \in Paths \ {p} : disk'[q] = disk[q]
         /\ pending' = pending \union {p}
BY DEF SetDisk, Typed, Contents

(* A commit records what is staged, the operation's own pages among it.    *)
LEMMA CommitFacts ==
  ASSUME Typed, OpShape, Commit
  PROVE  /\ op.pc = "commit" /\ op'.pc = "index" /\ OpPaths' = OpPaths /\ Observes' = Observes
         /\ op'.path = op.path /\ op'.content = op.content
         /\ \A p \in OpPaths : head'[p] = disk[p] /\ staged'[p] = head'[p]
         /\ \A p \in Paths \ OpPaths : staged'[p] = staged[p] /\ head'[p] \in {head[p], staged[p]}
         /\ untracked' = untracked \ OpPaths
         /\ UNCHANGED <<disk, index, log, pending, watch, edited, hidden>>
<1>1. op' = [op EXCEPT !.pc = "index"] /\ op.pc = "commit" /\ Recorded(Added)
  BY DEF Commit, ToIndex
<1>2. OpPaths \subseteq Paths
  BY DEF OpPaths
<1>3. \A p \in Paths : Added[p] = IF p \in OpPaths THEN disk[p] ELSE staged[p]
  BY DEF Added
<1>4. staged' = Added /\ (head' = Added \/ (head' = head /\ \A p \in OpPaths : Added[p] = head[p]))
  BY <1>1 DEF Recorded
<1>5. op'.pc = "index" /\ OpPaths' = OpPaths /\ Observes' = Observes /\ op'.path = op.path /\ op'.content = op.content
  BY <1>1, OpGoesOn DEF Observes
<1>6. \A p \in OpPaths : head'[p] = disk[p] /\ staged'[p] = head'[p]
  BY <1>2, <1>3, <1>4
<1>7. \A p \in Paths \ OpPaths : staged'[p] = staged[p] /\ head'[p] \in {head[p], staged[p]}
  BY <1>3, <1>4
<1> QED BY <1>1, <1>5, <1>6, <1>7 DEF Commit, echo

(* So does a delete; git rm takes away a file that is there again.         *)
LEMMA CommitDeleteFacts ==
  ASSUME Typed, OpShape, CommitDelete
  PROVE  /\ op.pc = "commit" /\ op'.pc = "index" /\ OpPaths' = OpPaths /\ OpPaths = {op.path} /\ Observes' = Observes
         /\ op'.path = op.path /\ op'.content = op.content /\ op.content = Absent
         /\ disk'[op.path] \in {disk[op.path], Absent}
         /\ head'[op.path] = disk'[op.path] /\ staged'[op.path] = head'[op.path]
         /\ \A p \in Paths \ OpPaths : staged'[p] = staged[p] /\ head'[p] \in {head[p], staged[p]} /\ disk'[p] = disk[p]
         /\ untracked' = untracked \ OpPaths /\ pending \subseteq pending'
         /\ UNCHANGED <<index, log, watch, edited, hidden>>
<1>1. op' = [op EXCEPT !.pc = "index"] /\ op.pc = "commit" /\ Recorded(Removed) /\ GitRm /\ Removes
  BY DEF CommitDelete, ToIndex
<1>2. op.path \in Paths /\ OpPaths = {op.path} /\ op.content = Absent
  BY <1>1, OpPathsFacts DEF Removes, OpShape
<1>3. /\ Removed[op.path] = IF staged[op.path] = Absent THEN disk[op.path] ELSE Absent
      /\ \A p \in Paths \ OpPaths : Removed[p] = staged[p]
  BY <1>2 DEF Removed, Typed, Contents
<1>4. staged' = Removed /\ (head' = Removed \/ (head' = head /\ \A p \in OpPaths : Removed[p] = head[p]))
  BY <1>1 DEF Recorded
<1>5. op'.pc = "index" /\ OpPaths' = OpPaths /\ Observes' = Observes /\ op'.path = op.path /\ op'.content = op.content
  BY <1>1, OpGoesOn DEF Observes
<1>6. /\ disk'[op.path] = IF staged[op.path] = Absent THEN disk[op.path] ELSE Absent
      /\ \A p \in Paths \ OpPaths : disk'[p] = disk[p]
      /\ pending \subseteq pending'
  BY <1>1, <1>2, SetFacts DEF GitRm
<1>7. head'[op.path] = disk'[op.path] /\ staged'[op.path] = head'[op.path] /\ disk'[op.path] \in {disk[op.path], Absent}
  BY <1>2, <1>3, <1>4, <1>6
<1>8. \A p \in Paths \ OpPaths : staged'[p] = staged[p] /\ head'[p] \in {head[p], staged[p]} /\ disk'[p] = disk[p]
  BY <1>3, <1>4, <1>6
<1> QED BY <1>1, <1>2, <1>5, <1>6, <1>7, <1>8 DEF CommitDelete, echo

(* When a commit fails its pages are owed.                                 *)
LEMMA FailsFacts ==
  ASSUME Typed, OpShape, NEW early \in BOOLEAN, CommitFails(early) \/ CommitDeleteFails(early)
  PROVE  /\ op.pc = "commit" /\ op'.pc = "index" /\ OpPaths' = OpPaths /\ Observes' = Observes
         /\ op'.path = op.path /\ op'.content = op.content
         /\ OpPaths \subseteq log' \union untracked' /\ log \subseteq log' /\ untracked \subseteq untracked'
         /\ \A p \in Paths \ OpPaths : staged'[p] = staged[p] /\ disk'[p] = disk[p]
         /\ op.path \in Paths /\ disk'[op.path] \in {disk[op.path], op.content}
         /\ \A p \in OpPaths \ {op.path} : disk'[p] = disk[p]
         /\ pending \subseteq pending'
         /\ UNCHANGED <<head, index, watch, edited, hidden>>
<1>1. op' = [op EXCEPT !.pc = "index"] /\ op.pc = "commit"
  BY DEF CommitFails, CommitDeleteFails, ToIndex
<1>2. op.path \in Paths /\ OpPaths \subseteq Paths
  BY <1>1, OpPathsFacts DEF OpPaths
<1>3. op'.pc = "index" /\ OpPaths' = OpPaths /\ Observes' = Observes /\ op'.path = op.path /\ op'.content = op.content
  BY <1>1, OpGoesOn DEF Observes
<1>4. CASE CommitFails(early)
  <2>1. \A p \in Paths \ OpPaths : staged'[p] = staged[p]
    <3>1. \A p \in Paths \ OpPaths : Added[p] = staged[p]
      BY DEF Added
    <3> QED BY <1>4, <3>1 DEF CommitFails
  <2> QED BY <1>1, <1>2, <1>3, <1>4, <2>1 DEF CommitFails, echo
<1>5. CASE CommitDeleteFails(early)
  <2>1. OpPaths = {op.path} /\ op.content = Absent
    BY <1>1, <1>5, OpPathsFacts DEF CommitDeleteFails, Removes, OpShape
  <2>2. \A p \in Paths \ OpPaths : staged'[p] = staged[p]
    <3>1. \A p \in Paths \ OpPaths : Removed[p] = staged[p]
      BY <1>2, <2>1 DEF Removed, Typed, Contents
    <3> QED BY <1>5, <3>1 DEF CommitDeleteFails
  <2>3. /\ \A p \in Paths \ OpPaths : disk'[p] = disk[p]
        /\ disk'[op.path] \in {disk[op.path], Absent}
        /\ pending \subseteq pending'
    BY <1>2, <1>5, <2>1, SetFacts DEF CommitDeleteFails, GitRm
  <2> QED BY <1>1, <1>2, <1>3, <1>5, <2>1, <2>2, <2>3 DEF CommitDeleteFails, echo
<1> QED BY <1>4, <1>5

(* Every step keeps git's index next to the last commit.                   *)
LEMMA StepStaged ==
  ASSUME Typed, OpShape, WatchShape, StagedInv, [Next]_vars
  PROVE  StagedInv'
<1>1. ASSUME UNCHANGED <<staged, head>>, log \subseteq log', untracked \subseteq untracked' PROVE StagedInv'
  BY <1>1 DEF StagedInv
<1>2. ASSUME NEW q \in Paths, RequestNext(q) PROVE StagedInv'
  BY <1>1, <1>2, RequestFacts
<1>3. ASSUME NEW q \in Paths, TimerNext(q) \/ EditorNext(q) PROVE StagedInv'
  BY <1>1, <1>3 DEF TimerNext, WindowEnds, EntryDropped, EditorNext, Edit, EditAway, EditTo, records, git
<1>4. CASE Store \/ StoreFails \/ RemoveOld \/ RemoveOldFails \/ \E lost \in [OpPaths -> SUBSET Calls] : Index(lost)
  BY <1>1, <1>4 DEF Store, StoreFails, RemoveOld, RemoveOldFails, Index, records, git
<1>5. CASE Commit
  BY <1>5, CommitFacts DEF StagedInv
<1>6. CASE CommitDelete
  BY <1>6, CommitDeleteFacts DEF StagedInv
<1>7. ASSUME NEW early \in BOOLEAN, CommitFails(early) \/ CommitDeleteFails(early) PROVE StagedInv'
  BY <1>7, FailsFacts DEF StagedInv
<1>8. ASSUME NEW f \in Flushers, FlushNext(f) PROVE StagedInv'
  BY <1>1, <1>8, FlushFacts
<1>9. CASE UNCHANGED vars
  BY <1>1, <1>9 DEF vars
<1> QED BY <1>2, <1>3, <1>4, <1>5, <1>6, <1>7, <1>8, <1>9 DEF Next, OperationNext

(* A step of a flush passes on what is due, or hides it, or the page is    *)
(* observed next.                                                          *)
LEMMA DueFacts ==
  ASSUME Typed, WatchShape, NEW f \in Flushers, FlushNext(f), NEW p \in Paths, Due(p)
  PROVE  Due(p)' \/ p \in hidden' \/ (Lock(f) /\ watch[f].path = p)
<1>1. \A g \in Flushers \ {f} : watch'[g] = watch[g]
  BY FlushFacts
<1>2. edited' = edited /\ p \in edited /\ Notified(p)
  BY FlushFacts DEF Due
<1>3. ASSUME NEW g \in Flushers \ {f}, p \in watch[g].todo \/ (watch[g].pc \in {"check", "lock"} /\ watch[g].path = p)
      PROVE  Notified(p)'
  BY <1>1, <1>3 DEF Notified
<1>4. CASE p \in pending
  <2>1. p \in pending' \/ p \in watch'[f].todo
    BY <1>4, FlushFacts
  <2> QED BY <1>2, <2>1 DEF Due, Notified
<1>5. CASE p \in watch[f].todo
  <2>1. p \in watch'[f].todo \/ (watch'[f].pc = "check" /\ watch'[f].path = p)
    BY <1>5, FlushFacts DEF WatchShape
  <2> QED BY <1>2, <2>1 DEF Due, Notified
<1>6. CASE watch[f].pc \in {"check", "lock"} /\ watch[f].path = p
  <2>1. \/ watch'[f].pc = "lock" /\ watch'[f].path = p
        \/ p \in hidden'
        \/ Lock(f)
    BY <1>2, <1>6, FlushFacts
  <2> QED BY <1>2, <1>6, <2>1 DEF Due, Notified
<1> QED BY <1>2, <1>3, <1>4, <1>5, <1>6 DEF Due, Notified

(* Every step keeps what is on disk indexed and committed, or owed, or due *)
(* to be observed.                                                         *)
LEMMA StepPages ==
  ASSUME Typed, OpShape, WatchShape, WatchShape', StagedInv, PagesInv, [Next]_vars
  PROVE  PagesInv'
<1>t. OpPaths \subseteq Paths /\ PathSets
  BY DEF OpPaths, Typed
(* A page the step does not concern, and one only its step goes on for.    *)
<1>k. ASSUME NEW p \in Paths, QuietAt(p), p \in hidden => p \in hidden', Due(p) => Due(p)',
             disk'[p] = disk[p], index'[p] = index[p], Owed(p) => Owed(p)'
      PROVE  QuietAt(p)'
  BY <1>k DEF QuietAt
<1>u. ASSUME UNCHANGED <<pending, watch>> \/ (pending \subseteq pending' /\ watch' = watch),
             NEW p \in Paths, p \in edited => p \in edited'
      PROVE  Due(p) => Due(p)'
  BY <1>u DEF Due, Notified
<1>o. ASSUME NEW p \in Paths, head'[p] = head[p], disk'[p] = disk[p], log \subseteq log', untracked \subseteq untracked'
      PROVE  Owed(p) => Owed(p)'
  BY <1>o DEF Owed
<1>n. \A p \in Paths : op.pc \in {"idle", "store"} => ~ Working(p) /\ QuietAt(p)
  BY DEF PagesInv, Working
<1>1. ASSUME UNCHANGED <<op, disk, head, index, log, untracked, hidden, watch, edited, pending>> PROVE PagesInv'
  BY <1>1 DEF PagesInv, Working, OpPaths, Observes, QuietAt, RequestAt, Due, Notified, Owed, Final
<1>2. ASSUME op.pc \in {"idle", "store"}, op'.pc \in {"idle", "store"},
             UNCHANGED <<disk, head, index, log, untracked, hidden, watch, edited, pending>>
      PROVE  PagesInv'
  BY <1>2, <1>n DEF PagesInv, Working, QuietAt, Due, Notified, Owed
<1>3. ASSUME NEW q \in Paths, RequestNext(q) PROVE PagesInv'
  BY <1>2, <1>3, RequestFacts
<1>4. ASSUME NEW q \in Paths, TimerNext(q) PROVE PagesInv'
  BY <1>1, <1>4 DEF TimerNext, WindowEnds, EntryDropped, records, git
<1>5. CASE StoreFails
  BY <1>2, <1>5 DEF StoreFails, IdleOp, records, git
<1>6. ASSUME NEW q \in Paths, EditorNext(q) PROVE PagesInv'
  <2>1. PICK c : EditTo(q, c)
    BY <1>6 DEF EditorNext, Edit, EditAway
  <2>2. UNCHANGED <<head, index, log, untracked, op, watch, hidden>> /\ edited' = edited \union {q}
        /\ pending' = pending \union {q} /\ \A p \in Paths \ {q} : disk'[p] = disk[p]
    BY <2>1, SetFacts DEF EditTo, records, git
  <2>3. Due(q)'
    BY <2>2 DEF Due, Notified
  <2>4. \A p \in Paths : Due(p) => Due(p)'
    BY <2>2 DEF Due, Notified
  <2>5. \A p \in Paths : /\ (Working(p)' <=> Working(p)) /\ Final(p)' = Final(p) /\ Observes' = Observes
                         /\ p # q => (Owed(p)' <=> Owed(p))
    BY <2>2 DEF Working, OpPaths, Observes, Final, Owed
  <2>6. \A p \in Paths : QuietAt(p) => QuietAt(p)'
    BY <2>2, <2>3, <2>4, <2>5 DEF QuietAt
  <2>7. \A p \in Paths : RequestAt(p) => RequestAt(p)'
    BY <2>2, <2>3, <2>4, <2>5 DEF RequestAt
  <2> QED BY <2>5, <2>6, <2>7 DEF PagesInv
<1>7. CASE Store
  <2>1. op.pc = "store" /\ UNCHANGED <<head, index, log, untracked, hidden, watch>> /\ edited' = edited \ {op.path}
        /\ op.path \in Paths
    BY <1>7, OpPathsFacts DEF Store, records, git
  <2>2. /\ op'.pc = (IF op.kind = "rename" THEN "remove" ELSE "commit") /\ op'.kind = op.kind
        /\ op'.path = op.path /\ op'.from = op.from /\ op'.content = op.content /\ OpPaths' = OpPaths
    BY <1>7, StoreFacts
  <2>3. disk'[op.path] = op.content /\ (\A p \in Paths \ {op.path} : disk'[p] = disk[p]) /\ pending \subseteq pending'
    BY <1>7, <2>1, SetFacts DEF Store
  <2>4. ASSUME NEW p \in Paths \ {op.path} PROVE QuietAt(p)'
    BY <1>k, <1>n, <1>o, <1>u, <2>1, <2>3
  <2>5. ASSUME NEW p \in Paths, p = op.path PROVE RequestAt(p)' /\ Working(p)'
    BY <2>1, <2>2, <2>3, <2>5 DEF RequestAt, Final, Working, OpPaths
  <2>6. ASSUME NEW p \in Paths \ {op.path}, Working(p)' PROVE RequestAt(p)'
    <3>1. op.kind = "rename" /\ p = op.from
      BY <2>1, <2>2, <2>6, OpPathsFacts DEF Working
    <3> QED BY <2>2, <3>1 DEF RequestAt
  <2> QED BY <2>4, <2>5, <2>6 DEF PagesInv
<1>8. CASE RemoveOld \/ RemoveOldFails
  <2>1. /\ op.pc = "remove" /\ op' = [op EXCEPT !.pc = "commit"] /\ UNCHANGED <<head, index, untracked, watch>>
        /\ log \subseteq log' /\ hidden \subseteq hidden'
    BY <1>8 DEF RemoveOld, RemoveOldFails, records, git
  <2>2. /\ op.kind = "rename" /\ op.path \in Paths /\ op.from \in Paths /\ op.from # op.path
        /\ OpPaths = {op.path, op.from} /\ ~ Observes
    BY <2>1, OpPathsFacts DEF OpShape, Observes
  <2>3. op'.pc = "commit" /\ OpPaths' = OpPaths /\ op'.path = op.path /\ op'.content = op.content
    BY <2>1, OpGoesOn
  <2>4. /\ \A p \in Paths \ {op.from} : disk'[p] = disk[p] /\ (p \in edited => p \in edited')
        /\ op.from \in hidden' \/ disk'[op.from] = Absent
        /\ pending \subseteq pending'
    BY <1>8, <2>2, SetFacts DEF RemoveOld, RemoveOldFails
  <2>5. ASSUME NEW p \in Paths, p = op.from PROVE RequestAt(p)'
    BY <2>2, <2>3, <2>4, <2>5 DEF RequestAt, Final
  <2>6. ASSUME NEW p \in Paths, p = op.path PROVE RequestAt(p)'
    <3>1. RequestAt(p)
      BY <2>1, <2>2, <2>6 DEF PagesInv, Working
    <3>2. Due(p) => Due(p)'
      BY <1>u, <2>1, <2>2, <2>4, <2>6
    <3> QED BY <2>1, <2>2, <2>3, <2>4, <2>6, <3>1, <3>2 DEF RequestAt, Final
  <2>7. ASSUME NEW p \in Paths, p \notin OpPaths PROVE QuietAt(p)'
    <3>1. QuietAt(p)
      BY <2>7 DEF PagesInv, Working
    <3> QED BY <1>k, <1>o, <1>u, <2>1, <2>2, <2>4, <2>7, <3>1
  <2> QED BY <2>2, <2>3, <2>5, <2>6, <2>7 DEF PagesInv, Working
(* After a commit, failed or not, the operation's pages are owed.          *)
<1>c. ASSUME op.pc = "commit", op'.pc = "index", OpPaths' = OpPaths, Observes' = Observes,
             op'.path = op.path, op'.content = op.content,
             UNCHANGED <<index, hidden, watch, edited>>, pending \subseteq pending',
             \A p \in OpPaths : Owed(p)' /\ disk'[p] \in {disk[p], Final(p)},
             \A p \in Paths \ OpPaths : disk'[p] = disk[p] /\ (Owed(p) => Owed(p)')
      PROVE  PagesInv'
  <2>1. \A p \in Paths : Due(p) => Due(p)'
    BY <1>u, <1>c
  <2>2. \A p \in Paths : Working(p)' <=> p \in OpPaths
    BY <1>c DEF Working
  <2>3. \A p \in Paths : Working(p) <=> p \in OpPaths
    BY <1>c DEF Working
  <2>4. ASSUME NEW p \in Paths \ OpPaths PROVE QuietAt(p)'
    <3>1. QuietAt(p)
      BY <2>3, <2>4 DEF PagesInv
    <3> QED BY <1>c, <2>1, <3>1 DEF QuietAt
  <2>5. ASSUME NEW p \in OpPaths, ~ Observes PROVE RequestAt(p)'
    <3>1. RequestAt(p)
      BY <1>t, <2>3, <2>5 DEF PagesInv
    <3>2. p \notin hidden => Due(p) \/ disk[p] = Final(p)
      BY <1>c, <3>1 DEF RequestAt
    <3>3. Final(p)' = Final(p)
      BY <1>c DEF Final
    <3>4. (Due(p) => Due(p)') /\ Owed(p)' /\ disk'[p] \in {disk[p], Final(p)}
      BY <1>c, <1>t, <2>1
    <3> QED BY <1>c, <3>2, <3>3, <3>4 DEF RequestAt
  <2> QED BY <1>c, <2>2, <2>4, <2>5 DEF PagesInv
<1>9. CASE Commit
  <2>1. \A p \in OpPaths : Owed(p)'
    BY <1>9, CommitFacts DEF Owed
  <2>2. \A p \in Paths \ OpPaths : Owed(p) => Owed(p)'
    BY <1>9, CommitFacts DEF Owed, StagedInv
  <2> QED BY <1>9, <1>c, <2>1, <2>2, CommitFacts
<1>10. CASE CommitDelete
  <2>1. \A p \in OpPaths : Owed(p)'
    BY <1>10, CommitDeleteFacts DEF Owed
  <2>2. \A p \in Paths \ OpPaths : Owed(p) => Owed(p)'
    BY <1>10, CommitDeleteFacts DEF Owed, StagedInv
  <2>3. \A p \in OpPaths : disk'[p] \in {disk[p], Final(p)}
    BY <1>10, CommitDeleteFacts DEF Final
  <2> QED BY <1>10, <1>c, <2>1, <2>2, <2>3, CommitDeleteFacts
<1>11. ASSUME NEW early \in BOOLEAN, CommitFails(early) \/ CommitDeleteFails(early) PROVE PagesInv'
  <2>1. \A p \in OpPaths : Owed(p)'
    BY <1>11, FailsFacts DEF Owed
  <2>2. \A p \in Paths \ OpPaths : Owed(p) => Owed(p)'
    BY <1>11, FailsFacts DEF Owed
  <2>3. \A p \in OpPaths : disk'[p] \in {disk[p], Final(p)}
    BY <1>11, FailsFacts DEF Final
  <2> QED BY <1>11, <1>c, <2>1, <2>2, <2>3, FailsFacts
<1>12. ASSUME NEW lost \in [OpPaths -> SUBSET Calls], Index(lost) PROVE PagesInv'
  <2>1. /\ op.pc = "index" /\ op'.pc = "idle" /\ index' = Indexed(lost) /\ watch' = Resumes
        /\ hidden' = {p \in hidden \union {q \in OpPaths : Observes \/ lost[q] # {}} :
                         ~ Shows(index'[p], disk[p]) \/ head[p] # disk[p]}
        /\ UNCHANGED <<disk, head, log, untracked, pending, edited>>
    BY <1>12 DEF Index, IdleOp, records, git
  <2>2. /\ \A p \in OpPaths : lost[p] = {} => Shows(index'[p], Final(p))
        /\ \A p \in Paths \ OpPaths : index'[p] = index[p]
    <3>1. \A e, c : Shows(Reindexed(e, c, {}), c)
      BY DEF Shows, Found, Reindexed
    <3>2. \A p \in OpPaths : index'[p] = Reindexed(index[p], Final(p), lost[p])
      BY <1>t, <2>1 DEF Indexed
    <3> QED BY <2>1, <3>1, <3>2 DEF Indexed
  <2>3. \A p \in Paths : Due(p) => Due(p)'
    <3>1. CASE ~ Observes
      BY <1>u, <2>1, <3>1 DEF Resumes
    <3>2. CASE Observes
      <4>1. op.caller \in Flushers /\ watch[op.caller].pc = "locked"
        BY <2>1, <3>2 DEF OpShape, WatchShape
      <4>2. watch' = [watch EXCEPT ![op.caller] = [IdleFlush EXCEPT !.pc = "next", !.todo = watch[op.caller].todo]]
        BY <2>1, <3>2 DEF Resumes, GoesOn
      <4>3. /\ \A g \in Flushers \ {op.caller} : watch'[g] = watch[g]
            /\ watch'[op.caller].todo = watch[op.caller].todo
        BY <4>1, <4>2 DEF IdleFlush, Typed, Contents
      <4> QED BY <2>1, <4>1, <4>3 DEF Due, Notified
    <3> QED BY <3>1, <3>2
  <2>4. ASSUME NEW p \in Paths PROVE QuietAt(p)'
    <3> SUFFICES ASSUME p \notin hidden' PROVE Due(p)' \/ (Shows(index'[p], disk'[p]) /\ Owed(p)')
      BY DEF QuietAt
    <3>1. CASE p \in hidden \/ (p \in OpPaths /\ (Observes \/ lost[p] # {}))
      <4>1. Shows(index'[p], disk[p]) /\ head[p] = disk[p]
        BY <2>1, <3>1
      <4> QED BY <2>1, <4>1 DEF Owed
    <3>2. CASE p \notin hidden /\ p \in OpPaths /\ ~ Observes /\ lost[p] = {}
      <4>1. RequestAt(p)
        BY <2>1, <3>2 DEF PagesInv, Working
      <4>2. Due(p) \/ (disk[p] = Final(p) /\ Owed(p))
        BY <2>1, <3>2, <4>1 DEF RequestAt
      <4> QED BY <2>1, <2>2, <2>3, <3>2, <4>2 DEF Owed
    <3>3. CASE p \notin hidden /\ p \notin OpPaths
      <4>1. QuietAt(p)
        BY <3>3 DEF PagesInv, Working
      <4> QED BY <2>1, <2>2, <2>3, <3>3, <4>1 DEF QuietAt, Owed
    <3> QED BY <3>1, <3>2, <3>3
  <2> QED BY <2>1, <2>4 DEF PagesInv, Working
<1>13. ASSUME NEW f \in Flushers, FlushNext(f), ~ Lock(f) PROVE PagesInv'
  <2>1. op' = op /\ UNCHANGED <<disk, head, staged, index, log, untracked, edited>> /\ hidden \subseteq hidden'
    BY <1>13, FlushFacts
  <2>2. \A p \in Paths : Due(p) => Due(p)' \/ p \in hidden'
    BY <1>13, DueFacts
  <2>3. \A p \in Paths : (Owed(p)' <=> Owed(p)) /\ (Working(p)' <=> Working(p)) /\ Final(p)' = Final(p) /\ Observes' = Observes
    BY <2>1 DEF Owed, Working, OpPaths, Final, Observes
  <2>4. \A p \in Paths : QuietAt(p) => QuietAt(p)'
    BY <2>1, <2>2, <2>3 DEF QuietAt
  <2>5. \A p \in Paths : RequestAt(p) => RequestAt(p)'
    BY <2>1, <2>2, <2>3 DEF RequestAt
  <2> QED BY <2>3, <2>4, <2>5 DEF PagesInv
<1>14. ASSUME NEW f \in Flushers, FlushNext(f), Lock(f) PROVE PagesInv'
  <2>1. op.pc = "idle" /\ UNCHANGED <<disk, head, staged, index, log, untracked, edited, hidden>>
    BY <1>14, LockFacts, FlushFacts DEF Lock
  <2>2. Observes' /\ op'.path = watch[f].path /\ op'.pc = "commit" /\ watch[f].path \in Paths
    BY <1>14, LockFacts DEF Observes, WatchShape, Lock
  <2>3. \A p \in Paths : p # watch[f].path => (Due(p) => Due(p)') \/ p \in hidden'
    BY <1>14, DueFacts
  <2>4. ASSUME NEW p \in Paths, p = watch[f].path PROVE Working(p)'
    BY <2>2, <2>4 DEF Working, OpPaths
  <2>5. ASSUME NEW p \in Paths, p # watch[f].path PROVE QuietAt(p)'
    <3>1. QuietAt(p)
      BY <1>n, <2>1
    <3> QED BY <2>1, <2>3, <2>5, <3>1 DEF QuietAt, Owed
  <2>6. \A p \in Paths : IF Working(p)' THEN TRUE ELSE QuietAt(p)'
    BY <2>4, <2>5
  <2> QED BY <2>2, <2>6 DEF PagesInv
<1>15. CASE UNCHANGED vars
  BY <1>1, <1>15 DEF vars
<1> QED BY <1>3, <1>4, <1>5, <1>6, <1>7, <1>8, <1>9, <1>10, <1>11, <1>12, <1>13, <1>14, <1>15 DEF Next, OperationNext

(* At first every page is committed and indexed.                           *)
LEMMA InitInv == Init => Inv
<1> SUFFICES ASSUME Init PROVE Inv
  OBVIOUS
<1>1. 0 \in Nat /\ 0 \in 0 .. MaxStamps /\ <<0>> \in Upto(0) /\ Absent \in Upto(0)
  BY PipelineAssumption, UptoFacts
<1>2. IdleOp \in Ops(0) /\ IdleOp.pc = "idle" /\ IdleFlush \in Flushes(0) /\ NoEntry \in [fresh : BOOLEAN, etag : Upto(0)]
  BY <1>1, IdleFacts
<1>3. Contents(0)
  <2>1. Initially(<<0>>) \in Entries(0)
    BY <1>1 DEF Entries, Initially, Tables
  <2> QED BY <1>1, <1>2, <2>1 DEF Init, Contents
<1>4. Typed
  BY <1>1, <1>3, PipelineAssumption DEF Init, Typed, PathSets, Counts
<1>5. OpShape /\ Guarded /\ WatchShape
  BY <1>2 DEF Init, OpShape, Guarded, WatchShape, IdleFlush
<1>6. StagedInv /\ PagesInv
  <2>1. Shows(Initially(<<0>>), <<0>>)
    BY DEF Shows, Found, Initially
  <2> QED BY <1>2, <2>1 DEF Init, StagedInv, PagesInv, Working, QuietAt, Owed
<1> QED BY <1>4, <1>5, <1>6 DEF Inv

(* Every step keeps the invariant.                                         *)
LEMMA StepInv == Inv /\ [Next]_vars => Inv'
<1> SUFFICES ASSUME Inv, [Next]_vars PROVE Inv'
  OBVIOUS
<1>1. Typed /\ OpShape /\ WatchShape /\ Guarded /\ StagedInv /\ PagesInv
  BY DEF Inv
<1>2. Typed' /\ OpShape' /\ WatchShape' /\ Guarded' /\ StagedInv'
  BY <1>1, StepTyped, StepOpShape, StepWatchShape, StepGuarded, StepStaged
<1>3. PagesInv'
  BY <1>1, <1>2, StepPages
<1> QED BY <1>2, <1>3 DEF Inv

(* The invariant holds in every state.                                     *)
LEMMA Invariance == Spec => []Inv
BY InitInv, StepInv, PTL DEF Spec

-----------------------------------------------------------------------------
(* Theorems.                                                               *)

(* Every variable stays in its type, no page gets longer than the stamps   *)
(* allow, and a flush waits for an observation exactly while one of its    *)
(* own holds the lock, for any pages, clients, flushes and bounds.         *)
THEOREM TypeCorrect == Spec => []TypeOK
<1>1. Inv => TypeOK
  <2> SUFFICES ASSUME Inv PROVE TypeOK
    OBVIOUS
  <2>1. Contents(stamp) /\ PathSets /\ Counts /\ WatchShape
    BY DEF Inv, Typed
  <2>2. Upto(stamp) \subseteq Pages
    BY <2>1, UptoIsPages DEF Counts
  <2>3. {disk, head, staged} \subseteq [Paths -> Pages]
        /\ index \in [Paths -> Tables(Pages)]
    <3>1. Entries(stamp) \subseteq Tables(Pages)
      BY <2>2 DEF Entries, Tables
    <3> QED BY <2>1, <2>2, <3>1 DEF Contents
  <2>4. inflight \in [Paths -> [fresh : BOOLEAN, etag : Pages]]
    BY <2>1, <2>2 DEF Contents
  <2>5. view \in [Clients -> [path : Paths, content : Pages]]
    BY <2>1, <2>2 DEF Contents
  <2>6. UNION {log, dropping, pending, edited, hidden, untracked} \subseteq Paths
    BY <2>1 DEF PathSets
  <2> QED BY <2>1, <2>3, <2>4, <2>5, <2>6 DEF TypeOK, Counts, WatchShape
<1> QED BY <1>1, Invariance, PTL

(* Once no request and no event is left, search lists exactly the pages on *)
(* disk and finds each by its words, and links and metadata are its own,   *)
(* but for pages observed too late, taken for an echo, not removed or not  *)
(* indexed for an error.                                                   *)
THEOREM IndexAgreesHolds == Spec => []IndexAgrees
<1>1. Inv => IndexAgrees
  <2> SUFFICES ASSUME Inv, Settled, NEW p \in Paths \ hidden PROVE Shows(index[p], disk[p])
    BY DEF IndexAgrees
  <2>1. WatchShape /\ PagesInv /\ op.pc = "idle" /\ pending = {} /\ \A f \in Flushers : watch[f].pc = "idle"
    BY DEF Inv, Settled
  <2>2. ~ Due(p) /\ ~ Working(p)
    BY <2>1 DEF Due, Notified, Working, WatchShape
  <2> QED BY <2>1, <2>2 DEF PagesInv, QuietAt
<1> QED BY <1>1, Invariance, PTL

(* And git's last commit holds it too, or the path is in the uncommitted   *)
(* log, but for the same pages and deletes whose commit failed.            *)
THEOREM CommittedOrOwedHolds == Spec => []CommittedOrOwed
<1>1. Inv => CommittedOrOwed
  <2> SUFFICES ASSUME Inv, Settled, NEW p \in Paths \ (hidden \union untracked) PROVE head[p] = disk[p] \/ p \in log
    BY DEF CommittedOrOwed
  <2>1. WatchShape /\ PagesInv /\ op.pc = "idle" /\ pending = {} /\ \A f \in Flushers : watch[f].pc = "idle"
    BY DEF Inv, Settled
  <2>2. ~ Due(p) /\ ~ Working(p)
    BY <2>1 DEF Due, Notified, Working, WatchShape
  <2> QED BY <2>1, <2>2 DEF PagesInv, QuietAt, Owed
<1> QED BY <1>1, Invariance, PTL

(* A write with If-Match, and an append, replaces what its caller was      *)
(* shown or nothing, unless an editor changed the page in between.         *)
THEOREM NoUpdateLost == Spec => NoLostUpdate
<1>1. Inv /\ [Next]_vars =>
        [(op.guarded /\ op.pc = "store" /\ op'.pc = "commit" /\ op.path \notin edited)
           => disk[op.path] \in {Absent, op.base}]_vars
  BY DEF Inv, Guarded
<1> QED BY <1>1, Invariance, PTL DEF Spec, NoLostUpdate
=============================================================================
