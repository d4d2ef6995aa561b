--------------------------- MODULE AsyncGitProofs ---------------------------
(***************************************************************************)
(* Proofs about AsyncGit, for any set of paths and actors, any channel     *)
(* capacity and batch limit, and any number of writes, failed commits and  *)
(* process ends.                                                           *)
(***************************************************************************)
EXTENDS AsyncGit, SequenceTheorems, TLAPS

(* A request names one or two paths.                                       *)
LEMMA RequestPaths ==
  ASSUME NEW r \in Request \union {NoRequest}
  PROVE  /\ r.paths \in Seq(Paths)
         /\ SetOf(r.paths) \subseteq Paths
         /\ Entries(r) \in Seq([path : Paths, actor : {r.actor}])
<1>1. r.paths \in Seq(Paths)
  <2>1. CASE r = NoRequest
    BY <2>1 DEF NoRequest
  <2>2. CASE r \in Request
    <3>1. r.paths \in PathLists
      BY <2>2 DEF Request
    <3>2. CASE \E p \in Paths : r.paths = <<p>>
      BY <3>2
    <3>3. CASE r.paths \in Paths \X Paths
      <4>1. PICK p \in Paths, q \in Paths : r.paths = <<p, q>>
        BY <3>3
      <4> QED BY <4>1
    <3> QED BY <3>1, <3>2, <3>3 DEF PathLists
  <2> QED BY <2>1, <2>2
<1>2. SetOf(r.paths) \subseteq Paths
  BY <1>1 DEF SetOf
<1>3. Entries(r) \in Seq([path : Paths, actor : {r.actor}])
  <2> DEFINE n == Len(r.paths)
  <2>1. n \in Nat /\ DOMAIN r.paths = 1..n /\ \A i \in 1..n : r.paths[i] \in Paths
    BY <1>1
  <2>2. Entries(r) \in [1..n -> [path : Paths, actor : {r.actor}]]
    BY <2>1 DEF Entries
  <2> HIDE DEF n
  <2>3. \E m \in Nat : Entries(r) \in [1..m -> [path : Paths, actor : {r.actor}]]
    BY <2>1, <2>2, Zenon
  <2> DEFINE E == [path : Paths, actor : {r.actor}]
             e == Entries(r)
  <2> HIDE DEF E, e
  <2>4. e \in UNION {[1..m -> E] : m \in Nat}
    BY <2>3 DEF E, e
  <2>5. e \in Seq(E)
    BY <2>4, SeqDef, Zenon
  <2> QED BY <2>5 DEF E, e
<1> QED BY <1>1, <1>2, <1>3

(* The fields of a request, or of its absence, stay in their types.         *)
LEMMA RequestFields ==
  ASSUME NEW r \in Request \union {NoRequest}
  PROVE  r.actor \in Actors /\ r.sync \in BOOLEAN
<1>1. CASE r \in Request
  BY <1>1 DEF Request
<1>2. CASE r = NoRequest
  BY <1>2, ConstantsAssumption DEF ConstantsAssumption, NoRequest
<1> QED BY <1>1, <1>2

(* Where the caller and the loop start, and return to, are states of theirs. *)
LEMMA StartStates ==
  /\ IdleCall \in CallState
  /\ FreshLoop \in LoopState
  /\ loop \in LoopState => Home \in LoopState
<1>1. NoRequest \in Request \union {NoRequest}
  OBVIOUS
<1>2. IdleCall \in CallState
  BY DEF CallState
<1>3. FreshLoop \in LoopState
  BY <1>1 DEF FreshLoop, LoopState
<1>4. ASSUME loop \in LoopState PROVE Home \in LoopState
  BY <1>1, <1>3, <1>4 DEF Home, LoopState
<1> QED BY <1>2, <1>3, <1>4

(* A call that is under way carries a request, and stays one when it moves *)
(* to its next step.                                                       *)
LEMMA CallUnderWay ==
  ASSUME call \in CallState, call.pc # "idle"
  PROVE  /\ call \in ActiveCall
         /\ call.req \in Request
         /\ call.undo \in [Paths -> Nat]
         /\ \A x \in {"journal", "send", "wait", "rollback"} :
              [call EXCEPT !.pc = x] \in CallState
<1>1. IdleCall.pc = "idle"
  BY DEF IdleCall
<1>2. call \in ActiveCall
  BY <1>1 DEF CallState
<1>3. \A x \in {"journal", "send", "wait", "rollback"} : [call EXCEPT !.pc = x] \in ActiveCall
  BY <1>2 DEF ActiveCall
<1> QED BY <1>2, <1>3 DEF CallState, ActiveCall

(* The variables stay in their types.                                      *)
THEOREM TypeCorrect == Spec => []TypeOK
<1>1. Init => TypeOK
  <2> SUFFICES ASSUME Init PROVE TypeOK
    OBVIOUS
  <2>1. queue \in Seq(Request) /\ Len(queue) <= QueueCap /\ batch \in Seq(Entry)
    BY EmptySeq, ConstantsAssumption DEF ConstantsAssumption, Init
  <2>2. loop \in LoopState /\ call \in CallState
    BY StartStates DEF Init
  <2>3. drain \in [todo : SUBSET Paths, done : BOOLEAN]
    BY DEF Init
  <2>4. clock \in 0..MaxWrites /\ batchActor \in Actors /\ fails \in Nat /\ ends \in Nat
    BY ConstantsAssumption DEF ConstantsAssumption, Init
  <2>5. disk \in [Paths -> Nat] /\ head \in [Paths -> Nat] /\ acked \in [Paths -> Nat]
    BY DEF Init
  <2> QED
    BY <2>1, <2>2, <2>3, <2>4, <2>5 DEF Init, TypeOK
<1>2. TypeOK /\ [Next]_vars => TypeOK'
  <2> SUFFICES ASSUME TypeOK, [Next]_vars PROVE TypeOK'
    OBVIOUS
  <2>1. ASSUME NEW a \in Actors, NEW ps \in PathLists, NEW sync \in BOOLEAN,
              Change(a, ps, sync)
       PROVE  TypeOK'
    <3>1. clock + 1 \in 0..MaxWrites
      BY <2>1, ConstantsAssumption DEF ConstantsAssumption, TypeOK, Change
    <3>2. disk' \in [Paths -> Nat]
      BY <2>1, <3>1 DEF TypeOK, Change
    <3>3. [paths |-> ps, actor |-> a, sync |-> sync, done |-> IF sync THEN clock + 1 ELSE 0] \in Request
      BY <3>1 DEF Request
    <3>4. call' \in CallState
      <4>1. call'.pc \in {"journal", "send", "wait", "rollback"} /\ call'.req \in Request
        BY <2>1, <3>3 DEF Change
      <4>2. call'.undo \in [Paths -> Nat]
        BY <2>1 DEF Change, TypeOK, IdleCall
      <4> QED
        BY <2>1, <4>1, <4>2 DEF Change, ActiveCall, CallState
    <3> QED
      BY <2>1, <3>1, <3>2, <3>4 DEF TypeOK, Change, life, ghost, mem
  <2>2. CASE JournalPaths
    BY <2>2, CallUnderWay, RequestPaths DEF TypeOK, JournalPaths, files, life, ghost, mem
  <2>3. CASE Send
    <3>1. queue' \in Seq(Request) /\ Len(queue') <= QueueCap
      <4>1. call.req \in Request
        BY <2>3, CallUnderWay DEF TypeOK, Send
      <4> QED
        BY <2>3, <4>1, AppendProperties, ConstantsAssumption
        DEF ConstantsAssumption, TypeOK, Send, HasRoom
    <3>2. call' \in CallState
      BY <2>3, StartStates, CallUnderWay DEF TypeOK, Send
    <3>3. acked' \in [Paths -> Nat] /\ lost' \subseteq Paths
      BY <2>3, CallUnderWay, RequestPaths DEF TypeOK, Send, Acknowledge, ghost
    <3> QED
      BY <2>3, <3>1, <3>2, <3>3 DEF TypeOK, Send, files, life
  <2>4. CASE SendAfterStop
    <3>1. call' \in CallState
      BY <2>4, StartStates, CallUnderWay DEF TypeOK, SendAfterStop
    <3>2. acked' \in [Paths -> Nat] /\ lost' \subseteq Paths
      BY <2>4, CallUnderWay, RequestPaths DEF TypeOK, SendAfterStop, Acknowledge, ghost
    <3> QED
      BY <2>4, <3>1, <3>2 DEF TypeOK, SendAfterStop, files, life, mem
  <2>5. CASE Rollback
    <3>1. disk' \in [Paths -> Nat]
      BY <2>5, CallUnderWay DEF TypeOK, Rollback
    <3> QED
      BY <2>5, <3>1, StartStates DEF TypeOK, Rollback, life, ghost, mem
  <2>6. CASE Dequeue
    <3>1. Head(queue) \in Request /\ Tail(queue) \in Seq(Request) /\ Len(Tail(queue)) <= QueueCap
      BY <2>6, HeadTailProperties, LenProperties, ConstantsAssumption
      DEF ConstantsAssumption, TypeOK, Dequeue
    <3>2. Head(queue).sync \in BOOLEAN /\ FlushFirst(Head(queue)) \in BOOLEAN
      BY <3>1 DEF Request, FlushFirst
    <3>3. loop' \in LoopState /\ timer' \in BOOLEAN
      BY <2>6, <3>1, <3>2 DEF TypeOK, Dequeue, LoopState
    <3> QED
      BY <2>6, <3>1, <3>3 DEF TypeOK, Dequeue, files, life, ghost
  <2>7. CASE TimerFires
    BY <2>7 DEF TypeOK, TimerFires, LoopState, files, life, ghost, mem
  <2>8. CASE FlushNothing
    BY <2>8 DEF TypeOK, FlushNothing, LoopState, files, life, ghost, mem
  <2>9. CASE FlushCommits
    <3>1. head' \in [Paths -> Nat]
      BY <2>9 DEF TypeOK, FlushCommits, Record
    <3> QED
      BY <2>9, <3>1 DEF TypeOK, FlushCommits, LoopState, files, life, ghost
  <2>10. CASE FlushFails
    <3>1. loop' \in LoopState
      BY <2>10 DEF TypeOK, FlushFails, LoopState
    <3> QED
      BY <2>10, <3>1 DEF TypeOK, FlushFails, files, life, ghost
  <2>11. CASE ClearJournal
    BY <2>11, EmptySeq DEF TypeOK, ClearJournal, LoopState, files, life, ghost, mem
  <2>12. CASE AppendReq
    <3>1. batch' \in Seq(Entry)
      <4>1. Entries(loop.req) \in Seq([path : Paths, actor : {loop.req.actor}])
        BY RequestPaths DEF TypeOK, LoopState
      <4>2. [path : Paths, actor : {loop.req.actor}] \subseteq Entry
        BY RequestFields DEF TypeOK, LoopState, Entry
      <4>3. Entries(loop.req) \in Seq(Entry)
        BY <4>1, <4>2, SeqMonotonic
      <4> QED
        BY <2>12, <4>3, ConcatProperties DEF TypeOK, AppendReq
    <3>2. batchActor' \in Actors
      BY <2>12, RequestFields DEF TypeOK, AppendReq, LoopState
    <3>3. loop' \in LoopState
      BY <2>12, StartStates DEF TypeOK, AppendReq, LoopState
    <3>4. timer' \in BOOLEAN
      BY <2>12 DEF TypeOK, AppendReq, ArmTimer
    <3> QED
      BY <2>12, <3>1, <3>2, <3>3, <3>4 DEF TypeOK, AppendReq, files, life, ghost
  <2>13. CASE CommitNow
    <3>1. head' \in [Paths -> Nat]
      BY <2>13 DEF TypeOK, CommitNow, Record
    <3> QED
      BY <2>13, <3>1, StartStates DEF TypeOK, CommitNow, files, life, ghost
  <2>14. CASE CommitNowFails
    <3>1. call' \in CallState
      BY <2>14, CallUnderWay DEF TypeOK, CommitNowFails, Heard
    <3> QED
      BY <2>14, <3>1, StartStates DEF TypeOK, CommitNowFails, files, life, ghost
  <2>15. CASE StopSeen
    BY <2>15 DEF TypeOK, StopSeen, LoopState, files, life, ghost, mem
  <2>16. CASE ChannelDrained
    BY <2>16 DEF TypeOK, ChannelDrained, LoopState, files, life, ghost, mem
  <2>17. CASE Close
    BY <2>17 DEF TypeOK, Close, files, life, ghost, mem
  <2>18. CASE ProcessEnds
    <3>1. disk' \in [Paths -> Nat]
      <4>1. CASE call.req.sync
        <5>1. call.pc # "idle"
          BY <4>1 DEF TypeOK, CallState, ActiveCall, IdleCall, NoRequest
        <5> QED BY <2>18, <5>1, CallUnderWay DEF TypeOK, ProcessEnds, Undone
      <4>2. CASE ~call.req.sync
        BY <2>18, <4>2 DEF TypeOK, ProcessEnds, Undone
      <4> QED BY <4>1, <4>2
    <3>2. queue' \in Seq(Request) /\ Len(queue') <= QueueCap /\ batch' \in Seq(Entry)
      BY <2>18, EmptySeq, ConstantsAssumption DEF ConstantsAssumption, ProcessEnds
    <3>3. batchActor' \in Actors
      BY <2>18, ConstantsAssumption DEF ConstantsAssumption, ProcessEnds
    <3>4. loop' \in LoopState /\ call' \in CallState
      BY <2>18, StartStates DEF ProcessEnds
    <3>5. drain' \in [todo : SUBSET Paths, done : BOOLEAN] /\ ends' \in Nat /\ lost' \subseteq Paths
      BY <2>18 DEF TypeOK, ProcessEnds
    <3> QED
      BY <2>18, <3>1, <3>2, <3>3, <3>4, <3>5 DEF TypeOK, ProcessEnds
  <2>19. CASE Restart
    BY <2>19 DEF TypeOK, Restart, files, life, ghost, mem
  <2>20. ASSUME NEW p \in Paths, DrainCommit(p) PROVE TypeOK'
    <3>1. [paths |-> <<p>>, actor |-> DefaultActor, sync |-> FALSE, done |-> 0] \in Request
      BY <2>20, ConstantsAssumption DEF ConstantsAssumption, Request, PathLists
    <3>2. call' \in CallState
      BY <2>20, <3>1, StartStates DEF DrainCommit, ActiveCall, CallState, IdleCall
    <3> QED
      BY <2>20, <3>2 DEF TypeOK, DrainCommit, files, life, ghost, mem
  <2>21. CASE DrainRemovesLog
    BY <2>21 DEF TypeOK, DrainRemovesLog, files, life, ghost, mem
  <2>22. CASE UNCHANGED vars
    BY <2>22 DEF TypeOK, vars
  <2>23. CASE Cancel
    <3>1. call' \in CallState
      BY <2>23, CallUnderWay DEF TypeOK, Cancel
    <3> QED
      BY <2>23, <3>1 DEF TypeOK, Cancel, files, life, ghost, mem
  <2> QED
    BY <2>1, <2>2, <2>3, <2>4, <2>5, <2>6, <2>7, <2>8, <2>9, <2>10, <2>11,
       <2>12, <2>13, <2>14, <2>15, <2>16, <2>17, <2>18, <2>19, <2>20, <2>21, <2>22, <2>23
    DEF Next, Caller, Loop, Drain
<1> QED BY <1>1, <1>2, PTL DEF Spec

(* Neither an idle caller nor an idle loop holds a request.                *)
LEMMA NothingRequested ==
  /\ NoRequest.sync = FALSE /\ SetOf(NoRequest.paths) = {}
  /\ IdleCall.pc = "idle" /\ IdleCall.req = NoRequest
  /\ FreshLoop.pc = "select" /\ FreshLoop.next = "select"
  /\ FreshLoop.req = NoRequest /\ FreshLoop.closing = FALSE
BY DEF NoRequest, SetOf, IdleCall, FreshLoop

(* What AppendReq does to the batch.                                       *)
LEMMA AppendedPaths ==
  ASSUME batch \in Seq(Entry), loop.req \in Request \union {NoRequest},
         batch' = batch \o Entries(loop.req)
  PROVE  /\ \A p \in BatchPaths \union SetOf(loop.req.paths) : p \in BatchPaths'
         /\ (\A i \in DOMAIN batch : batch[i].actor = loop.req.actor)
              => \A i \in DOMAIN batch' : batch'[i].actor = loop.req.actor
<1> DEFINE more == Entries(loop.req)
           n == Len(batch)
<1>1. more \in Seq(Entry) /\ \A i \in DOMAIN more : more[i].actor = loop.req.actor
  <2>1. Entries(loop.req) \in Seq([path : Paths, actor : {loop.req.actor}])
    BY RequestPaths
  <2>2. [path : Paths, actor : {loop.req.actor}] \subseteq Entry
    BY RequestFields DEF Entry
  <2>3. more \in Seq(Entry)
    BY <2>1, <2>2, SeqMonotonic
  <2> QED BY <2>3 DEF Entries
<1>2. DOMAIN more = DOMAIN loop.req.paths /\ \A i \in DOMAIN more : more[i].path = loop.req.paths[i]
  BY DEF Entries
<1> HIDE DEF more
<1>3. /\ n \in Nat /\ Len(more) \in Nat
      /\ DOMAIN batch = 1..n /\ DOMAIN more = 1..Len(more)
      /\ DOMAIN batch' = 1..(n + Len(more))
      /\ \A i \in 1..(n + Len(more)) : batch'[i] = IF i <= n THEN batch[i] ELSE more[i - n]
  BY <1>1, ConcatProperties, LenProperties DEF more
<1> HIDE DEF n
<1>4. ASSUME NEW p \in BatchPaths PROVE p \in BatchPaths'
  <2>1. PICK i \in 1..n : p = batch[i].path
    BY <1>3, <1>4 DEF BatchPaths
  <2>2. i \in DOMAIN batch' /\ batch'[i] = batch[i]
    BY <1>3, <2>1
  <2> QED BY <2>1, <2>2 DEF BatchPaths
<1>5. ASSUME NEW p \in SetOf(loop.req.paths) PROVE p \in BatchPaths'
  <2>1. PICK i \in 1..Len(more) : p = more[i].path
    BY <1>2, <1>3, <1>5 DEF SetOf
  <2>2. n + i \in DOMAIN batch' /\ batch'[n + i] = more[i]
    BY <1>3, <2>1
  <2> QED BY <2>1, <2>2 DEF BatchPaths
<1>6. ASSUME \A i \in DOMAIN batch : batch[i].actor = loop.req.actor, NEW i \in DOMAIN batch'
      PROVE  batch'[i].actor = loop.req.actor
  <2>1. CASE i <= n
    BY <1>3, <1>6, <2>1
  <2>2. CASE i > n
    <3>1. i - n \in DOMAIN more /\ batch'[i] = more[i - n]
      BY <1>3, <1>6, <2>2
    <3> QED BY <1>1, <3>1
  <2> QED BY <1>3, <2>1, <2>2
<1> QED BY <1>4, <1>5, <1>6

(* Every step of a caller, of the loop and of the process keeps the         *)
(* inductive invariant.                                                     *)
THEOREM Inductive == TypeOK /\ TypeOK' /\ IInv /\ [Next]_vars => IInv'
<1> SUFFICES ASSUME TypeOK, TypeOK', IInv, [Next]_vars PROVE IInv'
  OBVIOUS
<1> USE NothingRequested
<1>1. ASSUME NEW a \in Actors, NEW ps \in PathLists, NEW sync \in BOOLEAN,
            Change(a, ps, sync)
     PROVE  IInv'
  <2>1. LoopInv'
    BY <1>1 DEF TypeOK, IInv, Change, LoopInv, HeadedFor, Leaving, files, life, ghost, mem
  <2>2. DrainInv'
    BY <1>1 DEF TypeOK, IInv, Change, DrainInv, files, life, ghost, mem
  <2>3. DownInv'
    BY <1>1 DEF TypeOK, IInv, Change, DownInv, files, life, ghost, mem
  <2>4. StampInv'
    BY <1>1 DEF TypeOK, IInv, Change, StampInv, files, life, ghost, mem
  <2>5. LateInv'
    BY <1>1 DEF TypeOK, IInv, Change, LateInv, LoopInv, Leaving, HeadedFor, DrainInv, files, life, ghost, mem
  <2>6. CarryInv'
    BY <1>1 DEF TypeOK, IInv, Change, CarryInv, Carries, BatchPaths, LoopInv, Leaving, HeadedFor, DrainInv, files, life, ghost, mem
  <2>7. AuthorInv'
    BY <1>1 DEF TypeOK, IInv, Change, AuthorInv, LoopInv, Leaving, HeadedFor, DrainInv, files, life, ghost, mem
  <2> QED BY <2>1, <2>2, <2>3, <2>4, <2>5, <2>6, <2>7 DEF IInv
<1>2. CASE JournalPaths
  <2>1. LoopInv'
    BY <1>2 DEF TypeOK, IInv, JournalPaths, LoopInv, HeadedFor, Leaving, files, life, ghost, mem
  <2>2. DrainInv'
    BY <1>2 DEF TypeOK, IInv, JournalPaths, DrainInv, files, life, ghost, mem
  <2>3. DownInv'
    BY <1>2 DEF TypeOK, IInv, JournalPaths, DownInv, files, life, ghost, mem
  <2>4. StampInv'
    BY <1>2 DEF TypeOK, IInv, JournalPaths, StampInv, files, life, ghost, mem
  <2>5. LateInv'
    BY <1>2 DEF TypeOK, IInv, JournalPaths, LateInv, LoopInv, Leaving, HeadedFor, DrainInv, files, life, ghost, mem
  <2>6. CarryInv'
    BY <1>2 DEF TypeOK, IInv, JournalPaths, CarryInv, Carries, BatchPaths, LoopInv, Leaving, HeadedFor, DrainInv, files, life, ghost, mem
  <2>7. AuthorInv'
    BY <1>2 DEF TypeOK, IInv, JournalPaths, AuthorInv, LoopInv, Leaving, HeadedFor, DrainInv, files, life, ghost, mem
  <2> QED BY <2>1, <2>2, <2>3, <2>4, <2>5, <2>6, <2>7 DEF IInv
<1>3. CASE Send
  <2>1. LoopInv'
    BY <1>3 DEF TypeOK, IInv, Send, HasRoom, Acknowledge, LoopInv, HeadedFor, Leaving, files, life, ghost, mem
  <2>2. DrainInv'
    BY <1>3 DEF TypeOK, IInv, Send, HasRoom, Acknowledge, DrainInv, files, life, ghost, mem
  <2>3. DownInv'
    BY <1>3 DEF TypeOK, IInv, Send, HasRoom, Acknowledge, DownInv, files, life, ghost, mem
  <2>4. StampInv'
    <3>1. \A p \in Paths : acked'[p] <= disk'[p] /\ disk'[p] <= clock'
      <4> SUFFICES ASSUME NEW p \in Paths PROVE acked'[p] <= disk'[p] /\ disk'[p] <= clock'
        OBVIOUS
      <4>1. disk' = disk /\ clock' = clock /\ disk[p] \in Nat /\ acked[p] <= disk[p] /\ disk[p] <= clock
        BY <1>3 DEF Send, files, TypeOK, IInv, StampInv
      <4>2. acked'[p] = acked[p] \/ acked'[p] = disk[p]
        BY <1>3 DEF Send, Acknowledge, ghost
      <4> QED BY <4>1, <4>2
    <3>2. call'.pc \in {"wait", "rollback"} => call'.req.sync
      BY <1>3, CallUnderWay DEF Send, TypeOK, ActiveCall
    <3>3. call'.req.sync => \A p \in Paths : acked'[p] <= call'.undo[p] /\ call'.undo[p] <= clock'
      <4>1. CASE call.req.sync
        <5>1. acked' = acked /\ call'.undo = call.undo /\ clock' = clock
          BY <1>3, <4>1, CallUnderWay DEF Send, TypeOK, ActiveCall, ghost, files
        <5> QED BY <4>1, <5>1 DEF IInv, StampInv
      <4>2. CASE ~call.req.sync
        BY <1>3, <4>2 DEF Send
      <4> QED BY <4>1, <4>2
    <3> QED BY <3>1, <3>2, <3>3 DEF StampInv
  <2>5. LateInv'
    BY <1>3 DEF TypeOK, IInv, Send, HasRoom, Acknowledge, LateInv, LoopInv, Leaving, HeadedFor, DrainInv, files, life, ghost, mem
  <2>6. CarryInv'
    <3> SUFFICES ASSUME up', NEW q \in Paths \ lost', acked'[q] > head'[q]
                 PROVE  IF loop'.pc = "exited" THEN fails' > 0 ELSE Carries(q)'
      BY DEF CarryInv
    <3>1. call.req \in Request /\ queue \in Seq(Request) /\ up' = up /\ head' = head
      BY <1>3, CallUnderWay DEF Send, TypeOK, life
    <3>2. Len(queue) + 1 \in DOMAIN queue' /\ queue'[Len(queue) + 1] = call.req
      BY <1>3, <3>1, AppendProperties DEF Send
    <3>3. \A i \in DOMAIN queue : i \in DOMAIN queue' /\ queue'[i] = queue[i]
      BY <1>3, <3>1, AppendProperties DEF Send
    <3>4. CASE ~call.req.sync /\ q \in SetOf(call.req.paths)
      <4>1. ~stopped /\ ~loop.closing
        BY <1>3, <3>4 DEF Send, Acknowledge, IInv, LoopInv
      <4>2. loop'.pc # "exited"
        BY <1>3, <4>1 DEF Send, IInv, LoopInv, Leaving
      <4> QED
        BY <3>2, <3>4, <4>2 DEF Carries
    <3>5. CASE call.req.sync \/ q \notin SetOf(call.req.paths)
      <4>1. acked'[q] = acked[q] /\ q \notin lost
        BY <1>3, <3>5 DEF Send, Acknowledge, ghost
      <4>2. IF loop.pc = "exited" THEN fails > 0 ELSE Carries(q)
        BY <3>1, <4>1 DEF IInv, CarryInv
      <4>3. ~drain.done /\ q \in SetOf(call.req.paths) => FALSE
        BY <3>5 DEF IInv, DrainInv
      <4> QED
        BY <1>3, <3>3, <4>2, <4>3 DEF Send, Carries, BatchPaths
    <3> QED BY <3>4, <3>5
  <2>7. AuthorInv'
    BY <1>3 DEF TypeOK, IInv, Send, HasRoom, Acknowledge, AuthorInv, LoopInv, Leaving, HeadedFor, DrainInv, files, life, ghost, mem
  <2> QED BY <2>1, <2>2, <2>3, <2>4, <2>5, <2>6, <2>7 DEF IInv
<1>4. CASE SendAfterStop
  <2>1. LoopInv'
    BY <1>4 DEF TypeOK, IInv, SendAfterStop, Acknowledge, LoopInv, HeadedFor, Leaving, files, life, ghost, mem
  <2>2. DrainInv'
    BY <1>4 DEF TypeOK, IInv, SendAfterStop, Acknowledge, DrainInv, files, life, ghost, mem
  <2>3. DownInv'
    BY <1>4 DEF TypeOK, IInv, SendAfterStop, Acknowledge, DownInv, files, life, ghost, mem
  <2>4. StampInv'
    <3>1. \A p \in Paths : acked'[p] <= disk'[p] /\ disk'[p] <= clock'
      <4> SUFFICES ASSUME NEW p \in Paths PROVE acked'[p] <= disk'[p] /\ disk'[p] <= clock'
        OBVIOUS
      <4>1. disk' = disk /\ clock' = clock /\ disk[p] \in Nat /\ acked[p] <= disk[p] /\ disk[p] <= clock
        BY <1>4 DEF SendAfterStop, files, TypeOK, IInv, StampInv
      <4>2. acked'[p] = acked[p] \/ acked'[p] = disk[p]
        BY <1>4 DEF SendAfterStop, Acknowledge, ghost
      <4> QED BY <4>1, <4>2
    <3>2. call'.pc \in {"wait", "rollback"} => call'.req.sync
      BY <1>4, CallUnderWay DEF SendAfterStop, TypeOK, ActiveCall
    <3>3. call'.req.sync => \A p \in Paths : acked'[p] <= call'.undo[p] /\ call'.undo[p] <= clock'
      <4>1. CASE call.req.sync
        <5>1. acked' = acked /\ call'.undo = call.undo /\ clock' = clock
          BY <1>4, <4>1, CallUnderWay DEF SendAfterStop, TypeOK, ActiveCall, ghost, files
        <5> QED BY <4>1, <5>1 DEF IInv, StampInv
      <4>2. CASE ~call.req.sync
        BY <1>4, <4>2 DEF SendAfterStop
      <4> QED BY <4>1, <4>2
    <3> QED BY <3>1, <3>2, <3>3 DEF StampInv
  <2>5. LateInv'
    BY <1>4 DEF TypeOK, IInv, SendAfterStop, Acknowledge, LateInv, LoopInv, Leaving, HeadedFor, DrainInv, files, life, ghost, mem
  <2>6. CarryInv'
    BY <1>4 DEF TypeOK, IInv, SendAfterStop, Acknowledge, CarryInv, Carries, BatchPaths, LoopInv, Leaving, HeadedFor, DrainInv, files, life, ghost, mem
  <2>7. AuthorInv'
    BY <1>4 DEF TypeOK, IInv, SendAfterStop, Acknowledge, AuthorInv, LoopInv, Leaving, HeadedFor, DrainInv, files, life, ghost, mem
  <2> QED BY <2>1, <2>2, <2>3, <2>4, <2>5, <2>6, <2>7 DEF IInv
<1>5. CASE Rollback
  <2>1. LoopInv'
    BY <1>5 DEF TypeOK, IInv, Rollback, LoopInv, HeadedFor, Leaving, files, life, ghost, mem
  <2>2. DrainInv'
    BY <1>5 DEF TypeOK, IInv, Rollback, DrainInv, files, life, ghost, mem
  <2>3. DownInv'
    BY <1>5 DEF TypeOK, IInv, Rollback, DownInv, files, life, ghost, mem
  <2>4. StampInv'
    BY <1>5 DEF TypeOK, IInv, Rollback, StampInv, files, life, ghost, mem
  <2>5. LateInv'
    BY <1>5 DEF TypeOK, IInv, Rollback, LateInv, LoopInv, Leaving, HeadedFor, DrainInv, files, life, ghost, mem
  <2>6. CarryInv'
    <3> SUFFICES ASSUME up', NEW q \in Paths \ lost', acked'[q] > head'[q]
                 PROVE  IF loop'.pc = "exited" THEN fails' > 0 ELSE Carries(q)'
      BY DEF CarryInv
    <3>1. up /\ q \in Paths \ lost /\ acked[q] > head[q]
      BY <1>5 DEF Rollback, files, life, ghost, mem
    <3>2. IF loop.pc = "exited" THEN fails > 0 ELSE Carries(q)
      BY <3>1 DEF IInv, CarryInv
    <3>3. drain.done
      BY <1>5 DEF IInv, StampInv, DrainInv, Rollback
    <3> QED
      BY <1>5, <3>2, <3>3 DEF Rollback, Carries, BatchPaths, mem
  <2>7. AuthorInv'
    BY <1>5 DEF TypeOK, IInv, Rollback, AuthorInv, LoopInv, Leaving, HeadedFor, DrainInv, files, life, ghost, mem
  <2> QED BY <2>1, <2>2, <2>3, <2>4, <2>5, <2>6, <2>7 DEF IInv
<1>6. CASE Dequeue
  <2>1. LoopInv'
    BY <1>6 DEF TypeOK, IInv, Dequeue, FlushFirst, LoopInv, HeadedFor, Leaving, files, life, ghost, mem
  <2>2. DrainInv'
    BY <1>6 DEF TypeOK, IInv, Dequeue, FlushFirst, DrainInv, files, life, ghost, mem
  <2>3. DownInv'
    BY <1>6 DEF TypeOK, IInv, Dequeue, FlushFirst, DownInv, files, life, ghost, mem
  <2>4. StampInv'
    BY <1>6 DEF TypeOK, IInv, Dequeue, FlushFirst, StampInv, files, life, ghost, mem
  <2>5. LateInv'
    BY <1>6 DEF TypeOK, IInv, Dequeue, FlushFirst, LateInv, LoopInv, Leaving, HeadedFor, DrainInv, files, life, ghost, mem
  <2>6. CarryInv'
    <3> SUFFICES ASSUME up', NEW q \in Paths \ lost', acked'[q] > head'[q]
                 PROVE  IF loop'.pc = "exited" THEN fails' > 0 ELSE Carries(q)'
      BY DEF CarryInv
    <3>1. up /\ q \in Paths \ lost /\ acked[q] > head[q]
      BY <1>6 DEF Dequeue, files, life, ghost
    <3>2. IF loop.pc = "exited" THEN fails > 0 ELSE Carries(q)
      BY <3>1 DEF IInv, CarryInv
    <3>3. loop.req = NoRequest /\ loop.pc = "select"
      BY <1>6 DEF Dequeue, IInv, LoopInv, HeadedFor
    <3>4. loop'.req = Head(queue) /\ loop'.pc \in {"flush", "record", "append"}
      BY <1>6 DEF Dequeue, TypeOK, LoopState
    <3>5. ASSUME NEW i \in DOMAIN queue, ~queue[i].sync, q \in SetOf(queue[i].paths)
          PROVE  Carries(q)'
      <4>1. CASE i = 1
        <5>1. queue[1] = Head(queue)
          BY <1>6 DEF Dequeue, TypeOK
        <5> QED BY <3>4, <3>5, <4>1, <5>1 DEF Carries
      <4>2. CASE i # 1
        <5>1. i - 1 \in DOMAIN queue' /\ queue'[i - 1] = queue[i]
          BY <1>6, <4>2, HeadTailProperties, LenProperties DEF Dequeue, TypeOK
        <5> QED BY <3>5, <5>1 DEF Carries
      <4> QED BY <4>1, <4>2
    <3> QED
      BY <1>6, <3>2, <3>3, <3>4, <3>5 DEF Dequeue, Carries, BatchPaths
  <2>7. AuthorInv'
    BY <1>6 DEF TypeOK, IInv, Dequeue, FlushFirst, AuthorInv, LoopInv, Leaving, HeadedFor, DrainInv, files, life, ghost, mem
  <2> QED BY <2>1, <2>2, <2>3, <2>4, <2>5, <2>6, <2>7 DEF IInv
<1>7. CASE TimerFires
  <2>1. LoopInv'
    BY <1>7 DEF TypeOK, IInv, TimerFires, LoopInv, HeadedFor, Leaving, files, life, ghost, mem
  <2>2. DrainInv'
    BY <1>7 DEF TypeOK, IInv, TimerFires, DrainInv, files, life, ghost, mem
  <2>3. DownInv'
    BY <1>7 DEF TypeOK, IInv, TimerFires, DownInv, files, life, ghost, mem
  <2>4. StampInv'
    BY <1>7 DEF TypeOK, IInv, TimerFires, StampInv, files, life, ghost, mem
  <2>5. LateInv'
    BY <1>7 DEF TypeOK, IInv, TimerFires, LateInv, LoopInv, Leaving, HeadedFor, DrainInv, files, life, ghost, mem
  <2>6. CarryInv'
    <3> SUFFICES ASSUME up', NEW q \in Paths \ lost', acked'[q] > head'[q]
                 PROVE  IF loop'.pc = "exited" THEN fails' > 0 ELSE Carries(q)'
      BY DEF CarryInv
    <3>1. up /\ q \in Paths \ lost /\ acked[q] > head[q]
      BY <1>7 DEF TimerFires, files, life, ghost, mem
    <3>2. IF loop.pc = "exited" THEN fails > 0 ELSE Carries(q)
      BY <3>1 DEF IInv, CarryInv
    <3> QED
      BY <1>7, <3>1, <3>2 DEF TypeOK, LoopState, IInv, TimerFires, Carries, BatchPaths, LoopInv, Leaving, HeadedFor, DrainInv, LateInv, files, life, ghost, mem
  <2>7. AuthorInv'
    BY <1>7 DEF TypeOK, IInv, TimerFires, AuthorInv, LoopInv, Leaving, HeadedFor, DrainInv, files, life, ghost, mem
  <2> QED BY <2>1, <2>2, <2>3, <2>4, <2>5, <2>6, <2>7 DEF IInv
<1>8. CASE FlushNothing
  <2>1. LoopInv'
    BY <1>8 DEF TypeOK, IInv, FlushNothing, LoopInv, HeadedFor, Leaving, files, life, ghost, mem
  <2>2. DrainInv'
    BY <1>8 DEF TypeOK, IInv, FlushNothing, DrainInv, files, life, ghost, mem
  <2>3. DownInv'
    BY <1>8 DEF TypeOK, IInv, FlushNothing, DownInv, files, life, ghost, mem
  <2>4. StampInv'
    BY <1>8 DEF TypeOK, IInv, FlushNothing, StampInv, files, life, ghost, mem
  <2>5. LateInv'
    BY <1>8 DEF TypeOK, IInv, FlushNothing, LateInv, LoopInv, Leaving, HeadedFor, DrainInv, files, life, ghost, mem
  <2>6. CarryInv'
    <3> SUFFICES ASSUME up', NEW q \in Paths \ lost', acked'[q] > head'[q]
                 PROVE  IF loop'.pc = "exited" THEN fails' > 0 ELSE Carries(q)'
      BY DEF CarryInv
    <3>1. up /\ q \in Paths \ lost /\ acked[q] > head[q]
      BY <1>8 DEF FlushNothing, files, life, ghost, mem
    <3>2. IF loop.pc = "exited" THEN fails > 0 ELSE Carries(q)
      BY <3>1 DEF IInv, CarryInv
    <3> QED
      BY <1>8, <3>1, <3>2 DEF TypeOK, LoopState, IInv, FlushNothing, Carries, BatchPaths, LoopInv, Leaving, HeadedFor, DrainInv, LateInv, files, life, ghost, mem
  <2>7. AuthorInv'
    BY <1>8 DEF TypeOK, IInv, FlushNothing, AuthorInv, LoopInv, Leaving, HeadedFor, DrainInv, files, life, ghost, mem
  <2> QED BY <2>1, <2>2, <2>3, <2>4, <2>5, <2>6, <2>7 DEF IInv
<1>9. CASE FlushCommits
  <2>1. LoopInv'
    BY <1>9 DEF TypeOK, IInv, FlushCommits, Record, LoopInv, HeadedFor, Leaving, files, life, ghost, mem
  <2>2. DrainInv'
    BY <1>9 DEF TypeOK, IInv, FlushCommits, Record, DrainInv, files, life, ghost, mem
  <2>3. DownInv'
    BY <1>9 DEF TypeOK, IInv, FlushCommits, Record, DownInv, files, life, ghost, mem
  <2>4. StampInv'
    BY <1>9 DEF TypeOK, IInv, FlushCommits, Record, StampInv, files, life, ghost, mem
  <2>5. LateInv'
    BY <1>9 DEF TypeOK, IInv, FlushCommits, Record, LateInv, LoopInv, Leaving, HeadedFor, DrainInv, files, life, ghost, mem
  <2>6. CarryInv'
    <3> SUFFICES ASSUME up', NEW q \in Paths \ lost', acked'[q] > head'[q]
                 PROVE  IF loop'.pc = "exited" THEN fails' > 0 ELSE Carries(q)'
      BY DEF CarryInv
    <3>1. up /\ q \in Paths \ lost /\ acked[q] > head[q] /\ q \notin BatchPaths
      <4>1. head[q] \in Nat /\ acked[q] \in Nat /\ disk[q] \in Nat /\ acked[q] <= disk[q]
        BY DEF TypeOK, IInv, StampInv, ghost
      <4> QED
        BY <1>9, <4>1 DEF FlushCommits, Record, life, ghost
    <3>2. IF loop.pc = "exited" THEN fails > 0 ELSE Carries(q)
      BY <3>1 DEF IInv, CarryInv
    <3> QED
      BY <1>9, <3>1, <3>2 DEF FlushCommits, Carries, TypeOK, LoopState
  <2>7. AuthorInv'
    BY <1>9 DEF TypeOK, IInv, FlushCommits, Record, AuthorInv, LoopInv, Leaving, HeadedFor, DrainInv, files, life, ghost, mem
  <2> QED BY <2>1, <2>2, <2>3, <2>4, <2>5, <2>6, <2>7 DEF IInv
<1>10. CASE FlushFails
  <2>1. LoopInv'
    BY <1>10 DEF TypeOK, IInv, FlushFails, LoopInv, HeadedFor, Leaving, files, life, ghost, mem
  <2>2. DrainInv'
    BY <1>10 DEF TypeOK, IInv, FlushFails, DrainInv, files, life, ghost, mem
  <2>3. DownInv'
    BY <1>10 DEF TypeOK, IInv, FlushFails, DownInv, files, life, ghost, mem
  <2>4. StampInv'
    BY <1>10 DEF TypeOK, IInv, FlushFails, StampInv, files, life, ghost, mem
  <2>5. LateInv'
    BY <1>10 DEF TypeOK, IInv, FlushFails, LateInv, LoopInv, Leaving, HeadedFor, DrainInv, files, life, ghost, mem
  <2>6. CarryInv'
    <3> SUFFICES ASSUME up', NEW q \in Paths \ lost', acked'[q] > head'[q]
                 PROVE  IF loop'.pc = "exited" THEN fails' > 0 ELSE Carries(q)'
      BY DEF CarryInv
    <3>1. up /\ q \in Paths \ lost /\ acked[q] > head[q]
      BY <1>10 DEF FlushFails, files, life, ghost, mem
    <3>2. IF loop.pc = "exited" THEN fails > 0 ELSE Carries(q)
      BY <3>1 DEF IInv, CarryInv
    <3> QED
      BY <1>10, <3>1, <3>2 DEF TypeOK, LoopState, IInv, FlushFails, Carries, BatchPaths, LoopInv, Leaving, HeadedFor, DrainInv, LateInv, files, life, ghost, mem
  <2>7. AuthorInv'
    BY <1>10 DEF TypeOK, IInv, FlushFails, AuthorInv, LoopInv, Leaving, HeadedFor, DrainInv, files, life, ghost, mem
  <2> QED BY <2>1, <2>2, <2>3, <2>4, <2>5, <2>6, <2>7 DEF IInv
<1>11. CASE ClearJournal
  <2>1. LoopInv'
    BY <1>11 DEF TypeOK, IInv, ClearJournal, LoopInv, HeadedFor, Leaving, files, life, ghost, mem
  <2>2. DrainInv'
    BY <1>11 DEF TypeOK, IInv, ClearJournal, DrainInv, files, life, ghost, mem
  <2>3. DownInv'
    BY <1>11 DEF TypeOK, IInv, ClearJournal, DownInv, files, life, ghost, mem
  <2>4. StampInv'
    BY <1>11 DEF TypeOK, IInv, ClearJournal, StampInv, files, life, ghost, mem
  <2>5. LateInv'
    BY <1>11 DEF TypeOK, IInv, ClearJournal, LateInv, LoopInv, Leaving, HeadedFor, DrainInv, files, life, ghost, mem
  <2>6. CarryInv'
    <3> SUFFICES ASSUME up', NEW q \in Paths \ lost', acked'[q] > head'[q]
                 PROVE  IF loop'.pc = "exited" THEN fails' > 0 ELSE Carries(q)'
      BY DEF CarryInv
    <3>1. up /\ q \in Paths \ lost /\ acked[q] > head[q]
      BY <1>11 DEF ClearJournal, files, life, ghost, mem
    <3>2. IF loop.pc = "exited" THEN fails > 0 ELSE Carries(q)
      BY <3>1 DEF IInv, CarryInv
    <3> QED
      BY <1>11, <3>1, <3>2 DEF TypeOK, LoopState, IInv, ClearJournal, Carries, BatchPaths, LoopInv, Leaving, HeadedFor, DrainInv, LateInv, files, life, ghost, mem
  <2>7. AuthorInv'
    BY <1>11 DEF TypeOK, IInv, ClearJournal, AuthorInv, LoopInv, Leaving, HeadedFor, DrainInv, files, life, ghost, mem
  <2> QED BY <2>1, <2>2, <2>3, <2>4, <2>5, <2>6, <2>7 DEF IInv
<1>12. CASE AppendReq
  <2>1. LoopInv'
    BY <1>12 DEF TypeOK, IInv, AppendReq, ArmTimer, Home, LoopInv, HeadedFor, Leaving, files, life, ghost, mem
  <2>2. DrainInv'
    BY <1>12 DEF TypeOK, IInv, AppendReq, ArmTimer, Home, DrainInv, files, life, ghost, mem
  <2>3. DownInv'
    BY <1>12 DEF TypeOK, IInv, AppendReq, ArmTimer, Home, DownInv, files, life, ghost, mem
  <2>4. StampInv'
    BY <1>12 DEF TypeOK, IInv, AppendReq, ArmTimer, Home, StampInv, files, life, ghost, mem
  <2>5. LateInv'
    BY <1>12 DEF TypeOK, IInv, AppendReq, ArmTimer, Home, LateInv, LoopInv, Leaving, HeadedFor, DrainInv, files, life, ghost, mem
  <2>6. CarryInv'
    <3> SUFFICES ASSUME up', NEW q \in Paths \ lost', acked'[q] > head'[q]
                 PROVE  IF loop'.pc = "exited" THEN fails' > 0 ELSE Carries(q)'
      BY DEF CarryInv
    <3>1. up /\ q \in Paths \ lost /\ acked[q] > head[q]
      BY <1>12 DEF AppendReq, files, life, ghost
    <3>2. IF loop.pc = "exited" THEN fails > 0 ELSE Carries(q)
      BY <3>1 DEF IInv, CarryInv
    <3>3. loop'.pc \in {"select", "flush"}
      BY <1>12 DEF AppendReq, Home, FreshLoop, TypeOK, LoopState
    <3>4. q \in BatchPaths \/ q \in SetOf(loop.req.paths) => q \in BatchPaths'
      BY <1>12, AppendedPaths DEF AppendReq, TypeOK, LoopState
    <3> QED
      BY <1>12, <3>2, <3>3, <3>4 DEF AppendReq, Carries
  <2>7. AuthorInv'
    <3> SUFFICES ASSUME fails = 0
                 PROVE  \A i \in DOMAIN batch' : batch'[i].actor = batchActor'
      <4>1. loop'.pc \in {"select", "flush"} /\ fails' = fails
        BY <1>12 DEF AppendReq, Home, FreshLoop, TypeOK, LoopState
      <4> QED BY <4>1 DEF AuthorInv
    <3>1. /\ \A i \in DOMAIN batch : batch[i].actor = batchActor
          /\ batch = <<>> \/ loop.req.actor = batchActor
      BY <1>12 DEF AppendReq, IInv, AuthorInv
    <3>2. \A i \in DOMAIN batch : batch[i].actor = loop.req.actor
      BY <3>1
    <3> QED
      BY <1>12, <3>2, AppendedPaths DEF AppendReq, TypeOK, LoopState
  <2> QED BY <2>1, <2>2, <2>3, <2>4, <2>5, <2>6, <2>7 DEF IInv
<1>13. CASE CommitNow
  <2>1. LoopInv'
    BY <1>13 DEF TypeOK, IInv, CommitNow, Record, Home, LoopInv, HeadedFor, Leaving, files, life, ghost, mem
  <2>2. DrainInv'
    BY <1>13 DEF TypeOK, IInv, CommitNow, Record, Home, DrainInv, files, life, ghost, mem
  <2>3. DownInv'
    BY <1>13 DEF TypeOK, IInv, CommitNow, Record, Home, DownInv, files, life, ghost, mem
  <2>4. StampInv'
    BY <1>13 DEF TypeOK, IInv, CommitNow, Record, Home, StampInv, files, life, ghost, mem
  <2>5. LateInv'
    BY <1>13 DEF TypeOK, IInv, CommitNow, Record, Home, LateInv, LoopInv, Leaving, HeadedFor, DrainInv, files, life, ghost, mem
  <2>6. CarryInv'
    <3> SUFFICES ASSUME up', NEW q \in Paths \ lost', acked'[q] > head'[q]
                 PROVE  IF loop'.pc = "exited" THEN fails' > 0 ELSE Carries(q)'
      BY DEF CarryInv
    <3>1. up /\ q \in Paths \ lost /\ acked[q] > head[q]
      <4>1. head[q] \in Nat /\ acked[q] \in Nat /\ disk[q] \in Nat /\ acked[q] <= disk[q]
        BY DEF TypeOK, IInv, StampInv, ghost
      <4> QED
        BY <1>13, <4>1 DEF CommitNow, Record, life, ghost
    <3>2. IF loop.pc = "exited" THEN fails > 0 ELSE Carries(q)
      BY <3>1 DEF IInv, CarryInv
    <3>3. loop.req.sync /\ loop'.req = NoRequest /\ loop'.pc = "select"
      BY <1>13 DEF CommitNow, Home, IInv, LoopInv, HeadedFor, TypeOK, LoopState
    <3>4. ~drain.done => call.pc # "wait"
      BY DEF IInv, StampInv, DrainInv
    <3> QED
      BY <1>13, <3>2, <3>3, <3>4 DEF CommitNow, Heard, Carries, BatchPaths
  <2>7. AuthorInv'
    BY <1>13 DEF TypeOK, IInv, CommitNow, Record, Home, AuthorInv, LoopInv, Leaving, HeadedFor, DrainInv, files, life, ghost, mem
  <2> QED BY <2>1, <2>2, <2>3, <2>4, <2>5, <2>6, <2>7 DEF IInv
<1>14. CASE CommitNowFails
  <2>1. LoopInv'
    BY <1>14 DEF TypeOK, IInv, CommitNowFails, Heard, Home, LoopInv, HeadedFor, Leaving, files, life, ghost, mem
  <2>2. DrainInv'
    BY <1>14 DEF TypeOK, IInv, CommitNowFails, Heard, Home, DrainInv, files, life, ghost, mem
  <2>3. DownInv'
    BY <1>14 DEF TypeOK, IInv, CommitNowFails, Heard, Home, DownInv, files, life, ghost, mem
  <2>4. StampInv'
    BY <1>14 DEF TypeOK, IInv, CommitNowFails, Heard, Home, StampInv, files, life, ghost, mem
  <2>5. LateInv'
    BY <1>14 DEF TypeOK, IInv, CommitNowFails, Heard, Home, LateInv, LoopInv, Leaving, HeadedFor, DrainInv, files, life, ghost, mem
  <2>6. CarryInv'
    <3> SUFFICES ASSUME up', NEW q \in Paths \ lost', acked'[q] > head'[q]
                 PROVE  IF loop'.pc = "exited" THEN fails' > 0 ELSE Carries(q)'
      BY DEF CarryInv
    <3>1. up /\ q \in Paths \ lost /\ acked[q] > head[q]
      BY <1>14 DEF CommitNowFails, Heard, Home, files, life, ghost, mem
    <3>2. IF loop.pc = "exited" THEN fails > 0 ELSE Carries(q)
      BY <3>1 DEF IInv, CarryInv
    <3> QED
      BY <1>14, <3>1, <3>2 DEF TypeOK, LoopState, IInv, CommitNowFails, Heard, Home, Carries, BatchPaths, LoopInv, Leaving, HeadedFor, DrainInv, LateInv, files, life, ghost, mem
  <2>7. AuthorInv'
    BY <1>14 DEF TypeOK, IInv, CommitNowFails, Heard, Home, AuthorInv, LoopInv, Leaving, HeadedFor, DrainInv, files, life, ghost, mem
  <2> QED BY <2>1, <2>2, <2>3, <2>4, <2>5, <2>6, <2>7 DEF IInv
<1>15. CASE StopSeen
  <2>1. LoopInv'
    BY <1>15 DEF TypeOK, IInv, StopSeen, LoopInv, HeadedFor, Leaving, files, life, ghost, mem
  <2>2. DrainInv'
    BY <1>15 DEF TypeOK, IInv, StopSeen, DrainInv, files, life, ghost, mem
  <2>3. DownInv'
    BY <1>15 DEF TypeOK, IInv, StopSeen, DownInv, files, life, ghost, mem
  <2>4. StampInv'
    BY <1>15 DEF TypeOK, IInv, StopSeen, StampInv, files, life, ghost, mem
  <2>5. LateInv'
    BY <1>15 DEF TypeOK, IInv, StopSeen, LateInv, LoopInv, Leaving, HeadedFor, DrainInv, files, life, ghost, mem
  <2>6. CarryInv'
    <3> SUFFICES ASSUME up', NEW q \in Paths \ lost', acked'[q] > head'[q]
                 PROVE  IF loop'.pc = "exited" THEN fails' > 0 ELSE Carries(q)'
      BY DEF CarryInv
    <3>1. up /\ q \in Paths \ lost /\ acked[q] > head[q]
      BY <1>15 DEF StopSeen, files, life, ghost, mem
    <3>2. IF loop.pc = "exited" THEN fails > 0 ELSE Carries(q)
      BY <3>1 DEF IInv, CarryInv
    <3> QED
      BY <1>15, <3>1, <3>2 DEF TypeOK, LoopState, IInv, StopSeen, Carries, BatchPaths, LoopInv, Leaving, HeadedFor, DrainInv, LateInv, files, life, ghost, mem
  <2>7. AuthorInv'
    BY <1>15 DEF TypeOK, IInv, StopSeen, AuthorInv, LoopInv, Leaving, HeadedFor, DrainInv, files, life, ghost, mem
  <2> QED BY <2>1, <2>2, <2>3, <2>4, <2>5, <2>6, <2>7 DEF IInv
<1>16. CASE ChannelDrained
  <2>1. LoopInv'
    BY <1>16 DEF TypeOK, IInv, ChannelDrained, LoopInv, HeadedFor, Leaving, files, life, ghost, mem
  <2>2. DrainInv'
    BY <1>16 DEF TypeOK, IInv, ChannelDrained, DrainInv, files, life, ghost, mem
  <2>3. DownInv'
    BY <1>16 DEF TypeOK, IInv, ChannelDrained, DownInv, files, life, ghost, mem
  <2>4. StampInv'
    BY <1>16 DEF TypeOK, IInv, ChannelDrained, StampInv, files, life, ghost, mem
  <2>5. LateInv'
    BY <1>16 DEF TypeOK, IInv, ChannelDrained, LateInv, LoopInv, Leaving, HeadedFor, DrainInv, files, life, ghost, mem
  <2>6. CarryInv'
    <3> SUFFICES ASSUME up', NEW q \in Paths \ lost', acked'[q] > head'[q]
                 PROVE  IF loop'.pc = "exited" THEN fails' > 0 ELSE Carries(q)'
      BY DEF CarryInv
    <3>1. up /\ q \in Paths \ lost /\ acked[q] > head[q]
      BY <1>16 DEF ChannelDrained, files, life, ghost, mem
    <3>2. IF loop.pc = "exited" THEN fails > 0 ELSE Carries(q)
      BY <3>1 DEF IInv, CarryInv
    <3> QED
      BY <1>16, <3>1, <3>2 DEF TypeOK, LoopState, IInv, ChannelDrained, Carries, BatchPaths, LoopInv, Leaving, HeadedFor, DrainInv, LateInv, files, life, ghost, mem
  <2>7. AuthorInv'
    BY <1>16 DEF TypeOK, IInv, ChannelDrained, AuthorInv, LoopInv, Leaving, HeadedFor, DrainInv, files, life, ghost, mem
  <2> QED BY <2>1, <2>2, <2>3, <2>4, <2>5, <2>6, <2>7 DEF IInv
<1>17. CASE Close
  <2>1. LoopInv'
    BY <1>17 DEF TypeOK, IInv, Close, LoopInv, HeadedFor, Leaving, files, life, ghost, mem
  <2>2. DrainInv'
    BY <1>17 DEF TypeOK, IInv, Close, DrainInv, files, life, ghost, mem
  <2>3. DownInv'
    BY <1>17 DEF TypeOK, IInv, Close, DownInv, files, life, ghost, mem
  <2>4. StampInv'
    BY <1>17 DEF TypeOK, IInv, Close, StampInv, files, life, ghost, mem
  <2>5. LateInv'
    BY <1>17 DEF TypeOK, IInv, Close, LateInv, LoopInv, Leaving, HeadedFor, DrainInv, files, life, ghost, mem
  <2>6. CarryInv'
    BY <1>17 DEF TypeOK, IInv, Close, CarryInv, Carries, BatchPaths, LoopInv, Leaving, HeadedFor, DrainInv, files, life, ghost, mem
  <2>7. AuthorInv'
    BY <1>17 DEF TypeOK, IInv, Close, AuthorInv, LoopInv, Leaving, HeadedFor, DrainInv, files, life, ghost, mem
  <2> QED BY <2>1, <2>2, <2>3, <2>4, <2>5, <2>6, <2>7 DEF IInv
<1>18. CASE ProcessEnds
  <2>1. LoopInv'
    BY <1>18 DEF TypeOK, IInv, ProcessEnds, LoopInv, HeadedFor, Leaving, files, life, ghost, mem
  <2>2. DrainInv'
    BY <1>18 DEF TypeOK, IInv, ProcessEnds, DrainInv, files, life, ghost, mem
  <2>3. DownInv'
    BY <1>18 DEF TypeOK, IInv, ProcessEnds, DownInv, files, life, ghost, mem
  <2>4. StampInv'
    BY <1>18 DEF TypeOK, IInv, ProcessEnds, Undone, StampInv, files, life, ghost, mem
  <2>5. LateInv'
    BY <1>18 DEF TypeOK, IInv, ProcessEnds, LateInv, LoopInv, Leaving, HeadedFor, DrainInv, files, life, ghost, mem
  <2>6. CarryInv'
    BY <1>18 DEF TypeOK, IInv, ProcessEnds, CarryInv, Carries, BatchPaths, LoopInv, Leaving, HeadedFor, DrainInv, files, life, ghost, mem
  <2>7. AuthorInv'
    BY <1>18 DEF TypeOK, IInv, ProcessEnds, AuthorInv, LoopInv, Leaving, HeadedFor, DrainInv, files, life, ghost, mem
  <2> QED BY <2>1, <2>2, <2>3, <2>4, <2>5, <2>6, <2>7 DEF IInv
<1>19. CASE Restart
  <2>1. LoopInv'
    BY <1>19 DEF TypeOK, IInv, Restart, LoopInv, HeadedFor, Leaving, files, life, ghost, mem
  <2>2. DrainInv'
    BY <1>19 DEF IInv, DownInv, Restart, DrainInv, life, ghost, mem
  <2>3. DownInv'
    BY <1>19 DEF TypeOK, IInv, Restart, DownInv, files, life, ghost, mem
  <2>4. StampInv'
    BY <1>19 DEF TypeOK, IInv, Restart, StampInv, files, life, ghost, mem
  <2>5. LateInv'
    BY <1>19 DEF TypeOK, IInv, Restart, LateInv, LoopInv, Leaving, HeadedFor, DrainInv, files, life, ghost, mem
  <2>6. CarryInv'
    <3> SUFFICES ASSUME up', NEW q \in Paths \ lost', acked'[q] > head'[q]
                 PROVE  IF loop'.pc = "exited" THEN fails' > 0 ELSE Carries(q)'
      BY DEF CarryInv
    <3>1. q \in journal
      BY <1>19 DEF IInv, DownInv, Restart, ghost
    <3> QED
      BY <1>19, <3>1 DEF IInv, DownInv, Restart, Carries, mem
  <2>7. AuthorInv'
    BY <1>19 DEF TypeOK, IInv, Restart, AuthorInv, LoopInv, Leaving, HeadedFor, DrainInv, files, life, ghost, mem
  <2> QED BY <2>1, <2>2, <2>3, <2>4, <2>5, <2>6, <2>7 DEF IInv
<1>20. ASSUME NEW p \in Paths, DrainCommit(p) PROVE IInv'
  <2>1. LoopInv'
    BY <1>20 DEF TypeOK, IInv, DrainCommit, LoopInv, HeadedFor, Leaving, files, life, ghost, mem
  <2>2. DrainInv'
    BY <1>20 DEF TypeOK, IInv, DrainCommit, DrainInv, files, life, ghost, mem
  <2>3. DownInv'
    BY <1>20 DEF TypeOK, IInv, DrainCommit, DownInv, files, life, ghost, mem
  <2>4. StampInv'
    BY <1>20 DEF TypeOK, IInv, DrainCommit, StampInv, files, life, ghost, mem
  <2>5. LateInv'
    BY <1>20 DEF TypeOK, IInv, DrainCommit, LateInv, LoopInv, Leaving, HeadedFor, DrainInv, files, life, ghost, mem
  <2>6. CarryInv'
    <3> SUFFICES ASSUME up', NEW q \in Paths \ lost', acked'[q] > head'[q]
                 PROVE  IF loop'.pc = "exited" THEN fails' > 0 ELSE Carries(q)'
      BY DEF CarryInv
    <3>1. up /\ q \in Paths \ lost /\ acked[q] > head[q]
      BY <1>20 DEF DrainCommit, files, life, ghost, mem
    <3>2. IF loop.pc = "exited" THEN fails > 0 ELSE Carries(q)
      BY <3>1 DEF IInv, CarryInv
    <3>3. SetOf(call.req.paths) = {}
      BY <1>20 DEF TypeOK, CallState, ActiveCall, DrainCommit
    <3>4. CASE loop.pc = "exited"
      BY <1>20, <3>2, <3>4 DEF DrainCommit, mem
    <3>5. CASE loop.pc # "exited" /\ q = p
      <4>1. q \in SetOf(call'.req.paths) /\ ~drain'.done
        BY <1>20, <3>5 DEF DrainCommit, SetOf, TypeOK
      <4> QED
        BY <1>20, <3>5, <4>1 DEF Carries, DrainCommit, mem
    <3>6. CASE loop.pc # "exited" /\ q # p
      BY <1>20, <3>2, <3>3, <3>6 DEF DrainCommit, Carries, BatchPaths, TypeOK, mem
    <3> QED
      BY <3>4, <3>5, <3>6
  <2>7. AuthorInv'
    BY <1>20 DEF TypeOK, IInv, DrainCommit, AuthorInv, LoopInv, Leaving, HeadedFor, DrainInv, files, life, ghost, mem
  <2> QED BY <2>1, <2>2, <2>3, <2>4, <2>5, <2>6, <2>7 DEF IInv
<1>21. CASE DrainRemovesLog
  <2>1. LoopInv'
    BY <1>21 DEF TypeOK, IInv, DrainRemovesLog, LoopInv, HeadedFor, Leaving, files, life, ghost, mem
  <2>2. DrainInv'
    BY <1>21 DEF TypeOK, IInv, DrainRemovesLog, DrainInv, files, life, ghost, mem
  <2>3. DownInv'
    BY <1>21 DEF TypeOK, IInv, DrainRemovesLog, DownInv, files, life, ghost, mem
  <2>4. StampInv'
    BY <1>21 DEF TypeOK, IInv, DrainRemovesLog, StampInv, files, life, ghost, mem
  <2>5. LateInv'
    BY <1>21 DEF TypeOK, IInv, DrainRemovesLog, LateInv, LoopInv, Leaving, HeadedFor, DrainInv, files, life, ghost, mem
  <2>6. CarryInv'
    <3> SUFFICES ASSUME up', NEW q \in Paths \ lost', acked'[q] > head'[q]
                 PROVE  IF loop'.pc = "exited" THEN fails' > 0 ELSE Carries(q)'
      BY DEF CarryInv
    <3>1. up /\ q \in Paths \ lost /\ acked[q] > head[q]
      BY <1>21 DEF DrainRemovesLog, files, life, ghost, mem
    <3>2. IF loop.pc = "exited" THEN fails > 0 ELSE Carries(q)
      BY <3>1 DEF IInv, CarryInv
    <3>3. SetOf(call.req.paths) = {}
      BY <1>21 DEF TypeOK, CallState, ActiveCall, DrainRemovesLog
    <3> QED
      BY <1>21, <3>2, <3>3 DEF DrainRemovesLog, Carries, BatchPaths, TypeOK, mem
  <2>7. AuthorInv'
    BY <1>21 DEF TypeOK, IInv, DrainRemovesLog, AuthorInv, LoopInv, Leaving, HeadedFor, DrainInv, files, life, ghost, mem
  <2> QED BY <2>1, <2>2, <2>3, <2>4, <2>5, <2>6, <2>7 DEF IInv
<1>22. CASE UNCHANGED vars
  <2>1. LoopInv'
    BY <1>22 DEF TypeOK, IInv, vars, LoopInv, HeadedFor, Leaving, files, life, ghost, mem
  <2>2. DrainInv'
    BY <1>22 DEF TypeOK, IInv, vars, DrainInv, files, life, ghost, mem
  <2>3. DownInv'
    BY <1>22 DEF TypeOK, IInv, vars, DownInv, files, life, ghost, mem
  <2>4. StampInv'
    BY <1>22 DEF TypeOK, IInv, vars, StampInv, files, life, ghost, mem
  <2>5. LateInv'
    BY <1>22 DEF TypeOK, IInv, vars, LateInv, LoopInv, Leaving, HeadedFor, DrainInv, files, life, ghost, mem
  <2>6. CarryInv'
    BY <1>22 DEF TypeOK, IInv, vars, CarryInv, Carries, BatchPaths, LoopInv, Leaving, HeadedFor, DrainInv, files, life, ghost, mem
  <2>7. AuthorInv'
    BY <1>22 DEF TypeOK, IInv, vars, AuthorInv, LoopInv, Leaving, HeadedFor, DrainInv, files, life, ghost, mem
  <2> QED BY <2>1, <2>2, <2>3, <2>4, <2>5, <2>6, <2>7 DEF IInv
<1>23. CASE Cancel
  <2>1. /\ UNCHANGED <<files, head, journal, life, mem, drain, ghost, fails>>
        /\ call.req.sync /\ call' = [call EXCEPT !.pc = "rollback"] /\ call \in ActiveCall
    BY <1>23, CallUnderWay DEF Cancel, TypeOK
  <2>2. call'.pc = "rollback" /\ call'.req = call.req /\ call'.undo = call.undo
    BY <2>1 DEF ActiveCall
  <2>3. LoopInv'
    BY <2>1 DEF IInv, LoopInv, HeadedFor, Leaving, life, mem
  <2>4. DrainInv'
    BY <2>1, <2>2 DEF IInv, DrainInv, life
  <2>5. DownInv'
    <3>1. up
      BY <2>1 DEF IInv, DownInv
    <3> QED BY <2>1, <3>1 DEF DownInv, life
  <2>6. StampInv'
    BY <2>1, <2>2 DEF IInv, StampInv, files, ghost
  <2>7. LateInv'
    BY <2>1 DEF IInv, LateInv, Leaving, mem, ghost
  <2>8. CarryInv'
    BY <2>1, <2>2 DEF IInv, CarryInv, Carries, BatchPaths, life, mem, ghost
  <2>9. AuthorInv'
    BY <2>1 DEF IInv, AuthorInv, mem
  <2> QED BY <2>3, <2>4, <2>5, <2>6, <2>7, <2>8, <2>9 DEF IInv
<1> QED
  BY <1>1, <1>2, <1>3, <1>4, <1>5, <1>6, <1>7, <1>8, <1>9, <1>10, <1>11, <1>12, <1>13, <1>14, <1>15, <1>16, <1>17, <1>18, <1>19, <1>20, <1>21, <1>22, <1>23
  DEF Next, Caller, Loop, Drain

(* The invariant holds at the start.                                       *)
LEMMA InitIInv == Init => IInv
<1> SUFFICES ASSUME Init PROVE IInv
  OBVIOUS
<1> USE NothingRequested
<1>1. LoopInv /\ DrainInv /\ DownInv
  BY DEF Init, LoopInv, HeadedFor, Leaving, DrainInv, DownInv
<1>2. StampInv /\ LateInv
  BY DEF Init, StampInv, LateInv, Leaving
<1>3. CarryInv /\ AuthorInv
  BY DEF Init, CarryInv, AuthorInv
<1> QED BY <1>1, <1>2, <1>3 DEF IInv

(* It implies the three safety properties.                                 *)
LEMMA Consequences ==
  TypeOK /\ IInv => AckedIsCarried /\ NeverMixesAuthors /\ SyncLandsAfterQueued
<1> SUFFICES ASSUME TypeOK, IInv
             PROVE  AckedIsCarried /\ NeverMixesAuthors /\ SyncLandsAfterQueued
  OBVIOUS
<1>1. ASSUME NEW p \in Paths, Carries(p) PROVE p \in InFlight
  <2>1. ASSUME NEW i \in DOMAIN queue, p \in SetOf(queue[i].paths) PROVE p \in QueuedPaths
    BY <2>1 DEF QueuedPaths
  <2> QED BY <1>1, <2>1 DEF Carries, InFlight
<1>2. AckedIsCarried
  BY <1>1 DEF IInv, CarryInv, AckedIsCarried
<1>3. NeverMixesAuthors /\ SyncLandsAfterQueued
  BY DEF IInv, AuthorInv, NeverMixesAuthors, SyncLandsAfterQueued
<1> QED BY <1>2, <1>3

(* TypeOK and the inductive invariant hold throughout.                     *)
LEMMA Invariant == Spec => [](TypeOK /\ IInv)
BY InitIInv, TypeCorrect, Inductive, PTL DEF Spec

(* No acknowledged write is forgotten: while the process runs it is in a   *)
(* commit, or its path is in the channel, in the batch, in the hands of    *)
(* the loop or of the recovery.                                            *)
THEOREM NothingForgotten == Spec => []AckedIsCarried
BY Invariant, Consequences, PTL

(* Without failed flushes a batch has one author.                          *)
THEOREM OneAuthorPerBatch == Spec => []NeverMixesAuthors
BY Invariant, Consequences, PTL

(* Without failed flushes CommitRecorded commits after all that was queued *)
(* before it.                                                              *)
THEOREM SyncInOrder == Spec => []SyncLandsAfterQueued
BY Invariant, Consequences, PTL

-----------------------------------------------------------------------------
(* A synchronous call and the answer it waits for.  A caller who gave up   *)
(* leaves its request behind, beside that of the next.  Still the request  *)
(* of a caller who waits is in the channel or in the hands of the loop,    *)
(* and no other request there has its done channel.                        *)
Syncs == {i \in DOMAIN queue : queue[i].sync}
AnswersFindCaller ==
  call.pc = "wait" =>
    /\ (\E i \in Syncs : queue[i] = call.req) \/ loop.req = call.req
    /\ \A i, j \in Syncs : queue[i].done = call.req.done /\ queue[j].done = call.req.done => i = j
    /\ \A i \in Syncs : queue[i].done = call.req.done => queue[i] = call.req
    /\ loop.pc = "record" /\ Heard => loop.req = call.req /\ \A i \in Syncs : queue[i] # call.req

(* Done channels of requests under way are distinct, and that of a call is *)
(* made for it and sent once.                                              *)
DistinctChannels ==
  /\ \A i, j \in Syncs : queue[i].done = queue[j].done => i = j
  /\ loop.req.sync => \A i \in Syncs : queue[i].done # loop.req.done
  /\ call.pc = "wait" => (\E i \in Syncs : queue[i] = call.req) \/ loop.req = call.req
FreshChannels ==
  /\ \A i \in Syncs : queue[i].done <= clock
  /\ loop.req.sync => loop.req.done <= clock
  /\ call.req.sync => call.req.done <= clock
  /\ call.pc = "journal" => ~ call.req.sync
  /\ call.pc = "send" /\ call.req.sync =>
       /\ \A i \in Syncs : queue[i].done # call.req.done
       /\ loop.req.sync => loop.req.done # call.req.done

(* A request that is sent is the last of the channel.                      *)
LEMMA SyncsGrow ==
  ASSUME NEW r \in Request, queue \in Seq(Request), queue' = Append(queue, r)
  PROVE  /\ Syncs' = Syncs \union (IF r.sync THEN {Len(queue) + 1} ELSE {})
         /\ \A i \in Syncs : queue'[i] = queue[i]
         /\ queue'[Len(queue) + 1] = r
<1>1. /\ Len(queue) \in Nat /\ DOMAIN queue = 1 .. Len(queue) /\ DOMAIN queue' = 1 .. Len(queue) + 1
      /\ \A i \in 1 .. Len(queue) : queue'[i] = queue[i]
      /\ queue'[Len(queue) + 1] = r
  BY AppendProperties, LenProperties
<1>2. \A i : i \in DOMAIN queue' <=> i \in DOMAIN queue \/ i = Len(queue) + 1
  BY <1>1
<1>3. Len(queue) + 1 \notin DOMAIN queue
  BY <1>1
<1> QED BY <1>1, <1>2, <1>3 DEF Syncs

(* Without its head the others are one place further ahead.                *)
LEMMA SyncsShrink ==
  ASSUME queue \in Seq(Request), queue # <<>>, queue' = Tail(queue)
  PROVE  /\ Head(queue) \in Request
         /\ Head(queue).sync => 1 \in Syncs
         /\ Head(queue) = queue[1]
         /\ \A i \in Syncs' : i + 1 \in Syncs /\ i + 1 # 1 /\ queue'[i] = queue[i + 1] /\ i \in Int
         /\ \A i \in Syncs : i # 1 => i - 1 \in Syncs' /\ queue'[i - 1] = queue[i]
<1>1. /\ Head(queue) = queue[1] /\ Head(queue) \in Request
      /\ Len(queue) \in Nat /\ Len(queue) >= 1
      /\ DOMAIN queue = 1 .. Len(queue) /\ DOMAIN queue' = 1 .. Len(queue) - 1
      /\ \A i \in 1 .. Len(queue) - 1 : queue'[i] = queue[i + 1]
  BY HeadTailProperties, LenProperties, EmptySeq
<1>2. ASSUME NEW i \in 1 .. Len(queue) - 1 PROVE i + 1 \in 1 .. Len(queue) /\ i + 1 # 1 /\ i \in Int
  BY <1>1
<1>3. ASSUME NEW i \in 1 .. Len(queue), i # 1 PROVE i - 1 \in 1 .. Len(queue) - 1 /\ (i - 1) + 1 = i
  BY <1>1, <1>3
<1>4. \A i \in Syncs : i # 1 => i - 1 \in Syncs' /\ queue'[i - 1] = queue[i]
  <2> SUFFICES ASSUME NEW i \in Syncs, i # 1 PROVE i - 1 \in Syncs' /\ queue'[i - 1] = queue[i]
    OBVIOUS
  <2>1. i \in 1 .. Len(queue) /\ queue[i].sync
    BY <1>1 DEF Syncs
  <2>2. queue'[i - 1] = queue[i] /\ i - 1 \in DOMAIN queue'
    BY <1>1, <1>3, <2>1
  <2> QED BY <2>1, <2>2 DEF Syncs
<1> QED BY <1>1, <1>2, <1>4 DEF Syncs

(* Every step keeps the answer and the caller together.                    *)
LEMMA StepAnswers ==
  ASSUME TypeOK, IInv, DistinctChannels, FreshChannels, [Next]_vars
  PROVE  DistinctChannels' /\ FreshChannels'
<1> USE NothingRequested
<1>1. /\ queue \in Seq(Request) /\ loop \in LoopState /\ call \in CallState
      /\ loop.req.sync \in BOOLEAN /\ clock \in Nat /\ loop.req.done \in Nat
      /\ \A i \in Syncs : queue[i].done \in Nat
  <2>1. queue \in Seq(Request) /\ loop.req \in Request \union {NoRequest}
    BY DEF TypeOK, LoopState
  <2>2. \A i \in DOMAIN queue : queue[i] \in Request
    BY <2>1, LenProperties
  <2>3. \A i \in Syncs : queue[i].done \in Nat
    BY <2>2 DEF Syncs, Request
  <2>4. loop.req.done \in Nat
    BY <2>1 DEF Request, NoRequest
  <2> QED BY <2>1, <2>3, <2>4, RequestFields, ConstantsAssumption DEF ConstantsAssumption, TypeOK, LoopState
<1>2. /\ HeadedFor("select") \/ Leaving => loop.req = NoRequest
      /\ loop.pc = "append" => ~ loop.req.sync
      /\ loop.pc = "record" => loop.req.sync
      /\ call.pc \in {"wait", "rollback"} => call.req.sync
  BY DEF IInv, LoopInv, HeadedFor, StampInv
<1>3. ASSUME UNCHANGED <<queue, call, clock>>, loop'.req = loop.req PROVE DistinctChannels' /\ FreshChannels'
  BY <1>3 DEF DistinctChannels, FreshChannels, Syncs
<1>4. ASSUME UNCHANGED <<queue, loop, clock>>, call'.pc # "wait",
             ~ call'.req.sync \/ (call'.req = call.req /\ call'.pc = "rollback")
      PROVE  DistinctChannels' /\ FreshChannels'
  BY <1>4 DEF DistinctChannels, FreshChannels, Syncs
<1>5. ASSUME NEW a \in Actors, NEW ps \in PathLists, NEW sync \in BOOLEAN, Change(a, ps, sync)
      PROVE  DistinctChannels' /\ FreshChannels'
  <2>1. /\ UNCHANGED <<queue, loop>> /\ clock' = clock + 1
        /\ call'.pc = IF sync THEN "send" ELSE "journal"
        /\ call'.req.sync = sync /\ (sync => call'.req.done = clock + 1)
    BY <1>5 DEF Change, mem
  <2>2. \A n \in Nat : n <= clock => n <= clock + 1 /\ n # clock + 1
    BY <1>1
  <2>3. DistinctChannels'
    BY <2>1 DEF DistinctChannels, Syncs
  <2>4. FreshChannels'
    BY <1>1, <2>1, <2>2 DEF FreshChannels, Syncs
  <2> QED BY <2>3, <2>4
<1>6. CASE JournalPaths \/ SendAfterStop \/ Rollback \/ Cancel \/ \E p \in Paths : DrainCommit(p)
  <2>1. UNCHANGED <<queue, loop, clock>>
    BY <1>6 DEF JournalPaths, SendAfterStop, Rollback, Cancel, DrainCommit, mem, files
  <2>2. CASE JournalPaths
    <3>1. call \in ActiveCall /\ call' = [call EXCEPT !.pc = "send"]
      BY <1>1, <2>2, CallUnderWay DEF JournalPaths
    <3>2. call'.pc = "send" /\ call'.req = call.req /\ ~ call.req.sync
      BY <2>2, <3>1 DEF JournalPaths, ActiveCall, FreshChannels
    <3> QED BY <1>4, <2>1, <3>2
  <2>3. CASE SendAfterStop \/ Cancel
    <3>1. call \in ActiveCall /\ (call' = [call EXCEPT !.pc = "rollback"] \/ call' = IdleCall)
      BY <1>1, <2>3, CallUnderWay DEF SendAfterStop, Cancel
    <3>2. (call'.pc = "rollback" /\ call'.req = call.req) \/ call' = IdleCall
      BY <3>1 DEF ActiveCall
    <3> QED BY <1>4, <2>1, <3>2
  <2>4. CASE Rollback \/ \E p \in Paths : DrainCommit(p)
    BY <1>4, <2>1, <2>4 DEF Rollback, DrainCommit
  <2> QED BY <1>6, <2>2, <2>3, <2>4
<1>7. CASE Send
  <2>1. /\ call.pc = "send" /\ queue' = Append(queue, call.req) /\ UNCHANGED <<loop, clock>>
        /\ call.req.sync => call' = [call EXCEPT !.pc = "wait"]
        /\ ~ call.req.sync => call' = IdleCall
    BY <1>7 DEF Send, files
  <2>2. call \in ActiveCall /\ call.req \in Request /\ call.req.sync \in BOOLEAN
    BY <1>1, <2>1, CallUnderWay DEF Request
  <2>3. PICK n : n = Len(queue) + 1
    OBVIOUS
  <2>4. /\ Syncs' = Syncs \union (IF call.req.sync THEN {n} ELSE {})
        /\ \A i \in Syncs : queue'[i] = queue[i]
        /\ queue'[n] = call.req
    BY <1>1, <2>1, <2>2, <2>3, SyncsGrow
  <2>5. call.req.sync => call'.pc = "wait" /\ call'.req = call.req
    BY <2>1, <2>2 DEF ActiveCall
  <2>6. DistinctChannels'
    <3>1. \A i \in Syncs' : (i \in Syncs /\ queue'[i] = queue[i]) \/ (call.req.sync /\ i = n /\ queue'[i] = call.req)
      BY <2>4
    <3>2. call.req.sync => \A i \in Syncs : queue[i].done # call.req.done
      BY <2>1 DEF FreshChannels
    <3>3. \A i, j \in Syncs' : queue'[i].done = queue'[j].done => i = j
      BY <3>1, <3>2 DEF DistinctChannels
    <3>4. loop.req.sync => \A i \in Syncs' : queue'[i].done # loop.req.done
      BY <2>1, <3>1 DEF DistinctChannels, FreshChannels
    <3>5. call'.pc = "wait" => n \in Syncs' /\ queue'[n] = call'.req
      BY <2>1, <2>4, <2>5
    <3> QED BY <2>1, <3>3, <3>4, <3>5 DEF DistinctChannels
  <2>7. FreshChannels'
    BY <2>1, <2>2, <2>4, <2>5 DEF FreshChannels
  <2> QED BY <2>6, <2>7
<1>8. CASE Dequeue
  <2>1. /\ queue # <<>> /\ queue' = Tail(queue) /\ UNCHANGED <<call, clock>> /\ loop'.req = Head(queue)
        /\ loop.req = NoRequest
    BY <1>1, <1>2, <1>8 DEF Dequeue, HeadedFor, LoopState, files
  <2>2. /\ Head(queue) = queue[1] /\ Head(queue) \in Request /\ Head(queue).sync \in BOOLEAN
        /\ Head(queue).sync => 1 \in Syncs
        /\ \A i \in Syncs' : i + 1 \in Syncs /\ i + 1 # 1 /\ queue'[i] = queue[i + 1] /\ i \in Int
        /\ \A i \in Syncs : i # 1 => i - 1 \in Syncs' /\ queue'[i - 1] = queue[i]
    BY <1>1, <2>1, SyncsShrink DEF Request
  <2>3. \A i, j \in Syncs' : queue'[i].done = queue'[j].done => i = j
    <3> SUFFICES ASSUME NEW i \in Syncs', NEW j \in Syncs', queue'[i].done = queue'[j].done PROVE i = j
      OBVIOUS
    <3>1. i + 1 = j + 1 /\ i \in Int /\ j \in Int
      BY <2>2 DEF DistinctChannels
    <3> QED BY <3>1
  <2>4. Head(queue).sync => \A i \in Syncs' : queue'[i].done # Head(queue).done
    BY <2>2 DEF DistinctChannels
  <2>5. call.pc = "wait" => (\E i \in Syncs' : queue'[i] = call.req) \/ Head(queue) = call.req
    <3> SUFFICES ASSUME call.pc = "wait", Head(queue) # call.req PROVE \E i \in Syncs' : queue'[i] = call.req
      OBVIOUS
    <3>1. PICK i \in Syncs : queue[i] = call.req
      BY <1>2, <2>1 DEF DistinctChannels
    <3>2. i # 1
      BY <2>2, <3>1
    <3> QED BY <2>2, <3>1, <3>2
  <2>6. DistinctChannels'
    BY <2>1, <2>3, <2>4, <2>5 DEF DistinctChannels
  <2>7. FreshChannels'
    BY <2>1, <2>2 DEF FreshChannels
  <2> QED BY <2>6, <2>7
<1>9. CASE TimerFires \/ FlushNothing \/ FlushCommits \/ FlushFails \/ ClearJournal \/ StopSeen \/ ChannelDrained
  <2>1. UNCHANGED <<queue, call, clock>> /\ loop'.req = loop.req
    BY <1>1, <1>9 DEF TimerFires, FlushNothing, FlushCommits, FlushFails, ClearJournal, StopSeen, ChannelDrained, LoopState, files
  <2> QED BY <1>3, <2>1
<1>10. CASE AppendReq
  <2>1. UNCHANGED <<queue, call, clock>> /\ ~ loop.req.sync /\ ~ loop'.req.sync
    BY <1>1, <1>2, <1>10 DEF AppendReq, Home, LoopState, FreshLoop, files
  <2>2. call.pc = "wait" => \E i \in Syncs : queue[i] = call.req
    BY <1>2, <2>1 DEF DistinctChannels
  <2> QED BY <2>1, <2>2 DEF DistinctChannels, FreshChannels, Syncs
<1>11. CASE CommitNow \/ CommitNowFails
  <2>1. UNCHANGED <<queue, clock>> /\ ~ loop'.req.sync
    BY <1>1, <1>11 DEF CommitNow, CommitNowFails, Home, LoopState, FreshLoop, files
  <2>2. /\ Heard => \/ call' = IdleCall
                    \/ call'.pc = "rollback" /\ call'.req = call.req
        /\ ~ Heard => call' = call
    <3>1. Heard => call \in ActiveCall
      BY <1>1, CallUnderWay DEF Heard
    <3> QED BY <1>11, <3>1 DEF CommitNow, CommitNowFails, ActiveCall
  <2>3. call'.pc = "wait" => \E i \in Syncs : queue[i] = call'.req
    BY <2>2 DEF DistinctChannels, Heard
  <2> QED BY <2>1, <2>2, <2>3 DEF DistinctChannels, FreshChannels, Syncs
<1>12. CASE DrainRemovesLog \/ Close \/ Restart \/ UNCHANGED vars
  <2>1. UNCHANGED <<queue, call, loop, clock>>
    BY <1>12 DEF DrainRemovesLog, Close, Restart, vars, mem, files
  <2> QED BY <1>3, <2>1
<1>13. CASE ProcessEnds
  <2>1. queue' = <<>> /\ loop' = FreshLoop /\ call' = IdleCall
    BY <1>13 DEF ProcessEnds
  <2>2. Syncs' = {}
    BY <2>1 DEF Syncs
  <2> QED BY <2>1, <2>2 DEF DistinctChannels, FreshChannels
<1> QED
  BY <1>5, <1>6, <1>7, <1>8, <1>9, <1>10, <1>11, <1>12, <1>13 DEF Next, Caller, Loop, Drain

(* Whoever waits for a synchronous commit has its request in the channel   *)
(* or in the hands of the loop, once, and the answer it gets is that of    *)
(* its own request: callers who give up and leave theirs behind, full      *)
(* channels, failed commits, Close and restarts change nothing in that.    *)
THEOREM AnswersFindCallers == Spec => []AnswersFindCaller
<1>1. Init => DistinctChannels /\ FreshChannels
  BY NothingRequested DEF Init, DistinctChannels, FreshChannels, Syncs
<1>2. ASSUME DistinctChannels, IInv PROVE AnswersFindCaller
  <2>1. loop.pc = "record" => loop.req.sync
    BY <1>2 DEF IInv, LoopInv, HeadedFor
  <2>2. call.pc = "wait" => call.req.sync
    BY <1>2 DEF IInv, StampInv
  <2> QED BY <1>2, <2>1, <2>2 DEF DistinctChannels, AnswersFindCaller, Heard
<1> QED BY <1>1, <1>2, StepAnswers, Invariant, PTL DEF Spec
=============================================================================
