---------------------------- MODULE WorkflowProofs ----------------------------
(* Proofs about Workflow: its types, that advances follow the board, and    *)
(* that a card put in progress has no open blocker.                         *)
EXTENDS Workflow, FiniteSetTheorems, TLAPS

-----------------------------------------------------------------------------
(* The values of the module have their types.                              *)
LEMMA Values ==
  /\ NoBoard \in Board /\ NoCard \in Card /\ NoMove \in Move
  /\ \A m \in Move, c \in Cards, new \in Card, reopens \in BOOLEAN : Seen(m, c, new, reopens) \in Move
  /\ \A m \in Move : m.kind # "none" /\ (m.kind # "reorder" => m.target # "none") => Written(m) \in Card
<1>1. NoBoard \in Board
  BY DEF NoBoard, Board
<1>2. NoCard \in Card
  BY DEF NoCard, Card
<1>3. NoMove \in Move
  BY <1>1, <1>2 DEF NoMove, Request, Move
<1>4. ASSUME NEW m \in Move, NEW c \in Cards, NEW new \in Card, NEW reopens \in BOOLEAN
      PROVE  Seen(m, c, new, reopens) \in Move
  BY DEF Seen, Move
<1>5. ASSUME NEW m \in Move, m.kind # "none", m.kind # "reorder" => m.target # "none"
      PROVE  Written(m) \in Card
  <2>1. m.seen \in Card /\ m.wf \in Workflows \union {"none"} /\ m.ordinal \in 0 .. 1
        /\ m.target \in CardStates \union {"none"}
    BY DEF Move
  <2> QED BY <2>1, <1>5 DEF Written, Card
<1> QED BY <1>1, <1>2, <1>3, <1>4, <1>5

(* What no step of a request changes.                                      *)
Same(n, m) == /\ n.kind = m.kind /\ n.card = m.card /\ n.wf = m.wf /\ n.target = m.target
              /\ n.entered = m.entered /\ n.upset = m.upset

(* One field changed.                                                      *)
LEMMA FieldChanged ==
  ASSUME NEW m \in Move
  PROVE
    /\ \A p \in {"idle", "load", "limit", "check", "blockers", "read", "write"} : [m EXCEPT !.pc = p] \in Move
    /\ \A l \in SUBSET Cards : [m EXCEPT !.left = l] \in Move
    /\ \A l \in SUBSET Cards : [m EXCEPT !.column = l] \in Move
    /\ \A l \in SUBSET Cards : [m EXCEPT !.open = l] \in Move
    /\ \A b \in Board : [m EXCEPT !.board = b] \in Move
    /\ \A c \in Card : [m EXCEPT !.seen = c] \in Move
    /\ \A b \in BOOLEAN : [m EXCEPT !.stale = b] \in Move
<1>1. \A p \in {"idle", "load", "limit", "check", "blockers", "read", "write"} : [m EXCEPT !.pc = p] \in Move
  BY SMTT(60) DEF Move
<1>2. \A l \in SUBSET Cards : [m EXCEPT !.left = l] \in Move
  BY SMTT(60) DEF Move
<1>3. \A l \in SUBSET Cards : [m EXCEPT !.column = l] \in Move
  BY SMTT(60) DEF Move
<1>4. \A l \in SUBSET Cards : [m EXCEPT !.open = l] \in Move
  BY SMTT(60) DEF Move
<1>5. \A b \in Board : [m EXCEPT !.board = b] \in Move
  BY SMTT(60) DEF Move
<1>6. \A c \in Card : [m EXCEPT !.seen = c] \in Move
  BY SMTT(60) DEF Move
<1>7. \A b \in BOOLEAN : [m EXCEPT !.stale = b] \in Move
  BY SMTT(60) DEF Move
<1> QED BY <1>1, <1>2, <1>3, <1>4, <1>5, <1>6, <1>7

(* The changes the steps make.                                             *)
ToLeft(m, p, l)     == [m EXCEPT !.pc = p, !.left = l]
ToBoard(m, b, p, l) == [m EXCEPT !.board = b, !.pc = p, !.left = l]
ToColumn(m, l, k)   == [m EXCEPT !.left = l, !.column = k]
ToOpen(m, l, o)     == [m EXCEPT !.left = l, !.open = o]
ToSkip(m, l, e, u)  == [m EXCEPT !.left = l, !.entered = e, !.upset = u]

(* A request that goes on keeps what it has read.                          *)
LEMMA Stepped ==
  ASSUME NEW m \in Move, NEW p \in {"limit", "check", "blockers", "write"}
  PROVE  LET n == [m EXCEPT !.pc = p] IN
         /\ n \in Move /\ Same(n, m) /\ n.pc = p /\ n.seen = m.seen /\ n.board = m.board
         /\ n.left = m.left /\ n.column = m.column /\ n.open = m.open /\ n.stale = m.stale
<1>1. [m EXCEPT !.pc = p] \in Move
  BY FieldChanged
<1> QED BY <1>1, SMTT(60) DEF Move, Same

(* The same, with another walk begun.                                      *)
LEMMA SteppedLeft ==
  ASSUME NEW m \in Move, NEW p \in {"limit", "check", "blockers", "write"}, NEW l \in SUBSET Cards
  PROVE  LET n == ToLeft(m, p, l) IN
         /\ n \in Move /\ Same(n, m) /\ n.pc = p /\ n.seen = m.seen /\ n.board = m.board
         /\ n.left = l /\ n.column = m.column /\ n.open = m.open /\ n.stale = m.stale
<1>1. [[m EXCEPT !.pc = p] EXCEPT !.left = l] \in Move
  BY FieldChanged
<1> QED BY <1>1, SMTT(60) DEF Move, Same, ToLeft

(* The same, with the definition read.                                     *)
LEMMA SteppedBoard ==
  ASSUME NEW m \in Move, NEW b \in Board, NEW p \in {"limit", "check"}, NEW l \in SUBSET Cards
  PROVE  LET n == ToBoard(m, b, p, l) IN
         /\ n \in Move /\ Same(n, m) /\ n.pc = p /\ n.seen = m.seen /\ n.board = b
         /\ n.left = l /\ n.column = m.column /\ n.open = m.open /\ n.stale = m.stale
<1>1. [m EXCEPT !.board = b] \in Move
  BY FieldChanged
<1>2. [[m EXCEPT !.board = b] EXCEPT !.pc = p] \in Move
  BY <1>1, FieldChanged
<1>3. [[[m EXCEPT !.board = b] EXCEPT !.pc = p] EXCEPT !.left = l] \in Move
  BY <1>2, FieldChanged
<1> QED BY <1>3, SMTT(60) DEF Move, Same, ToBoard

(* The same, with a card counted.                                          *)
LEMMA SteppedColumn ==
  ASSUME NEW m \in Move, NEW l \in SUBSET Cards, NEW k \in SUBSET Cards
  PROVE  LET n == ToColumn(m, l, k) IN
         /\ n \in Move /\ Same(n, m) /\ n.pc = m.pc /\ n.seen = m.seen /\ n.board = m.board
         /\ n.left = l /\ n.column = k /\ n.open = m.open /\ n.stale = m.stale
<1>1. [[m EXCEPT !.left = l] EXCEPT !.column = k] \in Move
  BY FieldChanged
<1> QED BY <1>1, SMTT(60) DEF Move, Same, ToColumn

(* The same, with a blocker read.                                          *)
LEMMA SteppedOpen ==
  ASSUME NEW m \in Move, NEW l \in SUBSET Cards, NEW o \in SUBSET Cards
  PROVE  LET n == ToOpen(m, l, o) IN
         /\ n \in Move /\ Same(n, m) /\ n.pc = m.pc /\ n.seen = m.seen /\ n.board = m.board
         /\ n.left = l /\ n.column = m.column /\ n.open = o /\ n.stale = m.stale
<1>1. [[m EXCEPT !.left = l] EXCEPT !.open = o] \in Move
  BY FieldChanged
<1> QED BY <1>1, SMTT(60) DEF Move, Same, ToOpen

(* A page is skipped: the history keeps it.                                *)
LEMMA SteppedSkip ==
  ASSUME NEW m \in Move, NEW l \in SUBSET Cards, NEW e \in SUBSET Cards, NEW u \in SUBSET Cards
  PROVE  LET n == ToSkip(m, l, e, u) IN
         /\ n \in Move /\ n.kind = m.kind /\ n.pc = m.pc /\ n.card = m.card /\ n.wf = m.wf
         /\ n.target = m.target /\ n.seen = m.seen /\ n.board = m.board /\ n.left = l
         /\ n.column = m.column /\ n.open = m.open /\ n.stale = m.stale /\ n.entered = e /\ n.upset = u
<1>1. [m EXCEPT !.left = l] \in Move
  BY FieldChanged
<1>2. \A r \in Move : [r EXCEPT !.entered = e] \in Move
  BY SMTT(60) DEF Move
<1>3. \A r \in Move : [r EXCEPT !.upset = u] \in Move
  BY SMTT(60) DEF Move
<1>4. [[[m EXCEPT !.left = l] EXCEPT !.entered = e] EXCEPT !.upset = u] \in Move
  BY <1>1, <1>2, <1>3
<1> QED BY <1>4, SMTT(60) DEF Move, ToSkip

(* The same, with the card as it is now.                                   *)
LEMMA SteppedSeen ==
  ASSUME NEW m \in Move, NEW c \in Card
  PROVE  LET n == [m EXCEPT !.pc = "write", !.seen = c] IN
         n \in Move /\ Same(n, m) /\ n.pc = "write" /\ n.seen = c
<1>1. [[m EXCEPT !.pc = "write"] EXCEPT !.seen = c] \in Move
  BY FieldChanged
<1> QED BY <1>1, SMTT(60) DEF Move, Same

(* The same, with the definition replaced by another request.              *)
LEMMA SteppedStale ==
  ASSUME NEW m \in Move
  PROVE  LET n == [m EXCEPT !.stale = TRUE] IN
         /\ n \in Move /\ Same(n, m) /\ n.pc = m.pc /\ n.seen = m.seen /\ n.board = m.board
         /\ n.left = m.left /\ n.column = m.column /\ n.open = m.open /\ n.stale
<1>1. [m EXCEPT !.stale = TRUE] \in Move
  BY FieldChanged
<1> QED BY <1>1, SMTT(60) DEF Move, Same

(* A request that starts.                                                  *)
LEMMA Started ==
  ASSUME NEW kind \in {"none", "advance", "assign", "reorder"}, NEW pc \in {"idle", "load", "read", "write"},
         NEW c \in Cards \union {"none"}, NEW w \in Workflows \union {"none"},
         NEW target \in CardStates \union {"none"}, NEW n \in 0 .. 1, NEW card \in Card
  PROVE  LET r == Request(kind, pc, c, w, target, n, card) IN
         /\ r \in Move /\ r.kind = kind /\ r.pc = pc /\ r.card = c /\ r.wf = w
         /\ r.target = target /\ r.seen = card
<1>1. NoBoard \in Board
  BY DEF NoBoard, Board
<1> QED BY <1>1, SMTT(60) DEF Request, Move

(* Seen and the fields it leaves alone.                                    *)
LEMMA SeenKeeps ==
  ASSUME NEW m \in Move, NEW c \in Cards, NEW new \in Card, NEW reopens \in BOOLEAN
  PROVE  LET n == Seen(m, c, new, reopens) IN
         /\ n.kind = m.kind /\ n.pc = m.pc /\ n.card = m.card /\ n.wf = m.wf /\ n.target = m.target
         /\ n.seen = m.seen /\ n.board = m.board /\ n.left = m.left /\ n.column = m.column
         /\ n.open = m.open /\ n.stale = m.stale
BY DEF Seen, Move

(* What it adds to a request's history.                                    *)
LEMMA SeenAdds ==
  ASSUME NEW m \in Move, NEW c \in Cards, NEW new \in Card, NEW reopens \in BOOLEAN
  PROVE  LET n == Seen(m, c, new, reopens) IN
         /\ m.entered \subseteq n.entered /\ m.upset \subseteq n.upset
         /\ InColumn(new, m.seen.wf, m.target) => InColumn(page[c], m.seen.wf, m.target) \/ c \in n.entered
         /\ reopens => c \in n.upset
BY DEF Seen, Move

-----------------------------------------------------------------------------
(* Types, with what kind of request is at which step.                      *)
Kinded(m) ==
  /\ m.pc = "idle" <=> m.kind = "none"
  /\ m.kind # "none" => m.card \in Cards
  /\ m.kind \in {"advance", "assign"} => m.wf \in Workflows /\ m.target \in CardStates
  /\ m.pc \in {"load", "limit", "check", "blockers"} => m.kind = "advance"
  /\ m.pc = "read" => m.kind = "assign"
  /\ m.kind = "advance" => m.seen.wf = m.wf /\ m.seen.state # m.target

Typed == WorkflowTypeOK /\ \A m \in Movers : Kinded(move[m])

(* A write is seen by the others, and changes no step.                     *)
LEMMA WatchedTyped ==
  ASSUME Typed, NEW c \in Cards, NEW new \in Card, NEW reopens \in BOOLEAN
  PROVE  /\ Watched(c, new, reopens) \in [Movers -> Move]
         /\ \A m \in Movers : Kinded(Watched(c, new, reopens)[m])
<1>1. ASSUME NEW m \in Movers
      PROVE  Watched(c, new, reopens)[m] \in Move /\ Kinded(Watched(c, new, reopens)[m])
  <2>1. move[m] \in Move /\ Kinded(move[m])
    BY DEF Typed, WorkflowTypeOK
  <2>2. Watched(c, new, reopens)[m] = IF move[m] = NoMove THEN NoMove ELSE Seen(move[m], c, new, reopens)
    BY DEF Watched
  <2>3. CASE move[m] = NoMove
    BY <2>1, <2>2, <2>3
  <2>4. CASE move[m] # NoMove
    <3> DEFINE n == Seen(move[m], c, new, reopens)
    <3>0. n \in Move
      BY <2>1, Values
    <3>1. /\ n.kind = move[m].kind /\ n.pc = move[m].pc /\ n.card = move[m].card
          /\ n.wf = move[m].wf /\ n.target = move[m].target /\ n.seen = move[m].seen
      BY <2>1, SeenKeeps
    <3> HIDE DEF n
    <3>2. n \in Move /\ Kinded(n)
      BY <2>1, <3>0, <3>1 DEF Kinded
    <3> QED BY <2>2, <2>4, <3>2 DEF n
  <2> QED BY <2>3, <2>4
<1> QED BY <1>1 DEF Watched

(* Every step keeps the types and the kinds of the requests.               *)
LEMMA TypedStep == Typed /\ [WorkflowNext]_workflowVars => Typed'
<1> SUFFICES ASSUME Typed, [WorkflowNext]_workflowVars PROVE Typed'
  OBVIOUS
<1> USE DEF Typed
<1>0. /\ page \in [Cards -> Card] /\ board \in [Workflows -> Board]
      /\ move \in [Movers -> Move] /\ changes \in 0 .. MaxChanges
      /\ \A m \in Movers : Kinded(move[m])
  BY DEF WorkflowTypeOK
<1>a. Kinded(NoMove)
  BY DEF Kinded, NoMove, Request
<1>b. ASSUME Change PROVE changes' \in 0 .. MaxChanges
  BY <1>b, <1>0, WorkflowAssumption DEF Change
<1>c. ASSUME NEW m \in Movers, NEW r \in Move, Kinded(r), move' = [move EXCEPT ![m] = r]
      PROVE  move' \in [Movers -> Move] /\ \A n \in Movers : Kinded(move'[n])
  BY <1>0, <1>c
<1>1. ASSUME NEW m \in Movers, NEW c \in Cards, NEW s \in CardStates, Advance(m, c, s) PROVE Typed'
  <2> DEFINE r == Request("advance", "load", c, page[c].wf, s, 0, page[c])
  <2>a. page[c] \in Card /\ page[c].wf \in Workflows /\ page[c].state # s
    BY <1>0, <1>1 DEF Advance
  <2>b. /\ r \in Move /\ r.kind = "advance" /\ r.pc = "load" /\ r.card = c /\ r.wf = page[c].wf
        /\ r.target = s /\ r.seen = page[c]
    BY <2>a, Started
  <2>2. move' = [move EXCEPT ![m] = r]
    BY <1>1 DEF Advance
  <2> HIDE DEF r
  <2>1. r \in Move /\ Kinded(r)
    BY <2>a, <2>b DEF Kinded
  <2> HIDE DEF r
  <2> QED BY <1>0, <1>1, <1>b, <1>c, <2>1, <2>2 DEF Advance, WorkflowTypeOK
<1>2. ASSUME NEW m \in Movers, LoadBoard(m) PROVE Typed'
  <2> DEFINE b == board[move[m].wf]
             p == IF b.limit[move[m].target] > 0 THEN "limit" ELSE "check"
             l == IF b.limit[move[m].target] > 0 THEN Cards \ {move[m].card} ELSE {}
             r == ToBoard(move[m], b, p, l)
  <2>1. b \in Board /\ move[m].pc = "load" /\ p \in {"limit", "check"} /\ l \in SUBSET Cards
    BY <1>0, <1>2 DEF LoadBoard, Kinded
  <2>2. move' = [move EXCEPT ![m] = r] /\ UNCHANGED <<page, board, changes>>
    BY <1>2 DEF LoadBoard, ToBoard
  <2> HIDE DEF b, p, l
  <2>a. move[m] \in Move /\ Kinded(move[m])
    BY <1>0
  <2>b. r \in Move /\ Same(r, move[m]) /\ r.pc = p /\ r.seen = move[m].seen
    BY <2>1, <2>a, SteppedBoard
  <2> HIDE DEF r
  <2>3. r \in Move /\ Kinded(r)
    BY <2>1, <2>a, <2>b DEF Kinded, Same
  <2> QED BY <1>0, <1>c, <2>2, <2>3 DEF WorkflowTypeOK
<1>3. ASSUME NEW m \in Movers, NEW d \in Cards, CountCard(m, d) PROVE Typed'
  <2> DEFINE k == IF InColumn(page[d], move[m].wf, move[m].target)
                  THEN move[m].column \union {d} ELSE move[m].column
             r == ToColumn(move[m], move[m].left \ {d}, k)
  <2>0. move[m].left \ {d} \in SUBSET Cards /\ k \in SUBSET Cards
    BY <1>0 DEF Move
  <2>1. move' = [move EXCEPT ![m] = r] /\ UNCHANGED <<page, board, changes>>
    BY <1>3 DEF CountCard, ToColumn
  <2>a. move[m] \in Move /\ Kinded(move[m]) /\ move[m].pc = "limit"
    BY <1>0, <1>3 DEF CountCard
  <2>b. r \in Move /\ Same(r, move[m]) /\ r.pc = move[m].pc /\ r.seen = move[m].seen
    BY <2>a, <2>0, SteppedColumn
  <2> HIDE DEF r
  <2>2. r \in Move /\ Kinded(r)
    BY <2>a, <2>b DEF Kinded, Same
  <2> QED BY <1>0, <1>c, <2>1, <2>2 DEF WorkflowTypeOK
<1>4. ASSUME NEW m \in Movers, WithinLimit(m) PROVE Typed'
  <2> DEFINE r == [move[m] EXCEPT !.pc = "check"]
  <2>1. move' = [move EXCEPT ![m] = r] /\ UNCHANGED <<page, board, changes>>
    BY <1>4 DEF WithinLimit
  <2>a. move[m] \in Move /\ Kinded(move[m]) /\ move[m].pc = "limit"
    BY <1>0, <1>4 DEF WithinLimit
  <2>b. r \in Move /\ Same(r, move[m]) /\ r.pc = "check" /\ r.seen = move[m].seen
    BY <2>a, Stepped
  <2> HIDE DEF r
  <2>2. r \in Move /\ Kinded(r)
    BY <2>a, <2>b DEF Kinded, Same
  <2> QED BY <1>0, <1>c, <2>1, <2>2 DEF WorkflowTypeOK
<1>5. ASSUME NEW m \in Movers, CheckMove(m) PROVE Typed'
  <2> DEFINE waits == move[m].target = "in_progress" /\ move[m].seen.blockers # {}
             p == IF waits THEN "blockers" ELSE "write"
             l == IF waits THEN move[m].seen.blockers ELSE {}
             r == ToLeft(move[m], p, l)
  <2>1. p \in {"blockers", "write"} /\ l \in SUBSET Cards
    BY <1>0 DEF Move, Card
  <2>2. move' = [move EXCEPT ![m] = r] /\ UNCHANGED <<page, board, changes>>
    BY <1>5 DEF CheckMove, ToLeft
  <2> HIDE DEF p, l, waits
  <2>a. move[m] \in Move /\ Kinded(move[m]) /\ move[m].pc = "check"
    BY <1>0, <1>5 DEF CheckMove
  <2>b. r \in Move /\ Same(r, move[m]) /\ r.pc = p /\ r.seen = move[m].seen
    BY <2>a, <2>1, SteppedLeft
  <2> HIDE DEF r
  <2>3. r \in Move /\ Kinded(r)
    BY <2>1, <2>a, <2>b DEF Kinded, Same
  <2> QED BY <1>0, <1>c, <2>2, <2>3 DEF WorkflowTypeOK
<1>6. ASSUME NEW m \in Movers, NEW d \in Cards, ReadBlocker(m, d) PROVE Typed'
  <2> DEFINE o == IF page[d] = NoCard \/ Finished(move[m].board, page[d])
                  THEN move[m].open ELSE move[m].open \union {d}
             r == ToOpen(move[m], move[m].left \ {d}, o)
  <2>0. move[m].left \ {d} \in SUBSET Cards /\ o \in SUBSET Cards
    BY <1>0 DEF Move
  <2>1. move' = [move EXCEPT ![m] = r] /\ UNCHANGED <<page, board, changes>>
    BY <1>6 DEF ReadBlocker, ToOpen
  <2>a. move[m] \in Move /\ Kinded(move[m]) /\ move[m].pc = "blockers"
    BY <1>0, <1>6 DEF ReadBlocker
  <2>b. r \in Move /\ Same(r, move[m]) /\ r.pc = move[m].pc /\ r.seen = move[m].seen
    BY <2>a, <2>0, SteppedOpen
  <2> HIDE DEF r
  <2>2. r \in Move /\ Kinded(r)
    BY <2>a, <2>b DEF Kinded, Same
  <2> QED BY <1>0, <1>c, <2>1, <2>2 DEF WorkflowTypeOK
<1>7. ASSUME NEW m \in Movers, Unblocked(m) PROVE Typed'
  <2> DEFINE r == [move[m] EXCEPT !.pc = "write"]
  <2>1. move' = [move EXCEPT ![m] = r] /\ UNCHANGED <<page, board, changes>>
    BY <1>7 DEF Unblocked
  <2>a. move[m] \in Move /\ Kinded(move[m]) /\ move[m].pc = "blockers"
    BY <1>0, <1>7 DEF Unblocked
  <2>b. r \in Move /\ Same(r, move[m]) /\ r.pc = "write" /\ r.seen = move[m].seen
    BY <2>a, Stepped
  <2> HIDE DEF r
  <2>2. r \in Move /\ Kinded(r)
    BY <2>a, <2>b DEF Kinded, Same
  <2> QED BY <1>0, <1>c, <2>1, <2>2 DEF WorkflowTypeOK
<1>8. ASSUME NEW m \in Movers, NEW c \in Cards, NEW w \in Workflows, NEW s \in CardStates,
             Assign(m, c, w, s)
      PROVE  Typed'
  <2> DEFINE r == Request("assign", "read", c, w, s, 0, NoCard)
  <2>b. /\ r \in Move /\ r.kind = "assign" /\ r.pc = "read" /\ r.card = c /\ r.wf = w /\ r.target = s
    BY Values, Started
  <2>2. move' = [move EXCEPT ![m] = r]
    BY <1>8 DEF Assign
  <2> HIDE DEF r
  <2>1. r \in Move /\ Kinded(r)
    BY <2>b DEF Kinded
  <2> HIDE DEF r
  <2> QED BY <1>0, <1>8, <1>b, <1>c, <2>1, <2>2 DEF Assign, WorkflowTypeOK
<1>9. ASSUME NEW m \in Movers, AssignReads(m) PROVE Typed'
  <2>1. page[move[m].card] \in Card
    BY <1>0, <1>9 DEF AssignReads, Kinded
  <2> DEFINE r == [move[m] EXCEPT !.pc = "write", !.seen = page[move[m].card]]
  <2>2. move' = [move EXCEPT ![m] = r] /\ UNCHANGED <<page, board, changes>>
    BY <1>9 DEF AssignReads
  <2>a. move[m] \in Move /\ Kinded(move[m]) /\ move[m].pc = "read"
    BY <1>0, <1>9 DEF AssignReads
  <2>b. r \in Move /\ Same(r, move[m]) /\ r.pc = "write"
    BY <2>a, <2>1, SteppedSeen
  <2> HIDE DEF r
  <2>3. r \in Move /\ Kinded(r)
    BY <2>a, <2>b DEF Kinded, Same
  <2> QED BY <1>0, <1>c, <2>2, <2>3 DEF WorkflowTypeOK
<1>10. ASSUME NEW m \in Movers, NEW c \in Cards, NEW n \in 0 .. 1, Reorder(m, c, n) PROVE Typed'
  <2> DEFINE r == Request("reorder", "write", c, "none", "none", n, page[c])
  <2>a. page[c] \in Card
    BY <1>0
  <2>b. r \in Move /\ r.kind = "reorder" /\ r.pc = "write" /\ r.card = c
    BY <2>a, Started
  <2>2. move' = [move EXCEPT ![m] = r]
    BY <1>10 DEF Reorder
  <2> HIDE DEF r
  <2>1. r \in Move /\ Kinded(r)
    BY <2>b DEF Kinded
  <2> HIDE DEF r
  <2> QED BY <1>0, <1>10, <1>b, <1>c, <2>1, <2>2 DEF Reorder, WorkflowTypeOK
<1>11. ASSUME NEW m \in Movers, WriteCard(m) PROVE Typed'
  <2> DEFINE c   == move[m].card
             new == Written(move[m])
             by  == Reopens(move[m])
  <2>1. c \in Cards
    BY <1>0, <1>11 DEF WriteCard, Kinded
  <2>2. new \in Card
    BY <1>0, <1>11, Values, WorkflowAssumption DEF WriteCard, Kinded, Move
  <2>3. by \in BOOLEAN
    BY DEF Reopens
  <2> HIDE DEF c, new, by
  <2>4. Watched(c, new, by) \in [Movers -> Move] /\ \A n \in Movers : Kinded(Watched(c, new, by)[n])
    BY <2>1, <2>2, <2>3, WatchedTyped
  <2>5. /\ page' = [page EXCEPT ![c] = new]
        /\ move' = [Watched(c, new, by) EXCEPT ![m] = NoMove] /\ UNCHANGED <<board, changes>>
    BY <1>11 DEF WriteCard, c, new, by
  <2> QED BY <1>0, <1>a, <2>1, <2>2, <2>4, <2>5, Values DEF WorkflowTypeOK
<1>12. ASSUME NEW m \in Movers, Refuse(m) PROVE Typed'
  BY <1>0, <1>12, <1>a, <1>c, Values DEF Refuse, WorkflowTypeOK
<1>13. ASSUME NEW c \in Cards, NEW new \in Contents, EditCard(c, new) PROVE Typed'
  <2>1. new \in Card
    BY WorkflowAssumption
  <2>2. move' = Watched(c, new, TRUE) /\ page' = [page EXCEPT ![c] = new] /\ board' = board
    BY <1>13 DEF EditCard
  <2>3. changes' \in 0 .. MaxChanges
    BY <1>13, <1>b DEF EditCard
  <2> QED BY <1>0, <2>1, <2>2, <2>3, WatchedTyped DEF WorkflowTypeOK
<1>14. ASSUME NEW w \in Workflows, NEW b \in Boards, Replace(w, b) PROVE Typed'
  <2>1. ASSUME NEW m \in Movers PROVE move'[m] \in Move /\ Kinded(move'[m])
    <3>1. move'[m] = move[m] \/ move'[m] = [move[m] EXCEPT !.stale = TRUE]
      BY <1>14 DEF Replace
    <3> DEFINE r == [move[m] EXCEPT !.stale = TRUE]
    <3>a. r \in Move /\ Same(r, move[m]) /\ r.pc = move[m].pc /\ r.seen = move[m].seen
      BY <1>0, SteppedStale
    <3> HIDE DEF r
    <3>2. r \in Move /\ Kinded(r)
      BY <1>0, <3>a DEF Kinded, Same
    <3> USE DEF r
    <3> QED BY <1>0, <3>1, <3>2
  <2>2. move' \in [Movers -> Move]
    BY <1>14, <2>1 DEF Replace
  <2>3. board' \in [Workflows -> Board] /\ page' = page
    BY <1>0, <1>14, WorkflowAssumption DEF Replace
  <2>4. changes' \in 0 .. MaxChanges
    BY <1>14, <1>b DEF Replace
  <2> QED BY <1>0, <2>1, <2>2, <2>3, <2>4 DEF WorkflowTypeOK
<1>15. ASSUME NEW m \in Movers, NEW d \in Cards, SkipPage(m, d) PROVE Typed'
  <2> DEFINE e == IF move[m].pc = "limit" THEN move[m].entered \union {d} ELSE move[m].entered
             u == IF move[m].pc = "blockers" THEN move[m].upset \union {d} ELSE move[m].upset
             l == move[m].left \ {d}
             r == ToSkip(move[m], l, e, u)
  <2>0. e \in SUBSET Cards /\ u \in SUBSET Cards /\ l \in SUBSET Cards
    BY <1>0 DEF Move
  <2>1. move' = [move EXCEPT ![m] = r] /\ UNCHANGED <<page, board, changes>>
    BY <1>15 DEF SkipPage, ToSkip
  <2> HIDE DEF e, u, l
  <2>2. /\ r \in Move /\ r.kind = move[m].kind /\ r.pc = move[m].pc /\ r.card = move[m].card
        /\ r.wf = move[m].wf /\ r.target = move[m].target /\ r.seen = move[m].seen
    BY <1>0, <2>0, SteppedSkip
  <2> HIDE DEF r
  <2>3. r \in Move /\ Kinded(r)
    BY <1>0, <2>2 DEF Kinded
  <2> QED BY <1>0, <1>c, <2>1, <2>3 DEF WorkflowTypeOK
<1>16. CASE UNCHANGED workflowVars
  BY <1>16 DEF workflowVars, WorkflowTypeOK
<1> QED
  BY <1>1, <1>2, <1>3, <1>4, <1>5, <1>6, <1>7, <1>8, <1>9, <1>10, <1>11, <1>12, <1>13, <1>14, <1>15, <1>16,
     WorkflowAssumption
     DEF WorkflowNext, SaveWorkflow, DeleteWorkflow, EditBoard

-----------------------------------------------------------------------------
(* The invariant.  Past its walks, a request still knows what it saw: a    *)
(* card in its column was counted, skipped or has entered since, and its   *)
(* card's blockers are free, skipped or were reopened by what              *)
(* StartedIsUnblocked excepts.                                             *)
Checking(m) == m.kind = "advance" /\ m.pc \in {"limit", "check", "blockers", "write"}
Passed(m)   == m.kind = "advance" /\ m.pc \in {"blockers", "write"}

BoardInv(m) == Checking(m) => m.board \in Boards /\ (~m.stale => m.board = board[m.wf])

CountInv(m) ==
  Checking(m) /\ m.board.limit[m.target] > 0 =>
    /\ \A d \in Cards \ {m.card} :
         \/ m.pc = "limit" /\ d \in m.left
         \/ InColumn(page[d], m.wf, m.target) => d \in m.column \union m.entered
    /\ m.pc # "limit" => Cardinality(m.column) < m.board.limit[m.target]

PassInv(m) == Passed(m) => MayLeave(m.board, m.seen.state, m.target)

Free(m, d) ==
  \/ page[d] = NoCard \/ d \in m.upset
  \/ page[d].wf \in Workflows \ {m.wf}
  \/ Finished(m.board, page[d])

BlockInv(m) ==
  Passed(m) /\ m.target = "in_progress" /\ ~m.stale =>
    \A d \in m.seen.blockers : (m.pc = "blockers" /\ d \in m.left \union m.open) \/ Free(m, d)

MoveInv(m) == BoardInv(m) /\ CountInv(m) /\ PassInv(m) /\ BlockInv(m)
WorkflowInv == Typed /\ board \in [Workflows -> Boards] /\ \A m \in Movers : MoveInv(move[m])

(* A request that is not an advance, or has not read its definition, has   *)
(* nothing to know.                                                        *)
LEMMA NothingKnown ==
  ASSUME NEW m, ~Checking(m)
  PROVE  MoveInv(m)
BY DEF MoveInv, BoardInv, CountInv, PassInv, BlockInv, Checking, Passed

(* A write by a request that follows the current definition takes no       *)
(* finished card out of its state, unless it counts as reopening.          *)
LEMMA StaysFinished ==
  ASSUME NEW q \in Move, Kinded(q), q.kind # "none", q.pc = "write", BoardInv(q), PassInv(q), ~Reopens(q),
         page[q.card] = q.seen, NEW w \in Workflows, q.seen.wf \notin Workflows \ {w}, NEW b, b = board[w], Finished(b, q.seen)
  PROVE  Finished(b, Written(q))
<1>1. q.kind \in {"advance", "reorder"} /\ ~q.stale
  BY DEF Reopens, Move
<1>2. CASE q.kind = "reorder"
  BY <1>2 DEF Written, Finished, Move, Card
<1>3. CASE q.kind = "advance"
  <2>1. q.board = b /\ b \in Boards /\ MayLeave(b, q.seen.state, q.target) /\ q.wf = w
    BY <1>1, <1>3 DEF BoardInv, PassInv, Checking, Passed, Kinded
  <2>2. q.seen.state \notin b.terminal
    BY <2>1 DEF MayLeave
  <2>3. CASE q.seen.state \in Ends
    <3>1. q.target \in b.terminal \union Ends
      BY <1>3, <2>1, <2>2, <2>3 DEF Reopens
    <3>2. Written(q).state = q.target
      BY <1>3 DEF Written, Move, Card
    <3> QED BY <3>1, <3>2 DEF Finished
  <2>4. CASE q.seen.state \notin Ends
    <3>1. q.seen.status \in Ends
      BY <2>2, <2>4 DEF Finished
    <3>2. ~(q.seen.adr \/ q.seen.status = q.seen.state)
      BY <1>3, <2>4, <3>1 DEF Reopens
    <3>3. Written(q).status = q.seen.status
      BY <1>3, <3>2 DEF Written, Move, Card
    <3> QED BY <3>1, <3>3 DEF Finished
  <2> QED BY <2>3, <2>4
<1> QED BY <1>1, <1>2, <1>3

(* What the others know survives a write to c by anyone.                   *)
LEMMA SurvivesWrite ==
  ASSUME WorkflowInv, NEW m \in Movers, Checking(move[m]), NEW c \in Cards, NEW new \in Card, NEW reopens \in BOOLEAN,
         page' = [page EXCEPT ![c] = new], board' = board,
         move'[m] = Seen(move[m], c, new, reopens),
         \/ reopens
         \/ page[c].wf \notin Workflows \ {move[m].wf} /\ Finished(board[move[m].wf], page[c]) => Finished(board[move[m].wf], new),
         reopens \/ (page[c] # NoCard /\ new.wf = page[c].wf)
  PROVE  MoveInv(move[m])'
<1> DEFINE r == move[m]
           n == move'[m]
<1>1. r \in Move /\ Kinded(r) /\ MoveInv(r) /\ page \in [Cards -> Card]
  BY DEF WorkflowInv, Typed, WorkflowTypeOK
<1>2. /\ n.kind = r.kind /\ n.pc = r.pc /\ n.card = r.card /\ n.wf = r.wf /\ n.target = r.target
      /\ n.seen = r.seen /\ n.board = r.board /\ n.left = r.left /\ n.column = r.column
      /\ n.open = r.open /\ n.stale = r.stale
  BY <1>1, SeenKeeps
<1>3. /\ r.entered \subseteq n.entered /\ r.upset \subseteq n.upset
      /\ InColumn(new, r.seen.wf, r.target) => InColumn(page[c], r.seen.wf, r.target) \/ c \in n.entered
      /\ reopens => c \in n.upset
  BY <1>1, SeenAdds
<1>4. r.kind = "advance" /\ r.seen.wf = r.wf /\ r.wf \in Workflows
  BY <1>1 DEF Checking, Kinded
<1>5. \A d \in Cards : page'[d] = IF d = c THEN new ELSE page[d]
  BY <1>1
<1>6. BoardInv(move[m])'
  BY <1>1, <1>2 DEF MoveInv, BoardInv, Checking
<1>7. CountInv(move[m])'
  <2> SUFFICES ASSUME Checking(r), r.board.limit[r.target] > 0
               PROVE  /\ \A d \in Cards \ {r.card} :
                           \/ r.pc = "limit" /\ d \in r.left
                           \/ InColumn(page'[d], r.wf, r.target) => d \in r.column \union n.entered
                      /\ r.pc # "limit" => Cardinality(r.column) < r.board.limit[r.target]
    BY <1>2 DEF CountInv, Checking
  <2>1. /\ \A d \in Cards \ {r.card} :
             \/ r.pc = "limit" /\ d \in r.left
             \/ InColumn(page[d], r.wf, r.target) => d \in r.column \union r.entered
        /\ r.pc # "limit" => Cardinality(r.column) < r.board.limit[r.target]
    BY <1>1 DEF MoveInv, CountInv
  <2> QED BY <1>3, <1>4, <1>5, <2>1
<1>8. PassInv(move[m])'
  BY <1>1, <1>2 DEF MoveInv, PassInv, Passed, MayLeave
<1>9. BlockInv(move[m])'
  <2> SUFFICES ASSUME Passed(r), r.target = "in_progress", ~r.stale, NEW d \in r.seen.blockers
               PROVE  (r.pc = "blockers" /\ d \in r.left \union r.open) \/ Free(move[m], d)'
    BY <1>2 DEF BlockInv, Passed
  <2>1. d \in Cards
    BY <1>1 DEF Move, Card
  <2>2. (r.pc = "blockers" /\ d \in r.left \union r.open) \/ Free(r, d)
    BY <1>1 DEF MoveInv, BlockInv
  <2>3. r.board = board[r.wf]
    BY <1>1 DEF MoveInv, BoardInv
  <2>4. ASSUME Free(r, d), d # c PROVE Free(move[m], d)'
    BY <1>2, <1>3, <1>5, <2>1, <2>4 DEF Free, Finished
  <2>5. ASSUME Free(r, d), d = c PROVE Free(move[m], d)'
    <3>1. CASE reopens \/ d \in r.upset
      BY <1>3, <2>5, <3>1 DEF Free
    <3>2. CASE ~reopens /\ d \notin r.upset
      <4>1. page[c] # NoCard /\ new.wf = page[c].wf /\ page'[d] = new
        BY <1>5, <2>1, <2>5, <3>2
      <4>2. CASE page[c].wf \in Workflows \ {r.wf}
        BY <1>2, <4>1, <4>2 DEF Free
      <4>3. CASE page[c].wf \notin Workflows \ {r.wf}
        <5>1. Finished(r.board, page[c])
          BY <2>5, <3>2, <4>1, <4>3 DEF Free
        <5>2. Finished(r.board, new)
          BY <5>1, <2>3, <3>2, <4>3
        <5> QED BY <1>2, <4>1, <5>2 DEF Free, Finished
      <4> QED BY <4>2, <4>3
    <3> QED BY <3>1, <3>2
  <2> QED BY <2>2, <2>4, <2>5
<1> QED BY <1>6, <1>7, <1>8, <1>9 DEF MoveInv

(* A step that changes one request and nothing it is checked against.      *)
LEMMA OwnStep ==
  ASSUME WorkflowInv, NEW m \in Movers, NEW r, move' = [move EXCEPT ![m] = r], UNCHANGED <<page, board>>, MoveInv(r)
  PROVE  \A n \in Movers : MoveInv(move[n])'
<1>1. move \in [Movers -> Move] /\ \A n \in Movers : MoveInv(move[n])
  BY DEF WorkflowInv, Typed, WorkflowTypeOK
<1>2. TAKE n \in Movers
<1>3. MoveInv(move'[n])
  BY <1>1
<1> QED BY <1>3 DEF MoveInv, BoardInv, CountInv, PassInv, BlockInv, Checking, Passed, Free, Finished, InColumn,
                    MayLeave

(* A write to a page: the writer is done, the others have seen it.         *)
LEMMA WriteStep ==
  ASSUME WorkflowInv, NEW q \in Movers, WriteCard(q), Typed'
  PROVE  \A n \in Movers : MoveInv(move[n])'
<1> DEFINE c   == move[q].card
           new == Written(move[q])
           by  == Reopens(move[q])
<1>1. /\ move \in [Movers -> Move] /\ \A n \in Movers : Kinded(move[n]) /\ MoveInv(move[n])
      /\ page \in [Cards -> Card] /\ board \in [Workflows -> Boards]
  BY DEF WorkflowInv, Typed, WorkflowTypeOK
<1>2. /\ move[q].pc = "write" /\ page[c] \in {move[q].seen, NoCard}
      /\ page' = [page EXCEPT ![c] = new] /\ board' = board
      /\ move' = [Watched(c, new, by) EXCEPT ![q] = NoMove]
  BY DEF WriteCard, Matches
<1>3. move[q] \in Move /\ Kinded(move[q]) /\ move[q].kind # "none" /\ c \in Cards
  BY <1>1, <1>2 DEF Kinded
<1>4. new \in Card
  BY <1>1, <1>2, <1>3 DEF Typed, WorkflowTypeOK
<1>5. by \in BOOLEAN
  BY DEF Reopens
<1>6. ~by => page[c] = move[q].seen /\ page[c] # NoCard /\ move[q].kind # "assign"
  BY <1>2 DEF Reopens
<1>7. ~by => new.wf = page[c].wf
  BY <1>3, <1>6 DEF Written, Move, Card
<1>8. TAKE n \in Movers
<1>9. CASE n = q
  <2>1. move'[n] = NoMove
    BY <1>2, <1>9 DEF Watched
  <2>2. ~Checking(move[n])'
    BY <2>1 DEF Checking, NoMove, Request
  <2> QED BY <2>2 DEF MoveInv, BoardInv, CountInv, PassInv, BlockInv, Checking, Passed
<1>10. CASE n # q /\ ~Checking(move[n])
  <2>1. move'[n] = NoMove \/ move'[n] = Seen(move[n], c, new, by)
    BY <1>2, <1>10 DEF Watched
  <2>2. move'[n] = NoMove \/ (move'[n].kind = move[n].kind /\ move'[n].pc = move[n].pc)
    BY <1>1, <1>3, <1>4, <1>5, <2>1, SeenKeeps
  <2>3. ~Checking(move[n])'
    BY <1>10, <2>2 DEF Checking, NoMove, Request
  <2> QED BY <2>3 DEF MoveInv, BoardInv, CountInv, PassInv, BlockInv, Checking, Passed
<1>11. CASE n # q /\ Checking(move[n])
  <2>1. move'[n] = Seen(move[n], c, new, by)
    BY <1>2, <1>11 DEF Watched, Checking, NoMove, Request
  <2>2. move[n].wf \in Workflows
    BY <1>1, <1>11 DEF Checking, Kinded
  <2>3. ASSUME ~by, page[c].wf \notin Workflows \ {move[n].wf}, Finished(board[move[n].wf], page[c])
        PROVE  Finished(board[move[n].wf], new)
    BY <1>1, <1>2, <1>3, <1>6, <2>2, <2>3, StaysFinished DEF MoveInv
  <2> HIDE DEF c, new, by
  <2> QED BY <1>2, <1>3, <1>4, <1>5, <1>6, <1>7, <1>11, <2>1, <2>3, SurvivesWrite
<1> QED BY <1>9, <1>10, <1>11

(* Any other change of a page.                                             *)
LEMMA EditStep ==
  ASSUME WorkflowInv, NEW c \in Cards, NEW new \in Contents, EditCard(c, new)
  PROVE  \A n \in Movers : MoveInv(move[n])'
<1> DEFINE by == TRUE
<1>0. by \in BOOLEAN /\ by
  OBVIOUS
<1>1. new \in Card
  BY WorkflowAssumption
<1>2. /\ move \in [Movers -> Move]
      /\ page' = [page EXCEPT ![c] = new] /\ board' = board /\ move' = Watched(c, new, by)
  BY DEF WorkflowInv, Typed, WorkflowTypeOK, EditCard
<1> HIDE DEF by
<1>3. TAKE n \in Movers
<1>4. move[n] \in Move
  BY <1>2
<1>5. CASE ~Checking(move[n])
  <2>1. move'[n] = NoMove \/ move'[n] = Seen(move[n], c, new, by)
    BY <1>2 DEF Watched
  <2>a. by \in BOOLEAN
    BY <1>0
  <2>b. /\ Seen(move[n], c, new, by).kind = move[n].kind
        /\ Seen(move[n], c, new, by).pc = move[n].pc
    BY <1>1, <1>4, <2>a, SeenKeeps
  <2>2. move'[n] = NoMove \/ (move'[n].kind = move[n].kind /\ move'[n].pc = move[n].pc)
    BY <2>1, <2>b
  <2>3. ~Checking(move[n])'
    BY <1>5, <2>2 DEF Checking, NoMove, Request
  <2> QED BY <2>3 DEF MoveInv, BoardInv, CountInv, PassInv, BlockInv, Checking, Passed
<1>6. CASE Checking(move[n])
  <2>1. move'[n] = Seen(move[n], c, new, by)
    BY <1>2, <1>6 DEF Watched, Checking, NoMove, Request
  <2> QED BY <1>0, <1>1, <1>2, <1>6, <2>1, SurvivesWrite
<1> QED BY <1>5, <1>6

(* A definition changes: who has read the old one is stale.                *)
LEMMA ReplaceStep ==
  ASSUME WorkflowInv, NEW w \in Workflows, NEW b \in Boards, Replace(w, b)
  PROVE  \A n \in Movers : MoveInv(move[n])'
<1>1. TAKE n \in Movers
<1>2. move[n] \in Move /\ MoveInv(move[n]) /\ page' = page
  BY DEF WorkflowInv, Typed, WorkflowTypeOK, Replace
<1>3. CASE move[n] = NoMove \/ move[n].pc = "load"
  <2>1. move'[n] = move[n]
    BY <1>3 DEF Replace
  <2>2. ~Checking(move[n])'
    BY <1>3, <2>1 DEF Checking, NoMove, Request
  <2> QED BY <2>2 DEF MoveInv, BoardInv, CountInv, PassInv, BlockInv, Checking, Passed
<1>4. CASE ~(move[n] = NoMove \/ move[n].pc = "load")
  <2> DEFINE r == move'[n]
  <2>1. r = [move[n] EXCEPT !.stale = TRUE]
    BY <1>4 DEF Replace
  <2>2. /\ Same(r, move[n]) /\ r.pc = move[n].pc /\ r.seen = move[n].seen /\ r.board = move[n].board
        /\ r.left = move[n].left /\ r.column = move[n].column /\ r.open = move[n].open /\ r.stale
    BY <1>2, <2>1, SteppedStale
  <2>3. BoardInv(move[n])' /\ BlockInv(move[n])'
    BY <1>2, <2>2 DEF MoveInv, BoardInv, BlockInv, Checking, Passed, Same
  <2>4. CountInv(move[n])'
    BY <1>2, <2>2 DEF MoveInv, CountInv, Checking, Same, InColumn
  <2>5. PassInv(move[n])'
    BY <1>2, <2>2 DEF MoveInv, PassInv, Passed, Same, MayLeave
  <2> QED BY <2>3, <2>4, <2>5 DEF MoveInv
<1> QED BY <1>3, <1>4

(* Every step keeps the invariant.                                         *)
LEMMA StepWorkflow == WorkflowInv /\ [WorkflowNext]_workflowVars => WorkflowInv'
<1> SUFFICES ASSUME WorkflowInv, [WorkflowNext]_workflowVars PROVE WorkflowInv'
  OBVIOUS
<1>0. /\ Typed /\ Typed' /\ move \in [Movers -> Move] /\ page \in [Cards -> Card]
      /\ \A m \in Movers : move[m] \in Move /\ Kinded(move[m]) /\ MoveInv(move[m])
  BY TypedStep DEF WorkflowInv, Typed, WorkflowTypeOK
<1>a. (\A m \in Movers : MoveInv(move[m])') /\ board' = board => WorkflowInv'
  BY <1>0 DEF WorkflowInv
<1>1. ASSUME NEW m \in Movers, NEW c \in Cards, NEW s \in CardStates, Advance(m, c, s) PROVE WorkflowInv'
  <2> DEFINE r == Request("advance", "load", c, page[c].wf, s, 0, page[c])
  <2>1. MoveInv(r)
    BY NothingKnown DEF Checking, Request
  <2>2. move' = [move EXCEPT ![m] = r] /\ UNCHANGED <<page, board>>
    BY <1>1 DEF Advance
  <2> HIDE DEF r
  <2> QED BY <1>a, <2>1, <2>2, OwnStep
<1>2. ASSUME NEW m \in Movers, LoadBoard(m) PROVE WorkflowInv'
  <2> DEFINE b == board[move[m].wf]
             p == IF b.limit[move[m].target] > 0 THEN "limit" ELSE "check"
             l == IF b.limit[move[m].target] > 0 THEN Cards \ {move[m].card} ELSE {}
             r == ToBoard(move[m], b, p, l)
  <2>1. move' = [move EXCEPT ![m] = r] /\ UNCHANGED <<page, board>>
    BY <1>2 DEF LoadBoard, ToBoard
  <2>2. /\ move[m].kind = "advance" /\ b \in Boards /\ b \in Board /\ p \in {"limit", "check"}
        /\ l \in SUBSET Cards
    BY <1>0, <1>2, WorkflowAssumption DEF LoadBoard, Kinded, WorkflowInv
  <2>3. /\ Same(r, move[m]) /\ r.pc = p /\ r.seen = move[m].seen /\ r.board = b /\ r.left = l
    BY <1>0, <2>2, SteppedBoard
  <2>4. p = "limit" => l = Cards \ {move[m].card}
    OBVIOUS
  <2>5. b.limit[move[m].target] > 0 => p = "limit"
    OBVIOUS
  <2>6. BoardInv(r)
    BY <2>2, <2>3 DEF BoardInv, Same
  <2> HIDE DEF r, p, l
  <2>7. CountInv(r)
    BY <2>3, <2>4, <2>5 DEF CountInv, Same
  <2>8. PassInv(r) /\ BlockInv(r)
    BY <2>2, <2>3 DEF PassInv, BlockInv, Passed
  <2> QED BY <1>a, <2>1, <2>6, <2>7, <2>8, OwnStep DEF MoveInv
<1>3. ASSUME NEW m \in Movers, NEW d \in Cards, CountCard(m, d) PROVE WorkflowInv'
  <2> DEFINE k == IF InColumn(page[d], move[m].wf, move[m].target)
                  THEN move[m].column \union {d} ELSE move[m].column
             r == ToColumn(move[m], move[m].left \ {d}, k)
  <2>1. move' = [move EXCEPT ![m] = r] /\ UNCHANGED <<page, board>>
    BY <1>3 DEF CountCard, ToColumn
  <2>2. /\ move[m].pc = "limit" /\ move[m].kind = "advance" /\ k \in SUBSET Cards
        /\ move[m].left \ {d} \in SUBSET Cards
    BY <1>0, <1>3 DEF CountCard, Kinded, Move
  <2>3. /\ Same(r, move[m]) /\ r.pc = "limit" /\ r.seen = move[m].seen /\ r.board = move[m].board
        /\ r.left = move[m].left \ {d} /\ r.column = k /\ r.stale = move[m].stale
    BY <1>0, <2>2, SteppedColumn
  <2>4. move[m].column \subseteq k /\ (InColumn(page[d], move[m].wf, move[m].target) => d \in k)
    OBVIOUS
  <2> HIDE DEF r, k
  <2>5. BoardInv(r)
    BY <1>0, <2>2, <2>3 DEF MoveInv, BoardInv, Checking, Same
  <2>6. CountInv(r)
    BY <1>0, <2>2, <2>3, <2>4 DEF MoveInv, CountInv, Checking, Same
  <2>7. PassInv(r) /\ BlockInv(r)
    BY <2>3 DEF PassInv, BlockInv, Passed
  <2> QED BY <1>a, <2>1, <2>5, <2>6, <2>7, OwnStep DEF MoveInv
<1>4. ASSUME NEW m \in Movers, WithinLimit(m) PROVE WorkflowInv'
  <2> DEFINE r == [move[m] EXCEPT !.pc = "check"]
  <2>1. /\ move' = [move EXCEPT ![m] = r] /\ UNCHANGED <<page, board>> /\ move[m].pc = "limit"
        /\ move[m].kind = "advance" /\ move[m].left = {} /\ ~Full(move[m].board, move[m].column, move[m].target)
    BY <1>0, <1>4 DEF WithinLimit, Kinded
  <2>2. /\ Same(r, move[m]) /\ r.pc = "check" /\ r.seen = move[m].seen /\ r.board = move[m].board
        /\ r.column = move[m].column /\ r.stale = move[m].stale
    BY <1>0, Stepped
  <2>3. Cardinality(move[m].column) < move[m].board.limit[move[m].target]
    <3>1. Cardinality(move[m].column) \in Nat
      BY <1>0, WorkflowAssumption, FS_Subset, FS_CardinalityType DEF Move
    <3>2. move[m].board.limit[move[m].target] \in Nat
      BY <1>0, <2>1 DEF Move, Board, Kinded
    <3> QED BY <2>1, <3>1, <3>2 DEF Full
  <2> HIDE DEF r
  <2>4. BoardInv(r)
    BY <1>0, <2>1, <2>2 DEF MoveInv, BoardInv, Checking, Same
  <2>5. CountInv(r)
    BY <1>0, <2>1, <2>2, <2>3 DEF MoveInv, CountInv, Checking, Same
  <2>6. PassInv(r) /\ BlockInv(r)
    BY <2>2 DEF PassInv, BlockInv, Passed
  <2> QED BY <1>a, <2>1, <2>4, <2>5, <2>6, OwnStep DEF MoveInv
<1>5. ASSUME NEW m \in Movers, CheckMove(m) PROVE WorkflowInv'
  <2> DEFINE waits == move[m].target = "in_progress" /\ move[m].seen.blockers # {}
             p == IF waits THEN "blockers" ELSE "write"
             l == IF waits THEN move[m].seen.blockers ELSE {}
             r == ToLeft(move[m], p, l)
  <2>1. /\ move' = [move EXCEPT ![m] = r] /\ UNCHANGED <<page, board>>
        /\ move[m].pc = "check" /\ move[m].kind = "advance" /\ Passes(move[m])
    BY <1>0, <1>5 DEF CheckMove, Kinded, ToLeft
  <2>2. p \in {"blockers", "write"} /\ l \in SUBSET Cards
    BY <1>0 DEF Move, Card
  <2>3. /\ Same(r, move[m]) /\ r.pc = p /\ r.seen = move[m].seen /\ r.board = move[m].board /\ r.left = l
        /\ r.column = move[m].column /\ r.stale = move[m].stale
    BY <1>0, <2>2, SteppedLeft
  <2>4. move[m].target = "in_progress" /\ move[m].seen.blockers # {} => p = "blockers" /\ l = move[m].seen.blockers
    OBVIOUS
  <2> HIDE DEF r, p, l, waits
  <2>5. BoardInv(r)
    BY <1>0, <2>1, <2>3 DEF MoveInv, BoardInv, Checking, Same
  <2>6. CountInv(r)
    BY <1>0, <2>1, <2>2, <2>3 DEF MoveInv, CountInv, Checking, Same
  <2>7. PassInv(r)
    BY <2>1, <2>3 DEF PassInv, Passes, Same
  <2>8. BlockInv(r)
    BY <2>3, <2>4 DEF BlockInv, Same
  <2> QED BY <1>a, <2>1, <2>5, <2>6, <2>7, <2>8, OwnStep DEF MoveInv
<1>6. ASSUME NEW m \in Movers, NEW d \in Cards, ReadBlocker(m, d) PROVE WorkflowInv'
  <2> DEFINE o == IF page[d] = NoCard \/ Finished(move[m].board, page[d])
                  THEN move[m].open ELSE move[m].open \union {d}
             r == ToOpen(move[m], move[m].left \ {d}, o)
  <2>1. move' = [move EXCEPT ![m] = r] /\ UNCHANGED <<page, board>>
    BY <1>6 DEF ReadBlocker, ToOpen
  <2>2. /\ move[m].pc = "blockers" /\ move[m].kind = "advance" /\ o \in SUBSET Cards
        /\ move[m].left \ {d} \in SUBSET Cards
    BY <1>0, <1>6 DEF ReadBlocker, Kinded, Move
  <2>3. /\ Same(r, move[m]) /\ r.pc = "blockers" /\ r.seen = move[m].seen /\ r.board = move[m].board
        /\ r.left = move[m].left \ {d} /\ r.open = o /\ r.column = move[m].column /\ r.stale = move[m].stale
    BY <1>0, <2>2, SteppedOpen
  <2>4. move[m].open \subseteq o /\ (d \in o \/ page[d] = NoCard \/ Finished(move[m].board, page[d]))
    OBVIOUS
  <2> HIDE DEF r, o
  <2>5. BoardInv(r)
    BY <1>0, <2>2, <2>3 DEF MoveInv, BoardInv, Checking, Same
  <2>6. CountInv(r)
    BY <1>0, <2>2, <2>3 DEF MoveInv, CountInv, Checking, Same
  <2>7. PassInv(r)
    BY <1>0, <2>2, <2>3 DEF MoveInv, PassInv, Passed, Same
  <2>8. BlockInv(r)
    BY <1>0, <2>2, <2>3, <2>4 DEF MoveInv, BlockInv, Passed, Same, Free
  <2> QED BY <1>a, <2>1, <2>5, <2>6, <2>7, <2>8, OwnStep DEF MoveInv
<1>7. ASSUME NEW m \in Movers, Unblocked(m) PROVE WorkflowInv'
  <2> DEFINE r == [move[m] EXCEPT !.pc = "write"]
  <2>1. /\ move' = [move EXCEPT ![m] = r] /\ UNCHANGED <<page, board>> /\ move[m].pc = "blockers"
        /\ move[m].kind = "advance" /\ move[m].left = {} /\ move[m].open = {}
    BY <1>0, <1>7 DEF Unblocked, Kinded
  <2>2. /\ Same(r, move[m]) /\ r.pc = "write" /\ r.seen = move[m].seen /\ r.board = move[m].board
        /\ r.column = move[m].column /\ r.stale = move[m].stale
    BY <1>0, Stepped
  <2> HIDE DEF r
  <2>4. BoardInv(r)
    BY <1>0, <2>1, <2>2 DEF MoveInv, BoardInv, Checking, Same
  <2>5. CountInv(r)
    BY <1>0, <2>1, <2>2 DEF MoveInv, CountInv, Checking, Same
  <2>6. PassInv(r)
    BY <1>0, <2>1, <2>2 DEF MoveInv, PassInv, Passed, Same
  <2>7. BlockInv(r)
    BY <1>0, <2>1, <2>2 DEF MoveInv, BlockInv, Passed, Same, Free
  <2> QED BY <1>a, <2>1, <2>4, <2>5, <2>6, <2>7, OwnStep DEF MoveInv
<1>8. ASSUME NEW m \in Movers, NEW c \in Cards, NEW w \in Workflows, NEW s \in CardStates,
             Assign(m, c, w, s)
      PROVE  WorkflowInv'
  <2> DEFINE r == Request("assign", "read", c, w, s, 0, NoCard)
  <2>1. MoveInv(r)
    BY NothingKnown DEF Checking, Request
  <2>2. move' = [move EXCEPT ![m] = r] /\ UNCHANGED <<page, board>>
    BY <1>8 DEF Assign
  <2> HIDE DEF r
  <2> QED BY <1>a, <2>1, <2>2, OwnStep
<1>9. ASSUME NEW m \in Movers, AssignReads(m) PROVE WorkflowInv'
  <2> DEFINE r == [move[m] EXCEPT !.pc = "write", !.seen = page[move[m].card]]
  <2>1. /\ move' = [move EXCEPT ![m] = r] /\ UNCHANGED <<page, board>> /\ move[m].kind = "assign"
        /\ page[move[m].card] \in Card
    BY <1>0, <1>9 DEF AssignReads, Kinded
  <2>2. r.kind = "assign"
    BY <1>0, <2>1, SteppedSeen DEF Same
  <2> HIDE DEF r
  <2>3. MoveInv(r)
    BY <2>2, NothingKnown DEF Checking
  <2> QED BY <1>a, <2>1, <2>3, OwnStep
<1>10. ASSUME NEW m \in Movers, NEW c \in Cards, NEW n \in 0 .. 1, Reorder(m, c, n) PROVE WorkflowInv'
  <2> DEFINE r == Request("reorder", "write", c, "none", "none", n, page[c])
  <2>1. MoveInv(r)
    BY NothingKnown DEF Checking, Request
  <2>2. move' = [move EXCEPT ![m] = r] /\ UNCHANGED <<page, board>>
    BY <1>10 DEF Reorder
  <2> HIDE DEF r
  <2> QED BY <1>a, <2>1, <2>2, OwnStep
<1>11. ASSUME NEW m \in Movers, WriteCard(m) PROVE WorkflowInv'
  BY <1>0, <1>11, <1>a, WriteStep DEF WriteCard
<1>12. ASSUME NEW m \in Movers, Refuse(m) PROVE WorkflowInv'
  <2>1. MoveInv(NoMove)
    BY NothingKnown DEF Checking, NoMove, Request
  <2> QED BY <1>12, <1>a, <2>1, OwnStep DEF Refuse
<1>13. ASSUME NEW c \in Cards, NEW new \in Contents, EditCard(c, new) PROVE WorkflowInv'
  BY <1>13, <1>a, EditStep DEF EditCard
<1>14. ASSUME NEW w \in Workflows, NEW b \in Boards, Replace(w, b) PROVE WorkflowInv'
  <2>1. board' \in [Workflows -> Boards]
    BY <1>14 DEF Replace, WorkflowInv
  <2> QED BY <1>0, <1>14, <2>1, ReplaceStep DEF WorkflowInv
<1>15. ASSUME NEW m \in Movers, NEW d \in Cards, SkipPage(m, d) PROVE WorkflowInv'
  <2> DEFINE e == IF move[m].pc = "limit" THEN move[m].entered \union {d} ELSE move[m].entered
             u == IF move[m].pc = "blockers" THEN move[m].upset \union {d} ELSE move[m].upset
             l == move[m].left \ {d}
             r == ToSkip(move[m], l, e, u)
  <2>0. e \in SUBSET Cards /\ u \in SUBSET Cards /\ l \in SUBSET Cards
    BY <1>0 DEF Move
  <2>1. move' = [move EXCEPT ![m] = r] /\ UNCHANGED <<page, board>> /\ move[m].pc \in {"limit", "blockers"}
    BY <1>15 DEF SkipPage, ToSkip
  <2>2. /\ move[m].entered \subseteq e /\ (move[m].pc = "limit" => d \in e)
        /\ move[m].upset \subseteq u /\ (move[m].pc = "blockers" => d \in u)
        /\ l = move[m].left \ {d}
    OBVIOUS
  <2> HIDE DEF e, u, l
  <2>3. /\ r.kind = move[m].kind /\ r.pc = move[m].pc /\ r.card = move[m].card /\ r.wf = move[m].wf
        /\ r.target = move[m].target /\ r.seen = move[m].seen /\ r.board = move[m].board /\ r.left = l
        /\ r.column = move[m].column /\ r.open = move[m].open /\ r.stale = move[m].stale
        /\ r.entered = e /\ r.upset = u
    BY <1>0, <2>0, SteppedSkip
  <2> HIDE DEF r
  <2>5. BoardInv(r)
    BY <1>0, <2>1, <2>3 DEF MoveInv, BoardInv, Checking
  <2>6. CountInv(r)
    BY <1>0, <2>1, <2>2, <2>3 DEF MoveInv, CountInv, Checking
  <2>7. PassInv(r)
    BY <1>0, <2>3 DEF MoveInv, PassInv, Passed
  <2>8. BlockInv(r)
    BY <1>0, <2>1, <2>2, <2>3 DEF MoveInv, BlockInv, Passed, Free
  <2> QED BY <1>a, <2>1, <2>5, <2>6, <2>7, <2>8, OwnStep DEF MoveInv
<1>16. CASE UNCHANGED workflowVars
  BY <1>0, <1>16 DEF workflowVars, WorkflowInv, MoveInv, BoardInv, CountInv, PassInv, BlockInv, Free
<1> QED
  BY <1>1, <1>2, <1>3, <1>4, <1>5, <1>6, <1>7, <1>8, <1>9, <1>10, <1>11, <1>12, <1>13, <1>14, <1>15, <1>16,
     WorkflowAssumption
     DEF WorkflowNext, SaveWorkflow, DeleteWorkflow, EditBoard

(* It holds in every state.                                                *)
LEMMA WorkflowInvariance == WorkflowSpec => []WorkflowInv
<1>1. WorkflowInit => WorkflowInv
  <2> SUFFICES ASSUME WorkflowInit PROVE WorkflowInv
    OBVIOUS
  <2>1. Typed
    BY Values, WorkflowAssumption DEF WorkflowInit, Typed, WorkflowTypeOK, Kinded, NoMove, Request
  <2>2. MoveInv(NoMove)
    BY NothingKnown DEF Checking, NoMove, Request
  <2> QED BY <2>1, <2>2 DEF WorkflowInit, WorkflowInv
<1> QED BY <1>1, StepWorkflow, PTL DEF WorkflowSpec

-----------------------------------------------------------------------------
(* The results.                                                            *)

(* Every variable stays in its type, whatever requests, edits and changed  *)
(* definitions do.                                                         *)
THEOREM WorkflowTyped == WorkflowSpec => []WorkflowTypeOK
<1>1. WorkflowInv => WorkflowTypeOK
  BY DEF WorkflowInv, Typed
<1> QED BY <1>1, WorkflowInvariance, PTL

(* Only its own write changes a card and ends its request.                 *)
LEMMA OnlyWriteMoves ==
  ASSUME WorkflowInv, [WorkflowNext]_workflowVars, NEW m \in Movers, Moves(m)
  PROVE  WriteCard(m)
<1>1. move[m] \in Move /\ move[m].kind = "advance" /\ move'[m].kind = "none" /\ move[m] # NoMove
      /\ Kinded(move[m])
  BY DEF WorkflowInv, Typed, WorkflowTypeOK, Moves, NoMove, Request
<1>2. move[m].card \in Cards /\ page' # page
  BY <1>1 DEF Moves, Kinded
<1>3. ASSUME NEW c \in Cards, NEW new \in Card, NEW reopens \in BOOLEAN,
             move'[m] = Seen(move[m], c, new, reopens)
      PROVE  FALSE
  <2>1. Seen(move[m], c, new, reopens).kind = move[m].kind
    BY <1>1, SeenKeeps
  <2> QED BY <1>1, <1>3, <2>1
<1>4. ASSUME NEW q \in Movers, WriteCard(q), q # m PROVE FALSE
  <2>1. move'[m] = Seen(move[m], move[q].card, Written(move[q]), Reopens(move[q]))
    BY <1>1, <1>4 DEF WriteCard, Watched, WorkflowInv, Typed, WorkflowTypeOK
  <2>2. move[q] \in Move /\ Kinded(move[q]) /\ move[q].pc = "write"
    BY <1>4 DEF WriteCard, WorkflowInv, Typed, WorkflowTypeOK
  <2>3. move[q].card \in Cards /\ move[q].kind # "none"
        /\ (move[q].kind # "reorder" => move[q].target # "none")
    BY <2>2, WorkflowAssumption DEF Kinded, Move
  <2>4. Written(move[q]) \in Card
    BY <2>2, <2>3, Values
  <2>5. Reopens(move[q]) \in BOOLEAN
    BY DEF Reopens
  <2> QED BY <1>3, <2>1, <2>3, <2>4, <2>5
<1>5. ASSUME NEW c \in Cards, NEW new \in Contents, EditCard(c, new) PROVE FALSE
  <2>1. move'[m] = Seen(move[m], c, new, TRUE)
    BY <1>1, <1>5 DEF EditCard, Watched
  <2>2. new \in Card
    BY WorkflowAssumption
  <2> QED BY <1>3, <2>1, <2>2
<1>6. CASE \E q \in Movers : WriteCard(q)
  <2>1. PICK q \in Movers : WriteCard(q)
    BY <1>6
  <2> QED BY <1>4, <2>1
<1>7. CASE \E c \in Cards, new \in Contents : EditCard(c, new)
  BY <1>5, <1>7
<1>8. CASE \E w \in Workflows, b \in Boards : Replace(w, b)
  BY <1>2, <1>8 DEF Replace
<1>9. ASSUME NEW q \in Movers,
             \/ \E c \in Cards :
                  \/ \E s \in CardStates : Advance(q, c, s) \/ \E w \in Workflows : Assign(q, c, w, s)
                  \/ \E n \in 0 .. 1 : Reorder(q, c, n)
                  \/ CountCard(q, c) \/ ReadBlocker(q, c) \/ SkipPage(q, c)
             \/ LoadBoard(q) \/ WithinLimit(q) \/ CheckMove(q) \/ Unblocked(q)
             \/ AssignReads(q) \/ Refuse(q)
      PROVE  FALSE
  <2>1. page' = page
    BY <1>9 DEF SkipPage, Advance, Assign, Reorder, CountCard, ReadBlocker, LoadBoard, WithinLimit, CheckMove,
                Unblocked, AssignReads, Refuse
  <2> QED BY <1>2, <2>1
<1>10. CASE UNCHANGED workflowVars
  BY <1>2, <1>10 DEF workflowVars
<1> QED
  BY <1>6, <1>7, <1>8, <1>9, <1>10, WorkflowAssumption
     DEF WorkflowNext, SaveWorkflow, EditBoard, DeleteWorkflow

(* Advances follow the board they read and keep its limits, whatever other *)
(* requests do between the read of the card and its write.                 *)
THEOREM MovesAreAllowed == WorkflowSpec => MovesFollowBoard
<1>1. ASSUME WorkflowInv, [WorkflowNext]_workflowVars, NEW m \in Movers, Moves(m)
      PROVE  LET b == move[m].board
                 c == move[m].card
                 column == {d \in Cards : InColumn(page'[d], move[m].wf, move[m].target)}
             IN  /\ page[c] # NoCard =>
                      /\ page[c].state \notin b.terminal
                      /\ <<page[c].state, page'[c].state>> \in b.transitions
                 /\ b.limit[move[m].target] > 0 =>
                      Cardinality(column \ move[m].entered) <= b.limit[move[m].target]
  <2> DEFINE r == move[m]
             c == r.card
             limit == r.board.limit[r.target]
             column == {d \in Cards : InColumn(page'[d], r.wf, r.target)} \ r.entered
  <2>1. /\ r \in Move /\ Kinded(r) /\ MoveInv(r) /\ r.kind = "advance" /\ page \in [Cards -> Card]
        /\ r.pc = "write" /\ page[c] \in {r.seen, NoCard} /\ page' = [page EXCEPT ![c] = Written(r)]
    BY <1>1, OnlyWriteMoves DEF WorkflowInv, Typed, WorkflowTypeOK, Moves, WriteCard, Matches
  <2>2. c \in Cards /\ r.target \in CardStates /\ r.board \in Boards
    BY <2>1 DEF Kinded, MoveInv, BoardInv, Checking
  <2>3. Written(r).state = r.target
    BY <2>1 DEF Written, Move, Card
  <2>4. ASSUME page[c] # NoCard
        PROVE  page[c].state \notin r.board.terminal /\ <<page[c].state, page'[c].state>> \in r.board.transitions
    <3>1. MayLeave(r.board, r.seen.state, r.target)
      BY <2>1 DEF MoveInv, PassInv, Passed
    <3> QED BY <2>1, <2>2, <2>3, <2>4, <3>1 DEF MayLeave
  <2>5. ASSUME limit > 0 PROVE Cardinality(column) <= limit
    <3>1. /\ \A d \in Cards \ {c} : InColumn(page[d], r.wf, r.target) => d \in r.column \union r.entered
          /\ Cardinality(r.column) < limit
      BY <2>1, <2>5 DEF MoveInv, CountInv, Checking
    <3>2. column \subseteq r.column \union {c}
      BY <2>1, <3>1
    <3>3. IsFiniteSet(r.column)
      BY <2>1, WorkflowAssumption, FS_Subset DEF Move
    <3>4. /\ IsFiniteSet(r.column \union {c})
          /\ Cardinality(r.column \union {c}) <= Cardinality(r.column) + 1
      <4>1. /\ IsFiniteSet(r.column \union {c})
            /\ Cardinality(r.column \union {c}) =
                 IF c \in r.column THEN Cardinality(r.column) ELSE Cardinality(r.column) + 1
        BY <3>3, FS_AddElement
      <4>2. Cardinality(r.column) \in Nat
        BY <3>3, FS_CardinalityType
      <4> QED BY <4>1, <4>2
    <3>5. Cardinality(column) <= Cardinality(r.column \union {c}) /\ IsFiniteSet(column)
      <4> HIDE DEF column
      <4>1. column \in SUBSET (r.column \union {c})
        BY <3>2
      <4> QED BY <3>4, <4>1, FS_Subset
    <3>6. limit \in Nat
      BY <2>2, WorkflowAssumption DEF Board
    <3>7. Cardinality(column) \in Nat /\ Cardinality(r.column) \in Nat /\ Cardinality(r.column \union {c}) \in Nat
      BY <3>3, <3>4, <3>5, FS_CardinalityType
    <3> HIDE DEF column, limit
    <3> QED BY <3>1, <3>4, <3>5, <3>6, <3>7
  <2> QED BY <2>4, <2>5
<1>2. ASSUME WorkflowInv, [WorkflowNext]_workflowVars
      PROVE  \A m \in Movers : Moves(m) =>
               LET b == move[m].board
                   c == move[m].card
                   column == {d \in Cards : InColumn(page'[d], move[m].wf, move[m].target)}
               IN  /\ page[c] # NoCard =>
                        /\ page[c].state \notin b.terminal
                        /\ <<page[c].state, page'[c].state>> \in b.transitions
                   /\ b.limit[move[m].target] > 0 =>
                        Cardinality(column \ move[m].entered) <= b.limit[move[m].target]
  BY <1>1, <1>2
<1> QED BY <1>2, WorkflowInvariance, PTL DEF WorkflowSpec, MovesFollowBoard

(* No advance puts a card in progress while one of its blockers is open,   *)
(* however the walk over the blockers interleaves with other requests.     *)
THEOREM StartedFree == WorkflowSpec => StartedIsUnblocked
<1>1. ASSUME WorkflowInv, [WorkflowNext]_workflowVars, NEW m \in Movers,
             Moves(m), move[m].target = "in_progress", ~move[m].stale
      PROVE  \A d \in move[m].seen.blockers :
               \/ page[d] = NoCard \/ d \in move[m].upset
               \/ page[d].wf \in Workflows \ {move[m].wf}
               \/ Finished(move[m].board, page[d])
  <2>1. move[m].kind = "advance" /\ move[m].pc = "write" /\ MoveInv(move[m])
    BY <1>1, OnlyWriteMoves DEF WorkflowInv, Moves, WriteCard
  <2> QED BY <1>1, <2>1 DEF MoveInv, BlockInv, Passed, Free
<1>2. ASSUME WorkflowInv, [WorkflowNext]_workflowVars
      PROVE  \A m \in Movers : Moves(m) /\ move[m].target = "in_progress" /\ ~move[m].stale =>
               \A d \in move[m].seen.blockers :
                 \/ page[d] = NoCard \/ d \in move[m].upset
                 \/ page[d].wf \in Workflows \ {move[m].wf}
                 \/ Finished(move[m].board, page[d])
  BY <1>1, <1>2
<1> QED BY <1>2, WorkflowInvariance, PTL DEF WorkflowSpec, StartedIsUnblocked
=============================================================================
