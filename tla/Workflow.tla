------------------------------- MODULE Workflow -------------------------------
(***************************************************************************)
(* Cards on boards (internal/api/handlers_workflow.go): requests that      *)
(* advance, assign and reorder cards.  Each reads its card without a lock, *)
(* checks it against the definition of its workflow and against other      *)
(* pages, read one by one, and writes it back with If-Match.               *)
(*                                                                         *)
(* A card is a page's frontmatter; NoCard stands for a page that does not  *)
(* exist.                                                                  *)
(***************************************************************************)
EXTENDS Naturals, FiniteSets

CONSTANTS
  Cards, Movers,   \* pages and requests
  Workflows,       \* names of workflows
  CardStates,      \* names of states
  Boards,          \* definitions of workflows
  Contents,        \* cards that clients and editors write
  MaxChanges       \* bound: requests, direct changes of pages and of definitions

VARIABLES
  page,     \* page[c]: the card in the store
  board,    \* board[w]: .kiwi/workflows/<w>.json
  move,     \* move[m]: what request m does
  changes   \* requests and changes so far

workflowVars == <<page, board, move, changes>>

NoBoard == [states |-> {}, transitions |-> {}, terminal |-> {}, limit |-> [s \in CardStates |-> 0]]
Board   == [states : SUBSET CardStates, transitions : SUBSET (CardStates \X CardStates),
            terminal : SUBSET CardStates, limit : [CardStates -> Nat]]
NoCard  == [wf |-> "deleted", state |-> "none", status |-> "none", adr |-> FALSE,
            held |-> FALSE, blockers |-> {}, ordinal |-> 0]
Card    == [wf : Workflows \union {"none", "deleted"}, state : CardStates \union {"none"},
            status : CardStates \union {"none"}, adr : BOOLEAN, held : BOOLEAN,
            blockers : SUBSET Cards, ordinal : 0 .. 1]
Request(kind, pc, c, w, target, n, card) ==
  [kind |-> kind, pc |-> pc, card |-> c, wf |-> w, target |-> target, ordinal |-> n, seen |-> card,
   board |-> NoBoard, left |-> {}, column |-> {}, open |-> {}, stale |-> FALSE, entered |-> {}, upset |-> {}]
NoMove  == Request("none", "idle", "none", "none", "none", 0, NoCard)
Move    == [kind : {"none", "advance", "assign", "reorder"},
            pc : {"idle", "load", "limit", "check", "blockers", "read", "write"},
            card : Cards \union {"none"}, wf : Workflows \union {"none"},
            target : CardStates \union {"none"}, ordinal : 0 .. 1, seen : Card, board : Board,
            left : SUBSET Cards, column : SUBSET Cards, open : SUBSET Cards,
            stale : BOOLEAN, entered : SUBSET Cards, upset : SUBSET Cards]

(* "done" and "cancelled" end a card's work whether the definition marks   *)
(* them terminal or not.                                                   *)
Ends == {"done", "cancelled"}
ASSUME WorkflowAssumption ==
  /\ IsFiniteSet(Cards) /\ "none" \notin Cards
  /\ {"none", "deleted"} \intersect Workflows = {} /\ "none" \notin CardStates
  /\ NoBoard \in Boards /\ Boards \subseteq Board /\ Contents \subseteq Card /\ MaxChanges \in Nat

InColumn(card, w, s) == card.wf = w /\ card.state = s
Change == changes < MaxChanges /\ changes' = changes + 1

(* workflow.Validate, without the names.                                   *)
Valid(b) ==
  /\ b.states # {}
  /\ \A t \in b.transitions : {t[1], t[2]} \subseteq b.states /\ t[1] \notin b.terminal

(* What every other request under way misses of a write to c (history): a  *)
(* card that entered its column, and a change that may reopen a card.      *)
Seen(m, c, new, reopens) ==
  [m EXCEPT !.entered = IF InColumn(new, m.seen.wf, m.target) /\ ~InColumn(page[c], m.seen.wf, m.target)
                        THEN @ \union {c} ELSE @,
            !.upset = IF reopens THEN @ \union {c} ELSE @]
Watched(c, new, reopens) == [m \in Movers |-> IF move[m] = NoMove THEN NoMove ELSE Seen(move[m], c, new, reopens)]

-----------------------------------------------------------------------------
(* AdvanceWorkflow.                                                        *)

Advance(m, c, target) ==
  /\ move[m] = NoMove /\ Change
  /\ page[c].wf \in Workflows /\ page[c].state \notin {"none", target}
  /\ move' = [move EXCEPT ![m] = Request("advance", "load", c, page[c].wf, target, 0, page[c])]
  /\ UNCHANGED <<page, board>>

(* workflow.Get, which does not validate, and the lookup of the target.    *)
LoadBoard(m) ==
  LET b == board[move[m].wf]
      limited == b.limit[move[m].target] > 0
  IN  /\ move[m].pc = "load" /\ move[m].target \in b.states
      /\ move' = [move EXCEPT ![m].board = b, ![m].pc = IF limited THEN "limit" ELSE "check",
                              ![m].left = IF limited THEN Cards \ {move[m].card} ELSE {}]
      /\ UNCHANGED <<page, board, changes>>

(* A page that cannot be read or parsed is skipped by either walk, as are  *)
(* the pages left when the walk itself fails.  The history keeps what the  *)
(* request misses: a card of the column, or a blocker.                     *)
SkipPage(m, d) ==
  /\ move[m].pc \in {"limit", "blockers"} /\ d \in move[m].left
  /\ move' = [move EXCEPT ![m].left = @ \ {d},
                          ![m].entered = IF move[m].pc = "limit" THEN @ \union {d} ELSE @,
                          ![m].upset = IF move[m].pc = "blockers" THEN @ \union {d} ELSE @]
  /\ UNCHANGED <<page, board, changes>>

(* The walk that counts the target's column, page by page.                 *)
CountCard(m, d) ==
  /\ move[m].pc = "limit" /\ d \in move[m].left
  /\ move' = [move EXCEPT ![m].left = @ \ {d},
                          ![m].column = IF InColumn(page[d], move[m].wf, move[m].target)
                                        THEN @ \union {d} ELSE @]
  /\ UNCHANGED <<page, board, changes>>

Full(b, column, target) == Cardinality(column) >= b.limit[target]
WithinLimit(m) ==
  /\ move[m].pc = "limit" /\ move[m].left = {}
  /\ ~Full(move[m].board, move[m].column, move[m].target)
  /\ move' = [move EXCEPT ![m].pc = "check"]
  /\ UNCHANGED <<page, board, changes>>

(* Terminal states, ValidateTransition and, for "in_progress", the start   *)
(* of pageBlockedByDeps: a card without a list has a flag.                 *)
MayLeaveMutant(b, from, to) == <<from, to>> \in b.transitions
MayLeave(b, from, to) == from \notin b.terminal /\ <<from, to>> \in b.transitions
Passes(m) ==
  /\ MayLeave(m.board, m.seen.state, m.target)
  /\ m.target = "in_progress" /\ m.seen.blockers = {} => ~m.seen.held
CheckMove(m) ==
  LET waits == move[m].target = "in_progress" /\ move[m].seen.blockers # {} IN
  /\ move[m].pc = "check" /\ Passes(move[m])
  /\ move' = [move EXCEPT ![m].pc = IF waits THEN "blockers" ELSE "write",
                          ![m].left = IF waits THEN move[m].seen.blockers ELSE {}]
  /\ UNCHANGED <<page, board, changes>>

(* workflowPageTerminal.                                                   *)
Finished(b, card) == card.status \in Ends \/ card.state \in b.terminal \union Ends

(* The walk over the pages, of which those that block the card matter.     *)
ReadBlocker(m, d) ==
  /\ move[m].pc = "blockers" /\ d \in move[m].left
  /\ move' = [move EXCEPT ![m].left = @ \ {d},
                          ![m].open = IF page[d] = NoCard \/ Finished(move[m].board, page[d])
                                      THEN @ ELSE @ \union {d}]
  /\ UNCHANGED <<page, board, changes>>

Unblocked(m) ==
  /\ move[m].pc = "blockers" /\ move[m].left = {} /\ move[m].open = {}
  /\ move' = [move EXCEPT ![m].pc = "write"]
  /\ UNCHANGED <<page, board, changes>>

-----------------------------------------------------------------------------
(* AssignWorkflow: the definition first, then the card.                    *)
Assign(m, c, w, target) ==
  /\ move[m] = NoMove /\ Change
  /\ target \in board[w].states
  /\ move' = [move EXCEPT ![m] = Request("assign", "read", c, w, target, 0, NoCard)]
  /\ UNCHANGED <<page, board>>

Settled(m) == page[m.card] = NoCard \/ InColumn(page[m.card], m.wf, m.target)
AssignReads(m) ==
  /\ move[m].pc = "read" /\ ~Settled(move[m])
  /\ move' = [move EXCEPT ![m].pc = "write", ![m].seen = page[move[m].card]]
  /\ UNCHANGED <<page, board, changes>>

(* ReorderCard.                                                            *)
Reorder(m, c, n) ==
  /\ move[m] = NoMove /\ Change
  /\ page[c] # NoCard /\ page[c].ordinal # n
  /\ move' = [move EXCEPT ![m] = Request("reorder", "write", c, "none", "none", n, page[c])]
  /\ UNCHANGED <<page, board>>

-----------------------------------------------------------------------------
(* The card a request writes.                                              *)
Written(m) ==
  CASE m.kind = "assign"  -> [m.seen EXCEPT !.wf = m.wf, !.state = m.target]
    [] m.kind = "reorder" -> [m.seen EXCEPT !.ordinal = m.ordinal]
    [] OTHER -> [m.seen EXCEPT !.state = m.target,
                               !.status = IF @ # "none" /\ (m.seen.adr \/ @ = m.seen.state)
                                          THEN m.target ELSE @]

(* An assignment may reopen a card, and so may an advance out of "done" or *)
(* "cancelled" when the definition does not mark it terminal, one of an    *)
(* ADR whose status is not its state, one that follows a definition        *)
(* changed since, and a write that creates a deleted page again.           *)
Reopens(m) ==
  \/ m.kind = "assign" \/ m.stale \/ page[m.card] = NoCard
  \/ m.kind = "advance" /\ m.seen.state \in Ends \ m.board.terminal /\ m.target \notin m.board.terminal \union Ends
  \/ m.kind = "advance" /\ m.seen.adr /\ m.seen.status # m.seen.state

(* WriteWithOpts with If-Match, under writeMu.  A page deleted meanwhile   *)
(* is created again.                                                       *)
MatchesMutant(c, seen) == TRUE
Matches(c, seen) == page[c] \in {seen, NoCard}
WriteCard(m) ==
  LET c == move[m].card IN
  /\ move[m].pc = "write" /\ Matches(c, move[m].seen)
  /\ page' = [page EXCEPT ![c] = Written(move[m])]
  /\ move' = [Watched(c, Written(move[m]), Reopens(move[m])) EXCEPT ![m] = NoMove]
  /\ UNCHANGED <<board, changes>>

(* Every refusal: no such workflow or state, a definition being written, a *)
(* full column, a transition there is not, a blocker, ErrConflict, an      *)
(* error of the store.                                                     *)
Refuse(m) ==
  /\ \/ move[m].pc \in {"load", "write"}
     \/ move[m].pc = "limit" /\ move[m].left = {}
          /\ Full(move[m].board, move[m].column, move[m].target)
     \/ move[m].pc = "check" /\ ~Passes(move[m])
     \/ move[m].pc = "blockers" /\ move[m].left = {} /\ move[m].open # {}
     \/ move[m].pc = "read" /\ Settled(move[m])
  /\ move' = [move EXCEPT ![m] = NoMove]
  /\ UNCHANGED <<page, board, changes>>

(* Any other write or deletion of a page.                                  *)
EditCard(c, new) ==
  /\ Change /\ new # page[c]
  /\ page' = [page EXCEPT ![c] = new]
  /\ move' = Watched(c, new, TRUE)
  /\ UNCHANGED board

(* A request that has read the definition goes on with what it read.       *)
Replace(w, b) ==
  /\ Change /\ b # board[w]
  /\ board' = [board EXCEPT ![w] = b]
  /\ move' = [m \in Movers |-> IF move[m] = NoMove \/ move[m].pc = "load" THEN move[m]
                                ELSE [move[m] EXCEPT !.stale = TRUE]]
  /\ UNCHANGED page

SaveWorkflow(w, b) == Valid(b) /\ Replace(w, b)
DeleteWorkflow(w)  == Replace(w, NoBoard)

(* The owner edits the file, which nothing validates.                      *)
EditBoard(w, b) == Replace(w, b)

-----------------------------------------------------------------------------
WorkflowInit ==
  /\ page \in [Cards -> Contents] /\ board \in [Workflows -> Boards]
  /\ move = [m \in Movers |-> NoMove] /\ changes = 0

WorkflowNext ==
  \/ \E m \in Movers :
       \/ \E c \in Cards :
            \/ \E s \in CardStates : Advance(m, c, s) \/ \E w \in Workflows : Assign(m, c, w, s)
            \/ \E n \in 0 .. 1 : Reorder(m, c, n)
            \/ CountCard(m, c) \/ ReadBlocker(m, c) \/ SkipPage(m, c)
       \/ LoadBoard(m) \/ WithinLimit(m) \/ CheckMove(m) \/ Unblocked(m)
       \/ AssignReads(m) \/ WriteCard(m) \/ Refuse(m)
  \/ \E c \in Cards, new \in Contents : EditCard(c, new)
  \/ \E w \in Workflows :
       \/ \E b \in Boards : SaveWorkflow(w, b) \/ EditBoard(w, b)
       \/ DeleteWorkflow(w)

WorkflowSpec == WorkflowInit /\ [][WorkflowNext]_workflowVars

-----------------------------------------------------------------------------
(* Properties.                                                             *)

(* Every variable stays in its type.                                       *)
WorkflowTypeOK ==
  /\ page \in [Cards -> Card] /\ board \in [Workflows -> Board]
  /\ move \in [Movers -> Move] /\ changes \in 0 .. MaxChanges

(* m's advance changes its card in this step.                              *)
Moves(m) ==
  /\ move[m].kind = "advance" /\ move'[m] = NoMove
  /\ page'[move[m].card] # page[move[m].card]

(* An advance takes a card that is still there along a transition of the   *)
(* definition it read, out of no terminal state, whatever other requests   *)
(* did to the card meanwhile; and it does not put more cards in a column   *)
(* than its limit, not counting those that entered the column since the    *)
(* request began and those on pages its walk could not read.               *)
MovesFollowBoard ==
  [][\A m \in Movers : Moves(m) =>
       LET b == move[m].board
           c == move[m].card
           column == {d \in Cards : InColumn(page'[d], move[m].wf, move[m].target)}
       IN  /\ page[c] # NoCard =>
                /\ page[c].state \notin b.terminal
                /\ <<page[c].state, page'[c].state>> \in b.transitions
           /\ b.limit[move[m].target] > 0 =>
                Cardinality(column \ move[m].entered) <= b.limit[move[m].target]]_workflowVars

(* A card that an advance puts in progress has no open blocker: not when   *)
(* the blockers were read, but when the card is written, though others     *)
(* move cards in between.  Excepted are blockers on pages the walk could   *)
(* not read, and those that an assignment, an edit, a changed definition,  *)
(* an advance Reopens names or another workflow reopened.                  *)
StartedIsUnblocked ==
  [][\A m \in Movers : Moves(m) /\ move[m].target = "in_progress" /\ ~move[m].stale =>
       \A d \in move[m].seen.blockers :
         \/ page[d] = NoCard \/ d \in move[m].upset
         \/ page[d].wf \in Workflows \ {move[m].wf}
         \/ Finished(move[m].board, page[d])]_workflowVars
=============================================================================
