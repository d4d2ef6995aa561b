------------------------------- MODULE Claims -------------------------------
(***************************************************************************)
(* Task claims (internal/claims/store.go): leases on paths in one SQLite   *)
(* table, beside the restructurings that move the claimed pages            *)
(* (Pipeline.PlanRefactor and ApplyRefactor) and the sweep of expired rows.*)
(*                                                                         *)
(* Time is counted in half seconds.  The table stores whole seconds (RFC   *)
(* 3339), while an agent is told its expiry exactly.                       *)
(***************************************************************************)
EXTENDS Naturals

CONSTANTS
  Agents, Pages, Paths,
  NoOne,      \* the holder of no claim
  Nowhere,    \* where a page that was merged away is
  Durations,  \* lease durations, in half seconds
  MaxTime,    \* bound: half seconds that pass
  MaxMoves    \* bound: restructurings planned

ASSUME ClaimsAssumption ==
  /\ NoOne \notin Agents /\ Nowhere \notin Paths
  /\ Durations \subseteq Nat /\ {MaxTime, MaxMoves} \subseteq Nat

VARIABLES
  now,     \* the clock
  at,      \* at[g]: where page g is
  rows,    \* rows[p]: the row of path p in the claims table
  moving,  \* the restructuring under way, which holds writeMu once it applies
  tx,      \* Store.Rename's transaction
  lease,   \* lease[a][g]: what agent a was told of its claim on g (history)
  moves    \* restructurings so far

vars == <<now, at, rows, moving, tx, lease, moves>>

Sec(t)  == t \div 2
Row     == [holder : Agents \union {NoOne}, until : Nat]
NoRow   == [holder |-> NoOne, until |-> 0]
Places  == Paths \union {Nowhere}
Renames == UNION {[D -> Places] : D \in SUBSET Paths}
Nothing == [p \in {} |-> p]

(* A lease is settled if it was granted while no restructuring was between *)
(* its commit and its claims, and its page has not been moved since.       *)
NoLease == [held |-> FALSE, until |-> 0, settled |-> FALSE]
Lasting(t) ==
  [a \in Agents |-> [g \in Pages |-> IF t <= lease[a][g].until THEN lease[a][g] ELSE NoLease]]

(* WHERE claims.expires_at < now.                                          *)
ExpiredMutant(row, t) == row.until <= Sec(t)
Expired(row, t) == row.until < Sec(t)

Idle   == [pc |-> "idle", renames |-> Nothing]
Closed == [pc |-> "closed", todo |-> {}, rows |-> [p \in Paths |-> NoRow], now |-> 0]

Init ==
  /\ now = 0
  /\ at \in [Pages -> Paths] /\ \A g, h \in Pages : at[g] = at[h] => g = h
  /\ rows = [p \in Paths |-> NoRow]
  /\ moving = Idle /\ tx = Closed
  /\ lease = [a \in Agents |-> [g \in Pages |-> NoLease]]
  /\ moves = 0

Tick ==
  /\ now < MaxTime
  /\ now' = now + 1
  /\ lease' = Lasting(now + 1)
  /\ UNCHANGED <<at, rows, moving, tx, moves>>

-----------------------------------------------------------------------------
(* Agents.  SQLite has one writer: statements wait for an open transaction.*)

Grant(a, p, until) ==
  [lease EXCEPT ![a] = [g \in Pages |->
     IF at[g] = p THEN [held |-> TRUE, until |-> until, settled |-> moving.pc # "moved"]
                  ELSE @[g]]]

(* INSERT ... ON CONFLICT DO UPDATE ... WHERE expired or the same holder.  *)
Claim(a, p, d) ==
  /\ tx = Closed
  /\ rows[p] = NoRow \/ Expired(rows[p], now) \/ rows[p].holder = a
  /\ rows' = [rows EXCEPT ![p] = [holder |-> a, until |-> Sec(now + d)]]
  /\ lease' = Grant(a, p, now + d)
  /\ UNCHANGED <<now, at, moving, tx, moves>>

Release(a, p) ==
  /\ tx = Closed /\ rows[p].holder = a
  /\ rows' = [rows EXCEPT ![p] = NoRow]
  /\ lease' = [lease EXCEPT ![a] = [g \in Pages |-> IF at[g] = p THEN NoLease ELSE @[g]]]
  /\ UNCHANGED <<now, at, moving, tx, moves>>

(* The ticker of bootstrap.go.                                             *)
ExpireStale ==
  /\ tx = Closed
  /\ rows' = [p \in Paths |-> IF Expired(rows[p], now) THEN NoRow ELSE rows[p]]
  /\ UNCHANGED <<now, at, moving, tx, lease, moves>>

-----------------------------------------------------------------------------
(* Restructurings.                                                         *)

(* checkClaims: a page that moves or merges is claimed by nobody else.     *)
Unclaimed(r, p) == rows[p] = NoRow \/ Expired(rows[p], now) \/ rows[p].holder = r

(* Swaps and chains are plans like any other: a destination is free, or    *)
(* its page moves as well.                                                 *)
Sources(ren) == DOMAIN ren
Targets(ren) == {ren[p] : p \in DOMAIN ren} \ {Nowhere}
Plannable(ren) ==
  /\ \A p \in Sources(ren) : ren[p] # p /\ \E g \in Pages : at[g] = p
  /\ \A p, q \in Sources(ren) : ren[p] = ren[q] /\ ren[p] # Nowhere => p = q
  /\ \A g \in Pages : at[g] \in Targets(ren) => at[g] \in Sources(ren)

Plan(r, ren) ==
  /\ moving = Idle /\ moves < MaxMoves
  /\ Sources(ren) # {} /\ Plannable(ren)
  /\ \A p \in Sources(ren) : Unclaimed(r, p)
  /\ moving' = [pc |-> "planned", renames |-> ren]
  /\ moves' = moves + 1
  /\ UNCHANGED <<now, at, rows, tx, lease>>

(* Pages moved, committed, journal removed: the claims come next.          *)
MovePages ==
  /\ moving.pc = "planned"
  /\ at' = [g \in Pages |-> IF at[g] \in Sources(moving.renames)
                            THEN moving.renames[at[g]] ELSE at[g]]
  /\ lease' = [a \in Agents |-> [g \in Pages |->
                 IF at[g] \in Sources(moving.renames)
                 THEN [lease[a][g] EXCEPT !.settled = FALSE] ELSE lease[a][g]]]
  /\ moving' = [moving EXCEPT !.pc = "moved"]
  /\ UNCHANGED <<now, rows, tx, moves>>

(* Rename: the map's entries one by one, in any order.                     *)
Begin ==
  /\ moving.pc = "moved" /\ tx = Closed
  /\ tx' = [pc |-> "open", todo |-> Sources(moving.renames), rows |-> rows, now |-> now]
  /\ UNCHANGED <<now, at, rows, moving, lease, moves>>

MovedRowMutant(t, from, to, time) ==
  IF to = Nowhere THEN [t EXCEPT ![from] = NoRow]
  ELSE IF t[from] # NoRow /\ t[to] = NoRow
       THEN [t EXCEPT ![to] = t[from], ![from] = NoRow]
       ELSE [t EXCEPT ![from] = NoRow]

(* DELETE the stale row of to, UPDATE OR IGNORE from to to, DELETE from.   *)
MovedRow(t, from, to, time) ==
  IF to = Nowhere THEN [t EXCEPT ![from] = NoRow]
  ELSE LET taken == IF Expired(t[to], time) THEN NoRow ELSE t[to]
       IN  [t EXCEPT ![to] = IF taken = NoRow THEN t[from] ELSE taken, ![from] = NoRow]

MoveRow(p) ==
  /\ tx.pc = "open" /\ p \in tx.todo
  /\ tx' = [tx EXCEPT !.todo = @ \ {p},
                      !.rows = MovedRow(@, p, moving.renames[p], tx.now)]
  /\ UNCHANGED <<now, at, rows, moving, lease, moves>>

Commit ==
  /\ tx.pc = "open" /\ tx.todo = {}
  /\ rows' = tx.rows
  /\ tx' = Closed /\ moving' = Idle
  /\ UNCHANGED <<now, at, lease, moves>>

(* A plan that is not applied; a transaction that fails, which is only     *)
(* logged; a crash at any point.                                           *)
GiveUp ==
  /\ moving # Idle
  /\ moving' = Idle /\ tx' = Closed
  /\ UNCHANGED <<now, at, rows, lease, moves>>

-----------------------------------------------------------------------------
Next ==
  \/ Tick
  \/ \E a \in Agents, p \in Paths :
       \/ \E d \in Durations : Claim(a, p, d)
       \/ Release(a, p)
  \/ ExpireStale
  \/ \E r \in Agents, ren \in Renames : Plan(r, ren)
  \/ MovePages \/ Begin \/ Commit \/ GiveUp
  \/ \E p \in Paths : MoveRow(p)

Spec == Init /\ [][Next]_vars

-----------------------------------------------------------------------------
(* Properties.                                                             *)

(* Every variable stays in its type; the transaction is open only for a    *)
(* restructuring whose pages have moved.                                   *)
TypeOK ==
  /\ now \in Nat /\ moves \in Nat
  /\ at \in [Pages -> Places]
  /\ rows \in [Paths -> Row]
  /\ moving \in [pc : {"idle", "planned", "moved"}, renames : Renames]
  /\ tx \in [pc : {"closed", "open"}, todo : SUBSET Paths, rows : [Paths -> Row], now : Nat]
  /\ lease \in [Agents -> [Pages -> [held : BOOLEAN, until : Nat, settled : BOOLEAN]]]
  /\ tx.pc = "closed" => tx = Closed
  /\ tx.pc = "open" => moving.pc = "moved" /\ tx.todo \subseteq Sources(moving.renames)

(* "an exclusive write lock lease for an actor on a file path": no two     *)
(* agents hold leases on one page that were granted outside of a           *)
(* restructuring's window and whose page has not moved since - to the half *)
(* second at which each was told it ends, although the table knows only    *)
(* whole seconds, and expired rows are taken over, swept and overwritten.  *)
ExclusiveLease ==
  \A a, b \in Agents, g \in Pages :
    /\ lease[a][g].held /\ lease[a][g].settled
    /\ lease[b][g].held /\ lease[b][g].settled
    => a = b

(* What Rename leaves in row p if all entries of ren were moved at once: a *)
(* claim follows its page unless somebody else's live one is there.        *)
AtOnce(ren, time, p) ==
  LET from == {q \in Sources(ren) : ren[q] = p}
      kept == IF p \in Sources(ren) \/ (from # {} /\ Expired(rows[p], time)) THEN NoRow ELSE rows[p]
  IN  IF kept = NoRow /\ from # {} THEN rows[CHOOSE q \in from : TRUE] ELSE kept

(* Claims move with the pages, in whatever order the map is walked, but    *)
(* for those of a path that one page leaves and another one enters: there  *)
(* the claim may stay behind, be lost or go along with the wrong page.     *)
Shared(ren)   == Sources(ren) \intersect Targets(ren)
Apart(ren, p) == p \notin Shared(ren) /\ \A q \in Shared(ren) : ren[q] # p
ClaimsMoveAtOnce ==
  [][Commit => \A p \in Paths : Apart(moving.renames, p)
                 => rows'[p] = AtOnce(moving.renames, tx.now, p)]_vars
=============================================================================
