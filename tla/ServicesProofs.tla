--------------------------- MODULE ServicesProofs ---------------------------
(* Proofs about three of the parts that MC_Services puts side by side, and *)
(* about all five together.  Claims: its types, that leases exclude one    *)
(* another, and that Rename's result does not depend on the order of the   *)
(* map.  Numbering: that no number is placed twice, and how high numbers   *)
(* get.  Webhooks: its types, and that the attempts of one delivery follow *)
(* one another.  The composition: its behaviours are those of its parts,   *)
(* so that it has their types and keeps their promises.                    *)
EXTENDS MC_Services, DraftsProofs, WorkflowProofs, SequenceTheorems, FiniteSetTheorems,
        WellFoundedInduction, TLAPS

-----------------------------------------------------------------------------
(* Claims: what the operators of the module do.                            *)

(* Seconds are numbers and never run backwards.                            *)
LEMMA SecFacts ==
  ASSUME NEW s \in Nat, NEW t \in Nat
  PROVE  Sec(s) \in Nat /\ (s <= t => Sec(s) <= Sec(t))
BY SMT DEF Sec

(* A set of renames maps paths to places.                                  *)
LEMMA RenameFacts ==
  ASSUME NEW ren \in Renames
  PROVE  /\ ren = [p \in Sources(ren) |-> ren[p]]
         /\ Sources(ren) \subseteq Paths
         /\ \A p \in Sources(ren) : ren[p] \in Places
         /\ Targets(ren) \subseteq Paths
BY DEF Renames, Sources, Targets, Places

(* The empty set of renames is one.                                        *)
LEMMA NothingIsRenames == Nothing \in Renames
<1>1. Nothing \in [{} -> Places]
  BY DEF Nothing
<1>2. [{} -> Places] \in {[D -> Places] : D \in SUBSET Paths}
  OBVIOUS
<1> QED BY <1>1, <1>2 DEF Renames

(* Moving a row gives rows again and changes no row but the two.           *)
LEMMA MovedRowFacts ==
  ASSUME NEW t \in [Paths -> Row], NEW from \in Paths, NEW to \in Places, NEW time \in Nat
  PROVE  /\ MovedRow(t, from, to, time) \in [Paths -> Row]
         /\ \A p \in Paths \ {from, to} : MovedRow(t, from, to, time)[p] = t[p]
         /\ MovedRow(t, from, to, time)[from] = NoRow
         /\ to # Nowhere /\ to # from =>
              MovedRow(t, from, to, time)[to] =
                IF t[to] = NoRow \/ Expired(t[to], time) THEN t[from] ELSE t[to]
<1>1. NoRow \in Row
  BY DEF NoRow, Row
<1>2. CASE to = Nowhere
  BY <1>1, <1>2, ClaimsAssumption DEF MovedRow
<1>3. CASE to # Nowhere
  <2>1. to \in Paths
    BY <1>3 DEF Places
  <2> DEFINE taken == IF Expired(t[to], time) THEN NoRow ELSE t[to]
             new   == IF taken = NoRow THEN t[from] ELSE taken
  <2>2. new \in Row
    BY <1>1, <2>1
  <2>3. MovedRow(t, from, to, time) = [t EXCEPT ![to] = new, ![from] = NoRow]
    BY <1>3 DEF MovedRow
  <2>4. new = IF t[to] = NoRow \/ Expired(t[to], time) THEN t[from] ELSE t[to]
    OBVIOUS
  <2> HIDE DEF new
  <2> QED BY <1>1, <2>1, <2>2, <2>3, <2>4
<1> QED BY <1>2, <1>3

-----------------------------------------------------------------------------
(* Types.                                                                  *)

(* The types hold at the start.                                            *)
LEMMA InitTypes == Init => TypeOK
<1> SUFFICES ASSUME Init PROVE TypeOK
  OBVIOUS
<1>1. NoRow \in Row
  BY DEF NoRow, Row
<1>2. moving \in [pc : {"idle", "planned", "moved"}, renames : Renames]
  BY NothingIsRenames DEF Init, Idle
<1>3. tx \in [pc : {"closed", "open"}, todo : SUBSET Paths, rows : [Paths -> Row], now : Nat]
  BY <1>1 DEF Init, Closed
<1>4. tx = Closed /\ tx.pc # "open"
  BY DEF Init, Closed
<1>5. rows \in [Paths -> Row]
  BY <1>1 DEF Init
<1>6. lease \in [Agents -> [Pages -> [held : BOOLEAN, until : Nat, settled : BOOLEAN]]]
  BY DEF Init, NoLease
<1>7. now \in Nat /\ moves \in Nat /\ at \in [Pages -> Places]
  BY DEF Init, Places
<1> QED BY <1>2, <1>3, <1>4, <1>5, <1>6, <1>7 DEF TypeOK

(* Every step keeps them.                                                  *)
LEMMA StepTypes == TypeOK /\ [Next]_vars => TypeOK'
<1> SUFFICES ASSUME TypeOK, [Next]_vars PROVE TypeOK'
  OBVIOUS
<1> DEFINE Lease == [held : BOOLEAN, until : Nat, settled : BOOLEAN]
<1>n. NoRow \in Row /\ NoLease \in Lease
  BY DEF NoRow, Row, NoLease
<1>c. Closed.pc = "closed"
  BY DEF Closed
<1>t. now \in Nat
  BY DEF TypeOK
<1>1. CASE Tick
  BY <1>1, <1>n DEF Tick, TypeOK, Lasting
<1>2. ASSUME NEW a \in Agents, NEW p \in Paths, NEW d \in Durations, Claim(a, p, d)
      PROVE  TypeOK'
  <2>1. now + d \in Nat
    BY ClaimsAssumption, <1>t
  <2>2. Sec(now + d) \in Nat
    BY <2>1, SecFacts
  <2>3. rows' \in [Paths -> Row]
    BY <1>2, <2>2 DEF Claim, TypeOK, Row
  <2>4. lease' \in [Agents -> [Pages -> Lease]]
    BY <1>2, <2>1 DEF Claim, Grant, TypeOK
  <2> QED BY <1>2, <2>3, <2>4 DEF Claim, TypeOK
<1>3. ASSUME NEW a \in Agents, NEW p \in Paths, Release(a, p)
      PROVE  TypeOK'
  BY <1>3, <1>n DEF Release, TypeOK
<1>4. CASE ExpireStale
  BY <1>4, <1>n DEF ExpireStale, TypeOK
<1>5. ASSUME NEW r \in Agents, NEW ren \in Renames, Plan(r, ren)
      PROVE  TypeOK'
  <2>1. tx = Closed /\ tx' = Closed
    BY <1>5 DEF Plan, TypeOK, Idle
  <2> QED BY <1>5, <1>c, <2>1 DEF Plan, TypeOK
<1>6. CASE MovePages
  <2>1. at' \in [Pages -> Places]
    BY <1>6, RenameFacts DEF MovePages, TypeOK
  <2>2. lease' \in [Agents -> [Pages -> Lease]]
    <3>1. \A a \in Agents, g \in Pages :
            lease[a][g] \in Lease /\ [lease[a][g] EXCEPT !.settled = FALSE] \in Lease
      <4>1. \A a \in Agents, g \in Pages : lease[a][g] \in Lease
        BY DEF TypeOK
      <4>2. \A l \in Lease : [l EXCEPT !.settled = FALSE] \in Lease
        OBVIOUS
      <4> HIDE DEF Lease
      <4> QED BY <4>1, <4>2
    <3> DEFINE New(a, g) == IF at[g] \in Sources(moving.renames)
                            THEN [lease[a][g] EXCEPT !.settled = FALSE] ELSE lease[a][g]
    <3>2. \A a \in Agents, g \in Pages : New(a, g) \in Lease
      BY <3>1
    <3>3. lease' = [a \in Agents |-> [g \in Pages |-> New(a, g)]]
      BY <1>6 DEF MovePages
    <3> HIDE DEF New, Lease
    <3> QED BY <3>2, <3>3
  <2>3. moving' \in [pc : {"idle", "planned", "moved"}, renames : Renames] /\ moving'.renames = moving.renames
    BY <1>6 DEF MovePages, TypeOK
  <2> QED BY <1>6, <2>1, <2>2, <2>3 DEF MovePages, TypeOK
<1>7. CASE Begin
  BY <1>7, RenameFacts DEF Begin, TypeOK
<1>8. ASSUME NEW p \in Paths, MoveRow(p)
      PROVE  TypeOK'
  <2>1. moving.renames[p] \in Places
    BY <1>8, RenameFacts DEF MoveRow, TypeOK
  <2>2. MovedRow(tx.rows, p, moving.renames[p], tx.now) \in [Paths -> Row]
    BY <2>1, MovedRowFacts DEF TypeOK
  <2> HIDE DEF MovedRow
  <2> QED BY <1>8, <2>2 DEF MoveRow, TypeOK
<1>9. CASE Commit
  BY <1>9, <1>c, <1>n, NothingIsRenames DEF Commit, TypeOK, Closed, Idle
<1>10. CASE GiveUp
  BY <1>10, <1>c, <1>n, NothingIsRenames DEF GiveUp, TypeOK, Closed, Idle
<1>11. CASE UNCHANGED vars
  BY <1>11 DEF vars, TypeOK
<1> QED BY <1>1, <1>2, <1>3, <1>4, <1>5, <1>6, <1>7, <1>8, <1>9, <1>10, <1>11 DEF Next

(* Every variable stays in its type, for any agents, pages and paths.      *)
THEOREM TypeCorrect == Spec => []TypeOK
BY InitTypes, StepTypes, PTL DEF Spec

-----------------------------------------------------------------------------
(* Leases.                                                                 *)

(* A lease whose holder may rely on it.                                    *)
Held(a, g) == lease[a][g].held /\ lease[a][g].settled

(* No page is moved to where it is, nor two to one place.                  *)
Plans ==
  \A p, q \in Sources(moving.renames) :
    /\ moving.renames[p] # p
    /\ moving.renames[p] = moving.renames[q] /\ moving.renames[p] # Nowhere => p = q

(* A page at a destination of the plan moves as well.                      *)
PlannedTargets ==
  moving.pc = "planned" =>
    \A g \in Pages : at[g] \in Targets(moving.renames) => at[g] \in Sources(moving.renames)

Untouched(p) == p \notin Sources(moving.renames) \union Targets(moving.renames)

(* A held lease has its row, with the second in which it ends, and the     *)
(* transaction to come does not touch that row.                            *)
Backed(a, g) ==
  /\ at[g] \in Paths /\ now <= lease[a][g].until
  /\ rows[at[g]] = [holder |-> a, until |-> Sec(lease[a][g].until)]
  /\ moving.pc = "moved" => Untouched(at[g])
LeaseRow == \A a \in Agents, g \in Pages : Held(a, g) => Backed(a, g)

(* The transaction leaves every other row alone.                           *)
TxRows == tx.pc = "open" => \A p \in Paths : Untouched(p) => tx.rows[p] = rows[p]

LeaseInv == TypeOK /\ Plans /\ PlannedTargets /\ LeaseRow /\ TxRows

(* The invariant of the leases holds at the start.                         *)
LEMMA InitLeases == Init => LeaseInv
<1> SUFFICES ASSUME Init PROVE LeaseInv
  OBVIOUS
<1>1. Sources(moving.renames) = {} /\ moving.pc = "idle"
  BY DEF Init, Idle, Nothing, Sources
<1>2. \A a \in Agents, g \in Pages : ~ Held(a, g)
  BY DEF Init, NoLease, Held
<1>3. tx.pc # "open"
  BY DEF Init, Closed
<1> QED BY <1>1, <1>2, <1>3, InitTypes DEF LeaseInv, Plans, PlannedTargets, LeaseRow, TxRows

(* The row of a held lease is its holder's and has not expired.            *)
LEMMA HeldRow ==
  ASSUME LeaseInv, NEW a \in Agents, NEW g \in Pages, Held(a, g)
  PROVE  /\ at[g] \in Paths /\ rows[at[g]].holder = a
         /\ ~ Expired(rows[at[g]], now) /\ rows[at[g]] # NoRow
<1>1. Backed(a, g)
  BY DEF LeaseInv, LeaseRow
<1>2. now \in Nat /\ lease[a][g].until \in Nat
  BY DEF LeaseInv, TypeOK
<1>3. Sec(now) <= Sec(lease[a][g].until) /\ Sec(now) \in Nat /\ Sec(lease[a][g].until) \in Nat
  BY <1>1, <1>2, SecFacts DEF Backed
<1> QED BY <1>1, <1>3, ClaimsAssumption DEF Backed, Expired, NoRow

(* Every step keeps the invariant.                                         *)
LEMMA StepLeases == LeaseInv /\ [Next]_vars => LeaseInv'
<1> SUFFICES ASSUME LeaseInv, [Next]_vars PROVE LeaseInv'
  OBVIOUS
<1>t. TypeOK /\ TypeOK'
  BY StepTypes DEF LeaseInv
<1>i. Plans /\ PlannedTargets /\ LeaseRow /\ TxRows
  BY DEF LeaseInv
<1>c. Closed.pc = "closed"
  BY DEF Closed
<1>1. CASE Tick
  <2>1. Plans' /\ PlannedTargets' /\ TxRows'
    BY <1>1, <1>i DEF Tick, Plans, PlannedTargets, TxRows, Untouched
  <2>2. LeaseRow'
    <3> SUFFICES ASSUME NEW a \in Agents, NEW g \in Pages, Held(a, g)' PROVE Backed(a, g)'
      BY DEF LeaseRow
    <3>1. lease'[a][g] = lease[a][g] /\ now' <= lease[a][g].until
      BY <1>1 DEF Tick, Lasting, Held, NoLease
    <3>2. Backed(a, g)
      BY <3>1, <1>i DEF Held, LeaseRow
    <3> QED BY <1>1, <3>1, <3>2 DEF Tick, Backed, Untouched
  <2> QED BY <1>t, <2>1, <2>2 DEF LeaseInv
<1>2. ASSUME NEW r \in Agents, NEW p \in Paths, NEW d \in Durations, Claim(r, p, d)
      PROVE  LeaseInv'
  <2>1. Plans' /\ PlannedTargets' /\ TxRows'
    BY <1>2, <1>i, <1>c DEF Claim, Plans, PlannedTargets, TxRows, Untouched
  <2>2. LeaseRow'
    <3> SUFFICES ASSUME NEW a \in Agents, NEW g \in Pages, Held(a, g)' PROVE Backed(a, g)'
      BY DEF LeaseRow
    <3>1. CASE a = r /\ at[g] = p
      <4>1. lease'[a][g] = [held |-> TRUE, until |-> now + d, settled |-> moving.pc # "moved"]
        BY <1>2, <1>t, <3>1 DEF Claim, Grant, TypeOK
      <4>2. moving.pc # "moved"
        <5> DEFINE quiet == moving.pc # "moved"
        <5>1. lease'[a][g].settled
          BY DEF Held
        <5>2. lease'[a][g] = [held |-> TRUE, until |-> now + d, settled |-> quiet]
          BY <4>1
        <5> HIDE DEF quiet
        <5>3. lease'[a][g].settled = quiet
          BY <5>2
        <5>4. quiet
          BY <5>1, <5>3, Zenon
        <5> QED BY <5>4 DEF quiet
      <4>3. now <= now + d
        BY <1>t, ClaimsAssumption DEF TypeOK
      <4> QED BY <1>2, <1>t, <3>1, <4>1, <4>2, <4>3 DEF Claim, Backed, TypeOK
    <3>2. CASE ~ (a = r /\ at[g] = p)
      <4>1. lease'[a][g] = lease[a][g]
        BY <1>2, <1>t, <3>2 DEF Claim, Grant, TypeOK
      <4>2. Held(a, g) /\ Backed(a, g)
        BY <4>1, <1>i DEF Held, LeaseRow
      <4>3. at[g] # p
        BY <1>2, <3>2, <4>2, HeldRow DEF Claim
      <4> QED BY <1>2, <1>t, <4>1, <4>2, <4>3 DEF Claim, Backed, Untouched, TypeOK
    <3> QED BY <3>1, <3>2
  <2> QED BY <1>t, <2>1, <2>2 DEF LeaseInv
<1>3. ASSUME NEW r \in Agents, NEW p \in Paths, Release(r, p)
      PROVE  LeaseInv'
  <2>1. Plans' /\ PlannedTargets' /\ TxRows'
    BY <1>3, <1>i, <1>c DEF Release, Plans, PlannedTargets, TxRows, Untouched
  <2>2. LeaseRow'
    <3> SUFFICES ASSUME NEW a \in Agents, NEW g \in Pages, Held(a, g)' PROVE Backed(a, g)'
      BY DEF LeaseRow
    <3>1. lease'[a][g] = lease[a][g] /\ ~ (a = r /\ at[g] = p)
      BY <1>3, <1>t DEF Release, TypeOK, Held, NoLease
    <3>2. Held(a, g) /\ Backed(a, g)
      BY <3>1, <1>i DEF Held, LeaseRow
    <3>3. at[g] # p
      BY <1>3, <3>1, <3>2, HeldRow DEF Release
    <3> QED BY <1>3, <1>t, <3>1, <3>2, <3>3 DEF Release, Backed, Untouched, TypeOK
  <2> QED BY <1>t, <2>1, <2>2 DEF LeaseInv
<1>4. CASE ExpireStale
  <2>1. Plans' /\ PlannedTargets' /\ TxRows'
    BY <1>4, <1>i, <1>c DEF ExpireStale, Plans, PlannedTargets, TxRows, Untouched
  <2>2. LeaseRow'
    <3> SUFFICES ASSUME NEW a \in Agents, NEW g \in Pages, Held(a, g)' PROVE Backed(a, g)'
      BY DEF LeaseRow
    <3>1. Held(a, g) /\ Backed(a, g)
      BY <1>4, <1>i DEF ExpireStale, Held, LeaseRow
    <3>2. rows'[at[g]] = rows[at[g]]
      BY <1>4, <3>1, HeldRow DEF ExpireStale
    <3> QED BY <1>4, <3>1, <3>2 DEF ExpireStale, Backed, Untouched
  <2> QED BY <1>t, <2>1, <2>2 DEF LeaseInv
<1>5. ASSUME NEW r \in Agents, NEW ren \in Renames, Plan(r, ren)
      PROVE  LeaseInv'
  <2>1. moving' = [pc |-> "planned", renames |-> ren] /\ Plannable(ren) /\ UNCHANGED <<now, at, rows, tx, lease>>
    BY <1>5 DEF Plan
  <2>2. tx.pc # "open"
    BY <1>5, <1>t DEF Plan, TypeOK, Idle
  <2>3. Plans' /\ PlannedTargets' /\ TxRows'
    BY <2>1, <2>2 DEF Plannable, Plans, PlannedTargets, TxRows
  <2>4. LeaseRow'
    BY <2>1, <1>i DEF LeaseRow, Backed, Held
  <2> QED BY <1>t, <2>3, <2>4 DEF LeaseInv
<1>6. CASE MovePages
  <2>1. moving'.renames = moving.renames /\ moving.pc = "planned" /\ moving'.pc = "moved"
        /\ UNCHANGED <<now, rows, tx>>
    BY <1>6, <1>t DEF MovePages, TypeOK
  <2>2. Plans' /\ PlannedTargets' /\ TxRows'
    BY <2>1, <1>i, <1>t DEF Plans, PlannedTargets, TxRows, TypeOK
  <2>3. LeaseRow'
    <3> SUFFICES ASSUME NEW a \in Agents, NEW g \in Pages, Held(a, g)' PROVE Backed(a, g)'
      BY DEF LeaseRow
    <3>1. at[g] \notin Sources(moving.renames) /\ lease'[a][g] = lease[a][g] /\ at'[g] = at[g]
      <4>1. lease'[a][g] = IF at[g] \in Sources(moving.renames)
                           THEN [lease[a][g] EXCEPT !.settled = FALSE] ELSE lease[a][g]
        BY <1>6 DEF MovePages
      <4>2. lease[a][g] \in [held : BOOLEAN, until : Nat, settled : BOOLEAN]
        BY <1>t DEF TypeOK
      <4>3. at[g] \notin Sources(moving.renames)
        BY <4>1, <4>2 DEF Held
      <4> QED BY <1>6, <4>1, <4>3 DEF MovePages
    <3>2. Backed(a, g)
      BY <3>1, <1>i DEF Held, LeaseRow
    <3>3. Untouched(at[g])
      BY <2>1, <3>1, <1>i DEF PlannedTargets, Untouched
    <3> QED BY <2>1, <3>1, <3>2, <3>3 DEF Backed, Untouched
  <2> QED BY <1>t, <2>2, <2>3 DEF LeaseInv
<1>7. CASE Begin
  <2>1. tx'.rows = rows /\ UNCHANGED <<now, at, rows, moving, lease>>
    BY <1>7 DEF Begin
  <2>2. LeaseRow'
    BY <2>1, <1>i DEF LeaseRow, Backed, Held, Untouched
  <2>3. Plans' /\ PlannedTargets' /\ TxRows'
    BY <2>1, <1>i DEF Plans, PlannedTargets, TxRows
  <2> QED BY <1>t, <2>2, <2>3 DEF LeaseInv
<1>8. ASSUME NEW p \in Paths, MoveRow(p)
      PROVE  LeaseInv'
  <2>1. UNCHANGED <<now, at, rows, moving, lease>> /\ tx.pc = "open"
    BY <1>8 DEF MoveRow
  <2>2. Plans' /\ PlannedTargets' /\ LeaseRow'
    BY <2>1, <1>i DEF Plans, PlannedTargets, LeaseRow, Backed, Held, Untouched
  <2>3. TxRows'
    <3> SUFFICES ASSUME NEW q \in Paths, Untouched(q) PROVE tx'.rows[q] = rows[q]
      BY <2>1 DEF TxRows, Untouched
    <3>1. p \in Sources(moving.renames) /\ moving.renames[p] \in Places /\ tx.rows \in [Paths -> Row] /\ tx.now \in Nat
      BY <1>8, <1>t, RenameFacts DEF MoveRow, TypeOK
    <3>2. q # p /\ q # moving.renames[p]
      BY <3>1, ClaimsAssumption DEF Untouched, Targets, Sources
    <3>3. MovedRow(tx.rows, p, moving.renames[p], tx.now)[q] = tx.rows[q]
      BY <3>1, <3>2, MovedRowFacts
    <3>4. tx'.rows = MovedRow(tx.rows, p, moving.renames[p], tx.now)
      BY <1>8, <1>t DEF MoveRow, TypeOK
    <3> QED BY <2>1, <3>3, <3>4, <1>i DEF TxRows
  <2> QED BY <1>t, <2>2, <2>3 DEF LeaseInv
<1>9. CASE Commit
  <2>1. rows' = tx.rows /\ moving' = Idle /\ tx' = Closed /\ tx.pc = "open" /\ moving.pc = "moved"
        /\ UNCHANGED <<now, at, lease>>
    BY <1>9, <1>t DEF Commit, TypeOK
  <2>2. Sources(moving'.renames) = {} /\ moving'.pc = "idle"
    BY <2>1 DEF Idle, Nothing, Sources
  <2>3. Plans' /\ PlannedTargets' /\ TxRows'
    BY <2>1, <2>2, <1>c DEF Plans, PlannedTargets, TxRows
  <2>4. LeaseRow'
    <3> SUFFICES ASSUME NEW a \in Agents, NEW g \in Pages, Held(a, g)' PROVE Backed(a, g)'
      BY DEF LeaseRow
    <3>1. Backed(a, g)
      BY <2>1, <1>i DEF Held, LeaseRow
    <3>2. rows'[at[g]] = rows[at[g]]
      BY <2>1, <3>1, <1>i DEF Backed, TxRows
    <3> QED BY <2>1, <2>2, <3>1, <3>2 DEF Backed
  <2> QED BY <1>t, <2>3, <2>4 DEF LeaseInv
<1>10. CASE GiveUp
  <2>1. moving' = Idle /\ tx' = Closed /\ UNCHANGED <<now, at, rows, lease>>
    BY <1>10 DEF GiveUp
  <2>2. Sources(moving'.renames) = {} /\ moving'.pc = "idle"
    BY <2>1 DEF Idle, Nothing, Sources
  <2>3. Plans' /\ PlannedTargets' /\ TxRows'
    BY <2>1, <2>2, <1>c DEF Plans, PlannedTargets, TxRows
  <2>4. LeaseRow'
    BY <2>1, <2>2, <1>i DEF LeaseRow, Backed, Held
  <2> QED BY <1>t, <2>3, <2>4 DEF LeaseInv
<1>11. CASE UNCHANGED vars
  BY <1>11, <1>i, <1>t DEF vars, LeaseInv, Plans, PlannedTargets, LeaseRow, TxRows, Backed, Held, Untouched
<1> QED BY <1>1, <1>2, <1>3, <1>4, <1>5, <1>6, <1>7, <1>8, <1>9, <1>10, <1>11 DEF Next

(* It makes leases exclude one another, since a row has one holder.        *)
LEMMA LeasesExclude == LeaseInv => ExclusiveLease
BY HeldRow DEF ExclusiveLease, Held

(* It holds in every state.                                                *)
LEMMA LeaseInvariance == Spec => []LeaseInv
BY InitLeases, StepLeases, PTL DEF Spec

(* Two agents never rely on leases of one page at a time, for any agents,  *)
(* pages, paths, durations and any number of restructurings.               *)
THEOREM LeaseExclusion == Spec => []ExclusiveLease
BY LeaseInvariance, LeasesExclude, PTL

-----------------------------------------------------------------------------
(* The order of the map.                                                   *)

(* A move that no other one meets: while it is to come its two rows are    *)
(* left alone, and once it was run it has emptied the source and decided   *)
(* the destination from the rows the transaction began with.               *)
Left(p) ==
  p \notin Targets(moving.renames) => tx.rows[p] = IF p \in tx.todo THEN rows[p] ELSE NoRow
Entered(p) ==
  LET to == moving.renames[p]
  IN  to # Nowhere /\ to \notin Sources(moving.renames) /\ p \notin Targets(moving.renames) =>
        tx.rows[to] = IF p \notin tx.todo /\ (rows[to] = NoRow \/ Expired(rows[to], tx.now))
                      THEN rows[p] ELSE rows[to]
TxMoved ==
  tx.pc = "open" => \A p \in Sources(moving.renames) : Left(p) /\ Entered(p)

OrderInv == LeaseInv /\ TxMoved

(* Every step keeps what the transaction's copy is.                        *)
LEMMA StepMoved == OrderInv /\ [Next]_vars => OrderInv'
<1> SUFFICES ASSUME OrderInv, [Next]_vars PROVE TxMoved'
  BY StepLeases DEF OrderInv
<1>t. TypeOK /\ TypeOK' /\ Plans
  BY StepTypes DEF OrderInv, LeaseInv
<1>o. TxMoved
  BY DEF OrderInv
<1>c. Closed.pc = "closed"
  BY DEF Closed
<1>1. CASE Begin
  <2>1. tx'.rows = rows /\ tx'.todo = Sources(moving.renames) /\ UNCHANGED <<rows, moving>>
    BY <1>1 DEF Begin
  <2> QED BY <2>1 DEF TxMoved, Left, Entered
<1>2. ASSUME NEW p \in Paths, MoveRow(p)
      PROVE  TxMoved'
  <2> DEFINE ren == moving.renames
  <2>1. /\ tx.pc = "open" /\ p \in tx.todo /\ p \in Sources(ren) /\ UNCHANGED <<rows, moving>>
        /\ tx'.todo = tx.todo \ {p} /\ tx'.rows = MovedRow(tx.rows, p, ren[p], tx.now) /\ tx'.now = tx.now
    BY <1>2, <1>t DEF MoveRow, TypeOK
  <2>2. ren[p] \in Places /\ tx.rows \in [Paths -> Row] /\ tx.now \in Nat /\ Sources(ren) \subseteq Paths
        /\ \A q \in Sources(ren) : ren[q] \in Places
    BY <2>1, <1>t, RenameFacts DEF TypeOK
  <2> SUFFICES ASSUME NEW q \in Sources(ren) PROVE Left(q)' /\ Entered(q)'
    BY <2>1 DEF TxMoved
  <2>3. Left(p) /\ Entered(p) /\ Left(q) /\ Entered(q)
    BY <2>1, <1>o DEF TxMoved
  <2>4. ren[p] # p /\ (ren[p] # Nowhere => ren[p] \in Targets(ren))
    BY <2>1, <1>t DEF Plans, Targets, Sources
  <2>5. ASSUME q \notin Targets(ren)
        PROVE  tx'.rows[q] = IF q \in tx'.todo THEN rows[q] ELSE NoRow
    <3>1. CASE q = p
      BY <2>1, <2>2, <3>1, MovedRowFacts
    <3>2. CASE q # p
      <4>1. q # ren[p] /\ q \in Paths
        BY <2>2, <2>4, <2>5, ClaimsAssumption DEF Places
      <4>2. tx'.rows[q] = tx.rows[q]
        BY <2>1, <2>2, <3>2, <4>1, MovedRowFacts
      <4> QED BY <2>1, <2>3, <2>5, <3>2, <4>2 DEF Left
    <3> QED BY <3>1, <3>2
  <2>6. ASSUME ren[q] # Nowhere, ren[q] \notin Sources(ren), q \notin Targets(ren)
        PROVE  tx'.rows[ren[q]] =
                 IF q \notin tx'.todo /\ (rows[ren[q]] = NoRow \/ Expired(rows[ren[q]], tx.now))
                 THEN rows[q] ELSE rows[ren[q]]
    <3>1. CASE q = p
      <4>1. tx.rows[p] = rows[p] /\ tx.rows[ren[p]] = rows[ren[p]]
        BY <2>1, <2>3, <2>6, <3>1 DEF Left, Entered
      <4> QED BY <2>1, <2>2, <2>4, <2>6, <3>1, <4>1, MovedRowFacts
    <3>2. CASE q # p
      <4>1. ren[q] \in Paths /\ ren[q] # p /\ ren[q] # ren[p]
        BY <2>1, <2>2, <2>6, <3>2, <1>t DEF Plans, Places
      <4>2. tx'.rows[ren[q]] = tx.rows[ren[q]]
        BY <2>1, <2>2, <4>1, MovedRowFacts
      <4> QED BY <2>1, <2>3, <2>6, <3>2, <4>2 DEF Entered
    <3> QED BY <3>1, <3>2
  <2> QED BY <2>1, <2>5, <2>6 DEF Left, Entered
<1>3. ASSUME UNCHANGED <<rows, moving, tx>>
      PROVE  TxMoved'
  BY <1>3, <1>o DEF TxMoved, Left, Entered
<1>4. ASSUME tx' = Closed
      PROVE  TxMoved'
  BY <1>4, <1>c DEF TxMoved
<1>6. ASSUME tx = Closed, UNCHANGED tx PROVE TxMoved'
  BY <1>6, <1>4
<1>7. CASE Tick
  BY <1>7, <1>3 DEF Tick
<1>8. ASSUME NEW a \in Agents, NEW p \in Paths, NEW d \in Durations, Claim(a, p, d)
      PROVE  TxMoved'
  BY <1>8, <1>6 DEF Claim
<1>9. ASSUME NEW a \in Agents, NEW p \in Paths, Release(a, p)
      PROVE  TxMoved'
  BY <1>9, <1>6 DEF Release
<1>10. CASE ExpireStale
  BY <1>10, <1>6 DEF ExpireStale
<1>11. ASSUME NEW r \in Agents, NEW ren \in Renames, Plan(r, ren)
       PROVE  TxMoved'
  <2>1. tx = Closed /\ UNCHANGED tx
    BY <1>11, <1>t DEF Plan, TypeOK, Idle
  <2> QED BY <2>1, <1>6
<1>12. CASE MovePages
  <2>1. tx = Closed /\ UNCHANGED tx
    BY <1>12, <1>t DEF MovePages, TypeOK
  <2> QED BY <2>1, <1>6
<1>13. CASE Commit
  BY <1>13, <1>4 DEF Commit
<1>14. CASE GiveUp
  BY <1>14, <1>4 DEF GiveUp
<1>15. CASE UNCHANGED vars
  BY <1>15, <1>3 DEF vars
<1> QED BY <1>1, <1>2, <1>7, <1>8, <1>9, <1>10, <1>11, <1>12, <1>13, <1>14, <1>15 DEF Next

(* What the transaction commits where its moves do not meet.               *)
LEMMA CommitMovesAtOnce ==
  ASSUME OrderInv, Commit, NEW p \in Paths, Apart(moving.renames, p)
  PROVE  rows'[p] = AtOnce(moving.renames, tx.now, p)
<1> DEFINE ren  == moving.renames
           from == {q \in Sources(ren) : ren[q] = p}
           kept == IF p \in Sources(ren) \/ (from # {} /\ Expired(rows[p], tx.now))
                   THEN NoRow ELSE rows[p]
<1>t. TypeOK /\ Plans /\ TxRows /\ TxMoved
  BY DEF OrderInv, LeaseInv
<1>1. tx.pc = "open" /\ tx.todo = {} /\ rows'[p] = tx.rows[p]
  BY DEF Commit
<1>2. AtOnce(ren, tx.now, p) =
        IF kept = NoRow /\ from # {} THEN rows[CHOOSE q \in from : TRUE] ELSE kept
  BY DEF AtOnce
<1>3. \A q \in Sources(ren) : Left(q) /\ Entered(q)
  BY <1>1, <1>t DEF TxMoved
<1>4. p # Nowhere
  BY ClaimsAssumption
<1>5. CASE p \in Sources(ren)
  <2>1. from = {}
    BY <1>4, <1>5 DEF Apart, Shared, Targets, Sources
  <2>2. p \notin Targets(ren) /\ tx.rows[p] = NoRow
    BY <1>1, <1>3, <1>5 DEF Apart, Shared, Left
  <2> QED BY <1>1, <1>2, <1>5, <2>1, <2>2
<1>6. CASE p \notin Sources(ren) /\ from # {}
  <2>1. PICK q \in from : TRUE
    BY <1>6
  <2>2. \A r \in from : r = q
    BY <1>4, <1>t, <2>1 DEF Plans
  <2>3. (CHOOSE r \in from : TRUE) = q
    BY <2>1, <2>2
  <2>4. tx.rows[p] = IF rows[p] = NoRow \/ Expired(rows[p], tx.now) THEN rows[q] ELSE rows[p]
    <3>1. q \in Sources(ren) /\ ren[q] = p /\ q \notin Targets(ren)
      BY <2>1 DEF Apart, Shared
    <3> QED BY <1>1, <1>3, <1>4, <1>6, <3>1 DEF Entered
  <2> QED BY <1>1, <1>2, <1>6, <2>3, <2>4
<1>7. CASE p \notin Sources(ren) /\ from = {}
  <2>1. Untouched(p)
    BY <1>7 DEF Untouched, Targets, Sources
  <2> QED BY <1>1, <1>2, <1>7, <1>t, <2>1 DEF TxRows
<1> QED BY <1>5, <1>6, <1>7

(* And it is so at the start.                                              *)
LEMMA InitOrder == Init => OrderInv
<1>1. Init => tx.pc # "open"
  BY DEF Init, Closed
<1> QED BY <1>1, InitLeases DEF OrderInv, TxMoved

(* Claims end up where moving all pages at once would put them, whatever   *)
(* order Rename walks its map in, but for the paths that one page leaves   *)
(* and another one enters.                                                 *)
THEOREM OrderDoesNotMatter == Spec => ClaimsMoveAtOnce
<1> DEFINE AtOnceStep == Commit => \A p \in Paths : Apart(moving.renames, p)
                                     => rows'[p] = AtOnce(moving.renames, tx.now, p)
<1>1. OrderInv /\ [Next]_vars => [AtOnceStep]_vars
  BY CommitMovesAtOnce
<1> QED BY <1>1, InitOrder, StepMoved, PTL DEF Spec, ClaimsMoveAtOnce

-----------------------------------------------------------------------------
(* Numbering: its inductive invariant.                                     *)

(* The requests that hold a number they have not placed yet.               *)
Given(k) == {c \in Callers : call[c].pc = "numbered" /\ call[c].kind = k}

(* Types, without the bound that depends on how many requests there are.   *)
NumberingTyped ==
  /\ counter \in Nat /\ next \in Nat
  /\ call \in [Callers -> [pc : {"new", "numbered", "done"}, kind : Kinds, number : Nat]]
  /\ placed \subseteq [kind : Kinds, caller : Callers, number : Nat]
  /\ indexed \subseteq placed
  /\ stale \in BOOLEAN /\ restarts \in Nat

(* No page's number is above a bound.                                      *)
Bounded == \E n \in Nat : \A t \in placed : t.number <= n

(* Markers, given or placed, are within the counter and differ; a request  *)
(* places one thing.                                                       *)
Markers ==
  /\ \A t \in placed : t.kind = "append" => t.number <= counter
  /\ \A c \in Given("append") : call[c].number <= counter
  /\ \A t, u \in placed : t.kind = "append" /\ u.kind = "append" /\ t.number = u.number => t = u
  /\ \A c \in Given("append"), t \in placed : t.kind = "append" => call[c].number # t.number
  /\ \A c, d \in Given("append") : call[c].number = call[d].number => c = d

(* The same for pages, as long as the index had all of them when the       *)
(* numbers started.                                                        *)
PageNumbers ==
  ~ stale =>
  /\ next # 0 => \A t \in placed : t.kind = "page" => t.number < next
  /\ next = 0 => Given("page") = {}
  /\ \A c \in Given("page") : call[c].number < next
  /\ \A t, u \in placed : t.kind = "page" /\ u.kind = "page" /\ t.number = u.number => t = u
  /\ \A c \in Given("page"), t \in placed : t.kind = "page" => call[c].number # t.number
  /\ \A c, d \in Given("page") : call[c].number = call[d].number => c = d

(* What every step keeps.                                                  *)
NumberingInv == NumberingTyped /\ Bounded /\ Markers /\ PageNumbers

(* A bounded set of numbers has a greatest one: the one with the smallest  *)
(* gap to the bound.                                                       *)
LEMMA HasGreatest ==
  ASSUME NEW n \in Nat, NEW S \in SUBSET (0 .. n), S # {}
  PROVE  \E x \in S : \A y \in S : x >= y
<1> DEFINE Gaps == {n - x : x \in S}
           Less == OpToRel(<, Nat)
<1>1. IsWellFoundedOn(Less, Nat) /\ \A d, e \in Nat : e < d => <<e, d>> \in Less
  BY NatLessThanWellFounded DEF OpToRel
<1> HIDE DEF Less
<1>a. \A x \in S : x \in Nat /\ n - x \in Nat
  BY SMT
<1>2. Gaps \subseteq Nat
  BY <1>a
<1>3. Gaps # {}
  OBVIOUS
<1>4. PICK d \in Gaps : \A e \in Gaps : <<e, d>> \notin Less
  <2> HIDE DEF Gaps
  <2> QED BY <1>1, <1>2, <1>3, WFMin
<1>5. PICK x \in S : d = n - x
  BY <1>4
<1>6. \A y \in S : n - y \in Gaps
  OBVIOUS
<1>7. \A y \in S : ~ (n - y < n - x)
  <2> HIDE DEF Gaps
  <2> QED BY <1>1, <1>2, <1>4, <1>5, <1>6
<1>8. \A y \in S : x >= y
  <2> HIDE DEF Gaps
  <2> QED BY <1>a, <1>5, <1>7
<1> QED BY <1>5, <1>8

(* The number an AutoSequencer starts with is above those it has read, and *)
(* by no more than one above what bounds them.                             *)
LEMMA FirstFacts ==
  ASSUME NumberingTyped, Bounded
  PROVE  /\ First \in Nat \ {0} /\ \A t \in NumberedPages(indexed) : t.number < First
         /\ \A n \in Nat : (\A t \in placed : t.number <= n) => First <= n + 1
<1> DEFINE Numbers == {t.number : t \in NumberedPages(indexed)}
<1>1. PICK n \in Nat : \A t \in placed : t.number <= n
  BY DEF Bounded
<1>2. Numbers \in SUBSET (0 .. n)
  BY <1>1 DEF NumberingTyped, NumberedPages
<1>3. CASE NumberedPages(indexed) = {}
  BY <1>3 DEF First, Greatest
<1>4. CASE NumberedPages(indexed) # {}
  <2>1. Numbers # {}
    BY <1>4
  <2>2. PICK x \in Numbers : \A y \in Numbers : x >= y
    <3> HIDE DEF Numbers
    <3> QED BY <1>2, <2>1, HasGreatest
  <2>3. \A t \in NumberedPages(indexed) : t.number <= x
    BY <1>2, <2>2
  <2>4. /\ Greatest(NumberedPages(indexed)) \in Numbers
        /\ \A t \in NumberedPages(indexed) : t.number <= Greatest(NumberedPages(indexed))
    BY <1>4, <2>2, <2>3 DEF Greatest
  <2>5. Greatest(NumberedPages(indexed)) \in Nat
    BY <1>2, <2>4
  <2>6. \A t \in NumberedPages(indexed) : t.number \in Nat
    BY <1>2
  <2>7. PICK t \in placed : Greatest(NumberedPages(indexed)) = t.number
    BY <2>4 DEF NumberingTyped, NumberedPages
  <2> QED BY <2>4, <2>5, <2>6, <2>7 DEF First
<1> QED BY <1>3, <1>4

(* Nothing has a number at first.                                          *)
LEMMA InitNumbering == ASSUME NumberingInit PROVE NumberingInv
BY DEF NumberingInit, NumberingInv, NumberingTyped, Bounded, Markers, PageNumbers, Given, NewCall, Kinds

(* Every step keeps the invariant.                                         *)
LEMMA StepNumbering == ASSUME NumberingInv, [NumberingNext]_numberingVars PROVE NumberingInv'
<1>i. NumberingTyped /\ Bounded /\ Markers /\ PageNumbers
  BY DEF NumberingInv
<1>1. ASSUME NEW c \in Callers, NumberAppend(c) PROVE NumberingInv'
  <2>1. NumberingTyped'
    BY <1>1, <1>i DEF NumberAppend, Saved, NumberingTyped, Kinds
  <2>2. Bounded'
    BY <1>1, <1>i DEF NumberAppend, Bounded
  <2>3. Markers'
    BY <1>1, <1>i DEF NumberAppend, Saved, Markers, NumberingTyped, Given
  <2>4. PageNumbers'
    BY <1>1, <1>i DEF NumberAppend, PageNumbers, NumberingTyped, Given
  <2> QED BY <2>1, <2>2, <2>3, <2>4 DEF NumberingInv
<1>2. ASSUME NEW c \in Callers, NumberPage(c) PROVE NumberingInv'
  <2>1. NumberingTyped'
    BY <1>2, <1>i, FirstFacts DEF NumberPage, NumberingTyped, Kinds
  <2>2. Bounded'
    BY <1>2, <1>i DEF NumberPage, Bounded
  <2>3. Markers'
    BY <1>2, <1>i DEF NumberPage, Markers, NumberingTyped, Given
  <2>4. PageNumbers'
    <3> DEFINE n == IF next = 0 THEN First ELSE next
    <3>1. n \in Nat \ {0}
      BY <1>i, FirstFacts DEF NumberingTyped
    <3>2. ASSUME ~ stale' PROVE ~ stale /\ \A t \in placed : t.kind = "page" => t.number < n
      <4>1. ~ stale /\ (next = 0 => NumberedPages(placed) = NumberedPages(indexed))
        BY <1>2, <3>2 DEF NumberPage
      <4> QED BY <1>i, <4>1, FirstFacts DEF PageNumbers, NumberedPages
    <3>3. call' = [call EXCEPT ![c] = [pc |-> "numbered", kind |-> "page", number |-> n]] /\ next' = n + 1
          /\ UNCHANGED placed /\ call[c].pc = "new"
      BY <1>2 DEF NumberPage
    <3>0. next # 0 => n = next
      OBVIOUS
    <3> HIDE DEF n
    <3>4. ~ stale' => next # 0 \/ Given("page") = {}
      BY <1>i, <3>2 DEF PageNumbers
    <3>5. ASSUME ~ stale', NEW d \in Given("page") PROVE call[d].number < n
      BY <1>i, <3>0, <3>2, <3>4, <3>5 DEF PageNumbers
    <3> QED BY <1>i, <3>1, <3>2, <3>3, <3>4, <3>5 DEF PageNumbers, NumberingTyped, Given
  <2> QED BY <2>1, <2>2, <2>3, <2>4 DEF NumberingInv
<1>3. ASSUME NEW c \in Callers, Place(c) PROVE NumberingInv'
  <2>1. NumberingTyped'
    BY <1>3, <1>i DEF Place, NumberingTyped, Kinds
  <2>2. Bounded'
    BY <1>3, <1>i DEF Place, Bounded, NumberingTyped
  <2>3. Markers'
    BY <1>3, <1>i DEF Place, Markers, NumberingTyped, Given
  <2>4. PageNumbers'
    BY <1>3, <1>i DEF Place, PageNumbers, NumberingTyped, Given
  <2> QED BY <2>1, <2>2, <2>3, <2>4 DEF NumberingInv
<1>8. ASSUME NEW c \in Callers, NEW n \in 1 .. MaxOwn, OwnNumber(c, n) PROVE NumberingInv'
  <2>1. NumberingTyped'
    BY <1>8, <1>i DEF OwnNumber, NumberingTyped, Kinds
  <2>2. Bounded'
    BY <1>8, <1>i DEF OwnNumber, Bounded
  <2>3. Markers'
    BY <1>8, <1>i DEF OwnNumber, Markers, NumberingTyped, Given
  <2>4. PageNumbers'
    BY <1>8, <1>i DEF OwnNumber, PageNumbers, NumberingTyped, Given
  <2> QED BY <2>1, <2>2, <2>3, <2>4 DEF NumberingInv
<1>4. ASSUME NEW c \in Callers, Abandon(c) PROVE NumberingInv'
  BY <1>4, <1>i DEF Abandon, NumberingInv, NumberingTyped, Bounded, Markers, PageNumbers, Given
<1>5. ASSUME NEW t \in placed, Index(t) PROVE NumberingInv'
  BY <1>5, <1>i DEF Index, NumberingInv, NumberingTyped, Bounded, Markers, PageNumbers, Given
<1>6. CASE Restart
  BY <1>6, <1>i DEF Restart, NumberingInv, NumberingTyped, Bounded, Markers, PageNumbers, Given
<1>7. CASE UNCHANGED numberingVars
  BY <1>7, <1>i DEF numberingVars, NumberingInv, NumberingTyped, Bounded, Markers, PageNumbers, Given
<1> QED BY <1>1, <1>2, <1>3, <1>4, <1>5, <1>6, <1>7, <1>8 DEF NumberingNext

(* The invariant holds in every state.                                     *)
LEMMA NumberingInvariant == NumberingSpec => []NumberingInv
BY InitNumbering, StepNumbering, PTL DEF NumberingSpec

(* No number is placed twice, for any number of requests and restarts.     *)
THEOREM NumbersAreUnique == NumberingSpec => []NumbersOnce
<1>1. NumberingInv => NumbersOnce
  BY DEF NumberingInv, NumberingTyped, Markers, PageNumbers, NumbersOnce, Kinds
<1> QED BY <1>1, NumberingInvariant, PTL

-----------------------------------------------------------------------------
(* Numbering: how high the numbers get.                                    *)

(* The requests that have been given a number, and how many they are.      *)
Begun == {c \in Callers : call[c].pc # "new"}
Count == Cardinality(Begun)

(* Each request raises the counter, or the greatest number of a page, by   *)
(* one at most; a restart takes no request back.                           *)
Counted ==
  /\ counter <= Count /\ next <= MaxOwn + Count + 1
  /\ \A c \in Callers : call[c].number <= MaxOwn + Count
  /\ \A t \in placed : t.number <= MaxOwn + Count

(* How many have started is a number, no greater than how many there are.  *)
LEMMA CountFacts == Count \in Nat /\ Cardinality(Callers) \in Nat /\ Count <= Cardinality(Callers)
<1>1. IsFiniteSet(Callers) /\ Begun \in SUBSET Callers
  BY NumberingAssumption DEF Begun
<1>2. IsFiniteSet(Begun) /\ Cardinality(Begun) <= Cardinality(Callers)
  BY <1>1, FS_Subset
<1> QED BY <1>1, <1>2, FS_CardinalityType DEF Count

(* A request that starts is one more.                                      *)
LEMMA OneMoreStarts ==
  ASSUME NEW c \in Callers, call[c].pc = "new", Begun' = Begun \union {c}
  PROVE  Count' = Count + 1
<1>1. IsFiniteSet(Begun) /\ c \notin Begun
  <2>1. Begun \in SUBSET Callers /\ c \notin Begun
    BY DEF Begun
  <2> QED BY <2>1, FS_Subset, NumberingAssumption
<1>2. Cardinality(Begun \union {c}) = Cardinality(Begun) + 1
  BY <1>1, FS_AddElement
<1> QED BY <1>2 DEF Count

(* Every step keeps the count.                                             *)
LEMMA StepCounted ==
  ASSUME NumberingInv, Counted, [NumberingNext]_numberingVars
  PROVE  Counted'
<1>i. /\ NumberingTyped /\ Bounded /\ Count \in Nat /\ MaxOwn \in Nat
      /\ counter <= Count /\ next <= MaxOwn + Count + 1
      /\ \A c \in Callers : call[c].number <= MaxOwn + Count
      /\ \A t \in placed : t.number <= MaxOwn + Count
  BY CountFacts, NumberingAssumption DEF NumberingInv, Counted
<1>k. ASSUME Begun' = Begun PROVE Count' = Count
  BY <1>k DEF Count
<1>0. PICK k \in Nat : k = Count
  BY <1>i
<1>1. ASSUME NEW c \in Callers, NumberAppend(c) PROVE Counted'
  <2>1. call' = [call EXCEPT ![c] = [pc |-> "numbered", kind |-> "append", number |-> counter + 1]]
        /\ counter' = counter + 1 /\ UNCHANGED <<next, placed>> /\ call[c].pc = "new"
    BY <1>1 DEF NumberAppend, Saved
  <2>2. Count' = k + 1
    BY <1>i, <1>0, <2>1, OneMoreStarts DEF NumberingTyped, Begun
  <2> QED BY <1>i, <1>0, <2>1, <2>2 DEF Counted, NumberingTyped
<1>2. ASSUME NEW c \in Callers, NumberPage(c) PROVE Counted'
  <2>1. PICK n \in Nat : n = (IF next = 0 THEN First ELSE next)
    BY <1>i, FirstFacts DEF NumberingTyped
  <2>2. n <= MaxOwn + k + 1
    <3>1. MaxOwn + k \in Nat /\ \A t \in placed : t.number <= MaxOwn + k
      BY <1>i, <1>0
    <3>2. First <= MaxOwn + k + 1
      BY <1>i, <3>1, FirstFacts
    <3> QED BY <1>i, <1>0, <2>1, <3>2
  <2>3. call' = [call EXCEPT ![c] = [pc |-> "numbered", kind |-> "page", number |-> n]]
        /\ next' = n + 1 /\ UNCHANGED <<counter, placed>> /\ call[c].pc = "new"
    BY <1>2, <2>1 DEF NumberPage
  <2>4. Count' = k + 1
    BY <1>i, <1>0, <2>3, OneMoreStarts DEF NumberingTyped, Begun
  <2> QED BY <1>i, <1>0, <2>2, <2>3, <2>4 DEF Counted, NumberingTyped
<1>3. ASSUME NEW c \in Callers, NEW n \in 1 .. MaxOwn, OwnNumber(c, n) PROVE Counted'
  <2>1. call' = [call EXCEPT ![c] = [pc |-> "numbered", kind |-> "own", number |-> n]]
        /\ UNCHANGED <<counter, next, placed>> /\ call[c].pc = "new"
    BY <1>3 DEF OwnNumber
  <2>2. Count' = k + 1
    BY <1>i, <1>0, <2>1, OneMoreStarts DEF NumberingTyped, Begun
  <2> QED BY <1>i, <1>0, <2>1, <2>2 DEF Counted, NumberingTyped
<1>4. ASSUME NEW c \in Callers, Place(c) PROVE Counted'
  <2>1. Begun' = Begun
    BY <1>4, <1>i DEF Place, Begun, NumberingTyped
  <2> QED BY <1>4, <1>i, <1>0, <1>k, <2>1 DEF Place, Counted, NumberingTyped
<1>5. ASSUME NEW c \in Callers, Abandon(c) PROVE Counted'
  <2>1. Begun' = Begun
    BY <1>5, <1>i DEF Abandon, Begun, NumberingTyped
  <2> QED BY <1>5, <1>i, <1>0, <1>k, <2>1 DEF Abandon, Counted, NumberingTyped
<1>6. ASSUME NEW t \in placed, Index(t) PROVE Counted'
  <2>1. Begun' = Begun
    BY <1>6 DEF Index, Begun
  <2> QED BY <1>6, <1>i, <1>0, <1>k, <2>1 DEF Index, Counted
<1>7. CASE Restart
  <2>1. Begun' = Begun
    BY <1>7, <1>i DEF Restart, Begun, NumberingTyped
  <2>2. \A c \in Callers : call'[c].number = call[c].number
    BY <1>7, <1>i DEF Restart, NumberingTyped
  <2> QED BY <1>7, <1>i, <1>0, <1>k, <2>1, <2>2 DEF Restart, Counted
<1>8. CASE UNCHANGED numberingVars
  <2>1. Begun' = Begun
    BY <1>8 DEF numberingVars, Begun
  <2> QED BY <1>8, <1>i, <1>0, <1>k, <2>1 DEF numberingVars, Counted
<1> QED BY <1>1, <1>2, <1>3, <1>4, <1>5, <1>6, <1>7, <1>8 DEF NumberingNext

(* Restarts are counted against their bound.                               *)
LEMMA StepRestarts ==
  ASSUME restarts \in 0 .. MaxRestarts, [NumberingNext]_numberingVars
  PROVE  restarts' \in 0 .. MaxRestarts
BY NumberingAssumption
   DEF NumberingNext, NumberAppend, NumberPage, OwnNumber, Place, Abandon, Index, Restart, numberingVars

(* Every variable keeps its type, and no number that is given, placed or   *)
(* next exceeds what clients gave themselves by more than there are        *)
(* requests, whichever of them fail and however often processes restart.   *)
THEOREM NumbersAreBounded == NumberingSpec => []NumberingTypeOK
<1> DEFINE All == NumberingInv /\ Counted /\ restarts \in 0 .. MaxRestarts
<1>1. NumberingInit => All
  <2> SUFFICES ASSUME NumberingInit PROVE Counted /\ restarts \in 0 .. MaxRestarts
    BY InitNumbering
  <2> QED BY CountFacts, NumberingAssumption DEF NumberingInit, NewCall, Counted
<1>2. All /\ [NumberingNext]_numberingVars => All'
  BY StepNumbering, StepCounted, StepRestarts
<1>3. All => NumberingTypeOK
  <2> SUFFICES ASSUME NumberingTyped, Counted, restarts \in 0 .. MaxRestarts PROVE NumberingTypeOK
    BY DEF NumberingInv
  <2>1. \A n \in Nat : n <= MaxOwn + Count + 1 => n \in Number
    BY CountFacts, NumberingAssumption DEF Number
  <2>2. MaxOwn + Count \in Nat /\ MaxOwn + Count <= MaxOwn + Count + 1 /\ Count <= MaxOwn + Count + 1
    BY CountFacts, NumberingAssumption
  <2>3. counter \in Number /\ next \in Number
    BY <2>1, <2>2, CountFacts DEF Counted, NumberingTyped
  <2>4. \A c \in Callers : call[c].number \in Number
    BY <2>1, <2>2 DEF Counted, NumberingTyped
  <2>5. \A t \in placed : t.number \in Number
    BY <2>1, <2>2 DEF Counted, NumberingTyped
  <2> HIDE DEF Number
  <2> QED BY <2>3, <2>4, <2>5 DEF NumberingTyped, NumberingTypeOK
<1> QED BY <1>1, <1>2, <1>3, PTL DEF NumberingSpec
-----------------------------------------------------------------------------
(* Webhooks: the inductive invariant.                                      *)

Statuses  == {"pending", "delivered", "failed"}
Attempts  == Seq(Statuses)
Fates     == {"none", "underway", "delivered", "exhausted", "dropped"}
DeliveryTypes ==
  /\ registered \subseteq Hooks /\ sending \in [Events -> SUBSET Hooks]
  /\ jobs \in Seq(JobsOf) /\ Len(jobs) <= JobsCap /\ timers \subseteq JobsOf
  /\ posting \in [Posters -> JobsOf \union {NoPost}]
  /\ phase \in {"up", "stopping", "stopped", "crashed"}
  /\ deliveries \in [Hooks -> [Events -> Attempts]] /\ fate \in [Hooks -> [Events -> Fates]]

(* One delivery has one job at a time, in one place.                       *)
InQueue(h, e) == \E i \in DOMAIN jobs : jobs[i].hook = h /\ jobs[i].event = e
InTimers(h, e) == \E j \in timers : j.hook = h /\ j.event = e
InPost(h, e)  == \E w \in Posters : posting[w] # NoPost /\ posting[w].hook = h /\ posting[w].event = e
OneQueued(h, e) ==
  \A i, k \in DOMAIN jobs : jobs[i].hook = h /\ jobs[i].event = e /\ jobs[k].hook = h /\ jobs[k].event = e => i = k
OneTimer(h, e) == \A j, l \in timers : j.hook = h /\ j.event = e /\ l.hook = h /\ l.event = e => j = l
OnePost(h, e) ==
  \A v, w \in Posters :
    posting[v] # NoPost /\ posting[w] # NoPost
      /\ posting[v].hook = h /\ posting[v].event = e /\ posting[w].hook = h /\ posting[w].event = e => v = w
OnePlace(h, e) ==
  /\ ~ (InQueue(h, e) /\ InTimers(h, e)) /\ ~ (InQueue(h, e) /\ InPost(h, e)) /\ ~ (InTimers(h, e) /\ InPost(h, e))
  /\ fate[h][e] # "underway" => ~ InQueue(h, e) /\ ~ InTimers(h, e) /\ ~ InPost(h, e)
OneJob(h, e) == OneQueued(h, e) /\ OneTimer(h, e) /\ OnePost(h, e) /\ OnePlace(h, e)

(* A job in the queue or in a timer comes after attempts that all failed;  *)
(* one that is posted has the last attempt; nothing is recorded before the *)
(* first one, and a webhook still to be sent to has none.                  *)
Failed(log, n) == \A i \in 1 .. n : log[i] = "failed"
Logged(h, e) ==
  /\ Len(deliveries[h][e]) <= MaxRetries + 1
  /\ Failed(deliveries[h][e], Len(deliveries[h][e]) - 1)
  /\ \A i \in DOMAIN jobs : jobs[i].hook = h /\ jobs[i].event = e =>
       jobs[i].attempt = Len(deliveries[h][e]) /\ Failed(deliveries[h][e], Len(deliveries[h][e]))
  /\ \A j \in timers : j.hook = h /\ j.event = e =>
       j.attempt < MaxRetries /\ j.attempt + 1 = Len(deliveries[h][e]) /\ Failed(deliveries[h][e], Len(deliveries[h][e]))
  /\ \A w \in Posters : posting[w] # NoPost /\ posting[w].hook = h /\ posting[w].event = e =>
       posting[w].attempt + 1 = Len(deliveries[h][e])
  /\ fate[h][e] = "none" => deliveries[h][e] = <<>>
  /\ h \in sending[e] => fate[h][e] = "none"

WebhooksInv == DeliveryTypes /\ \A h \in Hooks, e \in Events : OneJob(h, e) /\ Logged(h, e)

(* What a job is.                                                          *)
LEMMA JobOf ==
  ASSUME NEW j \in JobsOf
  PROVE  /\ j.hook \in Hooks /\ j.event \in Events /\ j.attempt \in 0 .. MaxRetries /\ j.attempt \in Nat
         /\ j.attempt < MaxRetries => /\ [j EXCEPT !.attempt = @ + 1] \in JobsOf
                                      /\ [j EXCEPT !.attempt = @ + 1].hook = j.hook
                                      /\ [j EXCEPT !.attempt = @ + 1].event = j.event
                                      /\ [j EXCEPT !.attempt = @ + 1].attempt = j.attempt + 1
BY WebhooksAssumption DEF JobsOf

(* A table of the deliveries with one entry replaced, and a log with one   *)
(* attempt updated.                                                        *)
Replaced(table, h, e, v) == [table EXCEPT ![h][e] = v]
LogWith(log, n, s)       == [log EXCEPT ![n] = s]

(* Replacing an entry leaves the others.                                   *)
LEMMA EntryReplaced ==
  ASSUME deliveries \in [Hooks -> [Events -> Attempts]], NEW h \in Hooks, NEW e \in Events, NEW v \in Attempts,
         deliveries' = Replaced(deliveries, h, e, v)
  PROVE  /\ deliveries' \in [Hooks -> [Events -> Attempts]] /\ deliveries'[h][e] = v
         /\ \A g \in Hooks, d \in Events : g # h \/ d # e => deliveries'[g][d] = deliveries[g][d]
<1>1. deliveries[h] \in [Events -> Attempts]
  OBVIOUS
<1>2. PICK row \in [Events -> Attempts] : row = [deliveries[h] EXCEPT ![e] = v]
  BY <1>1
<1>3. deliveries' = [deliveries EXCEPT ![h] = row]
  BY <1>2 DEF Replaced
<1>4. deliveries' \in [Hooks -> [Events -> Attempts]] /\ deliveries'[h] = row
      /\ \A g \in Hooks : g # h => deliveries'[g] = deliveries[g]
  BY <1>3
<1>5. row[e] = v /\ \A d \in Events : d # e => row[d] = deliveries[h][d]
  BY <1>1, <1>2
<1>6. ASSUME NEW g \in Hooks, NEW d \in Events, g # h \/ d # e PROVE deliveries'[g][d] = deliveries[g][d]
  BY <1>4, <1>5, <1>6
<1> QED BY <1>4, <1>5, <1>6

(* What became of a delivery.                                              *)
LEMMA FateDecided ==
  ASSUME DeliveryTypes, NEW h \in Hooks, NEW e \in Events, NEW f \in Fates, Decided(h, e, f)
  PROVE  /\ fate' \in [Hooks -> [Events -> Fates]] /\ fate'[h][e] = f
         /\ \A g \in Hooks, d \in Events : g # h \/ d # e => fate'[g][d] = fate[g][d]
<1>1. fate \in [Hooks -> [Events -> Fates]] /\ fate[h] \in [Events -> Fates]
  BY DEF DeliveryTypes
<1>2. PICK row \in [Events -> Fates] : row = [fate[h] EXCEPT ![e] = f]
  BY <1>1
<1>3. fate' = [fate EXCEPT ![h] = row]
  BY <1>2 DEF Decided
<1>4. fate' \in [Hooks -> [Events -> Fates]] /\ fate'[h] = row
      /\ \A g \in Hooks : g # h => fate'[g] = fate[g]
  BY <1>1, <1>3
<1>5. row[e] = f /\ \A d \in Events : d # e => row[d] = fate[h][d]
  BY <1>1, <1>2
<1>6. ASSUME NEW g \in Hooks, NEW d \in Events, g # h \/ d # e PROVE fate'[g][d] = fate[g][d]
  BY <1>4, <1>5, <1>6
<1> QED BY <1>4, <1>5, <1>6

(* The same, for one pair of a webhook and an event.                       *)
LEMMA FateOf ==
  ASSUME DeliveryTypes, NEW g \in Hooks, NEW d \in Events, NEW f \in Fates, Decided(g, d, f), NEW h \in Hooks, NEW e \in Events
  PROVE  /\ g = h /\ d = e => fate'[h][e] = f
         /\ ~ (g = h /\ d = e) => fate'[h][e] = fate[h][e]
<1>1. fate'[g][d] = f /\ \A k \in Hooks, l \in Events : k # g \/ l # d => fate'[k][l] = fate[k][l]
  BY FateDecided
<1> QED BY <1>1

(* Appending to the queue.                                                 *)
LEMMA QueueGrows ==
  ASSUME DeliveryTypes, NEW j, jobs' = Append(jobs, j)
  PROVE  /\ \A i \in DOMAIN jobs : i \in DOMAIN jobs' /\ jobs'[i] = jobs[i] /\ i # Len(jobs) + 1
         /\ \A i \in DOMAIN jobs' : i \in DOMAIN jobs \/ (i = Len(jobs) + 1 /\ jobs'[i] = j)
         /\ j \in JobsOf => jobs' \in Seq(JobsOf) /\ Len(jobs') = Len(jobs) + 1 /\ Len(jobs) \in Nat
<1>1. jobs \in Seq(JobsOf) /\ Len(jobs) \in Nat /\ DOMAIN jobs = 1 .. Len(jobs)
  BY DEF DeliveryTypes
<1>2. DOMAIN jobs' = 1 .. Len(jobs) + 1 /\ jobs'[Len(jobs) + 1] = j /\ \A i \in 1 .. Len(jobs) : jobs'[i] = jobs[i]
  BY <1>1
<1>3. j \in JobsOf => jobs' \in Seq(JobsOf) /\ Len(jobs') = Len(jobs) + 1
  BY <1>1, AppendProperties
<1> QED BY <1>1, <1>2, <1>3

(* Taking its head.                                                        *)
LEMMA QueueShrinks ==
  ASSUME DeliveryTypes, jobs # <<>>, jobs' = Tail(jobs)
  PROVE  /\ Head(jobs) = jobs[1] /\ 1 \in DOMAIN jobs /\ jobs[1] \in JobsOf
         /\ \A i \in DOMAIN jobs' : i \in Nat \ {0} /\ i + 1 \in DOMAIN jobs /\ jobs'[i] = jobs[i + 1]
         /\ jobs' \in Seq(JobsOf) /\ Len(jobs') <= JobsCap
<1>1. jobs \in Seq(JobsOf) /\ Len(jobs) \in Nat /\ DOMAIN jobs = 1 .. Len(jobs) /\ Len(jobs) <= JobsCap
  BY DEF DeliveryTypes
<1>2. Len(jobs) # 0
  BY <1>1, EmptySeq
<1>3. jobs' \in Seq(JobsOf) /\ Len(jobs') = Len(jobs) - 1 /\ DOMAIN jobs' = 1 .. Len(jobs')
  BY <1>1, <1>2, HeadTailProperties
<1>4. \A i \in DOMAIN jobs' : jobs'[i] = jobs[i + 1]
  BY <1>1, <1>2, <1>3, HeadTailProperties
<1>5. jobs[1] \in JobsOf /\ Head(jobs) = jobs[1]
  BY <1>1, <1>2
<1> QED BY <1>1, <1>2, <1>3, <1>4, <1>5, WebhooksAssumption

(* A log with an attempt added, and one with an attempt updated.           *)
LEMMA LogGrows ==
  ASSUME NEW log \in Attempts, NEW s \in Statuses
  PROVE  /\ Len(log) \in Nat /\ Append(log, s) \in Attempts /\ Len(Append(log, s)) = Len(log) + 1
         /\ Failed(log, Len(log)) => Failed(Append(log, s), Len(log))
<1>1. Len(log) \in Nat /\ log \in Seq(Statuses)
  BY DEF Attempts
<1>2. Append(log, s) \in Attempts /\ Len(Append(log, s)) = Len(log) + 1
  BY <1>1, AppendProperties DEF Attempts
<1>3. Failed(log, Len(log)) => Failed(Append(log, s), Len(log))
  BY <1>1 DEF Failed
<1> QED BY <1>1, <1>2, <1>3

(* Updating an attempt leaves the others.                                  *)
LEMMA LogUpdated ==
  ASSUME NEW log \in Attempts, NEW n \in 1 .. Len(log), NEW s \in Statuses
  PROVE  /\ LogWith(log, n, s) \in Attempts /\ Len(LogWith(log, n, s)) = Len(log) /\ Len(log) \in Nat
         /\ \A i \in 1 .. Len(log) : LogWith(log, n, s)[i] = IF i = n THEN s ELSE log[i]
<1>1. log \in Seq(Statuses) /\ Len(log) \in Nat
  BY DEF Attempts
<1>2. [log EXCEPT ![n] = s] \in Seq(Statuses) /\ Len([log EXCEPT ![n] = s]) = Len(log)
  BY <1>1, ExceptSeq
<1>3. \A i \in 1 .. Len(log) : [log EXCEPT ![n] = s][i] = IF i = n THEN s ELSE log[i]
  BY <1>1
<1> QED BY <1>1, <1>2, <1>3 DEF Attempts, LogWith

(* Every step keeps the types.                                             *)
LEMMA StepDeliveryTypes ==
  ASSUME WebhooksInv, [WebhooksNext]_webhookVars
  PROVE  DeliveryTypes'
<1>1. DeliveryTypes
  BY DEF WebhooksInv
<1>2. ASSUME NEW h \in Hooks, DeleteHook(h) PROVE DeliveryTypes'
  BY <1>1, <1>2 DEF DeleteHook, DeliveryTypes
<1>3. ASSUME NEW e \in Events, Dispatch(e) PROVE DeliveryTypes'
  BY <1>1, <1>3 DEF Dispatch, DeliveryTypes
<1>4. ASSUME NEW h \in Hooks, NEW e \in Events, SendTo(h, e) PROVE DeliveryTypes'
  <2>1. /\ UNCHANGED <<registered, posting, timers, phase, deliveries>> /\ sending' \in [Events -> SUBSET Hooks]
        /\ \E f \in Fates : Decided(h, e, f)
    <3>1. {"underway", "dropped"} \subseteq Fates
      BY DEF Fates
    <3> QED BY <1>1, <1>4, <3>1 DEF SendTo, DeliveryTypes
  <2>2. [hook |-> h, event |-> e, attempt |-> 0] \in JobsOf
    BY WebhooksAssumption DEF JobsOf
  <2>3. jobs' \in Seq(JobsOf) /\ Len(jobs') <= JobsCap
    <3>1. CASE HasRoom
      <4>1. PICK j \in JobsOf : j = [hook |-> h, event |-> e, attempt |-> 0]
        BY <2>2
      <4>2. jobs' = Append(jobs, j)
        BY <1>4, <3>1, <4>1 DEF SendTo
      <4> QED BY <1>1, <3>1, <4>1, <4>2, QueueGrows, WebhooksAssumption DEF HasRoom
    <3>2. CASE ~ HasRoom
      BY <1>1, <1>4, <3>2 DEF SendTo, DeliveryTypes
    <3> QED BY <3>1, <3>2
  <2>4. fate' \in [Hooks -> [Events -> Fates]]
    BY <1>1, <2>1, FateDecided
  <2> QED BY <1>1, <2>1, <2>3, <2>4 DEF DeliveryTypes
<1>5. ASSUME NEW h \in Hooks, NEW e \in Events, HookGone(h, e) PROVE DeliveryTypes'
  BY <1>1, <1>5 DEF HookGone, DeliveryTypes
<1>6. ASSUME NEW w \in Posters, TakeJob(w) PROVE DeliveryTypes'
  <2>1. PICK j : j = Head(jobs)
    OBVIOUS
  <2>2. jobs # <<>> /\ jobs' = Tail(jobs) /\ posting' = [posting EXCEPT ![w] = j] /\ UNCHANGED <<registered, sending, timers, phase, fate>>
        /\ deliveries' = [deliveries EXCEPT ![j.hook][j.event] = Append(deliveries[j.hook][j.event], "pending")]
    BY <1>6, <2>1 DEF TakeJob
  <2>3. j \in JobsOf /\ jobs' \in Seq(JobsOf) /\ Len(jobs') <= JobsCap
    BY <1>1, <2>1, <2>2, QueueShrinks
  <2>4. Append(deliveries[j.hook][j.event], "pending") \in Attempts
    <3>1. j.hook \in Hooks /\ j.event \in Events /\ "pending" \in Statuses
      BY <2>3, JobOf DEF Statuses
    <3>2. deliveries[j.hook][j.event] \in Attempts
      BY <1>1, <3>1 DEF DeliveryTypes
    <3> QED BY <3>1, <3>2, LogGrows
  <2>5. deliveries' \in [Hooks -> [Events -> Attempts]]
    <3>1. j.hook \in Hooks /\ j.event \in Events
      BY <2>3, JobOf
    <3>2. deliveries' = Replaced(deliveries, j.hook, j.event, Append(deliveries[j.hook][j.event], "pending"))
      BY <2>2 DEF Replaced
    <3> QED BY <1>1, <2>4, <3>1, <3>2, EntryReplaced DEF DeliveryTypes
  <2> QED BY <1>1, <2>2, <2>3, <2>5 DEF DeliveryTypes
<1>7. ASSUME NEW w \in Posters, NEW o \in {"delivered", "failed"}, posting[w] # NoPost, Updated(posting[w], o),
             posting' = [posting EXCEPT ![w] = NoPost], UNCHANGED <<registered, sending, jobs, phase>>,
             timers' \subseteq JobsOf, fate' \in [Hooks -> [Events -> Fates]]
      PROVE  DeliveryTypes'
  <2>1. PICK j \in JobsOf : j = posting[w]
    BY <1>1, <1>7 DEF DeliveryTypes
  <2>2. PICK log \in Attempts : log = deliveries[j.hook][j.event]
    <3>1. j.hook \in Hooks /\ j.event \in Events
      BY JobOf
    <3> QED BY <1>1, <3>1 DEF DeliveryTypes
  <2>3. j.attempt + 1 \in 1 .. Len(log)
    <3>1. j.hook \in Hooks /\ j.event \in Events /\ j.attempt \in Nat
      BY JobOf, WebhooksAssumption
    <3>2. Logged(j.hook, j.event)
      BY <3>1 DEF WebhooksInv
    <3>3. j.attempt + 1 = Len(log)
      BY <1>7, <2>1, <2>2, <3>2 DEF Logged
    <3> QED BY <3>1, <3>3
  <2>4. LogWith(log, j.attempt + 1, o) \in Attempts
    BY <1>7, <2>3, LogUpdated DEF Statuses
  <2>5. deliveries' = Replaced(deliveries, j.hook, j.event, LogWith(log, j.attempt + 1, o))
    BY <1>7, <2>1, <2>2 DEF Updated, Replaced, LogWith
  <2>6. deliveries' \in [Hooks -> [Events -> Attempts]]
    <3>1. j.hook \in Hooks /\ j.event \in Events
      BY JobOf
    <3> QED BY <1>1, <2>4, <2>5, <3>1, EntryReplaced DEF DeliveryTypes
  <2> QED BY <1>1, <1>7, <2>6 DEF DeliveryTypes
<1>8. ASSUME NEW w \in Posters, Posted(w) PROVE DeliveryTypes'
  <2>1. fate' \in [Hooks -> [Events -> Fates]]
    <3>1. PICK j \in JobsOf : j = posting[w]
      BY <1>1, <1>8 DEF Posted, DeliveryTypes
    <3>2. j.hook \in Hooks /\ j.event \in Events /\ {"delivered", "exhausted"} \subseteq Fates
      BY JobOf DEF Fates
    <3>3. Decided(j.hook, j.event, "delivered")
      BY <1>8, <3>1 DEF Posted
    <3> QED BY <1>1, <3>2, <3>3, FateDecided
  <2> QED BY <1>1, <1>7, <1>8, <2>1 DEF Posted, DeliveryTypes
<1>9. ASSUME NEW w \in Posters, PostFails(w) PROVE DeliveryTypes'
  <2>1. fate' \in [Hooks -> [Events -> Fates]]
    <3>1. PICK j \in JobsOf : j = posting[w]
      BY <1>1, <1>9 DEF PostFails, DeliveryTypes
    <3>2. j.hook \in Hooks /\ j.event \in Events /\ {"delivered", "exhausted"} \subseteq Fates
      BY JobOf DEF Fates
    <3>3. PICK h \in Hooks, e \in Events : h = j.hook /\ e = j.event
      BY <3>2
    <3>4. fate' = fate \/ Decided(h, e, "exhausted")
      BY <1>9, <3>1, <3>3 DEF PostFails
    <3>5. fate \in [Hooks -> [Events -> Fates]]
      BY <1>1 DEF DeliveryTypes
    <3> QED BY <1>1, <3>2, <3>4, <3>5, FateDecided
  <2>2. timers' \subseteq JobsOf
    BY <1>1, <1>9 DEF PostFails, Retry, DeliveryTypes
  <2> QED BY <1>7, <1>9, <2>1, <2>2 DEF PostFails
<1>10. ASSUME NEW j \in timers, TimerFires(j) PROVE DeliveryTypes'
  <2>1. j \in JobsOf /\ j.attempt < MaxRetries
    <3>1. j \in JobsOf
      BY <1>1 DEF DeliveryTypes
    <3>2. Logged(j.hook, j.event)
      BY <3>1, JobOf DEF WebhooksInv
    <3> QED BY <3>1, <3>2 DEF Logged
  <2>2. fate' \in [Hooks -> [Events -> Fates]]
    <3>1. j.hook \in Hooks /\ j.event \in Events /\ "dropped" \in Fates
      BY <2>1, JobOf DEF Fates
    <3>2. PICK h \in Hooks, e \in Events : h = j.hook /\ e = j.event
      BY <3>1
    <3>3. fate' = fate \/ Decided(h, e, "dropped")
      BY <1>10, <3>2 DEF TimerFires
    <3>4. fate \in [Hooks -> [Events -> Fates]]
      BY <1>1 DEF DeliveryTypes
    <3> QED BY <1>1, <3>1, <3>3, <3>4, FateDecided
  <2>3. jobs' \in Seq(JobsOf) /\ Len(jobs') <= JobsCap
    <3>1. CASE HasRoom
      <4>1. PICK k \in JobsOf : k = [j EXCEPT !.attempt = @ + 1]
        BY <2>1, JobOf
      <4>2. jobs' = Append(jobs, k)
        BY <1>10, <3>1, <4>1 DEF TimerFires
      <4> QED BY <1>1, <3>1, <4>1, <4>2, QueueGrows, WebhooksAssumption DEF HasRoom
    <3>2. CASE ~ HasRoom
      BY <1>1, <1>10, <3>2 DEF TimerFires, DeliveryTypes
    <3> QED BY <3>1, <3>2
  <2> QED BY <1>1, <1>10, <2>2, <2>3 DEF TimerFires, DeliveryTypes
<1>11. ASSUME Close \/ WorkersLeave \/ ServerEnds \/ UNCHANGED webhookVars PROVE DeliveryTypes'
  <2>1. CASE ServerEnds
    <3>1. jobs' \in Seq(JobsOf) /\ Len(jobs') = 0
      BY <2>1, EmptySeq DEF ServerEnds
    <3> QED BY <1>1, <2>1, <3>1, WebhooksAssumption DEF ServerEnds, DeliveryTypes
  <2>2. CASE Close \/ WorkersLeave \/ UNCHANGED webhookVars
    BY <1>1, <2>2 DEF Close, WorkersLeave, webhookVars, DeliveryTypes
  <2> QED BY <1>11, <2>1, <2>2
<1> QED BY <1>2, <1>3, <1>4, <1>5, <1>6, <1>8, <1>9, <1>10, <1>11 DEF WebhooksNext, Deliver, Timer

(* A pair whose queue loses nothing but its head, and whose timers and     *)
(* posts stay, keeps them.                                                 *)
LEMMA JobsStayOne ==
  ASSUME NEW h \in Hooks, NEW e \in Events, OneJob(h, e), Logged(h, e),
         jobs' = jobs \/ jobs' = <<>>, timers' \subseteq timers,
         \A w \in Posters : posting'[w] \in {posting[w], NoPost},
         deliveries'[h][e] = deliveries[h][e], h \in sending'[e] => h \in sending[e] \/ fate[h][e] = "none",
         \/ fate'[h][e] = fate[h][e]
         \/ /\ fate'[h][e] # "none" /\ h \notin sending'[e]
            /\ ~ InQueue(h, e)' /\ ~ InTimers(h, e)' /\ ~ InPost(h, e)'
  PROVE  OneJob(h, e)' /\ Logged(h, e)'
<1>1. /\ InQueue(h, e)' => InQueue(h, e)
      /\ InTimers(h, e)' => InTimers(h, e)
      /\ InPost(h, e)' => InPost(h, e)
  BY DEF InQueue, InTimers, InPost
<1>2. OneQueued(h, e)' /\ OneTimer(h, e)' /\ OnePost(h, e)'
  BY DEF OneJob, OneQueued, OneTimer, OnePost
<1>3. OnePlace(h, e)'
  BY <1>1 DEF OneJob, OnePlace
<1>4. Logged(h, e)'
  BY DEF Logged
<1> QED BY <1>2, <1>3, <1>4 DEF OneJob

(* A job put in the queue.                                                 *)
LEMMA JobQueued ==
  ASSUME DeliveryTypes, NEW h \in Hooks, NEW e \in Events, OneJob(h, e), Logged(h, e),
         NEW k \in JobsOf, jobs' = Append(jobs, k), timers' \subseteq timers, posting' = posting,
         deliveries'[h][e] = deliveries[h][e], sending'[e] \subseteq sending[e],
         IF k.hook = h /\ k.event = e
         THEN /\ ~ InQueue(h, e) /\ ~ InTimers(h, e)' /\ ~ InPost(h, e)
              /\ fate'[h][e] = "underway" /\ h \notin sending'[e]
              /\ k.attempt = Len(deliveries[h][e]) /\ Failed(deliveries[h][e], Len(deliveries[h][e]))
         ELSE fate'[h][e] = fate[h][e]
  PROVE  OneJob(h, e)' /\ Logged(h, e)'
<1>1. /\ \A i \in DOMAIN jobs : i \in DOMAIN jobs' /\ jobs'[i] = jobs[i]
      /\ \A i \in DOMAIN jobs' : i \in DOMAIN jobs \/ (i = Len(jobs) + 1 /\ jobs'[i] = k)
  BY QueueGrows
<1>2. /\ InQueue(h, e)' => InQueue(h, e) \/ (k.hook = h /\ k.event = e)
      /\ InTimers(h, e)' => InTimers(h, e)
      /\ InPost(h, e)' <=> InPost(h, e)
  BY <1>1 DEF InQueue, InTimers, InPost
<1>3. OneQueued(h, e)'
  BY <1>1 DEF OneJob, OneQueued, InQueue
<1>4. OneTimer(h, e)' /\ OnePost(h, e)'
  BY DEF OneJob, OneTimer, OnePost
<1>5. OnePlace(h, e)'
  BY <1>2 DEF OneJob, OnePlace
<1>6. Logged(h, e)'
  BY <1>1 DEF Logged
<1> QED BY <1>3, <1>4, <1>5, <1>6 DEF OneJob

(* A job taken from the queue.                                             *)
LEMMA JobTaken ==
  ASSUME DeliveryTypes, NEW h \in Hooks, NEW e \in Events, OneJob(h, e), Logged(h, e), NEW w \in Posters, TakeJob(w)
  PROVE  OneJob(h, e)' /\ Logged(h, e)'
<1>1. PICK j : j = jobs[1]
  OBVIOUS
<1>2. jobs # <<>> /\ jobs' = Tail(jobs) /\ Head(jobs) = j /\ 1 \in DOMAIN jobs /\ j \in JobsOf
  BY <1>1, QueueShrinks DEF TakeJob
<1>3. \A i \in DOMAIN jobs' : i + 1 \in DOMAIN jobs /\ i + 1 # 1 /\ jobs'[i] = jobs[i + 1] /\ i \in Nat
  BY <1>2, QueueShrinks
<1>4. PICK g \in Hooks, d \in Events : g = j.hook /\ d = j.event
  BY <1>2, JobOf
<1>5. PICK log \in Attempts : log = deliveries[h][e]
  BY DEF DeliveryTypes
<1>6. /\ posting' = [posting EXCEPT ![w] = j] /\ posting[w] = NoPost /\ UNCHANGED <<sending, timers, fate>>
      /\ deliveries' = [deliveries EXCEPT ![g][d] = Append(deliveries[g][d], "pending")]
  BY <1>2, <1>4 DEF TakeJob
<1>7. deliveries[g][d] \in Attempts /\ Append(deliveries[g][d], "pending") \in Attempts
  BY <1>4, LogGrows DEF DeliveryTypes, Statuses
<1>8. /\ h = g /\ e = d => deliveries'[h][e] = Append(log, "pending")
      /\ ~ (h = g /\ e = d) => deliveries'[h][e] = log
  <2>1. PICK v \in Attempts : v = Append(deliveries[g][d], "pending")
    BY <1>7
  <2>2. deliveries' = Replaced(deliveries, g, d, v)
    BY <1>6, <2>1 DEF Replaced
  <2>3. deliveries'[g][d] = v /\ (h # g \/ e # d => deliveries'[h][e] = deliveries[h][e])
    BY <2>2, EntryReplaced DEF DeliveryTypes
  <2> QED BY <1>5, <2>1, <2>3
<1>9. posting'[w] = j /\ \A v \in Posters \ {w} : posting'[v] = posting[v]
  BY <1>6 DEF DeliveryTypes
<1>10. InQueue(h, e)' => InQueue(h, e)
  BY <1>3 DEF InQueue
<1>11. InTimers(h, e)' <=> InTimers(h, e)
  BY <1>6 DEF InTimers
<1>12. CASE h = g /\ e = d
  <2>1. j.hook = h /\ j.event = e /\ InQueue(h, e)
    BY <1>1, <1>2, <1>4, <1>12 DEF InQueue
  <2>2. ~ InTimers(h, e) /\ ~ InPost(h, e) /\ fate[h][e] = "underway"
    BY <2>1 DEF OneJob, OnePlace
  <2>3. ~ InQueue(h, e)'
    <3> SUFFICES ASSUME NEW i \in DOMAIN jobs', jobs'[i].hook = h, jobs'[i].event = e PROVE FALSE
      BY DEF InQueue
    <3>1. i + 1 = 1
      BY <1>1, <1>2, <1>3, <2>1 DEF OneJob, OneQueued
    <3> QED BY <1>3, <3>1
  <2>4. OneJob(h, e)'
    <3>1. \A v \in Posters : posting'[v] # NoPost /\ posting'[v].hook = h /\ posting'[v].event = e => v = w
      BY <1>9, <2>2 DEF InPost
    <3>2. OneQueued(h, e)' /\ OneTimer(h, e)'
      BY <1>11, <2>2, <2>3 DEF OneQueued, OneTimer, InQueue, InTimers
    <3>3. OnePost(h, e)'
      BY <3>1 DEF OnePost
    <3>4. OnePlace(h, e)'
      BY <1>6, <1>11, <2>2, <2>3 DEF OnePlace
    <3> QED BY <3>2, <3>3, <3>4 DEF OneJob
  <2>5. j.attempt = Len(log) /\ Failed(log, Len(log)) /\ j.attempt \in 0 .. MaxRetries
    BY <1>1, <1>2, <1>5, <2>1, JobOf DEF Logged
  <2>6. deliveries'[h][e] = Append(log, "pending") /\ Len(log) \in Nat /\ Len(Append(log, "pending")) = Len(log) + 1
        /\ Failed(Append(log, "pending"), Len(log))
    BY <1>8, <1>12, <2>5, LogGrows DEF Statuses
  <2>7. Len(deliveries'[h][e]) <= MaxRetries + 1 /\ Failed(deliveries'[h][e], Len(deliveries'[h][e]) - 1)
        /\ Len(deliveries'[h][e]) = j.attempt + 1
    BY <2>5, <2>6, WebhooksAssumption
  <2>8. \A v \in Posters : posting'[v] # NoPost /\ posting'[v].hook = h /\ posting'[v].event = e => v = w
    BY <1>9, <2>2 DEF InPost
  <2>9. fate'[h][e] = "underway" /\ (h \in sending'[e] => h \in sending[e])
    BY <1>6, <2>2
  <2> QED BY <1>9, <2>2, <2>3, <2>4, <2>7, <2>8, <2>9, <1>6 DEF Logged, InQueue, InTimers
<1>13. CASE ~ (h = g /\ e = d)
  <2>1. deliveries'[h][e] = deliveries[h][e] /\ ~ (j.hook = h /\ j.event = e)
    BY <1>4, <1>5, <1>8, <1>13
  <2>2. InPost(h, e)' => InPost(h, e)
    BY <1>9, <2>1 DEF InPost
  <2>3. OneQueued(h, e)'
    <3> SUFFICES ASSUME NEW i \in DOMAIN jobs', NEW l \in DOMAIN jobs', jobs'[i].hook = h, jobs'[i].event = e,
                        jobs'[l].hook = h, jobs'[l].event = e
                 PROVE  i = l
      BY DEF OneQueued
    <3>1. i + 1 = l + 1
      BY <1>3 DEF OneJob, OneQueued
    <3> QED BY <1>3, <3>1
  <2>4. OneJob(h, e)'
    <3>1. OneTimer(h, e)'
      BY <1>6 DEF OneJob, OneTimer
    <3>2. OnePost(h, e)'
      BY <1>9, <2>1 DEF OneJob, OnePost
    <3>3. OnePlace(h, e)'
      BY <1>6, <1>10, <1>11, <2>2 DEF OneJob, OnePlace
    <3> QED BY <2>3, <3>1, <3>2, <3>3 DEF OneJob
  <2>5. Logged(h, e)'
    BY <1>3, <1>6, <1>9, <2>1 DEF Logged
  <2> QED BY <2>4, <2>5
<1> QED BY <1>12, <1>13

(* A post that ends: what the log of its delivery is then.                 *)
LEMMA PostLogged ==
  ASSUME DeliveryTypes, NEW h \in Hooks, NEW e \in Events, Logged(h, e), NEW j \in JobsOf, j.hook = h, j.event = e,
         j.attempt + 1 = Len(deliveries[h][e]), NEW s \in Statuses, Updated(j, s)
  PROVE  /\ Len(deliveries[h][e]) \in Nat /\ Len(deliveries[h][e]) <= MaxRetries + 1
         /\ j.attempt + 1 = Len(deliveries[h][e]) /\ Len(deliveries'[h][e]) = Len(deliveries[h][e])
         /\ Failed(deliveries'[h][e], Len(deliveries[h][e]) - 1)
         /\ s = "failed" => Failed(deliveries'[h][e], Len(deliveries[h][e]))
<1>1. PICK log \in Attempts : log = deliveries[h][e]
  BY DEF DeliveryTypes
<1>2. j.attempt + 1 = Len(log) /\ Len(log) <= MaxRetries + 1 /\ Failed(log, Len(log) - 1) /\ j.attempt \in Nat
  BY <1>1, JobOf DEF Logged
<1>3. PICK n \in 1 .. Len(log) : n = j.attempt + 1 /\ n = Len(log)
  BY <1>2
<1>4. /\ LogWith(log, n, s) \in Attempts /\ Len(LogWith(log, n, s)) = Len(log) /\ Len(log) \in Nat
      /\ \A i \in 1 .. Len(log) : LogWith(log, n, s)[i] = IF i = n THEN s ELSE log[i]
  BY LogUpdated
<1>5. /\ Failed(LogWith(log, n, s), Len(log) - 1)
      /\ s = "failed" => Failed(LogWith(log, n, s), Len(log))
  <2>1. ASSUME NEW i \in 1 .. Len(log) - 1 PROVE LogWith(log, n, s)[i] = "failed"
    <3>1. i \in 1 .. Len(log) /\ i # n /\ log[i] = "failed"
      BY <1>2, <1>3, <1>4 DEF Failed
    <3> QED BY <1>4, <3>1
  <2>2. ASSUME s = "failed", NEW i \in 1 .. Len(log) PROVE LogWith(log, n, s)[i] = "failed"
    <3>1. CASE i = n
      BY <1>4, <2>2, <3>1
    <3>2. CASE i # n
      <4>1. i \in 1 .. Len(log) - 1
        BY <1>3, <1>4, <3>2
      <4> QED BY <2>1, <4>1
    <3> QED BY <3>1, <3>2
  <2> QED BY <2>1, <2>2 DEF Failed
<1>6. PICK v \in Attempts : v = LogWith(log, n, s)
  BY <1>4
<1>7. deliveries'[h][e] = LogWith(log, n, s)
  <2>1. deliveries' = Replaced(deliveries, h, e, v)
    BY <1>1, <1>3, <1>6 DEF Updated, Replaced, LogWith
  <2> QED BY <1>6, <2>1, EntryReplaced DEF DeliveryTypes
<1> QED BY <1>1, <1>2, <1>4, <1>5, <1>7

(* A post of its own delivery that ends.                                   *)
LEMMA PostEnds ==
  ASSUME DeliveryTypes, NEW h \in Hooks, NEW e \in Events, OneJob(h, e), Logged(h, e), NEW w \in Posters, NEW j \in JobsOf,
         j = posting[w], j # NoPost, j.hook = h, j.event = e, NEW s \in Statuses, Updated(j, s),
         posting' = [posting EXCEPT ![w] = NoPost], UNCHANGED <<sending, jobs>>,
         \/ timers' = timers /\ fate'[h][e] # "none" /\ fate'[h][e] # "underway"
         \/ timers' = timers \union {j} /\ s = "failed" /\ j.attempt < MaxRetries /\ fate'[h][e] = fate[h][e]
  PROVE  OneJob(h, e)' /\ Logged(h, e)'
<1>1. posting'[w] = NoPost /\ \A v \in Posters \ {w} : posting'[v] = posting[v]
  BY DEF DeliveryTypes
<1>2. InQueue(h, e)' <=> InQueue(h, e)
  BY DEF InQueue
<1>3. InPost(h, e) /\ fate[h][e] = "underway" /\ ~ InQueue(h, e) /\ ~ InTimers(h, e)
  BY DEF OneJob, OnePlace, InPost
<1>4. ~ InPost(h, e)'
  BY <1>1 DEF OneJob, OnePost, InPost
<1>5. /\ Len(deliveries'[h][e]) \in Nat /\ Len(deliveries'[h][e]) <= MaxRetries + 1
      /\ j.attempt + 1 = Len(deliveries'[h][e])
      /\ Failed(deliveries'[h][e], Len(deliveries'[h][e]) - 1)
      /\ s = "failed" => Failed(deliveries'[h][e], Len(deliveries'[h][e]))
  <2>1. /\ Len(deliveries[h][e]) \in Nat /\ Len(deliveries[h][e]) <= MaxRetries + 1
        /\ j.attempt + 1 = Len(deliveries[h][e]) /\ Len(deliveries'[h][e]) = Len(deliveries[h][e])
        /\ Failed(deliveries'[h][e], Len(deliveries[h][e]) - 1)
        /\ s = "failed" => Failed(deliveries'[h][e], Len(deliveries[h][e]))
    <3>1. j.attempt + 1 = Len(deliveries[h][e])
      BY DEF Logged
    <3> QED BY <3>1, PostLogged
  <2> QED BY <2>1
<1>6. h \notin sending'[e] /\ ~ InQueue(h, e)'
  BY <1>2, <1>3 DEF Logged
<1>7. CASE timers' = timers /\ fate'[h][e] # "none" /\ fate'[h][e] # "underway"
  <2>1. ~ InTimers(h, e)'
    BY <1>3, <1>7 DEF InTimers
  <2>2. OneJob(h, e)'
    BY <1>4, <1>6, <2>1 DEF OneJob, OneQueued, OneTimer, OnePost, OnePlace, InQueue, InTimers, InPost
  <2>3. Logged(h, e)'
    BY <1>4, <1>5, <1>6, <1>7, <2>1 DEF Logged, InQueue, InTimers, InPost
  <2> QED BY <2>2, <2>3
<1>8. CASE timers' = timers \union {j} /\ s = "failed" /\ j.attempt < MaxRetries /\ fate'[h][e] = fate[h][e]
  <2>1. \A k \in timers' : k.hook = h /\ k.event = e => k = j
    BY <1>3, <1>8 DEF InTimers
  <2>2. OneQueued(h, e)' /\ OneTimer(h, e)' /\ OnePost(h, e)'
    BY <1>4, <1>6, <2>1 DEF OneQueued, OneTimer, OnePost, InQueue, InPost
  <2>3. OnePlace(h, e)'
    BY <1>3, <1>4, <1>6, <1>8 DEF OnePlace
  <2>4. Logged(h, e)'
    BY <1>3, <1>4, <1>5, <1>6, <1>8, <2>1 DEF Logged, InQueue, InPost
  <2> QED BY <2>2, <2>3, <2>4 DEF OneJob
<1> QED BY <1>7, <1>8

(* A post of another delivery that ends.                                   *)
LEMMA PostEndsElsewhere ==
  ASSUME DeliveryTypes, NEW h \in Hooks, NEW e \in Events, OneJob(h, e), Logged(h, e), NEW w \in Posters, NEW j \in JobsOf,
         j.hook # h \/ j.event # e, NEW s \in Statuses, Updated(j, s),
         posting' = [posting EXCEPT ![w] = NoPost], UNCHANGED <<sending, jobs>>,
         timers' = timers \/ timers' = timers \union {j}, fate'[h][e] = fate[h][e]
  PROVE  OneJob(h, e)' /\ Logged(h, e)'
<1>1. posting'[w] = NoPost /\ \A v \in Posters \ {w} : posting'[v] = posting[v]
  BY DEF DeliveryTypes
<1>2. InPost(h, e)' => InPost(h, e)
  BY <1>1 DEF InPost
<1>3. InQueue(h, e)' <=> InQueue(h, e)
  BY DEF InQueue
<1>4. PICK g \in Hooks, d \in Events : g = j.hook /\ d = j.event
  BY JobOf
<1>5. deliveries'[h][e] = deliveries[h][e]
  BY <1>4 DEF Updated, DeliveryTypes
<1>6. \A k \in timers' : k.hook = h /\ k.event = e => k \in timers
  OBVIOUS
<1>7. InTimers(h, e)' => InTimers(h, e)
  BY <1>6 DEF InTimers
<1>8. OneQueued(h, e)' /\ OneTimer(h, e)' /\ OnePost(h, e)'
  BY <1>1, <1>6 DEF OneJob, OneQueued, OneTimer, OnePost
<1>9. OnePlace(h, e)'
  BY <1>2, <1>3, <1>7 DEF OneJob, OnePlace
<1>10. Logged(h, e)'
  BY <1>1, <1>5, <1>6 DEF Logged
<1> QED BY <1>8, <1>9, <1>10 DEF OneJob

(* Every step keeps each pair of a webhook and an event as it should be.   *)
LEMMA StepDelivery ==
  ASSUME WebhooksInv, [WebhooksNext]_webhookVars, NEW h \in Hooks, NEW e \in Events
  PROVE  OneJob(h, e)' /\ Logged(h, e)'
<1>1. DeliveryTypes /\ OneJob(h, e) /\ Logged(h, e)
  BY DEF WebhooksInv
<1>0. /\ "underway" \in Fates /\ "delivered" \in Fates
      /\ "exhausted" \in Fates /\ "dropped" \in Fates
  BY DEF Fates
<1>2. ASSUME NEW g \in Hooks, DeleteHook(g) PROVE OneJob(h, e)' /\ Logged(h, e)'
  BY <1>1, <1>2, JobsStayOne DEF DeleteHook
<1>3. ASSUME NEW d \in Events, Dispatch(d) PROVE OneJob(h, e)' /\ Logged(h, e)'
  <2>1. h \in sending'[e] => h \in sending[e] \/ fate[h][e] = "none"
    BY <1>1, <1>3 DEF Dispatch, DeliveryTypes
  <2> QED BY <1>1, <1>3, <2>1, JobsStayOne DEF Dispatch
<1>4. ASSUME NEW g \in Hooks, NEW d \in Events, SendTo(g, d) PROVE OneJob(h, e)' /\ Logged(h, e)'
  <2>1. /\ UNCHANGED <<timers, posting, deliveries>> /\ g \in sending[d]
        /\ sending'[e] \subseteq sending[e] /\ (g = h /\ d = e => h \notin sending'[e])
    BY <1>1, <1>4 DEF SendTo, DeliveryTypes
  <2>2. g = h /\ d = e =>
          /\ fate[h][e] = "none" /\ deliveries[h][e] = <<>>
          /\ ~ InQueue(h, e) /\ ~ InTimers(h, e) /\ ~ InPost(h, e)
    BY <1>1, <2>1 DEF OneJob, OnePlace, Logged
  <2>3. /\ ~ InTimers(h, e) => ~ InTimers(h, e)'
        /\ ~ InPost(h, e) => ~ InPost(h, e)'
    BY <2>1 DEF InTimers, InPost
  <2>4. CASE HasRoom
    <3>1. PICK k \in JobsOf : k = [hook |-> g, event |-> d, attempt |-> 0]
      <4>1. [hook |-> g, event |-> d, attempt |-> 0] \in JobsOf
        BY WebhooksAssumption DEF JobsOf
      <4> QED BY <4>1
    <3>2. k.hook = g /\ k.event = d /\ k.attempt = 0
      BY <3>1
    <3>3. jobs' = Append(jobs, k) /\ Decided(g, d, "underway")
      BY <1>4, <2>4, <3>1 DEF SendTo
    <3>4. /\ g = h /\ d = e => fate'[h][e] = "underway"
          /\ ~ (g = h /\ d = e) => fate'[h][e] = fate[h][e]
      BY <1>1, <3>3, <1>0, FateOf
    <3>5. g = h /\ d = e => k.attempt = Len(deliveries[h][e]) /\ Failed(deliveries[h][e], Len(deliveries[h][e]))
      BY <2>2, <3>2 DEF Failed
    <3> QED BY <1>1, <2>1, <2>2, <2>3, <3>2, <3>3, <3>4, <3>5, JobQueued
  <2>5. CASE ~ HasRoom
    <3>1. jobs' = jobs /\ Decided(g, d, "dropped")
      BY <1>4, <2>5 DEF SendTo
    <3>2. /\ g = h /\ d = e => fate'[h][e] = "dropped"
          /\ ~ (g = h /\ d = e) => fate'[h][e] = fate[h][e]
      BY <1>1, <3>1, <1>0, FateOf
    <3>3. ~ InQueue(h, e) => ~ InQueue(h, e)'
      BY <3>1 DEF InQueue
    <3> QED BY <1>1, <2>1, <2>2, <2>3, <3>1, <3>2, <3>3, JobsStayOne
  <2> QED BY <2>4, <2>5
<1>5. ASSUME NEW g \in Hooks, NEW d \in Events, HookGone(g, d) PROVE OneJob(h, e)' /\ Logged(h, e)'
  <2>1. sending'[e] \subseteq sending[e]
    BY <1>1, <1>5 DEF HookGone, DeliveryTypes
  <2> QED BY <1>1, <1>5, <2>1, JobsStayOne DEF HookGone
<1>6. ASSUME NEW w \in Posters, TakeJob(w) PROVE OneJob(h, e)' /\ Logged(h, e)'
  BY <1>1, <1>6, JobTaken
<1>7. ASSUME NEW w \in Posters, Posted(w) PROVE OneJob(h, e)' /\ Logged(h, e)'
  <2>1. PICK j \in JobsOf : j = posting[w] /\ j # NoPost
    BY <1>1, <1>7 DEF Posted, DeliveryTypes
  <2>2. /\ Updated(j, "delivered") /\ Decided(j.hook, j.event, "delivered")
        /\ posting' = [posting EXCEPT ![w] = NoPost] /\ UNCHANGED <<sending, jobs, timers>>
    BY <1>7, <2>1 DEF Posted
  <2>3. PICK g \in Hooks, d \in Events : g = j.hook /\ d = j.event
    BY JobOf
  <2>4. /\ g = h /\ d = e => fate'[h][e] = "delivered"
        /\ ~ (g = h /\ d = e) => fate'[h][e] = fate[h][e]
    <3>1. Decided(g, d, "delivered")
      BY <2>2, <2>3
    <3> QED BY <1>1, <3>1, <1>0, FateOf
  <2>5. "delivered" \in Statuses
    BY DEF Statuses
  <2>6. CASE g = h /\ d = e
    BY <1>1, <2>1, <2>2, <2>3, <2>4, <2>5, <2>6, PostEnds
  <2>7. CASE ~ (g = h /\ d = e)
    BY <1>1, <2>2, <2>3, <2>4, <2>5, <2>7, PostEndsElsewhere
  <2> QED BY <2>6, <2>7
<1>8. ASSUME NEW w \in Posters, PostFails(w) PROVE OneJob(h, e)' /\ Logged(h, e)'
  <2>1. PICK j \in JobsOf : j = posting[w] /\ j # NoPost
    BY <1>1, <1>8 DEF PostFails, DeliveryTypes
  <2>2. /\ Updated(j, "failed") /\ posting' = [posting EXCEPT ![w] = NoPost] /\ UNCHANGED <<sending, jobs>>
        /\ \/ timers' = timers \union {j} /\ j.attempt < MaxRetries /\ fate' = fate
           \/ timers' = timers /\ Decided(j.hook, j.event, "exhausted")
    BY <1>8, <2>1 DEF PostFails, Retry, MayRetry
  <2>3. PICK g \in Hooks, d \in Events : g = j.hook /\ d = j.event
    BY JobOf
  <2>4. \/ timers' = timers \union {j} /\ j.attempt < MaxRetries /\ fate' = fate
        \/ /\ timers' = timers /\ (g = h /\ d = e => fate'[h][e] = "exhausted")
           /\ ~ (g = h /\ d = e) => fate'[h][e] = fate[h][e]
    <3>1. ASSUME timers' = timers, Decided(j.hook, j.event, "exhausted")
          PROVE  /\ g = h /\ d = e => fate'[h][e] = "exhausted"
                 /\ ~ (g = h /\ d = e) => fate'[h][e] = fate[h][e]
      <4>1. Decided(g, d, "exhausted")
        BY <2>3, <3>1
      <4> QED BY <1>1, <4>1, <1>0, FateOf
    <3> QED BY <2>2, <3>1
  <2>5. "failed" \in Statuses
    BY DEF Statuses
  <2>6. CASE g = h /\ d = e
    BY <1>1, <2>1, <2>2, <2>3, <2>4, <2>5, <2>6, PostEnds
  <2>7. CASE ~ (g = h /\ d = e)
    BY <1>1, <2>2, <2>3, <2>4, <2>5, <2>7, PostEndsElsewhere
  <2> QED BY <2>6, <2>7
<1>9. ASSUME NEW j \in timers, TimerFires(j) PROVE OneJob(h, e)' /\ Logged(h, e)'
  <2>1. j \in JobsOf /\ timers' = timers \ {j} /\ UNCHANGED <<sending, posting, deliveries>>
    BY <1>1, <1>9 DEF TimerFires, DeliveryTypes
  <2>2. PICK g \in Hooks, d \in Events : g = j.hook /\ d = j.event
    BY <2>1, JobOf
  <2>3. j.attempt < MaxRetries
    BY <2>2 DEF WebhooksInv, Logged
  <2>4. g = h /\ d = e =>
          /\ InTimers(h, e) /\ ~ InTimers(h, e)' /\ ~ InQueue(h, e) /\ ~ InPost(h, e) /\ ~ InPost(h, e)'
          /\ fate[h][e] = "underway" /\ h \notin sending[e]
          /\ j.attempt + 1 = Len(deliveries[h][e]) /\ Failed(deliveries[h][e], Len(deliveries[h][e]))
    <3> SUFFICES ASSUME g = h, d = e
                 PROVE  /\ InTimers(h, e) /\ ~ InTimers(h, e)' /\ ~ InQueue(h, e) /\ ~ InPost(h, e) /\ ~ InPost(h, e)'
                        /\ fate[h][e] = "underway" /\ h \notin sending[e]
                        /\ j.attempt + 1 = Len(deliveries[h][e]) /\ Failed(deliveries[h][e], Len(deliveries[h][e]))
      OBVIOUS
    <3>1. InTimers(h, e)
      BY <2>2 DEF InTimers
    <3>2. ~ InTimers(h, e)'
      BY <1>1, <2>1, <2>2 DEF OneJob, OneTimer, InTimers
    <3>3. ~ InQueue(h, e) /\ ~ InPost(h, e) /\ fate[h][e] = "underway"
      BY <1>1, <3>1 DEF OneJob, OnePlace
    <3>4. ~ InPost(h, e)'
      BY <2>1, <3>3 DEF InPost
    <3>5. h \notin sending[e] /\ j.attempt + 1 = Len(deliveries[h][e]) /\ Failed(deliveries[h][e], Len(deliveries[h][e]))
      BY <1>1, <2>2, <3>3 DEF Logged
    <3> QED BY <3>1, <3>2, <3>3, <3>4, <3>5
  <2>5. CASE HasRoom
    <3>1. PICK k \in JobsOf : k = [j EXCEPT !.attempt = @ + 1]
      BY <2>1, <2>3, JobOf
    <3>2. k.hook = g /\ k.event = d /\ k.attempt = j.attempt + 1
      BY <2>1, <2>2, <2>3, <3>1, JobOf
    <3>3. jobs' = Append(jobs, k) /\ fate' = fate
      BY <1>9, <2>5, <3>1 DEF TimerFires
    <3> QED BY <1>1, <2>1, <2>4, <3>2, <3>3, JobQueued
  <2>6. CASE ~ HasRoom
    <3>1. jobs' = jobs /\ Decided(g, d, "dropped")
      BY <1>9, <2>2, <2>6 DEF TimerFires
    <3>2. /\ g = h /\ d = e => fate'[h][e] = "dropped"
          /\ ~ (g = h /\ d = e) => fate'[h][e] = fate[h][e]
      BY <1>1, <3>1, <1>0, FateOf
    <3>3. ~ InQueue(h, e) => ~ InQueue(h, e)'
      BY <3>1 DEF InQueue
    <3> QED BY <1>1, <2>1, <2>4, <3>1, <3>2, <3>3, JobsStayOne
  <2> QED BY <2>5, <2>6
<1>10. ASSUME Close \/ WorkersLeave \/ UNCHANGED webhookVars PROVE OneJob(h, e)' /\ Logged(h, e)'
  BY <1>1, <1>10, JobsStayOne DEF Close, WorkersLeave, webhookVars
<1>11. ASSUME ServerEnds PROVE OneJob(h, e)' /\ Logged(h, e)'
  BY <1>1, <1>11, JobsStayOne DEF ServerEnds
<1> QED BY <1>2, <1>3, <1>4, <1>5, <1>6, <1>7, <1>8, <1>9, <1>10, <1>11 DEF WebhooksNext, Deliver, Timer

(* The invariant holds at the start.                                       *)
LEMMA InitWebhooks == WebhooksInit => WebhooksInv
<1> SUFFICES ASSUME WebhooksInit PROVE WebhooksInv
  OBVIOUS
<1>1. <<>> \in Attempts /\ "none" \in Fates /\ jobs = <<>> /\ jobs \in Seq(JobsOf) /\ Len(jobs) = 0
  BY EmptySeq DEF WebhooksInit, Attempts, Fates
<1>2. DeliveryTypes
  BY <1>1, WebhooksAssumption DEF WebhooksInit, DeliveryTypes
<1>3. ASSUME NEW h \in Hooks, NEW e \in Events PROVE OneJob(h, e) /\ Logged(h, e)
  <2>1. /\ DOMAIN jobs = {} /\ timers = {} /\ deliveries[h][e] = <<>> /\ fate[h][e] = "none"
        /\ \A w \in Posters : posting[w] = NoPost
    BY <1>1 DEF WebhooksInit
  <2>2. OneJob(h, e)
    BY <2>1 DEF OneJob, OneQueued, OneTimer, OnePost, OnePlace, InQueue, InTimers, InPost
  <2>3. Failed(deliveries[h][e], Len(deliveries[h][e]) - 1)
    BY <2>1 DEF Failed
  <2>4. Logged(h, e)
    BY <2>1, <2>3, WebhooksAssumption DEF Logged
  <2> QED BY <2>2, <2>4
<1> QED BY <1>2, <1>3 DEF WebhooksInv

(* WebhooksSpec without its fairness.                                      *)
WebhooksSafety == WebhooksInit /\ [][WebhooksNext]_webhookVars

(* It suffices for WebhooksInv to be an invariant.                         *)
LEMMA WebhooksInvariant == WebhooksSafety => []WebhooksInv
<1>1. WebhooksInv /\ [WebhooksNext]_webhookVars => WebhooksInv'
  BY StepDeliveryTypes, StepDelivery DEF WebhooksInv
<1> QED BY <1>1, InitWebhooks, PTL DEF WebhooksSafety

(* The invariant implies the types.                                        *)
LEMMA WebhooksInvTypes == WebhooksInv => WebhooksTypeOK
<1> SUFFICES ASSUME DeliveryTypes PROVE WebhooksTypeOK
  BY DEF WebhooksInv
<1> QED BY DEF DeliveryTypes, WebhooksTypeOK, Attempts, Statuses, Fates

(* The types of the Dispatcher's queue, timers and workers and of the rows *)
(* in the store; the queue never holds more than its capacity.             *)
THEOREM WebhooksTyped == WebhooksSpec => []WebhooksTypeOK
BY WebhooksInvariant, WebhooksInvTypes, PTL DEF WebhooksSpec, WebhooksSafety

(* A set none of whose members differ has at most one.                     *)
LEMMA AtMostOne ==
  ASSUME NEW S, \A x, y \in S : x = y
  PROVE  /\ S = {} => Cardinality(S) = 0
         /\ S # {} => Cardinality(S) = 1
<1>1. S = {} => Cardinality(S) = 0
  BY FS_EmptySet
<1>2. ASSUME S # {} PROVE Cardinality(S) = 1
  <2>1. PICK x : S = {x}
    BY <1>2
  <2> QED BY <2>1, FS_Singleton
<1> QED BY <1>1, <1>2

(* The invariant implies what OneAttemptAtATime states.                    *)
LEMMA WebhooksInvOrders == WebhooksInv => AttemptsFollowOneAnother
<1> SUFFICES ASSUME WebhooksInv, NEW h \in Hooks, NEW e \in Events
             PROVE  /\ Len(deliveries[h][e]) <= MaxRetries + 1
                    /\ \A i \in 1 .. Len(deliveries[h][e]) - 1 : deliveries[h][e][i] = "failed"
                    /\ Cardinality(Queued(h, e)) + Cardinality(Waiting(h, e)) + Cardinality(Posting(h, e)) <= 1
                    /\ fate[h][e] # "underway" =>
                         Cardinality(Queued(h, e)) + Cardinality(Waiting(h, e)) + Cardinality(Posting(h, e)) = 0
                    /\ \A i \in Queued(h, e) : jobs[i].attempt = Len(deliveries[h][e])
                    /\ \A j \in Waiting(h, e) : j.attempt + 1 = Len(deliveries[h][e])
  BY DEF AttemptsFollowOneAnother
<1>1. OneJob(h, e) /\ Logged(h, e)
  BY DEF WebhooksInv
<1>2. Cardinality(Queued(h, e)) = IF InQueue(h, e) THEN 1 ELSE 0
  <2>1. \A i, k \in Queued(h, e) : i = k
    BY <1>1 DEF OneJob, OneQueued, Queued
  <2>2. InQueue(h, e) <=> Queued(h, e) # {}
    BY DEF InQueue, Queued
  <2> QED BY <2>1, <2>2, AtMostOne
<1>3. Cardinality(Waiting(h, e)) = IF InTimers(h, e) THEN 1 ELSE 0
  <2>1. \A i, k \in Waiting(h, e) : i = k
    BY <1>1 DEF OneJob, OneTimer, Waiting
  <2>2. InTimers(h, e) <=> Waiting(h, e) # {}
    BY DEF InTimers, Waiting
  <2> QED BY <2>1, <2>2, AtMostOne
<1>4. Cardinality(Posting(h, e)) = IF InPost(h, e) THEN 1 ELSE 0
  <2>1. \A i, k \in Posting(h, e) : i = k
    BY <1>1 DEF OneJob, OnePost, Posting
  <2>2. InPost(h, e) <=> Posting(h, e) # {}
    BY DEF InPost, Posting
  <2> QED BY <2>1, <2>2, AtMostOne
<1>5. /\ ~ (InQueue(h, e) /\ InTimers(h, e)) /\ ~ (InQueue(h, e) /\ InPost(h, e)) /\ ~ (InTimers(h, e) /\ InPost(h, e))
      /\ fate[h][e] # "underway" => ~ InQueue(h, e) /\ ~ InTimers(h, e) /\ ~ InPost(h, e)
  BY <1>1 DEF OneJob, OnePlace
<1>6. /\ Len(deliveries[h][e]) <= MaxRetries + 1
      /\ \A i \in 1 .. Len(deliveries[h][e]) - 1 : deliveries[h][e][i] = "failed"
      /\ \A i \in Queued(h, e) : jobs[i].attempt = Len(deliveries[h][e])
      /\ \A j \in Waiting(h, e) : j.attempt + 1 = Len(deliveries[h][e])
  BY <1>1 DEF Logged, Failed, Queued, Waiting
<1>7. /\ Cardinality(Queued(h, e)) + Cardinality(Waiting(h, e)) + Cardinality(Posting(h, e)) <= 1
      /\ fate[h][e] # "underway" =>
           Cardinality(Queued(h, e)) + Cardinality(Waiting(h, e)) + Cardinality(Posting(h, e)) = 0
  <2>1. PICK q, t, p : q = Cardinality(Queued(h, e)) /\ t = Cardinality(Waiting(h, e)) /\ p = Cardinality(Posting(h, e))
    OBVIOUS
  <2>2. /\ q = 0 \/ (q = 1 /\ InQueue(h, e))
        /\ t = 0 \/ (t = 1 /\ InTimers(h, e))
        /\ p = 0 \/ (p = 1 /\ InPost(h, e))
    BY <1>2, <1>3, <1>4, <2>1
  <2>3. \/ q = 0 /\ t = 0 /\ p = 0
        \/ fate[h][e] = "underway" /\ q = 1 /\ t = 0 /\ p = 0
        \/ fate[h][e] = "underway" /\ q = 0 /\ t = 1 /\ p = 0
        \/ fate[h][e] = "underway" /\ q = 0 /\ t = 0 /\ p = 1
    BY <1>5, <2>2, Zenon
  <2>4. q + t + p <= 1 /\ (fate[h][e] # "underway" => q + t + p = 0)
    BY <2>3
  <2> QED BY <2>1, <2>4
<1> QED BY <1>6, <1>7

(* The attempts of one delivery follow one another: RecordDelivery, the    *)
(* retry timers and the queue never have two attempts of it under way, and *)
(* no attempt is made after one succeeded or after maxRetries retries.     *)
THEOREM OneAttemptAtATime == WebhooksSpec => []AttemptsFollowOneAnother
BY WebhooksInvariant, WebhooksInvOrders, PTL DEF WebhooksSpec, WebhooksSafety

-----------------------------------------------------------------------------
(* The composition.                                                        *)

(* A step of the composition is a step of one part and leaves the others   *)
(* alone: first the claims.                                                *)
LEMMA ClaimStepIs ==
  ClaimStep => Next /\ UNCHANGED <<draftVars, webhookVars, numberingVars, workflowVars>>
BY DEF ClaimStep, InClaims, Next

(* The same for the drafts.                                                *)
LEMMA DraftStepIs ==
  DraftStep => DraftsNext /\ UNCHANGED <<vars, webhookVars, numberingVars, workflowVars>>
BY DEF DraftStep, InDrafts, DraftsNext

(* For the webhooks.                                                       *)
LEMMA WebhookStepIs ==
  WebhookStep => WebhooksNext /\ UNCHANGED <<vars, draftVars, numberingVars, workflowVars>>
BY DEF WebhookStep, InWebhooks, WebhooksNext, Deliver, Timer

(* For the numbering.                                                      *)
LEMMA NumberingStepIs ==
  NumberingStep => NumberingNext /\ UNCHANGED <<vars, draftVars, webhookVars, workflowVars>>
BY DEF NumberingStep, InNumbering, NumberingNext

(* For the cards.                                                          *)
LEMMA WorkflowStepIs ==
  WorkflowStep => WorkflowNext /\ UNCHANGED <<vars, draftVars, webhookVars, numberingVars>>
BY DEF WorkflowStep, InWorkflow, WorkflowNext

(* A behaviour of the composition is one of each of its parts: what is     *)
(* proved of them holds of what MC_Services checks.                        *)
THEOREM PartsBehave == MCSpec => Spec /\ DraftsSpec /\ WebhooksSafety /\ NumberingSpec /\ WorkflowSpec
<1> DEFINE AllVars == <<part, vars, draftVars, webhookVars, numberingVars, workflowVars>>
           Step    == ClaimStep \/ DraftStep \/ WebhookStep \/ NumberingStep \/ WorkflowStep
           Each    == /\ [Next]_vars /\ [DraftsNext]_draftVars /\ [WebhooksNext]_webhookVars
                      /\ [NumberingNext]_numberingVars /\ [WorkflowNext]_workflowVars
<1>1. MCInit => Init /\ DraftsInit /\ WebhooksInit /\ NumberingInit /\ WorkflowInit
  BY DEF MCInit
<1>2. [Step]_AllVars => Each
  BY ClaimStepIs, DraftStepIs, WebhookStepIs, NumberingStepIs, WorkflowStepIs
<1> QED BY <1>1, <1>2, PTL DEF MCSpec, Spec, DraftsSpec, WebhooksSafety, NumberingSpec, WorkflowSpec

(* Every variable of the five parts keeps its type.                        *)
THEOREM TypesCorrect == MCSpec => []TypesOK
<1>1. /\ TypeOK /\ DraftsTypeOK /\ WebhooksInv /\ NumberingTypeOK /\ WorkflowTypeOK
      => TypesOK
  BY WebhooksInvTypes DEF TypesOK
<1> QED BY <1>1, PartsBehave, TypeCorrect, DraftsTyped, WebhooksInvariant, NumbersAreBounded, WorkflowTyped, PTL

(* And with it everything MC_Services checks that is not liveness.         *)
THEOREM PartsKeepPromises ==
  MCSpec => /\ [](ExclusiveLease /\ OpenDraftsKeepWork /\ AttemptsFollowOneAnother /\ NumbersOnce)
            /\ ClaimsMoveAtOnce /\ MergeKeepsAcked /\ MovesFollowBoard /\ StartedIsUnblocked
BY PartsBehave, LeaseExclusion, WorkIsKept, WebhooksInvariant, WebhooksInvOrders, NumbersAreUnique,
   OrderDoesNotMatter, MergeCarries, MovesAreAllowed, StartedFree, PTL
=============================================================================
