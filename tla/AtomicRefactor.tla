---------------------------- MODULE AtomicRefactor ----------------------------
(***************************************************************************)
(* What Pipeline.ApplyRefactor promises of a rename that keeps links:      *)
(* whoever looks at the pages, a server restarted after a crash included,  *)
(* sees the restructuring whole or not at all, and it is a restructuring   *)
(* of the pages as they are at that moment, not of older versions.         *)
(***************************************************************************)
EXTENDS Naturals

CONSTANTS
  From, To,     \* the page moves from one path to the other
  Refs          \* pages that may link to it

VARIABLE ws     \* ws[p]: the content of page p

Pages   == {From, To} \union Refs
Content == [by : Nat, moved : BOOLEAN]  \* who wrote it; rewritten by the move
Absent  == [by |-> 0, moved |-> FALSE]
Moved(c) == [c EXCEPT !.moved = TRUE]

(* Pages that link to From in the workspace w.                             *)
Linking(w) == {p \in Refs : w[p] # Absent /\ ~w[p].moved}

(* The workspace w with the page moved and the links in R rewritten.       *)
Restructured(w, R) ==
  [p \in Pages |-> CASE p = To   -> Moved(w[From])
                     [] p = From -> Absent
                     [] p \in R  -> Moved(w[p])
                     [] OTHER    -> w[p]]

Init == ws \in [Pages -> Content]

(* Another request writes or deletes one page.                             *)
Edit(p) == ws' \in [Pages -> Content] /\ \A q \in Pages \ {p} : ws'[q] = ws[q]

(* The links rewritten are those the plan knew of.                         *)
Restructure ==
  /\ ws[From] # Absent
  /\ \E R \in SUBSET Linking(ws) : ws' = Restructured(ws, R)

Next == Restructure \/ \E p \in Pages : Edit(p)
Spec == Init /\ [][Next]_ws
=============================================================================
