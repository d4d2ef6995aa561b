------------------------------- MODULE Numbering -------------------------------
(***************************************************************************)
(* Numbers that writes receive before they take writeMu: the markers that  *)
(* sequenceStore (internal/pipeline/sequences.go) gives to appends from a  *)
(* file, and the frontmatter numbers that AutoSequencer                    *)
(* (internal/pipeline/auto_sequence.go) gives to pages from its memory,    *)
(* which starts from the search index.                                     *)
(***************************************************************************)
EXTENDS Naturals, FiniteSets

CONSTANTS
  Callers,      \* requests: appends and writes of new pages
  MaxOwn,       \* bound: numbers that clients give to their pages
  MaxRestarts   \* bound

ASSUME NumberingAssumption == IsFiniteSet(Callers) /\ {MaxOwn, MaxRestarts} \subseteq Nat

VARIABLES
  counter,    \* counters[dir] in sequences.json
  next,       \* AutoSequencer.next, 0 if it has not been read
  call,       \* call[c]: what the request does, and its number
  placed,     \* numbered things in the store: [kind, caller, number]
  indexed,    \* those of them the search index has
  stale,      \* AutoSequencer started while the index lagged (history)
  restarts

numberingVars == <<counter, next, call, placed, indexed, stale, restarts>>

Kinds == {"append", "page", "own"}
NewCall == [pc |-> "new", kind |-> "append", number |-> 0]
Number == 0 .. (MaxOwn + Cardinality(Callers) + 1)

NumberingInit ==
  /\ counter = 0 /\ next = 0
  /\ call = [c \in Callers |-> NewCall]
  /\ placed = {} /\ indexed = {}
  /\ stale = FALSE /\ restarts = 0

(* sequenceStore.next, before the lock: load, count, save to a temporary   *)
(* file and rename it.                                                     *)
SavedMutant(n) == counter
Saved(n) == n
NumberAppend(c) ==
  /\ call[c].pc = "new"
  /\ counter' = Saved(counter + 1)
  /\ call' = [call EXCEPT ![c] = [pc |-> "numbered", kind |-> "append", number |-> counter + 1]]
  /\ UNCHANGED <<next, placed, indexed, stale, restarts>>

(* AutoSequencer.FormatWrite of a page without a number, before the lock:  *)
(* the first number is one more than the greatest of the index.            *)
NumberedPages(things) == {t \in things : t.kind # "append"}
Greatest(things) == IF things = {} THEN 0
                    ELSE CHOOSE n \in {t.number : t \in things} : \A t \in things : t.number <= n
First == Greatest(NumberedPages(indexed)) + 1
NumberPage(c) ==
  LET n == IF next = 0 THEN First ELSE next IN
  /\ call[c].pc = "new"
  /\ next' = n + 1
  /\ stale' = (stale \/ (next = 0 /\ NumberedPages(placed) # NumberedPages(indexed)))
  /\ call' = [call EXCEPT ![c] = [pc |-> "numbered", kind |-> "page", number |-> n]]
  /\ UNCHANGED <<counter, placed, indexed, restarts>>

(* FormatWrite of a page that has a number leaves next alone.              *)
OwnNumber(c, n) ==
  /\ call[c].pc = "new"
  /\ call' = [call EXCEPT ![c] = [pc |-> "numbered", kind |-> "own", number |-> n]]
  /\ UNCHANGED <<counter, next, placed, indexed, stale, restarts>>

(* Under writeMu, in any order.                                            *)
Place(c) ==
  /\ call[c].pc = "numbered"
  /\ placed' = placed \union {[kind |-> call[c].kind, caller |-> c, number |-> call[c].number]}
  /\ call' = [call EXCEPT ![c].pc = "done"]
  /\ UNCHANGED <<counter, next, indexed, stale, restarts>>

(* A cancelled context, a denied transition, a failed validation or store. *)
Abandon(c) ==
  /\ call[c].pc = "numbered"
  /\ call' = [call EXCEPT ![c].pc = "done"]
  /\ UNCHANGED <<counter, next, placed, indexed, stale, restarts>>

(* The AsyncIndexer catches up, one page at a time.                        *)
Index(t) ==
  /\ t \in placed \ indexed
  /\ indexed' = indexed \union {t}
  /\ UNCHANGED <<counter, next, call, placed, stale, restarts>>

Restart ==
  /\ restarts < MaxRestarts
  /\ restarts' = restarts + 1
  /\ next' = 0
  /\ call' = [c \in Callers |-> IF call[c].pc = "numbered" THEN [call[c] EXCEPT !.pc = "done"] ELSE call[c]]
  /\ UNCHANGED <<counter, placed, indexed, stale>>

NumberingNext ==
  \/ \E c \in Callers : NumberAppend(c) \/ NumberPage(c) \/ Place(c) \/ Abandon(c)
  \/ \E c \in Callers, n \in 1 .. MaxOwn : OwnNumber(c, n)
  \/ \E t \in placed : Index(t)
  \/ Restart

NumberingSpec == NumberingInit /\ [][NumberingNext]_numberingVars

-----------------------------------------------------------------------------
(* Properties.                                                             *)

(* Every variable stays in its type; no number exceeds what clients gave   *)
(* by more than there are requests.                                        *)
NumberingTypeOK ==
  /\ counter \in Number /\ next \in Number
  /\ call \in [Callers -> [pc : {"new", "numbered", "done"}, kind : Kinds, number : Number]]
  /\ placed \subseteq [kind : Kinds, caller : Callers, number : Number] /\ indexed \subseteq placed
  /\ stale \in BOOLEAN /\ restarts \in 0 .. MaxRestarts

(* No number is given to two things that are placed, though requests take  *)
(* theirs before the lock, land in any order, fail, clients number pages   *)
(* themselves, and processes restart; nor is a marker beyond the counter,  *)
(* where CheckSequenceGaps would not look for it.  Only an AutoSequencer   *)
(* that started from an index which lacked pages repeats its numbers.      *)
NumbersOnce ==
  /\ \A t, u \in placed :
       t.kind = u.kind /\ t.kind # "own" /\ t.number = u.number /\ ~(stale /\ t.kind = "page") => t = u
  /\ \A t \in placed : t.kind = "append" => t.number <= counter
=============================================================================
