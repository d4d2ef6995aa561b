--------------------------- MODULE RefactorTxProofs ---------------------------
(***************************************************************************)
(* Proofs about RefactorTx: whatever the pages that link to the moved one  *)
(* and however many writes, comments, failures, cancellations and crashes, *)
(* a restructuring is atomic, applies what was reviewed, and leaves no     *)
(* file out of the history.                                                *)
(***************************************************************************)
EXTENDS RefactorTx, FiniteSetTheorems, FunctionTheorems, SequenceTheorems, TLAPS

-----------------------------------------------------------------------------
(* The inductive invariant.                                                *)

(* A file is a page or a comments file; what it holds, what a plan wants   *)
(* it to hold and what a journal has as its pre-image.                     *)
Aims(plan) ==
  ({"page"} \X Touches(plan))
  \union (IF plan.notes[From] = {} THEN {} ELSE {"side"} \X {From, To})
Now(t) == IF t[1] = "page" THEN disk[t[2]] ELSE comments[t[2]]
Before(j, t) == IF t[1] = "page" THEN j.pages[t[2]] ELSE j.side[t[2]]
Wanted(plan, t) ==
  IF t[1] = "page" THEN After(plan, t[2])
  ELSE IF t[2] = From THEN {} ELSE plan.notes[From] \union plan.notes[To]

(* Comments files count until somebody comments.                           *)
Counts(t) == t[1] = "page" \/ ~raced

Val(s) == IF s.kind = "page" THEN s.page ELSE s.ids
Pending(todo, t) == \E i \in DOMAIN todo : Target(todo[i]) = t
Writes(todo, plan) ==
  \A i \in DOMAIN todo : /\ Target(todo[i]) \in Aims(plan)
                         /\ Val(todo[i]) = Wanted(plan, Target(todo[i]))
PutsBack(todo, j) ==
  \A i \in DOMAIN todo : /\ Target(todo[i]) \in Aims(j.plan)
                         /\ Val(todo[i]) = Before(j, Target(todo[i]))

(* A plan moves a page that is there and rewrites pages that link to it.   *)
Sound(plan) ==
  /\ plan.src[From] # Absent
  /\ \A p \in Pages : plan.src[p] # Absent => p = From \/ (p \in Refs /\ ~plan.src[p].moved)

(* Recovery tells a restructuring that was committed from one that was not.*)
Decidable == ~CancelInCommit \/ MaxCrashes = 0

Forward == {"apply", "wait", "landed", "cleanup"}

JournalInv ==
  /\ tx.pc \in {"idle", "lock"} => journal = NoJournal
  /\ tx.pc \in {"apply", "wait", "landed", "rollback"} => journal.state = "applying"
  /\ tx.pc = "cleanup" => journal.state # "none"
  /\ tx.pc \in Forward \union {"rollback"} => journal.plan = tx.plan
  /\ tx.pc = "lock" => Sound(tx.plan)
  /\ journal.state # "none" =>
       /\ Sound(journal.plan) /\ journal.head <= tip.id
       /\ \A p \in Sources(journal.plan) : journal.pages[p] = journal.plan.src[p]

PinnedInv == tx.pinned /\ tx.pc \in Forward \union {"lock", "rollback"} => tx.plan = reviewed

(* Where the files are between the pre-images and the plan.                *)
ForwardInv ==
  tx.pc \in Forward =>
    /\ Writes(tx.todo, journal.plan)
    /\ tx.pc # "apply" => tx.todo = <<>>
    /\ \A t \in Aims(journal.plan) : Counts(t) =>
         /\ Pending(tx.todo, t) \/ Now(t) = Wanted(journal.plan, t)
         /\ t \notin tx.touched => Now(t) = Before(journal, t)
RollbackInv ==
  tx.pc = "rollback" =>
    \A t \in Aims(journal.plan) : Counts(t) =>
         /\ Pending(tx.todo, t) \/ Now(t) = Before(journal, t)
         /\ t \notin tx.touched => Now(t) = Before(journal, t)
RecoverInv ==
  /\ tx.pc \in {"down", "recover"} /\ journal.state # "none" /\ ~Unsettled =>
       \A t \in Aims(journal.plan) : Counts(t) => Now(t) = Wanted(journal.plan, t)
  /\ tx.pc = "recover" /\ ~Unsettled => tx.todo = <<>>
  /\ tx.pc = "recover" /\ Unsettled =>
       \A t \in Aims(journal.plan) : Counts(t) =>
         Pending(tx.todo, t) \/ Now(t) = Before(journal, t)
FilesInv ==
  /\ journal.state # "none" =>
       \A p \in Pages \ Touches(journal.plan) : disk[p] = journal.pages[p]
  /\ tx.pc \in {"rollback", "recover"} => PutsBack(tx.todo, journal)
  /\ ForwardInv /\ RollbackInv /\ (Decidable => RecoverInv)

(* The commit loop has the restructuring's request and answers it, or has  *)
(* no recorded request at all.                                             *)
Plain(r) == r.digest = NoPlan /\ ~r.heard
Ours == [paths |-> Touches(tx.plan), digest |-> tx.plan, heard |-> TRUE]
LoopIsIdle == queue = <<>> /\ ~timer /\ work = IdleWork
OursIsLast ==
  /\ queue # <<>> /\ queue[Len(queue)] = Ours
  /\ \A i \in DOMAIN queue : i # Len(queue) => Plain(queue[i])
  /\ Plain(work.req) /\ work.next = NoReq
OursIsNext == queue = <<>> /\ ~timer /\ work.pc # "idle" /\ Plain(work.req) /\ work.next = Ours
OursIsTaken == queue = <<>> /\ ~timer /\ work.pc # "idle" /\ work.req = Ours /\ work.next = NoReq
Waiting == tx.pc = "wait" /\ tx.answer = "none"
RequestInv ==
  /\ Waiting => OursIsLast \/ OursIsNext \/ OursIsTaken
  /\ tx.pc \in {"wait", "landed", "cleanup"} /\ ~Waiting => LoopIsIdle
  /\ tx.pc \notin {"wait", "landed", "cleanup"} =>
       (\A i \in DOMAIN queue : Plain(queue[i])) /\ Plain(work.req) /\ work.next = NoReq
  /\ tx.pc # "wait" => tx.answer = "none"
  /\ tx.pc \in {"apply", "rollback"} \/ (tx.pc = "wait" /\ tx.answer # "ok")
       => ~DigestCommitted(journal)

LoopInv ==
  /\ work.pc = "idle" => work = IdleWork
  /\ tx.pc \in {"down", "recover"} => LoopIsIdle /\ batch = {}
  /\ ~CancelInCommit \/ used.cancels = 0 => RequestInv
  /\ MaxCrashes = 0 => tx.pc \notin {"down", "recover"}

(* Without failures, what is on disk and not committed is on its way.      *)
Smooth == used.fails = 0 /\ used.cancels = 0 /\ used.crashes = 0
QueuedPaths == UNION {queue[i].paths : i \in DOMAIN queue}
Coming == QueuedPaths \union work.next.paths \union (IF tx.pc = "apply" THEN Touches(tx.plan) ELSE {})
CommitInv ==
  Smooth =>
    /\ tx.pc \notin {"rollback", "down", "recover"} /\ tx.answer # "failed"
    /\ \A p \in Pages : disk[p] # head[p] => p \in Coming \union batch \union work.req.paths
    /\ \A p \in Pages : staged[p] # head[p] => work.pc = "commit" /\ p \in work.req.paths
    /\ work.pc = "commit" => \A p \in work.req.paths : staged[p] # disk[p] => p \in Coming
    /\ work.pc # "idle" /\ Plain(work.req) => work.req.paths = batch

IInv == JournalInv /\ PinnedInv /\ FilesInv /\ LoopInv /\ CommitInv

-----------------------------------------------------------------------------
(* Sequences.                                                              *)

(* A sequence made of a finite set has all of its elements.                *)
LEMMA SetToSeqCovers ==
  ASSUME NEW S, IsFiniteSet(S)
  PROVE  /\ SetToSeq(S) \in Seq(S)
         /\ \A x \in S : \E i \in DOMAIN SetToSeq(S) : SetToSeq(S)[i] = x
<1> DEFINE n == Cardinality(S)
           Order == {f \in [1..n -> S] : IsInjective(f)}
<1>1. n \in Nat /\ ExistsBijection(1..n, S)
  BY FS_CardinalityType
<1>2. PICK b : b \in Bijection(1..n, S)
  BY <1>1 DEF ExistsBijection
<1>3. b \in [1..n -> S] /\ IsInjective(b)
  BY <1>2 DEF Bijection, Injection, Surjection, IsInjective
<1>4. SetToSeq(S) \in [1..n -> S] /\ IsInjective(SetToSeq(S))
  BY <1>3 DEF SetToSeq
<1>5. SetToSeq(S) \in Injection(1..n, S)
  BY <1>4 DEF Injection, IsInjective
<1>6. IsFiniteSet(1..n) /\ Cardinality(1..n) = n
  BY <1>1, FS_Interval, SMT
<1>7. SetToSeq(S) \in Surjection(1..n, S)
  BY <1>5, <1>6, FS_Injection
<1>8. \A x \in S : \E i \in 1..n : SetToSeq(S)[i] = x
  BY <1>7 DEF Surjection
<1>9. SetToSeq(S) \in Seq(S)
  BY <1>1, <1>4
<1> QED
  BY <1>4, <1>8, <1>9

-----------------------------------------------------------------------------
(* Plans and their steps.                                                  *)

(* Contents, the empty plan and the set of pages are what they should be.  *)
LEMMA ContentTypes ==
  /\ Absent \in Content
  /\ \A c \in Content : Moved(c) \in Content
  /\ NoPlan \in Plans
  /\ {From, To} \subseteq Pages
  /\ IsFiniteSet(Pages)
<1>1. Absent \in Content
  BY DEF Absent, Abs!Absent, Content, Abs!Content
<1>2. \A c \in Content : Moved(c) \in Content
  BY DEF Content, Abs!Content, Moved, Abs!Moved
<1>3. {From, To} \subseteq Pages /\ Pages = {From, To} \union Refs
  BY DEF Pages, Abs!Pages
<1>4. NoPlan \in Plans
  BY <1>1, <1>3 DEF NoPlan, Plans
<1>5. IsFiniteSet({From}) /\ IsFiniteSet({To})
  BY FS_Singleton
<1>6. IsFiniteSet({From} \union {To})
  BY <1>5, FS_Union
<1>7. IsFiniteSet(({From} \union {To}) \union Refs)
  BY <1>6, FS_Union, RefactorAssumption
<1>8. Pages = ({From} \union {To}) \union Refs
  BY <1>3
<1> QED
  BY <1>1, <1>2, <1>3, <1>4, <1>7, <1>8

(* A plan reads and writes pages, both ends of the move among them.        *)
LEMMA PlanTypes ==
  ASSUME NEW plan \in Plans
  PROVE  /\ Sources(plan) \subseteq Pages /\ Written(plan) \subseteq Pages
         /\ Touches(plan) \subseteq Pages /\ From \in Touches(plan) /\ To \in Touches(plan)
         /\ \A p \in Pages : After(plan, p) \in Content
         /\ plan.notes[From] \in SUBSET Nat /\ plan.notes[To] \in SUBSET Nat
<1>1. plan.src \in [Pages -> Content] /\ plan.notes \in [{From, To} -> SUBSET Nat]
  BY DEF Plans
<1>2. Touches(plan) \subseteq Pages /\ From \in Touches(plan) /\ To \in Touches(plan)
  BY ContentTypes DEF Sources, Written, Touches
<1>3. \A p \in Pages : After(plan, p) \in Content
  BY <1>1, ContentTypes DEF After
<1> QED
  BY <1>1, <1>2, <1>3, ContentTypes DEF Sources, Written

(* Every path of a plan comes up in the order its steps run.               *)
Covers(s, S) == s \in Seq(S) /\ \A x \in S : \E i \in DOMAIN s : s[i] = x

(* The order in which applyPages goes through a plan leaves out no page.   *)
LEMMA PagesInOrderCovers ==
  ASSUME NEW plan \in Plans
  PROVE  Covers(PagesInOrder(plan), Touches(plan))
<1> DEFINE T == Touches(plan)
           rest == Written(plan) \ {To}
           mid == SetToSeq(rest)
<1>1. T \subseteq Pages /\ rest \subseteq T /\ From \in T /\ To \in T /\ T = {From, To} \union rest
  BY PlanTypes DEF Touches, Written
<1>2. IsFiniteSet(rest)
  BY <1>1, ContentTypes, FS_Subset
<1>3. mid \in Seq(rest) /\ \A x \in rest : \E i \in DOMAIN mid : mid[i] = x
  BY <1>2, SetToSeqCovers
<1> HIDE DEF mid, rest
<1>4. mid \in Seq(T)
  BY <1>1, <1>3, SeqMonotonic, Zenon
<1>5. <<To>> \in Seq(T) /\ <<From>> \in Seq(T)
  BY <1>1
<1>6. (<<To>> \o mid) \o <<From>> \in Seq(T)
  BY <1>4, <1>5
<1>7. PagesInOrder(plan) = (<<To>> \o mid) \o <<From>>
  BY DEF PagesInOrder, mid, rest
<1>8. ASSUME NEW x \in T
      PROVE  \E i \in DOMAIN PagesInOrder(plan) : PagesInOrder(plan)[i] = x
  <2> DEFINE s == (<<To>> \o mid) \o <<From>>
  <2>1. Len(s) = Len(mid) + 2 /\ DOMAIN s = 1..Len(s) /\ Len(mid) \in Nat
    BY <1>4, <1>5, <1>6
  <2>2. CASE x = To
    <3>1. s[1] = To
      BY <1>4, <1>5
    <3> QED
      BY <2>1, <2>2, <3>1, <1>7
  <2>3. CASE x = From
    <3>1. s[Len(mid) + 2] = From
      BY <1>4, <1>5
    <3> QED
      BY <2>1, <2>3, <3>1, <1>7
  <2>4. CASE x \in rest
    <3>1. PICK i \in DOMAIN mid : mid[i] = x
      BY <1>3, <2>4
    <3>2. i \in 1..Len(mid)
      BY <1>4, <3>1
    <3>3. s[i + 1] = mid[i]
      BY <1>4, <1>5, <3>2
    <3> QED
      BY <2>1, <3>1, <3>2, <3>3, <1>7
  <2> QED
    BY <1>1, <2>2, <2>3, <2>4
<1> QED
  BY <1>6, <1>7, <1>8 DEF Covers

(* Neither does the order in which rollback does.                          *)
LEMMA ReverseCovers ==
  ASSUME NEW S, NEW s, Covers(s, S)
  PROVE  /\ Covers(Reverse(s), S)
         /\ DOMAIN Reverse(s) = DOMAIN s
<1>1. s \in Seq(S) /\ Len(s) \in Nat /\ DOMAIN s = 1..Len(s)
  BY DEF Covers
<1>2. Reverse(s) = [i \in 1..Len(s) |-> s[(Len(s) - i) + 1]]
  BY DEF Reverse
<1>3. \A i \in 1..Len(s) : (Len(s) - i) + 1 \in 1..Len(s) /\ s[(Len(s) - i) + 1] \in S
  BY <1>1
<1>4. Reverse(s) \in Seq(S) /\ DOMAIN Reverse(s) = 1..Len(s)
  BY <1>1, <1>2, <1>3
<1>5. ASSUME NEW x \in S
      PROVE  \E i \in DOMAIN Reverse(s) : Reverse(s)[i] = x
  <2>1. PICK i \in DOMAIN s : s[i] = x
    BY <1>5 DEF Covers
  <2>2. (Len(s) - i) + 1 \in 1..Len(s) /\ (Len(s) - ((Len(s) - i) + 1)) + 1 = i
    BY <1>1, <2>1
  <2>3. Reverse(s)[(Len(s) - i) + 1] = s[i]
    BY <1>2, <2>2
  <2> QED
    BY <1>4, <2>1, <2>2, <2>3
<1> QED
  BY <1>1, <1>4, <1>5 DEF Covers

(* The steps for the pages in s, each with the content c has for it, and   *)
(* those for the comments files.                                           *)
PageSteps(s, c) == [i \in DOMAIN s |-> PageStep(s[i], c[s[i]])]
SideSteps(ns, f, t) == IF ns = {} THEN <<>> ELSE <<SideStep(From, f), SideStep(To, t)>>

(* Steps for pages set each page to its content, and miss none.            *)
LEMMA PageStepsDo ==
  ASSUME NEW S \in SUBSET Pages, NEW s, Covers(s, S), NEW c \in [S -> Content]
  PROVE  /\ PageSteps(s, c) \in Seq(FileSteps)
         /\ \A i \in DOMAIN PageSteps(s, c) : \E p \in S :
              /\ Target(PageSteps(s, c)[i]) = <<"page", p>>
              /\ Val(PageSteps(s, c)[i]) = c[p]
         /\ \A p \in S : Pending(PageSteps(s, c), <<"page", p>>)
<1>1. s \in Seq(S) /\ Len(s) \in Nat /\ DOMAIN s = 1..Len(s) /\ \A i \in DOMAIN s : s[i] \in S
  BY DEF Covers
<1>2. \A i \in DOMAIN s : /\ PageStep(s[i], c[s[i]]) \in FileSteps
                          /\ Target(PageStep(s[i], c[s[i]])) = <<"page", s[i]>>
                          /\ Val(PageStep(s[i], c[s[i]])) = c[s[i]]
  BY <1>1 DEF PageStep, FileSteps, Target, Val
<1>3. /\ DOMAIN PageSteps(s, c) = DOMAIN s
      /\ \A i \in DOMAIN s : PageSteps(s, c)[i] = PageStep(s[i], c[s[i]])
  BY DEF PageSteps
<1>4. PageSteps(s, c) \in Seq(FileSteps)
  BY <1>1, <1>2 DEF PageSteps
<1>5. ASSUME NEW p \in S
      PROVE  Pending(PageSteps(s, c), <<"page", p>>)
  <2>1. PICK i \in DOMAIN s : s[i] = p
    BY DEF Covers
  <2>2. Target(PageSteps(s, c)[i]) = <<"page", p>>
    BY <1>2, <1>3, <2>1
  <2> QED
    BY <1>3, <2>1, <2>2 DEF Pending
<1> QED
  BY <1>1, <1>2, <1>3, <1>4, <1>5

(* Steps for comments files are there when there are comments to move.     *)
LEMMA SideStepsDo ==
  ASSUME NEW ns \in SUBSET Nat, NEW f \in SUBSET Nat, NEW t \in SUBSET Nat
  PROVE  /\ SideSteps(ns, f, t) \in Seq(FileSteps)
         /\ \A k \in DOMAIN SideSteps(ns, f, t) : LET s == SideSteps(ns, f, t)[k] IN
              /\ ns # {}
              /\ \/ Target(s) = <<"side", From>> /\ Val(s) = f
                 \/ Target(s) = <<"side", To>> /\ Val(s) = t
         /\ ns # {} => /\ Pending(SideSteps(ns, f, t), <<"side", From>>)
                       /\ Pending(SideSteps(ns, f, t), <<"side", To>>)
<1> DEFINE s == SideStep(From, f)
           r == SideStep(To, t)
<1>1. s \in FileSteps /\ r \in FileSteps
  BY ContentTypes DEF SideStep, FileSteps
<1>2. /\ Target(s) = <<"side", From>> /\ Val(s) = f
      /\ Target(r) = <<"side", To>> /\ Val(r) = t
  BY DEF SideStep, Target, Val
<1>3. CASE ns = {}
  BY <1>3 DEF SideSteps
<1>4. CASE ns # {}
  <2> HIDE DEF s, r
  <2>1. SideSteps(ns, f, t) = <<s, r>>
    BY <1>4 DEF SideSteps, s, r
  <2>2. <<s, r>> \in Seq(FileSteps) /\ DOMAIN <<s, r>> = 1..2 /\ <<s, r>>[1] = s /\ <<s, r>>[2] = r
    BY <1>1
  <2>3. \A k \in 1..2 : k = 1 \/ k = 2
    OBVIOUS
  <2>4. Pending(<<s, r>>, <<"side", From>>) /\ Pending(<<s, r>>, <<"side", To>>)
    BY <1>2, <2>2 DEF Pending
  <2> QED
    BY <1>2, <1>4, <2>1, <2>2, <2>3, <2>4
<1> QED
  BY <1>3, <1>4

(* What holds of all steps, or some, of a concatenation.                   *)
LEMMA ConcatSteps ==
  ASSUME NEW s \in Seq(FileSteps), NEW t \in Seq(FileSteps)
  PROVE  /\ s \o t \in Seq(FileSteps)
         /\ \A i \in DOMAIN (s \o t) : \/ \E k \in DOMAIN s : (s \o t)[i] = s[k]
                                       \/ \E k \in DOMAIN t : (s \o t)[i] = t[k]
         /\ \A x : Pending(s, x) \/ Pending(t, x) => Pending(s \o t, x)
<1>1. /\ Len(s) \in Nat /\ Len(t) \in Nat /\ DOMAIN s = 1..Len(s) /\ DOMAIN t = 1..Len(t)
      /\ s \o t \in Seq(FileSteps) /\ Len(s \o t) = Len(s) + Len(t) /\ DOMAIN (s \o t) = 1..Len(s \o t)
  OBVIOUS
<1>2. \A i \in DOMAIN s : i \in DOMAIN (s \o t) /\ (s \o t)[i] = s[i]
  BY <1>1
<1>3. ASSUME NEW i \in DOMAIN (s \o t), i \notin DOMAIN s
      PROVE  \E k \in DOMAIN t : (s \o t)[i] = t[k]
  <2>1. i - Len(s) \in DOMAIN t /\ (s \o t)[i] = t[i - Len(s)]
    BY <1>1, <1>3
  <2> QED
    BY <2>1
<1>4. ASSUME NEW k \in DOMAIN t
      PROVE  \E i \in DOMAIN (s \o t) : (s \o t)[i] = t[k]
  <2>1. k + Len(s) \in DOMAIN (s \o t) /\ (s \o t)[k + Len(s)] = t[k]
    BY <1>1
  <2> QED
    BY <2>1
<1>5. ASSUME NEW x, Pending(s, x) \/ Pending(t, x)
      PROVE  Pending(s \o t, x)
  <2>1. CASE Pending(s, x)
    BY <1>2, <2>1 DEF Pending
  <2>2. CASE Pending(t, x)
    <3>1. PICK k \in DOMAIN t : Target(t[k]) = x
      BY <2>2 DEF Pending
    <3>2. PICK i \in DOMAIN (s \o t) : (s \o t)[i] = t[k]
      BY <1>4
    <3> QED
      BY <3>1, <3>2 DEF Pending
  <2> QED
    BY <1>5, <2>1, <2>2
<1> QED
  BY <1>1, <1>2, <1>3, <1>5

(* A whole list of steps writes what is wanted, and misses no file.        *)
LEMMA StepsDo ==
  ASSUME NEW plan \in Plans
  PROVE  /\ Steps(plan) \in Seq(FileSteps)
         /\ Writes(Steps(plan), plan)
         /\ \A t \in Aims(plan) : Pending(Steps(plan), t)
<1> DEFINE T == Touches(plan)
           s == PagesInOrder(plan)
           c == [p \in T |-> After(plan, p)]
           pages == PageSteps(s, c)
           f == {}
           t == plan.notes[From] \union plan.notes[To]
           side == SideSteps(plan.notes[From], f, t)
<1>1. /\ T \in SUBSET Pages /\ c \in [T -> Content]
      /\ plan.notes[From] \in SUBSET Nat /\ f \in SUBSET Nat /\ t \in SUBSET Nat
  BY PlanTypes
<1>2. Covers(s, T) /\ DOMAIN s = DOMAIN PagesInOrder(plan)
  BY <1>1, PagesInOrderCovers
<1>3. Steps(plan) = pages \o side
  <2>1. \A i \in DOMAIN s : c[s[i]] = After(plan, s[i])
    BY <1>2 DEF Covers
  <2>2. pages = [i \in DOMAIN PagesInOrder(plan) |-> PageStep(s[i], After(plan, s[i]))]
    BY <1>2, <2>1 DEF PageSteps
  <2> QED
    BY <2>2 DEF Steps, SideSteps
<1>4. /\ pages \in Seq(FileSteps)
      /\ \A i \in DOMAIN pages : \E p \in T : Target(pages[i]) = <<"page", p>> /\ Val(pages[i]) = c[p]
      /\ \A p \in T : Pending(pages, <<"page", p>>)
  BY <1>1, <1>2, PageStepsDo
<1>5. /\ side \in Seq(FileSteps)
      /\ \A k \in DOMAIN side :
           /\ plan.notes[From] # {}
           /\ \/ Target(side[k]) = <<"side", From>> /\ Val(side[k]) = f
              \/ Target(side[k]) = <<"side", To>> /\ Val(side[k]) = t
      /\ plan.notes[From] # {} =>
           /\ Pending(side, <<"side", From>>)
           /\ Pending(side, <<"side", To>>)
  BY <1>1, SideStepsDo
<1>6. \A p \in T : <<"page", p>> \in Aims(plan) /\ Wanted(plan, <<"page", p>>) = c[p]
  BY DEF Aims, Wanted
<1>7. plan.notes[From] # {} =>
        /\ <<"side", From>> \in Aims(plan) /\ Wanted(plan, <<"side", From>>) = f
        /\ <<"side", To>> \in Aims(plan) /\ Wanted(plan, <<"side", To>>) = t
  BY RefactorAssumption DEF Aims, Wanted
<1>8. \A x \in Aims(plan) :
        \/ \E p \in T : x = <<"page", p>>
        \/ plan.notes[From] # {} /\ (x = <<"side", From>> \/ x = <<"side", To>>)
  BY DEF Aims
<1> HIDE DEF pages, side, c, s, T, f, t
<1>9. /\ pages \o side \in Seq(FileSteps)
      /\ \A i \in DOMAIN (pages \o side) :
           \/ \E k \in DOMAIN pages : (pages \o side)[i] = pages[k]
           \/ \E k \in DOMAIN side : (pages \o side)[i] = side[k]
      /\ \A x : Pending(pages, x) \/ Pending(side, x) => Pending(pages \o side, x)
  BY <1>4, <1>5, ConcatSteps
<1>10. \A i \in DOMAIN pages : Target(pages[i]) \in Aims(plan) /\ Val(pages[i]) = Wanted(plan, Target(pages[i]))
  BY <1>4, <1>6
<1>11. \A k \in DOMAIN side : Target(side[k]) \in Aims(plan) /\ Val(side[k]) = Wanted(plan, Target(side[k]))
  BY <1>5, <1>7
<1>12. ASSUME NEW i \in DOMAIN Steps(plan)
       PROVE  Target(Steps(plan)[i]) \in Aims(plan) /\ Val(Steps(plan)[i]) = Wanted(plan, Target(Steps(plan)[i]))
  BY <1>3, <1>9, <1>10, <1>11
<1>13. ASSUME NEW x \in Aims(plan)
       PROVE  Pending(Steps(plan), x)
  BY <1>3, <1>4, <1>5, <1>8, <1>9
<1>14. Writes(Steps(plan), plan)
  BY <1>12 DEF Writes
<1>15. Steps(plan) \in Seq(FileSteps)
  BY <1>3, <1>9
<1> QED
  BY <1>13, <1>14, <1>15

(* What puts everything back misses no file either.                        *)
LEMMA RestoresDo ==
  ASSUME NEW j \in Journals
  PROVE  /\ Restores(j) \in Seq(FileSteps)
         /\ PutsBack(Restores(j), j)
         /\ \A t \in Aims(j.plan) : Pending(Restores(j), t)
<1> DEFINE T == Touches(j.plan)
           s == Reverse(PagesInOrder(j.plan))
           c == [p \in T |-> j.pages[p]]
           pages == PageSteps(s, c)
           f == j.side[From]
           t == j.side[To]
           side == SideSteps(j.plan.notes[From], f, t)
<1>1. /\ j.plan \in Plans /\ T \in SUBSET Pages /\ c \in [T -> Content]
      /\ j.plan.notes[From] \in SUBSET Nat /\ f \in SUBSET Nat /\ t \in SUBSET Nat
  BY PlanTypes DEF Journals
<1>2. Covers(s, T) /\ DOMAIN s = DOMAIN PagesInOrder(j.plan)
  BY <1>1, PagesInOrderCovers, ReverseCovers
<1>3. Restores(j) = side \o pages
  <2>1. \A i \in DOMAIN s : c[s[i]] = j.pages[s[i]]
    BY <1>2 DEF Covers
  <2>2. pages = [i \in DOMAIN PagesInOrder(j.plan) |-> PageStep(s[i], j.pages[s[i]])]
    BY <1>2, <2>1 DEF PageSteps
  <2> QED
    BY <2>2 DEF Restores, SideSteps
<1>4. /\ pages \in Seq(FileSteps)
      /\ \A i \in DOMAIN pages : \E p \in T : Target(pages[i]) = <<"page", p>> /\ Val(pages[i]) = c[p]
      /\ \A p \in T : Pending(pages, <<"page", p>>)
  BY <1>1, <1>2, PageStepsDo
<1>5. /\ side \in Seq(FileSteps)
      /\ \A k \in DOMAIN side :
           /\ j.plan.notes[From] # {}
           /\ \/ Target(side[k]) = <<"side", From>> /\ Val(side[k]) = f
              \/ Target(side[k]) = <<"side", To>> /\ Val(side[k]) = t
      /\ j.plan.notes[From] # {} =>
           /\ Pending(side, <<"side", From>>)
           /\ Pending(side, <<"side", To>>)
  BY <1>1, SideStepsDo
<1>6. \A p \in T : <<"page", p>> \in Aims(j.plan) /\ Before(j, <<"page", p>>) = c[p]
  BY DEF Aims, Before
<1>7. j.plan.notes[From] # {} =>
        /\ <<"side", From>> \in Aims(j.plan) /\ Before(j, <<"side", From>>) = f
        /\ <<"side", To>> \in Aims(j.plan) /\ Before(j, <<"side", To>>) = t
  BY RefactorAssumption DEF Aims, Before
<1>8. \A x \in Aims(j.plan) :
        \/ \E p \in T : x = <<"page", p>>
        \/ j.plan.notes[From] # {} /\ (x = <<"side", From>> \/ x = <<"side", To>>)
  BY DEF Aims
<1> HIDE DEF pages, side, c, s, T, f, t
<1>9. /\ side \o pages \in Seq(FileSteps)
      /\ \A i \in DOMAIN (side \o pages) :
           \/ \E k \in DOMAIN side : (side \o pages)[i] = side[k]
           \/ \E k \in DOMAIN pages : (side \o pages)[i] = pages[k]
      /\ \A x : Pending(side, x) \/ Pending(pages, x) => Pending(side \o pages, x)
  BY <1>4, <1>5, ConcatSteps
<1>10. \A i \in DOMAIN pages : Target(pages[i]) \in Aims(j.plan) /\ Val(pages[i]) = Before(j, Target(pages[i]))
  BY <1>4, <1>6
<1>11. \A k \in DOMAIN side : Target(side[k]) \in Aims(j.plan) /\ Val(side[k]) = Before(j, Target(side[k]))
  BY <1>5, <1>7
<1>12. ASSUME NEW i \in DOMAIN Restores(j)
       PROVE  Target(Restores(j)[i]) \in Aims(j.plan) /\ Val(Restores(j)[i]) = Before(j, Target(Restores(j)[i]))
  BY <1>3, <1>9, <1>10, <1>11
<1>13. ASSUME NEW x \in Aims(j.plan)
       PROVE  Pending(Restores(j), x)
  BY <1>3, <1>4, <1>5, <1>8, <1>9
<1>14. PutsBack(Restores(j), j)
  BY <1>12 DEF PutsBack
<1>15. Restores(j) \in Seq(FileSteps)
  BY <1>3, <1>9
<1> QED
  BY <1>13, <1>14, <1>15

(* What is left of a list of steps when its first step is done.            *)
LEMMA TailSteps ==
  ASSUME NEW todo \in Seq(FileSteps), todo # <<>>
  PROVE  /\ Head(todo) \in FileSteps /\ Head(todo) = todo[1] /\ 1 \in DOMAIN todo
         /\ Tail(todo) \in Seq(FileSteps)
         /\ \A i \in DOMAIN Tail(todo) : \E k \in DOMAIN todo : Tail(todo)[i] = todo[k]
         /\ \A t : Pending(todo, t) => t = Target(Head(todo)) \/ Pending(Tail(todo), t)
<1>1. /\ Len(todo) \in Nat /\ Len(todo) >= 1 /\ DOMAIN todo = 1..Len(todo)
      /\ Head(todo) = todo[1] /\ Tail(todo) \in Seq(FileSteps)
      /\ Len(Tail(todo)) = Len(todo) - 1 /\ DOMAIN Tail(todo) = 1..(Len(todo) - 1)
      /\ \A i \in 1..(Len(todo) - 1) : Tail(todo)[i] = todo[i + 1]
  OBVIOUS
<1>2. \A i \in DOMAIN Tail(todo) : \E k \in DOMAIN todo : Tail(todo)[i] = todo[k]
  <2>1. \A i \in DOMAIN Tail(todo) : i + 1 \in DOMAIN todo
    BY <1>1
  <2> QED
    BY <1>1, <2>1
<1>3. ASSUME NEW t, Pending(todo, t), t # Target(Head(todo))
      PROVE  Pending(Tail(todo), t)
  <2>1. PICK k \in DOMAIN todo : Target(todo[k]) = t
    BY <1>3 DEF Pending
  <2>2. k # 1
    BY <1>1, <1>3, <2>1
  <2>3. k - 1 \in DOMAIN Tail(todo) /\ Tail(todo)[k - 1] = todo[k]
    BY <1>1, <2>1, <2>2
  <2> QED
    BY <2>1, <2>3 DEF Pending
<1> QED
  BY <1>1, <1>2, <1>3

-----------------------------------------------------------------------------
(* Type correctness.                                                       *)

(* A plan made of the files as they are is a plan.                         *)
LEMMA PlanNowTypes ==
  ASSUME disk \in [Pages -> Content], comments \in [{From, To} -> SUBSET Nat]
  PROVE  PlanNow \in Plans
<1>1. [p \in Pages |-> IF p = From \/ p \in Abs!Linking(disk) THEN disk[p] ELSE Absent]
        \in [Pages -> Content]
  BY ContentTypes
<1>2. (IF comments[From] = {} THEN [q \in {From, To} |-> {}] ELSE comments)
        \in [{From, To} -> SUBSET Nat]
  OBVIOUS
<1> QED
  BY <1>1, <1>2 DEF PlanNow, Plans

(* The idle call, the empty journal and the idle loop have their types.    *)
LEMMA ConstantTypes ==
  /\ NoReq \in Reqs /\ IdleWork \in Works
  /\ NoJournal \in Journals /\ IdleTx \in Calls
<1>1. NoReq \in Reqs /\ IdleWork \in Works
  BY ContentTypes DEF NoReq, Reqs, IdleWork, Works
<1>2. NoJournal \in Journals
  BY ContentTypes DEF NoJournal, Journals, Plans
<1>3. IdleTx \in Calls
  BY ContentTypes, RefactorAssumption DEF IdleTx, Calls
<1> QED
  BY <1>1, <1>2, <1>3

(* TypeOK holds at first.                                                  *)
LEMMA InitTypes == Init => TypeOK
<1> SUFFICES ASSUME Init PROVE TypeOK
  OBVIOUS
<1>1. disk \in [Pages -> Content] /\ staged \in [Pages -> Content] /\ head \in [Pages -> Content]
  BY ContentTypes DEF Init, Content, Abs!Content
<1>2. comments \in [{From, To} -> SUBSET Nat]
  BY DEF Init
<1>3. tip \in [id : Nat, digest : Plans]
  BY ContentTypes DEF Init
<1>4. used \in Usages
  BY DEF Init, Usages
<1>5. journal \in Journals /\ tx \in Calls /\ reviewed \in Plans /\ work \in Works
  BY ConstantTypes, ContentTypes DEF Init
<1>6. queue \in Seq(Reqs) /\ log \subseteq Pages /\ batch \subseteq Pages
  BY DEF Init
<1>7. timer \in BOOLEAN /\ raced \in BOOLEAN
  BY DEF Init
<1> QED
  BY <1>1, <1>2, <1>3, <1>4, <1>5, <1>6, <1>7 DEF TypeOK

(* One step leaves pages and comments in their types.                      *)
LEMMA ExecuteTypes ==
  ASSUME TypeOK, NEW s \in FileSteps, Execute(s)
  PROVE  disk' \in [Pages -> Content] /\ comments' \in [{From, To} -> SUBSET Nat]
         /\ Target(s) \in {"page", "side"} \X Pages
  BY DEF TypeOK, FileSteps, Execute, Target

(* So does the start of a rollback.                                        *)
LEMMA UndoTypes ==
  ASSUME TypeOK, NEW touched \in SUBSET ({"page", "side"} \X Pages)
  PROVE  Undo(touched) \in Calls
<1>1. Restores(journal) \in Seq(FileSteps)
  BY RestoresDo DEF TypeOK, Journals
<1>2. tx \in Calls
  BY DEF TypeOK
<1> HIDE DEF Restores
<1> QED
  BY <1>1, <1>2 DEF Undo, Calls

(* One step per action of the restructuring.                               *)
LEMMA ApplyTypes == TypeOK /\ Apply => TypeOK'
<1> SUFFICES ASSUME TypeOK, Apply PROVE TypeOK'
  OBVIOUS
<1> USE DEF files, git, loop
<1>0. tx \in Calls /\ journal \in Journals /\ used \in Usages /\ work \in Works
  BY DEF TypeOK
<1>a. ASSUME Fail PROVE used' \in Usages
  BY <1>0, <1>a DEF Fail, Usages
<1>b. ASSUME CancelMe PROVE used' \in Usages
  BY <1>0, <1>b DEF CancelMe, Usages
<1>1. ASSUME Begin PROVE TypeOK'
  <2>1. tx' \in Calls
    <3>1. Steps(tx.plan) \in Seq(FileSteps)
      BY <1>0, StepsDo DEF Calls
    <3> HIDE DEF Steps
    <3> QED
      BY <1>0, <1>1, <3>1 DEF Begin, Calls
  <2>2. journal' \in Journals
    BY <1>0, <1>1 DEF Begin, Journals, Calls, TypeOK
  <2> QED
    BY <1>1, <2>1, <2>2 DEF Begin, TypeOK
<1>2. ASSUME Stale PROVE TypeOK'
  <2>1. tx' \in Calls
    <3>1. PlanNow \in Plans
      BY PlanNowTypes DEF TypeOK
    <3>2. MayRetry => tx.attempt + 1 \in 0..StaleRetries
      BY <1>0, RefactorAssumption DEF MayRetry, Calls
    <3> HIDE DEF PlanNow
    <3> QED
      BY <1>0, <1>2, <3>1, <3>2, ConstantTypes DEF Stale, Calls
  <2> QED
    BY <1>2, <2>1 DEF Stale, TypeOK
<1>3. ASSUME BeginFails PROVE TypeOK'
  <2>1. used' \in Usages
    BY <1>3, <1>a, <1>b DEF BeginFails
  <2> QED
    BY <1>3, <2>1, ConstantTypes DEF BeginFails, TypeOK
<1>4. ASSUME ApplyStep PROVE TypeOK'
  <2>1. tx.todo \in Seq(FileSteps) /\ tx.todo # <<>>
    BY <1>0, <1>4 DEF ApplyStep, Calls
  <2>2. Head(tx.todo) \in FileSteps /\ Tail(tx.todo) \in Seq(FileSteps)
    BY <2>1, TailSteps
  <2>3. disk' \in [Pages -> Content] /\ comments' \in [{From, To} -> SUBSET Nat]
        /\ Target(Head(tx.todo)) \in {"page", "side"} \X Pages
    BY <1>4, <2>2, ExecuteTypes DEF ApplyStep
  <2>4. tx' \in Calls
    BY <1>0, <1>4, <2>2, <2>3 DEF ApplyStep, Calls
  <2> QED
    BY <1>4, <2>3, <2>4 DEF ApplyStep, TypeOK
<1>5. ASSUME ApplyFails PROVE TypeOK'
  <2>1. tx.todo \in Seq(FileSteps) /\ tx.todo # <<>>
    BY <1>0, <1>5 DEF ApplyFails, Calls
  <2>2. Head(tx.todo) \in FileSteps
    BY <2>1, TailSteps
  <2>3. disk' \in [Pages -> Content] /\ comments' \in [{From, To} -> SUBSET Nat]
    BY <1>5, <2>2, ExecuteTypes DEF ApplyFails, TypeOK
  <2>4. Target(Head(tx.todo)) \in {"page", "side"} \X Pages
    BY <2>2 DEF FileSteps, Target
  <2>5. tx.touched \union {Target(Head(tx.todo))} \in SUBSET ({"page", "side"} \X Pages)
    BY <1>0, <2>4 DEF Calls
  <2>6. tx' \in Calls
    BY <1>5, <2>5, UndoTypes DEF ApplyFails
  <2>7. used' \in Usages
    BY <1>5, <1>a DEF ApplyFails
  <2> QED
    BY <1>5, <2>3, <2>6, <2>7 DEF ApplyFails, TypeOK
<1>6. ASSUME SendCommit PROVE TypeOK'
  <2>1. [paths |-> CommitPaths, digest |-> tx.plan, heard |-> TRUE] \in Reqs
    BY <1>0, PlanTypes DEF CommitPaths, Reqs, Calls
  <2>2. queue' \in Seq(Reqs)
    BY <1>6, <2>1 DEF SendCommit, TypeOK
  <2>3. tx' \in Calls
    BY <1>0, <1>6 DEF SendCommit, Calls
  <2> QED
    BY <1>6, <2>2, <2>3 DEF SendCommit, TypeOK
<1>c. tx.touched \in SUBSET ({"page", "side"} \X Pages)
  BY <1>0 DEF Calls
<1>7. ASSUME SendCancelled PROVE TypeOK'
  <2>1. tx' \in Calls
    BY <1>7, <1>c, UndoTypes DEF SendCancelled
  <2> QED
    BY <1>7, <2>1, <1>b DEF SendCancelled, TypeOK
<1>8. ASSUME WaitCancelled PROVE TypeOK'
  <2>1. tx' \in Calls
    BY <1>8, <1>c, UndoTypes DEF WaitCancelled
  <2>2. \A r \in Reqs : Unheard(r) \in Reqs
    BY DEF Unheard, Reqs
  <2>3. queue' \in Seq(Reqs)
    <3>1. queue \in Seq(Reqs) /\ queue' = [i \in 1..Len(queue) |-> Unheard(queue[i])]
      BY <1>8 DEF WaitCancelled, TypeOK
    <3>2. Len(queue) \in Nat /\ \A i \in 1..Len(queue) : queue[i] \in Reqs
      BY <3>1
    <3>3. \A i \in 1..Len(queue) : Unheard(queue[i]) \in Reqs
      BY <2>2, <3>2
    <3> HIDE DEF Unheard
    <3> QED
      BY <3>1, <3>2, <3>3
  <2>4. work' \in Works
    BY <1>0, <1>8, <2>2 DEF WaitCancelled, Works
  <2> QED
    BY <1>8, <2>1, <2>3, <2>4, <1>b DEF WaitCancelled, TypeOK
<1>9. ASSUME CommitReturns PROVE TypeOK'
  <2>1. tx' \in Calls
    <3>1. [tx EXCEPT !.pc = "landed", !.answer = "none"] \in Calls
      BY <1>0 DEF Calls
    <3> QED
      BY <1>9, <3>1, <1>c, UndoTypes DEF CommitReturns
  <2> QED
    BY <1>9, <2>1 DEF CommitReturns, TypeOK
<1>10. ASSUME MarkCommitted PROVE TypeOK'
  <2>1. tx' \in Calls
    BY <1>0, <1>10 DEF MarkCommitted, Calls
  <2>2. journal' \in Journals
    BY <1>0, <1>10 DEF MarkCommitted, Journals
  <2>3. used' \in Usages
    BY <1>0, <1>10, <1>a DEF MarkCommitted
  <2> QED
    BY <1>10, <2>1, <2>2, <2>3 DEF MarkCommitted, TypeOK
<1>11. ASSUME Cleanup PROVE TypeOK'
  BY <1>11, ConstantTypes DEF Cleanup, TypeOK
<1>12. ASSUME RestoreStep PROVE TypeOK'
  <2>1. tx.todo \in Seq(FileSteps) /\ tx.todo # <<>>
    BY <1>0, <1>12 DEF RestoreStep, Calls
  <2>2. Head(tx.todo) \in FileSteps /\ Tail(tx.todo) \in Seq(FileSteps)
    BY <2>1, TailSteps
  <2>3. disk' \in [Pages -> Content] /\ comments' \in [{From, To} -> SUBSET Nat]
    BY <1>12, <2>2, ExecuteTypes DEF RestoreStep, TypeOK
  <2>4. tx' \in Calls
    BY <1>0, <1>12, <2>2 DEF RestoreStep, Calls
  <2> QED
    BY <1>12, <2>3, <2>4 DEF RestoreStep, TypeOK
<1>13. ASSUME RollbackEnds PROVE TypeOK'
  BY <1>13, ConstantTypes DEF RollbackEnds, TypeOK
<1>14. ASSUME RecoverEnds PROVE TypeOK'
  <2>1. [NoReq EXCEPT !.paths = log] \in Reqs
    BY ConstantTypes DEF Reqs, TypeOK
  <2>2. queue' \in Seq(Reqs)
    BY <1>14, <2>1 DEF RecoverEnds
  <2> QED
    BY <1>14, <2>2, ConstantTypes DEF RecoverEnds, TypeOK
<1> QED
  BY <1>1, <1>2, <1>3, <1>4, <1>5, <1>6, <1>7, <1>8, <1>9, <1>10, <1>11, <1>12, <1>13, <1>14
  DEF Apply

(* The end of a commit keeps the types of batch, log, call and loop.       *)
LEMMA DoneTypes ==
  ASSUME TypeOK, NEW ok \in BOOLEAN, Done(ok)
  PROVE  batch' \subseteq Pages /\ log' \subseteq Pages /\ tx' \in Calls /\ work' \in Works
<1>1. tx \in Calls /\ work \in Works
  BY DEF TypeOK
<1>2. tx' \in Calls
  BY <1>1 DEF Done, Calls
<1>3. work' \in Works
  BY <1>1, ConstantTypes DEF Done, Works
<1> QED
  BY <1>2, <1>3 DEF Done, TypeOK

(* One step per action of the commit loop.                                 *)
LEMMA LoopTypes == TypeOK /\ Loop => TypeOK'
<1> SUFFICES ASSUME TypeOK, Loop PROVE TypeOK'
  OBVIOUS
<1> USE DEF files, git, loop
<1>0. work \in Works /\ used \in Usages
  BY DEF TypeOK
<1>h. ASSUME queue # <<>>
      PROVE  Head(queue) \in Reqs /\ Tail(queue) \in Seq(Reqs)
  BY <1>h DEF TypeOK
<1>1. ASSUME TakeRequest PROVE TypeOK'
  BY <1>1, <1>h DEF TakeRequest, TypeOK, Reqs
<1>f. ASSUME NEW r \in Reqs PROVE FlushThen(r) \in Works
  <2>1. [NoReq EXCEPT !.paths = batch] \in Reqs
    BY ConstantTypes DEF Reqs, TypeOK
  <2> QED
    BY <2>1 DEF FlushThen, Works
<1>2. ASSUME TakeRecorded PROVE TypeOK'
  <2>1. [IdleWork EXCEPT !.pc = "stage", !.req = Head(queue)] \in Works
    BY <1>2, <1>h, ConstantTypes DEF TakeRecorded, Works
  <2> HIDE DEF FlushThen
  <2>2. work' \in Works
    BY <1>2, <1>h, <1>f, <2>1 DEF TakeRecorded
  <2> QED
    BY <1>2, <1>h, <2>2 DEF TakeRecorded, TypeOK
<1>3. ASSUME Flush PROVE TypeOK'
  <2>1. work' \in Works
    BY <1>3, <1>f, ConstantTypes DEF Flush
  <2> QED
    BY <1>3, <2>1 DEF Flush, TypeOK
<1>4. ASSUME Stage PROVE TypeOK'
  <2>1. work' \in Works
    BY <1>0, <1>4 DEF Stage, Works
  <2>2. staged' \in [Pages -> Content]
    BY <1>4 DEF Stage, TypeOK
  <2> QED
    BY <1>4, <2>1, <2>2 DEF Stage, TypeOK
<1>5. ASSUME NothingToCommit PROVE TypeOK'
  <2>1. batch' \subseteq Pages /\ log' \subseteq Pages /\ tx' \in Calls /\ work' \in Works
    BY <1>5, DoneTypes DEF NothingToCommit
  <2> QED
    BY <1>5, <2>1 DEF NothingToCommit, Done, TypeOK
<1>6. ASSUME Commit PROVE TypeOK'
  <2>1. batch' \subseteq Pages /\ log' \subseteq Pages /\ tx' \in Calls /\ work' \in Works
    BY <1>6, DoneTypes DEF Commit
  <2>2. tip' \in [id : Nat, digest : Plans]
    BY <1>0, <1>6 DEF Commit, TypeOK, Works, Reqs
  <2> QED
    BY <1>6, <2>1, <2>2 DEF Commit, Done, TypeOK
<1>7. ASSUME CommitFails PROVE TypeOK'
  <2>1. batch' \subseteq Pages /\ log' \subseteq Pages /\ tx' \in Calls /\ work' \in Works
    BY <1>7, DoneTypes DEF CommitFails
  <2>2. staged' \in [Pages -> Content]
    BY <1>7 DEF CommitFails, TypeOK
  <2>3. used' \in Usages
    BY <1>0, <1>7 DEF CommitFails, Fail, Usages
  <2> QED
    BY <1>7, <2>1, <2>2, <2>3 DEF CommitFails, Done, TypeOK
<1> QED
  BY <1>1, <1>2, <1>3, <1>4, <1>5, <1>6, <1>7 DEF Loop

(* One step per action of everyone else.                                   *)
LEMMA OtherTypes ==
  ASSUME TypeOK
  PROVE  /\ Review => TypeOK'
         /\ \A pinned \in BOOLEAN : StartRefactor(pinned) => TypeOK'
         /\ \A p \in Pages : WritePage(p) => TypeOK'
         /\ \A q \in {From, To} : AddComment(q) => TypeOK'
         /\ Crash => TypeOK'
         /\ Restart => TypeOK'
<1> USE DEF files, git, loop
<1>0. tx \in Calls /\ journal \in Journals /\ used \in Usages
  BY DEF TypeOK
<1>p. PlanNow \in Plans
  BY PlanNowTypes DEF TypeOK
<1>1. ASSUME Review PROVE TypeOK'
  BY <1>1, <1>p DEF Review, TypeOK
<1>2. ASSUME NEW pinned \in BOOLEAN, StartRefactor(pinned) PROVE TypeOK'
  <2> HIDE DEF PlanNow
  <2>1. tx' \in Calls
    BY <1>2, <1>p, ConstantTypes DEF StartRefactor, Calls
  <2> QED
    BY <1>2, <2>1 DEF StartRefactor, TypeOK
<1>3. ASSUME NEW p \in Pages, WritePage(p) PROVE TypeOK'
  <2>1. [by |-> used.writes + 2, moved |-> FALSE] \in Content /\ Absent \in Content
    BY <1>0, ContentTypes DEF Content, Abs!Content, Usages
  <2>2. disk' \in [Pages -> Content]
    BY <1>3, <2>1 DEF WritePage, TypeOK
  <2>3. [NoReq EXCEPT !.paths = {p}] \in Reqs
    BY ConstantTypes DEF Reqs
  <2>4. queue' \in Seq(Reqs)
    BY <1>3, <2>3 DEF WritePage, TypeOK
  <2>5. used' \in Usages
    BY <1>0, <1>3 DEF WritePage, Usages
  <2> QED
    BY <1>3, <2>2, <2>4, <2>5 DEF WritePage, TypeOK
<1>4. ASSUME NEW q \in {From, To}, AddComment(q) PROVE TypeOK'
  <2>1. comments' \in [{From, To} -> SUBSET Nat]
    BY <1>0, <1>4 DEF AddComment, TypeOK, Usages
  <2>2. used' \in Usages
    BY <1>0, <1>4 DEF AddComment, Usages
  <2>3. raced' \in BOOLEAN
    BY <1>4 DEF AddComment
  <2> QED
    BY <1>4, <2>1, <2>2, <2>3 DEF AddComment, TypeOK
<1>5. ASSUME Crash PROVE TypeOK'
  <2>1. tx' \in Calls
    BY <1>5, ConstantTypes DEF Crash, Calls
  <2>2. used' \in Usages
    BY <1>0, <1>5 DEF Crash, Usages
  <2>3. queue' \in Seq(Reqs)
    BY <1>5 DEF Crash
  <2>4. batch' \subseteq Pages /\ timer' \in BOOLEAN
    BY <1>5 DEF Crash
  <2>5. work' \in Works
    BY <1>5, ConstantTypes DEF Crash
  <2> QED
    BY <1>5, <2>1, <2>2, <2>3, <2>4, <2>5 DEF Crash, TypeOK
<1>6. ASSUME Restart PROVE TypeOK'
  <2>1. Recover(journal) \in Seq(FileSteps)
    BY <1>0, RestoresDo DEF Recover
  <2>2. tx' \in Calls
    BY <1>0, <1>6, <2>1 DEF Restart, Calls
  <2> QED
    BY <1>6, <2>2 DEF Restart, TypeOK
<1> QED
  BY <1>1, <1>2, <1>3, <1>4, <1>5, <1>6

(* Every step keeps the types.                                             *)
LEMMA TypeStep == TypeOK /\ [Next]_vars => TypeOK'
<1>1. TypeOK /\ UNCHANGED vars => TypeOK'
  BY DEF TypeOK, vars
<1> QED
  BY <1>1, ApplyTypes, LoopTypes, OtherTypes DEF Next

(* The variables stay in their types, for any pages and bounds.            *)
THEOREM TypeCorrect == Spec => []TypeOK
  BY InitTypes, TypeStep, PTL DEF Spec

-----------------------------------------------------------------------------
(* The journal is the plan's, and the plan is sound and, if pinned, the    *)
(* reviewed one.                                                           *)

(* A plan that passes ConflictExists moves a page that is there.           *)
LEMMA PlanNowSound ==
  ASSUME TypeOK, CanPlan
  PROVE  Sound(PlanNow)
<1>1. PlanNow.src = [p \in Pages |-> IF p = From \/ p \in Abs!Linking(disk) THEN disk[p] ELSE Absent]
  BY DEF PlanNow
<1>2. PlanNow.src[From] # Absent
  BY <1>1, ContentTypes DEF CanPlan
<1>3. \A p \in Abs!Linking(disk) : p \in Refs /\ ~disk[p].moved
  BY DEF Abs!Linking
<1> HIDE DEF PlanNow
<1>4. \A p \in Pages : PlanNow.src[p] # Absent => p = From \/ (p \in Refs /\ ~PlanNow.src[p].moved)
  BY <1>1, <1>3
<1> QED
  BY <1>2, <1>4 DEF Sound

(* There is no journal at first.                                           *)
LEMMA InitJournal == Init => JournalInv /\ PinnedInv
  BY DEF Init, JournalInv, PinnedInv, IdleTx, NoJournal, Forward

(* A call's fields after the usual updates.                                *)
LEMMA CallFields ==
  ASSUME TypeOK
  PROVE  /\ \A touched : Undo(touched).pc = "rollback" /\ Undo(touched).plan = tx.plan
                         /\ Undo(touched).pinned = tx.pinned /\ Undo(touched).answer = "none"
                         /\ Undo(touched).touched = touched /\ Undo(touched).todo = Restores(journal)
         /\ \A ok : Done(ok) => /\ tx'.pc = tx.pc /\ tx'.plan = tx.plan /\ tx'.pinned = tx.pinned
                                /\ tx'.todo = tx.todo /\ tx'.touched = tx.touched
                                /\ tx'.answer = IF work.req.heard THEN IF ok THEN "ok" ELSE "failed"
                                                ELSE tx.answer
<1>1. tx \in Calls
  BY DEF TypeOK
<1>2. ASSUME NEW touched
      PROVE  Undo(touched).pc = "rollback" /\ Undo(touched).plan = tx.plan
             /\ Undo(touched).pinned = tx.pinned /\ Undo(touched).answer = "none"
             /\ Undo(touched).touched = touched /\ Undo(touched).todo = Restores(journal)
  BY <1>1 DEF Undo, Calls
<1>3. ASSUME NEW ok, Done(ok)
      PROVE  /\ tx'.pc = tx.pc /\ tx'.plan = tx.plan /\ tx'.pinned = tx.pinned
             /\ tx'.todo = tx.todo /\ tx'.touched = tx.touched
             /\ tx'.answer = IF work.req.heard THEN IF ok THEN "ok" ELSE "failed"
                             ELSE tx.answer
  BY <1>1, <1>3 DEF Done, Calls
<1> QED
  BY <1>2, <1>3

(* One step per action: the journal has the call's plan, and the pre-      *)
(* images that plan was made from.                                         *)
LEMMA JournalStep ==
  ASSUME TypeOK, JournalInv, PinnedInv, [Next]_vars
  PROVE  JournalInv' /\ PinnedInv'
<1> USE DEF files, git, loop
<1>0. tx \in Calls /\ journal \in Journals /\ tip.id \in Nat
  BY DEF TypeOK
<1> DEFINE J == JournalInv' /\ PinnedInv'
<1>1. ASSUME UNCHANGED vars PROVE J
  BY <1>1 DEF vars, JournalInv, PinnedInv, Sound, Sources
<1>2. ASSUME Review PROVE J
  BY <1>2 DEF Review, JournalInv, PinnedInv, Forward, Sound, Sources
<1>3. ASSUME NEW pinned \in BOOLEAN, StartRefactor(pinned) PROVE J
  <2>1. Sound(PlanNow)
    BY <1>3, PlanNowSound DEF StartRefactor
  <2> HIDE DEF PlanNow
  <2>2. tx'.pc = "lock" /\ tx'.plan = PlanNow /\ tx'.pinned = pinned /\ (pinned => PlanNow = reviewed)
    BY <1>3 DEF StartRefactor, IdleTx
  <2>3. UNCHANGED <<journal, reviewed, tip>> /\ tx.pc = "idle"
    BY <1>3 DEF StartRefactor
  <2> QED
    BY <2>1, <2>2, <2>3 DEF JournalInv, PinnedInv, Forward, Sound, NoJournal
<1>4. ASSUME Begin PROVE J
  BY <1>0, <1>4 DEF Begin, JournalInv, PinnedInv, Forward, Sound, Fresh, Sources, Calls
<1>5. ASSUME Stale PROVE J
  <2>1. CanPlan => Sound(PlanNow)
    BY PlanNowSound
  <2> HIDE DEF PlanNow
  <2>2. UNCHANGED <<journal, reviewed, tip>> /\ tx.pc = "lock"
    BY <1>5 DEF Stale
  <2>3. \/ tx' = IdleTx
        \/ CanPlan /\ ~tx.pinned /\ tx'.pc = "lock" /\ tx'.plan = PlanNow /\ tx'.pinned = tx.pinned
    BY <1>0, <1>5 DEF Stale, MayRetry, Calls
  <2> QED
    BY <2>1, <2>2, <2>3 DEF JournalInv, PinnedInv, Forward, Sound, NoJournal, IdleTx
<1>6. ASSUME BeginFails PROVE J
  BY <1>6 DEF BeginFails, JournalInv, PinnedInv, Forward, IdleTx, NoJournal
<1>7. ASSUME ApplyStep PROVE J
  BY <1>0, <1>7 DEF ApplyStep, JournalInv, PinnedInv, Forward, Sound, Sources, Calls
<1>8. ASSUME ApplyFails \/ SendCancelled \/ WaitCancelled \/ (CommitReturns /\ tx.answer # "ok") PROVE J
  <2>1. /\ tx'.pc = "rollback" /\ tx'.plan = tx.plan /\ tx'.pinned = tx.pinned
        /\ tx.pc \in {"apply", "wait"} /\ UNCHANGED <<journal, reviewed, tip>>
    BY <1>8, CallFields DEF ApplyFails, SendCancelled, WaitCancelled, CommitReturns
  <2> QED
    BY <2>1 DEF JournalInv, PinnedInv, Forward, Sound, Sources
<1>9. ASSUME SendCommit \/ (CommitReturns /\ tx.answer = "ok") \/ MarkCommitted PROVE J
  <2>1. /\ tx.pc \in Forward /\ tx'.pc \in {"wait", "landed", "cleanup"}
        /\ tx'.plan = tx.plan /\ tx'.pinned = tx.pinned /\ UNCHANGED <<reviewed, tip>>
    BY <1>0, <1>9 DEF SendCommit, CommitReturns, MarkCommitted, Forward, Calls
  <2>2. \/ UNCHANGED journal
        \/ tx'.pc = "cleanup" /\ journal' = [journal EXCEPT !.state = "committed"]
    BY <1>0, <1>9 DEF SendCommit, CommitReturns, MarkCommitted, Calls
  <2>3. /\ journal'.plan = journal.plan /\ journal'.head = journal.head /\ journal'.pages = journal.pages
        /\ journal'.state = journal.state \/ (tx'.pc = "cleanup" /\ journal'.state = "committed")
    BY <1>0, <2>2 DEF Journals
  <2>4. tx.pc \in {"apply", "wait", "landed"}
    BY <1>9 DEF SendCommit, CommitReturns, MarkCommitted
  <2> QED
    BY <2>1, <2>3, <2>4 DEF JournalInv, PinnedInv, Forward, Sound, Sources
<1>10. ASSUME Cleanup \/ RollbackEnds \/ RecoverEnds PROVE J
  BY <1>10 DEF Cleanup, RollbackEnds, RecoverEnds, JournalInv, PinnedInv, Forward, IdleTx, NoJournal
<1>11. ASSUME RestoreStep PROVE J
  BY <1>0, <1>11 DEF RestoreStep, JournalInv, PinnedInv, Forward, Sound, Sources, Calls
<1>12. ASSUME \/ \E p \in Pages : WritePage(p)
              \/ \E q \in {From, To} : AddComment(q)
       PROVE  J
  <2>1. UNCHANGED <<tx, journal, reviewed, tip>>
    BY <1>12 DEF WritePage, AddComment
  <2> QED
    BY <2>1 DEF JournalInv, PinnedInv, Forward, Sound, Sources
<1>13. ASSUME Loop PROVE J
  <2>1. tx'.pc = tx.pc /\ tx'.plan = tx.plan /\ tx'.pinned = tx.pinned /\ UNCHANGED <<journal, reviewed>>
    BY <1>13, CallFields DEF Loop, TakeRequest, TakeRecorded, Flush, Stage, NothingToCommit, Commit,
                             CommitFails, Done
  <2>2. tip'.id = tip.id \/ tip'.id = tip.id + 1
    <3>1. ASSUME Commit PROVE tip'.id = tip.id + 1
      BY <3>1 DEF Commit
    <3>2. ASSUME ~Commit PROVE tip' = tip
      BY <1>13, <3>2 DEF Loop, TakeRequest, TakeRecorded, Flush, Stage, NothingToCommit, CommitFails
    <3> QED
      BY <3>1, <3>2
  <2>3. journal.head \in Nat
    BY <1>0 DEF Journals
  <2> QED
    BY <1>0, <2>1, <2>2, <2>3 DEF JournalInv, PinnedInv, Forward, Sound, Sources
<1>14. ASSUME Crash \/ Restart PROVE J
  <2>1. tx'.pc \in {"down", "recover"} /\ UNCHANGED <<journal, tip>>
    BY <1>0, <1>14 DEF Crash, Restart, IdleTx, Calls
  <2> QED
    BY <2>1 DEF JournalInv, PinnedInv, Forward, Sound, Sources
<1> QED
  BY <1>1, <1>2, <1>3, <1>4, <1>5, <1>6, <1>7, <1>8, <1>9, <1>10, <1>11, <1>12, <1>13, <1>14
  DEF Next, Apply, CommitReturns

-----------------------------------------------------------------------------
(* The commit loop and the request of the restructuring.                   *)

(* A plan that moves a page has a digest.                                  *)
LEMMA SoundIsSome ==
  ASSUME NEW plan \in Plans, Sound(plan)
  PROVE  plan # NoPlan /\ From \in Sources(plan)
<1>1. NoPlan.src[From] = Absent /\ From \in Pages
  BY ContentTypes DEF NoPlan
<1> QED
  BY <1>1 DEF Sound, Sources

(* Requests without a digest, and the loop with nothing to do or a batch   *)
(* to flush.                                                               *)
LEMMA PlainNoReq ==
  /\ Plain(NoReq) /\ NoReq.paths = {}
  /\ \A S : Plain([NoReq EXCEPT !.paths = S]) /\ [NoReq EXCEPT !.paths = S].paths = S
  /\ IdleWork.pc = "idle" /\ IdleWork.req = NoReq /\ IdleWork.next = NoReq
  /\ \A r : FlushThen(r).pc = "stage" /\ Plain(FlushThen(r).req) /\ FlushThen(r).next = r
            /\ FlushThen(r).req.paths = batch
  BY DEF Plain, NoReq, IdleWork, FlushThen

(* The loop is idle at first.                                              *)
LEMMA InitLoop == Init => LoopInv
<1> SUFFICES ASSUME Init PROVE LoopInv
  OBVIOUS
<1>1. tx = IdleTx /\ queue = <<>> /\ work = IdleWork
  BY DEF Init
<1>2. tx.pc = "idle" /\ tx.answer = "none"
  BY <1>1 DEF IdleTx
<1>3. RequestInv
  BY <1>1, <1>2, PlainNoReq DEF RequestInv, Waiting
<1> QED
  BY <1>1, <1>2, <1>3 DEF LoopInv

(* How much of each bound is used up only grows.                           *)
LEMMA CancelsGrow ==
  ASSUME TypeOK, [Next]_vars
  PROVE  /\ used.cancels \in Nat /\ used.crashes \in Nat /\ used.fails \in Nat
         /\ used'.cancels = 0 => used.cancels = 0
         /\ used'.crashes = 0 => used.crashes = 0
         /\ used'.fails = 0 => used.fails = 0
         /\ WaitCancelled => CancelInCommit /\ used'.cancels # 0
         /\ ApplyFails \/ (CommitFails /\ ~(Dirty /\ staged = head)) => used'.fails # 0
         /\ SendCancelled => used'.cancels # 0
         /\ Crash => used'.crashes # 0
<1>1. used \in Usages
  BY DEF TypeOK
<1>2. /\ used.cancels \in Nat /\ used.crashes \in Nat /\ used.fails \in Nat
  BY <1>1 DEF Usages
<1>3. Fail => used'.fails = used.fails + 1 /\ used'.cancels = used.cancels /\ used'.crashes = used.crashes
  BY <1>1 DEF Fail, Usages
<1>4. CancelMe => used'.cancels = used.cancels + 1 /\ used'.fails = used.fails /\ used'.crashes = used.crashes
  BY <1>1 DEF CancelMe, Usages
<1>5. Crash => used'.crashes = used.crashes + 1 /\ used'.fails = used.fails /\ used'.cancels = used.cancels
  BY <1>1 DEF Crash, Usages
<1>6. \A p : WritePage(p) =>
        used'.crashes = used.crashes /\ used'.fails = used.fails /\ used'.cancels = used.cancels
  BY <1>1 DEF WritePage, Usages
<1>7. \A q : AddComment(q) =>
        used'.crashes = used.crashes /\ used'.fails = used.fails /\ used'.cancels = used.cancels
  BY <1>1 DEF AddComment, Usages
<1>8. \/ UNCHANGED used \/ Fail \/ CancelMe \/ Crash
      \/ \E p \in Pages : WritePage(p)
      \/ \E q \in {From, To} : AddComment(q)
  <2>1. CASE UNCHANGED vars
    BY <2>1 DEF vars
  <2>2. CASE Apply
    BY <2>2 DEF Apply, Begin, Stale, BeginFails, ApplyStep, ApplyFails, SendCommit, SendCancelled,
                WaitCancelled, CommitReturns, MarkCommitted, Cleanup, RestoreStep, RollbackEnds, RecoverEnds
  <2>3. CASE Loop
    BY <2>3 DEF Loop, TakeRequest, TakeRecorded, Flush, Stage, NothingToCommit, Commit, CommitFails
  <2>4. CASE Review \/ (\E pinned \in BOOLEAN : StartRefactor(pinned)) \/ Restart
    BY <2>4 DEF Review, StartRefactor, Restart
  <2> QED
    BY <2>1, <2>2, <2>3, <2>4 DEF Next
<1>9. WaitCancelled \/ SendCancelled => CancelMe
  BY DEF WaitCancelled, SendCancelled
<1>10. WaitCancelled => CancelInCommit
  BY DEF WaitCancelled
<1>11. ApplyFails \/ (CommitFails /\ ~(Dirty /\ staged = head)) => Fail
  BY DEF ApplyFails, CommitFails
<1> QED
  BY <1>2, <1>3, <1>4, <1>5, <1>6, <1>7, <1>8, <1>9, <1>10, <1>11

(* The restructuring's own steps keep track of its request.              *)
LEMMA RequestApply ==
  ASSUME TypeOK, JournalInv, RequestInv, Apply, ~WaitCancelled
  PROVE  RequestInv'
<1> USE DEF files, git, loop
<1>0. tx \in Calls /\ journal \in Journals /\ tip.id \in Nat /\ queue \in Seq(Reqs)
  BY DEF TypeOK
<1>1. ASSUME Begin PROVE RequestInv'
  <2>1. /\ tx.pc = "lock" /\ tx'.pc = "apply" /\ tx'.answer = tx.answer
        /\ UNCHANGED <<tip, queue, work, timer>> /\ journal'.head = tip.id
    BY <1>0, <1>1 DEF Begin, Calls
  <2> QED
    BY <2>1 DEF RequestInv, Waiting, DigestCommitted, Plain
<1>2. ASSUME Stale \/ BeginFails PROVE RequestInv'
  <2>1. tx.pc = "lock" /\ tx.answer = "none"
    BY <1>2 DEF Stale, BeginFails, RequestInv
  <2>3. IdleTx.pc = "idle" /\ IdleTx.answer = "none"
    BY DEF IdleTx
  <2>4. tx' = IdleTx \/ tx' = [tx EXCEPT !.plan = PlanNow, !.attempt = @ + 1]
    BY <1>2 DEF Stale, BeginFails
  <2> HIDE DEF PlanNow
  <2>5. tx'.pc \in {"lock", "idle"} /\ tx'.answer = "none"
    BY <1>0, <2>1, <2>3, <2>4 DEF Calls
  <2>2. UNCHANGED <<queue, work>>
    BY <1>2 DEF Stale, BeginFails
  <2> QED
    BY <2>1, <2>2, <2>5 DEF RequestInv, Waiting, Plain
<1>3. ASSUME ApplyStep \/ RestoreStep PROVE RequestInv'
  <2>1. /\ tx.pc \in {"apply", "rollback", "recover"} /\ tx'.pc = tx.pc /\ tx'.answer = tx.answer
        /\ UNCHANGED <<tip, queue, work, timer, journal>>
    BY <1>0, <1>3 DEF ApplyStep, RestoreStep, Calls
  <2> QED
    BY <2>1 DEF RequestInv, Waiting, DigestCommitted, Plain
<1>4. ASSUME ApplyFails \/ SendCancelled PROVE RequestInv'
  <2>1. /\ tx.pc = "apply" /\ tx'.pc = "rollback" /\ tx'.answer = "none"
        /\ UNCHANGED <<tip, queue, work, timer, journal>>
    BY <1>4, CallFields DEF ApplyFails, SendCancelled
  <2> QED
    BY <2>1 DEF RequestInv, Waiting, DigestCommitted, Plain
<1>5. ASSUME SendCommit PROVE RequestInv'
  <2> DEFINE r == [paths |-> CommitPaths, digest |-> tx.plan, heard |-> TRUE]
  <2>1. /\ tx.pc = "apply" /\ tx'.pc = "wait" /\ tx'.answer = tx.answer /\ tx'.plan = tx.plan
        /\ UNCHANGED <<tip, work, timer, journal>> /\ queue' = Append(queue, r)
    BY <1>0, <1>5 DEF SendCommit, Calls
  <2>2. r = Ours'
    BY <2>1 DEF Ours, CommitPaths, Touches, Written, Sources
  <2> HIDE DEF r
  <2>3. /\ queue' # <<>> /\ queue'[Len(queue')] = r
        /\ \A i \in DOMAIN queue' : i # Len(queue') => i \in DOMAIN queue /\ queue'[i] = queue[i]
    BY <1>0, <2>1
  <2>4. (\A i \in DOMAIN queue : Plain(queue[i])) /\ Plain(work.req) /\ work.next = NoReq
        /\ tx.answer = "none" /\ ~DigestCommitted(journal)
    BY <2>1 DEF RequestInv
  <2>5. OursIsLast'
    BY <2>1, <2>2, <2>3, <2>4 DEF OursIsLast, Plain
  <2> QED
    BY <2>1, <2>4, <2>5 DEF RequestInv, Waiting, DigestCommitted
<1>6. ASSUME CommitReturns PROVE RequestInv'
  <2>1. tx.pc = "wait" /\ ~Waiting /\ UNCHANGED <<tip, queue, work, timer, journal>>
    BY <1>6 DEF CommitReturns, Waiting
  <2>2. LoopIsIdle
    BY <2>1 DEF RequestInv
  <2>3. \/ tx'.pc = "landed" /\ tx'.answer = "none"
        \/ tx'.pc = "rollback" /\ tx'.answer = "none" /\ tx.answer # "ok"
    BY <1>0, <1>6, CallFields DEF CommitReturns, Calls
  <2> QED
    BY <2>1, <2>2, <2>3, PlainNoReq DEF RequestInv, Waiting, DigestCommitted, LoopIsIdle, Plain
<1>7. ASSUME MarkCommitted PROVE RequestInv'
  <2>1. /\ tx.pc = "landed" /\ tx'.pc = "cleanup" /\ tx'.answer = tx.answer
        /\ UNCHANGED <<tip, queue, work, timer>>
    BY <1>0, <1>7 DEF MarkCommitted, Calls
  <2> QED
    BY <2>1 DEF RequestInv, Waiting, LoopIsIdle
<1>8. ASSUME Cleanup \/ RollbackEnds PROVE RequestInv'
  <2>1. tx.pc \in {"cleanup", "rollback"} /\ tx'.pc = "idle" /\ tx'.answer = "none" /\ UNCHANGED <<queue, work>>
    BY <1>8 DEF Cleanup, RollbackEnds, IdleTx
  <2>2. (\A i \in DOMAIN queue : Plain(queue[i])) /\ Plain(work.req) /\ work.next = NoReq
    BY <2>1, PlainNoReq DEF RequestInv, Waiting, LoopIsIdle
  <2> QED
    BY <2>1, <2>2 DEF RequestInv, Waiting, Plain
<1>9. ASSUME RecoverEnds PROVE RequestInv'
  <2>1. /\ tx.pc = "recover" /\ tx'.pc = "idle" /\ tx'.answer = "none" /\ UNCHANGED work
        /\ queue' = <<>> \/ queue' = <<[NoReq EXCEPT !.paths = log]>>
    BY <1>9 DEF RecoverEnds, IdleTx
  <2>2. \A i \in DOMAIN queue' : Plain(queue'[i])
    BY <2>1, PlainNoReq
  <2> QED
    BY <2>1, <2>2 DEF RequestInv, Waiting, Plain
<1> QED
  BY <1>1, <1>2, <1>3, <1>4, <1>5, <1>6, <1>7, <1>8, <1>9 DEF Apply

(* The loop's own steps: where the restructuring's request may be moves    *)
(* forward.                                                                *)
LEMMA RequestTake ==
  ASSUME TypeOK, JournalInv, RequestInv, TakeRequest \/ TakeRecorded \/ Flush \/ Stage,
         work.pc = "idle" => work = IdleWork
  PROVE  RequestInv'
<1> USE DEF files, git, loop
<1>0. /\ tx \in Calls /\ queue \in Seq(Reqs) /\ work \in Works /\ tx.plan \in Plans /\ Len(queue) \in Nat
      /\ UNCHANGED <<tx, tip, journal>>
  BY DEF TypeOK, Calls, TakeRequest, TakeRecorded, Flush, Stage
<1>1. ASSUME tx.pc = "wait"
      PROVE  tx.plan # NoPlan
  <2>1. Sound(tx.plan)
    BY <1>1 DEF JournalInv, Forward
  <2> QED
    BY <2>1, <1>0, SoundIsSome
<1>2. Ours' = Ours /\ Ours.digest = tx.plan /\ Waiting' = Waiting
      /\ (DigestCommitted(journal))' = DigestCommitted(journal)
  BY <1>0 DEF Ours, Waiting, DigestCommitted, Touches, Written, Sources
<1>h. ASSUME queue # <<>>
      PROVE  /\ Head(queue) = queue[1] /\ 1 \in DOMAIN queue /\ DOMAIN queue = 1..Len(queue)
             /\ Len(Tail(queue)) = Len(queue) - 1 /\ DOMAIN Tail(queue) = 1..(Len(queue) - 1)
             /\ \A i \in 1..(Len(queue) - 1) : Tail(queue)[i] = queue[i + 1]
             /\ Len(queue) = 1 => Tail(queue) = <<>>
             /\ Len(queue) > 1 => Tail(queue) # <<>>
  <2>1. /\ Head(queue) = queue[1] /\ 1 \in DOMAIN queue /\ DOMAIN queue = 1..Len(queue)
        /\ Len(Tail(queue)) = Len(queue) - 1 /\ DOMAIN Tail(queue) = 1..(Len(queue) - 1)
        /\ \A i \in 1..(Len(queue) - 1) : Tail(queue)[i] = queue[i + 1]
    BY <1>0, <1>h
  <2>2. Tail(queue) \in Seq(Reqs)
    BY <1>0, <1>h
  <2>3. Len(queue) = 1 => Tail(queue) = <<>>
    BY <2>1, <2>2
  <2>4. Len(queue) > 1 => Tail(queue) # <<>>
    BY <2>1
  <2> QED
    BY <2>1, <2>3, <2>4
<1> HIDE DEF Ours
<1>3. ASSUME ~(tx.pc \in {"wait", "landed", "cleanup"} /\ ~Waiting)
      PROVE  RequestInv' <=>
               /\ Waiting => (OursIsLast \/ OursIsNext \/ OursIsTaken)'
               /\ tx.pc \notin {"wait", "landed", "cleanup"} =>
                    ((\A i \in DOMAIN queue : Plain(queue[i])) /\ Plain(work.req) /\ work.next = NoReq)'
  BY <1>0, <1>2, <1>3 DEF RequestInv
<1>4. ASSUME tx.pc \in {"wait", "landed", "cleanup"} /\ ~Waiting
      PROVE  FALSE
  <2>1. queue = <<>> /\ ~timer /\ work.pc = "idle"
    BY <1>4, PlainNoReq DEF RequestInv, LoopIsIdle
  <2> QED
    BY <2>1 DEF TakeRequest, TakeRecorded, Flush, Stage
<1>5. ASSUME TakeRequest PROVE RequestInv'
  <2>1. /\ work.pc = "idle" /\ queue # <<>> /\ queue[1].digest = NoPlan /\ queue' = Tail(queue) /\ UNCHANGED work
    BY <1>5, <1>h DEF TakeRequest
  <2>2. ASSUME Waiting PROVE OursIsLast'
    <3>1. OursIsLast /\ tx.pc = "wait"
      BY <2>1, <2>2 DEF RequestInv, OursIsNext, OursIsTaken, Waiting
    <3>2. Len(queue) # 1
      BY <1>1, <1>2, <2>1, <3>1 DEF OursIsLast
    <3>3. Len(queue) > 1
      BY <1>0, <1>h, <2>1, <3>2
    <3>4. queue' # <<>> /\ queue'[Len(queue')] = Ours
      BY <1>0, <1>h, <2>1, <3>1, <3>3 DEF OursIsLast
    <3>5. \A i \in DOMAIN queue' : i # Len(queue') => Plain(queue'[i])
      BY <1>0, <1>h, <2>1, <3>1, <3>3 DEF OursIsLast
    <3> QED
      BY <1>2, <2>1, <3>1, <3>4, <3>5 DEF OursIsLast, Plain
  <2>3. ASSUME tx.pc \notin {"wait", "landed", "cleanup"}
        PROVE  ((\A i \in DOMAIN queue : Plain(queue[i])) /\ Plain(work.req) /\ work.next = NoReq)'
    <3>1. (\A i \in DOMAIN queue : Plain(queue[i])) /\ Plain(work.req) /\ work.next = NoReq
      BY <2>3 DEF RequestInv
    <3>2. \A i \in DOMAIN queue' : Plain(queue'[i])
      BY <1>0, <1>h, <2>1, <3>1
    <3> QED
      BY <2>1, <3>1, <3>2 DEF Plain
  <2> QED
    BY <1>3, <1>4, <2>2, <2>3
<1>6. ASSUME TakeRecorded PROVE RequestInv'
  <2>1. /\ work.pc = "idle" /\ queue # <<>> /\ queue[1].digest # NoPlan /\ queue' = Tail(queue) /\ ~timer'
        /\ \/ work' = [IdleWork EXCEPT !.pc = "stage", !.req = queue[1]]
           \/ work' = FlushThen(queue[1])
    BY <1>6, <1>h DEF TakeRecorded
  <2>2. ASSUME Waiting PROVE (OursIsTaken \/ OursIsNext)'
    <3>1. OursIsLast
      BY <2>1, <2>2 DEF RequestInv, OursIsNext, OursIsTaken
    <3>2. Len(queue) = 1
      BY <1>h, <2>1, <3>1 DEF OursIsLast, Plain
    <3>3. queue' = <<>> /\ queue[1] = Ours
      BY <1>h, <2>1, <3>1, <3>2 DEF OursIsLast
    <3>4. CASE work' = [IdleWork EXCEPT !.pc = "stage", !.req = Ours]
      <4>1. work'.pc = "stage" /\ work'.req = Ours /\ work'.next = NoReq
        BY <3>4 DEF IdleWork
      <4> QED
        BY <1>2, <2>1, <3>3, <4>1 DEF OursIsTaken
    <3>5. CASE work' = FlushThen(Ours)
      BY <1>2, <2>1, <3>3, <3>5, PlainNoReq DEF OursIsNext, Plain
    <3> QED
      BY <2>1, <3>3, <3>4, <3>5
  <2>3. tx.pc \in {"wait", "landed", "cleanup"}
    BY <1>h, <2>1 DEF RequestInv, Plain
  <2> QED
    BY <1>3, <1>4, <2>2, <2>3
<1>7. ASSUME Flush PROVE RequestInv'
  <2>1. work.pc = "idle" /\ (timer \/ queue # <<>>) /\ work' = FlushThen(NoReq) /\ UNCHANGED queue
    BY <1>7 DEF Flush
  <2>2. ASSUME Waiting PROVE OursIsLast'
    <3>1. OursIsLast
      BY <2>1, <2>2 DEF RequestInv, OursIsNext, OursIsTaken
    <3> QED
      BY <1>2, <2>1, <3>1, PlainNoReq DEF OursIsLast, Plain
  <2>3. ASSUME tx.pc \notin {"wait", "landed", "cleanup"}
        PROVE  ((\A i \in DOMAIN queue : Plain(queue[i])) /\ Plain(work.req) /\ work.next = NoReq)'
    BY <2>1, <2>3, PlainNoReq DEF RequestInv, Plain
  <2> QED
    BY <1>3, <1>4, <2>2, <2>3
<1>8. ASSUME Stage PROVE RequestInv'
  <2>1. work.pc = "stage" /\ work'.pc = "commit" /\ work'.req = work.req /\ work'.next = work.next /\ UNCHANGED <<queue, timer>>
    BY <1>0, <1>8 DEF Stage, Works
  <2>2. ASSUME Waiting PROVE (OursIsLast \/ OursIsNext \/ OursIsTaken)'
    BY <1>2, <2>1, <2>2 DEF RequestInv, OursIsLast, OursIsNext, OursIsTaken, Plain
  <2>3. ASSUME tx.pc \notin {"wait", "landed", "cleanup"}
        PROVE  ((\A i \in DOMAIN queue : Plain(queue[i])) /\ Plain(work.req) /\ work.next = NoReq)'
    BY <2>1, <2>3 DEF RequestInv, Plain
  <2> QED
    BY <1>3, <1>4, <2>2, <2>3
<1> QED
  BY <1>5, <1>6, <1>7, <1>8

(* The end of a flush or a recorded commit.                                *)
LEMMA RequestDone ==
  ASSUME TypeOK, JournalInv, RequestInv, NothingToCommit \/ Commit \/ CommitFails
  PROVE  RequestInv' /\ work'.pc \in {"idle", "stage"} /\ (work'.pc = "idle" => work' = IdleWork)
<1> USE DEF files, git, loop
<1>0. tx \in Calls /\ queue \in Seq(Reqs) /\ work \in Works /\ tx.plan \in Plans /\ work.pc = "commit"
  BY DEF TypeOK, Calls, NothingToCommit, Commit, CommitFails
<1>1. PICK ok \in BOOLEAN :
        /\ Done(ok)
        /\ UNCHANGED <<queue, timer, journal>>
        /\ \/ tip' = tip
           \/ ok /\ tip'.digest = work.req.digest
  <2> DEFINE D(ok) ==
        /\ Done(ok)
        /\ UNCHANGED <<queue, timer, journal>>
        /\ \/ tip' = tip
           \/ ok /\ tip'.digest = work.req.digest
  <2>1. \A ok : Done(ok) => UNCHANGED <<queue, timer, journal>>
    BY DEF Done
  <2>2. NothingToCommit => D(TRUE)
    BY <2>1 DEF NothingToCommit
  <2>3. Commit => D(TRUE)
    <3>1. Commit => Done(TRUE)
      BY DEF Commit
    <3>2. Commit => tip' = [id |-> tip.id + 1, digest |-> work.req.digest]
      BY DEF Commit
    <3>3. Commit => tip'.digest = work.req.digest
      BY <3>2
    <3> QED
      BY <2>1, <3>1, <3>3
  <2>4. CommitFails => D(FALSE)
    BY <2>1 DEF CommitFails
  <2> QED
    BY <2>2, <2>3, <2>4
<1>2. /\ tx'.pc = tx.pc /\ tx'.plan = tx.plan
      /\ tx'.answer = IF work.req.heard THEN IF ok THEN "ok" ELSE "failed" ELSE tx.answer
  BY <1>1, CallFields
<1>3. /\ work.next = NoReq => work' = IdleWork
      /\ work.next.paths # {} => work'.pc = "stage" /\ work'.req = work.next /\ work'.next = NoReq
      /\ work'.pc \in {"idle", "stage"} /\ (work'.pc = "idle" => work' = IdleWork)
  BY <1>1, PlainNoReq DEF Done
<1>4. Ours' = Ours /\ Ours.digest = tx.plan /\ Ours.paths # {} /\ Ours.heard
  BY <1>0, <1>2, PlanTypes DEF Ours, Touches, Written, Sources
<1>5. ~LoopIsIdle
  BY <1>0, PlainNoReq DEF LoopIsIdle
<1>6. Plain(work.req) /\ ~DigestCommitted(journal) /\ tx.pc \in {"apply", "wait", "rollback"}
        => ~(DigestCommitted(journal))'
  <2> SUFFICES ASSUME Plain(work.req), ~DigestCommitted(journal), tx.pc \in {"apply", "wait", "rollback"}
               PROVE  ~(DigestCommitted(journal))'
    OBVIOUS
  <2>1. Sound(journal.plan) /\ journal.plan \in Plans
    BY DEF JournalInv, TypeOK, Journals
  <2>2. journal.plan # NoPlan
    BY <2>1, SoundIsSome
  <2> QED
    BY <1>1, <2>2 DEF Plain, DigestCommitted
<1> HIDE DEF Ours, Done
<1>7. CASE Waiting /\ OursIsLast
  <2>1. tx'.answer = "none" /\ work' = IdleWork
    BY <1>2, <1>3, <1>7 DEF OursIsLast, Plain, Waiting
  <2>2. OursIsLast'
    BY <1>1, <1>4, <1>7, <2>1, PlainNoReq DEF OursIsLast, Plain
  <2>3. ~(DigestCommitted(journal))'
    BY <1>6, <1>7 DEF OursIsLast, RequestInv, Waiting
  <2>4. Waiting' /\ tx'.pc = "wait"
    BY <1>2, <1>7, <2>1 DEF Waiting
  <2> QED
    BY <1>3, <2>1, <2>2, <2>3, <2>4 DEF RequestInv
<1>8. CASE Waiting /\ OursIsNext
  <2>1. tx'.answer = "none" /\ work'.pc = "stage" /\ work'.req = Ours /\ work'.next = NoReq
    BY <1>2, <1>3, <1>4, <1>8 DEF OursIsNext, Plain, Waiting
  <2>2. OursIsTaken'
    BY <1>1, <1>4, <1>8, <2>1 DEF OursIsNext, OursIsTaken
  <2>3. ~(DigestCommitted(journal))'
    BY <1>6, <1>8 DEF OursIsNext, RequestInv, Waiting
  <2>4. Waiting' /\ tx'.pc = "wait"
    BY <1>2, <1>8, <2>1 DEF Waiting
  <2> QED
    BY <1>3, <2>1, <2>2, <2>3, <2>4 DEF RequestInv
<1>9. CASE Waiting /\ OursIsTaken
  <2>1. tx'.answer = (IF ok THEN "ok" ELSE "failed") /\ work' = IdleWork /\ tx'.pc = "wait"
    BY <1>2, <1>3, <1>4, <1>9 DEF OursIsTaken, Waiting
  <2>2. LoopIsIdle' /\ ~Waiting'
    BY <1>1, <1>9, <2>1 DEF OursIsTaken, LoopIsIdle, Waiting
  <2>3. tx'.answer # "ok" => ~(DigestCommitted(journal))'
    BY <1>1, <1>9, <2>1 DEF RequestInv, Waiting, DigestCommitted
  <2> QED
    BY <1>3, <2>1, <2>2, <2>3 DEF RequestInv
<1>10. CASE tx.pc \notin {"wait", "landed", "cleanup"}
  <2>1. (\A i \in DOMAIN queue : Plain(queue[i])) /\ Plain(work.req) /\ work.next = NoReq /\ tx.answer = "none"
    BY <1>10 DEF RequestInv
  <2>2. tx'.answer = "none" /\ work' = IdleWork
    BY <1>2, <1>3, <2>1 DEF Plain
  <2>3. tx.pc \in {"apply", "rollback"} => ~(DigestCommitted(journal))'
    BY <1>6, <2>1 DEF RequestInv
  <2> QED
    BY <1>1, <1>2, <1>3, <1>10, <2>1, <2>2, <2>3, PlainNoReq DEF RequestInv, Waiting, Plain
<1> QED
  BY <1>5, <1>7, <1>8, <1>9, <1>10 DEF RequestInv, Waiting

(* Other writers only add requests without a digest, and a crash drops     *)
(* them all.                                                               *)
LEMMA RequestOther ==
  ASSUME TypeOK, RequestInv,
         \/ UNCHANGED vars \/ Review \/ Crash \/ Restart
         \/ \E pinned \in BOOLEAN : StartRefactor(pinned)
         \/ \E p \in Pages : WritePage(p)
         \/ \E q \in {From, To} : AddComment(q)
  PROVE  RequestInv'
<1> USE DEF files, git, loop
<1>0. tx \in Calls /\ queue \in Seq(Reqs)
  BY DEF TypeOK
<1>1. ASSUME UNCHANGED <<tx, queue, work, timer, tip, journal>>
      PROVE  RequestInv'
  BY <1>1 DEF RequestInv, Waiting, OursIsLast, OursIsNext, OursIsTaken, LoopIsIdle, Ours, Plain,
              DigestCommitted, Touches, Written, Sources
<1>2. ASSUME UNCHANGED vars \/ Review \/ (\E q \in {From, To} : AddComment(q))
      PROVE  RequestInv'
  <2>1. UNCHANGED <<tx, queue, work, timer, tip, journal>>
    BY <1>2 DEF vars, Review, AddComment
  <2> QED
    BY <1>1, <2>1
<1>3. ASSUME NEW pinned \in BOOLEAN, StartRefactor(pinned) PROVE RequestInv'
  <2>1. tx.pc = "idle" /\ tx'.pc = "lock" /\ tx'.answer = "none" /\ UNCHANGED <<queue, work>>
    BY <1>3 DEF StartRefactor, IdleTx
  <2> QED
    BY <2>1 DEF RequestInv, Waiting, Plain
<1>4. ASSUME NEW p \in Pages, WritePage(p) PROVE RequestInv'
  <2>1. /\ tx.pc \in {"idle", "lock"} /\ UNCHANGED <<tx, work>>
        /\ queue' = Append(queue, [NoReq EXCEPT !.paths = {p}])
    BY <1>4 DEF WritePage, LockFree
  <2>2. (\A i \in DOMAIN queue : Plain(queue[i])) /\ Plain(work.req) /\ work.next = NoReq /\ tx.answer = "none"
    BY <2>1 DEF RequestInv
  <2>3. Plain([NoReq EXCEPT !.paths = {p}])
    BY PlainNoReq
  <2>4. \A i \in DOMAIN queue' : queue'[i] = [NoReq EXCEPT !.paths = {p}] \/ (i \in DOMAIN queue /\ queue'[i] = queue[i])
    BY <1>0, <2>1
  <2>5. \A i \in DOMAIN queue' : Plain(queue'[i])
    BY <2>2, <2>3, <2>4
  <2> QED
    BY <2>1, <2>2, <2>5 DEF RequestInv, Waiting, Plain
<1>5. ASSUME Crash PROVE RequestInv'
  <2>1. tx'.pc = "down" /\ tx'.answer = "none" /\ queue' = <<>> /\ work' = IdleWork
    BY <1>5 DEF Crash, IdleTx
  <2> QED
    BY <2>1, PlainNoReq DEF RequestInv, Waiting, Plain
<1>6. ASSUME Restart PROVE RequestInv'
  <2>1. tx.pc = "down" /\ tx'.pc = "recover" /\ tx'.answer = tx.answer /\ UNCHANGED <<queue, work>>
    BY <1>0, <1>6 DEF Restart, Calls
  <2> QED
    BY <2>1 DEF RequestInv, Waiting, Plain
<1> QED
  BY <1>2, <1>3, <1>4, <1>5, <1>6

(* Which steps the loop takes while the process is down or recovers.       *)
LEMMA IdleLoopStops ==
  ASSUME LoopIsIdle, batch = {}
  PROVE  ~Loop
<1>1. queue = <<>> /\ ~timer /\ work.pc = "idle"
  BY PlainNoReq DEF LoopIsIdle
<1> QED
  BY <1>1 DEF Loop, TakeRequest, TakeRecorded, Flush, Stage, NothingToCommit, Commit, CommitFails

(* Only a crash takes the process down, and recovery leaves the loop alone. *)
LEMMA DownMoves ==
  ASSUME TypeOK, [Next]_vars, tx'.pc \in {"down", "recover"}
  PROVE  Crash \/ (tx.pc \in {"down", "recover"} /\ (Loop \/ UNCHANGED loop))
<1> USE DEF files, git, loop
<1>0. tx \in Calls
  BY DEF TypeOK
<1> DEFINE Stays == tx.pc \in {"down", "recover"} /\ (Loop \/ UNCHANGED loop)
<1>3. CASE Loop
  BY <1>3, CallFields DEF Loop, TakeRequest, TakeRecorded, Flush, Stage, NothingToCommit, Commit, CommitFails
<1>4. CASE UNCHANGED vars \/ Restart \/ (\E q \in {From, To} : AddComment(q))
  BY <1>4 DEF vars, Restart, AddComment
<1>5. CASE RestoreStep
  BY <1>0, <1>5 DEF RestoreStep, Calls
<1>6. CASE Review \/ (\E p \in Pages : WritePage(p))
  BY <1>6 DEF Review, WritePage, LockFree
<1>7. CASE \E pinned \in BOOLEAN : StartRefactor(pinned)
  BY <1>7 DEF StartRefactor, IdleTx
<1>8. CASE Cleanup \/ RollbackEnds \/ RecoverEnds \/ BeginFails
  BY <1>8 DEF Cleanup, RollbackEnds, RecoverEnds, BeginFails, IdleTx
<1>9. CASE ApplyFails \/ SendCancelled \/ WaitCancelled
  BY <1>9, CallFields DEF ApplyFails, SendCancelled, WaitCancelled
<1>10. CASE Begin \/ ApplyStep \/ SendCommit \/ MarkCommitted
  BY <1>0, <1>10 DEF Begin, ApplyStep, SendCommit, MarkCommitted, Calls
<1>11. CASE CommitReturns
  BY <1>0, <1>11, CallFields DEF CommitReturns, Calls
<1>12. CASE Stale
  <2>1. tx' = IdleTx \/ tx' = [tx EXCEPT !.plan = PlanNow, !.attempt = @ + 1]
    BY <1>12 DEF Stale
  <2> HIDE DEF PlanNow
  <2> QED
    BY <1>0, <1>12, <2>1 DEF Stale, IdleTx, Calls
<1> QED
  BY <1>3, <1>4, <1>5, <1>6, <1>7, <1>8, <1>9, <1>10, <1>11, <1>12 DEF Next, Apply

(* Every step keeps track of the request.                                  *)
LEMMA LoopStep ==
  ASSUME TypeOK, JournalInv, LoopInv, [Next]_vars
  PROVE  LoopInv'
<1> USE DEF files, git, loop
<1>0. tx \in Calls /\ work \in Works /\ used \in Usages
  BY DEF TypeOK
<1>1. ASSUME work'.pc = "idle" PROVE work' = IdleWork
  <2>0. work.pc = "idle" => work = IdleWork
    BY DEF LoopInv
  <2>1. CASE UNCHANGED work
    BY <1>1, <2>0, <2>1
  <2>2. CASE NothingToCommit \/ Commit \/ CommitFails
    BY <1>1, <2>2, PlainNoReq DEF NothingToCommit, Commit, CommitFails, Done
  <2>3. CASE WaitCancelled
    <3>1. work' = [work EXCEPT !.req = Unheard(@), !.next = Unheard(@)]
      BY <2>3 DEF WaitCancelled
    <3> HIDE DEF Unheard
    <3>2. work.pc = "idle" /\ work'.req = Unheard(work.req) /\ work'.next = Unheard(work.next)
      BY <1>0, <1>1, <3>1 DEF Works
    <3>3. work = IdleWork
      BY <2>0, <3>2
    <3>4. Unheard(NoReq) = NoReq
      <4>1. NoReq \in Reqs /\ ~NoReq.heard
        BY ConstantTypes DEF NoReq
      <4> QED
        BY <4>1 DEF Unheard, Reqs
    <3> QED
      BY <3>1, <3>3, <3>4 DEF IdleWork
  <2>4. CASE Crash
    BY <2>4 DEF Crash
  <2>5. CASE TakeRecorded \/ Flush \/ Stage
    <3>1. work'.pc # "idle"
      BY <1>0, <2>5, PlainNoReq DEF TakeRecorded, Flush, Stage, Works, IdleWork, FlushThen
    <3> QED
      BY <1>1, <3>1
  <2> QED
    BY <2>1, <2>2, <2>3, <2>4, <2>5
    DEF Next, Apply, Loop, vars, Review, StartRefactor, WritePage, AddComment, Restart, TakeRequest,
        Begin, Stale, BeginFails, ApplyStep, ApplyFails, SendCommit, SendCancelled, CommitReturns,
        MarkCommitted, Cleanup, RestoreStep, RollbackEnds, RecoverEnds
<1>2. ASSUME tx'.pc \in {"down", "recover"}
      PROVE  LoopIsIdle' /\ batch' = {}
  <2>1. CASE Crash
    BY <2>1, PlainNoReq DEF Crash, LoopIsIdle
  <2>2. CASE tx.pc \in {"down", "recover"} /\ (Loop \/ UNCHANGED loop)
    <3>1. LoopIsIdle /\ batch = {}
      BY <2>2 DEF LoopInv
    <3>2. UNCHANGED loop
      BY <2>2, <3>1, IdleLoopStops
    <3> QED
      BY <3>1, <3>2 DEF LoopIsIdle
  <2> QED
    BY <1>2, <2>1, <2>2, DownMoves
<1>3. ASSUME ~CancelInCommit \/ used'.cancels = 0
      PROVE  RequestInv'
  <2>1. (~CancelInCommit \/ used.cancels = 0) /\ ~WaitCancelled
    BY <1>3, CancelsGrow
  <2>2. RequestInv /\ (work.pc = "idle" => work = IdleWork)
    BY <2>1 DEF LoopInv
  <2> QED
    BY <2>1, <2>2, RequestApply, RequestTake, RequestDone, RequestOther DEF Next, Loop
<1>4. ASSUME MaxCrashes = 0
      PROVE  tx'.pc \notin {"down", "recover"}
  <2>1. tx.pc \notin {"down", "recover"}
    BY <1>4 DEF LoopInv
  <2>2. used.crashes \in Nat
    BY <1>0 DEF Usages
  <2>3. ~Crash
    BY <1>4, <2>2 DEF Crash
  <2> QED
    BY <2>1, <2>3, DownMoves
<1> QED
  BY <1>1, <1>2, <1>3, <1>4 DEF LoopInv

-----------------------------------------------------------------------------
(* Every file is where the phase of the restructuring says.                *)

(* No file is under a journal at first.                                    *)
LEMMA InitFiles == Init => FilesInv
<1> SUFFICES ASSUME Init PROVE FilesInv
  OBVIOUS
<1>1. tx.pc = "idle" /\ journal.state = "none"
  BY DEF Init, IdleTx, NoJournal
<1> QED
  BY <1>1 DEF FilesInv, ForwardInv, RollbackInv, RecoverInv, Forward

(* Without a journal nothing is said of the files.                         *)
LEMMA NoJournalNoFiles ==
  ASSUME journal'.state = "none", tx'.pc \in {"idle", "lock"}
  PROVE  FilesInv'
  BY DEF FilesInv, ForwardInv, RollbackInv, RecoverInv, Forward

(* A step sets its file, and no other.                                     *)
LEMMA ExecuteDoes ==
  ASSUME TypeOK, NEW s \in FileSteps, Execute(s), NEW plan \in Plans, Target(s) \in Aims(plan)
  PROVE  /\ \A t \in Aims(plan) : Now(t)' = IF t = Target(s) THEN Val(s) ELSE Now(t)
         /\ \A p \in Pages \ Touches(plan) : disk'[p] = disk[p]
<1>1. disk \in [Pages -> Content] /\ comments \in [{From, To} -> SUBSET Nat]
  BY DEF TypeOK
<1>2. Touches(plan) \subseteq Pages /\ From \in Pages /\ To \in Pages
  BY PlanTypes
<1>3. CASE s.kind = "page"
  <2>1. disk' = [disk EXCEPT ![s.at] = s.page] /\ comments' = comments /\ Val(s) = s.page
        /\ Target(s) = <<"page", s.at>>
    BY <1>3 DEF Execute, Val, Target
  <2>2. s.at \in Touches(plan)
    BY <2>1 DEF Aims
  <2>3. \A p \in Pages : disk'[p] = IF p = s.at THEN s.page ELSE disk[p]
    BY <1>1, <2>1
  <2>4. ASSUME NEW t \in Aims(plan)
        PROVE  Now(t)' = IF t = Target(s) THEN Val(s) ELSE Now(t)
    <3>1. CASE t \in {"page"} \X Touches(plan)
      <4>1. PICK p \in Touches(plan) : t = <<"page", p>>
        BY <3>1
      <4> QED
        BY <1>2, <2>1, <2>3, <4>1 DEF Now
    <3>2. CASE t \in {"side"} \X {From, To}
      <4>1. t[1] = "side" /\ t # Target(s)
        BY <2>1, <3>2
      <4> QED
        BY <2>1, <4>1 DEF Now
    <3> QED
      BY <3>1, <3>2 DEF Aims
  <2> QED
    BY <2>2, <2>3, <2>4
<1>4. CASE s.kind # "page"
  <2>1. comments' = [comments EXCEPT ![s.at] = s.ids] /\ disk' = disk /\ Val(s) = s.ids
        /\ Target(s) = <<"side", s.at>>
    BY <1>4 DEF Execute, Val, Target, FileSteps
  <2>2. s.at \in {From, To}
    BY <2>1 DEF Aims
  <2>3. \A q \in {From, To} : comments'[q] = IF q = s.at THEN s.ids ELSE comments[q]
    BY <1>1, <2>1
  <2>4. ASSUME NEW t \in Aims(plan)
        PROVE  Now(t)' = IF t = Target(s) THEN Val(s) ELSE Now(t)
    <3>1. CASE t \in {"page"} \X Touches(plan)
      <4>1. t[1] = "page" /\ t # Target(s)
        BY <2>1, <3>1
      <4> QED
        BY <2>1, <4>1 DEF Now
    <3>2. CASE t \in {"side"} \X {From, To}
      <4>1. PICK q \in {From, To} : t = <<"side", q>>
        BY <3>2
      <4> QED
        BY <2>1, <2>3, <4>1 DEF Now
    <3> QED
      BY <3>1, <3>2 DEF Aims
  <2> QED
    BY <2>1, <2>4
<1> QED
  BY <1>3, <1>4

(* A rollback starts with every file it touched still to be put back.      *)
LEMMA UndoFiles ==
  ASSUME TypeOK, FilesInv, JournalInv, NEW touched,
         tx.pc \in {"apply", "wait"}, tx' = Undo(touched), UNCHANGED <<journal, raced>>,
         \A p \in Pages \ Touches(journal.plan) : disk'[p] = disk[p],
         \A t \in Aims(journal.plan) : t \notin touched => t \notin tx.touched /\ Now(t)' = Now(t)
  PROVE  FilesInv'
<1>1. /\ tx'.pc = "rollback" /\ tx'.touched = touched /\ tx'.todo = Restores(journal)
  BY CallFields
<1>2. /\ PutsBack(Restores(journal), journal)
      /\ \A t \in Aims(journal.plan) : Pending(Restores(journal), t)
  BY RestoresDo DEF TypeOK
<1>3. /\ journal.state = "applying"
      /\ \A p \in Pages \ Touches(journal.plan) : disk[p] = journal.pages[p]
      /\ \A t \in Aims(journal.plan) : Counts(t) /\ t \notin tx.touched => Now(t) = Before(journal, t)
  BY DEF JournalInv, FilesInv, ForwardInv, Forward
<1>4. ASSUME NEW t \in Aims(journal.plan), Counts(t)', t \notin touched
      PROVE  Now(t)' = Before(journal, t)
  BY <1>3, <1>4 DEF Counts
<1> HIDE DEF Restores
<1>5. RollbackInv'
  BY <1>1, <1>2, <1>4 DEF RollbackInv
<1>6. \A p \in Pages \ Touches(journal.plan) : disk'[p] = journal.pages[p]
  BY <1>3
<1> QED
  BY <1>1, <1>2, <1>5, <1>6 DEF FilesInv, ForwardInv, RecoverInv, Forward

(* One step per action of the restructuring.                               *)
LEMMA FilesApply ==
  ASSUME TypeOK, JournalInv, FilesInv, Apply
  PROVE  FilesInv'
<1> USE DEF files, git, loop
<1>0. tx \in Calls /\ journal \in Journals /\ journal.plan \in Plans /\ tx.todo \in Seq(FileSteps)
  BY DEF TypeOK, Journals, Calls
<1>1. ASSUME Begin PROVE FilesInv'
  <2> DEFINE plan == tx.plan
  <2>1. /\ tx'.pc = "apply" /\ tx'.todo = Steps(plan) /\ UNCHANGED <<disk, comments, raced>>
        /\ journal'.plan = plan /\ journal'.pages = disk /\ journal'.side = comments
        /\ plan \in Plans
    BY <1>0, <1>1 DEF Begin, Calls
  <2>2. Writes(Steps(plan), plan) /\ \A t \in Aims(plan) : Pending(Steps(plan), t)
    BY <2>1, StepsDo
  <2> HIDE DEF Steps, plan
  <2>3. \A t \in Aims(plan) : Now(t)' = Before(journal', t)
    BY <2>1 DEF Now, Before
  <2>4. ForwardInv'
    BY <2>1, <2>2, <2>3 DEF ForwardInv
  <2> QED
    BY <2>1, <2>4 DEF FilesInv, RollbackInv, RecoverInv
<1>2. ASSUME Stale \/ BeginFails PROVE FilesInv'
  <2>1. tx.pc = "lock" /\ journal' = journal
    BY <1>2 DEF Stale, BeginFails
  <2>2. journal'.state = "none"
    BY <2>1 DEF JournalInv, NoJournal
  <2>3. tx' = IdleTx \/ tx' = [tx EXCEPT !.plan = PlanNow, !.attempt = @ + 1]
    BY <1>2 DEF Stale, BeginFails
  <2> HIDE DEF PlanNow
  <2>4. IdleTx.pc = "idle"
    BY DEF IdleTx
  <2>5. tx'.pc \in {"idle", "lock"}
    BY <1>0, <2>1, <2>3, <2>4 DEF Calls
  <2> QED
    BY <2>2, <2>5, NoJournalNoFiles
<1>3. ASSUME Cleanup \/ RollbackEnds \/ RecoverEnds PROVE FilesInv'
  BY <1>3, NoJournalNoFiles DEF Cleanup, RollbackEnds, RecoverEnds, IdleTx, NoJournal
<1>4. ASSUME ApplyStep PROVE FilesInv'
  <2> DEFINE s == Head(tx.todo)
  <2>1. /\ tx.pc = "apply" /\ tx'.pc = "apply" /\ tx.todo # <<>> /\ tx'.todo = Tail(tx.todo)
        /\ tx'.touched = tx.touched \union {Target(s)} /\ UNCHANGED <<journal, raced>> /\ Execute(s)
    BY <1>0, <1>4 DEF ApplyStep, Calls
  <2>2. /\ s \in FileSteps /\ s = tx.todo[1] /\ 1 \in DOMAIN tx.todo
        /\ \A i \in DOMAIN Tail(tx.todo) : \E k \in DOMAIN tx.todo : Tail(tx.todo)[i] = tx.todo[k]
        /\ \A t : Pending(tx.todo, t) => t = Target(s) \/ Pending(Tail(tx.todo), t)
    BY <1>0, <2>1, TailSteps
  <2>3. /\ Writes(tx.todo, journal.plan)
        /\ \A t \in Aims(journal.plan) : Counts(t) =>
             /\ Pending(tx.todo, t) \/ Now(t) = Wanted(journal.plan, t)
             /\ t \notin tx.touched => Now(t) = Before(journal, t)
    BY <2>1 DEF FilesInv, ForwardInv, Forward
  <2> HIDE DEF s
  <2>4. Target(s) \in Aims(journal.plan) /\ Val(s) = Wanted(journal.plan, Target(s))
    BY <2>2, <2>3 DEF Writes
  <2>5. Writes(Tail(tx.todo), journal.plan)
    BY <2>2, <2>3 DEF Writes
  <2>6. /\ \A t \in Aims(journal.plan) : Now(t)' = IF t = Target(s) THEN Val(s) ELSE Now(t)
        /\ \A p \in Pages \ Touches(journal.plan) : disk'[p] = disk[p]
    BY <1>0, <2>1, <2>2, <2>4, ExecuteDoes
  <2>7. ASSUME NEW t \in Aims(journal.plan), Counts(t)'
        PROVE  /\ Pending(Tail(tx.todo), t) \/ Now(t)' = Wanted(journal.plan, t)
               /\ t \notin tx'.touched => Now(t)' = Before(journal, t)
    <3>1. Counts(t)
      BY <2>1, <2>7 DEF Counts
    <3> QED
      BY <2>1, <2>2, <2>3, <2>4, <2>6, <3>1
  <2>8. ForwardInv'
    BY <2>1, <2>5, <2>7 DEF ForwardInv
  <2> QED
    BY <2>1, <2>6, <2>8 DEF FilesInv, RollbackInv, RecoverInv
<1>5. ASSUME ApplyFails PROVE FilesInv'
  <2> DEFINE s == Head(tx.todo)
             touched == tx.touched \union {Target(s)}
  <2>1. /\ tx.pc = "apply" /\ tx.todo # <<>> /\ tx' = Undo(touched) /\ UNCHANGED <<journal, raced>>
        /\ Execute(s) \/ UNCHANGED <<disk, comments>>
    BY <1>5 DEF ApplyFails
  <2>2. s \in FileSteps /\ s = tx.todo[1] /\ 1 \in DOMAIN tx.todo
    BY <1>0, <2>1, TailSteps
  <2>3. Writes(tx.todo, journal.plan)
    BY <2>1 DEF FilesInv, ForwardInv, Forward
  <2> HIDE DEF s
  <2>4. Target(s) \in Aims(journal.plan)
    BY <2>2, <2>3 DEF Writes
  <2>5. /\ \A t \in Aims(journal.plan) : t # Target(s) => Now(t)' = Now(t)
        /\ \A p \in Pages \ Touches(journal.plan) : disk'[p] = disk[p]
    <3>1. CASE Execute(s)
      BY <1>0, <2>2, <2>4, <3>1, ExecuteDoes
    <3>2. CASE UNCHANGED <<disk, comments>>
      BY <3>2 DEF Now
    <3> QED
      BY <2>1, <3>1, <3>2
  <2>6. \A t \in Aims(journal.plan) : t \notin touched => t \notin tx.touched /\ Now(t)' = Now(t)
    BY <2>5
  <2> HIDE DEF touched
  <2> QED
    BY <2>1, <2>5, <2>6, UndoFiles
<1>6. ASSUME SendCancelled \/ WaitCancelled \/ (CommitReturns /\ tx.answer # "ok")
      PROVE  FilesInv'
  <2>1. /\ tx.pc \in {"apply", "wait"} /\ tx' = Undo(tx.touched)
        /\ UNCHANGED <<journal, raced, disk, comments>>
    BY <1>6 DEF SendCancelled, WaitCancelled, CommitReturns
  <2> QED
    BY <2>1, UndoFiles DEF Now
<1>7. ASSUME SendCommit \/ MarkCommitted \/ (CommitReturns /\ tx.answer = "ok")
      PROVE  FilesInv'
  <2>1. /\ tx.pc \in Forward /\ tx'.pc \in Forward /\ tx'.todo = tx.todo
        /\ tx'.touched = tx.touched
    BY <1>0, <1>7 DEF SendCommit, MarkCommitted, CommitReturns, Forward, Calls
  <2>2. tx.todo = <<>>
    BY <1>7 DEF SendCommit, MarkCommitted, CommitReturns, FilesInv, ForwardInv, Forward
  <2>3. UNCHANGED <<disk, comments, raced>>
    BY <1>7 DEF SendCommit, MarkCommitted, CommitReturns
  <2>4. journal'.plan = journal.plan /\ journal'.pages = journal.pages /\ journal'.side = journal.side
    BY <1>0, <1>7 DEF SendCommit, MarkCommitted, CommitReturns, Journals
  <2>5. journal.state # "none"
    BY <2>1, <1>7 DEF SendCommit, MarkCommitted, CommitReturns, JournalInv, Forward
  <2>6. ForwardInv'
    BY <2>1, <2>2, <2>3, <2>4 DEF FilesInv, ForwardInv, Counts, Now, Before
  <2> QED
    BY <2>1, <2>3, <2>4, <2>5, <2>6 DEF FilesInv, RollbackInv, RecoverInv, Forward
<1>8. ASSUME RestoreStep PROVE FilesInv'
  <2> DEFINE s == Head(tx.todo)
  <2>1. /\ tx.pc \in {"rollback", "recover"} /\ tx'.pc = tx.pc /\ tx.todo # <<>> /\ tx'.todo = Tail(tx.todo)
        /\ tx'.touched = tx.touched /\ UNCHANGED <<journal, raced, tip>>
        /\ \/ Execute(s)
           \/ tx.pc = "rollback" /\ Target(s) \notin tx.touched /\ UNCHANGED <<disk, comments>>
    BY <1>0, <1>8 DEF RestoreStep, Calls
  <2>2. /\ s \in FileSteps /\ s = tx.todo[1] /\ 1 \in DOMAIN tx.todo
        /\ \A i \in DOMAIN Tail(tx.todo) : \E k \in DOMAIN tx.todo : Tail(tx.todo)[i] = tx.todo[k]
        /\ \A t : Pending(tx.todo, t) => t = Target(s) \/ Pending(Tail(tx.todo), t)
    BY <1>0, <2>1, TailSteps
  <2>3. PutsBack(tx.todo, journal)
    BY <2>1 DEF FilesInv
  <2> HIDE DEF s
  <2>4. Target(s) \in Aims(journal.plan) /\ Val(s) = Before(journal, Target(s))
    BY <2>2, <2>3 DEF PutsBack
  <2>5. PutsBack(Tail(tx.todo), journal)
    BY <2>2, <2>3 DEF PutsBack
  <2>6. /\ \A t \in Aims(journal.plan) : Execute(s) => Now(t)' = IF t = Target(s) THEN Val(s) ELSE Now(t)
        /\ \A t \in Aims(journal.plan) : ~Execute(s) => Now(t)' = Now(t)
        /\ \A p \in Pages \ Touches(journal.plan) : disk'[p] = disk[p]
    <3>1. CASE Execute(s)
      BY <1>0, <2>2, <2>4, <3>1, ExecuteDoes
    <3>2. CASE ~Execute(s)
      BY <2>1, <3>2 DEF Now
    <3> QED
      BY <3>1, <3>2
  <2> HIDE DEF Execute
  <2>7. RollbackInv'
    <3> SUFFICES ASSUME tx.pc = "rollback", NEW t \in Aims(journal.plan), Counts(t)
                 PROVE  /\ Pending(Tail(tx.todo), t) \/ Now(t)' = Before(journal, t)
                        /\ t \notin tx.touched => Now(t)' = Before(journal, t)
      BY <2>1 DEF RollbackInv, Counts
    <3>1. /\ Pending(tx.todo, t) \/ Now(t) = Before(journal, t)
          /\ t \notin tx.touched => Now(t) = Before(journal, t)
      BY DEF FilesInv, RollbackInv
    <3> QED
      BY <2>1, <2>2, <2>4, <2>6, <3>1
  <2>8. ASSUME Decidable PROVE RecoverInv'
    <3>1. tx.pc = "recover" => Unsettled /\ Unsettled'
      BY <2>1, <2>8 DEF FilesInv, RecoverInv, Unsettled, DigestCommitted
    <3> SUFFICES ASSUME tx.pc = "recover", NEW t \in Aims(journal.plan), Counts(t)
                 PROVE  Pending(Tail(tx.todo), t) \/ Now(t)' = Before(journal, t)
      BY <2>1, <3>1 DEF RecoverInv, Counts
    <3>2. Pending(tx.todo, t) \/ Now(t) = Before(journal, t)
      BY <2>8, <3>1 DEF FilesInv, RecoverInv
    <3> QED
      BY <2>1, <2>2, <2>4, <2>6, <3>2
  <2>9. journal.state # "none" => \A p \in Pages \ Touches(journal.plan) : disk'[p] = journal.pages[p]
    BY <2>6 DEF FilesInv
  <2> QED
    BY <2>1, <2>5, <2>7, <2>8, <2>9 DEF FilesInv, ForwardInv, Forward, Decidable
<1> QED
  BY <1>1, <1>2, <1>3, <1>4, <1>5, <1>6, <1>7, <1>8 DEF Apply

(* One step per action of everyone else: comments are let off, a crash     *)
(* finds a journal that tells what to do.                                  *)
LEMMA FilesOther ==
  ASSUME TypeOK, JournalInv, LoopInv, FilesInv, [Next]_vars, ~Apply
  PROVE  FilesInv'
<1> USE DEF files, git, loop
<1>0. tx \in Calls /\ journal \in Journals
  BY DEF TypeOK
<1>1. ASSUME UNCHANGED <<disk, comments, journal, tx, tip, raced>>
      PROVE  FilesInv'
  BY <1>1 DEF FilesInv, ForwardInv, RollbackInv, RecoverInv, Counts, Now, Unsettled, DigestCommitted
<1>2. ASSUME UNCHANGED vars \/ Review PROVE FilesInv'
  <2>1. UNCHANGED <<disk, comments, journal, tx, tip, raced>>
    BY <1>2 DEF vars, Review
  <2> QED
    BY <1>1, <2>1
<1>3. ASSUME \/ \E pinned \in BOOLEAN : StartRefactor(pinned)
             \/ \E p \in Pages : WritePage(p)
      PROVE  FilesInv'
  <2>1. tx.pc \in {"idle", "lock"} /\ journal' = journal /\ tx'.pc \in {"idle", "lock"}
    BY <1>3 DEF StartRefactor, WritePage, LockFree, IdleTx
  <2>2. journal'.state = "none"
    BY <2>1 DEF JournalInv, NoJournal
  <2> QED
    BY <2>1, <2>2, NoJournalNoFiles
<1>4. ASSUME NEW q \in {From, To}, AddComment(q) PROVE FilesInv'
  <2>1. /\ tx' = tx /\ UNCHANGED <<disk, journal, tip>> /\ tx.pc \notin {"down", "recover"}
        /\ raced' = (raced \/ tx.pc # "idle")
    BY <1>4 DEF AddComment, Serving
  <2>2. CASE tx.pc = "idle"
    BY <2>1, <2>2, NoJournalNoFiles DEF JournalInv, NoJournal
  <2>3. CASE tx.pc # "idle"
    <3>1. raced'
      BY <2>1, <2>3
    <3>2. ASSUME NEW t, Counts(t)'
          PROVE  Counts(t) /\ Now(t)' = Now(t)
      BY <2>1, <3>1, <3>2 DEF Counts, Now
    <3>3. ForwardInv'
      BY <2>1, <3>2 DEF FilesInv, ForwardInv
    <3>4. RollbackInv'
      BY <2>1, <3>2 DEF FilesInv, RollbackInv
    <3>5. RecoverInv'
      BY <2>1 DEF RecoverInv
    <3> QED
      BY <2>1, <3>3, <3>4, <3>5 DEF FilesInv
  <2> QED
    BY <2>2, <2>3
<1>5. ASSUME Loop PROVE FilesInv'
  <2>1. tx'.pc = tx.pc /\ tx'.todo = tx.todo /\ tx'.touched = tx.touched
    BY <1>5, CallFields DEF Loop, TakeRequest, TakeRecorded, Flush, Stage, NothingToCommit, Commit, CommitFails
  <2>2. UNCHANGED <<disk, comments, journal, raced>>
    BY <1>5 DEF Loop, TakeRequest, TakeRecorded, Flush, Stage, NothingToCommit, Commit, CommitFails, Done
  <2>3. tx.pc \notin {"down", "recover"}
    BY <1>5, IdleLoopStops DEF LoopInv
  <2>4. RecoverInv'
    BY <2>1, <2>3 DEF RecoverInv
  <2> QED
    BY <2>1, <2>2, <2>4 DEF FilesInv, ForwardInv, RollbackInv, Counts, Now
<1>6. ASSUME Crash PROVE FilesInv'
  <2>1. tx.pc # "down" /\ tx'.pc = "down" /\ UNCHANGED <<disk, comments, journal, tip, raced>>
    BY <1>6 DEF Crash, IdleTx
  <2>2. ASSUME Decidable, journal.state # "none", ~Unsettled, NEW t \in Aims(journal.plan), Counts(t)
        PROVE  Now(t) = Wanted(journal.plan, t)
    <3>1. RequestInv
      <4>1. used.crashes \in Nat
        BY DEF TypeOK, Usages
      <4>2. MaxCrashes # 0
        BY <1>6, <4>1, RefactorAssumption DEF Crash
      <4> QED
        BY <2>2, <4>2 DEF Decidable, LoopInv
    <3>2. tx.pc \notin {"idle", "lock"}
      BY <2>2 DEF JournalInv, NoJournal
    <3>3. tx.pc \notin {"apply", "rollback"}
      BY <2>2, <3>1 DEF JournalInv, RequestInv, Unsettled
    <3>4. CASE tx.pc \in {"wait", "landed", "cleanup"}
      <4>1. tx.todo = <<>> /\ (Pending(tx.todo, t) \/ Now(t) = Wanted(journal.plan, t))
        BY <2>2, <3>4 DEF FilesInv, ForwardInv, Forward
      <4> QED
        BY <4>1 DEF Pending
    <3>5. CASE tx.pc \in {"down", "recover"}
      BY <2>2, <3>5 DEF FilesInv, RecoverInv
    <3> QED
      BY <1>0, <3>2, <3>3, <3>4, <3>5 DEF Calls
  <2>3. ASSUME Decidable PROVE RecoverInv'
    BY <2>1, <2>2, <2>3 DEF RecoverInv, Unsettled, DigestCommitted, Counts, Now
  <2> QED
    BY <2>1, <2>3 DEF FilesInv, ForwardInv, RollbackInv, Forward, Decidable
<1>7. ASSUME Restart PROVE FilesInv'
  <2>1. /\ tx.pc = "down" /\ tx'.pc = "recover" /\ tx'.todo = Recover(journal)
        /\ UNCHANGED <<disk, comments, journal, tip, raced>>
    BY <1>0, <1>7 DEF Restart, Calls
  <2>2. /\ PutsBack(Restores(journal), journal)
        /\ \A t \in Aims(journal.plan) : Pending(Restores(journal), t)
    BY <1>0, RestoresDo
  <2>3. Recover(journal) = IF Unsettled THEN Restores(journal) ELSE <<>>
    BY DEF Recover, Unsettled
  <2>4. PutsBack(<<>>, journal)
    BY DEF PutsBack
  <2> HIDE DEF Restores, Recover
  <2>5. Unsettled' = Unsettled
    BY <2>1 DEF Unsettled, DigestCommitted
  <2>6. ASSUME Decidable PROVE RecoverInv'
    <3>1. journal.state # "none" /\ ~Unsettled =>
            \A t \in Aims(journal.plan) : Counts(t) => Now(t) = Wanted(journal.plan, t)
      BY <2>1, <2>6 DEF FilesInv, RecoverInv
    <3>2. \A t : Counts(t)' = Counts(t) /\ Now(t)' = Now(t)
      BY <2>1 DEF Counts, Now
    <3> QED
      BY <2>1, <2>2, <2>3, <2>5, <3>1, <3>2 DEF RecoverInv
  <2>7. PutsBack(tx'.todo, journal)
    BY <2>1, <2>2, <2>3, <2>4
  <2> QED
    BY <2>1, <2>6, <2>7 DEF FilesInv, ForwardInv, RollbackInv, Forward, Decidable
<1> QED
  BY <1>2, <1>3, <1>4, <1>5, <1>6, <1>7 DEF Next

(* Every step leaves every file where the phase says.                      *)
LEMMA FilesStep ==
  ASSUME TypeOK, JournalInv, LoopInv, FilesInv, [Next]_vars
  PROVE  FilesInv'
  BY FilesApply, FilesOther

-----------------------------------------------------------------------------
(* What is on disk is committed, or on its way.                            *)

(* Everything is committed at first.                                       *)
LEMMA InitCommit == Init => CommitInv
<1> SUFFICES ASSUME Init PROVE CommitInv
  OBVIOUS
<1>1. disk = head /\ staged = head /\ work.pc = "idle" /\ tx.pc = "idle" /\ tx.answer = "none"
  BY PlainNoReq DEF Init, IdleTx
<1> QED
  BY <1>1 DEF CommitInv

(* What is queued after a request is appended, or taken.                   *)
LEMMA QueuedMoves ==
  ASSUME queue \in Seq(Reqs)
  PROVE  /\ \A r : queue' = Append(queue, r) => QueuedPaths' = QueuedPaths \union r.paths
         /\ queue # <<>> /\ queue' = Tail(queue) => QueuedPaths = Head(queue).paths \union QueuedPaths'
<1>0. Len(queue) \in Nat /\ DOMAIN queue = 1..Len(queue)
  OBVIOUS
<1>1. ASSUME NEW r, queue' = Append(queue, r)
      PROVE  QueuedPaths' = QueuedPaths \union r.paths
  <2>1. /\ DOMAIN queue' = 1..(Len(queue) + 1) /\ queue'[Len(queue) + 1] = r
        /\ \A i \in 1..Len(queue) : queue'[i] = queue[i]
    BY <1>0, <1>1
  <2>2. \A i \in DOMAIN queue' : i \in DOMAIN queue \/ i = Len(queue) + 1
    BY <1>0, <2>1
  <2>3. \A i \in DOMAIN queue : i \in DOMAIN queue'
    BY <1>0, <2>1
  <2>4. Len(queue) + 1 \in DOMAIN queue'
    BY <1>0, <2>1
  <2>5. ASSUME NEW p
        PROVE  p \in QueuedPaths' <=> p \in QueuedPaths \/ p \in r.paths
    <3>1. p \in QueuedPaths' <=> \E i \in DOMAIN queue' : p \in queue'[i].paths
      BY DEF QueuedPaths
    <3>2. p \in QueuedPaths <=> \E i \in DOMAIN queue : p \in queue[i].paths
      BY DEF QueuedPaths
    <3> QED
      BY <1>0, <2>1, <2>2, <2>3, <2>4, <3>1, <3>2
  <2> QED
    BY <2>5
<1>2. ASSUME queue # <<>>, queue' = Tail(queue)
      PROVE  QueuedPaths = Head(queue).paths \union QueuedPaths'
  <2>1. /\ Head(queue) = queue[1] /\ 1 \in DOMAIN queue
        /\ DOMAIN queue' = 1..(Len(queue) - 1)
        /\ \A i \in 1..(Len(queue) - 1) : queue'[i] = queue[i + 1]
    BY <1>0, <1>2
  <2>2. \A i \in DOMAIN queue : i = 1 \/ (i - 1 \in DOMAIN queue' /\ queue'[i - 1] = queue[i])
    BY <1>0, <2>1
  <2>3. \A i \in DOMAIN queue' : i + 1 \in DOMAIN queue
    BY <1>0, <2>1
  <2>4. ASSUME NEW p
        PROVE  p \in QueuedPaths <=> p \in Head(queue).paths \/ p \in QueuedPaths'
    <3>1. p \in QueuedPaths' <=> \E i \in DOMAIN queue' : p \in queue'[i].paths
      BY DEF QueuedPaths
    <3>2. p \in QueuedPaths <=> \E i \in DOMAIN queue : p \in queue[i].paths
      BY DEF QueuedPaths
    <3> QED
      BY <2>1, <2>2, <2>3, <3>1, <3>2
  <2> QED
    BY <2>4
<1> QED
  BY <1>1, <1>2

(* A step that leaves files, index, history and loop alone.                *)
LEMMA CommitCalm ==
  ASSUME CommitInv, Smooth, UNCHANGED <<disk, staged, head, queue, batch, work>>,
         tx'.pc \notin {"rollback", "down", "recover"}, tx'.answer # "failed",
         tx.pc = "apply" => tx'.pc = "apply" /\ tx'.plan = tx.plan
  PROVE  CommitInv'
<1>1. Coming \subseteq Coming'
  <2>1. QueuedPaths' = QueuedPaths
    BY DEF QueuedPaths
  <2>2. tx'.plan = tx.plan => (Touches(tx.plan))' = Touches(tx.plan)
    BY DEF Touches, Written, Sources
  <2> HIDE DEF QueuedPaths
  <2> QED
    BY <2>1, <2>2 DEF Coming
<1> HIDE DEF Coming
<1> QED
  BY <1>1 DEF CommitInv, Plain

(* Writes by others and by the restructuring itself.                       *)
LEMMA CommitWrites ==
  ASSUME TypeOK, CommitInv, Smooth, UNCHANGED <<staged, head, batch, work>>,
         tx'.pc \notin {"rollback", "down", "recover"}, tx'.answer # "failed",
         Coming \subseteq Coming', \A p \in Pages : disk'[p] # disk[p] => p \in Coming'
  PROVE  CommitInv'
<1> HIDE DEF Coming
<1>0. /\ \A p \in Pages : disk[p] # head[p] => p \in Coming \union batch \union work.req.paths
      /\ \A p \in Pages : staged[p] # head[p] => work.pc = "commit" /\ p \in work.req.paths
      /\ work.pc = "commit" => \A p \in work.req.paths : staged[p] # disk[p] => p \in Coming
      /\ work.pc # "idle" /\ Plain(work.req) => work.req.paths = batch
  BY DEF CommitInv
<1>1. ASSUME NEW p \in Pages, disk'[p] # head'[p]
      PROVE  p \in Coming' \union batch' \union work'.req.paths
  BY <1>0, <1>1
<1>2. ASSUME work'.pc = "commit", NEW p \in work'.req.paths, staged'[p] # disk'[p]
      PROVE  p \in Coming'
  <2>1. p \in Pages
    BY <1>2 DEF TypeOK, Works, Reqs
  <2> QED
    BY <1>0, <1>2, <2>1
<1> QED
  BY <1>0, <1>1, <1>2 DEF CommitInv, Plain

(* The restructuring writes only what it will send to the commit loop.     *)
LEMMA CommitApply ==
  ASSUME TypeOK, JournalInv, FilesInv, RequestInv, CommitInv, Smooth, Smooth', Apply
  PROVE  CommitInv'
<1> USE DEF files, git, loop
<1>0. /\ tx \in Calls /\ queue \in Seq(Reqs) /\ journal.plan \in Plans /\ tx.todo \in Seq(FileSteps)
      /\ tx.pc \notin {"rollback", "down", "recover"} /\ tx.answer # "failed"
  BY DEF TypeOK, Calls, Journals, CommitInv
<1>f. ~ApplyFails /\ ~SendCancelled /\ ~WaitCancelled /\ ~RestoreStep /\ ~RollbackEnds /\ ~RecoverEnds
  <2>1. TypeOK /\ [Next]_vars
    BY DEF Next
  <2>2. used'.fails = 0 /\ used'.cancels = 0
    BY DEF Smooth
  <2>3. ~ApplyFails /\ ~SendCancelled /\ ~WaitCancelled
    BY <2>1, <2>2, CancelsGrow
  <2> QED
    BY <1>0, <2>3 DEF RestoreStep, RollbackEnds, RecoverEnds
<1>i. IdleTx.pc = "idle" /\ IdleTx.answer = "none"
  BY DEF IdleTx
<1>1. ASSUME Begin \/ BeginFails \/ MarkCommitted \/ Cleanup PROVE CommitInv'
  <2>1. UNCHANGED <<disk, staged, head, queue, batch, work>> /\ tx.pc # "apply"
    BY <1>1 DEF Begin, BeginFails, MarkCommitted, Cleanup
  <2>2. tx'.pc \in {"apply", "idle", "cleanup"} /\ tx'.answer # "failed"
    BY <1>0, <1>1, <1>i DEF Begin, BeginFails, MarkCommitted, Cleanup, Calls
  <2> QED
    BY <2>1, <2>2, CommitCalm
<1>2. ASSUME Stale PROVE CommitInv'
  <2>1. UNCHANGED <<disk, staged, head, queue, batch, work>> /\ tx.pc = "lock"
    BY <1>2 DEF Stale
  <2>2. tx' = IdleTx \/ tx' = [tx EXCEPT !.plan = PlanNow, !.attempt = @ + 1]
    BY <1>2 DEF Stale
  <2> HIDE DEF PlanNow
  <2>3. tx'.pc \in {"lock", "idle"} /\ tx'.answer # "failed"
    BY <1>0, <1>i, <2>1, <2>2 DEF Calls
  <2> QED
    BY <2>1, <2>3, CommitCalm
<1>3. ASSUME CommitReturns PROVE CommitInv'
  <2>1. UNCHANGED <<disk, staged, head, queue, batch, work>> /\ tx.pc = "wait" /\ tx.answer = "ok"
    BY <1>0, <1>3 DEF CommitReturns, Calls
  <2>2. tx'.pc = "landed" /\ tx'.answer = "none"
    BY <1>0, <1>3, <2>1 DEF CommitReturns, Calls
  <2> QED
    BY <2>1, <2>2, CommitCalm
<1>4. ASSUME ApplyStep PROVE CommitInv'
  <2> DEFINE s == Head(tx.todo)
  <2>1. /\ tx.pc = "apply" /\ tx'.pc = "apply" /\ tx.todo # <<>> /\ tx'.plan = tx.plan
        /\ tx'.answer = tx.answer /\ Execute(s)
        /\ UNCHANGED <<staged, head, queue, batch, work>>
    BY <1>0, <1>4 DEF ApplyStep, Calls
  <2>2. s \in FileSteps /\ s = tx.todo[1] /\ 1 \in DOMAIN tx.todo
    BY <1>0, <2>1, TailSteps
  <2>3. Writes(tx.todo, journal.plan) /\ journal.plan = tx.plan
    BY <2>1 DEF FilesInv, ForwardInv, JournalInv, Forward
  <2> HIDE DEF s
  <2>4. Target(s) \in Aims(journal.plan)
    BY <2>2, <2>3 DEF Writes
  <2>5. \A p \in Pages \ Touches(journal.plan) : disk'[p] = disk[p]
    BY <1>0, <2>1, <2>2, <2>4, ExecuteDoes
  <2>6. Touches(tx.plan)' = Touches(tx.plan) /\ QueuedPaths' = QueuedPaths
    BY <2>1 DEF Touches, Written, Sources, QueuedPaths
  <2> HIDE DEF QueuedPaths
  <2>7. Coming' = Coming /\ Touches(tx.plan) \subseteq Coming
    BY <2>1, <2>6 DEF Coming
  <2> QED
    BY <1>0, <2>1, <2>3, <2>5, <2>7, CommitWrites
<1>5. ASSUME SendCommit PROVE CommitInv'
  <2>1. /\ tx.pc = "apply" /\ tx'.pc = "wait" /\ tx'.answer = tx.answer
        /\ UNCHANGED <<disk, staged, head, batch, work>>
    BY <1>0, <1>5 DEF SendCommit, Calls
  <2>2. QueuedPaths' = QueuedPaths \union Touches(tx.plan)
    BY <1>0, <1>5, QueuedMoves DEF SendCommit, CommitPaths
  <2> HIDE DEF QueuedPaths
  <2>3. Coming \subseteq Coming'
    BY <2>1, <2>2 DEF Coming
  <2> QED
    BY <1>0, <2>1, <2>3, CommitWrites
<1> QED
  BY <1>f, <1>1, <1>2, <1>3, <1>4, <1>5 DEF Apply

(* So does everyone else.                                                  *)
LEMMA CommitOther ==
  ASSUME TypeOK, CommitInv, Smooth, Smooth', [Next]_vars, ~Apply, ~Loop
  PROVE  CommitInv'
<1> USE DEF files, git, loop
<1>0. /\ tx \in Calls /\ queue \in Seq(Reqs)
      /\ tx.pc \notin {"rollback", "down", "recover"} /\ tx.answer # "failed"
  BY DEF TypeOK, CommitInv
<1>1. ASSUME \/ UNCHANGED vars \/ Review
             \/ \E q \in {From, To} : AddComment(q)
      PROVE  CommitInv'
  <2>1. UNCHANGED <<disk, staged, head, queue, batch, work, tx>>
    BY <1>1 DEF vars, Review, AddComment
  <2> QED
    BY <1>0, <2>1, CommitCalm
<1>2. ASSUME NEW pinned \in BOOLEAN, StartRefactor(pinned) PROVE CommitInv'
  <2>1. UNCHANGED <<disk, staged, head, queue, batch, work>> /\ tx.pc = "idle"
    BY <1>2 DEF StartRefactor
  <2>2. tx'.pc = "lock" /\ tx'.answer = "none"
    BY <1>2 DEF StartRefactor, IdleTx
  <2> QED
    BY <2>1, <2>2, CommitCalm
<1>3. ASSUME NEW p \in Pages, WritePage(p) PROVE CommitInv'
  <2>1. /\ tx' = tx /\ tx.pc \in {"idle", "lock"} /\ UNCHANGED <<staged, head, batch, work>>
        /\ queue' = Append(queue, [NoReq EXCEPT !.paths = {p}])
    BY <1>3 DEF WritePage, LockFree
  <2>2. \A q \in Pages : disk'[q] # disk[q] => q = p
    BY <1>3 DEF WritePage, TypeOK
  <2>3. QueuedPaths' = QueuedPaths \union {p}
    <3> DEFINE r == [NoReq EXCEPT !.paths = {p}]
    <3>1. r.paths = {p}
      BY PlainNoReq
    <3> HIDE DEF r, QueuedPaths
    <3>2. QueuedPaths' = QueuedPaths \union r.paths
      BY <1>0, <2>1, QueuedMoves DEF r
    <3> QED
      BY <3>1, <3>2
  <2> HIDE DEF QueuedPaths
  <2>4. Coming \subseteq Coming' /\ p \in Coming'
    BY <2>1, <2>3 DEF Coming
  <2> QED
    BY <1>0, <2>1, <2>2, <2>4, CommitWrites
<1>4. ~Crash /\ ~Restart
  <2>1. used'.crashes = 0
    BY DEF Smooth
  <2> QED
    BY <1>0, <2>1, CancelsGrow DEF Restart
<1> QED
  BY <1>1, <1>2, <1>3, <1>4 DEF Next

(* A flush or recorded commit takes what is staged for it, and what it     *)
(* leaves is on its way.                                                   *)
LEMMA CommitLoop ==
  ASSUME TypeOK, JournalInv, LoopInv, RequestInv, CommitInv, Smooth, Smooth', Loop
  PROVE  CommitInv'
<1> USE DEF files, git, loop
<1>0. /\ tx \in Calls /\ work \in Works /\ queue \in Seq(Reqs) /\ tx.plan \in Plans
      /\ tx.pc \notin {"rollback", "down", "recover"} /\ tx.answer # "failed"
      /\ disk \in [Pages -> Content] /\ staged \in [Pages -> Content] /\ head \in [Pages -> Content]
      /\ work.req.paths \subseteq Pages
  BY DEF TypeOK, Calls, CommitInv, Works, Reqs
<1>a. \A p \in Pages : disk[p] # head[p] => p \in Coming \union batch \union work.req.paths
  BY DEF CommitInv
<1>b. \A p \in Pages : staged[p] # head[p] => work.pc = "commit" /\ p \in work.req.paths
  BY DEF CommitInv
<1>c. work.pc = "commit" => \A p \in work.req.paths : staged[p] # disk[p] => p \in Coming
  BY DEF CommitInv
<1>d. work.pc # "idle" /\ Plain(work.req) => work.req.paths = batch
  BY DEF CommitInv
<1>e. work.pc = "idle" => work.req.paths = {} /\ work.next.paths = {}
  BY PlainNoReq DEF LoopInv
<1>g. tx'.pc = tx.pc /\ tx'.plan = tx.plan
  BY CallFields DEF Loop, TakeRequest, TakeRecorded, Flush, Stage, NothingToCommit, Commit, CommitFails
<1>h. (Touches(tx.plan))' = Touches(tx.plan)
  BY <1>g DEF Touches, Written, Sources
<1>i. Coming' = QueuedPaths' \union work'.next.paths \union (IF tx.pc = "apply" THEN Touches(tx.plan) ELSE {})
  BY <1>g, <1>h DEF Coming
<1>j. queue # <<>> /\ queue' = Tail(queue) => QueuedPaths = Head(queue).paths \union QueuedPaths'
  BY <1>0, QueuedMoves
<1>k. queue' = queue => QueuedPaths' = QueuedPaths
  BY DEF QueuedPaths
<1> DEFINE Body ==
       /\ tx'.answer # "failed"
       /\ \A p \in Pages : disk'[p] # head'[p] => p \in Coming' \union batch' \union work'.req.paths
       /\ \A p \in Pages : staged'[p] # head'[p] => work'.pc = "commit" /\ p \in work'.req.paths
       /\ work'.pc = "commit" => \A p \in work'.req.paths : staged'[p] # disk'[p] => p \in Coming'
       /\ work'.pc # "idle" /\ Plain(work'.req) => work'.req.paths = batch'
<1>l. SUFFICES Body
  BY <1>0, <1>g DEF CommitInv, Plain
<1> HIDE DEF QueuedPaths
<1>1. ASSUME TakeRequest PROVE Body
  <2>1. /\ work.pc = "idle" /\ queue # <<>> /\ queue' = Tail(queue) /\ batch' = batch \union Head(queue).paths
        /\ UNCHANGED <<disk, staged, head, tx, work>>
    BY <1>1 DEF TakeRequest
  <2>2. Coming \subseteq Coming' \union Head(queue).paths
    BY <1>i, <1>j, <2>1 DEF Coming
  <2> HIDE DEF Coming
  <2> QED
    BY <1>0, <1>a, <1>b, <1>e, <2>1, <2>2
<1>2. ASSUME TakeRecorded PROVE Body
  <2>1. /\ work.pc = "idle" /\ queue # <<>> /\ queue' = Tail(queue) /\ Head(queue).digest # NoPlan
        /\ UNCHANGED <<disk, staged, head, tx, batch>>
        /\ work' = IF batch = {} THEN [IdleWork EXCEPT !.pc = "stage", !.req = Head(queue)]
                   ELSE FlushThen(Head(queue))
    BY <1>2 DEF TakeRecorded
  <2>2. CASE batch = {}
    <3>1. work'.pc = "stage" /\ work'.req = Head(queue) /\ work'.next = NoReq
      BY <2>1, <2>2 DEF IdleWork
    <3>2. Coming \subseteq Coming' \union Head(queue).paths
      BY <1>e, <1>i, <1>j, <2>1 DEF Coming
    <3> HIDE DEF Coming
    <3> QED
      BY <1>0, <1>a, <1>b, <1>e, <2>1, <2>2, <3>1, <3>2 DEF Plain
  <2>3. CASE batch # {}
    <3>1. work'.pc = "stage" /\ work'.req.paths = batch /\ work'.next = Head(queue)
      BY <2>1, <2>3, PlainNoReq
    <3>2. Coming \subseteq Coming'
      BY <1>e, <1>i, <1>j, <2>1, <3>1 DEF Coming
    <3> HIDE DEF Coming
    <3> QED
      BY <1>0, <1>a, <1>b, <1>e, <2>1, <3>1, <3>2
  <2> QED
    BY <2>2, <2>3
<1>3. ASSUME Flush PROVE Body
  <2>1. /\ work.pc = "idle" /\ work' = FlushThen(NoReq)
        /\ UNCHANGED <<disk, staged, head, tx, batch, queue>>
    BY <1>3 DEF Flush
  <2>2. work'.pc = "stage" /\ work'.req.paths = batch /\ work'.next = NoReq
    BY <2>1, PlainNoReq
  <2>3. Coming \subseteq Coming'
    BY <1>e, <1>i, <1>k, <2>1, <2>2 DEF Coming
  <2> HIDE DEF Coming
  <2> QED
    BY <1>0, <1>a, <1>b, <1>e, <2>1, <2>2, <2>3
<1>4. ASSUME Stage PROVE Body
  <2>1. /\ work.pc = "stage" /\ work'.pc = "commit" /\ work'.req = work.req /\ work'.next = work.next
        /\ UNCHANGED <<disk, head, tx, batch, queue>>
        /\ staged' = [p \in Pages |-> IF p \in work.req.paths THEN disk[p] ELSE staged[p]]
    BY <1>0, <1>4 DEF Stage, Works
  <2>2. Coming' = Coming
    BY <1>i, <1>k, <2>1 DEF Coming
  <2> HIDE DEF Coming
  <2> QED
    BY <1>0, <1>a, <1>b, <1>d, <2>1, <2>2
<1>5. ASSUME NEW ok \in BOOLEAN, work.pc = "commit", Done(ok), OursIsTaken /\ Waiting => ok
      PROVE  /\ tx'.answer # "failed"
             /\ batch' = IF Plain(work.req) /\ ok THEN {} ELSE batch
             /\ UNCHANGED <<disk, queue>>
             /\ work'.pc \in {"idle", "stage"}
             /\ Coming \subseteq Coming' \union work'.req.paths
             /\ work'.pc # "idle" => ~Plain(work'.req)
  <2>1. \/ Plain(work.req) /\ work.next = NoReq
        \/ Plain(work.req) /\ Waiting /\ work.next = Ours
        \/ OursIsTaken /\ Waiting
    <3>1. ~LoopIsIdle
      BY <1>5, PlainNoReq DEF LoopIsIdle
    <3> QED
      BY <3>1 DEF RequestInv, OursIsLast, OursIsNext
  <2>2. Ours.heard /\ Ours.paths # {}
    BY <1>0, PlanTypes DEF Ours
  <2>s. Waiting => tx.plan # NoPlan
    <3>1. Waiting => Sound(tx.plan)
      BY DEF Waiting, JournalInv, Forward
    <3> QED
      BY <1>0, <3>1, SoundIsSome
  <2>t. Ours.digest = tx.plan
    BY DEF Ours
  <2> HIDE DEF Ours
  <2>3. tx'.answer = IF work.req.heard THEN IF ok THEN "ok" ELSE "failed" ELSE tx.answer
    BY <1>5, CallFields
  <2>4. tx'.answer # "failed"
    BY <1>0, <1>5, <2>1, <2>3 DEF Plain
  <2>5. /\ work.next = NoReq => work' = IdleWork
        /\ work.next.paths # {} => work'.pc = "stage" /\ work'.req = work.next /\ work'.next = NoReq
        /\ work'.pc \in {"idle", "stage"} /\ (work'.pc = "idle" => work' = IdleWork)
    BY <1>5, PlainNoReq DEF Done
  <2>6. batch' = IF work.req.digest = NoPlan /\ ok THEN {} ELSE batch
    BY <1>5 DEF Done
  <2>7. work.req.digest = NoPlan <=> Plain(work.req)
    BY <2>1, <2>s, <2>t DEF Plain, OursIsTaken
  <2>8. UNCHANGED <<disk, queue>>
    BY <1>5 DEF Done
  <2>9. work.next = NoReq \/ work.next = Ours
    BY <2>1 DEF OursIsTaken
  <2>10. Coming \subseteq Coming' \union work'.req.paths
    BY <1>i, <1>k, <2>2, <2>5, <2>8, <2>9, PlainNoReq DEF Coming
  <2>11. work'.pc # "idle" => ~Plain(work'.req)
    BY <2>2, <2>5, <2>9, PlainNoReq DEF Plain
  <2> QED
    BY <2>4, <2>5, <2>6, <2>7, <2>8, <2>10, <2>11
<1> HIDE DEF Coming
<1>6. ASSUME NothingToCommit PROVE Body
  <2>1. /\ work.pc = "commit" /\ Done(TRUE) /\ UNCHANGED <<staged, head>>
        /\ \A p \in work.req.paths : staged[p] = head[p] /\ disk[p] = staged[p]
    BY <1>6 DEF NothingToCommit, Dirty
  <2> QED
    BY <1>0, <1>5, <1>a, <1>b, <1>d, <2>1
<1>7. ASSUME Commit PROVE Body
  <2>1. work.pc = "commit" /\ Done(TRUE) /\ head' = staged /\ staged' = staged
    BY <1>7 DEF Commit
  <2> QED
    BY <1>0, <1>5, <1>a, <1>b, <1>c, <1>d, <2>1
<1>8. ASSUME CommitFails PROVE Body
  <2>1. /\ work.pc = "commit" /\ Done(FALSE) /\ head' = head
        /\ staged' = [p \in Pages |-> IF p \in work.req.paths THEN head[p] ELSE staged[p]]
    BY <1>8 DEF CommitFails
  <2>2. Dirty /\ staged = head
    <3>1. TypeOK /\ [Next]_vars /\ used'.fails = 0
      BY DEF Next, Smooth
    <3> QED
      BY <1>8, <3>1, CancelsGrow
  <2>3. PICK p \in work.req.paths : disk[p] # staged[p]
    BY <2>2 DEF Dirty
  <2>4. p \in Coming
    BY <1>c, <2>1, <2>3
  <2>5. ~(OursIsTaken /\ Waiting)
    <3>1. OursIsTaken /\ Waiting => Coming = {}
      <4>1. queue = <<>> => QueuedPaths = {}
        BY DEF QueuedPaths
      <4> QED
        BY <4>1, PlainNoReq DEF OursIsTaken, Waiting, Coming
    <3> QED
      BY <2>4, <3>1
  <2>6. Plain(work.req)
    <3>1. ~LoopIsIdle
      BY <2>1, PlainNoReq DEF LoopIsIdle
    <3> QED
      BY <2>5, <3>1 DEF RequestInv, OursIsLast, OursIsNext
  <2>7. staged' = head
    BY <1>0, <2>1, <2>2
  <2> QED
    BY <1>0, <1>5, <1>a, <1>b, <1>c, <1>d, <2>1, <2>2, <2>5, <2>6, <2>7
<1> QED
  BY <1>1, <1>2, <1>3, <1>4, <1>6, <1>7, <1>8 DEF Loop

(* Every step keeps what is not committed on its way.                      *)
LEMMA CommitStep ==
  ASSUME TypeOK, JournalInv, LoopInv, FilesInv, CommitInv, [Next]_vars
  PROVE  CommitInv'
<1>1. ASSUME Smooth' PROVE CommitInv'
  <2>1. Smooth
    BY <1>1, CancelsGrow DEF Smooth
  <2>2. RequestInv
    BY <2>1 DEF Smooth, LoopInv
  <2> QED
    BY <1>1, <2>1, <2>2, CommitApply, CommitOther, CommitLoop
<1> QED
  BY <1>1 DEF CommitInv, Smooth

-----------------------------------------------------------------------------
(* The invariant is inductive.                                             *)

(* The invariant holds at first.                                           *)
LEMMA InitHolds == Init => TypeOK /\ IInv
  BY InitTypes, InitJournal, InitFiles, InitLoop, InitCommit DEF IInv

(* Every step preserves it.                                                *)
LEMMA StepHolds == TypeOK /\ IInv /\ [Next]_vars => (TypeOK /\ IInv)'
  BY TypeStep, JournalStep, FilesStep, LoopStep, CommitStep DEF IInv

(* Journal, plan, files, commit loop and history agree with the phase the  *)
(* restructuring is in, after any steps of any actors.                     *)
THEOREM PhasesAgree == Spec => [](TypeOK /\ IInv)
  BY InitHolds, StepHolds, PTL DEF Spec

(* Without failures, cancellations and crashes the last commit holds the   *)
(* workspace whenever nothing is under way.                                *)
THEOREM QuietCommitted == Spec => []QuietIsCommitted
<1>1. TypeOK /\ IInv => QuietIsCommitted
  <2> SUFFICES ASSUME TypeOK, CommitInv, Quiet, Smooth
               PROVE  head = disk
    BY DEF IInv, QuietIsCommitted, Smooth
  <2>1. QueuedPaths = {}
    BY DEF Quiet, QueuedPaths
  <2>2. tx.pc = "idle" /\ batch = {} /\ work.req.paths = {} /\ work.next.paths = {}
    BY PlainNoReq DEF Quiet
  <2> HIDE DEF QueuedPaths
  <2>3. \A p \in Pages : disk[p] = head[p]
    BY <2>1, <2>2 DEF CommitInv, Coming
  <2> QED
    BY <2>3 DEF TypeOK
<1> QED
  BY <1>1, PhasesAgree, PTL

(* A pinned digest applies the plan that was reviewed, to the pages it     *)
(* was made from.                                                          *)
THEOREM ReviewedApplied == Spec => ReviewedIsApplied
<1>1. TypeOK /\ IInv =>
        (tx.pc = "apply" /\ tx.pinned /\ tx.touched = {} /\ disk' # disk
           => \A p \in Sources(reviewed) : disk[p] = reviewed.src[p])
  <2> SUFFICES ASSUME TypeOK, IInv, tx.pc = "apply", tx.pinned, tx.touched = {},
                      NEW p \in Sources(reviewed)
               PROVE  disk[p] = reviewed.src[p]
    OBVIOUS
  <2>1. journal.plan = reviewed /\ journal.state = "applying"
    BY DEF IInv, JournalInv, PinnedInv, Forward
  <2>2. journal.pages[p] = reviewed.src[p]
    BY <2>1 DEF IInv, JournalInv
  <2>3. <<"page", p>> \in Aims(journal.plan)
    BY <2>1 DEF Aims, Touches, Written
  <2>4. Counts(<<"page", p>>) => Now(<<"page", p>>) = Before(journal, <<"page", p>>)
    BY <2>1, <2>3 DEF IInv, FilesInv, ForwardInv, Forward
  <2> QED
    BY <2>2, <2>4 DEF Counts, Now, Before
<1> QED
  BY <1>1, PhasesAgree, PTL DEF ReviewedIsApplied

(* Pages and comments, restructured or as they were, from the file-by-file *)
(* invariant.                                                              *)
LEMMA AllWanted ==
  ASSUME ~raced, \A t \in Aims(journal.plan) : Counts(t) => Now(t) = Wanted(journal.plan, t)
  PROVE  Restructured(journal)
<1>1. ASSUME NEW p \in Touches(journal.plan)
      PROVE  disk[p] = After(journal.plan, p)
  <2>1. <<"page", p>> \in Aims(journal.plan)
    BY DEF Aims
  <2> QED
    BY <2>1 DEF Counts, Now, Wanted
<1>2. ASSUME journal.plan.notes[From] # {}
      PROVE  comments[From] = {} /\ comments[To] = journal.plan.notes[From] \union journal.plan.notes[To]
  <2>1. <<"side", From>> \in Aims(journal.plan) /\ <<"side", To>> \in Aims(journal.plan)
    BY <1>2 DEF Aims
  <2> QED
    BY <2>1, RefactorAssumption DEF Counts, Now, Wanted
<1> QED
  BY <1>1, <1>2 DEF Restructured

(* The same for a rollback.                                                *)
LEMMA AllBefore ==
  ASSUME TypeOK, ~raced, \A t \in Aims(journal.plan) : Counts(t) => Now(t) = Before(journal, t)
  PROVE  Unchanged(journal)
<1>1. ASSUME NEW p \in Touches(journal.plan)
      PROVE  disk[p] = journal.pages[p]
  <2>1. <<"page", p>> \in Aims(journal.plan)
    BY DEF Aims
  <2> QED
    BY <2>1 DEF Counts, Now, Before
<1>2. ASSUME journal.plan.notes[From] # {}
      PROVE  comments = journal.side
  <2>1. <<"side", From>> \in Aims(journal.plan) /\ <<"side", To>> \in Aims(journal.plan)
    BY <1>2 DEF Aims
  <2>2. comments[From] = journal.side[From] /\ comments[To] = journal.side[To]
    BY <2>1 DEF Counts, Now, Before
  <2> QED
    BY <2>2 DEF TypeOK, Journals
<1> QED
  BY <1>1, <1>2 DEF Unchanged

(* The journal goes when every file is restructured or every file is as    *)
(* it was; recovery can tell which unless the caller's context ended while *)
(* git was committing.                                                     *)
THEOREM WholeOrUnchangedHolds == Decidable => (Spec => WholeOrUnchanged)
<1> SUFFICES ASSUME Decidable PROVE Spec => WholeOrUnchanged
  OBVIOUS
<1>1. TypeOK /\ IInv /\ [Next]_vars =>
        (journal.state # "none" /\ journal'.state = "none" /\ ~raced
           => Restructured(journal) \/ Unchanged(journal))
  <2> SUFFICES ASSUME TypeOK, IInv, [Next]_vars, journal.state # "none", journal'.state = "none", ~raced
               PROVE  Restructured(journal) \/ Unchanged(journal)
    OBVIOUS
  <2>1. Cleanup \/ RollbackEnds \/ RecoverEnds
    <3>1. ~Begin /\ ~MarkCommitted
      BY DEF Begin, MarkCommitted, TypeOK, Journals
    <3>2. journal' # journal
      OBVIOUS
    <3> QED
      BY <3>1, <3>2
      DEF Next, Apply, Loop, vars, files, git, loop, Review, StartRefactor, WritePage, AddComment, Crash,
          Restart, Stale, BeginFails, ApplyStep, ApplyFails, SendCommit, SendCancelled, WaitCancelled,
          CommitReturns, RestoreStep, TakeRequest, TakeRecorded, Flush, Stage, NothingToCommit, Commit,
          CommitFails, Done
  <2>2. \A t : ~Pending(<<>>, t)
    BY DEF Pending
  <2>3. CASE Cleanup
    <3>1. \A t \in Aims(journal.plan) : Counts(t) => Now(t) = Wanted(journal.plan, t)
      BY <2>2, <2>3 DEF Cleanup, IInv, FilesInv, ForwardInv, Forward
    <3> QED
      BY <3>1, AllWanted
  <2>4. CASE RollbackEnds
    <3>1. \A t \in Aims(journal.plan) : Counts(t) => Now(t) = Before(journal, t)
      BY <2>2, <2>4 DEF RollbackEnds, IInv, FilesInv, RollbackInv
    <3> QED
      BY <3>1, AllBefore
  <2>5. CASE RecoverEnds /\ ~Unsettled
    <3>1. \A t \in Aims(journal.plan) : Counts(t) => Now(t) = Wanted(journal.plan, t)
      BY <2>5 DEF RecoverEnds, IInv, FilesInv, RecoverInv
    <3> QED
      BY <3>1, AllWanted
  <2>6. CASE RecoverEnds /\ Unsettled
    <3>1. \A t \in Aims(journal.plan) : Counts(t) => Now(t) = Before(journal, t)
      BY <2>2, <2>6 DEF RecoverEnds, IInv, FilesInv, RecoverInv
    <3> QED
      BY <3>1, AllBefore
  <2> QED
    BY <2>1, <2>3, <2>4, <2>5, <2>6
<1> QED
  BY <1>1, PhasesAgree, PTL DEF Spec, WholeOrUnchanged

-----------------------------------------------------------------------------
(* Refinement: what counts changes by one page of another request, or by   *)
(* one whole restructuring.                                                *)

(* What counts are the pre-images while the journal is unsettled, and      *)
(* else the files.                                                         *)
LEMMA WhatCounts ==
  ASSUME TypeOK, FilesInv
  PROVE  /\ Unsettled => Visible = journal.pages
         /\ ~Unsettled => Visible = disk
<1>1. disk \in [Pages -> Content] /\ journal.pages \in [Pages -> Content]
  BY DEF TypeOK, Journals
<1>2. ASSUME Unsettled PROVE Visible = journal.pages
  <2>1. \A p \in Pages \ Touches(journal.plan) : disk[p] = journal.pages[p]
    BY <1>2 DEF FilesInv, Unsettled
  <2>2. \A p \in Pages : Visible[p] = journal.pages[p]
    BY <1>2, <2>1 DEF Visible
  <2>3. Visible = [p \in Pages |-> Visible[p]]
    BY DEF Visible
  <2> QED
    BY <1>1, <2>2, <2>3
<1>3. ASSUME ~Unsettled PROVE Visible = disk
  <2>1. \A p \in Pages : Visible[p] = disk[p]
    BY <1>3 DEF Visible
  <2>2. Visible = [p \in Pages |-> Visible[p]]
    BY DEF Visible
  <2> QED
    BY <1>1, <2>1, <2>2
<1> QED
  BY <1>2, <1>3

(* With every file of the plan as it was, the pages are the pre-images.    *)
LEMMA PagesBefore ==
  ASSUME TypeOK, FilesInv, Unsettled,
         \A t \in Aims(journal.plan) : Counts(t) => Now(t) = Before(journal, t)
  PROVE  disk = journal.pages
<1>1. disk \in [Pages -> Content] /\ journal.pages \in [Pages -> Content]
  BY DEF TypeOK, Journals
<1>2. \A p \in Pages \ Touches(journal.plan) : disk[p] = journal.pages[p]
  BY DEF FilesInv, Unsettled
<1>3. ASSUME NEW p \in Touches(journal.plan)
      PROVE  disk[p] = journal.pages[p]
  <2>1. <<"page", p>> \in Aims(journal.plan)
    BY DEF Aims
  <2> QED
    BY <2>1 DEF Counts, Now, Before
<1> QED
  BY <1>1, <1>2, <1>3

(* With every page as the plan wants it, the workspace is the pre-images,  *)
(* restructured: the plan rewrites only pages that linked to From.         *)
LEMMA PagesWanted ==
  ASSUME TypeOK, JournalInv, FilesInv, Unsettled,
         \A t \in Aims(journal.plan) : Counts(t) => Now(t) = Wanted(journal.plan, t)
  PROVE  /\ journal.pages[From] # Abs!Absent
         /\ \E R \in SUBSET Abs!Linking(journal.pages) : disk = Abs!Restructured(journal.pages, R)
<1> DEFINE plan == journal.plan
           R == Sources(plan) \ {From}
<1>1. disk \in [Pages -> Content] /\ journal.pages \in [Pages -> Content] /\ plan \in Plans
  BY DEF TypeOK, Journals
<1>2. /\ plan.src[From] # Absent
      /\ \A p \in Pages : plan.src[p] # Absent => p = From \/ (p \in Refs /\ ~plan.src[p].moved)
      /\ \A p \in Sources(plan) : journal.pages[p] = plan.src[p]
  BY DEF JournalInv, Unsettled, Sound
<1>3. From \in Sources(plan) /\ From \in Pages /\ To \in Pages /\ To \notin Refs /\ From # To /\ From \notin Refs
  BY <1>2, ContentTypes, RefactorAssumption DEF Sources
<1>4. journal.pages[From] = plan.src[From] /\ journal.pages[From] # Abs!Absent
  BY <1>2, <1>3 DEF Absent
<1>5. \A p \in R : p \in Refs /\ journal.pages[p] # Absent /\ ~journal.pages[p].moved
                  /\ journal.pages[p] = plan.src[p] /\ p # To /\ p # From /\ p \in Pages
  BY <1>2, <1>3 DEF Sources
<1>6. R \in SUBSET Abs!Linking(journal.pages)
  BY <1>5 DEF Abs!Linking, Absent
<1>7. Touches(plan) = {From, To} \union R
  BY DEF Touches, Written
<1>8. ASSUME NEW p \in Touches(plan)
      PROVE  disk[p] = After(plan, p)
  <2>1. <<"page", p>> \in Aims(plan)
    BY DEF Aims
  <2> QED
    BY <2>1 DEF Counts, Now, Wanted
<1>9. \A p \in Pages \ Touches(plan) : disk[p] = journal.pages[p]
  BY DEF FilesInv, Unsettled
<1> HIDE DEF R, plan
<1>10. ASSUME NEW p \in Pages
       PROVE  disk[p] = CASE p = To   -> Abs!Moved(journal.pages[From])
                          [] p = From -> Abs!Absent
                          [] p \in R  -> Abs!Moved(journal.pages[p])
                          [] OTHER    -> journal.pages[p]
  <2>1. CASE p = To
    BY <1>3, <1>4, <1>5, <1>7, <1>8, <2>1 DEF After, Moved
  <2>2. CASE p = From
    BY <1>3, <1>5, <1>7, <1>8, <2>2 DEF After, Absent
  <2>3. CASE p \in R
    BY <1>3, <1>5, <1>7, <1>8, <2>3 DEF After, Moved
  <2>4. CASE p \notin Touches(plan)
    BY <1>7, <1>9, <2>4
  <2> QED
    BY <1>7, <2>1, <2>2, <2>3, <2>4
<1>11. disk = Abs!Restructured(journal.pages, R)
  BY <1>1, <1>10 DEF Abs!Restructured, Pages
<1> QED
  BY <1>4, <1>6, <1>11

(* Settling a journal whose plan is on disk is a whole restructuring.      *)
LEMMA RestructureStep ==
  ASSUME TypeOK, JournalInv, FilesInv, TypeOK', FilesInv', Unsettled, ~Unsettled', disk' = disk,
         \A t \in Aims(journal.plan) : Counts(t) => Now(t) = Wanted(journal.plan, t)
  PROVE  Atomic!Restructure
<1>1. Visible = journal.pages
  BY WhatCounts
<1>2. Visible' = disk
  <2>1. (~Unsettled => Visible = disk)'
    BY WhatCounts, PTL
  <2> QED
    BY <2>1
<1>3. /\ journal.pages[From] # Abs!Absent
      /\ \E R \in SUBSET Abs!Linking(journal.pages) : disk = Abs!Restructured(journal.pages, R)
  BY PagesWanted
<1> QED
  BY <1>1, <1>2, <1>3
  DEF Atomic!Restructure, Atomic!Restructured, Atomic!Linking, Abs!Restructured, Abs!Linking,
      Atomic!Absent, Abs!Absent, Atomic!Moved, Abs!Moved, Atomic!Pages, Abs!Pages

(* Without a change of pages, journal or history nothing that counts       *)
(* changes.                                                                *)
LEMMA SameCounts ==
  ASSUME UNCHANGED <<disk, journal, tip>>
  PROVE  Visible' = Visible
  BY DEF Visible, Unsettled, DigestCommitted, Touches, Written, Sources

(* While the journal is unsettled, what counts are its pre-images.         *)
LEMMA StillUnsettled ==
  ASSUME TypeOK, FilesInv, TypeOK', FilesInv', Unsettled, Unsettled', journal' = journal
  PROVE  Visible' = Visible
<1>1. Visible = journal.pages
  BY WhatCounts
<1>2. (Unsettled => Visible = journal.pages)'
  BY WhatCounts, PTL
<1> QED
  BY <1>1, <1>2

(* Without an unsettled journal the files count.                           *)
LEMMA StillSettled ==
  ASSUME TypeOK, FilesInv, TypeOK', FilesInv', ~Unsettled, ~Unsettled'
  PROVE  Visible = disk /\ Visible' = disk'
<1>1. Visible = disk
  BY WhatCounts
<1>2. (~Unsettled => Visible = disk)'
  BY WhatCounts, PTL
<1> QED
  BY <1>1, <1>2

(* One step per action of the restructuring: MarkCommitted or Cleanup may  *)
(* be the moment it counts.                                                *)
LEMMA RefineApply ==
  ASSUME TypeOK, JournalInv, FilesInv, RequestInv, Decidable, TypeOK', JournalInv', FilesInv', Apply
  PROVE  Visible' = Visible \/ Atomic!Restructure
<1> USE DEF files, git, loop
<1>0. tx \in Calls /\ journal \in Journals
  BY DEF TypeOK
<1>p. \A t : ~Pending(<<>>, t)
  BY DEF Pending
<1>1. ASSUME Begin PROVE Visible' = Visible
  <2>1. journal.state = "none" /\ ~Unsettled
    BY <1>1 DEF Begin, JournalInv, NoJournal, Unsettled
  <2>2. journal'.state = "applying" /\ journal'.head = tip.id /\ journal'.pages = disk /\ UNCHANGED <<disk, tip>>
    BY <1>1 DEF Begin
  <2>3. Unsettled'
    BY <2>2 DEF Unsettled, DigestCommitted
  <2>4. Visible = disk
    BY <2>1, WhatCounts
  <2>5. (Unsettled => Visible = journal.pages)'
    BY WhatCounts, PTL
  <2> QED
    BY <2>2, <2>3, <2>4, <2>5
<1>2. ASSUME \/ Stale \/ BeginFails \/ SendCommit \/ SendCancelled \/ WaitCancelled \/ CommitReturns
      PROVE  Visible' = Visible
  <2>1. UNCHANGED <<disk, journal, tip>>
    BY <1>2 DEF Stale, BeginFails, SendCommit, SendCancelled, WaitCancelled, CommitReturns
  <2> QED
    BY <2>1, SameCounts
<1>3. ASSUME ApplyStep \/ ApplyFails PROVE Visible' = Visible
  <2>1. Unsettled /\ UNCHANGED <<journal, tip>>
    BY <1>3 DEF ApplyStep, ApplyFails, JournalInv, RequestInv, Unsettled
  <2>2. Unsettled'
    BY <2>1 DEF Unsettled, DigestCommitted
  <2> QED
    BY <2>1, <2>2, StillUnsettled
<1>4. ASSUME RestoreStep PROVE Visible' = Visible
  <2>1. Unsettled /\ UNCHANGED <<journal, tip>>
    <3>1. CASE tx.pc = "rollback"
      BY <1>4, <3>1 DEF RestoreStep, JournalInv, RequestInv, Unsettled
    <3>2. CASE tx.pc = "recover"
      BY <1>4, <3>2 DEF RestoreStep, FilesInv, RecoverInv
    <3> QED
      BY <1>4, <3>1, <3>2 DEF RestoreStep
  <2>2. Unsettled'
    BY <2>1 DEF Unsettled, DigestCommitted
  <2> QED
    BY <2>1, <2>2, StillUnsettled
<1>5. ASSUME RollbackEnds \/ RecoverEnds PROVE Visible' = Visible
  <2>1. disk' = disk /\ ~Unsettled'
    BY <1>5 DEF RollbackEnds, RecoverEnds, Unsettled, NoJournal
  <2>2. CASE Unsettled
    <3>1. \A t \in Aims(journal.plan) : Counts(t) => Now(t) = Before(journal, t)
      BY <1>5, <1>p, <2>2 DEF RollbackEnds, RecoverEnds, FilesInv, RollbackInv, RecoverInv, Unsettled
    <3>2. disk = journal.pages /\ Visible = journal.pages
      BY <2>2, <3>1, PagesBefore, WhatCounts
    <3>3. (~Unsettled => Visible = disk)'
      BY WhatCounts, PTL
    <3> QED
      BY <2>1, <3>2, <3>3
  <2>3. CASE ~Unsettled
    BY <2>1, <2>3, StillSettled
  <2> QED
    BY <2>2, <2>3
<1>6. ASSUME Cleanup \/ MarkCommitted PROVE Visible' = Visible \/ Atomic!Restructure
  <2>1. /\ disk' = disk /\ tip' = tip /\ tx.todo = <<>> /\ tx.pc \in Forward
    BY <1>6 DEF Cleanup, MarkCommitted, FilesInv, ForwardInv, Forward
  <2>2. journal' = journal \/ ~Unsettled'
    BY <1>0, <1>6 DEF Cleanup, MarkCommitted, Journals, NoJournal, Unsettled
  <2>3. CASE journal' = journal
    BY <2>1, <2>3, SameCounts
  <2>4. CASE ~Unsettled /\ ~Unsettled'
    BY <2>1, <2>4, StillSettled
  <2>5. CASE Unsettled /\ ~Unsettled'
    <3>1. \A t \in Aims(journal.plan) : Counts(t) => Now(t) = Wanted(journal.plan, t)
      BY <1>p, <2>1 DEF FilesInv, ForwardInv
    <3> QED
      BY <2>1, <2>5, <3>1, RestructureStep
  <2> QED
    BY <2>2, <2>3, <2>4, <2>5
<1> QED
  BY <1>1, <1>2, <1>3, <1>4, <1>5, <1>6 DEF Apply

(* Otherwise the commit of its request is.                                 *)
LEMMA RefineLoop ==
  ASSUME TypeOK, JournalInv, FilesInv, LoopInv, RequestInv, TypeOK', FilesInv', Loop
  PROVE  Visible' = Visible \/ Atomic!Restructure
<1> USE DEF files, git, loop
<1>p. \A t : ~Pending(<<>>, t)
  BY DEF Pending
<1>1. UNCHANGED <<disk, journal>>
  BY DEF Loop, TakeRequest, TakeRecorded, Flush, Stage, NothingToCommit, Commit, CommitFails, Done
<1>2. ASSUME ~Commit PROVE Visible' = Visible
  <2>1. tip' = tip
    BY <1>2 DEF Loop, TakeRequest, TakeRecorded, Flush, Stage, NothingToCommit, CommitFails
  <2> QED
    BY <1>1, <2>1, SameCounts
<1>3. ASSUME Commit PROVE Visible' = Visible \/ Atomic!Restructure
  <2>1. work.pc = "commit" /\ tip' = [id |-> tip.id + 1, digest |-> work.req.digest]
    BY <1>3 DEF Commit
  <2>2. ~LoopIsIdle
    BY <2>1, PlainNoReq DEF LoopIsIdle
  <2>3. tx.pc \notin {"down", "recover"}
    BY <1>3, IdleLoopStops DEF LoopInv, Loop
  <2>4. tx.pc \in {"apply", "rollback"} \/ Waiting => Unsettled
    BY DEF JournalInv, RequestInv, Waiting, Unsettled
  <2>5. CASE tx.pc \in {"idle", "lock"}
    <3>1. ~Unsettled /\ ~Unsettled'
      BY <1>1, <2>5 DEF JournalInv, NoJournal, Unsettled
    <3> QED
      BY <1>1, <3>1, StillSettled
  <2>6. CASE Unsettled /\ Plain(work.req)
    <3>1. journal.plan # NoPlan
      <4>1. Sound(journal.plan) /\ journal.plan \in Plans
        BY <2>6 DEF JournalInv, TypeOK, Journals, Unsettled
      <4> QED
        BY <4>1, SoundIsSome
    <3>2. tip'.digest = NoPlan
      BY <2>1, <2>6 DEF Plain
    <3>3. Unsettled'
      BY <1>1, <2>6, <3>1, <3>2 DEF Unsettled, DigestCommitted
    <3> QED
      BY <1>1, <2>6, <3>3, StillUnsettled
  <2>7. CASE Waiting /\ OursIsTaken
    <3>1. tip'.digest = journal.plan /\ tip'.id = tip.id + 1 /\ tip.id \in Nat /\ journal.head <= tip.id
          /\ journal.head \in Nat
      BY <2>1, <2>7 DEF OursIsTaken, Ours, Waiting, JournalInv, Forward, TypeOK, Journals
    <3>2. ~Unsettled'
      BY <1>1, <3>1 DEF Unsettled, DigestCommitted
    <3>3. \A t \in Aims(journal.plan) : Counts(t) => Now(t) = Wanted(journal.plan, t)
      BY <1>p, <2>7 DEF FilesInv, ForwardInv, Forward, Waiting
    <3> QED
      BY <1>1, <2>4, <2>7, <3>2, <3>3, RestructureStep
  <2> QED
    BY <2>2, <2>3, <2>4, <2>5, <2>6, <2>7 DEF RequestInv, OursIsLast, OursIsNext, TypeOK, Calls
<1> QED
  BY <1>2, <1>3

(* Every step is a step of the abstract restructuring, or changes nothing  *)
(* that counts.                                                            *)
LEMMA RefineStep ==
  ASSUME ~CancelInCommit, TypeOK, IInv, TypeOK', IInv', [Next]_vars
  PROVE  [Atomic!Next]_Visible
<1> USE DEF files, git, loop
<1>0. /\ JournalInv /\ FilesInv /\ LoopInv /\ RequestInv /\ JournalInv' /\ FilesInv' /\ Decidable
  BY DEF IInv, LoopInv, Decidable
<1>1. CASE Apply
  BY <1>0, <1>1, RefineApply DEF Atomic!Next
<1>2. CASE Loop
  BY <1>0, <1>2, RefineLoop DEF Atomic!Next
<1>3. CASE \/ UNCHANGED vars \/ Review \/ Crash \/ Restart
           \/ \E pinned \in BOOLEAN : StartRefactor(pinned)
           \/ \E q \in {From, To} : AddComment(q)
  <2>1. UNCHANGED <<disk, journal, tip>>
    BY <1>3 DEF vars, Review, Crash, Restart, StartRefactor, AddComment
  <2> QED
    BY <2>1, SameCounts
<1>4. ASSUME NEW p \in Pages, WritePage(p) PROVE [Atomic!Next]_Visible
  <2>1. tx.pc \in {"idle", "lock"} /\ UNCHANGED <<journal, tip>>
    BY <1>4 DEF WritePage, LockFree
  <2>2. ~Unsettled /\ ~Unsettled'
    BY <1>0, <2>1 DEF JournalInv, NoJournal, Unsettled
  <2>3. Visible = disk /\ Visible' = disk'
    BY <1>0, <2>2, StillSettled
  <2>4. disk' \in [Pages -> Content] /\ \A q \in Pages \ {p} : disk'[q] = disk[q]
    BY <1>4 DEF WritePage, TypeOK
  <2>5. Atomic!Edit(p) /\ p \in Atomic!Pages
    BY <2>3, <2>4 DEF Atomic!Edit, Atomic!Pages, Atomic!Content, Pages, Abs!Pages, Content, Abs!Content
  <2> QED
    BY <2>5 DEF Atomic!Next
<1> QED
  BY <1>1, <1>2, <1>3, <1>4 DEF Next

(* "either fully restructured and committed, or unchanged", step by step,  *)
(* as long as no caller's context ends while git commits.                  *)
THEOREM Refinement == ~CancelInCommit => (Spec => ImplementsAtomic)
<1> SUFFICES ASSUME ~CancelInCommit PROVE Spec => ImplementsAtomic
  OBVIOUS
<1>1. Init => Atomic!Init
  <2> SUFFICES ASSUME Init PROVE Atomic!Init
    OBVIOUS
  <2>1. TypeOK /\ ~Unsettled
    BY InitTypes DEF Init, NoJournal, Unsettled
  <2>2. FilesInv
    BY InitFiles
  <2>3. Visible = disk
    BY <2>1, <2>2, WhatCounts
  <2> QED
    BY <2>1, <2>3 DEF TypeOK, Atomic!Init, Atomic!Pages, Atomic!Content, Pages, Abs!Pages, Content, Abs!Content
<1>2. TypeOK /\ IInv /\ (TypeOK /\ IInv)' /\ [Next]_vars => [Atomic!Next]_Visible
  BY RefineStep
<1> QED
  BY <1>1, <1>2, PhasesAgree, PTL DEF Spec, ImplementsAtomic, Atomic!Spec
=============================================================================
