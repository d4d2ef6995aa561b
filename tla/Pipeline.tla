------------------------------- MODULE Pipeline -------------------------------
(***************************************************************************)
(* Pipeline.WriteWithOpts, Append, Delete, Rename, Observe and             *)
(* ObserveDelete (internal/pipeline/pipeline.go) over a git versioner that  *)
(* commits at once (versioning.async_commit = false) and indexes at once,  *)
(* with the two parties that do not take writeMu: whoever edits files in   *)
(* the workspace directly, and the watcher (internal/watcher/watcher.go)   *)
(* between reading a changed file and calling the pipeline.                *)
(*                                                                         *)
(* A page is the sequence of the stamps of its edits: a write starts a new *)
(* sequence, an append adds to it, <<>> is a page that is not there.  An   *)
(* ETag is a hash of the content, and so is the content itself here.       *)
(***************************************************************************)
EXTENDS Naturals, Sequences

CONSTANTS
  Paths,
  Clients,     \* API callers that read a page and write it back with If-Match
  Flushers,    \* goroutines in Watcher.flush
  MaxStamps,   \* bound: requests, direct edits and failures together
  MaxWindows,  \* bound: entries that expire
  MaxFails     \* bound: store writes, deletes, git commits and indexings that fail

ASSUME PipelineAssumption ==
  /\ {MaxStamps, MaxWindows, MaxFails} \subseteq Nat
  /\ "none" \notin Paths

VARIABLES
  disk,      \* disk[p]: the page in the store
  head,      \* head[p]: the page in the last commit
  staged,    \* staged[p]: the page in git's index
  index,     \* index[p]: what the search database has of p
  log,       \* paths in the uncommitted log
  inflight,  \* inflight[p]: the echo suppression entry of p
  dropping,  \* paths whose entry a timer will delete
  op,        \* the holder of writeMu and what it does next
  view,      \* view[c]: the page and content that c saw last
  pending,   \* Watcher.pending
  watch,     \* watch[f]: a flush: the paths it has, the file it read
  edited,    \* who changed p last is an editor (history)
  hidden,    \* pages with a change dropped, read too early or not made (history)
  untracked, \* pages whose commit failed and was not logged (history)
  stamp,     \* stamps given out so far
  windows,   \* entries expired so far
  fails      \* failures so far

vars == <<disk, head, staged, index, log, inflight, dropping, op, view, pending, watch,
          edited, hidden, untracked, stamp, windows, fails>>
echo    == <<inflight, dropping, windows>>
git     == <<head, staged>>
records == <<git, log, untracked>>

Absent  == <<>>
INSTANCE PageTables

NoPath  == "none"
NoEntry == [fresh |-> FALSE, etag |-> Absent]  \* an empty etag matches nothing
IdleOp  == [pc |-> "idle", kind |-> "put", path |-> NoPath, from |-> NoPath,
            content |-> Absent, base |-> Absent, guarded |-> FALSE, caller |-> NoPath]
IdleFlush == [pc |-> "idle", todo |-> {}, path |-> NoPath, content |-> Absent]

(* Every page is there, committed and indexed; each client has read one.   *)
Init ==
  /\ disk = [p \in Paths |-> <<0>>]
  /\ head = disk /\ staged = disk
  /\ index = [p \in Paths |-> Initially(disk[p])]
  /\ log = {}
  /\ inflight = [p \in Paths |-> NoEntry]
  /\ dropping = {}
  /\ op = IdleOp
  /\ view \in [Clients -> [path : Paths, content : {<<0>>}]]
  /\ pending = {}
  /\ watch = [f \in Flushers |-> IdleFlush]
  /\ edited = {} /\ hidden = {} /\ untracked = {}
  /\ stamp = 0 /\ windows = 0 /\ fails = 0

(* A request or an edit gets the next stamp; something fails.              *)
NextStamp == stamp + fails < MaxStamps /\ stamp' = stamp + 1
Fail      == stamp + fails < MaxStamps /\ fails < MaxFails /\ fails' = fails + 1

(* markInflightEtag; markInflight is the same with an empty etag.          *)
Marked(entries, p, etag) == [entries EXCEPT ![p] = [fresh |-> TRUE, etag |-> etag]]

-----------------------------------------------------------------------------
(* Requests: what they check and mark once they hold writeMu.              *)

Start(kind, caller, p, from, content, base, guarded) ==
  /\ op' = [IdleOp EXCEPT !.pc = "store", !.kind = kind, !.caller = caller, !.path = p, !.from = from,
                          !.content = content, !.base = base, !.guarded = guarded]
  /\ UNCHANGED <<disk, records, index, dropping, windows, view, pending, watch, edited, hidden, fails>>

(* If-Match: the page is what the client read, or it is not there.         *)
MatchesMutant(c, p) == view[c].path = p
Matches(c, p) == view[c].path = p /\ disk[p] \in {Absent, view[c].content}

WriteWithOpts(c, p, ifMatch) ==
  /\ op.pc = "idle" /\ NextStamp
  /\ ifMatch => Matches(c, p)
  /\ inflight' = Marked(inflight, p, <<stamp'>>)
  /\ Start("put", c, p, NoPath, <<stamp'>>, view[c].content, ifMatch)

(* The separator and the new text after what is there, which is read with  *)
(* the lock held.                                                          *)
AppendTo(p) ==
  /\ op.pc = "idle" /\ NextStamp
  /\ LET c == Append(disk[p], stamp') IN
     /\ inflight' = Marked(inflight, p, c)
     /\ Start("append", NoPath, p, NoPath, c, disk[p], TRUE)

DeletePage(p) ==
  /\ op.pc = "idle" /\ NextStamp
  /\ inflight' = Marked(inflight, p, Absent)
  /\ Start("delete", NoPath, p, NoPath, Absent, Absent, FALSE)

(* An existing page at the new path is overwritten.                        *)
Rename(p, q) ==
  /\ op.pc = "idle" /\ NextStamp /\ p # q /\ disk[p] # Absent
  /\ inflight' = Marked(Marked(inflight, q, disk[p]), p, Absent)
  /\ Start("rename", NoPath, q, p, disk[p], Absent, FALSE)

-----------------------------------------------------------------------------
(* Requests and observations, with writeMu held.                           *)

(* disk[p] becomes c; fsnotify tells the watcher.                          *)
SetDisk(p, c) == disk' = [disk EXCEPT ![p] = c] /\ pending' = pending \union {p}

NothingToDelete == op.kind = "delete" /\ disk[op.path] = Absent

Store ==
  /\ op.pc = "store" /\ ~NothingToDelete
  /\ SetDisk(op.path, op.content)
  /\ edited' = edited \ {op.path}
  /\ op' = [op EXCEPT !.pc = IF op.kind = "rename" THEN "remove" ELSE "commit",
                      !.base = Absent, !.guarded = FALSE]
  /\ UNCHANGED <<records, index, echo, view, watch, hidden, stamp, fails>>

(* Store.Write or Store.Delete fails, a delete of a file that is gone      *)
(* always: the request ends.                                               *)
StoreFails ==
  /\ op.pc = "store"
  /\ IF NothingToDelete THEN UNCHANGED fails ELSE Fail
  /\ op' = IdleOp
  /\ UNCHANGED <<disk, records, index, echo, view, pending, watch, edited, hidden, stamp>>

(* Rename's second half.                                                   *)
RemoveOld ==
  /\ op.pc = "remove" /\ disk[op.from] # Absent
  /\ SetDisk(op.from, Absent)
  /\ edited' = edited \ {op.from}
  /\ op' = [op EXCEPT !.pc = "commit"]
  /\ UNCHANGED <<records, index, echo, view, watch, hidden, stamp, fails>>

(* An error is logged and the path tracked; the rename goes on, and takes  *)
(* a page that is still there out of the indexes.                          *)
RemoveOldFails ==
  /\ op.pc = "remove"
  /\ IF disk[op.from] = Absent THEN UNCHANGED fails ELSE Fail
  /\ log' = log \union {op.from}
  /\ hidden' = IF disk[op.from] # Absent THEN hidden \union {op.from} ELSE hidden
  /\ op' = [op EXCEPT !.pc = "commit"]
  /\ UNCHANGED <<disk, git, untracked, index, echo, view, pending, watch, edited, stamp>>

OpPaths  == {op.path, op.from} \intersect Paths
Observes == op.kind \in {"observe", "observe delete"}
Removes  == op.kind \in {"delete", "observe delete"}

(* The operation's paths as they are on disk, next to what is staged.      *)
Added == [p \in Paths |-> IF p \in OpPaths THEN disk[p] ELSE staged[p]]

ToIndex == op' = [op EXCEPT !.pc = "index"]

(* git commit -m records all that is staged; nothing is recorded when git  *)
(* status shows no change of the operation's own paths.                    *)
Recorded(s) == /\ staged' = s
               /\ head' = IF \A p \in OpPaths : s[p] = head[p] THEN head ELSE s

Commit ==
  /\ op.pc = "commit" /\ ~Removes
  /\ Recorded(Added)
  /\ untracked' = untracked \ OpPaths
  /\ ToIndex
  /\ UNCHANGED <<disk, log, index, echo, view, pending, watch, edited, hidden, stamp, fails>>

(* git add or git commit fails, and commitAndTrack puts the paths in the   *)
(* uncommitted log.  Only BulkCommit, a rename's, unstages them.           *)
CommitFailsForgetting(fromAdd) ==
  /\ op.pc = "commit" /\ ~Removes /\ Fail
  /\ staged' = IF fromAdd THEN staged ELSE Added
  /\ ToIndex
  /\ UNCHANGED <<disk, log, head, untracked, index, echo, view, pending, watch, edited, hidden, stamp>>
CommitFails(fromAdd) ==
  /\ op.pc = "commit" /\ ~Removes /\ Fail
  /\ staged' = IF op.kind = "rename"
               THEN [p \in Paths |-> IF p \in OpPaths THEN head[p] ELSE staged[p]]
               ELSE IF fromAdd THEN staged ELSE Added
  /\ log' = log \union OpPaths
  /\ ToIndex
  /\ UNCHANGED <<disk, head, untracked, index, echo, view, pending, watch, edited, hidden, stamp>>

(* git rm --force takes a file that git tracks out of its index and out of *)
(* the working tree; for another, git add -A stages what is there.         *)
GitRm ==
  IF staged[op.path] = Absent \/ disk[op.path] = Absent THEN UNCHANGED <<disk, pending>>
  ELSE SetDisk(op.path, Absent)
Removed == [staged EXCEPT ![op.path] = IF staged[op.path] = Absent THEN disk[op.path] ELSE Absent]

CommitDelete ==
  /\ op.pc = "commit" /\ Removes
  /\ GitRm
  /\ Recorded(Removed)
  /\ untracked' = untracked \ OpPaths
  /\ ToIndex
  /\ UNCHANGED <<log, index, echo, view, watch, edited, hidden, stamp, fails>>

(* The error of git rm or of git commit is logged, the path is not.        *)
CommitDeleteFails(fromRm) ==
  /\ op.pc = "commit" /\ Removes /\ Fail
  /\ IF fromRm THEN UNCHANGED <<disk, pending, staged>> ELSE GitRm /\ staged' = Removed
  /\ untracked' = untracked \union OpPaths
  /\ ToIndex
  /\ UNCHANGED <<head, log, index, echo, view, watch, edited, hidden, stamp>>

(* The flush goes on when its call returns.                                *)
GoesOn(f) == [watch EXCEPT ![f] = [IdleFlush EXCEPT !.pc = "next", !.todo = watch[f].todo]]
ResumesMutant == IF op.kind = "observe" THEN GoesOn(op.caller) ELSE watch
Resumes == IF Observes THEN GoesOn(op.caller) ELSE watch

(* What the operation leaves at p, and the tables when the calls in        *)
(* lost[p] fail.                                                           *)
Final(p) == IF p = op.path THEN op.content ELSE Absent
IndexedMutant(lost) == [index EXCEPT ![op.path] = Reindexed(@, op.content, lost[op.path])]
Indexed(lost) ==
  [p \in Paths |-> IF p \in OpPaths THEN Reindexed(index[p], Final(p), lost[p]) ELSE index[p]]

(* indexFile and deindexFile take the content the operation has, not the   *)
(* file, and log the errors, where RemoveAll is one transaction; Observe   *)
(* then stamps it, and a writer is told its ETag.  The history gets the    *)
(* pages that were observed too late or not indexed whole, and loses those *)
(* that are right again.                                                   *)
Index(lost) ==
  /\ op.pc = "index"
  /\ \A p \in OpPaths : Final(p) = Absent => lost[p] \in {{}, Calls}
  /\ IF \A p \in OpPaths : lost[p] = {} THEN UNCHANGED fails ELSE Fail
  /\ index' = Indexed(lost)
  /\ inflight' = IF op.kind = "observe" THEN Marked(inflight, op.path, op.content) ELSE inflight
  /\ watch' = Resumes
  /\ hidden' = {p \in hidden \union {q \in OpPaths : Observes \/ lost[q] # {}} :
                   ~ Shows(index'[p], disk[p]) \/ head[p] # disk[p]}
  /\ view' = IF op.kind = "put"
             THEN [view EXCEPT ![op.caller] = [path |-> op.path, content |-> op.content]] ELSE view
  /\ op' = IdleOp
  /\ UNCHANGED <<disk, records, dropping, windows, pending, edited, stamp>>

-----------------------------------------------------------------------------
(* The two timers of an entry: after inflightWindow it counts only for its *)
(* etag, ten seconds later it goes, whatever is in it by then.             *)

WindowEnds(p) ==
  /\ inflight[p].fresh /\ windows < MaxWindows /\ windows' = windows + 1
  /\ inflight' = [inflight EXCEPT ![p].fresh = FALSE]
  /\ dropping' = dropping \union {p}
  /\ UNCHANGED <<disk, records, index, op, view, pending, watch, edited, hidden, stamp, fails>>

EntryDropped(p) ==
  /\ p \in dropping /\ UNCHANGED windows
  /\ inflight' = [inflight EXCEPT ![p] = NoEntry]
  /\ dropping' = dropping \ {p}
  /\ UNCHANGED <<disk, records, index, op, view, pending, watch, edited, hidden, stamp, fails>>

-----------------------------------------------------------------------------
(* Editors and the watcher, which do not hold writeMu.                     *)

EditTo(p, c) ==
  /\ SetDisk(p, c)
  /\ edited' = edited \union {p}
  /\ UNCHANGED <<records, index, echo, op, view, watch, hidden, fails>>

Edit(p)     == NextStamp /\ EditTo(p, <<stamp'>>)
EditAway(p) == NextStamp /\ disk[p] # Absent /\ EditTo(p, Absent)

(* A flush takes the pending paths; events after it start another one.     *)
FlushStart(f) ==
  /\ watch[f].pc = "idle" /\ pending # {}
  /\ watch' = [watch EXCEPT ![f] = [IdleFlush EXCEPT !.pc = "next", !.todo = pending]]
  /\ pending' = {}
  /\ UNCHANGED <<disk, records, index, echo, op, view, edited, hidden, stamp, fails>>

ReadFile(f, p) ==
  /\ watch[f].pc = "next" /\ p \in watch[f].todo
  /\ watch' = [watch EXCEPT ![f] = [pc |-> "check", todo |-> @.todo \ {p}, path |-> p, content |-> disk[p]]]
  /\ UNCHANGED <<disk, records, index, echo, op, view, pending, edited, hidden, stamp, fails>>

FlushDone(f) ==
  /\ watch[f].pc = "next" /\ watch[f].todo = {}
  /\ watch' = [watch EXCEPT ![f] = IdleFlush]
  /\ UNCHANGED <<disk, records, index, echo, op, view, pending, edited, hidden, stamp, fails>>

(* isInflight, and isInflightEtag for a file that is there.                *)
Echo(f) == LET e == inflight[watch[f].path] c == watch[f].content
           IN e.fresh \/ (c # Absent /\ c = e.etag)

(* Observe and ObserveDelete look at the entry before they ask for the     *)
(* lock.                                                                   *)
Check(f) ==
  /\ watch[f].pc = "check"
  /\ watch' = IF Echo(f) THEN GoesOn(f) ELSE [watch EXCEPT ![f].pc = "lock"]
  /\ hidden' = IF Echo(f) THEN hidden \union ({watch[f].path} \intersect edited) ELSE hidden
  /\ UNCHANGED <<disk, records, index, echo, op, view, pending, edited, stamp, fails>>

Lock(f) ==
  /\ watch[f].pc = "lock" /\ op.pc = "idle"
  /\ LET w == watch[f] IN
     op' = [IdleOp EXCEPT !.pc = "commit", !.path = w.path, !.content = w.content, !.caller = f,
                          !.kind = IF w.content = Absent THEN "observe delete" ELSE "observe"]
  /\ watch' = [watch EXCEPT ![f].pc = "locked"]
  /\ UNCHANGED <<disk, records, index, echo, view, pending, edited, hidden, stamp, fails>>

-----------------------------------------------------------------------------
RequestNext(p)    == \/ \E c \in Clients, ifMatch \in BOOLEAN : WriteWithOpts(c, p, ifMatch)
                     \/ AppendTo(p) \/ DeletePage(p) \/ \E q \in Paths : Rename(p, q)
OperationNext     == \/ Store \/ StoreFails \/ RemoveOld \/ RemoveOldFails
                     \/ Commit \/ CommitDelete
                     \/ \E lost \in [OpPaths -> SUBSET Calls] : Index(lost)
                     \/ \E early \in BOOLEAN : CommitFails(early) \/ CommitDeleteFails(early)
TimerNext(p)      == WindowEnds(p) \/ EntryDropped(p)
EditorNext(p)     == Edit(p) \/ EditAway(p)
FlushNext(f)      == FlushStart(f) \/ FlushDone(f) \/ Check(f) \/ Lock(f)
                     \/ \E p \in Paths : ReadFile(f, p)

Next == \/ \E p \in Paths : RequestNext(p) \/ TimerNext(p) \/ EditorNext(p)
        \/ OperationNext
        \/ \E f \in Flushers : FlushNext(f)

Spec == Init /\ [][Next]_vars

-----------------------------------------------------------------------------
(* Each variable has its type, and an observation is under way exactly     *)
(* when its flush waits for it.                                            *)
Pages == UNION {[1 .. n -> 0 .. MaxStamps] : n \in 0 .. MaxStamps + 1}
TypeOK ==
  /\ {disk, head, staged} \subseteq [Paths -> Pages]
  /\ index \in [Paths -> Tables(Pages)]
  /\ UNION {log, dropping, pending, edited, hidden, untracked} \subseteq Paths
  /\ inflight \in [Paths -> [fresh : BOOLEAN, etag : Pages]]
  /\ view \in [Clients -> [path : Paths, content : Pages]]
  /\ stamp \in 0 .. MaxStamps /\ windows \in 0 .. MaxWindows /\ fails \in 0 .. MaxFails
  /\ \A f \in Flushers : watch[f].pc = "locked" <=> (op.pc # "idle" /\ Observes /\ op.caller = f)

(* A write with If-Match, and an append, replaces the content its caller   *)
(* was shown (If-Match in WriteWithOpts, the read under writeMu in Append) *)
(* and never what another request put there since; only an edit made       *)
(* directly in the workspace can get between.                              *)
NoLostUpdate ==
  [][(op.guarded /\ op.pc = "store" /\ op'.pc = "commit" /\ op.path \notin edited)
       => disk[op.path] \in {Absent, op.base}]_vars

Settled == op.pc = "idle" /\ pending = {} /\ \A f \in Flushers : watch[f].pc = "idle"

(* Once no request and no event is left, search lists exactly the pages on *)
(* disk and finds each by what is in it (and by what was in it before),    *)
(* and links and metadata are those of the page on disk, whatever          *)
(* requests, direct edits and failures there were; except for a direct     *)
(* edit taken for the echo of a request, for a page observed with content  *)
(* that another request had already replaced, for an old page that a       *)
(* rename could not remove, and for one whose indexing failed.             *)
IndexAgrees == Settled => \A p \in Paths \ hidden : Shows(index[p], disk[p])

(* Once no request and no event is left, git's last commit holds what is   *)
(* on disk or the path waits in the uncommitted log; except for the same   *)
(* pages, and for deletes whose commit failed, which Delete and            *)
(* ObserveDelete only log.                                                 *)
CommittedOrOwed ==
  Settled => \A p \in Paths \ (hidden \union untracked) : head[p] = disk[p] \/ p \in log

(* "the file is already gone, we just need every index to catch up"        *)
(* (ObserveDelete), "without writing to disk" (Observe): handling an event *)
(* of the watcher changes no page of the workspace.                        *)
ObservingChangesNoPage ==
  [][(Observes /\ op.pc = "commit" /\ op'.pc = "index") => disk' = disk]_vars
=============================================================================
