# KiwiFS in TLA+

KiwiFS is a markdown file system for agents. REST, MCP, NFS, S3, WebDAV and FUSE
all end in one write pipeline: check the request, change a file under the
workspace root, commit it to git, bring the search index up to date, tell the
subscribers. Git, the indexes and the editors of a human owner share the same
working tree, the slow parts run in the background, and the process may die at
any point. This directory models that core: what is written, what is committed,
what is found, and what a crash leaves behind.

Paths below are relative to the repository; `internal/...` is meant where only a
file name is given.

## The modules

| module | models | in the code |
|---|---|---|
| `AsyncGit` | the background committer, its uncommitted log, restart | `versioning/async.go`, `versioning/record.go`, `Pipeline.DrainUncommitted` |
| `AsyncGitProofs` | theorems about `AsyncGit` | |
| `AsyncIndexer` | the background indexer beside the startup reconciliation | `pipeline/async_index.go`, `search/sqlite.go` |
| `IndexQueue` | what the background indexer promises | the same, as `BulkWriteIfMatch` relies on it |
| `AtomicRefactor` | what a restructuring promises | the contract at `pipeline/refactor.go` 248-256 |
| `RefactorTx` | how it is kept: plan, lock, journal, commit, rollback, recovery | `pipeline/refactor.go`, `pipeline/refactor_tx.go`, `versioning/git.go` |
| `PageTables` | what the search database has of one page | `search/sqlite.go`, `Pipeline.indexFileSync` |
| `Pipeline` | single requests, direct edits and the watcher over a synchronous git | `pipeline/pipeline.go`, `watcher/watcher.go`, `versioning/git.go` |
| `Vectors` | the embedding queue, its workers, skip markers, `Close` | `vectorstore/service.go` |
| `BulkWrite` | bulk writes with their rollback, over the `AsyncIndexer` and `Vectors` | `Pipeline.BulkWriteIfMatch`, `Stack.Close` |
| `Claims` | leases on pages beside restructurings | `claims/store.go`, `refactor/plan.go`, `pipeline/refactor.go` |
| `Drafts` | branches with worktrees, under several managers | `draft/manager.go`, `draft/pipeline.go` |
| `Webhooks` | deliveries, attempts, retries, `Close` | `webhooks/dispatch.go`, `webhooks/store.go` |
| `Numbering` | numbers given before the lock | `pipeline/sequences.go`, `pipeline/auto_sequence.go` |
| `Workflow` | cards that requests advance, assign and reorder on boards | `api/handlers_workflow.go`, `workflow/workflow.go` |
| `AsyncIndexerProofs`, `BulkWriteProofs`, `DraftsProofs`, `PipelineProofs`, `RefactorTxProofs`, `WorkflowProofs` | theorems about those modules (`BulkWriteProofs`: `Vectors` too) | |
| `ServicesProofs` | theorems about `Claims`, `Numbering`, `Webhooks` and the composition `MC_Services` | |
| `MC_*` | instances for TLC, one or more `.cfg` each | |

`PROJECT.json` maps every definition to the lines it stands for, and lists the
runs, the mutants that show each property can fail, the findings, the hazards and
the theorems.

Check a run with `tlc -config MC_AsyncGit.cfg MC_AsyncGit.tla`, a module's proofs
with `tlapm AsyncGitProofs.tla`.

## Inventory

For every component: its state, its operations, how it meets the others, what is
hard, and what makes it correct.

**Pipeline** (`pipeline/pipeline.go`). State: the files below the root,
`inflight` (recent writes, to recognise the watcher's echo), `uncommittedPaths` and
`.kiwi/state/uncommitted.log`, all changes under `writeMu`. Operations:
`WriteWithOpts`, `Append`, `Delete`, `Rename`, `RenameDir`, `BulkWrite`, `WriteStream`,
`Observe`, `ObserveDelete`, `CommitOnly`, `DrainUncommitted`. Calls storage, versioner,
searcher, vectors, links, hub. Hard: whoever edits the workspace directly does not
take `writeMu`; each operation is several steps any of which can fail; echo
suppression works by time. Correct if no conditional write loses an update, and if
what is on disk ends up committed and indexed.

**AsyncGit** (`versioning/async.go`). State: a channel of requests, a batch with one
actor, a window timer, the uncommitted log. Operations: `Commit`, `BulkCommit`,
`CommitDelete` (acknowledged when queued), `CommitRecorded` (waits for its commit),
`Close`. Hard: the acknowledgement precedes the commit; crash, full channel and
`Close` come between. Correct if no acknowledged change is forgotten, commits name
their authors, and no caller hangs with `writeMu` held.

**Git** (`versioning/git.go`). State: git's index and history. A commit stages the
paths it is given and then records the whole index. Hard: failures between staging
and commit, `git rm --force`.

**AsyncIndexer** (`pipeline/async_index.go`) and **search** (`search/sqlite.go`).
State: a channel, a batch, a timer, SQLite's tables (`doc_paths` with a row for each page
listed; `docs`, a contentless full text table that is only inserted into; links and
metadata, which are replaced). Operations: `Enqueue`,
`EnqueueDelete`, `Flush`, `Close`; `IndexBatch`, `Remove`, `Resync`. Hard: order within
a batch, two channels into one loop, `Resync` writing the same tables, errors that are
only logged. Correct if `Flush` covers what precedes it, nothing accepted is dropped, and
the tables end up listing the files and finding each by what is in it.

**Restructurings** (`pipeline/refactor.go`, `refactor_tx.go`, `refactor/`). A plan
(pure, without the lock) is applied under the lock: preconditions, pre-images in
a journal file, page writes, deletes, side files, one recorded commit, journal
removed; undone on an error, recovered at the next start. Hard: everything
between plan and lock, commits of other requests in the middle, a crash at any
step. Correct if atomic.

**Watcher** (`watcher/watcher.go`). State: the pending paths, a debounce timer.
Reads changed files and calls `Observe` / `ObserveDelete`. Hard: it reads before it
has the lock.

**Comments** (`comments/comments.go`). One JSON file per page, under a lock of its
own. Hard: restructurings move these files under another lock.

**Storage** (`storage/local.go`). Atomic replacement of single files (temporary
file, fsync, rename); operations can fail.

**Bootstrap** (`bootstrap/bootstrap.go`). At start `RecoverRefactor`, then
`DrainUncommitted`, then `Resync` in the background; at stop the components are closed
in a fixed order.

**Vector service** (`vectorstore/service.go`). State: a queue of 256 jobs, five
workers, a set of skip markers, the vector store. Operations: `Enqueue`,
`EnqueueDelete`, `SkipPath`, `Close`, and the workers' `Index`. Called by every index
update, by the `AsyncIndexer`'s flush and by `BulkWrite`'s rollback. Hard: a full queue
drops, no order among jobs of one page, markers that hit the wrong job, `Close`
against workers that may still take a job. Correct if the last job of a page
decides its vectors, and `Close` leaves nothing in the queue.

**Claims** (`claims/store.go`). State: one SQLite row per claimed path with a holder
and an expiry in whole seconds. Operations: `Claim` (also renewal and take-over of an
expired row), `Release`, `ExpireStale` by a ticker, `Rename` by a restructuring, which
read the table when it was planned. Hard: expiry at the edge of a second, a claim
between the move of the pages and the move of the claims, `Rename` in map order.
Correct if no two agents hold a lease on one page.

**Webhooks** (`webhooks/dispatch.go`). State: a queue, four workers, timers of retries,
a row for each attempt in the store. Operations: `Dispatch`, the workers, the timers,
`Close`, `Delete` of a webhook. Hard: retries that meet a full queue or `Close`.
Correct if attempts of one delivery follow one another and each delivery comes to an
end. **Hub** (`events/hub.go`): one lock and a non-blocking send per subscriber.

**Numbers** (`pipeline/sequences.go`, `auto_sequence.go`). State: counters in a file, and
the next number in memory, started from the index. Both are taken before `writeMu`.
Hard: requests that fail or overtake each other, restarts, an index that lags.
Correct if no number is used twice.

**Drafts** (`draft/`). State: git branches and worktrees, a manager's list, the manifest
on disk. Operations: `NewManager` (with `Cleanup`), `Create`, `Merge`, `Discard`, writes
through a pipeline per request. The server and every MCP backend have managers of their
own over one root. Hard: writes beside a merge, two managers, a crash in the middle.
Correct if an open draft keeps its work and a merge brings all of it.

**Workflow** (`api/handlers_workflow.go`, `workflow/workflow.go`). State: the cards, which are
the frontmatter of pages, and one JSON file per workflow. Operations: advance, assign
and reorder a card; save and delete a definition. Each request reads its card, the
definition and other cards without a lock, and writes through the pipeline with
`If-Match`. Hard: what was checked changes before the write; the owner edits cards and
definitions directly. Correct if cards move along transitions only, columns keep their
limits, and no card is started while one it waits for is open.

**Raw moves** (`pipeline/rawmoves.go`). Pairs a direct deletion with a creation of the
same content, by hashes and distances in time. Not modelled.

**Backup** (`backup/sync.go`). Pushes and rebases done by git in the working tree
without `writeMu`: a hazard, not modelled.

**Janitor, the other HTTP handlers, protocol servers, markdown, dataview, importers,
exporters, analytics, UI.** Read-only scans, adapters and text processing without
concurrent state of their own. Not modelled.

## How state and actions correspond to the code

### AsyncGit

A file is the stamp of the write that produced it. `disk`, `head` and `journal` are
the working tree, the last commit and the uncommitted log; `queue`, `batch`,
`batchActor`, `timer` are the channel and the locals of `run`; `call` is the one
caller that can be under way (it holds `writeMu`). `Change` is a pipeline operation up
to the call of the versioner; `JournalPaths`, `Send`, `SendAfterStop`, `Rollback` are the
steps of that call. `Dequeue`, `TimerFires`, `AppendReq`, `StopSeen`, `ChannelDrained` are
the branches of `run`'s select; `Flush...`, `ClearJournal`, `CommitNow...` its closures.
`ProcessEnds`, `Restart`, `DrainCommit`, `DrainRemovesLog` are a crash or an exit and the
next start. `Cancel` is a caller of `CommitRecorded` whose context ends: it rolls back, and a
request that was accepted stays in the channel, where the loop commits it later; each
synchronous request has a `done` of its own, so that its answer reaches nobody else
(`Heard`). A commit records what is on disk when it runs. Left out: git's index
(see `RefactorTx` and `Pipeline`), and the difference between `git add` and `git rm`.
A process that ends inside a `CommitRecorded` has its files put back by the ending
step itself, which stands for `RecoverRefactor` running before anything else, or keeps
them if the caller had given up and the commit landed (`MayBeCommitted`);
`RefactorTx` has that in detail.

### AsyncIndexer

`writer` is the holder of `writeMu` between the file and the channel. `index` has the
`rows` of `doc_paths`, the contents whose `words` were inserted in `docs` for each page,
and the content `meta` is from (links, `file_meta`, `page_records`). Nothing takes words
out: after an overwrite, or a deletion and a re-creation, a page is still found by what
it had before, until a full reindex drops the table. So the properties say that a listed
page exists and is found by its present words, and never that it is found by nothing
else. `Upserts` and `Deletes` are the two halves of `flushBatch`, with `Finish` for what
follows: `IndexBatch` is one transaction (`Inserted`), the links and metadata of each
request are written whether it succeeded or not (`Described`), and each call may fail
alone (`UpsertsFail`, `DeletesFail`). `Resync...` are the steps of `SQLite.Resync`
beside it: `ResyncSkips` is a page that cannot be read, indexed or removed, which is
logged and passed over, `ResyncAborts` an error in the query or in the walk. `Init`
allows every disagreement of tables and files that a crash can leave. `unindexed.log` is
written and removed by the code and read by nothing, so it is left out. Vectors get the
same requests in the same order as the search tables and are left out.

`IndexQueue` is the indexer as its callers see it: a queue of requests, the first so
many of which are applied to the tables in one step. `AsyncIndexer` implements it with
`queue <- Handed`, the batch followed by the channel, and `tables <- Shown`. Both change
when the upserts of a batch are written: `Shown` leaves the rows of the batch's deleted
pages out at once, though the deletes come later, and keeps their words. `After` keeps
what is peculiar to the code, that a deletion in a batch counts more than a later write
of the page (the run `indexer_order`).

### PageTables

What `Pipeline` and `BulkWrite` say of the search database, for one page: its row, the
contents its words are from, what its links and its metadata are from. `Reindexed` is the
page indexed with a content, or removed, with some of the three calls failing or not made;
`Shows` is what a reader of the page's content may expect: it is listed, found by its
words, and links and metadata are its own.

### AtomicRefactor and RefactorTx

The restructuring is a rename with pages that link to the renamed one and comments
on it. `tx` is the one `Refactor` call (or the recovery at start), with the steps it
still has to take; `journal` is the journal file; `staged`, `head`, `tip` are git's index,
last commit and its digest; `work` is what the commit loop does. A plan's digest is a
hash of what it read, so digests are equal when plans are. `RefactorTx` implements
`AtomicRefactor` under the mapping `Visible`: while a restructuring has not been
committed, the pages count as the journal's pre-images, because that is what the
next start puts back.

The rollback restores the files the restructuring has touched, recovery all of the
journal's. Left out: restores that fail (the code only logs them), the flush by `Close`,
partial staging, claims, emptied directories, index updates and broadcasts after the
commit, case-only renames. Cancellation has an effect at the check under the lock and in
`CommitRecorded` only, since the local store does not look at the context. Comments are
added but not resolved.

### Pipeline

Synchronous git and indexing (`versioning.async_commit = false`): the background
variants are the other modules. `op` is the holder of `writeMu` with its next step:
store, remove (a rename's old page), commit, index. `view` is what a client
read and will send back with `If-Match`. `inflight` and its two timers (`WindowEnds`,
`EntryDropped`) are the echo suppression; `pending` and `watch` the watcher and its
flushes. `CommitFails` and `CommitDeleteFails` take a flag for failing at `git add` / `git
rm` or at `git commit`. A commit records all that is staged, and nothing when the
operation's own paths show no change, as `git status -- path` decides.

The timers of several marks of one page are one member of `dropping`. The debounce of
the watcher is left open: any pending path may be flushed at any time. Three history
variables name the windows in which the code gives up agreement, so that the invariants
can say it holds everywhere else: `edited` (last changed directly), `hidden` (an edit
taken for an echo, a page observed with content already replaced, an old page a rename
could not remove, a page whose indexing failed in part or whole), `untracked` (a commit
of a deletion that failed and is only logged). Left out: crashes, `WriteStream`,
directory renames, hooks and broadcasts.

### Vectors and BulkWrite

A page's content is the stamp of its write, 0 for no page. `Vectors` has the service:
`Submit` is `submit`; `Take`, `RemoveOld`, `Upsert`, `JobFails` are a worker's `run` and
`Index`, which removes a page's chunks and inserts the new ones in two steps, so that
two workers on one page can mix them; `SkipExpires` is the timer of a marker;
`CloseService` and `Closed` are `Close`, whose own runs of what is left are those of the
last worker. `BulkWrite` calls it: `WriteFile`, `IndexSearch`, `IndexFile`, `Commit` are
the steps of `BulkWriteIfMatch` with `writeMu` held, `Restore` and `Requeue` those of
`rollback` for one file. The rollback puts back the row and the links; the words of the
aborted content stay in `docs`, and its metadata stays too, since `rollback` does not call
`IndexMeta`. `IndexBatch` is one transaction whose error is only logged, and any other
indexing call may fail as well (`Indexes`): `unindexed` has the pages concerned until they are
indexed whole again. `FlushOne` is the `AsyncIndexer` reduced to what matters here:
first in, first out, one request at a time, since nothing is deleted by requests in this
module; the theorems `BehavesAsQueue` and `OneAtATime` are the reason. `StackClose`
closes the vectors after the `AsyncIndexer`. Left out: restores that fail, which the
code ignores (with one failure per behaviour the failing step is the one that starts the
rollback); `Unstage`, which `Pipeline` and `RefactorTx` have; links.

### Claims

`rows` is the table, `at` where the pages are, `moving` the restructuring between its
plan and its claims, `tx` the transaction of `Rename`, open while the entries of the map
are moved one by one in any order. Time is in half seconds: a row knows whole seconds
(`Sec`), an agent is told the exact end. A restructuring may move several pages, also in
a chain or a swap. `lease` is what an agent believes. A lease is `settled` unless it was
granted while the pages had moved and their claims had not, or its page moved since: in
these windows the code gives no exclusion.

### Drafts

A branch or a worktree is the set of the writes in it, so that a fast-forward is
possible if one set contains the other. `task` is what holds a manager's lock, with one
step per git call and per half of `os.WriteFile` on the manifest. `write` is a request
with a pipeline of its own: it looks the draft up once and goes on when the draft is
merged or discarded meanwhile. `Crash` ends every process; managers start again with
`StartManager`. What git does is taken from how the manager uses it; a merge that fails,
for whatever reason, changes nothing (`MergeFails`). `HEAD` of the root is the default
branch.

### Webhooks

`sending` is the loop of `Dispatch` over what `FindMatching` returned; `posting` a worker
between `RecordDelivery` and the answer; `timers` the pending `AfterFunc`s. `fate` is a
history of what became of a delivery. The store's errors are left out. A webhook
that is deleted is still posted by jobs that carry a copy of it, as in the code.

### Numbering

`counter` is a directory's entry in `sequences.json`, `next` the `AutoSequencer`'s memory (0
before it is read). `NumberAppend`, `NumberPage` and `OwnNumber` (a page whose client gave
it a number, which the memory is not told) are before the lock, `Place` under it.
`stale` records that the memory was started from an index that lacked a page. Pages are
not deleted or renumbered in this module, and there is one process: a second one over the
same `sequences.json` has a mutex and a memory of its own, and would give the same numbers.

### Workflow

`page` is a card of each page (`NoCard` if the page does not exist), `board` the
definitions, `move` the requests under way with what they have read: the card, the
definition, the column counted so far, the blockers found open. `Advance`, `LoadBoard`,
`CountCard`, `WithinLimit`, `CheckMove`, `ReadBlocker`, `Unblocked`, `WriteCard` are the
steps of `AdvanceWorkflow`, one per page read, and `SkipPage` a page a walk cannot read
or parse; `Assign` and `AssignReads`, `Reorder` those of the other two up to the write;
`Refuse` every way to fail. Of the walk over all pages for blockers only the reads of
blockers are steps. `EditCard` and `EditBoard` are everybody else. `entered`, `upset`
and `stale` are histories: what entered the column or was skipped, which blockers were
changed in a way that may reopen them (`Reopens`) or were skipped, and whether the
definition was replaced, since the request read them. A definition may have transitions
out of a `done` or `cancelled` it does not mark terminal, which is how cards are
reopened: `Reopens` names these advances. A card has one ordinal of two, references
between cards are resolved, and names of states are compared exactly (an assignment also
accepts another spelling). That `If-Match` admits a page that is gone is part of
`Matches`: such a write creates the page again from what the request read.

## Runs

| run | result | what it shows |
|---|---|---|
| `asyncgit` | holds | No acknowledged change is dropped by the loop through a failed commit, a full channel, synchronous commits, `Close` and a crash (`AckedIsCarried`); a batch has one author (`NeverMixesAuthors`); a synchronous commit lands after what was queued (`SyncLandsAfterQueued`); all that with callers of synchronous commits giving up at any point; acknowledged changes are committed without further traffic, `Close` returns, callers return |
| `asyncgit_journal` | violated | `JournalCoversQueue`: a flush removes the whole log, entries of queued requests included |
| `indexer` | holds | `Flush` covers every change handed over before it, `Close` processes everything, no settled page is listed without being there or without its present words, `Resync` reconciles what it can read, both ends are reached |
| `indexer_order` | violated | `IndexCatchesUp`: delete and rewrite in one batch lose the page from the index |
| `refactor` | holds | the restructuring implements `AtomicRefactor`, page and comment files included, applies only what was reviewed, and leaves nothing uncommitted |
| `refactor_wait` | holds | the same for a context that ends while git commits, without a crash; and `Refactor` returns (`ReturnsWholeOrUnchanged`) |
| `refactor_unseen` | violated | `NothingUnseenIsOverwritten`: the destination is not checked again under the lock |
| `refactor_cancel` | violated | `WholeOrUnchanged`: cancelled while git commits, then a crash in the rollback |
| `pipeline` | holds | no conditional write or append replaces what its caller has not seen; search lists and finds what is on disk, links, metadata and last commit are those on disk, except in the named windows |
| `bulkwrite` | holds | a bulk write replaces all of its files or none (`BulkIsAtomic`); search and vectors settle on the pages, except for failed indexing, dropped, skipped or raced jobs and aborted content behind the `AsyncIndexer`; the queue drains (`QueueDrains`) and `Close` leaves no job |
| `services` | holds | leases exclude each other to the half second, and claims move with their pages; open drafts keep their work and merges carry it; attempts of a delivery follow one another and end; no number is given twice; advances follow the board, and no card is started while a blocker is open |
| `pipeline_lost` | violated | `ObservingChangesNoPage`: `git rm --force` removes a page created again |

Each violated property quotes a comment or a document of the repository; the
`findings` in `PROJECT.json` give the line and the story.

Exceptions written into properties that hold are deliberate, and each has its
finding or hazard: a crash or a call racing `Close` (`lost`), a failed flush (which is
not retried until the next request), pages changed while `Resync` runs (`raced`), failed
index transactions and pages `Resync` skipped (`missed`, `unindexed`), metadata of aborted
content, comments added during a restructuring, the
windows of `Pipeline` above, embedding jobs that were dropped, skipped or raced (`last`),
leases that are not `settled`, claims of a path one page leaves
and another enters, page numbers after a `stale`
start, numbers that clients chose, cards that entered a column while it was counted
or that the walk could not read (two advances can together exceed its limit), and blockers
that were skipped, or reopened by an assignment, a direct edit, another definition or an
advance out of a `done` or `cancelled` that is not terminal.

`MC_Services` extends `Claims`, `Drafts`, `Numbering`, `Webhooks` and `Workflow` (whose
`Init`, `Next`, `Spec` and `TypeOK` carry their module's name for that, except those of
`Claims`): `part` chooses one of the five at the start and the others stand still. They
share no state in the code either, so the run checks each of them alone; fairness is
that of `Webhooks`.

## Bounds

Small, and chosen so that every limit in the code is reached.

- `AsyncGit`: two paths, two actors; a channel of one and a batch of two, so that
  both fill; two writes (each of one path or two), one failed commit, one end of the
  process. Two writes are enough for one to wait in the channel while the other is
  committed, which is where paths can be lost. The theorems cover any number of each.
- `AsyncIndexer`: one path, since requests for different pages meet only in batch
  order, which the code groups by kind alone; the page may be there at the start, so
  that two changes reach delete-write, write-write and write-delete in one batch.
  Channel and batch as above. One call, transaction or read fails.
- `RefactorTx`: three pages (source, destination, one that links), one other write,
  one comment, one failure, one cancellation and one crash in a single behaviour.
  A second linking page adds steps to apply and undo of the same kind.
  Retries of stale plans are in `refactor_wait` (`StaleRetries` 1), where a run can
  use its retry up; they are 0 in `refactor` for size.
- `BulkWrite`: two pages, batches of one or two files, two writes, one failure, a queue
  of two and two workers: a full queue, two jobs of one page at a time, and a rollback
  of both files with their old jobs still queued all occur.
- `Claims`: two agents, two pages on three paths, leases of half a second, one
  restructuring of one page or both: side by side, in a chain or a swap, with the map
  walked in either order. Longer chains are covered by the theorems.
- `Drafts`: two managers, one draft, two writes, one failure or crash. The second draft
  matters only to the manifest, which the properties do not promise.
- `Webhooks`: two webhooks, one event, a queue of one, two workers, two retries: the
  queue is full for first sends and for retries.
- `Numbering`: three requests of any kind, clients' numbers up to two, one restart.
- `Workflow`: two cards, one of which may block the other, two requests at a time, and
  two requests, edits or changes of a definition, from every combination of cards in
  which one of the two may be waited for, and four definitions (one limits a column to
  one card, one has a transition out of a terminal `done`, one has the same with nothing
  terminal, one does not exist). The limit is reached and both requests can be past
  their checks when the other writes.
- `Pipeline`: two interchangeable pages, so that a rename has both of its ends, one
  client, one flush at a time, three stamps for requests, edits and failures
  together, one expired window.

All bounds are constants named `Max...`; the theorems hold for every value of them
(`MaxActive` and `MaxRetries` are limits of the code itself).

## Fairness

`AsyncGit` and `RefactorTx` assume weak fairness of the caller and of the loop, and
`AsyncGit` also of the drain at start: these are goroutines that are never descheduled
for ever, a git command is ended after 30 seconds (`gitCmdTimeout`), and every select of
the code has a branch that is enabled whenever the corresponding action is.
`AsyncIndexer` adds strong fairness of `SendFlush`, because the runtime serves
goroutines blocked on a full channel in the order they came. Nothing is assumed of
requests, edits, failures, cancellations, crashes, `Close` or restart: they may happen
or not. `BulkWrite` assumes weak fairness of the request that holds `writeMu`, of the
indexer's loop and of the workers with `Close`; `Webhooks` of its workers (a post has a
timeout of 30 seconds) and timers. `Pipeline`, `Claims`, `Drafts`, `Numbering` and
`Workflow` state safety only.

## What is proved

`AsyncGitProofs` proves about `AsyncGit`, for all sets of paths and actors, all
capacities and all bounds, from `ConstantsAssumption` alone (`DefaultActor` is an actor,
capacities are positive):

- `TypeCorrect`: `Spec => []TypeOK`;
- `Inductive`: every step from a state with `TypeOK` and `IInv` leads to one with `IInv`
  (with `InitIInv` and `TypeCorrect` this gives `Spec => [](TypeOK /\ IInv)`, the lemma
  `Invariant` the next three follow from);
- `NothingForgotten`: `Spec => []AckedIsCarried`;
- `OneAuthorPerBatch`: `Spec => []NeverMixesAuthors`;
- `SyncInOrder`: `Spec => []SyncLandsAfterQueued`;
- `AnswersFindCallers`: `Spec => []AnswersFindCaller`: a caller that waits for a synchronous
  commit has its request in the channel or in the hands of the loop, once, and no other
  request there has the same channel for its answer, though requests of callers that gave
  up may be before it and after it.

`AckedIsCarried` is not inductive. A path can be counted as carried by something that
is about to let go of it: a synchronous request whose files are rolled back when its
commit fails, or a batch that has just been committed. `IInv` strengthens it part by
part:

- `LoopInv` says which request the loop holds where it is, and that it leaves only
  after `Close`;
- `DrainInv` and `DownInv` say that the drain at start comes first, and that a stopped
  process has everything it owes in the log (that is what makes `Restart` safe);
- `StampInv` orders the stamps: what a rollback restores is not older than what was
  acknowledged;
- `LateInv` says that what is sent to a leaving loop is already counted as lost, so
  that an empty channel is enough to leave;
- `CarryInv` is `AckedIsCarried` with only asynchronous carriers counted, and a
  committed batch not counted;
- `AuthorInv` covers the author of the request on its way into the batch, and an
  empty batch at a synchronous commit.

The proofs of `TypeCorrect` and `Inductive` have one step per action, and under it one per
part of the invariant the action can disturb; lemmas about requests and about what an
append adds to the batch come before them.

`AsyncIndexerProofs` proves from `IndexerAssumption` (the capacities are positive, and
`none` is no waiter), for all pages, callers and bounds:

- `TypeCorrect`: `Spec => []TypeOK`;
- `FlushCovers`: `Spec => []FlushCoversEarlierWrites`;
- `CloseCovers`: `Spec => []CloseProcessesAll`;
- `NeverStaleHolds`: `Spec => []NeverStale`;
- `ResyncReconcilesHolds`: `Spec => []ResyncReconciles`;
- `BehavesAsQueue`: every step of `Spec` but a failing transaction is a step of
  `IndexQueue` under the mapping of that section, or changes nothing of it;
- `ImplementsQueue`: `Spec /\ [](fails = 0)` implements `IndexQueue!Spec`;
- `OneAtATime`: adding a request to those applied together has the effect of applying it
  after them, unless it is an upsert of a page one of them deletes. Without deletions, as
  in `BulkWrite`, batches of any size do what their requests do one after the other.

The last three have no run of their own. They need no more than `TypeOK`, and facts about a
sequence followed by another (`JoinedSequences`): taking a request from the channel leaves
the batch followed by the channel as it was.

The invariant `Inv` of `FlushCovers` and `CloseCovers` says that every change handed
over is in an earlier transaction, in the batch or in the channel (`Carried`); that a
loop which answers a waiter has taken everything this waiter wants out of the channel
before it flushes (`Answering`), and everything there is before it leaves (`Stopping`).
Neither `FlushCoversEarlierWrites` nor `CloseProcessesAll` is inductive: both speak of
the end of a flush, and what makes them true happened when the channel was seen empty.
The other two need `TablesInv`, which adds where the newest change of a page is and what
it makes of the tables (`Newest`). That rests on the order of all changes under way: the
batch before the channel before the writer (`Queued`), each newer than what was
processed of its page and older than what the pipeline will hand over next (`Ordered`).
`Reconciling` says, for a page nobody has changed yet, what `Resync` has done about it
so far: listed, met on disk, held for indexing, to be removed.

`RefactorTxProofs` proves, for all sets of pages and comments and all bounds, from
`RefactorAssumption` (source and destination are two pages, finitely many others link):

- `TypeCorrect`: `Spec => []TypeOK`;
- `PhasesAgree`: `Spec => [](TypeOK /\ IInv)`;
- `QuietCommitted`: `Spec => []QuietIsCommitted`;
- `ReviewedApplied`: `Spec => ReviewedIsApplied`;
- `WholeOrUnchangedHolds`: `Decidable => (Spec => WholeOrUnchanged)`;
- `Refinement`: `~CancelInCommit => (Spec => ImplementsAtomic)`.

The last two have a hypothesis because the code breaks the property without it: a
context that ends while git commits leaves the commit loop with a request whose caller
rolls back, and a crash then makes recovery take the half restored files for committed
(the finding of `refactor_cancel`). `Decidable` excludes exactly the two together; the
refinement excludes the first, since the commit can then land in the middle of the
rollback, and `Visible` takes what is half restored for the outcome. `IInv` is needed
since what the properties say at the end is decided at the first file:

- `JournalInv`: in which phase the journal exists, that it is that of the plan under way, and
  that its pre-images of the files the plan read are what was planned on (the check
  under the lock);
- `PinnedInv`: a plan with a digest is the reviewed one;
- `FilesInv`: every file the plan is about holds what is wanted, or a step that gives it
  that value is still to come, and an untouched file holds its pre-image; likewise in the
  rollback and in recovery with pre-images as the aim. Comment files count until
  somebody comments;
- `LoopInv`: the restructuring's request is last in the commit loop's queue, next, or being
  committed, while its caller waits, and nowhere when nobody waits;
- `CommitInv`: without failures, a page that differs from the last commit is on its way to
  the loop or in its batch.

`PipelineProofs` proves from `PipelineAssumption` (`none` is no path, the bounds are natural
numbers), for all paths, clients and flushes:

- `TypeCorrect`: `Spec => []TypeOK`;
- `NoUpdateLost`: `Spec => NoLostUpdate`;
- `IndexAgreesHolds`: `Spec => []IndexAgrees`;
- `CommittedOrOwedHolds`: `Spec => []CommittedOrOwed`.

The last two speak of quiet states only. The invariant follows each page through the
operation: one that no operation works on is indexed and committed (or owed) as it is,
unless an edit of it is still on its way through the watcher (`QuietAt`, `Due`); one that a
request works on holds what the request is about to index, and has been committed
before it is indexed (`RequestAt`); git's index differs from the last commit by what is
owed only (`StagedInv`); a flush holds the lock exactly while its observation runs
(`WatchShape`). `Guarded` is what `NoLostUpdate` needs: what a guarded request is about to
replace is what its caller was shown, or a direct edit came between. Types are by
stamp (`Upto`), because an append makes pages longer.

`BulkWriteProofs` proves from `VectorsAssumption` and `BulkAssumption` (a queue of at
least one, bounds that are natural numbers, modes that are Booleans), for all paths,
workers and files:

- `Invariance`: `Spec => []Inv`, and `TypeCorrect`: `Spec => []TypeOK`;
- `BulkAtomic`: `Spec => BulkIsAtomic`;
- `SearchSettlesHolds`: `Spec => []SearchSettles`;
- `VectorsSettleHolds`: `Spec => []VectorsSettle`;
- `CloseRunsAllHolds`: `Spec => []CloseRunsAll`.

`DiskInv` says that while files are written or restored the pages are those of the first
so many new files and otherwise the old ones (`Mixed`), which makes a return all or
nothing. `SearchInv` and `VectorInv` say, for every stage of the bulk write, where the tables
and the last job of each page will end up once all that is queued has run
(`LastPending`, `NonePending`, `Sought`): at the old content, the new one, or either while a
rollback is under way, with aborted contents allowed behind an `AsyncIndexer` (`Spoilt`).
`JobsInv` is about the service alone: jobs of a page are numbered in the order of
submission, which is the queue's; a job that no other job of the page ran beside has the
page's chunks for itself; a page that waits has its last job somewhere. `CloseInv` says
that `Close` comes after requests and indexer, and returns with nothing left.

`ServicesProofs` has the theorems about three small modules and about the composition of
all five. From `ClaimsAssumption`, for all agents, pages, paths and durations:

- `TypeCorrect`: `Spec => []TypeOK`;
- `LeaseExclusion`: `Spec => []ExclusiveLease`. The invariant: a settled lease that has not
  ended has a row, at the path its page is at, with the holder's name and an expiry
  of at least the second the lease ends in; while a transaction is open its copy says
  so too. Rows are unique, so holders are.
- `OrderDoesNotMatter`: `Spec => ClaimsMoveAtOnce`, for every path that is not left by
  one page and entered by another in the same restructuring, from an invariant that
  compares the transaction's copy with the rows moved so far.

About `Numbering`, from `NumberingAssumption` (finitely many requests, bounds that are
natural numbers), `NumbersAreUnique`: `NumberingSpec => []NumbersOnce`, and
`NumbersAreBounded`: `NumberingSpec => []NumberingTypeOK`. The invariant of the first
orders every number under way or placed below its counter, and adds that the numbers are
bounded, so that `Greatest` exists. That a bounded set of numbers has a greatest element
(`HasGreatest`, which `AsyncIndexerProofs` needs as well) is proved from the
well-foundedness of `<` on the natural numbers. The second needs a count (`Counted`): a
request raises the counter, or the greatest number of a page, by one at most, and a
restart gives no request back; so nothing exceeds what clients chose by more than the
requests that have started, of which there are no more than there are requests.

About `Webhooks`, from `WebhooksAssumption` (the capacity and the number of retries are
natural numbers), for any webhooks, events and workers, `WebhooksTyped`: `WebhooksSpec
=> []WebhooksTypeOK`, and `OneAttemptAtATime`: `WebhooksSpec =>
[]AttemptsFollowOneAnother`. `WebhooksInv` says for each pair of a webhook and an event
that it has at most one job, in one of the three places a job can be (`OneJob`), and
only while it is under way; and how many attempts the store has for a job in each place,
all failed but the one that is posted (`Logged`).

About the composition: `PartsBehave` says that a behaviour of `MCSpec` is one of `Spec`,
`DraftsSpec`, `NumberingSpec`, `WorkflowSpec` and of `WebhooksSpec` without its fairness,
since each step of one part leaves the variables of the others alone. Hence `TypesCorrect`:
`MCSpec => []TypesOK`, and `PartsKeepPromises`: `MCSpec` has every other property the run
checks, `DeliveriesSettle` excepted. This is why the run may put five parts beside each
other, and why its instance and the theorems speak of the same thing.

`DraftsProofs` proves, from `DraftsAssumption` (`main` and `none` are not names of drafts, and
`MaxTrouble` is a natural number):

- `DraftsInvariance`: `DraftsSpec => []DraftsInv`, and `DraftsTyped`: `DraftsSpec =>
  []DraftsTypeOK`;
- `WorkIsKept`: `DraftsSpec => []OpenDraftsKeepWork`;
- `MergeCarries`: `DraftsSpec => MergeKeepsAcked`.

The invariant `DraftsInv` says which manager may know which draft at each step of its task
(`Tasks`, `Known`), that a request's write is in the worktree while there is one
(`Writing`), and that a merge under way has what was acknowledged in the worktree,
then on the branch (`Merging`). It is needed because two managers share a root: a
draft is closed before the other manager can find its worktree missing.

`WorkflowProofs` proves from `WorkflowAssumption` (finitely many cards, definitions with
limits in the natural numbers), for any cards, requests and definitions:

- `WorkflowTyped`: `WorkflowSpec => []WorkflowTypeOK`;
- `MovesAreAllowed`: `WorkflowSpec => MovesFollowBoard`;
- `StartedFree`: `WorkflowSpec => StartedIsUnblocked`.

The invariant `MoveInv` says what a request still knows past each of its walks: every
other card of its column was counted, was skipped or has entered since (`CountInv`), its
transition is one of the definition (`PassInv`), every blocker is free, still to be
read, found open, skipped, or reopened by what the property excepts (`BlockInv`). The
step that needs an argument is another request's write (`StaysFinished`): one that
follows the current definition takes no card out of a terminal state, even if a file
that nobody validated has a transition out of it, because the handler looks at the state
first.

Model-checked only: the liveness properties, since fairness and `ENABLED` are beyond the
proof system (`AckedIsCommitted`, `CallReturns`, `CloseReturns` of `AsyncGit`;
`ChangesAreProcessed` and `FlushIsAnswered` of `AsyncIndexer`; `ReturnsWholeOrUnchanged`
of `RefactorTx`; `QueueDrains` of `BulkWrite`; `DeliveriesSettle` of `Webhooks`). Every
invariant and every action property that a passing run checks is a theorem.

## Not modelled

- Queries, ranking, markdown, dataview, importers' sources, exporters, analytics, the
  UI: text processing and presentation; their correctness is in values, not in
  interleavings, and a model of them would repeat the code.
- The protocol servers and the other HTTP handlers: adapters to the pipeline, whose side
  of each call is modelled.
- The hub: losing an event of a slow subscriber is its design.
- Backup and raw moves: git's rebase, and hashes with wall-clock distances.
- Importers' scheduler: after a crash the stored status `running` keeps a connection
  from being synchronised again (`importer/sync_scheduler.go:106`), which no code
  repairs.
- A crash inside a plain `Rename` (`pipeline.go:1066`), a comment added beside a
  restructuring, an index that is stale after a crash, words of former contents that
  stay searchable, metadata that a rollback does not restore, restores that fail, two
  processes over one `sequences.json`: the code does not handle them and no document
  promises anything (the comment on `RemoveAll`, `search/sqlite.go:970`, says that it
  drops the FTS row; it drops the row of `doc_paths`, without which no search lists the
  page).

## What could come next

In the order of what it would add: crashes in `Pipeline` and a restart with
`DrainUncommitted` over its own log; several restructurings in a row beside edits of the
owner; links and vectors behind the `AsyncIndexer`; the drains and reconciliations at start
as one composed module with `AsyncGit`, `AsyncIndexer` and `RefactorTx`.

No module uses a RECURSIVE operator, so all of them can be proved about.
