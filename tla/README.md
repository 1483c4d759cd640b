# TLA+ models of pgrust

pgrust is PostgreSQL 18 rewritten in Rust: one process, a thread per backend,
shared memory as ordinary statics, and PostgreSQL's locking, transaction, WAL
and recovery protocols translated function by function (the crates under
`crates/backend` keep the names of the C files). This directory models the
protocols that make several backends safe together, checks them with TLC on
small instances and proves some of them with TLAPS for every instance.

## Inventory

Each line: the state a part keeps, its operations, what is hard about it.

| Part | State | Operations | What is hard |
|---|---|---|---|
| Lightweight locks (`storage/lmgr/lwlock`) | one atomic word, an intrusive wait list, a variable beside the WAL locks, `held_lwlocks`, the holdoff count | acquire, conditional acquire, acquire-or-wait, wait-for-var, update-var, release, release-all, reset after crash | every atomic operation interleaves; lost wakeups; the shared fetch-add (DIVERGENCE D1) |
| Semaphores and parking (`port/pg_sema`, `storage/ipc/waiter`) | a count and a parked handle; a table of parking slots with tokens | lock, unlock, reset, park, unpark, retire | publish-then-recheck races, stale tokens, timeouts racing posts |
| Latches and condition variables (`storage/ipc/latch`, `storage/lmgr/condition_variable`) | `is_set`, owner; a wait list of processes | set, reset, wait; prepare, sleep, cancel, signal, broadcast | set before wait, signal passed on by a canceller |
| Heavyweight locks (`storage/lmgr/lock`, `deadlock`, `lmgr_proc`) | LOCK and PROCLOCK tables, fast-path slots, wait queues | acquire, release, deadlock check, queue rearrangement | soft and hard deadlocks, fast-path transfer |
| Predicate locks (`storage/lmgr/predicate`) | SIREAD locks, rw-conflicts | conflict checks, commit, cleanup | serializability |
| ProcArray and snapshots (`storage/ipc/procarray`, `utils/time/snapmgr`) | per-backend xid, xmin, subxids; `latestCompletedXid`, `xactCompletionCount` | GetSnapshotData, end of transaction, group clear, horizons | a snapshot races commits; group clearing by a leader |
| Transaction status (`access/transam/clog`, `slru`, `subtrans`, `multixact`, `varsup`, `xact`, `twophase`) | commit log pages, next xid, two-phase state | assign, commit, abort, subcommit, group update | atomic commit of a tree, page replacement, crash between steps |
| WAL (`access/transam/transam_xlog`, `xloginsert`, `xlogrecovery`) | insert position, insertion locks, buffers, write and flush positions | insert, copy, flush, checkpoint, replay | WAL before data, insertion holes, group flush |
| Buffers and I/O (`storage/buffer/bufmgr`, `storage/aio`, `storage/sync`) | buffer headers, mapping table, content locks, fsync queue | pin, lookup, evict, write, checkpoint | eviction races lookups, lost fsync requests |
| Shared invalidation (`storage/ipc/sinval`) | a ring of messages, per-backend positions, reset flags | insert, get, cleanup, catchup | overrun, reset, out-of-order readers |
| Message queues, barriers, signals (`storage/ipc/shm_mq`, `pg_barrier`, `procsignal`, `dsm_core`) | ring, phases, generations | send, receive, detach, arrive, barrier emit and absorb | detach races, generation checks |
| Parallel runtime (`executor/runtime`, `access/transam/parallel`) | morsel scheduler, funnels, standing workers | claim, run, park, retire | worker retirement races new work |
| Postmaster (`postmaster/*`) | child slots, state machine | launch, reap, shutdown, crash restart | ordering of child exits and requests |
| Replication (`replication/*`) | slots, standby positions, sync-rep queues, snapshot builder | wait, release, advance, decode | a standby's answer races cancel |

The rest (parser, planner, executor nodes, catalog, types, regex, client
library, contrib) is sequential within a backend and is not a subject of these
models.

Correctness, per part: locks exclude and wake; a sleeper with something to wake
for is woken; a snapshot shows a fixed, ordered set of whole transactions and
keeps what it needs from vacuum; a final status stays; nothing flushed is lost
and nothing unflushed is promised; a lock graph without cycles makes progress and
one with a cycle is broken; a reader of invalidations never trusts a stale cache
after the message was there; a buffer is one page at a time; a queue, ring or
barrier neither loses nor invents an element; a requested shutdown or barrier
completes. `PROJECT.json` lists every part with what is modelled of it, and the
hazards, each at its line.

## Modules

| Module | What it is |
|---|---|
| `RWLock` | what a lightweight lock promises: shared and exclusive holders |
| `ProcList` | the intrusive lists of processes |
| `LWLock` | the lightweight locks; refines `RWLock` |
| `Waiter` | parking slots, tokens, condvar and pipe wakes |
| `PgSema`, `Latch` | the semaphore and the latch (and `WaitEventSetWait`) over `Waiter` |
| `Parking` | composes the three with threads and PGPROCs that come and go |
| `GroupClear` | the group end of transactions under ProcArrayLock |
| `TransactionLog` | pg_xact and pg_subtrans, as other backends see them |
| `ProcArray` | xid assignment, the array, snapshots, in-progress tests, horizons |
| `SnapMgr` | active, registered and catalog snapshots and the advertised xmin |
| `Xact` | composes the last three: transactions, subtransactions, two-phase commit |
| `LockTable` | the shared entry of a heavyweight lock and the operations on it |
| `DeadLock` | the deadlock check over such entries |
| `LockMgr` | relation locks: composes the two with the fast path and the local tables |
| `Sinval` | the ring of shared invalidation messages |
| `Wal` | what the write-ahead log promises its callers |
| `XLog` | the log's buffers, insertion locks, writes and flushes; refines `Wal` |
| `Slru` | pg_xact as pages in a bounded cache and in files |
| `HeapPage` | one data page in its buffer and in its file |
| `Durability` | composes `Wal`, `Slru` and `HeapPage`: commits, checkpoints, crashes, replay |
| `MC*` | instances for TLC |
| `LWLockProofs` | the proofs about `ProcList` and `LWLock`: ownership, then the wait lists |
| `ParkingProofs`, `GroupClearProofs`, `XactProofs`, `SinvalProofs`, `XLogProofs` | the proofs about the module of that name |
| `DurabilityProofs`, `CommitProofs` | the proofs about `Durability`: the log and the data page; pg_xact, its pages and marks, answered commits and hints |

Definitions with a comment that begins "Mutant" are deliberate errors; no specification
uses them. Each one shows, put in the place of the definition it is written before, that a property
notices it.

### LWLock

`word[l]` is the atomic state of a lock (exclusive bit, shares, `HAS_WAITERS`,
`RELEASE_OK`, `LOCKED`), `waiters[l]` its list, `var[l]` the variable of a WAL
insertion lock; `lwWaiting`, `lwWaitMode` and `sem` are fields of the PGPROC, `held`
and `holdoff` the thread's `held_lwlocks` and interrupt holdoff count; the rest is
the place of each backend in its call. An action is one atomic operation with
what the code does up to the next one: `LWLockAttemptLock` (the fetch-add of a
share, or the compare-exchange), its backout, `WaitListLock`, the push, the second
attempt, `LWLockDequeueSelf`, the sleep, the wakeup with its two stores and its
post as separate steps, `LWLockUpdateVar`. `LWLockReleaseAll` is the loop that error
recovery runs, and `LWLockResetAfterCrash` happens with every backend dead.

Left out: tranche names and statistics, `LWLockHeldByMe` and other pure queries,
`LWLockDisown` (only tests call it), the spin delays of `LWLockWaitListLock`, holdoffs that
the caller itself adds. Callers take locks in a fixed order, as the code's comments
require; deadlock among locks taken out of order is not a subject.

### Waiter, PgSema, Latch, Parking

A slot has a token, a mode (`Free`, `Idle`, `Notified`, `Parked`, `ParkedFd`), a
condvar and a wake pipe; a handle is a slot and a token. One critical section of
a slot's mutex is one step; `notify_all` and the byte written to the pipe come after
the mutex is dropped and are steps of their own. `PgSema` has the count and the
published handle of each PGPROC, `Latch` its `is_set`, `maybe_sleeping`, waker and
owner, and `flag`, the condition the latch is about, which its setter
establishes before `SetLatch` and its owner looks at after `ResetLatch` (the
pattern of `SyncRepWaitForLSN`). `Parking` adds `InitProcess`, `ProcKill`, reuse of
a thread for another task, and thread exit. `setting` is how the server was
started: `plain` has the recheck cadence off (it is on by default, so this is the
harder case), `dropping` has it on and loses wakes as `PGRUST_TEST_DROP_WAKE_1IN`
does, `failing` lets `epoll_wait` report errors.

Left out: sockets other than as "something else is readable", signal delivery,
postmaster-death events.

### GroupClear

`ProcArrayGroupClearXid` step by step: the push of the list head, the leader's lock,
the detach, clearing each member, the unlock, and for each member the read of its
link, the flag and the post. `Other` stands for all other users of ProcArrayLock.
Semaphores may hold posts of other waits (`StrayPost`), which a follower must give
back.

### TransactionLog, ProcArray, SnapMgr, Xact

`clog` and `subtrans` are the status and the parent of each xid; a tree is
recorded page by page, as `TransactionIdSetTreeStatus` does. `proc`, `xids`,
`subxidStates` and `pgprocnos` are the PGPROCs and the dense arrays, whose places
move as processes join and leave. Sections under the exclusive ProcArrayLock are one
step: everything they change is read under that lock, but for
`xactCompletionCount`, and the step happens when that count is stored. Scans under
the shared lock go slot by slot, and `GetSnapshotData` has its lock-free reuse
path with the look at the count, the store of xmin and the second look as separate
steps. `snap` is the state of a session's snapshot manager. `Xact` has the stack
of subtransactions, `AssignTransactionId` (parents first), commit, abort, prepare,
failed prepare, and `FinishPreparedTransaction` by any session, with its failure.
`plan` says which operations a session performs.

`Xact` takes the locks to exclude as `RWLock` says, and the end of a transaction as
one step: `LWLock` and `GroupClear` are where those two are examined.

Left out: REPEATABLE READ and SERIALIZABLE (a snapshot per statement is taken),
exported, historic and secondary snapshots, the one-entry cache of
`TransactionLogFetch`, `definitely_needed` horizons and `GlobalVisTest`,
per-database horizons, vacuum's and logical decoding's status flags, replication
slots, hot standby (`KnownAssignedXids`), xid wraparound, the group update of pg_xact;
the pages of pg_xact, the log and its flush are in `Durability`. An xid that cannot be assigned
(the bound `MaxXid`) leaves its session where the error leaves it, in a
transaction that can only be ended.

### LockTable, DeadLock, LockMgr

A LOCK with its PROCLOCKs is one record: `granted`, `requested` and the two masks, who
holds what (`hold`) and the queue. `LockTable` has what a section under the partition
lock does to it: granting and ungranting, the test for conflicts, the place a request
takes in the queue (`JoinWaitQueue`), `ProcLockWakeup`, `RemoveFromWaitQueue`.
`DeadLock` is `DeadLockCheck`: cycles through a process over hard and soft edges, and
the search for queue orders without them. `LockMgr` adds what lies between: a
LOCALLOCK's owners, its strong-lock count and its pointers (`local`), the fast-path
slots, the strong-lock count, and each backend's place in `LockAcquireExtended`,
`LockRelease` and the release at the end of a transaction or subtransaction. A
step is one section under a partition lock, an fpInfoLock or the strong-lock spinlock.
A plan says which requests a backend makes and whether the table may be full.

Left out: lock groups (every process is its own leader), locks on virtual xids and their
fast path, locks of prepared transactions, advisory locks and
`LockReleaseSession`, the clearing of sinval on acquisition, hot-standby conflicts, the
cancelling of an autovacuum that blocks. All relations share one partition of the
strong-lock counts, the worst case. `heldLocks` is cleared when its
process leaves the queue; the code leaves it and never reads it there.

### Sinval

`buffer`, `minMsgNum`, `maxMsgNum`, `nextThreshold` are the ring, `nextMsgNum`,
`resetState`, `signaled`, `hasMessages` a backend's state, `pending` the local
buffer of `ReceiveSharedInvalidMessages`. The writer's steps are the lock, the cleanup,
the stores of messages, the store of `maxMsgNum` and the raising of each flag; the
reader's are the probe without a lock, the lowering of the flag, the copy under the
shared lock, the application of each message. `base`, `done`, `seen` and `sure` belong to
the properties: which message a number means after wraparounds, which were sent
before a receive began, from where on a backend's caches know nothing.

`SICleanupQueue` is one step: it holds both locks. An error comes after the
message's own invalidation took effect; the reset function does not fail. What
messages invalidate is left out.

### Wal, XLog

Positions count units of eight bytes, pages have 4 units and segments 2 pages.
`buffer`, `file` and `synced` say for which positions a buffer page, the segment
files and the disk hold the right bytes, so a page taken over too early or written
before a record was copied shows. A step is one section under a lock or spinlock, or
one atomic access: the insertion lock and the second look at the redo pointer; the
reservation; `GetXLogBuffer` and, when the page is not there,
`AdvanceXLInsertBuffer` with its release of the mapping lock, the wait for
insertions, WALWriteLock and the write; the copy of what fits on a page; each look at an
`insertingAt`; each page of `XLogWrite`, the fsync, and the two stores of the results.
`XLogFlush` has its loop with `LWLockAcquireOrWait`; a sleep for `commit_delay` is a
choice to look again. `records` belongs to the properties.

Merged: the initialisation of a buffer page, and the reads of a request pointer with
the refresh of `LogwrtResult` beside it. Left out: `LogwrtRqst.Flush`, `lastImportantAt`, the
previous-record link, checksums, timelines, opening and closing of segments and the sync
methods, archiving. The insertion locks and their variables behave as
`LWLock` shows they do.

### Slru, HeapPage, Durability

`slot` is the cache of pg_xact by page, `xactFile` and `heapFile` what the files hold,
`xactKept` and `heapKept` the set of contents that a crash may leave of them: since
the last sync every write may or may not have reached the disk. `pending` is the
set of sync requests. A backend assigns an id (with `ExtendCLOG` for a new page),
changes the data page, logs the change, logs its commit or abort, flushes or not, sets
its status, or scans and leaves hint bits. The checkpointer takes the redo point and
the next id, waits for those in their commit window, writes pg_xact and the buffer,
syncs, logs and flushes its record, updates the control file. A write may
fail. A crash keeps the durable log, any longer prefix of it and some content of every
file; the startup process replays from the redo point, trims pg_xact and leaves the
rest to the end-of-recovery checkpoint. The log is `Wal`'s; `acked` has the commit records
whose clients were answered.

`heap_insert` has no critical section (`heapam/src/dml.rs:5`) and may fail between the
change of the page (line 318) and its record: where it pins, locks or clears the visibility
map (331, 332, 342-347), marks the buffer dirty (350), logs a command id (354) or inserts the record
(417). `InsertFails` is all of these: the tuple stays on the page without a record, the page is
dirty or not, the transaction aborts. One step stands for change and failure, since
the content lock is held between them. Such a tuple is a stray; the
page keeps strays and their hints apart from the other tuples, for the properties
only: scans hint both alike, writes and crashes treat both alike. Errors
before the change are plain aborts. `WalBeforeData`, `XidsFresh` and the invalid hints of
`HintsTrue` speak of the tuples that are no strays, and show that a stray does no harm to those;
what becomes of a stray itself is in the findings.

Merged: the flush of the log with the start of the I/O it precedes, the
registration of a sync with the end of the write, the delay flag with the commit
record, the loop of fsyncs (one step), the flush of the checkpoint record with the
control file. Left out: banks and the choice of the least recently used slot (any
clean page but the latest may go), several LSN groups per page, subtransactions,
full-page images (`ImagesComplete` of `XLog` is about those), the image that `MarkBufferDirtyHint`
logs for a hint when `wal_log_hints` or data checksums are on, line pointers, eviction of
the data page, failures of writes other than the checkpointer's, the return of a slot to empty after
a failed read (`slru/src/lib.rs:517`: a failed read is an end in the model, and `StatusOnce` says that
there is none), the skip of an idle
checkpoint, restartpoints. A shutdown checkpoint's record is replayed as an online one
is: the values agree.

All models take memory to be sequentially consistent: what weaker orderings the
code asks for is not examined.

## Runs

| Run | Instance | Distinct states | Question |
|---|---|---|---|
| `lwlock` | 3 backends, 2 locks, 3 calls, every entry point, crashes, a stray post for each backend | 929 thousand | exclusion, truth of the word, the one link of a backend, no lost wakeup, no lost update of a variable; refinement of `RWLock` |
| `parking` | 2 threads, 2 slots, 2 descriptors, 1 PGPROC, seven kinds of server | 636 thousand | no residue of an earlier locker; posts and work get through, without the cadence, and with it in spite of lost wakes |
| `parking_spin`, `parking_byte`, `parking_error` | as above, one server | | the three findings below |
| `group_clear` | 3 backends, 3 transactions, 2 other uses of the lock, 1 stray post | 498 thousand | ended at return, posts conserved, everybody returns |
| `xact` | 3 sessions, a dummy, nine plans over at most 4 xids, 2 per page, cache of 1 subxid | 1.6 million | snapshots are fresh, stable and ordered, see trees whole and keep their rows; in-progress tests tell the truth; a transaction ends once |
| `lockmgr` | 3 backends, 2 relations, modes 1 and 8, 1 fast-path slot, three plans | 564 thousand | exclusion among those who rely on their locks, exact counts, local tables that mirror the shared one, no missed grant, every cycle still to be checked |
| `sinval` | 2 backends that read and write, one of which leaves, ring of 4, wraparound at 4, 7 messages | 1.8 million | no receive leaves a message unapplied that was sent before it began; no unread message is overwritten |
| `wal` | 2 backends, the WAL writer, 2 insertion locks, 2 buffer pages, four plans, two starts | 281 thousand | positions tell the truth, no PANIC, no circle of waits, first records carry images; refinement of `Wal` |
| `durability` | 2 backends, 6 xids, 2 per page, 2 slots, ten plans with checkpoints, failures and crashes | 2.6 million | answered commits are never lost; commits, tuples and hints agree with the log after recovery; but for strays nothing reaches a file before its record and no id that left a tuple is given again; statuses are given once |
| `durability_abort` | the plan with a failing insertion | | the last finding below |

Why the bounds are enough to be interesting:

- Three backends on a lock are a holder, a sleeper and somebody who barges in or
  sleeps behind; two locks let one backend hold one and wait for another and let
  `LWLockReleaseAll` release both. A backend with three calls can be woken late by
  its first and already be in its second.
- Two threads are a sleeper and a waker, whose roles change; tokens modulo 2 make
  a handle of an earlier incarnation come true again; two slots and descriptors
  let a thread exit and another start on either.
- Three transactions of three backends let a backend end two of them, and so
  meet a list head it has seen before.
- Two xids are an older one that is still running and a younger one that
  completed. A tree needs more: a chain of three, of which the cache holds one.
  `MaxRegistered = 2` allows two registered snapshots with different xmins beside the
  active and the catalog one. The plans divide the operations among the
  sessions, since all of them at once are out of TLC's reach.
- A soft deadlock needs three backends: a holder, one queued behind a second that
  conflicts with both. One fast-path slot and two relations make the
  slots run out; the plan with subtransactions meets a full table.
- A ring of four with writes of up to two reaches the cleanup, the reset of a
  reader that is behind, and the wraparound within seven messages.
- Records of up to 4 units on pages with 2 or 3 usable ones cross pages and segments
  and exceed the two buffers; the log starts at a segment's beginning and in
  the last unit of a page.
- Two slots for three pages of pg_xact make backends evict each other's pages; ids 1
  to 3 put a transaction first or last on its page; the plans with two crashes have one
  of them during recovery. A failing insertion, one write, one crash and two more
  transactions are what it takes for a stray to be written, its id to be given again and to commit.

`lockmgr` and `sinval` use a VIEW that leaves out what no step and no property reads
(a request that is over, a position of a backend that is not listed). Symmetry over
backends, threads, slots and descriptors is used where no liveness is
checked. Deadlock is checked in every run; where everybody may be done (`Finished`,
`Done`) the specification says so.

Fairness: a thread inside a call keeps running (`WF` of its steps), which the
operating system's scheduler grants; bounds of parks and blocks elapse; in
`group_clear` other users of ProcArrayLock give it back (`WF`, since the run allows
finitely many of them). Nothing is
assumed of calls being made, of stray wakes or of data arriving. The other runs
state no liveness; `NoLostWakeup`, `NoLostUpdate`, `NoMissedGrant`, `CycleWillBeChecked` and `NoWaitCycle` are the
safety side of it.

## Findings

1. `parking_spin` (code): after a notification latched before an untimed
   `WaitEventSetWait`, `cur_timeout` stays 0 for all later laps, so the thread
   polls in a loop until an event comes. `begin_fd_park` asks for one poll.
2. `parking_byte` (comment): the wake byte is written after the slot's mutex is
   dropped, so the pipe may be closed, and the descriptor reused, by then; the
   SAFETY comment of `send_wake_byte` says that the mutex excludes it.
3. `parking_error` (code): an error of `wait_block` leaves `wait_loop` before
   `end_fd_park` and before the latch is disarmed; the next fd-park of that thread
   meets `ParkedFd` and panics.
4. `durability_abort` (code): an insertion that fails after it changed the page leaves a
   tuple that no record covers, and the page is written with it. A crash takes the abort record, which
   nobody flushes. No surviving record mentions the id, so recovery lets it be given again; its new
   owner commits, and a scan finds the aborted tuple committed.
   `heapam_visibility/src/lib.rs:955` says that such a tuple "was never visible to
   anyone else".

## Proofs

`LWLockProofs` proves, for any finite sets of backends and locks and any bounds
(`LWLockAssumption`, which TLC evaluates on every instance):

- `TypeCorrect`: `Spec => []TypeOK`. Shares and holdoff counts are natural numbers,
  so no release or backout takes away what was not there.
- `Exclusion`, `WordTruth`: the invariants `MutualExclusion` and `WordCountsOwners` of
  the runs; `HoldoffTruth`: outside the lock code interrupts are held off once per
  recorded lock (`HoldoffBalanced`).
- `Refinement`: `Spec => ImplementsRWLock`, crashes included, where the holders of the
  abstract lock are those who own the lock: recorded, or obtained and not yet
  recorded, or no longer recorded and not yet given back.

The inductive invariant is

    IInv == TypeOK /\ PlaceOK /\ HoldoffOK /\ MutualExclusion /\ WordCountsOwners

None of its parts is inductive alone. `TypeOK` needs `WordCountsOwners`: a share
can be taken from the word only because the word counts the backend that takes it.
`MutualExclusion` needs it too, because an attempt succeeds on what the word says.
`WordCountsOwners` counts, besides owners, the shares of failed attempts that are
still to be backed out, and `PlaceOK` says at which places of a call a backend may
own, or owe, what. `HoldoffOK` extends `HoldoffBalanced` to the inside of calls.

The step is proved action by action. `Quiet` steps leave the word's counts and
everybody's ownership alone, and need only the frame lemma; `Loud` ones (attempt,
backout, release, crash) move a count and one backend's ownership together, and use
`SharersFrame` and `SharersCount` on the cardinality of the set of sharers. Types of
the wait lists rest on the lemmas about `ProcList` at its head: what `Pick` and `proclist_delete` return is
a list again, from the existence of an increasing enumeration of any set of
positions, by the least counterexample.

It goes on to the wait lists, for the same constants:

- `SpecLinks`: the invariant `OneLinkOneList` of the run;
- `SpecNoLostWakeup`: `NoLostWakeup`;
- `SpecNoLostUpdate`: `NoLostUpdate`.

They follow from one inductive invariant, relative to `IInv` (`WaitInvariance`):

    WaitInv == LinkOK /\ QueuedOK /\ OrderedOK /\ ListLockOK
                 /\ FlagOK /\ FetchedOK /\ AlertOK /\ VarOK

- `LinkOK` and `QueuedOK`: who is on which list, what `lwWaiting` says of it, and at which
  places of a call a backend may be on one. `OneLinkOneList` is its first half.
- `OrderedOK`: those that wait until the lock is free (`LWLockAcquireOrWait`,
  `LWLockWaitForVar`) stand before those that want it, for they are pushed at the head; this is
  why `LWLockUpdateVar` may stop its scan at the first of the others.
- `ListLockOK`: one backend at a time works on a list (the LOCKED bit).
- `FlagOK`: HAS_WAITERS is set while the list has somebody on it.
- `FetchedOK`: RELEASE_OK is clear only on behalf of a backend that was taken off the list
  in order to get the lock and has yet to set the bit again.
- `AlertOK`: while a backend on a list has given up looking itself (`Resigned`), somebody owns the
  lock or is at a place from which it will look at the word or the list (`Alert`). It is
  stronger than `NoLostWakeup`: the places of `Active` that lead past the list do not count.
- `VarOK`: a backend that waits for the variable has RELEASE_OK set from its second look on, and
  if the variable has changed while it sleeps, somebody will scan the list or the lock is
  shared.

The heart is `LoudWord`: after a backout or a release the caller goes to wake the waiters whenever
the word it leaves behind is free, has HAS_WAITERS and has RELEASE_OK; `FlagOK` covers the case that
HAS_WAITERS is clear, `FetchedOK` the case that RELEASE_OK is. What the scans
of `LWLockWakeup` and `LWLockUpdateVar` take and leave is stated by `WakeScanParts` and `UpdateScanParts`
in terms of membership (`On`), so that no later step looks at positions.

The attempt to prove `NoLostUpdate` as it was first stated failed for a good reason:
it named only the backends on their way to a scan, and that is false of
longer histories (one lock, four operations). A release that finds a share in the word, even
one a failed attempt is about to back out, wakes nobody; the wakeup of a changed
variable then comes with the last share to go. The property now says so, and `SpecNoLostUpdate` proves
that this is the only delay.

`GroupClearProofs` proves, for any finite set of backends:

- `SpecEnded`: the invariant `EndedAtReturn` of the run;
- `SpecSemaphore`: `SemaphoreConserved`.

The lists of the group have no state of their own in the code: a list is a head and the links
of its members, and the head of a detached list is a local of its leader. The
inductive invariant says that there are ghosts, a batch `g` and a distance from the
end `r` for every backend, of which `Shape(g, r)` is true: a link leads one step closer
to the end within its batch, no two members of a batch are as far, the last one
leads, the others sleep; the leader has ended those it has passed; a member that is
being woken belongs to one leader until its flag is down. Each action keeps `Shape`
with the same ghosts, or with the batch of one backend or one batch renamed.
`SemaphoreConserved` is an account: what a backend has of posts and what leaders owe it add
up to its stray posts, where a leader owes a post between clearing the flag and posting.

`SinvalProofs` proves, for any sets of readers and writers, any ring and any wraparound
that is a multiple of its size (`SinvalConstants`):

- `SpecRingIntact`: the invariant `RingIntact` of the run;
- `SpecCacheFresh`: `CacheFresh`.

The inductive invariant is

    IInv == TypeOK /\ PlacesOK /\ RingIntact /\ WrittenOK /\ FlagOK /\ PendingOK /\ ReceiveOK

`CacheFresh` is about a probe that takes no lock, and rests on `FlagOK`: a reader whose
flag is down has read all that a returned sender sent, and all there is if no writer still
has to raise the flag. `FlagOK` in turn needs `RingIntact` for the copy, and that
needs `WrittenOK` for the time between the stores into slots and that of `maxMsgNum`.
Numbers are counted from the start (`base` is what wraparounds took off), and `ModQuotient`
and the lemmas after it say when two numbers share a slot.

`DurabilityProofs` and `CommitProofs` prove, for any number of backends, ids, ids per
page, slots, checkpoints, failures and crashes, and whatever the backends do
(`DurabilityConstants`: the processes differ, and no value is mistaken for another):

- `SpecWalBeforeData`, `SpecXidsFresh`, `SpecHeapKept`, `SpecCommitsKept`, `SpecAnsweredDurable`,
  `SpecHintsTrue`, `SpecStatusOnce`: the invariants `WalBeforeData`, `XidsFresh`, `HeapKept`,
  `CommitsKept`, `AnsweredDurable`, `HintsTrue` and `StatusOnce` of the run, failing insertions included.

`Move` restates `Next` with its alternatives taken apart (`Moves` proves that it is no less), so that each
lemma names the steps that can disturb its subject. The invariants are layers; each is
inductive given those before it:

- `ControlInv`: types, and who may be where. It says that the startup process and the backends
  do not run together, that a slot's I/O and the two locks have the owners the code gives
  them, and that a commit past its record has that record in the log.
- `LoggedInv`: a commit in a slot is durable or has a record up to the slot's LSN; a
  slot being written has its LSN flushed; so a file has only durable commits. The
  same of the data page, of each content a crash may leave, and of a status that a scan has looked
  up and not yet used. `FreshOK` has the ids of all records that replay has passed below `nextXid`, and those before a redo point below the next id saved with it;
  `AheadOK` keeps pages beyond `nextXid` out of the files. `WalBeforeData` and `XidsFresh` follow.
- `BroughtInv`: a content that a crash may leave has every logged tuple up to its LSN and
  every one before the redo point. `CheckpointBrings` says the same of the redo point
  that a checkpoint will publish, stage by stage: until the buffer is visited, the page is
  dirty or has it; until the sync, the file has it; from then on all that is kept has
  it. `HeapKept` follows once replay is at the end.
- `CommitInv`: `OrderOK` (a page is zeroed before its transactions leave records, and nobody ends
  twice), `DelayOK` (a checkpoint that has waited passes no commit record whose mark is still to
  be made: the reason for `wait_for_delay_chkpt`), `MarkedOK` (what replay has
  passed shows in pg_xact or is about to), `CleanOK` (a clean page is as its file) and `KeptOK`
  (what a crash leaves of a page shows every commit before the redo point; stage by stage for
  the coming one). `CommitsKept` follows from `MarkedOK` and, for the other direction,
  from `LoggedInv`.
- `AnsweredInv`: a commit that was answered has its record on disk, and no running transaction has its
  id. Answering and running are apart because `OrderOK` gives an id to one transaction; that the id
  is never given again is `FreshOK`. With `CommitsKept`, `AnsweredDurable` follows.
- `HintInv`: a hint on a tuple that is no stray, or a status looked up and not yet used, says invalid only of a
  transaction that is over and has no commit record. Of a stray's hint this would be false: its id
  may be given again. Of the lookup it is true all the same, since an id below `nextXid` is not
  given again before a crash. It has to speak of the scan's own copy: the lookup and
  the hint are steps apart, with evictions and checkpoints between them.
- `PagesInv`: a page of pg_xact with ids in use is in its file, or dirty or being written in its
  slot, so that no read fails. What a crash leaves has it too, or replay zeroes it
  before it meets a record that needs it (`BroughtBack`); stage by stage for the coming redo
  point, as above. Whoever reads a page looks for an id in use: its own, one of a tuple, or
  one that replay has just met (`WantedInUse`).
- `StatusInv`: a transaction that has committed, or still may, is nowhere shown as
  aborted (`ShownOK` of pg_xact, `KeptShown` of what a crash leaves, `CkptShown` of what the
  checkpoint writes), unless replay is still to zero its page. The exception is needed: the
  file may still have the mark of a transaction that aborted and whose id was assigned again after a
  crash. `TrimCLOG` clears such marks on the last page, and `ZeroFirst` of `OrderOK` says that
  replay has no commit to mark while the exception lasts. The assertion of
  `TransactionIdSetStatusBit` follows (`CommitFinds`, `AbortFinds`).

Each layer was an invariant of a TLC run before it was proved.

`ParkingProofs` proves, for any finite sets of threads, slots, semaphores and descriptors:

- `RouteIsLockersHolds`: the invariant `RouteIsLockers` of the run;
- `OwnRouteHolds`: where `PGSemaphoreLock` publishes its handle, the route it replaces is empty or
  its own.

The inductive invariant is

    RouteInv == Typed /\ SlotsOwned /\ (\A t : PlaceOK(t)) /\ RouteIsLockers

`SlotsOwned` gives each running thread a slot of its own, so that the handle a locker publishes
names it and, by the token, no later user of the slot. `PlaceOK` says that a handle is
published only from inside a lock: the places of a wakeup, which also park (`park`, `cvwait`), are told
apart by where they return to. A step that touches neither slots nor routes (`Calm`) needs only the frame
lemma; the rest are the publication, its withdrawal, and threads that come and go.

`XactProofs` proves, for any finite set of array members and any sessions, prepared transactions and bounds
(`IsFiniteSet(Members)`):

- `HorizonSafeHolds`: the invariant `HorizonSafe` of the run. No horizon a vacuum has computed
  passes the xmin of a snapshot that is in use.

It takes two layers:

- `ArrayInv`: the dense array. `Places`: an entry's number is where its member is, through
  `ProcArrayAdd` and `ProcArrayRemove`, which move the others. `Bound`: ids in use are below the next
  one, which is held back while it is being published. `Prepd` and `Session`: who owns which
  entry, a prepared transaction between its two owners included.
- `SnapInv`: `Built` and `Below` of every snapshot there is (its xmin is at most every running id
  and the next one), `Building` of one being taken (the same of the entries passed so far), and
  `Scanned` of a horizon being computed.

The hard case is a snapshot that is used again without a scan
(`GetSnapshotDataReuse`). Its xmin is published late, and a horizon that is being computed may have
passed the session's entry. `Scanned` therefore makes an exception for an xmin that is `Recent`: an id that
still runs, so that the scan will meet or has met it, or the next one to be assigned.
`Built` says that an xmin stays `Recent` as long as the completion counter stands still,
and that is what the reuse checks under ProcArrayLock.

`XLogProofs` proves, for any number of backends and insertion locks, any page, segment, header and ring
sizes and any records (`XLogConstants`, `PositionsAssumption`):

- `ImagesCompleteHolds`: the invariant `ImagesComplete` of the run;
- `NoWaitCycleHolds`: `NoWaitCycle`;
- `WalIntactHolds` and `NoPanicHolds`: `WalIntact` and `NoPanic`;
- `ImplementsWalHolds`: `ImplementsWal`, that every behaviour of the buffered log is one of `Wal`.

The assumptions are those of the code: sizes are positive and a header fits its page, `None` is neither a
process nor a number, and the log that StartupXLOG finds ends before a page header or behind one with at
least one byte of a record. It never ends just behind a bare header, for a record that fills its page ends
where the next page begins (`XLogBytePosToEndRecPtr`).

The conversions between byte positions and pointers come first: both grow with the byte position
(`PointersMonotone`), a reservation ends no later than the next one starts, a segment switch included
(`ReservesLater`), and the end of the log at startup maps to a byte position and back to no later place
(`StartEnd`). Then

    RedoInv == Typed /\ Ordered /\ (\A p : Proc(p)) /\ ImagesComplete

`Ordered`: every record lies before the next position and on one side of the redo pointer. `Proc`: a backend
holds insertion locks exactly at the places where it should, and one that reserves space for a record
without an image has a page LSN after the redo pointer; that LSN is the end of a record of its
page (`Logged`), which is then the record that had the image. What keeps this true is that who
moves the redo pointer holds all the locks, so that nobody else is at a reservation (`AloneWithAll`).

    WaitInv == PositionsOK /\ HoldersMove /\ (\A p : WaitOK(p)) /\ (\A p : Inserter(p))

`HoldersMove`: who holds WALWriteLock or WALBufMappingLock is at a place where it waits for nothing. So
a circle consists of holders of insertion locks: some that take all of them, and some that need a buffer. Two of
the first kind do not wait for each other, for both would hold the first lock. One of the
second waits for an insertion that is not yet as far as the page it wants out of the ring, and
`Inserter` has that page before its own position (`insertingAt`); a lock of somebody who takes all
says a position no wait is for. So positions fall along the circle, which
is impossible. The same argument excludes a backend that waits for itself, and shows what the order of
steps in `GetXLogBuffer` is for: `WALInsertLockUpdateInsertingAt` comes before the wait.

    InsertInv == Bounds /\ (\A p : Insertion(p)) /\ (\A p : Waiter(p))

says what `WaitXLogInsertionsToFinish` may conclude. `Insertion`: a backend has copied at least as much as
it told in `insertingAt` and at least as much as counts as finished (`logInsertResult`). `Waiter`:
somebody in the middle of its walk over the insertion locks has a position that nobody with a lock it has
passed is behind; those who reserve space later start behind that position, since it is at most the end of what
was reserved when the walk began. So the position it stores at the end covers no hole. Who waits for
WALWriteLock or writes asks for no more than is finished.

    DiskInv == PagesOK /\ DiskOK /\ (\A p : OnItsPage(p)) /\ (\A p : Writer(p)) /\ NoPanic

is an account of every byte of the log. `PagesOK`: an initialised page has its buffer until it is written to its
end (`Ring`), its header is there from the beginning (`Headers`), and each reserved byte from the page of the
write position on is copied, or lies in the space of a backend that has yet to copy it (`Cover`).
`OnItsPage`: a backend copies to an initialised page. With `InsertInv` this page is not yet written to its end,
so it is in the ring and `GetXLogBuffer` finds it; the page at the write position is there for `XLogWrite` by
the same argument, and what it writes out of that page is finished, so by `Cover` copied.
`Writer`: who writes holds WALWriteLock, so it alone
knows more than the shared results say, and what it knows is true of the files (`Safe`). The fsync at the end of a
request syncs one segment only. That is enough because the segment being written begins before the flushed
position (`DiskOK` and `Writer`): `XLogWrite` syncs each segment as it completes it. `DiskOK` leaves out the moment
between the two stores of the results, when the shared flush position lags behind.
`WalIntact` follows from `Cover` and `Safe`, and the proof that an `XLogFlush` reaches its record
from what `Waiter` and `Writer` know of the request.

    RecordInv == RecordsOK /\ Content /\ (\A p : OwnRecord(p))

is what the refinement needs besides. `RecordsOK`: records are behind one another in the order in which they
were reserved. `Content`: buffers and files hold only reserved bytes and page headers, and what is synced is in
the files; so the first byte of a record that is about to be reserved cannot be durable already, and adding the record
leaves the number of durable records as it was. A byte in a file stays in its buffer as long as that has the page, so writing the page
again loses nothing. `OwnRecord`: the record a backend acknowledges ends no later
than the position its flush was for. `NextRecordInv` shows with it that every step is one of three (`LogStep`):
more is synced, a record is acknowledged whose flush position is synced, or a record is added. These map to `Sync`,
`Acknowledge` and `Insert` of `Wal` (`RefinesSync`, `RefinesAcknowledge`, `RefinesInsert`). The mapping counts the records
all of whose predecessors are synced too, so that an acknowledgement also needs `DiskInv`: up to the flush position
all is synced, whoever wrote it. `XLog` has no crash; `Lose` of `Wal` is for `Durability`, which builds on `Wal` and crashes.

Only model-checked:

- Liveness, out of the prover's reach.
- What a deadlock check computes (`CycleWillBeChecked` of `LockMgr`) and what
  `SubTransGetTopmostTransaction` returns (`RunningIsListed`, `SnapshotFresh`, `ToldTruth` of `Xact`): inductions over
  edges and parents, out of the prover's reach.
- The tables of `LockMgr` are sums over sets of holders (`FoldSet`), inductions over data too.
  `SnapshotsOrdered` and `TreesWhole` of `Xact` are a matter of work.

## Not modelled

- The parser, planner, executor, types, catalogs, client programs and contrib: far the
  larger part of the repository. It is sequential inside a backend, and
  its tests compare it with PostgreSQL's answers; a state machine would add
  nothing that a checker reaches. The share of all lines that the models
  cover is small for this reason.
- The group update of pg_xact. Its leader returns early on an error and leaves its
  followers asleep (`clog/src/lib.rs:399`); `GroupClear` models the sister protocol.
- Condition variables, message queues, barriers: protocols over latches and lists,
  both of which are modelled; the compositions are not.
- Buffer mapping and eviction (a victim pinned again after it was written,
  `bufmgr/src/read.rs:346`), the bounded queue of sync requests
  (`checkpointer/src/lib.rs:773`), asynchronous I/O.
- What replay makes of line pointers: a record logged after a stray names an offset beyond it, and
  `heap_xlog_insert` panics on a page that lost the stray (`heapam_xlog/src/lib.rs:368`). A page in the model
  is a set of tuples.
- `SubTransSetParent` failing after the id is published (`xact/src/lib.rs:364`).
- The wait of a checkpoint for the commit window may be extended by ever new
  commits (`transam_xlog/src/startup.rs:1050`): the model has the wait, and no
  liveness is claimed of it.
- Predicate locks, multixacts, logical decoding, replication, the parallel runtime, the
  postmaster's state machine.

## Plan

Done: lightweight locks; semaphores, latches and parking; the end of transactions by
groups, the transaction log, the process array, snapshots, transactions and two-phase
commit; heavyweight locks and deadlock detection; shared invalidation; the write-ahead
log and its refinement of `Wal`; commits, checkpoints and recovery over pg_xact and
a data page.

Next theorems: `SnapshotsOrdered` and `TreesWhole` of `Xact`.

Next modules after that: the group update of pg_xact, condition variables over
`ProcList` and `Latch`, buffer mapping and eviction, multixacts over `Slru`.
