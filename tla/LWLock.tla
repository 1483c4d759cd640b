------------------------------- MODULE LWLock -------------------------------
(***************************************************************************)
(* The lightweight locks of crates/backend/storage/lmgr/lwlock, at the     *)
(* granularity of the code's atomic operations.                            *)
(*                                                                         *)
(* A lock is one atomic word (an exclusive bit, a count of shares and the  *)
(* flags HAS_WAITERS, RELEASE_OK and LOCKED), an intrusive list of waiting *)
(* backends protected by the LOCKED flag, and, for the WAL insertion       *)
(* locks, a 64-bit variable beside it.  A backend sleeps on its own        *)
(* semaphore.  Every atomic read-modify-write of the word is one step; a   *)
(* compare-exchange loop is the one step in which its exchange succeeds,   *)
(* or in which it loads a value that makes it give up.  Memory touched     *)
(* only under LOCKED changes in the step that gives LOCKED up.  The        *)
(* memory is sequentially consistent.                                      *)
(*                                                                         *)
(* Shares are taken by an unconditional fetch_add that is undone when the  *)
(* old value had the exclusive bit (the code's DIVERGENCE D1), so a share  *)
(* may be counted that nobody holds; the queueing protocol has to cope.    *)
(***************************************************************************)
EXTENDS Naturals, Sequences, FiniteSets, ProcList

CONSTANTS Procs,     \* the backends
          Locks,     \* the locks, numbered in the order callers take them
          Vals,      \* values of the variable beside a lock; 0 is "no value"
          Entries,   \* the entry points the callers use
          MaxSimul,  \* MAX_SIMUL_LWLOCKS
          MaxOps,    \* bound: calls, other than releases, in a behaviour
          Strays     \* bound: semaphore posts to each process that do not come from LWLocks

ASSUME LWLockAssumption ==
  /\ IsFiniteSet(Procs)
  /\ IsFiniteSet(Locks)
  /\ Locks \subseteq Nat /\ Locks # {}
  /\ 0 \in Vals
  /\ Entries \subseteq {"acquire", "conditional", "acquireOrWait", "waitForVar",
                          "updateVar"}
  /\ MaxSimul \in Nat \ {0}
  /\ MaxOps \in Nat
  /\ Strays \subseteq [Procs -> Nat]

VARIABLES
  word,         \* word[l]: the atomic state of l
  waiters,      \* waiters[l]: the wait list of l
  var,          \* var[l]: the variable beside l (insertingAt)
  lwWaiting,    \* lwWaiting[p]: PGPROC.lwWaiting
  lwWaitMode,   \* lwWaitMode[p]: PGPROC.lwWaitMode
  sem,          \* sem[p]: the count of p's semaphore
  held,         \* held[p][l]: p's entry for l in held_lwlocks, or "none"
  holdoff,      \* holdoff[p]: p's InterruptHoldoffCount
  pc, call, site, mustwait, extraWaits, wakeup,  \* p's place in its call
  budget,       \* calls that may still be made
  stray         \* stray[p]: posts to p's semaphore from elsewhere

shared == <<word, waiters, var>>
proc   == <<lwWaiting, lwWaitMode, sem>>
mine   == <<held, holdoff>>
local  == <<pc, call, site, mustwait, extraWaits, wakeup>>
vars   == <<word, waiters, var, lwWaiting, lwWaitMode, sem, held, holdoff,
            pc, call, site, mustwait, extraWaits, wakeup, budget, stray>>

Modes     == {"LW_EXCLUSIVE", "LW_SHARED"}
WaitModes == Modes \cup {"LW_WAIT_UNTIL_FREE"}
WaitState == {"NOT_WAITING", "WAITING", "PENDING_WAKEUP"}
Ops       == {"acquire", "conditional", "acquireOrWait", "waitForVar",
              "updateVar", "release", "releaseAll"}
Sites     == {"first", "queued", "woken", "release", "var"}
PCs       == {"idle", "attempt", "backout",
              "wakeLock", "wakeScan", "wakeFlag", "wakePost",
              "queueLock", "queueFlag", "queuePush",
              "dequeueLock", "dequeueUnlink", "dequeueReleaseOk", "dequeueSleep",
              "sleep", "releaseOk", "return",
              "varReleaseOk", "varState", "varValue", "updateLock", "updateScan",
              "release", "releaseAll"}

Word == [exclusive: BOOLEAN, shares: Nat, hasWaiters: BOOLEAN,
         releaseOk: BOOLEAN, locked: BOOLEAN]
Calls == [op: Ops, lock: Locks, mode: Modes, oldval: Vals]

\* LWLockInitialize: no holder, no waiter, RELEASE_OK.
Unlocked == [exclusive |-> FALSE, shares |-> 0, hasWaiters |-> FALSE,
             releaseOk |-> TRUE, locked |-> FALSE]

NoCall == [op |-> "release", lock |-> CHOOSE l \in Locks : TRUE,
           mode |-> "LW_SHARED", oldval |-> 0]

EachLock(x) == [l \in Locks |-> x]
EachProc(x) == [p \in Procs |-> x]

Init ==
  /\ word = EachLock(Unlocked) /\ waiters = EachLock(<<>>) /\ var = EachLock(0)
  /\ lwWaiting = EachProc("NOT_WAITING") /\ lwWaitMode = EachProc("LW_EXCLUSIVE")
  /\ stray \in Strays /\ sem = stray
  /\ held = EachProc(EachLock("none")) /\ holdoff = EachProc(0)
  /\ pc = EachProc("idle") /\ call = EachProc(NoCall) /\ site = EachProc("first")
  /\ mustwait = EachProc(FALSE) /\ extraWaits = EachProc(0)
  /\ wakeup = EachProc(<<>>)
  /\ budget = MaxOps

Lock(p)    == call[p].lock
Goto(p, s) == pc' = [pc EXCEPT ![p] = s]
At(p, s)   == pc[p] = s

-----------------------------------------------------------------------------
(* The caller's side.  A backend asks for a lock it does not hold, and     *)
(* blocks only on locks that come after all it holds: the callers' rule    *)
(* that keeps LWLocks, which have no deadlock detection, free of deadlock. *)

NumHeld(p)      == Cardinality({l \in Locks : held[p][l] # "none"})
MayBlock(p, l)  == \A k \in Locks : held[p][k] # "none" => k < l

Enter(p, s, op, l, m, v) ==
  /\ At(p, "idle")
  /\ op \in Entries \cup {"release"}
  /\ call' = [call EXCEPT ![p] = [op |-> op, lock |-> l, mode |-> m, oldval |-> v]]
  /\ Goto(p, s)

Request(p, s, op, l, m, v) ==
  /\ budget > 0
  /\ budget' = budget - 1
  /\ held[p][l] = "none"
  /\ Enter(p, s, op, l, m, v)
  /\ holdoff' = [holdoff EXCEPT ![p] = @ + 1]
  /\ site' = [site EXCEPT ![p] = "first"]
  /\ mustwait' = [mustwait EXCEPT ![p] = TRUE]
  /\ UNCHANGED <<shared, proc, held, extraWaits, wakeup, stray>>

LWLockAcquire(p, l, m) ==
  /\ NumHeld(p) < MaxSimul
  /\ MayBlock(p, l)
  /\ Request(p, "attempt", "acquire", l, m, 0)

LWLockConditionalAcquire(p, l, m) ==
  /\ NumHeld(p) < MaxSimul
  /\ Request(p, "attempt", "conditional", l, m, 0)

LWLockAcquireOrWait(p, l, m) ==
  /\ NumHeld(p) < MaxSimul
  /\ MayBlock(p, l)
  /\ Request(p, "attempt", "acquireOrWait", l, m, 0)

LWLockWaitForVar(p, l, v) ==
  /\ MayBlock(p, l)
  /\ Request(p, "varState", "waitForVar", l, "LW_SHARED", v)

\* The exchange publishes the value before any waiter can wake.
LWLockUpdateVar(p, l, v) ==
  /\ budget > 0
  /\ budget' = budget - 1
  /\ held[p][l] = "LW_EXCLUSIVE"
  /\ Enter(p, "updateLock", "updateVar", l, "LW_EXCLUSIVE", 0)
  /\ var' = [var EXCEPT ![l] = v]
  /\ site' = [site EXCEPT ![p] = "var"]
  /\ UNCHANGED <<word, waiters, proc, mine, mustwait, extraWaits, wakeup, stray>>

\* LWLockDisownInternal: forget the hold, then give it back.
Disown(p, l) ==
  /\ held[p][l] # "none"
  /\ held' = [held EXCEPT ![p][l] = "none"]

LWLockRelease(p, l) ==
  /\ Disown(p, l)
  /\ Enter(p, "release", "release", l, held[p][l], 0)
  /\ site' = [site EXCEPT ![p] = "release"]
  /\ UNCHANGED <<shared, proc, holdoff, mustwait, extraWaits, wakeup, budget, stray>>

LWLockReleaseClearVar(p, l) ==
  /\ held[p][l] = "LW_EXCLUSIVE"
  /\ var' = [var EXCEPT ![l] = 0]
  /\ Disown(p, l)
  /\ Enter(p, "release", "release", l, held[p][l], 0)
  /\ site' = [site EXCEPT ![p] = "release"]
  /\ UNCHANGED <<word, waiters, proc, holdoff, mustwait, extraWaits, wakeup,
                 budget, stray>>

\* An ERROR (a full held_lwlocks raises one too) unwinds to the error
\* handler, which resets the holdoff count and, through AbortTransaction, calls
\* LWLockReleaseAll.  (The handler's own HoldInterrupts and the ResumeInterrupts
\* at its end are left out of the count.)
LWLockReleaseAll(p) ==
  /\ NumHeld(p) > 0
  /\ At(p, "idle")
  /\ Goto(p, "releaseAll")
  /\ holdoff' = [holdoff EXCEPT ![p] = 0]
  /\ UNCHANGED <<shared, proc, held, call, site, mustwait, extraWaits, wakeup,
                 budget, stray>>

\* One round of its loop: hold interrupts, then LWLockRelease.  The code starts
\* from the lock recorded last; here any recorded lock may be next.
ReleaseAllNext(p) ==
  /\ At(p, "releaseAll")
  /\ \/ \E l \in Locks :
          /\ Disown(p, l)
          /\ call' = [call EXCEPT ![p] = [op |-> "releaseAll", lock |-> l,
                                          mode |-> held[p][l], oldval |-> 0]]
          /\ holdoff' = [holdoff EXCEPT ![p] = @ + 1]
          /\ site' = [site EXCEPT ![p] = "release"]
          /\ Goto(p, "release")
     \/ /\ NumHeld(p) = 0
        /\ Goto(p, "idle")
        /\ UNCHANGED <<mine, call, site>>
  /\ UNCHANGED <<shared, proc, mustwait, extraWaits, wakeup, budget, stray>>

-----------------------------------------------------------------------------
(* LWLockAttemptLock and its backout                                       *)

\* Mutant: an exclusive attempt that overlooks shares.
FreeOfExclusive(w) == ~w.exclusive

\* LW_LOCK_MASK of the word is zero.
Free(w) == ~w.exclusive /\ w.shares = 0

\* Where a failed attempt, and one that succeeded, continue.
AfterFail(p) ==
  CASE call[p].op = "conditional"  -> "return"
    [] site[p] = "queued"          -> "sleep"
    [] OTHER                       -> "queueLock"

AfterGot(p) == IF site[p] = "queued" THEN "dequeueLock" ELSE "return"

\* compare_exchange from a free word.
AttemptExclusive(p) ==
  LET l == Lock(p) IN
  /\ call[p].mode = "LW_EXCLUSIVE"
  /\ \/ /\ Free(word[l])
        /\ word' = [word EXCEPT ![l].exclusive = TRUE]
        /\ mustwait' = [mustwait EXCEPT ![p] = FALSE]
        /\ Goto(p, AfterGot(p))
     \/ /\ ~Free(word[l])
        /\ Goto(p, AfterFail(p))
        /\ UNCHANGED <<word, mustwait>>

\* fetch_add, whatever the word says; the old exclusive bit decides.
AttemptShared(p) ==
  LET l == Lock(p) IN
  /\ call[p].mode = "LW_SHARED"
  /\ word' = [word EXCEPT ![l].shares = @ + 1]
  /\ IF word[l].exclusive
     THEN Goto(p, "backout") /\ UNCHANGED mustwait
     ELSE Goto(p, AfterGot(p)) /\ mustwait' = [mustwait EXCEPT ![p] = FALSE]

LWLockAttemptLock(p) ==
  /\ At(p, "attempt")
  /\ AttemptExclusive(p) \/ AttemptShared(p)
  /\ UNCHANGED <<waiters, var, proc, mine, call, site, extraWaits, wakeup,
                 budget, stray>>

\* The releaser's wakeup test on the word that its fetch_sub left.
CheckWaiters(w) == w.hasWaiters /\ w.releaseOk /\ Free(w)

\* Mutant: the share is not given back.
KeepShare(w) == w

\* The word after the fetch_sub of a share.
DropShare(w) == [w EXCEPT !.shares = @ - 1]

\* Mutant: the wakeup is left to the releaser.
SilentBackout(p) ==
  /\ At(p, "backout")
  /\ word' = [word EXCEPT ![Lock(p)] = DropShare(@)]
  /\ Goto(p, AfterFail(p))
  /\ UNCHANGED <<waiters, var, proc, mine, call, site, mustwait, extraWaits,
                 wakeup, budget, stray>>

\* Undo the fetch_add; the releaser may have seen our share and skipped its
\* wakeup, so the test is repeated here.
LWLockAttemptLockBackout(p) ==
  LET l == Lock(p)
      w == DropShare(word[l])
  IN  /\ At(p, "backout")
      /\ word' = [word EXCEPT ![l] = w]
      /\ Goto(p, IF CheckWaiters(w) THEN "wakeLock" ELSE AfterFail(p))
      /\ UNCHANGED <<waiters, var, proc, mine, call, site, mustwait, extraWaits,
                     wakeup, budget, stray>>

-----------------------------------------------------------------------------
(* LWLockReleaseInternal                                                   *)

\* ResumeInterrupts, and back to the caller or to LWLockReleaseAll's loop.
FinishRelease(p) ==
  /\ holdoff' = [holdoff EXCEPT ![p] = @ - 1]
  /\ Goto(p, IF call[p].op = "releaseAll" THEN "releaseAll" ELSE "idle")

LWLockReleaseInternal(p) ==
  LET l == Lock(p)
      w == IF call[p].mode = "LW_EXCLUSIVE"
           THEN [word[l] EXCEPT !.exclusive = FALSE]
           ELSE DropShare(word[l])
  IN  /\ At(p, "release")
      /\ word' = [word EXCEPT ![l] = w]
      /\ IF CheckWaiters(w)
         THEN Goto(p, "wakeLock") /\ UNCHANGED holdoff
         ELSE FinishRelease(p)
      /\ UNCHANGED <<waiters, var, proc, held, call, site, mustwait, extraWaits,
                     wakeup, budget, stray>>

-----------------------------------------------------------------------------
(* LWLockWakeup                                                            *)

\* LWLockWaitListLock: spin until LOCKED is ours.
WaitListLock(p, from, to) ==
  /\ At(p, from)
  /\ ~word[Lock(p)].locked
  /\ word' = [word EXCEPT ![Lock(p)].locked = TRUE]
  /\ Goto(p, to)
  /\ UNCHANGED <<waiters, var, proc, mine, call, site, mustwait, extraWaits,
                 wakeup, budget, stray>>

WakeLock(p) == WaitListLock(p, "wakeLock", "wakeScan")

Exclusive(q) == lwWaitMode[q] = "LW_EXCLUSIVE"
UntilFree(q) == lwWaitMode[q] = "LW_WAIT_UNTIL_FREE"

\* The places on the list of those that want the lock, not just its release.
Wanting(list) == {i \in DOMAIN list : ~UntilFree(list[i])}

\* The places of those the scan wakes: up to the first that wants the lock
\* when that one is exclusive, every non-exclusive one when it is shared.
Woken(list) ==
  IF Wanting(list) = {} THEN DOMAIN list
  ELSE LET f == First(Wanting(list))
       IN  IF Exclusive(list[f])
           THEN 1..f
           ELSE {i \in DOMAIN list : ~Exclusive(list[i])}

\* lwWaiting with s at the members of woken.
Marked(woken, s) ==
  [q \in Procs |-> IF \E i \in DOMAIN woken : woken[i] = q THEN s ELSE lwWaiting[q]]

\* Mutant: the flag is cleared while the link is still in use.
MarkEarly(woken) == Marked(woken, "NOT_WAITING")

MarkPending(woken) == Marked(woken, "PENDING_WAKEUP")

WakeScan(p) ==
  LET l     == Lock(p)
      S     == Woken(waiters[l])
      woken == Pick(waiters[l], S)
      rest  == Pick(waiters[l], DOMAIN waiters[l] \ S)
  IN  /\ At(p, "wakeScan")
      /\ waiters' = [waiters EXCEPT ![l] = rest]
      /\ wakeup' = [wakeup EXCEPT ![p] = woken]
      /\ lwWaiting' = MarkPending(woken)
      /\ word' = [word EXCEPT ![l].releaseOk = (Wanting(woken) = {}),
                              ![l].hasWaiters = @ /\ rest # <<>>,
                              ![l].locked = FALSE]
      /\ Goto(p, "wakeFlag")
      /\ UNCHANGED <<var, lwWaitMode, sem, mine, call, site, mustwait,
                     extraWaits, budget, stray>>

\* Unlink the head of the wakeup list, then clear its lwWaiting.  The head
\* stays in wakeup[p] as the one to post, but its link is free again.
WakeFlag(p) ==
  /\ At(p, "wakeFlag")
  /\ wakeup[p] # <<>>
  /\ lwWaiting' = [lwWaiting EXCEPT ![Head(wakeup[p])] = "NOT_WAITING"]
  /\ Goto(p, "wakePost")
  /\ UNCHANGED <<shared, lwWaitMode, sem, mine, call, site, mustwait, extraWaits,
                 wakeup, budget, stray>>

WakePost(p) ==
  /\ At(p, "wakePost")
  /\ sem' = [sem EXCEPT ![Head(wakeup[p])] = @ + 1]
  /\ wakeup' = [wakeup EXCEPT ![p] = Tail(@)]
  /\ Goto(p, "wakeFlag")
  /\ UNCHANGED <<shared, lwWaiting, lwWaitMode, mine, call, site, mustwait,
                 extraWaits, budget, stray>>

\* The wakeup list is exhausted: return to whoever called.
WakeDone(p) ==
  /\ At(p, "wakeFlag")
  /\ wakeup[p] = <<>>
  /\ CASE site[p] = "release" -> FinishRelease(p)
       [] site[p] = "var"     -> Goto(p, "idle") /\ UNCHANGED holdoff
       [] OTHER               -> Goto(p, AfterFail(p)) /\ UNCHANGED holdoff
  /\ UNCHANGED <<shared, proc, held, call, site, mustwait, extraWaits, wakeup,
                 budget, stray>>

-----------------------------------------------------------------------------
(* LWLockQueueSelf and LWLockDequeueSelf                                   *)

QueueLock(p) == WaitListLock(p, "queueLock", "queueFlag")

QueueFlag(p) ==
  /\ At(p, "queueFlag")
  /\ word' = [word EXCEPT ![Lock(p)].hasWaiters = TRUE]
  /\ Goto(p, "queuePush")
  /\ UNCHANGED <<waiters, var, proc, mine, call, site, mustwait, extraWaits,
                 wakeup, budget, stray>>

\* acquire queues at the tail; those that wait until the lock is free, at the
\* head.
Push(p, list) ==
  IF call[p].op = "acquire" THEN proclist_push_tail(list, p)
                            ELSE proclist_push_head(list, p)

QueuePush(p) ==
  LET l == Lock(p) IN
  /\ At(p, "queuePush")
  /\ lwWaiting' = [lwWaiting EXCEPT ![p] = "WAITING"]
  /\ lwWaitMode' = [lwWaitMode EXCEPT ![p] =
                      IF call[p].op = "acquire" THEN call[p].mode
                                                ELSE "LW_WAIT_UNTIL_FREE"]
  /\ waiters' = [waiters EXCEPT ![l] = Push(p, @)]
  /\ word' = [word EXCEPT ![l].locked = FALSE]
  /\ site' = [site EXCEPT ![p] = "queued"]
  /\ Goto(p, IF call[p].op = "waitForVar" THEN "varReleaseOk" ELSE "attempt")
  /\ UNCHANGED <<var, sem, mine, call, mustwait, extraWaits, wakeup, budget, stray>>

DequeueLock(p) == WaitListLock(p, "dequeueLock", "dequeueUnlink")

DequeueUnlink(p) ==
  LET l       == Lock(p)
      onList  == lwWaiting[p] = "WAITING"
      rest    == IF onList THEN proclist_delete(waiters[l], p)
                           ELSE waiters[l]
  IN  /\ At(p, "dequeueUnlink")
      /\ waiters' = [waiters EXCEPT ![l] = rest]
      /\ word' = [word EXCEPT ![l].hasWaiters = @ /\ rest # <<>>,
                              ![l].locked = FALSE]
      /\ IF onList
         THEN /\ lwWaiting' = [lwWaiting EXCEPT ![p] = "NOT_WAITING"]
              /\ Goto(p, "return")
         ELSE /\ Goto(p, "dequeueReleaseOk")
              /\ UNCHANGED lwWaiting
      /\ UNCHANGED <<var, lwWaitMode, sem, mine, call, site, mustwait,
                     extraWaits, wakeup, budget, stray>>

\* fetch_or of RELEASE_OK, at the three places the code does it.
SetReleaseOk(p, from, to) ==
  /\ At(p, from)
  /\ word' = [word EXCEPT ![Lock(p)].releaseOk = TRUE]
  /\ Goto(p, to)
  /\ UNCHANGED <<waiters, var, proc, mine, call, mustwait, extraWaits, wakeup,
                 budget, stray>>

\* Somebody took us off the list: absorb the wakeup that is coming.
DequeueReleaseOk(p) ==
  SetReleaseOk(p, "dequeueReleaseOk", "dequeueSleep") /\ UNCHANGED site

\* PGSemaphoreLock until lwWaiting is clear, counting the others' posts.
SemaphoreLock(p, from, to) ==
  /\ At(p, from)
  /\ sem[p] > 0
  /\ sem' = [sem EXCEPT ![p] = @ - 1]
  /\ IF lwWaiting[p] = "NOT_WAITING"
     THEN Goto(p, to) /\ UNCHANGED extraWaits
     ELSE extraWaits' = [extraWaits EXCEPT ![p] = @ + 1] /\ UNCHANGED pc

DequeueSleep(p) ==
  /\ SemaphoreLock(p, "dequeueSleep", "return")
  /\ UNCHANGED <<shared, lwWaiting, lwWaitMode, mine, call, site, mustwait,
                 wakeup, budget, stray>>

-----------------------------------------------------------------------------
(* The waiting loops of the entry points                                   *)

\* wait_until_awakened, and where each entry point goes from there.
AfterSleep(p) ==
  CASE call[p].op = "acquire"    -> "releaseOk"
    [] call[p].op = "waitForVar" -> "varState"
    [] OTHER                     -> "return"

WaitUntilAwakened(p) ==
  /\ SemaphoreLock(p, "sleep", AfterSleep(p))
  /\ site' = [site EXCEPT ![p] = IF pc'[p] = "varState" THEN "first" ELSE @]
  /\ UNCHANGED <<shared, lwWaiting, lwWaitMode, mine, call, mustwait, wakeup,
                 budget, stray>>

\* The woken backend lets the next release wake others, then tries again.
AcquireReleaseOk(p) ==
  /\ SetReleaseOk(p, "releaseOk", "attempt")
  /\ site' = [site EXCEPT ![p] = "woken"]

\* Mutant: the post comes before the test of the count.
RepayFirst(p) ==
  /\ At(p, "return")
  /\ sem' = [sem EXCEPT ![p] = @ + 1]
  /\ extraWaits' = [extraWaits EXCEPT ![p] = @ - 1]
  /\ UNCHANGED <<shared, lwWaiting, lwWaitMode, mine, pc, call, site, mustwait,
                 wakeup, budget, stray>>

\* Repay the absorbed posts, one at a time.
Repay(p) ==
  /\ At(p, "return")
  /\ extraWaits[p] > 0
  /\ sem' = [sem EXCEPT ![p] = @ + 1]
  /\ extraWaits' = [extraWaits EXCEPT ![p] = @ - 1]
  /\ UNCHANGED <<shared, lwWaiting, lwWaitMode, mine, pc, call, site, mustwait,
                 wakeup, budget, stray>>

\* record_held when the lock was obtained, ResumeInterrupts when not.
Return(p) ==
  /\ At(p, "return")
  /\ extraWaits[p] = 0
  /\ IF mustwait[p] \/ call[p].op = "waitForVar"
     THEN holdoff' = [holdoff EXCEPT ![p] = @ - 1] /\ UNCHANGED held
     ELSE held' = [held EXCEPT ![p][Lock(p)] = call[p].mode] /\ UNCHANGED holdoff
  /\ mustwait' = [mustwait EXCEPT ![p] = FALSE]
  /\ Goto(p, "idle")
  /\ UNCHANGED <<shared, proc, call, site, extraWaits, wakeup, budget, stray>>

-----------------------------------------------------------------------------
(* LWLockConflictsWithVar, LWLockWaitForVar and LWLockUpdateVar            *)

\* Mutant: sleep without looking at the variable again.
VarNoRecheck(p) ==
  SetReleaseOk(p, "varReleaseOk", "sleep") /\ UNCHANGED site

\* Queued: any release must wake us from now on; then look again.
VarReleaseOk(p) ==
  SetReleaseOk(p, "varReleaseOk", "varState") /\ UNCHANGED site

\* First load: nobody holds the lock exclusively, so there is no conflict.
VarState(p) ==
  /\ At(p, "varState")
  /\ Goto(p, IF word[Lock(p)].exclusive THEN "varValue" ELSE AfterGot(p))
  /\ UNCHANGED <<shared, proc, mine, call, site, mustwait, extraWaits, wakeup,
                 budget, stray>>

\* Second load: no conflict either when the variable has moved on.
VarValue(p) ==
  /\ At(p, "varValue")
  /\ Goto(p, IF var[Lock(p)] # call[p].oldval THEN AfterGot(p) ELSE AfterFail(p))
  /\ UNCHANGED <<shared, proc, mine, call, site, mustwait, extraWaits, wakeup,
                 budget, stray>>

UpdateLock(p) == WaitListLock(p, "updateLock", "updateScan")

\* Take off the leading waiters that only wait for a change; the scan stops
\* at the first of the others.
UpdateScan(p) ==
  LET l     == Lock(p)
      W     == Wanting(waiters[l])
      n     == IF W = {} THEN Len(waiters[l]) ELSE First(W) - 1
      woken == SubSeq(waiters[l], 1, n)
  IN  /\ At(p, "updateScan")
      /\ waiters' = [waiters EXCEPT ![l] = SubSeq(@, n + 1, Len(@))]
      /\ wakeup' = [wakeup EXCEPT ![p] = woken]
      /\ lwWaiting' = MarkPending(woken)
      /\ word' = [word EXCEPT ![l].locked = FALSE]
      /\ Goto(p, "wakeFlag")
      /\ UNCHANGED <<var, lwWaitMode, sem, mine, call, site, mustwait,
                     extraWaits, budget, stray>>

-----------------------------------------------------------------------------
(* The crash cycle: every backend is dead, and the postmaster re-arms every *)
(* lock before it starts new ones, whose PGPROCs and threads are fresh.     *)

LWLockResetAfterCrash ==
  /\ word' = EachLock(Unlocked) /\ waiters' = EachLock(<<>>) /\ var' = EachLock(0)
  /\ lwWaiting' = EachProc("NOT_WAITING") /\ lwWaitMode' = EachProc("LW_EXCLUSIVE")
  /\ sem' = stray
  /\ held' = EachProc(EachLock("none")) /\ holdoff' = EachProc(0)
  /\ pc' = EachProc("idle") /\ call' = EachProc(NoCall) /\ site' = EachProc("first")
  /\ mustwait' = EachProc(FALSE) /\ extraWaits' = EachProc(0)
  /\ wakeup' = EachProc(<<>>)
  /\ UNCHANGED <<budget, stray>>

Call(p) ==
  \/ \E l \in Locks, m \in Modes : \/ LWLockAcquire(p, l, m)
                                   \/ LWLockConditionalAcquire(p, l, m)
                                   \/ LWLockAcquireOrWait(p, l, m)
  \/ \E l \in Locks, v \in Vals : \/ LWLockWaitForVar(p, l, v)
                                  \/ LWLockUpdateVar(p, l, v)

GiveBack(p) ==
  \/ \E l \in Locks : LWLockRelease(p, l) \/ LWLockReleaseClearVar(p, l)
  \/ LWLockReleaseAll(p)

Step(p) ==
  \/ LWLockAttemptLock(p) \/ LWLockAttemptLockBackout(p)
  \/ LWLockReleaseInternal(p) \/ ReleaseAllNext(p)
  \/ WakeLock(p) \/ WakeScan(p) \/ WakeFlag(p) \/ WakePost(p) \/ WakeDone(p)
  \/ QueueLock(p) \/ QueueFlag(p) \/ QueuePush(p)
  \/ DequeueLock(p) \/ DequeueUnlink(p) \/ DequeueReleaseOk(p) \/ DequeueSleep(p)
  \/ WaitUntilAwakened(p) \/ AcquireReleaseOk(p) \/ Repay(p) \/ Return(p)
  \/ VarReleaseOk(p) \/ VarState(p) \/ VarValue(p)
  \/ UpdateLock(p) \/ UpdateScan(p)

\* All calls made, all locks given back.
Finished ==
  /\ \A p \in Procs : At(p, "idle") /\ NumHeld(p) = 0
  /\ UNCHANGED vars

Next ==
  \/ \E p \in Procs : Call(p) \/ GiveBack(p) \/ Step(p)
  \/ LWLockResetAfterCrash
  \/ Finished

Spec == Init /\ [][Next]_vars

-----------------------------------------------------------------------------
(* Properties                                                              *)

\* The places of a call at which an attempt that succeeded is not recorded.
GotPCs == {"dequeueLock", "dequeueUnlink", "dequeueReleaseOk", "dequeueSleep",
           "return"}

\* The mode in which p owns l: recorded, or obtained and not yet recorded,
\* or no longer recorded and not yet given back.
Owns(p, l) ==
  IF held[p][l] # "none" THEN held[p][l]
  ELSE IF /\ Lock(p) = l
          /\ \/ pc[p] \in GotPCs /\ ~mustwait[p]
             \/ pc[p] = "release"
       THEN call[p].mode
       ELSE "none"

\* p's share of l is counted but not owned.
Transient(p, l) == pc[p] = "backout" /\ Lock(p) = l

TypeOK ==
  /\ word       \in [Locks -> Word]
  /\ waiters    \in [Locks -> Seq(Procs)]
  /\ var        \in [Locks -> Vals]
  /\ lwWaiting  \in [Procs -> WaitState]
  /\ lwWaitMode \in [Procs -> WaitModes]
  /\ sem        \in [Procs -> Nat]
  /\ held       \in [Procs -> [Locks -> Modes \cup {"none"}]]
  /\ holdoff    \in [Procs -> Nat]
  /\ pc         \in [Procs -> PCs]
  /\ call       \in [Procs -> Calls]
  /\ site       \in [Procs -> Sites]
  /\ mustwait   \in [Procs -> BOOLEAN]
  /\ extraWaits \in [Procs -> Nat]
  /\ wakeup     \in [Procs -> Seq(Procs)]
  /\ budget     \in Nat
  /\ stray      \in [Procs -> Nat]

\* An exclusive owner of a lock is its only owner, whatever the transient
\* shares that failed shared attempts leave in the word for a moment.
MutualExclusion ==
  \A l \in Locks : \A p, q \in Procs :
    p # q /\ Owns(p, l) = "LW_EXCLUSIVE" => Owns(q, l) = "none"

Sharers(l) == {p \in Procs : Owns(p, l) = "LW_SHARED" \/ Transient(p, l)}

\* The word tells the truth: its exclusive bit is set just when somebody owns
\* the lock exclusively, and its count is that of the shared owners and of the
\* failed attempts not yet backed out.  So a count never exceeds the number of
\* backends, and never carries into the exclusive bit.
WordCountsOwners ==
  \A l \in Locks :
    /\ word[l].exclusive <=> \E p \in Procs : Owns(p, l) = "LW_EXCLUSIVE"
    /\ word[l].shares = Cardinality(Sharers(l))

\* The part of p's wakeup list that is still linked through PGPROC.lwWaitLink.
LinkedWakeup(p) ==
  IF pc[p] = "wakePost" THEN Tail(wakeup[p]) ELSE wakeup[p]

\* A backend has one link node: it is on one list at most, once, and lwWaiting
\* says on which kind.  (proclist_push asserts that the node is free; clearing
\* lwWaiting before the unlink would let the wakee queue itself again while it
\* is still on the waker's list.)
OneLinkOneList ==
  \A q \in Procs :
    LET onWait(l) == Occurs(q, waiters[l])
        onWake(p) == Occurs(q, LinkedWakeup(p))
    IN  /\ lwWaiting[q] = "WAITING" <=>
             \E l \in Locks : onWait(l) = 1
        /\ lwWaiting[q] = "PENDING_WAKEUP" <=>
             \E p \in Procs : onWake(p) = 1
        /\ \A l \in Locks : onWait(l) <= 1 /\ (onWait(l) = 1 => Lock(q) = l)
        /\ \A p \in Procs : onWake(p) <= 1
        /\ \A p1, p2 \in Procs : onWake(p1) = 1 /\ onWake(p2) = 1 => p1 = p2

\* Interrupts are held off once for each lock a backend holds, and no more,
\* whenever it is outside the lock code.
HoldoffBalanced ==
  \A p \in Procs :
    /\ pc[p] = "idle" => holdoff[p] = NumHeld(p)
    /\ pc[p] = "releaseAll" => holdoff[p] = 0

\* A backend inside a call on l that is not asleep on l's wait list.
Active(q, l) ==
  /\ Lock(q) = l
  /\ pc[q] \notin {"idle", "releaseAll"}
  /\ ~(pc[q] = "sleep" /\ lwWaiting[q] = "WAITING")

\* No wakeup is lost: when a backend sleeps on the wait list of a lock that
\* nobody owns, somebody is still at work on that lock.
NoLostWakeup ==
  \A l \in Locks :
    /\ \E p \in Procs : pc[p] = "sleep" /\ Lock(p) = l /\ lwWaiting[p] = "WAITING"
    /\ \A p \in Procs : Owns(p, l) = "none"
    => \E q \in Procs : Active(q, l)

\* No update is lost: when a backend sleeps on a wait list until the variable
\* changes, and it has changed, somebody is still to scan that list (the
\* holder that made the update may keep the lock for ever), or the lock is
\* shared and the last share to go will: LWLockReleaseInternal leaves the wakeup
\* to it when it finds a share in the word, be it one that is backed out.
NoLostUpdate ==
  \A p \in Procs :
    /\ pc[p] = "sleep" /\ call[p].op = "waitForVar" /\ lwWaiting[p] = "WAITING"
    /\ var[Lock(p)] # call[p].oldval
    => \E q \in Procs :
         \/ /\ Lock(q) = Lock(p)
            /\ pc[q] \in {"updateLock", "updateScan", "release", "wakeLock", "wakeScan",
                          "backout"}
         \/ Owns(q, Lock(p)) = "LW_SHARED"

\* The abstract lock, held by those who own it.
RW == INSTANCE RWLock
        WITH holder <- [l \in Locks |-> [p \in Procs |-> Owns(p, l)]]

\* Every step grants a hold compatible with the others, gives one back, or
\* changes no hold at all.
ImplementsRWLock == RW!RWSpec
=============================================================================
