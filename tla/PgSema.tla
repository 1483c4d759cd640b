------------------------------- MODULE PgSema -------------------------------
(***************************************************************************)
(* The semaphore of each PGPROC over the structured wait primitive         *)
(* (crates/backend/port/pg_sema).  Only the owner of a PGPROC locks its    *)
(* semaphore; any thread unlocks it.                                       *)
(*                                                                         *)
(* The locker publishes its handle and then looks at the count again; the  *)
(* unlocker posts the count and then loads the handle.  Every atomic       *)
(* operation is one step, in one total order (the code uses SeqCst).       *)
(***************************************************************************)
EXTENDS Waiter

CONSTANT MaxCount   \* bound: posts that may pile up on one semaphore

ASSUME PgSemaAssumption == MaxCount \in Nat \ {0}

VARIABLE sema       \* PGPROC -> posted count and published handle

\* PGSemaphoreCreate: the initial value is 1.
SemaInit == sema = [p \in Procs |-> [count |-> 1, waiter |-> NoHandle]]

\* PGSemaphoreReset, by the thread that takes the PGPROC.
SemaReset == [count |-> 0, waiter |-> NoHandle]

\* Thread t enters PGSemaphoreLock(p).
SemaLockEnter(t, p) ==
    /\ th' = [th EXCEPT ![t] = [Resting EXCEPT !.pc = "consume", !.proc = p]]
    /\ UNCHANGED <<slot, readable, current, sema>>

\* Mutant: the published handle is left behind.
AfterConsumeKeeps(t) == Finish(t)

\* Where the locker goes once it has consumed a count: it retires the handle
\* it published, or returns at once.
AfterConsume(t) ==
    IF th[t].published THEN Goto(t, "retire") ELSE Finish(t)

\* The compare-exchange loop: consume a posted count, else take the slow path.
SemaConsume(t) ==
    /\ th[t].pc = "consume"
    /\ LET p == th[t].proc
       IN \/ /\ sema[p].count > 0
             /\ sema' = [sema EXCEPT ![p].count = @ - 1]
             /\ AfterConsume(t)
          \/ /\ sema[p].count = 0
             /\ Goto(t, "publish")
             /\ UNCHANGED sema
    /\ UNCHANGED <<slot, readable, current>>

\* The wake route is retired on return.
SemaRetire(t) ==
    /\ th[t].pc = "retire"
    /\ sema' = [sema EXCEPT ![th[t].proc].waiter = NoHandle]
    /\ Finish(t)
    /\ UNCHANGED <<slot, readable, current>>

\* The slow path publishes the wake route with a swap.
SemaPublish(t) ==
    /\ th[t].pc = "publish"
    /\ sema' = [sema EXCEPT ![th[t].proc].waiter = CurrentHandle(t)]
    /\ th' = [th EXCEPT ![t].pc = "recheck", ![t].published = TRUE]
    /\ UNCHANGED <<slot, readable, current>>

\* The count is looked at once more before the thread parks.
SemaRecheck(t) ==
    /\ th[t].pc = "recheck"
    /\ th' = [th EXCEPT
                ![t].pc = IF sema[th[t].proc].count > 0 THEN "consume" ELSE "park",
                ![t].ret = "consume"]
    /\ UNCHANGED <<slot, readable, current, sema>>

\* Thread t calls PGSemaphoreUnlock(p): the count is posted first.
SemaPost(t, p) ==
    /\ th[t].pc = "idle"
    /\ sema[p].count < MaxCount
    /\ sema' = [sema EXCEPT ![p].count = @ + 1]
    /\ th' = [th EXCEPT ![t] = [Resting EXCEPT !.pc = "route", !.proc = p]]
    /\ UNCHANGED <<slot, readable, current>>

\* Then the published handle is loaded and unparked.
SemaRoute(t) ==
    /\ th[t].pc = "route"
    /\ th' = [th EXCEPT ![t].pc = "unpark", ![t].word = sema[th[t].proc].waiter]
    /\ UNCHANGED <<slot, readable, current, sema>>

LockSteps == {"consume", "retire", "publish", "recheck"}

\* Thread t is inside PGSemaphoreLock(p).
InLock(t, p) ==
    /\ th[t].proc = p
    /\ \/ th[t].pc \in LockSteps
       \/ th[t].pc \in {"park", "cvwait"} /\ th[t].ret = "consume"
=============================================================================
