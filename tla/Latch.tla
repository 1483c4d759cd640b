-------------------------------- MODULE Latch --------------------------------
(***************************************************************************)
(* The latch of each PGPROC: SetLatch, ResetLatch, WaitLatch on the        *)
(* waiter's condvar (crates/backend/storage/ipc/latch) and                 *)
(* WaitEventSetWait in epoll (crates/backend/storage/ipc/waiteventset).    *)
(*                                                                         *)
(* "flag" is what a latch is for: the condition its setter establishes     *)
(* before SetLatch and its owner looks at after ResetLatch.                *)
(***************************************************************************)
EXTENDS Waiter

VARIABLES
    latch,    \* PGPROC -> is_set, maybe_sleeping, waker, owner
    flag      \* PGPROC -> TRUE iff there is work its owner was told of

LatchInit ==
    /\ latch = [p \in Procs |-> [is_set |-> FALSE, maybe_sleeping |-> FALSE,
                                 waker |-> NoHandle, owner |-> None]]
    /\ flag = [p \in Procs |-> FALSE]

-----------------------------------------------------------------------------
\* Setting.

\* A thread has work for the owner of p: it raises the flag and calls
\* SetLatch.
SetLatchEnter(t, p) ==
    /\ th[t].pc = "idle"
    /\ flag' = [flag EXCEPT ![p] = TRUE]
    /\ th' = [th EXCEPT ![t] = [Resting EXCEPT !.pc = "probe", !.proc = p]]
    /\ UNCHANGED <<slot, readable, current, latch>>

\* A latch that is already set is left alone.
SetProbe(t) ==
    /\ th[t].pc = "probe"
    /\ IF latch[th[t].proc].is_set THEN Return(t) ELSE Goto(t, "mark")
    /\ UNCHANGED <<slot, readable, current, latch, flag>>

SetMark(t) ==
    /\ th[t].pc = "mark"
    /\ latch' = [latch EXCEPT ![th[t].proc].is_set = TRUE]
    /\ Goto(t, "armed")
    /\ UNCHANGED <<slot, readable, current, flag>>

\* Nobody to wake unless the owner has armed maybe_sleeping.
SetArmed(t) ==
    /\ th[t].pc = "armed"
    /\ IF latch[th[t].proc].maybe_sleeping THEN Goto(t, "waker") ELSE Return(t)
    /\ UNCHANGED <<slot, readable, current, latch, flag>>

SetWaker(t) ==
    /\ th[t].pc = "waker"
    /\ th' = [th EXCEPT ![t].pc = "unpark", ![t].word = latch[th[t].proc].waker]
    /\ UNCHANGED <<slot, readable, current, latch, flag>>

-----------------------------------------------------------------------------
\* The owner's loop: ResetLatch, look at the flag, wait.

\* ResetLatch.
ResetLatch(t, p) ==
    /\ th[t].pc = "idle"
    /\ latch' = [latch EXCEPT ![p].is_set = FALSE]
    /\ th' = [th EXCEPT ![t] = [Resting EXCEPT !.pc = "look", !.proc = p]]
    /\ UNCHANGED <<slot, readable, current, flag>>

\* The caller looks for work: it does it, or it waits on the latch, alone
\* (WaitLatch) or with its sockets (WaitEventSetWait), with or without a
\* timeout.
Look(t) ==
    /\ th[t].pc = "look"
    /\ \/ /\ flag[th[t].proc]
          /\ flag' = [flag EXCEPT ![th[t].proc] = FALSE]
          /\ Finish(t)
       \/ /\ ~flag[th[t].proc]
          /\ UNCHANGED flag
          /\ \E timeout \in {"never", "some"}, test \in {"test", "wtest"} :
                th' = [th EXCEPT ![t].pc = test, ![t].timeout = timeout,
                                 ![t].cur = timeout]
    /\ UNCHANGED <<slot, readable, current, latch>>

-----------------------------------------------------------------------------
\* WaitLatch: wait_latch_on_waiter.

\* The top of the loop: is_set, then the deadline.
LatchTest(t) ==
    /\ th[t].pc = "test"
    /\ \/ latch[th[t].proc].is_set /\ Finish(t)
       \/ ~latch[th[t].proc].is_set /\ th[t].timeout = "some" /\ Finish(t)
       \/ ~latch[th[t].proc].is_set /\ Goto(t, "route_up")
    /\ UNCHANGED <<slot, readable, current, latch, flag>>

\* The wake route is published at every wait, before maybe_sleeping is armed.
LatchPublish(t) ==
    /\ th[t].pc \in {"route_up", "wroute_up"}
    /\ latch' = [latch EXCEPT ![th[t].proc].waker = CurrentHandle(t)]
    /\ Goto(t, IF th[t].pc = "route_up" THEN "arm" ELSE "warm")
    /\ UNCHANGED <<slot, readable, current, flag>>

LatchArm(t) ==
    /\ th[t].pc \in {"arm", "warm"}
    /\ latch' = [latch EXCEPT ![th[t].proc].maybe_sleeping = TRUE]
    /\ Goto(t, IF th[t].pc = "arm" THEN "again" ELSE "wagain")
    /\ UNCHANGED <<slot, readable, current, flag>>

\* is_set is looked at once more before the thread parks.
LatchAgain(t) ==
    /\ th[t].pc = "again"
    /\ th' = [th EXCEPT
                ![t].pc = IF latch[th[t].proc].is_set THEN "disarm_out" ELSE "park",
                ![t].ret = "disarm"]
    /\ UNCHANGED <<slot, readable, current, latch, flag>>

\* maybe_sleeping is taken back on the way out and after every park.
LatchDisarm(t) ==
    /\ th[t].pc \in {"disarm", "disarm_out"}
    /\ latch' = [latch EXCEPT ![th[t].proc].maybe_sleeping = FALSE]
    /\ IF th[t].pc = "disarm" THEN Goto(t, "test") ELSE Finish(t)
    /\ UNCHANGED <<slot, readable, current, flag>>

-----------------------------------------------------------------------------
\* WaitEventSetWait: wait_loop and the epoll backend's wait_block.

\* The top of a lap.
SetTest(t) ==
    /\ th[t].pc = "wtest"
    /\ Goto(t, IF latch[th[t].proc].is_set THEN "wagain" ELSE "wroute_up")
    /\ UNCHANGED <<slot, readable, current, latch, flag>>

\* The second look at is_set.  A set latch is reported; the caller's array
\* may have room for socket events too, which are polled for once.
SetAgain(t) ==
    /\ th[t].pc = "wagain"
    /\ \/ /\ latch[th[t].proc].is_set
          /\ latch' = [latch EXCEPT ![th[t].proc].maybe_sleeping = FALSE]
          /\ \/ Finish(t)
             \/ th' = [th EXCEPT ![t].pc = "block", ![t].returned = TRUE,
                                 ![t].fdParked = FALSE,
                                 ![t].cur = "zero", ![t].timeout = "some"]
       \/ /\ ~latch[th[t].proc].is_set
          /\ Goto(t, "begin")
          /\ UNCHANGED latch
    /\ UNCHANGED <<slot, readable, current, flag>>

\* The kernel timeout of a lap: a notification that was already latched turns
\* the block into a poll.
LapTimeout(t, parked) == IF parked THEN th[t].cur ELSE "zero"

\* begin_fd_park.
SetBegin(t) ==
    /\ th[t].pc = "begin"
    /\ slot[current[t]].mode \in {"Idle", "Notified"}
    /\ slot' = [slot EXCEPT ![current[t]].mode = BeginFdParkMode(@)]
    /\ th' = [th EXCEPT ![t].pc = "block", ![t].fdParked = BeginFdPark(t),
                        ![t].cur = LapTimeout(t, BeginFdPark(t))]
    /\ UNCHANGED <<readable, current, latch, flag>>

\* The wake pipe of thread t has bytes to read.
WakeReadable(t) == slot[current[t]].wake_fd \in readable

\* epoll_wait reports the wake pipe: it is drained, and counts as an event
\* only if the latch is armed and set.
BlockWake(t) ==
    /\ th[t].pc = "block"
    /\ WakeReadable(t)
    /\ readable' = readable \ {slot[current[t]].wake_fd}
    /\ th' = [th EXCEPT
                ![t].pc = "unblock",
                ![t].rc = IF latch[th[t].proc].maybe_sleeping /\ latch[th[t].proc].is_set
                          THEN "event" ELSE "zero"]
    /\ UNCHANGED <<slot, current, latch, flag>>

\* epoll_wait reports a socket, or is interrupted by a signal.
BlockOther(t) ==
    /\ th[t].pc = "block"
    /\ \E rc \in {"event", "zero"} :
          th' = [th EXCEPT ![t].pc = "unblock", ![t].rc = rc]
    /\ UNCHANGED <<slot, readable, current, latch, flag>>

\* Mutant: the cadence bounds no lap in the kernel.
BlockExpiredTimed(t) ==
    /\ th[t].pc = "block"
    /\ ~WakeReadable(t)
    /\ th[t].cur \in {"zero", "some"}
    /\ th' = [th EXCEPT ![t].pc = "unblock", ![t].rc = "expired"]
    /\ UNCHANGED <<slot, readable, current, latch, flag>>

\* The kernel timeout elapses with nothing to report: at once in a poll, else
\* with the caller's timeout or the cadence that bounds an fd-parked lap.
BlockExpired(t) ==
    /\ th[t].pc = "block"
    /\ ~WakeReadable(t)
    /\ th[t].cur \in {"zero", "some"} \/ (Cadence /\ th[t].fdParked)
    /\ th' = [th EXCEPT ![t].pc = "unblock", ![t].rc = "expired"]
    /\ UNCHANGED <<slot, readable, current, latch, flag>>

\* epoll_wait or the drain fails: the error leaves the wait at once.
BlockError(t) ==
    /\ th[t].pc = "block"
    /\ EpollFails
    /\ Finish(t)
    /\ UNCHANGED <<slot, readable, current, latch, flag>>

\* end_fd_park.
SetEnd(t) ==
    /\ th[t].pc = "unblock"
    /\ slot' = IF th[t].fdParked
               THEN [slot EXCEPT ![current[t]].mode = EndFdParkMode(@)] ELSE slot
    /\ Goto(t, "lap")
    /\ UNCHANGED <<readable, current, latch, flag>>

\* The end of a lap: the latch is disarmed; an event, or the caller's own
\* deadline, ends the wait, and anything else starts another lap.  A wait
\* with a timeout computes what is left of it.
SetLap(t) ==
    /\ th[t].pc = "lap"
    /\ latch' = [latch EXCEPT ![th[t].proc].maybe_sleeping = FALSE]
    /\ \/ /\ th[t].rc = "event" \/ th[t].returned \/ th[t].timeout = "some"
          /\ Finish(t)
       \/ /\ th[t].rc # "event" /\ ~th[t].returned
          /\ th' = [th EXCEPT ![t].pc = "wtest", ![t].fdParked = FALSE,
                              ![t].cur = IF th[t].timeout = "some" THEN "some" ELSE @]
    /\ UNCHANGED <<slot, readable, current, flag>>

-----------------------------------------------------------------------------
WaitSteps == {"look", "test", "route_up", "arm", "again", "disarm", "disarm_out",
              "wtest", "wroute_up", "warm", "wagain", "begin", "block",
              "unblock", "lap"}

\* Thread t is inside its loop on the latch of p.
InWait(t, p) ==
    /\ th[t].proc = p
    /\ \/ th[t].pc \in WaitSteps
       \/ th[t].pc \in {"park", "cvwait"} /\ th[t].ret = "disarm"
=============================================================================
