------------------------------ MODULE Parking ------------------------------
(***************************************************************************)
(* How backends sleep and wake: the semaphore and the latch of each PGPROC *)
(* over the one parking slot of its owner's thread.  Threads start, take a *)
(* PGPROC (InitProcess), lock its semaphore, wait on its latch, give it up *)
(* (ProcKill), are reused for another task and exit; meanwhile any thread  *)
(* posts any semaphore and sets any latch.                                 *)
(***************************************************************************)
EXTENDS PgSema, Latch

ASSUME ParkingAssumption ==
    \A s \in Settings :
       s.ops \subseteq {"lock", "post", "set", "wait", "sleep", "rekey", "exit", "kill"}

\* Bound: the operations the threads of this server call.
Ops == setting.ops

vars == <<slot, readable, current, th, setting, sema, latch, flag>>

Init ==
    /\ WaiterInit
    /\ SemaInit
    /\ LatchInit

\* Thread t is in a call and owns PGPROC p, or is between calls.
Owns(t, p) == latch[p].owner = t
Unattached(t) == \A p \in Procs : ~Owns(t, p)

\* InitProcess: own the latch, set it (SwitchToSharedLatch), then reset the
\* semaphore.
InitProcess(t, p) ==
    /\ th[t].pc = "idle"
    /\ Unattached(t)
    /\ latch[p].owner = None
    /\ latch' = [latch EXCEPT ![p].owner = t]
    /\ th' = [th EXCEPT ![t] = [Resting EXCEPT !.pc = "probe", !.proc = p,
                                               !.ret = "reset"]]
    /\ UNCHANGED <<slot, readable, current, sema, flag, setting>>

InitProcessReset(t) ==
    /\ th[t].pc = "reset"
    /\ sema' = [sema EXCEPT ![th[t].proc] = SemaReset]
    /\ Finish(t)
    /\ UNCHANGED <<slot, readable, current, latch, flag, setting>>

\* ProcKill gives the latch up; the published waker stays behind.
ProcKill(t, p) ==
    /\ "kill" \in Ops
    /\ th[t].pc = "idle"
    /\ Owns(t, p)
    /\ latch' = [latch EXCEPT ![p].owner = None]
    /\ UNCHANGED <<slot, readable, current, th, sema, flag, setting>>

\* What thread t may start when it is in no call.
Begin(t) ==
    \/ ThreadStart(t) /\ UNCHANGED <<sema, latch, flag, setting>>
    \/ "exit" \in Ops /\ Unattached(t) /\ ThreadExit(t) /\ UNCHANGED <<sema, latch, flag, setting>>
    \/ "rekey" \in Ops /\ Unattached(t) /\ RekeyWakeupRegistry(t)
          /\ UNCHANGED <<sema, latch, flag, setting>>
    \/ "sleep" \in Ops /\ Sleep(t) /\ UNCHANGED <<sema, latch, flag, setting>>
    \/ \E p \in Procs :
          \/ InitProcess(t, p)
          \/ ProcKill(t, p)
          \/ /\ "lock" \in Ops /\ th[t].pc = "idle" /\ Owns(t, p)
             /\ SemaLockEnter(t, p) /\ UNCHANGED <<latch, flag, setting>>
          \/ "post" \in Ops /\ SemaPost(t, p) /\ UNCHANGED <<latch, flag, setting>>
          \/ "set" \in Ops /\ SetLatchEnter(t, p) /\ UNCHANGED <<sema, setting>>
          \/ "wait" \in Ops /\ Owns(t, p) /\ ResetLatch(t, p) /\ UNCHANGED <<sema, setting>>

\* The steps of the semaphore's calls.
SemaStep(t) ==
    /\ SemaConsume(t) \/ SemaRetire(t) \/ SemaPublish(t) \/ SemaRecheck(t) \/ SemaRoute(t)
    /\ UNCHANGED <<latch, flag, setting>>

\* The steps of the latch's calls.
LatchStep(t) ==
    /\ \/ SetProbe(t) \/ SetMark(t) \/ SetArmed(t) \/ SetWaker(t)
       \/ Look(t)
       \/ LatchTest(t) \/ LatchPublish(t) \/ LatchArm(t) \/ LatchAgain(t) \/ LatchDisarm(t)
       \/ SetTest(t) \/ SetAgain(t) \/ SetBegin(t) \/ BlockWake(t) \/ SetEnd(t) \/ SetLap(t)
    /\ UNCHANGED <<sema, setting>>

\* The steps of the waiter.
WaiterStep(t) ==
    /\ Unpark(t) \/ NotifyAll(t) \/ SendWakeByte(t) \/ Park(t) \/ ParkWoken(t)
    /\ UNCHANGED <<sema, latch, flag, setting>>

\* What a thread inside a call does as long as it is scheduled.
Step(t) == SemaStep(t) \/ LatchStep(t) \/ WaiterStep(t) \/ InitProcessReset(t)

\* Time passes: a park or a kernel block reaches its bound.
Expire(t) ==
    \/ ParkExpired(t) /\ UNCHANGED <<sema, latch, flag, setting>>
    \/ BlockExpired(t) /\ UNCHANGED <<sema, setting>>

\* What may happen and need not: a lost wake, a spurious one, a client's
\* data, an error of the kernel.
Happen(t) ==
    \/ InjectDropWake(t) /\ UNCHANGED <<sema, latch, flag, setting>>
    \/ ParkSpurious(t) /\ UNCHANGED <<sema, latch, flag, setting>>
    \/ BlockOther(t) /\ UNCHANGED <<sema, setting>>
    \/ BlockError(t) /\ UNCHANGED <<sema, setting>>

Next == \E t \in Threads : Begin(t) \/ Step(t) \/ Expire(t) \/ Happen(t)

Spec == Init /\ [][Next]_vars

\* A thread inside a call keeps running, and bounds elapse.  Nothing is
\* assumed of Begin or Happen.
Fairness == \A t \in Threads : WF_vars(Step(t)) /\ WF_vars(Expire(t))

FairSpec == Spec /\ Fairness

-----------------------------------------------------------------------------
\* Properties.

\* One locker per semaphore, and no residue of an earlier one: a published
\* handle is the live handle of the one thread inside PGSemaphoreLock.  This
\* is the debug_assert of PGSemaphoreLock, across reuse of the PGPROC, of
\* the thread and of the slot.
RouteIsLockers ==
    \A p \in Procs : sema[p].waiter # NoHandle =>
       \E t \in Threads : /\ th[t].published
                          /\ th[t].proc = p
                          /\ sema[p].waiter = CurrentHandle(t)

\* Thread t sleeps: nothing it can see by itself will end its park or block.
Asleep(t) ==
    \/ th[t].pc = "cvwait" /\ ~slot[current[t]].signal
    \/ th[t].pc = "block" /\ th[t].cur # "zero" /\ ~WakeReadable(t)

\* A thread is parked only inside a park: begin_fd_park, park_core and
\* reissue_token find the slot Idle or Notified, as they assert.
ParkedInsidePark ==
    \A t \in Threads :
       /\ current[t] # None
       /\ slot[current[t]].mode \in {"Parked", "ParkedFd"}
       => th[t].pc \in {"cvwait", "block", "unblock"}

\* A locker of a semaphore with a count returns.
LockReturns ==
    \A t \in Threads, p \in Procs :
       (InLock(t, p) /\ sema[p].count > 0) ~> ~InLock(t, p)

\* Work the owner of a latch is told of while it waits ends the wait.
WorkEndsWait ==
    \A t \in Threads, p \in Procs :
       (InWait(t, p) /\ flag[p]) ~> (~InWait(t, p) \/ ~flag[p])

\* An fd-parked lap of a wait without a timeout blocks in the kernel: the
\* poll is for the lap that found a notification latched (begin_fd_park:
\* "Returns false if a notification is already pending (consumed) -- the
\* caller should poll its event set with a zero timeout instead of
\* blocking").
FdParkedLapBlocks ==
    \A t \in Threads :
       th[t].pc = "block" /\ th[t].fdParked /\ th[t].timeout = "never" =>
          th[t].cur # "zero"

\* A wake byte goes to the live pipe of the slot it is meant for
\* (send_wake_byte: "1-byte write to a live nonblocking pipe fd owned by a
\* slot whose mutex serialized us against close").
WakeByteHasItsPipe ==
    \A t \in Threads :
       th[t].pc = "byte" => slot[th[t].word[1]].wake_fd = th[t].fd
=============================================================================
