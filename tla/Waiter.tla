------------------------------- MODULE Waiter -------------------------------
(***************************************************************************)
(* The structured wait primitive: every thread owns one parking slot, and  *)
(* whoever wants to wake it holds a handle that names the slot and one     *)
(* incarnation of its owner (crates/backend/storage/ipc/waiter).           *)
(*                                                                         *)
(* Each critical section of a slot's mutex is one step.  What follows a    *)
(* critical section after the mutex is dropped -- notify_all, the byte     *)
(* written to the wake pipe -- is a step of its own, so that the sleeper,  *)
(* other wakers and a new owner of the slot can come in between.           *)
(*                                                                         *)
(* The modules that use the primitive (PgSema, Latch) extend this one.     *)
(* "th" holds what each thread is doing; the fields it does not use keep   *)
(* the values of Resting.                                                  *)
(***************************************************************************)
EXTENDS Naturals, FiniteSets

CONSTANTS
    Threads,    \* threads of the server
    Slots,      \* parking slots (WAITER_CAP of them)
    Fds,        \* descriptors the kernel can hand out for wake pipes
    Procs,      \* PGPROCs: a semaphore and a latch each
    TokenMod,   \* tokens are counted modulo this (2^32 in the code)
    Settings,   \* the settings a server of this instance may start with
    None        \* no thread, slot, descriptor or PGPROC

ASSUME WaiterAssumption ==
    /\ None \notin Threads \cup Slots \cup Fds \cup Procs
    /\ TokenMod \in Nat \ {0, 1}
    /\ \A s \in Settings : s.kind \in {"plain", "failing", "dropping"}

VARIABLES
    slot,       \* slot -> token, mode, condvar signal, wake pipe
    readable,   \* the pipes with unread bytes
    current,    \* thread -> the slot it owns, or None
    th,         \* thread -> its program counter and locals
    setting     \* how the server was started; never changes

\* A "dropping" server rechecks its conditions at a cadence, and
\* PGRUST_TEST_DROP_WAKE_1IN makes it lose wakes.  On a "failing" one epoll_wait
\* and the drain of the pipe may report errors.
Cadence    == setting.kind = "dropping"
DropWakes  == setting.kind = "dropping"
EpollFails == setting.kind = "failing"

\* The packed word of an AtomicU64 is a slot and a token, or 0 for "nothing published".
NoHandle == <<>>

\* current_handle: the slot of thread t and the token it carries now.
CurrentHandle(t) == <<current[t], slot[current[t]].token>>

\* The locals of a thread that is inside no call.
Resting ==
    [pc |-> "idle", proc |-> None, word |-> NoHandle, fd |-> None,
     ret |-> "idle", published |-> FALSE, fdParked |-> FALSE,
     timeout |-> "never", cur |-> "never", returned |-> FALSE, rc |-> "zero"]

\* Thread t goes on at pc with its other locals unchanged.
Goto(t, pc) == th' = [th EXCEPT ![t].pc = pc]

\* Thread t returns from the call it is in.
Finish(t) == th' = [th EXCEPT ![t] = Resting]

\* Thread t returns to the caller that left a return address, if one did.
Return(t) == IF th[t].ret = "idle" THEN Finish(t) ELSE Goto(t, th[t].ret)

-----------------------------------------------------------------------------
\* A thread and its slot.

WaiterInit ==
    /\ slot = [s \in Slots |->
                 [token |-> 0, mode |-> "Free", signal |-> FALSE, wake_fd |-> None]]
    /\ readable = {}
    /\ current = [t \in Threads |-> None]
    /\ th = [t \in Threads |-> [Resting EXCEPT !.pc = "out"]]
    /\ setting \in Settings

FdsInUse == {slot[s].wake_fd : s \in Slots} \ {None}

\* A thread starts: allocate_slot pops a free slot (which one is left open)
\* and issues it, ensure_wake_pipe opens its pipe on a descriptor the kernel
\* chooses.
ThreadStart(t) ==
    /\ th[t].pc = "out"
    /\ \E s \in Slots, f \in Fds \ FdsInUse :
          /\ slot[s].mode = "Free"
          /\ slot' = [slot EXCEPT ![s].mode = "Idle", ![s].wake_fd = f]
          /\ current' = [current EXCEPT ![t] = s]
          /\ readable' = readable \ {f}
    /\ Goto(t, "idle")

\* The token bump that makes every outstanding handle stale.
Bump(token) == (token + 1) % TokenMod

\* The thread exits: WaiterGuard::drop retires the incarnation and closes the
\* pipe (the slot is on the free list only after that).
ThreadExit(t) ==
    /\ th[t].pc = "idle"
    /\ slot' = [slot EXCEPT ![current[t]] =
                  [token |-> Bump(@.token), mode |-> "Free",
                   signal |-> FALSE, wake_fd |-> None]]
    /\ readable' = readable \ {slot[current[t]].wake_fd}
    /\ current' = [current EXCEPT ![t] = None]
    /\ Goto(t, "out")

\* A pooled thread takes a new task: reissue_token.
RekeyWakeupRegistry(t) ==
    /\ th[t].pc = "idle"
    /\ slot' = [slot EXCEPT ![current[t]].token = Bump(@),
                            ![current[t]].mode = "Idle"]
    /\ UNCHANGED <<readable, current, th>>

-----------------------------------------------------------------------------
\* Waking: unpark_word(th[t].word), always the last thing its caller does.

\* The critical section of unpark_token.  A handle of another incarnation, a
\* free slot and the word 0 are no-ops; an owner that is not blocked finds
\* the notification latched; a blocked one still has to be woken.
Unpark(t) ==
    /\ th[t].pc = "unpark"
    /\ LET w == th[t].word
           live == /\ w # NoHandle
                   /\ slot[w[1]].token = w[2]
                   /\ slot[w[1]].mode # "Free"
       IN \/ /\ ~live
             /\ Return(t)
             /\ UNCHANGED slot
          \/ /\ live
             /\ slot[w[1]].mode \in {"Idle", "Notified"}
             /\ slot' = [slot EXCEPT ![w[1]].mode = "Notified"]
             /\ Return(t)
          \/ /\ live
             /\ slot[w[1]].mode = "Parked"
             /\ slot' = [slot EXCEPT ![w[1]].mode = "Notified"]
             /\ Goto(t, "notify")
          \/ /\ live
             /\ slot[w[1]].mode = "ParkedFd"
             /\ slot' = [slot EXCEPT ![w[1]].mode = "Notified"]
             /\ th' = [th EXCEPT ![t].pc = "byte", ![t].fd = slot[w[1]].wake_fd]
    /\ UNCHANGED <<readable, current>>

\* The fault injection of unpark: the wake is lost before it touches the slot.
\* A thread's wakes of itself are never dropped.
InjectDropWake(t) ==
    /\ th[t].pc = "unpark"
    /\ DropWakes
    /\ th[t].word # NoHandle /\ th[t].word[1] # current[t]
    /\ Return(t)
    /\ UNCHANGED <<slot, readable, current>>

\* The owner of slot s waits on its condvar.
OnCondvar(s) == \E u \in Threads : current[u] = s /\ th[u].pc = "cvwait"

\* cv.notify_all, after the mutex is dropped: it reaches whoever waits now.
NotifyAll(t) ==
    /\ th[t].pc = "notify"
    /\ slot' = [slot EXCEPT ![th[t].word[1]].signal = @ \/ OnCondvar(th[t].word[1])]
    /\ Return(t)
    /\ UNCHANGED <<readable, current>>

\* send_wake_byte, after the mutex is dropped.  A write to a closed
\* descriptor fails and is ignored.
SendWakeByte(t) ==
    /\ th[t].pc = "byte"
    /\ readable' = IF th[t].fd \in FdsInUse THEN readable \cup {th[t].fd} ELSE readable
    /\ Return(t)
    /\ UNCHANGED <<slot, current>>

-----------------------------------------------------------------------------
\* Parking on the condvar: park_core.  The call returns to th[t].ret.

\* Thread t sleeps for a while (the backoff of a spinlock): a park with a
\* timeout that a notification ends early.
Sleep(t) ==
    /\ th[t].pc = "idle"
    /\ th' = [th EXCEPT ![t] = [Resting EXCEPT !.pc = "park", !.timeout = "some"]]
    /\ UNCHANGED <<slot, readable, current>>

\* Mutant: park_core does not look for a latched notification.
ParkDeaf(t) ==
    /\ th[t].pc = "park"
    /\ slot' = [slot EXCEPT ![current[t]].mode = "Parked", ![current[t]].signal = FALSE]
    /\ Goto(t, "cvwait")
    /\ UNCHANGED <<readable, current>>

\* Entry: a latched notification is consumed, or the owner starts to wait.
Park(t) ==
    /\ th[t].pc = "park"
    /\ \/ /\ slot[current[t]].mode = "Notified"
          /\ slot' = [slot EXCEPT ![current[t]].mode = "Idle"]
          /\ Return(t)
       \/ /\ slot[current[t]].mode # "Notified"
          /\ slot' = [slot EXCEPT ![current[t]].mode = "Parked",
                                  ![current[t]].signal = FALSE]
          /\ Goto(t, "cvwait")
    /\ UNCHANGED <<readable, current>>

\* The wait is over when the condvar was signalled; a wake that finds no
\* notification (a notify_all meant for an earlier park) waits again.
ParkWoken(t) ==
    /\ th[t].pc = "cvwait"
    /\ slot[current[t]].signal
    /\ \/ /\ slot[current[t]].mode = "Notified"
          /\ slot' = [slot EXCEPT ![current[t]].mode = "Idle",
                                  ![current[t]].signal = FALSE]
          /\ Return(t)
       \/ /\ slot[current[t]].mode = "Parked"
          /\ slot' = [slot EXCEPT ![current[t]].signal = FALSE]
          /\ UNCHANGED th
    /\ UNCHANGED <<readable, current>>

\* A spurious condvar wake that finds a notification not yet signalled.
ParkSpurious(t) ==
    /\ th[t].pc = "cvwait"
    /\ slot[current[t]].mode = "Notified"
    /\ ~slot[current[t]].signal
    /\ slot' = [slot EXCEPT ![current[t]].mode = "Idle"]
    /\ Return(t)
    /\ UNCHANGED <<readable, current>>

\* The bound of the park elapses: the caller's timeout or the cadence.
ParkExpired(t) ==
    /\ th[t].pc = "cvwait"
    /\ Cadence \/ th[t].timeout = "some"
    /\ slot' = [slot EXCEPT ![current[t]].mode = "Idle",
                            ![current[t]].signal = FALSE]
    /\ Return(t)
    /\ UNCHANGED <<readable, current>>

-----------------------------------------------------------------------------
\* Parking in epoll: begin_fd_park and end_fd_park.

\* begin_fd_park returns FALSE when a notification was already latched.
BeginFdPark(t) == slot[current[t]].mode = "Idle"

\* The mode begin_fd_park leaves; any other mode panics.
BeginFdParkMode(mode) == IF mode = "Notified" THEN "Idle" ELSE "ParkedFd"

\* end_fd_park consumes whatever arrived meanwhile.
EndFdParkMode(mode) == "Idle"
=============================================================================
