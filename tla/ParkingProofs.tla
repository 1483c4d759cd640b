--------------------------- MODULE ParkingProofs ---------------------------
(***************************************************************************)
(* RouteIsLockers of Parking and the assertion of PGSemaphoreLock, for any *)
(* number of threads, slots, descriptors and PGPROCs.                      *)
(***************************************************************************)
EXTENDS Parking, TLAPS

(***************************************************************************)
(* The inductive invariant.                                                *)
(***************************************************************************)

Calls == {"probe", "mark", "armed", "waker", "route", "unpark", "notify", "byte", "reset"}
Places == LockSteps \cup WaitSteps \cup Calls \cup {"out", "idle", "park", "cvwait"}
Handles == {NoHandle} \cup (Slots \X Nat)

Locals == [pc : Places, proc : Procs \cup {None}, word : Handles, fd : Fds \cup {None},
           ret : {"idle", "reset", "consume", "disarm"}, published : BOOLEAN, fdParked : BOOLEAN,
           timeout : {"never", "some"}, cur : {"never", "some", "zero"}, returned : BOOLEAN,
           rc : {"zero", "event", "expired"}]
SlotType == [token : Nat, mode : {"Free", "Idle", "Notified", "Parked", "ParkedFd"},
             signal : BOOLEAN, wake_fd : Fds \cup {None}]
SemaType == [count : Nat, waiter : Handles]
LatchType == [is_set : BOOLEAN, maybe_sleeping : BOOLEAN, waker : Handles, owner : Threads \cup {None}]

Typed ==
  /\ th \in [Threads -> Locals]
  /\ slot \in [Slots -> SlotType]
  /\ current \in [Threads -> Slots \cup {None}]
  /\ sema \in [Procs -> SemaType]
  /\ latch \in [Procs -> LatchType]

\* A thread that runs has a slot, and a slot has one thread.
SlotsOwned ==
  /\ \A t \in Threads : th[t].pc # "out" => current[t] \in Slots
  /\ \A t \in Threads : current[t] # None => slot[current[t]].mode # "Free"
  /\ \A t, u \in Threads : current[t] = current[u] /\ current[t] # None => t = u

\* Thread t is inside PGSemaphoreLock.
Locking(t) == th[t].pc \in LockSteps \/ (th[t].pc \in {"park", "cvwait"} /\ th[t].ret = "consume")

\* Only a locker has published its handle, and nobody wakes another thread in the middle
\* of a lock.
PlaceOK(t) ==
  /\ th[t].published => Locking(t)
  /\ Locking(t) => th[t].proc \in Procs /\ latch[th[t].proc].owner = t
  /\ th[t].pc \in Calls => th[t].ret \in {"idle", "reset"} /\ th[t].proc \in Procs
  /\ th[t].ret = "reset" => th[t].pc \in Calls

RouteInv == Typed /\ SlotsOwned /\ (\A t \in Threads : PlaceOK(t)) /\ RouteIsLockers

(***************************************************************************)
(* Steps that leave handles, owners and wake routes alone.                 *)
(***************************************************************************)

\* The same slots, with the same incarnations.
SlotsKept ==
  /\ current' = current
  /\ slot' \in [Slots -> SlotType]
  /\ \A s \in Slots : /\ slot'[s].token = slot[s].token
                      /\ slot[s].mode # "Free" => slot'[s].mode # "Free"

RoutesKept == sema' \in [Procs -> SemaType] /\ \A p \in Procs : sema'[p].waiter = sema[p].waiter

OwnersKept == latch' \in [Procs -> LatchType] /\ \A p \in Procs : latch'[p].owner = latch[p].owner

\* Thread t goes on inside the lock it is in, or in no lock.
GoesOn(t) ==
  /\ th[t].pc # "out" /\ th'[t].pc # "out"
  /\ th' \in [Threads -> Locals] /\ \A u \in Threads \ {t} : th'[u] = th[u]
  /\ th'[t].published = th[t].published
  /\ th'[t].published \/ Locking(t)' => Locking(t) /\ Locking(t)' /\ th'[t].proc = th[t].proc
  /\ th'[t].pc \in Calls => th'[t].ret \in {"idle", "reset"} /\ th'[t].proc \in Procs
  /\ th'[t].ret = "reset" => th'[t].pc \in Calls

Calm(t) == SlotsKept /\ RoutesKept /\ OwnersKept /\ GoesOn(t)

\* Such a step keeps the invariant.
LEMMA CalmKeeps ==
  ASSUME RouteInv, NEW t \in Threads, Calm(t)
  PROVE  RouteInv'
<1>1. Typed'
  BY DEF RouteInv, Typed, Calm, SlotsKept, RoutesKept, OwnersKept, GoesOn
<1>2. SlotsOwned'
  BY DEF RouteInv, Typed, SlotsOwned, Calm, SlotsKept, GoesOn
<1>3. ASSUME NEW u \in Threads PROVE PlaceOK(u)'
  <2>1. CASE u = t
    BY <2>1 DEF RouteInv, PlaceOK, Calm, GoesOn, OwnersKept
  <2>2. CASE u # t
    <3>1. th'[u] = th[u]
      BY <2>2 DEF Calm, GoesOn
    <3> QED BY <3>1 DEF RouteInv, PlaceOK, Calm, OwnersKept, Locking
  <2> QED BY <2>1, <2>2
<1>4. RouteIsLockers'
  <2> SUFFICES ASSUME NEW p \in Procs, sema'[p].waiter # NoHandle
               PROVE  \E u \in Threads : th'[u].published /\ th'[u].proc = p /\ sema'[p].waiter = CurrentHandle(u)'
    BY DEF RouteIsLockers
  <2>1. sema'[p].waiter = sema[p].waiter
    BY DEF Calm, RoutesKept
  <2>2. PICK u \in Threads : th[u].published /\ th[u].proc = p /\ sema[p].waiter = CurrentHandle(u)
    BY <2>1 DEF RouteInv, RouteIsLockers
  <2>3. th'[u].published /\ th'[u].proc = p
    BY <2>2 DEF Calm, GoesOn
  <2>4. current[u] \in Slots
    BY <2>2 DEF RouteInv, PlaceOK, Locking, LockSteps, SlotsOwned
  <2>5. CurrentHandle(u)' = CurrentHandle(u)
    BY <2>4 DEF Calm, SlotsKept, CurrentHandle
  <2> QED BY <2>1, <2>2, <2>3, <2>5
<1> QED BY <1>1, <1>2, <1>3, <1>4 DEF RouteInv

\* Thread t is somewhere else and nothing else about it has changed.
LEMMA GotoOnly ==
  ASSUME Typed, NEW t \in Threads, NEW s \in Places, Goto(t, s)
  PROVE  /\ th' \in [Threads -> Locals] /\ \A u \in Threads \ {t} : th'[u] = th[u]
         /\ th'[t].pc = s /\ th'[t].proc = th[t].proc /\ th'[t].ret = th[t].ret
         /\ th'[t].published = th[t].published
BY DEF Typed, Goto, Locals

\* The locals of a thread in no call.
LEMMA RestingLocals ==
  Resting \in Locals /\ Resting.pc = "idle" /\ Resting.ret = "idle" /\ Resting.published = FALSE
BY DEF Resting, Locals, Places, Handles

\* A thread that returns is in no call.
LEMMA FinishOnly ==
  ASSUME Typed, NEW t \in Threads, Finish(t)
  PROVE  /\ th' \in [Threads -> Locals] /\ \A u \in Threads \ {t} : th'[u] = th[u]
         /\ th'[t].pc = "idle" /\ th'[t].published = FALSE /\ ~Locking(t)' /\ th'[t].ret = "idle"
<1>1. /\ th' \in [Threads -> Locals] /\ \A u \in Threads \ {t} : th'[u] = th[u]
      /\ th'[t] = Resting
  BY RestingLocals DEF Typed, Finish
<1> QED BY <1>1, RestingLocals DEF Locking, LockSteps

\* A thread outside every lock that returns.
LEMMA CalmFinish ==
  ASSUME RouteInv, NEW t \in Threads, th[t].pc # "out", ~th[t].published, Finish(t)
  PROVE  GoesOn(t)
<1>1. Typed
  BY DEF RouteInv
<1>2. /\ th' \in [Threads -> Locals] /\ \A u \in Threads \ {t} : th'[u] = th[u]
      /\ th'[t].pc = "idle" /\ th'[t].published = FALSE /\ ~Locking(t)' /\ th'[t].ret = "idle"
  BY <1>1, FinishOnly
<1>3. th[t].published = FALSE
  BY <1>1 DEF Typed, Locals
<1>4. th'[t].pc \notin Calls /\ th'[t].pc # "out"
  BY <1>2 DEF Calls
<1> QED BY <1>2, <1>3, <1>4, Zenon DEF GoesOn

\* A thread outside every lock that returns, to a caller or altogether, is in no lock.
LEMMA CalmReturn ==
  ASSUME RouteInv, NEW t \in Threads, th[t].pc \in Calls \cup {"park", "cvwait"}, Return(t)
  PROVE  GoesOn(t)
<1> USE DEF RouteInv
<1>1. CASE th[t].ret = "idle"
  <2>1. ~Locking(t) /\ ~th[t].published
    BY <1>1 DEF PlaceOK, Locking, LockSteps, Calls
  <2>2. th[t].pc # "out" /\ Finish(t)
    BY <1>1 DEF Return, Calls
  <2> QED BY <2>1, <2>2, CalmFinish
<1>2. CASE th[t].ret # "idle"
  <2>1. th[t].ret \in {"reset", "consume", "disarm"} /\ Goto(t, th[t].ret)
    BY <1>2 DEF Typed, Locals, Return
  <2>2. th[t].ret \in Places
    BY <2>1 DEF Places, LockSteps, WaitSteps, Calls
  <2>3. /\ th' \in [Threads -> Locals] /\ \A u \in Threads \ {t} : th'[u] = th[u]
        /\ th'[t].pc = th[t].ret /\ th'[t].proc = th[t].proc /\ th'[t].ret = th[t].ret
        /\ th'[t].published = th[t].published
    BY <2>1, <2>2, GotoOnly
  <2>4. th[t].ret = "consume" <=> Locking(t)
    BY <2>1 DEF PlaceOK, Locking, LockSteps, Calls
  <2>5. Locking(t)' <=> th[t].ret = "consume"
    BY <2>1, <2>3 DEF Locking, LockSteps
  <2> QED BY <2>1, <2>3, <2>4, <2>5 DEF GoesOn, PlaceOK, Calls
<1> QED BY <1>1, <1>2

\* A thread outside every lock that goes on outside of them.
LEMMA CalmGoto ==
  ASSUME RouteInv, NEW t \in Threads, th[t].pc \notin LockSteps \cup {"out", "park", "cvwait"},
         NEW s \in Places \ (LockSteps \cup {"out", "park", "cvwait"}), Goto(t, s),
         s \in Calls <=> th[t].pc \in Calls
  PROVE  GoesOn(t)
<1>1. ~Locking(t) /\ ~th[t].published
  BY DEF RouteInv, PlaceOK, Locking
<1>2. s \in Places
  OBVIOUS
<1> QED BY <1>1, <1>2, GotoOnly DEF RouteInv, GoesOn, PlaceOK, Locking


(***************************************************************************)
(* The quiet steps, one lemma per call.                                    *)
(***************************************************************************)

\* What nobody touches is kept.
LEMMA KeptAsIs ==
  ASSUME Typed
  PROVE  /\ UNCHANGED <<slot, current>> => SlotsKept
         /\ UNCHANGED sema => RoutesKept
         /\ UNCHANGED latch => OwnersKept
BY DEF Typed, SlotsKept, RoutesKept, OwnersKept

\* The mode and the signal of a slot change; its incarnation does not.
LEMMA KeptSlots ==
  ASSUME Typed, UNCHANGED current, NEW s, NEW m \in {"Idle", "Notified", "Parked", "ParkedFd"},
         NEW b \in BOOLEAN,
         \/ slot' = [slot EXCEPT ![s].mode = m]
         \/ slot' = [slot EXCEPT ![s].signal = b]
         \/ slot' = [slot EXCEPT ![s].mode = m, ![s].signal = b]
  PROVE  SlotsKept
<1>1. slot' \in [Slots -> SlotType]
  BY DEF Typed, SlotType
<1>2. ASSUME NEW r \in Slots
      PROVE  slot'[r].token = slot[r].token /\ (slot[r].mode # "Free" => slot'[r].mode # "Free")
  BY DEF Typed, SlotType
<1> QED BY <1>1, <1>2 DEF SlotsKept

\* The flags and the waker of a latch change; its owner does not.
LEMMA KeptOwners ==
  ASSUME Typed, NEW p, NEW b \in BOOLEAN, NEW h \in Handles,
         \/ latch' = [latch EXCEPT ![p].is_set = b]
         \/ latch' = [latch EXCEPT ![p].maybe_sleeping = b]
         \/ latch' = [latch EXCEPT ![p].waker = h]
  PROVE  OwnersKept
<1>1. latch' \in [Procs -> LatchType]
  BY DEF Typed, LatchType
<1>2. ASSUME NEW r \in Procs PROVE latch'[r].owner = latch[r].owner
  BY DEF Typed, LatchType
<1> QED BY <1>1, <1>2 DEF OwnersKept

\* The count of a semaphore changes; its wake route does not.
LEMMA KeptRoutes ==
  ASSUME Typed, NEW p, NEW n \in Nat, sema' = [sema EXCEPT ![p].count = n]
  PROVE  RoutesKept
<1>1. sema' \in [Procs -> SemaType]
  BY DEF Typed, SemaType
<1>2. ASSUME NEW r \in Procs PROVE sema'[r].waiter = sema[r].waiter
  BY DEF Typed, SemaType
<1> QED BY <1>1, <1>2 DEF RoutesKept

\* A thread in no lock has published nothing.
LEMMA Outside ==
  ASSUME RouteInv, NEW t \in Threads, th[t].pc \notin LockSteps \cup {"park", "cvwait"}
  PROVE  ~Locking(t) /\ ~th[t].published
BY DEF RouteInv, PlaceOK, Locking

\* A thread in no call begins one that is not a lock, with fresh locals.
LEMMA CalmBegin ==
  ASSUME RouteInv, NEW t \in Threads, th[t].pc = "idle",
         NEW l \in Locals, th' = [th EXCEPT ![t] = l],
         l.pc \in {"route", "probe", "look"} \/ l.pc = "park", l.ret = "idle", l.published = FALSE,
         l.pc \in Calls => l.proc \in Procs
  PROVE  GoesOn(t)
<1>1. ~Locking(t) /\ ~th[t].published
  BY Outside DEF LockSteps
<1>2. Typed
  BY DEF RouteInv
<1>3. th' \in [Threads -> Locals] /\ \A u \in Threads \ {t} : th'[u] = th[u]
  BY <1>2 DEF Typed
<1>4. th'[t] = l
  BY <1>2 DEF Typed
<1>5. ~Locking(t)' /\ th'[t].pc # "out"
  BY <1>4 DEF Locking, LockSteps
<1>6. th[t].published = FALSE
  BY <1>1, <1>2 DEF Typed, Locals
<1>7. th[t].pc # "out"
  OBVIOUS
<1> QED BY <1>3, <1>4, <1>5, <1>6, <1>7, Zenon DEF GoesOn

\* A thread outside every lock goes on outside of them, with other locals.
LEMMA CalmMove ==
  ASSUME RouteInv, NEW t \in Threads, th[t].pc \notin LockSteps \cup {"out", "park", "cvwait"},
         th' \in [Threads -> Locals], \A u \in Threads \ {t} : th'[u] = th[u],
         th'[t].pc \notin LockSteps \cup {"out", "cvwait"},
         th'[t].pc = "park" => th'[t].ret = "disarm",
         th'[t].published = th[t].published,
         th'[t].ret = "reset" => th[t].ret = "reset" /\ th'[t].pc \in Calls,
         th'[t].pc \in Calls => th[t].pc \in Calls /\ th'[t].ret = th[t].ret /\ th'[t].proc = th[t].proc
  PROVE  GoesOn(t)
<1>1. ~Locking(t) /\ ~th[t].published
  BY Outside
<1>2. ~Locking(t)'
  BY DEF Locking
<1>3. th'[t].pc \in Calls => th'[t].ret \in {"idle", "reset"} /\ th'[t].proc \in Procs
  BY DEF RouteInv, PlaceOK
<1>4. th[t].pc # "out" /\ th'[t].pc # "out"
  OBVIOUS
<1> QED BY <1>1, <1>2, <1>3, <1>4, Zenon DEF GoesOn

\* A caller of unpark goes on with the handle it loaded.
LEMMA ToUnpark ==
  ASSUME RouteInv, NEW t \in Threads, th[t].pc \in {"route", "waker"}, NEW h \in Handles,
         th' = [th EXCEPT ![t].pc = "unpark", ![t].word = h]
  PROVE  GoesOn(t)
<1>1. Typed /\ th[t].pc \in Calls /\ th[t].pc \notin LockSteps \cup {"out", "park", "cvwait"}
  BY DEF RouteInv, Calls, LockSteps
<1>2. "unpark" \in Places
  BY DEF Places, Calls
<1>3. /\ th' \in [Threads -> Locals] /\ \A u \in Threads \ {t} : th'[u] = th[u]
      /\ th'[t].pc = "unpark" /\ th'[t].proc = th[t].proc /\ th'[t].ret = th[t].ret
      /\ th'[t].published = th[t].published
  <2>1. [th[t] EXCEPT !.pc = "unpark", !.word = h] \in Locals
    BY <1>1, <1>2, ZenonT(60) DEF Typed, Locals
  <2>2. th' = [th EXCEPT ![t] = [th[t] EXCEPT !.pc = "unpark", !.word = h]]
    BY <1>1 DEF Typed
  <2> QED BY <1>1, <2>1, <2>2 DEF Typed, Locals
<1>4. th'[t].pc \notin LockSteps \cup {"out", "cvwait", "park"} /\ th'[t].pc \in Calls
  BY <1>3 DEF LockSteps, Calls
<1> QED BY <1>1, <1>3, <1>4, CalmMove

\* PGSemaphoreLock consumes a count or looks at it, short of publishing.
LEMMA QuietConsume ==
  ASSUME RouteInv, NEW t \in Threads, UNCHANGED latch, SemaConsume(t) \/ SemaRecheck(t)
  PROVE  Calm(t)
<1> USE DEF RouteInv
<1>1. SlotsKept /\ OwnersKept
  BY KeptAsIs DEF SemaConsume, SemaRecheck
<1>2. Typed /\ PlaceOK(t)
  OBVIOUS
<1>3. CASE SemaConsume(t)
  <2>1. th[t].pc = "consume" /\ Locking(t) /\ th[t].proc \in Procs
    BY <1>2, <1>3 DEF SemaConsume, Locking, LockSteps, PlaceOK
  <2>2. RoutesKept
    <3>1. CASE UNCHANGED sema
      BY <3>1, KeptAsIs
    <3>2. CASE sema[th[t].proc].count > 0 /\ sema' = [sema EXCEPT ![th[t].proc].count = @ - 1]
      <4>1. sema' = [sema EXCEPT ![th[t].proc].count = sema[th[t].proc].count - 1]
        BY <2>1, <3>2 DEF Typed
      <4>2. sema[th[t].proc].count - 1 \in Nat
        BY <2>1, <3>2 DEF Typed, SemaType
      <4> QED BY <1>2, <4>1, <4>2, KeptRoutes
    <3> QED BY <1>3, <3>1, <3>2 DEF SemaConsume
  <2>3. GoesOn(t)
    <3>1. CASE ~th[t].published /\ Finish(t)
      <4>1. th[t].pc # "out"
        BY <2>1
      <4> QED BY <3>1, <4>1, CalmFinish
    <3>2. ASSUME NEW s \in {"retire", "publish"}, Goto(t, s) PROVE GoesOn(t)
      <4>1. s \in Places
        BY DEF Places, LockSteps
      <4>2. /\ th' \in [Threads -> Locals] /\ \A u \in Threads \ {t} : th'[u] = th[u]
            /\ th'[t].pc = s /\ th'[t].proc = th[t].proc /\ th'[t].ret = th[t].ret
            /\ th'[t].published = th[t].published
        BY <1>2, <3>2, <4>1, GotoOnly
      <4>3. Locking(t)' /\ s \notin Calls /\ s # "out" /\ th[t].pc # "out" /\ th[t].ret # "reset"
        BY <1>2, <2>1, <4>2 DEF Locking, LockSteps, Calls, PlaceOK
      <4> QED BY <2>1, <4>2, <4>3, Zenon DEF GoesOn
    <3> QED BY <1>3, <3>1, <3>2 DEF SemaConsume, AfterConsume
  <2> QED BY <1>1, <2>2, <2>3 DEF Calm
<1>4. CASE SemaRecheck(t)
  <2>1. th[t].pc = "recheck" /\ Locking(t)
    BY <1>4 DEF SemaRecheck, Locking, LockSteps
  <2>2. RoutesKept
    BY <1>4, KeptAsIs DEF SemaRecheck
  <2>3. /\ th' \in [Threads -> Locals] /\ \A u \in Threads \ {t} : th'[u] = th[u]
        /\ th'[t].pc \in {"consume", "park"} /\ th'[t].proc = th[t].proc /\ th'[t].ret = "consume"
        /\ th'[t].published = th[t].published
    <3>1. PICK s \in {"consume", "park"} : th' = [th EXCEPT ![t].pc = s, ![t].ret = "consume"]
      BY <1>4 DEF SemaRecheck
    <3>2. s \in Places
      BY DEF Places, LockSteps
    <3>3. [th[t] EXCEPT !.pc = s, !.ret = "consume"] \in Locals
      BY <1>2, <3>2, ZenonT(60) DEF Typed, Locals
    <3>4. th' = [th EXCEPT ![t] = [th[t] EXCEPT !.pc = s, !.ret = "consume"]]
      BY <1>2, <3>1 DEF Typed
    <3> QED BY <1>2, <3>3, <3>4 DEF Typed, Locals
  <2>4. Locking(t)' /\ th'[t].pc \notin Calls /\ th'[t].pc # "out" /\ th[t].pc # "out"
    BY <2>1, <2>3 DEF Locking, LockSteps, Calls
  <2>5. GoesOn(t)
    BY <2>1, <2>3, <2>4, Zenon DEF GoesOn
  <2> QED BY <1>1, <2>2, <2>5 DEF Calm
<1> QED BY <1>3, <1>4

\* PGSemaphoreUnlock posts the count, then loads the handle.
LEMMA QuietPost ==
  ASSUME RouteInv, NEW t \in Threads, UNCHANGED latch,
         (\E p \in Procs : SemaPost(t, p)) \/ SemaRoute(t)
  PROVE  Calm(t)
<1> USE DEF RouteInv
<1>1. SlotsKept /\ OwnersKept /\ Typed
  BY KeptAsIs DEF SemaPost, SemaRoute
<1>2. ASSUME NEW p \in Procs, SemaPost(t, p) PROVE Calm(t)
  <2>1. RoutesKept
    <3>1. sema' = [sema EXCEPT ![p].count = sema[p].count + 1]
      BY <1>1, <1>2 DEF SemaPost, Typed
    <3>2. sema[p].count + 1 \in Nat
      BY <1>1 DEF Typed, SemaType
    <3> QED BY <1>1, <3>1, <3>2, KeptRoutes
  <2>2. PICK l \in Locals : l = [Resting EXCEPT !.pc = "route", !.proc = p]
    BY RestingLocals DEF Locals, Places, Calls
  <2>3. l.pc = "route" /\ l.proc \in Procs /\ l.ret = "idle" /\ l.published = FALSE
    BY <2>2 DEF Resting
  <2>4. th[t].pc = "idle" /\ th' = [th EXCEPT ![t] = l]
    BY <1>2, <2>2 DEF SemaPost
  <2>5. GoesOn(t)
    BY <2>3, <2>4, CalmBegin
  <2> QED BY <1>1, <2>1, <2>5 DEF Calm
<1>3. CASE SemaRoute(t)
  <2>1. RoutesKept
    BY <1>1, <1>3, KeptAsIs DEF SemaRoute
  <2>2. th[t].pc = "route" /\ th[t].pc \in Calls /\ th[t].proc \in Procs
    BY <1>3 DEF SemaRoute, PlaceOK, Calls
  <2>3. PICK h \in Handles : th' = [th EXCEPT ![t].pc = "unpark", ![t].word = h]
    BY <1>1, <1>3, <2>2 DEF SemaRoute, Typed, SemaType
  <2>4. GoesOn(t)
    BY <1>1, <2>2, <2>3, ToUnpark
  <2> QED BY <1>1, <2>1, <2>4 DEF Calm
<1> QED BY <1>2, <1>3

\* SetLatch: probe, mark, armed, waker.
LEMMA QuietSet ==
  ASSUME RouteInv, NEW t \in Threads, UNCHANGED sema,
         \/ \E p \in Procs : SetLatchEnter(t, p)
         \/ SetProbe(t) \/ SetMark(t) \/ SetArmed(t) \/ SetWaker(t)
  PROVE  Calm(t)
<1>1. SlotsKept /\ RoutesKept /\ Typed
  BY KeptAsIs DEF RouteInv, SetLatchEnter, SetProbe, SetMark, SetArmed, SetWaker
<1>2. ASSUME NEW p \in Procs, SetLatchEnter(t, p) PROVE Calm(t)
  <2>1. OwnersKept
    BY <1>1, <1>2, KeptAsIs DEF SetLatchEnter
  <2>2. PICK l \in Locals : l = [Resting EXCEPT !.pc = "probe", !.proc = p]
    BY RestingLocals DEF Locals, Places, Calls
  <2>3. l.pc = "probe" /\ l.proc \in Procs /\ l.ret = "idle" /\ l.published = FALSE
    BY <2>2 DEF Resting
  <2>4. th[t].pc = "idle" /\ th' = [th EXCEPT ![t] = l]
    BY <1>2, <2>2 DEF SetLatchEnter
  <2>5. GoesOn(t)
    BY <2>3, <2>4, CalmBegin
  <2> QED BY <1>1, <2>1, <2>5 DEF Calm
<1>3. CASE SetProbe(t) \/ SetMark(t) \/ SetArmed(t)
  <2>1. th[t].pc \in {"probe", "mark", "armed"}
    BY <1>3 DEF SetProbe, SetMark, SetArmed
  <2>2. OwnersKept
    BY <1>1, <1>3, KeptAsIs, KeptOwners DEF SetProbe, SetMark, SetArmed, Handles
  <2>3. GoesOn(t)
    <3>1. CASE Return(t)
      <4>1. th[t].pc \in Calls \cup {"park", "cvwait"}
        BY <2>1 DEF Calls
      <4> QED BY <3>1, <4>1, CalmReturn
    <3>2. ASSUME NEW s \in {"mark", "armed", "waker"}, Goto(t, s) PROVE GoesOn(t)
      <4>1. s \in Places \ (LockSteps \cup {"out", "park", "cvwait"}) /\ s \in Calls
        BY DEF Places, LockSteps, Calls
      <4>2. th[t].pc \notin LockSteps \cup {"out", "park", "cvwait"} /\ th[t].pc \in Calls
        BY <2>1 DEF LockSteps, Calls
      <4> QED BY <3>2, <4>1, <4>2, CalmGoto
    <3> QED BY <1>3, <3>1, <3>2 DEF SetProbe, SetMark, SetArmed
  <2> QED BY <1>1, <2>2, <2>3 DEF Calm
<1>4. CASE SetWaker(t)
  <2>1. OwnersKept
    BY <1>1, <1>4, KeptAsIs DEF SetWaker
  <2>2. th[t].pc = "waker" /\ th[t].pc \in Calls
    BY <1>4 DEF SetWaker, Calls
  <2>3. th[t].proc \in Procs
    BY <2>2 DEF RouteInv, PlaceOK
  <2>4. PICK h \in Handles : th' = [th EXCEPT ![t].pc = "unpark", ![t].word = h]
    BY <1>1, <1>4, <2>3 DEF SetWaker, Typed, LatchType
  <2>5. GoesOn(t)
    BY <2>2, <2>4, ToUnpark
  <2> QED BY <1>1, <2>1, <2>5 DEF Calm
<1> QED BY <1>2, <1>3, <1>4

\* A thread in its wait goes on in it, with other locals, or returns.
LEMMA CalmWait ==
  ASSUME RouteInv, NEW t \in Threads, th[t].pc \in WaitSteps,
         NEW l \in Locals, th' = [th EXCEPT ![t] = l],
         l.pc \in WaitSteps \/ (l.pc = "park" /\ l.ret = "disarm"),
         l.published = th[t].published, l.ret \in {th[t].ret, "disarm"}
  PROVE  GoesOn(t)
<1>1. th'[t] = l /\ th' \in [Threads -> Locals] /\ \A u \in Threads \ {t} : th'[u] = th[u]
  BY DEF RouteInv, Typed
<1>2. l.pc \notin LockSteps \cup {"out", "cvwait"} /\ l.pc \notin Calls
  BY DEF WaitSteps, LockSteps, Calls
<1>3. th[t].pc \notin LockSteps \cup {"out", "park", "cvwait"} /\ th[t].pc \notin Calls
  BY DEF WaitSteps, LockSteps, Calls
<1>4. th[t].ret # "reset"
  BY <1>3 DEF RouteInv, PlaceOK
<1>5. l.pc = "park" => l.ret = "disarm"
  BY DEF WaitSteps
<1>6. l.ret # "reset"
  BY <1>4
<1> QED BY <1>1, <1>2, <1>3, <1>5, <1>6, CalmMove

\* A thread in its wait returns.
LEMMA CalmLeave ==
  ASSUME RouteInv, NEW t \in Threads, th[t].pc \in WaitSteps, Finish(t)
  PROVE  GoesOn(t)
<1>1. th[t].pc \notin LockSteps \cup {"park", "cvwait"} /\ th[t].pc # "out"
  BY DEF WaitSteps, LockSteps
<1>2. ~th[t].published
  BY <1>1, Outside
<1> QED BY <1>1, <1>2, CalmFinish

\* A thread in its wait goes to another place of it.
LEMMA CalmOn ==
  ASSUME RouteInv, NEW t \in Threads, th[t].pc \in WaitSteps, NEW s \in WaitSteps, Goto(t, s)
  PROVE  GoesOn(t)
<1>1. s \in Places \ (LockSteps \cup {"out", "park", "cvwait"}) /\ s \notin Calls
  BY DEF Places, LockSteps, Calls, WaitSteps
<1>2. th[t].pc \notin LockSteps \cup {"out", "park", "cvwait"} /\ th[t].pc \notin Calls
  BY DEF LockSteps, Calls, WaitSteps
<1> QED BY <1>1, <1>2, CalmGoto

\* ResetLatch, and the look at the flag.
LEMMA QuietLook ==
  ASSUME RouteInv, NEW t \in Threads, UNCHANGED sema,
         (\E p \in Procs : ResetLatch(t, p)) \/ Look(t)
  PROVE  Calm(t)
<1>1. SlotsKept /\ RoutesKept /\ Typed
  BY KeptAsIs DEF RouteInv, ResetLatch, Look
<1>2. ASSUME NEW p \in Procs, ResetLatch(t, p) PROVE Calm(t)
  <2>1. OwnersKept
    BY <1>1, <1>2, KeptOwners DEF ResetLatch, Handles
  <2>2. PICK l \in Locals : l = [Resting EXCEPT !.pc = "look", !.proc = p]
    BY RestingLocals DEF Locals, Places, WaitSteps
  <2>3. l.pc = "look" /\ l.proc \in Procs /\ l.ret = "idle" /\ l.published = FALSE
    BY <2>2 DEF Resting
  <2>4. th[t].pc = "idle" /\ th' = [th EXCEPT ![t] = l]
    BY <1>2, <2>2 DEF ResetLatch
  <2>5. GoesOn(t)
    BY <2>3, <2>4, CalmBegin
  <2> QED BY <1>1, <2>1, <2>5 DEF Calm
<1>3. CASE Look(t)
  <2>1. OwnersKept
    BY <1>1, <1>3, KeptAsIs DEF Look
  <2>2. th[t].pc \in WaitSteps
    BY <1>3 DEF Look, WaitSteps
  <2>3. ASSUME NEW timeout \in {"never", "some"}, NEW test \in {"test", "wtest"},
               th' = [th EXCEPT ![t].pc = test, ![t].timeout = timeout, ![t].cur = timeout]
        PROVE  GoesOn(t)
    <3>1. test \in Places /\ test \in WaitSteps
      BY DEF Places, WaitSteps
    <3>2. PICK l : l = [th[t] EXCEPT !.pc = test, !.timeout = timeout, !.cur = timeout]
      OBVIOUS
    <3>3. /\ l \in Locals /\ l.pc = test /\ l.ret = th[t].ret
          /\ l.published = th[t].published
      BY <1>1, <3>1, <3>2, ZenonT(60) DEF Typed, Locals
    <3>4. th' = [th EXCEPT ![t] = l]
      BY <1>1, <2>3, <3>2 DEF Typed
    <3> QED BY <2>2, <3>1, <3>3, <3>4, CalmWait
  <2>4. GoesOn(t)
    BY <1>3, <2>2, <2>3, CalmLeave DEF Look
  <2> QED BY <1>1, <2>1, <2>4 DEF Calm
<1> QED BY <1>2, <1>3

\* WaitLatch: test, publish the waker, arm, look again, disarm.
LEMMA QuietWaitLatch ==
  ASSUME RouteInv, NEW t \in Threads, UNCHANGED sema,
         LatchTest(t) \/ LatchPublish(t) \/ LatchArm(t) \/ LatchAgain(t) \/ LatchDisarm(t) \/ SetTest(t)
  PROVE  Calm(t)
<1>1. SlotsKept /\ RoutesKept /\ Typed /\ SlotsOwned
  BY KeptAsIs DEF RouteInv, LatchTest, LatchPublish, LatchArm, LatchAgain, LatchDisarm, SetTest
<1>2. th[t].pc \in WaitSteps
  BY DEF LatchTest, LatchPublish, LatchArm, LatchAgain, LatchDisarm, SetTest, WaitSteps
<1>3. CurrentHandle(t) \in Handles
  <2>1. th[t].pc # "out"
    BY <1>2 DEF WaitSteps
  <2>2. current[t] \in Slots
    BY <1>1, <2>1 DEF SlotsOwned
  <2> QED BY <1>1, <2>2 DEF Typed, SlotType, Handles, CurrentHandle
<1>4. OwnersKept
  <2>1. CASE UNCHANGED latch
    BY <1>1, <2>1, KeptAsIs
  <2>2. CASE LatchPublish(t)
    BY <1>1, <1>3, <2>2, KeptOwners DEF LatchPublish
  <2>3. CASE LatchArm(t) \/ LatchDisarm(t)
    BY <1>1, <1>3, <2>3, KeptOwners DEF LatchArm, LatchDisarm
  <2> QED BY <2>1, <2>2, <2>3 DEF LatchTest, LatchAgain, SetTest
<1>5. GoesOn(t)
  <2>1. CASE Finish(t)
    BY <1>2, <2>1, CalmLeave
  <2>2. ASSUME NEW s \in WaitSteps, Goto(t, s) PROVE GoesOn(t)
    BY <1>2, <2>2, CalmOn
  <2>3. CASE LatchTest(t)
    BY <2>1, <2>2, <2>3 DEF LatchTest, WaitSteps
  <2>4. CASE LatchPublish(t)
    BY <2>1, <2>2, <2>4 DEF LatchPublish, WaitSteps
  <2>5. CASE LatchArm(t)
    BY <2>1, <2>2, <2>5 DEF LatchArm, WaitSteps
  <2>6. CASE LatchDisarm(t)
    BY <2>1, <2>2, <2>6 DEF LatchDisarm, WaitSteps
  <2>7. CASE SetTest(t)
    BY <2>1, <2>2, <2>7 DEF SetTest, WaitSteps
  <2>8. CASE LatchAgain(t)
    <3>1. PICK s \in {"disarm_out", "park"} : th' = [th EXCEPT ![t].pc = s, ![t].ret = "disarm"]
      BY <2>8 DEF LatchAgain
    <3>2. s \in Places /\ (s \in WaitSteps \/ s = "park")
      BY DEF Places, WaitSteps
    <3>3. PICK l : l = [th[t] EXCEPT !.pc = s, !.ret = "disarm"]
      OBVIOUS
    <3>4. l \in Locals /\ l.pc = s /\ l.ret = "disarm" /\ l.published = th[t].published
      BY <1>1, <3>2, <3>3, ZenonT(60) DEF Typed, Locals
    <3>5. th' = [th EXCEPT ![t] = l]
      BY <1>1, <3>1, <3>3 DEF Typed
    <3> QED BY <1>2, <3>2, <3>4, <3>5, CalmWait
  <2> QED BY <2>3, <2>4, <2>5, <2>6, <2>7, <2>8
<1> QED BY <1>1, <1>4, <1>5 DEF Calm

\* WaitEventSetWait: the second look, the block in the kernel, the end of a lap.
LEMMA QuietEventSet ==
  ASSUME RouteInv, NEW t \in Threads, UNCHANGED sema,
         \/ SetAgain(t) \/ SetBegin(t) \/ BlockWake(t) \/ BlockOther(t) \/ BlockExpired(t)
         \/ BlockError(t) \/ SetEnd(t) \/ SetLap(t)
  PROVE  Calm(t)
<1> USE DEF BlockWake, BlockOther, BlockExpired, BlockError
<1>1. RoutesKept /\ Typed
  BY KeptAsIs DEF RouteInv
<1>2. th[t].pc \in WaitSteps
  BY DEF SetAgain, SetBegin, SetEnd, SetLap, WaitSteps
<1>3. OwnersKept
  <2>1. CASE UNCHANGED latch
    BY <1>1, <2>1, KeptAsIs
  <2>2. CASE latch' = [latch EXCEPT ![th[t].proc].maybe_sleeping = FALSE]
    BY <1>1, <2>2, KeptOwners DEF Handles
  <2> QED BY <2>1, <2>2 DEF SetAgain, SetBegin, SetEnd, SetLap
<1>4. SlotsKept
  <2>1. CASE UNCHANGED <<slot, current>>
    BY <1>1, <2>1, KeptAsIs
  <2>2. CASE SetBegin(t)
    <3>1. PICK m \in {"Idle", "ParkedFd"} : m = BeginFdParkMode(slot[current[t]].mode)
      BY DEF BeginFdParkMode
    <3>2. slot' = [slot EXCEPT ![current[t]].mode = m] /\ UNCHANGED current
      BY <1>1, <2>2, <3>1 DEF SetBegin, Typed
    <3> QED BY <1>1, <3>2, KeptSlots
  <2>3. CASE SetEnd(t) /\ th[t].fdParked
    <3>1. slot' = [slot EXCEPT ![current[t]].mode = "Idle"] /\ UNCHANGED current
      BY <1>1, <2>3 DEF SetEnd, EndFdParkMode, Typed
    <3> QED BY <1>1, <3>1, KeptSlots
  <2> QED BY <2>1, <2>2, <2>3 DEF SetAgain, SetEnd, SetLap
<1>5. GoesOn(t)
  <2>1. CASE Finish(t)
    BY <1>2, <2>1, CalmLeave
  <2>2. ASSUME NEW s \in WaitSteps, Goto(t, s) PROVE GoesOn(t)
    BY <1>2, <2>2, CalmOn
  <2>3. ASSUME NEW s \in {"block", "unblock", "wtest"}, NEW l \in Locals, th' = [th EXCEPT ![t] = l],
               l.pc = s, l.ret = th[t].ret, l.published = th[t].published
        PROVE  GoesOn(t)
    <3>1. l.pc \in WaitSteps
      BY <2>3 DEF WaitSteps
    <3> QED BY <1>2, <2>3, <3>1, CalmWait
  <2>4. PICK c : c = th[t]
    OBVIOUS
  <2>5. c \in Locals
    BY <1>1, <2>4 DEF Typed
  <2> HIDE DEF BlockWake, BlockOther, BlockExpired, BlockError
  <2>a. "block" \in Places /\ "unblock" \in Places /\ "wtest" \in Places
    BY DEF Places, WaitSteps
  <2>6. CASE SetAgain(t)
    <3>1. ASSUME th' = [th EXCEPT ![t].pc = "block", ![t].returned = TRUE, ![t].fdParked = FALSE,
                                  ![t].cur = "zero", ![t].timeout = "some"]
          PROVE  GoesOn(t)
      <4>1. PICK l : l = [c EXCEPT !.pc = "block", !.returned = TRUE, !.fdParked = FALSE,
                                   !.cur = "zero", !.timeout = "some"]
        OBVIOUS
      <4>2. l \in Locals /\ l.pc = "block" /\ l.ret = c.ret /\ l.published = c.published
        BY <2>5, <2>a, <4>1 DEF Locals
      <4>3. th' = [th EXCEPT ![t] = l]
        BY <1>1, <2>4, <3>1, <4>1 DEF Typed
      <4> QED BY <2>3, <2>4, <4>2, <4>3
    <3> QED BY <2>1, <2>2, <2>6, <3>1 DEF SetAgain, WaitSteps
  <2>7. CASE SetBegin(t)
    <3>1. PICK b \in BOOLEAN : b = BeginFdPark(t)
      BY DEF BeginFdPark
    <3>2. PICK cur \in {"never", "some", "zero"} : cur = LapTimeout(t, BeginFdPark(t))
      BY <2>4, <2>5 DEF LapTimeout, Locals
    <3>3. PICK l : l = [c EXCEPT !.pc = "block", !.fdParked = b, !.cur = cur]
      OBVIOUS
    <3>4. l \in Locals /\ l.pc = "block" /\ l.ret = c.ret /\ l.published = c.published
      BY <2>5, <2>a, <3>3 DEF Locals
    <3>5. th' = [th EXCEPT ![t].pc = "block", ![t].fdParked = b, ![t].cur = cur]
      BY <2>7, <3>1, <3>2, Zenon DEF SetBegin
    <3>6. th' = [th EXCEPT ![t] = l]
      BY <1>1, <2>4, <3>3, <3>5 DEF Typed
    <3> QED BY <2>3, <2>4, <3>4, <3>6
  <2>8. CASE BlockWake(t) \/ BlockOther(t) \/ BlockExpired(t)
    <3>1. PICK rc \in {"zero", "event", "expired"} : th' = [th EXCEPT ![t].pc = "unblock", ![t].rc = rc]
      BY <2>8 DEF BlockWake, BlockOther, BlockExpired
    <3>2. PICK l : l = [c EXCEPT !.pc = "unblock", !.rc = rc]
      OBVIOUS
    <3>3. l \in Locals /\ l.pc = "unblock" /\ l.ret = c.ret /\ l.published = c.published
      BY <2>5, <2>a, <3>2 DEF Locals
    <3>4. th' = [th EXCEPT ![t] = l]
      BY <1>1, <2>4, <3>1, <3>2 DEF Typed
    <3> QED BY <2>3, <2>4, <3>3, <3>4
  <2>9. CASE SetLap(t)
    <3>1. ASSUME th' = [th EXCEPT ![t].pc = "wtest", ![t].fdParked = FALSE,
                                  ![t].cur = IF th[t].timeout = "some" THEN "some" ELSE @]
          PROVE  GoesOn(t)
      <4>1. PICK cur \in {"never", "some", "zero"} : cur = IF c.timeout = "some" THEN "some" ELSE c.cur
        BY <2>5 DEF Locals
      <4>2. PICK l : l = [c EXCEPT !.pc = "wtest", !.fdParked = FALSE, !.cur = cur]
        OBVIOUS
      <4>3. l \in Locals /\ l.pc = "wtest" /\ l.ret = c.ret /\ l.published = c.published
        BY <2>5, <2>a, <4>2 DEF Locals
      <4>4. th' = [th EXCEPT ![t] = l]
        BY <1>1, <2>4, <3>1, <4>1, <4>2 DEF Typed
      <4> QED BY <2>3, <2>4, <4>3, <4>4
    <3> QED BY <2>1, <2>9, <3>1 DEF SetLap
  <2>10. CASE SetEnd(t) \/ BlockError(t)
    BY <2>1, <2>2, <2>10 DEF SetEnd, BlockError, WaitSteps
  <2> QED BY <2>6, <2>7, <2>8, <2>9, <2>10
<1> QED BY <1>1, <1>3, <1>4, <1>5 DEF Calm

\* The waiter: unpark and what follows it, park and the ways out of it.
LEMMA QuietWaiter ==
  ASSUME RouteInv, NEW t \in Threads, UNCHANGED <<sema, latch>>,
         \/ Unpark(t) \/ NotifyAll(t) \/ SendWakeByte(t) \/ Park(t) \/ ParkWoken(t)
         \/ ParkExpired(t) \/ ParkSpurious(t) \/ InjectDropWake(t)
  PROVE  Calm(t)
<1>1. RoutesKept /\ OwnersKept /\ Typed
  BY KeptAsIs DEF RouteInv
<1>2. CASE Return(t) /\ th[t].pc \in Calls \cup {"park", "cvwait"} /\ SlotsKept
  BY <1>1, <1>2, CalmReturn DEF Calm
<1>3. ASSUME NEW s, NEW m \in {"Idle", "Notified", "Parked", "ParkedFd"}, NEW b \in BOOLEAN, UNCHANGED current,
             \/ slot' = [slot EXCEPT ![s].mode = m]
             \/ slot' = [slot EXCEPT ![s].signal = b]
             \/ slot' = [slot EXCEPT ![s].mode = m, ![s].signal = b]
      PROVE  SlotsKept
  BY <1>1, <1>3, KeptSlots
<1>4. CASE UNCHANGED <<slot, current>> /\ (Unpark(t) \/ SendWakeByte(t) \/ InjectDropWake(t)) /\ Return(t)
  BY <1>1, <1>2, <1>4, KeptAsIs DEF Unpark, SendWakeByte, InjectDropWake, Calls
<1>5. CASE SendWakeByte(t) \/ InjectDropWake(t)
  BY <1>4, <1>5 DEF SendWakeByte, InjectDropWake
<1>6. CASE NotifyAll(t)
  <2>1. SlotsKept
    <3>1. PICK b \in BOOLEAN : slot' = [slot EXCEPT ![th[t].word[1]].signal = b]
      <4>1. CASE th[t].word[1] \in Slots
        <5>1. slot[th[t].word[1]].signal \in BOOLEAN
          BY <1>1, <4>1 DEF Typed, SlotType
        <5>2. PICK b \in BOOLEAN : b = (slot[th[t].word[1]].signal \/ OnCondvar(th[t].word[1]))
          BY <5>1 DEF OnCondvar
        <5> QED BY <1>6, <5>2, Zenon DEF NotifyAll
      <4>2. CASE th[t].word[1] \notin Slots
        <5>1. slot' = slot
          BY <1>1, <1>6, <4>2 DEF NotifyAll, Typed
        <5>2. slot = [slot EXCEPT ![th[t].word[1]].signal = TRUE]
          BY <1>1, <4>2 DEF Typed
        <5> QED BY <5>1, <5>2
      <4> QED BY <4>1, <4>2
    <3> QED BY <1>3, <1>6, <3>1 DEF NotifyAll
  <2> QED BY <1>2, <1>6, <2>1 DEF NotifyAll, Calls
<1>7. CASE Unpark(t)
  <2>1. th[t].pc = "unpark" /\ th[t].pc \in Calls /\ UNCHANGED current
        /\ th[t].pc \notin LockSteps \cup {"out", "park", "cvwait"}
    BY <1>7 DEF Unpark, Calls, LockSteps
  <2>2. PICK w : w = th[t].word
    OBVIOUS
  <2>3. CASE UNCHANGED slot /\ Return(t)
    BY <1>4, <1>7, <2>1, <2>3
  <2>4. ASSUME slot' = [slot EXCEPT ![w[1]].mode = "Notified"] PROVE SlotsKept
    BY <1>3, <2>1, <2>4
  <2>5. CASE slot' = [slot EXCEPT ![w[1]].mode = "Notified"] /\ Return(t)
    BY <1>2, <2>1, <2>4, <2>5
  <2>6. CASE slot' = [slot EXCEPT ![w[1]].mode = "Notified"] /\ Goto(t, "notify")
    <3>1. "notify" \in Places \ (LockSteps \cup {"out", "park", "cvwait"}) /\ "notify" \in Calls
      BY DEF Places, LockSteps, Calls
    <3>2. GoesOn(t)
      BY <2>1, <2>6, <3>1, CalmGoto
    <3> QED BY <1>1, <2>4, <2>6, <3>2 DEF Calm
  <2>7. CASE /\ slot' = [slot EXCEPT ![w[1]].mode = "Notified"] /\ w # NoHandle /\ slot[w[1]].mode = "ParkedFd"
             /\ th' = [th EXCEPT ![t].pc = "byte", ![t].fd = slot[w[1]].wake_fd]
    <3>1. CASE w[1] \in Slots
      <4>1. PICK f \in Fds \cup {None} : f = slot[w[1]].wake_fd
        BY <1>1, <3>1 DEF Typed, SlotType
      <4>2. PICK l : l = [th[t] EXCEPT !.pc = "byte", !.fd = f]
        OBVIOUS
      <4>3. "byte" \in Places /\ "byte" \in Calls /\ "byte" \notin LockSteps
        BY DEF Places, Calls, LockSteps
      <4>4. /\ l \in Locals /\ l.pc = "byte" /\ l.ret = th[t].ret /\ l.published = th[t].published
            /\ l.proc = th[t].proc
        <5>1. th[t] \in Locals
          BY <1>1 DEF Typed
        <5>2. l \in Locals
          BY <4>2, <4>3, <5>1 DEF Locals
        <5> QED BY <4>2, <5>1, <5>2 DEF Locals
      <4>5. th' = [th EXCEPT ![t] = l]
        BY <1>1, <2>7, <4>1, <4>2 DEF Typed
      <4>6. th'[t] = l /\ th' \in [Threads -> Locals] /\ \A u \in Threads \ {t} : th'[u] = th[u]
        BY <1>1, <4>4, <4>5 DEF Typed
      <4>7. GoesOn(t)
        BY <2>1, <4>3, <4>4, <4>6, CalmMove
      <4> QED BY <1>1, <2>4, <2>7, <4>7 DEF Calm
    <3>2. w[1] \in Slots
      <4>1. w \in Handles
        BY <1>1, <2>2 DEF Typed, Locals
      <4> QED BY <2>7, <4>1 DEF Handles
    <3> QED BY <3>1, <3>2
  <2> QED BY <1>7, <2>2, <2>3, <2>5, <2>6, <2>7 DEF Unpark
<1>8. CASE Park(t)
  <2>1. th[t].pc = "park"
    BY <1>8 DEF Park
  <2>2. SlotsKept
    BY <1>3, <1>8 DEF Park
  <2>3. CASE Return(t)
    BY <1>2, <2>1, <2>2, <2>3
  <2>4. CASE Goto(t, "cvwait")
    <3>1. "cvwait" \in Places
      BY DEF Places
    <3>2. /\ th' \in [Threads -> Locals] /\ \A u \in Threads \ {t} : th'[u] = th[u]
          /\ th'[t].pc = "cvwait" /\ th'[t].proc = th[t].proc /\ th'[t].ret = th[t].ret
          /\ th'[t].published = th[t].published
      BY <1>1, <2>4, <3>1, GotoOnly
    <3>3. th[t].published => Locking(t)
      BY DEF RouteInv, PlaceOK
    <3>4. (Locking(t)' <=> Locking(t)) /\ "cvwait" \notin Calls /\ th[t].pc # "out" /\ "cvwait" # "out"
      BY <2>1, <3>2 DEF Locking, LockSteps, Calls
    <3>5. th[t].ret # "reset"
      BY <2>1 DEF RouteInv, PlaceOK, Calls
    <3>6. GoesOn(t)
      BY <3>2, <3>3, <3>4, <3>5, Zenon DEF GoesOn
    <3> QED BY <1>1, <2>2, <3>6 DEF Calm
  <2> QED BY <1>8, <2>3, <2>4 DEF Park
<1>9. CASE ParkWoken(t) \/ ParkExpired(t) \/ ParkSpurious(t)
  <2>1. th[t].pc = "cvwait"
    BY <1>9 DEF ParkWoken, ParkExpired, ParkSpurious
  <2>2. SlotsKept
    BY <1>3, <1>9 DEF ParkWoken, ParkExpired, ParkSpurious
  <2>3. CASE Return(t)
    BY <1>2, <2>1, <2>2, <2>3
  <2>4. CASE UNCHANGED th
    <3>1. th' \in [Threads -> Locals] /\ \A u \in Threads : th'[u] = th[u]
      BY <1>1, <2>4 DEF Typed
    <3>2. th[t].published => Locking(t)
      BY DEF RouteInv, PlaceOK
    <3>3. th[t].ret # "reset" /\ th[t].pc \notin Calls
      BY <2>1 DEF RouteInv, PlaceOK, Calls
    <3>4. Locking(t)' <=> Locking(t)
      BY <3>1 DEF Locking
    <3>5. th[t].pc # "out" /\ th'[t].pc # "out"
      BY <2>1, <3>1
    <3>6. GoesOn(t)
      BY <3>1, <3>2, <3>3, <3>4, <3>5, Zenon DEF GoesOn
    <3> QED BY <1>1, <2>2, <3>6 DEF Calm
  <2> QED BY <1>9, <2>3, <2>4 DEF ParkWoken, ParkExpired, ParkSpurious
<1> QED BY <1>5, <1>6, <1>7, <1>8, <1>9

\* The sleep of a spinlock's backoff.
LEMMA QuietSleep ==
  ASSUME RouteInv, NEW t \in Threads, UNCHANGED <<sema, latch>>, Sleep(t)
  PROVE  Calm(t)
<1>1. SlotsKept /\ RoutesKept /\ OwnersKept
  BY KeptAsIs DEF RouteInv, Sleep
<1>2. PICK l \in Locals : l = [Resting EXCEPT !.pc = "park", !.timeout = "some"]
  BY RestingLocals DEF Locals, Places
<1>3. l.pc = "park" /\ l.ret = "idle" /\ l.published = FALSE /\ l.pc \notin Calls
  BY <1>2 DEF Resting, Calls
<1>4. th[t].pc = "idle" /\ th' = [th EXCEPT ![t] = l]
  BY <1>2 DEF Sleep
<1>5. GoesOn(t)
  BY <1>3, <1>4, CalmBegin
<1> QED BY <1>1, <1>5 DEF Calm

(***************************************************************************)
(* The steps that touch slots, owners or routes.                           *)
(***************************************************************************)

\* Every other thread stands as it did, owns what it did, and keeps its place.
LEMMA OthersKeep ==
  ASSUME RouteInv, NEW t \in Threads, NEW u \in Threads \ {t}, th'[u] = th[u],
         Locking(u) => latch'[th[u].proc].owner = latch[th[u].proc].owner
  PROVE  PlaceOK(u)'
<1>1. PlaceOK(u) /\ (Locking(u)' <=> Locking(u))
  BY DEF RouteInv, Locking
<1> QED BY <1>1 DEF PlaceOK

\* A route that nobody touches still names its locker, when no step is taken by the locker
\* and the locker's slot keeps its incarnation.
LEMMA RoutesStand ==
  ASSUME RouteInv, NEW t \in Threads, ~th[t].published,
         \A u \in Threads \ {t} : /\ th'[u] = th[u] /\ current'[u] = current[u]
                                  /\ current[u] \in Slots => slot'[current[u]].token = slot[current[u]].token,
         \A p \in Procs : sema'[p].waiter \in {sema[p].waiter, NoHandle}
  PROVE  RouteIsLockers'
<1> SUFFICES ASSUME NEW p \in Procs, sema'[p].waiter # NoHandle
             PROVE  \E u \in Threads : th'[u].published /\ th'[u].proc = p /\ sema'[p].waiter = CurrentHandle(u)'
  BY DEF RouteIsLockers
<1>1. sema'[p].waiter = sema[p].waiter
  OBVIOUS
<1>2. PICK u \in Threads : th[u].published /\ th[u].proc = p /\ sema[p].waiter = CurrentHandle(u)
  BY <1>1 DEF RouteInv, RouteIsLockers
<1>3. u # t
  BY <1>2
<1>4. current[u] \in Slots
  BY <1>2 DEF RouteInv, PlaceOK, Locking, LockSteps, SlotsOwned
<1>5. CurrentHandle(u)' = CurrentHandle(u)
  BY <1>3, <1>4 DEF CurrentHandle
<1> QED BY <1>1, <1>2, <1>3, <1>5

\* A thread starts on a free slot.
LEMMA StartKeeps ==
  ASSUME RouteInv, NEW t \in Threads, ThreadStart(t), UNCHANGED <<sema, latch>>
  PROVE  RouteInv'
<1>1. Typed /\ SlotsOwned /\ PlaceOK(t)
  BY DEF RouteInv
<1>2. PICK s \in Slots, f \in Fds :
         /\ slot[s].mode = "Free" /\ slot' = [slot EXCEPT ![s].mode = "Idle", ![s].wake_fd = f]
         /\ current' = [current EXCEPT ![t] = s]
  BY DEF ThreadStart
<1>3. /\ th' \in [Threads -> Locals] /\ \A u \in Threads \ {t} : th'[u] = th[u]
      /\ th'[t].pc = "idle" /\ th'[t].proc = th[t].proc /\ th'[t].ret = th[t].ret
      /\ th'[t].published = th[t].published
  <2>1. "idle" \in Places
    BY DEF Places
  <2> QED BY <1>1, <2>1, GotoOnly DEF ThreadStart
<1>4. th[t].pc = "out" /\ ~Locking(t) /\ ~th[t].published
  BY <1>1 DEF ThreadStart, PlaceOK, Locking, LockSteps
<1>5. Typed'
  BY <1>1, <1>2, <1>3, ZenonT(60) DEF Typed, SlotType
<1>6. SlotsOwned'
  <2>1. \A r \in Slots : slot'[r].mode = "Free" => slot[r].mode = "Free" /\ r # s
    BY <1>1, <1>2 DEF Typed, SlotType
  <2>2. current'[t] = s /\ \A u \in Threads \ {t} : current'[u] = current[u] /\ current[u] # s
    BY <1>1, <1>2, WaiterAssumption DEF Typed, SlotsOwned
  <2>3. s # None
    BY WaiterAssumption
  <2> QED BY <1>1, <1>3, <2>1, <2>2, <2>3 DEF SlotsOwned, Typed
<1>7. PlaceOK(t)'
  <2>1. ~Locking(t)' /\ th'[t].pc \notin Calls /\ th[t].ret # "reset"
    BY <1>1, <1>3, <1>4 DEF Locking, LockSteps, Calls, PlaceOK
  <2> QED BY <1>3, <1>4, <2>1 DEF PlaceOK
<1>8. \A u \in Threads \ {t} : PlaceOK(u)'
  BY <1>3, OthersKeep
<1>9. RouteIsLockers'
  <2>1. \A r \in Slots : slot'[r].token = slot[r].token
    BY <1>1, <1>2 DEF Typed, SlotType
  <2>2. \A u \in Threads \ {t} : current'[u] = current[u]
    BY <1>1, <1>2 DEF Typed
  <2> QED BY <1>3, <1>4, <2>1, <2>2, RoutesStand
<1> QED BY <1>5, <1>6, <1>7, <1>8, <1>9 DEF RouteInv

\* A bumped token is a token.
LEMMA BumpIsToken ==
  ASSUME NEW n \in Nat
  PROVE  Bump(n) \in Nat
BY WaiterAssumption DEF Bump

\* A thread exits, or takes a new task: its slot carries a new incarnation.
LEMMA RenewKeeps ==
  ASSUME RouteInv, NEW t \in Threads, ThreadExit(t) \/ RekeyWakeupRegistry(t), UNCHANGED <<sema, latch>>
  PROVE  RouteInv'
<1>1. Typed /\ SlotsOwned /\ PlaceOK(t)
  BY DEF RouteInv
<1>2. th[t].pc = "idle" /\ ~Locking(t) /\ ~th[t].published /\ th[t].ret # "reset"
  BY <1>1 DEF ThreadExit, RekeyWakeupRegistry, PlaceOK, Locking, LockSteps, Calls
<1>3. PICK s \in Slots : s = current[t]
  BY <1>1, <1>2 DEF SlotsOwned
<1>4. /\ slot' \in [Slots -> SlotType] /\ \A r \in Slots \ {s} : slot'[r] = slot[r]
  <2>1. Bump(slot[s].token) \in Nat
    BY <1>1, BumpIsToken DEF Typed, SlotType
  <2>2. CASE ThreadExit(t)
    <3>1. slot' = [slot EXCEPT ![s] = [token |-> Bump(slot[s].token), mode |-> "Free",
                                       signal |-> FALSE, wake_fd |-> None]]
      BY <1>1, <1>3, <2>2 DEF ThreadExit, Typed
    <3>2. [token |-> Bump(slot[s].token), mode |-> "Free", signal |-> FALSE, wake_fd |-> None] \in SlotType
      BY <2>1 DEF SlotType
    <3> QED BY <1>1, <2>2, <3>1, <3>2 DEF Typed
  <2>3. CASE RekeyWakeupRegistry(t)
    <3>1. slot' = [slot EXCEPT ![s].token = Bump(slot[s].token), ![s].mode = "Idle"]
      BY <1>1, <1>3, <2>3 DEF RekeyWakeupRegistry, Typed
    <3> QED BY <1>1, <2>1, <3>1, ZenonT(60) DEF Typed, SlotType
  <2> QED BY <2>2, <2>3
<1>5. /\ th' \in [Threads -> Locals] /\ \A u \in Threads \ {t} : th'[u] = th[u]
      /\ th'[t].pc \in {"idle", "out"} /\ th'[t].ret = th[t].ret /\ th'[t].published = th[t].published
  <2>1. CASE ThreadExit(t)
    <3>1. "out" \in Places
      BY DEF Places
    <3> QED BY <1>1, <2>1, <3>1, GotoOnly DEF ThreadExit
  <2>2. CASE RekeyWakeupRegistry(t)
    BY <1>1, <1>2, <2>2 DEF RekeyWakeupRegistry, Typed
  <2> QED BY <2>1, <2>2
<1>6. /\ current' \in [Threads -> Slots \cup {None}]
      /\ \A u \in Threads \ {t} : current'[u] = current[u]
      /\ \/ current'[t] = None /\ th'[t].pc = "out"
         \/ current'[t] = s /\ slot'[s].mode = "Idle"
  <2>1. CASE ThreadExit(t)
    BY <1>1, <2>1 DEF ThreadExit, Goto, Typed, Locals
  <2>2. CASE RekeyWakeupRegistry(t)
    <3>1. slot'[s].mode = "Idle"
      BY <1>1, <1>3, <2>2 DEF RekeyWakeupRegistry, Typed, SlotType
    <3> QED BY <1>1, <1>3, <2>2, <3>1 DEF RekeyWakeupRegistry, Typed
  <2> QED BY <2>1, <2>2
<1>7. \A u \in Threads \ {t} : current[u] # s
  BY <1>1, <1>3, WaiterAssumption DEF SlotsOwned
<1>8. Typed'
  BY <1>1, <1>4, <1>5, <1>6 DEF Typed
<1>9. SlotsOwned'
  <2>1. s # None
    BY WaiterAssumption
  <2> QED BY <1>1, <1>4, <1>5, <1>6, <1>7, <2>1 DEF SlotsOwned, Typed
<1>10. PlaceOK(t)'
  <2>1. ~Locking(t)' /\ th'[t].pc \notin Calls
    BY <1>5 DEF Locking, LockSteps, Calls
  <2> QED BY <1>2, <1>5, <2>1 DEF PlaceOK
<1>11. \A u \in Threads \ {t} : PlaceOK(u)'
  BY <1>5, OthersKeep
<1>12. RouteIsLockers'
  <2>1. \A u \in Threads \ {t} : current[u] \in Slots => slot'[current[u]].token = slot[current[u]].token
    BY <1>4, <1>7
  <2> QED BY <1>2, <1>5, <1>6, <2>1, RoutesStand
<1> QED BY <1>8, <1>9, <1>10, <1>11, <1>12 DEF RouteInv

\* InitProcess takes the latch of a PGPROC nobody owns; ProcKill gives it up.
LEMMA OwnerKeeps ==
  ASSUME RouteInv, NEW t \in Threads, NEW p \in Procs, InitProcess(t, p) \/ ProcKill(t, p)
  PROVE  RouteInv'
<1>1. Typed /\ SlotsOwned /\ PlaceOK(t) /\ UNCHANGED <<slot, current, sema>>
  BY DEF RouteInv, InitProcess, ProcKill
<1>2. th[t].pc = "idle" /\ ~Locking(t) /\ ~th[t].published /\ th[t].ret # "reset"
  BY <1>1 DEF InitProcess, ProcKill, PlaceOK, Locking, LockSteps, Calls
<1>3. PICK o \in Threads \cup {None} : latch' = [latch EXCEPT ![p].owner = o]
  BY DEF InitProcess, ProcKill
<1>4. latch' \in [Procs -> LatchType] /\ \A q \in Procs \ {p} : latch'[q] = latch[q]
  BY <1>1, <1>3 DEF Typed, LatchType
<1>5. latch[p].owner \in {None, t}
  BY DEF InitProcess, ProcKill, Owns
<1>6. /\ th' \in [Threads -> Locals] /\ \A u \in Threads \ {t} : th'[u] = th[u]
      /\ th'[t].published = th[t].published
      /\ \/ th'[t] = th[t]
         \/ th'[t].pc = "probe" /\ th'[t].ret = "reset" /\ th'[t].proc = p
  <2>1. CASE ProcKill(t, p)
    BY <1>1, <2>1 DEF ProcKill, Typed
  <2>2. CASE InitProcess(t, p)
    <3>1. PICK l : l = [Resting EXCEPT !.pc = "probe", !.proc = p, !.ret = "reset"]
      OBVIOUS
    <3>2. "probe" \in Places
      BY DEF Places, Calls
    <3>3. /\ l \in Locals /\ l.pc = "probe" /\ l.ret = "reset" /\ l.proc = p
          /\ l.published = FALSE
      BY <3>1, <3>2, RestingLocals DEF Locals
    <3>4. th' = [th EXCEPT ![t] = l]
      BY <2>2, <3>1 DEF InitProcess
    <3>5. th[t].published = FALSE
      BY <1>1, <1>2 DEF Typed, Locals
    <3> QED BY <1>1, <3>3, <3>4, <3>5 DEF Typed
  <2> QED BY <2>1, <2>2
<1>7. Typed'
  BY <1>1, <1>4, <1>6 DEF Typed
<1>8. SlotsOwned'
  BY <1>1, <1>2, <1>6 DEF SlotsOwned
<1>9. PlaceOK(t)'
  <2>1. ~Locking(t)'
    BY <1>2, <1>6 DEF Locking, LockSteps
  <2> QED BY <1>1, <1>2, <1>6, <2>1 DEF PlaceOK, Calls
<1>10. ASSUME NEW u \in Threads \ {t} PROVE PlaceOK(u)'
  <2>1. Locking(u) => th[u].proc \in Procs /\ th[u].proc # p
    <3>1. PlaceOK(u) /\ u # None
      BY WaiterAssumption DEF RouteInv
    <3> QED BY <1>5, <3>1 DEF PlaceOK
  <2> QED BY <1>4, <1>6, <2>1, OthersKeep
<1>11. RouteIsLockers'
  BY <1>1, <1>2, <1>6, RoutesStand
<1> QED BY <1>7, <1>8, <1>9, <1>10, <1>11 DEF RouteInv

\* InitProcess resets the semaphore of the PGPROC it took: nobody else is in a lock on it.
LEMMA ResetKeeps ==
  ASSUME RouteInv, NEW t \in Threads, InitProcessReset(t)
  PROVE  RouteInv'
<1>1. Typed /\ SlotsOwned /\ PlaceOK(t) /\ UNCHANGED <<slot, current, latch>> /\ Finish(t)
  BY DEF RouteInv, InitProcessReset
<1>2. th[t].pc = "reset" /\ ~th[t].published
  BY <1>1, Outside DEF InitProcessReset, LockSteps
<1>3. /\ th' \in [Threads -> Locals] /\ \A u \in Threads \ {t} : th'[u] = th[u]
      /\ th'[t].pc = "idle" /\ th'[t].published = FALSE /\ ~Locking(t)' /\ th'[t].ret = "idle"
  BY <1>1, FinishOnly
<1>4. /\ sema' \in [Procs -> SemaType]
      /\ \A p \in Procs : sema'[p].waiter \in {sema[p].waiter, NoHandle}
  <2>1. SemaReset \in SemaType /\ SemaReset.waiter = NoHandle
    BY DEF SemaReset, SemaType, Handles
  <2> QED BY <1>1, <2>1 DEF InitProcessReset, Typed
<1>5. Typed'
  BY <1>1, <1>3, <1>4 DEF Typed
<1>6. SlotsOwned'
  BY <1>1, <1>2, <1>3 DEF SlotsOwned
<1>7. PlaceOK(t)'
  BY <1>3 DEF PlaceOK, Calls
<1>8. \A u \in Threads \ {t} : PlaceOK(u)'
  BY <1>1, <1>3, OthersKeep
<1>9. RouteIsLockers'
  BY <1>1, <1>2, <1>3, <1>4, RoutesStand
<1> QED BY <1>5, <1>6, <1>7, <1>8, <1>9 DEF RouteInv

\* The owner of a PGPROC enters PGSemaphoreLock.
LEMMA EnterKeeps ==
  ASSUME RouteInv, NEW t \in Threads, NEW p \in Procs, th[t].pc = "idle", Owns(t, p),
         SemaLockEnter(t, p), UNCHANGED latch
  PROVE  RouteInv'
<1>1. Typed /\ SlotsOwned /\ UNCHANGED <<slot, current, sema>>
  BY DEF RouteInv, SemaLockEnter
<1>2. ~th[t].published
  BY Outside DEF LockSteps
<1>3. PICK l : l = [Resting EXCEPT !.pc = "consume", !.proc = p]
  OBVIOUS
<1>4. "consume" \in Places
  BY DEF Places, LockSteps
<1>5. l \in Locals /\ l.pc = "consume" /\ l.proc = p /\ l.ret = "idle" /\ l.published = FALSE
  BY <1>3, <1>4, RestingLocals DEF Locals, Resting
<1>6. /\ th' \in [Threads -> Locals] /\ \A u \in Threads \ {t} : th'[u] = th[u]
      /\ th'[t] = l
  BY <1>1, <1>3, <1>5 DEF SemaLockEnter, Typed
<1>7. Typed'
  BY <1>1, <1>6 DEF Typed
<1>8. SlotsOwned'
  BY <1>1, <1>5, <1>6 DEF SlotsOwned
<1>9. PlaceOK(t)'
  BY <1>5, <1>6 DEF PlaceOK, Calls, Owns
<1>10. \A u \in Threads \ {t} : PlaceOK(u)'
  BY <1>6, OthersKeep
<1>11. RouteIsLockers'
  BY <1>1, <1>2, <1>6, RoutesStand
<1> QED BY <1>7, <1>8, <1>9, <1>10, <1>11 DEF RouteInv

\* A locker publishes its handle, or retires it.
LEMMA RouteKeeps ==
  ASSUME RouteInv, NEW t \in Threads, SemaPublish(t) \/ SemaRetire(t), UNCHANGED latch
  PROVE  RouteInv'
<1>1. Typed /\ SlotsOwned /\ PlaceOK(t) /\ UNCHANGED <<slot, current>>
  BY DEF RouteInv, SemaPublish, SemaRetire
<1>2. Locking(t) /\ th[t].pc \in {"publish", "retire"} /\ th[t].pc \notin Calls
  BY DEF SemaPublish, SemaRetire, Locking, LockSteps, Calls
<1>3. PICK p \in Procs : p = th[t].proc
  BY <1>1, <1>2 DEF PlaceOK
<1>4. latch[p].owner = t /\ th[t].ret # "reset" /\ current[t] \in Slots
  BY <1>1, <1>2, <1>3 DEF PlaceOK, SlotsOwned
<1>5. CurrentHandle(t) \in Handles /\ CurrentHandle(t)' = CurrentHandle(t)
  BY <1>1, <1>4 DEF CurrentHandle, Handles, Typed, SlotType
<1>6. PICK h \in Handles : sema' = [sema EXCEPT ![p].waiter = h] /\ (h = NoHandle \/ (SemaPublish(t) /\ h = CurrentHandle(t)))
  BY <1>3, <1>5 DEF SemaPublish, SemaRetire, Handles
<1>7. sema' \in [Procs -> SemaType] /\ sema'[p].waiter = h /\ \A q \in Procs \ {p} : sema'[q] = sema[q]
  BY <1>1, <1>6 DEF Typed, SemaType
<1>8. /\ th' \in [Threads -> Locals] /\ \A u \in Threads \ {t} : th'[u] = th[u]
      /\ th'[t].pc \in {"recheck", "idle"} /\ th'[t].ret # "reset"
      /\ SemaPublish(t) => th'[t].published /\ th'[t].proc = p
      /\ th'[t].published => th'[t].pc = "recheck" /\ th'[t].proc = p
      /\ th'[t].pc = "recheck" => th'[t].proc = p
  <2>1. CASE SemaPublish(t)
    <3>1. PICK l : l = [th[t] EXCEPT !.pc = "recheck", !.published = TRUE]
      OBVIOUS
    <3>2. "recheck" \in Places
      BY DEF Places, LockSteps
    <3>3. l \in Locals /\ l.pc = "recheck" /\ l.proc = th[t].proc /\ l.ret = th[t].ret /\ l.published = TRUE
      BY <1>1, <3>1, <3>2, ZenonT(60) DEF Typed, Locals
    <3>4. th' = [th EXCEPT ![t] = l]
      BY <1>1, <2>1, <3>1 DEF SemaPublish, Typed
    <3> QED BY <1>1, <1>3, <1>4, <3>3, <3>4 DEF Typed
  <2>2. CASE SemaRetire(t)
    <3>1. /\ th' \in [Threads -> Locals] /\ \A u \in Threads \ {t} : th'[u] = th[u]
          /\ th'[t].pc = "idle" /\ th'[t].published = FALSE /\ ~Locking(t)' /\ th'[t].ret = "idle"
      BY <1>1, <2>2, FinishOnly DEF SemaRetire
    <3>2. ~SemaPublish(t)
      BY <2>2 DEF SemaPublish, SemaRetire
    <3> QED BY <3>1, <3>2
  <2> QED BY <2>1, <2>2
<1>9. Typed'
  BY <1>1, <1>7, <1>8 DEF Typed
<1>10. SlotsOwned'
  BY <1>1, <1>2, <1>8 DEF SlotsOwned
<1>11. PlaceOK(t)'
  BY <1>4, <1>8 DEF PlaceOK, Locking, LockSteps, Calls
<1>12. \A u \in Threads \ {t} : PlaceOK(u)'
  BY <1>8, OthersKeep
<1>13. RouteIsLockers'
  <2> SUFFICES ASSUME NEW q \in Procs, sema'[q].waiter # NoHandle
               PROVE  \E u \in Threads : th'[u].published /\ th'[u].proc = q /\ sema'[q].waiter = CurrentHandle(u)'
    BY DEF RouteIsLockers
  <2>1. CASE q = p
    BY <1>5, <1>6, <1>7, <1>8, <2>1
  <2>2. CASE q # p
    <3>1. sema'[q].waiter = sema[q].waiter
      BY <1>7, <2>2
    <3>2. PICK u \in Threads : th[u].published /\ th[u].proc = q /\ sema[q].waiter = CurrentHandle(u)
      BY <3>1 DEF RouteInv, RouteIsLockers
    <3>3. u # t
      BY <1>3, <2>2, <3>2
    <3>4. CurrentHandle(u)' = CurrentHandle(u)
      BY <1>1 DEF CurrentHandle
    <3> QED BY <1>8, <3>1, <3>2, <3>3, <3>4
  <2> QED BY <2>1, <2>2
<1> QED BY <1>9, <1>10, <1>11, <1>12, <1>13 DEF RouteInv

(***************************************************************************)
(* The theorems.                                                           *)
(***************************************************************************)

\* A server that has just started is in order.
LEMMA RouteInitially ==
  ASSUME Init
  PROVE  RouteInv
<1> USE DEF Init, WaiterInit, SemaInit, LatchInit
<1>1. PICK l : l = [Resting EXCEPT !.pc = "out"]
  OBVIOUS
<1>2. "out" \in Places
  BY DEF Places
<1>3. l \in Locals /\ l.pc = "out" /\ l.ret = "idle" /\ l.published = FALSE
  BY <1>1, <1>2, RestingLocals DEF Locals, Resting
<1>4. \A t \in Threads : th[t] = l
  BY <1>1
<1>5. Typed
  <2>1. th \in [Threads -> Locals]
    BY <1>1, <1>3
  <2>2. slot \in [Slots -> SlotType] /\ current \in [Threads -> Slots \cup {None}]
    BY DEF SlotType
  <2>3. sema \in [Procs -> SemaType] /\ latch \in [Procs -> LatchType]
    BY DEF SemaType, LatchType, Handles
  <2> QED BY <2>1, <2>2, <2>3 DEF Typed
<1>6. SlotsOwned
  BY <1>3, <1>4 DEF SlotsOwned
<1>7. \A t \in Threads : PlaceOK(t)
  BY <1>3, <1>4 DEF PlaceOK, Locking, LockSteps, Calls
<1>8. RouteIsLockers
  BY DEF RouteIsLockers
<1> QED BY <1>5, <1>6, <1>7, <1>8 DEF RouteInv

\* Every step keeps the invariant.
LEMMA RouteStep ==
  ASSUME RouteInv, [Next]_vars
  PROVE  RouteInv'
<1>1. CASE UNCHANGED vars
  BY <1>1 DEF vars, RouteInv, Typed, SlotsOwned, PlaceOK, Locking, RouteIsLockers, CurrentHandle
<1>2. ASSUME NEW t \in Threads, Begin(t) PROVE RouteInv'
  <2>1. CASE ThreadStart(t) /\ UNCHANGED <<sema, latch>>
    BY <2>1, StartKeeps
  <2>2. CASE (ThreadExit(t) \/ RekeyWakeupRegistry(t)) /\ UNCHANGED <<sema, latch>>
    BY <2>2, RenewKeeps
  <2>3. CASE Sleep(t) /\ UNCHANGED <<sema, latch>>
    BY <2>3, QuietSleep, CalmKeeps
  <2>4. ASSUME NEW p \in Procs, InitProcess(t, p) \/ ProcKill(t, p) PROVE RouteInv'
    BY <2>4, OwnerKeeps
  <2>5. ASSUME NEW p \in Procs, th[t].pc = "idle", Owns(t, p), SemaLockEnter(t, p), UNCHANGED latch
        PROVE  RouteInv'
    BY <2>5, EnterKeeps
  <2>6. ASSUME NEW p \in Procs, SemaPost(t, p), UNCHANGED latch PROVE RouteInv'
    BY <2>6, QuietPost, CalmKeeps
  <2>7. ASSUME NEW p \in Procs, SetLatchEnter(t, p), UNCHANGED sema PROVE RouteInv'
    BY <2>7, QuietSet, CalmKeeps
  <2>8. ASSUME NEW p \in Procs, ResetLatch(t, p), UNCHANGED sema PROVE RouteInv'
    BY <2>8, QuietLook, CalmKeeps
  <2> QED BY <1>2, <2>1, <2>2, <2>3, <2>4, <2>5, <2>6, <2>7, <2>8 DEF Begin
<1>3. ASSUME NEW t \in Threads, Step(t) PROVE RouteInv'
  <2>1. CASE SemaStep(t)
    BY <2>1, QuietConsume, QuietPost, RouteKeeps, CalmKeeps DEF SemaStep
  <2>2. CASE LatchStep(t)
    BY <2>2, QuietSet, QuietLook, QuietWaitLatch, QuietEventSet, CalmKeeps DEF LatchStep
  <2>3. CASE WaiterStep(t)
    BY <2>3, QuietWaiter, CalmKeeps DEF WaiterStep
  <2>4. CASE InitProcessReset(t)
    BY <2>4, ResetKeeps
  <2> QED BY <1>3, <2>1, <2>2, <2>3, <2>4 DEF Step
<1>4. ASSUME NEW t \in Threads, Expire(t) \/ Happen(t) PROVE RouteInv'
  BY <1>4, QuietWaiter, QuietEventSet, CalmKeeps DEF Expire, Happen
<1> QED BY <1>1, <1>2, <1>3, <1>4 DEF Next

\* The invariant holds of every state.
LEMMA RouteAlways == Spec => []RouteInv
<1>1. Init => RouteInv
  BY RouteInitially
<1>2. RouteInv /\ [Next]_vars => RouteInv'
  BY RouteStep
<1> QED BY <1>1, <1>2, PTL DEF Spec

\* Whatever handle a semaphore publishes is the live handle of a thread inside PGSemaphoreLock
\* on it: an unlocker that loads it reaches the locker, across reuse of the PGPROC, of the thread
\* and of the slot.
THEOREM RouteIsLockersHolds == Spec => []RouteIsLockers
<1>1. RouteInv => RouteIsLockers
  BY DEF RouteInv
<1> QED BY <1>1, RouteAlways, PTL

\* The wake route a locker is about to replace is empty or its own: no other thread is inside
\* PGSemaphoreLock on this semaphore, nor has one left its handle behind.
OwnRoute ==
  \A t \in Threads : th[t].pc = "publish" => sema[th[t].proc].waiter \in {NoHandle, CurrentHandle(t)}

\* PGSemaphoreLock never finds the handle of another locker when it swaps in its own: what its
\* debug_assert says ("concurrent waiters on one PGPROC semaphore" otherwise) holds of the release build too.
THEOREM OwnRouteHolds == Spec => []OwnRoute
<1>1. ASSUME RouteInv PROVE OwnRoute
  <2> SUFFICES ASSUME NEW t \in Threads, th[t].pc = "publish", sema[th[t].proc].waiter # NoHandle
               PROVE  sema[th[t].proc].waiter = CurrentHandle(t)
    BY DEF OwnRoute
  <2>1. th[t].proc \in Procs /\ latch[th[t].proc].owner = t
    BY <1>1 DEF RouteInv, PlaceOK, Locking, LockSteps
  <2>2. PICK u \in Threads : th[u].published /\ th[u].proc = th[t].proc /\ sema[th[t].proc].waiter = CurrentHandle(u)
    BY <1>1, <2>1 DEF RouteInv, RouteIsLockers
  <2>3. latch[th[u].proc].owner = u
    BY <1>1, <2>2 DEF RouteInv, PlaceOK
  <2> QED BY <2>1, <2>2, <2>3
<1> QED BY <1>1, RouteAlways, PTL
=============================================================================
