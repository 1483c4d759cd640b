------------------------------ MODULE LockTable ------------------------------
(* The shared entry of one lock: who holds it, who waits for it, and the masks *)
(* that summarise both.  Every operator is a part of a section under the      *)
(* partition lock.  A PROCLOCK is there while its process holds or waits; a     *)
(* LOCK that nobody requests is removed, which is NoLock here.                 *)
EXTENDS Naturals, Sequences, FiniteSets, SequencesExt, FiniteSetsExt

CONSTANTS
  Procs,          \* backends
  Modes           \* the lock modes in use

ShareUpdateExclusiveLock == 4

(* LOCK_CONFLICTS: 1 AccessShare, 2 RowShare, 3 RowExclusive,                 *)
(* 4 ShareUpdateExclusive, 5 Share, 6 ShareRowExclusive, 7 Exclusive,          *)
(* 8 AccessExclusive.                                                         *)
conflictTab == << {8}, 7..8, 5..8, 4..8, {3, 4, 6, 7, 8}, 3..8, 2..8, 1..8 >>

ASSUME LockModes == Modes \subseteq DOMAIN conflictTab

NoLock == [granted |-> [m \in Modes |-> 0], requested |-> [m \in Modes |-> 0],
           grantMask |-> {}, waitMask |-> {},
           hold |-> [p \in Procs |-> {}], queue |-> <<>>]

(* nRequested is 0. *)
Unused(lk) == \A m \in Modes : lk.requested[m] = 0

(* The request that SetupLockInTable counts. *)
Requested(lk, m) == [lk EXCEPT !.requested[m] = @ + 1]

Unrequested(lk, m) == [lk EXCEPT !.requested[m] = @ - 1]

(* waitMask loses a mode when all its requests are granted. *)
MaskOff(lk, m) ==
  IF lk.granted[m] = lk.requested[m] THEN [lk EXCEPT !.waitMask = @ \ {m}] ELSE lk

grant_lock_raw(lk, p, m) ==
  MaskOff([lk EXCEPT !.granted[m] = @ + 1, !.grantMask = @ \cup {m},
                     !.hold[p] = @ \cup {m}], m)

UnGrantLock(lk, p, m) ==
  [lk EXCEPT !.requested[m] = @ - 1, !.granted[m] = @ - 1,
             !.grantMask = IF lk.granted[m] = 1 THEN @ \ {m} ELSE @,
             !.hold[p] = @ \ {m}]

(* What UnGrantLock returns: somebody waits for what the mode kept away. *)
WakeupNeeded(lk, m) == conflictTab[m] \cap lk.waitMask # {}

(* A request conflicts with what was granted, p's own grants not counted. *)
lock_check_conflicts_raw(lk, p, m) ==
  /\ conflictTab[m] \cap lk.grantMask # {}
  /\ \E i \in conflictTab[m] \cap Modes :
       lk.granted[i] > (IF i \in lk.hold[p] THEN 1 ELSE 0)

(* Grants, in queue order, what conflicts neither with held locks nor with   *)
(* the requests of those who stay ahead.  "mode" is what each process waits for. *)
ProcLockWakeup(lock, mode) ==
  FoldLeft(LAMBDA acc, p :
             IF conflictTab[mode[p]] \cap acc.ahead = {}
                /\ ~lock_check_conflicts_raw(acc.lk, p, mode[p])
               THEN [acc EXCEPT !.lk = [grant_lock_raw(acc.lk, p, mode[p])
                                          EXCEPT !.queue = Remove(@, p)]]
               ELSE [acc EXCEPT !.ahead = @ \cup {mode[p]}],
           [lk |-> lock, ahead |-> {}], lock.queue).lk

CleanUpLock(lk, mode, wakeupNeeded) ==
  IF Unused(lk) THEN NoLock
  ELSE IF wakeupNeeded THEN ProcLockWakeup(lk, mode)
  ELSE lk

(* The first waiter that would have to wait for what p holds, 0 for nobody. *)
FirstBlocked(lk, p, mode) ==
  LET after == {i \in DOMAIN lk.queue :
                  conflictTab[mode[lk.queue[i]]] \cap lk.hold[p] # {}}
  IN  IF after = {} THEN 0 ELSE Min(after)

(* JoinWaitQueue of p for mode m: an immediate grant ahead of the waiters it *)
(* blocks anyway, an immediate deadlock, a refusal, or a place in the queue.  *)
JoinWaitQueue(lk, p, m, mode, heldLocks, dontWait) ==
  LET i     == FirstBlocked(lk, p, mode)
      ahead == {mode[lk.queue[j]] : j \in 1..(i - 1)}
  IN  IF i # 0 /\ conflictTab[m] \cap heldLocks[lk.queue[i]] # {}
        THEN [status |-> "ERROR", lk |-> lk]
      ELSE IF i # 0 /\ conflictTab[m] \cap ahead = {} /\ ~lock_check_conflicts_raw(lk, p, m)
        THEN [status |-> "OK", lk |-> grant_lock_raw(lk, p, m)]
      ELSE IF dontWait
        THEN [status |-> "ERROR", lk |-> lk]
      ELSE [status |-> "WAITING",
            lk |-> [lk EXCEPT !.queue = IF i # 0 THEN InsertAt(@, i, p) ELSE Append(@, p),
                              !.waitMask = @ \cup {m}]]

\* Mutant: those behind the one who leaves are not looked at.
RemoveQuietly(lk, p, mode) ==
  CleanUpLock(MaskOff(Unrequested([lk EXCEPT !.queue = Remove(@, p)], mode[p]), mode[p]),
              mode, FALSE)

(* RemoveFromWaitQueue of p, who gives up. *)
RemoveFromWaitQueue(lk, p, mode) ==
  CleanUpLock(MaskOff(Unrequested([lk EXCEPT !.queue = Remove(@, p)], mode[p]), mode[p]),
              mode, TRUE)
==============================================================================
