------------------------------- MODULE LockMgr -------------------------------
(* Heavyweight relation locks: the shared table, the fast path that keeps weak *)
(* locks out of it, the local table of each backend, waits and their ends.       *)
(* One step is one section under a partition lock, an fpInfoLock or the strong- *)
(* lock spinlock; what a backend does between two of them is its own business.  *)
(* The relations share one partition of the strong-lock counts, the worst case.  *)
EXTENDS DeadLock

CONSTANTS
  Rels,           \* relations, all of the backends' database
  Plans,          \* what each backend may do and meet: [requests, sub, full,
                  \* max]; a request is [rel, mode, session, dontWait], "full" a
                  \* table without room for a new entry, "max" the bound on how
                  \* often it takes the same lock
  FpSlots,        \* fast-path slots of a backend: FP_LOCK_SLOTS_PER_GROUP
  None

VARIABLES
  table,          \* the shared LOCK and PROCLOCK entries
  fp,             \* fp[p]: the fast-path slots, relid and mode bits
  useCount,       \* useCount[p]: p's own idea of the slots in use
  fpLock,         \* fpLock[p]: who holds p's fpInfoLock
  strong,         \* FAST_PATH_STRONG_RELATION_LOCKS.count
  local,          \* local[p]: the LOCALLOCK entries
  sub,            \* sub[p]: p is in a subtransaction
  at, req,        \* where p is, and the request it is about
  inProgress,     \* STRONG_LOCK_IN_PROGRESS
  awaited,        \* AWAITED_LOCK is set
  waitStatus, checked,
  heldLocks,      \* what p held of the lock it waits for, {} outside a queue
  todo,           \* backends whose fast-path locks are still to transfer
  ending, work, releaseMask,
  plan            \* the backends' programs, a member of Plans

vars == <<table, fp, useCount, fpLock, strong, local, sub, at, req, inProgress,
          awaited, waitStatus, heldLocks, checked, todo, ending, work, releaseMask, plan>>

Owners == {"session", "xact", "sub"}
Tags   == Rels \X Modes
NoRequest == [rel |-> None, mode |-> None, session |-> FALSE, dontWait |-> FALSE]
Tag(q) == <<q.rel, q.mode>>
mode   == [p \in Procs |-> req[p].mode]

NoLocal   == [own |-> [o \in Owners |-> 0], strong |-> FALSE, shared |-> FALSE]
nLocks(e) == e.own["session"] + e.own["xact"] + e.own["sub"]
FreeSlot  == [rel |-> None, modes |-> {}]

Owner(p, q) == IF q.session THEN "session" ELSE IF sub[p] THEN "sub" ELSE "xact"

eligible_for_relation_fast_path(m) == m < ShareUpdateExclusiveLock
ConflictsWithRelationFastPath(m)   == m > ShareUpdateExclusiveLock
fast_path_local_can_try(p, m) == eligible_for_relation_fast_path(m) /\ useCount[p] < FpSlots

GrantLockLocal(e, o)   == [e EXCEPT !.own[o] = @ + 1]
Queued(p)  == at[p] \in {"wait", "error"} /\ Contains(table[req[p].rel].queue, p)

Init ==
  /\ table = [r \in Rels |-> NoLock]
  /\ fp = [p \in Procs |-> [s \in 1..FpSlots |-> FreeSlot]]
  /\ useCount = [p \in Procs |-> 0]
  /\ fpLock = [p \in Procs |-> None]
  /\ strong = 0
  /\ local = [p \in Procs |-> [t \in Tags |-> NoLocal]]
  /\ sub = [p \in Procs |-> FALSE]
  /\ at = [p \in Procs |-> "idle"]
  /\ plan \in Plans
  /\ req = [p \in Procs |-> NoRequest]
  /\ inProgress = [p \in Procs |-> FALSE]
  /\ awaited = [p \in Procs |-> FALSE]
  /\ waitStatus = [p \in Procs |-> "OK"]
  /\ heldLocks = [p \in Procs |-> {}]
  /\ checked = [p \in Procs |-> FALSE]
  /\ todo = [p \in Procs |-> {}]
  /\ ending = [p \in Procs |-> "no"]
  /\ work = [p \in Procs |-> {}]
  /\ releaseMask = [p \in Procs |-> {}]

callVars == <<sub, ending, work, releaseMask, plan>>
waitVars == <<awaited, waitStatus, heldLocks, checked>>
fpVars   == <<fp, useCount, fpLock>>

-----------------------------------------------------------------------------
(* The strong-lock counts. *)

BeginStrongLockAcquire(p) ==
  /\ strong' = strong + 1
  /\ local' = [local EXCEPT ![p][Tag(req[p])].strong = TRUE]
  /\ inProgress' = [inProgress EXCEPT ![p] = TRUE]

\* Mutant: the request that is given up stays counted.
KeptStrong(p) == strong

(* AbortStrongLockAcquire: the count, and the entry of the request. *)
AbortedStrong(p) == IF inProgress[p] THEN strong - 1 ELSE strong
Unstrong(p, e)   == IF inProgress[p] THEN [e EXCEPT !.strong = FALSE] ELSE e

-----------------------------------------------------------------------------
(* LockAcquire *)

(* A lock that p has already is counted once more and that is all. *)
LockAcquire(p, q) ==
  LET e == local[p][Tag(q)] IN
  /\ at[p] = "idle"
  /\ nLocks(e) < plan[p].max
  /\ IF nLocks(e) > 0
       THEN /\ local' = [local EXCEPT ![p][Tag(q)] = GrantLockLocal(e, Owner(p, q))]
            /\ UNCHANGED <<at, req>>
       ELSE /\ req' = [req EXCEPT ![p] = q]
            /\ at' = [at EXCEPT ![p] = IF fast_path_local_can_try(p, q.mode) THEN "fast"
                                       ELSE IF ConflictsWithRelationFastPath(q.mode) THEN "begin"
                                       ELSE "table"]
            /\ UNCHANGED local
  /\ UNCHANGED <<table, strong, inProgress, todo, fpVars, waitVars, callVars>>

\* Mutant: the count is read before the lock is taken.
FastPathCheckUnlocked(p) ==
  /\ at[p] = "fast"
  /\ at' = [at EXCEPT ![p] = IF strong # 0 THEN "table" ELSE "grant"]
  /\ UNCHANGED <<table, strong, local, req, inProgress, todo, fpVars, waitVars, callVars>>

(* Under its own fpInfoLock p looks at the strong-lock count. *)
FastPathCheck(p) ==
  /\ at[p] = "fast"
  /\ fpLock[p] = None
  /\ IF strong # 0
       THEN at' = [at EXCEPT ![p] = "table"] /\ UNCHANGED fpLock
       ELSE at' = [at EXCEPT ![p] = "grant"] /\ fpLock' = [fpLock EXCEPT ![p] = p]
  /\ UNCHANGED <<table, fp, useCount, strong, local, req, inProgress, todo, waitVars, callVars>>

\* Mutant: pointers of an earlier attempt stay.
AfterFastPathStale(e) == e

(* A fast-path lock has no shared entry to point to. *)
AfterFastPath(e) == [e EXCEPT !.shared = FALSE]

(* The slot of the relation, else the last free one. *)
SlotFor(slots, r) ==
  LET mine == {s \in DOMAIN slots : slots[s].rel = r /\ slots[s].modes # {}}
      free == {s \in DOMAIN slots : slots[s].modes = {}}
  IN  IF mine # {} THEN mine ELSE IF free # {} THEN {Max(free)} ELSE {}

FastPathGrantRelationLock(p) ==
  LET r == req[p].rel
      s == SlotFor(fp[p], r)
      e == AfterFastPath(local[p][Tag(req[p])])
  IN
  /\ at[p] = "grant"
  /\ fpLock' = [fpLock EXCEPT ![p] = None]
  /\ IF s = {}
       THEN at' = [at EXCEPT ![p] = "table"] /\ UNCHANGED <<fp, useCount, local>>
       ELSE /\ at' = [at EXCEPT ![p] = "idle"]
            /\ \E i \in s :
                 /\ fp' = [fp EXCEPT ![p][i] = [rel |-> r, modes |-> @.modes \cup {req[p].mode}]]
                 /\ useCount' = [useCount EXCEPT ![p] = IF fp[p][i].modes = {} THEN @ + 1 ELSE @]
            /\ local' = [local EXCEPT ![p][Tag(req[p])] = GrantLockLocal(e, Owner(p, req[p]))]
  /\ UNCHANGED <<table, strong, req, inProgress, todo, waitVars, callVars>>

(* A strong lock is announced before anybody's fast-path locks are looked for. *)
StrongBegin(p) ==
  /\ at[p] = "begin"
  /\ BeginStrongLockAcquire(p)
  /\ todo' = [todo EXCEPT ![p] = Procs]
  /\ at' = [at EXCEPT ![p] = "transfer"]
  /\ UNCHANGED <<table, req, fpVars, waitVars, callVars>>

(* What a backend's slots hold of a relation, and the slots without it. *)
FastModes(q, r) == UNION {fp[q][s].modes : s \in {i \in 1..FpSlots : fp[q][i].rel = r}}
Cleared(q, r, ms) ==
  [s \in 1..FpSlots |-> IF fp[q][s].rel = r THEN [fp[q][s] EXCEPT !.modes = @ \ ms] ELSE fp[q][s]]

Transferred(lk, q, ms) ==
  FoldSet(LAMBDA m, l : grant_lock_raw(Requested(l, m), q, m), lk, ms)

(* FastPathTransferRelationLocks, one backend after the other. *)
FastPathTransferRelationLocks(p, q) ==
  LET r == req[p].rel  IN
  /\ at[p] = "transfer"
  /\ q = Min(todo[p])
  /\ fpLock[q] = None
  /\ table' = [table EXCEPT ![r] = Transferred(@, q, FastModes(q, r))]
  /\ fp' = [fp EXCEPT ![q] = Cleared(q, r, FastModes(q, r))]
  /\ todo' = [todo EXCEPT ![p] = @ \ {q}]
  /\ at' = [at EXCEPT ![p] = IF todo[p] = {q} THEN "table" ELSE @]
  /\ UNCHANGED <<useCount, fpLock, strong, local, req, inProgress, waitVars, callVars>>

(* The request is given up before the table knows of it; nothing is left in   *)
(* progress that LockErrorCleanup would have to clean up.                     *)
OutOfSharedMemory(p) ==
  /\ strong' = AbortedStrong(p)
  /\ local' = [local EXCEPT ![p][Tag(req[p])] = NoLocal]
  /\ inProgress' = [inProgress EXCEPT ![p] = FALSE]
  /\ todo' = [todo EXCEPT ![p] = {}]
  /\ at' = [at EXCEPT ![p] = "error"]
  /\ UNCHANGED <<table, req, fpVars, waitVars, callVars>>

(* No room for the PROCLOCK of a backend that has none on the relation. *)
TransferFails(p, q) ==
  /\ plan[p].full
  /\ at[p] = "transfer"
  /\ q = Min(todo[p])
  /\ fpLock[q] = None
  /\ FastModes(q, req[p].rel) # {}
  /\ table[req[p].rel].hold[q] = {} /\ ~Contains(table[req[p].rel].queue, q)
  /\ OutOfSharedMemory(p)

SetupFails(p) ==
  /\ plan[p].full
  /\ at[p] = "table"
  /\ table[req[p].rel].hold[p] = {}
  /\ OutOfSharedMemory(p)

(* What the section under the partition lock makes of the request. *)
TableResult(p) ==
  LET q  == req[p]
      lk == Requested(table[q.rel], q.mode)
  IN  IF conflictTab[q.mode] \cap lk.waitMask = {} /\ ~lock_check_conflicts_raw(lk, p, q.mode)
        THEN [status |-> "OK", lk |-> grant_lock_raw(lk, p, q.mode)]
        ELSE JoinWaitQueue(lk, p, q.mode, mode, heldLocks, q.dontWait)

TableGrants(p) ==
  LET res == TableResult(p)
      e   == [local[p][Tag(req[p])] EXCEPT !.shared = TRUE]
  IN
  /\ at[p] = "table"
  /\ res.status = "OK"
  /\ table' = [table EXCEPT ![req[p].rel] = res.lk]
  /\ local' = [local EXCEPT ![p][Tag(req[p])] = GrantLockLocal(e, Owner(p, req[p]))]
  /\ inProgress' = [inProgress EXCEPT ![p] = FALSE]
  /\ at' = [at EXCEPT ![p] = "idle"]
  /\ UNCHANGED <<strong, req, todo, fpVars, waitVars, callVars>>

TableWaits(p) ==
  LET res == TableResult(p) IN
  /\ at[p] = "table"
  /\ res.status = "WAITING"
  /\ table' = [table EXCEPT ![req[p].rel] = res.lk]
  /\ local' = [local EXCEPT ![p][Tag(req[p])].shared = TRUE]
  /\ heldLocks' = [heldLocks EXCEPT ![p] = table[req[p].rel].hold[p]]
  /\ waitStatus' = [waitStatus EXCEPT ![p] = "WAITING"]
  /\ awaited' = [awaited EXCEPT ![p] = TRUE]
  /\ checked' = [checked EXCEPT ![p] = FALSE]
  /\ at' = [at EXCEPT ![p] = "wait"]
  /\ UNCHANGED <<strong, req, inProgress, todo, fpVars, callVars>>

(* Not available, or an immediate deadlock: the request is undone on the spot. *)
TableRefuses(p) ==
  LET res == TableResult(p) IN
  /\ at[p] = "table"
  /\ res.status = "ERROR"
  /\ table' = [table EXCEPT ![req[p].rel] = Unrequested(res.lk, req[p].mode)]
  /\ strong' = AbortedStrong(p)
  /\ local' = [local EXCEPT ![p][Tag(req[p])] = NoLocal]
  /\ inProgress' = [inProgress EXCEPT ![p] = FALSE]
  /\ at' = [at EXCEPT ![p] = IF req[p].dontWait THEN "idle" ELSE "error"]
  /\ UNCHANGED <<req, todo, fpVars, waitVars, callVars>>

-----------------------------------------------------------------------------
(* Waits.  Whoever takes a waiter off a queue tells it how the wait ended. *)

(* ProcWakeup of those that a change of the table took off a queue. *)
Woken(newTable, quitter) ==
  [p \in Procs |-> IF Queued(p) /\ ~Contains(newTable[req[p].rel].queue, p)
                     THEN IF p = quitter THEN "ERROR" ELSE "OK"
                     ELSE waitStatus[p]]

SetTable(newTable, quitter) ==
  table' = newTable /\ waitStatus' = Woken(newTable, quitter)

(* The deadlock time-out of a wait fires once. *)
CheckDeadLock(p) ==
  LET r     == req[p].rel
      check == DeadLockCheckRecurse(table, mode, p)
      sorted(s) == [table[s] EXCEPT !.queue = check.orders[s]]
  IN
  /\ at[p] = "wait"
  /\ Queued(p)
  /\ ~checked[p]
  /\ checked' = [checked EXCEPT ![p] = TRUE]
  /\ IF ~check.found
       THEN SetTable([table EXCEPT ![r] = RemoveFromWaitQueue(@, p, mode)], p)
       ELSE SetTable([s \in Rels |-> IF check.orders[s] = table[s].queue THEN table[s]
                                     ELSE ProcLockWakeup(sorted(s), mode)], None)
  /\ UNCHANGED <<strong, local, at, req, inProgress, awaited, heldLocks, todo, fpVars, callVars>>

WaitEnds(p) ==
  /\ at[p] = "wait"
  /\ waitStatus[p] = "OK"
  /\ local' = [local EXCEPT ![p][Tag(req[p])] = GrantLockLocal(@, Owner(p, req[p]))]
  /\ inProgress' = [inProgress EXCEPT ![p] = FALSE]
  /\ awaited' = [awaited EXCEPT ![p] = FALSE]
  /\ checked' = [checked EXCEPT ![p] = FALSE]
  /\ heldLocks' = [heldLocks EXCEPT ![p] = {}]
  /\ at' = [at EXCEPT ![p] = "idle"]
  /\ UNCHANGED <<table, strong, req, waitStatus, todo, fpVars, callVars>>

(* DeadLockReport after ProcSleep returned. *)
DeadLockReport(p) ==
  /\ at[p] = "wait"
  /\ waitStatus[p] = "ERROR"
  /\ awaited' = [awaited EXCEPT ![p] = FALSE]
  /\ at' = [at EXCEPT ![p] = "error"]
  /\ UNCHANGED <<table, strong, local, req, inProgress, waitStatus, heldLocks, checked, todo,
                 fpVars, callVars>>

(* A cancel, a lock time-out: an error out of the wait, granted already or not. *)
Cancel(p) ==
  /\ at[p] = "wait"
  /\ at' = [at EXCEPT ![p] = "error"]
  /\ UNCHANGED <<table, strong, local, req, inProgress, todo, fpVars, waitVars, callVars>>

(* LockErrorCleanup, the first thing an abort does: of the transaction, or of *)
(* the subtransaction alone.                                                *)
LockErrorCleanup(p) ==
  LET r == req[p].rel
      e == Unstrong(p, local[p][Tag(req[p])])
      granted == awaited[p] /\ ~Queued(p) /\ waitStatus[p] = "OK"
  IN
  /\ at[p] = "error"
  /\ strong' = AbortedStrong(p)
  /\ inProgress' = [inProgress EXCEPT ![p] = FALSE]
  /\ IF awaited[p] /\ Queued(p)
       THEN SetTable([table EXCEPT ![r] = RemoveFromWaitQueue(@, p, mode)], p)
       ELSE UNCHANGED <<table, waitStatus>>
  /\ local' = [local EXCEPT ![p][Tag(req[p])] =
                 IF granted THEN GrantLockLocal(e, Owner(p, req[p])) ELSE e]
  /\ awaited' = [awaited EXCEPT ![p] = FALSE]
  /\ checked' = [checked EXCEPT ![p] = FALSE]
  /\ heldLocks' = [heldLocks EXCEPT ![p] = {}]
  /\ ending' = [ending EXCEPT ![p] = IF sub[p] THEN "sub" ELSE "abort"]
  /\ at' = [at EXCEPT ![p] = "failed"]
  /\ UNCHANGED <<req, todo, fpVars, sub, work, releaseMask, plan>>

-----------------------------------------------------------------------------
(* LockRelease *)

Return(p) == IF ending[p] = "no" THEN "idle" ELSE "next"

(* The owner's count goes first; the lock with the last of them. *)
LockRelease(p, q) ==
  LET e == [local[p][Tag(q)] EXCEPT !.own[Owner(p, q)] = @ - 1] IN
  /\ at[p] = "idle"
  /\ local[p][Tag(q)].own[Owner(p, q)] > 0
  /\ local' = [local EXCEPT ![p][Tag(q)] = e]
  /\ IF nLocks(e) > 0
       THEN UNCHANGED <<at, req>>
       ELSE /\ req' = [req EXCEPT ![p] = q]
            /\ at' = [at EXCEPT ![p] = "release"]
  /\ UNCHANGED <<table, strong, inProgress, todo, fpVars, waitVars, callVars>>

(* FastPathUnGrantRelationLock, which also counts the slots in use anew. *)
UnGranted(p, r, m) == Cleared(p, r, {m})
SlotsUsed(slots)   == Cardinality({s \in DOMAIN slots : slots[s].modes # {}})

FastRelease(p) ==
  LET q == req[p]
      slots == UnGranted(p, q.rel, q.mode)
  IN
  /\ at[p] = "release"
  /\ eligible_for_relation_fast_path(q.mode)
  /\ useCount[p] > 0
  /\ fpLock[p] = None
  /\ fp' = [fp EXCEPT ![p] = slots]
  /\ useCount' = [useCount EXCEPT ![p] = SlotsUsed(slots)]
  /\ IF q.mode \in FastModes(p, q.rel)
       THEN /\ local' = [local EXCEPT ![p][Tag(q)] = NoLocal]
            /\ at' = [at EXCEPT ![p] = Return(p)]
       ELSE /\ at' = [at EXCEPT ![p] = "refind"]
            /\ UNCHANGED local
  /\ UNCHANGED <<table, fpLock, strong, req, inProgress, todo, waitVars, callVars>>

(* The table after p gave up modes of a relation. *)
Ungranted(p, r, ms) ==
  LET lk == FoldSet(LAMBDA m, l : UnGrantLock(l, p, m), table[r], ms)
      wakeupNeeded == \E m \in ms : WakeupNeeded(table[r], m)
  IN  [table EXCEPT ![r] = CleanUpLock(lk, mode, wakeupNeeded)]

TableRelease(p) ==
  LET q == req[p] IN
  /\ \/ at[p] = "refind"
     \/ at[p] = "release" /\ ~(eligible_for_relation_fast_path(q.mode) /\ useCount[p] > 0)
  /\ SetTable(Ungranted(p, q.rel, {q.mode}), None)
  /\ IF local[p][Tag(q)].strong
       THEN /\ at' = [at EXCEPT ![p] = "remove"]
            /\ UNCHANGED local
       ELSE /\ at' = [at EXCEPT ![p] = Return(p)]
            /\ local' = [local EXCEPT ![p][Tag(q)] = NoLocal]
  /\ UNCHANGED <<strong, req, inProgress, awaited, heldLocks, checked, todo, fpVars, callVars>>

(* RemoveLocalLock: the strong-lock count last. *)
RemoveLocalLock(p) ==
  /\ at[p] = "remove"
  /\ strong' = strong - 1
  /\ local' = [local EXCEPT ![p][Tag(req[p])] = NoLocal]
  /\ at' = [at EXCEPT ![p] = Return(p)]
  /\ UNCHANGED <<table, req, inProgress, todo, fpVars, waitVars, callVars>>

-----------------------------------------------------------------------------
(* Subtransactions *)

StartSub(p) ==
  /\ at[p] = "idle"
  /\ plan[p].sub /\ ~sub[p]
  /\ sub' = [sub EXCEPT ![p] = TRUE]
  /\ UNCHANGED <<table, strong, local, at, req, inProgress, todo, ending, work, releaseMask,
                 fpVars, waitVars, plan>>

(* LockReassignCurrentOwner hands the locks of the subtransaction to its parent. *)
LockReassignOwner(e) ==
  [e EXCEPT !.own["xact"] = @ + e.own["sub"], !.own["sub"] = 0]

CommitSub(p) ==
  /\ at[p] = "idle"
  /\ sub[p]
  /\ local' = [local EXCEPT ![p] = [t \in Tags |-> LockReassignOwner(@[t])]]
  /\ sub' = [sub EXCEPT ![p] = FALSE]
  /\ UNCHANGED <<table, strong, at, req, inProgress, todo, ending, work, releaseMask,
                 fpVars, waitVars, plan>>

(* An end of this kind begins: by a decision, or where LockErrorCleanup led. *)
Ends(p, kind) ==
  \/ /\ at[p] = "idle"
     /\ sub[p] <=> kind = "sub"
     /\ \E t \in Tags : nLocks(local[p][t]) > 0
  \/ at[p] = "failed" /\ ending[p] = kind

(* LockReleaseCurrentOwner and ReleaseLockIfHeld: the entries of the            *)
(* subtransaction that nobody else owns are left to LockRelease, once each.       *)
LockReleaseCurrentOwner(p) ==
  LET owned   == {t \in Tags : local[p][t].own["sub"] > 0}
      partial == {t \in owned : nLocks(local[p][t]) > local[p][t].own["sub"]}
  IN
  /\ Ends(p, "sub")
  /\ ending' = [ending EXCEPT ![p] = "sub"]
  /\ local' = [local EXCEPT ![p] = [t \in Tags |->
                 IF t \in owned THEN [@[t] EXCEPT !.own["sub"] = 0] ELSE @[t]]]
  /\ work' = [work EXCEPT ![p] = {[tag |-> t, fast |-> FALSE, strong |-> FALSE] :
                                    t \in owned \ partial}]
  /\ at' = [at EXCEPT ![p] = "next"]
  /\ UNCHANGED <<table, strong, req, inProgress, todo, sub, releaseMask, fpVars, waitVars, plan>>

NextRelease(p, w) ==
  /\ at[p] = "next"
  /\ ending[p] = "sub"
  /\ w \in work[p]
  /\ work' = [work EXCEPT ![p] = @ \ {w}]
  /\ req' = [req EXCEPT ![p] = [rel |-> w.tag[1], mode |-> w.tag[2],
                                session |-> FALSE, dontWait |-> FALSE]]
  /\ at' = [at EXCEPT ![p] = "release"]
  /\ UNCHANGED <<table, strong, local, inProgress, todo, sub, ending, releaseMask, fpVars, waitVars, plan>>

-----------------------------------------------------------------------------
(* LockReleaseAll at the end of a transaction: session locks stay at a commit. *)

drain_release_all(p, kind) ==
  LET all  == kind = "abort"
      kept == {t \in Tags : ~all /\ local[p][t].own["session"] > 0}
      gone == {t \in Tags \ kept : local[p][t] # NoLocal}
      held == {t \in gone : nLocks(local[p][t]) > 0}
      fast == {t \in held : ~local[p][t].shared}
      counted == {t \in gone : local[p][t].strong}
  IN
  /\ Ends(p, kind)
  /\ ending' = [ending EXCEPT ![p] = kind]
  /\ local' = [local EXCEPT ![p] = [t \in Tags |->
                 IF t \in kept THEN [@[t] EXCEPT !.own["xact"] = 0, !.own["sub"] = 0]
                 ELSE NoLocal]]
  /\ work' = [work EXCEPT ![p] =
                {[tag |-> t, fast |-> t \in fast, strong |-> t \in counted] :
                   t \in fast \cup counted}]
  /\ releaseMask' = [releaseMask EXCEPT ![p] = held \ fast]
  /\ at' = [at EXCEPT ![p] = "next"]
  /\ UNCHANGED <<table, strong, req, inProgress, todo, sub, fpVars, waitVars, plan>>

(* A removed entry that was a fast-path lock: the slot is cleared, or the table *)
(* has the lock by now.  The strong-lock count of the entry follows.            *)
FinishFast(p, w) ==
  LET r == w.tag[1]
      m == w.tag[2]
      slots == UnGranted(p, r, m)
  IN
  /\ at[p] = "next"
  /\ w \in work[p]
  /\ w.fast
  /\ fpLock[p] = None
  /\ fp' = [fp EXCEPT ![p] = slots]
  /\ useCount' = [useCount EXCEPT ![p] = SlotsUsed(slots)]
  /\ work' = [work EXCEPT ![p] = @ \ {w}]
  /\ IF m \in FastModes(p, r)
       THEN UNCHANGED <<at, req>>
       ELSE /\ req' = [req EXCEPT ![p] = [rel |-> r, mode |-> m,
                                          session |-> FALSE, dontWait |-> FALSE]]
            /\ at' = [at EXCEPT ![p] = "lockrefind"]
  /\ UNCHANGED <<table, fpLock, strong, local, inProgress, todo, sub, ending, releaseMask, waitVars, plan>>

LockRefindAndRelease(p) ==
  /\ at[p] = "lockrefind"
  /\ SetTable(Ungranted(p, req[p].rel, {req[p].mode}), None)
  /\ at' = [at EXCEPT ![p] = "next"]
  /\ UNCHANGED <<strong, local, req, inProgress, awaited, heldLocks, checked, todo, fpVars, callVars>>

finish_removed_lock(p, w) ==
  /\ at[p] = "next"
  /\ ending[p] \in {"commit", "abort"}
  /\ w \in work[p]
  /\ ~w.fast
  /\ strong' = strong - 1
  /\ work' = [work EXCEPT ![p] = @ \ {w}]
  /\ UNCHANGED <<table, local, at, req, inProgress, todo, sub, ending, releaseMask, fpVars, waitVars, plan>>

(* The PROCLOCKs of one partition: all of them, or those marked for release. *)
ToRelease(p, r) ==
  IF ending[p] = "abort" THEN table[r].hold[p]
  ELSE {m \in Modes : <<r, m>> \in releaseMask[p]}

Sweep(p, r) ==
  /\ at[p] = "next"
  /\ ending[p] \in {"commit", "abort"}
  /\ work[p] = {}
  /\ ToRelease(p, r) # {}
  /\ SetTable(Ungranted(p, r, ToRelease(p, r)), None)
  /\ releaseMask' = [releaseMask EXCEPT ![p] = {t \in @ : t[1] # r}]
  /\ UNCHANGED <<strong, local, at, req, inProgress, awaited, heldLocks, checked, todo, sub,
                 ending, work, fpVars, plan>>

End(p) ==
  /\ at[p] = "next"
  /\ work[p] = {}
  /\ ending[p] # "sub" => \A r \in Rels : ToRelease(p, r) = {}
  /\ ending' = [ending EXCEPT ![p] = "no"]
  /\ sub' = [sub EXCEPT ![p] = FALSE]
  /\ at' = [at EXCEPT ![p] = "idle"]
  /\ UNCHANGED <<table, strong, local, req, inProgress, todo, work, releaseMask, fpVars, waitVars, plan>>

-----------------------------------------------------------------------------
Acquiring(p) ==
  \/ \E q \in plan[p].requests : LockAcquire(p, q)
  \/ FastPathCheck(p)
  \/ FastPathGrantRelationLock(p)
  \/ StrongBegin(p)
  \/ \E q \in Procs : FastPathTransferRelationLocks(p, q)
  \/ \E q \in Procs : TransferFails(p, q)
  \/ SetupFails(p)
  \/ TableGrants(p)
  \/ TableWaits(p)
  \/ TableRefuses(p)

Waiting(p) ==
  \/ CheckDeadLock(p)
  \/ WaitEnds(p)
  \/ DeadLockReport(p)
  \/ Cancel(p)
  \/ LockErrorCleanup(p)

Releasing(p) ==
  \/ \E q \in plan[p].requests : LockRelease(p, q)
  \/ FastRelease(p)
  \/ TableRelease(p)
  \/ RemoveLocalLock(p)
  \/ StartSub(p)
  \/ CommitSub(p)
  \/ LockReleaseCurrentOwner(p)
  \/ \E w \in work[p] : NextRelease(p, w)
  \/ \E kind \in {"commit", "abort"} : drain_release_all(p, kind)
  \/ \E w \in work[p] : FinishFast(p, w)
  \/ LockRefindAndRelease(p)
  \/ \E w \in work[p] : finish_removed_lock(p, w)
  \/ \E r \in Rels : Sweep(p, r)
  \/ End(p)

Next == \E p \in Procs : Acquiring(p) \/ Waiting(p) \/ Releasing(p)

Spec == Init /\ [][Next]_vars

-----------------------------------------------------------------------------
(* The request that failed is no longer relied on while the failure is        *)
(* cleaned up: its strong-lock count may be gone before the lock is.           *)
Failed(p, t) ==
  t = Tag(req[p]) /\ at[p] \in {"error", "failed"}

(* A backend relies on a lock. *)
Relies(p, t) == nLocks(local[p][t]) > 0 /\ ~Failed(p, t)

(* Two backends never rely on conflicting locks on a relation, whichever of    *)
(* the two tables or slots their locks are in.                                *)
ClientExclusion ==
  \A p, q \in Procs : \A r \in Rels : \A m, n \in Modes :
    p # q /\ Relies(p, <<r, m>>) /\ Relies(q, <<r, n>>) => n \notin conflictTab[m]

(* The shared table adds up: counts and masks say who holds and who waits, and *)
(* the strong-lock count is the number of strong locks that are held, asked   *)
(* for or not yet discounted.                                                *)
TableExact ==
  /\ \A r \in Rels : LET lk == table[r] IN
       /\ \A m \in Modes :
            LET holders == {p \in Procs : m \in lk.hold[p]}
                waiters == {p \in Procs : Contains(lk.queue, p) /\ mode[p] = m}
            IN  /\ lk.granted[m] = Cardinality(holders)
                /\ lk.requested[m] = Cardinality(holders) + Cardinality(waiters)
                /\ (m \in lk.grantMask) <=> holders # {}
                /\ (m \in lk.waitMask) <=> waiters # {}
  /\ strong = Cardinality({pt \in Procs \X Tags : local[pt[1]][pt[2]].strong})
              + Cardinality({pt \in Procs \X Tags :
                               \E w \in work[pt[1]] : w.strong /\ w.tag = pt[2]})

(* A backend at rest owns in shared memory exactly what its local table says,   *)
(* each lock in one place: what the release paths count on when they look a    *)
(* lock up again.                                                            *)
LocalMirrors ==
  \A p \in Procs : at[p] = "idle" =>
    /\ \A r \in Rels :
         /\ table[r].hold[p] \cap FastModes(p, r) = {}
         /\ table[r].hold[p] \cup FastModes(p, r) = {m \in Modes : nLocks(local[p][<<r, m>>]) > 0}
    /\ \A r \in Rels : \A m \in Modes :
         nLocks(local[p][<<r, m>>]) > 0 /\ local[p][<<r, m>>].shared => m \in table[r].hold[p]
    /\ useCount[p] >= SlotsUsed(fp[p])

(* Nobody sleeps on a lock that could be granted: every release, cancel,      *)
(* deadlock and queue rearrangement wakes whom it should.                    *)
NoMissedGrant == \A r \in Rels : ProcLockWakeup(table[r], mode) = table[r]

(* A time-out checks a wait once, so a cycle of waiting backends always has a   *)
(* member whose check is still to come.                                      *)
CycleWillBeChecked ==
  LET orders == [r \in Rels |-> table[r].queue]
      past   == {p \in Procs : at[p] = "wait" /\ checked[p]}
  IN  \A p \in past : \A s \in Cycles(table, orders, mode, p) :
        \E i \in DOMAIN s : s[i] \notin past
=============================================================================
