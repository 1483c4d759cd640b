----------------------------- MODULE MCLockMgr ------------------------------
EXTENDS LockMgr, TLC

CONSTANTS r1, r2

Request(r, m) == [rel |-> r, mode |-> m, session |-> FALSE, dontWait |-> FALSE]
Idle == [requests |-> {}, sub |-> FALSE, full |-> FALSE, max |-> 2]

(* Two readers and a writer of r1, and r2 to close a cycle through the queue. *)
SoftCycle ==
  1 :> [requests |-> {Request(r1, 1), Request(r2, 8)}, sub |-> FALSE, full |-> FALSE, max |-> 1] @@
  2 :> [requests |-> {Request(r1, 8)}, sub |-> FALSE, full |-> FALSE, max |-> 1] @@
  3 :> [requests |-> {Request(r2, 8), Request(r1, 1)}, sub |-> FALSE, full |-> FALSE, max |-> 1]

(* A subtransaction of a backend that upgrades, with a table that is full. *)
SubUpgrade ==
  1 :> [requests |-> {Request(r1, 1), Request(r1, 8)}, sub |-> TRUE, full |-> TRUE, max |-> 2] @@
  2 :> [requests |-> {Request(r1, 1), Request(r1, 8)}, sub |-> FALSE, full |-> TRUE, max |-> 2] @@
  3 :> Idle

(* Session locks and more relations than slots against a strong lock that does *)
(* not wait.                                                                *)
Session ==
  1 :> [requests |-> {Request(r1, 1), [Request(r1, 1) EXCEPT !.session = TRUE], Request(r2, 1)},
        sub |-> FALSE, full |-> FALSE, max |-> 2] @@
  2 :> [requests |-> {[Request(r1, 8) EXCEPT !.dontWait = TRUE], Request(r2, 8)},
        sub |-> FALSE, full |-> FALSE, max |-> 2] @@
  3 :> Idle

AllPlans == {SoftCycle, SubUpgrade, Session}

(* What no step reads is left out of the state. *)
View == <<table, fp, useCount, fpLock, strong, local, sub, at,
          [p \in Procs |-> IF at[p] \in {"idle", "next"} THEN None ELSE req[p]],
          inProgress, awaited,
          [p \in Procs |-> IF awaited[p] \/ at[p] = "wait" THEN waitStatus[p] ELSE "OK"],
          heldLocks, checked, todo, ending, work, releaseMask, plan>>
=============================================================================
