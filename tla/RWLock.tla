------------------------------- MODULE RWLock -------------------------------
(***************************************************************************)
(* What an LWLock promises its callers: each lock is held by any number of *)
(* shared holders or by one exclusive holder, a request is granted only    *)
(* when it is compatible with the present holders, and only a holder gives *)
(* a hold back.  No queue, no wait flags, no transient counts: LWLock.tla  *)
(* is the implementation, and shows that it implements this.               *)
(***************************************************************************)
CONSTANTS Procs,   \* the backends
          Locks    \* the locks

VARIABLE holder    \* holder[l][p]: the mode in which p holds l, or "none"

Modes == {"LW_EXCLUSIVE", "LW_SHARED"}

RWInit == holder = [l \in Locks |-> [p \in Procs |-> "none"]]

\* A request of p in mode m conflicts with no other holder of l.
Compatible(l, p, m) ==
  \A q \in Procs \ {p} :
    \/ holder[l][q] = "none"
    \/ m = "LW_SHARED" /\ holder[l][q] = "LW_SHARED"

Acquire(l, p, m) ==
  /\ holder[l][p] = "none"
  /\ Compatible(l, p, m)
  /\ holder' = [holder EXCEPT ![l][p] = m]

Release(l, p) ==
  /\ holder[l][p] # "none"
  /\ holder' = [holder EXCEPT ![l][p] = "none"]

\* After a crash every holder is gone at once.
Reset == holder' = [l \in Locks |-> [p \in Procs |-> "none"]]

RWNext ==
  /\ holder' # holder
  /\ \/ \E l \in Locks, p \in Procs, m \in Modes : Acquire(l, p, m)
     \/ \E l \in Locks, p \in Procs : Release(l, p)
     \/ Reset

RWSpec == RWInit /\ [][RWNext]_holder
=============================================================================
