------------------------------ MODULE MCLWLock ------------------------------
(* Instances of LWLock for TLC. *)
EXTENDS LWLock, TLC

CONSTANTS p1, p2, p3

Symmetry == Permutations(Procs)

\* The semaphore of each backend has a post that is not for a lock.
StrayPosts == {[p \in Procs |-> 1]}
=============================================================================
