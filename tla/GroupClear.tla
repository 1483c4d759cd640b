----------------------------- MODULE GroupClear -----------------------------
(***************************************************************************)
(* ProcArrayEndTransaction under contention.  A backend that cannot get    *)
(* ProcArrayLock at once pushes itself on a lock-free list; the one that   *)
(* finds the list empty leads: it takes the lock, detaches the list, ends  *)
(* every member's transaction, gives the lock back and wakes the members,  *)
(* which sleep on their semaphores.  A semaphore is shared with the other  *)
(* waits of its backend, so a stray post may be in it at any time.         *)
(*                                                                         *)
(* ProcArrayLock excludes as module RWLock says; its other users are one   *)
(* process, Other.                                                         *)
(***************************************************************************)
EXTENDS Integers, FiniteSets

CONSTANTS Procs,       \* the backends (ProcNumbers)
          MaxXid,      \* bound on the transactions of a behaviour
          MaxStray,    \* bound on the stray posts of a behaviour, to one backend
          MaxOther     \* bound on the other uses of ProcArrayLock

ASSUME GroupClearAssumption ==
    /\ Procs \subseteq Nat \ {0} /\ IsFiniteSet(Procs)
    /\ {MaxXid, MaxStray, MaxOther} \subseteq Nat

NoProc == 0
Other == -1
InvalidXid == 0

VARIABLES first,        \* procArrayGroupFirst
          next,         \* procArrayGroupNext of each PGPROC
          member,       \* procArrayGroupMember
          memberXid,    \* procArrayGroupMemberXid
          sem,          \* the semaphore of each PGPROC
          xid,          \* the xid each PGPROC shows in the array
          latestCompletedXid,
          owner,        \* who holds ProcArrayLock exclusively
          pc,           \* where each backend is
          local,        \* nextidx, wakeidx, the member being woken, extra_waits
          nextXid,      \* the next xid to hand out
          stray,        \* the stray posts each semaphore has had
          others        \* how often Other had the lock

vars == <<first, next, member, memberXid, sem, xid, latestCompletedXid, owner, pc, local,
          nextXid, stray, others>>

list == <<first, next, member, memberXid>>
array == <<xid, latestCompletedXid>>
rest == <<nextXid, stray, others>>

NoLocal == [nextidx |-> NoProc, wakeidx |-> NoProc, wakee |-> NoProc, extra_waits |-> 0]

Init ==
    /\ first = NoProc
    /\ next = [p \in Procs |-> NoProc]
    /\ member = [p \in Procs |-> FALSE]
    /\ memberXid = [p \in Procs |-> InvalidXid]
    /\ sem = [p \in Procs |-> 0]
    /\ xid = [p \in Procs |-> InvalidXid]
    /\ latestCompletedXid = 0
    /\ owner = NoProc
    /\ pc = [p \in Procs |-> "idle"]
    /\ local = [p \in Procs |-> NoLocal]
    /\ nextXid = 1
    /\ stray = [p \in Procs |-> 0]
    /\ others = 0

Goto(p, where) == pc' = [pc EXCEPT ![p] = where]

-----------------------------------------------------------------------------
\* What happens around: a transaction gets its xid, somebody else uses the lock,
\* and a wait of another kind leaves a post behind.

GetNewTransactionId(p) ==
    /\ pc[p] = "idle"
    /\ nextXid <= MaxXid
    /\ xid' = [xid EXCEPT ![p] = nextXid]
    /\ nextXid' = nextXid + 1
    /\ Goto(p, "run")
    /\ UNCHANGED <<list, sem, latestCompletedXid, owner, local, stray, others>>

OtherLock ==
    /\ owner = NoProc
    /\ others < MaxOther
    /\ owner' = Other
    /\ others' = others + 1
    /\ UNCHANGED <<list, sem, array, pc, local, nextXid, stray>>

OtherUnlock ==
    /\ owner = Other
    /\ owner' = NoProc
    /\ UNCHANGED <<list, sem, array, pc, local, rest>>

StrayPost(p) ==
    /\ \A q \in Procs : stray[q] = 0 \/ q = p
    /\ stray[p] < MaxStray
    /\ sem' = [sem EXCEPT ![p] = @ + 1]
    /\ stray' = [stray EXCEPT ![p] = @ + 1]
    /\ UNCHANGED <<list, array, owner, pc, local, nextXid, others>>

-----------------------------------------------------------------------------
\* The two ways to end.

\* ProcArrayEndTransactionInternal of member q.
EndTransactionInternal(q, latestXid) ==
    /\ xid' = [xid EXCEPT ![q] = InvalidXid]
    /\ latestCompletedXid' = IF latestCompletedXid < latestXid THEN latestXid
                             ELSE latestCompletedXid

\* ProcArrayEndTransaction: the lock at once,
EndAlone(p) ==
    /\ pc[p] = "run"
    /\ owner = NoProc
    /\ owner' = p
    /\ Goto(p, "alone")
    /\ UNCHANGED <<list, sem, array, local, rest>>

EndAloneClear(p) ==
    /\ pc[p] = "alone"
    /\ EndTransactionInternal(p, xid[p])
    /\ owner' = NoProc
    /\ Goto(p, "idle")
    /\ UNCHANGED <<list, sem, local, rest>>

\* or the group.
GroupEnter(p) ==
    /\ pc[p] = "run"
    /\ owner # NoProc
    /\ member' = [member EXCEPT ![p] = TRUE]
    /\ memberXid' = [memberXid EXCEPT ![p] = xid[p]]
    /\ local' = [local EXCEPT ![p] = [NoLocal EXCEPT !.nextidx = first]]
    /\ Goto(p, "link")
    /\ UNCHANGED <<first, next, sem, array, owner, rest>>

GroupLink(p) ==
    /\ pc[p] = "link"
    /\ next' = [next EXCEPT ![p] = local[p].nextidx]
    /\ Goto(p, "cas")
    /\ UNCHANGED <<first, member, memberXid, sem, array, owner, local, rest>>

\* Mutant: the retry keeps the head it compared before.
GroupRetryStale(p) ==
    /\ pc[p] = "cas"
    /\ IF first = local[p].nextidx
       THEN /\ first' = p
            /\ Goto(p, IF local[p].nextidx = NoProc THEN "lead" ELSE "sleep")
       ELSE /\ Goto(p, "link")
            /\ UNCHANGED first
    /\ UNCHANGED <<next, member, memberXid, sem, array, owner, local, rest>>

\* The compare-exchange of the list head: whoever finds the list empty leads.
GroupCas(p) ==
    /\ pc[p] = "cas"
    /\ IF first = local[p].nextidx
       THEN /\ first' = p
            /\ Goto(p, IF local[p].nextidx = NoProc THEN "lead" ELSE "sleep")
            /\ UNCHANGED local
       ELSE /\ local' = [local EXCEPT ![p].nextidx = first]
            /\ Goto(p, "link")
            /\ UNCHANGED first
    /\ UNCHANGED <<next, member, memberXid, sem, array, owner, rest>>

-----------------------------------------------------------------------------
\* A follower sleeps until it is no member any more, and gives back the posts
\* that were meant for other waits.

FollowerSleep(p) ==
    /\ pc[p] = "sleep"
    /\ sem[p] > 0
    /\ sem' = [sem EXCEPT ![p] = @ - 1]
    /\ Goto(p, "check")
    /\ UNCHANGED <<list, array, owner, local, rest>>

FollowerCheck(p) ==
    /\ pc[p] = "check"
    /\ IF member[p]
       THEN /\ local' = [local EXCEPT ![p].extra_waits = @ + 1]
            /\ Goto(p, "sleep")
       ELSE Goto(p, "repay") /\ UNCHANGED local
    /\ UNCHANGED <<list, sem, array, owner, rest>>

\* Mutant: the extra posts are kept.
FollowerKeeps(p) ==
    /\ pc[p] = "repay"
    /\ local' = [local EXCEPT ![p] = NoLocal]
    /\ Goto(p, "idle")
    /\ UNCHANGED <<list, sem, array, owner, rest>>

FollowerRepay(p) ==
    /\ pc[p] = "repay"
    /\ IF local[p].extra_waits > 0
       THEN /\ sem' = [sem EXCEPT ![p] = @ + 1]
            /\ local' = [local EXCEPT ![p].extra_waits = @ - 1]
            /\ UNCHANGED pc
       ELSE /\ local' = [local EXCEPT ![p] = NoLocal]
            /\ Goto(p, "idle")
            /\ UNCHANGED sem
    /\ UNCHANGED <<list, array, owner, rest>>

-----------------------------------------------------------------------------
\* The leader.

LeaderLock(p) ==
    /\ pc[p] = "lead"
    /\ owner = NoProc
    /\ owner' = p
    /\ Goto(p, "detach")
    /\ UNCHANGED <<list, sem, array, local, rest>>

\* The whole list at once.
LeaderDetach(p) ==
    /\ pc[p] = "detach"
    /\ local' = [local EXCEPT ![p].nextidx = first, ![p].wakeidx = first]
    /\ first' = NoProc
    /\ Goto(p, "clear")
    /\ UNCHANGED <<next, member, memberXid, sem, array, owner, rest>>

LeaderClear(p) ==
    LET q == local[p].nextidx
    IN  /\ pc[p] = "clear"
        /\ q # NoProc
        /\ EndTransactionInternal(q, memberXid[q])
        /\ local' = [local EXCEPT ![p].nextidx = next[q]]
        /\ UNCHANGED <<list, sem, owner, pc, rest>>

LeaderUnlock(p) ==
    /\ pc[p] = "clear"
    /\ local[p].nextidx = NoProc
    /\ owner' = NoProc
    /\ Goto(p, "wake")
    /\ UNCHANGED <<list, sem, array, local, rest>>

\* Mutant: the flag goes before the link is read.
LeaderWakeEarly(p) ==
    LET q == local[p].wakeidx
    IN  /\ pc[p] = "wake"
        /\ IF member[q]
           THEN /\ member' = [member EXCEPT ![q] = FALSE]
                /\ sem' = IF q = p THEN sem ELSE [sem EXCEPT ![q] = @ + 1]
                /\ UNCHANGED <<next, local, pc>>
           ELSE /\ local' = [local EXCEPT ![p].wakeidx = next[q]]
                /\ next' = [next EXCEPT ![q] = NoProc]
                /\ Goto(p, IF next[q] = NoProc THEN "idle" ELSE "wake")
                /\ UNCHANGED <<member, sem>>
        /\ UNCHANGED <<first, memberXid, array, owner, rest>>

\* The next member's link is read and cleared while it still sleeps,
LeaderWakeLink(p) ==
    LET q == local[p].wakeidx
    IN  /\ pc[p] = "wake"
        /\ local' = [local EXCEPT ![p].wakeidx = next[q], ![p].wakee = q]
        /\ next' = [next EXCEPT ![q] = NoProc]
        /\ Goto(p, "wakeFlag")
        /\ UNCHANGED <<first, member, memberXid, sem, array, owner, rest>>

\* then its flag,
LeaderWakeFlag(p) ==
    /\ pc[p] = "wakeFlag"
    /\ member' = [member EXCEPT ![local[p].wakee] = FALSE]
    /\ Goto(p, "wakePost")
    /\ UNCHANGED <<first, next, memberXid, sem, array, owner, local, rest>>

\* then its semaphore, but for the leader's own.
LeaderWakePost(p) ==
    LET q == local[p].wakee
        last == local[p].wakeidx = NoProc
    IN  /\ pc[p] = "wakePost"
        /\ sem' = IF q = p THEN sem ELSE [sem EXCEPT ![q] = @ + 1]
        /\ local' = [local EXCEPT ![p] = IF last THEN NoLocal ELSE [@ EXCEPT !.wakee = NoProc]]
        /\ Goto(p, IF last THEN "idle" ELSE "wake")
        /\ UNCHANGED <<list, array, owner, rest>>

Step(p) ==
    \/ EndAlone(p) \/ EndAloneClear(p)
    \/ GroupEnter(p) \/ GroupLink(p) \/ GroupCas(p)
    \/ FollowerSleep(p) \/ FollowerCheck(p) \/ FollowerRepay(p)
    \/ LeaderLock(p) \/ LeaderDetach(p) \/ LeaderClear(p) \/ LeaderUnlock(p)
    \/ LeaderWakeLink(p) \/ LeaderWakeFlag(p) \/ LeaderWakePost(p)

\* Everybody is done and the bound on transactions is reached.
Finished ==
    /\ nextXid > MaxXid
    /\ \A p \in Procs : pc[p] = "idle"
    /\ UNCHANGED vars

Next ==
    \/ \E p \in Procs : GetNewTransactionId(p) \/ StrayPost(p) \/ Step(p)
    \/ OtherLock \/ OtherUnlock
    \/ Finished

Spec == Init /\ [][Next]_vars

\* A backend inside the call keeps running, and Other gives the lock back.
FairSpec == Spec /\ (\A p \in Procs : WF_vars(Step(p))) /\ WF_vars(OtherUnlock)

-----------------------------------------------------------------------------
\* Properties.

\* Whoever returns has left the array, its xid counts as completed, and its link
\* is clear for the next group (the assertion of ProcArrayGroupClearXid).
EndedAtReturn ==
    \A p \in Procs : pc[p] \in {"idle", "repay"} =>
        /\ xid[p] = InvalidXid
        /\ memberXid[p] <= latestCompletedXid
        /\ next[p] = NoProc

\* The posts another wait may be owed stay in the semaphore: a follower takes one
\* post net for its own wakeup, also when it left before that post came.
SemaphoreConserved ==
    \A p \in Procs :
        LET inHand == IF pc[p] = "check" THEN 1 ELSE 0
            owed == Cardinality({l \in Procs \ {p} : pc[l] = "wakePost" /\ local[l].wakee = p})
            awaited == IF pc[p] \in {"sleep", "check"} /\ ~member[p] THEN 1 ELSE 0
        IN  sem[p] + local[p].extra_waits + inHand + owed = stray[p] + awaited

\* Everyone who ends a transaction returns.
EndReturns == \A p \in Procs : pc[p] = "run" ~> pc[p] = "idle"
=============================================================================
