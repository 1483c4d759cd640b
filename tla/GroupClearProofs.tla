-------------------------- MODULE GroupClearProofs --------------------------
(***************************************************************************)
(* EndedAtReturn and SemaphoreConserved of GroupClear, for any number of   *)
(* backends, transactions and stray posts.                                 *)
(***************************************************************************)
EXTENDS GroupClear, FiniteSetTheorems, TLAPS

(***************************************************************************)
(* The inductive invariant.  The links of the list are followed by two     *)
(* ghost functions: g says in which list a backend is (none, the shared    *)
(* one, or the one a leader has detached), r how far it is from the end.   *)
(***************************************************************************)

Pending == -1
Batches == Procs \cup {NoProc, Pending}
Places  == {"idle", "run", "alone", "link", "cas", "sleep", "check", "repay", "lead", "detach",
            "clear", "wake", "wakeFlag", "wakePost"}
Leading == {"clear", "wake", "wakeFlag", "wakePost"}
Asleep  == {"sleep", "check"}
Locals  == [nextidx : Procs \cup {NoProc}, wakeidx : Procs \cup {NoProc},
            wakee : Procs \cup {NoProc}, extra_waits : Nat]

TypeOK ==
  /\ first \in Procs \cup {NoProc}
  /\ next \in [Procs -> Procs \cup {NoProc}]
  /\ member \in [Procs -> BOOLEAN]
  /\ memberXid \in [Procs -> Nat]
  /\ sem \in [Procs -> Nat]
  /\ xid \in [Procs -> Nat]
  /\ latestCompletedXid \in Nat
  /\ pc \in [Procs -> Places]
  /\ local \in [Procs -> Locals]
  /\ nextXid \in Nat
  /\ stray \in [Procs -> Nat]

\* The transaction is out of the array and counts as completed.
Done(q) == xid[q] = InvalidXid /\ memberXid[q] <= latestCompletedXid

\* A link leads one step closer to the end, within the same list.
ChainOK(g, r) ==
  \A q \in Procs : g[q] # NoProc =>
    /\ r[q] = 0 => next[q] = NoProc
    /\ r[q] # 0 => next[q] \in Procs /\ g[next[q]] = g[q] /\ r[next[q]] = r[q] - 1
    /\ \A s \in Procs : g[s] = g[q] /\ r[s] = r[q] => s = q

\* The head of a list is its member furthest from the end; a list that a leader has
\* taken to its end has no member.
HeadsOK(g, r) ==
  /\ first # NoProc => g[first] = Pending
  /\ \A q \in Procs : g[q] = Pending => first # NoProc /\ r[q] <= r[first]
  /\ \A l \in Procs : pc[l] \in Leading /\ local[l].wakeidx # NoProc => g[local[l].wakeidx] = l
  /\ \A q \in Procs : g[q] \in Procs =>
       /\ pc[g[q]] \in Leading
       /\ local[g[q]].wakeidx # NoProc
       /\ r[q] <= r[local[g[q]].wakeidx]

\* The last of a list leads it, the others sleep.
RolesOK(g, r) ==
  \A q \in Procs :
    /\ g[q] # NoProc => member[q]
    /\ g[q] = Pending => pc[q] \in (IF r[q] = 0 THEN {"lead", "detach"} ELSE Asleep)
    /\ g[q] \in Procs => IF r[q] = 0 THEN g[q] = q ELSE pc[q] \in Asleep
    /\ pc[q] \in {"lead", "detach"} => g[q] = Pending
    /\ pc[q] \in {"clear", "wake"} => g[q] = q
    /\ pc[q] \in {"wakeFlag", "wakePost"} =>
         IF local[q].wakeidx = NoProc THEN local[q].wakee = q ELSE g[q] = q /\ local[q].wakee # q
    /\ pc[q] \in {"link", "cas"} => member[q]
    /\ pc[q] = "cas" => next[q] = local[q].nextidx
    /\ local[q].extra_waits # 0 => pc[q] \in Asleep \cup {"repay"}

\* A leader has ended the members it has passed, and all of them when it wakes.
ClearedOK(g, r) ==
  /\ \A l \in Procs : pc[l] = "clear" /\ local[l].nextidx # NoProc => g[local[l].nextidx] = l
  /\ \A q \in Procs :
       /\ g[q] \in Procs
       /\ pc[g[q]] = "clear" /\ local[g[q]].nextidx # NoProc => r[q] > r[local[g[q]].nextidx]
       => Done(q)

\* The member being woken is out of the list and belongs to one leader until its flag
\* is down; from then on it may be anywhere, unless it is the leader itself.
WakeeOK(g) ==
  /\ \A l \in Procs : pc[l] \in {"wakeFlag", "wakePost"} => local[l].wakee \in Procs
  /\ \A l \in Procs : \A q \in Procs : pc[l] = "wakeFlag" /\ local[l].wakee = q =>
       /\ g[q] = NoProc /\ member[q] /\ Done(q) /\ next[q] = NoProc
       /\ q = l \/ pc[q] \in Asleep
       /\ \A m \in Procs : pc[m] = "wakeFlag" /\ local[m].wakee = q => m = l
  /\ \A l \in Procs : pc[l] = "wakePost" /\ local[l].wakee = l => Done(l) /\ next[l] = NoProc

\* Whoever has left, or may leave as soon as it gets a post.
EndedOK ==
  \A q \in Procs :
    /\ \/ pc[q] \in {"idle", "repay"}
       \/ pc[q] \in Asleep /\ ~member[q]
       => Done(q) /\ next[q] = NoProc
    /\ pc[q] \in {"run", "alone"} => memberXid[q] <= latestCompletedXid /\ next[q] = NoProc

Shape(g, r) ==
  ChainOK(g, r) /\ HeadsOK(g, r) /\ RolesOK(g, r) /\ ClearedOK(g, r) /\ WakeeOK(g) /\ EndedOK

IInv == TypeOK /\ SemaphoreConserved /\ \E g \in [Procs -> Batches], r \in [Procs -> Nat] : Shape(g, r)

\* Backends are positive numbers, and neither no backend nor the mark of a pending entry is
\* one.
LEMMA Numbers == Procs \subseteq Nat \ {0} /\ NoProc \notin Procs /\ Pending \notin Procs /\ Pending # NoProc
  BY GroupClearAssumption DEF NoProc, Pending

-----------------------------------------------------------------------------

\* Whoever is not on a list, and not leading, is in none.
LEMMA Pointers ==
  ASSUME TypeOK
  PROVE  \A q \in Procs : /\ next[q] \in Procs \cup {NoProc}
                          /\ local[q].nextidx \in Procs \cup {NoProc}
                          /\ local[q].wakeidx \in Procs \cup {NoProc}
                          /\ local[q].wakee \in Procs \cup {NoProc}
                          /\ local[q].extra_waits \in Nat
  BY DEF TypeOK, Locals

\* A backend that is not in the group's code, or not linked yet, belongs to no batch.
LEMMA Outside ==
  ASSUME TypeOK, NEW g \in [Procs -> Batches], NEW r \in [Procs -> Nat],
         HeadsOK(g, r), RolesOK(g, r), NEW q \in Procs,
         pc[q] \in {"idle", "run", "alone", "link", "cas", "repay"}
  PROVE  g[q] = NoProc
<1>1. g[q] # Pending
  BY DEF RolesOK, Asleep
<1>2. g[q] \notin Procs
  BY DEF RolesOK, HeadsOK, Asleep, Leading
<1> QED BY <1>1, <1>2 DEF Batches

\* A step of somebody who is not being woken, and wakes nobody, leaves WakeeOK.
LEMMA WakeeFrame ==
  ASSUME NEW g, NEW h, WakeeOK(g), NEW p \in Procs,
         \A l \in Procs : pc'[l] \in {"wakeFlag", "wakePost"} =>
           l # p /\ pc'[l] = pc[l] /\ local'[l] = local[l],
         \A l \in Procs : pc[l] = "wakeFlag" => local[l].wakee # p,
         \A q \in Procs : q # p => pc'[q] = pc[q] /\ (g[q] = NoProc => h[q] = NoProc),
         \A q \in Procs : Done(q) => Done(q)',
         UNCHANGED <<next, member>>
  PROVE  WakeeOK(h)'
<1>1. ASSUME NEW l \in Procs, NEW w \in Procs, pc'[l] = "wakeFlag", local'[l].wakee = w
      PROVE  /\ h[w] = NoProc /\ member'[w] /\ Done(w)' /\ next'[w] = NoProc
             /\ w = l \/ pc'[w] \in Asleep
             /\ \A m \in Procs : pc'[m] = "wakeFlag" /\ local'[m].wakee = w => m = l
  <2>1. pc[l] = "wakeFlag" /\ local[l].wakee = w
    BY <1>1
  <2>3. /\ g[w] = NoProc /\ member[w] /\ Done(w) /\ next[w] = NoProc
        /\ w = l \/ pc[w] \in Asleep
        /\ \A m \in Procs : pc[m] = "wakeFlag" /\ local[m].wakee = w => m = l
    BY <2>1 DEF WakeeOK
  <2>4. w # p
    BY <2>1
  <2>5. \A m \in Procs : pc'[m] = "wakeFlag" /\ local'[m].wakee = w => m = l
    BY <2>3
  <2>6. h[w] = NoProc /\ member'[w] /\ Done(w)' /\ next'[w] = NoProc /\ (w = l \/ pc'[w] \in Asleep)
    BY <2>3, <2>4
  <2> QED BY <2>5, <2>6
<1>2. \A l \in Procs : pc'[l] = "wakePost" /\ local'[l].wakee = l => Done(l)' /\ next'[l] = NoProc
  BY DEF WakeeOK
<1>3. \A l \in Procs : pc'[l] \in {"wakeFlag", "wakePost"} => local'[l].wakee \in Procs
  BY DEF WakeeOK
<1> QED BY <1>1, <1>2, <1>3 DEF WakeeOK

(***************************************************************************)
(* One lemma per action.  Most leave the lists as they are; GroupCas,      *)
(* LeaderDetach and LeaderWakeLink, at the end, change the ghosts.         *)
(***************************************************************************)
LEMMA GetNewTransactionIdStep ==
  ASSUME TypeOK, NEW g \in [Procs -> Batches], NEW r \in [Procs -> Nat], Shape(g, r), NEW p \in Procs, GetNewTransactionId(p)
  PROVE  TypeOK' /\ Shape(g, r)'
<1> USE Numbers
<1>0. ChainOK(g, r) /\ HeadsOK(g, r) /\ RolesOK(g, r) /\ ClearedOK(g, r) /\ WakeeOK(g) /\ EndedOK
  BY DEF Shape
<1>1. TypeOK'
  BY DEF TypeOK, Places, Locals, GetNewTransactionId, list, array, rest, Goto, EndTransactionInternal, NoLocal, InvalidXid
<1>2. ChainOK(g, r)'
  BY <1>0 DEF TypeOK, ChainOK, RolesOK, GetNewTransactionId, list, array, rest, Goto, EndTransactionInternal, NoLocal, InvalidXid
<1>3. HeadsOK(g, r)'
  BY <1>0 DEF TypeOK, HeadsOK, RolesOK, Leading, Asleep, Locals, GetNewTransactionId, list, array, rest, Goto, EndTransactionInternal, NoLocal, InvalidXid
<1>4. RolesOK(g, r)'
  BY <1>0 DEF TypeOK, RolesOK, HeadsOK, Leading, Asleep, Locals, GetNewTransactionId, list, array, rest, Goto, EndTransactionInternal, NoLocal, InvalidXid
<1>5. ClearedOK(g, r)'
  BY <1>0 DEF TypeOK, ClearedOK, HeadsOK, RolesOK, Done, Leading, Asleep, Locals, Places, GetNewTransactionId, list, array, rest, Goto, EndTransactionInternal, NoLocal, InvalidXid
<1>6. WakeeOK(g)'
  BY <1>0 DEF TypeOK, WakeeOK, RolesOK, Done, Leading, Asleep, Locals, GetNewTransactionId, list, array, rest, Goto, EndTransactionInternal, NoLocal, InvalidXid
<1>7. EndedOK'
  BY <1>0 DEF TypeOK, EndedOK, WakeeOK, RolesOK, Done, Asleep, Leading, Locals, GetNewTransactionId, list, array, rest, Goto, EndTransactionInternal, NoLocal, InvalidXid
<1> QED BY <1>1, <1>2, <1>3, <1>4, <1>5, <1>6, <1>7 DEF Shape

\* OtherLock keeps the shape of the batches, with the same ghosts.
LEMMA OtherLockStep ==
  ASSUME TypeOK, NEW g \in [Procs -> Batches], NEW r \in [Procs -> Nat], Shape(g, r), OtherLock
  PROVE  TypeOK' /\ Shape(g, r)'
<1> USE Numbers
<1>0. ChainOK(g, r) /\ HeadsOK(g, r) /\ RolesOK(g, r) /\ ClearedOK(g, r) /\ WakeeOK(g) /\ EndedOK
  BY DEF Shape
<1>1. TypeOK'
  BY DEF TypeOK, Places, Locals, OtherLock, list, array, rest, Goto, EndTransactionInternal, NoLocal, InvalidXid
<1>2. ChainOK(g, r)'
  BY <1>0 DEF TypeOK, ChainOK, RolesOK, OtherLock, list, array, rest, Goto, EndTransactionInternal, NoLocal, InvalidXid
<1>3. HeadsOK(g, r)'
  BY <1>0 DEF TypeOK, HeadsOK, RolesOK, Leading, Asleep, Locals, OtherLock, list, array, rest, Goto, EndTransactionInternal, NoLocal, InvalidXid
<1>4. RolesOK(g, r)'
  BY <1>0 DEF TypeOK, RolesOK, HeadsOK, Leading, Asleep, Locals, OtherLock, list, array, rest, Goto, EndTransactionInternal, NoLocal, InvalidXid
<1>5. ClearedOK(g, r)'
  BY <1>0 DEF TypeOK, ClearedOK, HeadsOK, RolesOK, Done, Leading, Asleep, Locals, Places, OtherLock, list, array, rest, Goto, EndTransactionInternal, NoLocal, InvalidXid
<1>6. WakeeOK(g)'
  BY <1>0 DEF TypeOK, WakeeOK, RolesOK, Done, Leading, Asleep, Locals, OtherLock, list, array, rest, Goto, EndTransactionInternal, NoLocal, InvalidXid
<1>7. EndedOK'
  BY <1>0 DEF TypeOK, EndedOK, WakeeOK, RolesOK, Done, Asleep, Leading, Locals, OtherLock, list, array, rest, Goto, EndTransactionInternal, NoLocal, InvalidXid
<1> QED BY <1>1, <1>2, <1>3, <1>4, <1>5, <1>6, <1>7 DEF Shape

\* OtherUnlock keeps the shape of the batches, with the same ghosts.
LEMMA OtherUnlockStep ==
  ASSUME TypeOK, NEW g \in [Procs -> Batches], NEW r \in [Procs -> Nat], Shape(g, r), OtherUnlock
  PROVE  TypeOK' /\ Shape(g, r)'
<1> USE Numbers
<1>0. ChainOK(g, r) /\ HeadsOK(g, r) /\ RolesOK(g, r) /\ ClearedOK(g, r) /\ WakeeOK(g) /\ EndedOK
  BY DEF Shape
<1>1. TypeOK'
  BY DEF TypeOK, Places, Locals, OtherUnlock, list, array, rest, Goto, EndTransactionInternal, NoLocal, InvalidXid
<1>2. ChainOK(g, r)'
  BY <1>0 DEF TypeOK, ChainOK, RolesOK, OtherUnlock, list, array, rest, Goto, EndTransactionInternal, NoLocal, InvalidXid
<1>3. HeadsOK(g, r)'
  BY <1>0 DEF TypeOK, HeadsOK, RolesOK, Leading, Asleep, Locals, OtherUnlock, list, array, rest, Goto, EndTransactionInternal, NoLocal, InvalidXid
<1>4. RolesOK(g, r)'
  BY <1>0 DEF TypeOK, RolesOK, HeadsOK, Leading, Asleep, Locals, OtherUnlock, list, array, rest, Goto, EndTransactionInternal, NoLocal, InvalidXid
<1>5. ClearedOK(g, r)'
  BY <1>0 DEF TypeOK, ClearedOK, HeadsOK, RolesOK, Done, Leading, Asleep, Locals, Places, OtherUnlock, list, array, rest, Goto, EndTransactionInternal, NoLocal, InvalidXid
<1>6. WakeeOK(g)'
  BY <1>0 DEF TypeOK, WakeeOK, RolesOK, Done, Leading, Asleep, Locals, OtherUnlock, list, array, rest, Goto, EndTransactionInternal, NoLocal, InvalidXid
<1>7. EndedOK'
  BY <1>0 DEF TypeOK, EndedOK, WakeeOK, RolesOK, Done, Asleep, Leading, Locals, OtherUnlock, list, array, rest, Goto, EndTransactionInternal, NoLocal, InvalidXid
<1> QED BY <1>1, <1>2, <1>3, <1>4, <1>5, <1>6, <1>7 DEF Shape

\* StrayPost keeps the shape of the batches, with the same ghosts.
LEMMA StrayPostStep ==
  ASSUME TypeOK, NEW g \in [Procs -> Batches], NEW r \in [Procs -> Nat], Shape(g, r), NEW p \in Procs, StrayPost(p)
  PROVE  TypeOK' /\ Shape(g, r)'
<1> USE Numbers
<1>0. ChainOK(g, r) /\ HeadsOK(g, r) /\ RolesOK(g, r) /\ ClearedOK(g, r) /\ WakeeOK(g) /\ EndedOK
  BY DEF Shape
<1>1. TypeOK'
  BY DEF TypeOK, Places, Locals, StrayPost, list, array, rest, Goto, EndTransactionInternal, NoLocal, InvalidXid
<1>2. ChainOK(g, r)'
  BY <1>0 DEF TypeOK, ChainOK, RolesOK, StrayPost, list, array, rest, Goto, EndTransactionInternal, NoLocal, InvalidXid
<1>3. HeadsOK(g, r)'
  BY <1>0 DEF TypeOK, HeadsOK, RolesOK, Leading, Asleep, Locals, StrayPost, list, array, rest, Goto, EndTransactionInternal, NoLocal, InvalidXid
<1>4. RolesOK(g, r)'
  BY <1>0 DEF TypeOK, RolesOK, HeadsOK, Leading, Asleep, Locals, StrayPost, list, array, rest, Goto, EndTransactionInternal, NoLocal, InvalidXid
<1>5. ClearedOK(g, r)'
  BY <1>0 DEF TypeOK, ClearedOK, HeadsOK, RolesOK, Done, Leading, Asleep, Locals, Places, StrayPost, list, array, rest, Goto, EndTransactionInternal, NoLocal, InvalidXid
<1>6. WakeeOK(g)'
  BY <1>0 DEF TypeOK, WakeeOK, RolesOK, Done, Leading, Asleep, Locals, StrayPost, list, array, rest, Goto, EndTransactionInternal, NoLocal, InvalidXid
<1>7. EndedOK'
  BY <1>0 DEF TypeOK, EndedOK, WakeeOK, RolesOK, Done, Asleep, Leading, Locals, StrayPost, list, array, rest, Goto, EndTransactionInternal, NoLocal, InvalidXid
<1> QED BY <1>1, <1>2, <1>3, <1>4, <1>5, <1>6, <1>7 DEF Shape

\* EndAlone keeps the shape of the batches, with the same ghosts.
LEMMA EndAloneStep ==
  ASSUME TypeOK, NEW g \in [Procs -> Batches], NEW r \in [Procs -> Nat], Shape(g, r), NEW p \in Procs, EndAlone(p)
  PROVE  TypeOK' /\ Shape(g, r)'
<1> USE Numbers
<1>0. ChainOK(g, r) /\ HeadsOK(g, r) /\ RolesOK(g, r) /\ ClearedOK(g, r) /\ WakeeOK(g) /\ EndedOK
  BY DEF Shape
<1>1. TypeOK'
  BY DEF TypeOK, Places, Locals, EndAlone, list, array, rest, Goto, EndTransactionInternal, NoLocal, InvalidXid
<1>2. ChainOK(g, r)'
  BY <1>0 DEF TypeOK, ChainOK, RolesOK, EndAlone, list, array, rest, Goto, EndTransactionInternal, NoLocal, InvalidXid
<1>3. HeadsOK(g, r)'
  BY <1>0 DEF TypeOK, HeadsOK, RolesOK, Leading, Asleep, Locals, EndAlone, list, array, rest, Goto, EndTransactionInternal, NoLocal, InvalidXid
<1>4. RolesOK(g, r)'
  BY <1>0 DEF TypeOK, RolesOK, HeadsOK, Leading, Asleep, Locals, EndAlone, list, array, rest, Goto, EndTransactionInternal, NoLocal, InvalidXid
<1>5. ClearedOK(g, r)'
  BY <1>0 DEF TypeOK, ClearedOK, HeadsOK, RolesOK, Done, Leading, Asleep, Locals, Places, EndAlone, list, array, rest, Goto, EndTransactionInternal, NoLocal, InvalidXid
<1>6. WakeeOK(g)'
  BY <1>0 DEF TypeOK, WakeeOK, RolesOK, Done, Leading, Asleep, Locals, EndAlone, list, array, rest, Goto, EndTransactionInternal, NoLocal, InvalidXid
<1>7. EndedOK'
  BY <1>0 DEF TypeOK, EndedOK, WakeeOK, RolesOK, Done, Asleep, Leading, Locals, EndAlone, list, array, rest, Goto, EndTransactionInternal, NoLocal, InvalidXid
<1> QED BY <1>1, <1>2, <1>3, <1>4, <1>5, <1>6, <1>7 DEF Shape

\* EndAloneClear keeps the shape of the batches, with the same ghosts.
LEMMA EndAloneClearStep ==
  ASSUME TypeOK, NEW g \in [Procs -> Batches], NEW r \in [Procs -> Nat], Shape(g, r), NEW p \in Procs, EndAloneClear(p)
  PROVE  TypeOK' /\ Shape(g, r)'
<1> USE Numbers
<1>0. ChainOK(g, r) /\ HeadsOK(g, r) /\ RolesOK(g, r) /\ ClearedOK(g, r) /\ WakeeOK(g) /\ EndedOK
  BY DEF Shape
<1>1. TypeOK'
  BY DEF TypeOK, Places, Locals, EndAloneClear, list, array, rest, Goto, EndTransactionInternal, NoLocal, InvalidXid
<1>2. ChainOK(g, r)'
  BY <1>0 DEF TypeOK, ChainOK, RolesOK, EndAloneClear, list, array, rest, Goto, EndTransactionInternal, NoLocal, InvalidXid
<1>3. HeadsOK(g, r)'
  BY <1>0 DEF TypeOK, HeadsOK, RolesOK, Leading, Asleep, Locals, EndAloneClear, list, array, rest, Goto, EndTransactionInternal, NoLocal, InvalidXid
<1>4. RolesOK(g, r)'
  BY <1>0 DEF TypeOK, RolesOK, HeadsOK, Leading, Asleep, Locals, EndAloneClear, list, array, rest, Goto, EndTransactionInternal, NoLocal, InvalidXid
<1>5. ClearedOK(g, r)'
  BY <1>0 DEF TypeOK, ClearedOK, HeadsOK, RolesOK, Done, Leading, Asleep, Locals, Places, EndAloneClear, list, array, rest, Goto, EndTransactionInternal, NoLocal, InvalidXid
<1>6. WakeeOK(g)'
  <2>1. \A q \in Procs : Done(q) => Done(q)'
    BY DEF TypeOK, Done, EndAloneClear, EndTransactionInternal, list, InvalidXid
  <2>2. UNCHANGED <<next, member, local>> /\ pc[p] = "alone" /\ pc' = [pc EXCEPT ![p] = "idle"]
    BY DEF EndAloneClear, list, Goto
  <2>3. /\ \A l \in Procs : pc'[l] \in {"wakeFlag", "wakePost"} => l # p /\ pc'[l] = pc[l] /\ local'[l] = local[l]
        /\ \A q \in Procs : q # p => pc'[q] = pc[q]
    BY <2>2 DEF TypeOK
  <2>4. \A l \in Procs : pc[l] = "wakeFlag" => local[l].wakee # p
    BY <1>0, <2>2 DEF WakeeOK, Asleep
  <2> QED BY <1>0, <2>1, <2>2, <2>3, <2>4, WakeeFrame
<1>7. EndedOK'
  BY <1>0 DEF TypeOK, EndedOK, WakeeOK, RolesOK, Done, Asleep, Leading, Locals, EndAloneClear, list, array, rest, Goto, EndTransactionInternal, NoLocal, InvalidXid
<1> QED BY <1>1, <1>2, <1>3, <1>4, <1>5, <1>6, <1>7 DEF Shape

\* GroupEnter keeps the shape of the batches, with the same ghosts.
LEMMA GroupEnterStep ==
  ASSUME TypeOK, NEW g \in [Procs -> Batches], NEW r \in [Procs -> Nat], Shape(g, r), NEW p \in Procs, GroupEnter(p)
  PROVE  TypeOK' /\ Shape(g, r)'
<1> USE Numbers
<1>0. ChainOK(g, r) /\ HeadsOK(g, r) /\ RolesOK(g, r) /\ ClearedOK(g, r) /\ WakeeOK(g) /\ EndedOK
  BY DEF Shape
<1>1. TypeOK'
  BY DEF TypeOK, Places, Locals, GroupEnter, list, array, rest, Goto, EndTransactionInternal, NoLocal, InvalidXid
<1>2. ChainOK(g, r)'
  BY <1>0 DEF TypeOK, ChainOK, RolesOK, GroupEnter, list, array, rest, Goto, EndTransactionInternal, NoLocal, InvalidXid
<1>3. HeadsOK(g, r)'
  BY <1>0 DEF TypeOK, HeadsOK, RolesOK, Leading, Asleep, Locals, GroupEnter, list, array, rest, Goto, EndTransactionInternal, NoLocal, InvalidXid
<1>4. RolesOK(g, r)'
  BY <1>0 DEF TypeOK, RolesOK, HeadsOK, Leading, Asleep, Locals, GroupEnter, list, array, rest, Goto, EndTransactionInternal, NoLocal, InvalidXid
<1>5. ClearedOK(g, r)'
  BY <1>0 DEF TypeOK, ClearedOK, HeadsOK, RolesOK, Done, Leading, Asleep, Locals, Places, GroupEnter, list, array, rest, Goto, EndTransactionInternal, NoLocal, InvalidXid
<1>6. WakeeOK(g)'
  BY <1>0 DEF TypeOK, WakeeOK, RolesOK, Done, Leading, Asleep, Locals, GroupEnter, list, array, rest, Goto, EndTransactionInternal, NoLocal, InvalidXid
<1>7. EndedOK'
  BY <1>0 DEF TypeOK, EndedOK, WakeeOK, RolesOK, Done, Asleep, Leading, Locals, GroupEnter, list, array, rest, Goto, EndTransactionInternal, NoLocal, InvalidXid
<1> QED BY <1>1, <1>2, <1>3, <1>4, <1>5, <1>6, <1>7 DEF Shape

\* GroupLink keeps the shape of the batches, with the same ghosts.
LEMMA GroupLinkStep ==
  ASSUME TypeOK, NEW g \in [Procs -> Batches], NEW r \in [Procs -> Nat], Shape(g, r), NEW p \in Procs, GroupLink(p)
  PROVE  TypeOK' /\ Shape(g, r)'
<1> USE Numbers
<1>0. ChainOK(g, r) /\ HeadsOK(g, r) /\ RolesOK(g, r) /\ ClearedOK(g, r) /\ WakeeOK(g) /\ EndedOK
  BY DEF Shape
<1>1. TypeOK'
  BY DEF TypeOK, Places, Locals, GroupLink, list, array, rest, Goto, EndTransactionInternal, NoLocal, InvalidXid
<1>2. ChainOK(g, r)'
  <2>1. g[p] = NoProc
    BY <1>0, Outside DEF GroupLink
  <2>2. next' = [next EXCEPT ![p] = local[p].nextidx]
    BY DEF GroupLink
  <2> QED BY <1>0, <2>1, <2>2 DEF TypeOK, ChainOK
<1>3. HeadsOK(g, r)'
  BY <1>0 DEF TypeOK, HeadsOK, RolesOK, Leading, Asleep, Locals, GroupLink, list, array, rest, Goto, EndTransactionInternal, NoLocal, InvalidXid
<1>4. RolesOK(g, r)'
  BY <1>0 DEF TypeOK, RolesOK, HeadsOK, Leading, Asleep, Locals, GroupLink, list, array, rest, Goto, EndTransactionInternal, NoLocal, InvalidXid
<1>5. ClearedOK(g, r)'
  BY <1>0 DEF TypeOK, ClearedOK, HeadsOK, RolesOK, Done, Leading, Asleep, Locals, Places, GroupLink, list, array, rest, Goto, EndTransactionInternal, NoLocal, InvalidXid
<1>6. WakeeOK(g)'
  BY <1>0 DEF TypeOK, WakeeOK, RolesOK, Done, Leading, Asleep, Locals, GroupLink, list, array, rest, Goto, EndTransactionInternal, NoLocal, InvalidXid
<1>7. EndedOK'
  BY <1>0 DEF TypeOK, EndedOK, WakeeOK, RolesOK, Done, Asleep, Leading, Locals, GroupLink, list, array, rest, Goto, EndTransactionInternal, NoLocal, InvalidXid
<1> QED BY <1>1, <1>2, <1>3, <1>4, <1>5, <1>6, <1>7 DEF Shape

\* FollowerSleep keeps the shape of the batches, with the same ghosts.
LEMMA FollowerSleepStep ==
  ASSUME TypeOK, NEW g \in [Procs -> Batches], NEW r \in [Procs -> Nat], Shape(g, r), NEW p \in Procs, FollowerSleep(p)
  PROVE  TypeOK' /\ Shape(g, r)'
<1> USE Numbers
<1>0. ChainOK(g, r) /\ HeadsOK(g, r) /\ RolesOK(g, r) /\ ClearedOK(g, r) /\ WakeeOK(g) /\ EndedOK
  BY DEF Shape
<1>1. TypeOK'
  BY DEF TypeOK, Places, Locals, FollowerSleep, list, array, rest, Goto, EndTransactionInternal, NoLocal, InvalidXid
<1>2. ChainOK(g, r)'
  BY <1>0 DEF TypeOK, ChainOK, RolesOK, FollowerSleep, list, array, rest, Goto, EndTransactionInternal, NoLocal, InvalidXid
<1>3. HeadsOK(g, r)'
  BY <1>0 DEF TypeOK, HeadsOK, RolesOK, Leading, Asleep, Locals, FollowerSleep, list, array, rest, Goto, EndTransactionInternal, NoLocal, InvalidXid
<1>4. RolesOK(g, r)'
  BY <1>0 DEF TypeOK, RolesOK, HeadsOK, Leading, Asleep, Locals, FollowerSleep, list, array, rest, Goto, EndTransactionInternal, NoLocal, InvalidXid
<1>5. ClearedOK(g, r)'
  BY <1>0 DEF TypeOK, ClearedOK, HeadsOK, RolesOK, Done, Leading, Asleep, Locals, Places, FollowerSleep, list, array, rest, Goto, EndTransactionInternal, NoLocal, InvalidXid
<1>6. WakeeOK(g)'
  BY <1>0 DEF TypeOK, WakeeOK, RolesOK, Done, Leading, Asleep, Locals, FollowerSleep, list, array, rest, Goto, EndTransactionInternal, NoLocal, InvalidXid
<1>7. EndedOK'
  BY <1>0 DEF TypeOK, EndedOK, WakeeOK, RolesOK, Done, Asleep, Leading, Locals, FollowerSleep, list, array, rest, Goto, EndTransactionInternal, NoLocal, InvalidXid
<1> QED BY <1>1, <1>2, <1>3, <1>4, <1>5, <1>6, <1>7 DEF Shape

\* FollowerCheck keeps the shape of the batches, with the same ghosts.
LEMMA FollowerCheckStep ==
  ASSUME TypeOK, NEW g \in [Procs -> Batches], NEW r \in [Procs -> Nat], Shape(g, r), NEW p \in Procs, FollowerCheck(p)
  PROVE  TypeOK' /\ Shape(g, r)'
<1> USE Numbers
<1>0. ChainOK(g, r) /\ HeadsOK(g, r) /\ RolesOK(g, r) /\ ClearedOK(g, r) /\ WakeeOK(g) /\ EndedOK
  BY DEF Shape
<1>1. TypeOK'
  BY DEF TypeOK, Places, Locals, FollowerCheck, list, array, rest, Goto, EndTransactionInternal, NoLocal, InvalidXid
<1>2. ChainOK(g, r)'
  BY <1>0 DEF TypeOK, ChainOK, RolesOK, FollowerCheck, list, array, rest, Goto, EndTransactionInternal, NoLocal, InvalidXid
<1>3. HeadsOK(g, r)'
  BY <1>0 DEF TypeOK, HeadsOK, RolesOK, Leading, Asleep, Locals, FollowerCheck, list, array, rest, Goto, EndTransactionInternal, NoLocal, InvalidXid
<1>4. RolesOK(g, r)'
  BY <1>0 DEF TypeOK, RolesOK, HeadsOK, Leading, Asleep, Locals, FollowerCheck, list, array, rest, Goto, EndTransactionInternal, NoLocal, InvalidXid
<1>5. ClearedOK(g, r)'
  BY <1>0 DEF TypeOK, ClearedOK, HeadsOK, RolesOK, Done, Leading, Asleep, Locals, Places, FollowerCheck, list, array, rest, Goto, EndTransactionInternal, NoLocal, InvalidXid
<1>6. WakeeOK(g)'
  <2>1. /\ UNCHANGED <<next, member>> /\ pc[p] = "check"
        /\ pc'[p] \in {"sleep", "repay"} /\ (member[p] => pc'[p] = "sleep")
    BY DEF TypeOK, FollowerCheck, list, Goto
  <2>2. \A q \in Procs : q # p => pc'[q] = pc[q] /\ local'[q] = local[q]
    BY DEF TypeOK, FollowerCheck, Goto
  <2>3. \A q \in Procs : Done(q)' <=> Done(q)
    BY DEF Done, FollowerCheck, list, array
  <2> QED BY <1>0, <2>1, <2>2, <2>3 DEF WakeeOK, Asleep
<1>7. EndedOK'
  BY <1>0 DEF TypeOK, EndedOK, WakeeOK, RolesOK, Done, Asleep, Leading, Locals, FollowerCheck, list, array, rest, Goto, EndTransactionInternal, NoLocal, InvalidXid
<1> QED BY <1>1, <1>2, <1>3, <1>4, <1>5, <1>6, <1>7 DEF Shape

\* FollowerRepay keeps the shape of the batches, with the same ghosts.
LEMMA FollowerRepayStep ==
  ASSUME TypeOK, NEW g \in [Procs -> Batches], NEW r \in [Procs -> Nat], Shape(g, r), NEW p \in Procs, FollowerRepay(p)
  PROVE  TypeOK' /\ Shape(g, r)'
<1> USE Numbers
<1>0. ChainOK(g, r) /\ HeadsOK(g, r) /\ RolesOK(g, r) /\ ClearedOK(g, r) /\ WakeeOK(g) /\ EndedOK
  BY DEF Shape
<1>1. TypeOK'
  <2>1. CASE local[p].extra_waits > 0
    <3>1. local[p].extra_waits - 1 \in Nat /\ sem[p] + 1 \in Nat
      BY <2>1 DEF TypeOK, Locals
    <3>2. local' = [local EXCEPT ![p].extra_waits = @ - 1] /\ sem' = [sem EXCEPT ![p] = @ + 1] /\ UNCHANGED pc
      BY <2>1 DEF FollowerRepay
    <3>3. local' \in [Procs -> Locals] /\ sem' \in [Procs -> Nat]
      BY <3>1, <3>2 DEF TypeOK, Locals
    <3> QED BY <3>2, <3>3 DEF TypeOK, FollowerRepay, list, array, rest
  <2>2. CASE ~(local[p].extra_waits > 0)
    <3>1. NoLocal \in Locals
      BY DEF Locals, NoLocal
    <3> QED BY <2>2, <3>1 DEF TypeOK, Places, FollowerRepay, list, array, rest, Goto
  <2> QED BY <2>1, <2>2
<1>2. ChainOK(g, r)'
  BY <1>0 DEF TypeOK, ChainOK, RolesOK, FollowerRepay, list, array, rest, Goto, EndTransactionInternal, NoLocal, InvalidXid
<1>3. HeadsOK(g, r)'
  BY <1>0, SMTT(30) DEF TypeOK, HeadsOK, RolesOK, Leading, Asleep, Locals, FollowerRepay, list, array, rest, Goto, EndTransactionInternal, NoLocal, InvalidXid
<1>4. RolesOK(g, r)'
  BY <1>0 DEF TypeOK, RolesOK, HeadsOK, Leading, Asleep, Locals, FollowerRepay, list, array, rest, Goto, EndTransactionInternal, NoLocal, InvalidXid
<1>5. ClearedOK(g, r)'
  BY <1>0 DEF TypeOK, ClearedOK, HeadsOK, RolesOK, Done, Leading, Asleep, Locals, Places, FollowerRepay, list, array, rest, Goto, EndTransactionInternal, NoLocal, InvalidXid
<1>6. WakeeOK(g)'
  <2>1. \A q \in Procs : Done(q) => Done(q)'
    BY DEF Done, FollowerRepay, list, array
  <2>2. UNCHANGED <<next, member>> /\ pc[p] = "repay" /\ pc'[p] \in {"repay", "idle"}
    BY DEF TypeOK, FollowerRepay, list, Goto
  <2>3. \A q \in Procs : q # p => pc'[q] = pc[q] /\ local'[q] = local[q]
    BY DEF TypeOK, FollowerRepay, Goto
  <2>4. \A l \in Procs : pc[l] = "wakeFlag" => local[l].wakee # p
    BY <1>0, <2>2 DEF WakeeOK, Asleep
  <2>5. \A l \in Procs : pc'[l] \in {"wakeFlag", "wakePost"} => l # p /\ pc'[l] = pc[l] /\ local'[l] = local[l]
    BY <2>2, <2>3
  <2> QED BY <1>0, <2>1, <2>2, <2>3, <2>4, <2>5, WakeeFrame
<1>7. EndedOK'
  BY <1>0 DEF TypeOK, EndedOK, WakeeOK, RolesOK, Done, Asleep, Leading, Locals, FollowerRepay, list, array, rest, Goto, EndTransactionInternal, NoLocal, InvalidXid
<1> QED BY <1>1, <1>2, <1>3, <1>4, <1>5, <1>6, <1>7 DEF Shape

\* LeaderLock keeps the shape of the batches, with the same ghosts.
LEMMA LeaderLockStep ==
  ASSUME TypeOK, NEW g \in [Procs -> Batches], NEW r \in [Procs -> Nat], Shape(g, r), NEW p \in Procs, LeaderLock(p)
  PROVE  TypeOK' /\ Shape(g, r)'
<1> USE Numbers
<1>0. ChainOK(g, r) /\ HeadsOK(g, r) /\ RolesOK(g, r) /\ ClearedOK(g, r) /\ WakeeOK(g) /\ EndedOK
  BY DEF Shape
<1>1. TypeOK'
  BY DEF TypeOK, Places, Locals, LeaderLock, list, array, rest, Goto, EndTransactionInternal, NoLocal, InvalidXid
<1>2. ChainOK(g, r)'
  BY <1>0 DEF TypeOK, ChainOK, RolesOK, LeaderLock, list, array, rest, Goto, EndTransactionInternal, NoLocal, InvalidXid
<1>3. HeadsOK(g, r)'
  BY <1>0 DEF TypeOK, HeadsOK, RolesOK, Leading, Asleep, Locals, LeaderLock, list, array, rest, Goto, EndTransactionInternal, NoLocal, InvalidXid
<1>4. RolesOK(g, r)'
  BY <1>0 DEF TypeOK, RolesOK, HeadsOK, Leading, Asleep, Locals, LeaderLock, list, array, rest, Goto, EndTransactionInternal, NoLocal, InvalidXid
<1>5. ClearedOK(g, r)'
  BY <1>0 DEF TypeOK, ClearedOK, HeadsOK, RolesOK, Done, Leading, Asleep, Locals, Places, LeaderLock, list, array, rest, Goto, EndTransactionInternal, NoLocal, InvalidXid
<1>6. WakeeOK(g)'
  BY <1>0 DEF TypeOK, WakeeOK, RolesOK, Done, Leading, Asleep, Locals, LeaderLock, list, array, rest, Goto, EndTransactionInternal, NoLocal, InvalidXid
<1>7. EndedOK'
  BY <1>0 DEF TypeOK, EndedOK, WakeeOK, RolesOK, Done, Asleep, Leading, Locals, LeaderLock, list, array, rest, Goto, EndTransactionInternal, NoLocal, InvalidXid
<1> QED BY <1>1, <1>2, <1>3, <1>4, <1>5, <1>6, <1>7 DEF Shape

\* LeaderClear keeps the shape of the batches, with the same ghosts.
LEMMA LeaderClearStep ==
  ASSUME TypeOK, NEW g \in [Procs -> Batches], NEW r \in [Procs -> Nat], Shape(g, r), NEW p \in Procs, LeaderClear(p)
  PROVE  TypeOK' /\ Shape(g, r)'
<1> USE Numbers
<1>0. ChainOK(g, r) /\ HeadsOK(g, r) /\ RolesOK(g, r) /\ ClearedOK(g, r) /\ WakeeOK(g) /\ EndedOK
  BY DEF Shape
<1>1. TypeOK'
  BY DEF TypeOK, Places, Locals, LeaderClear, list, array, rest, Goto, EndTransactionInternal, NoLocal, InvalidXid
<1>2. ChainOK(g, r)'
  BY <1>0 DEF TypeOK, ChainOK, RolesOK, LeaderClear, list, array, rest, Goto, EndTransactionInternal, NoLocal, InvalidXid
<1>3. HeadsOK(g, r)'
  BY <1>0 DEF TypeOK, HeadsOK, RolesOK, Leading, Asleep, Locals, LeaderClear, list, array, rest, Goto, EndTransactionInternal, NoLocal, InvalidXid
<1>4. RolesOK(g, r)'
  BY <1>0 DEF TypeOK, RolesOK, HeadsOK, Leading, Asleep, Locals, LeaderClear, list, array, rest, Goto, EndTransactionInternal, NoLocal, InvalidXid
<1>5. ClearedOK(g, r)'
  <2>0. PICK q \in Procs \cup {NoProc} : q = local[p].nextidx
    BY Pointers
  <2>1. /\ pc[p] = "clear" /\ q \in Procs /\ g[q] = p /\ UNCHANGED <<pc, next, memberXid>>
        /\ xid' = [xid EXCEPT ![q] = InvalidXid]
        /\ latestCompletedXid' = IF latestCompletedXid < memberXid[q] THEN memberXid[q]
                                 ELSE latestCompletedXid
        /\ local' = [local EXCEPT ![p].nextidx = next[q]]
    BY <1>0, <2>0 DEF LeaderClear, EndTransactionInternal, ClearedOK, list
  <2>2. Done(q)' /\ \A s \in Procs : Done(s) => Done(s)'
    <3>1. /\ memberXid[q] <= latestCompletedXid' /\ latestCompletedXid <= latestCompletedXid'
          /\ latestCompletedXid \in Nat /\ latestCompletedXid' \in Nat
      BY <2>1 DEF TypeOK
    <3>2. xid'[q] = InvalidXid /\ \A s \in Procs : xid[s] = InvalidXid => xid'[s] = InvalidXid
      BY <2>1 DEF TypeOK
    <3>3. \A s \in Procs : memberXid[s] \in Nat /\ memberXid'[s] = memberXid[s]
      BY <2>1 DEF TypeOK
    <3> QED BY <2>1, <3>1, <3>2, <3>3 DEF Done
  <2>3. /\ local'[p].nextidx = next[q]
        /\ \A l \in Procs : l # p => local'[l] = local[l]
    BY <2>1 DEF TypeOK, Locals
  <2>4. next[q] # NoProc => g[next[q]] = p
    BY <1>0, <2>1 DEF ChainOK
  <2>5. ASSUME NEW s \in Procs, g[s] = p, next[q] # NoProc => r[s] > r[next[q]] PROVE Done(s)'
    <3>1. CASE r[s] > r[q]
      BY <1>0, <2>0, <2>1, <2>2, <2>5, <3>1 DEF ClearedOK
    <3>2. CASE ~(r[s] > r[q])
      <4>1. r[s] \in Nat /\ r[q] \in Nat
        BY <2>1
      <4>2. r[q] # 0 => r[next[q]] = r[q] - 1 /\ next[q] # NoProc
        BY <1>0, <2>1 DEF ChainOK
      <4>3. r[s] = r[q]
        BY <2>5, <3>2, <4>1, <4>2
      <4> QED BY <1>0, <2>1, <2>2, <2>5, <4>3 DEF ChainOK
    <3> QED BY <3>1, <3>2
  <2>6. ASSUME NEW s \in Procs, g[s] \in Procs, g[s] # p,
               pc'[g[s]] = "clear" /\ local'[g[s]].nextidx # NoProc => r[s] > r[local'[g[s]].nextidx]
        PROVE  Done(s)'
    BY <1>0, <2>1, <2>2, <2>3, <2>6 DEF ClearedOK
  <2>7. ASSUME NEW s \in Procs, g[s] \in Procs,
               pc'[g[s]] = "clear" /\ local'[g[s]].nextidx # NoProc => r[s] > r[local'[g[s]].nextidx]
        PROVE  Done(s)'
    BY <2>1, <2>3, <2>5, <2>6, <2>7
  <2>8. ASSUME NEW l \in Procs, pc'[l] = "clear", local'[l].nextidx # NoProc PROVE g[local'[l].nextidx] = l
    BY <1>0, <2>1, <2>3, <2>4, <2>8 DEF ClearedOK
  <2> QED BY <2>7, <2>8 DEF ClearedOK
<1>6. WakeeOK(g)'
  BY <1>0 DEF TypeOK, WakeeOK, RolesOK, Done, Leading, Asleep, Locals, LeaderClear, list, array, rest, Goto, EndTransactionInternal, NoLocal, InvalidXid
<1>7. EndedOK'
  BY <1>0 DEF TypeOK, EndedOK, WakeeOK, RolesOK, Done, Asleep, Leading, Locals, LeaderClear, list, array, rest, Goto, EndTransactionInternal, NoLocal, InvalidXid
<1> QED BY <1>1, <1>2, <1>3, <1>4, <1>5, <1>6, <1>7 DEF Shape

\* LeaderUnlock keeps the shape of the batches, with the same ghosts.
LEMMA LeaderUnlockStep ==
  ASSUME TypeOK, NEW g \in [Procs -> Batches], NEW r \in [Procs -> Nat], Shape(g, r), NEW p \in Procs, LeaderUnlock(p)
  PROVE  TypeOK' /\ Shape(g, r)'
<1> USE Numbers
<1>0. ChainOK(g, r) /\ HeadsOK(g, r) /\ RolesOK(g, r) /\ ClearedOK(g, r) /\ WakeeOK(g) /\ EndedOK
  BY DEF Shape
<1>1. TypeOK'
  BY DEF TypeOK, Places, Locals, LeaderUnlock, list, array, rest, Goto, EndTransactionInternal, NoLocal, InvalidXid
<1>2. ChainOK(g, r)'
  BY <1>0 DEF TypeOK, ChainOK, RolesOK, LeaderUnlock, list, array, rest, Goto, EndTransactionInternal, NoLocal, InvalidXid
<1>3. HeadsOK(g, r)'
  BY <1>0 DEF TypeOK, HeadsOK, RolesOK, Leading, Asleep, Locals, LeaderUnlock, list, array, rest, Goto, EndTransactionInternal, NoLocal, InvalidXid
<1>4. RolesOK(g, r)'
  BY <1>0 DEF TypeOK, RolesOK, HeadsOK, Leading, Asleep, Locals, LeaderUnlock, list, array, rest, Goto, EndTransactionInternal, NoLocal, InvalidXid
<1>5. ClearedOK(g, r)'
  BY <1>0 DEF TypeOK, ClearedOK, HeadsOK, RolesOK, Done, Leading, Asleep, Locals, Places, LeaderUnlock, list, array, rest, Goto, EndTransactionInternal, NoLocal, InvalidXid
<1>6. WakeeOK(g)'
  BY <1>0 DEF TypeOK, WakeeOK, RolesOK, Done, Leading, Asleep, Locals, LeaderUnlock, list, array, rest, Goto, EndTransactionInternal, NoLocal, InvalidXid
<1>7. EndedOK'
  BY <1>0 DEF TypeOK, EndedOK, WakeeOK, RolesOK, Done, Asleep, Leading, Locals, LeaderUnlock, list, array, rest, Goto, EndTransactionInternal, NoLocal, InvalidXid
<1> QED BY <1>1, <1>2, <1>3, <1>4, <1>5, <1>6, <1>7 DEF Shape

\* LeaderWakeFlag keeps the shape of the batches, with the same ghosts.
LEMMA LeaderWakeFlagStep ==
  ASSUME TypeOK, NEW g \in [Procs -> Batches], NEW r \in [Procs -> Nat], Shape(g, r), NEW p \in Procs, LeaderWakeFlag(p)
  PROVE  TypeOK' /\ Shape(g, r)'
<1> USE Numbers
<1>0. ChainOK(g, r) /\ HeadsOK(g, r) /\ RolesOK(g, r) /\ ClearedOK(g, r) /\ WakeeOK(g) /\ EndedOK
  BY DEF Shape
<1>1. TypeOK'
  BY DEF TypeOK, Places, Locals, LeaderWakeFlag, list, array, rest, Goto, EndTransactionInternal, NoLocal, InvalidXid
<1>2. ChainOK(g, r)'
  BY <1>0 DEF TypeOK, ChainOK, RolesOK, LeaderWakeFlag, list, array, rest, Goto, EndTransactionInternal, NoLocal, InvalidXid
<1>3. HeadsOK(g, r)'
  BY <1>0 DEF TypeOK, HeadsOK, RolesOK, Leading, Asleep, Locals, LeaderWakeFlag, list, array, rest, Goto, EndTransactionInternal, NoLocal, InvalidXid
<1>4. RolesOK(g, r)'
  BY <1>0 DEF TypeOK, RolesOK, WakeeOK, Asleep, Locals, LeaderWakeFlag, Goto
<1>5. ClearedOK(g, r)'
  BY <1>0 DEF TypeOK, ClearedOK, HeadsOK, RolesOK, Done, Leading, Asleep, Locals, Places, LeaderWakeFlag, list, array, rest, Goto, EndTransactionInternal, NoLocal, InvalidXid
<1>6. WakeeOK(g)'
  BY <1>0 DEF TypeOK, WakeeOK, RolesOK, Done, Leading, Asleep, Locals, LeaderWakeFlag, list, array, rest, Goto, EndTransactionInternal, NoLocal, InvalidXid
<1>7. EndedOK'
  BY <1>0 DEF TypeOK, EndedOK, WakeeOK, RolesOK, Done, Asleep, Leading, Locals, LeaderWakeFlag, list, array, rest, Goto, EndTransactionInternal, NoLocal, InvalidXid
<1> QED BY <1>1, <1>2, <1>3, <1>4, <1>5, <1>6, <1>7 DEF Shape

\* LeaderWakePost keeps the shape of the batches, with the same ghosts.
LEMMA LeaderWakePostStep ==
  ASSUME TypeOK, NEW g \in [Procs -> Batches], NEW r \in [Procs -> Nat], Shape(g, r), NEW p \in Procs, LeaderWakePost(p)
  PROVE  TypeOK' /\ Shape(g, r)'
<1> USE Numbers
<1>0. ChainOK(g, r) /\ HeadsOK(g, r) /\ RolesOK(g, r) /\ ClearedOK(g, r) /\ WakeeOK(g) /\ EndedOK
  BY DEF Shape
<1>1. TypeOK'
  <2>1. local' \in [Procs -> Locals]
    <3>1. [local[p] EXCEPT !.wakee = NoProc] \in Locals /\ NoLocal \in Locals
      BY DEF TypeOK, Locals, NoLocal
    <3> QED BY <3>1 DEF TypeOK, LeaderWakePost
  <2>2. sem' \in [Procs -> Nat]
    <3>1. local[p].wakee \in Procs
      BY <1>0 DEF WakeeOK, LeaderWakePost
    <3> QED BY <3>1 DEF TypeOK, LeaderWakePost
  <2> QED BY <2>1, <2>2 DEF TypeOK, Places, LeaderWakePost, list, array, rest, Goto
<1>2. ChainOK(g, r)'
  BY <1>0 DEF TypeOK, ChainOK, RolesOK, LeaderWakePost, list, array, rest, Goto, EndTransactionInternal, NoLocal, InvalidXid
<1>3. HeadsOK(g, r)'
  BY <1>0 DEF TypeOK, HeadsOK, RolesOK, Leading, Asleep, Locals, LeaderWakePost, list, array, rest, Goto, EndTransactionInternal, NoLocal, InvalidXid
<1>4. RolesOK(g, r)'
  BY <1>0 DEF TypeOK, RolesOK, HeadsOK, Leading, Asleep, Locals, LeaderWakePost, list, array, rest, Goto, EndTransactionInternal, NoLocal, InvalidXid
<1>5. ClearedOK(g, r)'
  BY <1>0 DEF TypeOK, ClearedOK, HeadsOK, RolesOK, Done, Leading, Asleep, Locals, Places, LeaderWakePost, list, array, rest, Goto, EndTransactionInternal, NoLocal, InvalidXid
<1>6. WakeeOK(g)'
  BY <1>0 DEF TypeOK, WakeeOK, RolesOK, Done, Leading, Asleep, Locals, LeaderWakePost, list, array, rest, Goto, EndTransactionInternal, NoLocal, InvalidXid
<1>7. EndedOK'
  BY <1>0 DEF TypeOK, EndedOK, WakeeOK, RolesOK, Done, Asleep, Leading, Locals, LeaderWakePost, list, array, rest, Goto, EndTransactionInternal, NoLocal, InvalidXid
<1> QED BY <1>1, <1>2, <1>3, <1>4, <1>5, <1>6, <1>7 DEF Shape

\* The two updates of a leader's place in its list keep its type.
LEMMA TwoFields ==
  ASSUME NEW x \in Locals, NEW a \in Procs \cup {NoProc}, NEW b \in Procs \cup {NoProc}
  PROVE  /\ [x EXCEPT !.nextidx = a, !.wakeidx = b] \in Locals
         /\ [x EXCEPT !.wakeidx = a, !.wakee = b] \in Locals
<1>1. ASSUME NEW N, NEW y \in [nextidx : N, wakeidx : N, wakee : N, extra_waits : Nat], NEW c \in N, NEW d \in N
      PROVE  /\ [y EXCEPT !.nextidx = c, !.wakeidx = d] \in [nextidx : N, wakeidx : N, wakee : N, extra_waits : Nat]
             /\ [y EXCEPT !.wakeidx = c, !.wakee = d] \in [nextidx : N, wakeidx : N, wakee : N, extra_waits : Nat]
  OBVIOUS
<1>2. x \in [nextidx : Procs \cup {NoProc}, wakeidx : Procs \cup {NoProc}, wakee : Procs \cup {NoProc}, extra_waits : Nat]
  BY DEF Locals
<1> HIDE DEF Locals
<1> QED BY <1>1, <1>2, Zenon DEF Locals

\* The compare-exchange puts p in front of the shared list, or starts a new one.
LEMMA GroupCasStep ==
  ASSUME TypeOK, NEW g \in [Procs -> Batches], NEW r \in [Procs -> Nat], Shape(g, r), NEW p \in Procs, GroupCas(p)
  PROVE  TypeOK' /\ \E h \in [Procs -> Batches], s \in [Procs -> Nat] : Shape(h, s)'
<1> USE Numbers
<1>0. ChainOK(g, r) /\ HeadsOK(g, r) /\ RolesOK(g, r) /\ ClearedOK(g, r) /\ WakeeOK(g) /\ EndedOK
  BY DEF Shape
<1>p. \A q \in Procs : /\ next[q] \in Procs \cup {NoProc}
                       /\ local[q].nextidx \in Procs \cup {NoProc}
                       /\ local[q].wakeidx \in Procs \cup {NoProc}
                       /\ local[q].wakee \in Procs \cup {NoProc}
  BY Pointers
<1>1. TypeOK'
  BY DEF TypeOK, Places, Locals, GroupCas, list, array, rest, Goto
<1>2. g[p] = NoProc /\ member[p] /\ next[p] = local[p].nextidx /\ pc[p] = "cas"
  BY <1>0, Outside DEF GroupCas, RolesOK
<1>3. CASE first # local[p].nextidx
  <2>1. /\ local' = [local EXCEPT ![p].nextidx = first] /\ pc' = [pc EXCEPT ![p] = "link"]
        /\ UNCHANGED <<first, next, member, memberXid, sem, xid, latestCompletedXid>>
    BY <1>3 DEF GroupCas, Goto, array
  <2>2. \A q \in Procs : q # p => local'[q] = local[q] /\ pc'[q] = pc[q]
    BY <2>1 DEF TypeOK
  <2>3. pc'[p] = "link" /\ local'[p].wakeidx = local[p].wakeidx /\ local'[p].extra_waits = local[p].extra_waits
    BY <2>1 DEF TypeOK, Locals
  <2>4. ChainOK(g, r)' /\ HeadsOK(g, r)'
    BY <1>p, <1>0, <1>2, <2>1, <2>2, <2>3 DEF ChainOK, HeadsOK, Leading
  <2>5. RolesOK(g, r)'
    BY <1>p, <1>0, <1>2, <2>1, <2>2, <2>3 DEF RolesOK, Asleep
  <2>6. ClearedOK(g, r)' /\ EndedOK'
    BY <1>p, <1>0, <1>2, <2>1, <2>2, <2>3 DEF ClearedOK, HeadsOK, EndedOK, Done, Leading, Asleep
  <2>7. WakeeOK(g)'
    BY <1>p, <1>0, <1>2, <2>1, <2>2, <2>3 DEF WakeeOK, Done, Asleep
  <2> QED BY <1>1, <2>4, <2>5, <2>6, <2>7 DEF Shape
<1>4. CASE first = local[p].nextidx
  <2>0. PICK h \in [Procs -> Batches], s \in [Procs -> Nat] :
          /\ h = [g EXCEPT ![p] = Pending]
          /\ s = [r EXCEPT ![p] = IF first = NoProc THEN 0 ELSE r[first] + 1]
    <3>1. [g EXCEPT ![p] = Pending] \in [Procs -> Batches]
      BY DEF Batches
    <3>2. [r EXCEPT ![p] = IF first = NoProc THEN 0 ELSE r[first] + 1] \in [Procs -> Nat]
      BY DEF TypeOK
    <3> QED BY <3>1, <3>2
  <2>1. h \in [Procs -> Batches] /\ s \in [Procs -> Nat]
    OBVIOUS
  <2>2. /\ first' = p /\ pc' = [pc EXCEPT ![p] = IF first = NoProc THEN "lead" ELSE "sleep"]
        /\ UNCHANGED <<local, next, member, memberXid, sem, xid, latestCompletedXid>>
    BY <1>4 DEF GroupCas, Goto, array
  <2>3. \A q \in Procs : q # p => h[q] = g[q] /\ s[q] = r[q] /\ pc'[q] = pc[q]
    BY <2>0, <2>2 DEF TypeOK
  <2>4. /\ h[p] = Pending
        /\ first = NoProc => s[p] = 0 /\ pc'[p] = "lead"
        /\ first # NoProc => s[p] = r[first] + 1 /\ pc'[p] = "sleep" /\ first \in Procs /\ r[first] \in Nat
    BY <2>0, <2>2 DEF TypeOK
  <2>5. first # p /\ (first # NoProc => first \in Procs) /\ \A q \in Procs : r[q] \in Nat /\ g[q] \in Batches
    BY <1>p, <1>0, <1>2 DEF HeadsOK, TypeOK
  <2>e. /\ UNCHANGED <<local, next, member>> /\ first' = p
        /\ \A q \in Procs : Done(q)' <=> Done(q)
    BY <2>2 DEF Done
  <2>6. ChainOK(h, s)'
    <3> SUFFICES ASSUME NEW q \in Procs, h[q] # NoProc
                 PROVE  /\ s[q] = 0 => next[q] = NoProc
                        /\ s[q] # 0 => next[q] \in Procs /\ h[next[q]] = h[q] /\ s[next[q]] = s[q] - 1
                        /\ \A t \in Procs : h[t] = h[q] /\ s[t] = s[q] => t = q
      BY <2>e DEF ChainOK
    <3>1. CASE q = p
      <4>1. next[p] = first
        BY <1>2, <1>4
      <4>2. \A t \in Procs : g[t] = Pending => first # NoProc /\ r[t] <= r[first]
        BY <1>0 DEF HeadsOK
      <4>3. \A t \in Procs : t # p => ~(h[t] = Pending /\ s[t] = s[p])
        BY <2>3, <2>4, <2>5, <4>2
      <4>4. first # NoProc => g[first] = Pending
        BY <1>0 DEF HeadsOK
      <4>5. CASE first = NoProc
        BY <2>4, <3>1, <4>1, <4>3, <4>5
      <4>6. CASE first # NoProc
        <5>1. s[p] = r[first] + 1 /\ r[first] \in Nat /\ first \in Procs /\ h[first] = Pending /\ s[first] = r[first]
          BY <2>3, <2>4, <2>5, <4>4, <4>6
        <5> QED BY <2>4, <3>1, <4>1, <4>3, <5>1
      <4> QED BY <4>5, <4>6
    <3>2. CASE q # p
      <4>1. /\ r[q] = 0 => next[q] = NoProc
            /\ r[q] # 0 => next[q] \in Procs /\ g[next[q]] = g[q] /\ r[next[q]] = r[q] - 1
            /\ \A t \in Procs : g[t] = g[q] /\ r[t] = r[q] => t = q
        BY <1>0, <2>3, <3>2 DEF ChainOK
      <4>2. g[q] # NoProc /\ h[q] = g[q] /\ s[q] = r[q]
        BY <2>3, <3>2
      <4>3. next[q] # p
        BY <1>2, <4>1, <4>2
      <4>4. ~(h[p] = h[q] /\ s[p] = s[q])
        <5>1. g[q] = Pending => first # NoProc /\ r[q] <= r[first]
          BY <1>0 DEF HeadsOK
        <5> QED BY <2>4, <2>5, <4>2, <5>1
      <4> QED BY <2>3, <4>1, <4>2, <4>3, <4>4
    <3> QED BY <3>1, <3>2
  <2>7. HeadsOK(h, s)'
    <3>1. \A q \in Procs : h[q] = Pending => s[q] <= s[p]
      <4> SUFFICES ASSUME NEW q \in Procs, q # p, h[q] = Pending PROVE s[q] <= s[p]
        BY <2>4, <2>5
      <4>1. first # NoProc /\ r[q] <= r[first]
        BY <1>0, <2>3 DEF HeadsOK
      <4> QED BY <2>3, <2>4, <2>5, <4>1
    <3>2. \A l \in Procs : pc'[l] \in Leading => l # p /\ pc[l] \in Leading
      BY <2>3, <2>4 DEF Leading
    <3>3. \A l \in Procs : pc[l] \in Leading => l # p /\ pc'[l] \in Leading /\ local[l].wakeidx # p
      BY <1>0, <1>2, <2>3 DEF Leading, HeadsOK
    <3>4. ASSUME NEW l \in Procs, pc'[l] \in Leading, local[l].wakeidx # NoProc PROVE h[local[l].wakeidx] = l
      BY <1>0, <1>p, <2>3, <3>2, <3>3, <3>4 DEF HeadsOK
    <3>5. ASSUME NEW q \in Procs, h[q] \in Procs
          PROVE  pc'[h[q]] \in Leading /\ local[h[q]].wakeidx # NoProc /\ s[q] <= s[local[h[q]].wakeidx]
      <4>1. q # p /\ h[q] = g[q] /\ s[q] = r[q]
        BY <2>3, <2>4, <3>5
      <4>2. pc[g[q]] \in Leading /\ local[g[q]].wakeidx # NoProc /\ r[q] <= r[local[g[q]].wakeidx]
        BY <1>0, <3>5, <4>1 DEF HeadsOK
      <4>3. local[g[q]].wakeidx \in Procs /\ local[g[q]].wakeidx # p /\ pc'[g[q]] \in Leading
        BY <1>p, <3>3, <3>5, <4>1, <4>2
      <4> QED BY <2>3, <4>1, <4>2, <4>3
    <3> QED BY <2>e, <2>4, <3>1, <3>4, <3>5 DEF HeadsOK
  <2>8. RolesOK(h, s)'
    <3>1. ASSUME NEW q \in Procs, q # p
          PROVE  /\ h[q] = g[q] /\ s[q] = r[q] /\ pc'[q] = pc[q]
                 /\ UNCHANGED <<local, next, member>>
      BY <2>e, <2>3, <3>1
    <3>2. local[p].extra_waits = 0
      BY <1>0, <1>2 DEF RolesOK, Asleep
    <3>3. /\ s[p] = 0 <=> first = NoProc
          /\ s[p] = 0 => pc'[p] = "lead"
          /\ s[p] # 0 => pc'[p] = "sleep"
      BY <2>4, <2>5
    <3> QED BY <1>0, <1>2, <2>e, <2>4, <3>1, <3>2, <3>3 DEF RolesOK, Asleep
  <2>9. ClearedOK(h, s)'
    <3>1. \A l \in Procs : pc'[l] = "clear" => l # p /\ pc[l] = "clear"
      BY <2>3, <2>4
    <3>2. ASSUME NEW l \in Procs, pc'[l] = "clear", local[l].nextidx # NoProc
          PROVE  l # p /\ pc[l] = "clear" /\ local[l].nextidx \in Procs \ {p} /\ g[local[l].nextidx] = l
      BY <1>0, <1>p, <1>2, <3>1, <3>2 DEF ClearedOK
    <3>3. ASSUME NEW q \in Procs, h[q] \in Procs,
                 pc'[h[q]] = "clear" /\ local[h[q]].nextidx # NoProc => s[q] > s[local[h[q]].nextidx]
          PROVE  Done(q)
      <4>1. q # p /\ h[q] = g[q] /\ s[q] = r[q] /\ g[q] \in Procs
        BY <2>3, <2>4, <3>3
      <4>2. pc[g[q]] = "clear" => pc'[g[q]] = "clear"
        BY <1>2, <2>3, <4>1
      <4>3. pc[g[q]] = "clear" /\ local[g[q]].nextidx # NoProc => r[q] > r[local[g[q]].nextidx]
        BY <2>3, <3>2, <3>3, <4>1, <4>2
      <4> QED BY <1>0, <4>1, <4>3 DEF ClearedOK
    <3> QED BY <2>e, <2>3, <3>2, <3>3 DEF ClearedOK
  <2>10. WakeeOK(h)'
    <3>1. \A l \in Procs : pc'[l] \in {"wakeFlag", "wakePost"} => l # p /\ pc'[l] = pc[l]
      BY <2>3, <2>4
    <3>2. \A l \in Procs : pc[l] = "wakeFlag" => local[l].wakee # p
      BY <1>0, <1>2 DEF WakeeOK, Asleep
    <3> QED BY <1>0, <2>e, <2>3, <3>1, <3>2, WakeeFrame
  <2>11. EndedOK'
    <3>1. memberXid' = memberXid /\ latestCompletedXid' = latestCompletedXid
      BY <2>2
    <3> QED BY <1>0, <1>2, <2>e, <2>3, <2>4, <3>1 DEF EndedOK, Asleep
  <2> QED BY <1>1, <2>1, <2>6, <2>7, <2>8, <2>9, <2>10, <2>11 DEF Shape
<1> QED BY <1>3, <1>4

\* The leader takes the whole shared list.
LEMMA LeaderDetachStep ==
  ASSUME TypeOK, NEW g \in [Procs -> Batches], NEW r \in [Procs -> Nat], Shape(g, r), NEW p \in Procs, LeaderDetach(p)
  PROVE  TypeOK' /\ \E h \in [Procs -> Batches] : Shape(h, r)'
<1> USE Numbers
<1>0. ChainOK(g, r) /\ HeadsOK(g, r) /\ RolesOK(g, r) /\ ClearedOK(g, r) /\ WakeeOK(g) /\ EndedOK
  BY DEF Shape
<1>p. \A q \in Procs : /\ next[q] \in Procs \cup {NoProc}
                       /\ local[q].nextidx \in Procs \cup {NoProc}
                       /\ local[q].wakeidx \in Procs \cup {NoProc}
                       /\ local[q].wakee \in Procs \cup {NoProc}
  BY Pointers
<1>1. TypeOK'
  <2>1. [local[p] EXCEPT !.nextidx = first, !.wakeidx = first] \in Locals
    <3>1. local[p] \in Locals /\ first \in Procs \cup {NoProc}
      BY DEF TypeOK
    <3> QED BY <3>1, TwoFields, Zenon
  <2>2. local' \in [Procs -> Locals]
    BY <2>1 DEF TypeOK, LeaderDetach
  <2> QED BY <2>2 DEF TypeOK, Places, LeaderDetach, array, rest, Goto
<1>2. PICK h \in [Procs -> Batches] : h = [q \in Procs |-> IF g[q] = Pending THEN p ELSE g[q]]
  BY DEF Batches
<1>3. /\ pc[p] = "detach" /\ g[p] = Pending /\ first \in Procs /\ g[first] = Pending /\ r[p] = 0
      /\ \A q \in Procs : g[q] # p
  BY <1>0 DEF TypeOK, LeaderDetach, RolesOK, HeadsOK, Asleep, Leading
<1>4. /\ first' = NoProc /\ UNCHANGED <<next, member, memberXid, sem, xid, latestCompletedXid>>
      /\ local' = [local EXCEPT ![p].nextidx = first, ![p].wakeidx = first]
      /\ pc' = [pc EXCEPT ![p] = "clear"]
  BY DEF LeaderDetach, Goto, array
<1>5. \A q \in Procs : q # p => local'[q] = local[q] /\ pc'[q] = pc[q]
  BY <1>4 DEF TypeOK
<1>6. /\ pc'[p] = "clear" /\ local'[p].nextidx = first /\ local'[p].wakeidx = first
      /\ local'[p].extra_waits = local[p].extra_waits
  BY <1>4 DEF TypeOK, Locals
<1>7. \A q \in Procs : /\ g[q] \in Batches /\ r[q] \in Nat
                       /\ g[q] = Pending => h[q] = p
                       /\ g[q] # Pending => h[q] = g[q]
  BY <1>2
<1>8. ChainOK(h, r)'
  BY <1>p, <1>0, <1>3, <1>4, <1>7 DEF ChainOK, TypeOK
<1>e. /\ first' = NoProc /\ UNCHANGED <<next, member, memberXid, latestCompletedXid>>
      /\ \A q \in Procs : Done(q)' <=> Done(q)
  BY <1>4 DEF Done
<1>f. \A q \in Procs : h[q] = p <=> g[q] = Pending
  BY <1>3, <1>7
<1>9. HeadsOK(h, r)'
  <2>1. \A q \in Procs : h[q] # Pending
    BY <1>7
  <2>2. ASSUME NEW l \in Procs, pc'[l] \in Leading, local'[l].wakeidx # NoProc PROVE h[local'[l].wakeidx] = l
    <3>1. CASE l = p
      BY <1>3, <1>6, <1>7, <3>1
    <3>2. CASE l # p
      <4>1. local'[l] = local[l] /\ pc[l] \in Leading /\ local[l].wakeidx \in Procs /\ g[local[l].wakeidx] = l
        BY <1>0, <1>p, <1>5, <2>2, <3>2 DEF HeadsOK
      <4> QED BY <1>7, <4>1
    <3> QED BY <3>1, <3>2
  <2>3. ASSUME NEW q \in Procs, h[q] \in Procs
        PROVE  pc'[h[q]] \in Leading /\ local'[h[q]].wakeidx # NoProc /\ r[q] <= r[local'[h[q]].wakeidx]
    <3>1. CASE g[q] = Pending
      <4>1. h[q] = p /\ r[q] <= r[first]
        BY <1>0, <1>7, <3>1 DEF HeadsOK
      <4> QED BY <1>3, <1>6, <4>1 DEF Leading
    <3>2. CASE g[q] # Pending
      <4>1. h[q] = g[q] /\ g[q] \in Procs \ {p}
        BY <1>3, <1>7, <2>3, <3>2
      <4>2. pc[g[q]] \in Leading /\ local[g[q]].wakeidx # NoProc /\ r[q] <= r[local[g[q]].wakeidx]
        BY <1>0, <4>1 DEF HeadsOK
      <4> QED BY <1>5, <4>1, <4>2
    <3> QED BY <3>1, <3>2
  <2> QED BY <1>e, <2>1, <2>2, <2>3 DEF HeadsOK
<1>10. RolesOK(h, r)'
  <2>1. ASSUME NEW q \in Procs, r[q] = 0, g[q] = Pending PROVE q = p
    BY <1>0, <1>3, <2>1 DEF ChainOK
  <2>2. local[p].extra_waits = 0
    BY <1>0, <1>3 DEF RolesOK, Asleep
  <2>3. ASSUME NEW q \in Procs, q # p
        PROVE  /\ h[q] # NoProc => member[q]
               /\ h[q] \in Procs => IF r[q] = 0 THEN h[q] = q ELSE pc[q] \in Asleep
               /\ pc[q] \notin {"lead", "detach"}
               /\ pc[q] \in {"clear", "wake"} => h[q] = q
               /\ pc[q] \in {"wakeFlag", "wakePost"} =>
                    IF local[q].wakeidx = NoProc THEN local[q].wakee = q ELSE h[q] = q /\ local[q].wakee # q
    <3>1. pc[q] \notin {"lead", "detach"}
      BY <1>0, <2>1, <2>3 DEF RolesOK, Asleep
    <3>2. CASE g[q] = Pending
      <4>1. h[q] = p /\ r[q] # 0 /\ pc[q] \in Asleep /\ member[q]
        BY <1>0, <1>7, <2>1, <2>3, <3>2 DEF RolesOK
      <4> QED BY <4>1 DEF Asleep
    <3>3. CASE g[q] # Pending
      <4>1. h[q] = g[q]
        BY <1>7, <3>3
      <4> QED BY <1>0, <3>1, <4>1 DEF RolesOK
    <3> QED BY <3>2, <3>3
  <2>4. \A q \in Procs : h[q] # Pending
    BY <1>7
  <2>5. h[p] = p /\ member[p] /\ r[p] = 0
    BY <1>0, <1>3, <1>7 DEF RolesOK
  <2>6. \A q \in Procs : q # p =>
          /\ pc[q] \in {"link", "cas"} => member[q]
          /\ pc[q] = "cas" => next[q] = local[q].nextidx
          /\ local[q].extra_waits # 0 => pc[q] \in Asleep \cup {"repay"}
    BY <1>0 DEF RolesOK
  <2> QED BY <1>e, <1>5, <1>6, <2>2, <2>3, <2>4, <2>5, <2>6 DEF RolesOK
<1>11. ClearedOK(h, r)'
  <2>1. ASSUME NEW l \in Procs, pc'[l] = "clear", local'[l].nextidx # NoProc PROVE h[local'[l].nextidx] = l
    <3>1. CASE l = p
      BY <1>3, <1>6, <1>7, <3>1
    <3>2. CASE l # p
      <4>1. local'[l] = local[l] /\ pc[l] = "clear" /\ local[l].nextidx \in Procs /\ g[local[l].nextidx] = l
        BY <1>0, <1>p, <1>5, <2>1, <3>2 DEF ClearedOK
      <4> QED BY <1>7, <4>1
    <3> QED BY <3>1, <3>2
  <2>2. ASSUME NEW q \in Procs, h[q] \in Procs,
               pc'[h[q]] = "clear" /\ local'[h[q]].nextidx # NoProc => r[q] > r[local'[h[q]].nextidx]
        PROVE  Done(q)
    <3>1. CASE g[q] = Pending
      <4>1. h[q] = p /\ r[q] <= r[first] /\ r[q] \in Nat /\ r[first] \in Nat
        BY <1>0, <1>3, <1>7, <3>1 DEF HeadsOK
      <4>2. r[q] > r[first]
        BY <1>3, <1>6, <2>2, <4>1
      <4> QED BY <4>1, <4>2
    <3>2. CASE g[q] # Pending
      <4>1. h[q] = g[q] /\ g[q] \in Procs \ {p}
        BY <1>3, <1>7, <2>2, <3>2
      <4> QED BY <1>0, <1>5, <2>2, <4>1 DEF ClearedOK
    <3> QED BY <3>1, <3>2
  <2> QED BY <1>e, <2>1, <2>2 DEF ClearedOK
<1>12. WakeeOK(h)' /\ EndedOK'
  <2>1. \A l \in Procs : pc'[l] \in {"wakeFlag", "wakePost"} => l # p /\ pc'[l] = pc[l] /\ local'[l] = local[l]
    BY <1>5, <1>6
  <2>2. \A l \in Procs : pc[l] = "wakeFlag" => local[l].wakee # p /\ l # p
    BY <1>0, <1>3 DEF WakeeOK, Asleep
  <2>3. \A q \in Procs : g[q] = NoProc => h[q] = NoProc
    BY <1>7
  <2>4. WakeeOK(h)'
    BY <1>0, <1>e, <1>5, <2>1, <2>2, <2>3, WakeeFrame
  <2>5. EndedOK'
    BY <1>0, <1>e, <1>5, <1>6 DEF EndedOK, Asleep
  <2> QED BY <2>4, <2>5
<1> QED BY <1>1, <1>2, <1>8, <1>9, <1>10, <1>11, <1>12 DEF Shape

\* The leader unlinks the first of its list.
LEMMA LeaderWakeLinkStep ==
  ASSUME TypeOK, NEW g \in [Procs -> Batches], NEW r \in [Procs -> Nat], Shape(g, r), NEW p \in Procs, LeaderWakeLink(p)
  PROVE  TypeOK' /\ \E h \in [Procs -> Batches] : Shape(h, r)'
<1> USE Numbers
<1>0. ChainOK(g, r) /\ HeadsOK(g, r) /\ RolesOK(g, r) /\ ClearedOK(g, r) /\ WakeeOK(g) /\ EndedOK
  BY DEF Shape
<1>p. \A q \in Procs : /\ next[q] \in Procs \cup {NoProc}
                       /\ local[q].nextidx \in Procs \cup {NoProc}
                       /\ local[q].wakeidx \in Procs \cup {NoProc}
                       /\ local[q].wakee \in Procs \cup {NoProc}
  BY Pointers
<1>a. PICK q \in Procs \cup {NoProc} : q = local[p].wakeidx
  BY DEF TypeOK, Locals
<1>2. /\ pc[p] = "wake" /\ q \in Procs /\ g[p] = p /\ g[q] = p /\ Done(q) /\ member[q]
      /\ \A s \in Procs : g[s] = p => r[s] <= r[q]
  BY <1>0, <1>a DEF TypeOK, LeaderWakeLink, RolesOK, HeadsOK, ClearedOK, Leading, Locals
<1>3. IF next[q] = NoProc THEN q = p /\ r[q] = 0
      ELSE q # p /\ r[q] # 0 /\ next[q] \in Procs /\ g[next[q]] = p /\ r[next[q]] = r[q] - 1 /\ pc[q] \in Asleep
  BY <1>p, <1>0, <1>2 DEF ChainOK, RolesOK, Asleep
<1>4. /\ local' = [local EXCEPT ![p].wakeidx = next[q], ![p].wakee = q]
      /\ next' = [next EXCEPT ![q] = NoProc] /\ pc' = [pc EXCEPT ![p] = "wakeFlag"]
      /\ UNCHANGED <<first, member, memberXid, sem, xid, latestCompletedXid>>
  BY <1>a DEF LeaderWakeLink, Goto, array
<1>5. \A s \in Procs : s # p => local'[s] = local[s] /\ pc'[s] = pc[s]
  BY <1>4 DEF TypeOK
<1>6. /\ pc'[p] = "wakeFlag" /\ local'[p].wakeidx = next[q] /\ local'[p].wakee = q
      /\ local'[p].extra_waits = local[p].extra_waits
  BY <1>4 DEF TypeOK, Locals
<1>b. PICK h \in [Procs -> Batches] : h = [g EXCEPT ![q] = NoProc]
  BY DEF Batches
<1>7. /\ h \in [Procs -> Batches] /\ h[q] = NoProc /\ next'[q] = NoProc
      /\ \A s \in Procs : s # q => h[s] = g[s] /\ next'[s] = next[s]
  BY <1>2, <1>4, <1>b DEF TypeOK
<1>8. \A s \in Procs : g[s] \in Batches /\ r[s] \in Nat
  OBVIOUS
<1>1. TypeOK'
  <2>1. [local[p] EXCEPT !.wakeidx = next[q], !.wakee = q] \in Locals
    <3>1. local[p] \in Locals /\ next[q] \in Procs \cup {NoProc}
      BY <1>2 DEF TypeOK
    <3>2. q \in Procs \cup {NoProc}
      BY <1>2
    <3> QED BY <3>1, <3>2, TwoFields, Zenon
  <2>2. local' \in [Procs -> Locals]
    BY <1>4, <2>1 DEF TypeOK
  <2> QED BY <1>2, <1>4, <2>2 DEF TypeOK, Places, LeaderWakeLink, rest
<1>e. /\ UNCHANGED <<first, member, memberXid, latestCompletedXid>>
      /\ \A s \in Procs : Done(s)' <=> Done(s)
  BY <1>4 DEF Done
<1>9. ChainOK(h, r)'
  <2> SUFFICES ASSUME NEW x \in Procs, h[x] # NoProc
               PROVE  /\ r[x] = 0 => next'[x] = NoProc
                      /\ r[x] # 0 => next'[x] \in Procs /\ h[next'[x]] = h[x] /\ r[next'[x]] = r[x] - 1
                      /\ \A s \in Procs : h[s] = h[x] /\ r[s] = r[x] => s = x
    BY DEF ChainOK
  <2>1. x # q /\ h[x] = g[x] /\ next'[x] = next[x]
    BY <1>2, <1>7
  <2>2. /\ r[x] = 0 => next[x] = NoProc
        /\ r[x] # 0 => next[x] \in Procs /\ g[next[x]] = g[x] /\ r[next[x]] = r[x] - 1
        /\ \A s \in Procs : g[s] = g[x] /\ r[s] = r[x] => s = x
    BY <1>0, <2>1 DEF ChainOK
  <2>3. r[x] # 0 => next[x] # q
    BY <1>2, <1>8, <2>2
  <2> QED BY <1>2, <1>7, <2>1, <2>2, <2>3, ZenonT(60)
<1>10. HeadsOK(h, r)'
  <2>1. (first # NoProc => h[first] = Pending) /\ \A s \in Procs : h[s] = Pending => first # NoProc /\ r[s] <= r[first]
    <3>1. first # NoProc => first \in Procs /\ first # q /\ g[first] = Pending
      BY <1>0, <1>2 DEF HeadsOK, TypeOK
    <3>2. \A s \in Procs : g[s] = Pending => first # NoProc /\ r[s] <= r[first]
      BY <1>0 DEF HeadsOK
    <3> QED BY <1>2, <1>7, <3>1, <3>2
  <2>2. ASSUME NEW l \in Procs, pc'[l] \in Leading, local'[l].wakeidx # NoProc PROVE h[local'[l].wakeidx] = l
    <3>1. CASE l = p
      <4>1. next[q] # NoProc /\ next[q] # q
        BY <1>2, <1>3, <1>6, <1>8, <2>2, <3>1
      <4> QED BY <1>3, <1>6, <1>7, <3>1, <4>1
    <3>2. CASE l # p
      <4>1. local'[l] = local[l] /\ local[l].wakeidx \in Procs /\ g[local[l].wakeidx] = l
        BY <1>0, <1>p, <1>5, <2>2, <3>2 DEF HeadsOK
      <4> QED BY <1>2, <1>7, <3>2, <4>1
    <3> QED BY <3>1, <3>2
  <2>3. ASSUME NEW s \in Procs, h[s] \in Procs
        PROVE  pc'[h[s]] \in Leading /\ local'[h[s]].wakeidx # NoProc /\ r[s] <= r[local'[h[s]].wakeidx]
    <3>1. s # q /\ h[s] = g[s]
      BY <1>2, <1>7, <2>3
    <3>2. CASE g[s] = p
      <4>1. r[s] <= r[q] /\ r[s] # r[q] /\ r[s] \in Nat /\ r[q] \in Nat
        BY <1>0, <1>2, <1>8, <3>1, <3>2 DEF ChainOK
      <4>2. next[q] # NoProc /\ r[next[q]] = r[q] - 1
        BY <1>3, <4>1
      <4>3. r[s] <= r[next[q]]
        BY <4>1, <4>2
      <4> QED BY <1>6, <3>1, <3>2, <4>2, <4>3 DEF Leading
    <3>3. CASE g[s] # p
      <4>1. pc[g[s]] \in Leading /\ local[g[s]].wakeidx # NoProc /\ r[s] <= r[local[g[s]].wakeidx]
        BY <1>0, <2>3, <3>1 DEF HeadsOK
      <4> QED BY <1>5, <2>3, <3>1, <3>3, <4>1
    <3> QED BY <3>2, <3>3
  <2> QED BY <1>e, <2>1, <2>2, <2>3 DEF HeadsOK
<1>11. RolesOK(h, r)'
  <2>1. \A s \in Procs : /\ s # p => pc'[s] = pc[s] /\ local'[s] = local[s]
                         /\ h[s] # NoProc => s # q /\ h[s] = g[s]
                         /\ s # q => h[s] = g[s] /\ next'[s] = next[s]
                         /\ member'[s] = member[s]
    BY <1>e, <1>5, <1>7
  <2>2. local[p].extra_waits = 0
    BY <1>0, <1>2 DEF RolesOK, Asleep
  <2>3. ASSUME NEW s \in Procs, s # p
        PROVE  /\ h[s] # NoProc => member'[s]
               /\ h[s] = Pending => pc'[s] \in (IF r[s] = 0 THEN {"lead", "detach"} ELSE Asleep)
               /\ h[s] \in Procs => IF r[s] = 0 THEN h[s] = s ELSE pc'[s] \in Asleep
               /\ pc'[s] \in {"lead", "detach"} => h[s] = Pending
               /\ pc'[s] \in {"clear", "wake"} => h[s] = s
               /\ pc'[s] \in {"wakeFlag", "wakePost"} =>
                    IF local'[s].wakeidx = NoProc THEN local'[s].wakee = s
                    ELSE h[s] = s /\ local'[s].wakee # s
               /\ pc'[s] \in {"link", "cas"} => member'[s]
               /\ pc'[s] = "cas" => next'[s] = local'[s].nextidx
               /\ local'[s].extra_waits # 0 => pc'[s] \in Asleep \cup {"repay"}
    <3>1. CASE s = q
      <4>1. pc[q] \in Asleep /\ h[q] = NoProc
        BY <1>3, <1>7, <2>3, <3>1
      <4> QED BY <2>1, <2>3, <3>1, <4>1 DEF Asleep
    <3>2. CASE s # q
      <4>1. /\ g[s] # NoProc => member[s]
            /\ g[s] = Pending => pc[s] \in (IF r[s] = 0 THEN {"lead", "detach"} ELSE Asleep)
            /\ g[s] \in Procs => IF r[s] = 0 THEN g[s] = s ELSE pc[s] \in Asleep
            /\ pc[s] \in {"lead", "detach"} => g[s] = Pending
            /\ pc[s] \in {"clear", "wake"} => g[s] = s
            /\ pc[s] \in {"wakeFlag", "wakePost"} =>
                 IF local[s].wakeidx = NoProc THEN local[s].wakee = s ELSE g[s] = s /\ local[s].wakee # s
            /\ pc[s] \in {"link", "cas"} => member[s]
            /\ pc[s] = "cas" => next[s] = local[s].nextidx
            /\ local[s].extra_waits # 0 => pc[s] \in Asleep \cup {"repay"}
        BY <1>0 DEF RolesOK
      <4>2. pc'[s] = pc[s] /\ local'[s] = local[s] /\ h[s] = g[s] /\ next'[s] = next[s] /\ member'[s] = member[s]
        BY <2>1, <2>3, <3>2
      <4> QED BY <4>1, <4>2
    <3> QED BY <3>1, <3>2
  <2>4. /\ h[p] # NoProc => member'[p]
        /\ h[p] # Pending
        /\ h[p] \in Procs => IF r[p] = 0 THEN h[p] = p ELSE pc'[p] \in Asleep
        /\ IF local'[p].wakeidx = NoProc THEN local'[p].wakee = p ELSE h[p] = p /\ local'[p].wakee # p
    <3>1. r[p] = 0 /\ member[p]
      BY <1>0, <1>2 DEF RolesOK, Asleep
    <3>2. CASE next[q] = NoProc
      BY <1>2, <1>3, <1>6, <1>7, <3>1, <3>2
    <3>3. CASE next[q] # NoProc
      BY <1>2, <1>3, <1>6, <1>7, <2>1, <3>1, <3>3
    <3> QED BY <3>2, <3>3
  <2> QED BY <1>6, <2>2, <2>3, <2>4 DEF RolesOK
<1>12. ClearedOK(h, r)'
  <2>1. ASSUME NEW l \in Procs, pc'[l] = "clear", local'[l].nextidx # NoProc PROVE h[local'[l].nextidx] = l
    <3>1. l # p /\ local'[l] = local[l] /\ pc[l] = "clear"
      BY <1>5, <1>6, <2>1
    <3>2. local[l].nextidx \in Procs /\ g[local[l].nextidx] = l
      BY <1>0, <1>p, <2>1, <3>1 DEF ClearedOK
    <3> QED BY <1>2, <1>7, <3>1, <3>2
  <2>2. ASSUME NEW s \in Procs, h[s] \in Procs,
               pc'[h[s]] = "clear" /\ local'[h[s]].nextidx # NoProc => r[s] > r[local'[h[s]].nextidx]
        PROVE  Done(s)
    <3>1. h[s] = g[s]
      BY <1>2, <1>7, <2>2
    <3>2. CASE g[s] = p
      BY <1>0, <1>2, <3>2 DEF ClearedOK
    <3>3. CASE g[s] # p
      BY <1>0, <1>5, <2>2, <3>1, <3>3 DEF ClearedOK
    <3> QED BY <3>2, <3>3
  <2> QED BY <1>e, <2>1, <2>2 DEF ClearedOK
<1>13. WakeeOK(h)'
  <2>1. \A s \in Procs : next'[s] = NoProc \/ next'[s] = next[s]
    BY <1>7
  <2>2. \A s \in Procs : g[s] = NoProc => h[s] = NoProc /\ s # q
    BY <1>2, <1>7
  <2>3. \A l \in Procs : pc[l] = "wakeFlag" => local[l].wakee # q /\ l # p
    BY <1>0, <1>2 DEF WakeeOK
  <2>4. ASSUME NEW l \in Procs, l # p, NEW w \in Procs, pc'[l] = "wakeFlag", local'[l].wakee = w
        PROVE  /\ h[w] = NoProc /\ member'[w] /\ Done(w)' /\ next'[w] = NoProc
               /\ w = l \/ pc'[w] \in Asleep
               /\ \A m \in Procs : pc'[m] = "wakeFlag" /\ local'[m].wakee = w => m = l
    <3>1. pc[l] = "wakeFlag" /\ local[l].wakee = w
      BY <1>5, <2>4
    <3>3. /\ g[w] = NoProc /\ member[w] /\ Done(w) /\ next[w] = NoProc
          /\ w = l \/ pc[w] \in Asleep
          /\ \A m \in Procs : pc[m] = "wakeFlag" /\ local[m].wakee = w => m = l
      BY <1>0, <3>1 DEF WakeeOK
    <3>4. w # q /\ w # p
      BY <1>2, <2>2, <3>3
    <3>5. \A m \in Procs : pc'[m] = "wakeFlag" /\ local'[m].wakee = w => m = l
      BY <1>5, <1>6, <3>3, <3>4
    <3>6. h[w] = NoProc /\ member'[w] /\ Done(w)' /\ next'[w] = NoProc /\ (w = l \/ pc'[w] \in Asleep)
      BY <1>e, <1>5, <2>1, <2>2, <3>3, <3>4
    <3> QED BY <3>5, <3>6
  <2>5. /\ h[q] = NoProc /\ member'[q] /\ Done(q)' /\ next'[q] = NoProc
        /\ q = p \/ pc'[q] \in Asleep
        /\ \A m \in Procs : pc'[m] = "wakeFlag" /\ local'[m].wakee = q => m = p
    BY <1>e, <1>2, <1>3, <1>5, <1>6, <1>7, <2>3
  <2>6. \A l \in Procs : pc'[l] = "wakePost" /\ local'[l].wakee = l => Done(l)' /\ next'[l] = NoProc
    BY <1>0, <1>e, <1>5, <1>6, <2>1 DEF WakeeOK
  <2>7. \A l \in Procs : pc'[l] \in {"wakeFlag", "wakePost"} => local'[l].wakee \in Procs
    BY <1>0, <1>2, <1>5, <1>6 DEF WakeeOK
  <2>8. \A l \in Procs : \A w \in Procs : pc'[l] = "wakeFlag" /\ local'[l].wakee = w =>
          /\ h[w] = NoProc /\ member'[w] /\ Done(w)' /\ next'[w] = NoProc
          /\ w = l \/ pc'[w] \in Asleep
          /\ \A m \in Procs : pc'[m] = "wakeFlag" /\ local'[m].wakee = w => m = l
    BY <1>6, <2>4, <2>5
  <2> QED BY <2>6, <2>7, <2>8 DEF WakeeOK
<1>14. EndedOK'
  <2>1. \A s \in Procs : next'[s] = NoProc \/ next'[s] = next[s]
    BY <1>7
  <2> QED BY <1>0, <1>e, <1>5, <1>6, <2>1 DEF EndedOK, Asleep
<1> QED BY <1>1, <1>7, <1>9, <1>10, <1>11, <1>12, <1>13, <1>14 DEF Shape

-----------------------------------------------------------------------------
(***************************************************************************)
(* The account of each semaphore.                                          *)
(***************************************************************************)

Owed(q)    == {l \in Procs \ {q} : pc[l] = "wakePost" /\ local[l].wakee = q}
InHand(q)  == IF pc[q] = "check" THEN 1 ELSE 0
Awaited(q) == IF pc[q] \in {"sleep", "check"} /\ ~member[q] THEN 1 ELSE 0

\* What q has of posts, apart from those on their way, and what it may have.
Balance(q) == sem[q] + local[q].extra_waits + InHand(q) - stray[q] - Awaited(q)

\* The leaders that owe a backend a post are finitely many.
LEMMA OwedFinite == \A q \in Procs : IsFiniteSet(Owed(q)) /\ Cardinality(Owed(q)) \in Nat
<1> TAKE q \in Procs
<1>1. Owed(q) \subseteq Procs
  BY DEF Owed
<1> QED BY <1>1, GroupClearAssumption, FS_Subset, FS_CardinalityType

\* The balance of posts is a number.
LEMMA BalanceType == ASSUME TypeOK PROVE \A q \in Procs : Balance(q) \in Int
  BY DEF TypeOK, Locals, Balance, InHand, Awaited

\* SemaphoreConserved as an account: what a backend has, and the posts on their way to it,
\* add up.
LEMMA Account == TypeOK => (SemaphoreConserved <=> \A q \in Procs : Balance(q) + Cardinality(Owed(q)) = 0)
<1> SUFFICES ASSUME TypeOK
             PROVE  SemaphoreConserved <=> \A q \in Procs : Balance(q) + Cardinality(Owed(q)) = 0
  OBVIOUS
<1>1. ASSUME NEW q \in Procs
      PROVE  (sem[q] + local[q].extra_waits + InHand(q) + Cardinality(Owed(q)) = stray[q] + Awaited(q))
               <=> (Balance(q) + Cardinality(Owed(q)) = 0)
  <2>1. /\ sem[q] \in Nat /\ local[q].extra_waits \in Nat /\ InHand(q) \in Nat /\ stray[q] \in Nat
        /\ Awaited(q) \in Nat /\ Cardinality(Owed(q)) \in Nat
    BY OwedFinite DEF TypeOK, Locals, InHand, Awaited
  <2>2. PICK a \in Nat, b \in Nat, c \in Nat, d \in Nat, e \in Nat, f \in Nat :
          /\ sem[q] = a /\ local[q].extra_waits = b /\ InHand(q) = c /\ Cardinality(Owed(q)) = d
          /\ stray[q] = e /\ Awaited(q) = f
    BY <2>1
  <2>3. (a + b + c + d = e + f) <=> (a + b + c - e - f + d = 0)
    OBVIOUS
  <2> QED BY <2>2, <2>3, Zenon DEF Balance
<1>2. SemaphoreConserved <=>
        \A q \in Procs : sem[q] + local[q].extra_waits + InHand(q) + Cardinality(Owed(q)) = stray[q] + Awaited(q)
  BY DEF SemaphoreConserved, InHand, Owed, Awaited
<1> QED BY <1>1, <1>2

\* The account after a step gives the invariant after it.
LEMMA AccountNext ==
  ASSUME TypeOK', \A q \in Procs : Balance(q)' + Cardinality(Owed(q)') = 0
  PROVE  SemaphoreConserved'
<1>1. (\A q \in Procs : Balance(q) + Cardinality(Owed(q)) = 0)'
  OBVIOUS
<1> QED BY <1>1, Account, PTL

\* A step of p that owes nobody a post, and whose own account stays balanced.
LEMMA SemFrame ==
  ASSUME TypeOK, TypeOK', SemaphoreConserved, NEW p \in Procs,
         "wakePost" \in {pc[p], pc'[p]} => pc'[p] = pc[p] /\ local'[p].wakee = local[p].wakee,
         \A q \in Procs : q # p => /\ sem'[q] = sem[q] /\ local'[q] = local[q] /\ pc'[q] = pc[q]
                                   /\ member'[q] = member[q] /\ stray'[q] = stray[q],
         Balance(p)' = Balance(p)
  PROVE  SemaphoreConserved'
<1>1. \A q \in Procs : Owed(q)' = Owed(q)
  BY DEF Owed
<1>2. \A q \in Procs : Balance(q)' = Balance(q)
  BY DEF Balance, InHand, Awaited
<1>3. \A q \in Procs : Balance(q) + Cardinality(Owed(q)) = 0
  BY Account
<1>4. \A q \in Procs : Balance(q)' + Cardinality(Owed(q)') = 0
  BY <1>1, <1>2, <1>3
<1> QED BY <1>4, AccountNext

\* GetNewTransactionId keeps the posts in balance.
LEMMA GetNewTransactionIdSem ==
  ASSUME TypeOK, TypeOK', SemaphoreConserved, NEW g \in [Procs -> Batches], NEW r \in [Procs -> Nat], Shape(g, r),
         NEW p \in Procs, GetNewTransactionId(p)
  PROVE  SemaphoreConserved'
<1>0. RolesOK(g, r)
  BY DEF Shape
<1>1. pc[p] # "wakePost" /\ pc'[p] # "wakePost"
  BY DEF TypeOK, GetNewTransactionId, Goto
<1>2. \A q \in Procs : q # p => /\ sem'[q] = sem[q] /\ local'[q] = local[q] /\ pc'[q] = pc[q]
                                /\ member'[q] = member[q] /\ stray'[q] = stray[q]
  BY DEF TypeOK, GetNewTransactionId, list, array, rest, Goto
<1>3. Balance(p)' = Balance(p)
  BY <1>0 DEF TypeOK, Locals, GetNewTransactionId, list, array, rest, Goto, NoLocal, Balance, InHand, Awaited, RolesOK, Asleep
<1> QED BY <1>1, <1>2, <1>3, SemFrame

\* StrayPost keeps the posts in balance.
LEMMA StrayPostSem ==
  ASSUME TypeOK, TypeOK', SemaphoreConserved, NEW g \in [Procs -> Batches], NEW r \in [Procs -> Nat], Shape(g, r),
         NEW p \in Procs, StrayPost(p)
  PROVE  SemaphoreConserved'
<1>0. RolesOK(g, r)
  BY DEF Shape
<1>1. UNCHANGED <<pc, local>>
  BY DEF StrayPost
<1>2. \A q \in Procs : q # p => /\ sem'[q] = sem[q] /\ local'[q] = local[q] /\ pc'[q] = pc[q]
                                /\ member'[q] = member[q] /\ stray'[q] = stray[q]
  BY DEF TypeOK, StrayPost, list, array, rest, Goto
<1>3. Balance(p)' = Balance(p)
  <2>1. sem'[p] = sem[p] + 1 /\ stray'[p] = stray[p] + 1 /\ member' = member
    BY DEF TypeOK, StrayPost, list
  <2>2. InHand(p)' = InHand(p) /\ Awaited(p)' = Awaited(p) /\ local'[p].extra_waits = local[p].extra_waits
    BY <1>1, <2>1 DEF InHand, Awaited
  <2>3. sem[p] \in Nat /\ stray[p] \in Nat /\ local[p].extra_waits \in Nat /\ InHand(p) \in Nat /\ Awaited(p) \in Nat
    BY DEF TypeOK, Locals, InHand, Awaited
  <2> QED BY <2>1, <2>2, <2>3 DEF Balance
<1> QED BY <1>1, <1>2, <1>3, SemFrame

\* EndAlone keeps the posts in balance.
LEMMA EndAloneSem ==
  ASSUME TypeOK, TypeOK', SemaphoreConserved, NEW g \in [Procs -> Batches], NEW r \in [Procs -> Nat], Shape(g, r),
         NEW p \in Procs, EndAlone(p)
  PROVE  SemaphoreConserved'
<1>0. RolesOK(g, r)
  BY DEF Shape
<1>1. pc[p] # "wakePost" /\ pc'[p] # "wakePost"
  BY DEF TypeOK, EndAlone, Goto
<1>2. \A q \in Procs : q # p => /\ sem'[q] = sem[q] /\ local'[q] = local[q] /\ pc'[q] = pc[q]
                                /\ member'[q] = member[q] /\ stray'[q] = stray[q]
  BY DEF TypeOK, EndAlone, list, array, rest, Goto
<1>3. Balance(p)' = Balance(p)
  BY <1>0 DEF TypeOK, Locals, EndAlone, list, array, rest, Goto, NoLocal, Balance, InHand, Awaited, RolesOK, Asleep
<1> QED BY <1>1, <1>2, <1>3, SemFrame

\* EndAloneClear keeps the posts in balance.
LEMMA EndAloneClearSem ==
  ASSUME TypeOK, TypeOK', SemaphoreConserved, NEW g \in [Procs -> Batches], NEW r \in [Procs -> Nat], Shape(g, r),
         NEW p \in Procs, EndAloneClear(p)
  PROVE  SemaphoreConserved'
<1>0. RolesOK(g, r)
  BY DEF Shape
<1>1. pc[p] # "wakePost" /\ pc'[p] # "wakePost"
  BY DEF TypeOK, EndAloneClear, Goto
<1>2. \A q \in Procs : q # p => /\ sem'[q] = sem[q] /\ local'[q] = local[q] /\ pc'[q] = pc[q]
                                /\ member'[q] = member[q] /\ stray'[q] = stray[q]
  BY DEF TypeOK, EndAloneClear, list, array, rest, Goto
<1>3. Balance(p)' = Balance(p)
  BY <1>0 DEF TypeOK, Locals, EndAloneClear, list, array, rest, Goto, NoLocal, Balance, InHand, Awaited, RolesOK, Asleep
<1> QED BY <1>1, <1>2, <1>3, SemFrame

\* GroupEnter keeps the posts in balance.
LEMMA GroupEnterSem ==
  ASSUME TypeOK, TypeOK', SemaphoreConserved, NEW g \in [Procs -> Batches], NEW r \in [Procs -> Nat], Shape(g, r),
         NEW p \in Procs, GroupEnter(p)
  PROVE  SemaphoreConserved'
<1>0. RolesOK(g, r)
  BY DEF Shape
<1>1. pc[p] # "wakePost" /\ pc'[p] # "wakePost"
  BY DEF TypeOK, GroupEnter, Goto
<1>2. \A q \in Procs : q # p => /\ sem'[q] = sem[q] /\ local'[q] = local[q] /\ pc'[q] = pc[q]
                                /\ member'[q] = member[q] /\ stray'[q] = stray[q]
  BY DEF TypeOK, GroupEnter, list, array, rest, Goto
<1>3. Balance(p)' = Balance(p)
  BY <1>0 DEF TypeOK, Locals, GroupEnter, list, array, rest, Goto, NoLocal, Balance, InHand, Awaited, RolesOK, Asleep
<1> QED BY <1>1, <1>2, <1>3, SemFrame

\* GroupLink keeps the posts in balance.
LEMMA GroupLinkSem ==
  ASSUME TypeOK, TypeOK', SemaphoreConserved, NEW g \in [Procs -> Batches], NEW r \in [Procs -> Nat], Shape(g, r),
         NEW p \in Procs, GroupLink(p)
  PROVE  SemaphoreConserved'
<1>0. RolesOK(g, r)
  BY DEF Shape
<1>1. pc[p] # "wakePost" /\ pc'[p] # "wakePost"
  BY DEF TypeOK, GroupLink, Goto
<1>2. \A q \in Procs : q # p => /\ sem'[q] = sem[q] /\ local'[q] = local[q] /\ pc'[q] = pc[q]
                                /\ member'[q] = member[q] /\ stray'[q] = stray[q]
  BY DEF TypeOK, GroupLink, list, array, rest, Goto
<1>3. Balance(p)' = Balance(p)
  BY <1>0 DEF TypeOK, Locals, GroupLink, list, array, rest, Goto, NoLocal, Balance, InHand, Awaited, RolesOK, Asleep
<1> QED BY <1>1, <1>2, <1>3, SemFrame

\* GroupCas keeps the posts in balance.
LEMMA GroupCasSem ==
  ASSUME TypeOK, TypeOK', SemaphoreConserved, NEW g \in [Procs -> Batches], NEW r \in [Procs -> Nat], Shape(g, r),
         NEW p \in Procs, GroupCas(p)
  PROVE  SemaphoreConserved'
<1>0. RolesOK(g, r)
  BY DEF Shape
<1>1. pc[p] # "wakePost" /\ pc'[p] # "wakePost"
  BY DEF TypeOK, GroupCas, Goto
<1>2. \A q \in Procs : q # p => /\ sem'[q] = sem[q] /\ local'[q] = local[q] /\ pc'[q] = pc[q]
                                /\ member'[q] = member[q] /\ stray'[q] = stray[q]
  BY DEF TypeOK, GroupCas, list, array, rest, Goto
<1>3. Balance(p)' = Balance(p)
  BY <1>0 DEF TypeOK, Locals, GroupCas, list, array, rest, Goto, NoLocal, Balance, InHand, Awaited, RolesOK, Asleep
<1> QED BY <1>1, <1>2, <1>3, SemFrame

\* FollowerSleep keeps the posts in balance.
LEMMA FollowerSleepSem ==
  ASSUME TypeOK, TypeOK', SemaphoreConserved, NEW g \in [Procs -> Batches], NEW r \in [Procs -> Nat], Shape(g, r),
         NEW p \in Procs, FollowerSleep(p)
  PROVE  SemaphoreConserved'
<1>0. RolesOK(g, r)
  BY DEF Shape
<1>1. pc[p] # "wakePost" /\ pc'[p] # "wakePost"
  BY DEF TypeOK, FollowerSleep, Goto
<1>2. \A q \in Procs : q # p => /\ sem'[q] = sem[q] /\ local'[q] = local[q] /\ pc'[q] = pc[q]
                                /\ member'[q] = member[q] /\ stray'[q] = stray[q]
  BY DEF TypeOK, FollowerSleep, list, array, rest, Goto
<1>3. Balance(p)' = Balance(p)
  <2>1. /\ sem'[p] = sem[p] - 1 /\ pc[p] = "sleep" /\ pc'[p] = "check"
        /\ UNCHANGED <<member, local, stray>>
    BY DEF TypeOK, FollowerSleep, list, rest, Goto
  <2>2. InHand(p)' = 1 /\ InHand(p) = 0 /\ Awaited(p)' = Awaited(p)
    BY <2>1 DEF InHand, Awaited
  <2>3. sem[p] \in Nat /\ stray[p] \in Nat /\ local[p].extra_waits \in Nat /\ Awaited(p) \in Nat
    BY DEF TypeOK, Locals, Awaited
  <2> QED BY <2>1, <2>2, <2>3 DEF Balance
<1> QED BY <1>1, <1>2, <1>3, SemFrame

\* FollowerCheck keeps the posts in balance.
LEMMA FollowerCheckSem ==
  ASSUME TypeOK, TypeOK', SemaphoreConserved, NEW g \in [Procs -> Batches], NEW r \in [Procs -> Nat], Shape(g, r),
         NEW p \in Procs, FollowerCheck(p)
  PROVE  SemaphoreConserved'
<1>0. RolesOK(g, r)
  BY DEF Shape
<1>1. pc[p] # "wakePost" /\ pc'[p] # "wakePost"
  BY DEF TypeOK, FollowerCheck, Goto
<1>2. \A q \in Procs : q # p => /\ sem'[q] = sem[q] /\ local'[q] = local[q] /\ pc'[q] = pc[q]
                                /\ member'[q] = member[q] /\ stray'[q] = stray[q]
  BY DEF TypeOK, FollowerCheck, list, array, rest, Goto
<1>3. Balance(p)' = Balance(p)
  <2>1. UNCHANGED <<sem, member, stray>> /\ pc[p] = "check" /\ InHand(p) = 1
    BY DEF FollowerCheck, list, rest, InHand
  <2>2. sem[p] \in Nat /\ stray[p] \in Nat /\ local[p].extra_waits \in Nat
    BY DEF TypeOK, Locals
  <2>3. CASE member[p]
    <3>1. local'[p].extra_waits = local[p].extra_waits + 1 /\ pc'[p] = "sleep"
      BY <2>3 DEF FollowerCheck, TypeOK, Locals, Goto
    <3>2. InHand(p)' = 0 /\ Awaited(p)' = 0 /\ Awaited(p) = 0
      BY <2>1, <2>3, <3>1 DEF InHand, Awaited
    <3> QED BY <2>1, <2>2, <3>1, <3>2 DEF Balance
  <2>4. CASE ~member[p]
    <3>1. local' = local /\ pc'[p] = "repay"
      BY <2>4 DEF FollowerCheck, TypeOK, Goto
    <3>2. InHand(p)' = 0 /\ Awaited(p)' = 0 /\ Awaited(p) = 1
      BY <2>1, <2>4, <3>1 DEF InHand, Awaited
    <3> QED BY <2>1, <2>2, <3>1, <3>2 DEF Balance
  <2> QED BY <2>3, <2>4
<1> QED BY <1>1, <1>2, <1>3, SemFrame

\* FollowerRepay keeps the posts in balance.
LEMMA FollowerRepaySem ==
  ASSUME TypeOK, TypeOK', SemaphoreConserved, NEW g \in [Procs -> Batches], NEW r \in [Procs -> Nat], Shape(g, r),
         NEW p \in Procs, FollowerRepay(p)
  PROVE  SemaphoreConserved'
<1>0. RolesOK(g, r)
  BY DEF Shape
<1>1. pc[p] # "wakePost" /\ pc'[p] # "wakePost"
  BY DEF TypeOK, FollowerRepay, Goto
<1>2. \A q \in Procs : q # p => /\ sem'[q] = sem[q] /\ local'[q] = local[q] /\ pc'[q] = pc[q]
                                /\ member'[q] = member[q] /\ stray'[q] = stray[q]
  BY DEF TypeOK, FollowerRepay, list, array, rest, Goto
<1>3. Balance(p)' = Balance(p)
  BY <1>0 DEF TypeOK, Locals, FollowerRepay, list, array, rest, Goto, NoLocal, Balance, InHand, Awaited, RolesOK, Asleep
<1> QED BY <1>1, <1>2, <1>3, SemFrame

\* LeaderLock keeps the posts in balance.
LEMMA LeaderLockSem ==
  ASSUME TypeOK, TypeOK', SemaphoreConserved, NEW g \in [Procs -> Batches], NEW r \in [Procs -> Nat], Shape(g, r),
         NEW p \in Procs, LeaderLock(p)
  PROVE  SemaphoreConserved'
<1>0. RolesOK(g, r)
  BY DEF Shape
<1>1. pc[p] # "wakePost" /\ pc'[p] # "wakePost"
  BY DEF TypeOK, LeaderLock, Goto
<1>2. \A q \in Procs : q # p => /\ sem'[q] = sem[q] /\ local'[q] = local[q] /\ pc'[q] = pc[q]
                                /\ member'[q] = member[q] /\ stray'[q] = stray[q]
  BY DEF TypeOK, LeaderLock, list, array, rest, Goto
<1>3. Balance(p)' = Balance(p)
  BY <1>0 DEF TypeOK, Locals, LeaderLock, list, array, rest, Goto, NoLocal, Balance, InHand, Awaited, RolesOK, Asleep
<1> QED BY <1>1, <1>2, <1>3, SemFrame

\* LeaderDetach keeps the posts in balance.
LEMMA LeaderDetachSem ==
  ASSUME TypeOK, TypeOK', SemaphoreConserved, NEW g \in [Procs -> Batches], NEW r \in [Procs -> Nat], Shape(g, r),
         NEW p \in Procs, LeaderDetach(p)
  PROVE  SemaphoreConserved'
<1>0. RolesOK(g, r)
  BY DEF Shape
<1>1. pc[p] # "wakePost" /\ pc'[p] # "wakePost"
  BY DEF TypeOK, LeaderDetach, Goto
<1>2. \A q \in Procs : q # p => /\ sem'[q] = sem[q] /\ local'[q] = local[q] /\ pc'[q] = pc[q]
                                /\ member'[q] = member[q] /\ stray'[q] = stray[q]
  BY DEF TypeOK, LeaderDetach, list, array, rest, Goto
<1>3. Balance(p)' = Balance(p)
  BY <1>0 DEF TypeOK, Locals, LeaderDetach, list, array, rest, Goto, NoLocal, Balance, InHand, Awaited, RolesOK, Asleep
<1> QED BY <1>1, <1>2, <1>3, SemFrame

\* LeaderClear keeps the posts in balance.
LEMMA LeaderClearSem ==
  ASSUME TypeOK, TypeOK', SemaphoreConserved, NEW g \in [Procs -> Batches], NEW r \in [Procs -> Nat], Shape(g, r),
         NEW p \in Procs, LeaderClear(p)
  PROVE  SemaphoreConserved'
<1>0. RolesOK(g, r)
  BY DEF Shape
<1>1. pc[p] # "wakePost" /\ pc'[p] # "wakePost"
  BY DEF TypeOK, LeaderClear, Goto
<1>2. \A q \in Procs : q # p => /\ sem'[q] = sem[q] /\ local'[q] = local[q] /\ pc'[q] = pc[q]
                                /\ member'[q] = member[q] /\ stray'[q] = stray[q]
  BY DEF TypeOK, LeaderClear, list, array, rest, Goto
<1>3. Balance(p)' = Balance(p)
  BY <1>0 DEF TypeOK, Locals, LeaderClear, list, array, rest, Goto, NoLocal, Balance, InHand, Awaited, RolesOK, Asleep
<1> QED BY <1>1, <1>2, <1>3, SemFrame

\* LeaderUnlock keeps the posts in balance.
LEMMA LeaderUnlockSem ==
  ASSUME TypeOK, TypeOK', SemaphoreConserved, NEW g \in [Procs -> Batches], NEW r \in [Procs -> Nat], Shape(g, r),
         NEW p \in Procs, LeaderUnlock(p)
  PROVE  SemaphoreConserved'
<1>0. RolesOK(g, r)
  BY DEF Shape
<1>1. pc[p] # "wakePost" /\ pc'[p] # "wakePost"
  BY DEF TypeOK, LeaderUnlock, Goto
<1>2. \A q \in Procs : q # p => /\ sem'[q] = sem[q] /\ local'[q] = local[q] /\ pc'[q] = pc[q]
                                /\ member'[q] = member[q] /\ stray'[q] = stray[q]
  BY DEF TypeOK, LeaderUnlock, list, array, rest, Goto
<1>3. Balance(p)' = Balance(p)
  BY <1>0 DEF TypeOK, Locals, LeaderUnlock, list, array, rest, Goto, NoLocal, Balance, InHand, Awaited, RolesOK, Asleep
<1> QED BY <1>1, <1>2, <1>3, SemFrame

\* LeaderWakeLink keeps the posts in balance.
LEMMA LeaderWakeLinkSem ==
  ASSUME TypeOK, TypeOK', SemaphoreConserved, NEW g \in [Procs -> Batches], NEW r \in [Procs -> Nat], Shape(g, r),
         NEW p \in Procs, LeaderWakeLink(p)
  PROVE  SemaphoreConserved'
<1>0. RolesOK(g, r)
  BY DEF Shape
<1>1. pc[p] # "wakePost" /\ pc'[p] # "wakePost"
  BY DEF TypeOK, LeaderWakeLink, Goto
<1>2. \A q \in Procs : q # p => /\ sem'[q] = sem[q] /\ local'[q] = local[q] /\ pc'[q] = pc[q]
                                /\ member'[q] = member[q] /\ stray'[q] = stray[q]
  BY DEF TypeOK, LeaderWakeLink, list, array, rest, Goto
<1>3. Balance(p)' = Balance(p)
  BY <1>0 DEF TypeOK, Locals, LeaderWakeLink, list, array, rest, Goto, NoLocal, Balance, InHand, Awaited, RolesOK, Asleep
<1> QED BY <1>1, <1>2, <1>3, SemFrame

\* LeaderWakeFlag keeps the posts in balance.
LEMMA LeaderWakeFlagSem ==
  ASSUME TypeOK, TypeOK', SemaphoreConserved, NEW g \in [Procs -> Batches], NEW r \in [Procs -> Nat], Shape(g, r),
         NEW p \in Procs, LeaderWakeFlag(p)
  PROVE  SemaphoreConserved'
<1>0. PICK q \in Procs : q = local[p].wakee
  BY DEF Shape, WakeeOK, LeaderWakeFlag
<1>1. /\ pc[p] = "wakeFlag" /\ member[q] /\ (q = p \/ pc[q] \in Asleep)
  BY <1>0 DEF Shape, WakeeOK, LeaderWakeFlag
<1>2. /\ UNCHANGED <<sem, local, stray>> /\ pc'[p] = "wakePost" /\ member'[q] = FALSE
      /\ \A x \in Procs : (x # p => pc'[x] = pc[x]) /\ (x # q => member'[x] = member[x])
  BY <1>0 DEF TypeOK, LeaderWakeFlag, Goto, rest
<1>3. \A x \in Procs : Balance(x) + Cardinality(Owed(x)) = 0 /\ Balance(x) \in Int
  BY Account, BalanceType
<1>4. \A x \in Procs \ {q} : Balance(x)' = Balance(x) /\ Owed(x)' = Owed(x)
  <2> TAKE x \in Procs \ {q}
  <2>1. Owed(x)' = Owed(x)
    BY <1>0, <1>1, <1>2 DEF Owed
  <2>2. InHand(x)' = InHand(x) /\ Awaited(x)' = Awaited(x)
    BY <1>1, <1>2 DEF InHand, Awaited
  <2> QED BY <1>2, <2>1, <2>2 DEF Balance
<1>5. Balance(q)' + Cardinality(Owed(q)') = 0
  <2>1. CASE q = p
    <3>1. Owed(q)' = Owed(q)
      BY <1>2, <2>1 DEF Owed
    <3>2. InHand(q)' = InHand(q) /\ Awaited(q)' = Awaited(q)
      BY <1>1, <1>2, <2>1 DEF InHand, Awaited
    <3> QED BY <1>2, <1>3, <3>1, <3>2 DEF Balance
  <2>2. CASE q # p
    <3>1. Owed(q)' = Owed(q) \cup {p} /\ p \notin Owed(q)
      BY <1>0, <1>1, <1>2, <2>2 DEF Owed
    <3>2. Cardinality(Owed(q)') = Cardinality(Owed(q)) + 1
      BY <3>1, OwedFinite, FS_AddElement
    <3>3. InHand(q)' = InHand(q) /\ Awaited(q)' = 1 /\ Awaited(q) = 0
      BY <1>1, <1>2, <2>2 DEF InHand, Awaited, Asleep
    <3>4. sem[q] \in Nat /\ stray[q] \in Nat /\ local[q].extra_waits \in Nat /\ InHand(q) \in Nat
      BY DEF TypeOK, Locals, InHand
    <3>5. Balance(q)' = Balance(q) - 1
      BY <1>2, <3>3, <3>4 DEF Balance
    <3> QED BY <1>3, <3>2, <3>5, OwedFinite
  <2> QED BY <2>1, <2>2
<1> QED BY <1>3, <1>4, <1>5, AccountNext

\* LeaderWakePost keeps the posts in balance.
LEMMA LeaderWakePostSem ==
  ASSUME TypeOK, TypeOK', SemaphoreConserved, NEW g \in [Procs -> Batches], NEW r \in [Procs -> Nat], Shape(g, r),
         NEW p \in Procs, LeaderWakePost(p)
  PROVE  SemaphoreConserved'
<1>0. PICK q \in Procs : q = local[p].wakee
  BY DEF Shape, WakeeOK, LeaderWakePost
<1>1. pc[p] = "wakePost" /\ local[p].extra_waits = 0
  BY DEF Shape, RolesOK, Asleep, LeaderWakePost
<1>2. /\ UNCHANGED <<member, stray>> /\ pc'[p] \in {"idle", "wake"}
      /\ sem' = (IF q = p THEN sem ELSE [sem EXCEPT ![q] = @ + 1])
      /\ \A x \in Procs : x # p => pc'[x] = pc[x] /\ local'[x] = local[x]
  BY <1>0 DEF TypeOK, LeaderWakePost, Goto, list, rest
<1>3. \A x \in Procs : Balance(x) + Cardinality(Owed(x)) = 0 /\ Balance(x) \in Int
  BY Account, BalanceType
<1>4. local'[p].extra_waits = 0
  <2>1. NoLocal.extra_waits = 0
    BY DEF NoLocal
  <2>2. [local[p] EXCEPT !.wakee = NoProc].extra_waits = local[p].extra_waits
    BY DEF TypeOK, Locals
  <2> QED BY <1>1, <2>1, <2>2 DEF TypeOK, LeaderWakePost
<1>5. \A x \in Procs : local'[x].extra_waits = local[x].extra_waits /\ InHand(x)' = InHand(x) /\ Awaited(x)' = Awaited(x)
  BY <1>1, <1>2, <1>4 DEF InHand, Awaited
<1>6. \A x \in Procs \ {q} : Balance(x)' = Balance(x) /\ Owed(x)' = Owed(x)
  <2> TAKE x \in Procs \ {q}
  <2>1. Owed(x)' = Owed(x)
    BY <1>0, <1>1, <1>2 DEF Owed
  <2>2. sem'[x] = sem[x]
    BY <1>2 DEF TypeOK
  <2> QED BY <1>2, <1>5, <2>1, <2>2 DEF Balance
<1>7. Balance(q)' + Cardinality(Owed(q)') = 0
  <2>1. CASE q = p
    <3>1. Owed(q)' = Owed(q)
      BY <1>2, <2>1 DEF Owed
    <3>2. sem' = sem
      BY <1>2, <2>1
    <3> QED BY <1>2, <1>3, <1>5, <3>1, <3>2 DEF Balance
  <2>2. CASE q # p
    <3>1. Owed(q)' = Owed(q) \ {p} /\ p \in Owed(q)
      BY <1>0, <1>1, <1>2, <2>2 DEF Owed
    <3>2. Cardinality(Owed(q)') = Cardinality(Owed(q)) - 1
      BY <3>1, OwedFinite, FS_RemoveElement
    <3>3. sem[q] \in Nat /\ stray[q] \in Nat /\ local[q].extra_waits \in Nat /\ InHand(q) \in Nat /\ Awaited(q) \in Nat
      BY DEF TypeOK, Locals, InHand, Awaited
    <3>4. sem'[q] = sem[q] + 1
      BY <1>2, <2>2 DEF TypeOK
    <3>5. Balance(q)' = Balance(q) + 1
      BY <1>2, <1>5, <3>3, <3>4 DEF Balance
    <3> QED BY <1>3, <3>2, <3>5, OwedFinite
  <2> QED BY <2>1, <2>2
<1> QED BY <1>3, <1>6, <1>7, AccountNext

-----------------------------------------------------------------------------
\* The inductive invariant holds initially, with everybody in no batch.
LEMMA InitIInv == ASSUME Init PROVE IInv
<1> USE Numbers
<1>1. TypeOK
  BY DEF Init, TypeOK, Places, Locals, NoLocal, InvalidXid
<1>2. PICK g \in [Procs -> Batches] : g = [q \in Procs |-> NoProc]
  BY DEF Batches
<1>3. PICK r \in [Procs -> Nat] : r = [q \in Procs |-> 0]
  OBVIOUS
<1>4. ChainOK(g, r) /\ HeadsOK(g, r) /\ ClearedOK(g, r)
  BY <1>2, <1>3 DEF Init, ChainOK, HeadsOK, ClearedOK, Leading
<1>5. RolesOK(g, r)
  BY <1>2, <1>3 DEF Init, RolesOK, NoLocal
<1>6. WakeeOK(g) /\ EndedOK
  BY DEF Init, WakeeOK, EndedOK, Done, Asleep, InvalidXid
<1>7. SemaphoreConserved
  <2>1. \A q \in Procs : Owed(q) = {} /\ Balance(q) = 0
    BY DEF Init, Owed, Balance, InHand, Awaited, NoLocal
  <2> QED BY <1>1, <2>1, Account, FS_EmptySet
<1> QED BY <1>1, <1>4, <1>5, <1>6, <1>7 DEF IInv, Shape

\* The inductive invariant is kept by every step.
LEMMA NextIInv == ASSUME IInv, [Next]_vars PROVE IInv'
<1>0. TypeOK /\ SemaphoreConserved
  BY DEF IInv
<1>1. PICK g \in [Procs -> Batches], r \in [Procs -> Nat] : Shape(g, r)
  BY DEF IInv
<1>2. CASE UNCHANGED vars
  <2>1. TypeOK' /\ SemaphoreConserved'
    BY <1>0, <1>2 DEF TypeOK, SemaphoreConserved, vars
  <2>2. Shape(g, r)'
    BY <1>1, <1>2 DEF Shape, ChainOK, HeadsOK, RolesOK, ClearedOK, WakeeOK, EndedOK, Done, vars
  <2> QED BY <2>1, <2>2 DEF IInv
<1>3. CASE OtherLock \/ OtherUnlock
  <2>1. TypeOK' /\ Shape(g, r)'
    BY <1>0, <1>1, <1>3, OtherLockStep, OtherUnlockStep
  <2>2. SemaphoreConserved'
    BY <1>0, <1>3 DEF SemaphoreConserved, OtherLock, OtherUnlock, list, array, rest
  <2> QED BY <2>1, <2>2 DEF IInv
<1>4. ASSUME NEW p \in Procs, GetNewTransactionId(p) \/ StrayPost(p) \/ EndAlone(p) \/ EndAloneClear(p)
      PROVE  IInv'
  <2>1. TypeOK' /\ Shape(g, r)'
    BY <1>0, <1>1, <1>4, GetNewTransactionIdStep, StrayPostStep, EndAloneStep, EndAloneClearStep
  <2>2. SemaphoreConserved'
    BY <1>0, <1>1, <1>4, <2>1, GetNewTransactionIdSem, StrayPostSem, EndAloneSem, EndAloneClearSem
  <2> QED BY <2>1, <2>2 DEF IInv
<1>5. ASSUME NEW p \in Procs, GroupEnter(p) \/ GroupLink(p) \/ FollowerSleep(p) \/ FollowerCheck(p) \/ FollowerRepay(p)
      PROVE  IInv'
  <2>1. TypeOK' /\ Shape(g, r)'
    BY <1>0, <1>1, <1>5, GroupEnterStep, GroupLinkStep, FollowerSleepStep, FollowerCheckStep, FollowerRepayStep
  <2>2. SemaphoreConserved'
    BY <1>0, <1>1, <1>5, <2>1, GroupEnterSem, GroupLinkSem, FollowerSleepSem, FollowerCheckSem, FollowerRepaySem
  <2> QED BY <2>1, <2>2 DEF IInv
<1>6. ASSUME NEW p \in Procs,
             LeaderLock(p) \/ LeaderClear(p) \/ LeaderUnlock(p) \/ LeaderWakeFlag(p) \/ LeaderWakePost(p)
      PROVE  IInv'
  <2>1. TypeOK' /\ Shape(g, r)'
    BY <1>0, <1>1, <1>6, LeaderLockStep, LeaderClearStep, LeaderUnlockStep, LeaderWakeFlagStep, LeaderWakePostStep
  <2>2. SemaphoreConserved'
    BY <1>0, <1>1, <1>6, <2>1, LeaderLockSem, LeaderClearSem, LeaderUnlockSem, LeaderWakeFlagSem, LeaderWakePostSem
  <2> QED BY <2>1, <2>2 DEF IInv
<1>7. ASSUME NEW p \in Procs, GroupCas(p) PROVE IInv'
  BY <1>0, <1>1, <1>7, GroupCasStep, GroupCasSem DEF IInv
<1>8. ASSUME NEW p \in Procs, LeaderDetach(p) PROVE IInv'
  BY <1>0, <1>1, <1>8, LeaderDetachStep, LeaderDetachSem DEF IInv
<1>9. ASSUME NEW p \in Procs, LeaderWakeLink(p) PROVE IInv'
  BY <1>0, <1>1, <1>9, LeaderWakeLinkStep, LeaderWakeLinkSem DEF IInv
<1> QED BY <1>2, <1>3, <1>4, <1>5, <1>6, <1>7, <1>8, <1>9 DEF Next, Step, Finished

\* The invariant is inductive.
THEOREM SpecIInv == Spec => []IInv
  BY InitIInv, NextIInv, PTL DEF Spec

\* Whoever ProcArrayGroupClearXid lets return has had its transaction ended for it, by
\* whichever leader, and its link is clear for the next group.
THEOREM SpecEnded == Spec => []EndedAtReturn
<1>1. IInv => EndedAtReturn
  BY DEF IInv, Shape, EndedOK, Done, EndedAtReturn
<1> QED BY <1>1, SpecIInv, PTL

\* The group's sleeps and wakeups neither lose nor invent a post of the semaphore that a
\* backend shares with its other waits.
THEOREM SpecSemaphore == Spec => []SemaphoreConserved
<1>1. IInv => SemaphoreConserved
  BY DEF IInv
<1> QED BY <1>1, SpecIInv, PTL
=============================================================================
