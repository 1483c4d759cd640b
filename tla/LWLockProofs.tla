---------------------------- MODULE LWLockProofs ----------------------------
(***************************************************************************)
(* Proofs about LWLock, for any set of backends and locks.  The invariant  *)
(* that carries them ties three things together: what the lock words       *)
(* count, what the backends have recorded, and the place each backend has  *)
(* reached in its call.                                                    *)
(***************************************************************************)
EXTENDS LWLock, FiniteSetTheorems, WellFoundedInduction, TLAPS

(***************************************************************************)
(* What the list operators of ProcList return.  The provers cannot         *)
(* instantiate the library's induction theorems, whose parameter is an     *)
(* operator; a proof by induction is written here as the search for a      *)
(* least counterexample, a set of naturals, which has a least member.      *)
(***************************************************************************)

(***************************************************************************)
(* Every nonempty set of naturals has a least member (First is defined on  *)
(* it).                                                                    *)
(***************************************************************************)
LEMMA LeastNatural == ASSUME NEW T \in SUBSET Nat, T # {} PROVE \E n \in T : \A m \in T : n <= m
<1>1. IsWellFoundedOn(OpToRel(<, Nat), Nat) BY NatLessThanWellFounded
<1>2. PICK x \in T : \A y \in T : ~(<<y, x>> \in OpToRel(<, Nat))
  BY <1>1, WFMin
<1>3. \A y \in T : ~(y < x)
  BY <1>2 DEF OpToRel
<1> QED BY <1>3

(***************************************************************************)
(* The places of a list can be enumerated in increasing order, so Enum     *)
(* picks an enumeration.                                                   *)
(***************************************************************************)
LEMMA EnumExists == \A n \in Nat : \A S \in SUBSET (1..n) : Increasing(Cardinality(S), S) # {}
<1> DEFINE Bad == {n \in Nat : \E S \in SUBSET (1..n) : Increasing(Cardinality(S), S) = {}}
<1> SUFFICES ASSUME Bad # {} PROVE FALSE
  OBVIOUS
<1>1. PICK n \in Bad : \A m \in Bad : n <= m
  BY LeastNatural
<1>2. PICK S \in SUBSET (1..n) : Increasing(Cardinality(S), S) = {}
  BY <1>1
<1>0. IsFiniteSet(S) /\ Cardinality(S) \in Nat
  <2>1. IsFiniteSet(1..n)
    BY <1>1, 0 \in Int, 1 \in Int, n \in Int, FS_Interval
  <2>2. IsFiniteSet(S)
    BY <2>1, FS_Subset
  <2> QED BY <2>2, FS_CardinalityType
<1>3. CASE n = 0
  <2>1. S = {} BY <1>3
  <2>2. Cardinality(S) = 0 BY <2>1, FS_EmptySet
  <2>3. <<>> \in Increasing(0, S) BY DEF Increasing
  <2> QED BY <2>2, <2>3, <1>2
<1>4. CASE n # 0
  <2>1. n - 1 \in Nat /\ n - 1 \notin Bad
    BY <1>1, <1>4
  <2> DEFINE T == S \ {n}
  <2>2. T \in SUBSET (1..(n-1))
    BY <1>2, <1>1
  <2>3. PICK g : g \in Increasing(Cardinality(T), T)
    BY <2>1, <2>2
  <2>4. CASE n \notin S
    <3>1. T = S BY <2>4
    <3> QED BY <3>1, <2>3, <1>2
  <2>5. CASE n \in S
    <3> DEFINE c == Cardinality(T)
    <3>1. c \in Nat /\ Cardinality(S) = c + 1
      <4>1. IsFiniteSet(S \ {n}) /\ Cardinality(S \ {n}) = Cardinality(S) - 1
        BY <1>0, <2>5, FS_RemoveElement
      <4>2. Cardinality(T) \in Nat
        BY <4>1, FS_CardinalityType
      <4> QED BY <4>1, <4>2, <1>0
    <3> DEFINE h == [i \in 1..(c+1) |-> IF i = c + 1 THEN n ELSE g[i]]
    <3> HIDE DEF c
    <3>2. g \in [1..c -> T] /\ \A i, j \in 1..c : i < j => g[i] < g[j]
      BY <2>3 DEF Increasing, c
    <3>3. h \in [1..(c+1) -> S]
      BY <3>1, <3>2, <2>5
    <3>4. \A i \in 1..c : g[i] \in 1..(n-1)
      BY <3>2, <2>2
    <3>5. ASSUME NEW i \in 1..(c+1), NEW j \in 1..(c+1), i < j PROVE h[i] < h[j]
      <4>1. i \in 1..c BY <3>5, <3>1
      <4>2. CASE j = c + 1 BY <4>1, <4>2, <3>4, <1>1, <3>1
      <4>3. CASE j # c + 1 
        <5>1. j \in 1..c BY <4>3, <3>1
        <5> QED BY <5>1, <4>1, <3>5, <3>2, <3>1
      <4> QED BY <4>2, <4>3
    <3> HIDE DEF h
    <3>6. h \in Increasing(Cardinality(S), S)
      BY <3>1, <3>3, <3>5 DEF Increasing
    <3> QED BY <3>6, <1>2
  <2> QED BY <2>4, <2>5
<1> QED BY <1>1, <1>3, <1>4

(***************************************************************************)
(* Enum enumerates the places it is given, from the least on.              *)
(***************************************************************************)
LEMMA EnumIncreases ==
  ASSUME NEW n \in Nat, NEW S \in SUBSET (1..n)
  PROVE  Enum(S) \in Increasing(Cardinality(S), S)
<1>1. Increasing(Cardinality(S), S) # {}
  BY EnumExists
<1> QED BY <1>1 DEF Enum

\* A set of positions of a list is finite.
LEMMA PlacesFinite ==
  ASSUME NEW n \in Nat, NEW S \in SUBSET (1..n)
  PROVE  IsFiniteSet(S) /\ Cardinality(S) \in Nat
<1>1. IsFiniteSet(1..n)
  BY 1 \in Int, n \in Int, FS_Interval
<1>2. IsFiniteSet(S)
  BY <1>1, FS_Subset
<1> QED BY <1>2, FS_CardinalityType

(***************************************************************************)
(* Picking members of a list of backends gives a list of backends.         *)
(***************************************************************************)
LEMMA PickType ==
  ASSUME NEW P, NEW list \in Seq(P), NEW S \in SUBSET (DOMAIN list)
  PROVE  Pick(list, S) \in Seq(P)
<1>1. Len(list) \in Nat /\ DOMAIN list = 1..Len(list)
  OBVIOUS
<1>2. Enum(S) \in Increasing(Cardinality(S), S)
  BY <1>1, EnumIncreases
<1>3. Cardinality(S) \in Nat
  BY <1>1, PlacesFinite
<1>4. \A k \in 1..Cardinality(S) : list[Enum(S)[k]] \in P
  BY <1>2 DEF Increasing
<1> QED BY <1>3, <1>4 DEF Pick

(***************************************************************************)
(* Unlinking a backend leaves a list of backends.                          *)
(***************************************************************************)
LEMMA DeleteType ==
  ASSUME NEW P, NEW list \in Seq(P), NEW p
  PROVE  proclist_delete(list, p) \in Seq(P)
BY PickType DEF proclist_delete
-----------------------------------------------------------------------------
(* Lists without repetition                                                *)

\* A backend on a list, and a list on which nobody is twice.
On(q, list) == \E i \in DOMAIN list : list[i] = q
Distinct(list) == \A i, j \in DOMAIN list : list[i] = list[j] => i = j

(***************************************************************************)
(* What Pick returns, place by place: each member of S once, in order.     *)
(***************************************************************************)
LEMMA PickPlaces ==
  ASSUME NEW P, NEW list \in Seq(P), NEW S \in SUBSET (DOMAIN list), NEW picked, picked = Pick(list, S)
  PROVE  /\ picked \in Seq(P)
         /\ \E g \in [DOMAIN picked -> S] :
              /\ \A k \in DOMAIN picked : picked[k] = list[g[k]]
              /\ \A k, m \in DOMAIN picked : k < m => g[k] < g[m]
              /\ \A i \in S : \E k \in DOMAIN picked : g[k] = i
<1>1. Len(list) \in Nat /\ DOMAIN list = 1..Len(list)
  OBVIOUS
<1>2. PICK g : g = Enum(S)
  OBVIOUS
<1>3. PICK c : c = Cardinality(S)
  OBVIOUS
<1>4. IsFiniteSet(S) /\ c \in Nat
  BY <1>1, <1>3, PlacesFinite
<1>5. g \in [1..c -> S] /\ \A i, j \in 1..c : i < j => g[i] < g[j]
  BY <1>1, <1>2, <1>3, EnumIncreases DEF Increasing
<1>6. picked = [k \in 1..c |-> list[g[k]]]
  BY <1>2, <1>3 DEF Pick
<1>7. picked \in Seq(P) /\ DOMAIN picked = 1..c
  <2>1. \A k \in 1..c : list[g[k]] \in P
    BY <1>5
  <2> QED BY <1>4, <1>6, <2>1
<1>8. ASSUME NEW i \in S, \A k \in 1..c : g[k] # i PROVE FALSE
  <2>1. \A k, m \in 1..c : g[k] = g[m] => k = m
    <3> SUFFICES ASSUME NEW k \in 1..c, NEW m \in 1..c, g[k] = g[m], k # m PROVE FALSE
      OBVIOUS
    <3>1. g[k] \in 1..Len(list) /\ g[m] \in 1..Len(list)
      BY <1>1, <1>5
    <3>2. k < m \/ m < k
      BY <1>4
    <3>3. g[k] < g[m] \/ g[m] < g[k]
      BY <1>5, <3>2
    <3> QED BY <1>1, <3>1, <3>3
  <2>2. g \in Injection(1..c, S \ {i})
    BY <1>5, <1>8, <2>1 DEF Injection, IsInjective
  <2>3. IsFiniteSet(S \ {i}) /\ Cardinality(S \ {i}) = c - 1
    BY <1>3, <1>4, FS_RemoveElement
  <2>4. Cardinality(1..c) <= Cardinality(S \ {i})
    BY <2>2, <2>3, FS_Injection
  <2>5. Cardinality(1..c) = c
    <3>1. 1 \in Int /\ c \in Int
      BY <1>4
    <3>2. Cardinality(1..c) = IF 1 > c THEN 0 ELSE c - 1 + 1
      BY <3>1, FS_Interval
    <3> QED BY <1>4, <3>2
  <2> QED BY <1>4, <2>3, <2>4, <2>5
<1> QED BY <1>5, <1>6, <1>7, <1>8

(***************************************************************************)
(* Who is on a part of a list without repetition: those at the places      *)
(* picked; nobody twice, and in the order they had.                        *)
(***************************************************************************)
LEMMA PickOn ==
  ASSUME NEW P, NEW list \in Seq(P), NEW S \in SUBSET (DOMAIN list), Distinct(list),
         NEW picked, picked = Pick(list, S)
  PROVE  /\ picked \in Seq(P) /\ Distinct(picked)
         /\ \A q : On(q, picked) <=> \E i \in S : list[i] = q
         /\ \A k, m \in DOMAIN picked : k < m =>
              \E i, j \in S : i < j /\ picked[k] = list[i] /\ picked[m] = list[j]
         /\ picked = <<>> <=> S = {}
<1>1. picked \in Seq(P)
  BY PickPlaces
<1>2. PICK g \in [DOMAIN picked -> S] :
              /\ \A k \in DOMAIN picked : picked[k] = list[g[k]]
              /\ \A k, m \in DOMAIN picked : k < m => g[k] < g[m]
              /\ \A i \in S : \E k \in DOMAIN picked : g[k] = i
  BY PickPlaces
<1>3. Distinct(picked)
  <2> SUFFICES ASSUME NEW k \in DOMAIN picked, NEW m \in DOMAIN picked, picked[k] = picked[m], k # m PROVE FALSE
    BY DEF Distinct
  <2>1. g[k] = g[m]
    BY <1>2 DEF Distinct
  <2>2. k < m \/ m < k
    BY <1>1
  <2>3. g[k] < g[m] \/ g[m] < g[k]
    BY <1>2, <2>2
  <2>4. g[k] \in Nat
    BY <1>2
  <2> QED BY <2>1, <2>3, <2>4
<1>4. \A q : On(q, picked) <=> \E i \in S : list[i] = q
  BY <1>2 DEF On
<1>5. picked = <<>> <=> S = {}
  <2>1. picked = <<>> <=> DOMAIN picked = {}
    BY <1>1
  <2> QED BY <1>2, <2>1
<1> QED BY <1>1, <1>2, <1>3, <1>4, <1>5

\* Who is on a list after proclist_push_tail, proclist_push_head and proclist_delete.
LEMMA PushTailOn ==
  ASSUME NEW P, NEW list \in Seq(P), NEW p \in P, ~On(p, list), Distinct(list), NEW longer, longer = proclist_push_tail(list, p)
  PROVE  /\ longer \in Seq(P) /\ Distinct(longer) /\ longer # <<>>
         /\ \A q : On(q, longer) <=> q = p \/ On(q, list)
         /\ Len(longer) = Len(list) + 1 /\ longer[Len(list) + 1] = p /\ \A i \in 1..Len(list) : longer[i] = list[i]
<1>1. longer \in Seq(P) /\ Len(longer) = Len(list) + 1 /\ DOMAIN longer = 1..(Len(list) + 1) /\ DOMAIN list = 1..Len(list) /\ Len(list) \in Nat
  BY DEF proclist_push_tail
<1>2. longer[Len(list) + 1] = p /\ \A i \in 1..Len(list) : longer[i] = list[i]
  BY DEF proclist_push_tail
<1>3. \A i \in 1..(Len(list) + 1) : i \in 1..Len(list) \/ i = Len(list) + 1
  BY <1>1
<1>4. \A i \in 1..Len(list) : i \in 1..(Len(list) + 1)
  BY <1>1
<1>5. Len(list) + 1 \in 1..(Len(list) + 1)
  BY <1>1
<1>6. \A q : On(q, longer) <=> q = p \/ On(q, list)
  BY <1>1, <1>2, <1>3, <1>4, <1>5 DEF On
<1>7. Distinct(longer)
  BY <1>1, <1>2, <1>3 DEF Distinct, On
<1> QED BY <1>1, <1>2, <1>6, <1>7

\* The same for the head.
LEMMA PushHeadOn ==
  ASSUME NEW P, NEW list \in Seq(P), NEW p \in P, ~On(p, list), Distinct(list), NEW longer, longer = proclist_push_head(list, p)
  PROVE  /\ longer \in Seq(P) /\ Distinct(longer) /\ longer # <<>>
         /\ \A q : On(q, longer) <=> q = p \/ On(q, list)
         /\ Len(longer) = Len(list) + 1 /\ longer[1] = p /\ \A i \in 1..Len(list) : longer[i + 1] = list[i]
<1>1. longer \in Seq(P) /\ Len(longer) = Len(list) + 1 /\ DOMAIN longer = 1..(Len(list) + 1) /\ DOMAIN list = 1..Len(list) /\ Len(list) \in Nat
  BY DEF proclist_push_head
<1>2. longer[1] = p /\ \A i \in 1..Len(list) : longer[i + 1] = list[i]
  BY DEF proclist_push_head
<1>3. \A i \in 1..(Len(list) + 1) : i = 1 \/ (i - 1 \in 1..Len(list) /\ i = (i - 1) + 1)
  BY <1>1
<1>4. \A i \in 1..Len(list) : i + 1 \in 1..(Len(list) + 1)
  BY <1>1
<1>5. 1 \in 1..(Len(list) + 1)
  BY <1>1
<1>6. \A i \in 1..(Len(list) + 1) : i = 1 \/ \E j \in 1..Len(list) : i = j + 1 /\ longer[i] = list[j]
  BY <1>2, <1>3
<1>7. \A q : On(q, longer) <=> q = p \/ On(q, list)
  <2>1. ASSUME NEW q, On(q, longer) PROVE q = p \/ On(q, list)
    <3>1. PICK i \in 1..(Len(list) + 1) : longer[i] = q
      BY <1>1, <2>1 DEF On
    <3>2. CASE i = 1
      BY <1>2, <3>1, <3>2
    <3>3. CASE \E j \in 1..Len(list) : i = j + 1 /\ longer[i] = list[j]
      BY <1>1, <3>1, <3>3 DEF On
    <3> QED BY <1>6, <3>2, <3>3
  <2>2. ASSUME NEW q, On(q, list) PROVE On(q, longer)
    <3>1. PICK i \in 1..Len(list) : list[i] = q
      BY <1>1, <2>2 DEF On
    <3>2. longer[i + 1] = q /\ i + 1 \in 1..(Len(list) + 1)
      BY <1>2, <1>4, <3>1
    <3> QED BY <1>1, <3>2 DEF On
  <2>3. On(p, longer)
    BY <1>1, <1>2, <1>5 DEF On
  <2> QED BY <2>1, <2>2, <2>3
<1>8. Distinct(longer)
  <2> SUFFICES ASSUME NEW i \in 1..(Len(list) + 1), NEW j \in 1..(Len(list) + 1), longer[i] = longer[j] PROVE i = j
    BY <1>1 DEF Distinct
  <2>1. ASSUME NEW k \in 1..Len(list) PROVE list[k] # p
    BY <1>1 DEF On
  <2>2. CASE i = 1 \/ j = 1
    BY <1>2, <1>6, <2>1, <2>2, SMTT(30)
  <2>3. CASE i # 1 /\ j # 1
    <3>1. PICK k \in 1..Len(list) : i = k + 1 /\ longer[i] = list[k]
      BY <1>6, <2>3
    <3>2. PICK m \in 1..Len(list) : j = m + 1 /\ longer[j] = list[m]
      BY <1>6, <2>3
    <3>3. k = m
      BY <1>1, <3>1, <3>2 DEF Distinct
    <3> QED BY <3>1, <3>2, <3>3
  <2> QED BY <2>2, <2>3
<1> QED BY <1>1, <1>2, <1>7, <1>8

\* proclist_delete takes p off and nobody else.
LEMMA DeleteOn ==
  ASSUME NEW P, NEW list \in Seq(P), Distinct(list), NEW p, NEW rest, rest = proclist_delete(list, p)
  PROVE  /\ rest \in Seq(P) /\ Distinct(rest)
         /\ \A q : On(q, rest) <=> q # p /\ On(q, list)
         /\ \A k, m \in DOMAIN rest : k < m =>
              \E i, j \in DOMAIN list : i < j /\ rest[k] = list[i] /\ rest[m] = list[j]
<1>1. PICK S : S = {i \in DOMAIN list : list[i] # p}
  OBVIOUS
<1>2. S \in SUBSET (DOMAIN list) /\ rest = Pick(list, S)
  BY <1>1 DEF proclist_delete
<1>3. /\ rest \in Seq(P) /\ Distinct(rest)
      /\ \A q : On(q, rest) <=> \E i \in S : list[i] = q
      /\ \A k, m \in DOMAIN rest : k < m =>
              \E i, j \in S : i < j /\ rest[k] = list[i] /\ rest[m] = list[j]
  BY <1>2, PickOn
<1>4. \A q : (\E i \in S : list[i] = q) <=> q # p /\ On(q, list)
  BY <1>1 DEF On
<1> QED BY <1>1, <1>3, <1>4

\* The head of a list without repetition is not on its tail.
LEMMA TailOn ==
  ASSUME NEW P, NEW list \in Seq(P), list # <<>>, Distinct(list)
  PROVE  /\ Head(list) \in P /\ Tail(list) \in Seq(P) /\ Distinct(Tail(list))
         /\ \A q : On(q, Tail(list)) <=> q # Head(list) /\ On(q, list)
<1>1. /\ Head(list) \in P /\ Tail(list) \in Seq(P) /\ Head(list) = list[1] /\ Len(list) \in Nat \ {0} /\ DOMAIN list = 1..Len(list)
      /\ DOMAIN Tail(list) = 1..(Len(list) - 1) /\ \A i \in 1..(Len(list) - 1) : Tail(list)[i] = list[i + 1]
  OBVIOUS
<1>2. \A i \in 1..(Len(list) - 1) : i + 1 \in 1..Len(list) /\ i + 1 # 1
  BY <1>1
<1>3. \A i \in 1..Len(list) : i = 1 \/ (i - 1 \in 1..(Len(list) - 1) /\ i = (i - 1) + 1)
  BY <1>1
<1>4. 1 \in 1..Len(list)
  BY <1>1
<1>5. Distinct(Tail(list))
  <2> SUFFICES ASSUME NEW i \in 1..(Len(list) - 1), NEW j \in 1..(Len(list) - 1), list[i + 1] = list[j + 1] PROVE i = j
    BY <1>1 DEF Distinct
  <2>1. i + 1 = j + 1
    BY <1>1, <1>2 DEF Distinct
  <2> QED BY <1>1, <2>1
<1>6. \A q : On(q, Tail(list)) => q # Head(list) /\ On(q, list)
  BY <1>1, <1>2, <1>4 DEF On, Distinct
<1>7. ASSUME NEW q, q # Head(list), On(q, list) PROVE On(q, Tail(list))
  <2>1. PICK i \in 1..Len(list) : list[i] = q
    BY <1>1, <1>7 DEF On
  <2>2. i - 1 \in 1..(Len(list) - 1) /\ i = (i - 1) + 1
    BY <1>1, <1>3, <1>7, <2>1
  <2>3. Tail(list)[i - 1] = q
    BY <1>1, <2>1, <2>2
  <2> QED BY <1>1, <2>2, <2>3 DEF On
<1> QED BY <1>1, <1>5, <1>6, <1>7

\* How often somebody is on a list without repetition.
LEMMA OccursOnce ==
  ASSUME NEW P, NEW list \in Seq(P), Distinct(list), NEW q
  PROVE  Occurs(q, list) = IF On(q, list) THEN 1 ELSE 0
<1>1. PICK S : S = {i \in DOMAIN list : list[i] = q}
  OBVIOUS
<1>2. CASE On(q, list)
  <2>1. PICK i \in DOMAIN list : S = {i}
    BY <1>1, <1>2 DEF On, Distinct
  <2> QED BY <1>1, <1>2, <2>1, FS_Singleton DEF Occurs
<1>3. CASE ~On(q, list)
  <2>1. S = {}
    BY <1>1, <1>3 DEF On
  <2> QED BY <1>1, <1>3, <2>1, FS_EmptySet DEF Occurs
<1> QED BY <1>2, <1>3

(***************************************************************************)
(* The invariant.                                                          *)
(***************************************************************************)

Busy(p) == pc[p] \notin {"idle", "releaseAll"}
Waking  == {"wakeLock", "wakeScan", "wakeFlag", "wakePost"}
Seeking == {"attempt", "backout", "queueLock", "queueFlag", "queuePush", "sleep",
            "releaseOk", "varReleaseOk", "varState", "varValue"}

\* What the place of a backend in its call says about its other state: at
\* which site it wakes others, that it still must wait while it seeks the
\* lock, and that it has no record of the lock it seeks or gives back.
PlaceAt(p) ==
  /\ site[p] = "var" /\ Busy(p) =>
       pc[p] \in {"updateLock", "updateScan", "wakeFlag", "wakePost"}
  /\ site[p] = "release" /\ Busy(p) => pc[p] \in Waking \cup {"release"}
  /\ pc[p] \in {"updateLock", "updateScan"} => site[p] = "var"
  /\ pc[p] = "release" => site[p] = "release"
  /\ pc[p] = "wakePost" => wakeup[p] # <<>>
  /\ \/ pc[p] \in Seeking
     \/ pc[p] \in Waking /\ site[p] \notin {"release", "var"}
     => mustwait[p]
  /\ Busy(p) /\ site[p] # "var" => held[p][Lock(p)] = "none"
  /\ Busy(p) /\ call[p].op = "waitForVar" => mustwait[p]
  /\ pc[p] = "attempt" => call[p].op # "waitForVar"
  /\ pc[p] = "releaseOk" => call[p].op = "acquire"

PlaceOK == \A p \in Procs : PlaceAt(p)

\* Interrupts are held off once for each recorded lock and once for the call
\* in progress, except in LWLockReleaseAll, which starts from nothing.
HoldoffAt(p) ==
  /\ pc[p] = "releaseAll" => holdoff[p] = 0
  /\ Busy(p) /\ call[p].op = "releaseAll" => holdoff[p] = 1 /\ site[p] = "release"
  /\ pc[p] = "idle" => holdoff[p] = NumHeld(p)
  /\ Busy(p) /\ call[p].op # "releaseAll" /\ site[p] = "var"
       => holdoff[p] = NumHeld(p)
  /\ Busy(p) /\ call[p].op # "releaseAll" /\ site[p] # "var"
       => holdoff[p] = NumHeld(p) + 1

HoldoffOK == \A p \in Procs : HoldoffAt(p)

\* The inductive invariant.
IInv ==
  /\ TypeOK
  /\ PlaceOK
  /\ HoldoffOK
  /\ MutualExclusion
  /\ WordCountsOwners


-----------------------------------------------------------------------------
(* Where the continuations lead                                            *)

\* Where a call goes on after a failed attempt, after a successful one and after its sleep.
LEMMA Continuations ==
  ASSUME NEW p \in Procs
  PROVE  /\ AfterFail(p) \in {"return", "sleep", "queueLock"}
         /\ AfterGot(p) \in {"dequeueLock", "return"}
         /\ AfterSleep(p) \in {"releaseOk", "varState", "return"}
BY DEF AfterFail, AfterGot, AfterSleep

(***************************************************************************)
(* A backend that owns a share, or has one to back out, is counted, so the *)
(* fetch_sub that gives the share back never takes the count below zero.   *)
(***************************************************************************)
LEMMA SharePositive ==
  ASSUME IInv, NEW l \in Locks, NEW p \in Sharers(l)
  PROVE  word[l].shares \in Nat \ {0}
<1>1. Sharers(l) \in SUBSET Procs
  BY DEF Sharers
<1>2. IsFiniteSet(Sharers(l))
  BY <1>1, LWLockAssumption, FS_Subset
<1>3. Cardinality(Sharers(l)) \in Nat /\ Cardinality(Sharers(l)) # 0
  BY <1>2, FS_CardinalityType, FS_EmptySet
<1> QED BY <1>3 DEF IInv, WordCountsOwners

\* The scans of the wait list produce lists of backends.
LEMMA ScanTypes ==
  ASSUME TypeOK, NEW l \in Locks
  PROVE  /\ Woken(waiters[l]) \in SUBSET (DOMAIN waiters[l])
         /\ Pick(waiters[l], Woken(waiters[l])) \in Seq(Procs)
         /\ Pick(waiters[l], DOMAIN waiters[l] \ Woken(waiters[l])) \in Seq(Procs)
<1> DEFINE list == waiters[l]
<1>1. list \in Seq(Procs)
  BY DEF TypeOK
<1> HIDE DEF list
<1>2. Wanting(list) \in SUBSET (1..Len(list)) /\ Len(list) \in Nat
  BY <1>1 DEF Wanting
<1>3. ASSUME Wanting(list) # {} PROVE First(Wanting(list)) \in 1..Len(list)
  <2>1. \E i \in Wanting(list) : \A j \in Wanting(list) : i <= j
    BY <1>2, <1>3, LeastNatural
  <2> QED BY <2>1, <1>2 DEF First
<1>4. Woken(list) \in SUBSET (DOMAIN list)
  BY <1>1, <1>2, <1>3 DEF Woken
<1> QED BY <1>1, <1>4, PickType DEF list

-----------------------------------------------------------------------------
(* Every step preserves the types                                          *)

\* A request that enters the lock code.
LEMMA RequestType ==
  ASSUME TypeOK, NEW p \in Procs, NEW s \in PCs, NEW op \in Ops, NEW l \in Locks,
         NEW m \in Modes, NEW v \in Vals, Request(p, s, op, l, m, v)
  PROVE  TypeOK'
<1>1. [op |-> op, lock |-> l, mode |-> m, oldval |-> v] \in Calls
  BY DEF Calls
<1>2. call' \in [Procs -> Calls] /\ pc' \in [Procs -> PCs] /\ budget' \in Nat
  BY <1>1 DEF TypeOK, Request, Enter, Goto
<1>3. /\ holdoff' \in [Procs -> Nat] /\ site' \in [Procs -> Sites]
      /\ mustwait' \in [Procs -> BOOLEAN]
  BY DEF TypeOK, Request, Sites
<1> QED BY <1>2, <1>3 DEF TypeOK, Request, shared, proc

\* The entry of a call keeps the types.
LEMMA CallType ==
  ASSUME TypeOK, NEW p \in Procs, Call(p) PROVE TypeOK'
<1>0. /\ {"attempt", "varState", "updateLock"} \subseteq PCs
      /\ {"acquire", "conditional", "acquireOrWait", "waitForVar", "updateVar"}
           \subseteq Ops
      /\ "LW_SHARED" \in Modes /\ "LW_EXCLUSIVE" \in Modes
      /\ 0 \in Vals
  BY LWLockAssumption DEF PCs, Ops, Modes
<1>1. ASSUME NEW l \in Locks, NEW m \in Modes,
             \/ LWLockAcquire(p, l, m)
             \/ LWLockConditionalAcquire(p, l, m)
             \/ LWLockAcquireOrWait(p, l, m)
      PROVE  TypeOK'
  BY <1>0, <1>1, RequestType
     DEF LWLockAcquire, LWLockConditionalAcquire, LWLockAcquireOrWait
<1>2. ASSUME NEW l \in Locks, NEW v \in Vals, LWLockWaitForVar(p, l, v)
      PROVE  TypeOK'
  BY <1>0, <1>2, RequestType DEF LWLockWaitForVar
<1>3. ASSUME NEW l \in Locks, NEW v \in Vals, LWLockUpdateVar(p, l, v)
      PROVE  TypeOK'
  <2>1. [op |-> "updateVar", lock |-> l, mode |-> "LW_EXCLUSIVE", oldval |-> 0]
          \in Calls
    BY <1>0 DEF Calls
  <2>2. call' \in [Procs -> Calls] /\ pc' \in [Procs -> PCs] /\ budget' \in Nat
    BY <1>0, <1>3, <2>1 DEF TypeOK, LWLockUpdateVar, Enter, Goto
  <2>3. var' \in [Locks -> Vals] /\ site' \in [Procs -> Sites]
    BY <1>3 DEF TypeOK, LWLockUpdateVar, Sites
  <2> QED BY <1>3, <2>2, <2>3 DEF TypeOK, LWLockUpdateVar, proc, mine
<1> QED BY <1>1, <1>2, <1>3 DEF Call

\* A backend that disowns a lock and goes on to give it back.
LEMMA GiveBackType ==
  ASSUME TypeOK, NEW p \in Procs, GiveBack(p) \/ ReleaseAllNext(p) PROVE TypeOK'
<1>0. /\ {"release", "releaseAll", "idle"} \subseteq PCs
      /\ {"release", "releaseAll"} \subseteq Ops
      /\ 0 \in Vals /\ "release" \in Sites
  BY LWLockAssumption DEF PCs, Ops, Sites
<1>1. ASSUME NEW l \in Locks, NEW op \in {"release", "releaseAll"}, Disown(p, l)
      PROVE  /\ held' \in [Procs -> [Locks -> Modes \cup {"none"}]]
             /\ [op |-> op, lock |-> l, mode |-> held[p][l], oldval |-> 0] \in Calls
  <2>1. held[p][l] \in Modes
    BY <1>1 DEF TypeOK, Disown
  <2>2. held' = [held EXCEPT ![p] = [held[p] EXCEPT ![l] = "none"]]
    BY <1>1 DEF Disown
  <2>3. held' \in [Procs -> [Locks -> Modes \cup {"none"}]]
    BY <2>2 DEF TypeOK
  <2> QED BY <1>0, <2>1, <2>3 DEF Calls
<1>2. ASSUME NEW l \in Locks, LWLockRelease(p, l) PROVE TypeOK'
  <2>1. call' \in [Procs -> Calls] /\ pc' \in [Procs -> PCs]
    BY <1>0, <1>1, <1>2 DEF TypeOK, LWLockRelease, Enter, Goto
  <2> QED BY <1>0, <1>1, <1>2, <2>1 DEF TypeOK, LWLockRelease, shared, proc
<1>3. ASSUME NEW l \in Locks, LWLockReleaseClearVar(p, l) PROVE TypeOK'
  <2>1. call' \in [Procs -> Calls] /\ pc' \in [Procs -> PCs]
    BY <1>0, <1>1, <1>3 DEF TypeOK, LWLockReleaseClearVar, Enter, Goto
  <2> QED BY <1>0, <1>1, <1>3, <2>1 DEF TypeOK, LWLockReleaseClearVar, proc
<1>4. ASSUME LWLockReleaseAll(p) PROVE TypeOK'
  BY <1>0, <1>4 DEF TypeOK, LWLockReleaseAll, Goto, shared, proc
<1>5. ASSUME NEW l \in Locks,
             Disown(p, l),
             call' = [call EXCEPT ![p] = [op |-> "releaseAll", lock |-> l,
                                          mode |-> held[p][l], oldval |-> 0]],
             holdoff' = [holdoff EXCEPT ![p] = @ + 1],
             site' = [site EXCEPT ![p] = "release"],
             Goto(p, "release"),
             UNCHANGED <<shared, proc, mustwait, extraWaits, wakeup, budget, stray>>
      PROVE  TypeOK'
  <2>1. call' \in [Procs -> Calls] /\ pc' \in [Procs -> PCs]
    BY <1>0, <1>1, <1>5 DEF TypeOK, Goto
  <2>2. holdoff' \in [Procs -> Nat] /\ site' \in [Procs -> Sites]
    BY <1>0, <1>5 DEF TypeOK
  <2>3. held' \in [Procs -> [Locks -> Modes \cup {"none"}]]
    BY <1>1, <1>5
  <2> QED BY <1>5, <2>1, <2>2, <2>3 DEF TypeOK, shared, proc
<1>6. ASSUME Goto(p, "idle"), UNCHANGED <<mine, call, site>>,
             UNCHANGED <<shared, proc, mustwait, extraWaits, wakeup, budget, stray>>
      PROVE  TypeOK'
  BY <1>0, <1>6 DEF TypeOK, Goto, shared, proc, mine
<1>7. CASE ReleaseAllNext(p)
  BY <1>5, <1>6, <1>7 DEF ReleaseAllNext
<1> QED BY <1>2, <1>3, <1>4, <1>7 DEF GiveBack

\* A lock word whose parts change within their types is a lock word.
LEMMA WordType ==
  ASSUME TypeOK, NEW l \in Locks
  PROVE  /\ word[l] \in Word
         /\ \A w \in Word : [word EXCEPT ![l] = w] \in [Locks -> Word]
         /\ \A b \in BOOLEAN :
              /\ [word EXCEPT ![l].locked = b] \in [Locks -> Word]
              /\ [word EXCEPT ![l].releaseOk = b] \in [Locks -> Word]
              /\ [word EXCEPT ![l].hasWaiters = b] \in [Locks -> Word]
              /\ [word EXCEPT ![l].exclusive = b] \in [Locks -> Word]
         /\ [word EXCEPT ![l].shares = @ + 1] \in [Locks -> Word]
<1>1. word \in [Locks -> Word] /\ word[l] \in Word
  BY DEF TypeOK
<1>2. \A b \in BOOLEAN :
              /\ [word[l] EXCEPT !.locked = b] \in Word
              /\ [word[l] EXCEPT !.releaseOk = b] \in Word
              /\ [word[l] EXCEPT !.hasWaiters = b] \in Word
              /\ [word[l] EXCEPT !.exclusive = b] \in Word
  BY <1>1 DEF Word
<1>3. [word[l] EXCEPT !.shares = @ + 1] \in Word
  BY <1>1 DEF Word
<1>4. \A w \in Word : [word EXCEPT ![l] = w] \in [Locks -> Word]
  BY <1>1
<1> QED BY <1>1, <1>2, <1>3, <1>4

\* Giving back a share that is counted.
LEMMA DropType ==
  ASSUME IInv, NEW l \in Locks, NEW p \in Sharers(l)
  PROVE  DropShare(word[l]) \in Word
<1>1. word[l].shares \in Nat \ {0}
  BY SharePositive
<1>2. word[l] \in Word
  BY DEF IInv, TypeOK
<1> QED BY <1>1, <1>2 DEF Word, DropShare

\* An attempt and its backout keep the types; a share taken back was counted.
LEMMA AttemptType ==
  ASSUME IInv, NEW p \in Procs,
         LWLockAttemptLock(p) \/ LWLockAttemptLockBackout(p)
  PROVE  TypeOK'
<1>0. /\ TypeOK /\ Lock(p) \in Locks
      /\ {"return", "sleep", "queueLock", "dequeueLock", "backout", "wakeLock"}
           \subseteq PCs
  BY DEF IInv, TypeOK, Calls, Lock, PCs
<1>1. AfterFail(p) \in PCs /\ AfterGot(p) \in PCs
  BY <1>0, Continuations
<1>2. CASE LWLockAttemptLock(p)
  <2>1. word' \in [Locks -> Word]
    <3>1. CASE AttemptExclusive(p)
      <4>1. word \in [Locks -> Word]
        BY <1>0 DEF TypeOK
      <4>2. \/ word' = [word EXCEPT ![Lock(p)].exclusive = TRUE]
            \/ word' = word
        BY <3>1 DEF AttemptExclusive
      <4>3. [word EXCEPT ![Lock(p)].exclusive = TRUE] \in [Locks -> Word]
        BY <1>0, WordType
      <4> QED BY <4>1, <4>2, <4>3
    <3>2. CASE AttemptShared(p)
      BY <1>0, <3>2, WordType DEF AttemptShared
    <3> QED BY <1>2, <3>1, <3>2 DEF LWLockAttemptLock
  <2>2. pc' \in [Procs -> PCs] /\ mustwait' \in [Procs -> BOOLEAN]
    BY <1>0, <1>1, <1>2, ZenonT(60)
       DEF LWLockAttemptLock, AttemptExclusive, AttemptShared, TypeOK, Goto
  <2> QED BY <1>0, <1>2, <2>1, <2>2 DEF LWLockAttemptLock, TypeOK, proc, mine
<1>3. CASE LWLockAttemptLockBackout(p)
  <2>1. p \in Sharers(Lock(p))
    BY <1>3 DEF LWLockAttemptLockBackout, At, Sharers, Transient
  <2>2. word' \in [Locks -> Word]
    BY <1>0, <1>3, <2>1, WordType, DropType DEF LWLockAttemptLockBackout
  <2>3. pc' \in [Procs -> PCs]
    BY <1>0, <1>1, <1>3 DEF LWLockAttemptLockBackout, TypeOK, Goto
  <2> QED BY <1>0, <1>3, <2>2, <2>3 DEF LWLockAttemptLockBackout, TypeOK, proc, mine
<1> QED BY <1>2, <1>3

\* LWLockRelease holds interrupts off at least once.
LEMMA FinishType ==
  ASSUME IInv, NEW p \in Procs, FinishRelease(p),
         Busy(p), site[p] = "release"
  PROVE  holdoff' \in [Procs -> Nat] /\ pc' \in [Procs -> PCs]
<1>1. NumHeld(p) \in Nat
  BY LWLockAssumption, FS_Subset, FS_CardinalityType DEF NumHeld
<1>2. holdoff[p] \in Nat \ {0}
  BY <1>1 DEF IInv, HoldoffOK, HoldoffAt
<1>3. holdoff' \in [Procs -> Nat]
  BY <1>2 DEF IInv, TypeOK, FinishRelease
<1> QED BY <1>3 DEF IInv, TypeOK, FinishRelease, Goto, PCs

\* A release keeps the types; what it takes from the word was counted.
LEMMA ReleaseType ==
  ASSUME IInv, NEW p \in Procs, LWLockReleaseInternal(p)
  PROVE  TypeOK'
<1>0. /\ TypeOK /\ Lock(p) \in Locks /\ call[p].mode \in Modes
      /\ At(p, "release") /\ Busy(p) /\ site[p] = "release"
      /\ held[p][Lock(p)] = "none"
  BY DEF IInv, TypeOK, Calls, Lock, At, LWLockReleaseInternal, PlaceOK, PlaceAt, Busy
<1>1. CASE call[p].mode = "LW_EXCLUSIVE"
  <2>1. word' \in [Locks -> Word]
    BY <1>0, <1>1, WordType DEF LWLockReleaseInternal
  <2> QED BY <1>0, <1>1, <2>1, FinishType
          DEF LWLockReleaseInternal, TypeOK, proc, Goto, PCs
<1>2. CASE call[p].mode # "LW_EXCLUSIVE"
  <2>1. p \in Sharers(Lock(p))
    BY <1>0, <1>2 DEF Sharers, Owns, At, Modes
  <2>2. word' \in [Locks -> Word]
    BY <1>0, <1>2, <2>1, WordType, DropType DEF LWLockReleaseInternal
  <2> QED BY <1>0, <1>2, <2>2, FinishType
          DEF LWLockReleaseInternal, TypeOK, proc, Goto, PCs
<1> QED BY <1>1, <1>2

\* LWLockWakeup, LWLockUpdateVar and the taking of a list's lock keep the types.
LEMMA WakeType ==
  ASSUME IInv, NEW p \in Procs,
         \/ WakeLock(p) \/ WakeScan(p) \/ WakeFlag(p) \/ WakePost(p) \/ WakeDone(p)
         \/ UpdateLock(p) \/ UpdateScan(p)
         \/ QueueLock(p) \/ DequeueLock(p)
  PROVE  TypeOK'
<1>0. /\ TypeOK /\ Lock(p) \in Locks
      /\ {"return", "sleep", "queueLock", "wakeScan", "wakeFlag", "wakePost",
          "updateScan", "queueFlag", "dequeueUnlink", "idle"} \subseteq PCs
      /\ "NOT_WAITING" \in WaitState /\ "PENDING_WAKEUP" \in WaitState
  BY DEF IInv, TypeOK, Calls, Lock, PCs, WaitState
<1>1. ASSUME NEW from, NEW to \in PCs, WaitListLock(p, from, to) PROVE TypeOK'
  <2>1. word' \in [Locks -> Word] /\ pc' \in [Procs -> PCs]
    BY <1>0, <1>1, WordType DEF WaitListLock, TypeOK, Goto
  <2> QED BY <1>0, <1>1, <2>1 DEF WaitListLock, TypeOK, proc, mine
<1>2. CASE WakeLock(p) \/ UpdateLock(p) \/ QueueLock(p) \/ DequeueLock(p)
  BY <1>0, <1>1, <1>2 DEF WakeLock, UpdateLock, QueueLock, DequeueLock
<1>3. ASSUME NEW woken PROVE MarkPending(woken) \in [Procs -> WaitState]
  BY <1>0 DEF MarkPending, Marked, TypeOK
<1>4. CASE WakeScan(p)
  <2>1. waiters' \in [Locks -> Seq(Procs)] /\ wakeup' \in [Procs -> Seq(Procs)]
    BY <1>0, <1>4, ScanTypes DEF WakeScan, TypeOK
  <2>2. lwWaiting' \in [Procs -> WaitState]
    BY <1>3, <1>4 DEF WakeScan
  <2>3. word' \in [Locks -> Word]
    <3>1. word \in [Locks -> Word]
      BY <1>0 DEF TypeOK
    <3>2. PICK a, b \in BOOLEAN :
            word' = [word EXCEPT ![Lock(p)].releaseOk = a, ![Lock(p)].hasWaiters = b,
                                 ![Lock(p)].locked = FALSE]
      <4>1. word[Lock(p)].hasWaiters \in BOOLEAN
        BY <1>0, <3>1 DEF Word
      <4> QED BY <1>4, <4>1 DEF WakeScan
    <3>3. [word[Lock(p)] EXCEPT !.releaseOk = a, !.hasWaiters = b, !.locked = FALSE]
            \in Word
      BY <1>0, <3>1 DEF Word
    <3> QED BY <1>0, <3>1, <3>2, <3>3
  <2> QED BY <1>0, <1>4, <2>1, <2>2, <2>3 DEF WakeScan, TypeOK, mine, Goto
<1>5. CASE UpdateScan(p)
  <2> DEFINE l == Lock(p)
             W == Wanting(waiters[l])
             n == IF W = {} THEN Len(waiters[l]) ELSE First(W) - 1
  <2>1. W \in SUBSET (1..Len(waiters[l])) /\ waiters[l] \in Seq(Procs)
    <3>1. waiters \in [Locks -> Seq(Procs)]
      BY <1>0 DEF TypeOK
    <3>2. waiters[l] \in Seq(Procs)
      BY <1>0, <3>1
    <3> QED BY <3>2 DEF Wanting
  <2>2. ASSUME W # {} PROVE First(W) \in 1..Len(waiters[l])
    <3>1. \E i \in W : \A j \in W : i <= j
      BY <2>1, <2>2, LeastNatural
    <3> QED BY <3>1, <2>1 DEF First
  <2>3. n \in 0..Len(waiters[l])
    BY <2>1, <2>2
  <2>4. /\ SubSeq(waiters[l], 1, n) \in Seq(Procs)
        /\ SubSeq(waiters[l], n + 1, Len(waiters[l])) \in Seq(Procs)
    <3> HIDE DEF n
    <3> QED BY <2>1, <2>3
  <2>5. waiters' \in [Locks -> Seq(Procs)] /\ wakeup' \in [Procs -> Seq(Procs)]
    BY <1>0, <1>5, <2>4 DEF UpdateScan, TypeOK
  <2>6. lwWaiting' \in [Procs -> WaitState]
    BY <1>3, <1>5 DEF UpdateScan
  <2>7. word' \in [Locks -> Word] /\ pc' \in [Procs -> PCs]
    BY <1>0, <1>5, WordType DEF UpdateScan, TypeOK, Goto
  <2> QED BY <1>0, <1>5, <2>5, <2>6, <2>7 DEF UpdateScan, TypeOK, mine
<1>6. CASE WakeFlag(p)
  BY <1>0, <1>6 DEF WakeFlag, TypeOK, shared, mine, Goto
<1>7. CASE WakePost(p)
  <2>0. /\ wakeup \in [Procs -> Seq(Procs)] /\ wakeup[p] # <<>>
        /\ sem \in [Procs -> Nat]
    BY <1>7 DEF WakePost, At, IInv, TypeOK, PlaceOK, PlaceAt
  <2>1. sem' \in [Procs -> Nat]
    BY <1>7, <2>0 DEF WakePost
  <2>2. wakeup' \in [Procs -> Seq(Procs)]
    <3>1. Tail(wakeup[p]) \in Seq(Procs)
      BY <2>0
    <3> QED BY <1>7, <2>0, <3>1 DEF WakePost
  <2> QED BY <1>0, <1>7, <2>1, <2>2 DEF WakePost, TypeOK, shared, mine, Goto
<1>8. CASE WakeDone(p)
  <2>1. Busy(p)
    BY <1>8 DEF WakeDone, At, Busy
  <2>2. holdoff' \in [Procs -> Nat] /\ pc' \in [Procs -> PCs]
    <3>1. CASE site[p] = "release"
      BY <1>8, <2>1, <3>1, FinishType DEF WakeDone
    <3>2. CASE site[p] # "release"
      <4>1. AfterFail(p) \in PCs
        BY <1>0, Continuations
      <4>2. /\ \/ pc' = [pc EXCEPT ![p] = "idle"]
               \/ pc' = [pc EXCEPT ![p] = AfterFail(p)]
            /\ holdoff' = holdoff
        BY <1>8, <3>2 DEF WakeDone, Goto
      <4> QED BY <1>0, <4>1, <4>2 DEF TypeOK
    <3> QED BY <3>1, <3>2
  <2> QED BY <1>0, <1>8, <2>2 DEF WakeDone, TypeOK, shared, proc
<1> QED BY <1>2, <1>4, <1>5, <1>6, <1>7, <1>8

\* Queueing, dequeueing and sleeping keep the types.
LEMMA QueueType ==
  ASSUME TypeOK, NEW p \in Procs,
         \/ QueueFlag(p) \/ QueuePush(p) \/ DequeueUnlink(p) \/ DequeueSleep(p)
         \/ DequeueReleaseOk(p) \/ AcquireReleaseOk(p) \/ VarReleaseOk(p)
         \/ WaitUntilAwakened(p)
  PROVE  TypeOK'
<1>0. /\ Lock(p) \in Locks
      /\ {"queuePush", "varReleaseOk", "attempt", "return", "dequeueReleaseOk",
          "dequeueSleep", "varState", "releaseOk"} \subseteq PCs
      /\ "WAITING" \in WaitState /\ "NOT_WAITING" \in WaitState
      /\ {"queued", "woken", "first"} \subseteq Sites
  BY DEF TypeOK, Calls, Lock, PCs, WaitState, Sites
<1>1. CASE QueueFlag(p)
  <2>1. word' \in [Locks -> Word] /\ pc' \in [Procs -> PCs]
    BY <1>0, <1>1, WordType DEF QueueFlag, TypeOK, Goto
  <2> QED BY <1>1, <2>1 DEF QueueFlag, TypeOK, proc, mine
<1>2. CASE QueuePush(p)
  <2>1. word' \in [Locks -> Word] /\ pc' \in [Procs -> PCs]
    BY <1>0, <1>2, WordType DEF QueuePush, TypeOK, Goto
  <2>2. waiters' \in [Locks -> Seq(Procs)]
    BY <1>0, <1>2
       DEF QueuePush, TypeOK, Push, proclist_push_head, proclist_push_tail
  <2>3. /\ lwWaiting' \in [Procs -> WaitState] /\ lwWaitMode' \in [Procs -> WaitModes]
        /\ site' \in [Procs -> Sites]
    BY <1>0, <1>2 DEF QueuePush, TypeOK, WaitModes, Calls
  <2> QED BY <1>2, <2>1, <2>2, <2>3 DEF QueuePush, TypeOK, mine
<1>3. CASE DequeueUnlink(p)
  <2>1. waiters' \in [Locks -> Seq(Procs)]
    BY <1>0, <1>3, DeleteType DEF DequeueUnlink, TypeOK
  <2>2. word' \in [Locks -> Word]
    <3>1. word \in [Locks -> Word]
      BY DEF TypeOK
    <3>2. PICK b \in BOOLEAN :
            word' = [word EXCEPT ![Lock(p)].hasWaiters = b, ![Lock(p)].locked = FALSE]
      <4>1. word[Lock(p)].hasWaiters \in BOOLEAN
        BY <1>0, <3>1 DEF Word
      <4> QED BY <1>3, <4>1 DEF DequeueUnlink
    <3>3. [word[Lock(p)] EXCEPT !.hasWaiters = b, !.locked = FALSE] \in Word
      BY <1>0, <3>1 DEF Word
    <3> QED BY <1>0, <3>1, <3>2, <3>3
  <2>3. lwWaiting' \in [Procs -> WaitState] /\ pc' \in [Procs -> PCs]
    BY <1>0, <1>3, ZenonT(60) DEF DequeueUnlink, TypeOK, Goto
  <2> QED BY <1>3, <2>1, <2>2, <2>3 DEF DequeueUnlink, TypeOK, mine
<1>4. ASSUME NEW from, NEW to \in PCs, SetReleaseOk(p, from, to), 
             site' \in [Procs -> Sites]
      PROVE  TypeOK'
  <2>1. word' \in [Locks -> Word] /\ pc' \in [Procs -> PCs]
    BY <1>0, <1>4, WordType DEF SetReleaseOk, TypeOK, Goto
  <2> QED BY <1>4, <2>1 DEF SetReleaseOk, TypeOK, proc, mine
<1>5. CASE DequeueReleaseOk(p) \/ AcquireReleaseOk(p) \/ VarReleaseOk(p)
  <2>1. site' \in [Procs -> Sites]
    BY <1>0, <1>5 DEF DequeueReleaseOk, AcquireReleaseOk, VarReleaseOk, TypeOK
  <2> QED BY <1>0, <1>4, <1>5, <2>1
          DEF DequeueReleaseOk, AcquireReleaseOk, VarReleaseOk
<1>6. ASSUME NEW from, NEW to \in PCs, SemaphoreLock(p, from, to)
      PROVE  /\ sem' \in [Procs -> Nat] /\ pc' \in [Procs -> PCs]
             /\ extraWaits' \in [Procs -> Nat]
  <2>1. /\ sem \in [Procs -> Nat] /\ pc \in [Procs -> PCs]
        /\ extraWaits \in [Procs -> Nat]
    BY DEF TypeOK
  <2>2. sem' \in [Procs -> Nat]
    BY <1>6, <2>1 DEF SemaphoreLock
  <2>3. /\ \/ pc' = pc
           \/ pc' = [pc EXCEPT ![p] = to]
        /\ \/ extraWaits' = extraWaits
           \/ extraWaits' = [extraWaits EXCEPT ![p] = @ + 1]
    BY <1>6 DEF SemaphoreLock, Goto
  <2> QED BY <2>1, <2>2, <2>3
<1>7. CASE DequeueSleep(p)
  BY <1>0, <1>6, <1>7 DEF DequeueSleep, TypeOK, shared, mine
<1>8. CASE WaitUntilAwakened(p)
  <2>1. AfterSleep(p) \in PCs
    BY <1>0, Continuations
  <2>2. site' \in [Procs -> Sites]
    BY <1>0, <1>8 DEF WaitUntilAwakened, TypeOK
  <2> QED BY <1>6, <1>8, <2>1, <2>2 DEF WaitUntilAwakened, TypeOK, shared, mine
<1> QED BY <1>1, <1>2, <1>3, <1>5, <1>7, <1>8

\* Repaying posts and returning keep the types.
LEMMA ReturnType ==
  ASSUME IInv, NEW p \in Procs, Repay(p) \/ Return(p) \/ VarState(p) \/ VarValue(p)
  PROVE  TypeOK'
<1>0. /\ TypeOK /\ Lock(p) \in Locks /\ call[p].mode \in Modes
      /\ {"idle", "varValue", "return", "sleep", "queueLock", "dequeueLock"}
           \subseteq PCs
  BY DEF IInv, TypeOK, Calls, Lock, PCs
<1>1. CASE Repay(p)
  <2>1. sem' \in [Procs -> Nat] /\ extraWaits' \in [Procs -> Nat]
    BY <1>0, <1>1 DEF Repay, TypeOK
  <2> QED BY <1>0, <1>1, <2>1 DEF Repay, TypeOK, shared, mine
<1>2. CASE Return(p)
  <2>1. NumHeld(p) \in Nat
    BY LWLockAssumption, FS_Subset, FS_CardinalityType DEF NumHeld
  <2>2. Busy(p) /\ site[p] \notin {"var", "release"}
    BY <1>2 DEF Return, At, Busy, IInv, PlaceOK, PlaceAt, Waking
  <2>3. holdoff[p] \in Nat \ {0}
    BY <2>1, <2>2 DEF IInv, HoldoffOK, HoldoffAt
  <2>4. holdoff' \in [Procs -> Nat]
    <3>1. \/ holdoff' = holdoff
          \/ holdoff' = [holdoff EXCEPT ![p] = @ - 1]
      BY <1>2 DEF Return
    <3>2. holdoff \in [Procs -> Nat]
      BY <1>0 DEF TypeOK
    <3> QED BY <2>3, <3>1, <3>2
  <2>5. held' \in [Procs -> [Locks -> Modes \cup {"none"}]]
    <3>1. \/ held' = held
          \/ held' = [held EXCEPT ![p] = [held[p] EXCEPT ![Lock(p)] = call[p].mode]]
      BY <1>2 DEF Return
    <3>2. held \in [Procs -> [Locks -> Modes \cup {"none"}]]
      BY <1>0 DEF TypeOK
    <3> QED BY <1>0, <3>1, <3>2
  <2>6. pc' \in [Procs -> PCs] /\ mustwait' \in [Procs -> BOOLEAN]
    BY <1>0, <1>2 DEF Return, TypeOK, Goto
  <2> QED BY <1>0, <1>2, <2>4, <2>5, <2>6 DEF Return, TypeOK, shared, proc
<1>3. CASE VarState(p) \/ VarValue(p)
  <2>1. pc' \in [Procs -> PCs]
    <3>1. AfterFail(p) \in PCs /\ AfterGot(p) \in PCs
      BY <1>0, Continuations
    <3>2. \E s \in PCs : pc' = [pc EXCEPT ![p] = s]
      BY <1>0, <1>3, <3>1 DEF VarState, VarValue, Goto
    <3> QED BY <1>0, <3>2 DEF TypeOK
  <2> QED BY <1>0, <1>3, <2>1 DEF VarState, VarValue, TypeOK, shared, proc, mine
<1> QED BY <1>1, <1>2, <1>3

\* The reset after a crash keeps the types.
LEMMA ResetType == TypeOK /\ LWLockResetAfterCrash => TypeOK'
<1> SUFFICES ASSUME TypeOK, LWLockResetAfterCrash PROVE TypeOK'
  OBVIOUS
<1>1. Unlocked \in Word /\ <<>> \in Seq(Procs) /\ 0 \in Vals /\ NoCall \in Calls
  BY LWLockAssumption DEF Unlocked, Word, NoCall, Calls, Ops, Modes
<1>2. word' \in [Locks -> Word] /\ waiters' \in [Locks -> Seq(Procs)]
  BY <1>1 DEF LWLockResetAfterCrash, EachLock
<1>3. var' \in [Locks -> Vals] /\ wakeup' \in [Procs -> Seq(Procs)]
  BY <1>1 DEF LWLockResetAfterCrash, EachLock, EachProc
<1>4. call' \in [Procs -> Calls]
  BY <1>1 DEF LWLockResetAfterCrash, EachProc
<1>5. held' \in [Procs -> [Locks -> Modes \cup {"none"}]]
  BY DEF LWLockResetAfterCrash, EachProc, EachLock
<1> QED BY <1>2, <1>3, <1>4, <1>5
        DEF LWLockResetAfterCrash, EachProc, TypeOK, WaitState, WaitModes, Modes, PCs,
            Sites

\* Every step keeps the types.
LEMMA TypeStep == IInv /\ [Next]_vars => TypeOK'
<1> SUFFICES ASSUME IInv, [Next]_vars PROVE TypeOK'
  OBVIOUS
<1>0. TypeOK
  BY DEF IInv
<1>1. ASSUME NEW p \in Procs, Step(p) PROVE TypeOK'
  BY <1>0, <1>1, AttemptType, ReleaseType, GiveBackType, WakeType, QueueType,
     ReturnType DEF Step
<1>2. CASE UNCHANGED vars
  BY <1>0, <1>2 DEF vars, TypeOK
<1>3. CASE Finished
  BY <1>2, <1>3 DEF Finished
<1> QED BY <1>0, <1>1, <1>2, <1>3, CallType, GiveBackType, ResetType DEF Next

-----------------------------------------------------------------------------
(* The place of a backend                                                  *)

\* The state of q that only q's own steps change.
Same(q) ==
  /\ pc'[q] = pc[q] /\ site'[q] = site[q] /\ mustwait'[q] = mustwait[q]
  /\ held'[q] = held[q] /\ call'[q] = call[q] /\ wakeup'[q] = wakeup[q]
  /\ holdoff'[q] = holdoff[q]

\* A step of one backend leaves the place and the locks of the others alone.
LEMMA Others ==
  ASSUME TypeOK, NEW p \in Procs, NEW q \in Procs \ {p},
         Call(p) \/ GiveBack(p) \/ Step(p)
  PROVE  Same(q)
<1> USE DEF Same, Goto
<1>0. /\ pc \in [Procs -> PCs] /\ site \in [Procs -> Sites]
      /\ mustwait \in [Procs -> BOOLEAN] /\ call \in [Procs -> Calls]
      /\ held \in [Procs -> [Locks -> Modes \cup {"none"}]]
      /\ wakeup \in [Procs -> Seq(Procs)] /\ holdoff \in [Procs -> Nat]
  BY DEF TypeOK
<1>1. CASE Call(p)
  BY <1>0, <1>1 DEF Call, LWLockAcquire, LWLockConditionalAcquire,
     LWLockAcquireOrWait, LWLockWaitForVar, LWLockUpdateVar, Request, Enter, mine
<1>2. CASE GiveBack(p)
  BY <1>0, <1>2 DEF GiveBack, LWLockRelease, LWLockReleaseClearVar, LWLockReleaseAll,
     Disown, Enter
<1>3. CASE Step(p)
  <2>1. CASE LWLockAttemptLock(p) \/ LWLockAttemptLockBackout(p)
    BY <1>0, <2>1 DEF LWLockAttemptLock, AttemptExclusive, AttemptShared,
       LWLockAttemptLockBackout, mine
  <2>2. CASE LWLockReleaseInternal(p) \/ ReleaseAllNext(p) \/ WakeDone(p)
    <3>1. CASE LWLockReleaseInternal(p)
      BY <1>0, <3>1 DEF LWLockReleaseInternal, FinishRelease
    <3>2. CASE ReleaseAllNext(p)
      BY <1>0, <3>2 DEF ReleaseAllNext, Disown, mine
    <3>3. CASE WakeDone(p)
      BY <1>0, <3>3 DEF WakeDone, FinishRelease
    <3> QED BY <2>2, <3>1, <3>2, <3>3
  <2>3. CASE WakeLock(p) \/ QueueLock(p) \/ DequeueLock(p) \/ UpdateLock(p)
    BY <1>0, <2>3 DEF WakeLock, QueueLock, DequeueLock, UpdateLock, WaitListLock, mine
  <2>4. CASE WakeScan(p) \/ UpdateScan(p)
    BY <1>0, <2>4 DEF WakeScan, UpdateScan, mine
  <2>5. CASE WakeFlag(p) \/ WakePost(p)
    BY <1>0, <2>5 DEF WakeFlag, WakePost, mine
  <2>6. CASE QueueFlag(p) \/ QueuePush(p) \/ DequeueUnlink(p)
    BY <1>0, <2>6 DEF QueueFlag, QueuePush, DequeueUnlink, mine
  <2>7. CASE DequeueReleaseOk(p) \/ AcquireReleaseOk(p) \/ VarReleaseOk(p)
    BY <1>0, <2>7 DEF DequeueReleaseOk, AcquireReleaseOk, VarReleaseOk, SetReleaseOk,
       mine
  <2>8. CASE DequeueSleep(p) \/ WaitUntilAwakened(p)
    BY <1>0, <2>8 DEF DequeueSleep, WaitUntilAwakened, SemaphoreLock, mine
  <2>9. CASE Repay(p) \/ Return(p) \/ VarState(p) \/ VarValue(p)
    BY <1>0, <2>9 DEF Repay, Return, VarState, VarValue, mine
  <2> QED BY <1>3, <2>1, <2>2, <2>3, <2>4, <2>5, <2>6, <2>7, <2>8, <2>9 DEF Step
<1> QED BY <1>1, <1>2, <1>3

\* A step leaves its backend at a place that fits what it owns and owes.
LEMMA PlaceStep ==
  ASSUME IInv, NEW p \in Procs, Call(p) \/ GiveBack(p) \/ Step(p)
  PROVE  PlaceAt(p)'
<1> USE DEF Goto, Busy, Waking, Seeking, Lock, At
<1>0. /\ pc \in [Procs -> PCs] /\ site \in [Procs -> Sites]
      /\ mustwait \in [Procs -> BOOLEAN] /\ call \in [Procs -> Calls]
      /\ held \in [Procs -> [Locks -> Modes \cup {"none"}]]
      /\ wakeup \in [Procs -> Seq(Procs)]
      /\ call[p].lock \in Locks
      /\ PlaceAt(p)
  BY DEF IInv, TypeOK, Calls, PlaceOK
<1>1. CASE Call(p)
  <2>1. ASSUME NEW s \in {"attempt", "varState"}, NEW op, NEW l \in Locks, NEW m, NEW v,
               s = "attempt" => op # "waitForVar",
               Request(p, s, op, l, m, v)
        PROVE  PlaceAt(p)'
    BY <1>0, <2>1 DEF PlaceAt, Request, Enter
  <2>2. ASSUME NEW l \in Locks, NEW v, LWLockUpdateVar(p, l, v) PROVE PlaceAt(p)'
    BY <1>0, <2>2 DEF PlaceAt, LWLockUpdateVar, Enter, mine
  <2> QED BY <1>1, <2>1, <2>2 DEF Call, LWLockAcquire, LWLockConditionalAcquire,
             LWLockAcquireOrWait, LWLockWaitForVar
<1>2. CASE GiveBack(p)
  <2>1. ASSUME NEW l \in Locks, LWLockRelease(p, l) PROVE PlaceAt(p)'
    BY <1>0, <2>1 DEF PlaceAt, LWLockRelease, Disown, Enter
  <2>2. ASSUME NEW l \in Locks, LWLockReleaseClearVar(p, l) PROVE PlaceAt(p)'
    BY <1>0, <2>2 DEF PlaceAt, LWLockReleaseClearVar, Disown, Enter
  <2>3. CASE LWLockReleaseAll(p)
    BY <1>0, <2>3 DEF PlaceAt, LWLockReleaseAll
  <2> QED BY <1>2, <2>1, <2>2, <2>3 DEF GiveBack
<1>3. CASE Step(p)
  <2>1. CASE LWLockAttemptLock(p)
    <3>1. CASE AttemptExclusive(p)
      BY <1>0, <2>1, <3>1, Continuations
         DEF PlaceAt, LWLockAttemptLock, AttemptExclusive, mine
    <3>2. CASE AttemptShared(p)
      BY <1>0, <2>1, <3>2, Continuations
         DEF PlaceAt, LWLockAttemptLock, AttemptShared, mine
    <3> QED BY <2>1, <3>1, <3>2 DEF LWLockAttemptLock
  <2>2. CASE LWLockAttemptLockBackout(p)
    BY <1>0, <2>2, Continuations DEF PlaceAt, LWLockAttemptLockBackout, mine
  <2>3. CASE LWLockReleaseInternal(p)
    BY <1>0, <2>3 DEF PlaceAt, LWLockReleaseInternal, FinishRelease
  <2>4. CASE ReleaseAllNext(p)
    BY <1>0, <2>4 DEF PlaceAt, ReleaseAllNext, Disown, mine
  <2>5. CASE WakeDone(p)
    BY <1>0, <2>5, Continuations DEF PlaceAt, WakeDone, FinishRelease
  <2>6. CASE WakeLock(p) \/ QueueLock(p) \/ DequeueLock(p) \/ UpdateLock(p)
    BY <1>0, <2>6
       DEF PlaceAt, WakeLock, QueueLock, DequeueLock, UpdateLock, WaitListLock, mine
  <2>7. CASE WakeScan(p) \/ UpdateScan(p)
    BY <1>0, <2>7 DEF PlaceAt, WakeScan, UpdateScan, mine
  <2>8. CASE WakeFlag(p) \/ WakePost(p)
    BY <1>0, <2>8 DEF PlaceAt, WakeFlag, WakePost, mine
  <2>9. CASE QueueFlag(p) \/ QueuePush(p) \/ DequeueUnlink(p)
    BY <1>0, <2>9 DEF PlaceAt, QueueFlag, QueuePush, DequeueUnlink, mine
  <2>10. CASE DequeueReleaseOk(p) \/ AcquireReleaseOk(p) \/ VarReleaseOk(p)
    BY <1>0, <2>10 DEF PlaceAt, DequeueReleaseOk, AcquireReleaseOk, VarReleaseOk,
       SetReleaseOk, mine
  <2>11. CASE DequeueSleep(p)
    BY <1>0, <2>11 DEF PlaceAt, DequeueSleep, SemaphoreLock, mine
  <2>12. CASE WaitUntilAwakened(p)
    BY <1>0, <2>12, Continuations DEF PlaceAt, WaitUntilAwakened, SemaphoreLock, mine, AfterSleep
  <2>13. CASE Repay(p) \/ Return(p)
    BY <1>0, <2>13 DEF PlaceAt, Repay, Return, mine
  <2>14. CASE VarState(p) \/ VarValue(p)
    BY <1>0, <2>14, Continuations DEF PlaceAt, VarState, VarValue, mine
  <2> QED BY <1>3, <2>1, <2>2, <2>3, <2>4, <2>5, <2>6, <2>7, <2>8, <2>9, <2>10, <2>11,
             <2>12, <2>13, <2>14 DEF Step
<1> QED BY <1>1, <1>2, <1>3

-----------------------------------------------------------------------------
(* The interrupt holdoff count                                             *)

Recorded(p) == {l \in Locks : held[p][l] # "none"}

\* The recorded locks of a backend are finitely many.
LEMMA RecordedFinite ==
  ASSUME NEW p \in Procs
  PROVE  IsFiniteSet(Recorded(p)) /\ NumHeld(p) = Cardinality(Recorded(p))
         /\ NumHeld(p) \in Nat
BY LWLockAssumption, FS_Subset, FS_CardinalityType DEF NumHeld, Recorded

\* Disowning a lock removes one record, recording one adds one.
LEMMA DisownCounts ==
  ASSUME TypeOK, NEW p \in Procs, NEW l \in Locks, Disown(p, l)
  PROVE  NumHeld(p)' = NumHeld(p) - 1
<1>1. Recorded(p)' = Recorded(p) \ {l} /\ l \in Recorded(p)
  BY DEF TypeOK, Disown, Recorded
<1>2. Cardinality(Recorded(p) \ {l}) = Cardinality(Recorded(p)) - 1
  BY <1>1, RecordedFinite, FS_RemoveElement
<1>3. NumHeld(p)' = Cardinality(Recorded(p)')
  BY DEF NumHeld, Recorded
<1> QED BY <1>1, <1>2, <1>3, RecordedFinite

\* Recording a lock raises the number of recorded locks by one.
LEMMA RecordCounts ==
  ASSUME TypeOK, NEW p \in Procs, NEW l \in Locks, NEW m \in Modes,
         held[p][l] = "none", held' = [held EXCEPT ![p][l] = m]
  PROVE  NumHeld(p)' = NumHeld(p) + 1
<1>1. Recorded(p)' = Recorded(p) \cup {l} /\ l \notin Recorded(p)
  BY DEF TypeOK, Recorded, Modes
<1>2. Cardinality(Recorded(p) \cup {l}) = Cardinality(Recorded(p)) + 1
  BY <1>1, RecordedFinite, FS_AddElement
<1>3. NumHeld(p)' = Cardinality(Recorded(p)')
  BY DEF NumHeld, Recorded
<1> QED BY <1>1, <1>2, <1>3, RecordedFinite

\* Who records the same locks records as many.
LEMMA SameCounts ==
  ASSUME NEW p \in Procs, held'[p] = held[p] PROVE NumHeld(p)' = NumHeld(p)
BY DEF NumHeld

\* A step keeps the holdoff count of its backend in balance with its recorded locks.
LEMMA HoldoffStep ==
  ASSUME IInv, NEW p \in Procs, Call(p) \/ GiveBack(p) \/ Step(p)
  PROVE  HoldoffAt(p)'
<1> USE DEF Goto, Busy, At
<1>0. /\ pc \in [Procs -> PCs] /\ site \in [Procs -> Sites]
      /\ call \in [Procs -> Calls]
      /\ held \in [Procs -> [Locks -> Modes \cup {"none"}]]
      /\ holdoff \in [Procs -> Nat]
      /\ HoldoffAt(p) /\ PlaceAt(p) /\ TypeOK
      /\ NumHeld(p) \in Nat
      /\ Lock(p) \in Locks /\ call[p].mode \in Modes
  BY RecordedFinite DEF IInv, TypeOK, HoldoffOK, PlaceOK, Lock, Calls
<1>1. CASE Call(p)
  <2>1. ASSUME NEW s \in {"attempt", "varState"}, NEW l \in Locks, NEW m, NEW v,
               NEW op \in {"acquire", "conditional", "acquireOrWait", "waitForVar"},
               Request(p, s, op, l, m, v)
        PROVE  HoldoffAt(p)'
    BY <1>0, <2>1, SameCounts DEF HoldoffAt, Request, Enter
  <2>2. ASSUME NEW l \in Locks, NEW v, LWLockUpdateVar(p, l, v) PROVE HoldoffAt(p)'
    BY <1>0, <2>2, SameCounts DEF HoldoffAt, LWLockUpdateVar, Enter, mine
  <2> QED BY <1>1, <2>1, <2>2 DEF Call, LWLockAcquire, LWLockConditionalAcquire,
             LWLockAcquireOrWait, LWLockWaitForVar
<1>2. CASE GiveBack(p)
  <2>1. ASSUME NEW l \in Locks, LWLockRelease(p, l) PROVE HoldoffAt(p)'
    BY <1>0, <2>1, DisownCounts DEF HoldoffAt, LWLockRelease, Enter
  <2>2. ASSUME NEW l \in Locks, LWLockReleaseClearVar(p, l) PROVE HoldoffAt(p)'
    BY <1>0, <2>2, DisownCounts DEF HoldoffAt, LWLockReleaseClearVar, Enter
  <2>3. CASE LWLockReleaseAll(p)
    BY <1>0, <2>3 DEF HoldoffAt, LWLockReleaseAll
  <2> QED BY <1>2, <2>1, <2>2, <2>3 DEF GiveBack
<1>3. ASSUME FinishRelease(p), Busy(p), site[p] = "release", held' = held,
             site' = site, call' = call
      PROVE  HoldoffAt(p)'
  BY <1>0, <1>3, SameCounts DEF HoldoffAt, FinishRelease
<1>4. ASSUME held' = held, holdoff' = holdoff, call' = call, Busy(p), Busy(p)',
             site'[p] = "var" <=> site[p] = "var",
             site'[p] = "release" <=> site[p] = "release"
      PROVE  HoldoffAt(p)'
  BY <1>0, <1>4, SameCounts DEF HoldoffAt
<1>5. CASE Step(p)
  <2>1. CASE LWLockAttemptLock(p)
    <3>1. CASE AttemptExclusive(p)
      BY <1>0, <1>4, <2>1, <3>1, Continuations
         DEF LWLockAttemptLock, AttemptExclusive, mine
    <3>2. CASE AttemptShared(p)
      BY <1>0, <1>4, <2>1, <3>2, Continuations
         DEF LWLockAttemptLock, AttemptShared, mine
    <3> QED BY <2>1, <3>1, <3>2 DEF LWLockAttemptLock
  <2>2. CASE LWLockAttemptLockBackout(p)
    BY <1>0, <1>4, <2>2, Continuations DEF LWLockAttemptLockBackout, mine
  <2>3. CASE LWLockReleaseInternal(p)
    BY <1>0, <1>3, <1>4, <2>3 DEF PlaceAt, LWLockReleaseInternal
  <2>4. CASE ReleaseAllNext(p)
    BY <1>0, <2>4, DisownCounts, SameCounts DEF HoldoffAt, ReleaseAllNext, mine
  <2>5. CASE WakeDone(p)
    <3>1. CASE site[p] = "release"
      BY <1>3, <2>5, <3>1 DEF WakeDone
    <3>2. CASE site[p] = "var"
      BY <1>0, <2>5, <3>2, SameCounts DEF WakeDone, HoldoffAt
    <3>3. CASE site[p] \notin {"release", "var"}
      BY <1>0, <1>4, <2>5, <3>3, Continuations DEF WakeDone
    <3> QED BY <3>1, <3>2, <3>3
  <2>6. CASE WakeLock(p) \/ QueueLock(p) \/ DequeueLock(p) \/ UpdateLock(p)
    BY <1>0, <1>4, <2>6
       DEF WakeLock, QueueLock, DequeueLock, UpdateLock, WaitListLock, mine
  <2>7. CASE WakeScan(p) \/ UpdateScan(p)
    BY <1>0, <1>4, <2>7 DEF WakeScan, UpdateScan, mine
  <2>8. CASE WakeFlag(p) \/ WakePost(p)
    BY <1>0, <1>4, <2>8 DEF WakeFlag, WakePost, mine
  <2>9. CASE QueueFlag(p) \/ QueuePush(p) \/ DequeueUnlink(p)
    BY <1>0, <1>4, <2>9 DEF QueueFlag, QueuePush, DequeueUnlink, mine, PlaceAt, Waking
  <2>10. CASE DequeueReleaseOk(p) \/ AcquireReleaseOk(p) \/ VarReleaseOk(p)
    BY <1>0, <1>4, <2>10 DEF DequeueReleaseOk, AcquireReleaseOk, VarReleaseOk,
       SetReleaseOk, mine, PlaceAt, Waking
  <2>11. CASE DequeueSleep(p)
    BY <1>0, <1>4, <2>11 DEF DequeueSleep, SemaphoreLock, mine
  <2>12. CASE WaitUntilAwakened(p)
    BY <1>0, <1>4, <2>12, Continuations
       DEF WaitUntilAwakened, SemaphoreLock, mine, PlaceAt, Waking
  <2>13. CASE Repay(p)
    BY <1>0, <1>4, <2>13 DEF Repay, mine
  <2>14. CASE Return(p)
    <3>1. site[p] \notin {"var", "release"} /\ held[p][Lock(p)] = "none"
      BY <1>0, <2>14 DEF PlaceAt, Return, Waking
    <3>2. call[p].op # "releaseAll" /\ holdoff[p] = NumHeld(p) + 1
      BY <1>0, <2>14, <3>1 DEF HoldoffAt, Return
    <3>3. CASE mustwait[p] \/ call[p].op = "waitForVar"
      BY <1>0, <2>14, <3>2, <3>3, SameCounts DEF HoldoffAt, Return
    <3>4. CASE ~(mustwait[p] \/ call[p].op = "waitForVar")
      BY <1>0, <2>14, <3>1, <3>2, <3>4, RecordCounts DEF HoldoffAt, Return
    <3> QED BY <3>3, <3>4
  <2>15. CASE VarState(p) \/ VarValue(p)
    BY <1>0, <1>4, <2>15, Continuations DEF VarState, VarValue, mine
  <2> QED BY <1>5, <2>1, <2>2, <2>3, <2>4, <2>5, <2>6, <2>7, <2>8, <2>9, <2>10, <2>11,
             <2>12, <2>13, <2>14, <2>15 DEF Step
<1> QED BY <1>1, <1>2, <1>5

-----------------------------------------------------------------------------
(* Owners and the lock word                                                *)

\* A step that leaves every owner and every transient share as they were, and
\* the words' counts too.
Quiet ==
  /\ \A q \in Procs, l \in Locks :
       Owns(q, l)' = Owns(q, l) /\ (Transient(q, l)' <=> Transient(q, l))
  /\ \A l \in Locks :
       word'[l].exclusive = word[l].exclusive /\ word'[l].shares = word[l].shares

\* A step that moves no count and no ownership keeps exclusion and the truth of the word.
LEMMA QuietFrame ==
  ASSUME IInv, Quiet PROVE MutualExclusion' /\ WordCountsOwners'
<1>1. \A l \in Locks : Sharers(l)' = Sharers(l)
  BY DEF Quiet, Sharers
<1>2. MutualExclusion'
  BY DEF Quiet, MutualExclusion, IInv
<1>3. WordCountsOwners'
  BY <1>1 DEF Quiet, WordCountsOwners, IInv
<1> QED BY <1>2, <1>3

\* What p's step leaves to the other backends.
LEMMA OthersOwn ==
  ASSUME TypeOK, NEW p \in Procs, NEW q \in Procs \ {p}, NEW l \in Locks,
         Call(p) \/ GiveBack(p) \/ Step(p)
  PROVE  Owns(q, l)' = Owns(q, l) /\ (Transient(q, l)' <=> Transient(q, l))
BY Others DEF Same, Owns, Transient, Lock

\* The steps that change neither an owner nor a count.
LEMMA QuietStep ==
  ASSUME IInv, NEW p \in Procs,
         \/ Call(p) \/ GiveBack(p)
         \/ Step(p) /\ pc[p] \notin {"attempt", "backout", "release"}
  PROVE  Quiet
<1> USE DEF Goto, At, Lock, GotPCs
<1>0. /\ pc \in [Procs -> PCs] /\ site \in [Procs -> Sites]
      /\ mustwait \in [Procs -> BOOLEAN] /\ call \in [Procs -> Calls]
      /\ held \in [Procs -> [Locks -> Modes \cup {"none"}]]
      /\ word \in [Locks -> Word]
      /\ call[p].lock \in Locks /\ call[p].mode \in Modes
      /\ PlaceAt(p)
  BY DEF IInv, TypeOK, Calls, PlaceOK
<1>1. SUFFICES ASSUME NEW l \in Locks
               PROVE  /\ Owns(p, l)' = Owns(p, l)
                      /\ Transient(p, l)' <=> Transient(p, l)
                      /\ word'[l].exclusive = word[l].exclusive
                      /\ word'[l].shares = word[l].shares
  BY OthersOwn DEF Quiet, IInv
<1>2. CASE Call(p)
  <2>1. ASSUME NEW s \in {"attempt", "varState"}, NEW op, NEW k \in Locks, NEW m, NEW v,
               Request(p, s, op, k, m, v)
        PROVE  /\ Owns(p, l)' = Owns(p, l)
               /\ Transient(p, l)' <=> Transient(p, l)
               /\ word' = word
    BY <1>0, <2>1 DEF Request, Enter, Owns, Transient, shared
  <2>2. ASSUME NEW k \in Locks, NEW v, LWLockUpdateVar(p, k, v)
        PROVE  /\ Owns(p, l)' = Owns(p, l)
               /\ Transient(p, l)' <=> Transient(p, l)
               /\ word' = word
    BY <1>0, <2>2 DEF LWLockUpdateVar, Enter, Owns, Transient, mine
  <2> QED BY <1>2, <2>1, <2>2 DEF Call, LWLockAcquire, LWLockConditionalAcquire,
             LWLockAcquireOrWait, LWLockWaitForVar
<1>3. ASSUME NEW k \in Locks, Disown(p, k), pc[p] \in {"idle", "releaseAll"},
             pc' = [pc EXCEPT ![p] = "release"],
             call'[p].lock = k, call'[p].mode = held[p][k], word' = word
      PROVE  /\ Owns(p, l)' = Owns(p, l)
             /\ Transient(p, l)' <=> Transient(p, l)
  BY <1>0, <1>3 DEF Disown, Owns, Transient
<1>4. CASE GiveBack(p)
  <2>1. ASSUME NEW k \in Locks, LWLockRelease(p, k)
        PROVE  word' = word /\ Disown(p, k) /\ pc[p] = "idle" /\ Goto(p, "release")
               /\ call'[p].lock = k /\ call'[p].mode = held[p][k]
    BY <1>0, <2>1 DEF LWLockRelease, Enter, shared
  <2>2. ASSUME NEW k \in Locks, LWLockReleaseClearVar(p, k)
        PROVE  word' = word /\ Disown(p, k) /\ pc[p] = "idle" /\ Goto(p, "release")
               /\ call'[p].lock = k /\ call'[p].mode = held[p][k]
    BY <1>0, <2>2 DEF LWLockReleaseClearVar, Enter
  <2>3. CASE LWLockReleaseAll(p)
    BY <1>0, <2>3 DEF LWLockReleaseAll, Owns, Transient, shared
  <2> QED BY <1>3, <1>4, <2>1, <2>2, <2>3 DEF GiveBack
<1>5. CASE ReleaseAllNext(p)
  <2>1. ASSUME NEW k \in Locks, Disown(p, k), Goto(p, "release"),
               call' = [call EXCEPT ![p] = [op |-> "releaseAll", lock |-> k,
                                            mode |-> held[p][k], oldval |-> 0]]
        PROVE  Owns(p, l)' = Owns(p, l) /\ (Transient(p, l)' <=> Transient(p, l))
    <3>1. call'[p].lock = k /\ call'[p].mode = held[p][k]
      BY <1>0, <2>1
    <3>2. pc[p] = "releaseAll" /\ word' = word
      BY <1>5 DEF ReleaseAllNext, shared
    <3> QED BY <1>3, <2>1, <3>1, <3>2
  <2>2. CASE Goto(p, "idle") /\ UNCHANGED <<mine, call, site>>
    <3>1. /\ held' = held /\ call' = call /\ word' = word
          /\ pc[p] = "releaseAll" /\ pc'[p] = "idle"
      BY <1>0, <1>5, <2>2 DEF ReleaseAllNext, mine, shared
    <3> QED BY <3>1 DEF Owns, Transient
  <2>3. word' = word
    BY <1>5 DEF ReleaseAllNext, shared
  <2> QED BY <1>5, <2>1, <2>2, <2>3 DEF ReleaseAllNext
<1>6. ASSUME pc[p] \notin GotPCs \cup {"release", "backout"},
             pc'[p] \notin GotPCs \cup {"release", "backout"} \/ mustwait[p],
             pc'[p] \notin {"release", "backout"},
             held' = held, call' = call, mustwait' = mustwait
      PROVE  /\ Owns(p, l)' = Owns(p, l)
             /\ Transient(p, l)' <=> Transient(p, l)
  BY <1>0, <1>6 DEF Owns, Transient
<1>7. ASSUME pc[p] \in GotPCs, pc'[p] \in GotPCs,
             held' = held, call' = call, mustwait' = mustwait
      PROVE  /\ Owns(p, l)' = Owns(p, l)
             /\ Transient(p, l)' <=> Transient(p, l)
  BY <1>0, <1>7 DEF Owns, Transient
<1>8. CASE WakeDone(p)
  <2>1. CASE site[p] \in {"release", "var"}
    BY <1>0, <1>6, <1>8, <2>1 DEF WakeDone, FinishRelease, shared
  <2>2. CASE site[p] \notin {"release", "var"}
    BY <1>0, <1>6, <1>8, <2>2, Continuations DEF WakeDone, PlaceAt, Waking, shared
  <2> QED BY <2>1, <2>2
<1>9. CASE WakeLock(p) \/ QueueLock(p) \/ UpdateLock(p)
  <2>1. CASE WakeLock(p)
    <3>1. word'[l].exclusive = word[l].exclusive /\ word'[l].shares = word[l].shares
      BY <1>0, <2>1 DEF WakeLock, WaitListLock
    <3>2. /\ held' = held /\ call' = call /\ mustwait' = mustwait
          /\ pc[p] \notin GotPCs \cup {"release", "backout"}
          /\ pc'[p] \notin GotPCs \cup {"release", "backout"}
      BY <1>0, <2>1 DEF WakeLock, WaitListLock, mine
    <3> QED BY <1>6, <3>1, <3>2
  <2>2. CASE QueueLock(p)
    <3>1. word'[l].exclusive = word[l].exclusive /\ word'[l].shares = word[l].shares
      BY <1>0, <2>2 DEF QueueLock, WaitListLock
    <3>2. /\ held' = held /\ call' = call /\ mustwait' = mustwait
          /\ pc[p] \notin GotPCs \cup {"release", "backout"}
          /\ pc'[p] \notin GotPCs \cup {"release", "backout"}
      BY <1>0, <2>2 DEF QueueLock, WaitListLock, mine
    <3> QED BY <1>6, <3>1, <3>2
  <2>3. CASE UpdateLock(p)
    <3>1. word'[l].exclusive = word[l].exclusive /\ word'[l].shares = word[l].shares
      BY <1>0, <2>3 DEF UpdateLock, WaitListLock
    <3>2. /\ held' = held /\ call' = call /\ mustwait' = mustwait
          /\ pc[p] \notin GotPCs \cup {"release", "backout"}
          /\ pc'[p] \notin GotPCs \cup {"release", "backout"}
      BY <1>0, <2>3 DEF UpdateLock, WaitListLock, mine
    <3> QED BY <1>6, <3>1, <3>2
  <2> QED BY <1>9, <2>1, <2>2, <2>3
<1>10. CASE DequeueLock(p)
  BY <1>0, <1>7, <1>10 DEF DequeueLock, WaitListLock, mine
<1>11. CASE WakeScan(p) \/ UpdateScan(p)
  <2>1. CASE WakeScan(p)
    <3>1. word'[l].exclusive = word[l].exclusive /\ word'[l].shares = word[l].shares
      <4>1. \E a, b : word' = [word EXCEPT ![Lock(p)].releaseOk = a,
                                           ![Lock(p)].hasWaiters = b,
                                           ![Lock(p)].locked = FALSE]
        BY <2>1 DEF WakeScan
      <4> QED BY <1>0, <4>1 DEF Word
    <3>2. /\ held' = held /\ call' = call /\ mustwait' = mustwait
          /\ pc[p] \notin GotPCs \cup {"release", "backout"}
          /\ pc'[p] \notin GotPCs \cup {"release", "backout"}
      BY <1>0, <2>1 DEF WakeScan, mine
    <3> QED BY <1>6, <3>1, <3>2
  <2>2. CASE UpdateScan(p)
    <3>1. word'[l].exclusive = word[l].exclusive /\ word'[l].shares = word[l].shares
      BY <1>0, <2>2 DEF UpdateScan
    <3>2. /\ held' = held /\ call' = call /\ mustwait' = mustwait
          /\ pc[p] \notin GotPCs \cup {"release", "backout"}
          /\ pc'[p] \notin GotPCs \cup {"release", "backout"}
      BY <1>0, <2>2 DEF UpdateScan, mine
    <3> QED BY <1>6, <3>1, <3>2
  <2> QED BY <1>11, <2>1, <2>2
<1>12. CASE WakeFlag(p) \/ WakePost(p)
  BY <1>0, <1>6, <1>12 DEF WakeFlag, WakePost, mine, shared
<1>13. CASE QueueFlag(p) \/ QueuePush(p)
  <2>1. CASE QueueFlag(p)
    <3>1. word'[l].exclusive = word[l].exclusive /\ word'[l].shares = word[l].shares
      BY <1>0, <2>1 DEF QueueFlag
    <3>2. /\ held' = held /\ call' = call /\ mustwait' = mustwait
          /\ pc[p] \notin GotPCs \cup {"release", "backout"}
          /\ pc'[p] \notin GotPCs \cup {"release", "backout"}
      BY <1>0, <2>1 DEF QueueFlag, mine
    <3> QED BY <1>6, <3>1, <3>2
  <2>2. CASE QueuePush(p)
    <3>1. word'[l].exclusive = word[l].exclusive /\ word'[l].shares = word[l].shares
      BY <1>0, <2>2 DEF QueuePush
    <3>2. /\ held' = held /\ call' = call /\ mustwait' = mustwait
          /\ pc[p] \notin GotPCs \cup {"release", "backout"}
          /\ pc'[p] \notin GotPCs \cup {"release", "backout"}
      BY <1>0, <2>2 DEF QueuePush, mine
    <3> QED BY <1>6, <3>1, <3>2
  <2> QED BY <1>13, <2>1, <2>2
<1>14. CASE DequeueUnlink(p)
  BY <1>0, <1>7, <1>14 DEF DequeueUnlink, mine
<1>15. CASE DequeueReleaseOk(p)
  BY <1>0, <1>7, <1>15 DEF DequeueReleaseOk, SetReleaseOk, mine
<1>16. CASE AcquireReleaseOk(p) \/ VarReleaseOk(p)
  <2>1. CASE AcquireReleaseOk(p)
    <3>1. word'[l].exclusive = word[l].exclusive /\ word'[l].shares = word[l].shares
      BY <1>0, <2>1 DEF AcquireReleaseOk, SetReleaseOk
    <3>2. /\ held' = held /\ call' = call /\ mustwait' = mustwait
          /\ pc[p] \notin GotPCs \cup {"release", "backout"}
          /\ pc'[p] \notin GotPCs \cup {"release", "backout"}
      BY <1>0, <2>1 DEF AcquireReleaseOk, SetReleaseOk, mine
    <3> QED BY <1>6, <3>1, <3>2
  <2>2. CASE VarReleaseOk(p)
    <3>1. word'[l].exclusive = word[l].exclusive /\ word'[l].shares = word[l].shares
      BY <1>0, <2>2 DEF VarReleaseOk, SetReleaseOk
    <3>2. /\ held' = held /\ call' = call /\ mustwait' = mustwait
          /\ pc[p] \notin GotPCs \cup {"release", "backout"}
          /\ pc'[p] \notin GotPCs \cup {"release", "backout"}
      BY <1>0, <2>2 DEF VarReleaseOk, SetReleaseOk, mine
    <3> QED BY <1>6, <3>1, <3>2
  <2> QED BY <1>16, <2>1, <2>2
<1>17. CASE DequeueSleep(p)
  BY <1>0, <1>7, <1>17 DEF DequeueSleep, SemaphoreLock, mine, shared
<1>18. CASE WaitUntilAwakened(p)
  BY <1>0, <1>6, <1>18, Continuations
     DEF WaitUntilAwakened, SemaphoreLock, mine, shared, PlaceAt, Seeking
<1>19. CASE Repay(p)
  BY <1>0, <1>7, <1>19 DEF Repay, mine, shared
<1>20. CASE Return(p)
  <2>1. held[p][Lock(p)] = "none" /\ pc[p] = "return" /\ pc'[p] = "idle"
        /\ call' = call /\ word' = word
    BY <1>0, <1>20 DEF Return, PlaceAt, Busy, Waking, shared
  <2>2. CASE mustwait[p] \/ call[p].op = "waitForVar"
    <3>1. mustwait[p] /\ held' = held
      BY <1>0, <1>20, <2>2 DEF Return, PlaceAt, Busy
    <3> QED BY <1>0, <2>1, <3>1 DEF Owns, Transient
  <2>3. CASE ~(mustwait[p] \/ call[p].op = "waitForVar")
    <3>1. held' = [held EXCEPT ![p][Lock(p)] = call[p].mode] /\ ~mustwait[p]
      BY <1>20, <2>3 DEF Return
    <3> QED BY <1>0, <2>1, <3>1 DEF Owns, Transient, Modes
  <2> QED BY <2>2, <2>3
<1>21. CASE VarState(p) \/ VarValue(p)
  BY <1>0, <1>6, <1>21, Continuations DEF VarState, VarValue, mine, shared, PlaceAt,
     Seeking
<1> QED BY <1>2, <1>4, <1>5, <1>8, <1>9, <1>10, <1>11, <1>12, <1>13, <1>14, <1>15,
           <1>16, <1>17, <1>18, <1>19, <1>20, <1>21
        DEF Step, LWLockAttemptLock, LWLockAttemptLockBackout, LWLockReleaseInternal

\* The other backends' part in the set of sharers.
LEMMA SharersFrame ==
  ASSUME IInv, NEW p \in Procs, Step(p), NEW l \in Locks
  PROVE  /\ Sharers(l)' \ {p} = Sharers(l) \ {p}
         /\ p \in Sharers(l)' <=> (Owns(p, l)' = "LW_SHARED" \/ Transient(p, l)')
         /\ p \in Sharers(l)  <=> (Owns(p, l)  = "LW_SHARED" \/ Transient(p, l))
         /\ IsFiniteSet(Sharers(l)) /\ Cardinality(Sharers(l)) \in Nat
<1>1. \A q \in Procs \ {p} : q \in Sharers(l)' <=> q \in Sharers(l)
  BY OthersOwn DEF Sharers, IInv
<1>2. Sharers(l)' \subseteq Procs /\ Sharers(l) \subseteq Procs
  BY DEF Sharers
<1>3. IsFiniteSet(Sharers(l))
  BY <1>2, LWLockAssumption, FS_Subset
<1>4. Cardinality(Sharers(l)) \in Nat
  BY <1>3, FS_CardinalityType
<1> QED BY <1>1, <1>2, <1>3, <1>4 DEF Sharers

\* Joining, leaving and keeping the set of sharers.
LEMMA SharersCount ==
  ASSUME IInv, NEW p \in Procs, Step(p), NEW l \in Locks
  PROVE  /\ p \in Sharers(l)' /\ p \notin Sharers(l) =>
              Cardinality(Sharers(l)') = Cardinality(Sharers(l)) + 1
         /\ p \notin Sharers(l)' /\ p \in Sharers(l) =>
              Cardinality(Sharers(l)') = Cardinality(Sharers(l)) - 1
         /\ (p \in Sharers(l)' <=> p \in Sharers(l)) =>
              Cardinality(Sharers(l)') = Cardinality(Sharers(l))
<1>1. ASSUME p \in Sharers(l)', p \notin Sharers(l)
      PROVE  Cardinality(Sharers(l)') = Cardinality(Sharers(l)) + 1
  <2>1. Sharers(l)' = Sharers(l) \cup {p}
    BY <1>1, SharersFrame
  <2> QED BY <1>1, <2>1, SharersFrame, FS_AddElement
<1>2. ASSUME p \notin Sharers(l)', p \in Sharers(l)
      PROVE  Cardinality(Sharers(l)') = Cardinality(Sharers(l)) - 1
  <2>1. Sharers(l)' = Sharers(l) \ {p}
    BY <1>2, SharersFrame
  <2> QED BY <1>2, <2>1, SharersFrame, FS_RemoveElement
<1>3. ASSUME p \in Sharers(l)' <=> p \in Sharers(l)
      PROVE  Sharers(l)' = Sharers(l)
  BY <1>3, SharersFrame
<1> QED BY <1>1, <1>2, <1>3

\* A free word has no owner, and one without the exclusive bit no exclusive
\* owner.
LEMMA FreeMeansUnowned ==
  ASSUME IInv, NEW l \in Locks
  PROVE  /\ ~word[l].exclusive => \A q \in Procs : Owns(q, l) # "LW_EXCLUSIVE"
         /\ word[l].shares = 0 => \A q \in Procs : Owns(q, l) # "LW_SHARED"
<1>1. ASSUME word[l].shares = 0, NEW q \in Procs PROVE Owns(q, l) # "LW_SHARED"
  BY <1>1, SharePositive DEF Sharers
<1> QED BY <1>1 DEF IInv, WordCountsOwners

\* The actions that start at these places.
LEMMA LoudActions ==
  ASSUME NEW p \in Procs, Step(p), pc[p] \in {"attempt", "backout", "release"}
  PROVE  \/ LWLockAttemptLock(p) \/ LWLockAttemptLockBackout(p)
         \/ LWLockReleaseInternal(p)
<1>1. pc[p] \notin {"releaseAll", "wakeLock", "wakeScan", "wakeFlag", "wakePost",
                    "queueLock", "queueFlag", "queuePush", "dequeueLock",
                    "dequeueUnlink", "dequeueReleaseOk", "dequeueSleep", "sleep",
                    "releaseOk", "return", "varReleaseOk", "varState", "varValue",
                    "updateLock", "updateScan"}
  OBVIOUS
<1> QED BY <1>1
        DEF Step, At, ReleaseAllNext, WakeLock, WakeScan, WakeFlag, WakePost, WakeDone,
            QueueLock, QueueFlag, QueuePush, DequeueLock, DequeueUnlink,
            DequeueReleaseOk, DequeueSleep, WaitUntilAwakened, AcquireReleaseOk, Repay,
            Return, VarReleaseOk, VarState, VarValue, UpdateLock, UpdateScan,
            WaitListLock, SetReleaseOk, SemaphoreLock

\* The three places where the word's count or its exclusive bit changes.
LEMMA LoudStep ==
  ASSUME IInv, NEW p \in Procs, Step(p), pc[p] \in {"attempt", "backout", "release"}
  PROVE  MutualExclusion' /\ WordCountsOwners'
<1> USE DEF Goto, At, GotPCs
<1>00. PICK k \in Locks : k = Lock(p)
  BY DEF IInv, TypeOK, Calls, Lock
<1>0. /\ pc \in [Procs -> PCs] /\ mustwait \in [Procs -> BOOLEAN]
      /\ word \in [Locks -> Word] /\ word[k] \in Word
      /\ k = Lock(p) /\ call[p].mode \in Modes
      /\ held[p][k] = "none"
      /\ MutualExclusion /\ WordCountsOwners
  BY <1>00 DEF IInv, TypeOK, Calls, PlaceOK, PlaceAt, Busy, Waking, Lock
<1>1. \A l \in Locks : Owns(p, l) \in Modes \cup {"none"}
  BY <1>0 DEF Owns, IInv, TypeOK
<1>2. \A q \in Procs \ {p}, l \in Locks :
        Owns(q, l)' = Owns(q, l) /\ (Transient(q, l)' <=> Transient(q, l))
  BY OthersOwn DEF IInv
<1>3. ASSUME \A l \in Locks \ {k} :
               /\ Owns(p, l)' = Owns(p, l)
               /\ Transient(p, l)' <=> Transient(p, l)
               /\ word'[l] = word[l],
             Owns(p, k)' = "LW_EXCLUSIVE" =>
               \A q \in Procs \ {p} : Owns(q, k) = "none",
             Owns(p, k)' = "LW_SHARED" =>
               \A q \in Procs \ {p} : Owns(q, k) # "LW_EXCLUSIVE",
             word'[k].exclusive <=>
               \/ Owns(p, k)' = "LW_EXCLUSIVE"
               \/ \E q \in Procs \ {p} : Owns(q, k) = "LW_EXCLUSIVE",
             word'[k].shares = Cardinality(Sharers(k)')
      PROVE  MutualExclusion' /\ WordCountsOwners'
  <2>1. ASSUME NEW l \in Locks, l # k PROVE Sharers(l)' = Sharers(l)
    BY <1>2, <1>3, <2>1 DEF Sharers
  <2>2. MutualExclusion'
    <3> SUFFICES ASSUME NEW l \in Locks, NEW a \in Procs, NEW b \in Procs, a # b,
                        Owns(a, l)' = "LW_EXCLUSIVE"
                 PROVE  Owns(b, l)' = "none"
      BY DEF MutualExclusion
    <3>1. CASE l # k
      BY <1>0, <1>2, <1>3, <3>1 DEF MutualExclusion
    <3>2. CASE l = k /\ a = p
      BY <1>2, <1>3, <3>2
    <3>3. CASE l = k /\ a # p /\ b = p
      <4>1. Owns(a, k) = "LW_EXCLUSIVE"
        BY <1>2, <3>3
      <4>2. Owns(p, k)' # "LW_EXCLUSIVE" /\ Owns(p, k)' # "LW_SHARED"
        BY <1>3, <3>3, <4>1
      <4>3. Owns(p, k)' \in Modes \cup {"none"}
        <5>1. TypeOK'
          BY TypeStep DEF Next
        <5>2. held'[p][k] \in Modes \cup {"none"}
          BY <1>0, <5>1 DEF TypeOK
        <5>3. call'[p] \in Calls
          BY <1>0, <5>1 DEF TypeOK
        <5>4. call'[p].mode \in Modes
          BY <5>3 DEF Calls
        <5> QED BY <5>2, <5>4 DEF Owns
      <4> QED BY <1>3, <3>3, <4>2, <4>3 DEF Modes
    <3>4. CASE l = k /\ a # p /\ b # p
      BY <1>0, <1>2, <3>4 DEF MutualExclusion
    <3> QED BY <3>1, <3>2, <3>3, <3>4
  <2>3. WordCountsOwners'
    <3> SUFFICES ASSUME NEW l \in Locks
                 PROVE  /\ word'[l].exclusive <=>
                             \E q \in Procs : Owns(q, l)' = "LW_EXCLUSIVE"
                        /\ word'[l].shares = Cardinality(Sharers(l)')
      BY DEF WordCountsOwners
    <3>1. CASE l = k
      BY <1>2, <1>3, <3>1
    <3>2. CASE l # k
      <4>1. \A q \in Procs : Owns(q, l)' = Owns(q, l)
        BY <1>2, <1>3, <3>2
      <4> QED BY <1>0, <1>3, <2>1, <3>2, <4>1 DEF WordCountsOwners
    <3> QED BY <3>1, <3>2
  <2> QED BY <2>2, <2>3
<1>4. ASSUME held' = held, call' = call, NEW w, word' = [word EXCEPT ![k] = w]
      PROVE  /\ \A l \in Locks \ {k} :
                  /\ Owns(p, l)' = Owns(p, l)
                  /\ Transient(p, l)' <=> Transient(p, l)
                  /\ word'[l] = word[l]
             /\ word'[k] = w
             /\ Lock(p)' = k /\ held'[p][k] = "none"
  BY <1>0, <1>4 DEF Owns, Transient, Lock
<1>5. /\ p \in Sharers(k)' <=> (Owns(p, k)' = "LW_SHARED" \/ Transient(p, k)')
      /\ p \in Sharers(k) <=> (Owns(p, k) = "LW_SHARED" \/ Transient(p, k))
  BY SharersFrame
<1>6. /\ word[k].shares = Cardinality(Sharers(k))
      /\ word[k].exclusive <=> \E q \in Procs : Owns(q, k) = "LW_EXCLUSIVE"
      /\ word[k].exclusive \in BOOLEAN /\ word[k].shares \in Nat
  BY <1>0 DEF WordCountsOwners, Word
<1>7. CASE LWLockAttemptLock(p)
  <2>1. /\ held' = held /\ call' = call /\ pc[p] = "attempt" /\ mustwait[p]
        /\ Owns(p, k) = "none" /\ ~Transient(p, k)
    BY <1>0, <1>7
       DEF LWLockAttemptLock, mine, Owns, Transient, IInv, PlaceOK, PlaceAt, Seeking
  <2>2. p \notin Sharers(k)
    BY <1>5, <2>1
  <2>3. CASE AttemptExclusive(p) /\ Free(word[k])
    <3>1. /\ word' = [word EXCEPT ![k] = [word[k] EXCEPT !.exclusive = TRUE]]
          /\ mustwait'[p] = FALSE /\ pc'[p] \in {"dequeueLock", "return"}
          /\ call[p].mode = "LW_EXCLUSIVE"
      BY <1>0, <2>3, Continuations DEF AttemptExclusive
    <3>2. word'[k].exclusive = TRUE /\ word'[k].shares = word[k].shares
      BY <1>0, <3>1 DEF Word
    <3>3. Owns(p, k)' = "LW_EXCLUSIVE" /\ ~Transient(p, k)'
      BY <1>4, <2>1, <3>1 DEF Owns, Transient
    <3>4. Cardinality(Sharers(k)') = Cardinality(Sharers(k))
      BY <1>5, <2>2, <3>3, SharersCount
    <3>5. \A q \in Procs \ {p} : Owns(q, k) = "none"
      <4>1. \A q \in Procs : Owns(q, k) # "LW_EXCLUSIVE" /\ Owns(q, k) # "LW_SHARED"
        BY <2>3, FreeMeansUnowned DEF Free
      <4>2. \A q \in Procs : Owns(q, k) \in Modes \cup {"none"}
        BY DEF Owns, IInv, TypeOK, Calls
      <4> QED BY <4>1, <4>2 DEF Modes
    <3> QED BY <1>3, <1>4, <1>6, <2>1, <3>1, <3>2, <3>3, <3>4, <3>5
  <2>4. CASE AttemptExclusive(p) /\ ~Free(word[k])
    <3>1. /\ word' = word /\ mustwait'[p] = mustwait[p]
          /\ pc'[p] \in {"return", "sleep", "queueLock"}
      BY <1>0, <2>4, Continuations DEF AttemptExclusive
    <3>2. word' = [word EXCEPT ![k] = word[k]]
      BY <1>0, <3>1
    <3>3. Owns(p, k)' = "none" /\ ~Transient(p, k)'
      BY <1>4, <2>1, <3>1, <3>2 DEF Owns, Transient
    <3>4. Cardinality(Sharers(k)') = Cardinality(Sharers(k))
      BY <1>5, <2>2, <3>3, SharersCount
    <3> QED BY <1>3, <1>4, <1>6, <2>1, <3>1, <3>2, <3>3, <3>4
  <2>5. CASE AttemptShared(p)
    <3>1. /\ word' = [word EXCEPT ![k] = [word[k] EXCEPT !.shares = @ + 1]]
          /\ call[p].mode = "LW_SHARED"
          /\ \/ /\ word[k].exclusive
                /\ pc'[p] = "backout"
             \/ /\ ~word[k].exclusive /\ mustwait'[p] = FALSE
                /\ pc'[p] \in {"dequeueLock", "return"}
      BY <1>0, <2>5, Continuations DEF AttemptShared
    <3>2. word'[k].exclusive = word[k].exclusive /\ word'[k].shares = word[k].shares + 1
      BY <1>0, <3>1 DEF Word
    <3>3. CASE word[k].exclusive
      <4>1. Owns(p, k)' = "none" /\ Transient(p, k)'
        BY <1>4, <2>1, <3>1, <3>3 DEF Owns, Transient
      <4>2. Cardinality(Sharers(k)') = Cardinality(Sharers(k)) + 1
        BY <1>5, <2>2, <4>1, SharersCount
      <4>3. word'[k].exclusive <=> \E q \in Procs \ {p} : Owns(q, k) = "LW_EXCLUSIVE"
        BY <1>6, <2>1, <3>2
      <4>4. word'[k].shares = Cardinality(Sharers(k)')
        BY <1>6, <3>2, <4>2
      <4> QED BY <1>3, <1>4, <2>1, <3>1, <4>1, <4>3, <4>4
    <3>4. CASE ~word[k].exclusive
      <4>1. Owns(p, k)' = "LW_SHARED"
        BY <1>4, <2>1, <3>1, <3>4 DEF Owns
      <4>2. Cardinality(Sharers(k)') = Cardinality(Sharers(k)) + 1
        BY <1>5, <2>2, <4>1, SharersCount
      <4>3. /\ ~word'[k].exclusive
            /\ \A q \in Procs \ {p} : Owns(q, k) # "LW_EXCLUSIVE"
        BY <1>6, <3>2, <3>4
      <4>4. word'[k].shares = Cardinality(Sharers(k)')
        BY <1>6, <3>2, <4>2
      <4> QED BY <1>3, <1>4, <2>1, <3>1, <4>1, <4>3, <4>4
    <3> QED BY <3>3, <3>4
  <2> QED BY <1>7, <2>3, <2>4, <2>5 DEF LWLockAttemptLock
<1>8. CASE LWLockAttemptLockBackout(p)
  <2>1. /\ held' = held /\ call' = call /\ pc[p] = "backout" /\ mustwait'[p]
        /\ Owns(p, k) = "none" /\ Transient(p, k)
    BY <1>0, <1>8 DEF LWLockAttemptLockBackout, mine, Owns, Transient, IInv, PlaceOK,
                      PlaceAt, Seeking
  <2>2. /\ word' = [word EXCEPT ![k] = [word[k] EXCEPT !.shares = @ - 1]]
        /\ pc'[p] \in {"wakeLock", "return", "sleep", "queueLock"}
    BY <1>0, <1>8, Continuations DEF LWLockAttemptLockBackout, DropShare
  <2>3. word'[k].exclusive = word[k].exclusive /\ word'[k].shares = word[k].shares - 1
    BY <1>0, <2>2 DEF Word
  <2>4. Owns(p, k)' = "none" /\ ~Transient(p, k)'
    BY <1>4, <2>1, <2>2 DEF Owns, Transient
  <2>5. Cardinality(Sharers(k)') = Cardinality(Sharers(k)) - 1
    BY <1>5, <2>1, <2>4, SharersCount
  <2>6. word'[k].exclusive <=> \E q \in Procs \ {p} : Owns(q, k) = "LW_EXCLUSIVE"
    BY <1>6, <2>1, <2>3
  <2>7. word'[k].shares = Cardinality(Sharers(k)')
    BY <1>6, <2>3, <2>5
  <2> QED BY <1>3, <1>4, <2>1, <2>2, <2>4, <2>6, <2>7
<1>9. CASE LWLockReleaseInternal(p)
  <2>1. /\ held' = held /\ call' = call /\ pc[p] = "release"
        /\ Owns(p, k) = call[p].mode /\ ~Transient(p, k)
    BY <1>0, <1>9 DEF LWLockReleaseInternal, Owns, Transient
  <2>2. pc'[p] \in {"wakeLock", "releaseAll", "idle"}
    BY <1>0, <1>9 DEF LWLockReleaseInternal, FinishRelease
  <2>3. CASE call[p].mode = "LW_EXCLUSIVE"
    <3>1. word' = [word EXCEPT ![k] = [word[k] EXCEPT !.exclusive = FALSE]]
      BY <1>0, <1>9, <2>3 DEF LWLockReleaseInternal
    <3>2. word'[k].exclusive = FALSE /\ word'[k].shares = word[k].shares
      BY <1>0, <3>1 DEF Word
    <3>3. Owns(p, k)' = "none" /\ ~Transient(p, k)'
      BY <1>4, <2>1, <2>2, <3>1 DEF Owns, Transient
    <3>4. Cardinality(Sharers(k)') = Cardinality(Sharers(k))
      BY <1>5, <2>1, <2>3, <3>3, SharersCount
    <3>5. \A q \in Procs \ {p} : Owns(q, k) = "none"
      BY <1>0, <2>1, <2>3 DEF MutualExclusion
    <3> QED BY <1>3, <1>4, <1>6, <2>1, <3>1, <3>2, <3>3, <3>4, <3>5
  <2>4. CASE call[p].mode = "LW_SHARED"
    <3>1. word' = [word EXCEPT ![k] = [word[k] EXCEPT !.shares = @ - 1]]
      BY <1>0, <1>9, <2>4 DEF LWLockReleaseInternal, DropShare
    <3>2. word'[k].exclusive = word[k].exclusive /\ word'[k].shares = word[k].shares - 1
      BY <1>0, <3>1 DEF Word
    <3>3. Owns(p, k)' = "none" /\ ~Transient(p, k)'
      BY <1>4, <2>1, <2>2, <3>1 DEF Owns, Transient
    <3>4. Cardinality(Sharers(k)') = Cardinality(Sharers(k)) - 1
      BY <1>5, <2>1, <2>4, <3>3, SharersCount
    <3>5. word'[k].exclusive <=> \E q \in Procs \ {p} : Owns(q, k) = "LW_EXCLUSIVE"
      BY <1>6, <2>1, <2>4, <3>2
    <3>6. word'[k].shares = Cardinality(Sharers(k)')
      BY <1>6, <3>2, <3>4
    <3> QED BY <1>3, <1>4, <2>1, <3>1, <3>3, <3>5, <3>6
  <2> QED BY <1>0, <2>3, <2>4 DEF Modes
<1>10. LWLockAttemptLock(p) \/ LWLockAttemptLockBackout(p) \/ LWLockReleaseInternal(p)
  BY LoudActions
<1> QED BY <1>7, <1>8, <1>9, <1>10

-----------------------------------------------------------------------------
(* The inductive invariant, and what follows from it                       *)

\* The inductive invariant holds initially.
LEMMA InitInv == Init => IInv
<1> SUFFICES ASSUME Init PROVE IInv
  OBVIOUS
<1>1. Unlocked \in Word /\ <<>> \in Seq(Procs) /\ 0 \in Vals /\ NoCall \in Calls
  BY LWLockAssumption DEF Unlocked, Word, NoCall, Calls, Ops, Modes
<1>2. TypeOK
  <2>1. /\ word \in [Locks -> Word] /\ waiters \in [Locks -> Seq(Procs)]
        /\ var \in [Locks -> Vals]
    BY <1>1 DEF Init, EachLock
  <2>2. wakeup \in [Procs -> Seq(Procs)] /\ call \in [Procs -> Calls]
    BY <1>1 DEF Init, EachProc
  <2>3. held \in [Procs -> [Locks -> Modes \cup {"none"}]]
    BY DEF Init, EachProc, EachLock
  <2>4. stray \in [Procs -> Nat] /\ sem \in [Procs -> Nat] /\ budget \in Nat
    BY LWLockAssumption DEF Init
  <2> QED BY <2>1, <2>2, <2>3, <2>4
          DEF Init, EachProc, TypeOK, WaitState, WaitModes, Modes, PCs, Sites
<1>3. \A p \in Procs, l \in Locks : Owns(p, l) = "none" /\ ~Transient(p, l)
  BY DEF Init, EachProc, EachLock, Owns, Transient, GotPCs
<1>4. \A p \in Procs : NumHeld(p) = 0
  <2>1. \A p \in Procs : Recorded(p) = {}
    BY DEF Init, EachProc, EachLock, Recorded
  <2> QED BY <2>1, RecordedFinite, FS_EmptySet
<1>5. PlaceOK
  BY DEF Init, EachProc, PlaceOK, PlaceAt, Busy, Waking, Seeking
<1>6. HoldoffOK
  BY <1>4 DEF Init, EachProc, HoldoffOK, HoldoffAt, Busy
<1>7. MutualExclusion
  BY <1>3 DEF MutualExclusion
<1>8. WordCountsOwners
  <2>1. \A l \in Locks : Sharers(l) = {}
    BY <1>3 DEF Sharers
  <2> QED BY <1>3, <2>1, FS_EmptySet DEF Init, EachLock, Unlocked, WordCountsOwners
<1> QED BY <1>2, <1>5, <1>6, <1>7, <1>8 DEF IInv

\* A crash brings the initial state back, but for what is left to do.
LEMMA ResetInv == IInv /\ LWLockResetAfterCrash => IInv'
<1> SUFFICES ASSUME IInv, LWLockResetAfterCrash PROVE IInv'
  OBVIOUS
<1>2. TypeOK'
  BY ResetType DEF IInv
<1>3. \A p \in Procs, l \in Locks : Owns(p, l)' = "none" /\ ~Transient(p, l)'
  BY DEF LWLockResetAfterCrash, EachProc, EachLock, Owns, Transient, GotPCs
<1>4. \A p \in Procs : NumHeld(p)' = 0
  <2>1. \A p \in Procs : Recorded(p)' = {}
    BY DEF LWLockResetAfterCrash, EachProc, EachLock, Recorded
  <2>2. \A p \in Procs : NumHeld(p)' = Cardinality(Recorded(p)')
    BY DEF NumHeld, Recorded
  <2> QED BY <2>1, <2>2, FS_EmptySet
<1>5. PlaceOK'
  BY DEF LWLockResetAfterCrash, EachProc, PlaceOK, PlaceAt, Busy, Waking, Seeking
<1>6. HoldoffOK'
  BY <1>4 DEF LWLockResetAfterCrash, EachProc, HoldoffOK, HoldoffAt, Busy
<1>7. MutualExclusion'
  BY <1>3 DEF MutualExclusion
<1>8. WordCountsOwners'
  <2>1. \A l \in Locks : Sharers(l)' = {}
    BY <1>3 DEF Sharers
  <2> QED BY <1>3, <2>1, FS_EmptySet
          DEF LWLockResetAfterCrash, EachLock, Unlocked, WordCountsOwners
<1> QED BY <1>2, <1>5, <1>6, <1>7, <1>8 DEF IInv

\* The inductive invariant is kept by every step.
LEMMA NextInv == IInv /\ [Next]_vars => IInv'
<1> SUFFICES ASSUME IInv, [Next]_vars PROVE IInv'
  OBVIOUS
<1>1. ASSUME NEW p \in Procs, Call(p) \/ GiveBack(p) \/ Step(p) PROVE IInv'
  <2>1. TypeOK'
    BY <1>1, TypeStep DEF Next
  <2>2. ASSUME NEW q \in Procs, q # p PROVE Same(q)
    BY <1>1, <2>2, Others DEF IInv
  <2>3. PlaceOK'
    <3>1. ASSUME NEW q \in Procs, q # p PROVE PlaceAt(q)'
      BY <2>2, <3>1 DEF Same, IInv, PlaceOK, PlaceAt, Busy, Lock
    <3> QED BY <1>1, <3>1, PlaceStep DEF PlaceOK
  <2>4. HoldoffOK'
    <3>1. ASSUME NEW q \in Procs, q # p PROVE HoldoffAt(q)'
      BY <2>2, <3>1, SameCounts DEF Same, IInv, HoldoffOK, HoldoffAt, Busy
    <3> QED BY <1>1, <3>1, HoldoffStep DEF HoldoffOK
  <2>5. MutualExclusion' /\ WordCountsOwners'
    <3>1. CASE Step(p) /\ pc[p] \in {"attempt", "backout", "release"}
      BY <3>1, LoudStep
    <3>2. CASE ~(Step(p) /\ pc[p] \in {"attempt", "backout", "release"})
      BY <1>1, <3>2, QuietStep, QuietFrame
    <3> QED BY <3>1, <3>2
  <2> QED BY <2>1, <2>3, <2>4, <2>5 DEF IInv
<1>2. CASE UNCHANGED vars
  <2>1. TypeOK'
    BY TypeStep
  <2>2. PlaceOK' /\ HoldoffOK'
    BY <1>2, SameCounts
       DEF IInv, vars, PlaceOK, PlaceAt, HoldoffOK, HoldoffAt, Busy, Lock
  <2>3. Quiet
    BY <1>2 DEF vars, Quiet, Owns, Transient, Lock
  <2> QED BY <2>1, <2>2, <2>3, QuietFrame DEF IInv
<1>3. CASE Finished
  BY <1>2, <1>3 DEF Finished
<1> QED BY <1>1, <1>2, <1>3, ResetInv DEF Next

(***************************************************************************)
(* The invariant that ties words, records and places together holds of     *)
(* every reachable state, for any number of backends and locks.            *)
(***************************************************************************)
THEOREM Invariance == Spec => []IInv
BY InitInv, NextInv, PTL DEF Spec

(***************************************************************************)
(* Types are respected.  The content is in the two counters: neither       *)
(* LWLockAttemptLockBackout nor LWLockReleaseInternal takes the share      *)
(* count below zero, and ResumeInterrupts never meets a zero holdoff.      *)
(***************************************************************************)
THEOREM TypeCorrect == Spec => []TypeOK
<1>1. IInv => TypeOK
  BY DEF IInv
<1> QED BY <1>1, Invariance, PTL

(***************************************************************************)
(* An exclusive owner of an LWLock is its only owner, although a shared    *)
(* attempt adds its share before it looks (LWLockAttemptLock).             *)
(***************************************************************************)
THEOREM Exclusion == Spec => []MutualExclusion
<1>1. IInv => MutualExclusion
  BY DEF IInv
<1> QED BY <1>1, Invariance, PTL

(***************************************************************************)
(* The lock word counts exactly the owners and the shares not yet backed   *)
(* out.                                                                    *)
(***************************************************************************)
THEOREM WordTruth == Spec => []WordCountsOwners
<1>1. IInv => WordCountsOwners
  BY DEF IInv
<1> QED BY <1>1, Invariance, PTL

(***************************************************************************)
(* Outside the lock code interrupts are held off once per recorded lock.   *)
(***************************************************************************)
THEOREM HoldoffTruth == Spec => []HoldoffBalanced
<1>1. IInv => HoldoffBalanced
  BY DEF IInv, HoldoffOK, HoldoffAt, HoldoffBalanced
<1> QED BY <1>1, Invariance, PTL

-----------------------------------------------------------------------------
(* The lock code implements the abstract reader-writer lock                *)

\* The state of the abstract lock.
Holder == [l \in Locks |-> [p \in Procs |-> Owns(p, l)]]

\* Owning is owning in a mode, or not at all.
LEMMA OwnsType ==
  /\ TypeOK => \A q \in Procs, l \in Locks : Owns(q, l) \in Modes \cup {"none"}
  /\ TypeOK' => \A q \in Procs, l \in Locks : Owns(q, l)' \in Modes \cup {"none"}
<1>1. TypeOK => \A q \in Procs, l \in Locks : Owns(q, l) \in Modes \cup {"none"}
  BY DEF TypeOK, Owns, Calls, Lock
<1>2. TypeOK' => \A q \in Procs, l \in Locks : Owns(q, l)' \in Modes \cup {"none"}
  BY DEF TypeOK, Owns, Calls, Lock
<1> QED BY <1>1, <1>2

\* A step of p changes p's hold of one lock at most, and never from one mode
\* to another.
LEMMA OneHoldChanges ==
  ASSUME IInv, NEW p \in Procs, Call(p) \/ GiveBack(p) \/ Step(p)
  PROVE  \/ Holder' = Holder
         \/ \E k \in Locks :
              /\ \A l \in Locks, q \in Procs :
                   l # k \/ q # p => Owns(q, l)' = Owns(q, l)
              /\ Owns(p, k) = "none" \/ Owns(p, k)' = "none"
<1>1. CASE ~(Step(p) /\ pc[p] \in {"attempt", "backout", "release"})
  <2>1. Quiet
    BY <1>1, QuietStep
  <2> QED BY <2>1 DEF Quiet, Holder
<1>2. CASE Step(p) /\ pc[p] \in {"attempt", "backout", "release"}
  <2>0. PICK k \in Locks : k = Lock(p)
    BY DEF IInv, TypeOK, Calls, Lock
  <2>1. /\ pc \in [Procs -> PCs] /\ held[p][k] = "none" /\ k = Lock(p)
        /\ Busy(p)
    BY <1>2, <2>0 DEF IInv, TypeOK, PlaceOK, PlaceAt, Busy, Waking
  <2>2. ASSUME NEW l \in Locks, NEW q \in Procs, q # p PROVE Owns(q, l)' = Owns(q, l)
    BY <2>2, OthersOwn DEF IInv
  <2>3. /\ held' = held /\ call' = call
        /\ \/ pc[p] \in {"attempt", "backout"}
           \/ pc'[p] \in {"wakeLock", "releaseAll", "idle"}
    <3>1. \/ LWLockAttemptLock(p) \/ LWLockAttemptLockBackout(p)
          \/ LWLockReleaseInternal(p)
      BY <1>2, LoudActions
    <3>2. CASE LWLockAttemptLock(p) \/ LWLockAttemptLockBackout(p)
      BY <3>2 DEF LWLockAttemptLock, LWLockAttemptLockBackout, At, mine
    <3>3. CASE LWLockReleaseInternal(p)
      BY <2>1, <3>3 DEF LWLockReleaseInternal, FinishRelease, Goto
    <3> QED BY <3>1, <3>2, <3>3
  <2>4. \A l \in Locks \ {k} : Owns(p, l)' = Owns(p, l)
    BY <2>1, <2>3 DEF Owns, Lock
  <2>5. Owns(p, k) = "none" \/ Owns(p, k)' = "none"
    BY <2>1, <2>3 DEF Owns, GotPCs
  <2> QED BY <2>2, <2>4, <2>5
<1> QED BY <1>1, <1>2

(***************************************************************************)
(* LWLock implements RWLock: every step of the lock code grants one hold   *)
(* that is compatible with the others, gives one back, changes none, or is *)
(* the reset after a crash.                                                *)
(***************************************************************************)
THEOREM Refinement == Spec => ImplementsRWLock
<1>1. Init => RW!RWInit
  BY DEF Init, EachProc, EachLock, Owns, GotPCs, RW!RWInit
<1>2. IInv /\ IInv' /\ [Next]_vars => [RW!RWNext]_Holder
  <2> SUFFICES ASSUME IInv, IInv', [Next]_vars, Holder' # Holder PROVE RW!RWNext \/ Holder' = Holder
    OBVIOUS
  <2>1. ASSUME NEW p \in Procs, Call(p) \/ GiveBack(p) \/ Step(p)
        PROVE  RW!RWNext \/ Holder' = Holder
    <3> SUFFICES ASSUME NEW k \in Locks,
                        \A l \in Locks, q \in Procs :
                          l # k \/ q # p => Owns(q, l)' = Owns(q, l),
                        Owns(p, k) = "none" \/ Owns(p, k)' = "none"
                 PROVE  RW!RWNext \/ Holder' = Holder
      BY <2>1, OneHoldChanges
    <3>0. \A l \in Locks, q \in Procs : Owns(q, l)' \in Modes \cup {"none"}
      BY OwnsType DEF IInv
    <3>1. Holder' = [Holder EXCEPT ![k][p] = Owns(p, k)']
      BY DEF Holder
    <3>2. CASE Owns(p, k)' = Owns(p, k)
      BY <3>2 DEF Holder
    <3>3. CASE Owns(p, k) = "none" /\ Owns(p, k)' # "none"
      <4>1. PICK m \in Modes : Owns(p, k)' = m
        BY <3>0, <3>3
      <4>2. \A q \in Procs \ {p} :
              Owns(q, k) = "none" \/ (m = "LW_SHARED" /\ Owns(q, k) = "LW_SHARED")
        <5> TAKE q \in Procs \ {p}
        <5>1. Owns(q, k)' = Owns(q, k) /\ Owns(q, k)' \in Modes \cup {"none"}
          BY <3>0
        <5>2. /\ Owns(p, k)' = "LW_EXCLUSIVE" => Owns(q, k)' = "none"
              /\ Owns(q, k)' = "LW_EXCLUSIVE" => Owns(p, k)' = "none"
          BY DEF IInv, MutualExclusion
        <5> QED BY <3>3, <4>1, <5>1, <5>2 DEF Modes
      <4>3. RW!Acquire(k, p, m)
        BY <3>1, <3>3, <4>1, <4>2 DEF Holder, RW!Acquire, RW!Compatible
      <4> QED BY <4>3 DEF RW!RWNext, RW!Modes, Modes, Holder
    <3>4. CASE Owns(p, k) # "none" /\ Owns(p, k)' = "none"
      <4>1. RW!Release(k, p)
        BY <3>1, <3>4 DEF Holder, RW!Release
      <4> QED BY <4>1 DEF RW!RWNext, Holder
    <3> QED BY <3>2, <3>3, <3>4
  <2>2. CASE LWLockResetAfterCrash
    <3>1. RW!Reset
      BY <2>2 DEF LWLockResetAfterCrash, EachProc, EachLock, Owns, GotPCs, RW!Reset
    <3> QED BY <3>1 DEF RW!RWNext, Holder
  <2>3. CASE UNCHANGED vars
    BY <2>3 DEF vars, Holder, Owns, Lock
  <2>4. CASE Finished
    BY <2>3, <2>4 DEF Finished
  <2> QED BY <2>1, <2>2, <2>3, <2>4 DEF Next
<1>3. QED
  BY <1>1, <1>2, Invariance, PTL DEF Spec, ImplementsRWLock, RW!RWSpec, Holder

(***************************************************************************)
(* Proofs about the wait lists of LWLock: a backend's one link node is on  *)
(* one list at most, and neither a release nor an update of the variable   *)
(* is lost on a backend that sleeps.  The invariant says who is on which   *)
(* list, what the flags HAS_WAITERS and RELEASE_OK of the word promise,    *)
(* and who will look at the list on behalf of a backend that has given up  *)
(* looking itself.                                                         *)
(***************************************************************************)

\* Nobody is on a list twice, on two lists, or on a list that lwWaiting does
\* not tell of.
LinkOK ==
  /\ \A l \in Locks : Distinct(waiters[l])
  /\ \A p \in Procs : Distinct(wakeup[p])
  /\ \A l \in Locks, q \in Procs :
       On(q, waiters[l]) <=> lwWaiting[q] = "WAITING" /\ Lock(q) = l
  /\ \A q \in Procs :
       lwWaiting[q] = "PENDING_WAKEUP" <=> \E p \in Procs : On(q, LinkedWakeup(p))
  /\ \A p, r, q \in Procs : On(q, LinkedWakeup(p)) /\ On(q, LinkedWakeup(r)) => p = r
  /\ \A p \in Procs : wakeup[p] # <<>> => pc[p] \in {"wakeFlag", "wakePost"}

\* The places of a call at which the caller may be on a list, and those of
\* LWLockDequeueSelf.
QueuedPCs  == {"attempt", "backout", "wakeLock", "wakeScan", "wakeFlag", "wakePost",
               "dequeueLock", "dequeueUnlink", "dequeueReleaseOk", "dequeueSleep",
               "sleep", "varReleaseOk", "varState", "varValue"}
DequeuePCs == {"dequeueLock", "dequeueUnlink", "dequeueReleaseOk", "dequeueSleep"}
QueueingPCs == {"queueLock", "queueFlag", "queuePush"}
VarPCs      == {"varReleaseOk", "varState", "varValue"}

\* What the place of q in its call says about the list it is on.
QueuedAt(q) ==
  /\ lwWaiting[q] # "NOT_WAITING" =>
       /\ site[q] = "queued" /\ pc[q] \in QueuedPCs
       /\ lwWaitMode[q] = IF call[q].op = "acquire" THEN call[q].mode
                                                    ELSE "LW_WAIT_UNTIL_FREE"
  /\ lwWaiting[q] = "WAITING" => pc[q] \notin {"dequeueReleaseOk", "dequeueSleep"}
  /\ pc[q] \in DequeuePCs \cup {"sleep", "releaseOk", "varReleaseOk"} => site[q] = "queued"
  /\ pc[q] \in QueueingPCs => site[q] \in {"first", "woken"}
  /\ site[q] = "queued" /\ pc[q] \in QueuedPCs \cup QueueingPCs =>
       call[q].op \in {"acquire", "acquireOrWait", "waitForVar"}
  /\ pc[q] \in QueueingPCs => call[q].op \in {"acquire", "acquireOrWait", "waitForVar"}
  /\ pc[q] \in VarPCs => call[q].op = "waitForVar"
  /\ pc[q] \in {"attempt", "backout"} => call[q].op \in {"acquire", "conditional", "acquireOrWait"}
  /\ pc[q] \in {"wakeLock", "wakeScan", "wakeFlag", "wakePost"} =>
       \/ site[q] \in {"release", "var"}
       \/ call[q].op \in {"acquire", "conditional", "acquireOrWait"}
  /\ pc[q] \in DequeuePCs => mustwait[q] = (call[q].op = "waitForVar")

QueuedOK == \A q \in Procs : QueuedAt(q)

\* Those that only wait until the lock is free come first.
OrderedOK ==
  \A l \in Locks : \A i, j \in DOMAIN waiters[l] :
    i < j /\ UntilFree(waiters[l][j]) => UntilFree(waiters[l][i])

\* LOCKED is a lock: one backend at a time works on a list.
Inside == {"wakeScan", "queueFlag", "queuePush", "dequeueUnlink", "updateScan"}

ListLockOK ==
  /\ \A p \in Procs : pc[p] \in Inside => word[Lock(p)].locked
  /\ \A p, q \in Procs :
       pc[p] \in Inside /\ pc[q] \in Inside /\ Lock(p) = Lock(q) => p = q

\* HAS_WAITERS is set while there are waiters.
FlagOK ==
  /\ \A l \in Locks : waiters[l] # <<>> => word[l].hasWaiters
  /\ \A p \in Procs : pc[p] = "queuePush" => word[Lock(p)].hasWaiters

\* q was taken off the list in order to get the lock, and has yet to set
\* RELEASE_OK again.
Fetched(q) ==
  /\ site[q] = "queued" /\ call[q].op = "acquire" /\ lwWaiting[q] # "WAITING"
  /\ pc[q] \in (QueuedPCs \cup {"releaseOk"}) \ (VarPCs \cup {"dequeueSleep"})

\* RELEASE_OK is clear only on behalf of such a backend.
FetchedOK ==
  \A l \in Locks : ~word[l].releaseOk => \E q \in Procs : Lock(q) = l /\ Fetched(q)

\* q owns l, or is at a place from which it will look at l's word or list.
Alert(q, l) ==
  \/ Owns(q, l) # "none"
  \/ /\ Lock(q) = l
     /\ pc[q] \in {"attempt", "backout", "wakeLock", "wakeScan"} \/ Fetched(q)

\* s is on a list and will not try again before somebody wakes it.
Resigned(s) ==
  /\ lwWaiting[s] = "WAITING"
  /\ pc[s] \in {"sleep", "wakeFlag", "wakePost", "varValue"}

AlertOK == \A s \in Procs : Resigned(s) => \E q \in Procs : Alert(q, Lock(s))

\* s has queued itself for a change of the variable.
VarWaiter(s) ==
  /\ lwWaiting[s] = "WAITING" /\ call[s].op = "waitForVar"
  /\ pc[s] \in {"varState", "varValue", "sleep"}

\* The places from which the list is going to be scanned for such waiters.
ScanPCs == {"updateLock", "updateScan", "release", "wakeLock", "wakeScan"}

VarAt(s) ==
  VarWaiter(s) =>
    /\ word[Lock(s)].releaseOk
    /\ pc[s] = "sleep" /\ var[Lock(s)] # call[s].oldval =>
         \/ \E q \in Procs : Lock(q) = Lock(s) /\ pc[q] \in ScanPCs
         \/ ~word[Lock(s)].exclusive /\ word[Lock(s)].shares # 0

VarOK == \A s \in Procs : VarAt(s)

\* The inductive invariant.
WaitInv ==
  /\ LinkOK /\ QueuedOK /\ OrderedOK /\ ListLockOK
  /\ FlagOK /\ FetchedOK /\ AlertOK /\ VarOK
-----------------------------------------------------------------------------
(* What a step does to the lists and to the flags                          *)

\* p's step leaves every list alone.
Calm(p) ==
  /\ waiters' = waiters /\ lwWaiting' = lwWaiting /\ lwWaitMode' = lwWaitMode
  /\ wakeup' = wakeup /\ wakeup[p] = <<>>
  /\ pc[p] # "wakePost" /\ pc'[p] # "wakePost"
  /\ call'[p] = call[p] \/ pc[p] \in {"idle", "releaseAll"}

\* The six steps that do not.
Relinks(p) ==
  \/ WakeScan(p) \/ WakeFlag(p) \/ WakePost(p) \/ QueuePush(p) \/ DequeueUnlink(p)
  \/ UpdateScan(p)

(***************************************************************************)
(* The lists change in WakeScan, WakeFlag, WakePost, QueuePush,            *)
(* DequeueUnlink and UpdateScan, and nowhere else.                         *)
(***************************************************************************)
LEMMA StepKinds ==
  ASSUME IInv, NEW p \in Procs, wakeup[p] # <<>> => pc[p] \in {"wakeFlag", "wakePost"},
         Call(p) \/ GiveBack(p) \/ Step(p)
  PROVE  Calm(p) \/ Relinks(p)
<1> USE DEF Goto, At, shared, proc, mine
<1>0. /\ pc \in [Procs -> PCs] /\ call \in [Procs -> Calls]
      /\ pc[p] \notin {"wakeFlag", "wakePost"} => wakeup[p] = <<>>
  BY DEF IInv, TypeOK
<1>1. CASE Call(p)
  <2>1. ASSUME NEW s \in {"attempt", "varState"}, NEW op, NEW l, NEW m, NEW v,
               Request(p, s, op, l, m, v)
        PROVE  Calm(p)
    BY <1>0, <2>1 DEF Calm, Request, Enter
  <2>2. ASSUME NEW l, NEW v, LWLockUpdateVar(p, l, v) PROVE Calm(p)
    BY <1>0, <2>2 DEF Calm, LWLockUpdateVar, Enter
  <2> QED BY <1>1, <2>1, <2>2 DEF Call, LWLockAcquire, LWLockConditionalAcquire,
             LWLockAcquireOrWait, LWLockWaitForVar
<1>2. CASE GiveBack(p)
  BY <1>0, <1>2 DEF Calm, GiveBack, LWLockRelease, LWLockReleaseClearVar,
     LWLockReleaseAll, Enter
<1>3. CASE Step(p)
  <2>1. CASE LWLockAttemptLock(p)
    BY <1>0, <2>1, Continuations DEF Calm, LWLockAttemptLock, AttemptExclusive, AttemptShared
  <2>2. CASE LWLockAttemptLockBackout(p)
    BY <1>0, <2>2, Continuations DEF Calm, LWLockAttemptLockBackout
  <2>3. CASE LWLockReleaseInternal(p)
    BY <1>0, <2>3 DEF Calm, LWLockReleaseInternal, FinishRelease
  <2>4. CASE ReleaseAllNext(p)
    BY <1>0, <2>4 DEF Calm, ReleaseAllNext
  <2>5. CASE WakeDone(p)
    BY <1>0, <2>5, Continuations DEF Calm, WakeDone, FinishRelease
  <2>6. CASE WakeLock(p) \/ QueueLock(p) \/ DequeueLock(p) \/ UpdateLock(p) \/ QueueFlag(p)
    BY <1>0, <2>6
       DEF Calm, WakeLock, QueueLock, DequeueLock, UpdateLock, WaitListLock, QueueFlag
  <2>7. CASE DequeueReleaseOk(p) \/ AcquireReleaseOk(p) \/ VarReleaseOk(p)
    BY <1>0, <2>7 DEF Calm, DequeueReleaseOk, AcquireReleaseOk, VarReleaseOk, SetReleaseOk
  <2>8. CASE DequeueSleep(p) \/ WaitUntilAwakened(p)
    BY <1>0, <2>8, Continuations DEF Calm, DequeueSleep, WaitUntilAwakened, SemaphoreLock
  <2>9. CASE Repay(p) \/ Return(p) \/ VarState(p) \/ VarValue(p)
    BY <1>0, <2>9, Continuations DEF Calm, Repay, Return, VarState, VarValue
  <2> QED BY <1>3, <2>1, <2>2, <2>3, <2>4, <2>5, <2>6, <2>7, <2>8, <2>9 DEF Step, Relinks
<1> QED BY <1>1, <1>2, <1>3

\* How p's step can change the word of a lock, apart from its holders.
WordFrame(p) ==
  \A l \in Locks :
    /\ l # Lock(p) => word'[l] = word[l]
    /\ \/ word'[l].hasWaiters = word[l].hasWaiters
       \/ QueueFlag(p) \/ WakeScan(p) \/ DequeueUnlink(p)
    /\ \/ word'[l].releaseOk = word[l].releaseOk
       \/ word'[l].releaseOk \/ WakeScan(p)
    /\ \/ word'[l].locked = word[l].locked /\ (pc[p] \in Inside <=> pc'[p] \in Inside)
       \/ pc[p] \notin Inside /\ ~word[Lock(p)].locked
       \/ pc[p] \in Inside /\ pc'[p] \notin Inside

\* The flags of the word change only in the steps that are about them, and
\* only in the word of the lock that the call is about.
LEMMA WordFrameStep ==
  ASSUME IInv, NEW p \in Procs, Call(p) \/ GiveBack(p) \/ Step(p)
  PROVE  /\ WordFrame(p)
         /\ pc'[p] \in Inside =>
              /\ Lock(p)' = Lock(p)
              /\ pc[p] \in Inside \/ (~word[Lock(p)].locked /\ word'[Lock(p)].locked)
         /\ pc'[p] = "queuePush" => QueueFlag(p)
<1> USE DEF Goto, At, shared, proc, mine, Inside
<1> DEFINE Goal ==
             /\ WordFrame(p)
             /\ pc'[p] \in Inside =>
                  /\ Lock(p)' = Lock(p)
                  /\ pc[p] \in Inside \/ (~word[Lock(p)].locked /\ word'[Lock(p)].locked)
             /\ pc'[p] = "queuePush" => QueueFlag(p)
<1>0. /\ pc \in [Procs -> PCs] /\ call \in [Procs -> Calls] /\ word \in [Locks -> Word]
      /\ Lock(p) \in Locks
  BY DEF IInv, TypeOK, Calls, Lock
<1>9. ASSUME word' = word, pc[p] \notin Inside, pc'[p] \notin Inside PROVE Goal
  BY <1>9 DEF WordFrame
<1> SUFFICES Goal
  OBVIOUS
<1> HIDE DEF Goal
<1>1. CASE Call(p)
  <2>1. ASSUME NEW s \in {"attempt", "varState"}, NEW op, NEW l, NEW m, NEW v,
               Request(p, s, op, l, m, v)
        PROVE  Goal
    BY <1>0, <1>9, <2>1 DEF Request, Enter
  <2>2. ASSUME NEW l, NEW v, LWLockUpdateVar(p, l, v) PROVE Goal
    BY <1>0, <1>9, <2>2 DEF LWLockUpdateVar, Enter
  <2> QED BY <1>1, <2>1, <2>2 DEF Call, LWLockAcquire, LWLockConditionalAcquire,
             LWLockAcquireOrWait, LWLockWaitForVar
<1>2. CASE GiveBack(p)
  BY <1>0, <1>9, <1>2 DEF GiveBack, LWLockRelease, LWLockReleaseClearVar,
     LWLockReleaseAll, Enter
<1>3. CASE Step(p)
  <2>1. CASE LWLockAttemptLock(p)
    <3>1. CASE AttemptExclusive(p)
      BY <1>0, <2>1, <3>1, Continuations DEF Goal, WordFrame, LWLockAttemptLock, AttemptExclusive, Word
    <3>2. CASE AttemptShared(p)
      BY <1>0, <2>1, <3>2, Continuations DEF Goal, WordFrame, LWLockAttemptLock, AttemptShared, Word
    <3> QED BY <2>1, <3>1, <3>2 DEF LWLockAttemptLock
  <2>2. CASE LWLockAttemptLockBackout(p)
    BY <1>0, <2>2, Continuations DEF Goal, WordFrame, LWLockAttemptLockBackout, DropShare, Word
  <2>3. CASE LWLockReleaseInternal(p)
    BY <1>0, <2>3 DEF Goal, WordFrame, LWLockReleaseInternal, FinishRelease, DropShare, Word
  <2>4. CASE ReleaseAllNext(p)
    BY <1>0, <1>9, <2>4 DEF ReleaseAllNext
  <2>5. CASE WakeDone(p)
    BY <1>0, <1>9, <2>5, Continuations DEF WakeDone, FinishRelease
  <2>6. CASE WakeLock(p) \/ QueueLock(p) \/ DequeueLock(p) \/ UpdateLock(p)
    BY <1>0, <2>6
       DEF Goal, WordFrame, WakeLock, QueueLock, DequeueLock, UpdateLock, WaitListLock, Word, Lock
  <2>7. CASE DequeueReleaseOk(p) \/ AcquireReleaseOk(p) \/ VarReleaseOk(p)
    BY <1>0, <2>7 DEF Goal, WordFrame, DequeueReleaseOk, AcquireReleaseOk, VarReleaseOk, SetReleaseOk, Word
  <2>8. CASE DequeueSleep(p) \/ WaitUntilAwakened(p)
    BY <1>0, <1>9, <2>8, Continuations DEF DequeueSleep, WaitUntilAwakened, SemaphoreLock
  <2>9. CASE Repay(p) \/ Return(p) \/ VarState(p) \/ VarValue(p) \/ WakeFlag(p) \/ WakePost(p)
    BY <1>0, <1>9, <2>9, Continuations DEF Repay, Return, VarState, VarValue, WakeFlag, WakePost
  <2>10. CASE QueueFlag(p)
    BY <1>0, <2>10 DEF Goal, WordFrame, QueueFlag, Word, Lock
  <2>11. CASE QueuePush(p)
    BY <1>0, <2>11 DEF Goal, WordFrame, QueuePush, Word
  <2>12. CASE UpdateScan(p)
    BY <1>0, <2>12 DEF Goal, WordFrame, UpdateScan, Word
  <2>13. CASE DequeueUnlink(p)
    <3>1. PICK b \in BOOLEAN : word' = [word EXCEPT ![Lock(p)].hasWaiters = b, ![Lock(p)].locked = FALSE]
      <4>1. word[Lock(p)].hasWaiters \in BOOLEAN
        BY <1>0 DEF Word
      <4> QED BY <2>13, <4>1 DEF DequeueUnlink
    <3>2. pc[p] = "dequeueUnlink" /\ pc'[p] \in {"return", "dequeueReleaseOk"}
      BY <1>0, <2>13 DEF DequeueUnlink
    <3> QED BY <1>0, <2>13, <3>1, <3>2 DEF Goal, WordFrame, Word
  <2>14. CASE WakeScan(p)
    BY <1>0, <2>14 DEF Goal, WordFrame, WakeScan, Word
  <2> QED BY <1>3, <2>1, <2>2, <2>3, <2>4, <2>5, <2>6, <2>7, <2>8, <2>9, <2>10, <2>11, <2>12,
             <2>13, <2>14 DEF Step
<1> QED BY <1>1, <1>2, <1>3

\* One backend at a time works on a list.
LEMMA ListLockStep ==
  ASSUME IInv, ListLockOK, NEW p \in Procs, Call(p) \/ GiveBack(p) \/ Step(p)
  PROVE  ListLockOK'
<1>0. /\ WordFrame(p)
      /\ pc'[p] \in Inside =>
           /\ Lock(p)' = Lock(p)
           /\ pc[p] \in Inside \/ (~word[Lock(p)].locked /\ word'[Lock(p)].locked)
  BY WordFrameStep
<1>1. \A q \in Procs : Lock(q) \in Locks
  BY DEF IInv, TypeOK, Calls, Lock
<1>2. \A q \in Procs \ {p} : pc'[q] = pc[q] /\ Lock(q)' = Lock(q)
  BY Others DEF IInv, Same, Lock
<1>3. ASSUME NEW q \in Procs, pc'[q] \in Inside PROVE word'[Lock(q)'].locked
  <2>1. CASE q = p
    <3>1. Lock(p)' = Lock(p)
      BY <1>0, <1>3, <2>1
    <3>2. CASE pc[p] \in Inside
      BY <1>0, <1>1, <1>3, <2>1, <3>1, <3>2 DEF WordFrame, ListLockOK
    <3> QED BY <1>0, <1>3, <2>1, <3>1, <3>2
  <2>2. CASE q # p
    <3>1. pc[q] \in Inside /\ Lock(q)' = Lock(q) /\ word[Lock(q)].locked
      BY <1>2, <1>3, <2>2 DEF ListLockOK
    <3>2. CASE Lock(q) # Lock(p)
      BY <1>0, <1>1, <3>1, <3>2 DEF WordFrame
    <3>3. CASE Lock(q) = Lock(p)
      <4>1. pc[p] \notin Inside
        BY <2>2, <3>1, <3>3 DEF ListLockOK
      <4> QED BY <1>0, <1>1, <3>1, <3>3, <4>1 DEF WordFrame
    <3> QED BY <3>2, <3>3
  <2> QED BY <2>1, <2>2
<1>4. ASSUME NEW q \in Procs \ {p}, pc'[q] \in Inside, pc'[p] \in Inside, Lock(q)' = Lock(p)'
      PROVE  FALSE
  <2>1. pc[q] \in Inside /\ Lock(q) = Lock(p) /\ word[Lock(q)].locked
    BY <1>0, <1>2, <1>4 DEF ListLockOK
  <2> QED BY <1>0, <1>4, <2>1 DEF ListLockOK
<1>5. ASSUME NEW q \in Procs, NEW r \in Procs, pc'[q] \in Inside, pc'[r] \in Inside,
             Lock(q)' = Lock(r)'
      PROVE  q = r
  <2>1. CASE q # p /\ r # p
    BY <1>2, <1>5, <2>1 DEF ListLockOK
  <2> QED BY <1>4, <1>5, <2>1
<1> QED BY <1>3, <1>5 DEF ListLockOK

-----------------------------------------------------------------------------
(* The scans                                                               *)

\* rest has its members in the order of list.
InOrder(rest, list) ==
  \A k, m \in DOMAIN rest : k < m =>
    \E i, j \in DOMAIN list : i < j /\ rest[k] = list[i] /\ rest[m] = list[j]

\* list falls into woken and rest, each in the order of list.
Parted(list, woken, rest) ==
  /\ woken \in Seq(Procs) /\ rest \in Seq(Procs) /\ Distinct(woken) /\ Distinct(rest)
  /\ \A q \in Procs : On(q, woken) => On(q, list)
  /\ \A q \in Procs : On(q, rest) <=> On(q, list) /\ ~On(q, woken)
  /\ InOrder(rest, list)

\* Nobody is on an empty list.
LEMMA NobodyOnEmpty == \A q : ~On(q, <<>>)
BY DEF On

\* Somebody is on every other.
LEMMA SomebodyOn ==
  ASSUME NEW list \in Seq(Procs), list # <<>> PROVE \E q \in Procs : On(q, list)
<1>1. Len(list) \in Nat \ {0} /\ DOMAIN list = 1..Len(list)
  OBVIOUS
<1>2. 1 \in DOMAIN list
  BY <1>1
<1>3. list[1] \in Procs
  BY <1>2
<1> QED BY <1>2, <1>3 DEF On

\* The least of a set of places.
LEMMA FirstPlace ==
  ASSUME NEW n \in Nat, NEW W \in SUBSET (1..n), W # {}
  PROVE  First(W) \in W /\ \A j \in W : First(W) <= j
<1>1. \E i \in W : \A j \in W : i <= j
  BY LeastNatural
<1> QED BY <1>1 DEF First

\* A list without repetition cut after place n.
LEMMA CutParts ==
  ASSUME NEW list \in Seq(Procs), Distinct(list), NEW n \in 0..Len(list),
         NEW woken, woken = SubSeq(list, 1, n), NEW rest, rest = SubSeq(list, n + 1, Len(list))
  PROVE  /\ Parted(list, woken, rest)
         /\ \A i \in 1..n : On(list[i], woken)
<1>1. /\ Len(list) \in Nat /\ DOMAIN list = 1..Len(list) /\ n \in Nat /\ n <= Len(list)
      /\ woken \in Seq(Procs) /\ DOMAIN woken = 1..n
      /\ rest \in Seq(Procs) /\ DOMAIN rest = 1..(Len(list) - n)
  OBVIOUS
<1>2. /\ \A i \in 1..n : woken[i] = list[i] /\ i \in 1..Len(list)
      /\ \A i \in 1..(Len(list) - n) : rest[i] = list[n + i] /\ n + i \in 1..Len(list) /\ n + i \notin 1..n
  BY <1>1
<1>3. \A i \in 1..Len(list) : i \in 1..n \/ (i - n \in 1..(Len(list) - n) /\ n + (i - n) = i)
  BY <1>1
<1>4. Distinct(woken)
  BY <1>1, <1>2 DEF Distinct
<1>5. Distinct(rest)
  <2> SUFFICES ASSUME NEW i \in 1..(Len(list) - n), NEW j \in 1..(Len(list) - n), list[n + i] = list[n + j]
               PROVE  i = j
    BY <1>1, <1>2 DEF Distinct
  <2>1. n + i = n + j
    BY <1>1, <1>2 DEF Distinct
  <2> QED BY <1>1, <2>1
<1>6. \A q \in Procs : On(q, woken) => On(q, list)
  BY <1>1, <1>2 DEF On
<1>7. ASSUME NEW q \in Procs, On(q, rest) PROVE On(q, list) /\ ~On(q, woken)
  <2>1. PICK i \in 1..(Len(list) - n) : list[n + i] = q
    BY <1>1, <1>2, <1>7 DEF On
  <2>2. On(q, list)
    BY <1>1, <1>2, <2>1 DEF On
  <2>3. ASSUME NEW j \in 1..n, woken[j] = q PROVE FALSE
    <3>1. j = n + i
      BY <1>1, <1>2, <2>1, <2>3 DEF Distinct
    <3> QED BY <1>2, <3>1
  <2> QED BY <1>1, <2>2, <2>3 DEF On
<1>8. ASSUME NEW q \in Procs, On(q, list), ~On(q, woken) PROVE On(q, rest)
  <2>1. PICK i \in 1..Len(list) : list[i] = q
    BY <1>1, <1>8 DEF On
  <2>2. i \notin 1..n
    BY <1>1, <1>2, <1>8, <2>1 DEF On
  <2>3. i - n \in 1..(Len(list) - n) /\ n + (i - n) = i
    BY <1>3, <2>2
  <2>4. rest[i - n] = q
    BY <1>2, <2>1, <2>3
  <2> QED BY <1>1, <2>3, <2>4 DEF On
<1>9. ASSUME NEW k \in DOMAIN rest, NEW m \in DOMAIN rest, k < m
      PROVE  \E i, j \in DOMAIN list : i < j /\ rest[k] = list[i] /\ rest[m] = list[j]
  <2>1. n + k < n + m
    BY <1>1, <1>9
  <2>2. rest[k] = list[n + k] /\ rest[m] = list[n + m] /\ n + k \in 1..Len(list) /\ n + m \in 1..Len(list)
    BY <1>1, <1>2
  <2> QED BY <1>1, <2>1, <2>2
<1> QED BY <1>1, <1>2, <1>4, <1>6, <1>5, <1>7, <1>8, <1>9 DEF Parted, InOrder, On

\* A list without repetition parted by a set of places.
LEMMA PickParts ==
  ASSUME NEW list \in Seq(Procs), Distinct(list), NEW S \in SUBSET (DOMAIN list),
         NEW woken, woken = Pick(list, S), NEW rest, rest = Pick(list, DOMAIN list \ S)
  PROVE  /\ Parted(list, woken, rest)
         /\ \A i \in S : On(list[i], woken)
<1>1. PICK T : T = DOMAIN list \ S
  OBVIOUS
<1>2. /\ woken \in Seq(Procs) /\ Distinct(woken)
      /\ \A q : On(q, woken) <=> \E i \in S : list[i] = q
  BY PickOn
<1>3. /\ rest \in Seq(Procs) /\ Distinct(rest)
      /\ \A q : On(q, rest) <=> \E i \in T : list[i] = q
      /\ \A k, m \in DOMAIN rest : k < m =>
           \E i, j \in T : i < j /\ rest[k] = list[i] /\ rest[m] = list[j]
      /\ rest = <<>> <=> T = {}
  <2>1. T \in SUBSET (DOMAIN list) /\ rest = Pick(list, T)
    BY <1>1
  <2> HIDE <1>1, <1>2
  <2> QED BY <2>1, PickOn, ZenonT(60)
<1>4. \A q \in Procs : On(q, woken) => On(q, list)
  BY <1>2 DEF On
<1>5. ASSUME NEW q \in Procs PROVE On(q, rest) <=> On(q, list) /\ ~On(q, woken)
  <2>1. On(q, list) <=> \E i \in DOMAIN list : list[i] = q
    BY DEF On
  <2>2. \A i, j \in DOMAIN list : list[i] = q /\ list[j] = q => i = j
    BY DEF Distinct
  <2>3. On(q, rest) <=> \E i \in T : list[i] = q
    BY <1>3
  <2>4. On(q, woken) <=> \E i \in S : list[i] = q
    BY <1>2
  <2> QED BY <1>1, <2>1, <2>2, <2>3, <2>4
<1>6. ASSUME NEW k \in DOMAIN rest, NEW m \in DOMAIN rest, k < m
      PROVE  \E i, j \in DOMAIN list : i < j /\ rest[k] = list[i] /\ rest[m] = list[j]
  <2>1. \E i, j \in T : i < j /\ rest[k] = list[i] /\ rest[m] = list[j]
    BY <1>3, <1>6
  <2> QED BY <1>1, <2>1
<1>7. \A i \in S : On(list[i], woken)
  BY <1>2
<1> QED BY <1>2, <1>3, <1>4, <1>5, <1>6, <1>7 DEF Parted, InOrder

\* p moves woken from the wait list of its lock to its own list.
Scanned(p, woken, rest) ==
  /\ pc[p] \in {"wakeScan", "updateScan"} /\ pc' = [pc EXCEPT ![p] = "wakeFlag"]
  /\ call' = call /\ site' = site /\ var' = var /\ lwWaitMode' = lwWaitMode
  /\ Parted(waiters[Lock(p)], woken, rest)
  /\ waiters' = [waiters EXCEPT ![Lock(p)] = rest]
  /\ wakeup' = [wakeup EXCEPT ![p] = woken]
  /\ \A q \in Procs :
       lwWaiting'[q] = IF On(q, woken) THEN "PENDING_WAKEUP" ELSE lwWaiting[q]
  /\ \A q \in Procs : On(q, waiters[Lock(p)]) /\ UntilFree(q) => On(q, woken)

\* lwWaiting after the marking of those on a list.
LEMMA MarkPendingOn ==
  ASSUME NEW woken, lwWaiting' = MarkPending(woken)
  PROVE  \A q \in Procs :
           lwWaiting'[q] = IF On(q, woken) THEN "PENDING_WAKEUP" ELSE lwWaiting[q]
BY DEF MarkPending, Marked, On

\* On an ordered list those that wait until the lock is free are all before
\* the first of the others.
LEMMA UntilFreeFirst ==
  ASSUME OrderedOK, NEW l \in Locks, NEW list, list = waiters[l], list \in Seq(Procs),
         NEW i \in DOMAIN list, UntilFree(list[i]),
         Wanting(list) # {}
  PROVE  /\ First(Wanting(list)) \in Wanting(list) /\ First(Wanting(list)) \in 1..Len(list)
         /\ Wanting(list) \in SUBSET (1..Len(list))
         /\ i < First(Wanting(list))
<1>1. Len(list) \in Nat /\ DOMAIN list = 1..Len(list) /\ Wanting(list) \in SUBSET (1..Len(list))
  BY DEF Wanting
<1>2. First(Wanting(list)) \in Wanting(list)
  BY <1>1, FirstPlace
<1>3. PICK f \in DOMAIN list : f = First(Wanting(list)) /\ ~UntilFree(list[f])
  BY <1>1, <1>2 DEF Wanting
<1>4. ~(f < i)
  BY <1>3 DEF OrderedOK
<1>5. f # i
  BY <1>3
<1>6. i < f
  BY <1>1, <1>4, <1>5
<1> QED BY <1>1, <1>2, <1>3, <1>6

\* LWLockWakeup takes all that wait until the lock is free.  It leaves
\* somebody on the list only when it takes one that wants the lock, and then
\* it clears RELEASE_OK.
LEMMA WakeScanParts ==
  ASSUME IInv, LinkOK, OrderedOK, NEW p \in Procs, WakeScan(p)
  PROVE  \E woken, rest :
           /\ Scanned(p, woken, rest)
           /\ word'[Lock(p)].hasWaiters <=> word[Lock(p)].hasWaiters /\ rest # <<>>
           /\ ~word'[Lock(p)].releaseOk <=> \E q \in Procs : On(q, woken) /\ ~UntilFree(q)
           /\ rest # <<>> => ~word'[Lock(p)].releaseOk
           /\ word'[Lock(p)].exclusive = word[Lock(p)].exclusive
           /\ word'[Lock(p)].shares = word[Lock(p)].shares
<1>0. PICK l \in Locks : l = Lock(p)
  BY DEF IInv, TypeOK, Calls, Lock
<1>1. PICK list \in Seq(Procs) : list = waiters[l]
  BY DEF IInv, TypeOK
<1>2. PICK S : S = Woken(list)
  OBVIOUS
<1>3. S \in SUBSET (DOMAIN list)
  BY <1>1, <1>2, ScanTypes DEF IInv
<1>4. PICK woken : woken = Pick(list, S)
  OBVIOUS
<1>5. PICK rest : rest = Pick(list, DOMAIN list \ S)
  OBVIOUS
<1>6. /\ waiters' = [waiters EXCEPT ![l] = rest]
      /\ wakeup' = [wakeup EXCEPT ![p] = woken]
      /\ lwWaiting' = MarkPending(woken)
      /\ word' = [word EXCEPT ![l].releaseOk = (Wanting(woken) = {}),
                              ![l].hasWaiters = @ /\ rest # <<>>,
                              ![l].locked = FALSE]
      /\ pc[p] = "wakeScan" /\ pc' = [pc EXCEPT ![p] = "wakeFlag"]
      /\ call' = call /\ site' = site /\ var' = var /\ lwWaitMode' = lwWaitMode
  BY <1>0, <1>1, <1>2, <1>4, <1>5 DEF WakeScan, Goto, At
<1>7. Distinct(list)
  BY <1>1 DEF LinkOK
<1>8. Parted(list, woken, rest) /\ \A i \in S : On(list[i], woken)
  <2> HIDE <1>2
  <2> QED BY <1>3, <1>4, <1>5, <1>7, PickParts
<1>9. ASSUME NEW q \in Procs, On(q, list), UntilFree(q) PROVE On(q, woken)
  <2>1. PICK i \in DOMAIN list : list[i] = q
    BY <1>9 DEF On
  <2>2. i \in S
    <3>1. CASE Wanting(list) = {}
      BY <1>2, <3>1 DEF Woken
    <3>2. CASE Wanting(list) # {}
      <4>1. i < First(Wanting(list)) /\ First(Wanting(list)) \in 1..Len(list)
        BY <1>1, <1>9, <2>1, <3>2, UntilFreeFirst
      <4>2. i \in 1..First(Wanting(list))
        BY <1>1, <4>1
      <4>3. ~Exclusive(list[i])
        BY <1>9, <2>1 DEF UntilFree, Exclusive
      <4> QED BY <1>2, <3>2, <4>2, <4>3 DEF Woken
    <3> QED BY <3>1, <3>2
  <2> QED BY <1>8, <2>1, <2>2
<1>10. \A q \in Procs :
         lwWaiting'[q] = IF On(q, woken) THEN "PENDING_WAKEUP" ELSE lwWaiting[q]
  BY <1>6, MarkPendingOn
<1>11. Scanned(p, woken, rest)
  BY <1>0, <1>1, <1>6, <1>8, <1>9, <1>10 DEF Scanned
<1>12. Wanting(woken) # {} <=> \E q \in Procs : On(q, woken) /\ ~UntilFree(q)
  <2>1. woken \in Seq(Procs)
    BY <1>8 DEF Parted
  <2>2. \A i \in DOMAIN woken : woken[i] \in Procs
    BY <2>1
  <2> QED BY <2>2 DEF Wanting, On
<1>13. ASSUME rest # <<>> PROVE Wanting(woken) # {}
  <2>1. rest \in Seq(Procs)
    BY <1>8 DEF Parted
  <2>2. PICK q \in Procs : On(q, rest)
    BY <1>13, <2>1, SomebodyOn
  <2>3. Wanting(list) # {}
    <3> SUFFICES ASSUME Wanting(list) = {} PROVE FALSE
      OBVIOUS
    <3>1. PICK i \in DOMAIN list : list[i] = q
      BY <1>8, <2>2 DEF Parted, On
    <3>2. UntilFree(q)
      BY <3>1 DEF Wanting
    <3> QED BY <1>8, <1>9, <2>2, <3>2 DEF Parted
  <2>4. PICK f : f = First(Wanting(list))
    OBVIOUS
  <2>5. f \in Wanting(list) /\ f \in 1..Len(list)
    <3>1. Len(list) \in Nat /\ Wanting(list) \in SUBSET (1..Len(list))
      BY <1>1 DEF Wanting
    <3> QED BY <2>3, <2>4, <3>1, FirstPlace
  <2>6. f \in S
    <3>1. f \in 1..f /\ f \in DOMAIN list
      BY <1>1, <2>5
    <3> QED BY <1>2, <2>3, <2>4, <3>1 DEF Woken
  <2>7. On(list[f], woken) /\ ~UntilFree(list[f]) /\ list[f] \in Procs
    BY <1>1, <1>8, <2>5, <2>6 DEF Wanting
  <2> QED BY <1>12, <2>7
<1>14. /\ word'[l].releaseOk = (Wanting(woken) = {})
       /\ word'[l].hasWaiters = (word[l].hasWaiters /\ rest # <<>>)
       /\ word'[l].exclusive = word[l].exclusive /\ word'[l].shares = word[l].shares
  <2>1. word \in [Locks -> Word]
    BY DEF IInv, TypeOK
  <2> QED BY <1>6, <2>1 DEF Word
<1> QED BY <1>0, <1>11, <1>12, <1>13, <1>14

\* LWLockUpdateVar takes all that wait until the lock is free.
LEMMA UpdateScanParts ==
  ASSUME IInv, LinkOK, OrderedOK, NEW p \in Procs, UpdateScan(p)
  PROVE  \E woken, rest : Scanned(p, woken, rest)
<1>0. PICK l \in Locks : l = Lock(p)
  BY DEF IInv, TypeOK, Calls, Lock
<1>1. PICK list \in Seq(Procs) : list = waiters[l]
  BY DEF IInv, TypeOK
<1>2. PICK n : n = IF Wanting(list) = {} THEN Len(list) ELSE First(Wanting(list)) - 1
  OBVIOUS
<1>3. Len(list) \in Nat /\ DOMAIN list = 1..Len(list) /\ Wanting(list) \in SUBSET (1..Len(list))
  BY <1>1 DEF Wanting
<1>4. n \in 0..Len(list)
  <2>1. CASE Wanting(list) = {}
    BY <1>2, <1>3, <2>1
  <2>2. CASE Wanting(list) # {}
    <3>1. First(Wanting(list)) \in 1..Len(list)
      BY <1>3, <2>2, FirstPlace
    <3> QED BY <1>2, <1>3, <2>2, <3>1
  <2> QED BY <2>1, <2>2
<1>5. PICK woken : woken = SubSeq(list, 1, n)
  OBVIOUS
<1>6. PICK rest : rest = SubSeq(list, n + 1, Len(list))
  OBVIOUS
<1>7. /\ waiters' = [waiters EXCEPT ![l] = rest]
      /\ wakeup' = [wakeup EXCEPT ![p] = woken]
      /\ lwWaiting' = MarkPending(woken)
      /\ pc[p] = "updateScan" /\ pc' = [pc EXCEPT ![p] = "wakeFlag"]
      /\ call' = call /\ site' = site /\ var' = var /\ lwWaitMode' = lwWaitMode
  BY <1>0, <1>1, <1>2, <1>5, <1>6 DEF UpdateScan, Goto, At
<1>8. Distinct(list)
  BY <1>1 DEF LinkOK
<1>9. Parted(list, woken, rest) /\ \A i \in 1..n : On(list[i], woken)
  <2> HIDE <1>2
  <2> QED BY <1>1, <1>4, <1>5, <1>6, <1>8, CutParts
<1>10. ASSUME NEW q \in Procs, On(q, list), UntilFree(q) PROVE On(q, woken)
  <2>1. PICK i \in DOMAIN list : list[i] = q
    BY <1>10 DEF On
  <2>2. i \in 1..n
    <3>1. CASE Wanting(list) = {}
      BY <1>2, <1>3, <3>1
    <3>2. CASE Wanting(list) # {}
      <4>1. i < First(Wanting(list)) /\ First(Wanting(list)) \in 1..Len(list)
        BY <1>1, <1>10, <2>1, <3>2, UntilFreeFirst
      <4> QED BY <1>2, <1>3, <3>2, <4>1
    <3> QED BY <3>1, <3>2
  <2> QED BY <1>9, <2>1, <2>2
<1>11. \A q \in Procs :
         lwWaiting'[q] = IF On(q, woken) THEN "PENDING_WAKEUP" ELSE lwWaiting[q]
  BY <1>7, MarkPendingOn
<1> QED BY <1>0, <1>1, <1>7, <1>9, <1>10, <1>11 DEF Scanned

-----------------------------------------------------------------------------
(* Who is on which list                                                    *)

\* A step of p leaves the wakeup lists of the others alone.
LEMMA OthersWake ==
  ASSUME TypeOK, NEW p \in Procs, NEW r \in Procs \ {p}, Call(p) \/ GiveBack(p) \/ Step(p)
  PROVE  /\ LinkedWakeup(r)' = LinkedWakeup(r) /\ wakeup'[r] = wakeup[r]
         /\ pc'[r] = pc[r] /\ Lock(r)' = Lock(r)
BY Others DEF Same, LinkedWakeup, Lock

\* A scan moves backends from one list to another.
LEMMA ScanLinks ==
  ASSUME IInv, LinkOK, NEW p \in Procs, WakeScan(p) \/ UpdateScan(p),
         NEW woken, NEW rest, Scanned(p, woken, rest)
  PROVE  LinkOK'
<1>0. PICK l \in Locks : l = Lock(p)
  BY DEF IInv, TypeOK, Calls, Lock
<1>1. /\ waiters \in [Locks -> Seq(Procs)] /\ wakeup \in [Procs -> Seq(Procs)]
      /\ pc \in [Procs -> PCs]
  BY DEF IInv, TypeOK
<1>2. /\ waiters'[l] = rest /\ \A k \in Locks \ {l} : waiters'[k] = waiters[k]
      /\ wakeup'[p] = woken /\ pc'[p] = "wakeFlag" /\ wakeup[p] = <<>>
  BY <1>0, <1>1 DEF Scanned, LinkOK
<1>3. \A r \in Procs \ {p} :
        LinkedWakeup(r)' = LinkedWakeup(r) /\ wakeup'[r] = wakeup[r] /\ pc'[r] = pc[r]
  BY OthersWake DEF IInv, Step
<1>4. LinkedWakeup(p)' = woken /\ \A q : ~On(q, LinkedWakeup(p))
  BY <1>2, NobodyOnEmpty DEF LinkedWakeup, Scanned
<1>5. /\ Distinct(woken) /\ Distinct(rest)
      /\ \A q \in Procs : On(q, woken) => On(q, waiters[l])
      /\ \A q \in Procs : On(q, rest) <=> On(q, waiters[l]) /\ ~On(q, woken)
  BY <1>0 DEF Scanned, Parted
<1>6. \A q \in Procs :
        /\ lwWaiting'[q] = IF On(q, woken) THEN "PENDING_WAKEUP" ELSE lwWaiting[q]
        /\ Lock(q)' = Lock(q)
  BY DEF Scanned, Lock
<1>7. \A q \in Procs : On(q, woken) => lwWaiting[q] = "WAITING" /\ Lock(q) = l
  BY <1>5 DEF LinkOK
<1>8. \A k \in Locks : Distinct(waiters'[k])
  BY <1>2, <1>5 DEF LinkOK
<1>9. \A r \in Procs : Distinct(wakeup'[r])
  BY <1>2, <1>3, <1>5 DEF LinkOK
<1>10. ASSUME NEW k \in Locks, NEW q \in Procs
       PROVE  On(q, waiters'[k]) <=> lwWaiting'[q] = "WAITING" /\ Lock(q)' = k
  <2>1. On(q, waiters[k]) <=> lwWaiting[q] = "WAITING" /\ Lock(q) = k
    BY DEF LinkOK
  <2>2. CASE k = l
    BY <1>2, <1>5, <1>6, <1>7, <2>1, <2>2
  <2>3. CASE k # l
    BY <1>2, <1>6, <1>7, <2>1, <2>3
  <2> QED BY <2>2, <2>3
<1>11. ASSUME NEW q \in Procs
       PROVE  lwWaiting'[q] = "PENDING_WAKEUP" <=> \E r \in Procs : On(q, LinkedWakeup(r)')
  <2>1. lwWaiting[q] = "PENDING_WAKEUP" <=> \E r \in Procs : On(q, LinkedWakeup(r))
    BY DEF LinkOK
  <2> QED BY <1>3, <1>4, <1>6, <2>1
<1>12. ASSUME NEW q \in Procs, NEW r \in Procs, NEW s \in Procs,
              On(q, LinkedWakeup(r)'), On(q, LinkedWakeup(s)')
       PROVE  r = s
  <2>1. \A t \in Procs : On(q, LinkedWakeup(t)) => lwWaiting[q] = "PENDING_WAKEUP"
    BY DEF LinkOK
  <2>2. On(q, LinkedWakeup(r)) /\ On(q, LinkedWakeup(s)) => r = s
    BY DEF LinkOK
  <2> QED BY <1>3, <1>4, <1>7, <1>12, <2>1, <2>2
<1>13. \A r \in Procs : wakeup'[r] # <<>> => pc'[r] \in {"wakeFlag", "wakePost"}
  BY <1>2, <1>3 DEF LinkOK
<1> QED BY <1>8, <1>9, <1>10, <1>11, <1>12, <1>13 DEF LinkOK

\* The waker unlinks the head of its list, then clears its lwWaiting, then
\* posts its semaphore.
LEMMA WakeLinks ==
  ASSUME IInv, LinkOK, NEW p \in Procs, WakeFlag(p) \/ WakePost(p)
  PROVE  LinkOK'
<1>1. /\ lwWaiting \in [Procs -> WaitState] /\ wakeup \in [Procs -> Seq(Procs)]
      /\ pc \in [Procs -> PCs]
  BY DEF IInv, TypeOK
<1>2. waiters' = waiters /\ call' = call /\ \A q \in Procs : Lock(q)' = Lock(q)
  BY DEF WakeFlag, WakePost, shared, Lock
<1>3. \A r \in Procs \ {p} :
        LinkedWakeup(r)' = LinkedWakeup(r) /\ wakeup'[r] = wakeup[r] /\ pc'[r] = pc[r]
  BY OthersWake DEF IInv, Step
<1>4. wakeup[p] # <<>>
  BY DEF WakeFlag, WakePost, IInv, PlaceOK, PlaceAt, At
<1>5. /\ Head(wakeup[p]) \in Procs /\ Distinct(Tail(wakeup[p]))
      /\ \A q : On(q, Tail(wakeup[p])) <=> q # Head(wakeup[p]) /\ On(q, wakeup[p])
  <2>1. wakeup[p] \in Seq(Procs) /\ Distinct(wakeup[p])
    BY <1>1 DEF LinkOK
  <2> QED BY <1>4, <2>1, TailOn
<1>6. LinkedWakeup(p)' = Tail(wakeup[p])
  BY <1>1 DEF WakeFlag, WakePost, LinkedWakeup, Goto
<1>7. \A r \in Procs : Distinct(wakeup'[r])
  <2>1. Distinct(wakeup'[p])
    BY <1>1, <1>5 DEF WakeFlag, WakePost, LinkOK
  <2> QED BY <1>3, <2>1 DEF LinkOK
<1>8. \A r \in Procs : wakeup'[r] # <<>> => pc'[r] \in {"wakeFlag", "wakePost"}
  <2>1. pc'[p] \in {"wakeFlag", "wakePost"}
    BY <1>1 DEF WakeFlag, WakePost, Goto
  <2> QED BY <1>3, <2>1 DEF LinkOK
<1>9. CASE WakePost(p)
  <2>1. lwWaiting' = lwWaiting /\ LinkedWakeup(p)' = LinkedWakeup(p)
    BY <1>6, <1>9 DEF WakePost, LinkedWakeup, At
  <2>2. \A r \in Procs : LinkedWakeup(r)' = LinkedWakeup(r)
    BY <1>3, <2>1
  <2> QED BY <1>2, <1>7, <1>8, <2>1, <2>2 DEF LinkOK
<1>10. CASE WakeFlag(p)
  <2>1. LinkedWakeup(p) = wakeup[p]
    BY <1>10 DEF WakeFlag, At, LinkedWakeup
  <2>2. PICK h \in Procs : h = Head(wakeup[p])
    BY <1>5
  <2>3. On(h, wakeup[p])
    <3>1. 1 \in DOMAIN wakeup[p] /\ wakeup[p][1] = h
      BY <1>1, <1>4, <2>2
    <3> QED BY <3>1 DEF On
  <2>4. lwWaiting[h] = "PENDING_WAKEUP" /\ \A r \in Procs \ {p} : ~On(h, LinkedWakeup(r))
    BY <2>1, <2>3 DEF LinkOK
  <2>5. lwWaiting'[h] = "NOT_WAITING" /\ \A q \in Procs \ {h} : lwWaiting'[q] = lwWaiting[q]
    BY <1>1, <1>10, <2>2 DEF WakeFlag
  <2>6. ASSUME NEW k \in Locks, NEW q \in Procs
        PROVE  On(q, waiters'[k]) <=> lwWaiting'[q] = "WAITING" /\ Lock(q)' = k
    <3>1. On(q, waiters[k]) <=> lwWaiting[q] = "WAITING" /\ Lock(q) = k
      BY DEF LinkOK
    <3> QED BY <1>2, <2>4, <2>5, <3>1
  <2>7. ASSUME NEW q \in Procs
        PROVE  lwWaiting'[q] = "PENDING_WAKEUP" <=> \E r \in Procs : On(q, LinkedWakeup(r)')
    <3>1. lwWaiting[q] = "PENDING_WAKEUP" <=> \E r \in Procs : On(q, LinkedWakeup(r))
      BY DEF LinkOK
    <3> QED BY <1>3, <1>5, <1>6, <2>1, <2>2, <2>4, <2>5, <3>1
  <2>8. ASSUME NEW q \in Procs, NEW r \in Procs, NEW s \in Procs,
               On(q, LinkedWakeup(r)'), On(q, LinkedWakeup(s)')
        PROVE  r = s
    <3>1. On(q, LinkedWakeup(r)) /\ On(q, LinkedWakeup(s)) => r = s
      BY DEF LinkOK
    <3> QED BY <1>3, <1>5, <1>6, <2>1, <2>8, <3>1
  <2> QED BY <1>2, <1>7, <1>8, <2>6, <2>7, <2>8 DEF LinkOK
<1> QED BY <1>9, <1>10

\* LWLockQueueSelf and LWLockDequeueSelf.
LEMMA QueueLinks ==
  ASSUME IInv, LinkOK, QueuedOK, NEW p \in Procs, QueuePush(p) \/ DequeueUnlink(p)
  PROVE  LinkOK'
<1>0. PICK l \in Locks : l = Lock(p)
  BY DEF IInv, TypeOK, Calls, Lock
<1>1. /\ waiters \in [Locks -> Seq(Procs)] /\ lwWaiting \in [Procs -> WaitState]
      /\ pc \in [Procs -> PCs]
  BY DEF IInv, TypeOK
<1>2. wakeup' = wakeup /\ call' = call /\ \A q \in Procs : Lock(q)' = Lock(q)
  BY DEF QueuePush, DequeueUnlink, Lock
<1>3. \A r \in Procs : LinkedWakeup(r)' = LinkedWakeup(r)
  <2>1. \A r \in Procs \ {p} : LinkedWakeup(r)' = LinkedWakeup(r)
    BY OthersWake DEF IInv, Step
  <2>2. pc[p] # "wakePost" /\ pc'[p] # "wakePost"
    BY <1>1 DEF QueuePush, DequeueUnlink, At, Goto
  <2> QED BY <1>2, <2>1, <2>2 DEF LinkedWakeup
<1>4. \A r \in Procs : wakeup'[r] # <<>> => pc'[r] \in {"wakeFlag", "wakePost"}
  <2>1. \A r \in Procs \ {p} : pc'[r] = pc[r]
    BY OthersWake DEF IInv, Step
  <2>2. wakeup[p] = <<>>
    BY DEF QueuePush, DequeueUnlink, At, LinkOK
  <2> QED BY <1>2, <2>1, <2>2 DEF LinkOK
<1>5. \A r \in Procs : Distinct(wakeup'[r])
  BY <1>2 DEF LinkOK
<1>6. lwWaiting[p] # "PENDING_WAKEUP" \/ lwWaiting'[p] = lwWaiting[p]
  BY <1>1 DEF QueuePush, DequeueUnlink, At, QueuedOK, QueuedAt, QueueingPCs
<1>7. /\ \A q \in Procs \ {p} : lwWaiting'[q] = lwWaiting[q]
      /\ lwWaiting'[p] # "PENDING_WAKEUP" \/ lwWaiting'[p] = lwWaiting[p]
  BY <1>1 DEF QueuePush, DequeueUnlink
<1>8. \A q \in Procs :
        lwWaiting'[q] = "PENDING_WAKEUP" <=> \E r \in Procs : On(q, LinkedWakeup(r)')
  BY <1>3, <1>6, <1>7 DEF LinkOK
<1>9. \A r, s, q \in Procs : On(q, LinkedWakeup(r)') /\ On(q, LinkedWakeup(s)') => r = s
  BY <1>3 DEF LinkOK
<1>10. PICK rest : rest = waiters'[l]
  OBVIOUS
<1>11. \A k \in Locks \ {l} : waiters'[k] = waiters[k]
  BY <1>0, <1>1 DEF QueuePush, DequeueUnlink
<1>12. Distinct(rest) /\ \A q \in Procs : On(q, rest) <=> lwWaiting'[q] = "WAITING" /\ Lock(q)' = l
  <2>1. /\ waiters[l] \in Seq(Procs) /\ Distinct(waiters[l])
        /\ \A q \in Procs : On(q, waiters[l]) <=> lwWaiting[q] = "WAITING" /\ Lock(q) = l
    BY <1>1 DEF LinkOK
  <2>2. CASE QueuePush(p)
    <3>1. lwWaiting[p] = "NOT_WAITING" /\ lwWaiting'[p] = "WAITING"
      BY <1>1, <2>2 DEF QueuePush, At, QueuedOK, QueuedAt, QueueingPCs
    <3>2. ~On(p, waiters[l])
      BY <2>1, <3>1
    <3>3. rest = proclist_push_tail(waiters[l], p) \/ rest = proclist_push_head(waiters[l], p)
      BY <1>0, <1>1, <1>10, <2>2 DEF QueuePush, Push
    <3>4. Distinct(rest) /\ \A q : On(q, rest) <=> q = p \/ On(q, waiters[l])
      <4> HIDE <1>10
      <4>1. CASE rest = proclist_push_tail(waiters[l], p)
        BY <2>1, <3>2, <4>1, PushTailOn
      <4>2. CASE rest = proclist_push_head(waiters[l], p)
        BY <2>1, <3>2, <4>2, PushHeadOn
      <4> QED BY <3>3, <4>1, <4>2
    <3> QED BY <1>0, <1>2, <1>7, <2>1, <3>1, <3>4
  <2>3. CASE DequeueUnlink(p) /\ lwWaiting[p] = "WAITING"
    <3>1. rest = proclist_delete(waiters[l], p) /\ lwWaiting'[p] = "NOT_WAITING"
      BY <1>0, <1>1, <1>10, <2>3 DEF DequeueUnlink
    <3>2. Distinct(rest) /\ \A q : On(q, rest) <=> q # p /\ On(q, waiters[l])
      <4> HIDE <1>10
      <4> QED BY <2>1, <3>1, DeleteOn
    <3> QED BY <1>2, <1>7, <2>1, <3>1, <3>2
  <2>4. CASE DequeueUnlink(p) /\ lwWaiting[p] # "WAITING"
    <3>1. rest = waiters[l] /\ lwWaiting' = lwWaiting
      BY <1>0, <1>1, <1>10, <2>4 DEF DequeueUnlink
    <3> QED BY <1>2, <2>1, <3>1
  <2> QED BY <2>2, <2>3, <2>4
<1>13. \A k \in Locks : Distinct(waiters'[k])
  BY <1>10, <1>11, <1>12 DEF LinkOK
<1>14. ASSUME NEW k \in Locks, NEW q \in Procs
       PROVE  On(q, waiters'[k]) <=> lwWaiting'[q] = "WAITING" /\ Lock(q)' = k
  <2>1. CASE k = l
    BY <1>10, <1>12, <2>1
  <2>2. CASE k # l
    <3>1. On(q, waiters[k]) <=> lwWaiting[q] = "WAITING" /\ Lock(q) = k
      BY DEF LinkOK
    <3> QED BY <1>0, <1>2, <1>7, <1>11, <2>2, <3>1
  <2> QED BY <2>1, <2>2
<1> QED BY <1>4, <1>5, <1>8, <1>9, <1>13, <1>14 DEF LinkOK

\* Every step keeps each link node on one list.
LEMMA LinkStep ==
  ASSUME IInv, LinkOK, QueuedOK, OrderedOK, NEW p \in Procs, Call(p) \/ GiveBack(p) \/ Step(p)
  PROVE  LinkOK'
<1>1. CASE Calm(p)
  <2>1. \A r \in Procs \ {p} :
          LinkedWakeup(r)' = LinkedWakeup(r) /\ pc'[r] = pc[r] /\ Lock(r)' = Lock(r)
    BY OthersWake DEF IInv
  <2>2. LinkedWakeup(p)' = LinkedWakeup(p) /\ wakeup'[p] = <<>>
    BY <1>1 DEF Calm, LinkedWakeup
  <2>3. Lock(p)' = Lock(p) \/ lwWaiting[p] # "WAITING"
    BY <1>1 DEF Calm, Lock, QueuedOK, QueuedAt, QueuedPCs
  <2>4. /\ \A k \in Locks : Distinct(waiters'[k])
        /\ \A r \in Procs : Distinct(wakeup'[r])
        /\ \A r \in Procs : wakeup'[r] # <<>> => pc'[r] \in {"wakeFlag", "wakePost"}
    BY <1>1, <2>1, <2>2 DEF Calm, LinkOK
  <2>5. \A k \in Locks, q \in Procs :
          On(q, waiters'[k]) <=> lwWaiting'[q] = "WAITING" /\ Lock(q)' = k
    BY <1>1, <2>1, <2>3 DEF Calm, LinkOK
  <2>6. \A r \in Procs : LinkedWakeup(r)' = LinkedWakeup(r)
    BY <2>1, <2>2
  <2> QED BY <1>1, <2>4, <2>5, <2>6 DEF Calm, LinkOK
<1>2. CASE WakeScan(p) \/ UpdateScan(p)
  BY <1>2, WakeScanParts, UpdateScanParts, ScanLinks
<1>3. CASE WakeFlag(p) \/ WakePost(p)
  BY <1>3, WakeLinks
<1>4. CASE QueuePush(p) \/ DequeueUnlink(p)
  BY <1>4, QueueLinks
<1> QED BY <1>1, <1>2, <1>3, <1>4, StepKinds DEF LinkOK, Relinks

-----------------------------------------------------------------------------
(* The places at which a backend is on a list                              *)

\* A backend gets on a list, and chooses what it waits for, in
\* LWLockQueueSelf only.
WaitingFrame(p) ==
  \A q \in Procs :
    \/ q = p /\ QueuePush(p)
    \/ /\ lwWaiting'[q] = "WAITING" => lwWaiting[q] = "WAITING"
       /\ lwWaiting'[q] # "NOT_WAITING" => lwWaiting[q] # "NOT_WAITING"
       /\ lwWaitMode'[q] = lwWaitMode[q]

\* Every step is such a step.
LEMMA WaitingFrameStep ==
  ASSUME IInv, LinkOK, OrderedOK, NEW p \in Procs, Call(p) \/ GiveBack(p) \/ Step(p)
  PROVE  WaitingFrame(p)
<1>0. /\ lwWaiting \in [Procs -> WaitState] /\ lwWaitMode \in [Procs -> WaitModes]
      /\ Lock(p) \in Locks
  BY DEF IInv, TypeOK, Calls, Lock
<1>1. CASE Calm(p)
  BY <1>1 DEF Calm, WaitingFrame
<1>2. ASSUME NEW woken, NEW rest, Scanned(p, woken, rest) PROVE WaitingFrame(p)
  <2>1. \A q \in Procs : On(q, woken) => lwWaiting[q] = "WAITING"
    BY <1>0, <1>2 DEF Scanned, Parted, LinkOK
  <2> QED BY <1>2, <2>1 DEF Scanned, WaitingFrame
<1>3. CASE WakeScan(p) \/ UpdateScan(p)
  BY <1>2, <1>3, WakeScanParts, UpdateScanParts
<1>4. CASE WakeFlag(p) \/ WakePost(p)
  BY <1>0, <1>4 DEF WakeFlag, WakePost, WaitingFrame
<1>5. CASE QueuePush(p)
  BY <1>0, <1>5 DEF QueuePush, WaitingFrame
<1>6. CASE DequeueUnlink(p)
  BY <1>0, <1>6 DEF DequeueUnlink, WaitingFrame
<1> QED BY <1>1, <1>3, <1>4, <1>5, <1>6, StepKinds DEF LinkOK, Relinks

\* A step leaves its backend at a place that fits the list it is on.
LEMMA QueuedStep ==
  ASSUME IInv, LinkOK, QueuedOK, OrderedOK, NEW p \in Procs, Call(p) \/ GiveBack(p) \/ Step(p)
  PROVE  QueuedOK'
<1> USE DEF Goto, At, shared, proc, mine, QueuedPCs, DequeuePCs, QueueingPCs, VarPCs
<1>0. /\ pc \in [Procs -> PCs] /\ site \in [Procs -> Sites] /\ call \in [Procs -> Calls]
      /\ mustwait \in [Procs -> BOOLEAN] /\ lwWaiting \in [Procs -> WaitState]
      /\ lwWaitMode \in [Procs -> WaitModes]
      /\ QueuedAt(p) /\ PlaceAt(p)
  BY DEF IInv, TypeOK, QueuedOK, PlaceOK
<1>w. WaitingFrame(p)
  BY WaitingFrameStep
<1>o. ASSUME NEW q \in Procs \ {p} PROVE QueuedAt(q)'
  <2>1. Same(q)
    BY Others DEF IInv
  <2>2. QueuedAt(q)
    BY DEF QueuedOK
  <2> QED BY <1>w, <2>1, <2>2 DEF WaitingFrame, Same, QueuedAt
<1>q. QueuePush(p) \/
      /\ lwWaiting'[p] = "WAITING" => lwWaiting[p] = "WAITING"
      /\ lwWaiting'[p] # "NOT_WAITING" => lwWaiting[p] # "NOT_WAITING"
      /\ lwWaitMode'[p] = lwWaitMode[p]
  BY <1>w DEF WaitingFrame
<1> SUFFICES QueuedAt(p)'
  BY <1>o DEF QueuedOK
<1> HIDE <1>w, <1>o
<1>1. CASE Call(p)
  <2>0. lwWaiting' = lwWaiting /\ pc[p] = "idle"
    BY <1>1 DEF Call, LWLockAcquire, LWLockConditionalAcquire,
             LWLockAcquireOrWait, LWLockWaitForVar, LWLockUpdateVar, Request, Enter
  <2>1. ASSUME NEW op \in {"acquire", "conditional", "acquireOrWait"}, NEW l, NEW m, NEW v,
               Request(p, "attempt", op, l, m, v)
        PROVE  QueuedAt(p)'
    BY <1>0, <2>0, <2>1 DEF QueuedAt, Request, Enter
  <2>2. ASSUME NEW l, NEW m, NEW v, Request(p, "varState", "waitForVar", l, m, v)
        PROVE  QueuedAt(p)'
    BY <1>0, <2>0, <2>2 DEF QueuedAt, Request, Enter
  <2>3. ASSUME NEW l, NEW v, LWLockUpdateVar(p, l, v) PROVE QueuedAt(p)'
    BY <1>0, <2>0, <2>3 DEF QueuedAt, LWLockUpdateVar, Enter
  <2> QED BY <1>1, <2>1, <2>2, <2>3 DEF Call, LWLockAcquire, LWLockConditionalAcquire,
             LWLockAcquireOrWait, LWLockWaitForVar
<1>2. CASE GiveBack(p)
  BY <1>0, <1>2 DEF QueuedAt, GiveBack, LWLockRelease, LWLockReleaseClearVar, LWLockReleaseAll, Enter
<1>3. CASE Step(p)
  <2>1. CASE LWLockAttemptLock(p)
    <3>1. CASE AttemptExclusive(p)
      BY <1>0, <2>1, <3>1, ZenonT(60) DEF QueuedAt, PlaceAt, Busy, Waking, Sites, LWLockAttemptLock,
         AttemptExclusive, AfterGot, AfterFail
    <3>2. CASE AttemptShared(p)
      BY <1>0, <2>1, <3>2, ZenonT(60) DEF QueuedAt, LWLockAttemptLock, AttemptShared, AfterGot, AfterFail
    <3> QED BY <2>1, <3>1, <3>2 DEF LWLockAttemptLock
  <2>2. CASE LWLockAttemptLockBackout(p)
    BY <1>0, <2>2 DEF QueuedAt, PlaceAt, Busy, Waking, Sites, LWLockAttemptLockBackout, AfterFail
  <2>3. CASE LWLockReleaseInternal(p)
    BY <1>0, <2>3 DEF QueuedAt, PlaceAt, LWLockReleaseInternal, FinishRelease
  <2>4. CASE ReleaseAllNext(p)
    BY <1>0, <2>4 DEF QueuedAt, ReleaseAllNext
  <2>5. CASE WakeDone(p)
    <3>1. CASE site[p] \in {"release", "var"}
      BY <1>0, <2>5, <3>1 DEF QueuedAt, WakeDone, FinishRelease
    <3>2. CASE site[p] \notin {"release", "var"}
      BY <1>0, <2>5, <3>2, ZenonT(60) DEF QueuedAt, PlaceAt, WakeDone, AfterFail, Waking, Busy, Sites
    <3> QED BY <3>1, <3>2
  <2>6. CASE WakeLock(p) \/ QueueLock(p) \/ DequeueLock(p) \/ UpdateLock(p) \/ QueueFlag(p)
    BY <1>0, <2>6
       DEF QueuedAt, PlaceAt, WakeLock, QueueLock, DequeueLock, UpdateLock, WaitListLock, QueueFlag
  <2>7. CASE DequeueReleaseOk(p) \/ AcquireReleaseOk(p) \/ VarReleaseOk(p)
    BY <1>0, <2>7 DEF QueuedAt, PlaceAt, DequeueReleaseOk, AcquireReleaseOk, VarReleaseOk, SetReleaseOk
  <2>8. CASE DequeueSleep(p)
    BY <1>0, <2>8 DEF QueuedAt, DequeueSleep, SemaphoreLock
  <2>9. CASE WaitUntilAwakened(p)
    BY <1>0, <2>9 DEF QueuedAt, WaitUntilAwakened, SemaphoreLock, AfterSleep
  <2>10. CASE Repay(p) \/ Return(p)
    BY <1>0, <2>10 DEF QueuedAt, Repay, Return
  <2>11. CASE VarState(p) \/ VarValue(p)
    BY <1>0, <2>11 DEF QueuedAt, PlaceAt, Busy, Waking, Sites, VarState, VarValue, AfterGot, AfterFail
  <2>12. CASE WakeScan(p) \/ UpdateScan(p)
    BY <1>0, <1>q, <2>12 DEF QueuedAt, PlaceAt, WakeScan, UpdateScan, QueuePush
  <2>13. CASE WakeFlag(p) \/ WakePost(p)
    BY <1>0, <1>q, <2>13 DEF QueuedAt, WakeFlag, WakePost, QueuePush
  <2>14. CASE QueuePush(p)
    BY <1>0, <2>14 DEF QueuedAt, QueuePush
  <2>15. CASE DequeueUnlink(p)
    BY <1>0, <2>15 DEF QueuedAt, DequeueUnlink
  <2> QED BY <1>3, <2>1, <2>2, <2>3, <2>4, <2>5, <2>6, <2>7, <2>8, <2>9, <2>10, <2>11, <2>12,
             <2>13, <2>14, <2>15 DEF Step
<1> QED BY <1>1, <1>2, <1>3

-----------------------------------------------------------------------------
(* The order of a list, and what the flags promise                         *)

\* Those that wait until the lock is free stay before the others: they queue
\* at the head, the others at the tail.
LEMMA OrderedStep ==
  ASSUME IInv, LinkOK, QueuedOK, OrderedOK, NEW p \in Procs, Call(p) \/ GiveBack(p) \/ Step(p)
  PROVE  OrderedOK'
<1>0. /\ waiters \in [Locks -> Seq(Procs)] /\ lwWaitMode \in [Procs -> WaitModes]
      /\ Lock(p) \in Locks /\ call[p].mode \in Modes
  BY DEF IInv, TypeOK, Calls, Lock
<1>1. ASSUME lwWaitMode' = lwWaitMode, waiters' = waiters PROVE OrderedOK'
  BY <1>1 DEF OrderedOK, UntilFree
<1>2. ASSUME NEW rest, lwWaitMode' = lwWaitMode, waiters' = [waiters EXCEPT ![Lock(p)] = rest],
             InOrder(rest, waiters[Lock(p)])
      PROVE  OrderedOK'
  <2> SUFFICES ASSUME NEW l \in Locks, NEW k \in DOMAIN waiters'[l], NEW m \in DOMAIN waiters'[l],
                      k < m, UntilFree(waiters'[l][m])
               PROVE  UntilFree(waiters'[l][k])
    BY <1>2 DEF OrderedOK, UntilFree
  <2>1. CASE l = Lock(p)
    <3>1. waiters'[l] = rest
      BY <1>0, <1>2, <2>1
    <3>2. PICK i \in DOMAIN waiters[l], j \in DOMAIN waiters[l] :
            i < j /\ rest[k] = waiters[l][i] /\ rest[m] = waiters[l][j]
      BY <1>2, <2>1, <3>1 DEF InOrder
    <3> QED BY <3>1, <3>2 DEF OrderedOK
  <2>2. CASE l # Lock(p)
    <3>1. waiters'[l] = waiters[l]
      BY <1>0, <1>2, <2>2
    <3> QED BY <3>1 DEF OrderedOK
  <2> QED BY <2>1, <2>2
<1>3. CASE Calm(p) \/ WakeFlag(p) \/ WakePost(p)
  BY <1>1, <1>3 DEF Calm, WakeFlag, WakePost, shared
<1>4. ASSUME NEW woken, NEW rest, Scanned(p, woken, rest) PROVE OrderedOK'
  BY <1>2, <1>4 DEF Scanned, Parted
<1>5. CASE WakeScan(p) \/ UpdateScan(p)
  BY <1>4, <1>5, WakeScanParts, UpdateScanParts
<1>6. CASE DequeueUnlink(p)
  <2>1. CASE lwWaiting[p] = "WAITING"
    <3>1. PICK rest : rest = proclist_delete(waiters[Lock(p)], p)
      OBVIOUS
    <3>2. waiters[Lock(p)] \in Seq(Procs) /\ Distinct(waiters[Lock(p)])
      BY <1>0 DEF LinkOK
    <3>3. InOrder(rest, waiters[Lock(p)])
      BY <3>1, <3>2, DeleteOn DEF InOrder
    <3>4. lwWaitMode' = lwWaitMode /\ waiters' = [waiters EXCEPT ![Lock(p)] = rest]
      BY <1>6, <2>1, <3>1 DEF DequeueUnlink
    <3> QED BY <1>2, <3>3, <3>4
  <2>2. CASE lwWaiting[p] # "WAITING"
    <3>1. waiters' = waiters /\ lwWaitMode' = lwWaitMode
      BY <1>0, <1>6, <2>2 DEF DequeueUnlink
    <3> QED BY <1>1, <3>1
  <2> QED BY <2>1, <2>2
<1>7. CASE QueuePush(p)
  <2>1. PICK l \in Locks : l = Lock(p)
    BY <1>0
  <2>2. PICK list \in Seq(Procs) : list = waiters[l]
    BY <1>0
  <2>3. /\ lwWaiting[p] = "NOT_WAITING"
        /\ lwWaitMode'[p] = IF call[p].op = "acquire" THEN call[p].mode ELSE "LW_WAIT_UNTIL_FREE"
        /\ \A q \in Procs \ {p} : lwWaitMode'[q] = lwWaitMode[q]
        /\ waiters'[l] = Push(p, list) /\ \A k \in Locks \ {l} : waiters'[k] = waiters[k]
    BY <1>0, <1>7, <2>1, <2>2 DEF QueuePush, At, QueuedOK, QueuedAt, QueueingPCs
  <2>4. \A k \in Locks : ~On(p, waiters[k])
    BY <2>3 DEF LinkOK
  <2>5. \A k \in Locks : \A i \in DOMAIN waiters[k] :
          waiters[k][i] \in Procs \ {p}
    <3> TAKE k \in Locks
    <3> TAKE i \in DOMAIN waiters[k]
    <3>1. waiters[k][i] \in Procs
      BY <1>0
    <3>2. waiters[k][i] # p
      BY <2>4 DEF On
    <3> QED BY <3>1, <3>2
  <2> SUFFICES ASSUME NEW k \in Locks, NEW i \in DOMAIN waiters'[k], NEW j \in DOMAIN waiters'[k],
                      i < j, lwWaitMode'[waiters'[k][j]] = "LW_WAIT_UNTIL_FREE"
               PROVE  lwWaitMode'[waiters'[k][i]] = "LW_WAIT_UNTIL_FREE"
    BY DEF OrderedOK, UntilFree
  <2>6. \A n \in Locks : \A a, b \in DOMAIN waiters[n] :
          a < b /\ lwWaitMode'[waiters[n][b]] = "LW_WAIT_UNTIL_FREE"
            => lwWaitMode'[waiters[n][a]] = "LW_WAIT_UNTIL_FREE"
    <3> SUFFICES ASSUME NEW n \in Locks, NEW a \in DOMAIN waiters[n], NEW b \in DOMAIN waiters[n],
                        a < b, lwWaitMode'[waiters[n][b]] = "LW_WAIT_UNTIL_FREE"
                 PROVE  lwWaitMode'[waiters[n][a]] = "LW_WAIT_UNTIL_FREE"
      OBVIOUS
    <3>1. waiters[n][a] \in Procs \ {p} /\ waiters[n][b] \in Procs \ {p}
      BY <2>5
    <3>2. lwWaitMode[waiters[n][b]] = "LW_WAIT_UNTIL_FREE"
      BY <2>3, <3>1
    <3>3. lwWaitMode[waiters[n][a]] = "LW_WAIT_UNTIL_FREE"
      BY <3>2 DEF OrderedOK, UntilFree
    <3> QED BY <2>3, <3>1, <3>3
  <2>7. CASE k # l
    BY <2>3, <2>6, <2>7
  <2>8. CASE k = l
    <3>1. PICK longer : longer = waiters'[l]
      OBVIOUS
    <3>2. ~On(p, list) /\ Distinct(list) /\ Len(list) \in Nat /\ DOMAIN list = 1..Len(list)
      BY <2>2, <2>4 DEF LinkOK
    <3>3. \A a, b \in 1..Len(list) :
          a < b /\ lwWaitMode'[list[b]] = "LW_WAIT_UNTIL_FREE" => lwWaitMode'[list[a]] = "LW_WAIT_UNTIL_FREE"
      BY <2>2, <2>6, <3>2
    <3>4. CASE call[p].op = "acquire"
      <4>1. longer = proclist_push_tail(list, p)
        BY <2>3, <3>1, <3>4 DEF Push
      <4>2. /\ longer \in Seq(Procs) /\ Len(longer) = Len(list) + 1
            /\ longer[Len(list) + 1] = p /\ \A a \in 1..Len(list) : longer[a] = list[a]
        <5> HIDE <3>1
        <5> QED BY <3>2, <4>1, PushTailOn
      <4>3. lwWaitMode'[p] # "LW_WAIT_UNTIL_FREE"
        BY <1>0, <2>3, <3>4 DEF Modes
      <4>4. i \in 1..(Len(list) + 1) /\ j \in 1..(Len(list) + 1)
        BY <2>8, <3>1, <4>2
      <4>5. j # Len(list) + 1
        BY <2>8, <3>1, <4>2, <4>3
      <4>6. j \in 1..Len(list) /\ i \in 1..Len(list)
        BY <3>2, <4>4, <4>5
      <4> QED BY <2>8, <3>1, <3>3, <4>2, <4>6
    <3>5. CASE call[p].op # "acquire"
      <4>1. longer = proclist_push_head(list, p)
        BY <2>3, <3>1, <3>5 DEF Push
      <4>2. /\ longer \in Seq(Procs) /\ Len(longer) = Len(list) + 1
            /\ longer[1] = p /\ \A a \in 1..Len(list) : longer[a + 1] = list[a]
        <5> HIDE <3>1
        <5> QED BY <3>2, <4>1, PushHeadOn
      <4>3. lwWaitMode'[p] = "LW_WAIT_UNTIL_FREE"
        BY <2>3, <3>5
      <4>4. i \in 1..(Len(list) + 1) /\ j \in 1..(Len(list) + 1)
        BY <2>8, <3>1, <4>2
      <4>5. CASE i = 1
        BY <2>8, <3>1, <4>2, <4>3, <4>5
      <4>6. CASE i # 1
        <5>1. /\ i - 1 \in 1..Len(list) /\ j - 1 \in 1..Len(list) /\ i - 1 < j - 1
              /\ (i - 1) + 1 = i /\ (j - 1) + 1 = j
          BY <3>2, <4>4, <4>6
        <5>2. longer[i] = list[i - 1] /\ longer[j] = list[j - 1]
          BY <4>2, <5>1
        <5> QED BY <2>8, <3>1, <3>3, <5>1, <5>2
      <4> QED BY <4>5, <4>6
    <3> QED BY <3>4, <3>5
  <2> QED BY <2>7, <2>8
<1> QED BY <1>3, <1>5, <1>6, <1>7, StepKinds DEF LinkOK, Relinks

\* HAS_WAITERS stays set while somebody is on the list or about to be.
LEMMA FlagStep ==
  ASSUME IInv, LinkOK, QueuedOK, OrderedOK, ListLockOK, FlagOK, NEW p \in Procs,
         Call(p) \/ GiveBack(p) \/ Step(p)
  PROVE  FlagOK'
<1>0. /\ waiters \in [Locks -> Seq(Procs)] /\ word \in [Locks -> Word] /\ pc \in [Procs -> PCs]
      /\ \A q \in Procs : Lock(q) \in Locks
  BY DEF IInv, TypeOK, Calls, Lock
<1>1. WordFrame(p)
  BY WordFrameStep
<1>2. \A q \in Procs \ {p} : pc'[q] = pc[q] /\ Lock(q)' = Lock(q)
  BY Others DEF IInv, Same, Lock
<1>3. CASE QueueFlag(p)
  <2>1. waiters' = waiters /\ Lock(p)' = Lock(p)
    BY <1>3 DEF QueueFlag, Lock
  <2>2. \A l \in Locks : word'[l].hasWaiters = (l = Lock(p) \/ word[l].hasWaiters)
    BY <1>0, <1>3 DEF QueueFlag, Word
  <2> QED BY <1>0, <1>2, <2>1, <2>2 DEF FlagOK
<1>4. ASSUME Step(p), pc[p] \in {"wakeScan", "dequeueUnlink"}, pc'[p] # "queuePush",
             \A l \in Locks \ {Lock(p)} : waiters'[l] = waiters[l],
             waiters'[Lock(p)] # <<>> => word'[Lock(p)].hasWaiters
      PROVE  FlagOK'
  <2>1. \A q \in Procs \ {p} : pc[q] = "queuePush" => Lock(q) # Lock(p)
    BY <1>4 DEF ListLockOK, Inside
  <2>2. \A l \in Locks \ {Lock(p)} : word'[l] = word[l]
    BY <1>1 DEF WordFrame
  <2> QED BY <1>0, <1>2, <1>4, <2>1, <2>2, ZenonT(60) DEF FlagOK
<1>5. CASE WakeScan(p)
  <2>1. PICK woken, rest :
           /\ Scanned(p, woken, rest)
           /\ word'[Lock(p)].hasWaiters <=> word[Lock(p)].hasWaiters /\ rest # <<>>
           /\ ~word'[Lock(p)].releaseOk <=> \E q \in Procs : On(q, woken) /\ ~UntilFree(q)
           /\ rest # <<>> => ~word'[Lock(p)].releaseOk
           /\ word'[Lock(p)].exclusive = word[Lock(p)].exclusive
           /\ word'[Lock(p)].shares = word[Lock(p)].shares
    BY <1>5, WakeScanParts
  <2>2. /\ waiters' = [waiters EXCEPT ![Lock(p)] = rest] /\ pc' = [pc EXCEPT ![p] = "wakeFlag"]
        /\ Parted(waiters[Lock(p)], woken, rest)
    BY <2>1 DEF Scanned
  <2>3. rest # <<>> => word[Lock(p)].hasWaiters
    <3> SUFFICES ASSUME rest # <<>> PROVE waiters[Lock(p)] # <<>>
      BY <1>0 DEF FlagOK
    <3>1. rest \in Seq(Procs)
      BY <2>2 DEF Parted
    <3>2. PICK q \in Procs : On(q, rest)
      BY <3>1, SomebodyOn
    <3>3. On(q, waiters[Lock(p)])
      BY <2>2, <3>2 DEF Parted
    <3> QED BY <3>3, NobodyOnEmpty
  <2>4. /\ pc[p] = "wakeScan" /\ pc'[p] # "queuePush" /\ Step(p)
        /\ \A l \in Locks \ {Lock(p)} : waiters'[l] = waiters[l]
        /\ waiters'[Lock(p)] = rest
    BY <1>0, <1>5, <2>2 DEF WakeScan, At, Step
  <2> QED BY <1>4, <2>1, <2>3, <2>4
<1>6. CASE DequeueUnlink(p)
  <2>1. PICK rest : rest = IF lwWaiting[p] = "WAITING" THEN proclist_delete(waiters[Lock(p)], p)
                                                       ELSE waiters[Lock(p)]
    OBVIOUS
  <2>2. /\ waiters' = [waiters EXCEPT ![Lock(p)] = rest]
        /\ word' = [word EXCEPT ![Lock(p)].hasWaiters = @ /\ rest # <<>>, ![Lock(p)].locked = FALSE]
        /\ pc[p] = "dequeueUnlink" /\ pc'[p] # "queuePush" /\ Step(p)
    BY <1>0, <1>6, <2>1 DEF DequeueUnlink, At, Goto, Step
  <2>3. word'[Lock(p)].hasWaiters = (word[Lock(p)].hasWaiters /\ rest # <<>>)
    BY <1>0, <2>2 DEF Word
  <2>4. rest # <<>> => word[Lock(p)].hasWaiters
    <3> SUFFICES ASSUME rest # <<>> PROVE waiters[Lock(p)] # <<>>
      BY <1>0 DEF FlagOK
    <3>1. CASE lwWaiting[p] = "WAITING"
      BY <1>0, <3>1, NobodyOnEmpty DEF LinkOK
    <3> QED BY <2>1, <3>1
  <2>5. waiters'[Lock(p)] = rest /\ \A l \in Locks \ {Lock(p)} : waiters'[l] = waiters[l]
    BY <1>0, <2>2
  <2> QED BY <1>4, <2>2, <2>3, <2>4, <2>5
<1>7. CASE ~(QueueFlag(p) \/ WakeScan(p) \/ DequeueUnlink(p))
  <2>1. \A l \in Locks : word'[l].hasWaiters = word[l].hasWaiters
    BY <1>1, <1>7 DEF WordFrame
  <2>2. pc'[p] # "queuePush"
    BY <1>7, WordFrameStep
  <2>3. ASSUME NEW l \in Locks, waiters'[l] # <<>> PROVE word[l].hasWaiters
    <3>1. CASE waiters' = waiters
      BY <2>3, <3>1 DEF FlagOK
    <3>2. CASE QueuePush(p)
      BY <1>0, <2>3, <3>2 DEF QueuePush, At, FlagOK
    <3>3. CASE UpdateScan(p)
      <4>1. PICK woken, rest : Scanned(p, woken, rest)
        BY <3>3, UpdateScanParts
      <4>2. waiters' = [waiters EXCEPT ![Lock(p)] = rest] /\ Parted(waiters[Lock(p)], woken, rest)
        BY <4>1 DEF Scanned
      <4>3. CASE l = Lock(p)
        <5>1. rest \in Seq(Procs) /\ rest # <<>>
          BY <1>0, <2>3, <4>2, <4>3 DEF Parted
        <5>2. PICK q \in Procs : On(q, rest)
          BY <5>1, SomebodyOn
        <5>3. On(q, waiters[Lock(p)])
          BY <4>2, <5>2 DEF Parted
        <5> QED BY <1>0, <4>3, <5>3, NobodyOnEmpty DEF FlagOK
      <4>4. CASE l # Lock(p)
        BY <1>0, <2>3, <4>2, <4>4 DEF FlagOK
      <4> QED BY <4>3, <4>4
    <3>4. CASE Calm(p) \/ WakeFlag(p) \/ WakePost(p)
      BY <3>1, <3>4 DEF Calm, WakeFlag, WakePost, shared
    <3> QED BY <1>7, <3>2, <3>3, <3>4, StepKinds DEF LinkOK, Relinks
  <2> QED BY <1>0, <1>2, <2>1, <2>2, <2>3 DEF FlagOK
<1> QED BY <1>3, <1>5, <1>6, <1>7

\* A backend that was fetched stays so until it sets RELEASE_OK again.
LEMMA FetchedKeeps ==
  ASSUME IInv, LinkOK, QueuedOK, OrderedOK, NEW p \in Procs, Call(p) \/ GiveBack(p) \/ Step(p),
         Fetched(p)
  PROVE  /\ call'[p] = call[p]
         /\ \/ Fetched(p)'
            \/ word'[Lock(p)].releaseOk /\ pc'[p] \in {"attempt", "dequeueSleep"}
<1> USE DEF Goto, At, shared, proc, mine, QueuedPCs, VarPCs
<1> DEFINE Goal == /\ call'[p] = call[p]
                   /\ \/ Fetched(p)'
                      \/ word'[Lock(p)].releaseOk /\ pc'[p] \in {"attempt", "dequeueSleep"}
<1> SUFFICES Goal
  OBVIOUS
<1>0. /\ pc \in [Procs -> PCs] /\ site \in [Procs -> Sites] /\ call \in [Procs -> Calls]
      /\ word \in [Locks -> Word] /\ Lock(p) \in Locks
      /\ site[p] = "queued" /\ call[p].op = "acquire" /\ lwWaiting[p] # "WAITING"
      /\ pc[p] \in (QueuedPCs \cup {"releaseOk"}) \ (VarPCs \cup {"dequeueSleep"})
  BY DEF IInv, TypeOK, Fetched, Calls, Lock
<1>w. lwWaiting'[p] # "WAITING"
  <2>1. WaitingFrame(p)
    BY WaitingFrameStep
  <2> QED BY <1>0, <2>1 DEF WaitingFrame, QueuePush
<1>g. ASSUME call' = call, site' = site,
             pc'[p] \in (QueuedPCs \cup {"releaseOk"}) \ (VarPCs \cup {"dequeueSleep"})
      PROVE  Goal
  BY <1>0, <1>w, <1>g DEF Fetched
<1> HIDE DEF Goal
<1>1. CASE Call(p) \/ GiveBack(p)
  BY <1>0, <1>1 DEF Call, LWLockAcquire, LWLockConditionalAcquire,
     LWLockAcquireOrWait, LWLockWaitForVar, LWLockUpdateVar, Request, Enter,
     GiveBack, LWLockRelease, LWLockReleaseClearVar, LWLockReleaseAll
<1>3. CASE Step(p)
  <2>1. CASE LWLockAttemptLock(p)
    BY <1>0, <1>g, <2>1 DEF LWLockAttemptLock, AttemptExclusive, AttemptShared, AfterGot, AfterFail
  <2>2. CASE LWLockAttemptLockBackout(p)
    BY <1>0, <1>g, <2>2 DEF LWLockAttemptLockBackout, AfterFail
  <2>3. CASE LWLockReleaseInternal(p) \/ ReleaseAllNext(p)
    BY <1>0, <2>3 DEF LWLockReleaseInternal, ReleaseAllNext
  <2>4. CASE WakeDone(p)
    <3>1. pc'[p] = AfterFail(p) /\ call' = call /\ site' = site
      BY <1>0, <2>4 DEF WakeDone
    <3> QED BY <1>0, <1>g, <3>1 DEF AfterFail
  <2>5. CASE WakeLock(p) \/ QueueLock(p) \/ DequeueLock(p) \/ UpdateLock(p) \/ QueueFlag(p)
    BY <1>0, <1>g, <2>5
       DEF WakeLock, QueueLock, DequeueLock, UpdateLock, WaitListLock, QueueFlag
  <2>6. CASE DequeueReleaseOk(p) \/ AcquireReleaseOk(p) \/ VarReleaseOk(p)
    BY <1>0, <2>6 DEF Goal, DequeueReleaseOk, AcquireReleaseOk, VarReleaseOk, SetReleaseOk, Word
  <2>7. CASE DequeueSleep(p)
    BY <1>0, <2>7 DEF DequeueSleep, SemaphoreLock
  <2>8. CASE WaitUntilAwakened(p)
    <3>1. pc'[p] \in {"sleep", "releaseOk"} /\ call' = call
      BY <1>0, <2>8 DEF WaitUntilAwakened, SemaphoreLock, AfterSleep
    <3>2. site' = site
      BY <1>0, <2>8, <3>1 DEF WaitUntilAwakened
    <3> QED BY <1>g, <3>1, <3>2
  <2>9. CASE Repay(p) \/ Return(p) \/ VarState(p) \/ VarValue(p)
    BY <1>0, <2>9 DEF Repay, Return, VarState, VarValue
  <2>10. CASE WakeScan(p) \/ UpdateScan(p)
    BY <1>0, <1>g, <2>10 DEF WakeScan, UpdateScan
  <2>11. CASE WakeFlag(p) \/ WakePost(p)
    BY <1>0, <1>g, <2>11 DEF WakeFlag, WakePost
  <2>12. CASE QueuePush(p)
    BY <1>0, <2>12 DEF QueuePush
  <2>13. CASE DequeueUnlink(p)
    BY <1>0, <1>g, <2>13 DEF DequeueUnlink
  <2> QED BY <1>3, <2>1, <2>2, <2>3, <2>4, <2>5, <2>6, <2>7, <2>8, <2>9, <2>10, <2>11, <2>12,
             <2>13 DEF Step
<1> QED BY <1>1, <1>3

\* RELEASE_OK is clear only on behalf of a backend that was fetched.
LEMMA FetchedStep ==
  ASSUME IInv, LinkOK, QueuedOK, OrderedOK, FetchedOK, NEW p \in Procs, Call(p) \/ GiveBack(p) \/ Step(p)
  PROVE  FetchedOK'
<1> SUFFICES ASSUME NEW l \in Locks, ~word'[l].releaseOk
             PROVE  \E q \in Procs : Lock(q)' = l /\ Fetched(q)'
  BY DEF FetchedOK
<1>1. WordFrame(p) /\ WaitingFrame(p)
  BY WordFrameStep, WaitingFrameStep
<1>2. CASE ~word[l].releaseOk
  <2>1. PICK q \in Procs : Lock(q) = l /\ Fetched(q)
    BY <1>2 DEF FetchedOK
  <2>2. CASE q = p
    BY <2>1, <2>2, FetchedKeeps DEF Lock
  <2>3. CASE q # p
    <3>1. Same(q) /\ (lwWaiting'[q] = "WAITING" => lwWaiting[q] = "WAITING")
      BY <1>1, <2>3, Others DEF IInv, WaitingFrame
    <3> QED BY <2>1, <3>1 DEF Same, Fetched, Lock
  <2> QED BY <2>2, <2>3
<1>3. CASE word[l].releaseOk
  <2>1. WakeScan(p) /\ l = Lock(p)
    <3>1. word[l].releaseOk \in BOOLEAN
      BY DEF IInv, TypeOK, Word
    <3> QED BY <1>1, <1>3, <3>1 DEF WordFrame
  <2>2. PICK woken, rest :
           /\ Scanned(p, woken, rest)
           /\ word'[Lock(p)].hasWaiters <=> word[Lock(p)].hasWaiters /\ rest # <<>>
           /\ ~word'[Lock(p)].releaseOk <=> \E q \in Procs : On(q, woken) /\ ~UntilFree(q)
           /\ rest # <<>> => ~word'[Lock(p)].releaseOk
           /\ word'[Lock(p)].exclusive = word[Lock(p)].exclusive
           /\ word'[Lock(p)].shares = word[Lock(p)].shares
    BY <2>1, WakeScanParts
  <2>3. PICK q \in Procs : On(q, woken) /\ ~UntilFree(q)
    BY <2>1, <2>2
  <2>4. lwWaiting[q] = "WAITING" /\ Lock(q) = l /\ lwWaiting'[q] = "PENDING_WAKEUP"
    BY <2>1, <2>2, <2>3 DEF Scanned, Parted, LinkOK
  <2>5. /\ site[q] = "queued" /\ call[q].op = "acquire"
        /\ pc[q] \in QueuedPCs \ (VarPCs \cup {"dequeueSleep"})
    BY <2>3, <2>4 DEF QueuedOK, QueuedAt, UntilFree
  <2>6. /\ call' = call /\ site' = site
        /\ pc'[q] = pc[q] \/ pc'[q] = "wakeFlag"
    BY <2>2 DEF Scanned, IInv, TypeOK
  <2> QED BY <2>4, <2>5, <2>6 DEF Fetched, Lock, QueuedPCs, VarPCs
<1> QED BY <1>2, <1>3

-----------------------------------------------------------------------------
(* Somebody looks after those that sleep                                   *)

\* The wakeup test fails for a list that is not empty only while somebody is
\* alert.
Watched ==
  \A s \in Procs :
    lwWaiting[s] = "WAITING" /\ ~CheckWaiters(word[Lock(s)]) => \E q \in Procs : Alert(q, Lock(s))

\* What the flags and the counts of the word promise, taken together.
LEMMA NeedsAlert == IInv /\ LinkOK /\ FlagOK /\ FetchedOK => Watched
<1> SUFFICES ASSUME IInv, LinkOK, FlagOK, FetchedOK, NEW s \in Procs, lwWaiting[s] = "WAITING",
                    ~CheckWaiters(word[Lock(s)])
             PROVE  \E q \in Procs : Alert(q, Lock(s))
  BY DEF Watched
<1>0. PICK l \in Locks : l = Lock(s)
  BY DEF IInv, TypeOK, Calls, Lock
<1>1. On(s, waiters[l])
  BY <1>0 DEF LinkOK
<1>2. word[l].hasWaiters
  BY <1>1, NobodyOnEmpty DEF FlagOK
<1>3. CASE ~word[l].releaseOk
  BY <1>0, <1>3 DEF FetchedOK, Alert
<1>4. CASE word[l].exclusive
  BY <1>0, <1>4 DEF IInv, WordCountsOwners, Alert
<1>5. CASE word[l].shares # 0
  <2>1. Cardinality(Sharers(l)) # 0
    BY <1>5 DEF IInv, WordCountsOwners
  <2>2. PICK q : q \in Sharers(l)
    BY <2>1, FS_EmptySet
  <2> QED BY <1>0, <2>2 DEF Sharers, Transient, Alert
<1> QED BY <1>0, <1>2, <1>3, <1>4, <1>5 DEF CheckWaiters, Free

\* After an attempt the lock is not free; after a backout or a release the
\* caller goes to wake the waiters when the test says so.
LEMMA LoudWord ==
  ASSUME IInv, NEW p \in Procs, Step(p), pc[p] \in {"attempt", "backout", "release"}
  PROVE  /\ held' = held /\ call' = call /\ var' = var
         /\ pc[p] = "attempt" => ~Free(word'[Lock(p)])
         /\ pc[p] # "attempt" /\ CheckWaiters(word'[Lock(p)]) => pc'[p] = "wakeLock"
<1>0. /\ word \in [Locks -> Word] /\ Lock(p) \in Locks /\ pc \in [Procs -> PCs]
      /\ word[Lock(p)].shares \in Nat
  BY DEF IInv, TypeOK, Calls, Lock, Word
<1>1. \/ LWLockAttemptLock(p) \/ LWLockAttemptLockBackout(p) \/ LWLockReleaseInternal(p)
  BY LoudActions
<1>2. CASE LWLockAttemptLock(p)
  <2>1. CASE AttemptExclusive(p)
    BY <1>0, <1>2, <2>1 DEF LWLockAttemptLock, AttemptExclusive, At, Free, Word, mine
  <2>2. CASE AttemptShared(p)
    <3>1. word' = [word EXCEPT ![Lock(p)].shares = @ + 1]
      BY <2>2 DEF AttemptShared
    <3>2. word'[Lock(p)].shares = word[Lock(p)].shares + 1
      BY <1>0, <3>1 DEF Word
    <3>3. word'[Lock(p)].shares # 0
      BY <1>0, <3>2
    <3> QED BY <1>2, <3>3 DEF LWLockAttemptLock, At, Free, mine
  <2> QED BY <1>2, <2>1, <2>2 DEF LWLockAttemptLock
<1>3. CASE LWLockAttemptLockBackout(p)
  <2>1. word'[Lock(p)] = DropShare(word[Lock(p)])
    BY <1>0, <1>3 DEF LWLockAttemptLockBackout
  <2> QED BY <1>0, <1>3, <2>1 DEF LWLockAttemptLockBackout, At, Goto, mine
<1>4. CASE LWLockReleaseInternal(p)
  <2>1. PICK w : w = IF call[p].mode = "LW_EXCLUSIVE" THEN [word[Lock(p)] EXCEPT !.exclusive = FALSE]
                                                      ELSE DropShare(word[Lock(p)])
    OBVIOUS
  <2>2. /\ word' = [word EXCEPT ![Lock(p)] = w] /\ pc[p] = "release"
        /\ CheckWaiters(w) => pc' = [pc EXCEPT ![p] = "wakeLock"]
        /\ held' = held /\ call' = call /\ var' = var
    BY <1>4, <2>1 DEF LWLockReleaseInternal, At, Goto
  <2>3. word'[Lock(p)] = w
    BY <1>0, <2>2
  <2> QED BY <1>0, <2>2, <2>3
<1> QED BY <1>1, <1>2, <1>3, <1>4

\* The steps from the places of LWLockWakeup before the list changes.
LEMMA WakeActions ==
  ASSUME NEW p \in Procs, Call(p) \/ GiveBack(p) \/ Step(p)
  PROVE  /\ pc[p] = "wakeLock" => WakeLock(p)
         /\ pc[p] = "wakeScan" => WakeScan(p)
         /\ pc[p] = "updateLock" => UpdateLock(p)
         /\ pc[p] = "updateScan" => UpdateScan(p)
         /\ pc[p] \in {"attempt", "backout", "release"} => Step(p)
<1> USE DEF At
<1>1. CASE Call(p)
  BY <1>1 DEF Call, LWLockAcquire, LWLockConditionalAcquire, LWLockAcquireOrWait,
              LWLockWaitForVar, LWLockUpdateVar, Request, Enter
<1>2. CASE GiveBack(p)
  BY <1>2 DEF GiveBack, LWLockRelease, LWLockReleaseClearVar, LWLockReleaseAll, Enter
<1>3. CASE Step(p)
  BY <1>3 DEF Step, LWLockAttemptLock, LWLockAttemptLockBackout, LWLockReleaseInternal,
     ReleaseAllNext, WakeFlag, WakePost, WakeDone, QueueLock, QueueFlag, QueuePush,
     DequeueLock, DequeueUnlink, DequeueReleaseOk, DequeueSleep, WaitUntilAwakened,
     AcquireReleaseOk, Repay, Return, VarReleaseOk, VarState, VarValue, WaitListLock,
     SetReleaseOk, SemaphoreLock, WakeLock, WakeScan, UpdateLock, UpdateScan
<1> QED BY <1>1, <1>2, <1>3

\* One that is alert stays so while the test says that the waiters are to be
\* woken, unless it scans the list.
LEMMA AlertKeeps ==
  ASSUME IInv, IInv', LinkOK, QueuedOK, QueuedOK', OrderedOK, NEW p \in Procs,
         Call(p) \/ GiveBack(p) \/ Step(p),
         NEW l \in Locks, Alert(p, l), CheckWaiters(word'[l]), ~WakeScan(p)
  PROVE  Alert(p, l)'
<1>0. /\ pc \in [Procs -> PCs] /\ PlaceAt(p)
  BY DEF IInv, TypeOK, PlaceOK
<1>1. CASE Owns(p, l) # "none" /\ pc[p] \notin {"attempt", "backout", "release"}
  <2>1. Owns(p, l)' = Owns(p, l)
    BY <1>1, QuietStep DEF Quiet
  <2> QED BY <1>1, <2>1 DEF Alert
<1>2. CASE Owns(p, l) # "none" /\ pc[p] \in {"attempt", "backout", "release"}
  <2>1. /\ held' = held /\ call' = call
        /\ pc[p] = "release" /\ CheckWaiters(word'[Lock(p)]) => pc'[p] = "wakeLock"
    <3>1. Step(p)
      BY <1>2, WakeActions
    <3> QED BY <1>2, <3>1, LoudWord
  <2>2. CASE l # Lock(p)
    BY <1>2, <2>1, <2>2 DEF Owns, Lock, Alert
  <2>3. CASE l = Lock(p)
    <3>1. held[p][l] = "none"
      BY <1>0, <1>2, <2>3 DEF PlaceAt, Busy, Waking
    <3>2. pc[p] = "release"
      BY <1>2, <3>1 DEF Owns, GotPCs
    <3> QED BY <2>1, <2>3, <3>2 DEF Alert, Lock
  <2> QED BY <2>2, <2>3
<1>3. CASE Lock(p) = l /\ pc[p] \in {"attempt", "backout"}
  <2>1. Step(p)
    BY <1>3, WakeActions
  <2>2. call' = call /\ pc[p] # "attempt" /\ pc'[p] = "wakeLock"
    BY <1>3, <2>1, LoudWord DEF CheckWaiters
  <2> QED BY <1>3, <2>2 DEF Alert, Lock
<1>4. CASE Lock(p) = l /\ pc[p] \in {"wakeLock", "wakeScan"}
  <2>1. WakeLock(p)
    BY <1>4, WakeActions
  <2>2. call' = call /\ pc'[p] = "wakeScan"
    BY <1>0, <2>1 DEF WakeLock, WaitListLock, Goto
  <2> QED BY <1>4, <2>2 DEF Alert, Lock
<1>5. CASE Lock(p) = l /\ Fetched(p)
  <2>1. /\ call'[p] = call[p]
        /\ Fetched(p)' \/ pc'[p] \in {"attempt", "dequeueSleep"}
    BY <1>5, FetchedKeeps
  <2>2. CASE pc'[p] = "dequeueSleep"
    <3>1. call'[p].op = "acquire" /\ call'[p].mode \in Modes /\ Lock(p)' = l
      BY <1>5, <2>1 DEF Fetched, Lock, IInv, TypeOK, Calls
    <3>2. ~mustwait'[p]
      BY <2>2, <3>1 DEF QueuedOK, QueuedAt, DequeuePCs
    <3> QED BY <2>2, <3>1, <3>2 DEF Alert, Owns, GotPCs, Modes
  <2> QED BY <1>5, <2>1, <2>2 DEF Alert, Lock
<1> QED BY <1>1, <1>2, <1>3, <1>4, <1>5 DEF Alert

\* A backend on a list does not go to sleep while the test says that the
\* waiters are to be woken.
LEMMA ResignKeeps ==
  ASSUME IInv, IInv', LinkOK, LinkOK', QueuedOK, OrderedOK, NEW p \in Procs,
         Call(p) \/ GiveBack(p) \/ Step(p), Resigned(p)', CheckWaiters(word'[Lock(p)'])
  PROVE  Resigned(p) /\ Lock(p)' = Lock(p)
<1> USE DEF Goto, At
<1>0. /\ pc \in [Procs -> PCs] /\ lwWaiting'[p] = "WAITING" /\ word \in [Locks -> Word]
      /\ pc'[p] \in {"sleep", "wakeFlag", "wakePost", "varValue"}
      /\ Lock(p) \in Locks
  BY DEF IInv, TypeOK, Resigned, Calls, Lock
<1>1. lwWaiting[p] = "WAITING"
  <2>1. WaitingFrame(p)
    BY WaitingFrameStep
  <2>2. ~QueuePush(p)
    BY <1>0 DEF QueuePush
  <2> QED BY <1>0, <2>1, <2>2 DEF WaitingFrame
<1>2. /\ site[p] = "queued" /\ pc[p] \in QueuedPCs \ {"dequeueReleaseOk", "dequeueSleep"}
  BY <1>1 DEF QueuedOK, QueuedAt
<1>3. Lock(p)' = Lock(p)
  <2>1. CASE Calm(p)
    BY <1>2, <2>1 DEF Calm, Lock, QueuedPCs
  <2>2. CASE Relinks(p)
    BY <2>2 DEF Relinks, WakeScan, WakeFlag, WakePost, QueuePush, DequeueUnlink, UpdateScan, Lock
  <2> QED BY <2>1, <2>2, StepKinds DEF LinkOK
<1>4. ASSUME pc[p] \in {"attempt", "backout"} PROVE FALSE
  <2>1. Step(p)
    BY <1>4, WakeActions
  <2>2. pc'[p] = "wakeLock"
    BY <1>3, <1>4, <2>1, LoudWord DEF CheckWaiters
  <2> QED BY <1>0, <2>2
<1>5. ASSUME pc[p] = "wakeScan" PROVE FALSE
  <2>1. WakeScan(p)
    BY <1>5, WakeActions
  <2>2. PICK woken, rest :
           /\ Scanned(p, woken, rest)
           /\ word'[Lock(p)].hasWaiters <=> word[Lock(p)].hasWaiters /\ rest # <<>>
           /\ ~word'[Lock(p)].releaseOk <=> \E q \in Procs : On(q, woken) /\ ~UntilFree(q)
           /\ rest # <<>> => ~word'[Lock(p)].releaseOk
           /\ word'[Lock(p)].exclusive = word[Lock(p)].exclusive
           /\ word'[Lock(p)].shares = word[Lock(p)].shares
    BY <2>1, WakeScanParts
  <2>3. rest # <<>>
    BY <1>3, <2>2 DEF CheckWaiters
  <2> QED BY <1>3, <2>2, <2>3 DEF CheckWaiters
<1>6. ASSUME pc[p] \in {"wakeLock", "dequeueLock", "dequeueUnlink", "varReleaseOk", "varState"} PROVE FALSE
  <2>1. CASE pc[p] = "wakeLock"
    BY <1>0, <2>1, WakeActions DEF WakeLock, WaitListLock
  <2>2. CASE pc[p] # "wakeLock"
    <3>1. VarState(p) \/ DequeueLock(p) \/ DequeueUnlink(p) \/ VarReleaseOk(p)
      BY <1>6, <2>2, WakeActions DEF Call, LWLockAcquire, LWLockConditionalAcquire, LWLockAcquireOrWait,
              LWLockWaitForVar, LWLockUpdateVar, Request, Enter,
              GiveBack, LWLockRelease, LWLockReleaseClearVar, LWLockReleaseAll,
     Step, LWLockAttemptLock, LWLockAttemptLockBackout, LWLockReleaseInternal,
     ReleaseAllNext, WakeFlag, WakePost, WakeDone, QueueLock, QueueFlag, QueuePush,
     DequeueReleaseOk, DequeueSleep, WaitUntilAwakened,
     AcquireReleaseOk, Repay, Return, VarValue, WaitListLock,
     SetReleaseOk, SemaphoreLock, WakeLock, WakeScan, UpdateLock, UpdateScan
    <3>2. VarState(p)
      BY <1>0, <3>1 DEF DequeueLock, DequeueUnlink, VarReleaseOk, WaitListLock, SetReleaseOk
    <3>3. word' = word /\ (word[Lock(p)].exclusive \/ pc'[p] = AfterGot(p))
      BY <1>0, <3>2 DEF VarState, shared
    <3> QED BY <1>0, <1>3, <3>3, Continuations DEF CheckWaiters, Free
  <2> QED BY <2>1, <2>2
<1>7. pc[p] \in {"sleep", "wakeFlag", "wakePost", "varValue"}
  BY <1>2, <1>4, <1>5, <1>6 DEF QueuedPCs
<1> QED BY <1>1, <1>3, <1>7 DEF Resigned

\* While somebody sleeps on a list, somebody is alert.
LEMMA AlertStep ==
  ASSUME IInv, IInv', LinkOK, LinkOK', QueuedOK, QueuedOK', OrderedOK, FlagOK', FetchedOK', AlertOK,
         NEW p \in Procs, Call(p) \/ GiveBack(p) \/ Step(p)
  PROVE  AlertOK'
<1> SUFFICES ASSUME NEW s \in Procs, Resigned(s)' PROVE \E q \in Procs : Alert(q, Lock(s))'
  BY DEF AlertOK
<1>0. PICK l \in Locks : l = Lock(s)'
  BY DEF IInv, TypeOK, Calls, Lock
<1>1. lwWaiting'[s] = "WAITING"
  BY DEF Resigned
<1>2. CASE ~CheckWaiters(word'[l])
  <2>1. Watched'
    BY NeedsAlert, PTL
  <2> QED BY <1>0, <1>1, <1>2, <2>1 DEF Watched
<1>3. CASE CheckWaiters(word'[l])
  <2>1. Resigned(s) /\ Lock(s) = l
    <3>1. CASE s = p
      BY <1>0, <1>3, <3>1, ResignKeeps
    <3>2. CASE s # p
      <4>1. Same(s) /\ WaitingFrame(p)
        BY <3>2, Others, WaitingFrameStep DEF IInv
      <4> QED BY <1>0, <3>2, <4>1 DEF Same, WaitingFrame, Resigned, Lock
    <3> QED BY <3>1, <3>2
  <2>2. PICK q \in Procs : Alert(q, l)
    BY <2>1 DEF AlertOK
  <2>3. CASE q # p
    <3>1. /\ Same(q) /\ Owns(q, l)' = Owns(q, l)
          /\ lwWaiting'[q] = "WAITING" => lwWaiting[q] = "WAITING"
      BY <2>3, Others, OthersOwn, WaitingFrameStep DEF IInv, WaitingFrame
    <3>2. Alert(q, l)'
      BY <2>2, <3>1 DEF Same, Alert, Fetched, Lock
    <3> QED BY <1>0, <3>2
  <2>4. CASE q = p /\ ~WakeScan(p)
    <3>1. Alert(p, l)'
      BY <1>3, <2>2, <2>4, AlertKeeps
    <3> QED BY <1>0, <3>1
  <2>5. CASE WakeScan(p) /\ Lock(p) = l
    <3>1. PICK woken, rest :
           /\ Scanned(p, woken, rest)
           /\ word'[Lock(p)].hasWaiters <=> word[Lock(p)].hasWaiters /\ rest # <<>>
           /\ ~word'[Lock(p)].releaseOk <=> \E r \in Procs : On(r, woken) /\ ~UntilFree(r)
           /\ rest # <<>> => ~word'[Lock(p)].releaseOk
           /\ word'[Lock(p)].exclusive = word[Lock(p)].exclusive
           /\ word'[Lock(p)].shares = word[Lock(p)].shares
      BY <2>5, WakeScanParts
    <3>2. rest # <<>>
      BY <1>3, <2>5, <3>1 DEF CheckWaiters
    <3> QED BY <1>3, <2>5, <3>1, <3>2 DEF CheckWaiters
  <2>6. CASE q = p /\ WakeScan(p) /\ Lock(p) # l
    <3>1. Owns(p, l) # "none"
      BY <2>2, <2>6 DEF Alert
    <3>2. Owns(p, l)' = Owns(p, l)
      <4>1. Step(p) /\ pc[p] \notin {"attempt", "backout", "release"}
        BY <2>6 DEF Step, WakeScan, At
      <4> QED BY <4>1, QuietStep DEF Quiet
    <3>3. Alert(p, l)'
      BY <3>1, <3>2 DEF Alert
    <3> QED BY <1>0, <3>3
  <2> QED BY <2>3, <2>4, <2>5, <2>6
<1> QED BY <1>2, <1>3

-----------------------------------------------------------------------------
(* Somebody looks after those that wait for the variable                   *)

\* What an attempt, a backout and a release do to the exclusive bit.
LEMMA LoudBit ==
  ASSUME IInv, NEW p \in Procs, Step(p), pc[p] \in {"attempt", "backout", "release"}
  PROVE  /\ pc[p] = "release" => ~word'[Lock(p)].exclusive
         /\ ~word[Lock(p)].exclusive /\ word[Lock(p)].shares # 0 =>
              /\ ~word'[Lock(p)].exclusive
              /\ pc[p] = "attempt" => word'[Lock(p)].shares # 0
<1>0. /\ word \in [Locks -> Word] /\ Lock(p) \in Locks /\ word[Lock(p)].shares \in Nat
      /\ call[p].mode \in Modes
  BY DEF IInv, TypeOK, Calls, Lock, Word
<1>1. \/ LWLockAttemptLock(p) \/ LWLockAttemptLockBackout(p) \/ LWLockReleaseInternal(p)
  BY LoudActions
<1>2. CASE LWLockAttemptLock(p)
  <2>0. pc[p] = "attempt"
    BY <1>2 DEF LWLockAttemptLock, At
  <2>1. CASE AttemptExclusive(p)
    BY <1>0, <2>0, <2>1 DEF AttemptExclusive, Free
  <2>2. CASE AttemptShared(p)
    <3>1. word' = [word EXCEPT ![Lock(p)].shares = @ + 1]
      BY <2>2 DEF AttemptShared
    <3>2. word'[Lock(p)].shares = word[Lock(p)].shares + 1 /\ word'[Lock(p)].exclusive = word[Lock(p)].exclusive
      BY <1>0, <3>1 DEF Word
    <3>3. word'[Lock(p)].shares # 0
      BY <1>0, <3>2
    <3> QED BY <2>0, <3>2, <3>3
  <2> QED BY <1>2, <2>1, <2>2 DEF LWLockAttemptLock
<1>3. CASE LWLockAttemptLockBackout(p)
  <2>1. word'[Lock(p)] = DropShare(word[Lock(p)]) /\ pc[p] = "backout"
    BY <1>0, <1>3 DEF LWLockAttemptLockBackout, At
  <2>2. DropShare(word[Lock(p)]).exclusive = word[Lock(p)].exclusive
    BY <1>0 DEF DropShare, Word
  <2> QED BY <2>1, <2>2
<1>4. CASE LWLockReleaseInternal(p)
  <2>1. pc[p] = "release" /\ held[p][Lock(p)] = "none"
    BY <1>4 DEF LWLockReleaseInternal, At, IInv, PlaceOK, PlaceAt, Busy, Waking
  <2>2. CASE call[p].mode = "LW_EXCLUSIVE"
    <3>1. word' = [word EXCEPT ![Lock(p)] = [word[Lock(p)] EXCEPT !.exclusive = FALSE]]
      BY <1>4, <2>2 DEF LWLockReleaseInternal
    <3>2. ~word'[Lock(p)].exclusive
      BY <1>0, <3>1 DEF Word
    <3> QED BY <2>1, <3>2
  <2>3. CASE call[p].mode = "LW_SHARED"
    <3>1. Owns(p, Lock(p)) = "LW_SHARED"
      BY <2>1, <2>3 DEF Owns
    <3>2. \A q \in Procs : Owns(q, Lock(p)) # "LW_EXCLUSIVE"
      BY <1>0, <3>1 DEF IInv, MutualExclusion
    <3>3. ~word[Lock(p)].exclusive
      BY <1>0, <3>2 DEF IInv, WordCountsOwners
    <3>4. word' = [word EXCEPT ![Lock(p)] = [word[Lock(p)] EXCEPT !.shares = @ - 1]]
      BY <1>4, <2>3 DEF LWLockReleaseInternal, DropShare
    <3>5. word'[Lock(p)].exclusive = word[Lock(p)].exclusive
      BY <1>0, <3>4 DEF Word
    <3> QED BY <2>1, <3>3, <3>5
  <2> QED BY <1>0, <2>2, <2>3 DEF Modes
<1> QED BY <1>1, <1>2, <1>3, <1>4

\* The variable changes only in LWLockUpdateVar and LWLockReleaseClearVar,
\* whose callers then scan the list.
LEMMA VarChange ==
  ASSUME IInv, NEW p \in Procs, Call(p) \/ GiveBack(p) \/ Step(p), NEW l \in Locks, var'[l] # var[l]
  PROVE  Lock(p)' = l /\ pc'[p] \in {"updateLock", "release"}
<1> USE DEF Goto, shared
<1>0. pc \in [Procs -> PCs] /\ call \in [Procs -> Calls] /\ var \in [Locks -> Vals]
  BY DEF IInv, TypeOK
<1>1. CASE Call(p)
  <2>1. PICK k \in Locks, v \in Vals : LWLockUpdateVar(p, k, v)
    BY <1>1 DEF Call, LWLockAcquire, LWLockConditionalAcquire, LWLockAcquireOrWait,
                LWLockWaitForVar, Request
  <2> QED BY <1>0, <2>1 DEF LWLockUpdateVar, Enter, Lock
<1>2. CASE GiveBack(p)
  <2>1. PICK k \in Locks : LWLockReleaseClearVar(p, k)
    BY <1>2 DEF GiveBack, LWLockRelease, LWLockReleaseAll
  <2> QED BY <1>0, <2>1 DEF LWLockReleaseClearVar, Enter, Lock
<1>3. CASE Step(p)
  BY <1>3 DEF Step, LWLockAttemptLock, LWLockAttemptLockBackout, LWLockReleaseInternal,
     ReleaseAllNext, WakeFlag, WakePost, WakeDone, QueueLock, QueueFlag, QueuePush,
     DequeueLock, DequeueUnlink, DequeueReleaseOk, DequeueSleep, WaitUntilAwakened,
     AcquireReleaseOk, Repay, Return, VarReleaseOk, VarState, VarValue, WaitListLock,
     SetReleaseOk, WakeLock, WakeScan, UpdateLock, UpdateScan
<1> QED BY <1>1, <1>2, <1>3

\* A backend that waits for the variable looks at it after it has queued
\* itself and set RELEASE_OK.
LEMMA VarOwn ==
  ASSUME IInv, LinkOK, QueuedOK, OrderedOK, VarOK, NEW p \in Procs, Call(p) \/ GiveBack(p) \/ Step(p),
         VarWaiter(p)'
  PROVE  VarAt(p)'
<1> USE DEF Goto, At, shared
<1>0. /\ pc \in [Procs -> PCs] /\ lwWaiting'[p] = "WAITING" /\ word \in [Locks -> Word]
      /\ pc'[p] \in {"varState", "varValue", "sleep"} /\ call'[p].op = "waitForVar"
      /\ Lock(p) \in Locks
  BY DEF IInv, TypeOK, VarWaiter, Calls, Lock
<1>1. lwWaiting[p] = "WAITING"
  <2>1. WaitingFrame(p)
    BY WaitingFrameStep
  <2>2. ~QueuePush(p)
    BY <1>0 DEF QueuePush
  <2> QED BY <1>0, <2>1, <2>2 DEF WaitingFrame
<1>2. site[p] = "queued" /\ pc[p] \in QueuedPCs \ {"dequeueReleaseOk", "dequeueSleep"}
  BY <1>1 DEF QueuedOK, QueuedAt
<1>3. call'[p] = call[p] /\ call[p].op = "waitForVar" /\ Lock(p)' = Lock(p)
  <2>1. CASE Calm(p)
    BY <1>0, <1>2, <2>1 DEF Calm, QueuedPCs, Lock
  <2>2. CASE Relinks(p)
    BY <1>0, <2>2 DEF Relinks, WakeScan, WakeFlag, WakePost, QueuePush, DequeueUnlink, UpdateScan, Lock
  <2> QED BY <2>1, <2>2, StepKinds DEF LinkOK
<1>4. pc[p] \in {"dequeueLock", "dequeueUnlink", "sleep", "varReleaseOk", "varState", "varValue"}
  BY <1>2, <1>3 DEF QueuedOK, QueuedAt, QueuedPCs
<1>5. \/ DequeueLock(p) \/ DequeueUnlink(p) \/ WaitUntilAwakened(p) \/ VarReleaseOk(p)
      \/ VarState(p) \/ VarValue(p)
  BY <1>4 DEF Call, LWLockAcquire, LWLockConditionalAcquire, LWLockAcquireOrWait,
              LWLockWaitForVar, LWLockUpdateVar, Request, Enter,
              GiveBack, LWLockRelease, LWLockReleaseClearVar, LWLockReleaseAll,
     Step, LWLockAttemptLock, LWLockAttemptLockBackout, LWLockReleaseInternal,
     ReleaseAllNext, WakeFlag, WakePost, WakeDone, QueueLock, QueueFlag, QueuePush,
     DequeueReleaseOk, DequeueSleep, AcquireReleaseOk, Repay, Return, WaitListLock,
     SetReleaseOk, SemaphoreLock, WakeLock, WakeScan, UpdateLock, UpdateScan
<1>6. CASE DequeueLock(p) \/ DequeueUnlink(p)
  BY <1>0, <1>6 DEF DequeueLock, DequeueUnlink, WaitListLock
<1>7. CASE VarReleaseOk(p)
  <2>1. word'[Lock(p)].releaseOk /\ pc'[p] = "varState"
    BY <1>0, <1>7 DEF VarReleaseOk, SetReleaseOk, Word
  <2> QED BY <1>3, <2>1 DEF VarAt
<1>8. CASE VarState(p) \/ VarValue(p)
  <2>1. word' = word /\ var' = var /\ pc[p] \in {"varState", "varValue"}
    BY <1>8 DEF VarState, VarValue
  <2>2. word[Lock(p)].releaseOk
    BY <1>1, <1>3, <2>1 DEF VarOK, VarAt, VarWaiter
  <2>3. pc'[p] # "sleep" \/ var[Lock(p)] = call[p].oldval
    BY <1>0, <1>8, Continuations DEF VarState, VarValue
  <2> QED BY <1>3, <2>1, <2>2, <2>3 DEF VarAt
<1>9. CASE WaitUntilAwakened(p)
  <2>1. word' = word /\ var' = var /\ pc[p] = "sleep"
    BY <1>9 DEF WaitUntilAwakened, SemaphoreLock
  <2>2. VarWaiter(p)
    BY <1>1, <1>3, <2>1 DEF VarWaiter
  <2>3. \A q \in Procs : pc[q] \in ScanPCs => pc'[q] = pc[q] /\ Lock(q)' = Lock(q)
    <3>1. \A q \in Procs \ {p} : pc'[q] = pc[q] /\ Lock(q)' = Lock(q)
      BY Others DEF IInv, Same, Lock
    <3> QED BY <2>1, <3>1 DEF ScanPCs
  <2>4. word[Lock(p)].releaseOk
    BY <2>2 DEF VarOK, VarAt
  <2>5. var[Lock(p)] # call[p].oldval =>
         \/ \E q \in Procs : Lock(q) = Lock(p) /\ pc[q] \in ScanPCs
         \/ ~word[Lock(p)].exclusive /\ word[Lock(p)].shares # 0
    BY <2>1, <2>2 DEF VarOK, VarAt
  <2>6. var'[Lock(p)'] # call'[p].oldval =>
         \/ \E q \in Procs : Lock(q)' = Lock(p)' /\ pc'[q] \in ScanPCs
         \/ ~word'[Lock(p)'].exclusive /\ word'[Lock(p)'].shares # 0
    BY <1>3, <2>1, <2>3, <2>5
  <2> QED BY <1>3, <2>1, <2>4, <2>6 DEF VarAt
<1> QED BY <1>5, <1>6, <1>7, <1>8, <1>9

\* What another backend's step leaves to one that waits for the variable.
LEMMA VarOther ==
  ASSUME IInv, IInv', LinkOK, LinkOK', QueuedOK, OrderedOK, FlagOK', VarOK, NEW p \in Procs,
         Call(p) \/ GiveBack(p) \/ Step(p), NEW s \in Procs \ {p}, VarWaiter(s)'
  PROVE  VarAt(s)'
<1>0. /\ \A q \in Procs \ {p} : pc'[q] = pc[q] /\ Lock(q)' = Lock(q)
      /\ Same(s) /\ WaitingFrame(p) /\ WordFrame(p) /\ pc \in [Procs -> PCs]
  BY Others, WaitingFrameStep, WordFrameStep, ZenonT(60) DEF IInv, TypeOK, Same, Lock
<1>1. VarWaiter(s) /\ call'[s] = call[s] /\ pc'[s] = pc[s] /\ lwWaiting'[s] = "WAITING"
  BY <1>0 DEF Same, WaitingFrame, VarWaiter
<1>2. PICK l \in Locks : l = Lock(s) /\ l = Lock(s)'
  BY <1>0 DEF IInv, TypeOK, Calls, Lock
<1>3. On(s, waiters[l]) /\ UntilFree(s)
  BY <1>1, <1>2 DEF VarWaiter, LinkOK, QueuedOK, QueuedAt, UntilFree
<1>4. ASSUME NEW woken, NEW rest, Scanned(p, woken, rest), Lock(p) = l PROVE FALSE
  BY <1>1, <1>3, <1>4 DEF Scanned
<1>5. ~(Lock(p) = l /\ (WakeScan(p) \/ UpdateScan(p)))
  BY <1>4, WakeScanParts, UpdateScanParts
<1>6. word'[l].releaseOk
  <2>1. word[l].releaseOk
    BY <1>1, <1>2 DEF VarOK, VarAt
  <2> QED BY <1>0, <1>5, <2>1 DEF WordFrame
<1>7. word'[l].hasWaiters
  BY <1>1, <1>2, NobodyOnEmpty DEF LinkOK, FlagOK
<1>8. ASSUME pc[s] = "sleep", var'[l] # call[s].oldval
      PROVE  \/ \E q \in Procs : Lock(q)' = l /\ pc'[q] \in ScanPCs
             \/ ~word'[l].exclusive /\ word'[l].shares # 0
  <2>1. CASE var'[l] # var[l]
    BY <2>1, VarChange DEF ScanPCs
  <2>2. ASSUME Lock(p) = l, pc[p] \in {"attempt", "backout", "release"},
               ~word'[l].exclusive, pc[p] = "attempt" => word'[l].shares # 0
        PROVE  \/ \E q \in Procs : Lock(q)' = l /\ pc'[q] \in ScanPCs
               \/ ~word'[l].exclusive /\ word'[l].shares # 0
    <3>1. Step(p)
      BY <2>2, WakeActions
    <3>2. /\ call' = call
          /\ pc[p] # "attempt" /\ CheckWaiters(word'[l]) => pc'[p] = "wakeLock"
      BY <2>2, <3>1, LoudWord
    <3> QED BY <1>6, <1>7, <2>2, <3>2 DEF CheckWaiters, Free, ScanPCs, Lock
  <2>3. CASE ~word[l].exclusive /\ word[l].shares # 0
    <3>1. CASE Lock(p) = l /\ pc[p] \in {"attempt", "backout", "release"}
      <4>1. Step(p)
        BY <3>1, WakeActions
      <4>2. ~word'[l].exclusive /\ (pc[p] = "attempt" => word'[l].shares # 0)
        BY <2>3, <3>1, <4>1, LoudBit
      <4> QED BY <2>2, <3>1, <4>2
    <3>2. CASE pc[p] \notin {"attempt", "backout", "release"}
      <4>1. Quiet
        BY <3>2, QuietStep
      <4> QED BY <2>3, <4>1 DEF Quiet
    <3>3. CASE Lock(p) # l
      BY <1>0, <2>3, <3>3 DEF WordFrame
    <3> QED BY <3>1, <3>2, <3>3
  <2>4. ASSUME NEW q \in Procs, Lock(q) = l, pc[q] \in ScanPCs
        PROVE  \/ \E r \in Procs : Lock(r)' = l /\ pc'[r] \in ScanPCs
               \/ ~word'[l].exclusive /\ word'[l].shares # 0
    <3>1. CASE q # p
      BY <1>0, <2>4, <3>1
    <3>2. CASE q = p /\ pc[p] = "release"
      <4>1. Step(p)
        BY <3>2, WakeActions
      <4>2. ~word'[l].exclusive
        BY <2>4, <3>2, <4>1, LoudBit
      <4> QED BY <2>2, <2>4, <3>2, <4>2
    <3>3. CASE q = p /\ pc[p] \in {"updateLock", "wakeLock"}
      <4>1. UpdateLock(p) \/ WakeLock(p)
        BY <3>3, WakeActions
      <4>2. call' = call /\ pc'[p] \in {"updateScan", "wakeScan"}
        BY <1>0, <4>1 DEF UpdateLock, WakeLock, WaitListLock, Goto
      <4> QED BY <2>4, <3>3, <4>2 DEF ScanPCs, Lock
    <3>4. CASE q = p /\ pc[p] \in {"updateScan", "wakeScan"}
      BY <1>5, <2>4, <3>4, WakeActions
    <3> QED BY <2>4, <3>1, <3>2, <3>3, <3>4 DEF ScanPCs
  <2>5. var'[l] = var[l] =>
         \/ \E q \in Procs : Lock(q) = l /\ pc[q] \in ScanPCs
         \/ ~word[l].exclusive /\ word[l].shares # 0
    BY <1>1, <1>2, <1>8 DEF VarOK, VarAt
  <2> QED BY <2>1, <2>3, <2>4, <2>5
<1> QED BY <1>1, <1>2, <1>6, <1>8 DEF VarAt

\* While a backend sleeps for a variable that has changed, somebody is to
\* scan the list, or the lock is shared.
LEMMA VarStep ==
  ASSUME IInv, IInv', LinkOK, LinkOK', QueuedOK, OrderedOK, FlagOK', VarOK, NEW p \in Procs,
         Call(p) \/ GiveBack(p) \/ Step(p)
  PROVE  VarOK'
<1> SUFFICES ASSUME NEW s \in Procs PROVE VarAt(s)'
  BY DEF VarOK
<1>1. CASE ~VarWaiter(s)'
  BY <1>1 DEF VarAt
<1>2. CASE VarWaiter(s)' /\ s = p
  BY <1>2, VarOwn
<1>3. CASE VarWaiter(s)' /\ s # p
  BY <1>3, VarOther
<1> QED BY <1>1, <1>2, <1>3

-----------------------------------------------------------------------------
(* The inductive invariant, and what follows from it                       *)

\* The state in which no call has been made.
Fresh ==
  /\ \A l \in Locks : waiters[l] = <<>> /\ word[l] = Unlocked
  /\ \A q \in Procs : /\ wakeup[q] = <<>> /\ lwWaiting[q] = "NOT_WAITING"
                      /\ pc[q] = "idle" /\ site[q] = "first"

\* It satisfies the invariant.
LEMMA FreshInv == Fresh => WaitInv
<1> SUFFICES ASSUME Fresh PROVE WaitInv
  OBVIOUS
<1> USE DEF Fresh
<1>1. LinkOK
  BY NobodyOnEmpty DEF LinkOK, Distinct, LinkedWakeup
<1>2. QueuedOK
  BY DEF QueuedOK, QueuedAt, DequeuePCs, QueueingPCs, VarPCs, QueuedPCs
<1>3. OrderedOK /\ ListLockOK /\ FlagOK
  BY DEF OrderedOK, ListLockOK, FlagOK, Inside
<1>4. FetchedOK /\ AlertOK /\ VarOK
  BY DEF FetchedOK, Unlocked, AlertOK, Resigned, VarOK, VarAt, VarWaiter
<1> QED BY <1>1, <1>2, <1>3, <1>4 DEF WaitInv

\* The invariant holds initially.
LEMMA InitWait == Init => WaitInv
<1> SUFFICES ASSUME Init PROVE Fresh
  BY FreshInv
<1> QED BY DEF Init, EachLock, EachProc, Fresh

\* The postmaster's reset after a crash establishes it again.
LEMMA ResetWait == LWLockResetAfterCrash => WaitInv'
<1> SUFFICES ASSUME LWLockResetAfterCrash PROVE WaitInv'
  OBVIOUS
<1>1. Fresh'
  BY DEF LWLockResetAfterCrash, EachLock, EachProc, Fresh
<1> QED BY <1>1, FreshInv, PTL

\* Every step keeps the invariant.
LEMMA NextWait == IInv /\ WaitInv /\ [Next]_vars => WaitInv'
<1> SUFFICES ASSUME IInv, WaitInv, [Next]_vars PROVE WaitInv'
  OBVIOUS
<1>0. /\ LinkOK /\ QueuedOK /\ OrderedOK /\ ListLockOK
      /\ FlagOK /\ FetchedOK /\ AlertOK /\ VarOK /\ IInv'
  BY NextInv DEF WaitInv
<1>1. ASSUME NEW p \in Procs, Call(p) \/ GiveBack(p) \/ Step(p) PROVE WaitInv'
  <2>1. LinkOK'
    BY <1>0, <1>1, LinkStep
  <2>2. QueuedOK'
    BY <1>0, <1>1, QueuedStep
  <2>3. OrderedOK'
    BY <1>0, <1>1, OrderedStep
  <2>4. ListLockOK'
    BY <1>0, <1>1, ListLockStep
  <2>5. FlagOK'
    BY <1>0, <1>1, FlagStep
  <2>6. FetchedOK'
    BY <1>0, <1>1, FetchedStep
  <2>7. AlertOK'
    BY <1>0, <1>1, <2>1, <2>2, <2>5, <2>6, AlertStep
  <2>8. VarOK'
    BY <1>0, <1>1, <2>1, <2>5, VarStep
  <2> QED BY <2>1, <2>2, <2>3, <2>4, <2>5, <2>6, <2>7, <2>8 DEF WaitInv
<1>2. CASE UNCHANGED vars
  <2>1. /\ waiters' = waiters /\ wakeup' = wakeup /\ lwWaiting' = lwWaiting
        /\ lwWaitMode' = lwWaitMode /\ call' = call /\ pc' = pc /\ word' = word
        /\ site' = site /\ mustwait' = mustwait /\ held' = held /\ var' = var
    BY <1>2 DEF vars
  <2>2. LinkOK' /\ QueuedOK' /\ OrderedOK'
    BY <1>0, <2>1 DEF LinkOK, LinkedWakeup, Lock, QueuedOK, QueuedAt, OrderedOK, UntilFree
  <2>3. ListLockOK' /\ FlagOK' /\ FetchedOK'
    BY <1>0, <2>1 DEF ListLockOK, FlagOK, FetchedOK, Fetched, Lock
  <2>4. AlertOK'
    BY <1>0, <2>1 DEF AlertOK, Resigned, Alert, Owns, Fetched, Lock
  <2>5. VarOK'
    BY <1>0, <2>1 DEF VarOK, VarAt, VarWaiter, Lock
  <2> QED BY <2>2, <2>3, <2>4, <2>5 DEF WaitInv
<1>3. CASE Finished
  BY <1>2, <1>3 DEF Finished
<1> QED BY <1>1, <1>2, <1>3, ResetWait DEF Next

(***************************************************************************)
(* The invariant that ties lists, flags and places together holds of every *)
(* reachable state, for any number of backends and locks.                  *)
(***************************************************************************)
THEOREM WaitInvariance == Spec => [](IInv /\ WaitInv)
<1>1. Init => IInv /\ WaitInv
  BY InitInv, InitWait
<1>2. IInv /\ WaitInv /\ [Next]_vars => (IInv /\ WaitInv)'
  BY NextInv, NextWait
<1> QED BY <1>1, <1>2, PTL DEF Spec

(***************************************************************************)
(* A backend's link node is on one list at most, and lwWaiting tells on    *)
(* which kind: LWLockWakeup unlinks a waiter before it clears the flag     *)
(* that lets the waiter queue itself again.                                *)
(***************************************************************************)
THEOREM SpecLinks == Spec => []OneLinkOneList
<1>1. IInv /\ WaitInv => OneLinkOneList
  <2> SUFFICES ASSUME IInv, LinkOK PROVE OneLinkOneList
    BY DEF WaitInv
  <2>1. \A q \in Procs, l \in Locks : Occurs(q, waiters[l]) = IF On(q, waiters[l]) THEN 1 ELSE 0
    <3> TAKE q \in Procs, l \in Locks
    <3>1. waiters[l] \in Seq(Procs) /\ Distinct(waiters[l])
      BY DEF IInv, TypeOK, LinkOK
    <3> QED BY <3>1, OccursOnce
  <2>2. \A q, p \in Procs : Occurs(q, LinkedWakeup(p)) = IF On(q, LinkedWakeup(p)) THEN 1 ELSE 0
    <3> TAKE q, p \in Procs
    <3>1. wakeup[p] \in Seq(Procs) /\ Distinct(wakeup[p]) /\ (pc[p] = "wakePost" => wakeup[p] # <<>>)
      BY DEF IInv, TypeOK, LinkOK, PlaceOK, PlaceAt
    <3>2. LinkedWakeup(p) \in Seq(Procs) /\ Distinct(LinkedWakeup(p))
      <4>1. CASE pc[p] = "wakePost"
        <5>1. Tail(wakeup[p]) \in Seq(Procs) /\ Distinct(Tail(wakeup[p]))
          BY <3>1, <4>1, TailOn
        <5> QED BY <4>1, <5>1 DEF LinkedWakeup
      <4>2. CASE pc[p] # "wakePost"
        BY <3>1, <4>2 DEF LinkedWakeup
      <4> QED BY <4>1, <4>2
    <3> QED BY <3>2, OccursOnce
  <2>3. \A q \in Procs : Lock(q) \in Locks
    BY DEF IInv, TypeOK, Calls, Lock
  <2> SUFFICES ASSUME NEW q \in Procs
               PROVE  /\ lwWaiting[q] = "WAITING" <=> \E l \in Locks : Occurs(q, waiters[l]) = 1
                      /\ lwWaiting[q] = "PENDING_WAKEUP" <=> \E p \in Procs : Occurs(q, LinkedWakeup(p)) = 1
                      /\ \A l \in Locks : /\ Occurs(q, waiters[l]) <= 1
                                          /\ Occurs(q, waiters[l]) = 1 => Lock(q) = l
                      /\ \A p \in Procs : Occurs(q, LinkedWakeup(p)) <= 1
                      /\ \A p1, p2 \in Procs :
                           Occurs(q, LinkedWakeup(p1)) = 1 /\ Occurs(q, LinkedWakeup(p2)) = 1 => p1 = p2
    BY DEF OneLinkOneList
  <2>4. lwWaiting[q] = "WAITING" <=> \E l \in Locks : Occurs(q, waiters[l]) = 1
    BY <2>1, <2>3 DEF LinkOK
  <2>5. lwWaiting[q] = "PENDING_WAKEUP" <=> \E p \in Procs : Occurs(q, LinkedWakeup(p)) = 1
    BY <2>2 DEF LinkOK
  <2>6. \A l \in Locks : /\ Occurs(q, waiters[l]) <= 1
                         /\ Occurs(q, waiters[l]) = 1 => Lock(q) = l
    BY <2>1 DEF LinkOK
  <2>7. \A p \in Procs : Occurs(q, LinkedWakeup(p)) <= 1
    BY <2>2
  <2>8. \A p1, p2 \in Procs :
          Occurs(q, LinkedWakeup(p1)) = 1 /\ Occurs(q, LinkedWakeup(p2)) = 1 => p1 = p2
    BY <2>2 DEF LinkOK
  <2> QED BY <2>4, <2>5, <2>6, <2>7, <2>8
<1> QED BY <1>1, WaitInvariance, PTL

(***************************************************************************)
(* No wakeup is lost: when a backend sleeps on the wait list of a lock     *)
(* that nobody owns, somebody is at work on that lock, although a release  *)
(* that meets a share about to be backed out wakes nobody itself.          *)
(***************************************************************************)
THEOREM SpecNoLostWakeup == Spec => []NoLostWakeup
<1>1. IInv /\ WaitInv => NoLostWakeup
  <2> SUFFICES ASSUME IInv, WaitInv, NEW l \in Locks, NEW s \in Procs,
                      pc[s] = "sleep", Lock(s) = l, lwWaiting[s] = "WAITING",
                      \A p \in Procs : Owns(p, l) = "none"
               PROVE  \E q \in Procs : Active(q, l)
    BY DEF NoLostWakeup
  <2>1. PICK q \in Procs : Alert(q, l)
    BY DEF WaitInv, AlertOK, Resigned
  <2> QED BY <2>1 DEF Alert, Active, Fetched, QueuedPCs
<1> QED BY <1>1, WaitInvariance, PTL

(***************************************************************************)
(* No update of the variable is lost on a backend that LWLockWaitForVar    *)
(* has put to sleep: somebody is to scan the list, or the lock is shared,  *)
(* and the last share to be given back or backed out scans it.             *)
(***************************************************************************)
THEOREM SpecNoLostUpdate == Spec => []NoLostUpdate
<1>1. IInv /\ WaitInv => NoLostUpdate
  <2> SUFFICES ASSUME IInv, WaitInv, NEW s \in Procs,
                      pc[s] = "sleep", call[s].op = "waitForVar", lwWaiting[s] = "WAITING",
                      var[Lock(s)] # call[s].oldval
               PROVE  \E q \in Procs :
                        \/ /\ Lock(q) = Lock(s)
                           /\ pc[q] \in {"updateLock", "updateScan", "release", "wakeLock",
                                         "wakeScan", "backout"}
                        \/ Owns(q, Lock(s)) = "LW_SHARED"
    BY DEF NoLostUpdate
  <2>1. \/ \E q \in Procs : Lock(q) = Lock(s) /\ pc[q] \in ScanPCs
        \/ word[Lock(s)].shares # 0
    BY DEF WaitInv, VarOK, VarAt, VarWaiter
  <2>2. CASE \E q \in Procs : Lock(q) = Lock(s) /\ pc[q] \in ScanPCs
    BY <2>2 DEF ScanPCs
  <2>3. CASE word[Lock(s)].shares # 0
    <3>1. Cardinality(Sharers(Lock(s))) # 0
      BY <2>3 DEF IInv, WordCountsOwners, TypeOK, Calls, Lock
    <3>2. PICK q : q \in Sharers(Lock(s))
      BY <3>1, FS_EmptySet
    <3> QED BY <3>2 DEF Sharers, Transient
  <2> QED BY <2>1, <2>2, <2>3
<1> QED BY <1>1, WaitInvariance, PTL
=============================================================================
