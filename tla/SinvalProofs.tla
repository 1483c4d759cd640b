---------------------------- MODULE SinvalProofs -----------------------------
(***************************************************************************)
(* RingIntact and CacheFresh of Sinval, for any number of backends, any    *)
(* size of the ring and any thresholds that SinvalConstants allows.        *)
(***************************************************************************)
EXTENDS Sinval, WellFoundedInduction, SequenceTheorems, TLAPS

(***************************************************************************)
(* The inductive invariant.                                                *)
(***************************************************************************)

Places == {"idle", "insert", "insertSignal", "room", "publish", "flag", "receiveSignal", "apply", "get"}
InsertPlaces == {"room", "publish", "flag"}

\* Types.  The number of a backend that was reset may fall below zero when the
\* numbers are wound back.
TypeOK ==
  /\ buffer \in [0..(MAXNUMMESSAGES - 1) -> Int \cup {None}]
  /\ minMsgNum \in Nat /\ maxMsgNum \in Nat /\ minMsgNum <= maxMsgNum
  /\ listed \in SUBSET Procs
  /\ nextMsgNum \in [Procs -> Int]
  /\ resetState \in [Procs -> BOOLEAN]
  /\ signaled \in [Procs -> BOOLEAN]
  /\ hasMessages \in [Procs -> BOOLEAN]
  /\ writeLock \in Procs \cup {None}
  /\ readers \in SUBSET Procs
  /\ catchup \in [Procs -> BOOLEAN]
  /\ pending \in [Procs -> Seq(Int)]
  /\ full \in [Procs -> BOOLEAN]
  /\ at \in [Procs -> Places]
  /\ chunk \in [Procs -> 0..WRITE_QUANTUM]
  /\ todo \in [Procs -> SUBSET Procs]
  /\ base \in Nat /\ done \in Nat
  /\ seen \in [Procs -> Int]
  /\ sure \in [Procs -> Int]

\* The two locks are held exactly where the code holds them; only listed backends
\* are inside a call, and only readers receive.
PlacesOK ==
  \A p \in Procs :
    /\ (writeLock = p) <=> (at[p] \in InsertPlaces)
    /\ (p \in readers) <=> (at[p] = "get")
    /\ at[p] \in {"apply", "get"} => p \in Readers \cap listed
    /\ at[p] = "get" => pending[p] = <<>>
    /\ p \notin listed => at[p] = "idle" /\ pending[p] = <<>>

\* Between the store of the messages and that of maxMsgNum: they are in their slots
\* and have overwritten nothing that counts.
WrittenOK ==
  \A p \in Procs : at[p] = "publish" =>
    /\ maxMsgNum - minMsgNum + chunk[p] <= MAXNUMMESSAGES
    /\ \A i \in maxMsgNum..(maxMsgNum + chunk[p] - 1) : buffer[i % MAXNUMMESSAGES] = base + i

\* Nobody still has to raise q's flag.
Told(q) == \A w \in Procs : at[w] = "flag" => q \notin todo[w]

\* A reader without a flag, outside the copy, has read all it was told of, and was not reset.
FlagOK ==
  \A q \in Readers \cap listed : ~hasMessages[q] /\ at[q] # "get" =>
    /\ ~resetState[q]
    /\ base + nextMsgNum[q] >= done
    /\ Told(q) => nextMsgNum[q] = maxMsgNum

\* The messages copied and not applied follow those applied.
PendingOK ==
  \A p \in Readers \cap listed :
    /\ \A i \in 1..Len(pending[p]) : pending[p][i] = seen[p] + i - 1
    /\ ~resetState[p] => seen[p] + Len(pending[p]) = base + nextMsgNum[p]

\* A receive that will not ask the ring again has all it was called for.
ReceiveOK ==
  /\ done <= base + maxMsgNum
  /\ \A p \in Procs : at[p] \in {"apply", "get"} => sure[p] <= done
  /\ \A p \in Procs : at[p] = "apply" /\ ~full[p] => seen[p] + Len(pending[p]) >= sure[p]

IInv == TypeOK /\ PlacesOK /\ RingIntact /\ WrittenOK /\ FlagOK /\ PendingOK /\ ReceiveOK

-----------------------------------------------------------------------------
(***************************************************************************)
(* Arithmetic of the ring: slots repeat with period MAXNUMMESSAGES.        *)
(***************************************************************************)

\* A number is a multiple of the modulus plus its remainder.
LEMMA ModQuotient ==
  ASSUME NEW N \in Nat \ {0}, NEW a \in Int
  PROVE  a % N \in 0..(N - 1) /\ \E q \in Int : a = q * N + (a % N)
<1>1. a \div N \in Int /\ a % N \in 0..(N - 1)
  OBVIOUS
<1>2. a = (a \div N) * N + (a % N)
  OBVIOUS
<1> QED BY <1>1, <1>2

\* No multiple lies strictly between zero and the modulus.
LEMMA NoMultipleBetween ==
  ASSUME NEW N \in Nat \ {0}, NEW q \in Int, NEW d \in Int, 0 < d, d < N, d = q * N
  PROVE  FALSE
  OBVIOUS

\* The remainder is determined by the decomposition.
LEMMA ModUnique ==
  ASSUME NEW N \in Nat \ {0}, NEW a \in Int, NEW q \in Int, NEW r \in 0..(N - 1), a = q * N + r
  PROVE  a % N = r
  OBVIOUS

\* Winding a number back by a multiple of the ring's size leaves its slot.
LEMMA ModShift ==
  ASSUME NEW N \in Nat \ {0}, NEW a \in Int, NEW k \in Int
  PROVE  (a - k * N) % N = a % N
<1>1. PICK q \in Int : a = q * N + (a % N)
  BY ModQuotient
<1>2. a - k * N = (q - k) * N + (a % N)
  BY <1>1
<1>3. a % N \in 0..(N - 1) /\ a - k * N \in Int /\ q - k \in Int
  OBVIOUS
<1> QED BY <1>2, <1>3, ModUnique

\* Numbers less than the ring's size apart have different slots.
LEMMA ModSeparates ==
  ASSUME NEW N \in Nat \ {0}, NEW a \in Int, NEW b \in Int, a < b, b < a + N
  PROVE  a % N # b % N
<1> SUFFICES ASSUME a % N = b % N PROVE FALSE
  OBVIOUS
<1>1. PICK q \in Int : a = q * N + (a % N)
  BY ModQuotient
<1>2. PICK r \in Int : b = r * N + (b % N)
  BY ModQuotient
<1>3. b - a = (r - q) * N
  BY <1>1, <1>2
<1> QED BY <1>3, NoMultipleBetween

\* A nonempty set of naturals has a least member, which is its Min.
LEMMA MinNat ==
  ASSUME NEW T \in SUBSET Nat, T # {}
  PROVE  Min(T) \in T /\ \A n \in T : Min(T) <= n
<1>1. IsWellFoundedOn(OpToRel(<, Nat), Nat)
  BY NatLessThanWellFounded
<1>2. PICK x \in T : \A y \in T : ~(<<y, x>> \in OpToRel(<, Nat))
  BY <1>1, WFMin
<1>3. \A y \in T : ~(y < x)
  BY <1>2 DEF OpToRel
<1>4. \A y \in T : x <= y
  BY <1>3
<1> QED BY <1>4 DEF Min

\* The constants, with the wraparound as a multiple of the ring's size.
LEMMA Constants ==
  /\ MAXNUMMESSAGES \in Nat \ {0} /\ MAXINVALMSGS \in Nat \ {0} /\ WRITE_QUANTUM \in Nat \ {0}
  /\ WRITE_QUANTUM <= MAXNUMMESSAGES
  /\ MSGNUMWRAPAROUND \in Nat
  /\ None \notin Procs
  /\ \A a \in Int : (a - MSGNUMWRAPAROUND) % MAXNUMMESSAGES = a % MAXNUMMESSAGES
<1>1. PICK k \in 1..MSGNUMWRAPAROUND : MSGNUMWRAPAROUND = k * MAXNUMMESSAGES
  BY SinvalConstants
<1>2. MAXNUMMESSAGES \in Nat \ {0} /\ k \in Int
  BY SinvalConstants
<1>3. \A a \in Int : (a - MSGNUMWRAPAROUND) % MAXNUMMESSAGES = a % MAXNUMMESSAGES
  BY <1>1, <1>2, ModShift
<1> QED BY <1>2, <1>3, SinvalConstants

\* The slot of a number is a slot of the ring.
LEMMA SlotInRing == \A n \in Int : n % MAXNUMMESSAGES \in 0..(MAXNUMMESSAGES - 1)
  BY Constants, ModQuotient

-----------------------------------------------------------------------------
(***************************************************************************)
(* SICleanupQueue winds all numbers back by the same amount, which is zero *)
(* or the wraparound, keeps everyone it does not reset within the ring,    *)
(* and resets only backends with something to read.                        *)
(***************************************************************************)
LEMMA CleanupEffect ==
  ASSUME IInv, NEW minFree \in 0..WRITE_QUANTUM, NEW target \in Procs \cup {None},
         SICleanupQueue(minFree, target)
  PROVE  /\ minMsgNum' \in Nat /\ maxMsgNum' \in Nat /\ base' \in Nat /\ minMsgNum' <= maxMsgNum'
         /\ nextMsgNum' \in [Procs -> Int]
         /\ resetState' \in [Procs -> BOOLEAN] /\ signaled' \in [Procs -> BOOLEAN]
         /\ \E wrap \in Nat :
              /\ base' = base + wrap /\ maxMsgNum' = maxMsgNum - wrap
              /\ \A q \in listed : nextMsgNum'[q] = nextMsgNum[q] - wrap
              /\ \A a \in Int : (a - wrap) % MAXNUMMESSAGES = a % MAXNUMMESSAGES
         /\ \A q \in Readers \cap listed : ~resetState'[q] =>
              ~resetState[q] /\ nextMsgNum'[q] \in minMsgNum'..maxMsgNum'
         /\ \A q \in Readers \cap listed : resetState'[q] =>
              resetState[q] \/ nextMsgNum[q] < maxMsgNum
<1> DEFINE T    == {maxMsgNum} \cup {nextMsgNum[q] : q \in Followers(minFree)}
           low  == Min(T)
           wrap == IF low >= MSGNUMWRAPAROUND THEN MSGNUMWRAPAROUND ELSE 0
<1>0. TypeOK /\ RingIntact
  BY DEF IInv
<1>a. minFree \in Nat /\ MAXNUMMESSAGES \in Nat /\ minFree <= MAXNUMMESSAGES
  BY Constants
<1>1. \A q \in Readers \cap listed :
        /\ ~resetState[q] => nextMsgNum[q] \in minMsgNum..maxMsgNum
        /\ q \in Followers(minFree) <=> ~resetState[q] /\ q \notin TooFar(minFree)
        /\ q \in TooFar(minFree) => nextMsgNum[q] < maxMsgNum
  <2> SUFFICES ASSUME NEW q \in Readers \cap listed
               PROVE  /\ ~resetState[q] => nextMsgNum[q] \in minMsgNum..maxMsgNum
                      /\ q \in Followers(minFree) <=> ~resetState[q] /\ q \notin TooFar(minFree)
                      /\ q \in TooFar(minFree) => nextMsgNum[q] < maxMsgNum
    OBVIOUS
  <2>1. ~resetState[q] => nextMsgNum[q] \in minMsgNum..maxMsgNum
    BY <1>0 DEF RingIntact
  <2>2. q \in Followers(minFree) <=> ~resetState[q] /\ q \notin TooFar(minFree)
    BY DEF Followers, sendOnly
  <2>3. q \in TooFar(minFree) => nextMsgNum[q] < maxMsgNum
    BY <1>0, <1>a DEF TooFar, TypeOK
  <2> QED BY <2>1, <2>2, <2>3
<1>2. Followers(minFree) \subseteq {q \in Readers \cap listed : ~resetState[q]}
  BY DEF Followers, sendOnly
<1>3. T \in SUBSET Nat /\ T # {}
  BY <1>0, <1>1, <1>2 DEF TypeOK
<1>4. low \in T /\ \A n \in T : low <= n
  BY <1>3, MinNat
<1>5. low \in Nat /\ low <= maxMsgNum /\ \A q \in Followers(minFree) : low <= nextMsgNum[q]
  BY <1>3, <1>4
<1>6. wrap \in Nat /\ wrap <= low /\ \A a \in Int : (a - wrap) % MAXNUMMESSAGES = a % MAXNUMMESSAGES
  <2>1. CASE low >= MSGNUMWRAPAROUND
    BY <1>5, <2>1, Constants
  <2>2. CASE ~(low >= MSGNUMWRAPAROUND)
    <3>1. wrap = 0 /\ \A a \in Int : a - wrap = a
      BY <2>2
    <3> QED BY <1>5, <3>1
  <2> QED BY <2>1, <2>2
<1> HIDE DEF low, wrap
<1>b. wrap \in Nat /\ wrap <= low
  BY <1>6
<1>7. /\ resetState' = [q \in Procs |-> resetState[q] \/ q \in TooFar(minFree)]
      /\ minMsgNum' = low - wrap /\ maxMsgNum' = maxMsgNum - wrap /\ base' = base + wrap
      /\ nextMsgNum' = [q \in Procs |-> Rewound(q, wrap)]
      /\ signaled' = [q \in Procs |-> signaled[q] \/ q = target]
  BY DEF SICleanupQueue, low, wrap
<1>8. minMsgNum' \in Nat /\ maxMsgNum' \in Nat /\ base' \in Nat /\ minMsgNum' <= maxMsgNum'
  BY <1>0, <1>5, <1>b, <1>7 DEF TypeOK
<1>9. nextMsgNum' \in [Procs -> Int] /\ \A q \in listed : nextMsgNum'[q] = nextMsgNum[q] - wrap
  BY <1>0, <1>b, <1>7, SMTT(30) DEF TypeOK, Rewound
<1>10. resetState' \in [Procs -> BOOLEAN] /\ signaled' \in [Procs -> BOOLEAN]
  BY <1>7, Zenon
<1>11. \A q \in Readers \cap listed : ~resetState'[q] =>
         ~resetState[q] /\ nextMsgNum'[q] \in minMsgNum'..maxMsgNum'
  <2> SUFFICES ASSUME NEW q \in Readers \cap listed, ~resetState'[q]
               PROVE  ~resetState[q] /\ nextMsgNum'[q] \in minMsgNum'..maxMsgNum'
    OBVIOUS
  <2>1. q \in Procs /\ q \in listed
    BY <1>0 DEF TypeOK
  <2>2. ~resetState[q] /\ q \notin TooFar(minFree)
    BY <1>7, <2>1
  <2>3. nextMsgNum[q] \in minMsgNum..maxMsgNum /\ low <= nextMsgNum[q]
    BY <1>1, <1>5, <2>2
  <2>4. nextMsgNum'[q] = nextMsgNum[q] - wrap /\ minMsgNum' = low - wrap /\ maxMsgNum' = maxMsgNum - wrap
    BY <1>7, <1>9, <2>1
  <2>5. nextMsgNum[q] \in Int /\ maxMsgNum \in Nat /\ minMsgNum \in Nat
    BY <1>0, <2>1 DEF TypeOK
  <2> QED BY <1>5, <1>b, <2>2, <2>3, <2>4, <2>5
<1>12. \A q \in Readers \cap listed : resetState'[q] => resetState[q] \/ nextMsgNum[q] < maxMsgNum
  BY <1>0, <1>1, <1>7 DEF TypeOK
<1> QED BY <1>6, <1>7, <1>8, <1>9, <1>10, <1>11, <1>12

\* Within the ring's size a slot belongs to one number.
LEMMA SlotUnique ==
  ASSUME NEW a \in Int, NEW b \in Int, a < b + MAXNUMMESSAGES, b < a + MAXNUMMESSAGES,
         a % MAXNUMMESSAGES = b % MAXNUMMESSAGES
  PROVE  a = b
<1>1. MAXNUMMESSAGES \in Nat \ {0}
  BY Constants
<1>2. CASE a < b
  BY <1>1, <1>2, ModSeparates
<1>3. CASE b < a
  BY <1>1, <1>3, ModSeparates
<1> QED BY <1>2, <1>3

\* None is not a backend.
LEMMA NoneIsNoProc == None \notin Procs
  BY Constants

\* A writer puts at least one message at a time.
LEMMA WriteQuantum == WRITE_QUANTUM \in Nat \ {0}
  BY Constants

(***************************************************************************)
(* One lemma per action: it keeps the invariant, a step per conjunct.      *)
(***************************************************************************)
LEMMA InsertLockStep ==
  ASSUME IInv, NEW p \in Procs, NEW n \in 1..WRITE_QUANTUM, InsertLock(p, n)
  PROVE  IInv'
<1>0. TypeOK /\ PlacesOK /\ RingIntact /\ WrittenOK /\ FlagOK /\ PendingOK /\ ReceiveOK
  BY DEF IInv
<1>1. TypeOK'
  BY <1>0 DEF TypeOK, Places, InsertLock, ring, states, receive
<1>2. PlacesOK'
  <2>1. writeLock = None /\ writeLock' = p /\ at[p] \in {"idle", "insert"} /\ p \in listed
    BY <1>0 DEF PlacesOK, InsertLock
  <2>2. at' = [at EXCEPT ![p] = "room"] /\ UNCHANGED <<readers, listed, pending>>
    BY DEF InsertLock, ring, receive
  <2> QED BY <1>0, <2>1, <2>2, NoneIsNoProc DEF TypeOK, PlacesOK, InsertPlaces
<1>3. RingIntact'
  BY <1>0 DEF TypeOK, PlacesOK, RingIntact, InsertLock, ring, states, receive, InsertPlaces
<1>4. WrittenOK'
  BY <1>0 DEF TypeOK, PlacesOK, WrittenOK, InsertPlaces, InsertLock, ring, states, receive
<1>5. FlagOK'
  BY <1>0 DEF TypeOK, PlacesOK, FlagOK, ReceiveOK, Told, InsertLock, ring, states, receive, InsertPlaces
<1>6. PendingOK'
  BY <1>0 DEF TypeOK, PlacesOK, PendingOK, InsertLock, ring, states, receive, InsertPlaces
<1>7. ReceiveOK'
  BY <1>0 DEF TypeOK, PlacesOK, PendingOK, FlagOK, ReceiveOK, Told, InsertLock, ring, states, receive, InsertPlaces
<1> QED BY <1>1, <1>2, <1>3, <1>4, <1>5, <1>6, <1>7 DEF IInv

\* InsertWrite keeps the inductive invariant.
LEMMA InsertWriteStep ==
  ASSUME IInv, NEW p \in Procs, InsertWrite(p)
  PROVE  IInv'
<1>0. TypeOK /\ PlacesOK /\ RingIntact /\ WrittenOK /\ FlagOK /\ PendingOK /\ ReceiveOK
  BY DEF IInv
<1>a. /\ MAXNUMMESSAGES \in Nat \ {0} /\ chunk[p] \in Nat /\ maxMsgNum \in Nat /\ minMsgNum \in Nat
      /\ base \in Nat /\ maxMsgNum - minMsgNum + chunk[p] <= MAXNUMMESSAGES
      /\ WRITE_QUANTUM \in Nat /\ chunk[p] <= MAXNUMMESSAGES
  <2>1. MAXNUMMESSAGES \in Nat \ {0} /\ WRITE_QUANTUM \in Nat
    BY Constants
  <2> QED BY <1>0, <2>1 DEF TypeOK, InsertWrite, NeedsCleanup
<1>b. \A i \in maxMsgNum..(maxMsgNum + chunk[p] - 1) : buffer'[i % MAXNUMMESSAGES] = base + i
  <2> SUFFICES ASSUME NEW i \in maxMsgNum..(maxMsgNum + chunk[p] - 1)
               PROVE  buffer'[i % MAXNUMMESSAGES] = base + i
    OBVIOUS
  <2> DEFINE hit(j) == i % MAXNUMMESSAGES = (maxMsgNum + j) % MAXNUMMESSAGES
             c == CHOOSE j \in 0..(chunk[p] - 1) : hit(j)
  <2>1. i \in Int /\ i - maxMsgNum \in 0..(chunk[p] - 1) /\ maxMsgNum + (i - maxMsgNum) = i
    BY <1>a
  <2>2. hit(i - maxMsgNum)
    BY <2>1
  <2>3. \E j \in 0..(chunk[p] - 1) : hit(j)
    BY <2>1, <2>2
  <2>4. c \in 0..(chunk[p] - 1) /\ hit(c)
    BY <2>3
  <2>5. i % MAXNUMMESSAGES \in DOMAIN buffer
    BY <1>0, <2>1, SlotInRing DEF TypeOK
  <2>6. buffer'[i % MAXNUMMESSAGES] = base + maxMsgNum + c
    BY <2>3, <2>5 DEF InsertWrite
  <2> HIDE DEF c
  <2>7. i = maxMsgNum + c
    <3>1. maxMsgNum + c \in Int /\ i < (maxMsgNum + c) + MAXNUMMESSAGES /\ maxMsgNum + c < i + MAXNUMMESSAGES
      BY <1>a, <2>1, <2>4
    <3> QED BY <2>1, <2>4, <3>1, SlotUnique
  <2> QED BY <1>a, <2>1, <2>4, <2>6, <2>7
<1>c. \A n \in minMsgNum..(maxMsgNum - 1) : buffer'[n % MAXNUMMESSAGES] = buffer[n % MAXNUMMESSAGES]
  <2> SUFFICES ASSUME NEW n \in minMsgNum..(maxMsgNum - 1)
               PROVE  buffer'[n % MAXNUMMESSAGES] = buffer[n % MAXNUMMESSAGES]
    OBVIOUS
  <2>1. n \in Int
    BY <1>a
  <2>2. ASSUME NEW i \in 0..(chunk[p] - 1), n % MAXNUMMESSAGES = (maxMsgNum + i) % MAXNUMMESSAGES
        PROVE  FALSE
    <3>1. maxMsgNum + i \in Int /\ n < maxMsgNum + i /\ maxMsgNum + i < n + MAXNUMMESSAGES
      BY <1>a
    <3>2. n < (maxMsgNum + i) + MAXNUMMESSAGES
      BY <1>a, <2>1, <3>1
    <3>3. n = maxMsgNum + i
      BY <2>1, <2>2, <3>1, <3>2, SlotUnique
    <3> QED BY <2>1, <3>1, <3>3
  <2>3. n % MAXNUMMESSAGES \in DOMAIN buffer
    BY <1>0, <2>1, SlotInRing DEF TypeOK
  <2> QED BY <2>2, <2>3 DEF InsertWrite
<1>1. TypeOK'
  <2>1. buffer' \in [0..(MAXNUMMESSAGES - 1) -> Int \cup {None}]
    <3> SUFFICES ASSUME NEW s \in 0..(MAXNUMMESSAGES - 1),
                        NEW c, c = CHOOSE i \in 0..(chunk[p] - 1) : s = (maxMsgNum + i) % MAXNUMMESSAGES,
                        \E i \in 0..(chunk[p] - 1) : s = (maxMsgNum + i) % MAXNUMMESSAGES
                 PROVE  base + maxMsgNum + c \in Int
      BY <1>0 DEF TypeOK, InsertWrite
    <3>1. c \in 0..(chunk[p] - 1)
      OBVIOUS
    <3> QED BY <1>a, <3>1
  <2>2. at' \in [Procs -> Places]
    BY <1>0 DEF TypeOK, Places, InsertWrite
  <2>3. UNCHANGED <<minMsgNum, maxMsgNum, listed, base, states, receive, writeLock, readers,
                    catchup, chunk, todo, done>>
    BY DEF InsertWrite
  <2> QED BY <1>0, <2>1, <2>2, <2>3 DEF TypeOK, states, receive
<1>2. PlacesOK'
  BY <1>0 DEF TypeOK, PlacesOK, InsertPlaces, Places, InsertWrite, ring, states, receive
<1>3. RingIntact'
  <2>1. UNCHANGED <<minMsgNum, maxMsgNum, listed, base, nextMsgNum, resetState>>
    BY DEF InsertWrite, states
  <2>2. \A q \in Readers \cap listed : ~resetState[q] =>
          /\ nextMsgNum[q] \in minMsgNum..maxMsgNum
          /\ \A n \in nextMsgNum[q]..(maxMsgNum - 1) :
               n \in minMsgNum..(maxMsgNum - 1) /\ buffer[n % MAXNUMMESSAGES] = base + n
    <3> SUFFICES ASSUME NEW q \in Readers \cap listed, ~resetState[q]
                 PROVE  /\ nextMsgNum[q] \in minMsgNum..maxMsgNum
                        /\ \A n \in nextMsgNum[q]..(maxMsgNum - 1) :
                             n \in minMsgNum..(maxMsgNum - 1) /\ buffer[n % MAXNUMMESSAGES] = base + n
      OBVIOUS
    <3>1. /\ nextMsgNum[q] \in minMsgNum..maxMsgNum
          /\ \A n \in nextMsgNum[q]..(maxMsgNum - 1) : buffer[n % MAXNUMMESSAGES] = base + n
      BY <1>0 DEF RingIntact
    <3>2. \A n \in nextMsgNum[q]..(maxMsgNum - 1) : n \in minMsgNum..(maxMsgNum - 1)
      BY <1>a, <3>1
    <3> QED BY <3>1, <3>2
  <2> QED BY <1>c, <2>1, <2>2 DEF RingIntact
<1>4. WrittenOK'
  <2>1. UNCHANGED <<minMsgNum, maxMsgNum, base, chunk>>
    BY DEF InsertWrite
  <2>2. \A q \in Procs : at'[q] = "publish" => q = p
    BY <1>0 DEF TypeOK, PlacesOK, InsertPlaces, InsertWrite
  <2> QED BY <1>a, <1>b, <2>1, <2>2 DEF WrittenOK
<1>5. FlagOK'
  BY <1>0 DEF TypeOK, PlacesOK, FlagOK, ReceiveOK, Told, InsertWrite, ring, states, receive, InsertPlaces
<1>6. PendingOK'
  BY <1>0 DEF TypeOK, PlacesOK, PendingOK, InsertWrite, ring, states, receive, InsertPlaces
<1>7. ReceiveOK'
  BY <1>0 DEF TypeOK, PlacesOK, PendingOK, FlagOK, ReceiveOK, Told, InsertWrite, ring, states, receive, InsertPlaces
<1> QED BY <1>1, <1>2, <1>3, <1>4, <1>5, <1>6, <1>7 DEF IInv

\* InsertPublish keeps the inductive invariant.
LEMMA InsertPublishStep ==
  ASSUME IInv, NEW p \in Procs, InsertPublish(p)
  PROVE  IInv'
<1>0. TypeOK /\ PlacesOK /\ RingIntact /\ WrittenOK /\ FlagOK /\ PendingOK /\ ReceiveOK
  BY DEF IInv
<1>1. TypeOK'
  BY <1>0, SMTT(30) DEF TypeOK, Places, InsertPublish, ring, states, receive
<1>2. PlacesOK'
  BY <1>0 DEF TypeOK, PlacesOK, InsertPlaces, Places, InsertPublish, ring, states, receive
<1>3. RingIntact'
  <2>1. /\ maxMsgNum' = maxMsgNum + chunk[p]
        /\ UNCHANGED <<buffer, minMsgNum, listed, base, nextMsgNum, resetState>>
    BY DEF InsertPublish, states
  <2>2. chunk[p] \in Nat /\ maxMsgNum \in Nat /\ minMsgNum \in Nat
    BY <1>0, WriteQuantum DEF TypeOK
  <2>3. \A i \in maxMsgNum..(maxMsgNum + chunk[p] - 1) : buffer[i % MAXNUMMESSAGES] = base + i
    BY <1>0 DEF WrittenOK, InsertPublish
  <2> SUFFICES ASSUME NEW q \in Readers \cap listed', ~resetState'[q]
               PROVE  /\ nextMsgNum'[q] \in minMsgNum'..maxMsgNum'
                      /\ \A n \in nextMsgNum'[q]..(maxMsgNum' - 1) :
                           buffer'[n % MAXNUMMESSAGES] = base' + n
    BY DEF RingIntact
  <2>4. /\ nextMsgNum[q] \in minMsgNum..maxMsgNum
        /\ \A n \in nextMsgNum[q]..(maxMsgNum - 1) : buffer[n % MAXNUMMESSAGES] = base + n
    BY <1>0, <2>1 DEF RingIntact
  <2>5. nextMsgNum'[q] \in minMsgNum'..maxMsgNum'
    BY <2>1, <2>2, <2>4
  <2>6. ASSUME NEW n \in nextMsgNum'[q]..(maxMsgNum' - 1)
        PROVE  buffer'[n % MAXNUMMESSAGES] = base' + n
    <3>1. n \in nextMsgNum[q]..(maxMsgNum - 1) \/ n \in maxMsgNum..(maxMsgNum + chunk[p] - 1)
      BY <2>1, <2>2, <2>4
    <3> QED BY <2>1, <2>3, <2>4, <3>1
  <2> QED BY <2>5, <2>6
<1>4. WrittenOK'
  BY <1>0 DEF TypeOK, PlacesOK, WrittenOK, InsertPlaces, InsertPublish, ring, states, receive
<1>5. FlagOK'
  BY <1>0 DEF TypeOK, PlacesOK, FlagOK, ReceiveOK, Told, InsertPublish, ring, states, receive, InsertPlaces
<1>6. PendingOK'
  BY <1>0 DEF TypeOK, PlacesOK, PendingOK, InsertPublish, ring, states, receive, InsertPlaces
<1>7. ReceiveOK'
  BY <1>0 DEF TypeOK, PlacesOK, PendingOK, FlagOK, ReceiveOK, Told, InsertPublish, ring, states, receive, InsertPlaces
<1> QED BY <1>1, <1>2, <1>3, <1>4, <1>5, <1>6, <1>7 DEF IInv

\* InsertFlag keeps the inductive invariant.
LEMMA InsertFlagStep ==
  ASSUME IInv, NEW p \in Procs, NEW q \in todo[p], InsertFlag(p, q)
  PROVE  IInv'
<1>0. TypeOK /\ PlacesOK /\ RingIntact /\ WrittenOK /\ FlagOK /\ PendingOK /\ ReceiveOK
  BY DEF IInv
<1>a. p \in Procs /\ q \in Procs /\ base + maxMsgNum \in Nat
  BY <1>0 DEF TypeOK
<1>1. TypeOK'
  <2>1. hasMessages' \in [Procs -> BOOLEAN]
    BY <1>0, <1>a DEF TypeOK, InsertFlag
  <2>2. todo' \in [Procs -> SUBSET Procs]
    BY <1>0, <1>a DEF TypeOK, InsertFlag
  <2>3. writeLock' \in Procs \cup {None} /\ done' \in Nat /\ at' \in [Procs -> Places]
    BY <1>0, <1>a DEF TypeOK, Places, InsertFlag
  <2>4. UNCHANGED <<ring, nextMsgNum, resetState, signaled, receive, readers, catchup, chunk>>
    BY DEF InsertFlag
  <2> QED BY <1>0, <2>1, <2>2, <2>3, <2>4 DEF TypeOK, ring, receive
<1>2. PlacesOK'
  <2>1. UNCHANGED <<readers, pending, listed>> /\ at[p] = "flag" /\ p \in listed
    BY <1>0 DEF PlacesOK, InsertFlag, ring, receive
  <2>2. CASE todo[p] = {q}
    <3>1. writeLock' = None /\ at' = [at EXCEPT ![p] = "idle"] /\ writeLock = p
      BY <1>0, <2>1, <2>2 DEF PlacesOK, InsertPlaces, InsertFlag
    <3> QED BY <1>0, <2>1, <3>1, NoneIsNoProc DEF TypeOK, PlacesOK, InsertPlaces
  <2>3. CASE todo[p] # {q}
    <3>1. UNCHANGED <<writeLock, at>>
      BY <2>3 DEF InsertFlag
    <3> QED BY <1>0, <2>1, <3>1 DEF PlacesOK
  <2> QED BY <2>2, <2>3
<1>3. RingIntact'
  BY <1>0 DEF TypeOK, PlacesOK, RingIntact, InsertFlag, ring, states, receive, InsertPlaces
<1>4. WrittenOK'
  BY <1>0 DEF TypeOK, PlacesOK, WrittenOK, InsertPlaces, InsertFlag, ring, states, receive
<1>5. FlagOK'
  <2>1. /\ UNCHANGED <<listed, resetState, base, nextMsgNum, maxMsgNum>> /\ at[p] = "flag"
        /\ todo' = [todo EXCEPT ![p] = @ \ {q}] /\ hasMessages' = [hasMessages EXCEPT ![q] = TRUE]
    BY DEF InsertFlag, ring
  <2>2. \A w \in Procs : at[w] = "flag" => w = p
    BY <1>0, <2>1 DEF PlacesOK, InsertPlaces
  <2> SUFFICES ASSUME NEW r \in Readers \cap listed, ~hasMessages'[r], at'[r] # "get"
               PROVE  /\ ~resetState[r]
                      /\ base + nextMsgNum[r] >= done'
                      /\ Told(r)' => nextMsgNum[r] = maxMsgNum
    BY <2>1 DEF FlagOK
  <2>3. r \in Procs /\ r # q /\ ~hasMessages[r]
    BY <1>0, <1>a, <2>1 DEF TypeOK
  <2>4. at[r] # "get"
    BY <1>0, <2>1, <2>3 DEF TypeOK, InsertFlag
  <2>5. ~resetState[r] /\ base + nextMsgNum[r] >= done /\ (Told(r) => nextMsgNum[r] = maxMsgNum)
    BY <1>0, <2>3, <2>4 DEF FlagOK
  <2>6. CASE todo[p] = {q}
    <3>1. Told(r) /\ done' = base + maxMsgNum
      BY <2>2, <2>3, <2>6 DEF Told, InsertFlag
    <3> QED BY <1>0, <2>5, <3>1 DEF TypeOK
  <2>7. CASE todo[p] # {q}
    <3>1. UNCHANGED <<at, done>>
      BY <2>7 DEF InsertFlag
    <3>2. Told(r)' => Told(r)
      BY <1>0, <2>1, <2>2, <2>3, <3>1 DEF Told, TypeOK
    <3> QED BY <2>5, <3>1, <3>2
  <2> QED BY <2>6, <2>7
<1>6. PendingOK'
  BY <1>0 DEF TypeOK, PlacesOK, PendingOK, InsertFlag, ring, states, receive, InsertPlaces
<1>7. ReceiveOK'
  <2>1. /\ UNCHANGED <<pending, full, seen, sure, maxMsgNum, base>> /\ at[p] = "flag"
        /\ done' \in {done, base + maxMsgNum} /\ \A r \in Procs : at'[r] \in {at[r], "idle"}
    BY <1>0 DEF TypeOK, InsertFlag, ring, receive
  <2>2. done \in Nat /\ done' \in Nat /\ done <= done' /\ done' <= base' + maxMsgNum'
    BY <1>0, <1>a, <2>1 DEF TypeOK, ReceiveOK
  <2>3. \A r \in Procs : sure[r] \in Int
    BY <1>0 DEF TypeOK
  <2> QED BY <1>0, <2>1, <2>2, <2>3 DEF ReceiveOK
<1> QED BY <1>1, <1>2, <1>3, <1>4, <1>5, <1>6, <1>7 DEF IInv

\* SendCatchup keeps the inductive invariant.
LEMMA SendCatchupStep ==
  ASSUME IInv, NEW p \in Procs, SendCatchup(p)
  PROVE  IInv'
<1>0. TypeOK /\ PlacesOK /\ RingIntact /\ WrittenOK /\ FlagOK /\ PendingOK /\ ReceiveOK
  BY DEF IInv
<1>1. TypeOK'
  BY <1>0 DEF TypeOK, Places, SendCatchup, ring, states, receive
<1>2. PlacesOK'
  BY <1>0 DEF TypeOK, PlacesOK, InsertPlaces, Places, SendCatchup, ring, states, receive
<1>3. RingIntact'
  BY <1>0 DEF TypeOK, PlacesOK, RingIntact, SendCatchup, ring, states, receive, InsertPlaces
<1>4. WrittenOK'
  BY <1>0 DEF TypeOK, PlacesOK, WrittenOK, InsertPlaces, SendCatchup, ring, states, receive
<1>5. FlagOK'
  BY <1>0 DEF TypeOK, PlacesOK, FlagOK, ReceiveOK, Told, SendCatchup, ring, states, receive, InsertPlaces
<1>6. PendingOK'
  BY <1>0 DEF TypeOK, PlacesOK, PendingOK, SendCatchup, ring, states, receive, InsertPlaces
<1>7. ReceiveOK'
  BY <1>0 DEF TypeOK, PlacesOK, PendingOK, FlagOK, ReceiveOK, Told, SendCatchup, ring, states, receive, InsertPlaces
<1> QED BY <1>1, <1>2, <1>3, <1>4, <1>5, <1>6, <1>7 DEF IInv

\* Receive keeps the inductive invariant.
LEMMA ReceiveStep ==
  ASSUME IInv, NEW p \in Procs, Receive(p)
  PROVE  IInv'
<1>0. TypeOK /\ PlacesOK /\ RingIntact /\ WrittenOK /\ FlagOK /\ PendingOK /\ ReceiveOK
  BY DEF IInv
<1>1. TypeOK'
  BY <1>0 DEF TypeOK, Places, Receive, ring, states, receive
<1>2. PlacesOK'
  BY <1>0 DEF TypeOK, PlacesOK, InsertPlaces, Places, Receive, ring, states, receive
<1>3. RingIntact'
  BY <1>0 DEF TypeOK, PlacesOK, RingIntact, Receive, ring, states, receive, InsertPlaces
<1>4. WrittenOK'
  BY <1>0 DEF TypeOK, PlacesOK, WrittenOK, InsertPlaces, Receive, ring, states, receive
<1>5. FlagOK'
  BY <1>0 DEF TypeOK, PlacesOK, FlagOK, ReceiveOK, Told, Receive, ring, states, receive, InsertPlaces
<1>6. PendingOK'
  BY <1>0 DEF TypeOK, PlacesOK, PendingOK, Receive, ring, states, receive, InsertPlaces
<1>7. ReceiveOK'
  BY <1>0, SMTT(30) DEF TypeOK, PlacesOK, PendingOK, FlagOK, ReceiveOK, Told, Receive, ring, states, receive, InsertPlaces
<1> QED BY <1>1, <1>2, <1>3, <1>4, <1>5, <1>6, <1>7 DEF IInv

\* Applying the first message copied keeps PendingOK.
LEMMA AppliedNext ==
  ASSUME TypeOK, PendingOK, NEW p \in Readers \cap listed, pending[p] # <<>>,
         seen' = [seen EXCEPT ![p] = @ + 1], pending' = [pending EXCEPT ![p] = Tail(@)],
         UNCHANGED <<listed, resetState, base, nextMsgNum>>
  PROVE  PendingOK'
<1>1. p \in Procs /\ pending[p] \in Seq(Int) /\ seen[p] \in Int /\ base \in Int /\ nextMsgNum[p] \in Int
  BY DEF TypeOK
<1>2. pending'[p] = Tail(pending[p]) /\ seen'[p] = seen[p] + 1
  BY <1>1 DEF TypeOK
<1>3. \A q \in Procs : q # p => pending'[q] = pending[q] /\ seen'[q] = seen[q]
  BY DEF TypeOK
<1>4. /\ Len(pending[p]) \in Nat \ {0} /\ Len(pending'[p]) = Len(pending[p]) - 1
      /\ \A i \in 1..Len(pending'[p]) : pending'[p][i] = pending[p][i + 1] /\ i + 1 \in 1..Len(pending[p])
  <2>1. ASSUME NEW s \in Seq(Int), s # <<>>
        PROVE  /\ Len(s) \in Nat \ {0} /\ Len(Tail(s)) = Len(s) - 1
               /\ \A i \in 1..Len(Tail(s)) : Tail(s)[i] = s[i + 1] /\ i + 1 \in 1..Len(s)
    <3>1. Tail(s) \in Seq(Int) /\ Len(Tail(s)) = Len(s) - 1 /\ \A i \in 1..Len(Tail(s)) : Tail(s)[i] = s[i + 1]
      BY <2>1, HeadTailProperties
    <3>2. Len(s) \in Nat \ {0}
      BY <2>1
    <3> QED BY <3>1, <3>2
  <2> QED BY <1>1, <1>2, <2>1
<1>5. \A i \in 1..Len(pending'[p]) : pending'[p][i] = seen'[p] + i - 1
  <2> TAKE i \in 1..Len(pending'[p])
  <2>1. pending'[p][i] = pending[p][i + 1] /\ i + 1 \in 1..Len(pending[p])
    BY <1>4
  <2>2. pending[p][i + 1] = seen[p] + (i + 1) - 1
    BY <2>1 DEF PendingOK
  <2> QED BY <1>1, <1>2, <1>4, <2>1, <2>2
<1>6. ~resetState[p] => seen'[p] + Len(pending'[p]) = base + nextMsgNum[p]
  BY <1>1, <1>2, <1>4 DEF PendingOK
<1>7. \A q \in Readers \cap listed : q # p =>
        /\ \A i \in 1..Len(pending'[q]) : pending'[q][i] = seen'[q] + i - 1
        /\ ~resetState[q] => seen'[q] + Len(pending'[q]) = base + nextMsgNum[q]
  <2>1. Readers \cap listed \subseteq Procs
    BY DEF TypeOK
  <2> QED BY <1>3, <2>1 DEF PendingOK
<1> QED BY <1>5, <1>6, <1>7 DEF PendingOK

\* Apply keeps the inductive invariant.
LEMMA ApplyStep ==
  ASSUME IInv, NEW p \in Procs, Apply(p)
  PROVE  IInv'
<1>0. TypeOK /\ PlacesOK /\ RingIntact /\ WrittenOK /\ FlagOK /\ PendingOK /\ ReceiveOK
  BY DEF IInv
<1>1. TypeOK'
  BY <1>0, SMTT(30) DEF TypeOK, Places, Apply, ring, states, receive
<1>2. PlacesOK'
  BY <1>0 DEF TypeOK, PlacesOK, InsertPlaces, Places, Apply, ring, states, receive
<1>3. RingIntact'
  BY <1>0 DEF TypeOK, PlacesOK, RingIntact, Apply, ring, states, receive, InsertPlaces
<1>4. WrittenOK'
  BY <1>0 DEF TypeOK, PlacesOK, WrittenOK, InsertPlaces, Apply, ring, states, receive
<1>5. FlagOK'
  BY <1>0 DEF TypeOK, PlacesOK, FlagOK, ReceiveOK, Told, Apply, ring, states, receive, InsertPlaces
<1>a. p \in Readers \cap listed /\ pending[p] \in Seq(Int) /\ pending[p] # <<>> /\ seen[p] \in Int
  BY <1>0 DEF TypeOK, PlacesOK, Apply
<1>b. /\ Head(pending[p]) = seen[p]
      /\ Len(Tail(pending[p])) = Len(pending[p]) - 1
      /\ \A i \in 1..Len(Tail(pending[p])) : Tail(pending[p])[i] = pending[p][i + 1]
      /\ Len(pending[p]) \in Nat \ {0}
  BY <1>0, <1>a DEF PendingOK
<1>c. seen' = [seen EXCEPT ![p] = @ + 1] /\ pending' = [pending EXCEPT ![p] = Tail(@)]
  BY <1>b DEF Apply
<1>6. PendingOK'
  BY <1>0, <1>a, <1>b, <1>c, AppliedNext DEF Apply, ring, states
<1>7. ReceiveOK'
  BY <1>0, <1>a, <1>b, <1>c DEF TypeOK, ReceiveOK, Apply, ring
<1> QED BY <1>1, <1>2, <1>3, <1>4, <1>5, <1>6, <1>7 DEF IInv

\* ApplyFails keeps the inductive invariant.
LEMMA ApplyFailsStep ==
  ASSUME IInv, NEW p \in Procs, ApplyFails(p)
  PROVE  IInv'
<1>0. TypeOK /\ PlacesOK /\ RingIntact /\ WrittenOK /\ FlagOK /\ PendingOK /\ ReceiveOK
  BY DEF IInv
<1>1. TypeOK'
  BY <1>0 DEF TypeOK, Places, ApplyFails, ring, states, receive
<1>2. PlacesOK'
  BY <1>0 DEF TypeOK, PlacesOK, InsertPlaces, Places, ApplyFails, ring, states, receive
<1>3. RingIntact'
  BY <1>0 DEF TypeOK, PlacesOK, RingIntact, ApplyFails, ring, states, receive, InsertPlaces
<1>4. WrittenOK'
  BY <1>0 DEF TypeOK, PlacesOK, WrittenOK, InsertPlaces, ApplyFails, ring, states, receive
<1>5. FlagOK'
  BY <1>0 DEF TypeOK, PlacesOK, FlagOK, ReceiveOK, Told, ApplyFails, ring, states, receive, InsertPlaces
<1>a. p \in Readers \cap listed /\ pending[p] \in Seq(Int) /\ pending[p] # <<>> /\ seen[p] \in Int
  BY <1>0 DEF TypeOK, PlacesOK, ApplyFails
<1>b. Head(pending[p]) = seen[p]
  BY <1>0, <1>a DEF PendingOK
<1>c. seen' = [seen EXCEPT ![p] = @ + 1] /\ pending' = [pending EXCEPT ![p] = Tail(@)]
  BY <1>b DEF ApplyFails
<1>6. PendingOK'
  BY <1>0, <1>a, <1>c, AppliedNext DEF ApplyFails, ring, states
<1>7. ReceiveOK'
  BY <1>0 DEF TypeOK, PlacesOK, PendingOK, FlagOK, ReceiveOK, Told, ApplyFails, ring, states, receive, InsertPlaces
<1> QED BY <1>1, <1>2, <1>3, <1>4, <1>5, <1>6, <1>7 DEF IInv

\* GetNothing keeps the inductive invariant.
LEMMA GetNothingStep ==
  ASSUME IInv, NEW p \in Procs, GetNothing(p)
  PROVE  IInv'
<1>0. TypeOK /\ PlacesOK /\ RingIntact /\ WrittenOK /\ FlagOK /\ PendingOK /\ ReceiveOK
  BY DEF IInv
<1>1. TypeOK'
  BY <1>0 DEF TypeOK, Places, GetNothing, ring, states, receive
<1>2. PlacesOK'
  BY <1>0 DEF TypeOK, PlacesOK, InsertPlaces, Places, GetNothing, ring, states, receive
<1>3. RingIntact'
  BY <1>0 DEF TypeOK, PlacesOK, RingIntact, GetNothing, ring, states, receive, InsertPlaces
<1>4. WrittenOK'
  BY <1>0 DEF TypeOK, PlacesOK, WrittenOK, InsertPlaces, GetNothing, ring, states, receive
<1>5. FlagOK'
  BY <1>0 DEF TypeOK, PlacesOK, FlagOK, ReceiveOK, Told, GetNothing, ring, states, receive, InsertPlaces
<1>6. PendingOK'
  BY <1>0 DEF TypeOK, PlacesOK, PendingOK, GetNothing, ring, states, receive, InsertPlaces
<1>7. ReceiveOK'
  <2>1. p \in Readers \cap listed /\ ~hasMessages[p] /\ at[p] = "apply" /\ pending[p] = <<>>
    BY <1>0 DEF PlacesOK, GetNothing
  <2>2. ~resetState[p] /\ base + nextMsgNum[p] >= done
    BY <1>0, <2>1 DEF FlagOK
  <2>3. seen[p] + Len(pending[p]) >= done /\ done >= sure[p]
    BY <1>0, <2>1, <2>2 DEF PendingOK, ReceiveOK, TypeOK
  <2>4. seen[p] + Len(pending[p]) >= sure[p]
    BY <1>0, <2>1, <2>3 DEF TypeOK
  <2>5. UNCHANGED <<maxMsgNum, base, done, at, sure, seen, pending>> /\ full' = [full EXCEPT ![p] = FALSE]
    BY DEF GetNothing, ring
  <2> QED BY <1>0, <2>4, <2>5 DEF ReceiveOK, TypeOK
<1> QED BY <1>1, <1>2, <1>3, <1>4, <1>5, <1>6, <1>7 DEF IInv

\* GetLock keeps the inductive invariant.
LEMMA GetLockStep ==
  ASSUME IInv, NEW p \in Procs, GetLock(p)
  PROVE  IInv'
<1>0. TypeOK /\ PlacesOK /\ RingIntact /\ WrittenOK /\ FlagOK /\ PendingOK /\ ReceiveOK
  BY DEF IInv
<1>1. TypeOK'
  BY <1>0 DEF TypeOK, Places, GetLock, ring, states, receive
<1>2. PlacesOK'
  BY <1>0 DEF TypeOK, PlacesOK, InsertPlaces, Places, GetLock, ring, states, receive
<1>3. RingIntact'
  BY <1>0 DEF TypeOK, PlacesOK, RingIntact, GetLock, ring, states, receive, InsertPlaces
<1>4. WrittenOK'
  BY <1>0 DEF TypeOK, PlacesOK, WrittenOK, InsertPlaces, GetLock, ring, states, receive
<1>5. FlagOK'
  BY <1>0 DEF TypeOK, PlacesOK, FlagOK, ReceiveOK, Told, GetLock, ring, states, receive, InsertPlaces
<1>6. PendingOK'
  BY <1>0 DEF TypeOK, PlacesOK, PendingOK, GetLock, ring, states, receive, InsertPlaces
<1>7. ReceiveOK'
  BY <1>0 DEF TypeOK, PlacesOK, PendingOK, FlagOK, ReceiveOK, Told, GetLock, ring, states, receive, InsertPlaces
<1> QED BY <1>1, <1>2, <1>3, <1>4, <1>5, <1>6, <1>7 DEF IInv

\* GetReset keeps the inductive invariant.
LEMMA GetResetStep ==
  ASSUME IInv, NEW p \in Procs, GetReset(p)
  PROVE  IInv'
<1>0. TypeOK /\ PlacesOK /\ RingIntact /\ WrittenOK /\ FlagOK /\ PendingOK /\ ReceiveOK
  BY DEF IInv
<1>1. TypeOK'
  BY <1>0 DEF TypeOK, Places, GetReset, ring, states, receive
<1>2. PlacesOK'
  BY <1>0 DEF TypeOK, PlacesOK, InsertPlaces, Places, GetReset, ring, states, receive
<1>3. RingIntact'
  BY <1>0 DEF TypeOK, PlacesOK, RingIntact, GetReset, ring, states, receive, InsertPlaces
<1>4. WrittenOK'
  BY <1>0 DEF TypeOK, PlacesOK, WrittenOK, InsertPlaces, GetReset, ring, states, receive
<1>5. FlagOK'
  BY <1>0 DEF TypeOK, PlacesOK, FlagOK, ReceiveOK, Told, GetReset, ring, states, receive, InsertPlaces
<1>6. PendingOK'
  <2>1. p \in Procs /\ pending[p] = <<>> /\ base + maxMsgNum \in Int
    BY <1>0 DEF TypeOK, PlacesOK, GetReset
  <2>2. /\ nextMsgNum' = [nextMsgNum EXCEPT ![p] = maxMsgNum] /\ seen' = [seen EXCEPT ![p] = base + maxMsgNum]
        /\ resetState' = [resetState EXCEPT ![p] = FALSE] /\ UNCHANGED <<pending, listed, base>>
    BY DEF GetReset, ring
  <2>3. \A q \in Procs : q # p => nextMsgNum'[q] = nextMsgNum[q] /\ seen'[q] = seen[q] /\ resetState'[q] = resetState[q]
    BY <1>0, <2>2 DEF TypeOK
  <2>4. nextMsgNum'[p] = maxMsgNum /\ seen'[p] = base + maxMsgNum /\ Len(pending'[p]) = 0
    BY <1>0, <2>1, <2>2 DEF TypeOK
  <2> QED BY <1>0, <2>1, <2>2, <2>3, <2>4, SMTT(30) DEF PendingOK, TypeOK
<1>7. ReceiveOK'
  BY <1>0 DEF TypeOK, PlacesOK, PendingOK, FlagOK, ReceiveOK, Told, GetReset, ring, states, receive, InsertPlaces
<1> QED BY <1>1, <1>2, <1>3, <1>4, <1>5, <1>6, <1>7 DEF IInv

\* GetMessages keeps the inductive invariant.
LEMMA GetMessagesStep ==
  ASSUME IInv, NEW p \in Procs, GetMessages(p)
  PROVE  IInv'
<1>0. TypeOK /\ PlacesOK /\ RingIntact /\ WrittenOK /\ FlagOK /\ PendingOK /\ ReceiveOK
  BY DEF IInv
<1> DEFINE n == Min({MAXINVALMSGS, maxMsgNum - nextMsgNum[p]})
<1>a. /\ p \in Procs /\ p \in Readers \cap listed /\ ~resetState[p] /\ pending[p] = <<>>
      /\ maxMsgNum \in Nat /\ nextMsgNum[p] \in Nat /\ nextMsgNum[p] <= maxMsgNum /\ minMsgNum <= nextMsgNum[p]
      /\ minMsgNum \in Nat /\ base \in Nat /\ seen[p] \in Int /\ MAXINVALMSGS \in Nat
  <2>1. p \in Readers \cap listed /\ ~resetState[p] /\ pending[p] = <<>>
    BY <1>0 DEF PlacesOK, GetMessages
  <2>2. nextMsgNum[p] \in minMsgNum..maxMsgNum
    BY <1>0, <2>1 DEF RingIntact
  <2>3. MAXINVALMSGS \in Nat
    BY Constants
  <2> QED BY <1>0, <2>1, <2>2, <2>3 DEF TypeOK
<1>b. n \in Nat /\ n <= maxMsgNum - nextMsgNum[p] /\ n \in {MAXINVALMSGS, maxMsgNum - nextMsgNum[p]}
  <2>1. {MAXINVALMSGS, maxMsgNum - nextMsgNum[p]} \in SUBSET Nat
    BY <1>a
  <2> QED BY <2>1, <1>a, MinNat
<1>c. seen[p] = base + nextMsgNum[p]
  <2>1. seen[p] + Len(pending[p]) = base + nextMsgNum[p] /\ Len(pending[p]) = 0
    BY <1>0, <1>a DEF PendingOK
  <2> QED BY <1>a, <2>1
<1>d. /\ pending' = [pending EXCEPT ![p] = [i \in 1..n |-> buffer[(nextMsgNum[p] + i - 1) % MAXNUMMESSAGES]]]
      /\ full' = [full EXCEPT ![p] = n = MAXINVALMSGS]
      /\ nextMsgNum' = [nextMsgNum EXCEPT ![p] = nextMsgNum[p] + n]
      /\ signaled' = [signaled EXCEPT ![p] = @ /\ nextMsgNum[p] + n < maxMsgNum]
      /\ hasMessages' = [hasMessages EXCEPT ![p] = Flagged(p, nextMsgNum[p] + n)]
      /\ readers' = readers \ {p}
      /\ at' = [at EXCEPT ![p] = "apply"]
      /\ UNCHANGED <<ring, resetState, seen, sure, writeLock, catchup, chunk, todo, signal, done>>
  BY DEF GetMessages
<1> HIDE DEF n
<1>e. \A i \in 1..n : buffer[(nextMsgNum[p] + i - 1) % MAXNUMMESSAGES] = seen[p] + i - 1
  <2> TAKE i \in 1..n
  <2>1. nextMsgNum[p] + i - 1 \in nextMsgNum[p]..(maxMsgNum - 1)
    <3>1. ASSUME NEW a \in Nat, NEW b \in Nat, NEW c \in Nat, c <= b - a, NEW j \in 1..c
          PROVE  a + j - 1 \in a..(b - 1)
      BY <3>1
    <3> QED BY <1>a, <1>b, <3>1
  <2>2. buffer[(nextMsgNum[p] + i - 1) % MAXNUMMESSAGES] = base + (nextMsgNum[p] + i - 1)
    BY <1>0, <1>a, <2>1 DEF RingIntact
  <2> QED BY <1>a, <1>b, <1>c, <2>2
<1>f. pending'[p] = [i \in 1..n |-> seen[p] + i - 1]
  <2>1. pending'[p] = [i \in 1..n |-> buffer[(nextMsgNum[p] + i - 1) % MAXNUMMESSAGES]]
    BY <1>0, <1>a, <1>d DEF TypeOK
  <2> QED BY <1>e, <2>1
<1>g. /\ pending'[p] \in Seq(Int) /\ Len(pending'[p]) = n
      /\ \A i \in 1..n : pending'[p][i] = seen[p] + i - 1
  BY <1>a, <1>b, <1>f
<1>h. \A q \in Procs : q # p => /\ pending'[q] = pending[q] /\ full'[q] = full[q] /\ nextMsgNum'[q] = nextMsgNum[q]
                                /\ hasMessages'[q] = hasMessages[q] /\ at'[q] = at[q]
  BY <1>0, <1>d DEF TypeOK
<1>i. nextMsgNum'[p] = nextMsgNum[p] + n /\ at'[p] = "apply"
  BY <1>0, <1>a, <1>d DEF TypeOK
<1>j. /\ ~full'[p] => n = maxMsgNum - nextMsgNum[p]
      /\ ~hasMessages'[p] => ~(nextMsgNum[p] + n < maxMsgNum)
  BY <1>0, <1>a, <1>b, <1>d DEF TypeOK, Flagged
<1>1. TypeOK'
  <2>1. pending' \in [Procs -> Seq(Int)]
    <3>1. \A q \in Procs : pending'[q] \in Seq(Int)
      BY <1>0, <1>g, <1>h DEF TypeOK
    <3>2. pending' = [q \in Procs |-> pending'[q]]
      BY <1>0, <1>d DEF TypeOK
    <3> QED BY <3>1, <3>2
  <2>2. nextMsgNum' \in [Procs -> Int] /\ readers' \in SUBSET Procs /\ at' \in [Procs -> Places]
    BY <1>0, <1>a, <1>b, <1>d, SMTT(30) DEF TypeOK, Places
  <2>3. full' \in [Procs -> BOOLEAN] /\ signaled' \in [Procs -> BOOLEAN] /\ hasMessages' \in [Procs -> BOOLEAN]
    <3>1. (n = MAXINVALMSGS) \in BOOLEAN /\ (signaled[p] /\ nextMsgNum[p] + n < maxMsgNum) \in BOOLEAN
          /\ Flagged(p, nextMsgNum[p] + n) \in BOOLEAN
      BY Zenon DEF Flagged
    <3> QED BY <1>0, <1>d, <3>1, Zenon DEF TypeOK
  <2> QED BY <1>0, <1>d, <2>1, <2>2, <2>3 DEF TypeOK, ring
<1>2. PlacesOK'
  BY <1>0 DEF TypeOK, PlacesOK, InsertPlaces, Places, GetMessages, ring, states, receive
<1>3. RingIntact'
  <2> SUFFICES ASSUME NEW q \in Readers \cap listed, ~resetState[q]
               PROVE  /\ nextMsgNum'[q] \in minMsgNum..maxMsgNum
                      /\ \A m \in nextMsgNum'[q]..(maxMsgNum - 1) : buffer[m % MAXNUMMESSAGES] = base + m
    BY <1>d DEF RingIntact, ring
  <2>1. /\ nextMsgNum[q] \in minMsgNum..maxMsgNum
        /\ \A m \in nextMsgNum[q]..(maxMsgNum - 1) : buffer[m % MAXNUMMESSAGES] = base + m
    BY <1>0 DEF RingIntact
  <2>2. CASE q # p
    <3>1. nextMsgNum'[q] = nextMsgNum[q]
      BY <1>0, <1>h, <2>2 DEF TypeOK
    <3> QED BY <2>1, <3>1
  <2>3. CASE q = p
    <3>1. nextMsgNum'[p] \in minMsgNum..maxMsgNum
      BY <1>a, <1>b, <1>i
    <3>2. \A m \in nextMsgNum'[p]..(maxMsgNum - 1) : m \in nextMsgNum[p]..(maxMsgNum - 1)
      BY <1>a, <1>b, <1>i
    <3> QED BY <2>1, <2>3, <3>1, <3>2
  <2> QED BY <2>2, <2>3
<1>4. WrittenOK'
  BY <1>0 DEF TypeOK, PlacesOK, WrittenOK, InsertPlaces, GetMessages, ring, states, receive
<1>5. FlagOK'
  <2> SUFFICES ASSUME NEW q \in Readers \cap listed, ~hasMessages'[q], at'[q] # "get"
               PROVE  /\ ~resetState[q]
                      /\ base + nextMsgNum'[q] >= done
                      /\ Told(q)' => nextMsgNum'[q] = maxMsgNum
    BY <1>d DEF FlagOK, ring
  <2>1. CASE q = p
    <3>1. ~(nextMsgNum[p] + n < maxMsgNum)
      BY <1>j, <2>1
    <3>2. nextMsgNum'[q] = maxMsgNum
      BY <1>a, <1>b, <1>i, <2>1, <3>1
    <3> QED BY <1>0, <1>a, <2>1, <3>2 DEF ReceiveOK, TypeOK
  <2>2. CASE q # p
    <3>1. nextMsgNum'[q] = nextMsgNum[q] /\ ~hasMessages[q] /\ at[q] # "get"
      BY <1>0, <1>h, <2>2 DEF TypeOK
    <3>2. Told(q)' => Told(q)
      <4>1. at[p] # "flag" /\ UNCHANGED todo
        BY <1>d DEF GetMessages
      <4> QED BY <1>h, <4>1 DEF Told
    <3> QED BY <1>0, <3>1, <3>2 DEF FlagOK
  <2> QED BY <2>1, <2>2
<1>6. PendingOK'
  <2> SUFFICES ASSUME NEW q \in Readers \cap listed
               PROVE  /\ \A i \in 1..Len(pending'[q]) : pending'[q][i] = seen[q] + i - 1
                      /\ ~resetState[q] => seen[q] + Len(pending'[q]) = base + nextMsgNum'[q]
    BY <1>d, ZenonT(60) DEF PendingOK, ring
  <2>1. CASE q = p
    <3>1. seen[p] + n = base + nextMsgNum'[p]
      BY <1>a, <1>b, <1>c, <1>i
    <3> QED BY <1>g, <2>1, <3>1
  <2>2. CASE q # p
    <3>1. pending'[q] = pending[q] /\ nextMsgNum'[q] = nextMsgNum[q]
      BY <1>0, <1>h, <2>2 DEF TypeOK
    <3> QED BY <1>0, <3>1 DEF PendingOK
  <2> QED BY <2>1, <2>2
<1>7. ReceiveOK'
  <2>1. UNCHANGED <<base, maxMsgNum, done, sure, seen>>
    BY <1>d DEF ring
  <2>2. sure[p] <= done /\ done <= base + maxMsgNum /\ sure[p] \in Int /\ done \in Nat
    BY <1>0, <1>a DEF ReceiveOK, TypeOK, GetMessages
  <2>3. ~full'[p] => seen[p] + Len(pending'[p]) >= sure[p]
    <3>1. ASSUME n = maxMsgNum - nextMsgNum[p] PROVE seen[p] + n >= sure[p]
      BY <1>a, <1>c, <2>2, <3>1
    <3> QED BY <1>g, <1>j, <3>1
  <2>4. \A q \in Procs : at'[q] \in {"apply", "get"} => sure[q] <= done
    BY <1>0, <1>h, <2>2 DEF ReceiveOK
  <2>5. \A q \in Procs : at'[q] = "apply" /\ ~full'[q] => seen[q] + Len(pending'[q]) >= sure[q]
    BY <1>0, <1>h, <2>3 DEF ReceiveOK
  <2> QED BY <2>1, <2>2, <2>4, <2>5 DEF ReceiveOK
<1> QED BY <1>1, <1>2, <1>3, <1>4, <1>5, <1>6, <1>7 DEF IInv

\* ReceiveReturns keeps the inductive invariant.
LEMMA ReceiveReturnsStep ==
  ASSUME IInv, NEW p \in Procs, ReceiveReturns(p)
  PROVE  IInv'
<1>0. TypeOK /\ PlacesOK /\ RingIntact /\ WrittenOK /\ FlagOK /\ PendingOK /\ ReceiveOK
  BY DEF IInv
<1>1. TypeOK'
  BY <1>0 DEF TypeOK, Places, ReceiveReturns, ring, states, receive, Drained
<1>2. PlacesOK'
  BY <1>0 DEF TypeOK, PlacesOK, InsertPlaces, Places, ReceiveReturns, ring, states, receive, Drained
<1>3. RingIntact'
  BY <1>0 DEF TypeOK, PlacesOK, RingIntact, ReceiveReturns, ring, states, receive, InsertPlaces, Drained
<1>4. WrittenOK'
  BY <1>0 DEF TypeOK, PlacesOK, WrittenOK, InsertPlaces, ReceiveReturns, ring, states, receive, Drained
<1>5. FlagOK'
  BY <1>0 DEF TypeOK, PlacesOK, FlagOK, ReceiveOK, Told, ReceiveReturns, ring, states, receive, InsertPlaces, Drained
<1>6. PendingOK'
  BY <1>0 DEF TypeOK, PlacesOK, PendingOK, ReceiveReturns, ring, states, receive, InsertPlaces, Drained
<1>7. ReceiveOK'
  BY <1>0 DEF TypeOK, PlacesOK, PendingOK, FlagOK, ReceiveOK, Told, ReceiveReturns, ring, states, receive, InsertPlaces, Drained
<1> QED BY <1>1, <1>2, <1>3, <1>4, <1>5, <1>6, <1>7 DEF IInv

\* What both callers of SICleanupQueue need: while it runs nobody copies and nobody
\* raises flags.
LEMMA CleanupKeeps ==
  ASSUME IInv, NEW minFree \in 0..WRITE_QUANTUM, NEW target \in Procs \cup {None},
         SICleanupQueue(minFree, target), UNCHANGED <<receive, done>>,
         \A q \in Procs : at[q] # "flag"
  PROVE  RingIntact' /\ FlagOK' /\ PendingOK' /\ done' <= base' + maxMsgNum'
<1>0. TypeOK /\ PlacesOK /\ RingIntact /\ FlagOK /\ PendingOK /\ ReceiveOK
  BY DEF IInv
<1>1. /\ minMsgNum' \in Nat /\ maxMsgNum' \in Nat /\ base' \in Nat
      /\ \A q \in Readers \cap listed : ~resetState'[q] =>
           ~resetState[q] /\ nextMsgNum'[q] \in minMsgNum'..maxMsgNum'
      /\ \A q \in Readers \cap listed : resetState'[q] => resetState[q] \/ nextMsgNum[q] < maxMsgNum
  BY CleanupEffect
<1>2. PICK wrap \in Nat :
        /\ base' = base + wrap /\ maxMsgNum' = maxMsgNum - wrap
        /\ \A q \in listed : nextMsgNum'[q] = nextMsgNum[q] - wrap
        /\ \A a \in Int : (a - wrap) % MAXNUMMESSAGES = a % MAXNUMMESSAGES
  BY CleanupEffect
<1>a. base' = base + wrap /\ maxMsgNum' = maxMsgNum - wrap /\ \A q \in listed : nextMsgNum'[q] = nextMsgNum[q] - wrap
  BY <1>2
<1>3. readers = {} /\ UNCHANGED <<buffer, listed, hasMessages, pending, seen, done>>
  BY DEF SICleanupQueue, receive
<1>4. base \in Nat /\ maxMsgNum \in Nat /\ done \in Nat /\ \A q \in listed : nextMsgNum[q] \in Int /\ seen[q] \in Int
  BY <1>0 DEF TypeOK
<1>5. RingIntact'
  <2> SUFFICES ASSUME NEW q \in Readers \cap listed, ~resetState'[q]
               PROVE  /\ nextMsgNum'[q] \in minMsgNum'..maxMsgNum'
                      /\ \A n \in nextMsgNum'[q]..(maxMsgNum' - 1) : buffer[n % MAXNUMMESSAGES] = base' + n
    BY <1>3 DEF RingIntact
  <2>1. ~resetState[q] /\ nextMsgNum'[q] \in minMsgNum'..maxMsgNum'
    BY <1>1
  <2>2. ASSUME NEW n \in nextMsgNum'[q]..(maxMsgNum' - 1)
        PROVE  buffer[n % MAXNUMMESSAGES] = base' + n
    <3>1. n \in Int /\ n + wrap \in Int /\ (n + wrap) - wrap = n /\ n + wrap \in nextMsgNum[q]..(maxMsgNum - 1)
      BY <1>a, <1>4, <1>1, <2>1
    <3>2. buffer[(n + wrap) % MAXNUMMESSAGES] = base + (n + wrap)
      BY <1>0, <2>1, <3>1 DEF RingIntact
    <3>3. (n + wrap) % MAXNUMMESSAGES = n % MAXNUMMESSAGES
      BY <1>2, <3>1
    <3>4. base + (n + wrap) = base' + n
      BY <1>a, <1>4, <3>1
    <3> QED BY <3>2, <3>3, <3>4
  <2> QED BY <2>1, <2>2
<1>6. FlagOK'
  <2> SUFFICES ASSUME NEW q \in Readers \cap listed, ~hasMessages[q]
               PROVE  ~resetState'[q] /\ base' + nextMsgNum'[q] >= done /\ nextMsgNum'[q] = maxMsgNum'
    BY <1>3 DEF FlagOK
  <2>1. at[q] # "get" /\ Told(q) /\ q \in listed
    BY <1>0, <1>3 DEF PlacesOK, Told, TypeOK
  <2>2. ~resetState[q] /\ base + nextMsgNum[q] >= done /\ nextMsgNum[q] = maxMsgNum
    BY <1>0, <2>1 DEF FlagOK
  <2>3. ~resetState'[q]
    BY <1>1, <1>4, <2>2
  <2> QED BY <1>a, <1>4, <2>1, <2>2, <2>3
<1>7. PendingOK'
  <2> SUFFICES ASSUME NEW q \in Readers \cap listed
               PROVE  /\ \A i \in 1..Len(pending[q]) : pending[q][i] = seen[q] + i - 1
                      /\ ~resetState'[q] => seen[q] + Len(pending[q]) = base' + nextMsgNum'[q]
    BY <1>3 DEF PendingOK
  <2>1. q \in listed /\ (~resetState'[q] => ~resetState[q]) /\ base' + nextMsgNum'[q] = base + nextMsgNum[q]
    BY <1>1, <1>a, <1>4
  <2> QED BY <1>0, <2>1 DEF PendingOK
<1>8. done' <= base' + maxMsgNum'
  BY <1>0, <1>a, <1>3, <1>4 DEF ReceiveOK
<1> QED BY <1>5, <1>6, <1>7, <1>8

\* InsertCleanup keeps the inductive invariant.
LEMMA InsertCleanupStep ==
  ASSUME IInv, NEW p \in Procs, InsertCleanup(p)
  PROVE  IInv'
<1>0. TypeOK /\ PlacesOK /\ RingIntact /\ WrittenOK /\ FlagOK /\ PendingOK /\ ReceiveOK
  BY DEF IInv
<1>a. PICK target \in Procs \cup {None} :
        /\ SICleanupQueue(chunk[p], target)
        /\ signal' = [signal EXCEPT ![p] = target]
        /\ IF target = None
             THEN UNCHANGED <<writeLock, at>>
             ELSE writeLock' = None /\ at' = [at EXCEPT ![p] = "insertSignal"]
  BY DEF InsertCleanup
<1>b. /\ at[p] = "room" /\ chunk[p] \in 0..WRITE_QUANTUM /\ writeLock = p
      /\ \A q \in Procs : q # p => at[q] \notin InsertPlaces
      /\ \A q \in Procs : at'[q] \in {at[q], "insertSignal"}
  BY <1>0, <1>a DEF TypeOK, PlacesOK, InsertPlaces, InsertCleanup
<1>c. UNCHANGED <<receive, readers, catchup, chunk, todo, done, buffer, listed, hasMessages>>
  BY <1>a DEF InsertCleanup, SICleanupQueue
<1>d. RingIntact' /\ FlagOK' /\ PendingOK' /\ done' <= base' + maxMsgNum'
  BY <1>a, <1>b, <1>c, CleanupKeeps DEF InsertPlaces
<1>e. /\ minMsgNum' \in Nat /\ maxMsgNum' \in Nat /\ base' \in Nat /\ minMsgNum' <= maxMsgNum'
      /\ nextMsgNum' \in [Procs -> Int]
      /\ resetState' \in [Procs -> BOOLEAN] /\ signaled' \in [Procs -> BOOLEAN]
  BY <1>a, <1>b, CleanupEffect
<1>1. TypeOK'
  <2>1. writeLock' \in Procs \cup {None} /\ at' \in [Procs -> Places]
    BY <1>0, <1>a DEF TypeOK, Places
  <2> QED BY <1>0, <1>c, <1>e, <2>1 DEF TypeOK, receive
<1>2. PlacesOK'
  <2>1. UNCHANGED <<readers, listed, pending>> /\ p \in listed
    BY <1>0, <1>b, <1>c DEF PlacesOK, receive
  <2>2. CASE target = None
    BY <1>0, <1>a, <2>1, <2>2 DEF PlacesOK
  <2>3. CASE target # None
    <3>1. writeLock' = None /\ at' = [at EXCEPT ![p] = "insertSignal"]
      BY <1>a, <2>3
    <3> QED BY <1>0, <1>b, <2>1, <3>1, NoneIsNoProc DEF TypeOK, PlacesOK, InsertPlaces
  <2> QED BY <2>2, <2>3
<1>3. RingIntact'
  BY <1>d
<1>4. WrittenOK'
  BY <1>b DEF WrittenOK, InsertPlaces
<1>5. FlagOK'
  BY <1>d
<1>6. PendingOK'
  BY <1>d
<1>7. ReceiveOK'
  BY <1>0, <1>b, <1>c, <1>d DEF ReceiveOK, receive
<1> QED BY <1>1, <1>2, <1>3, <1>4, <1>5, <1>6, <1>7 DEF IInv

\* ReceiveCleanup keeps the inductive invariant.
LEMMA ReceiveCleanupStep ==
  ASSUME IInv, NEW p \in Procs, ReceiveCleanup(p)
  PROVE  IInv'
<1>0. TypeOK /\ PlacesOK /\ RingIntact /\ WrittenOK /\ FlagOK /\ PendingOK /\ ReceiveOK
  BY DEF IInv
<1>a. PICK target \in Procs \cup {None} :
        /\ SICleanupQueue(0, target)
        /\ signal' = [signal EXCEPT ![p] = target]
        /\ at' = [at EXCEPT ![p] = IF target = None THEN "idle" ELSE "receiveSignal"]
  BY DEF ReceiveCleanup
<1>b. /\ at[p] = "apply" /\ writeLock = None /\ 0 \in 0..WRITE_QUANTUM
      /\ \A q \in Procs : at[q] \notin InsertPlaces
      /\ \A q \in Procs : at'[q] \in {at[q], "idle", "receiveSignal"}
  BY <1>0, <1>a, NoneIsNoProc, WriteQuantum DEF TypeOK, PlacesOK, ReceiveCleanup, Drained
<1>c. /\ UNCHANGED <<receive, readers, chunk, todo, done, buffer, listed, hasMessages, writeLock>>
      /\ catchup' = [catchup EXCEPT ![p] = FALSE]
  BY <1>a DEF ReceiveCleanup, SICleanupQueue
<1>d. RingIntact' /\ FlagOK' /\ PendingOK' /\ done' <= base' + maxMsgNum'
  BY <1>a, <1>b, <1>c, CleanupKeeps DEF InsertPlaces
<1>e. /\ minMsgNum' \in Nat /\ maxMsgNum' \in Nat /\ base' \in Nat /\ minMsgNum' <= maxMsgNum'
      /\ nextMsgNum' \in [Procs -> Int]
      /\ resetState' \in [Procs -> BOOLEAN] /\ signaled' \in [Procs -> BOOLEAN]
  BY <1>a, <1>b, CleanupEffect
<1>1. TypeOK'
  <2>1. catchup' \in [Procs -> BOOLEAN] /\ at' \in [Procs -> Places]
    BY <1>0, <1>a, <1>c DEF TypeOK, Places
  <2> QED BY <1>0, <1>c, <1>e, <2>1 DEF TypeOK, receive
<1>2. PlacesOK'
  <2>1. UNCHANGED <<readers, listed, pending, writeLock>> /\ p \in listed
    BY <1>0, <1>b, <1>c DEF PlacesOK, receive
  <2> QED BY <1>0, <1>a, <1>b, <2>1 DEF TypeOK, PlacesOK, InsertPlaces
<1>3. RingIntact'
  BY <1>d
<1>4. WrittenOK'
  BY <1>b DEF WrittenOK, InsertPlaces
<1>5. FlagOK'
  BY <1>d
<1>6. PendingOK'
  BY <1>d
<1>7. ReceiveOK'
  BY <1>0, <1>b, <1>c, <1>d DEF ReceiveOK, receive
<1> QED BY <1>1, <1>2, <1>3, <1>4, <1>5, <1>6, <1>7 DEF IInv

\* Exit keeps the inductive invariant.
LEMMA ExitStep ==
  ASSUME IInv, NEW p \in Procs, Exit(p)
  PROVE  IInv'
<1>0. TypeOK /\ PlacesOK /\ RingIntact /\ WrittenOK /\ FlagOK /\ PendingOK /\ ReceiveOK
  BY DEF IInv
<1>1. TypeOK'
  BY <1>0 DEF TypeOK, Places, Exit, ring, states, receive
<1>2. PlacesOK'
  BY <1>0 DEF TypeOK, PlacesOK, InsertPlaces, Places, Exit, ring, states, receive
<1>3. RingIntact'
  BY <1>0 DEF TypeOK, PlacesOK, RingIntact, Exit, ring, states, receive, InsertPlaces
<1>4. WrittenOK'
  BY <1>0 DEF TypeOK, PlacesOK, WrittenOK, InsertPlaces, Exit, ring, states, receive
<1>5. FlagOK'
  BY <1>0 DEF TypeOK, PlacesOK, FlagOK, ReceiveOK, Told, Exit, ring, states, receive, InsertPlaces
<1>6. PendingOK'
  BY <1>0 DEF TypeOK, PlacesOK, PendingOK, Exit, ring, states, receive, InsertPlaces
<1>7. ReceiveOK'
  BY <1>0 DEF TypeOK, PlacesOK, PendingOK, FlagOK, ReceiveOK, Told, Exit, ring, states, receive, InsertPlaces
<1> QED BY <1>1, <1>2, <1>3, <1>4, <1>5, <1>6, <1>7 DEF IInv

\* SharedInvalBackendInit keeps the inductive invariant.
LEMMA SharedInvalBackendInitStep ==
  ASSUME IInv, NEW p \in Procs, SharedInvalBackendInit(p)
  PROVE  IInv'
<1>0. TypeOK /\ PlacesOK /\ RingIntact /\ WrittenOK /\ FlagOK /\ PendingOK /\ ReceiveOK
  BY DEF IInv
<1>1. TypeOK'
  BY <1>0 DEF TypeOK, Places, SharedInvalBackendInit, ring, states, receive
<1>2. PlacesOK'
  BY <1>0 DEF TypeOK, PlacesOK, InsertPlaces, Places, SharedInvalBackendInit, ring, states, receive
<1>3. RingIntact'
  BY <1>0 DEF TypeOK, PlacesOK, RingIntact, SharedInvalBackendInit, ring, states, receive, InsertPlaces
<1>4. WrittenOK'
  BY <1>0 DEF TypeOK, PlacesOK, WrittenOK, InsertPlaces, SharedInvalBackendInit, ring, states, receive
<1>5. FlagOK'
  BY <1>0 DEF TypeOK, PlacesOK, FlagOK, ReceiveOK, Told, SharedInvalBackendInit, ring, states, receive, InsertPlaces
<1>6. PendingOK'
  BY <1>0 DEF TypeOK, PlacesOK, PendingOK, SharedInvalBackendInit, ring, states, receive, InsertPlaces
<1>7. ReceiveOK'
  BY <1>0 DEF TypeOK, PlacesOK, PendingOK, FlagOK, ReceiveOK, Told, SharedInvalBackendInit, ring, states, receive, InsertPlaces
<1> QED BY <1>1, <1>2, <1>3, <1>4, <1>5, <1>6, <1>7 DEF IInv

-----------------------------------------------------------------------------
\* The inductive invariant holds initially.
LEMMA InitIInv == ASSUME Init PROVE IInv
<1>1. TypeOK
  <2>1. MAXNUMMESSAGES \in Nat \ {0} /\ WRITE_QUANTUM \in Nat
    BY Constants
  <2> QED BY <2>1 DEF Init, TypeOK, Places
<1>2. PlacesOK
  BY NoneIsNoProc DEF Init, PlacesOK, InsertPlaces
<1>3. RingIntact /\ WrittenOK
  BY DEF Init, RingIntact, WrittenOK
<1>4. FlagOK /\ PendingOK /\ ReceiveOK
  BY <1>1 DEF Init, FlagOK, PendingOK, ReceiveOK, TypeOK
<1> QED BY <1>1, <1>2, <1>3, <1>4 DEF IInv

\* The inductive invariant is kept by every step.
LEMMA NextIInv == ASSUME IInv, [Next]_vars PROVE IInv'
<1>1. CASE UNCHANGED vars
  BY <1>1 DEF IInv, TypeOK, PlacesOK, RingIntact, WrittenOK, FlagOK, Told, PendingOK, ReceiveOK,
              vars, ring, states, receive
<1>2. ASSUME NEW p \in Procs, NEW n \in 1..WRITE_QUANTUM, InsertLock(p, n) PROVE IInv'
  BY <1>2, InsertLockStep
<1>3. ASSUME NEW p \in Procs, NEW q \in todo[p], InsertFlag(p, q) PROVE IInv'
  BY <1>3, InsertFlagStep
<1>4. ASSUME NEW p \in Procs,
             InsertCleanup(p) \/ InsertWrite(p) \/ InsertPublish(p) \/ SendCatchup(p)
      PROVE  IInv'
  BY <1>4, InsertCleanupStep, InsertWriteStep, InsertPublishStep, SendCatchupStep
<1>5. ASSUME NEW p \in Procs, Receive(p) \/ Apply(p) \/ ApplyFails(p) \/ GetNothing(p) PROVE IInv'
  BY <1>5, ReceiveStep, ApplyStep, ApplyFailsStep, GetNothingStep
<1>6. ASSUME NEW p \in Procs, GetLock(p) \/ GetReset(p) \/ GetMessages(p) PROVE IInv'
  BY <1>6, GetLockStep, GetResetStep, GetMessagesStep
<1>7. ASSUME NEW p \in Procs,
             ReceiveReturns(p) \/ ReceiveCleanup(p) \/ Exit(p) \/ SharedInvalBackendInit(p)
      PROVE  IInv'
  BY <1>7, ReceiveReturnsStep, ReceiveCleanupStep, ExitStep, SharedInvalBackendInitStep
<1> QED BY <1>1, <1>2, <1>3, <1>4, <1>5, <1>6, <1>7 DEF Next

\* The invariant is inductive.
THEOREM SpecIInv == Spec => []IInv
  BY InitIInv, NextIInv, PTL DEF Spec

\* Whatever a backend has yet to read stays in its slot of the ring, however slowly it
\* reads, whoever overtakes it and however often SICleanupQueue winds the message
\* numbers back.
THEOREM SpecRingIntact == Spec => []RingIntact
<1>1. IInv => RingIntact
  BY DEF IInv
<1> QED BY <1>1, SpecIInv, PTL

\* ReceiveSharedInvalidMessages returns, at once or after its loop, with every message
\* applied whose SIInsertDataEntries had returned when it was called.
THEOREM SpecCacheFresh == Spec => []CacheFresh
<1>1. ASSUME IInv PROVE CacheFresh
  <2> SUFFICES ASSUME NEW p \in Readers \cap listed
               PROVE  /\ Drained(p) => seen[p] >= sure[p]
                      /\ at[p] = "idle" /\ ~WorthReceiving(p) => seen[p] >= done
    BY DEF CacheFresh
  <2>0. TypeOK /\ FlagOK /\ PendingOK /\ ReceiveOK /\ p \in Procs
    BY <1>1 DEF IInv, TypeOK
  <2>1. pending[p] = <<>> => Len(pending[p]) = 0
    OBVIOUS
  <2>2. Drained(p) => seen[p] >= sure[p]
    BY <2>0, <2>1 DEF Drained, TypeOK, ReceiveOK
  <2>3. ASSUME at[p] = "idle", ~WorthReceiving(p) PROVE seen[p] >= done
    <3>1. ~resetState[p] /\ base + nextMsgNum[p] >= done /\ pending[p] = <<>>
      BY <2>0, <2>3 DEF WorthReceiving, FlagOK
    <3>2. seen[p] + Len(pending[p]) = base + nextMsgNum[p]
      BY <2>0, <3>1 DEF PendingOK
    <3> QED BY <2>0, <2>1, <3>1, <3>2 DEF TypeOK
  <2> QED BY <2>2, <2>3
<1> QED BY <1>1, SpecIInv, PTL
=============================================================================
