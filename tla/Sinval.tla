------------------------------- MODULE Sinval --------------------------------
(* Shared cache invalidation: a ring of messages that every backend reads at its *)
(* own pace.  Writers serialise on SInvalWriteLock and publish maxMsgNum before   *)
(* they raise the readers' flags; readers look at their flag without a lock and  *)
(* copy under SInvalReadLock; whoever finds the ring too full takes both locks,  *)
(* resets those too far behind and signals the next.                            *)
EXTENDS Integers, Sequences, FiniteSets, FiniteSetsExt

CONSTANTS
  Procs,            \* slots of backends
  Writers, Readers, \* who sends, who receives; the others of Procs are sendOnly
  Leavers,          \* who exits and comes back
  MAXNUMMESSAGES, MSGNUMWRAPAROUND, CLEANUP_MIN, CLEANUP_QUANTUM, SIG_THRESHOLD,
  WRITE_QUANTUM, MAXINVALMSGS,
  MaxMsgs,          \* bound: messages ever sent
  None

ASSUME SinvalConstants ==
  /\ {MAXNUMMESSAGES, CLEANUP_MIN, CLEANUP_QUANTUM, SIG_THRESHOLD, WRITE_QUANTUM, MAXINVALMSGS}
       \subseteq Nat \ {0}
  /\ WRITE_QUANTUM <= CLEANUP_MIN
  /\ CLEANUP_MIN <= MAXNUMMESSAGES
  /\ MSGNUMWRAPAROUND \in Nat
  /\ \E k \in 1..MSGNUMWRAPAROUND : MSGNUMWRAPAROUND = k * MAXNUMMESSAGES
  /\ None \notin Procs

VARIABLES
  buffer,           \* the ring: which message is in a slot
  minMsgNum, maxMsgNum, nextThreshold,
  listed,           \* pgprocnos
  nextMsgNum, resetState, signaled, hasMessages,
  writeLock, readers,  \* SInvalWriteLock's holder, SInvalReadLock's sharers
  catchup,          \* catchupInterruptPending
  pending,          \* messages[nextmsg..nummsgs), copied and not yet applied
  full,             \* nummsgs = MAXINVALMSGS: there may be more
  at, chunk, todo, signal,
  base,             \* the message that message number 0 stands for, after wraparounds
  done,             \* messages whose SIInsertDataEntries has returned
  seen,             \* the message from which on a backend's caches are ignorant
  sure              \* "done" when the receive began

ring    == <<buffer, minMsgNum, maxMsgNum, nextThreshold, listed, base>>
states  == <<nextMsgNum, resetState, signaled, hasMessages>>
receive == <<pending, full, seen, sure>>
vars    == <<ring, states, receive, writeLock, readers, catchup, at, chunk, todo, signal, done>>

sendOnly(p) == p \notin Readers

Init ==
  /\ buffer = [i \in 0..(MAXNUMMESSAGES - 1) |-> None]
  /\ minMsgNum = 0 /\ maxMsgNum = 0 /\ nextThreshold = CLEANUP_MIN
  /\ listed = Procs
  /\ nextMsgNum = [p \in Procs |-> 0]
  /\ resetState = [p \in Procs |-> FALSE]
  /\ signaled = [p \in Procs |-> FALSE]
  /\ hasMessages = [p \in Procs |-> FALSE]
  /\ writeLock = None /\ readers = {}
  /\ catchup = [p \in Procs |-> FALSE]
  /\ pending = [p \in Procs |-> <<>>]
  /\ full = [p \in Procs |-> FALSE]
  /\ at = [p \in Procs |-> "idle"]
  /\ chunk = [p \in Procs |-> 0]
  /\ todo = [p \in Procs |-> {}]
  /\ signal = [p \in Procs |-> None]
  /\ base = 0 /\ done = 0
  /\ seen = [p \in Procs |-> 0]
  /\ sure = [p \in Procs |-> 0]

-----------------------------------------------------------------------------
(* SICleanupQueue, under both locks. *)

(* Whoever is too far behind for minFree free slots is reset. *)
TooFar(minFree) ==
  {q \in listed : /\ ~resetState[q] /\ ~sendOnly(q)
                  /\ nextMsgNum[q] < maxMsgNum - MAXNUMMESSAGES + minFree}

(* Those that count for minMsgNum, and the furthest behind worth a signal. *)
Followers(minFree) ==
  {q \in listed : ~resetState[q] /\ ~sendOnly(q)} \ TooFar(minFree)

ToSignal(minFree) ==
  LET late == {q \in Followers(minFree) :
                 ~signaled[q] /\ nextMsgNum[q] < maxMsgNum - SIG_THRESHOLD}
  IN  {q \in late : \A r \in late : nextMsgNum[q] <= nextMsgNum[r]}

Threshold(numMsgs) ==
  IF numMsgs < CLEANUP_MIN THEN CLEANUP_MIN
  ELSE (numMsgs \div CLEANUP_QUANTUM + 1) * CLEANUP_QUANTUM

\* Mutant: the readers' numbers stay.
NotRewound(q, wrap) == nextMsgNum[q]

Rewound(q, wrap) == IF q \in listed THEN nextMsgNum[q] - wrap ELSE nextMsgNum[q]

(* "target" is signalled after the locks are released, None for nobody. *)
SICleanupQueue(minFree, target) ==
  LET low  == Min({maxMsgNum} \cup {nextMsgNum[q] : q \in Followers(minFree)})
      wrap == IF low >= MSGNUMWRAPAROUND THEN MSGNUMWRAPAROUND ELSE 0
  IN
  /\ readers = {}
  /\ IF ToSignal(minFree) = {} THEN target = None ELSE target \in ToSignal(minFree)
  /\ resetState' = [q \in Procs |-> resetState[q] \/ q \in TooFar(minFree)]
  /\ minMsgNum' = low - wrap
  /\ maxMsgNum' = maxMsgNum - wrap
  /\ base' = base + wrap
  /\ nextMsgNum' = [q \in Procs |-> Rewound(q, wrap)]
  /\ nextThreshold' = Threshold(maxMsgNum - low)
  /\ signaled' = [q \in Procs |-> signaled[q] \/ q = target]
  /\ UNCHANGED <<buffer, listed, hasMessages>>

(* SendProcSignal and HandleCatchupInterrupt. *)
SendCatchup(p) ==
  /\ at[p] \in {"insertSignal", "receiveSignal"}
  /\ catchup' = [q \in Procs |-> catchup[q] \/ q = signal[p]]
  /\ signal' = [signal EXCEPT ![p] = None]
  /\ at' = [at EXCEPT ![p] = IF @ = "insertSignal" THEN "insert" ELSE "idle"]
  /\ UNCHANGED <<ring, states, receive, writeLock, readers, chunk, todo, done>>

-----------------------------------------------------------------------------
(* SIInsertDataEntries of one chunk *)

(* The lock is held from here on, but for a cleanup that has somebody to signal. *)
InsertLock(p, n) ==
  /\ \/ at[p] = "idle" /\ p \in Writers \cap listed /\ base + maxMsgNum + n <= MaxMsgs
     \/ at[p] = "insert" /\ n = chunk[p]
  /\ writeLock = None
  /\ writeLock' = p
  /\ chunk' = [chunk EXCEPT ![p] = n]
  /\ at' = [at EXCEPT ![p] = "room"]
  /\ UNCHANGED <<ring, states, receive, readers, catchup, todo, signal, done>>

NeedsCleanup(n) ==
  \/ maxMsgNum - minMsgNum + n > MAXNUMMESSAGES
  \/ maxMsgNum - minMsgNum >= nextThreshold

InsertCleanup(p) ==
  /\ at[p] = "room"
  /\ NeedsCleanup(chunk[p])
  /\ \E target \in Procs \cup {None} :
       /\ SICleanupQueue(chunk[p], target)
       /\ signal' = [signal EXCEPT ![p] = target]
       /\ IF target = None
            THEN UNCHANGED <<writeLock, at>>
            ELSE writeLock' = None /\ at' = [at EXCEPT ![p] = "insertSignal"]
  /\ UNCHANGED <<receive, readers, catchup, chunk, todo, done>>

(* The slots first; nobody looks at them before maxMsgNum says so. *)
InsertWrite(p) ==
  LET slot(i) == (maxMsgNum + i) % MAXNUMMESSAGES IN
  /\ at[p] = "room"
  /\ ~NeedsCleanup(chunk[p])
  /\ buffer' = [s \in DOMAIN buffer |->
                  IF \E i \in 0..(chunk[p] - 1) : s = slot(i)
                    THEN base + maxMsgNum + (CHOOSE i \in 0..(chunk[p] - 1) : s = slot(i))
                    ELSE buffer[s]]
  /\ at' = [at EXCEPT ![p] = "publish"]
  /\ UNCHANGED <<minMsgNum, maxMsgNum, nextThreshold, listed, base, states, receive, writeLock,
                 readers, catchup, chunk, todo, signal, done>>

InsertPublish(p) ==
  /\ at[p] = "publish"
  /\ maxMsgNum' = maxMsgNum + chunk[p]
  /\ todo' = [todo EXCEPT ![p] = listed]
  /\ at' = [at EXCEPT ![p] = "flag"]
  /\ UNCHANGED <<buffer, minMsgNum, nextThreshold, listed, base, states, receive, writeLock,
                 readers, catchup, chunk, signal, done>>

(* One flag after the other, then the lock is released. *)
InsertFlag(p, q) ==
  /\ at[p] = "flag"
  /\ q \in todo[p]
  /\ hasMessages' = [hasMessages EXCEPT ![q] = TRUE]
  /\ todo' = [todo EXCEPT ![p] = @ \ {q}]
  /\ IF todo[p] = {q}
       THEN /\ writeLock' = None
            /\ done' = base + maxMsgNum
            /\ at' = [at EXCEPT ![p] = "idle"]
       ELSE UNCHANGED <<writeLock, done, at>>
  /\ UNCHANGED <<ring, nextMsgNum, resetState, signaled, receive, readers, catchup, chunk, signal>>

-----------------------------------------------------------------------------
(* ReceiveSharedInvalidMessages *)

(* The empty-queue probe finds something: a message, a flag, a catch-up. *)
WorthReceiving(p) == pending[p] # <<>> \/ catchup[p] \/ hasMessages[p]

Receive(p) ==
  /\ at[p] = "idle"
  /\ p \in Readers \cap listed
  /\ WorthReceiving(p)
  /\ sure' = [sure EXCEPT ![p] = done]
  /\ full' = [full EXCEPT ![p] = TRUE]
  /\ at' = [at EXCEPT ![p] = "apply"]
  /\ UNCHANGED <<ring, states, pending, seen, writeLock, readers, catchup, chunk, todo, signal, done>>

(* inval_function of the next message; "full" says that the queue is asked again. *)
Apply(p) ==
  /\ at[p] = "apply"
  /\ pending[p] # <<>>
  /\ seen' = [seen EXCEPT ![p] = IF Head(pending[p]) = @ THEN @ + 1 ELSE @]
  /\ pending' = [pending EXCEPT ![p] = Tail(@)]
  /\ UNCHANGED <<ring, states, full, sure, writeLock, readers, catchup, at, chunk, todo, signal, done>>

(* An error after an invalidation: the other messages stay for the next call. *)
ApplyFails(p) ==
  /\ at[p] = "apply"
  /\ pending[p] # <<>>
  /\ seen' = [seen EXCEPT ![p] = IF Head(pending[p]) = @ THEN @ + 1 ELSE @]
  /\ pending' = [pending EXCEPT ![p] = Tail(@)]
  /\ at' = [at EXCEPT ![p] = "idle"]
  /\ UNCHANGED <<ring, states, full, sure, writeLock, readers, catchup, chunk, todo, signal, done>>

(* SIGetDataEntries: without the flag there is nothing; the flag is lowered     *)
(* before maxMsgNum is looked at.                                             *)
GetNothing(p) ==
  /\ at[p] = "apply"
  /\ pending[p] = <<>>
  /\ full[p]
  /\ ~hasMessages[p]
  /\ full' = [full EXCEPT ![p] = FALSE]
  /\ UNCHANGED <<ring, states, pending, seen, sure, writeLock, readers, catchup, at, chunk, todo,
                 signal, done>>

GetLock(p) ==
  /\ at[p] = "apply"
  /\ pending[p] = <<>>
  /\ full[p]
  /\ hasMessages[p]
  /\ readers' = readers \cup {p}
  /\ hasMessages' = [hasMessages EXCEPT ![p] = FALSE]
  /\ at' = [at EXCEPT ![p] = "get"]
  /\ UNCHANGED <<ring, nextMsgNum, resetState, signaled, receive, writeLock, catchup, chunk, todo,
                 signal, done>>

(* A reset: everything up to maxMsgNum is forgotten at once. *)
GetReset(p) ==
  /\ at[p] = "get"
  /\ resetState[p]
  /\ nextMsgNum' = [nextMsgNum EXCEPT ![p] = maxMsgNum]
  /\ resetState' = [resetState EXCEPT ![p] = FALSE]
  /\ signaled' = [signaled EXCEPT ![p] = FALSE]
  /\ seen' = [seen EXCEPT ![p] = base + maxMsgNum]
  /\ full' = [full EXCEPT ![p] = FALSE]
  /\ readers' = readers \ {p}
  /\ at' = [at EXCEPT ![p] = "apply"]
  /\ UNCHANGED <<ring, hasMessages, pending, sure, writeLock, catchup, chunk, todo, signal, done>>

\* Mutant: the flag is not raised again for what did not fit.
StillFlagged(p, next) == hasMessages[p]

(* The flag after a copy up to next. *)
Flagged(p, next) == hasMessages[p] \/ next < maxMsgNum

GetMessages(p) ==
  LET n    == Min({MAXINVALMSGS, maxMsgNum - nextMsgNum[p]})
      next == nextMsgNum[p] + n
  IN
  /\ at[p] = "get"
  /\ ~resetState[p]
  /\ pending' = [pending EXCEPT ![p] =
                   [i \in 1..n |-> buffer[(nextMsgNum[p] + i - 1) % MAXNUMMESSAGES]]]
  /\ full' = [full EXCEPT ![p] = n = MAXINVALMSGS]
  /\ nextMsgNum' = [nextMsgNum EXCEPT ![p] = next]
  /\ signaled' = [signaled EXCEPT ![p] = @ /\ next < maxMsgNum]
  /\ hasMessages' = [hasMessages EXCEPT ![p] = Flagged(p, next)]
  /\ readers' = readers \ {p}
  /\ at' = [at EXCEPT ![p] = "apply"]
  /\ UNCHANGED <<ring, resetState, seen, sure, writeLock, catchup, chunk, todo, signal, done>>

(* Everything is applied. *)
Drained(p) == at[p] = "apply" /\ pending[p] = <<>> /\ ~full[p]

ReceiveReturns(p) ==
  /\ Drained(p)
  /\ ~catchup[p]
  /\ at' = [at EXCEPT ![p] = "idle"]
  /\ UNCHANGED <<ring, states, receive, writeLock, readers, catchup, chunk, todo, signal, done>>

(* Who was signalled passes the signal on. *)
ReceiveCleanup(p) ==
  /\ Drained(p)
  /\ catchup[p]
  /\ writeLock = None
  /\ catchup' = [catchup EXCEPT ![p] = FALSE]
  /\ \E target \in Procs \cup {None} :
       /\ SICleanupQueue(0, target)
       /\ signal' = [signal EXCEPT ![p] = target]
       /\ at' = [at EXCEPT ![p] = IF target = None THEN "idle" ELSE "receiveSignal"]
  /\ UNCHANGED <<receive, writeLock, readers, chunk, todo, done>>

-----------------------------------------------------------------------------
(* CleanupInvalidationState and SharedInvalBackendInit: a backend exits, another *)
(* takes its slot.  A signal on its way to the old one is lost.                *)
Exit(p) ==
  /\ at[p] = "idle"
  /\ p \in listed \cap Leavers
  /\ writeLock = None
  /\ listed' = listed \ {p}
  /\ nextMsgNum' = [nextMsgNum EXCEPT ![p] = 0]
  /\ resetState' = [resetState EXCEPT ![p] = FALSE]
  /\ signaled' = [signaled EXCEPT ![p] = FALSE]
  /\ signal' = [q \in Procs |-> IF signal[q] = p THEN None ELSE signal[q]]
  /\ pending' = [pending EXCEPT ![p] = <<>>]
  /\ catchup' = [catchup EXCEPT ![p] = FALSE]
  /\ UNCHANGED <<buffer, minMsgNum, maxMsgNum, nextThreshold, base, hasMessages, full, seen, sure,
                 writeLock, readers, at, chunk, todo, done>>

SharedInvalBackendInit(p) ==
  /\ at[p] = "idle"
  /\ p \notin listed
  /\ writeLock = None
  /\ listed' = listed \cup {p}
  /\ nextMsgNum' = [nextMsgNum EXCEPT ![p] = maxMsgNum]
  /\ resetState' = [resetState EXCEPT ![p] = FALSE]
  /\ signaled' = [signaled EXCEPT ![p] = FALSE]
  /\ hasMessages' = [hasMessages EXCEPT ![p] = FALSE]
  /\ seen' = [seen EXCEPT ![p] = base + maxMsgNum]
  /\ UNCHANGED <<buffer, minMsgNum, maxMsgNum, nextThreshold, base, pending, full, sure, writeLock,
                 readers, catchup, at, chunk, todo, signal, done>>

-----------------------------------------------------------------------------
Next ==
  \E p \in Procs :
    \/ \E n \in 1..WRITE_QUANTUM : InsertLock(p, n)
    \/ InsertCleanup(p) \/ InsertWrite(p) \/ InsertPublish(p)
    \/ \E q \in todo[p] : InsertFlag(p, q)
    \/ SendCatchup(p)
    \/ Receive(p) \/ Apply(p) \/ ApplyFails(p)
    \/ GetNothing(p) \/ GetLock(p) \/ GetReset(p) \/ GetMessages(p)
    \/ ReceiveReturns(p) \/ ReceiveCleanup(p)
    \/ Exit(p) \/ SharedInvalBackendInit(p)

Spec == Init /\ [][Next]_vars

-----------------------------------------------------------------------------
(* A receive leaves no cache entry behind that a message sent before it began *)
(* would have removed: not when it returns, and not when the probe without a    *)
(* lock lets it return at once.                                              *)
CacheFresh ==
  \A p \in Readers \cap listed :
    /\ Drained(p) => seen[p] >= sure[p]
    /\ at[p] = "idle" /\ ~WorthReceiving(p) => seen[p] >= done

(* What a backend has yet to read is in the ring, whatever the writers have      *)
(* written over and however often the message numbers were wound back.         *)
RingIntact ==
  \A p \in Readers \cap listed : ~resetState[p] =>
    /\ nextMsgNum[p] \in minMsgNum..maxMsgNum
    /\ \A n \in nextMsgNum[p]..(maxMsgNum - 1) : buffer[n % MAXNUMMESSAGES] = base + n
=============================================================================
