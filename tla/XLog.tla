-------------------------------- MODULE XLog ---------------------------------
(* The write-ahead log's buffers.  A backend takes an insertion lock, reserves   *)
(* its space, copies its record into the buffer pages, and lets go; a flusher     *)
(* waits for the insertions below its target, takes WALWriteLock and writes the   *)
(* pages out.  A page buffer is taken over only once its old page is written.     *)
(* Positions count units of eight bytes; a page starts with its header.           *)
EXTENDS Integers, Sequences, FiniteSets, FiniteSetsExt, SequencesExt

CONSTANTS
  Procs,            \* backends, each with a data page of its own
  WalWriter,
  Plans,            \* bound: the records each backend inserts, the cycles of the WAL writer
  Locks,            \* the insertion locks: 1..NUM_XLOGINSERT_LOCKS
  XLOG_BLCKSZ, SizeOfXLogShortPHD, SizeOfXLogLongPHD, PagesPerSegment,
  XLogBuffers,      \* pages in the ring of WAL buffers
  Starts,           \* where the log may end when the server comes up
  Horizon,          \* bound: positions an instance can reserve
  None

Jobs == [kind : {"sync", "async", "redo", "switch"}, len : Nat \ {0}]

ASSUME XLogConstants ==
  /\ {XLOG_BLCKSZ, SizeOfXLogShortPHD, SizeOfXLogLongPHD, PagesPerSegment, XLogBuffers} \subseteq Nat \ {0}
  /\ SizeOfXLogShortPHD <= SizeOfXLogLongPHD
  /\ SizeOfXLogLongPHD < XLOG_BLCKSZ
  /\ IsFiniteSet(Locks) /\ Locks # {} /\ Locks = 1..Cardinality(Locks)
  /\ Procs \subseteq Nat /\ WalWriter \notin Procs
  /\ None \notin Procs \union {WalWriter} \union Nat /\ None # "flush"
  /\ Starts \subseteq Nat
  /\ \A plan \in Plans : /\ DOMAIN plan = Procs \union {WalWriter}
                         /\ \A p \in Procs : plan[p] \in Seq(Jobs)

VARIABLES
  CurrBytePos, RedoRecPtr, LogwrtRqstWrite, asyncXactLSN,
  logInsertResult, logWriteResult, logFlushResult,
  InitializedUpTo, xlblocks,
  buffer,           \* which positions a buffer page holds the right bytes of
  file, synced,     \* the same for the segment files, and for what fsync made sure of
  insertLock, insertingAt, WALBufMappingLock, WALWriteLock,
  at, caller, todo, \* a process's place, what it called from, what it has left to do
  rec,              \* its record: with an image; then start, end, where the copy is, units left
  lockNo,           \* LOCK_TO_TRY
  LogwrtResult, redo, doPageWrites, cachedPage,
  pageLSN,          \* the LSN of a backend's data page
  wait,             \* WaitXLogInsertionsToFinish: upto, finished, lock, value seen
  rqst,             \* XLogWrite: write, flush, flexible
  records           \* history: all reservations in order, and whether flushed for its owner

shared  == <<CurrBytePos, RedoRecPtr, LogwrtRqstWrite, asyncXactLSN>>
results == <<logInsertResult, logWriteResult, logFlushResult>>
pages   == <<InitializedUpTo, xlblocks, buffer>>
disk    == <<file, synced>>
locks   == <<insertLock, insertingAt, WALBufMappingLock, WALWriteLock>>
mine    == <<lockNo, LogwrtResult, redo, doPageWrites, cachedPage, pageLSN>>
vars    == <<shared, results, pages, disk, locks, at, caller, todo, rec, mine, wait, rqst, records>>

Invalid == 0
MaxPtr  == 1000000  \* u64::MAX
Everyone == Procs \union {WalWriter}
All == Cardinality(Locks)

(* --- Positions ------------------------------------------------------------- *)

SegSize == PagesPerSegment * XLOG_BLCKSZ
PageOf(ptr)    == ptr \div XLOG_BLCKSZ
PageBegin(ptr) == ptr - (ptr % XLOG_BLCKSZ)
PageEnd(ptr)   == PageBegin(ptr) + XLOG_BLCKSZ
BufIdx(ptr)    == PageOf(ptr) % XLogBuffers
HeaderSize(ptr) == IF PageBegin(ptr) % SegSize = 0 THEN SizeOfXLogLongPHD ELSE SizeOfXLogShortPHD
Segment(ptr) == LET s == ptr - (ptr % SegSize) IN s..(s + SegSize - 1)

UsableBytesInPage    == XLOG_BLCKSZ - SizeOfXLogShortPHD
FirstPageBytes       == XLOG_BLCKSZ - SizeOfXLogLongPHD
UsableBytesInSegment == FirstPageBytes + (PagesPerSegment - 1) * UsableBytesInPage

(* Both conversions find the page; only the start of a record skips the header of *)
(* a page it is the first on.                                                  *)
SegOffset(left, isStart) ==
  LET rest == left - FirstPageBytes
      off  == rest % UsableBytesInPage
  IN  IF left < FirstPageBytes
      THEN IF left = 0 /\ ~isStart THEN 0 ELSE left + SizeOfXLogLongPHD
      ELSE XLOG_BLCKSZ + (rest \div UsableBytesInPage) * XLOG_BLCKSZ + off
             + (IF off = 0 /\ ~isStart THEN 0 ELSE SizeOfXLogShortPHD)

XLogBytePosToRecPtr(b) ==
  (b \div UsableBytesInSegment) * SegSize + SegOffset(b % UsableBytesInSegment, TRUE)
XLogBytePosToEndRecPtr(b) ==
  (b \div UsableBytesInSegment) * SegSize + SegOffset(b % UsableBytesInSegment, FALSE)

XLogRecPtrToBytePos(ptr) ==
  LET page == (ptr % SegSize) \div XLOG_BLCKSZ
      off  == ptr % XLOG_BLCKSZ
  IN  (ptr \div SegSize) * UsableBytesInSegment
        + (IF page = 0 THEN 0 ELSE FirstPageBytes + (page - 1) * UsableBytesInPage)
        + (IF off = 0 THEN 0 ELSE off - HeaderSize(ptr))

(* The log ends before a page header, or behind one and some bytes of a record,  *)
(* and never gets to MaxPtr.                                                     *)
ASSUME PositionsAssumption ==
  /\ Horizon \in Nat /\ Horizon < MaxPtr
  /\ \A end \in Starts : /\ end <= Horizon
                         /\ end % XLOG_BLCKSZ = 0 \/ end % XLOG_BLCKSZ > HeaderSize(end)

(* --- The state after StartupXLOG ------------------------------------------- *)

Init ==
  \E end \in Starts, plan \in Plans :
    /\ CurrBytePos = XLogRecPtrToBytePos(end)
    /\ RedoRecPtr = Invalid /\ LogwrtRqstWrite = end /\ asyncXactLSN = Invalid
    /\ logInsertResult = end /\ logWriteResult = end /\ logFlushResult = end
    /\ InitializedUpTo = IF end % XLOG_BLCKSZ = 0 THEN end ELSE PageEnd(end)
    /\ xlblocks = [i \in 0..(XLogBuffers - 1) |->
                     IF end % XLOG_BLCKSZ # 0 /\ i = BufIdx(end) THEN PageEnd(end) ELSE Invalid]
    /\ buffer = [i \in 0..(XLogBuffers - 1) |-> IF xlblocks[i] = Invalid THEN {} ELSE PageBegin(end)..(end - 1)]
    /\ file = 0..(end - 1) /\ synced = file
    /\ insertLock = [l \in Locks |-> None]
    /\ insertingAt = [l \in Locks |-> Invalid]
    /\ WALBufMappingLock = None /\ WALWriteLock = None
    /\ at = [p \in Everyone |-> "idle"]
    /\ caller = [p \in Everyone |-> None]
    /\ todo = plan
    /\ rec = [p \in Procs |-> None]
    /\ lockNo = [p \in Procs |-> 1 + (p % All)]
    /\ LogwrtResult = [p \in Everyone |-> [write |-> Invalid, flush |-> Invalid]]
    /\ redo = [p \in Procs |-> Invalid]
    /\ doPageWrites = [p \in Procs |-> FALSE]
    /\ cachedPage = [p \in Procs |-> None]
    /\ pageLSN = [p \in Procs |-> Invalid]
    /\ wait = [p \in Everyone |-> None]
    /\ rqst = [p \in Everyone |-> None]
    /\ records = <<>>

Goto(p, s) == at' = [at EXCEPT ![p] = s]
Refreshed == [write |-> logWriteResult, flush |-> logFlushResult]
Larger(a, b) == IF a < b THEN b ELSE a
Smaller(a, b) == IF a < b THEN a ELSE b

(* --- XLogInsertRecord --------------------------------------------------------- *)

Job(p) == Head(todo[p])
Exclusive(p) == Job(p).kind \in {"redo", "switch"}
Held(p) == {l \in Locks : insertLock[l] = p}

(* XLogInsert decides from the backend's own copy of the redo pointer whether the   *)
(* record carries an image of its page, and tells the LSN that spoke against it.     *)
NeedsBackup(p) == doPageWrites[p] /\ pageLSN[p] <= redo[p]
fpw_lsn(p) == IF doPageWrites[p] /\ ~NeedsBackup(p) THEN pageLSN[p] ELSE Invalid

\* Mutant: a redo point that moved meanwhile goes unnoticed.
MustReassembleOnce(p) == ~doPageWrites[p]

(* Under an insertion lock the redo pointer stands still: a record that should      *)
(* have carried an image goes back to be assembled anew.                          *)
MustReassemble(p) ==
  \/ ~doPageWrites[p]
  \/ fpw_lsn(p) # Invalid /\ fpw_lsn(p) <= RedoRecPtr

Idle(p) == at[p] = "idle" /\ todo[p] # <<>>

(* WALInsertLockAcquire and the check of the redo pointer.  Who had to wait for a     *)
(* lock tries another one the next time.                                           *)
WALInsertLockBusy(p) ==
  /\ Idle(p) /\ ~Exclusive(p)
  /\ insertLock[lockNo[p]] # None
  /\ Goto(p, "lockWait")
  /\ UNCHANGED <<shared, results, pages, disk, locks, caller, todo, rec, mine, wait, rqst, records>>

WALInsertLockAcquire(p) ==
  /\ (Idle(p) /\ ~Exclusive(p)) \/ at[p] = "lockWait"
  /\ insertLock[lockNo[p]] = None
  /\ lockNo' = IF at[p] = "lockWait" THEN [lockNo EXCEPT ![p] = 1 + (@ % All)] ELSE lockNo
  /\ redo' = [redo EXCEPT ![p] = RedoRecPtr]
  /\ doPageWrites' = [doPageWrites EXCEPT ![p] = TRUE]
  /\ IF MustReassemble(p)
     THEN Goto(p, "idle") /\ UNCHANGED <<insertLock, rec>>
     ELSE /\ insertLock' = [insertLock EXCEPT ![lockNo[p]] = p]
          /\ rec' = [rec EXCEPT ![p] = [image |-> NeedsBackup(p)]]
          /\ Goto(p, "reserve")
  /\ UNCHANGED <<shared, results, pages, disk, insertingAt, WALBufMappingLock, WALWriteLock,
                 caller, todo, wait, rqst, records, LogwrtResult, cachedPage, pageLSN>>

\* Mutant: who waits for an insertion waits for who waits for the locks.
NotPassable(l) == insertingAt

(* All the locks, in order; who waits for an insertion passes over all but the    *)
(* last.                                                                        *)
Passable(l) == [insertingAt EXCEPT ![l] = IF l < All THEN MaxPtr ELSE @]

WALInsertLockAcquireExclusive(p) ==
  /\ (Idle(p) /\ Exclusive(p)) \/ at[p] = "lockAll"
  /\ LET l == Cardinality(Held(p)) + 1
     IN  /\ insertLock[l] = None
         /\ insertLock' = [insertLock EXCEPT ![l] = p]
         /\ insertingAt' = Passable(l)
         /\ Goto(p, IF l = All THEN "reserve" ELSE "lockAll")
  /\ rec' = [rec EXCEPT ![p] = [image |-> FALSE]]
  /\ UNCHANGED <<shared, results, pages, disk, WALBufMappingLock, WALWriteLock, caller, todo, mine, wait, rqst,
                 records>>

(* ReserveXLogInsertLocation                                                    *)
Reserve(p, endbytepos, endptr) ==
  LET start == XLogBytePosToRecPtr(CurrBytePos)
  IN  /\ CurrBytePos' = endbytepos
      /\ rec' = [rec EXCEPT ![p] = [start |-> start, end |-> endptr, curr |-> start, left |-> Job(p).len]]
      /\ records' = Append(records, [start |-> start, end |-> endptr, page |-> IF Exclusive(p) THEN None ELSE p,
                                     image |-> rec[p].image, acked |-> FALSE])
      /\ Goto(p, "buffer")

ReserveXLogInsertLocation(p) ==
  /\ at[p] = "reserve" /\ Job(p).kind # "switch"
  /\ LET e == CurrBytePos + Job(p).len
     IN  XLogBytePosToEndRecPtr(e) <= Horizon /\ Reserve(p, e, XLogBytePosToEndRecPtr(e))
  /\ IF Job(p).kind = "redo"
     THEN /\ RedoRecPtr' = XLogBytePosToRecPtr(CurrBytePos)
          /\ redo' = [redo EXCEPT ![p] = RedoRecPtr']
     ELSE UNCHANGED <<RedoRecPtr, redo>>
  /\ UNCHANGED <<results, pages, disk, locks, caller, todo, wait, rqst, LogwrtRqstWrite, asyncXactLSN,
                 lockNo, LogwrtResult, doPageWrites, cachedPage, pageLSN>>

(* ReserveXLogSwitch: the record takes the rest of the segment; at the start of   *)
(* one there is nothing to switch.                                              *)
ReserveXLogSwitch(p) ==
  /\ at[p] = "reserve" /\ Job(p).kind = "switch"
  /\ LET ptr == XLogBytePosToEndRecPtr(CurrBytePos)
         e   == XLogBytePosToEndRecPtr(CurrBytePos + Job(p).len)
         end == IF e % SegSize = 0 THEN e ELSE e - (e % SegSize) + SegSize
     IN  IF ptr % SegSize = 0
         THEN /\ rec' = [rec EXCEPT ![p] = [start |-> ptr, end |-> ptr, curr |-> ptr, left |-> 0]]
              /\ Goto(p, "release")
              /\ UNCHANGED <<CurrBytePos, records>>
         ELSE end <= Horizon /\ Reserve(p, XLogRecPtrToBytePos(end), end)
  /\ UNCHANGED <<results, pages, disk, locks, caller, todo, wait, rqst, mine,
                 RedoRecPtr, LogwrtRqstWrite, asyncXactLSN>>

(* --- GetXLogBuffer, CopyXLogRecordToWAL -------------------------------------- *)

\* Mutant: the header of a fresh page counts as copied.
WithHeader(ptr) == ptr

(* What is known to be copied when a backend asks for a page: if it is the first  *)
(* on the page, nothing of the page.                                            *)
InitializedPart(ptr) ==
  IF ptr % XLOG_BLCKSZ = HeaderSize(ptr) THEN PageBegin(ptr) ELSE ptr

(* WALInsertLockUpdateInsertingAt *)
UpdateInsertingAt(p, ptr) ==
  insertingAt' = [insertingAt EXCEPT ![Max(Held(p))] = ptr]

Mapped(ptr) == xlblocks[BufIdx(ptr)] = PageEnd(ptr)

GetXLogBuffer(p) ==
  /\ at[p] = "buffer"
  /\ \/ /\ PageOf(rec[p].curr) = cachedPage[p] \/ Mapped(rec[p].curr)
        /\ cachedPage' = [cachedPage EXCEPT ![p] = PageOf(rec[p].curr)]
        /\ Goto(p, "copy")
        /\ UNCHANGED <<insertingAt, caller>>
     \/ /\ PageOf(rec[p].curr) # cachedPage[p] /\ ~Mapped(rec[p].curr)
        /\ UpdateInsertingAt(p, InitializedPart(rec[p].curr))
        /\ caller' = [caller EXCEPT ![p] = "advance"]
        /\ Goto(p, "map")
        /\ UNCHANGED cachedPage
  /\ UNCHANGED <<shared, results, pages, disk, insertLock, WALBufMappingLock, WALWriteLock, todo, rec,
                 wait, rqst, records, lockNo, LogwrtResult, redo, doPageWrites, pageLSN>>

(* What goes on one page; after a switch the rest of the segment stays zero, page  *)
(* by page.                                                                     *)
Copy(p) ==
  /\ at[p] = "copy"
  /\ LET r    == rec[p]
         from == IF r.curr % XLOG_BLCKSZ = 0 THEN r.curr + HeaderSize(r.curr) ELSE r.curr
         n    == Smaller(r.left, PageEnd(r.curr) - from)
         left == r.left - n
         to   == IF left = 0 /\ Job(p).kind = "switch" THEN PageEnd(r.curr) ELSE from + n
     IN  /\ buffer' = [buffer EXCEPT ![cachedPage[p] % XLogBuffers] = @ \union from..(to - 1)]
         /\ rec' = [rec EXCEPT ![p].curr = to, ![p].left = left]
         /\ Goto(p, IF left > 0 \/ to < r.end THEN "buffer" ELSE "release")
  /\ UNCHANGED <<shared, results, InitializedUpTo, xlblocks, disk, locks, caller, todo, mine, wait, rqst, records>>

(* LWLockReleaseClearVar on one lock after the other. *)
WALInsertLockRelease(p) ==
  /\ at[p] = "release"
  /\ LET l == Min(Held(p))
     IN  /\ insertLock' = [insertLock EXCEPT ![l] = None]
         /\ insertingAt' = [insertingAt EXCEPT ![l] = Invalid]
  /\ Goto(p, IF Cardinality(Held(p)) = 1 THEN "inserted" ELSE "release")
  /\ UNCHANGED <<shared, results, pages, disk, WALBufMappingLock, WALWriteLock, caller, todo, rec, mine,
                 wait, rqst, records>>

(* The caller: an asynchronous commit leaves the record to the WAL writer.        *)
Inserted(p) ==
  /\ at[p] = "inserted"
  /\ LET crossed == PageOf(rec[p].start) # PageOf(rec[p].end)
     IN  /\ LogwrtRqstWrite' = IF crossed THEN Larger(LogwrtRqstWrite, rec[p].end) ELSE LogwrtRqstWrite
         /\ LogwrtResult' = IF crossed THEN [LogwrtResult EXCEPT ![p] = Refreshed] ELSE LogwrtResult
  /\ pageLSN' = IF Exclusive(p) THEN pageLSN ELSE [pageLSN EXCEPT ![p] = rec[p].end]
  /\ IF Job(p).kind \in {"sync", "switch"}
     THEN /\ Goto(p, "flush")
          /\ UNCHANGED <<todo, rec, asyncXactLSN>>
     ELSE /\ Goto(p, "idle")
          /\ todo' = [todo EXCEPT ![p] = Tail(@)]
          /\ rec' = [rec EXCEPT ![p] = None]
          /\ asyncXactLSN' = IF Job(p).kind = "async" THEN Larger(asyncXactLSN, rec[p].end) ELSE asyncXactLSN
  /\ UNCHANGED <<CurrBytePos, RedoRecPtr, results, pages, disk, locks, caller, wait, rqst, records,
                 lockNo, redo, doPageWrites, cachedPage>>

(* --- WaitXLogInsertionsToFinish ----------------------------------------------- *)

CallWait(p, upto) ==
  /\ wait' = [wait EXCEPT ![p] = [upto |-> upto]]
  /\ Goto(p, "wait")

(* Where the caller goes on, and with what: only XLogFlush looks at the result.    *)
AfterWait(p, result) ==
  /\ wait' = [wait EXCEPT ![p] = IF caller[p] = "flush" THEN [insertpos |-> result] ELSE None]
  /\ Goto(p, IF caller[p] = "flush" THEN "acquireOrWait" ELSE "writeLock")

(* The end of the reserved space is read before any lock is looked at: what is    *)
(* reserved later is not promised.                                              *)
WaitStart(p) ==
  /\ at[p] = "wait"
  /\ LET reserved == XLogBytePosToEndRecPtr(CurrBytePos)
     IN  IF wait[p].upto <= logInsertResult
         THEN AfterWait(p, logInsertResult)
         ELSE /\ wait' = [wait EXCEPT ![p] = [upto |-> Smaller(wait[p].upto, reserved),
                                             finished |-> reserved, lock |-> 1, value |-> Invalid]]
              /\ Goto(p, "waitVar")
  /\ UNCHANGED <<shared, results, pages, disk, locks, caller, todo, rec, mine, rqst, records>>

(* LWLockWaitForVar: sleep while the lock is held and its variable unchanged.      *)
ConflictsWithVar(l, value) == insertLock[l] # None /\ insertingAt[l] = value

WaitForVar(p) ==
  /\ at[p] = "waitVar" /\ wait[p].lock \in Locks
  /\ LET w == wait[p]
         v == insertingAt[w.lock]
     IN  /\ ~ConflictsWithVar(w.lock, w.value)
         /\ wait' = [wait EXCEPT ![p] =
              IF insertLock[w.lock] = None
              THEN [w EXCEPT !.lock = @ + 1, !.value = Invalid]
              ELSE IF v >= w.upto
              THEN [w EXCEPT !.lock = @ + 1, !.value = Invalid, !.finished = Smaller(@, v)]
              ELSE [w EXCEPT !.value = v]]
  /\ UNCHANGED <<shared, results, pages, disk, locks, at, caller, todo, rec, mine, rqst, records>>

\* Mutant: the end of the reserved space is read after the locks.
WaitEndLate(p) ==
  /\ at[p] = "waitVar" /\ wait[p].lock \notin Locks
  /\ logInsertResult' = Larger(logInsertResult, XLogBytePosToEndRecPtr(CurrBytePos))
  /\ AfterWait(p, logInsertResult')
  /\ UNCHANGED <<shared, logWriteResult, logFlushResult, pages, disk, locks, caller, todo, rec, mine, rqst, records>>

WaitEnd(p) ==
  /\ at[p] = "waitVar" /\ wait[p].lock \notin Locks
  /\ logInsertResult' = Larger(logInsertResult, wait[p].finished)
  /\ AfterWait(p, logInsertResult')
  /\ UNCHANGED <<shared, logWriteResult, logFlushResult, pages, disk, locks, caller, todo, rec, mine, rqst, records>>

(* --- AdvanceXLInsertBuffer ----------------------------------------------------- *)

MapLock(p) ==
  /\ at[p] = "map" /\ WALBufMappingLock = None
  /\ WALBufMappingLock' = p
  /\ Goto(p, "advance")
  /\ UNCHANGED <<shared, results, pages, disk, insertLock, insertingAt, WALWriteLock, caller, todo, rec, mine,
                 wait, rqst, records>>

Opportunistic(p) == p = WalWriter

\* Mutant: the page counts as written once its writing was asked for.
AskedFor(p, ptr) == ptr <= LogwrtRqstWrite

(* The page in the buffer that comes next, and whether it is known to be written.  *)
OldPageRqstPtr == xlblocks[BufIdx(InitializedUpTo)]
Written(p, ptr) == ptr <= LogwrtResult[p].write

InitializePage ==
  LET idx == BufIdx(InitializedUpTo)
  IN  /\ buffer' = [buffer EXCEPT ![idx] = InitializedUpTo..(InitializedUpTo + HeaderSize(InitializedUpTo) - 1)]
      /\ xlblocks' = [xlblocks EXCEPT ![idx] = InitializedUpTo + XLOG_BLCKSZ]
      /\ InitializedUpTo' = InitializedUpTo + XLOG_BLCKSZ

Advance(p) ==
  /\ at[p] = "advance"
  /\ LET more == IF Opportunistic(p) THEN TRUE ELSE rec[p].curr >= InitializedUpTo
         old  == OldPageRqstPtr
         ask  == Larger(LogwrtRqstWrite, old)
     IN  \/ /\ more /\ Written(p, old)
            /\ InitializedUpTo < Horizon
            /\ InitializePage
            /\ UNCHANGED <<LogwrtRqstWrite, LogwrtResult, WALBufMappingLock, at, caller, wait, rqst>>
         \/ /\ more /\ ~Written(p, old) /\ ~Opportunistic(p)
            /\ LogwrtRqstWrite' = ask
            /\ LogwrtResult' = [LogwrtResult EXCEPT ![p] = Refreshed]
            /\ IF old <= logWriteResult
               THEN UNCHANGED <<WALBufMappingLock, at, wait, rqst>>
               ELSE /\ WALBufMappingLock' = None
                    /\ rqst' = [rqst EXCEPT ![p] = [write |-> old, flush |-> Invalid, flexible |-> FALSE]]
                    /\ CallWait(p, old)
            /\ UNCHANGED <<pages, caller>>
         \/ /\ ~more \/ (Opportunistic(p) /\ ~(Written(p, old) /\ InitializedUpTo < Horizon))
            /\ WALBufMappingLock' = None
            /\ caller' = [caller EXCEPT ![p] = None]
            /\ Goto(p, IF Opportunistic(p) THEN "idle" ELSE "mapped")
            /\ UNCHANGED <<LogwrtRqstWrite, LogwrtResult, pages, wait, rqst>>
  /\ UNCHANGED <<CurrBytePos, RedoRecPtr, asyncXactLSN, results, disk, insertLock, insertingAt, WALWriteLock,
                 todo, rec, records, lockNo, redo, doPageWrites, cachedPage, pageLSN>>

(* GetXLogBuffer looks again, and panics if its page is still not there.          *)
LookAgain(p) ==
  /\ at[p] = "mapped"
  /\ IF Mapped(rec[p].curr)
     THEN /\ cachedPage' = [cachedPage EXCEPT ![p] = PageOf(rec[p].curr)]
          /\ Goto(p, "copy")
     ELSE Goto(p, "panic") /\ UNCHANGED cachedPage
  /\ UNCHANGED <<shared, results, pages, disk, locks, caller, todo, rec, wait, rqst, records,
                 lockNo, LogwrtResult, redo, doPageWrites, pageLSN>>

(* --- XLogWrite, under WALWriteLock --------------------------------------------- *)

(* AdvanceXLInsertBuffer and XLogBackgroundFlush wait for the lock and look at what *)
(* others have written meanwhile.                                                *)
TakeWriteLock(p) ==
  /\ at[p] = "writeLock" /\ WALWriteLock = None
  /\ LogwrtResult' = [LogwrtResult EXCEPT ![p] = Refreshed]
  /\ IF rqst[p].write > logWriteResult \/ rqst[p].flush > logFlushResult
     THEN WALWriteLock' = p /\ Goto(p, "write") /\ UNCHANGED rqst
     ELSE Goto(p, "map") /\ rqst' = [rqst EXCEPT ![p] = None] /\ UNCHANGED WALWriteLock
  /\ UNCHANGED <<shared, results, pages, disk, insertLock, insertingAt, WALBufMappingLock, caller, todo, rec,
                 wait, records, lockNo, redo, doPageWrites, cachedPage, pageLSN>>

(* A page as the buffer holds it now replaces the page in the file. *)
PageWritten(idx, end) ==
  LET range == (end - XLOG_BLCKSZ)..(end - 1)
  IN  (file \ range) \union (buffer[idx] \intersect range)

(* issue_xlog_fsync on the segment that holds ptr *)
Fsynced(content, ptr) == (synced \ Segment(ptr)) \union (content \intersect Segment(ptr))

(* One page.  A batch ends with the request, the ring of buffers or the segment,   *)
(* and the end of a segment is synced at once.                                   *)
WritePage(p) ==
  /\ at[p] = "write" /\ LogwrtResult[p].write < rqst[p].write
  /\ LET idx     == BufIdx(LogwrtResult[p].write)
         end     == xlblocks[idx]
         partial == rqst[p].write < end
         segEnd  == ~partial /\ end % SegSize = 0
         batch   == rqst[p].write <= end \/ idx = XLogBuffers - 1 \/ segEnd
     IN  IF end <= LogwrtResult[p].write
         THEN Goto(p, "panic") /\ UNCHANGED <<disk, LogwrtResult>>
         ELSE /\ file' = PageWritten(idx, end)
              /\ synced' = IF segEnd THEN Fsynced(file', end - 1) ELSE synced
              /\ LogwrtResult' = [LogwrtResult EXCEPT
                   ![p] = [write |-> Smaller(end, rqst[p].write), flush |-> IF segEnd THEN end ELSE @.flush]]
              /\ Goto(p, IF rqst[p].flexible /\ batch THEN "sync" ELSE "write")
  /\ UNCHANGED <<shared, results, pages, locks, caller, todo, rec, wait, rqst, records,
                 lockNo, redo, doPageWrites, cachedPage, pageLSN>>

SyncFile(p) ==
  /\ at[p] = "sync" \/ (at[p] = "write" /\ LogwrtResult[p].write >= rqst[p].write)
  /\ LET lw == LogwrtResult[p]
     IN  IF lw.flush < rqst[p].flush /\ lw.flush < lw.write
         THEN /\ synced' = Fsynced(file, lw.write - 1)
              /\ LogwrtResult' = [LogwrtResult EXCEPT ![p].flush = lw.write]
         ELSE UNCHANGED <<synced, LogwrtResult>>
  /\ Goto(p, "publishWrite")
  /\ UNCHANGED <<shared, results, pages, file, locks, caller, todo, rec, wait, rqst, records,
                 lockNo, redo, doPageWrites, cachedPage, pageLSN>>

(* logWriteResult is stored before logFlushResult. *)
PublishWrite(p) ==
  /\ at[p] = "publishWrite"
  /\ LogwrtRqstWrite' = Larger(LogwrtRqstWrite, LogwrtResult[p].write)
  /\ logWriteResult' = LogwrtResult[p].write
  /\ Goto(p, "publishFlush")
  /\ UNCHANGED <<CurrBytePos, RedoRecPtr, asyncXactLSN, logInsertResult, logFlushResult, pages, disk, locks,
                 caller, todo, rec, mine, wait, rqst, records>>

(* XLogFlush looks at how far it got before it returns. *)
FlushReturns(p, flush) ==
  IF flush < rec[p].end
  THEN Goto(p, "unsatisfied") /\ UNCHANGED <<caller, todo, rec, records>>
  ELSE /\ Goto(p, "idle")
       /\ caller' = [caller EXCEPT ![p] = None]
       /\ todo' = [todo EXCEPT ![p] = Tail(@)]
       /\ rec' = [rec EXCEPT ![p] = None]
       /\ records' = [i \in DOMAIN records |->
                        [records[i] EXCEPT !.acked = @ \/ records[i].start = rec[p].start]]

PublishFlush(p) ==
  /\ at[p] = "publishFlush"
  /\ logFlushResult' = LogwrtResult[p].flush
  /\ WALWriteLock' = None
  /\ rqst' = [rqst EXCEPT ![p] = None]
  /\ IF caller[p] = "flush"
     THEN FlushReturns(p, LogwrtResult[p].flush)
     ELSE Goto(p, "map") /\ UNCHANGED <<caller, todo, rec, records>>
  /\ UNCHANGED <<shared, logInsertResult, logWriteResult, pages, disk, insertLock, insertingAt,
                 WALBufMappingLock, mine, wait>>

(* --- XLogFlush ----------------------------------------------------------------- *)

XLogFlush(p) ==
  /\ at[p] = "flush"
  /\ IF rec[p].end <= LogwrtResult[p].flush
     THEN FlushReturns(p, LogwrtResult[p].flush) /\ UNCHANGED <<LogwrtResult, wait>>
     ELSE /\ LogwrtResult' = [LogwrtResult EXCEPT ![p] = Refreshed]
          /\ IF rec[p].end <= logFlushResult
             THEN FlushReturns(p, logFlushResult) /\ UNCHANGED wait
             ELSE /\ caller' = [caller EXCEPT ![p] = "flush"]
                  /\ CallWait(p, Larger(rec[p].end, LogwrtRqstWrite))
                  /\ UNCHANGED <<todo, rec, records>>
  /\ UNCHANGED <<shared, results, pages, disk, locks, rqst,
                 lockNo, redo, doPageWrites, cachedPage, pageLSN>>

(* LWLockAcquireOrWait: somebody who holds the lock may be writing for us too.     *)
AcquireOrWait(p) ==
  /\ \/ /\ at[p] = "acquireOrWait" /\ WALWriteLock = None
        /\ WALWriteLock' = p
        /\ Goto(p, "flushLocked")
     \/ /\ at[p] = "acquireOrWait" /\ WALWriteLock # None
        /\ Goto(p, "waitFree")
        /\ UNCHANGED WALWriteLock
     \/ /\ at[p] = "waitFree" /\ WALWriteLock = None
        /\ Goto(p, "flush")
        /\ UNCHANGED WALWriteLock
  /\ wait' = IF at[p] = "waitFree" THEN [wait EXCEPT ![p] = None] ELSE wait
  /\ UNCHANGED <<shared, results, pages, disk, insertLock, insertingAt, WALBufMappingLock, caller, todo, rec,
                 mine, rqst, records>>

(* With commit_delay the leader looks for insertions that have finished meanwhile. *)
FlushLocked(p) ==
  /\ at[p] = "flushLocked"
  /\ LogwrtResult' = [LogwrtResult EXCEPT ![p] = Refreshed]
  /\ IF rec[p].end <= logFlushResult
     THEN /\ WALWriteLock' = None
          /\ FlushReturns(p, logFlushResult)
          /\ UNCHANGED rqst
     ELSE /\ \E ptr \in {wait[p].insertpos, logInsertResult} :
               rqst' = [rqst EXCEPT ![p] = [write |-> ptr, flush |-> ptr, flexible |-> FALSE]]
          /\ Goto(p, "write")
          /\ UNCHANGED <<WALWriteLock, caller, todo, rec, records>>
  /\ wait' = [wait EXCEPT ![p] = None]
  /\ UNCHANGED <<shared, results, pages, disk, insertLock, insertingAt, WALBufMappingLock,
                 lockNo, redo, doPageWrites, cachedPage, pageLSN>>

(* --- XLogBackgroundFlush -------------------------------------------------------- *)

(* Whole pages if there are any, else up to the last asynchronous commit; whether   *)
(* it also flushes is a matter of pacing.                                        *)
XLogBackgroundFlush ==
  /\ at[WalWriter] = "idle" /\ todo[WalWriter] > 0
  /\ todo' = [todo EXCEPT ![WalWriter] = @ - 1]
  /\ LogwrtResult' = [LogwrtResult EXCEPT ![WalWriter] = Refreshed]
  /\ LET whole == PageBegin(LogwrtRqstWrite)
         ptr   == IF whole <= logFlushResult THEN asyncXactLSN ELSE whole
     IN  IF ptr <= logFlushResult
         THEN UNCHANGED <<at, caller, wait, rqst>>
         ELSE /\ \E flush \in {Invalid, ptr} :
                   rqst' = [rqst EXCEPT ![WalWriter] = [write |-> ptr, flush |-> flush,
                                                        flexible |-> whole > logFlushResult]]
              /\ caller' = [caller EXCEPT ![WalWriter] = "background"]
              /\ CallWait(WalWriter, ptr)
  /\ UNCHANGED <<shared, results, pages, disk, locks, rec, records,
                 lockNo, redo, doPageWrites, cachedPage, pageLSN>>

Done ==
  /\ \A p \in Procs : at[p] = "idle" /\ todo[p] = <<>>
  /\ at[WalWriter] = "idle" /\ todo[WalWriter] = 0
  /\ UNCHANGED vars

XLogInsertRecord(p) ==
  \/ WALInsertLockBusy(p) \/ WALInsertLockAcquire(p) \/ WALInsertLockAcquireExclusive(p)
  \/ ReserveXLogInsertLocation(p) \/ ReserveXLogSwitch(p) \/ GetXLogBuffer(p) \/ Copy(p)
  \/ LookAgain(p) \/ WALInsertLockRelease(p) \/ Inserted(p)
WaitXLogInsertionsToFinish(p) == WaitStart(p) \/ WaitForVar(p) \/ WaitEnd(p)
AdvanceXLInsertBuffer(p) == MapLock(p) \/ Advance(p)
XLogWrite(p) == TakeWriteLock(p) \/ WritePage(p) \/ SyncFile(p) \/ PublishWrite(p) \/ PublishFlush(p)

Next ==
  \/ \E p \in Procs : XLogInsertRecord(p) \/ XLogFlush(p) \/ AcquireOrWait(p) \/ FlushLocked(p)
  \/ \E p \in Everyone : WaitXLogInsertionsToFinish(p) \/ AdvanceXLInsertBuffer(p) \/ XLogWrite(p)
  \/ XLogBackgroundFlush
  \/ Done

Spec == Init /\ [][Next]_vars

(* --- Properties -------------------------------------------------------------- *)

(* Everything up to logFlushResult is safely on disk, everything up to            *)
(* logWriteResult in the files, and everything up to logInsertResult still in its  *)
(* buffer or already written: no half-copied record is called finished and no      *)
(* buffer page is taken over too early (WaitXLogInsertionsToFinish,               *)
(* AdvanceXLInsertBuffer, XLogWrite).                                            *)
WalIntact ==
  /\ 0..(logFlushResult - 1) \subseteq synced
  /\ 0..(logWriteResult - 1) \subseteq file
  /\ \A ptr \in logWriteResult..(logInsertResult - 1) : Mapped(ptr) /\ ptr \in buffer[BufIdx(ptr)]

(* None of the checks that end in PANIC or ERROR fails: a page asked for is there  *)
(* (GetXLogBuffer), a page to write is there (XLogWrite), a flush reached its      *)
(* record (XLogFlush).                                                           *)
NoPanic == \A p \in Everyone : at[p] \notin {"panic", "unsatisfied"}

Blocks(q, p) ==
  \/ at[p] = "lockWait" /\ insertLock[lockNo[p]] = q
  \/ at[p] = "lockAll" /\ insertLock[Cardinality(Held(p)) + 1] = q
  \/ at[p] = "waitVar" /\ wait[p].lock \in Locks /\ insertLock[wait[p].lock] = q
       /\ ConflictsWithVar(wait[p].lock, wait[p].value)
  \/ at[p] = "map" /\ WALBufMappingLock = q
  \/ at[p] \in {"writeLock", "waitFree"} /\ WALWriteLock = q

(* Inserters that wait for a buffer, flushers that wait for inserters and those    *)
(* who take all insertion locks never wait in a circle, nor anyone for itself.     *)
NoWaitCycle ==
  \A S \in (SUBSET Everyone) \ {{}} : \E p \in S : \A q \in S : ~Blocks(q, p)

(* After a checkpoint's redo point the first record of every data page carries an  *)
(* image of it, however long ago the record was assembled.                       *)
ImagesComplete ==
  \A i \in DOMAIN records :
    /\ records[i].page # None
    /\ records[i].start >= RedoRecPtr
    /\ \A j \in 1..(i - 1) : records[j].page = records[i].page => records[j].start < RedoRecPtr
    => records[i].image

(* The log keeps what Wal promises, read as the records whose every unit is synced. *)
SyncedRecords ==
  Cardinality({i \in DOMAIN records : \A j \in 1..i : records[j].start..(records[j].end - 1) \subseteq synced})

Log == INSTANCE Wal WITH
  Record  <- 0..Horizon,
  log     <- [i \in DOMAIN records |-> records[i].end],
  durable <- SyncedRecords,
  acked   <- {i \in DOMAIN records : records[i].acked}

ImplementsWal == Log!WalSpec
=============================================================================
