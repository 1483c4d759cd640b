----------------------------- MODULE Durability ------------------------------
(* Commits, checkpoints and crashes.  Backends insert a tuple each and commit or    *)
(* abort; the checkpointer moves the redo point; the background writer writes the   *)
(* data page; a crash takes all but the durable part of the log and of the files,   *)
(* and the startup process replays the log from the last redo point.  The log is    *)
(* Wal's: records by number, of which a flush makes a prefix durable.               *)
EXTENDS Wal, Slru, HeapPage

CONSTANTS
  Backends, Checkpointer, BgWriter, Startup,
  Plans   \* bound: nextXid at the start, what each backend does, one after the other, and
          \* how many checkpoints, writes, failures and crashes there are

ASSUME DurabilityConstants ==
  /\ \A plan \in Plans : plan.nextXid \in Xids \ {0} /\ plan.todo \in [Backends -> Seq(STRING)]
  /\ Checkpointer # BgWriter /\ BgWriter # Startup /\ Startup # Checkpointer
  /\ \A p \in {Checkpointer, BgWriter, Startup, None, NoOne} : p \notin Backends
  /\ \A p \in {Checkpointer, BgWriter, Startup} : p # None /\ p # NoOne
  /\ None \notin {"sync", "async", "abort", "scan", "stray"}
  /\ \A pg \in Pages : None \notin [On(pg) -> {"inProgress", "committed", "aborted"}]

VARIABLES
  nextXid, XidGenLock,
  delayChkpt,       \* backends with DELAY_CHKPT_START
  controlFile,      \* redo, nextXid
  checkPoint,       \* the checkpoint being made: redo, nextXid, pages of pg_xact to visit
  replay,           \* the record to replay next
  at, todo,
  my,               \* a process's transaction: kind, xid, LSN of its last record, status read
  io,               \* the page of pg_xact a process writes or reads, and where it goes on
  left              \* what is left of the bounds

xactVars == <<nextXid, XidGenLock, delayChkpt>>
ckptVars == <<controlFile, checkPoint>>
vars == <<walVars, slruVars, heapVars, xactVars, ckptVars, replay, at, todo, my, io, left>>

Everyone == Backends \union {Checkpointer, BgWriter, Startup}
Up == at[Startup] = "idle"
HeapTag == -1  \* the data file, among the files with a sync request
Goto(p, s) == at' = [at EXCEPT ![p] = s]
Log(kind, x) == Insert([kind |-> kind, xid |-> x])

Idle == [p \in Everyone |-> "idle"]
NoXact == [p \in Everyone |-> [kind |-> None, xid |-> None, lsn |-> 0, status |-> None]]
NoIO == [p \in Everyone |-> [page |-> None, back |-> None]]

(* After a clean start: the transactions below plan.nextXid committed, one of their      *)
(* tuples is on the page, and the redo point is at the end.                            *)
InitialPage(pg, next) ==
  IF \E x \in On(pg) : x < next
  THEN [x \in On(pg) |-> IF x < next THEN "committed" ELSE "inProgress"]
  ELSE None

InitFrom(plan) ==
  /\ log = [i \in 1..plan.nextXid |-> [kind |-> "commit", xid |-> i - 1]]
  /\ durable = Len(log) /\ acked = {}
  /\ slot = [pg \in Pages |-> Empty(pg)]
  /\ latestPage = TransactionIdToPage(plan.nextXid)
  /\ xactFile = [pg \in Pages |-> InitialPage(pg, plan.nextXid)]
  /\ xactKept = [pg \in Pages |-> {xactFile[pg]}]
  /\ pending = {}
  /\ page = [tuples |-> {0}, committed |-> {}, invalid |-> {}, strays |-> {}, strayCommitted |-> {}, strayInvalid |-> {},
             lsn |-> 0]
  /\ header = CleanHeader /\ exclusive = NoOne /\ sharers = {}
  /\ heapFile = page /\ heapKept = {page}
  /\ nextXid = plan.nextXid /\ XidGenLock = None /\ delayChkpt = {}
  /\ controlFile = [redo |-> Len(log) + 1, nextXid |-> nextXid]
  /\ checkPoint = None
  /\ replay = 0
  /\ at = Idle
  /\ todo = plan.todo /\ left = plan.left
  /\ my = NoXact
  /\ io = NoIO

Init == \E plan \in Plans : InitFrom(plan)

\* Mutant: the last record is taken for flushed.
XLogFlushBefore(lsn) == IF lsn - 1 <= durable THEN UNCHANGED walVars ELSE Sync(Len(log))

(* XLogFlush at least up to lsn: whoever writes the log writes all there is.         *)
XLogFlush(lsn) == IF lsn <= durable THEN UNCHANGED walVars ELSE Sync(Len(log))

(* --- I/O on pg_xact, by whoever needs the page ---------------------------------- *)

(* SimpleLruReadPage up to the point where the page can be used: read it in, or make *)
(* room for it, or wait for another's I/O, which is taken over if that one failed.   *)
StartWriting(p, pg, back) ==
  /\ WriteStart(p, pg)
  /\ XLogFlush(slot[pg].lsn)
  /\ io' = [io EXCEPT ![p] = [page |-> pg, back |-> back]]
  /\ Goto(p, "xactWrite")

FetchPage(p, pg) ==
  /\ \/ /\ ReadStart(p, pg)
        /\ io' = [io EXCEPT ![p] = [page |-> pg, back |-> at[p]]]
        /\ Goto(p, "xactRead")
        /\ UNCHANGED walVars
     \/ \E v \in InTheWay(pg) : StartWriting(p, v, at[p])
     \/ \E v \in InTheWay(pg) \union {pg} : AbandonedIO(v) /\ Repair(v) /\ UNCHANGED <<walVars, io, at>>
  /\ UNCHANGED <<latestPage, xactFile, xactKept, pending>>

(* Where there is nothing to read it is an error, except that recovery takes a file      *)
(* that is missing for zeroes.                                                       *)
SlruPhysicalReadPage(p) ==
  /\ at[p] = "xactRead"
  /\ LET pg == io[p].page
     IN  IF xactFile[pg] # None
         THEN Goto(p, io[p].back) /\ slot' = PageRead(pg, xactFile[pg])
         ELSE \/ Goto(p, "failed") /\ UNCHANGED slot
              \/ ~Up /\ Goto(p, io[p].back) /\ slot' = PageRead(pg, Zeroes(pg))
  /\ io' = [io EXCEPT ![p] = NoIO[p]]
  /\ UNCHANGED <<walVars, latestPage, xactFile, xactKept, pending, heapVars, xactVars, ckptVars, replay, todo, my, left>>

SlruWrite(p) ==
  /\ at[p] = "xactWrite"
  /\ PhysicalWrite(io[p].page)
  /\ Goto(p, "xactWritten")
  /\ UNCHANGED <<walVars, slot, latestPage, pending, heapVars, xactVars, ckptVars, replay, todo, my, io, left>>

SlruWritten(p) ==
  /\ at[p] = "xactWritten"
  /\ WriteEnd(io[p].page)
  /\ Goto(p, io[p].back)
  /\ io' = [io EXCEPT ![p] = NoIO[p]]
  /\ UNCHANGED <<walVars, latestPage, xactFile, xactKept, heapVars, xactVars, ckptVars, replay, todo, my, left>>

(* An I/O error ends a checkpoint, which is tried again later.  In a critical section  *)
(* it is a crash.                                                                  *)
SlruWriteFailed ==
  /\ at[Checkpointer] = "xactWrite" /\ left.failures > 0 /\ Up
  /\ WriteFails(io[Checkpointer].page)
  /\ Goto(Checkpointer, "idle")
  /\ io' = [io EXCEPT ![Checkpointer] = NoIO[Checkpointer]]
  /\ left' = [left EXCEPT !.failures = @ - 1, !.checkpoints = @ + 1]
  /\ checkPoint' = None
  /\ UNCHANGED <<walVars, latestPage, xactFile, xactKept, pending, heapVars, xactVars, controlFile, replay, todo, my>>

(* --- Transactions ------------------------------------------------------------- *)

(* The next thing b does, if it is one of the kinds.  *)
Starts(b, kinds) == Up /\ at[b] = "idle" /\ todo[b] # <<>> /\ Head(todo[b]) \in kinds
Updates == {"sync", "async", "abort"}

(* GetNewTransactionId: the first id of a page of pg_xact zeroes and logs the page,  *)
(* under XidGenLock, before the id is anyone's.                                     *)
ExtendCLOG(b) ==
  /\ Starts(b, Updates) /\ FirstOnPage(nextXid) /\ nextXid <= MaxXid
  /\ XidGenLock \in {None, b}
  /\ XidGenLock' = b
  /\ LET pg == TransactionIdToPage(nextXid)
     IN  \/ /\ SimpleLruZeroPage(pg)
            /\ Log("zero", pg)
            /\ Goto(b, "extended")
            /\ UNCHANGED <<xactFile, xactKept, pending, io>>
         \/ /\ \E v \in InTheWay(pg) :
                 \/ StartWriting(b, v, "idle")
                 \/ AbandonedIO(v) /\ Repair(v) /\ UNCHANGED <<walVars, io, at>>
            /\ UNCHANGED <<latestPage, xactFile, xactKept, pending>>
  /\ UNCHANGED <<heapVars, nextXid, delayChkpt, ckptVars, replay, todo, my, left>>

GetNewTransactionId(b) ==
  /\ \/ at[b] = "extended"
     \/ Starts(b, Updates) /\ XidGenLock = None /\ ~FirstOnPage(nextXid) /\ nextXid <= MaxXid
  /\ todo' = [todo EXCEPT ![b] = Tail(@)]
  /\ nextXid' = nextXid + 1
  /\ XidGenLock' = None
  /\ my' = [my EXCEPT ![b].kind = Head(todo[b]), ![b].xid = nextXid]
  /\ Goto(b, "insert")
  /\ UNCHANGED <<walVars, slruVars, heapVars, delayChkpt, ckptVars, replay, io, left>>

(* heap_insert *)
InsertTuple(b) ==
  /\ at[b] = "insert"
  /\ PutTuple(b, my[b].xid)
  /\ Goto(b, "logInsert")
  /\ UNCHANGED <<walVars, slruVars, xactVars, ckptVars, replay, todo, my, io, left>>

LogInsert(b) ==
  /\ at[b] = "logInsert"
  /\ Log("insert", my[b].xid)
  /\ Stamp(Len(log) + 1)
  /\ Goto(b, "end")
  /\ UNCHANGED <<slruVars, xactVars, ckptVars, replay, todo, my, io, left>>

(* heap_insert fails between the change of the page and the record of it, and the         *)
(* transaction aborts.  The lock is held from the change to the abort, so that nobody      *)
(* tells this from a single step.                                                       *)
InsertFails(b) ==
  /\ at[b] = "insert" /\ left.failures > 0
  /\ LeaveStray(my[b].xid)
  /\ left' = [left EXCEPT !.failures = @ - 1]
  /\ my' = [my EXCEPT ![b].kind = "abort"]
  /\ Goto(b, "end")
  /\ UNCHANGED <<walVars, slruVars, xactVars, ckptVars, replay, todo, io>>

(* RecordTransactionCommit forces a checkpoint to wait until pg_xact is updated;     *)
(* RecordTransactionAbort does not.                                               *)
LogEnd(b) ==
  /\ at[b] = "end"
  /\ Log(IF my[b].kind = "abort" THEN "abort" ELSE "commit", my[b].xid)
  /\ my' = [my EXCEPT ![b].lsn = Len(log) + 1]
  /\ delayChkpt' = IF my[b].kind = "abort" THEN delayChkpt ELSE delayChkpt \union {b}
  /\ Goto(b, IF my[b].kind = "sync" THEN "flush" ELSE "setStatus")
  /\ UNCHANGED <<slruVars, heapVars, nextXid, XidGenLock, ckptVars, replay, todo, io, left>>

FlushCommit(b) ==
  /\ at[b] = "flush"
  /\ XLogFlush(my[b].lsn)
  /\ Goto(b, "setStatus")
  /\ UNCHANGED <<slruVars, heapVars, xactVars, ckptVars, replay, todo, my, io, left>>

\* Mutant: everybody may scribble on a page that is being written.
WriteAlwaysOk(p) == TRUE

(* TransactionIdSetPageStatusInternal: an asynchronous commit does not touch a page   *)
(* that is being written, for the log may not have been flushed far enough.          *)
WriteOk(p) == my[p].kind # "async"

NewStatus(p) == IF my[p].kind = "abort" THEN "aborted" ELSE "committed"

TransactionIdSetStatus(p) ==
  /\ at[p] = "setStatus"
  /\ LET pg == TransactionIdToPage(my[p].xid)
     IN  IF Usable(pg, WriteOk(p))
         THEN /\ slot' = SetStatusBit(slot, my[p].xid, NewStatus(p), IF my[p].kind = "async" THEN my[p].lsn ELSE 0)
              /\ Goto(p, IF p = Startup THEN "replay" ELSE "done")
              /\ UNCHANGED <<walVars, latestPage, xactFile, xactKept, pending, io>>
         ELSE FetchPage(p, pg)
  /\ UNCHANGED <<heapVars, xactVars, ckptVars, replay, todo, my, left>>

(* The checkpoint need not wait any longer, the transaction leaves the process array *)
(* and a synchronous one tells its client.                                         *)
EndTransaction(b) ==
  /\ at[b] = "done"
  /\ acked' = IF my[b].kind = "sync" THEN acked \union {my[b].lsn} ELSE acked
  /\ delayChkpt' = delayChkpt \ {b}
  /\ my' = [my EXCEPT ![b] = NoXact[b]]
  /\ Goto(b, "idle")
  /\ UNCHANGED <<log, durable, slruVars, heapVars, nextXid, XidGenLock, ckptVars, replay, todo, io, left>>

Running == {my[b].xid : b \in {c \in Backends : my[c].kind \in Updates}}

(* TransactionIdIsInProgress: an id beyond those that have ended counts as running. *)
InProgress(x) == x >= nextXid \/ x \in Running

(* --- A visibility check that leaves a hint ------------------------------------- *)

Unhinted(kind) ==
  IF kind = "scan" THEN page.tuples \ (page.committed \union page.invalid)
                   ELSE page.strays \ (page.strayCommitted \union page.strayInvalid)

Scan(b) ==
  /\ Starts(b, {"scan"})
  /\ todo' = [todo EXCEPT ![b] = Tail(@)]
  /\ LockShared(b)
  /\ \E kind \in {"scan", "stray"} : \E x \in Unhinted(kind) :
       /\ ~InProgress(x)
       /\ my' = [my EXCEPT ![b].kind = kind, ![b].xid = x]
  /\ Goto(b, "getStatus")
  /\ UNCHANGED <<walVars, slruVars, page, header, exclusive, heapFile, heapKept, xactVars, ckptVars, replay, io, left>>

ScanNothing(b) ==
  /\ Starts(b, {"scan"}) /\ \A x \in Unhinted("scan") \union Unhinted("stray") : InProgress(x)
  /\ todo' = [todo EXCEPT ![b] = Tail(@)]
  /\ UNCHANGED <<walVars, slruVars, heapVars, xactVars, ckptVars, replay, at, my, io, left>>

TransactionIdGetStatus(b) ==
  /\ at[b] = "getStatus"
  /\ LET pg == TransactionIdToPage(my[b].xid)
     IN  IF Usable(pg, TRUE)
         THEN /\ my' = [my EXCEPT ![b].status = slot[pg].bits[my[b].xid], ![b].lsn = slot[pg].lsn]
              /\ Goto(b, "hint")
              /\ UNCHANGED <<walVars, slruVars, io>>
         ELSE FetchPage(b, pg) /\ UNCHANGED my
  /\ UNCHANGED <<heapVars, xactVars, ckptVars, replay, todo, left>>

\* Mutant: the hint is set whether or not the commit is on disk.
HintAlwaysSafe(b) == TRUE

(* SetHintBits: the commit is on disk, or the log is flushed that far before the page  *)
(* is written.                                                                     *)
HintSafe(b) ==
  \/ my[b].status # "committed"
  \/ my[b].lsn <= durable
  \/ page.lsn >= my[b].lsn

HintBit(b) ==
  IF my[b].status = "committed" THEN (IF my[b].kind = "scan" THEN "committed" ELSE "strayCommitted")
                                ELSE (IF my[b].kind = "scan" THEN "invalid" ELSE "strayInvalid")

SetHintBits(b) ==
  /\ at[b] = "hint"
  /\ IF HintSafe(b)
     THEN /\ Hint(HintBit(b), my[b].xid)
          /\ Goto(b, "markDirty")
          /\ UNCHANGED <<sharers, my>>
     ELSE /\ sharers' = sharers \ {b}
          /\ my' = [my EXCEPT ![b] = NoXact[b]]
          /\ Goto(b, "idle")
          /\ UNCHANGED page
  /\ UNCHANGED <<walVars, slruVars, header, exclusive, heapFile, heapKept, xactVars, ckptVars, replay, todo, io, left>>

MarkBufferDirtyHint(b) ==
  /\ at[b] = "markDirty"
  /\ header' = Dirtied(header)
  /\ sharers' = sharers \ {b}
  /\ my' = [my EXCEPT ![b] = NoXact[b]]
  /\ Goto(b, "idle")
  /\ UNCHANGED <<walVars, slruVars, page, exclusive, heapFile, heapKept, xactVars, ckptVars, replay, todo, io, left>>

(* --- FlushBuffer, by the background writer and the checkpointer ------------------ *)

(* The page's LSN is read as the I/O starts, and the log is flushed up to it.        *)
FlushBuffer(p) ==
  /\ StartBufferIO(p)
  /\ XLogFlush(page.lsn)
  /\ Goto(p, "heapWrite")

BgWrite ==
  /\ at[BgWriter] = "idle" /\ left.writes > 0
  /\ FlushBuffer(BgWriter)
  /\ left' = [left EXCEPT !.writes = @ - 1]
  /\ UNCHANGED <<slruVars, xactVars, ckptVars, replay, todo, my, io>>

HeapWrite(p) ==
  /\ at[p] = "heapWrite"
  /\ smgrwrite
  /\ pending' = pending \union {HeapTag}
  /\ Goto(p, "heapWritten")
  /\ UNCHANGED <<walVars, slot, latestPage, xactFile, xactKept, xactVars, ckptVars, replay, todo, my, io, left>>

HeapWritten(p) ==
  /\ at[p] = "heapWritten"
  /\ TerminateBufferIO(p, TRUE)
  /\ Goto(p, IF p = BgWriter THEN "idle" ELSE "ckSync")
  /\ UNCHANGED <<walVars, slruVars, xactVars, ckptVars, replay, todo, my, io, left>>

HeapWriteFailed ==
  /\ at[Checkpointer] = "heapWrite" /\ left.failures > 0 /\ Up
  /\ TerminateBufferIO(Checkpointer, FALSE)
  /\ Goto(Checkpointer, "idle")
  /\ left' = [left EXCEPT !.failures = @ - 1, !.checkpoints = @ + 1]
  /\ checkPoint' = None
  /\ UNCHANGED <<walVars, slruVars, xactVars, controlFile, replay, todo, my, io>>

(* --- CreateCheckPoint ----------------------------------------------------------- *)

(* The redo point is a record of its own; at the end of recovery, when nobody else     *)
(* writes to the log, it is the checkpoint's own record.                            *)
CkptRedo ==
  /\ Up /\ at[Checkpointer] = "idle" /\ left.checkpoints > 0
  /\ left' = [left EXCEPT !.checkpoints = @ - 1]
  /\ Log("redo", None)
  /\ checkPoint' = [redo |-> Len(log) + 1, nextXid |-> 0, record |-> 0, pages |-> Pages]
  /\ Goto(Checkpointer, "ckNextXid")
  /\ UNCHANGED <<slruVars, heapVars, xactVars, controlFile, replay, todo, my, io>>

CkptNextXid ==
  /\ at[Checkpointer] = "ckNextXid" /\ XidGenLock = None
  /\ checkPoint' = [checkPoint EXCEPT !.nextXid = nextXid]
  /\ Goto(Checkpointer, "ckDelay")
  /\ UNCHANGED <<walVars, slruVars, heapVars, xactVars, controlFile, replay, todo, my, io, left>>

\* Mutant: the checkpoint does not wait for transactions between their commit record and pg_xact.
NobodyAsked == TRUE

(* wait_for_delay_chkpt waits until no transaction is between its commit record and    *)
(* its mark in pg_xact.                                                             *)
NobodyDelays == delayChkpt = {}

CkptDelay ==
  /\ at[Checkpointer] = "ckDelay" /\ NobodyDelays
  /\ Goto(Checkpointer, "ckXact")
  /\ UNCHANGED <<walVars, slruVars, heapVars, xactVars, ckptVars, replay, todo, my, io, left>>

(* CheckPointCLOG: SimpleLruWriteAll goes over the slots; a page that someone else is   *)
(* writing is waited for, and looked at again.                                      *)
CheckPointCLOG ==
  /\ at[Checkpointer] = "ckXact" /\ checkPoint.pages # {}
  /\ LET pg == CHOOSE v \in checkPoint.pages : \A w \in checkPoint.pages : v <= w
     IN  \/ /\ StartWriting(Checkpointer, pg, "ckXact")
            /\ UNCHANGED checkPoint
         \/ /\ AbandonedIO(pg) /\ Repair(pg)
            /\ UNCHANGED <<walVars, io, at, checkPoint>>
         \/ /\ slot[pg].status \in {"empty", "reading"} \/ (slot[pg].status = "valid" /\ ~slot[pg].dirty)
            /\ checkPoint' = [checkPoint EXCEPT !.pages = @ \ {pg}]
            /\ UNCHANGED <<walVars, slot, io, at>>
  /\ UNCHANGED <<latestPage, xactFile, xactKept, pending, heapVars, xactVars, controlFile, replay, todo, my, left>>

(* BufferSync marks the buffers that are dirty, then writes those still marked.       *)
BufferSync ==
  /\ at[Checkpointer] = "ckXact" /\ checkPoint.pages = {}
  /\ header' = [header EXCEPT !.needed = header.dirty]
  /\ Goto(Checkpointer, "ckBuffer")
  /\ UNCHANGED <<walVars, slruVars, page, exclusive, sharers, heapFile, heapKept, xactVars, ckptVars, replay, todo,
                 my, io, left>>

SyncOneBuffer ==
  /\ at[Checkpointer] = "ckBuffer"
  /\ \/ /\ header.needed
        /\ FlushBuffer(Checkpointer)
     \/ /\ ~header.needed \/ ~header.dirty
        /\ Goto(Checkpointer, "ckSync")
        /\ UNCHANGED <<walVars, heapVars>>
  /\ UNCHANGED <<slruVars, xactVars, ckptVars, replay, todo, my, io, left>>

ProcessSyncRequests ==
  /\ at[Checkpointer] = "ckSync"
  /\ xactKept' = [pg \in Pages |-> IF pg \in pending THEN {xactFile[pg]} ELSE xactKept[pg]]
  /\ heapKept' = IF HeapTag \in pending THEN {heapFile} ELSE heapKept
  /\ pending' = {}
  /\ Goto(Checkpointer, "ckRecord")
  /\ UNCHANGED <<walVars, slot, latestPage, xactFile, page, header, exclusive, sharers, heapFile, xactVars, ckptVars,
                 replay, todo, my, io, left>>

CkptRecord ==
  /\ at[Checkpointer] = "ckRecord"
  /\ Log("checkpoint", checkPoint.nextXid)
  /\ checkPoint' = [checkPoint EXCEPT !.record = Len(log) + 1]
  /\ Goto(Checkpointer, "ckControl")
  /\ UNCHANGED <<slruVars, heapVars, xactVars, controlFile, replay, todo, my, io, left>>

\* Mutant: replay begins at the checkpoint record.
ControlFileAtRecord == [redo |-> checkPoint.record, nextXid |-> checkPoint.nextXid]

NewControlFile == [redo |-> checkPoint.redo, nextXid |-> checkPoint.nextXid]

(* The record is flushed before the control file says so; after the checkpoint that       *)
(* ends recovery the server is up.                                                   *)
UpdateControlFile ==
  /\ at[Checkpointer] = "ckControl"
  /\ XLogFlush(checkPoint.record)
  /\ controlFile' = NewControlFile
  /\ checkPoint' = None
  /\ at' = [at EXCEPT ![Checkpointer] = "idle", ![Startup] = "idle"]
  /\ UNCHANGED <<slruVars, heapVars, xactVars, replay, todo, my, io, left>>

(* --- Crash and recovery --------------------------------------------------------- *)

(* Of the log any part beyond what is durable may have reached the disk.  StartupXLOG   *)
(* syncs the data directory, so what it reads stays, and begins at the control file's   *)
(* redo point with its nextXid.                                                     *)
Crash ==
  /\ left.crashes > 0
  /\ left' = [left EXCEPT !.crashes = @ - 1]
  /\ \E n \in durable..Len(log) : Lose(n)
  /\ SlruCrash /\ latestPage' = TransactionIdToPage(controlFile.nextXid)
  /\ HeapCrash
  /\ nextXid' = controlFile.nextXid /\ XidGenLock' = None /\ delayChkpt' = {}
  /\ checkPoint' = None
  /\ replay' = controlFile.redo
  /\ at' = [Idle EXCEPT ![Startup] = "replay"]
  /\ my' = NoXact
  /\ io' = NoIO
  /\ UNCHANGED <<controlFile, todo>>

\* Mutant: off by one.
AdvanceNextXidTo(x) == Larger(nextXid, x)

AdvanceNextXidPast(x) == Larger(nextXid, x + 1)

(* One record: the rmgr's redo routine.  The status of a transaction is set as by a     *)
(* synchronous commit; a zeroed page of pg_xact is written at once.                   *)
ApplyWalRecord ==
  /\ at[Startup] = "replay" /\ replay <= Len(log)
  /\ replay' = replay + 1
  /\ LET r == log[replay]
     IN  \/ /\ r.kind = "insert"
            /\ RedoInsert(r.xid, replay)
            /\ nextXid' = AdvanceNextXidPast(r.xid)
            /\ UNCHANGED <<slot, latestPage, my, at>>
         \/ /\ r.kind \in {"commit", "abort"}
            /\ nextXid' = AdvanceNextXidPast(r.xid)
            /\ my' = [my EXCEPT ![Startup].kind = r.kind, ![Startup].xid = r.xid]
            /\ Goto(Startup, "setStatus")
            /\ UNCHANGED <<slot, latestPage, heapVars>>
         \/ /\ r.kind = "zero"
            /\ SimpleLruZeroPage(r.xid)
            /\ my' = [my EXCEPT ![Startup].xid = r.xid]
            /\ Goto(Startup, "writeZeroes")
            /\ UNCHANGED <<nextXid, heapVars>>
         \/ /\ r.kind \in {"redo", "checkpoint"}
            /\ nextXid' = IF r.kind = "checkpoint" THEN Larger(nextXid, r.xid) ELSE nextXid
            /\ UNCHANGED <<slot, latestPage, heapVars, my, at>>
  /\ UNCHANGED <<walVars, xactFile, xactKept, pending, XidGenLock, delayChkpt, ckptVars, todo, io, left>>

(* Room for a page that is zeroed, and the page written after it. *)
RedoZeroPage ==
  /\ \/ /\ at[Startup] = "replay" /\ replay <= Len(log) /\ log[replay].kind = "zero"
        /\ \E v \in InTheWay(log[replay].xid) : StartWriting(Startup, v, "replay")
     \/ /\ at[Startup] = "writeZeroes"
        /\ StartWriting(Startup, my[Startup].xid, "replay")
  /\ UNCHANGED <<latestPage, xactFile, xactKept, pending, heapVars, xactVars, ckptVars, replay, todo, my, left>>

\* Mutant: the page is left as the log's last owner had it.
TrimNothing == slot

(* TrimCLOG clears what an earlier life may have left beyond nextXid on its page; the   *)
(* checkpoint that ends recovery follows.                                           *)
TrimmedSlots == Trimmed(slot, nextXid)

TrimCLOG ==
  /\ at[Startup] = "replay" /\ replay > Len(log)
  /\ LET pg == TransactionIdToPage(nextXid)
         toCheckpoint ==
           /\ at' = [at EXCEPT ![Startup] = "recovered", ![Checkpointer] = "ckNextXid"]
           /\ checkPoint' = [redo |-> Len(log) + 1, nextXid |-> 0, record |-> 0, pages |-> Pages]
           /\ UNCHANGED <<walVars, latestPage, xactFile, xactKept, pending, io>>
     IN  \/ FirstOnPage(nextXid) /\ toCheckpoint /\ UNCHANGED slot
         \/ ~FirstOnPage(nextXid) /\ Usable(pg, FALSE) /\ toCheckpoint /\ slot' = TrimmedSlots
         \/ ~FirstOnPage(nextXid) /\ ~Usable(pg, FALSE) /\ FetchPage(Startup, pg) /\ UNCHANGED checkPoint
  /\ UNCHANGED <<heapVars, xactVars, controlFile, replay, todo, my, left>>

Done ==
  /\ Up /\ \A b \in Backends : at[b] = "idle" /\ todo[b] = <<>>
  /\ at[Checkpointer] = "idle" /\ at[BgWriter] = "idle"
  /\ UNCHANGED vars

TransactionStep(b) ==
  \/ ExtendCLOG(b) \/ GetNewTransactionId(b) \/ InsertTuple(b) \/ InsertFails(b) \/ LogInsert(b) \/ LogEnd(b)
  \/ FlushCommit(b) \/ EndTransaction(b)
  \/ Scan(b) \/ ScanNothing(b) \/ TransactionIdGetStatus(b) \/ SetHintBits(b) \/ MarkBufferDirtyHint(b)

CreateCheckPoint ==
  \/ CkptRedo \/ CkptNextXid \/ CkptDelay \/ CheckPointCLOG \/ BufferSync \/ SyncOneBuffer
  \/ ProcessSyncRequests \/ CkptRecord \/ UpdateControlFile

Next ==
  \/ \E b \in Backends : TransactionStep(b)
  \/ \E p \in Backends \union {Startup} : TransactionIdSetStatus(p) \/ SlruPhysicalReadPage(p)
  \/ \E p \in Everyone \ {BgWriter} : SlruWrite(p) \/ SlruWritten(p)
  \/ BgWrite \/ CreateCheckPoint \/ SlruWriteFailed \/ HeapWriteFailed
  \/ \E p \in {BgWriter, Checkpointer} : HeapWrite(p) \/ HeapWritten(p)
  \/ Crash \/ ApplyWalRecord \/ RedoZeroPage \/ TrimCLOG
  \/ Done

Spec == Init /\ [][Next]_vars

(* --- Properties -------------------------------------------------------------- *)

Records(kind, n) == {log[i].xid : i \in {j \in 1..n : log[j].kind = kind}}
Committed == Records("commit", Len(log))

(* While the server is up, pg_xact says of a transaction that has ended that it        *)
(* committed exactly if its commit record is in the log, whichever checkpoints,        *)
(* evictions and crashes came between (RecordTransactionCommit, CheckPointCLOG,        *)
(* SlruInternalWritePage, redo).                                                    *)
CommitsKept ==
  Up => \A x \in Xids \ Running : (StatusOf(x) = "committed") <=> (x \in Committed)

(* A commit that was answered is never lost: its record is durable, no crash puts another   *)
(* in its place, and whenever the server is up again pg_xact says committed                 *)
(* (RecordTransactionCommit flushes before the answer; redo, checkpoints).                 *)
AnsweredDurable ==
  \A n \in acked : /\ n <= durable /\ log[n].kind = "commit"
                   /\ Up => StatusOf(log[n].xid) = "committed"

(* While the server is up, the data page has every tuple whose insertion is in the     *)
(* log: the checkpoint wrote what replay from its redo point does not bring back.       *)
HeapKept == Up => Records("insert", Len(log)) \subseteq page.tuples

(* A commit shows in a file of pg_xact, and a tuple in the data file unless its insertion *)
(* failed, only once the record of it is durable (SlruPhysicalWritePage, FlushBuffer,       *)
(* asynchronous commit).                                                                *)
WalBeforeData ==
  /\ \A pg \in Pages : \A bits \in xactKept[pg] : bits # None =>
       \A x \in On(pg) : bits[x] = "committed" => x \in Records("commit", durable)
  /\ \A c \in heapKept : c.tuples \subseteq Records("insert", durable) \union {0}

(* A hint that says committed, be it of a stray, reaches the data file only once a commit   *)
(* of that id is durable, and agrees with pg_xact; a hint that says invalid does so unless  *)
(* the tuple is a stray, whose id may have been given again (SetHintBits).                 *)
HintsTrue ==
  /\ \A c \in heapKept : c.committed \union c.strayCommitted \subseteq Records("commit", durable)
  /\ Up => /\ page.committed \union page.strayCommitted \subseteq Committed
            /\ page.invalid \intersect Committed = {}

(* Once recovery is over no transaction id is assigned again that is in the log's records  *)
(* of insertions, or on the data page by an insertion that did not fail (CreateCheckPoint   *)
(* reads nextXid after the redo point, redo advances it).                                 *)
XidsFresh ==
  Up => \A x \in Records("insert", Len(log)) \union UNION {c.tuples : c \in heapKept} : x < nextXid

(* A tuple whose inserter aborted is never found committed.  The code breaks it where the     *)
(* tuple has no record and a crash takes the abort's: the id is given again, and commits.     *)
AbortedNeverVisible == page.strayCommitted = {}

(* The assertion in TransactionIdSetStatusBit: a status is set on a transaction that has  *)
(* none, or the same again; and no page is read that was never written.                 *)
StatusOnce ==
  \A p \in Everyone :
    /\ at[p] # "failed"
    /\ at[p] = "setStatus" => StatusOf(my[p].xid) \in {"inProgress", NewStatus(p)}
=============================================================================
