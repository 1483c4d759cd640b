-------------------------- MODULE DurabilityProofs ---------------------------
(* WAL before data, and the data page after a crash, for any number of backends,   *)
(* transactions, pages of pg_xact, slots, checkpoints and crashes.                 *)
EXTENDS Durability, SequenceTheorems, WellFoundedInduction, TLAPS

(* --- What a step does ---------------------------------------------------------- *)

(* The steps of Next with their alternatives taken apart, and without what no         *)
(* property depends on.  I/O on pg_xact begins in several places in the same way.     *)
Backs == {"idle", "setStatus", "getStatus", "replay", "ckXact"}
AllButIO == <<xactFile, xactKept, pending, page, header, exclusive, sharers, heapFile, heapKept, nextXid, delayChkpt,
              controlFile, checkPoint, replay, todo, my>>
TakesXidGenLock == XidGenLock' = XidGenLock \/ (Up /\ XidGenLock \in {None, XidGenLock'})

Wants(p, pg) ==
  \/ at[p] \in {"setStatus", "getStatus"} /\ pg = TransactionIdToPage(my[p].xid)
  \/ p = Startup /\ at[p] = "replay" /\ replay > Len(log) /\ ~FirstOnPage(nextXid) /\ pg = TransactionIdToPage(nextXid)

BeginRead(p, pg) ==
  /\ Wants(p, pg)
  /\ ReadStart(p, pg)
  /\ io' = [io EXCEPT ![p] = [page |-> pg, back |-> at[p]]]
  /\ Goto(p, "xactRead")
  /\ TakesXidGenLock
  /\ UNCHANGED <<log, durable, AllButIO>>

BeginWrite(p, pg, back) ==
  /\ \/ at[p] \in {"setStatus", "getStatus", "replay", "ckXact"} /\ back = at[p]
     \/ p \in Backends /\ at[p] = "idle" /\ back = at[p] /\ Up
     \/ p = Startup /\ at[p] = "writeZeroes" /\ back = "replay" /\ pg = my[p].xid
  /\ WriteStart(p, pg)
  /\ XLogFlush(slot[pg].lsn)
  /\ io' = [io EXCEPT ![p] = [page |-> pg, back |-> back]]
  /\ Goto(p, "xactWrite")
  /\ TakesXidGenLock
  /\ UNCHANGED AllButIO

TakeOver(pg) ==
  /\ AbandonedIO(pg) /\ Repair(pg)
  /\ TakesXidGenLock
  /\ UNCHANGED <<log, durable, AllButIO, at, io>>

ZeroNext(b) ==
  /\ Starts(b, Updates) /\ FirstOnPage(nextXid) /\ nextXid <= MaxXid
  /\ XidGenLock \in {None, b} /\ XidGenLock' = b
  /\ SimpleLruZeroPage(TransactionIdToPage(nextXid))
  /\ Log("zero", TransactionIdToPage(nextXid))
  /\ Goto(b, "extended")
  /\ UNCHANGED <<AllButIO, io>>

SetBit(p) ==
  /\ at[p] = "setStatus" /\ Usable(TransactionIdToPage(my[p].xid), WriteOk(p))
  /\ slot' = SetStatusBit(slot, my[p].xid, NewStatus(p), IF my[p].kind = "async" THEN my[p].lsn ELSE 0)
  /\ Goto(p, IF p = Startup THEN "replay" ELSE "done")
  /\ UNCHANGED <<log, durable, AllButIO, XidGenLock, io>>

ReadBit(b) ==
  /\ at[b] = "getStatus" /\ Usable(TransactionIdToPage(my[b].xid), TRUE)
  /\ my' = [my EXCEPT ![b].status = slot[TransactionIdToPage(my[b].xid)].bits[my[b].xid],
                      ![b].lsn = slot[TransactionIdToPage(my[b].xid)].lsn]
  /\ Goto(b, "hint")
  /\ UNCHANGED <<log, durable, slruVars, heapVars, xactVars, ckptVars, replay, todo, io>>

BeginFlush(p) ==
  /\ (p = BgWriter /\ at[p] = "idle") \/ (p = Checkpointer /\ at[p] = "ckBuffer")
  /\ FlushBuffer(p)
  /\ UNCHANGED <<slruVars, xactVars, ckptVars, replay, todo, my, io>>

SkipPage(pg) ==
  /\ at[Checkpointer] = "ckXact"
  /\ slot[pg].status \in {"empty", "reading"} \/ (slot[pg].status = "valid" /\ ~slot[pg].dirty)
  /\ checkPoint' = [checkPoint EXCEPT !.pages = @ \ {pg}]
  /\ UNCHANGED <<log, durable, slruVars, heapVars, xactVars, controlFile, replay, at, todo, my, io>>

SkipBuffer ==
  /\ at[Checkpointer] = "ckBuffer" /\ (~header.needed \/ ~header.dirty)
  /\ Goto(Checkpointer, "ckSync")
  /\ UNCHANGED <<log, durable, slruVars, heapVars, xactVars, ckptVars, replay, todo, my, io>>

Redo(kinds) ==
  /\ at[Startup] = "replay" /\ replay <= Len(log) /\ log[replay].kind \in kinds
  /\ replay' = replay + 1
  /\ UNCHANGED <<log, durable, xactFile, xactKept, pending, XidGenLock, delayChkpt, controlFile, checkPoint, todo, io>>

RedoTuple ==
  /\ Redo({"insert"})
  /\ RedoInsert(log[replay].xid, replay)
  /\ nextXid' = AdvanceNextXidPast(log[replay].xid)
  /\ UNCHANGED <<slot, my, at>>

RedoEnd ==
  /\ Redo({"commit", "abort"})
  /\ nextXid' = AdvanceNextXidPast(log[replay].xid)
  /\ my' = [my EXCEPT ![Startup].kind = log[replay].kind, ![Startup].xid = log[replay].xid]
  /\ Goto(Startup, "setStatus")
  /\ UNCHANGED <<slot, heapVars>>

RedoZero ==
  /\ Redo({"zero"})
  /\ SimpleLruZeroPage(log[replay].xid)
  /\ my' = [my EXCEPT ![Startup].xid = log[replay].xid]
  /\ Goto(Startup, "writeZeroes")
  /\ UNCHANGED <<nextXid, heapVars>>

RedoOther ==
  /\ Redo({"redo", "checkpoint"})
  /\ nextXid' = IF log[replay].kind = "checkpoint" THEN Larger(nextXid, log[replay].xid) ELSE nextXid
  /\ UNCHANGED <<slot, heapVars, my, at>>

EndReplay ==
  /\ at[Startup] = "replay" /\ replay > Len(log)
  /\ \/ FirstOnPage(nextXid) /\ UNCHANGED slot
     \/ ~FirstOnPage(nextXid) /\ Usable(TransactionIdToPage(nextXid), FALSE) /\ slot' = TrimmedSlots
  /\ at' = [at EXCEPT ![Startup] = "recovered", ![Checkpointer] = "ckNextXid"]
  /\ checkPoint' = [redo |-> Len(log) + 1, nextXid |-> 0, record |-> 0, pages |-> Pages]
  /\ UNCHANGED <<log, durable, xactFile, xactKept, pending, heapVars, xactVars, controlFile, replay, todo, my, io>>

Nothing ==
  UNCHANGED <<log, durable, slot, xactFile, xactKept, pending, heapVars, xactVars, ckptVars, replay, at, todo, my, io>>

BackendMove(b) ==
  \/ ZeroNext(b) \/ GetNewTransactionId(b) \/ InsertTuple(b) \/ InsertFails(b) \/ LogInsert(b) \/ LogEnd(b)
  \/ FlushCommit(b) \/ EndTransaction(b) \/ Scan(b) \/ ScanNothing(b) \/ ReadBit(b) \/ SetHintBits(b) \/ MarkBufferDirtyHint(b)

CheckpointerMove ==
  \/ CkptRedo \/ CkptNextXid \/ CkptDelay \/ (\E pg \in checkPoint.pages : SkipPage(pg)) \/ BufferSync \/ SkipBuffer
  \/ ProcessSyncRequests \/ CkptRecord \/ UpdateControlFile \/ SlruWriteFailed \/ HeapWriteFailed

StartupMove == RedoTuple \/ RedoEnd \/ RedoZero \/ RedoOther \/ EndReplay

SharedMove ==
  \/ \E p \in Backends \union {Startup} :
       SetBit(p) \/ SlruPhysicalReadPage(p) \/ (\E pg \in Pages : BeginRead(p, pg))
  \/ \E p \in Everyone \ {BgWriter} :
       SlruWrite(p) \/ SlruWritten(p) \/ (\E pg \in Pages, back \in Backs : BeginWrite(p, pg, back))
  \/ \E pg \in Pages : TakeOver(pg)
  \/ \E p \in {BgWriter, Checkpointer} : BeginFlush(p) \/ HeapWrite(p) \/ HeapWritten(p)

Move == (\E b \in Backends : BackendMove(b)) \/ SharedMove \/ CheckpointerMove \/ StartupMove \/ Crash \/ Nothing

(* --- The state of every process ------------------------------------------------ *)

Status == {"inProgress", "committed", "aborted"}
RecordKinds == {"insert", "commit", "abort", "zero", "redo", "checkpoint"}
Ending == {"commit", "abort"}
Traces == {"insert", "commit", "abort"}  \* the records that name a transaction
NextXids == 0..(MaxXid + 1)
Ids == Nat \union {None}

LogOK ==
  /\ log \in Seq([kind : RecordKinds, xid : Ids])
  /\ durable \in 0..Len(log)
  /\ \A i \in 1..Len(log) :
       /\ log[i].kind \in Traces => log[i].xid \in Xids
       /\ log[i].kind = "zero" => log[i].xid \in Pages
       /\ log[i].kind = "checkpoint" => log[i].xid \in NextXids

SlotType ==
  [status : {"empty", "reading", "valid", "writing"}, dirty : BOOLEAN, bits : UNION {[On(pg) -> Status] : pg \in Pages},
   lsn : Nat, io : Everyone \union {None}]

SlotOK ==
  /\ slot \in [Pages -> SlotType]
  /\ \A pg \in Pages : slot[pg].bits \in [On(pg) -> Status]

FilesOK ==
  /\ DOMAIN xactFile = Pages /\ DOMAIN xactKept = Pages
  /\ \A pg \in Pages :
       /\ xactFile[pg] \in xactKept[pg]
       /\ xactKept[pg] \subseteq [On(pg) -> Status] \union {None}

Content ==
  [tuples : SUBSET Xids, committed : SUBSET Xids, invalid : SUBSET Xids, strays : SUBSET Xids, strayCommitted : SUBSET Xids,
   strayInvalid : SUBSET Xids, lsn : Nat]

HeapOK ==
  /\ page \in Content
  /\ heapKept \subseteq Content /\ heapFile \in heapKept
  /\ header \in [dirty : BOOLEAN, just : BOOLEAN, needed : BOOLEAN, io : Everyone \union {NoOne}]

(* Where a process is, and where it returns after I/O on pg_xact. *)
IOStates == {"xactRead", "xactWrite", "xactWritten"}
BackendStates ==
  {"idle", "extended", "insert", "logInsert", "end", "flush", "setStatus", "done", "getStatus", "hint", "markDirty",
   "failed"} \union IOStates
CkptStates ==
  {"ckNextXid", "ckDelay", "ckXact", "ckBuffer", "heapWrite", "heapWritten", "ckSync", "ckRecord", "ckControl",
   "xactWrite", "xactWritten"}
StartupStates == {"idle", "recovered", "replay", "setStatus", "writeZeroes", "failed"} \union IOStates

AtOK ==
  /\ at \in [Everyone -> BackendStates \union CkptStates \union StartupStates]
  /\ \A b \in Backends : at[b] \in BackendStates
  /\ at[Checkpointer] \in CkptStates \union {"idle"}
  /\ at[BgWriter] \in {"idle", "heapWrite", "heapWritten"}
  /\ at[Startup] \in StartupStates

IOOK ==
  /\ io \in [Everyone -> [page : Ids, back : Backs \union {None}]]
  /\ \A p \in Everyone : at[p] \in IOStates =>
       /\ io[p].page \in Pages
       /\ p \in Backends => io[p].back \in {"idle", "setStatus", "getStatus"}
       /\ p = Checkpointer => io[p].back = "ckXact"
       /\ p = Startup => io[p].back \in {"setStatus", "replay"}

(* The phase of a process leaves out the I/O in between. *)
Phase(p) == IF at[p] \in IOStates THEN io[p].back ELSE at[p]

Kinds == {"sync", "async", "abort", "scan", "stray", "commit", None}
Lookups == {"scan", "stray"}  \* of a tuple's inserter
MyType == [kind : Kinds, xid : Ids, lsn : Nat, status : Status \union {None}]

(* What a backend's transaction is in each phase: its commit record is in the log once    *)
(* it is there, and on disk if it waited for that.                                     *)
XactOK(b) ==
  /\ Phase(b) \in {"idle", "extended"} => my[b].kind = None
  /\ Phase(b) \in {"insert", "logInsert", "end", "flush", "setStatus", "done"} => my[b].kind \in Updates
  /\ Phase(b) \in {"getStatus", "hint", "markDirty"} => my[b].kind \in Lookups
  /\ Phase(b) = "flush" => my[b].kind = "sync"
  /\ my[b].kind \in Updates => my[b].xid \in Xids
  /\ my[b].kind \in Lookups => my[b].xid \in Xids
  /\ my[b].kind = "scan" => my[b].xid \in page.tuples

MyOK ==
  /\ my \in [Everyone -> MyType]
  /\ \A b \in Backends : XactOK(b)

LoggedBy(b) ==
  /\ Phase(b) \in {"flush", "setStatus", "done"} /\ my[b].kind # "abort" =>
       /\ my[b].lsn \in 1..Len(log)
       /\ log[my[b].lsn].kind = "commit" /\ log[my[b].lsn].xid = my[b].xid
  /\ Phase(b) \in {"setStatus", "done"} /\ my[b].kind = "sync" => my[b].lsn <= durable

CommitLogged == \A b \in Backends : LoggedBy(b)

Replaying == at[Startup] \notin {"idle", "recovered"}

(* While the server is not up nobody but the startup process runs, then the checkpointer. *)
StartupOK ==
  /\ at[Startup] # "idle" => \A b \in Backends : at[b] = "idle"
  /\ Replaying => at[Checkpointer] = "idle" /\ durable = Len(log) /\ replay \in 1..(Len(log) + 1)
  /\ at[Startup] = "recovered" => at[Checkpointer] # "idle"
  /\ Phase(Startup) = "setStatus" =>
       /\ replay > 1 /\ my[Startup].kind \in Ending
       /\ log[replay - 1].kind = my[Startup].kind /\ log[replay - 1].xid = my[Startup].xid
  /\ at[Startup] = "writeZeroes" =>
       replay > 1 /\ log[replay - 1].kind = "zero" /\ log[replay - 1].xid = my[Startup].xid

CheckpointOK ==
  /\ controlFile \in [redo : Nat, nextXid : NextXids] /\ controlFile.redo \in 1..(durable + 1)
  /\ at[Checkpointer] # "idle" =>
       /\ checkPoint \in [redo : Nat, nextXid : NextXids, record : Nat, pages : SUBSET Pages]
       /\ checkPoint.redo \in 1..(Len(log) + 1)
  /\ at[Checkpointer] = "ckControl" => checkPoint.record \in checkPoint.redo..Len(log)

XidGenOK ==
  /\ nextXid \in NextXids
  /\ todo \in [Backends -> Seq(STRING)]
  /\ at[Startup] # "idle" => XidGenLock = None
  /\ \A b \in Backends : at[b] = "extended" =>
       /\ XidGenLock = b
       /\ FirstOnPage(nextXid) /\ nextXid \in Xids
       /\ todo[b] # <<>> /\ Head(todo[b]) \in Updates

(* One process at a time does I/O on a page of pg_xact, and it holds the buffer lock.  *)
BufferLockOK ==
  \A p \in Everyone :
    /\ at[p] \in {"xactWrite", "xactWritten"} => slot[io[p].page].status = "writing" /\ slot[io[p].page].io = p
    /\ at[p] = "xactRead" => slot[io[p].page].status = "reading" /\ slot[io[p].page].io = p

(* Nobody changes the data page while it is written. *)
ContentLockOK ==
  /\ \A b \in Backends : at[b] = "logInsert" => exclusive = b
  /\ exclusive # NoOne => sharers = {}
  /\ \A p \in {Checkpointer, BgWriter} : at[p] \in {"heapWrite", "heapWritten"} => p \in sharers

ControlInv ==
  /\ LogOK /\ SlotOK /\ FilesOK /\ HeapOK /\ AtOK /\ IOOK /\ MyOK /\ CommitLogged
  /\ StartupOK /\ CheckpointOK /\ XidGenOK /\ ContentLockOK

(* --- Lemmas about pages ---------------------------------------------------------- *)

(* x \div k, by what it is to x. *)
LEMMA DivMod ==
  ASSUME NEW x \in Nat, NEW k \in Nat \ {0}
  PROVE  /\ x \div k \in Nat /\ x % k \in Nat /\ x % k < k
         /\ x = k * (x \div k) + (x % k)
OBVIOUS

(* Larger multiples, of larger factors. *)
LEMMA ProductMonotone ==
  ASSUME NEW k \in Nat \ {0}, NEW a \in Nat, NEW c \in Nat, a < c
  PROVE  k * a + k <= k * c
OBVIOUS

(* Every transaction id is on a page of pg_xact, which is its page. *)
LEMMA PageOfXid ==
  /\ Pages \subseteq Nat /\ Xids \subseteq Nat
  /\ \A x \in Xids : TransactionIdToPage(x) \in Pages /\ x \in On(TransactionIdToPage(x))
  /\ \A pg \in Pages : On(pg) \subseteq Xids /\ \A x \in On(pg) : TransactionIdToPage(x) = pg
<1>1. Xids \subseteq Nat
  BY SlruConstants DEF Xids
<1>2. \A x \in Xids : TransactionIdToPage(x) \in Nat
  BY <1>1, DivMod, SlruConstants DEF TransactionIdToPage
<1> QED BY <1>1, <1>2 DEF Pages, On

(* The first id of a page is its least, and the id before one that is not the first is on   *)
(* the same page.                                                                        *)
LEMMA FirstIsLeast ==
  ASSUME NEW n \in Nat
  PROVE  /\ FirstOnPage(n) => \A x \in On(TransactionIdToPage(n)) : n <= x
         /\ ~FirstOnPage(n) => n > 0 /\ TransactionIdToPage(n - 1) = TransactionIdToPage(n)
<1>0. XactsPerPage \in Nat \ {0}
  BY SlruConstants
<1> DEFINE k == XactsPerPage
           a == n \div k
<1>1. k \in Nat \ {0} /\ a \in Nat /\ n % k \in Nat /\ n % k < k /\ n = k * a + (n % k)
  BY <1>0, DivMod
<1>2. ASSUME n % k = 0, NEW x \in Nat, x \div k = a
      PROVE  n <= x
  <2>1. x % k \in Nat /\ x = k * a + (x % k)
    BY <1>1, <1>2, DivMod
  <2> QED BY <2>1, <1>1, <1>2
<1>3. ASSUME n % k # 0
      PROVE  n > 0 /\ (n - 1) \div k = a
  <2>1. n > 0 /\ n - 1 \in Nat
    BY <1>1, <1>3
  <2> DEFINE c == (n - 1) \div k
  <2>2. c \in Nat /\ (n - 1) % k \in Nat /\ (n - 1) % k < k /\ n - 1 = k * c + ((n - 1) % k)
    BY <1>1, <2>1, DivMod
  <2>3. k * a \in Nat /\ k * c \in Nat
    BY <1>1, <2>2
  <2>4. ~ (a < c)
    <3> SUFFICES ASSUME a < c PROVE FALSE
      OBVIOUS
    <3>1. k * a + k <= k * c
      BY <1>1, <2>2, ProductMonotone
    <3> HIDE DEF a, c, k
    <3> QED BY <3>1, <2>2, <2>3, <1>1
  <2>5. ~ (c < a)
    <3> SUFFICES ASSUME c < a PROVE FALSE
      OBVIOUS
    <3>1. k * c + k <= k * a
      BY <1>1, <2>2, ProductMonotone
    <3> HIDE DEF a, c, k
    <3> QED BY <3>1, <2>2, <2>3, <1>1, <1>3
  <2> QED BY <2>1, <2>2, <2>4, <2>5, <1>1
<1> QED BY <1>2, <1>3, PageOfXid DEF FirstOnPage, TransactionIdToPage, On, Xids

(* Where the next id is not the first of its page, the page has an id already assigned. *)
LEMMA NextPage ==
  ASSUME NEW n \in NextXids, ~FirstOnPage(n)
  PROVE  /\ TransactionIdToPage(n) \in Pages
         /\ n > 0 /\ n - 1 \in On(TransactionIdToPage(n))
<1>1. n \in Nat /\ n <= MaxXid + 1 /\ MaxXid \in Nat
  BY SlruConstants DEF NextXids
<1>2. n > 0 /\ TransactionIdToPage(n - 1) = TransactionIdToPage(n)
  BY <1>1, FirstIsLeast
<1>3. n - 1 \in Xids
  BY <1>1, <1>2 DEF Xids
<1> QED BY <1>2, <1>3, PageOfXid

(* Who sets or reads a status does so for a transaction. *)
LEMMA XidToMark ==
  ASSUME ControlInv, NEW p \in Backends \union {Startup}, at[p] \in {"setStatus", "getStatus"}
  PROVE  my[p].xid \in Xids
<1>1. CASE p \in Backends /\ at[p] = "setStatus"
  BY <1>1 DEF ControlInv, MyOK, XactOK, Phase, IOStates
<1>2. CASE p \in Backends /\ at[p] = "getStatus"
  BY <1>2 DEF ControlInv, MyOK, XactOK, Phase, IOStates, HeapOK, Content
<1>3. CASE p = Startup /\ at[p] = "setStatus"
  <2>1. replay > 1 /\ replay \in 1..(Len(log) + 1) /\ Len(log) \in Nat
        /\ log[replay - 1].kind \in Ending /\ log[replay - 1].xid = my[p].xid
    BY <1>3 DEF ControlInv, StartupOK, Phase, IOStates, Replaying, LogOK
  <2>2. replay - 1 \in 1..Len(log)
    BY <2>1
  <2> QED BY <2>1, <2>2 DEF ControlInv, LogOK, Ending, Traces
<1>4. p = Startup => at[p] # "getStatus"
  BY DEF ControlInv, AtOK, StartupStates, IOStates
<1> QED BY <1>1, <1>2, <1>3, <1>4

(* The page of pg_xact a process asks for is one of the pages. *)
LEMMA WantedPage ==
  ASSUME ControlInv, NEW p \in Backends \union {Startup}, NEW pg, Wants(p, pg)
  PROVE  pg \in Pages
<1>1. CASE at[p] \in {"setStatus", "getStatus"} /\ pg = TransactionIdToPage(my[p].xid)
  BY <1>1, XidToMark, PageOfXid
<1>2. CASE ~FirstOnPage(nextXid) /\ pg = TransactionIdToPage(nextXid)
  BY <1>2, NextPage DEF ControlInv, XidGenOK
<1> QED BY <1>1, <1>2 DEF Wants

(* The checkpointer visits the pages one after the other. *)
LEMMA LeastPage ==
  ASSUME NEW S \in SUBSET Pages, S # {}
  PROVE  (CHOOSE v \in S : \A w \in S : v <= w) \in S
<1>1. S \subseteq Nat
  BY PageOfXid
<1>2. PICK v \in S : \A w \in S : ~(<<w, v>> \in OpToRel(<, Nat))
  BY <1>1, NatLessThanWellFounded, WFMin
<1>3. \A w \in S : ~(w < v)
  BY <1>1, <1>2 DEF OpToRel
<1>4. \A w \in S : v <= w
  BY <1>1, <1>3
<1> QED BY <1>4

(* Asking for a page of pg_xact begins to read it, or to write another one for room, or     *)
(* takes over an I/O that failed.                                                       *)
LEMMA FetchMoves ==
  ASSUME ControlInv, NEW p \in Backends \union {Startup}, NEW pg, Wants(p, pg), FetchPage(p, pg),
         UNCHANGED <<heapVars, xactVars, controlFile, checkPoint, replay, todo, my>>
  PROVE  SharedMove
<1>1. pg \in Pages
  BY WantedPage
<1>2. InTheWay(pg) \subseteq Pages
  BY DEF InTheWay, Resident
<1>3. at[p] \in {"setStatus", "getStatus", "replay"} /\ at[p] \in Backs
  BY DEF Wants, Backs
<1>4. p \in Everyone \ {BgWriter}
  BY DurabilityConstants DEF Everyone
<1>5. UNCHANGED AllButIO /\ UNCHANGED XidGenLock
  BY DEF FetchPage, heapVars, xactVars, AllButIO
<1>6. CASE ReadStart(p, pg) /\ io' = [io EXCEPT ![p] = [page |-> pg, back |-> at[p]]]
           /\ Goto(p, "xactRead") /\ UNCHANGED walVars
  <2>1. BeginRead(p, pg)
    BY <1>5, <1>6 DEF BeginRead, walVars, TakesXidGenLock
  <2> QED BY <2>1, <1>1 DEF SharedMove
<1>7. CASE \E v \in InTheWay(pg) : StartWriting(p, v, at[p])
  <2>1. PICK v \in Pages : StartWriting(p, v, at[p])
    BY <1>7, <1>2
  <2>2. BeginWrite(p, v, at[p])
    BY <2>1, <1>3, <1>5 DEF StartWriting, BeginWrite, TakesXidGenLock
  <2> QED BY <2>2, <1>3, <1>4 DEF SharedMove
<1>8. CASE \E v \in InTheWay(pg) \union {pg} : AbandonedIO(v) /\ Repair(v) /\ UNCHANGED <<walVars, io, at>>
  <2>1. PICK v \in Pages : AbandonedIO(v) /\ Repair(v) /\ UNCHANGED <<walVars, io, at>>
    BY <1>8, <1>1, <1>2
  <2>2. TakeOver(v)
    BY <2>1, <1>5 DEF TakeOver, TakesXidGenLock, walVars
  <2> QED BY <2>2 DEF SharedMove
<1> QED BY <1>6, <1>7, <1>8 DEF FetchPage

(* Every step of the specification is one of the moves. *)
LEMMA Moves == ControlInv /\ [Next]_vars => Move
<1> SUFFICES ASSUME ControlInv, [Next]_vars PROVE Move
  OBVIOUS
<1>0. UNCHANGED vars => Nothing
  BY DEF vars, walVars, slruVars, ckptVars, Nothing
<1>1. ASSUME NEW b \in Backends, TransactionStep(b) PROVE Move
  <2>0. b \in Everyone \ {BgWriter} /\ b \in Backends \union {Startup}
    BY DurabilityConstants DEF Everyone
  <2>1. CASE ExtendCLOG(b)
    <3> DEFINE pg == TransactionIdToPage(nextXid)
    <3>1. UNCHANGED <<heapVars, nextXid, delayChkpt, controlFile, checkPoint, replay, todo, my>> /\ XidGenLock' = b
          /\ XidGenLock \in {None, b} /\ Up /\ at[b] = "idle"
      BY <2>1 DEF ExtendCLOG, ckptVars, Starts
    <3>2. CASE SimpleLruZeroPage(pg) /\ Log("zero", pg) /\ Goto(b, "extended") /\ UNCHANGED <<xactFile, xactKept, pending, io>>
      <4>1. ZeroNext(b)
        BY <2>1, <3>1, <3>2 DEF ZeroNext, ExtendCLOG, AllButIO, heapVars
      <4> QED BY <4>1 DEF Move, BackendMove
    <3>3. CASE /\ \E v \in InTheWay(pg) :
                   \/ StartWriting(b, v, "idle")
                   \/ AbandonedIO(v) /\ Repair(v) /\ UNCHANGED <<walVars, io, at>>
               /\ UNCHANGED <<latestPage, xactFile, xactKept, pending>>
      <4>0. PICK v \in InTheWay(pg) :
                 StartWriting(b, v, "idle") \/ (AbandonedIO(v) /\ Repair(v) /\ UNCHANGED <<walVars, io, at>>)
        BY <3>3
      <4>1. v \in Pages
        BY DEF InTheWay, Resident
      <4>2. UNCHANGED AllButIO /\ TakesXidGenLock
        BY <3>1, <3>3 DEF AllButIO, heapVars, TakesXidGenLock
      <4>3. CASE StartWriting(b, v, "idle")
        <5>1. BeginWrite(b, v, "idle")
          BY <4>2, <4>3, <3>1 DEF StartWriting, BeginWrite
        <5> QED BY <5>1, <4>1, <2>0 DEF Move, SharedMove, Backs
      <4>4. CASE AbandonedIO(v) /\ Repair(v) /\ UNCHANGED <<walVars, io, at>>
        BY <4>1, <4>2, <4>4 DEF TakeOver, walVars, Move, SharedMove
      <4> QED BY <4>0, <4>3, <4>4
    <3> QED BY <2>1, <3>2, <3>3 DEF ExtendCLOG
  <2>2. CASE TransactionIdGetStatus(b)
    <3> DEFINE pg == TransactionIdToPage(my[b].xid)
    <3>1. CASE Usable(pg, TRUE)
      <4>1. ReadBit(b)
        BY <2>2, <3>1 DEF TransactionIdGetStatus, ReadBit, walVars
      <4> QED BY <4>1 DEF Move, BackendMove
    <3>2. CASE ~Usable(pg, TRUE)
      <4>1. FetchPage(b, pg) /\ UNCHANGED <<heapVars, xactVars, controlFile, checkPoint, replay, todo, my>> /\ Wants(b, pg)
        BY <2>2, <3>2 DEF TransactionIdGetStatus, Wants, ckptVars
      <4> QED BY <4>1, <2>0, FetchMoves DEF Move
    <3> QED BY <3>1, <3>2
  <2> QED BY <1>1, <2>1, <2>2 DEF TransactionStep, Move, BackendMove
<1>2. ASSUME NEW p \in Backends \union {Startup}, TransactionIdSetStatus(p) PROVE Move
  <2> DEFINE pg == TransactionIdToPage(my[p].xid)
  <2>1. CASE Usable(pg, WriteOk(p))
    <3>1. SetBit(p)
      BY <1>2, <2>1 DEF TransactionIdSetStatus, SetBit, AllButIO, walVars, heapVars, xactVars, ckptVars
    <3> QED BY <3>1 DEF Move, SharedMove
  <2>2. CASE ~Usable(pg, WriteOk(p))
    <3>1. FetchPage(p, pg) /\ UNCHANGED <<heapVars, xactVars, controlFile, checkPoint, replay, todo, my>> /\ Wants(p, pg)
      BY <1>2, <2>2 DEF TransactionIdSetStatus, Wants, ckptVars
    <3> QED BY <3>1, FetchMoves DEF Move
  <2> QED BY <2>1, <2>2
<1>3. CASE BgWrite
  <2>1. BeginFlush(BgWriter)
    BY <1>3 DEF BgWrite, BeginFlush
  <2> QED BY <2>1 DEF Move, SharedMove
<1>4. CASE CreateCheckPoint
  <2>1. CASE CheckPointCLOG
    <3> DEFINE S == checkPoint.pages
               least == CHOOSE v \in S : \A w \in S : v <= w
    <3>1. at[Checkpointer] = "ckXact" /\ S # {} /\ S \in SUBSET Pages
      BY <2>1 DEF CheckPointCLOG, ControlInv, CheckpointOK
    <3>2. PICK pg \in S : pg = least
      BY <3>1, LeastPage
    <3>3. pg \in Pages /\ Checkpointer \in Everyone \ {BgWriter}
      BY <3>1, <3>2, DurabilityConstants DEF Everyone
    <3>4. /\ \/ StartWriting(Checkpointer, pg, "ckXact") /\ UNCHANGED checkPoint
             \/ AbandonedIO(pg) /\ Repair(pg) /\ UNCHANGED <<walVars, io, at, checkPoint>>
             \/ /\ slot[pg].status \in {"empty", "reading"} \/ (slot[pg].status = "valid" /\ ~slot[pg].dirty)
                /\ checkPoint' = [checkPoint EXCEPT !.pages = @ \ {pg}]
                /\ UNCHANGED <<walVars, slot, io, at>>
          /\ UNCHANGED <<latestPage, xactFile, xactKept, pending, heapVars, xactVars, controlFile, replay, todo, my>>
      BY <2>1, <3>2 DEF CheckPointCLOG
    <3>5. CASE StartWriting(Checkpointer, pg, "ckXact") /\ UNCHANGED checkPoint
      <4>1. BeginWrite(Checkpointer, pg, "ckXact")
        BY <3>1, <3>4, <3>5 DEF StartWriting, BeginWrite, AllButIO, heapVars, xactVars, TakesXidGenLock
      <4> QED BY <4>1, <3>3 DEF Move, SharedMove, Backs
    <3>6. CASE AbandonedIO(pg) /\ Repair(pg) /\ UNCHANGED <<walVars, io, at, checkPoint>>
      <4>1. TakeOver(pg)
        BY <3>4, <3>6 DEF TakeOver, AllButIO, heapVars, xactVars, walVars, TakesXidGenLock
      <4> QED BY <4>1, <3>3 DEF Move, SharedMove
    <3>7. CASE /\ slot[pg].status \in {"empty", "reading"} \/ (slot[pg].status = "valid" /\ ~slot[pg].dirty)
               /\ checkPoint' = [checkPoint EXCEPT !.pages = @ \ {pg}]
               /\ UNCHANGED <<walVars, slot, io, at>>
      <4>1. SkipPage(pg)
        BY <3>1, <3>4, <3>7 DEF SkipPage, slruVars, walVars
      <4> QED BY <4>1 DEF Move, CheckpointerMove
    <3> QED BY <3>4, <3>5, <3>6, <3>7
  <2>2. CASE SyncOneBuffer
    <3>1. BeginFlush(Checkpointer) \/ SkipBuffer
      BY <2>2 DEF SyncOneBuffer, BeginFlush, SkipBuffer, walVars
    <3> QED BY <3>1 DEF Move, SharedMove, CheckpointerMove
  <2> QED BY <1>4, <2>1, <2>2 DEF CreateCheckPoint, Move, CheckpointerMove
<1>5. CASE ApplyWalRecord
  <2>1. RedoTuple \/ RedoEnd \/ RedoZero \/ RedoOther
    BY <1>5 DEF ApplyWalRecord, RedoTuple, RedoEnd, RedoZero, RedoOther, Redo, walVars, ckptVars
  <2> QED BY <2>1 DEF Move, StartupMove
<1>6. CASE RedoZeroPage
  <2>0. Startup \in Everyone \ {BgWriter} /\ UNCHANGED AllButIO /\ TakesXidGenLock
    BY <1>6, DurabilityConstants DEF RedoZeroPage, Everyone, AllButIO, heapVars, xactVars, ckptVars, TakesXidGenLock
  <2>1. CASE /\ at[Startup] = "replay" /\ replay <= Len(log) /\ log[replay].kind = "zero"
             /\ \E v \in InTheWay(log[replay].xid) : StartWriting(Startup, v, "replay")
    <3>1. PICK v \in Pages : StartWriting(Startup, v, "replay")
      BY <2>1 DEF InTheWay, Resident
    <3>2. BeginWrite(Startup, v, "replay")
      BY <2>0, <2>1, <3>1 DEF StartWriting, BeginWrite
    <3> QED BY <3>2, <2>0 DEF Move, SharedMove, Backs
  <2>2. CASE at[Startup] = "writeZeroes" /\ StartWriting(Startup, my[Startup].xid, "replay")
    <3>0. at[Startup] = "writeZeroes" /\ replay \in Nat /\ replay \in 1..(Len(log) + 1) /\ Len(log) \in Nat /\ replay > 1
          /\ log[replay - 1].kind = "zero" /\ log[replay - 1].xid = my[Startup].xid
      BY <2>2 DEF ControlInv, StartupOK, Replaying, LogOK
    <3>1. my[Startup].xid \in Pages
      <4>1. replay - 1 \in 1..Len(log)
        BY <3>0
      <4> QED BY <3>0, <4>1 DEF ControlInv, LogOK
    <3>2. BeginWrite(Startup, my[Startup].xid, "replay")
      BY <2>0, <2>2 DEF StartWriting, BeginWrite
    <3> QED BY <3>1, <3>2, <2>0 DEF Move, SharedMove, Backs
  <2> QED BY <1>6, <2>1, <2>2 DEF RedoZeroPage
<1>7. CASE TrimCLOG
  <2> DEFINE pg == TransactionIdToPage(nextXid)
  <2>1. CASE ~FirstOnPage(nextXid) /\ ~Usable(pg, FALSE)
    <3>1. FetchPage(Startup, pg) /\ UNCHANGED <<heapVars, xactVars, controlFile, checkPoint, replay, todo, my>>
          /\ Wants(Startup, pg)
      BY <1>7, <2>1 DEF TrimCLOG, Wants
    <3> QED BY <3>1, FetchMoves DEF Move
  <2>2. CASE FirstOnPage(nextXid) \/ Usable(pg, FALSE)
    <3>1. EndReplay
      BY <1>7, <2>2 DEF TrimCLOG, EndReplay, walVars
    <3> QED BY <3>1 DEF Move, StartupMove
  <2> QED BY <2>1, <2>2
<1>8. CASE Done
  BY <1>8, <1>0 DEF Done, Move
<1> QED BY <1>0, <1>1, <1>2, <1>3, <1>4, <1>5, <1>6, <1>7, <1>8
        DEF Next, Move, SharedMove, CheckpointerMove

(* --- What the operations on pg_xact do to the slots --------------------------------- *)

(* All other pages stay where they are, but for a clean one that makes room. *)
Evicted(q) == slot[q].status = "valid" /\ ~slot[q].dirty /\ slot'[q] = Empty(q)
OthersSame(pg) == \A q \in Pages \ {pg} : slot'[q] = slot[q]
OthersStay(pg) == \A q \in Pages \ {pg} : slot'[q] = slot[q] \/ Evicted(q)

\* A slot without a page, and a page just zeroed, are well formed.
LEMMA EmptySlot ==
  ASSUME NEW pg \in Pages
  PROVE  /\ Empty(pg) \in SlotType /\ Empty(pg).bits = Zeroes(pg) /\ Zeroes(pg) \in [On(pg) -> Status]
         /\ Empty(pg).status = "empty" /\ Empty(pg).dirty = FALSE /\ Empty(pg).lsn = 0 /\ Empty(pg).io = None
         /\ \A x \in On(pg) : Zeroes(pg)[x] = "inProgress"
<1>1. Zeroes(pg) \in [On(pg) -> Status]
  BY DEF Zeroes, Status
<1>2. Zeroes(pg) \in UNION {[On(q) -> Status] : q \in Pages}
  BY <1>1
<1>3. \A x \in On(pg) : Zeroes(pg)[x] = "inProgress"
  BY DEF Zeroes
<1>4. Empty(pg) \in SlotType
  BY <1>2 DEF Empty, SlotType
<1> QED BY <1>1, <1>3, <1>4 DEF Empty

(* A slot found for pg is that of a clean page. *)
LEMMA RoomMade ==
  ASSUME SlotOK, NEW pg \in Pages, NEW s \in {slot} \union {[slot EXCEPT ![v] = Empty(v)] : v \in Resident}, SlotFor(pg, s)
  PROVE  /\ s \in [Pages -> SlotType] /\ \A q \in Pages : s[q].bits \in [On(q) -> Status]
         /\ \A q \in Pages \ {pg} : s[q] = slot[q] \/ (slot[q].status = "valid" /\ ~slot[q].dirty /\ s[q] = Empty(q))
<1>1. CASE s = slot
  BY <1>1 DEF SlotOK
<1>2. ASSUME NEW v \in Pages, Victim(v), ~slot[v].dirty, s = [slot EXCEPT ![v] = Empty(v)]
      PROVE  /\ s \in [Pages -> SlotType] /\ \A q \in Pages : s[q].bits \in [On(q) -> Status]
             /\ \A q \in Pages \ {pg} : s[q] = slot[q] \/ (slot[q].status = "valid" /\ ~slot[q].dirty /\ s[q] = Empty(q))
  <2>1. s \in [Pages -> SlotType]
    BY <1>2, EmptySlot DEF SlotOK
  <2>2. \A q \in Pages : s[q] = IF q = v THEN Empty(v) ELSE slot[q]
    BY <1>2 DEF SlotOK
  <2> QED BY <1>2, <2>1, <2>2, EmptySlot DEF SlotOK, Victim
<1> QED BY <1>1, <1>2 DEF SlotFor

\* SlruPageRead marks an empty slot as being read by p; slots evicted for it apart, the
\* others stay.
LEMMA ReadStartEffect ==
  ASSUME SlotOK, NEW p \in Everyone, NEW pg \in Pages, ReadStart(p, pg)
  PROVE  /\ SlotOK' /\ OthersStay(pg) /\ slot[pg].status = "empty"
         /\ slot'[pg].status = "reading" /\ slot'[pg].dirty = FALSE /\ slot'[pg].bits = Zeroes(pg)
         /\ slot'[pg].lsn = 0 /\ slot'[pg].io = p
<1>1. PICK s \in {slot} \union {[slot EXCEPT ![v] = Empty(v)] : v \in Resident} :
        SlotFor(pg, s) /\ slot' = [s EXCEPT ![pg] = [Empty(pg) EXCEPT !.status = "reading", !.io = p]]
  BY DEF ReadStart
<1> DEFINE new == [Empty(pg) EXCEPT !.status = "reading", !.io = p]
<1>2. new \in SlotType /\ new.status = "reading" /\ new.dirty = FALSE /\ new.bits = Zeroes(pg) /\ new.lsn = 0 /\ new.io = p
  BY EmptySlot DEF SlotType, Empty
<1>3. s \in [Pages -> SlotType] /\ \A q \in Pages : s[q].bits \in [On(q) -> Status]
  BY <1>1, RoomMade
<1> HIDE DEF new
<1>4. slot' = [s EXCEPT ![pg] = new]
  BY <1>1 DEF new
<1>5. \A q \in Pages : slot'[q] = IF q = pg THEN new ELSE s[q]
  BY <1>3, <1>4
<1>6. SlotOK'
  <2>1. slot' \in [Pages -> SlotType]
    BY <1>2, <1>3, <1>4
  <2>2. \A q \in Pages : slot'[q].bits \in [On(q) -> Status]
    BY <1>2, <1>3, <1>5, EmptySlot
  <2> QED BY <2>1, <2>2 DEF SlotOK
<1>7. OthersStay(pg)
  BY <1>1, <1>5, RoomMade DEF OthersStay, Evicted
<1>8. slot[pg].status = "empty"
  BY DEF ReadStart, Resident
<1> QED BY <1>2, <1>5, <1>6, <1>7, <1>8

\* SimpleLruZeroPage leaves a valid, dirty page of zeroes.
LEMMA ZeroPageEffect ==
  ASSUME SlotOK, NEW pg \in Pages, SimpleLruZeroPage(pg)
  PROVE  /\ SlotOK' /\ OthersStay(pg)
         /\ slot'[pg].status = "valid" /\ slot'[pg].dirty = TRUE /\ slot'[pg].bits = Zeroes(pg)
         /\ slot'[pg].lsn = 0 /\ slot'[pg].io = None
<1>1. PICK s \in {slot} \union {[slot EXCEPT ![v] = Empty(v)] : v \in Resident} :
        SlotFor(pg, s) /\ slot' = [s EXCEPT ![pg] = [Empty(pg) EXCEPT !.status = "valid", !.dirty = TRUE]]
  BY DEF SimpleLruZeroPage
<1> DEFINE new == [Empty(pg) EXCEPT !.status = "valid", !.dirty = TRUE]
<1>2. new \in SlotType /\ new.status = "valid" /\ new.dirty = TRUE /\ new.bits = Zeroes(pg) /\ new.lsn = 0 /\ new.io = None
  BY EmptySlot DEF SlotType, Empty
<1>3. s \in [Pages -> SlotType] /\ \A q \in Pages : s[q].bits \in [On(q) -> Status]
  BY <1>1, RoomMade
<1> HIDE DEF new
<1>4. slot' = [s EXCEPT ![pg] = new]
  BY <1>1 DEF new
<1>5. \A q \in Pages : slot'[q] = IF q = pg THEN new ELSE s[q]
  BY <1>3, <1>4
<1>6. SlotOK'
  <2>1. slot' \in [Pages -> SlotType]
    BY <1>2, <1>3, <1>4
  <2>2. \A q \in Pages : slot'[q].bits \in [On(q) -> Status]
    BY <1>2, <1>3, <1>5, EmptySlot, ZenonT(60)
  <2> QED BY <2>1, <2>2 DEF SlotOK
<1>7. OthersStay(pg)
  BY <1>1, <1>5, RoomMade DEF OthersStay, Evicted
<1> QED BY <1>2, <1>5, <1>6, <1>7

(* The slot of pg is given a new value. *)
LEMMA OneSlot ==
  ASSUME SlotOK, NEW pg \in Pages, NEW new \in SlotType, new.bits \in [On(pg) -> Status], slot' = [slot EXCEPT ![pg] = new]
  PROVE  SlotOK' /\ OthersSame(pg) /\ slot'[pg] = new
<1>1. \A q \in Pages : slot'[q] = IF q = pg THEN new ELSE slot[q]
  BY DEF SlotOK
<1>2. slot' \in [Pages -> SlotType]
  BY DEF SlotOK
<1> QED BY <1>1, <1>2 DEF SlotOK, OthersSame

\* SlruInternalWritePage clears the dirty flag before it writes, and keeps the bits.
LEMMA WriteStartEffect ==
  ASSUME SlotOK, NEW p \in Everyone, NEW pg \in Pages, WriteStart(p, pg)
  PROVE  /\ SlotOK' /\ OthersSame(pg) /\ slot[pg].status = "valid" /\ slot[pg].dirty
         /\ slot'[pg].status = "writing" /\ slot'[pg].dirty = FALSE /\ slot'[pg].bits = slot[pg].bits
         /\ slot'[pg].lsn = slot[pg].lsn /\ slot'[pg].io = p
<1> DEFINE new == [slot[pg] EXCEPT !.status = "writing", !.dirty = FALSE, !.io = p]
<1>1. slot[pg] \in SlotType /\ slot[pg].bits \in [On(pg) -> Status]
  BY DEF SlotOK
<1>2. new \in SlotType /\ new.status = "writing" /\ new.dirty = FALSE /\ new.bits = slot[pg].bits
      /\ new.lsn = slot[pg].lsn /\ new.io = p
  BY <1>1 DEF SlotType
<1>3. slot' = [slot EXCEPT ![pg] = new]
  BY DEF WriteStart, SlotOK
<1> HIDE DEF new
<1> QED BY <1>1, <1>2, <1>3, OneSlot DEF WriteStart

\* SimpleLruWaitIO on a write that its process abandoned makes the page valid and dirty again.
LEMMA RepairEffect ==
  ASSUME SlotOK, NEW pg \in Pages, Repair(pg)
  PROVE  /\ SlotOK' /\ OthersSame(pg)
         /\ slot'[pg].status = "valid" /\ slot'[pg].dirty = TRUE /\ slot'[pg].bits = slot[pg].bits
         /\ slot'[pg].lsn = slot[pg].lsn /\ slot'[pg].io = slot[pg].io
<1> DEFINE new == [slot[pg] EXCEPT !.status = "valid", !.dirty = TRUE]
<1>1. slot[pg] \in SlotType /\ slot[pg].bits \in [On(pg) -> Status]
  BY DEF SlotOK
<1>2. new \in SlotType /\ new.status = "valid" /\ new.dirty = TRUE /\ new.bits = slot[pg].bits
      /\ new.lsn = slot[pg].lsn /\ new.io = slot[pg].io
  BY <1>1 DEF SlotType
<1>3. slot' = [slot EXCEPT ![pg] = new]
  BY DEF Repair, SlotOK
<1> HIDE DEF new
<1> QED BY <1>1, <1>2, <1>3, OneSlot

\* The end of a write leaves the page valid, and dirty if it was dirtied meanwhile.
LEMMA WriteEndEffect ==
  ASSUME SlotOK, NEW pg \in Pages, WriteEnd(pg)
  PROVE  /\ SlotOK' /\ OthersSame(pg)
         /\ slot'[pg].status = "valid" /\ slot'[pg].dirty = slot[pg].dirty /\ slot'[pg].bits = slot[pg].bits
         /\ slot'[pg].lsn = slot[pg].lsn /\ slot'[pg].io = None
<1> DEFINE new == [slot[pg] EXCEPT !.status = "valid", !.io = None]
<1>1. slot[pg] \in SlotType /\ slot[pg].bits \in [On(pg) -> Status]
  BY DEF SlotOK
<1>2. new \in SlotType /\ new.status = "valid" /\ new.dirty = slot[pg].dirty /\ new.bits = slot[pg].bits
      /\ new.lsn = slot[pg].lsn /\ new.io = None
  BY <1>1 DEF SlotType
<1>3. slot' = [slot EXCEPT ![pg] = new]
  BY DEF WriteEnd, SlotOK
<1> HIDE DEF new
<1> QED BY <1>1, <1>2, <1>3, OneSlot

\* A failing write takes no bit from the page, and a page being written becomes dirty
\* again.
LEMMA WriteFailsEffect ==
  ASSUME SlotOK, NEW pg \in Pages, WriteFails(pg)
  PROVE  /\ SlotOK' /\ OthersSame(pg)
         /\ \/ slot'[pg].status = "valid" /\ slot'[pg].dirty = TRUE
            \/ slot'[pg].status = slot[pg].status /\ slot'[pg].dirty = slot[pg].dirty
         /\ slot'[pg].bits = slot[pg].bits /\ slot'[pg].lsn = slot[pg].lsn /\ slot'[pg].io = None
<1> DEFINE one == [slot[pg] EXCEPT !.status = "valid", !.dirty = TRUE, !.io = None]
           two == [slot[pg] EXCEPT !.io = None]
<1>1. slot[pg] \in SlotType /\ slot[pg].bits \in [On(pg) -> Status]
  BY DEF SlotOK
<1>2. one \in SlotType /\ one.status = "valid" /\ one.dirty = TRUE /\ one.bits = slot[pg].bits
      /\ one.lsn = slot[pg].lsn /\ one.io = None
  BY <1>1 DEF SlotType
<1>3. two \in SlotType /\ two.status = slot[pg].status /\ two.dirty = slot[pg].dirty /\ two.bits = slot[pg].bits
      /\ two.lsn = slot[pg].lsn /\ two.io = None
  BY <1>1 DEF SlotType
<1>4. slot' = [slot EXCEPT ![pg] = one] \/ slot' = [slot EXCEPT ![pg] = two]
  BY DEF WriteFails, SlotOK
<1> HIDE DEF one, two
<1> QED BY <1>1, <1>2, <1>3, <1>4, OneSlot

\* A finished read leaves a clean valid page with the bits of the file.
LEMMA PageReadEffect ==
  ASSUME SlotOK, NEW pg \in Pages, NEW bits \in [On(pg) -> Status], slot' = PageRead(pg, bits)
  PROVE  /\ SlotOK' /\ OthersSame(pg)
         /\ slot'[pg].status = "valid" /\ slot'[pg].dirty = FALSE /\ slot'[pg].bits = bits
         /\ slot'[pg].lsn = 0 /\ slot'[pg].io = None
<1> DEFINE new == [Empty(pg) EXCEPT !.status = "valid", !.bits = bits]
<1>2. new \in SlotType /\ new.status = "valid" /\ new.dirty = FALSE /\ new.bits = bits
      /\ new.lsn = 0 /\ new.io = None
  BY EmptySlot DEF SlotType, Empty
<1>3. slot' = [slot EXCEPT ![pg] = new]
  BY DEF PageRead
<1> HIDE DEF new
<1> QED BY <1>2, <1>3, OneSlot

\* Larger is an upper bound of both of its arguments and one of them.
LEMMA LargerNat ==
  ASSUME NEW a \in Nat, NEW b \in Nat
  PROVE  Larger(a, b) \in {a, b} /\ a <= Larger(a, b) /\ b <= Larger(a, b)
BY DEF Larger

\* TransactionIdSetStatusBit changes one status, dirties the page and raises its LSN.
LEMMA SetStatusBitEffect ==
  ASSUME SlotOK, NEW x \in Xids, NEW status \in Status, NEW lsn \in Nat, slot' = SetStatusBit(slot, x, status, lsn),
         NEW pg, pg = TransactionIdToPage(x)
  PROVE  /\ SlotOK' /\ OthersSame(pg)
         /\ slot'[pg].status = slot[pg].status /\ slot'[pg].dirty = TRUE
         /\ slot'[pg].bits = [slot[pg].bits EXCEPT ![x] = status]
         /\ slot'[pg].lsn = Larger(slot[pg].lsn, lsn) /\ slot'[pg].io = slot[pg].io
<1>0. pg \in Pages /\ x \in On(pg)
  BY PageOfXid
<1> DEFINE bits == [slot[pg].bits EXCEPT ![x] = status]
           new == [slot[pg] EXCEPT !.bits = bits, !.dirty = TRUE, !.lsn = Larger(slot[pg].lsn, lsn)]
<1>1. slot[pg] \in SlotType /\ slot[pg].bits \in [On(pg) -> Status]
  BY <1>0 DEF SlotOK
<1>2. bits \in [On(pg) -> Status]
  BY <1>1
<1>3. Larger(slot[pg].lsn, lsn) \in Nat
  BY <1>1, LargerNat DEF SlotType
<1> HIDE DEF bits
<1>4. new \in SlotType /\ new.status = slot[pg].status /\ new.dirty = TRUE /\ new.bits = bits
      /\ new.lsn = Larger(slot[pg].lsn, lsn) /\ new.io = slot[pg].io
  <2>1. PICK s, n : s = slot[pg] /\ n = Larger(slot[pg].lsn, lsn) /\ s \in SlotType /\ n \in Nat
    BY <1>1, <1>3
  <2>2. new = [s EXCEPT !.bits = bits, !.dirty = TRUE, !.lsn = n]
    BY <2>1
  <2>3. bits \in UNION {[On(q) -> Status] : q \in Pages}
    BY <1>0, <1>2
  <2> HIDE DEF new
  <2>4. new.status = s.status /\ new.dirty = TRUE /\ new.bits = bits /\ new.lsn = n /\ new.io = s.io
    BY <2>1, <2>2 DEF SlotType
  <2>5. new \in SlotType
    BY <2>1, <2>2, <2>3 DEF SlotType
  <2> QED BY <2>1, <2>4, <2>5
<1>5. slot' = [slot EXCEPT ![pg] = new]
  BY <1>0 DEF SetStatusBit, SlotOK, bits
<1> HIDE DEF new
<1>6. SlotOK' /\ OthersSame(pg) /\ slot'[pg] = new
  BY <1>0, <1>2, <1>4, <1>5, OneSlot
<1>7. slot'[pg].bits = [slot[pg].bits EXCEPT ![x] = status]
  BY <1>4, <1>6 DEF bits
<1> QED BY <1>4, <1>6, <1>7

\* TrimCLOG clears the statuses from the next id on and keeps those before it.
LEMMA TrimmedEffect ==
  ASSUME SlotOK, NEW x \in NextXids, ~FirstOnPage(x), slot' = Trimmed(slot, x), NEW pg, pg = TransactionIdToPage(x)
  PROVE  /\ SlotOK' /\ OthersSame(pg)
         /\ slot'[pg].status = slot[pg].status /\ slot'[pg].dirty = TRUE
         /\ \A y \in On(pg) : slot'[pg].bits[y] = IF y < x THEN slot[pg].bits[y] ELSE "inProgress"
         /\ slot'[pg].lsn = slot[pg].lsn /\ slot'[pg].io = slot[pg].io
<1>0. pg \in Pages
  BY NextPage
<1> DEFINE bits == [y \in On(pg) |-> IF y < x THEN slot[pg].bits[y] ELSE "inProgress"]
           new == [slot[pg] EXCEPT !.bits = bits, !.dirty = TRUE]
<1>1. slot[pg] \in SlotType /\ slot[pg].bits \in [On(pg) -> Status]
  BY <1>0 DEF SlotOK
<1>2. bits \in [On(pg) -> Status]
  BY <1>1 DEF Status
<1> HIDE DEF bits
<1>4. new \in SlotType /\ new.status = slot[pg].status /\ new.dirty = TRUE /\ new.bits = bits
      /\ new.lsn = slot[pg].lsn /\ new.io = slot[pg].io
  BY <1>0, <1>1, <1>2, ZenonT(60) DEF SlotType
<1>5. slot' = [slot EXCEPT ![pg] = new]
  BY <1>0 DEF Trimmed, SlotOK, bits
<1> HIDE DEF new
<1>6. SlotOK' /\ OthersSame(pg) /\ slot'[pg] = new
  BY <1>0, <1>2, <1>4, <1>5, OneSlot
<1>7. \A y \in On(pg) : bits[y] = IF y < x THEN slot[pg].bits[y] ELSE "inProgress"
  BY DEF bits
<1> QED BY <1>4, <1>6, <1>7

(* --- The log -------------------------------------------------------------------- *)

(* The log as a step other than a crash leaves it. *)
Grows ==
  /\ Len(log) <= Len(log') /\ \A i \in 1..Len(log) : log'[i] = log[i]
  /\ durable <= durable'

Fits(r) ==
  /\ r \in [kind : RecordKinds, xid : Ids]
  /\ r.kind \in Traces => r.xid \in Xids
  /\ r.kind = "zero" => r.xid \in Pages
  /\ r.kind = "checkpoint" => r.xid \in NextXids

\* XLogInsert puts one record at the end of the log.
LEMMA InsertEffect ==
  ASSUME LogOK, NEW r, Fits(r), Insert(r)
  PROVE  LogOK' /\ Grows /\ durable' = durable /\ Len(log') = Len(log) + 1 /\ log'[Len(log) + 1] = r
<1>1. log \in Seq([kind : RecordKinds, xid : Ids]) /\ r \in [kind : RecordKinds, xid : Ids] /\ Len(log) \in Nat
      /\ durable \in 0..Len(log) /\ durable' = durable /\ log' = Append(log, r)
  BY DEF LogOK, Fits, Insert
<1>2. log' \in Seq([kind : RecordKinds, xid : Ids]) /\ Len(log') = Len(log) + 1
      /\ (\A i \in 1..Len(log) : log'[i] = log[i]) /\ log'[Len(log) + 1] = r
  BY <1>1, AppendProperties
<1>3. \A i \in 1..Len(log') : i \in 1..Len(log) \/ i = Len(log) + 1
  BY <1>1, <1>2
<1>4. \A i \in 1..Len(log') :
        /\ log'[i].kind \in Traces => log'[i].xid \in Xids
        /\ log'[i].kind = "zero" => log'[i].xid \in Pages
        /\ log'[i].kind = "checkpoint" => log'[i].xid \in NextXids
  BY <1>2, <1>3 DEF LogOK, Fits
<1>5. LogOK'
  BY <1>1, <1>2, <1>4 DEF LogOK
<1> QED BY <1>1, <1>2, <1>5 DEF Grows

\* XLogFlush moves only the durable position, and at least to what it was asked for.
LEMMA FlushEffect ==
  ASSUME LogOK, NEW n \in Nat, XLogFlush(n)
  PROVE  LogOK' /\ Grows /\ log' = log /\ durable' \in durable..Len(log) /\ (n <= Len(log) => n <= durable')
<1>1. Len(log) \in Nat /\ durable \in 0..Len(log)
  BY DEF LogOK
<1>2. log' = log /\ durable' \in durable..Len(log) /\ (n <= Len(log) => n <= durable')
  BY <1>1 DEF XLogFlush, Sync, walVars
<1> QED BY <1>1, <1>2 DEF LogOK, Grows

\* A crash leaves a prefix of the log that holds all that was durable.
LEMMA LoseEffect ==
  ASSUME LogOK, NEW n \in durable..Len(log), Lose(n)
  PROVE  /\ LogOK' /\ durable' = n /\ Len(log') = n /\ n <= Len(log) /\ durable <= n
         /\ \A i \in 1..n : i \in 1..Len(log) /\ log'[i] = log[i]
<1>1. Len(log) \in Nat /\ durable \in 0..Len(log) /\ log \in Seq([kind : RecordKinds, xid : Ids])
  BY DEF LogOK
<1>2. n \in 0..Len(log) /\ log' = SubSeq(log, 1, n) /\ durable' = n
  BY <1>1 DEF Lose
<1>3. log' \in Seq([kind : RecordKinds, xid : Ids]) /\ Len(log') = n /\ \A i \in 1..n : log'[i] = log[i]
  <2> DEFINE R == [kind : RecordKinds, xid : Ids]
  <2>1. \A i \in 1..n : log[i] \in R
    <3>1. log \in Seq(R) /\ \A i \in 1..n : i \in 1..Len(log)
      BY <1>1, <1>2
    <3> HIDE DEF R
    <3> QED BY <3>1, ElementOfSeq
  <2>2. log' \in Seq(R) /\ Len(log') = (IF 1 <= n THEN n - 1 + 1 ELSE 0) /\ \A i \in 1..(n - 1 + 1) : log'[i] = log[1 + i - 1]
    <3> HIDE DEF R
    <3> QED BY <1>1, <1>2, <2>1, SubSeqProperties
  <2>3. n - 1 + 1 = n /\ \A i \in 1..n : 1 + i - 1 = i
    BY <1>1, <1>2
  <2>4. \A i \in 1..n : log'[i] = log[i]
    BY <2>2, <2>3
  <2>5. Len(log') = n
    BY <1>1, <1>2, <2>2
  <2> QED BY <2>2, <2>4, <2>5
<1>4. \A i \in 1..n : i \in 1..Len(log)
  BY <1>1, <1>2
<1>5. LogOK'
  BY <1>1, <1>2, <1>3, <1>4 DEF LogOK
<1> QED BY <1>1, <1>2, <1>3, <1>4, <1>5

(* The records that are written fit, and nobody else touches the log. *)
LEMMA LogStep ==
  ASSUME ControlInv, Move
  PROVE  LogOK' /\ (Crash \/ Grows)
<1> USE DEF ControlInv
<1>0. Len(log) \in Nat /\ durable \in 0..Len(log)
  BY DEF LogOK
<1>1. ASSUME UNCHANGED <<log, durable>> PROVE LogOK' /\ Grows
  BY <1>0, <1>1 DEF LogOK, Grows
<1>2. ASSUME NEW b \in Backends, ZeroNext(b) PROVE LogOK' /\ Grows
  <2>1. nextXid \in Xids
    BY <1>2 DEF ZeroNext, XidGenOK, NextXids, Xids
  <2>2. Fits([kind |-> "zero", xid |-> TransactionIdToPage(nextXid)])
    BY <2>1, PageOfXid DEF Fits, RecordKinds, Traces, Ids
  <2> QED BY <1>2, <2>2, InsertEffect DEF ZeroNext, Log
<1>3. ASSUME NEW b \in Backends, LogInsert(b) PROVE LogOK' /\ Grows
  <2>1. my[b].xid \in Xids
    BY <1>3 DEF LogInsert, MyOK, XactOK, Phase, IOStates
  <2>2. Fits([kind |-> "insert", xid |-> my[b].xid])
    BY <2>1, PageOfXid DEF Fits, RecordKinds, Traces, Ids
  <2> QED BY <1>3, <2>2, InsertEffect DEF LogInsert, Log
<1>4. ASSUME NEW b \in Backends, LogEnd(b) PROVE LogOK' /\ Grows
  <2>1. my[b].xid \in Xids
    BY <1>4 DEF LogEnd, MyOK, XactOK, Phase, IOStates
  <2> DEFINE kind == IF my[b].kind = "abort" THEN "abort" ELSE "commit"
  <2>2. Fits([kind |-> kind, xid |-> my[b].xid])
    BY <2>1, PageOfXid DEF Fits, RecordKinds, Traces, Ids
  <2> QED BY <1>4, <2>2, InsertEffect DEF LogEnd, Log
<1>5. ASSUME CkptRedo PROVE LogOK' /\ Grows
  <2>2. Fits([kind |-> "redo", xid |-> None])
    BY DEF Fits, RecordKinds, Traces, Ids
  <2> QED BY <1>5, <2>2, InsertEffect DEF CkptRedo, Log
<1>6. ASSUME CkptRecord PROVE LogOK' /\ Grows
  <2>1. checkPoint.nextXid \in NextXids /\ NextXids \subseteq Nat
    BY <1>6, SlruConstants DEF CkptRecord, CheckpointOK, NextXids
  <2>2. Fits([kind |-> "checkpoint", xid |-> checkPoint.nextXid])
    BY <2>1 DEF Fits, RecordKinds, Traces, Ids
  <2> QED BY <1>6, <2>2, InsertEffect DEF CkptRecord, Log
<1>7. ASSUME NEW p \in Everyone, NEW pg \in Pages, NEW back \in Backs, BeginWrite(p, pg, back) PROVE LogOK' /\ Grows
  <2>1. slot[pg].lsn \in Nat
    BY DEF SlotOK, SlotType
  <2> QED BY <1>7, <2>1, FlushEffect DEF BeginWrite
<1>8. ASSUME NEW b \in Backends, FlushCommit(b) PROVE LogOK' /\ Grows
  <2>1. my[b].lsn \in Nat
    BY DEF MyOK, MyType, Everyone
  <2> QED BY <1>8, <2>1, FlushEffect DEF FlushCommit
<1>9. ASSUME NEW p, BeginFlush(p) PROVE LogOK' /\ Grows
  <2>1. page.lsn \in Nat
    BY DEF HeapOK, Content
  <2> QED BY <1>9, <2>1, FlushEffect DEF BeginFlush, FlushBuffer
<1>10. ASSUME UpdateControlFile PROVE LogOK' /\ Grows
  <2>1. checkPoint.record \in Nat
    BY <1>10 DEF UpdateControlFile, CheckpointOK
  <2> QED BY <1>10, <2>1, FlushEffect DEF UpdateControlFile
<1>11. ASSUME Crash PROVE LogOK'
  <2>1. PICK n \in durable..Len(log) : Lose(n)
    BY <1>11 DEF Crash
  <2> QED BY <2>1, LoseEffect
<1>12. ASSUME NEW b \in Backends, BackendMove(b) PROVE LogOK' /\ Grows
  BY <1>1, <1>2, <1>3, <1>4, <1>8, <1>12
     DEF BackendMove, GetNewTransactionId, InsertTuple, InsertFails, EndTransaction, Scan, ScanNothing, ReadBit, SetHintBits,
         MarkBufferDirtyHint, walVars
<1>13. ASSUME SharedMove PROVE LogOK' /\ Grows
  BY <1>1, <1>7, <1>9, <1>13
     DEF SharedMove, SetBit, SlruPhysicalReadPage, BeginRead, SlruWrite, SlruWritten, TakeOver, HeapWrite, HeapWritten, walVars
<1>14. ASSUME CheckpointerMove PROVE LogOK' /\ Grows
  BY <1>1, <1>5, <1>6, <1>10, <1>14
     DEF CheckpointerMove, CkptNextXid, CkptDelay, SkipPage, BufferSync, SkipBuffer, ProcessSyncRequests, SlruWriteFailed,
         HeapWriteFailed, walVars
<1>15. ASSUME StartupMove PROVE LogOK' /\ Grows
  BY <1>1, <1>15 DEF StartupMove, RedoTuple, RedoEnd, RedoZero, RedoOther, EndReplay, Redo
<1> QED BY <1>1, <1>11, <1>12, <1>13, <1>14, <1>15 DEF Move, Nothing

(* --- One lemma for each part of ControlInv ---------------------------------------- *)

\* Every step keeps the cache of pg_xact well formed.
LEMMA SlotStep ==
  ASSUME ControlInv, Move
  PROVE  SlotOK'
<1> USE DEF ControlInv
<1>1. ASSUME UNCHANGED slot PROVE SlotOK'
  BY <1>1 DEF SlotOK
<1>2. ASSUME NEW b \in Backends, ZeroNext(b) PROVE SlotOK'
  <2>1. nextXid \in Xids
    BY <1>2 DEF ZeroNext, XidGenOK, NextXids, Xids
  <2> QED BY <1>2, <2>1, PageOfXid, ZeroPageEffect DEF ZeroNext
<1>3. ASSUME NEW p \in Backends \union {Startup}, SetBit(p) PROVE SlotOK'
  <2>1. my[p].xid \in Xids
    BY <1>3, XidToMark DEF SetBit
  <2>2. (IF my[p].kind = "async" THEN my[p].lsn ELSE 0) \in Nat /\ NewStatus(p) \in Status
    BY DEF MyOK, MyType, Everyone, NewStatus, Status
  <2> QED BY <1>3, <2>1, <2>2, SetStatusBitEffect DEF SetBit
<1>4. ASSUME NEW p \in Backends \union {Startup}, SlruPhysicalReadPage(p) PROVE SlotOK'
  <2> DEFINE pg == io[p].page
  <2>1. pg \in Pages
    BY <1>4 DEF SlruPhysicalReadPage, IOOK, IOStates, Everyone
  <2>2. xactFile[pg] \in [On(pg) -> Status] \/ xactFile[pg] = None
    BY <2>1 DEF FilesOK
  <2>3. CASE slot' = PageRead(pg, xactFile[pg]) /\ xactFile[pg] # None
    BY <2>1, <2>2, <2>3, PageReadEffect
  <2>4. CASE slot' = PageRead(pg, Zeroes(pg))
    BY <2>1, <2>4, EmptySlot, PageReadEffect
  <2> QED BY <1>1, <1>4, <2>3, <2>4 DEF SlruPhysicalReadPage
<1>5. ASSUME NEW p \in Backends \union {Startup}, NEW pg \in Pages, BeginRead(p, pg) PROVE SlotOK'
  BY <1>5, ReadStartEffect DEF BeginRead, Everyone
<1>6. ASSUME NEW p \in Everyone, NEW pg \in Pages, NEW back, BeginWrite(p, pg, back) PROVE SlotOK'
  BY <1>6, WriteStartEffect DEF BeginWrite
<1>7. ASSUME NEW pg \in Pages, TakeOver(pg) PROVE SlotOK'
  BY <1>7, RepairEffect DEF TakeOver
<1>8. ASSUME NEW p \in Everyone, SlruWritten(p) PROVE SlotOK'
  BY <1>8, WriteEndEffect DEF SlruWritten, IOOK, IOStates
<1>9. ASSUME SlruWriteFailed PROVE SlotOK'
  BY <1>9, WriteFailsEffect DEF SlruWriteFailed, IOOK, IOStates, Everyone
<1>10. ASSUME RedoZero PROVE SlotOK'
  <2>1. replay \in 1..Len(log) /\ log[replay].kind = "zero"
    BY <1>10 DEF RedoZero, Redo, StartupOK, Replaying, LogOK
  <2>2. log[replay].xid \in Pages
    BY <2>1 DEF LogOK
  <2> QED BY <1>10, <2>2, ZeroPageEffect DEF RedoZero
<1>11. ASSUME EndReplay PROVE SlotOK'
  BY <1>1, <1>11, TrimmedEffect DEF EndReplay, TrimmedSlots, XidGenOK
<1>12. ASSUME Crash PROVE SlotOK'
  <2>1. slot' = [pg \in Pages |-> Empty(pg)]
    BY <1>12 DEF Crash, SlruCrash
  <2> QED BY <2>1, EmptySlot DEF SlotOK
<1>13. ASSUME NEW b \in Backends, BackendMove(b) PROVE SlotOK'
  BY <1>1, <1>2, <1>13
     DEF BackendMove, GetNewTransactionId, InsertTuple, InsertFails, LogInsert, LogEnd, FlushCommit, EndTransaction, Scan, ScanNothing,
         ReadBit, SetHintBits, MarkBufferDirtyHint, slruVars
<1>14. ASSUME SharedMove PROVE SlotOK'
  BY <1>1, <1>3, <1>4, <1>5, <1>6, <1>7, <1>8, <1>14
     DEF SharedMove, SlruWrite, BeginFlush, HeapWrite, HeapWritten, slruVars
<1>15. ASSUME CheckpointerMove PROVE SlotOK'
  BY <1>1, <1>9, <1>15
     DEF CheckpointerMove, CkptRedo, CkptNextXid, CkptDelay, SkipPage, BufferSync, SkipBuffer, ProcessSyncRequests,
         CkptRecord, UpdateControlFile, HeapWriteFailed, slruVars
<1>16. ASSUME StartupMove PROVE SlotOK'
  BY <1>1, <1>10, <1>11, <1>16 DEF StartupMove, RedoTuple, RedoEnd, RedoOther
<1> QED BY <1>1, <1>12, <1>13, <1>14, <1>15, <1>16 DEF Move, Nothing

\* Every step keeps the files of pg_xact, and what a crash may leave of them, well formed.
LEMMA FilesStep ==
  ASSUME ControlInv, Move
  PROVE  FilesOK'
<1> USE DEF ControlInv
<1>1. ASSUME UNCHANGED <<xactFile, xactKept>> PROVE FilesOK'
  BY <1>1 DEF FilesOK
<1>2. ASSUME NEW p \in Everyone, SlruWrite(p) PROVE FilesOK'
  <2>1. PICK pg \in Pages : pg = io[p].page
    BY <1>2 DEF SlruWrite, IOOK, IOStates
  <2>2. PICK bits \in [On(pg) -> Status] : bits = slot[pg].bits
    BY DEF SlotOK
  <2>3. xactFile' = [xactFile EXCEPT ![pg] = bits] /\ xactKept' = [xactKept EXCEPT ![pg] = @ \union {bits}]
    BY <1>2, <2>1, <2>2 DEF SlruWrite, PhysicalWrite
  <2> QED BY <2>3 DEF FilesOK
<1>3. ASSUME ProcessSyncRequests PROVE FilesOK'
  BY <1>3 DEF ProcessSyncRequests, FilesOK
<1>4. ASSUME Crash PROVE FilesOK'
  <2>1. PICK f \in [Pages -> UNION {xactKept[pg] : pg \in Pages}] :
          (\A pg \in Pages : f[pg] \in xactKept[pg]) /\ xactFile' = f /\ xactKept' = [pg \in Pages |-> {f[pg]}]
    BY <1>4 DEF Crash, SlruCrash
  <2> QED BY <2>1 DEF FilesOK
<1>13. ASSUME NEW b \in Backends, BackendMove(b) PROVE FilesOK'
  BY <1>1, <1>13
     DEF BackendMove, ZeroNext, AllButIO, GetNewTransactionId, InsertTuple, InsertFails, LogInsert, LogEnd, FlushCommit, EndTransaction,
         Scan, ScanNothing, ReadBit, SetHintBits, MarkBufferDirtyHint, slruVars
<1>14. ASSUME SharedMove PROVE FilesOK'
  BY <1>1, <1>2, <1>14
     DEF SharedMove, SetBit, SlruPhysicalReadPage, BeginRead, BeginWrite, TakeOver, AllButIO, SlruWritten, BeginFlush, HeapWrite,
         HeapWritten, slruVars
<1>15. ASSUME CheckpointerMove PROVE FilesOK'
  BY <1>1, <1>3, <1>15
     DEF CheckpointerMove, CkptRedo, CkptNextXid, CkptDelay, SkipPage, BufferSync, SkipBuffer, CkptRecord, UpdateControlFile,
         SlruWriteFailed, HeapWriteFailed, slruVars
<1>16. ASSUME StartupMove PROVE FilesOK'
  BY <1>1, <1>16 DEF StartupMove, RedoTuple, RedoEnd, RedoZero, RedoOther, EndReplay, Redo
<1> QED BY <1>1, <1>4, <1>13, <1>14, <1>15, <1>16 DEF Move, Nothing

\* Every step keeps the data page, its file and what a crash may leave of it well formed.
LEMMA HeapStep ==
  ASSUME ControlInv, Move
  PROVE  HeapOK'
<1> USE DEF ControlInv
<1>0. page \in Content /\ heapKept \subseteq Content /\ heapFile \in heapKept
      /\ header \in [dirty : BOOLEAN, just : BOOLEAN, needed : BOOLEAN, io : Everyone \union {NoOne}]
  BY DEF HeapOK
<1>1. ASSUME UNCHANGED <<page, header, heapFile, heapKept>> PROVE HeapOK'
  BY <1>1 DEF HeapOK
<1>2. ASSUME page' \in Content,
             header' \in [dirty : BOOLEAN, just : BOOLEAN, needed : BOOLEAN, io : Everyone \union {NoOne}],
             UNCHANGED <<heapFile, heapKept>>
      PROVE  HeapOK'
  BY <1>2 DEF HeapOK
<1>3. Dirtied(header) \in [dirty : BOOLEAN, just : BOOLEAN, needed : BOOLEAN, io : Everyone \union {NoOne}]
  BY <1>0 DEF Dirtied
<1>4. CleanHeader \in [dirty : BOOLEAN, just : BOOLEAN, needed : BOOLEAN, io : Everyone \union {NoOne}]
  BY DEF CleanHeader
<1>5. ASSUME NEW b \in Backends, InsertTuple(b) PROVE HeapOK'
  <2>1. my[b].xid \in Xids
    BY <1>5 DEF InsertTuple, MyOK, XactOK, Phase, IOStates
  <2>2. page' \in Content
    BY <1>0, <1>5, <2>1 DEF InsertTuple, PutTuple, Content
  <2> QED BY <1>2, <1>3, <1>5, <2>2 DEF InsertTuple, PutTuple
<1>5a. ASSUME NEW b \in Backends, InsertFails(b) PROVE HeapOK'
  <2>1. my[b].xid \in Xids
    BY <1>5a DEF InsertFails, MyOK, XactOK, Phase, IOStates
  <2>2. page' \in Content
    BY <1>0, <1>5a, <2>1 DEF InsertFails, LeaveStray, Content
  <2> QED BY <1>0, <1>2, <1>3, <1>5a, <2>2 DEF InsertFails, LeaveStray
<1>6. ASSUME NEW b \in Backends, LogInsert(b) PROVE HeapOK'
  <2>1. Len(log) + 1 \in Nat
    BY DEF LogOK
  <2>2. page' \in Content
    BY <1>0, <1>6, <2>1 DEF LogInsert, Stamp, Content
  <2> QED BY <1>0, <1>2, <1>6, <2>2 DEF LogInsert, Stamp
<1>7. ASSUME NEW b \in Backends, SetHintBits(b) PROVE HeapOK'
  <2>1. my[b].xid \in Xids
    BY <1>7 DEF SetHintBits, MyOK, XactOK, Phase, IOStates
  <2>2. page' \in Content
    <3>1. CASE UNCHANGED page
      BY <3>1, <1>0
    <3>2. CASE page' = [page EXCEPT !["committed"] = @ \union {my[b].xid}]
      BY <1>0, <3>2, <2>1 DEF Content
    <3>3. CASE page' = [page EXCEPT !["invalid"] = @ \union {my[b].xid}]
      BY <1>0, <3>3, <2>1 DEF Content
    <3>4. CASE page' = [page EXCEPT !["strayCommitted"] = @ \union {my[b].xid}]
      BY <1>0, <3>4, <2>1 DEF Content
    <3>5. CASE page' = [page EXCEPT !["strayInvalid"] = @ \union {my[b].xid}]
      BY <1>0, <3>5, <2>1 DEF Content
    <3> QED BY <1>7, <3>1, <3>2, <3>3, <3>4, <3>5 DEF SetHintBits, Hint, HintBit
  <2> QED BY <1>0, <1>2, <1>7, <2>2 DEF SetHintBits
<1>8. ASSUME NEW b \in Backends, MarkBufferDirtyHint(b) PROVE HeapOK'
  BY <1>0, <1>2, <1>3, <1>8 DEF MarkBufferDirtyHint
<1>9. ASSUME NEW p \in {BgWriter, Checkpointer}, BeginFlush(p) PROVE HeapOK'
  <2>1. header' = [header EXCEPT !.io = p, !.just = FALSE] /\ p \in Everyone /\ UNCHANGED <<page, heapFile, heapKept>>
    BY <1>9 DEF BeginFlush, FlushBuffer, StartBufferIO, Everyone
  <2>2. header' \in [dirty : BOOLEAN, just : BOOLEAN, needed : BOOLEAN, io : Everyone \union {NoOne}]
    BY <1>0, <2>1
  <2> QED BY <1>0, <1>2, <2>1, <2>2
<1>10. ASSUME NEW p, HeapWrite(p) PROVE HeapOK'
  BY <1>0, <1>10 DEF HeapWrite, smgrwrite, HeapOK
<1>11. ASSUME NEW p, NEW clear, TerminateBufferIO(p, clear) PROVE HeapOK'
  <2>1. [header EXCEPT !.io = NoOne] \in [dirty : BOOLEAN, just : BOOLEAN, needed : BOOLEAN, io : Everyone \union {NoOne}]
    BY <1>0
  <2> QED BY <1>0, <1>2, <1>4, <1>11, <2>1 DEF TerminateBufferIO
<1>12. ASSUME BufferSync PROVE HeapOK'
  <2>1. [header EXCEPT !.needed = header.dirty] \in [dirty : BOOLEAN, just : BOOLEAN, needed : BOOLEAN, io : Everyone \union {NoOne}]
    BY <1>0
  <2> QED BY <1>0, <1>2, <1>12, <2>1 DEF BufferSync
<1>13. ASSUME ProcessSyncRequests PROVE HeapOK'
  BY <1>0, <1>13 DEF ProcessSyncRequests, HeapOK
<1>14. ASSUME Crash PROVE HeapOK'
  BY <1>0, <1>4, <1>14 DEF Crash, HeapCrash, HeapOK
<1>15. ASSUME RedoTuple PROVE HeapOK'
  <2>1. replay \in 1..Len(log) /\ log[replay].kind = "insert" /\ replay \in Nat
    BY <1>15 DEF RedoTuple, Redo, StartupOK, Replaying, LogOK
  <2>2. log[replay].xid \in Xids
    BY <2>1 DEF LogOK, Traces
  <2>3. [page EXCEPT !.tuples = @ \union {log[replay].xid}, !.lsn = replay] \in Content
    BY <1>0, <2>1, <2>2 DEF Content
  <2> QED BY <1>0, <1>2, <1>3, <1>15, <2>3 DEF RedoTuple, RedoInsert
<1>16. ASSUME NEW b \in Backends, BackendMove(b) PROVE HeapOK'
  BY <1>1, <1>5, <1>5a, <1>6, <1>7, <1>8, <1>16
     DEF BackendMove, ZeroNext, AllButIO, GetNewTransactionId, LogEnd, FlushCommit, EndTransaction, Scan, ScanNothing, ReadBit,
         heapVars
<1>17. ASSUME SharedMove PROVE HeapOK'
  BY <1>1, <1>9, <1>10, <1>11, <1>17, ZenonT(60)
     DEF SharedMove, SetBit, SlruPhysicalReadPage, BeginRead, BeginWrite, TakeOver, AllButIO, SlruWrite, SlruWritten,
         HeapWritten, heapVars
<1>18. ASSUME CheckpointerMove PROVE HeapOK'
  BY <1>1, <1>11, <1>12, <1>13, <1>18
     DEF CheckpointerMove, CkptRedo, CkptNextXid, CkptDelay, SkipPage, SkipBuffer, CkptRecord, UpdateControlFile,
         SlruWriteFailed, HeapWriteFailed, heapVars
<1>19. ASSUME StartupMove PROVE HeapOK'
  BY <1>1, <1>15, <1>19 DEF StartupMove, RedoEnd, RedoZero, RedoOther, EndReplay, heapVars
<1> QED BY <1>1, <1>14, <1>16, <1>17, <1>18, <1>19 DEF Move, Nothing, heapVars

(* One process goes somewhere else. *)
LEMMA GotoEffect ==
  ASSUME AtOK, NEW p \in Everyone, NEW where, Goto(p, where),
         p \in Backends => where \in BackendStates,
         p = Checkpointer => where \in CkptStates \union {"idle"},
         p = BgWriter => where \in {"idle", "heapWrite", "heapWritten"},
         p = Startup => where \in StartupStates
  PROVE  AtOK' /\ at'[p] = where /\ \A q \in Everyone \ {p} : at'[q] = at[q]
<1> DEFINE States == BackendStates \union CkptStates \union StartupStates
<1>1. "idle" \in States /\ "heapWrite" \in States /\ "heapWritten" \in States
  BY DEF BackendStates, CkptStates
<1>2. at \in [Everyone -> States]
  BY DEF AtOK
<1>3. where \in States
  BY <1>1 DEF Everyone
<1> HIDE DEF States
<1>4. at' = [at EXCEPT ![p] = where]
  BY DEF Goto
<1>5. at' \in [Everyone -> States] /\ at'[p] = where /\ \A q \in Everyone \ {p} : at'[q] = at[q]
  BY <1>2, <1>3, <1>4
<1>6. \A b \in Backends : at'[b] \in BackendStates
  BY <1>5 DEF AtOK, Everyone
<1>7. /\ at'[Checkpointer] \in CkptStates \union {"idle"}
      /\ at'[BgWriter] \in {"idle", "heapWrite", "heapWritten"}
      /\ at'[Startup] \in StartupStates
  BY <1>5 DEF AtOK, Everyone
<1> QED BY <1>5, <1>6, <1>7 DEF AtOK, States

\* Every step keeps everybody at a place of their own program.
LEMMA AtStep ==
  ASSUME ControlInv, Move
  PROVE  AtOK'
<1> USE DEF ControlInv
<1>c. /\ Checkpointer \in Everyone /\ BgWriter \in Everyone /\ Startup \in Everyone /\ Backends \subseteq Everyone
      /\ Checkpointer \notin Backends /\ BgWriter \notin Backends /\ Startup \notin Backends
      /\ Checkpointer # BgWriter /\ BgWriter # Startup /\ Startup # Checkpointer
  BY DurabilityConstants DEF Everyone
<1>1. ASSUME UNCHANGED at PROVE AtOK'
  BY <1>1 DEF AtOK
<1>2. ASSUME NEW b \in Backends, NEW where \in BackendStates, Goto(b, where) PROVE AtOK'
  BY <1>2, <1>c, GotoEffect
<1>3. ASSUME NEW where \in CkptStates \union {"idle"}, Goto(Checkpointer, where) PROVE AtOK'
  BY <1>3, <1>c, GotoEffect
<1>4. ASSUME NEW where \in {"idle", "heapWrite", "heapWritten"}, Goto(BgWriter, where) PROVE AtOK'
  BY <1>4, <1>c, GotoEffect
<1>5. ASSUME NEW where \in StartupStates, Goto(Startup, where) PROVE AtOK'
  BY <1>5, <1>c, GotoEffect
<1>6. ASSUME NEW b \in Backends, BackendMove(b) PROVE AtOK'
  <2> USE DEF BackendStates
  <2>1. CASE ZeroNext(b)
    BY <1>2, <2>1 DEF ZeroNext
  <2>2. CASE GetNewTransactionId(b)
    BY <1>2, <2>2 DEF GetNewTransactionId
  <2>3. CASE InsertTuple(b)
    BY <1>2, <2>3 DEF InsertTuple
  <2>4. CASE LogInsert(b)
    BY <1>2, <2>4 DEF LogInsert
  <2>5. CASE LogEnd(b)
    BY <1>2, <2>5 DEF LogEnd
  <2>6. CASE FlushCommit(b)
    BY <1>2, <2>6 DEF FlushCommit
  <2>7. CASE EndTransaction(b)
    BY <1>2, <2>7 DEF EndTransaction
  <2>8. CASE Scan(b)
    BY <1>2, <2>8 DEF Scan
  <2>9. CASE ScanNothing(b)
    BY <1>1, <2>9 DEF ScanNothing
  <2>10. CASE ReadBit(b)
    BY <1>2, <2>10 DEF ReadBit
  <2>11. CASE SetHintBits(b)
    BY <1>2, <2>11 DEF SetHintBits
  <2>12. CASE MarkBufferDirtyHint(b)
    BY <1>2, <2>12 DEF MarkBufferDirtyHint
  <2>13. CASE InsertFails(b)
    BY <1>2, <2>13 DEF InsertFails
  <2> QED BY <1>6, <2>1, <2>2, <2>3, <2>4, <2>5, <2>6, <2>7, <2>8, <2>9, <2>10, <2>11, <2>12, <2>13 DEF BackendMove
<1>7. ASSUME NEW p \in Backends \union {Startup}, SetBit(p) \/ SlruPhysicalReadPage(p) \/ (\E pg \in Pages : BeginRead(p, pg))
      PROVE  AtOK'
  <2>1. PICK where : /\ Goto(p, where)
                     /\ \/ where \in {IF p = Startup THEN "replay" ELSE "done", "failed", "xactRead"}
                        \/ where = io[p].back /\ at[p] = "xactRead"
    BY <1>7 DEF SetBit, SlruPhysicalReadPage, BeginRead
  <2>2. CASE p \in Backends
    <3>1. where \in BackendStates
      BY <1>c, <2>1, <2>2 DEF IOOK, IOStates, BackendStates
    <3> QED BY <1>2, <2>1, <2>2, <3>1
  <2>3. CASE p = Startup
    <3>1. where \in StartupStates
      BY <1>c, <2>1, <2>3 DEF IOOK, IOStates, StartupStates
    <3> QED BY <1>5, <2>1, <2>3, <3>1
  <2> QED BY <2>2, <2>3
<1>8. ASSUME NEW p \in Everyone \ {BgWriter},
             SlruWrite(p) \/ SlruWritten(p) \/ (\E pg \in Pages, back \in Backs : BeginWrite(p, pg, back))
      PROVE  AtOK'
  <2>1. PICK where : /\ Goto(p, where)
                     /\ \/ where \in {"xactWrite", "xactWritten"}
                        \/ where = io[p].back /\ at[p] = "xactWritten"
    BY <1>8 DEF SlruWrite, SlruWritten, BeginWrite
  <2>2. CASE p \in Backends
    <3>1. where \in BackendStates
      BY <1>c, <2>1, <2>2 DEF IOOK, IOStates, BackendStates
    <3> QED BY <1>2, <2>1, <2>2, <3>1
  <2>3. CASE p = Startup
    <3>1. where \in StartupStates
      BY <1>c, <2>1, <2>3 DEF IOOK, IOStates, StartupStates
    <3> QED BY <1>5, <2>1, <2>3, <3>1
  <2>4. CASE p = Checkpointer
    <3>1. where \in CkptStates
      BY <1>c, <2>1, <2>4 DEF IOOK, IOStates, CkptStates
    <3> QED BY <1>3, <2>1, <2>4, <3>1
  <2> QED BY <2>2, <2>3, <2>4 DEF Everyone
<1>9. ASSUME NEW p \in {BgWriter, Checkpointer}, BeginFlush(p) \/ HeapWrite(p) \/ HeapWritten(p) PROVE AtOK'
  <2>1. PICK where : Goto(p, where) /\ where \in {"heapWrite", "heapWritten", IF p = BgWriter THEN "idle" ELSE "ckSync"}
    BY <1>9 DEF BeginFlush, FlushBuffer, HeapWrite, HeapWritten
  <2>2. CASE p = BgWriter
    BY <2>1, <2>2, <1>4
  <2>3. CASE p = Checkpointer
    BY <2>1, <2>3, <1>3, <1>c DEF CkptStates
  <2> QED BY <2>2, <2>3
<1>10. ASSUME CheckpointerMove PROVE AtOK'
  <2> USE DEF CkptStates
  <2>1. CASE UpdateControlFile
    <3>1. at' = [at EXCEPT ![Checkpointer] = "idle", ![Startup] = "idle"]
      BY <2>1 DEF UpdateControlFile
    <3> QED BY <3>1, <1>c DEF AtOK, BackendStates, StartupStates
  <2>2. CASE \E pg \in checkPoint.pages : SkipPage(pg)
    BY <1>1, <2>2 DEF SkipPage
  <2>3. CASE CkptRedo
    BY <1>3, <2>3 DEF CkptRedo
  <2>4. CASE CkptNextXid
    BY <1>3, <2>4 DEF CkptNextXid
  <2>5. CASE CkptDelay
    BY <1>3, <2>5 DEF CkptDelay
  <2>6. CASE BufferSync
    BY <1>3, <2>6 DEF BufferSync
  <2>7. CASE SkipBuffer
    BY <1>3, <2>7 DEF SkipBuffer
  <2>8. CASE ProcessSyncRequests
    BY <1>3, <2>8 DEF ProcessSyncRequests
  <2>9. CASE CkptRecord
    BY <1>3, <2>9 DEF CkptRecord
  <2>10. CASE SlruWriteFailed
    BY <1>3, <2>10 DEF SlruWriteFailed
  <2>11. CASE HeapWriteFailed
    BY <1>3, <2>11 DEF HeapWriteFailed
  <2> QED BY <1>10, <2>1, <2>2, <2>3, <2>4, <2>5, <2>6, <2>7, <2>8, <2>9, <2>10, <2>11 DEF CheckpointerMove
<1>11. ASSUME StartupMove PROVE AtOK'
  <2> USE DEF StartupStates
  <2>1. CASE EndReplay
    <3>1. at' = [at EXCEPT ![Startup] = "recovered", ![Checkpointer] = "ckNextXid"]
      BY <2>1 DEF EndReplay
    <3> QED BY <3>1, <1>c DEF AtOK, CkptStates
  <2>2. CASE RedoTuple \/ RedoOther
    BY <1>1, <2>2 DEF RedoTuple, RedoOther
  <2>3. CASE RedoEnd
    BY <1>5, <2>3 DEF RedoEnd
  <2>4. CASE RedoZero
    BY <1>5, <2>4 DEF RedoZero
  <2> QED BY <1>11, <2>1, <2>2, <2>3, <2>4 DEF StartupMove
<1>12. ASSUME Crash PROVE AtOK'
  <2>1. at' = [Idle EXCEPT ![Startup] = "replay"]
    BY <1>12 DEF Crash
  <2> QED BY <2>1, <1>c DEF AtOK, Idle, BackendStates, CkptStates, StartupStates
<1>13. ASSUME SharedMove PROVE AtOK'
  BY <1>1, <1>7, <1>8, <1>9, <1>13 DEF SharedMove, TakeOver
<1> QED BY <1>1, <1>6, <1>10, <1>11, <1>12, <1>13 DEF Move, Nothing

(* --- Phases ------------------------------------------------------------------------ *)

\* The checkpointer, the background writer and the startup process are three, and none is a
\* backend.
LEMMA Names ==
  /\ Checkpointer \in Everyone /\ BgWriter \in Everyone /\ Startup \in Everyone /\ Backends \subseteq Everyone
  /\ Checkpointer \notin Backends /\ BgWriter \notin Backends /\ Startup \notin Backends
  /\ Checkpointer # BgWriter /\ BgWriter # Startup /\ Startup # Checkpointer
  /\ None \notin Everyone /\ NoOne \notin Everyone
BY DurabilityConstants DEF Everyone

\* Goto moves one process and nobody else.
LEMMA GotoOnly ==
  ASSUME AtOK, NEW p \in Everyone, NEW where, Goto(p, where)
  PROVE  at'[p] = where /\ \A q \in Everyone \ {p} : at'[q] = at[q]
BY DEF AtOK, Goto

(* A step of p that is no I/O. *)
LEMMA PlainPhase ==
  ASSUME AtOK, IOOK, NEW p \in Everyone, NEW where, Goto(p, where), at[p] \notin IOStates, where \notin IOStates, UNCHANGED io
  PROVE  /\ IOOK' /\ Phase(p) = at[p] /\ Phase(p)' = where
         /\ at'[p] = where /\ \A q \in Everyone \ {p} : at'[q] = at[q] /\ Phase(q)' = Phase(q)
<1>1. at'[p] = where /\ \A q \in Everyone \ {p} : at'[q] = at[q]
  BY GotoOnly
<1>2. \A q \in Everyone : at'[q] \in IOStates => at[q] \in IOStates
  BY <1>1
<1>3. IOOK'
  BY <1>2 DEF IOOK
<1> QED BY <1>1, <1>3 DEF Phase

(* p begins I/O on a page of pg_xact. *)
LEMMA BeginPhase ==
  ASSUME AtOK, IOOK, NEW p \in Everyone, NEW pg \in Pages, NEW back \in Backs, NEW where \in IOStates,
         io' = [io EXCEPT ![p] = [page |-> pg, back |-> back]], Goto(p, where), at[p] \notin IOStates,
         p \in Backends => back \in {"idle", "setStatus", "getStatus"},
         p = Checkpointer => back = "ckXact",
         p = Startup => back \in {"setStatus", "replay"}
  PROVE  /\ IOOK' /\ Phase(p)' = back /\ \A q \in Everyone \ {p} : Phase(q)' = Phase(q)
         /\ at'[p] = where /\ \A q \in Everyone \ {p} : at'[q] = at[q]
         /\ io'[p].page = pg /\ io'[p].back = back /\ \A q \in Everyone \ {p} : io'[q] = io[q]
<1>1. at'[p] = where /\ \A q \in Everyone \ {p} : at'[q] = at[q]
  BY GotoOnly
<1>2. io'[p].page = pg /\ io'[p].back = back /\ \A q \in Everyone \ {p} : io'[q] = io[q]
  BY DEF IOOK
<1>3. io' \in [Everyone -> [page : Ids, back : Backs \union {None}]]
  <2>1. [page |-> pg, back |-> back] \in [page : Ids, back : Backs \union {None}]
    BY PageOfXid DEF Ids
  <2> QED BY <2>1 DEF IOOK
<1>4. IOOK'
  BY <1>1, <1>2, <1>3 DEF IOOK
<1> QED BY <1>1, <1>2, <1>4 DEF Phase

(* p ends I/O on a page of pg_xact. *)
LEMMA EndPhase ==
  ASSUME AtOK, IOOK, NEW p \in Everyone, NEW where, io' = [io EXCEPT ![p] = NoIO[p]], Goto(p, where), where \notin IOStates
  PROVE  /\ IOOK' /\ Phase(p)' = where /\ \A q \in Everyone \ {p} : Phase(q)' = Phase(q)
         /\ at'[p] = where /\ \A q \in Everyone \ {p} : at'[q] = at[q]
         /\ \A q \in Everyone \ {p} : io'[q] = io[q]
<1>1. at'[p] = where /\ \A q \in Everyone \ {p} : at'[q] = at[q]
  BY GotoOnly
<1>2. \A q \in Everyone \ {p} : io'[q] = io[q]
  BY DEF IOOK
<1>3. io' \in [Everyone -> [page : Ids, back : Backs \union {None}]]
  <2>1. NoIO[p] \in [page : Ids, back : Backs \union {None}]
    BY DEF NoIO, Ids
  <2> QED BY <2>1 DEF IOOK
<1>4. IOOK'
  BY <1>1, <1>2, <1>3 DEF IOOK
<1> QED BY <1>1, <1>2, <1>4 DEF Phase

(* Who else is where he was. *)
OthersThere(p) == \A q \in Everyone \ {p} : at'[q] = at[q] /\ Phase(q)' = Phase(q)

\* A step of a backend's own program starts and ends outside of pg_xact I/O and moves
\* nobody else.
LEMMA BackendPhases ==
  ASSUME ControlInv, NEW b \in Backends, BackendMove(b)
  PROVE  /\ IOOK' /\ Phase(b) = at[b] /\ Phase(b)' = at'[b] /\ OthersThere(b)
         /\ at[b] \notin IOStates /\ at'[b] \notin IOStates /\ UNCHANGED io
<1> USE Names DEF ControlInv, OthersThere
<1>1. ASSUME NEW where, Goto(b, where), at[b] \notin IOStates, where \notin IOStates, UNCHANGED io
      PROVE  /\ IOOK' /\ Phase(b) = at[b] /\ Phase(b)' = at'[b] /\ OthersThere(b)
             /\ at[b] \notin IOStates /\ at'[b] \notin IOStates
  BY <1>1, PlainPhase
<1>2. CASE ScanNothing(b)
  BY <1>2 DEF ScanNothing, Starts, IOOK, Phase, IOStates
<1> USE DEF IOStates
<1>3. CASE ZeroNext(b)
  BY <1>1, <1>3 DEF ZeroNext, Starts
<1>4. CASE GetNewTransactionId(b)
  BY <1>1, <1>4 DEF GetNewTransactionId, Starts
<1>5. CASE InsertTuple(b)
  BY <1>1, <1>5 DEF InsertTuple
<1>6. CASE LogInsert(b)
  BY <1>1, <1>6 DEF LogInsert
<1>7. CASE LogEnd(b)
  BY <1>1, <1>7 DEF LogEnd
<1>8. CASE FlushCommit(b)
  BY <1>1, <1>8 DEF FlushCommit
<1>9. CASE EndTransaction(b)
  BY <1>1, <1>9 DEF EndTransaction
<1>10. CASE Scan(b)
  BY <1>1, <1>10 DEF Scan, Starts
<1>11. CASE ReadBit(b)
  BY <1>1, <1>11 DEF ReadBit
<1>12. CASE SetHintBits(b)
  BY <1>1, <1>12 DEF SetHintBits
<1>13. CASE MarkBufferDirtyHint(b)
  BY <1>1, <1>13 DEF MarkBufferDirtyHint
<1>14. CASE InsertFails(b)
  BY <1>1, <1>14 DEF InsertFails
<1> QED BY <1>2, <1>3, <1>4, <1>5, <1>6, <1>7, <1>8, <1>9, <1>10, <1>11, <1>12, <1>13, <1>14 DEF BackendMove

\* Steps of a checkpoint move only the checkpointer; the last one also releases the startup
\* process.
LEMMA CheckpointerPhases ==
  ASSUME ControlInv, CheckpointerMove
  PROVE  /\ IOOK' /\ Phase(Checkpointer)' = at'[Checkpointer] /\ at'[Checkpointer] \notin IOStates
         /\ UpdateControlFile \/ (at'[Startup] = at[Startup] /\ Phase(Startup)' = Phase(Startup))
         /\ UpdateControlFile => at'[Startup] = "idle" /\ Phase(Startup)' = "idle" /\ at[Startup] \in {"idle", "recovered"}
         /\ \A q \in Backends \union {BgWriter} : at'[q] = at[q] /\ Phase(q)' = Phase(q)
         /\ \A q \in Everyone \ {Checkpointer} : io'[q] = io[q]
<1> USE Names DEF ControlInv
<1>1. ASSUME NEW where, Goto(Checkpointer, where), at[Checkpointer] \notin IOStates, where \notin IOStates, UNCHANGED io
      PROVE  /\ IOOK' /\ Phase(Checkpointer)' = at'[Checkpointer] /\ at'[Checkpointer] \notin IOStates
             /\ at'[Startup] = at[Startup] /\ Phase(Startup)' = Phase(Startup)
             /\ \A q \in Backends \union {BgWriter} : at'[q] = at[q] /\ Phase(q)' = Phase(q)
             /\ UNCHANGED io
  BY <1>1, PlainPhase
<1>2. CASE UpdateControlFile
  <2>1. at' = [at EXCEPT ![Checkpointer] = "idle", ![Startup] = "idle"] /\ io' = io /\ at[Checkpointer] = "ckControl"
    BY <1>2 DEF UpdateControlFile
  <2>2. at'[Checkpointer] = "idle" /\ at'[Startup] = "idle" /\ \A q \in Backends \union {BgWriter} : at'[q] = at[q]
    BY <2>1 DEF AtOK
  <2>3. \A q \in Everyone : at'[q] \in IOStates => at[q] \in IOStates
    BY <2>2 DEF Everyone, IOStates
  <2>4. at[Startup] \in {"idle", "recovered"}
    BY <2>1 DEF StartupOK, Replaying
  <2>5. IOOK'
    BY <2>1, <2>3 DEF IOOK
  <2> QED BY <1>2, <2>1, <2>2, <2>4, <2>5 DEF Phase, IOStates
<1>3. CASE SlruWriteFailed
  <2>1. io' = [io EXCEPT ![Checkpointer] = NoIO[Checkpointer]] /\ Goto(Checkpointer, "idle")
    BY <1>3 DEF SlruWriteFailed
  <2>2. ~UpdateControlFile
    BY <1>3 DEF SlruWriteFailed, UpdateControlFile
  <2>3. "idle" \notin IOStates
    BY DEF IOStates
  <2>4. /\ IOOK' /\ Phase(Checkpointer)' = "idle" /\ \A q \in Everyone \ {Checkpointer} : Phase(q)' = Phase(q)
        /\ at'[Checkpointer] = "idle" /\ \A q \in Everyone \ {Checkpointer} : at'[q] = at[q]
        /\ \A q \in Everyone \ {Checkpointer} : io'[q] = io[q]
    BY <2>1, <2>3, EndPhase
  <2> QED BY <2>2, <2>3, <2>4
<1>4. CASE \E pg \in checkPoint.pages : SkipPage(pg)
  BY <1>4 DEF SkipPage, UpdateControlFile, IOOK, Phase, IOStates
<1> USE DEF IOStates
<1>5. CASE CkptRedo
  BY <1>1, <1>5 DEF CkptRedo, UpdateControlFile
<1>6. CASE CkptNextXid
  BY <1>1, <1>6 DEF CkptNextXid, UpdateControlFile
<1>7. CASE CkptDelay
  BY <1>1, <1>7 DEF CkptDelay, UpdateControlFile
<1>8. CASE BufferSync
  BY <1>1, <1>8 DEF BufferSync, UpdateControlFile
<1>9. CASE SkipBuffer
  BY <1>1, <1>9 DEF SkipBuffer, UpdateControlFile
<1>10. CASE ProcessSyncRequests
  BY <1>1, <1>10 DEF ProcessSyncRequests, UpdateControlFile
<1>11. CASE CkptRecord
  BY <1>1, <1>11 DEF CkptRecord, UpdateControlFile
<1>12. CASE HeapWriteFailed
  BY <1>1, <1>12 DEF HeapWriteFailed, UpdateControlFile
<1> QED BY <1>2, <1>3, <1>4, <1>5, <1>6, <1>7, <1>8, <1>9, <1>10, <1>11, <1>12 DEF CheckpointerMove

\* Steps of replay move only the startup process; the last one starts the end-of-recovery
\* checkpoint.
LEMMA StartupPhases ==
  ASSUME ControlInv, StartupMove
  PROVE  /\ IOOK' /\ at[Startup] = "replay" /\ at'[Startup] \in {"replay", "setStatus", "writeZeroes", "recovered"}
         /\ Phase(Startup)' = at'[Startup] /\ UNCHANGED io
         /\ \A q \in Backends \union {BgWriter} : at'[q] = at[q] /\ Phase(q)' = Phase(q)
         /\ EndReplay => at'[Startup] = "recovered" /\ at'[Checkpointer] = "ckNextXid" /\ Phase(Checkpointer)' = "ckNextXid"
         /\ EndReplay \/ (at'[Checkpointer] = at[Checkpointer] /\ Phase(Checkpointer)' = Phase(Checkpointer))
         /\ at'[Startup] = "setStatus" => RedoEnd
         /\ at'[Startup] = "writeZeroes" => RedoZero
         /\ at'[Startup] = "recovered" => EndReplay
<1> USE Names DEF ControlInv
<1>1. CASE EndReplay
  <2>1. at' = [at EXCEPT ![Startup] = "recovered", ![Checkpointer] = "ckNextXid"] /\ io' = io /\ at[Startup] = "replay"
    BY <1>1 DEF EndReplay
  <2>2. at'[Startup] = "recovered" /\ at'[Checkpointer] = "ckNextXid" /\ \A q \in Backends \union {BgWriter} : at'[q] = at[q]
    BY <2>1 DEF AtOK
  <2>3. \A q \in Everyone : at'[q] \in IOStates => at[q] \in IOStates
    BY <2>2 DEF Everyone, IOStates
  <2>4. IOOK'
    BY <2>1, <2>3 DEF IOOK
  <2> QED BY <1>1, <2>1, <2>2, <2>4 DEF Phase, IOStates
<1>0. replay \in Nat /\ Len(log) \in Nat
  <2>1. at[Startup] = "replay"
    BY DEF StartupMove, RedoTuple, RedoEnd, RedoZero, RedoOther, Redo, EndReplay
  <2> QED BY <2>1 DEF StartupOK, Replaying, LogOK
<1>a. replay <= Len(log) => ~EndReplay
  <2>1. EndReplay => replay > Len(log)
    BY DEF EndReplay
  <2> QED BY <1>0, <2>1
<1>2. CASE RedoTuple \/ RedoOther
  <2>1. at' = at /\ io' = io /\ at[Startup] = "replay" /\ ~EndReplay
    BY <1>a, <1>2 DEF RedoTuple, RedoOther, Redo
  <2>2. at'[Startup] = "replay"
    BY <2>1
  <2> QED BY <2>1, <2>2 DEF IOOK, Phase, IOStates
<1>3. CASE RedoEnd
  <2>1. Goto(Startup, "setStatus") /\ io' = io /\ at[Startup] = "replay" /\ ~EndReplay
    BY <1>a, <1>3 DEF RedoEnd, Redo
  <2>2. "setStatus" \notin IOStates /\ "replay" \notin IOStates
    BY DEF IOStates
  <2>3. /\ IOOK' /\ Phase(Startup)' = "setStatus" /\ at'[Startup] = "setStatus"
        /\ \A q \in Everyone \ {Startup} : at'[q] = at[q] /\ Phase(q)' = Phase(q)
    BY <2>1, <2>2, PlainPhase
  <2> QED BY <1>3, <2>1, <2>2, <2>3
<1>4. CASE RedoZero
  <2>1. Goto(Startup, "writeZeroes") /\ io' = io /\ at[Startup] = "replay" /\ ~EndReplay
    BY <1>a, <1>4 DEF RedoZero, Redo
  <2>2. "writeZeroes" \notin IOStates /\ "replay" \notin IOStates
    BY DEF IOStates
  <2>3. /\ IOOK' /\ Phase(Startup)' = "writeZeroes" /\ at'[Startup] = "writeZeroes"
        /\ \A q \in Everyone \ {Startup} : at'[q] = at[q] /\ Phase(q)' = Phase(q)
    BY <2>1, <2>2, PlainPhase
  <2> QED BY <1>4, <2>1, <2>2, <2>3
<1> QED BY <1>1, <1>2, <1>3, <1>4 DEF StartupMove

(* I/O on a page of pg_xact leaves the phase as it is, but for the startup process, which      *)
(* goes on after it has written a zeroed page, and for an error.                            *)
LEMMA ReadPhases ==
  ASSUME ControlInv, NEW p \in Backends \union {Startup}, SlruPhysicalReadPage(p)
  PROVE  /\ IOOK' /\ OthersThere(p) /\ \A q \in Everyone \ {p} : io'[q] = io[q]
         /\ at[p] = "xactRead" /\ at'[p] = Phase(p)' /\ Phase(p)' \in {Phase(p), "failed"}
<1> USE Names DEF ControlInv
<1>1. PICK where : Goto(p, where) /\ where \in {io[p].back, "failed"} /\ io' = [io EXCEPT ![p] = NoIO[p]] /\ at[p] = "xactRead"
  BY DEF SlruPhysicalReadPage
<1>2. where \notin IOStates
  BY <1>1 DEF IOOK, IOStates, Everyone
<1>3. p \in Everyone /\ Phase(p) = io[p].back
  BY <1>1 DEF Everyone, Phase, IOStates
<1>4. /\ IOOK' /\ Phase(p)' = where /\ \A q \in Everyone \ {p} : Phase(q)' = Phase(q)
      /\ at'[p] = where /\ \A q \in Everyone \ {p} : at'[q] = at[q]
      /\ \A q \in Everyone \ {p} : io'[q] = io[q]
  BY <1>1, <1>2, <1>3, EndPhase
<1> QED BY <1>1, <1>3, <1>4 DEF OthersThere

\* The start of a read keeps the reader's phase: the place it will come back to.
LEMMA BeginReadPhases ==
  ASSUME ControlInv, NEW p \in Backends \union {Startup}, NEW pg \in Pages, BeginRead(p, pg)
  PROVE  /\ IOOK' /\ OthersThere(p) /\ \A q \in Everyone \ {p} : io'[q] = io[q]
         /\ Phase(p)' = Phase(p) /\ Phase(p) = at[p] /\ at'[p] = "xactRead" /\ io'[p].page = pg
<1> USE Names DEF ControlInv
<1>1. io' = [io EXCEPT ![p] = [page |-> pg, back |-> at[p]]] /\ Goto(p, "xactRead") /\ p \in Everyone
  BY DEF BeginRead, Everyone
<1>2. at[p] \in {"setStatus", "getStatus", "replay"} /\ "xactRead" \in IOStates
  BY DEF BeginRead, Wants, IOStates
<1>3. at[p] \in Backs /\ at[p] \notin IOStates /\ Phase(p) = at[p]
  BY <1>2 DEF Backs, IOStates, Phase
<1>4. /\ p \in Backends => at[p] \in {"idle", "setStatus", "getStatus"}
      /\ p = Checkpointer => at[p] = "ckXact"
      /\ p = Startup => at[p] \in {"setStatus", "replay"}
  BY <1>2 DEF AtOK, BackendStates, StartupStates, IOStates
<1>5. /\ IOOK' /\ Phase(p)' = at[p] /\ \A q \in Everyone \ {p} : Phase(q)' = Phase(q)
      /\ at'[p] = "xactRead" /\ \A q \in Everyone \ {p} : at'[q] = at[q]
      /\ io'[p].page = pg /\ \A q \in Everyone \ {p} : io'[q] = io[q]
  BY <1>1, <1>2, <1>3, <1>4, BeginPhase, ZenonT(60)
<1> QED BY <1>3, <1>5 DEF OthersThere

\* The start of a write of a pg_xact page keeps the writer's phase, but for the replay of a
\* zeroing, which is over with its write.
LEMMA BeginWritePhases ==
  ASSUME ControlInv, NEW p \in Everyone \ {BgWriter}, NEW pg \in Pages, NEW back \in Backs, BeginWrite(p, pg, back)
  PROVE  /\ IOOK' /\ OthersThere(p) /\ \A q \in Everyone \ {p} : io'[q] = io[q]
         /\ at'[p] = "xactWrite" /\ io'[p].page = pg /\ Phase(p)' = back /\ at[p] \notin IOStates /\ Phase(p) = at[p]
         /\ back = at[p] \/ (p = Startup /\ at[p] = "writeZeroes" /\ back = "replay")
<1> USE Names DEF ControlInv
<1>1. io' = [io EXCEPT ![p] = [page |-> pg, back |-> back]] /\ Goto(p, "xactWrite") /\ p \in Everyone
  BY DEF BeginWrite
<1>2. \/ at[p] \in {"setStatus", "getStatus", "replay", "ckXact"} /\ back = at[p]
      \/ p \in Backends /\ at[p] = "idle" /\ back = at[p]
      \/ p = Startup /\ at[p] = "writeZeroes" /\ back = "replay"
  BY DEF BeginWrite
<1>3. at[p] \notin IOStates /\ Phase(p) = at[p] /\ "xactWrite" \in IOStates
  BY <1>2 DEF IOStates, Phase
<1>4. /\ p \in Backends => back \in {"idle", "setStatus", "getStatus"}
      /\ p = Checkpointer => back = "ckXact"
      /\ p = Startup => back \in {"setStatus", "replay"}
  BY <1>2 DEF AtOK, BackendStates, StartupStates, CkptStates, IOStates
<1>5. /\ IOOK' /\ Phase(p)' = back /\ \A q \in Everyone \ {p} : Phase(q)' = Phase(q)
      /\ at'[p] = "xactWrite" /\ \A q \in Everyone \ {p} : at'[q] = at[q]
      /\ io'[p].page = pg /\ io'[p].back = back /\ \A q \in Everyone \ {p} : io'[q] = io[q]
  <2>1. AtOK /\ IOOK /\ p \in Everyone /\ pg \in Pages /\ back \in Backs
    BY <1>1
  <2> HIDE Names DEF ControlInv
  <2> QED BY <2>1, <1>1, <1>3, <1>4, BeginPhase
<1> QED BY <1>2, <1>3, <1>5 DEF OthersThere

\* The write itself keeps the writer's phase.
LEMMA WritePhases ==
  ASSUME ControlInv, NEW p \in Everyone \ {BgWriter}, SlruWrite(p)
  PROVE  /\ IOOK' /\ OthersThere(p) /\ UNCHANGED io
         /\ Phase(p)' = Phase(p) /\ at[p] = "xactWrite" /\ at'[p] = "xactWritten"
<1> USE Names DEF ControlInv
<1>1. at[p] = "xactWrite" /\ at'[p] = "xactWritten" /\ io' = io /\ \A q \in Everyone \ {p} : at'[q] = at[q]
  BY GotoOnly DEF SlruWrite
<1>2. IOOK'
  BY <1>1 DEF IOOK, IOStates
<1> QED BY <1>1, <1>2 DEF OthersThere, Phase, IOStates

\* The end of a write brings the writer back to its phase.
LEMMA WrittenPhases ==
  ASSUME ControlInv, NEW p \in Everyone \ {BgWriter}, SlruWritten(p)
  PROVE  /\ IOOK' /\ OthersThere(p) /\ \A q \in Everyone \ {p} : io'[q] = io[q]
         /\ at[p] = "xactWritten" /\ at'[p] = Phase(p)' /\ Phase(p)' = Phase(p) /\ at'[p] \notin IOStates
<1> USE Names DEF ControlInv
<1>1. Goto(p, io[p].back) /\ io' = [io EXCEPT ![p] = NoIO[p]] /\ at[p] = "xactWritten"
  BY DEF SlruWritten
<1>2. io[p].back \notin IOStates
  BY <1>1 DEF IOOK, IOStates, Everyone
<1>3. Phase(p) = io[p].back
  BY <1>1 DEF Phase, IOStates
<1>4. /\ IOOK' /\ Phase(p)' = io[p].back /\ \A q \in Everyone \ {p} : Phase(q)' = Phase(q)
      /\ at'[p] = io[p].back /\ \A q \in Everyone \ {p} : at'[q] = at[q]
      /\ \A q \in Everyone \ {p} : io'[q] = io[q]
  BY <1>1, <1>2, EndPhase
<1> QED BY <1>1, <1>2, <1>3, <1>4 DEF OthersThere

\* Setting a status bit ends the commit of a backend and the replay of its record.
LEMMA SetBitPhases ==
  ASSUME ControlInv, NEW p \in Backends \union {Startup}, SetBit(p)
  PROVE  /\ IOOK' /\ OthersThere(p) /\ UNCHANGED io
         /\ at[p] = "setStatus" /\ Phase(p) = "setStatus" /\ at'[p] = Phase(p)'
         /\ at'[p] = IF p = Startup THEN "replay" ELSE "done"
<1> USE Names DEF ControlInv
<1>1. PICK where : where = IF p = Startup THEN "replay" ELSE "done"
  OBVIOUS
<1>2. Goto(p, where) /\ UNCHANGED io /\ at[p] = "setStatus" /\ p \in Everyone
  BY <1>1 DEF SetBit, Everyone
<1>3. where \notin IOStates /\ at[p] \notin IOStates
  BY <1>1, <1>2 DEF IOStates
<1>4. /\ IOOK' /\ Phase(p) = at[p] /\ Phase(p)' = where
      /\ at'[p] = where /\ \A q \in Everyone \ {p} : at'[q] = at[q] /\ Phase(q)' = Phase(q)
  BY <1>2, <1>3, PlainPhase
<1> QED BY <1>1, <1>2, <1>4 DEF OthersThere

\* The three steps of FlushBuffer, for the background writer and for the checkpointer.
LEMMA HeapIOPhases ==
  ASSUME ControlInv, NEW p \in {BgWriter, Checkpointer}, BeginFlush(p) \/ HeapWrite(p) \/ HeapWritten(p)
  PROVE  /\ IOOK' /\ OthersThere(p) /\ UNCHANGED io
         /\ Phase(p) = at[p] /\ at'[p] = Phase(p)' /\ at[p] \notin IOStates /\ at'[p] \notin IOStates
         /\ at'[p] \in {"heapWrite", "heapWritten", "idle", "ckSync"}
         /\ p = Checkpointer => at[p] \in {"ckBuffer", "heapWrite", "heapWritten"} /\ at'[p] # "idle"
         /\ BeginFlush(p) <=> at'[p] = "heapWrite"
         /\ HeapWrite(p) <=> at'[p] = "heapWritten"
         /\ HeapWritten(p) <=> at'[p] \in {"idle", "ckSync"}
         /\ HeapWritten(p) => (at'[p] = "idle" <=> p = BgWriter)
<1> USE Names DEF ControlInv
<1>1. PICK where :
        /\ Goto(p, where) /\ UNCHANGED io
        /\ \/ BeginFlush(p) /\ where = "heapWrite" /\ ((p = BgWriter /\ at[p] = "idle") \/ (p = Checkpointer /\ at[p] = "ckBuffer"))
           \/ HeapWrite(p) /\ where = "heapWritten" /\ at[p] = "heapWrite"
           \/ HeapWritten(p) /\ where = (IF p = BgWriter THEN "idle" ELSE "ckSync") /\ at[p] = "heapWritten"
  BY DEF BeginFlush, FlushBuffer, HeapWrite, HeapWritten
<1>2. where \notin IOStates /\ at[p] \notin IOStates /\ p \in Everyone
  BY <1>1 DEF IOStates, Everyone
<1>3. /\ IOOK' /\ Phase(p) = at[p] /\ Phase(p)' = where
      /\ at'[p] = where /\ \A q \in Everyone \ {p} : at'[q] = at[q] /\ Phase(q)' = Phase(q)
  BY <1>1, <1>2, PlainPhase
<1>4. /\ BeginFlush(p) => at'[p] = "heapWrite"
      /\ HeapWrite(p) => at'[p] = "heapWritten"
      /\ HeapWritten(p) => at'[p] = IF p = BgWriter THEN "idle" ELSE "ckSync"
  BY <1>2, GotoOnly DEF BeginFlush, FlushBuffer, HeapWrite, HeapWritten
<1> QED BY <1>1, <1>2, <1>3, <1>4 DEF OthersThere

\* After a crash only the startup process is active.
LEMMA CrashPhases ==
  ASSUME Crash
  PROVE  /\ IOOK' /\ at'[Startup] = "replay" /\ \A q \in Everyone \ {Startup} : at'[q] = "idle"
         /\ \A q \in Everyone : Phase(q)' = at'[q] /\ at'[q] \notin IOStates
<1> USE Names
<1>1. at' = [Idle EXCEPT ![Startup] = "replay"] /\ io' = NoIO
  BY DEF Crash
<1>2. at'[Startup] = "replay" /\ \A q \in Everyone \ {Startup} : at'[q] = "idle"
  BY <1>1 DEF Idle
<1>3. \A q \in Everyone : at'[q] \notin IOStates
  BY <1>2 DEF IOStates
<1>4. io' \in [Everyone -> [page : Ids, back : Backs \union {None}]]
  BY <1>1 DEF NoIO, Ids
<1> QED BY <1>2, <1>3, <1>4 DEF IOOK, Phase

\* Every step keeps IOOK: who reads or writes a page of pg_xact knows the page and a place of its
\* own program to go back to.
LEMMA IOStep ==
  ASSUME ControlInv, Move
  PROVE  IOOK'
<1>1. ASSUME UNCHANGED <<at, io>> PROVE IOOK'
  BY <1>1 DEF ControlInv, IOOK
<1>2. ASSUME SharedMove PROVE IOOK'
  <2>1. ASSUME NEW p \in Backends \union {Startup},
               SetBit(p) \/ SlruPhysicalReadPage(p) \/ (\E pg \in Pages : BeginRead(p, pg))
        PROVE  IOOK'
    BY <2>1, SetBitPhases, ReadPhases, BeginReadPhases
  <2>2. ASSUME NEW p \in Everyone \ {BgWriter},
               SlruWrite(p) \/ SlruWritten(p) \/ (\E pg \in Pages, back \in Backs : BeginWrite(p, pg, back))
        PROVE  IOOK'
    BY <2>2, WritePhases, WrittenPhases, BeginWritePhases
  <2>3. ASSUME NEW pg \in Pages, TakeOver(pg) PROVE IOOK'
    BY <1>1, <2>3 DEF TakeOver
  <2>4. ASSUME NEW p \in {BgWriter, Checkpointer}, BeginFlush(p) \/ HeapWrite(p) \/ HeapWritten(p) PROVE IOOK'
    BY <2>4, HeapIOPhases
  <2> QED BY <1>2, <2>1, <2>2, <2>3, <2>4 DEF SharedMove
<1>3. Nothing => IOOK'
  BY <1>1 DEF Nothing
<1> QED BY <1>2, <1>3, BackendPhases, CheckpointerPhases, StartupPhases, CrashPhases DEF Move

(* --- Transactions ------------------------------------------------------------------ *)

\* A process without a transaction has a well-formed record of none.
LEMMA NoXactType ==
  ASSUME NEW p \in Everyone
  PROVE  NoXact[p] \in MyType /\ NoXact[p].kind = None
BY DEF NoXact, MyType, Kinds, Ids

(* Fields of p's transaction are assigned. *)
LEMMA OneXact ==
  ASSUME MyOK, NEW p \in Everyone, NEW new \in MyType, my' = [my EXCEPT ![p] = new]
  PROVE  my' \in [Everyone -> MyType] /\ my'[p] = new /\ \A q \in Everyone \ {p} : my'[q] = my[q]
BY DEF MyOK

\* Every step keeps MyOK: what a process knows of its transaction fits the place it is at.
LEMMA MyStep ==
  ASSUME ControlInv, Move
  PROVE  MyOK'
<1> USE Names DEF ControlInv
<1>1. ASSUME NEW b \in Backends, my'[b] = my[b], Phase(b)' \in {Phase(b), "failed"}, page.tuples \subseteq page'.tuples
      PROVE  XactOK(b)'
  BY <1>1 DEF MyOK, XactOK
<1>2. ASSUME UNCHANGED my, \A b \in Backends : Phase(b)' \in {Phase(b), "failed"}, page.tuples \subseteq page'.tuples
      PROVE  MyOK'
  BY <1>1, <1>2 DEF MyOK
<1>3. ASSUME NEW b \in Backends, BackendMove(b) PROVE MyOK'
  <2>0. Phase(b) = at[b] /\ Phase(b)' = at'[b] /\ OthersThere(b)
    BY <1>3, BackendPhases
  <2>1. ASSUME page.tuples \subseteq page'.tuples, my' \in [Everyone -> MyType], XactOK(b)',
               \A q \in Everyone \ {b} : my'[q] = my[q]
        PROVE  MyOK'
    <3>1. ASSUME NEW c \in Backends, c # b PROVE XactOK(c)'
      BY <1>1, <2>0, <2>1, <3>1 DEF OthersThere
    <3> QED BY <2>1, <3>1 DEF MyOK
  <2>2. XactOK(b) /\ my \in [Everyone -> MyType] /\ my[b] \in MyType /\ at'[b] = Phase(b)' /\ AtOK /\ b \in Everyone
    BY <2>0 DEF MyOK
  <2>a. ASSUME NEW where, Goto(b, where) PROVE Phase(b)' = where
    BY <2>a, <2>0, <2>2, GotoOnly
  <2>3. CASE ZeroNext(b)
    <3>1. Phase(b)' = "extended" /\ Phase(b) = "idle" /\ UNCHANGED <<my, page>>
      BY <2>0, <2>3, <2>a DEF ZeroNext, Starts, AllButIO
    <3>2. XactOK(b)'
      BY <3>1, <2>2 DEF XactOK
    <3> QED BY <2>1, <2>2, <3>1, <3>2
  <2>4. CASE GetNewTransactionId(b)
    <3>1. Phase(b)' = "insert" /\ UNCHANGED page /\ Head(todo[b]) \in Updates /\ nextXid \in Xids
      <4>1. Head(todo[b]) \in Updates
        BY <2>4 DEF GetNewTransactionId, Starts, XidGenOK
      <4>2. nextXid \in Xids
        BY <2>4 DEF GetNewTransactionId, XidGenOK, NextXids, Xids
      <4> QED BY <4>1, <4>2, <2>4, <2>a DEF GetNewTransactionId, heapVars
    <3> DEFINE new == [my[b] EXCEPT !.kind = Head(todo[b]), !.xid = nextXid]
    <3>2. new \in MyType /\ new.kind \in Updates /\ new.xid \in Xids
      BY <2>2, <3>1, PageOfXid DEF MyType, Kinds, Updates, Ids
    <3>3. my' = [my EXCEPT ![b] = new]
      BY <2>2, <2>4 DEF GetNewTransactionId
    <3> HIDE DEF new
    <3>4. my' \in [Everyone -> MyType] /\ my'[b] = new /\ \A q \in Everyone \ {b} : my'[q] = my[q]
      BY <2>2, <3>2, <3>3, OneXact
    <3>5. XactOK(b)'
      BY <3>1, <3>2, <3>4 DEF XactOK, Updates
    <3> QED BY <2>1, <3>1, <3>4, <3>5
  <2>5. CASE InsertTuple(b)
    <3>1. Phase(b)' = "logInsert" /\ Phase(b) = "insert" /\ UNCHANGED my
      BY <2>0, <2>5, <2>a DEF InsertTuple
    <3>2. page.tuples \subseteq page'.tuples
      BY <2>5 DEF InsertTuple, PutTuple, HeapOK, Content
    <3>3. XactOK(b)'
      BY <3>1, <3>2, <2>2 DEF XactOK
    <3> QED BY <2>1, <2>2, <3>1, <3>2, <3>3
  <2>6. CASE LogInsert(b)
    <3>1. Phase(b)' = "end" /\ Phase(b) = "logInsert" /\ UNCHANGED my
      BY <2>0, <2>6, <2>a DEF LogInsert
    <3>2. page.tuples \subseteq page'.tuples
      BY <2>6 DEF LogInsert, Stamp, HeapOK, Content
    <3>3. XactOK(b)'
      BY <3>1, <3>2, <2>2 DEF XactOK
    <3> QED BY <2>1, <2>2, <3>1, <3>2, <3>3
  <2>7. CASE LogEnd(b)
    <3>1. Phase(b) = "end" /\ UNCHANGED page /\ Phase(b)' = IF my[b].kind = "sync" THEN "flush" ELSE "setStatus"
      BY <2>0, <2>7, <2>a DEF LogEnd, heapVars
    <3> DEFINE new == [my[b] EXCEPT !.lsn = Len(log) + 1]
    <3>2. new \in MyType /\ new.kind = my[b].kind /\ new.xid = my[b].xid
      <4>1. Len(log) + 1 \in Nat
        BY DEF LogOK
      <4> QED BY <2>2, <4>1 DEF MyType
    <3>3. my' = [my EXCEPT ![b] = new]
      BY <2>2, <2>7 DEF LogEnd
    <3> HIDE DEF new
    <3>4. my' \in [Everyone -> MyType] /\ my'[b] = new /\ \A q \in Everyone \ {b} : my'[q] = my[q]
      BY <2>2, <3>2, <3>3, OneXact
    <3>5. XactOK(b)'
      BY <2>2, <3>1, <3>2, <3>4 DEF XactOK
    <3> QED BY <2>1, <3>1, <3>4, <3>5
  <2>8. CASE FlushCommit(b)
    <3>1. Phase(b)' = "setStatus" /\ Phase(b) = "flush" /\ UNCHANGED <<my, page>>
      BY <2>0, <2>8, <2>a DEF FlushCommit, heapVars
    <3>2. XactOK(b)'
      BY <3>1, <2>2 DEF XactOK
    <3> QED BY <2>1, <2>2, <3>1, <3>2
  <2>9. ASSUME my' = [my EXCEPT ![b] = NoXact[b]], Goto(b, "idle"), UNCHANGED page PROVE MyOK'
    <3>1. my' \in [Everyone -> MyType] /\ my'[b] = NoXact[b] /\ \A q \in Everyone \ {b} : my'[q] = my[q]
      BY <2>2, <2>9, OneXact, NoXactType
    <3>2. Phase(b)' = "idle"
      BY <2>9, <2>a
    <3>3. XactOK(b)'
      BY <2>2, <3>1, <3>2, NoXactType, DurabilityConstants DEF XactOK, Updates, Lookups
    <3> QED BY <2>1, <2>9, <3>1, <3>3
  <2>10. CASE EndTransaction(b)
    BY <2>9, <2>10 DEF EndTransaction, heapVars
  <2>11. CASE Scan(b)
    <3>1. Phase(b)' = "getStatus" /\ UNCHANGED page
      BY <2>11, <2>a DEF Scan
    <3>2. PICK kind \in Lookups, x \in Xids : x \in Unhinted(kind) /\ my' = [my EXCEPT ![b].kind = kind, ![b].xid = x]
      <4>1. \A kind \in Lookups : Unhinted(kind) \subseteq Xids
        BY DEF Unhinted, HeapOK, Content
      <4> QED BY <2>11, <4>1 DEF Scan, Lookups
    <3>7. x \in Xids /\ (kind = "scan" => x \in page.tuples)
      BY <3>2 DEF Unhinted, HeapOK, Content
    <3> DEFINE new == [my[b] EXCEPT !.kind = kind, !.xid = x]
    <3>3. new \in MyType /\ new.kind = kind /\ new.xid = x
      <4>1. x \in Ids /\ kind \in Kinds
        BY <3>7, PageOfXid DEF Ids, Kinds, Lookups
      <4> QED BY <2>2, <4>1 DEF MyType
    <3>4. my' = [my EXCEPT ![b] = new]
      BY <2>2, <3>2
    <3> HIDE DEF new
    <3>5. my' \in [Everyone -> MyType] /\ my'[b] = new /\ \A q \in Everyone \ {b} : my'[q] = my[q]
      BY <2>2, <3>3, <3>4, OneXact
    <3>6. XactOK(b)'
      BY <3>1, <3>2, <3>3, <3>5, <3>7 DEF XactOK, Updates, Lookups
    <3> QED BY <2>1, <3>1, <3>5, <3>6
  <2>12. CASE ScanNothing(b)
    <3>1. UNCHANGED <<my, page, at, io>>
      BY <2>12 DEF ScanNothing, heapVars
    <3>2. XactOK(b)'
      BY <3>1, <2>2 DEF XactOK, Phase
    <3> QED BY <2>1, <2>2, <3>1, <3>2
  <2>13. CASE ReadBit(b)
    <3>1. Phase(b)' = "hint" /\ UNCHANGED page /\ Phase(b) = "getStatus"
      BY <2>0, <2>13, <2>a DEF ReadBit, heapVars
    <3>2. my[b].xid \in Xids /\ TransactionIdToPage(my[b].xid) \in Pages /\ my[b].xid \in On(TransactionIdToPage(my[b].xid))
      BY <2>0, <3>1, XidToMark, PageOfXid
    <3>3. PICK st, lsn : st = slot[TransactionIdToPage(my[b].xid)].bits[my[b].xid] /\ lsn = slot[TransactionIdToPage(my[b].xid)].lsn
      OBVIOUS
    <3>4. st \in Status /\ lsn \in Nat
      BY <3>2, <3>3 DEF SlotOK, SlotType
    <3> DEFINE new == [my[b] EXCEPT !.status = st, !.lsn = lsn]
    <3>5. new \in MyType /\ new.kind = my[b].kind /\ new.xid = my[b].xid
      BY <2>2, <3>4 DEF MyType
    <3>6. my' = [my EXCEPT ![b] = new]
      BY <2>2, <2>13, <3>3 DEF ReadBit
    <3> HIDE DEF new
    <3>7. my' \in [Everyone -> MyType] /\ my'[b] = new /\ \A q \in Everyone \ {b} : my'[q] = my[q]
      BY <2>2, <3>5, <3>6, OneXact
    <3>8. XactOK(b)'
      BY <2>2, <3>1, <3>5, <3>7 DEF XactOK
    <3> QED BY <2>1, <3>1, <3>7, <3>8
  <2>14. CASE SetHintBits(b)
    <3>1. CASE HintSafe(b)
      <4>1. Phase(b)' = "markDirty" /\ Phase(b) = "hint" /\ UNCHANGED my
        BY <2>0, <2>14, <2>a, <3>1 DEF SetHintBits
      <4>2. page.tuples \subseteq page'.tuples
        BY <2>14, <3>1 DEF SetHintBits, Hint, HeapOK, Content
      <4>3. XactOK(b)'
        BY <4>1, <4>2, <2>2 DEF XactOK
      <4> QED BY <2>1, <2>2, <4>1, <4>2, <4>3
    <3>2. CASE ~HintSafe(b)
      BY <2>9, <2>14, <3>2 DEF SetHintBits
    <3> QED BY <3>1, <3>2
  <2>15. CASE MarkBufferDirtyHint(b)
    BY <2>9, <2>15 DEF MarkBufferDirtyHint
  <2>16. CASE InsertFails(b)
    <3>1. Phase(b)' = "end" /\ Phase(b) = "insert"
      BY <2>0, <2>16, <2>a DEF InsertFails
    <3>2. page.tuples \subseteq page'.tuples
      BY <2>16 DEF InsertFails, LeaveStray, HeapOK, Content
    <3> DEFINE new == [my[b] EXCEPT !.kind = "abort"]
    <3>3. new \in MyType /\ new.kind = "abort" /\ new.xid = my[b].xid
      BY <2>2 DEF MyType, Kinds
    <3>4. my' = [my EXCEPT ![b] = new]
      BY <2>2, <2>16 DEF InsertFails
    <3> HIDE DEF new
    <3>5. my' \in [Everyone -> MyType] /\ my'[b] = new /\ \A q \in Everyone \ {b} : my'[q] = my[q]
      BY <2>2, <3>3, <3>4, OneXact
    <3>6. XactOK(b)'
      BY <2>2, <3>1, <3>3, <3>5 DEF XactOK, Updates, Lookups
    <3> QED BY <2>1, <3>2, <3>5, <3>6
  <2> QED BY <1>3, <2>3, <2>4, <2>5, <2>6, <2>7, <2>8, <2>10, <2>11, <2>12, <2>13, <2>14, <2>15, <2>16 DEF BackendMove
<1>4. ASSUME SharedMove PROVE MyOK'
  <2>0. UNCHANGED <<my, page>>
    BY <1>4 DEF SharedMove, SetBit, SlruPhysicalReadPage, BeginRead, BeginWrite, TakeOver, AllButIO, SlruWrite, SlruWritten,
                BeginFlush, FlushBuffer, StartBufferIO, HeapWrite, smgrwrite, HeapWritten, TerminateBufferIO, heapVars
  <2>1. ASSUME NEW p \in Backends \union {Startup}, SetBit(p) PROVE MyOK'
    <3>1. \A b \in Backends : XactOK(b)'
      <4>1. CASE p \in Backends
        <5>1. XactOK(p)'
          BY <2>0, <2>1, <4>1, SetBitPhases DEF XactOK, MyOK
        <5> QED BY <1>1, <2>0, <2>1, <5>1, SetBitPhases DEF OthersThere
      <4>2. CASE p = Startup
        BY <1>1, <2>0, <2>1, <4>2, SetBitPhases DEF OthersThere
      <4> QED BY <4>1, <4>2
    <3> QED BY <2>0, <3>1 DEF MyOK
  <2>2. ASSUME \A b \in Backends : Phase(b)' \in {Phase(b), "failed"} PROVE MyOK'
    BY <1>2, <2>0, <2>2
  <2>3. ASSUME NEW p \in Backends \union {Startup}, SlruPhysicalReadPage(p) \/ (\E pg \in Pages : BeginRead(p, pg))
        PROVE  MyOK'
    BY <2>2, <2>3, ReadPhases, BeginReadPhases DEF OthersThere
  <2>4. ASSUME NEW p \in Everyone \ {BgWriter},
               SlruWrite(p) \/ SlruWritten(p) \/ (\E pg \in Pages, back \in Backs : BeginWrite(p, pg, back))
        PROVE  MyOK'
    BY <2>2, <2>4, WritePhases, WrittenPhases, BeginWritePhases DEF OthersThere
  <2>5. ASSUME NEW pg \in Pages, TakeOver(pg) PROVE MyOK'
    BY <2>2, <2>5 DEF TakeOver, Phase
  <2>6. ASSUME NEW p \in {BgWriter, Checkpointer}, BeginFlush(p) \/ HeapWrite(p) \/ HeapWritten(p) PROVE MyOK'
    BY <2>2, <2>6, HeapIOPhases DEF OthersThere
  <2> QED BY <1>4, <2>1, <2>3, <2>4, <2>5, <2>6 DEF SharedMove
<1>5. ASSUME CheckpointerMove PROVE MyOK'
  <2>0. UNCHANGED <<my, page>>
    BY <1>5
       DEF CheckpointerMove, CkptRedo, CkptNextXid, CkptDelay, SkipPage, BufferSync, SkipBuffer, ProcessSyncRequests,
           CkptRecord, UpdateControlFile, SlruWriteFailed, HeapWriteFailed, TerminateBufferIO, heapVars
  <2> QED BY <1>2, <1>5, <2>0, CheckpointerPhases
<1>6. ASSUME StartupMove PROVE MyOK'
  <2>0. page.tuples \subseteq page'.tuples
    <3>1. CASE RedoTuple
      BY <3>1 DEF RedoTuple, RedoInsert, HeapOK, Content
    <3>2. CASE RedoEnd \/ RedoZero \/ RedoOther \/ EndReplay
      BY <3>2 DEF RedoEnd, RedoZero, RedoOther, EndReplay, heapVars
    <3> QED BY <1>6, <3>1, <3>2 DEF StartupMove
  <2>1. my[Startup] \in MyType
    BY DEF MyOK
  <2>2. PICK new \in MyType : my' = [my EXCEPT ![Startup] = new]
    <3>1. CASE UNCHANGED my
      BY <2>1, <3>1 DEF MyOK
    <3>2. CASE RedoEnd \/ RedoZero
      <4>0. replay \in 1..Len(log)
        BY <3>2 DEF RedoEnd, RedoZero, Redo, StartupOK, Replaying, LogOK
      <4> DEFINE R == [kind : RecordKinds, xid : Ids]
      <4>1. log[replay] \in R
        <5>1. log \in Seq(R)
          BY DEF LogOK
        <5> HIDE DEF R
        <5> QED BY <4>0, <5>1, ElementOfSeq
      <4>2. [my[Startup] EXCEPT !.xid = log[replay].xid] \in MyType
        BY <2>1, <4>1 DEF MyType
      <4>3. log[replay].kind \in {"commit", "abort"} => [my[Startup] EXCEPT !.kind = log[replay].kind, !.xid = log[replay].xid] \in MyType
        BY <2>1, <4>1 DEF MyType, Kinds
      <4> QED BY <3>2, <4>2, <4>3 DEF RedoEnd, RedoZero, Redo, MyOK
    <3> QED BY <1>6, <3>1, <3>2 DEF StartupMove, RedoTuple, RedoOther, EndReplay
  <2>3. my' \in [Everyone -> MyType] /\ \A b \in Backends : my'[b] = my[b]
    BY <2>2, OneXact
  <2> QED BY <1>1, <1>6, <2>0, <2>3, StartupPhases DEF MyOK
<1>7. ASSUME Crash PROVE MyOK'
  <2>1. my' = NoXact
    BY <1>7 DEF Crash
  <2>2. my' \in [Everyone -> MyType] /\ \A b \in Backends : my'[b].kind = None
    BY <2>1, NoXactType DEF NoXact
  <2>3. \A b \in Backends : Phase(b)' = "idle"
    BY <1>7, CrashPhases
  <2> QED BY <2>2, <2>3, DurabilityConstants DEF MyOK, XactOK, Updates, Lookups
<1>8. ASSUME Nothing PROVE MyOK'
  BY <1>2, <1>8 DEF Nothing, heapVars, Phase
<1> QED BY <1>3, <1>4, <1>5, <1>6, <1>7, <1>8 DEF Move

(* Who takes no step of his own keeps his transaction and his phase. *)
LEMMA Bystanders ==
  ASSUME ControlInv, Move, ~Crash, NEW b \in Backends
  PROVE  \/ BackendMove(b) \/ SetBit(b)
         \/ my'[b] = my[b] /\ Phase(b)' \in {Phase(b), "failed"}
<1> USE Names DEF ControlInv
<1>1. ASSUME NEW c \in Backends, BackendMove(c), c # b PROVE my'[b] = my[b] /\ Phase(b)' = Phase(b)
  <2>1. Phase(b)' = Phase(b)
    BY <1>1, BackendPhases DEF OthersThere
  <2>2. PICK new : my' = [my EXCEPT ![c] = new] \/ my' = my
    BY <1>1 DEF BackendMove, ZeroNext, AllButIO, GetNewTransactionId, InsertTuple, InsertFails, LogInsert, LogEnd, FlushCommit, EndTransaction,
                Scan, ScanNothing, ReadBit, SetHintBits, MarkBufferDirtyHint
  <2> QED BY <1>1, <2>1, <2>2 DEF MyOK
<1>2. ASSUME SharedMove, ~SetBit(b) PROVE my'[b] = my[b] /\ Phase(b)' \in {Phase(b), "failed"}
  <2>0. UNCHANGED my
    BY <1>2 DEF SharedMove, SetBit, SlruPhysicalReadPage, BeginRead, BeginWrite, TakeOver, AllButIO, SlruWrite, SlruWritten,
                BeginFlush, HeapWrite, HeapWritten
  <2>1. ASSUME NEW p \in Backends \union {Startup},
               SetBit(p) \/ SlruPhysicalReadPage(p) \/ (\E pg \in Pages : BeginRead(p, pg))
        PROVE  Phase(b)' \in {Phase(b), "failed"}
    BY <1>2, <2>1, SetBitPhases, ReadPhases, BeginReadPhases DEF OthersThere
  <2>2. ASSUME NEW p \in Everyone \ {BgWriter},
               SlruWrite(p) \/ SlruWritten(p) \/ (\E pg \in Pages, back \in Backs : BeginWrite(p, pg, back))
        PROVE  Phase(b)' \in {Phase(b), "failed"}
    BY <2>2, WritePhases, WrittenPhases, BeginWritePhases DEF OthersThere
  <2>3. ASSUME NEW pg \in Pages, TakeOver(pg) PROVE Phase(b)' = Phase(b)
    BY <2>3 DEF TakeOver, Phase
  <2>4. ASSUME NEW p \in {BgWriter, Checkpointer}, BeginFlush(p) \/ HeapWrite(p) \/ HeapWritten(p) PROVE Phase(b)' = Phase(b)
    BY <2>4, HeapIOPhases DEF OthersThere
  <2> QED BY <1>2, <2>0, <2>1, <2>2, <2>3, <2>4 DEF SharedMove
<1>3. ASSUME CheckpointerMove PROVE my'[b] = my[b] /\ Phase(b)' = Phase(b)
  <2>0. UNCHANGED my
    BY <1>3 DEF CheckpointerMove, CkptRedo, CkptNextXid, CkptDelay, SkipPage, BufferSync, SkipBuffer, ProcessSyncRequests,
                CkptRecord, UpdateControlFile, SlruWriteFailed, HeapWriteFailed
  <2> QED BY <1>3, <2>0, CheckpointerPhases
<1>4. ASSUME StartupMove PROVE my'[b] = my[b] /\ Phase(b)' = Phase(b)
  <2>1. PICK new : my' = [my EXCEPT ![Startup] = new] \/ my' = my
    BY <1>4 DEF StartupMove, RedoTuple, RedoEnd, RedoZero, RedoOther, EndReplay
  <2> QED BY <1>4, <2>1, StartupPhases DEF MyOK
<1>5. ASSUME Nothing PROVE my'[b] = my[b] /\ Phase(b)' = Phase(b)
  BY <1>5 DEF Nothing, Phase
<1> QED BY <1>1, <1>2, <1>3, <1>4, <1>5 DEF Move

(* A commit record that a transaction relies on is in the log, and stays there. *)
LEMMA CommitLoggedStep ==
  ASSUME ControlInv, Move
  PROVE  CommitLogged'
<1> USE Names DEF ControlInv
<1>0. Len(log) \in Nat /\ durable \in 0..Len(log) /\ (Len(log) \in Nat)' /\ (durable \in 0..Len(log))'
  BY LogStep DEF LogOK
<1>1. CASE Crash
  BY <1>1, CrashPhases DEF CommitLogged, LoggedBy
<1>2. ASSUME ~Crash, NEW b \in Backends PROVE LoggedBy(b)'
  <2>0. Grows /\ LoggedBy(b) /\ my[b].lsn \in Nat /\ MyOK /\ XactOK(b)
    BY <1>2, LogStep DEF CommitLogged, MyOK, MyType
  <2>a. \A i \in 1..Len(log) : i \in 1..Len(log') /\ log'[i] = log[i]
    BY <1>0, <2>0 DEF Grows
  <2>b. my[b].lsn <= durable => my[b].lsn <= durable'
    BY <1>0, <2>0 DEF Grows
  <2>1. ASSUME my'[b] = my[b],
               Phase(b)' \in {"flush", "setStatus", "done"} => Phase(b) \in {"flush", "setStatus", "done"},
               Phase(b)' \in {"setStatus", "done"} => Phase(b) \in {"setStatus", "done"}
        PROVE  LoggedBy(b)'
    BY <2>0, <2>1, <2>a, <2>b DEF LoggedBy
  <2>2. ASSUME Phase(b)' \notin {"flush", "setStatus", "done"} PROVE LoggedBy(b)'
    BY <2>2 DEF LoggedBy
  <2>3. CASE LogEnd(b)
    <3>0. Phase(b) = "end" /\ my[b].kind \in Updates /\ my[b].xid \in Xids
      BY <2>0, <2>3, BackendPhases DEF BackendMove, LogEnd, XactOK
    <3>1. PICK kind, x, n : kind = my[b].kind /\ x = my[b].xid /\ n = Len(log) + 1
      OBVIOUS
    <3> DEFINE r == [kind |-> IF kind = "abort" THEN "abort" ELSE "commit", xid |-> x]
    <3>2. Fits(r)
      BY <3>0, <3>1, PageOfXid DEF Fits, RecordKinds, Traces, Ids, Updates
    <3>3. Insert(r)
      BY <2>3, <3>1 DEF LogEnd, Log
    <3>4. Len(log') = n /\ log'[n] = r
      BY <3>1, <3>2, <3>3, InsertEffect
    <3>5. my'[b].kind = kind /\ my'[b].xid = x /\ my'[b].lsn = n
      BY <2>0, <2>3, <3>1 DEF LogEnd, MyOK, MyType
    <3>6. Phase(b)' = IF kind = "sync" THEN "flush" ELSE "setStatus"
      BY <2>3, <3>1, BackendPhases, GotoOnly DEF BackendMove, LogEnd
    <3>7. n \in 1..Len(log')
      BY <1>0, <3>1, <3>4
    <3> QED BY <3>4, <3>5, <3>6, <3>7 DEF LoggedBy
  <2>4. CASE FlushCommit(b)
    <3>1. Phase(b) = "flush" /\ Phase(b)' = "setStatus" /\ my' = my /\ my[b].kind = "sync"
      BY <2>0, <2>4, BackendPhases, GotoOnly DEF BackendMove, FlushCommit, XactOK
    <3>2. my[b].lsn \in 1..Len(log)
      BY <2>0, <3>1 DEF LoggedBy
    <3>3. my[b].lsn <= durable'
      BY <2>0, <2>4, <3>2, FlushEffect DEF FlushCommit
    <3> QED BY <2>0, <2>a, <3>1, <3>2, <3>3 DEF LoggedBy
  <2>5. ASSUME NEW where \in {"extended", "insert", "logInsert", "end", "idle", "getStatus", "hint", "markDirty"},
               BackendMove(b), Goto(b, where)
        PROVE  LoggedBy(b)'
    BY <2>2, <2>5, BackendPhases, GotoOnly
  <2>6. CASE ScanNothing(b)
    BY <2>1, <2>6 DEF ScanNothing, Phase
  <2>7. CASE SetBit(b)
    BY <2>1, <2>7, SetBitPhases DEF SetBit, AllButIO
  <2>8. ASSUME BackendMove(b) PROVE LoggedBy(b)'
    BY <2>3, <2>4, <2>5, <2>6, <2>8
       DEF BackendMove, ZeroNext, GetNewTransactionId, InsertTuple, InsertFails, LogInsert, EndTransaction, Scan, ReadBit, SetHintBits,
           MarkBufferDirtyHint
  <2> QED BY <1>2, <2>1, <2>7, <2>8, Bystanders
<1> QED BY <1>1, <1>2 DEF CommitLogged

(* --- Recovery, checkpoints, locks ---------------------------------------------------- *)

(* Backends run, and the checkpointer begins, only while the server is up. *)
LEMMA WhoRuns ==
  ASSUME ControlInv
  PROVE  /\ \A b \in Backends : at[b] # "idle" => Up
         /\ \A b \in Backends : BackendMove(b) => Up
         /\ Replaying => ~CheckpointerMove
<1> USE Names DEF ControlInv
<1>1. \A b \in Backends : at[b] # "idle" => Up
  BY DEF StartupOK, Up
<1>2. ASSUME NEW b \in Backends, BackendMove(b) PROVE Up
  BY <1>1, <1>2
     DEF BackendMove, ZeroNext, GetNewTransactionId, InsertTuple, InsertFails, LogInsert, LogEnd, FlushCommit, EndTransaction, Scan,
         ScanNothing, ReadBit, SetHintBits, MarkBufferDirtyHint, Starts
<1>3. CheckpointerMove => at[Checkpointer] # "idle" \/ Up
  BY DEF CheckpointerMove, CkptRedo, CkptNextXid, CkptDelay, SkipPage, BufferSync, SkipBuffer, ProcessSyncRequests, CkptRecord,
         UpdateControlFile, SlruWriteFailed, HeapWriteFailed
<1>4. Replaying => at[Checkpointer] = "idle" /\ ~Up
  BY DEF StartupOK, Replaying, Up
<1> QED BY <1>1, <1>2, <1>3, <1>4

(* In recovery only the startup process and the background writer run, and nothing is written  *)
(* to the log, all of which is on disk.                                                     *)
LEMMA ReplayStill ==
  ASSUME ControlInv, Move, ~Crash, Replaying
  PROVE  log' = log /\ durable' = durable /\ (SharedMove \/ StartupMove \/ Nothing)
<1> USE Names DEF ControlInv
<1>1. SharedMove \/ StartupMove \/ Nothing
  BY WhoRuns DEF Move, Replaying, Up
<1>2. Len(log) \in Nat /\ durable = Len(log)
  BY DEF StartupOK, LogOK
<1>3. ASSUME NEW n \in Nat, XLogFlush(n) PROVE log' = log /\ durable' = durable
  BY <1>2, <1>3, FlushEffect
<1>4. StartupMove \/ Nothing => log' = log /\ durable' = durable
  BY DEF StartupMove, RedoTuple, RedoEnd, RedoZero, RedoOther, Redo, EndReplay, Nothing
<1>5. ASSUME NEW p, NEW pg \in Pages, NEW back, BeginWrite(p, pg, back) PROVE log' = log /\ durable' = durable
  BY <1>3, <1>5 DEF BeginWrite, SlotOK, SlotType
<1>6. ASSUME NEW p, BeginFlush(p) PROVE log' = log /\ durable' = durable
  BY <1>3, <1>6 DEF BeginFlush, FlushBuffer, HeapOK, Content
<1>7. SharedMove => log' = log /\ durable' = durable
  BY <1>5, <1>6 DEF SharedMove, SetBit, SlruPhysicalReadPage, BeginRead, SlruWrite, SlruWritten, TakeOver, HeapWrite, HeapWritten,
                    walVars
<1> QED BY <1>1, <1>4, <1>7

(* A step of somebody else leaves the startup process where it is. *)
LEMMA StartupStays ==
  ASSUME ControlInv, Move, ~Crash, ~StartupMove, ~UpdateControlFile
  PROVE  \/ at'[Startup] = at[Startup] /\ Phase(Startup)' = Phase(Startup)
         \/ SetBit(Startup) \/ SlruPhysicalReadPage(Startup) \/ SlruWrite(Startup) \/ SlruWritten(Startup)
         \/ \E pg \in Pages : BeginRead(Startup, pg)
         \/ \E pg \in Pages, back \in Backs : BeginWrite(Startup, pg, back)
<1> USE Names DEF ControlInv
<1>1. ASSUME NEW p \in Backends, SetBit(p) \/ SlruPhysicalReadPage(p) \/ (\E pg \in Pages : BeginRead(p, pg))
      PROVE  at'[Startup] = at[Startup] /\ Phase(Startup)' = Phase(Startup)
  BY <1>1, SetBitPhases, ReadPhases, BeginReadPhases DEF OthersThere
<1>2. ASSUME NEW p \in Everyone \ {BgWriter}, p # Startup,
             SlruWrite(p) \/ SlruWritten(p) \/ (\E pg \in Pages, back \in Backs : BeginWrite(p, pg, back))
      PROVE  at'[Startup] = at[Startup] /\ Phase(Startup)' = Phase(Startup)
  BY <1>2, WritePhases, WrittenPhases, BeginWritePhases DEF OthersThere
<1>3. ASSUME NEW p \in {BgWriter, Checkpointer}, BeginFlush(p) \/ HeapWrite(p) \/ HeapWritten(p)
      PROVE  at'[Startup] = at[Startup] /\ Phase(Startup)' = Phase(Startup)
  BY <1>3, HeapIOPhases DEF OthersThere
<1>4. ASSUME UNCHANGED <<at, io>> PROVE at'[Startup] = at[Startup] /\ Phase(Startup)' = Phase(Startup)
  BY <1>4 DEF Phase
<1>5. ASSUME NEW b \in Backends, BackendMove(b) PROVE at'[Startup] = at[Startup] /\ Phase(Startup)' = Phase(Startup)
  BY <1>5, BackendPhases DEF OthersThere
<1>6. ASSUME CheckpointerMove PROVE at'[Startup] = at[Startup] /\ Phase(Startup)' = Phase(Startup)
  BY <1>6, CheckpointerPhases
<1>7. ASSUME SharedMove
      PROVE  \/ at'[Startup] = at[Startup] /\ Phase(Startup)' = Phase(Startup)
             \/ SetBit(Startup) \/ SlruPhysicalReadPage(Startup) \/ SlruWrite(Startup) \/ SlruWritten(Startup)
             \/ \E pg \in Pages : BeginRead(Startup, pg)
             \/ \E pg \in Pages, back \in Backs : BeginWrite(Startup, pg, back)
  BY <1>1, <1>2, <1>3, <1>4, <1>7 DEF SharedMove, TakeOver
<1> QED BY <1>4, <1>5, <1>6, <1>7 DEF Move, Nothing

(* Recovery goes on until the startup process or the checkpointer ends it. *)
LEMMA RecoveryGoesOn ==
  ASSUME ControlInv, Move, ~Crash, ~StartupMove, ~UpdateControlFile
  PROVE  /\ UNCHANGED replay
         /\ at'[Startup] = at[Startup] \/ (Replaying /\ Replaying')
         /\ Phase(Startup)' = "setStatus" => Phase(Startup) = "setStatus"
         /\ at'[Startup] = "writeZeroes" => at[Startup] = "writeZeroes"
<1> USE Names DEF ControlInv
<1>4. UNCHANGED replay
  BY ZenonT(60) DEF Move, BackendMove, ZeroNext, GetNewTransactionId, InsertTuple, InsertFails, LogInsert, LogEnd, FlushCommit, EndTransaction, Scan,
         ScanNothing, ReadBit, SetHintBits, MarkBufferDirtyHint, AllButIO, SharedMove, SetBit, SlruPhysicalReadPage, BeginRead,
         SlruWrite, SlruWritten, BeginWrite, TakeOver, BeginFlush, HeapWrite, HeapWritten, CheckpointerMove, CkptRedo,
         CkptNextXid, CkptDelay, SkipPage, BufferSync, SkipBuffer, ProcessSyncRequests, CkptRecord, SlruWriteFailed,
         HeapWriteFailed, Nothing
<1>5. /\ at'[Startup] = at[Startup] \/ (Replaying /\ Replaying')
      /\ Phase(Startup)' = "setStatus" => Phase(Startup) = "setStatus"
      /\ at'[Startup] = "writeZeroes" => at[Startup] = "writeZeroes"
  <2>1. CASE at'[Startup] = at[Startup] /\ Phase(Startup)' = Phase(Startup)
    BY <2>1
  <2>2. CASE SetBit(Startup)
    BY <2>2, SetBitPhases DEF Replaying
  <2>3. CASE SlruPhysicalReadPage(Startup)
    <3>1. at[Startup] = "xactRead" /\ at'[Startup] = Phase(Startup)' /\ Phase(Startup)' \in {io[Startup].back, "failed"}
          /\ Phase(Startup) = io[Startup].back
      BY <2>3, ReadPhases DEF Phase, IOStates
    <3>2. io[Startup].back \in {"setStatus", "replay"}
      BY <3>1 DEF IOOK, IOStates
    <3> QED BY <3>1, <3>2 DEF Replaying
  <2>4. CASE SlruWritten(Startup)
    <3>1. at[Startup] = "xactWritten" /\ at'[Startup] = Phase(Startup)' /\ Phase(Startup)' = io[Startup].back
          /\ Phase(Startup) = io[Startup].back
      BY <2>4, WrittenPhases DEF Phase, IOStates
    <3>2. io[Startup].back \in {"setStatus", "replay"}
      BY <3>1 DEF IOOK, IOStates
    <3> QED BY <3>1, <3>2 DEF Replaying
  <2>5. CASE SlruWrite(Startup)
    BY <2>5, WritePhases DEF Replaying
  <2>6. CASE \E pg \in Pages : BeginRead(Startup, pg)
    <3>1. at[Startup] \in {"setStatus", "getStatus", "replay"}
      BY <2>6 DEF BeginRead, Wants
    <3> QED BY <2>6, <3>1, BeginReadPhases DEF Replaying
  <2>7. CASE \E pg \in Pages, back \in Backs : BeginWrite(Startup, pg, back)
    <3>1. at[Startup] \in {"setStatus", "getStatus", "replay", "ckXact", "writeZeroes"}
      BY <2>7 DEF BeginWrite
    <3> QED BY <2>7, <3>1, BeginWritePhases DEF Replaying
  <2> QED BY <2>1, <2>2, <2>3, <2>4, <2>5, <2>6, <2>7, StartupStays
<1> QED BY <1>4, <1>5

(* Recovery and normal running exclude each other. *)
LEMMA StartupStep ==
  ASSUME ControlInv, Move
  PROVE  StartupOK'
<1> USE Names DEF ControlInv
<1>0. Len(log) \in Nat
  BY DEF LogOK
<1>1. CASE Crash
  <2>1. at'[Startup] = "replay" /\ (\A q \in Everyone \ {Startup} : at'[q] = "idle") /\ Phase(Startup)' = "replay"
    BY <1>1, CrashPhases
  <2>2. PICK n \in durable..Len(log) : Lose(n)
    BY <1>1 DEF Crash
  <2>3. durable' = n /\ Len(log') = n /\ durable <= n
    BY <2>2, LoseEffect
  <2>4. replay' = controlFile.redo /\ controlFile.redo \in 1..(durable + 1)
    BY <1>1 DEF Crash, CheckpointOK
  <2>5. replay' \in 1..(Len(log') + 1) /\ durable' = Len(log')
    BY <1>0, <2>3, <2>4 DEF LogOK
  <2> QED BY <2>1, <2>5 DEF StartupOK, Replaying
<1> SUFFICES ASSUME ~Crash PROVE StartupOK'
  BY <1>1
<1>2. CASE StartupMove
  <2>1. at[Startup] = "replay" /\ Replaying
    BY <1>2, StartupPhases DEF Replaying
  <2>2. log' = log /\ durable' = durable /\ at[Checkpointer] = "idle" /\ durable = Len(log) /\ replay \in 1..(Len(log) + 1)
    BY <2>1, ReplayStill DEF StartupOK
  <2>3. \A b \in Backends : at'[b] = "idle"
    BY <1>2, <2>1, StartupPhases DEF StartupOK
  <2>4. CASE EndReplay
    BY <1>2, <2>3, <2>4, StartupPhases DEF StartupOK, Replaying
  <2>5. CASE ~EndReplay
    <3>1. at'[Checkpointer] = "idle" /\ at'[Startup] # "recovered" /\ at'[Startup] # "idle" /\ Phase(Startup)' = at'[Startup]
      BY <1>2, <2>2, <2>5, StartupPhases
    <3>2. replay' = replay + 1 /\ replay <= Len(log)
      BY <1>2, <2>5 DEF StartupMove, RedoTuple, RedoEnd, RedoZero, RedoOther, Redo
    <3>3. replay' \in 1..(Len(log') + 1) /\ replay' > 1 /\ replay' - 1 = replay
      BY <1>0, <2>2, <3>2
    <3>4. at'[Startup] = "setStatus" =>
            /\ my'[Startup].kind = log[replay].kind /\ my'[Startup].xid = log[replay].xid /\ log[replay].kind \in Ending
      <4>1. at'[Startup] = "setStatus" => RedoEnd
        BY <1>2, StartupPhases
      <4> QED BY <4>1 DEF RedoEnd, Redo, MyOK, MyType, Ending
    <3>5. at'[Startup] = "writeZeroes" => my'[Startup].xid = log[replay].xid /\ log[replay].kind = "zero"
      <4>1. at'[Startup] = "writeZeroes" => RedoZero
        BY <1>2, StartupPhases
      <4> QED BY <4>1 DEF RedoZero, Redo, MyOK, MyType
    <3> QED BY <2>2, <2>3, <3>1, <3>3, <3>4, <3>5 DEF StartupOK
  <2> QED BY <2>4, <2>5
<1>3. CASE UpdateControlFile
  BY <1>3, CheckpointerPhases DEF CheckpointerMove, StartupOK, Replaying
<1> SUFFICES ASSUME ~StartupMove, ~UpdateControlFile PROVE StartupOK'
  BY <1>2, <1>3
<1>4. /\ UNCHANGED replay
      /\ at'[Startup] = at[Startup] \/ (Replaying /\ Replaying')
      /\ Phase(Startup)' = "setStatus" => Phase(Startup) = "setStatus"
      /\ at'[Startup] = "writeZeroes" => at[Startup] = "writeZeroes"
  BY RecoveryGoesOn
<1>6. at[Startup] # "idle" => \A b \in Backends : at'[b] = "idle"
  <2> SUFFICES ASSUME at[Startup] # "idle", NEW b \in Backends PROVE at'[b] = "idle"
    OBVIOUS
  <2>1. at[b] = "idle" /\ ~Up /\ \A c \in Backends : at[c] = "idle"
    BY DEF StartupOK, Up
  <2>2. \A c \in Backends : ~BackendMove(c)
    BY <2>1, WhoRuns
  <2>3. ASSUME NEW p \in Backends \union {Startup}, SetBit(p) \/ SlruPhysicalReadPage(p) \/ (\E pg \in Pages : BeginRead(p, pg))
        PROVE  p = Startup
    BY <2>1, <2>3 DEF SetBit, SlruPhysicalReadPage, BeginRead, Wants
  <2>4. ASSUME NEW p \in Everyone \ {BgWriter},
               SlruWrite(p) \/ SlruWritten(p) \/ (\E pg \in Pages, back \in Backs : BeginWrite(p, pg, back))
        PROVE  p \notin Backends
    BY <2>1, <2>4 DEF SlruWrite, SlruWritten, BeginWrite
  <2>5. SharedMove => at'[b] = at[b]
    <3>1. ASSUME NEW p \in Backends \union {Startup}, SetBit(p) \/ SlruPhysicalReadPage(p) \/ (\E pg \in Pages : BeginRead(p, pg))
          PROVE  at'[b] = at[b]
      BY <2>3, <3>1, SetBitPhases, ReadPhases, BeginReadPhases DEF OthersThere
    <3>2. ASSUME NEW p \in Everyone \ {BgWriter},
                 SlruWrite(p) \/ SlruWritten(p) \/ (\E pg \in Pages, back \in Backs : BeginWrite(p, pg, back))
          PROVE  at'[b] = at[b]
      BY <2>4, <3>2, WritePhases, WrittenPhases, BeginWritePhases DEF OthersThere
    <3>3. ASSUME NEW p \in {BgWriter, Checkpointer}, BeginFlush(p) \/ HeapWrite(p) \/ HeapWritten(p) PROVE at'[b] = at[b]
      BY <3>3, HeapIOPhases DEF OthersThere
    <3> QED BY <3>1, <3>2, <3>3 DEF SharedMove, TakeOver
  <2>6. CheckpointerMove => at'[b] = at[b]
    BY CheckpointerPhases
  <2> QED BY <2>1, <2>2, <2>5, <2>6 DEF Move, Nothing
<1>7. Replaying => log' = log /\ durable' = durable /\ at'[Checkpointer] = at[Checkpointer]
  <2> SUFFICES ASSUME Replaying PROVE log' = log /\ durable' = durable /\ at'[Checkpointer] = at[Checkpointer]
    OBVIOUS
  <2>1. log' = log /\ durable' = durable /\ (SharedMove \/ Nothing) /\ at[Checkpointer] = "idle"
    BY ReplayStill DEF StartupOK
  <2>2. ASSUME NEW p \in Backends \union {Startup}, SetBit(p) \/ SlruPhysicalReadPage(p) \/ (\E pg \in Pages : BeginRead(p, pg))
        PROVE  at'[Checkpointer] = at[Checkpointer]
    BY <2>2, SetBitPhases, ReadPhases, BeginReadPhases DEF OthersThere
  <2>3. ASSUME NEW p \in Everyone \ {BgWriter},
               SlruWrite(p) \/ SlruWritten(p) \/ (\E pg \in Pages, back \in Backs : BeginWrite(p, pg, back))
        PROVE  at'[Checkpointer] = at[Checkpointer]
    <3>1. p # Checkpointer
      BY <2>1, <2>3 DEF SlruWrite, SlruWritten, BeginWrite
    <3> QED BY <2>3, <3>1, WritePhases, WrittenPhases, BeginWritePhases DEF OthersThere
  <2>4. ASSUME NEW p \in {BgWriter, Checkpointer}, BeginFlush(p) \/ HeapWrite(p) \/ HeapWritten(p)
        PROVE  at'[Checkpointer] = at[Checkpointer]
    <3>1. p # Checkpointer
      BY <2>1, <2>4 DEF BeginFlush, HeapWrite, HeapWritten
    <3> QED BY <2>4, <3>1, HeapIOPhases DEF OthersThere
  <2> QED BY <2>1, <2>2, <2>3, <2>4 DEF SharedMove, TakeOver, Nothing
<1>8. at[Startup] = "recovered" => at'[Checkpointer] # "idle"
  <2> SUFFICES ASSUME at[Startup] = "recovered" PROVE at'[Checkpointer] # "idle"
    OBVIOUS
  <2>1. at[Checkpointer] # "idle" /\ ~Up
    BY DEF StartupOK, Up
  <2>2. \A b \in Backends : ~BackendMove(b)
    BY <2>1, WhoRuns
  <2>3. ASSUME NEW p \in Backends \union {Startup}, SetBit(p) \/ SlruPhysicalReadPage(p) \/ (\E pg \in Pages : BeginRead(p, pg))
        PROVE  at'[Checkpointer] # "idle"
    BY <2>1, <2>3, SetBitPhases, ReadPhases, BeginReadPhases DEF OthersThere
  <2>4. ASSUME NEW p \in Everyone \ {BgWriter},
               SlruWrite(p) \/ SlruWritten(p) \/ (\E pg \in Pages, back \in Backs : BeginWrite(p, pg, back))
        PROVE  at'[Checkpointer] # "idle"
    <3>1. CASE p = Checkpointer
      <4>1. at[p] = "xactWritten" => io[p].back = "ckXact"
        BY <3>1 DEF IOOK, IOStates
      <4> QED BY <2>4, <3>1, <4>1, WritePhases, WrittenPhases, BeginWritePhases DEF Phase, IOStates
    <3>2. CASE p # Checkpointer
      BY <2>1, <2>4, <3>2, WritePhases, WrittenPhases, BeginWritePhases DEF OthersThere
    <3> QED BY <3>1, <3>2
  <2>5. ASSUME NEW p \in {BgWriter, Checkpointer}, BeginFlush(p) \/ HeapWrite(p) \/ HeapWritten(p)
        PROVE  at'[Checkpointer] # "idle"
    BY <2>1, <2>5, HeapIOPhases DEF OthersThere
  <2>6. ASSUME NEW where, where # "idle", Goto(Checkpointer, where) PROVE at'[Checkpointer] # "idle"
    BY <2>6, GotoOnly
  <2>7. CheckpointerMove => at'[Checkpointer] # "idle"
    BY <2>1, <2>6 DEF CheckpointerMove, CkptRedo, CkptNextXid, CkptDelay, SkipPage, BufferSync, SkipBuffer, ProcessSyncRequests,
                      CkptRecord, SlruWriteFailed, HeapWriteFailed
  <2> QED BY <2>1, <2>2, <2>3, <2>4, <2>5, <2>7 DEF Move, Nothing, SharedMove, TakeOver
<1>9. Replaying' => Replaying
  BY <1>4 DEF Replaying
<1>10. UNCHANGED my \/ ~Replaying
  BY WhoRuns, ReplayStill DEF SharedMove, SetBit, SlruPhysicalReadPage, BeginRead, BeginWrite, TakeOver, AllButIO, SlruWrite,
                              SlruWritten, BeginFlush, HeapWrite, HeapWritten, Nothing
<1>11. Phase(Startup) = "setStatus" \/ at[Startup] = "writeZeroes" => Replaying
  BY DEF Phase, IOStates, Replaying
<1> QED BY <1>4, <1>6, <1>7, <1>8, <1>9, <1>10, <1>11 DEF StartupOK, Replaying

(* The control file's redo point is on disk, a checkpoint's own one is in the log. *)
LEMMA CheckpointStep ==
  ASSUME ControlInv, Move
  PROVE  CheckpointOK'
<1> USE Names DEF ControlInv
<1>0. Len(log) \in Nat /\ durable \in 0..Len(log) /\ (Len(log) \in Nat)' /\ (durable \in 0..Len(log))' /\ NextXids \subseteq Nat
  BY LogStep, SlruConstants DEF LogOK, NextXids
<1> DEFINE CType == [redo : Nat, nextXid : NextXids, record : Nat, pages : SUBSET Pages]
<1>1. CASE Crash
  <2>1. at'[Checkpointer] = "idle" /\ controlFile' = controlFile
    BY <1>1, CrashPhases DEF Crash
  <2>2. PICK n \in durable..Len(log) : Lose(n)
    BY <1>1 DEF Crash
  <2>3. durable <= durable'
    BY <2>2, LoseEffect
  <2> QED BY <1>0, <2>1, <2>3 DEF CheckpointOK
<1> SUFFICES ASSUME ~Crash PROVE CheckpointOK'
  BY <1>1
<1>2. Grows
  BY LogStep
<1>3. controlFile.redo \in 1..(durable' + 1) /\ controlFile.redo \in Nat
  BY <1>0, <1>2 DEF CheckpointOK, Grows
<1>4. ASSUME controlFile' = controlFile, at'[Checkpointer] = "idle" PROVE CheckpointOK'
  BY <1>3, <1>4 DEF CheckpointOK
<1>5. ASSUME controlFile' = controlFile, UNCHANGED checkPoint, at[Checkpointer] # "idle",
             at'[Checkpointer] = "ckControl" => at[Checkpointer] = "ckControl"
      PROVE  CheckpointOK'
  <2>1. checkPoint \in CType /\ checkPoint.redo \in 1..(Len(log) + 1)
    BY <1>5 DEF CheckpointOK
  <2>2. checkPoint.redo \in 1..(Len(log') + 1)
    BY <1>0, <1>2, <2>1 DEF Grows
  <2>3. at'[Checkpointer] = "ckControl" => checkPoint.record \in checkPoint.redo..Len(log')
    BY <1>0, <1>2, <1>5, <2>1 DEF Grows, CheckpointOK
  <2> QED BY <1>3, <1>5, <2>1, <2>2, <2>3 DEF CheckpointOK
<1>6. CASE CkptRedo \/ EndReplay
  <2>1. checkPoint' = [redo |-> Len(log) + 1, nextXid |-> 0, record |-> 0, pages |-> Pages] /\ controlFile' = controlFile
    BY <1>6 DEF CkptRedo, EndReplay
  <2>2. at'[Checkpointer] = "ckNextXid"
    BY <1>6, GotoOnly, StartupPhases DEF CkptRedo, StartupMove
  <2>3. 0 \in NextXids
    BY SlruConstants DEF NextXids
  <2>4. checkPoint' \in CType /\ checkPoint'.redo = Len(log) + 1
    BY <1>0, <2>1, <2>3
  <2>5. checkPoint'.redo \in 1..(Len(log') + 1)
    BY <1>0, <1>2, <2>4 DEF Grows
  <2> QED BY <1>3, <2>1, <2>2, <2>4, <2>5 DEF CheckpointOK
<1>7. CASE CkptNextXid
  <2>1. checkPoint' = [checkPoint EXCEPT !.nextXid = nextXid] /\ controlFile' = controlFile /\ at[Checkpointer] = "ckNextXid"
        /\ at'[Checkpointer] = "ckDelay" /\ nextXid \in NextXids /\ log' = log
    BY <1>7, GotoOnly DEF CkptNextXid, XidGenOK, walVars
  <2>2. checkPoint \in CType /\ checkPoint.redo \in 1..(Len(log) + 1)
    BY <2>1 DEF CheckpointOK
  <2>3. checkPoint' \in CType /\ checkPoint'.redo = checkPoint.redo
    BY <2>1, <2>2
  <2> QED BY <1>3, <2>1, <2>2, <2>3 DEF CheckpointOK
<1>8. ASSUME NEW pg, SkipPage(pg) PROVE CheckpointOK'
  <2>1. checkPoint' = [checkPoint EXCEPT !.pages = @ \ {pg}] /\ controlFile' = controlFile /\ at[Checkpointer] = "ckXact"
        /\ at' = at /\ log' = log
    BY <1>8 DEF SkipPage
  <2>2. checkPoint \in CType /\ checkPoint.redo \in 1..(Len(log) + 1)
    BY <2>1 DEF CheckpointOK
  <2>3. checkPoint' \in CType /\ checkPoint'.redo = checkPoint.redo
    BY <2>1, <2>2
  <2> QED BY <1>3, <2>1, <2>2, <2>3 DEF CheckpointOK
<1>9. CASE CkptRecord
  <2>1. checkPoint' = [checkPoint EXCEPT !.record = Len(log) + 1] /\ controlFile' = controlFile /\ at[Checkpointer] = "ckRecord"
        /\ at'[Checkpointer] = "ckControl"
    BY <1>9, GotoOnly DEF CkptRecord
  <2>2. checkPoint \in CType /\ checkPoint.redo \in 1..(Len(log) + 1)
    BY <2>1 DEF CheckpointOK
  <2>3. checkPoint' \in CType /\ checkPoint'.redo = checkPoint.redo /\ checkPoint'.record = Len(log) + 1
    BY <1>0, <2>1, <2>2
  <2>4. Len(log') = Len(log) + 1
    <3>1. Fits([kind |-> "checkpoint", xid |-> checkPoint.nextXid])
      BY <1>0, <2>2 DEF Fits, RecordKinds, Traces, Ids
    <3> QED BY <1>9, <3>1, InsertEffect DEF CkptRecord, Log
  <2>5. checkPoint'.redo \in 1..(Len(log') + 1) /\ checkPoint'.record \in checkPoint'.redo..Len(log')
    BY <1>0, <2>2, <2>3, <2>4
  <2> QED BY <1>3, <2>1, <2>3, <2>5 DEF CheckpointOK
<1>10. CASE UpdateControlFile
  <2>1. at[Checkpointer] = "ckControl" /\ XLogFlush(checkPoint.record) /\ controlFile' = NewControlFile
    BY <1>10 DEF UpdateControlFile
  <2>2. at'[Checkpointer] = "idle"
    BY <1>10 DEF UpdateControlFile, AtOK
  <2>3. checkPoint \in CType /\ checkPoint.redo \in 1..(Len(log) + 1) /\ checkPoint.record \in checkPoint.redo..Len(log)
    BY <2>1 DEF CheckpointOK
  <2>4. checkPoint.record \in Nat /\ checkPoint.record <= Len(log)
    BY <2>3
  <2>5. checkPoint.record <= durable'
    BY <2>1, <2>4, FlushEffect
  <2>6. checkPoint.redo \in 1..(durable' + 1)
    BY <1>0, <2>3, <2>5
  <2>7. controlFile' \in [redo : Nat, nextXid : NextXids] /\ controlFile'.redo = checkPoint.redo
    BY <2>1, <2>3 DEF NewControlFile
  <2> QED BY <2>2, <2>6, <2>7 DEF CheckpointOK
<1>11. ASSUME NEW where, Goto(Checkpointer, where), controlFile' = controlFile, UNCHANGED checkPoint,
              at[Checkpointer] # "idle", where # "ckControl"
       PROVE  CheckpointOK'
  BY <1>5, <1>11, GotoOnly
<1>12. CASE CheckpointerMove
  <2>1. CASE SlruWriteFailed \/ HeapWriteFailed
    BY <1>4, <2>1, GotoOnly DEF SlruWriteFailed, HeapWriteFailed
  <2>2. CASE CkptDelay \/ BufferSync \/ SkipBuffer \/ ProcessSyncRequests
    BY <1>11, <2>2 DEF CkptDelay, BufferSync, SkipBuffer, ProcessSyncRequests, ckptVars
  <2> QED BY <1>6, <1>7, <1>8, <1>9, <1>10, <1>12, <2>1, <2>2 DEF CheckpointerMove
<1>13. ASSUME controlFile' = controlFile, UNCHANGED checkPoint, at'[Checkpointer] = at[Checkpointer] PROVE CheckpointOK'
  BY <1>4, <1>5, <1>13
<1>14. ASSUME NEW b \in Backends, BackendMove(b) PROVE CheckpointOK'
  <2>1. UNCHANGED ckptVars
    BY <1>14 DEF BackendMove, ZeroNext, AllButIO, GetNewTransactionId, InsertTuple, InsertFails, LogInsert, LogEnd, FlushCommit, EndTransaction,
                 Scan, ScanNothing, ReadBit, SetHintBits, MarkBufferDirtyHint, ckptVars
  <2> QED BY <1>13, <1>14, <2>1, BackendPhases DEF OthersThere, ckptVars
<1>15. CASE StartupMove
  <2>1. ~EndReplay => UNCHANGED ckptVars
    BY <1>15 DEF StartupMove, RedoTuple, RedoEnd, RedoZero, RedoOther, Redo, ckptVars
  <2> QED BY <1>6, <1>13, <1>15, <2>1, StartupPhases DEF ckptVars
<1>16. CASE SharedMove
  <2>0. controlFile' = controlFile /\ UNCHANGED checkPoint
    BY <1>16 DEF SharedMove, SetBit, SlruPhysicalReadPage, BeginRead, BeginWrite, TakeOver, AllButIO, SlruWrite, SlruWritten,
                 BeginFlush, HeapWrite, HeapWritten, ckptVars
  <2>1. ASSUME NEW p \in Backends \union {Startup}, SetBit(p) \/ SlruPhysicalReadPage(p) \/ (\E pg \in Pages : BeginRead(p, pg))
        PROVE  CheckpointOK'
    BY <1>13, <2>0, <2>1, SetBitPhases, ReadPhases, BeginReadPhases DEF OthersThere
  <2>2. ASSUME NEW p \in Everyone \ {BgWriter},
               SlruWrite(p) \/ SlruWritten(p) \/ (\E pg \in Pages, back \in Backs : BeginWrite(p, pg, back))
        PROVE  CheckpointOK'
    <3>1. CASE p = Checkpointer
      <4>1. at[p] = "xactWritten" => io[p].back = "ckXact"
        BY <3>1 DEF IOOK, IOStates
      <4>2. at[p] # "idle" /\ at'[p] # "ckControl"
        BY <2>2, <3>1, <4>1, WritePhases, WrittenPhases, BeginWritePhases DEF Phase, IOStates, BeginWrite
      <4> QED BY <1>5, <2>0, <3>1, <4>2
    <3>2. CASE p # Checkpointer
      BY <1>13, <2>0, <2>2, <3>2, WritePhases, WrittenPhases, BeginWritePhases DEF OthersThere
    <3> QED BY <3>1, <3>2
  <2>3. ASSUME NEW p \in {BgWriter, Checkpointer}, BeginFlush(p) \/ HeapWrite(p) \/ HeapWritten(p) PROVE CheckpointOK'
    <3>1. CASE p = Checkpointer
      <4>1. at[p] # "idle" /\ at'[p] # "ckControl"
        BY <2>3, <3>1, HeapIOPhases
      <4> QED BY <1>5, <2>0, <3>1, <4>1
    <3>2. CASE p # Checkpointer
      BY <1>13, <2>0, <2>3, <3>2, HeapIOPhases DEF OthersThere
    <3> QED BY <3>1, <3>2
  <2> QED BY <1>13, <1>16, <2>0, <2>1, <2>2, <2>3 DEF SharedMove, TakeOver
<1> QED BY <1>12, <1>13, <1>14, <1>15, <1>16 DEF Move, Nothing, ckptVars

(* Transaction ids are handed out by one backend at a time. *)
LEMMA XidGenStep ==
  ASSUME ControlInv, Move
  PROVE  XidGenOK'
<1> USE Names DEF ControlInv
<1>0. MaxXid \in Nat /\ NextXids \subseteq Nat /\ nextXid \in NextXids /\ todo \in [Backends -> Seq(STRING)] /\ None \notin Backends
  BY SlruConstants, DurabilityConstants DEF NextXids, XidGenOK
<1>1. CASE Crash
  <2>1. nextXid' = controlFile.nextXid /\ XidGenLock' = None /\ todo' = todo /\ \A b \in Backends : at'[b] = "idle"
    BY <1>1, CrashPhases DEF Crash
  <2> QED BY <2>1 DEF XidGenOK, CheckpointOK
<1>2. ASSUME UNCHANGED <<nextXid, todo>>, at'[Startup] # "idle" => at[Startup] # "idle",
             XidGenLock' = XidGenLock \/ (Up /\ XidGenLock = None /\ at'[Startup] = at[Startup])
             \/ (Up /\ XidGenLock = XidGenLock'),
             \A b \in Backends : at'[b] = "extended" => at[b] = "extended"
      PROVE  XidGenOK'
  BY <1>2, <1>0 DEF XidGenOK, Up
<1>3. ASSUME NEW b \in Backends, ZeroNext(b) PROVE XidGenOK'
  <2>1. /\ Up /\ at[b] = "idle" /\ todo[b] # <<>> /\ Head(todo[b]) \in Updates /\ FirstOnPage(nextXid) /\ nextXid <= MaxXid
        /\ XidGenLock \in {None, b} /\ XidGenLock' = b /\ UNCHANGED <<nextXid, todo>>
    BY <1>3 DEF ZeroNext, Starts, AllButIO
  <2>2. OthersThere(b)
    BY <1>3, BackendPhases DEF BackendMove
  <2>3. at'[Startup] = "idle" /\ \A c \in Backends : at'[c] = "extended" => c = b
    <3>1. ASSUME NEW c \in Backends, at'[c] = "extended", c # b PROVE FALSE
      <4>1. at[c] = "extended"
        BY <2>2, <3>1 DEF OthersThere
      <4> QED BY <1>0, <2>1, <3>1, <4>1 DEF XidGenOK
    <3> QED BY <2>1, <2>2, <3>1 DEF OthersThere, Up
  <2>4. nextXid \in Xids
    BY <1>0, <2>1 DEF Xids
  <2> QED BY <1>0, <2>1, <2>3, <2>4 DEF XidGenOK
<1>4. ASSUME NEW b \in Backends, GetNewTransactionId(b) PROVE XidGenOK'
  <2>1. /\ todo' = [todo EXCEPT ![b] = Tail(todo[b])] /\ nextXid' = nextXid + 1 /\ XidGenLock' = None
        /\ at'[b] = "insert" /\ XidGenLock \in {None, b} /\ nextXid \in Xids /\ todo[b] # <<>>
    <3>1. nextXid \in Xids /\ XidGenLock \in {None, b} /\ todo[b] # <<>>
      BY <1>0, <1>4 DEF GetNewTransactionId, XidGenOK, NextXids, Xids, Starts
    <3> QED BY <1>4, <3>1, GotoOnly DEF GetNewTransactionId
  <2>2. \A c \in Backends : at'[c] # "extended"
    <3>1. ASSUME NEW c \in Backends, at'[c] = "extended" PROVE FALSE
      <4>1. at[c] = "extended" /\ c # b
        BY <1>4, <2>1, <3>1, BackendPhases DEF OthersThere, BackendMove
      <4> QED BY <1>0, <2>1, <4>1 DEF XidGenOK
    <3> QED BY <3>1
  <2>3. nextXid' \in NextXids
    BY <1>0, <2>1 DEF Xids, NextXids
  <2>4. Tail(todo[b]) \in Seq(STRING)
    BY <1>0, <2>1
  <2>5. todo' \in [Backends -> Seq(STRING)]
    BY <1>0, <2>1, <2>4
  <2> QED BY <2>1, <2>2, <2>3, <2>5 DEF XidGenOK
<1>5. ASSUME NEW b \in Backends, Scan(b) \/ ScanNothing(b) PROVE XidGenOK'
  <2>1. todo' = [todo EXCEPT ![b] = Tail(todo[b])] /\ UNCHANGED <<nextXid, XidGenLock>> /\ todo[b] # <<>> /\ at[b] = "idle"
    BY <1>5 DEF Scan, ScanNothing, Starts, xactVars
  <2>2. Tail(todo[b]) \in Seq(STRING)
    BY <1>0, <2>1
  <2>3. todo' \in [Backends -> Seq(STRING)]
    BY <1>0, <2>1, <2>2
  <2>4. at'[b] # "extended"
    <3>1. CASE Scan(b)
      BY <3>1, GotoOnly DEF Scan
    <3>2. CASE ScanNothing(b)
      BY <2>1, <3>2 DEF ScanNothing
    <3> QED BY <1>5, <3>1, <3>2
  <2>5. OthersThere(b)
    BY <1>5, BackendPhases DEF BackendMove
  <2>6. \A c \in Backends : at'[c] = "extended" => at[c] = "extended" /\ todo'[c] = todo[c]
    BY <1>0, <2>1, <2>4, <2>5 DEF OthersThere
  <2> QED BY <1>0, <2>1, <2>3, <2>5, <2>6 DEF XidGenOK, OthersThere
<1>6. ASSUME NEW b \in Backends, BackendMove(b) PROVE XidGenOK'
  <2>1. ASSUME NEW where, where # "extended", Goto(b, where), UNCHANGED <<nextXid, XidGenLock, todo>> PROVE XidGenOK'
    BY <1>2, <1>6, <2>1, GotoOnly
  <2> QED BY <1>3, <1>4, <1>5, <1>6, <2>1
          DEF BackendMove, InsertTuple, InsertFails, LogInsert, LogEnd, FlushCommit, EndTransaction, ReadBit, SetHintBits,
              MarkBufferDirtyHint, xactVars
<1>7. CASE SharedMove
  <2>0. UNCHANGED <<nextXid, todo>>
    BY <1>7 DEF SharedMove, SetBit, SlruPhysicalReadPage, BeginRead, BeginWrite, TakeOver, AllButIO, SlruWrite, SlruWritten,
                BeginFlush, HeapWrite, HeapWritten, xactVars
  <2>1. ASSUME NEW p \in Backends \union {Startup}, SetBit(p) \/ SlruPhysicalReadPage(p) PROVE XidGenOK'
    <3>1. UNCHANGED XidGenLock
      BY <2>1 DEF SetBit, SlruPhysicalReadPage, xactVars
    <3>2. at[p] \in IOStates => io[p].back \in {"idle", "setStatus", "getStatus", "replay"}
      BY DEF IOOK, Everyone
    <3>3. at'[p] # "extended" /\ (p = Startup => at[p] # "idle") /\ \A q \in Everyone \ {p} : at'[q] = at[q]
      BY <2>1, <3>2, SetBitPhases, ReadPhases DEF OthersThere, Phase, IOStates
    <3> QED BY <1>2, <2>0, <3>1, <3>3
  <2>2. ASSUME NEW p \in Everyone \ {BgWriter}, SlruWrite(p) \/ SlruWritten(p) PROVE XidGenOK'
    <3>1. UNCHANGED XidGenLock
      BY <2>2 DEF SlruWrite, SlruWritten, xactVars
    <3>2. at[p] \in IOStates => io[p].back \in {"idle", "setStatus", "getStatus", "replay", "ckXact"}
      BY DEF IOOK, Everyone
    <3>3. at'[p] # "extended" /\ (p = Startup => at[p] # "idle") /\ \A q \in Everyone \ {p} : at'[q] = at[q]
      BY <2>2, <3>2, WritePhases, WrittenPhases DEF OthersThere, Phase, IOStates
    <3> QED BY <1>2, <2>0, <3>1, <3>3
  <2>3. ASSUME NEW p \in Backends \union {Startup}, NEW pg \in Pages, BeginRead(p, pg) PROVE XidGenOK'
    <3>1. at[p] # "idle" /\ at'[p] = "xactRead" /\ \A q \in Everyone \ {p} : at'[q] = at[q]
      BY <2>3, BeginReadPhases DEF OthersThere, BeginRead, Wants
    <3>2. TakesXidGenLock
      BY <2>3 DEF BeginRead
    <3> QED BY <1>2, <2>0, <3>1, <3>2 DEF TakesXidGenLock, Up
  <2>4. ASSUME NEW p \in Everyone \ {BgWriter}, NEW pg \in Pages, NEW back \in Backs, BeginWrite(p, pg, back) PROVE XidGenOK'
    <3>1. (p = Startup => at[p] # "idle") /\ at'[p] = "xactWrite" /\ \A q \in Everyone \ {p} : at'[q] = at[q]
      BY <2>4, BeginWritePhases DEF OthersThere, BeginWrite
    <3>2. TakesXidGenLock
      BY <2>4 DEF BeginWrite
    <3> QED BY <1>2, <2>0, <3>1, <3>2 DEF TakesXidGenLock, Up
  <2>5. ASSUME NEW pg \in Pages, TakeOver(pg) PROVE XidGenOK'
    BY <1>2, <2>0, <2>5 DEF TakeOver, TakesXidGenLock, Up
  <2>6. ASSUME NEW p \in {BgWriter, Checkpointer}, BeginFlush(p) \/ HeapWrite(p) \/ HeapWritten(p) PROVE XidGenOK'
    <3>1. UNCHANGED XidGenLock
      BY <2>6 DEF BeginFlush, HeapWrite, HeapWritten, xactVars
    <3> QED BY <1>2, <2>0, <2>6, <3>1, HeapIOPhases DEF OthersThere
  <2> QED BY <1>7, <2>1, <2>2, <2>3, <2>4, <2>5, <2>6 DEF SharedMove
<1>8. CASE CheckpointerMove
  <2>1. UNCHANGED <<nextXid, todo, XidGenLock>>
    BY <1>8 DEF CheckpointerMove, CkptRedo, CkptNextXid, CkptDelay, SkipPage, BufferSync, SkipBuffer, ProcessSyncRequests,
                CkptRecord, UpdateControlFile, SlruWriteFailed, HeapWriteFailed, xactVars
  <2> QED BY <1>2, <1>8, <2>1, CheckpointerPhases
<1>9. CASE StartupMove
  <2>1. at[Startup] = "replay" /\ \A b \in Backends : at'[b] = at[b] /\ at[b] = "idle"
    BY <1>9, StartupPhases DEF StartupOK
  <2>2. UNCHANGED <<todo, XidGenLock>>
    BY <1>9 DEF StartupMove, RedoTuple, RedoEnd, RedoZero, RedoOther, Redo, EndReplay, xactVars
  <2>3. nextXid' \in NextXids
    <3>1. CASE RedoZero \/ EndReplay
      BY <1>0, <3>1 DEF RedoZero, EndReplay, xactVars
    <3>2. CASE RedoTuple \/ RedoEnd \/ RedoOther
      <4>1. replay \in 1..Len(log)
        BY <2>1, <3>2 DEF RedoTuple, RedoEnd, RedoOther, Redo, StartupOK, Replaying, LogOK
      <4>2. /\ log[replay].kind \in Traces => log[replay].xid \in Xids
            /\ log[replay].kind = "checkpoint" => log[replay].xid \in NextXids
        BY <4>1 DEF LogOK
      <4>3. \A x \in Xids : AdvanceNextXidPast(x) \in NextXids
        BY <1>0 DEF AdvanceNextXidPast, Larger, Xids, NextXids
      <4>4. \A x \in NextXids : Larger(nextXid, x) \in NextXids
        BY <1>0 DEF Larger
      <4> QED BY <1>0, <3>2, <4>2, <4>3, <4>4 DEF RedoTuple, RedoEnd, RedoOther, Redo, Traces
    <3> QED BY <1>9, <3>1, <3>2 DEF StartupMove
  <2> QED BY <1>0, <2>1, <2>2, <2>3 DEF XidGenOK
<1>10. CASE Nothing
  BY <1>2, <1>10 DEF Nothing, xactVars
<1> QED BY <1>1, <1>6, <1>7, <1>8, <1>9, <1>10 DEF Move

(* The content lock is held in one mode at a time, by whoever changes or writes the page. *)
LEMMA ContentLockStep ==
  ASSUME ControlInv, Move
  PROVE  ContentLockOK'
<1> USE Names DEF ControlInv
<1>0. NoOne \notin Backends /\ ContentLockOK
  BY DurabilityConstants
<1>1. CASE Crash
  BY <1>1, CrashPhases DEF ContentLockOK, Crash, HeapCrash
<1>2. ASSUME UNCHANGED <<exclusive, sharers>>,
             \A b \in Backends : at'[b] = "logInsert" => at[b] = "logInsert",
             \A p \in {Checkpointer, BgWriter} : at'[p] \in {"heapWrite", "heapWritten"} => at[p] \in {"heapWrite", "heapWritten"}
      PROVE  ContentLockOK'
  BY <1>2 DEF ContentLockOK
<1>3. ASSUME NEW b \in Backends, BackendMove(b) PROVE ContentLockOK'
  <2>0. OthersThere(b) /\ Checkpointer # b /\ BgWriter # b
    BY <1>3, BackendPhases
  <2>a. \A p \in {Checkpointer, BgWriter} : at'[p] = at[p]
    BY <2>0 DEF OthersThere
  <2>1. ASSUME NEW where, where # "logInsert", Goto(b, where), UNCHANGED <<exclusive, sharers>> PROVE ContentLockOK'
    BY <1>2, <2>0, <2>1, GotoOnly DEF OthersThere
  <2>2. CASE InsertTuple(b)
    BY <2>2, <2>a, <1>0, GotoOnly DEF InsertTuple, PutTuple, ContentLockOK
  <2>3. CASE LogInsert(b)
    <3>1. at[b] = "logInsert" /\ exclusive = b /\ sharers = {} /\ exclusive' = NoOne /\ sharers' = sharers
      BY <1>0, <2>3 DEF LogInsert, Stamp, ContentLockOK
    <3>2. at'[b] = "end"
      BY <2>3, GotoOnly DEF LogInsert
    <3> QED BY <1>0, <2>0, <2>a, <3>1, <3>2 DEF OthersThere, ContentLockOK
  <2>4. CASE Scan(b)
    <3>1. exclusive = NoOne /\ sharers' = sharers \union {b} /\ exclusive' = exclusive /\ at'[b] = "getStatus"
      BY <2>4, GotoOnly DEF Scan, LockShared
    <3> QED BY <1>0, <2>0, <2>a, <3>1 DEF OthersThere, ContentLockOK
  <2>5. CASE ScanNothing(b)
    BY <1>2, <2>5 DEF ScanNothing, heapVars
  <2>6. CASE SetHintBits(b) \/ MarkBufferDirtyHint(b)
    <3>1. sharers' \in {sharers, sharers \ {b}} /\ exclusive' = exclusive /\ at'[b] # "logInsert"
      BY <2>6, GotoOnly DEF SetHintBits, MarkBufferDirtyHint
    <3> QED BY <1>0, <2>0, <2>a, <3>1 DEF OthersThere, ContentLockOK
  <2>7. CASE InsertFails(b)
    BY <2>1, <2>7 DEF InsertFails, LeaveStray
  <2> QED BY <1>3, <2>1, <2>2, <2>3, <2>4, <2>5, <2>6, <2>7
          DEF BackendMove, ZeroNext, AllButIO, GetNewTransactionId, LogEnd, FlushCommit, EndTransaction, ReadBit, heapVars
<1>4. ASSUME NEW p \in Backends \union {Startup}, SetBit(p) \/ SlruPhysicalReadPage(p) \/ (\E pg \in Pages : BeginRead(p, pg))
      PROVE  ContentLockOK'
  <2>1. UNCHANGED <<exclusive, sharers>>
    BY <1>4 DEF SetBit, SlruPhysicalReadPage, BeginRead, AllButIO, heapVars
  <2>2. at[p] \in IOStates => io[p].back \in {"idle", "setStatus", "getStatus", "replay"}
    BY DEF IOOK, Everyone
  <2>3. at'[p] # "logInsert" /\ \A q \in Everyone \ {p} : at'[q] = at[q]
    BY <1>4, <2>2, SetBitPhases, ReadPhases, BeginReadPhases DEF OthersThere, Phase, IOStates
  <2> QED BY <1>2, <2>1, <2>3
<1>5. ASSUME NEW p \in Everyone \ {BgWriter},
             SlruWrite(p) \/ SlruWritten(p) \/ (\E pg \in Pages, back \in Backs : BeginWrite(p, pg, back))
      PROVE  ContentLockOK'
  <2>1. UNCHANGED <<exclusive, sharers>>
    BY <1>5 DEF SlruWrite, SlruWritten, BeginWrite, AllButIO, heapVars
  <2>2. at[p] \in IOStates => io[p].back \in {"idle", "setStatus", "getStatus", "replay", "ckXact"}
    BY DEF IOOK, Everyone
  <2>3. at'[p] \notin {"logInsert", "heapWrite", "heapWritten"} /\ \A q \in Everyone \ {p} : at'[q] = at[q]
    BY <1>5, <2>2, WritePhases, WrittenPhases, BeginWritePhases DEF OthersThere, Phase, IOStates
  <2> QED BY <1>2, <2>1, <2>3
<1>6. ASSUME NEW p \in {BgWriter, Checkpointer}, BeginFlush(p) PROVE ContentLockOK'
  <2>1. exclusive = NoOne /\ sharers' = sharers \union {p} /\ exclusive' = exclusive
    BY <1>6 DEF BeginFlush, FlushBuffer, StartBufferIO, LockShared
  <2>2. OthersThere(p)
    BY <1>6, HeapIOPhases
  <2> QED BY <1>0, <2>1, <2>2 DEF OthersThere, ContentLockOK
<1>7. ASSUME NEW p \in {BgWriter, Checkpointer}, HeapWrite(p) PROVE ContentLockOK'
  <2>1. UNCHANGED <<exclusive, sharers>> /\ at[p] = "heapWrite"
    BY <1>7 DEF HeapWrite, smgrwrite
  <2>2. OthersThere(p)
    BY <1>7, HeapIOPhases
  <2> QED BY <1>2, <2>1, <2>2 DEF OthersThere
<1>8. ASSUME NEW p \in {BgWriter, Checkpointer}, HeapWritten(p) PROVE ContentLockOK'
  <2>1. exclusive' = exclusive /\ sharers' = sharers \ {p}
    BY <1>8 DEF HeapWritten, TerminateBufferIO
  <2>2. OthersThere(p) /\ at'[p] \in {"idle", "ckSync"}
    BY <1>8, HeapIOPhases
  <2> QED BY <1>0, <2>1, <2>2 DEF OthersThere, ContentLockOK
<1>9. CASE CheckpointerMove
  <2>1. CASE HeapWriteFailed
    <3>1. exclusive' = exclusive /\ sharers' = sharers \ {Checkpointer}
      BY <2>1 DEF HeapWriteFailed, TerminateBufferIO
    <3>2. at'[Checkpointer] = "idle" /\ \A q \in Everyone \ {Checkpointer} : at'[q] = at[q]
      BY <2>1, GotoOnly DEF HeapWriteFailed
    <3> QED BY <1>0, <3>1, <3>2 DEF ContentLockOK
  <2>2. ASSUME UNCHANGED <<exclusive, sharers>>, at'[Checkpointer] \notin {"heapWrite", "heapWritten"} PROVE ContentLockOK'
    BY <1>2, <1>9, <2>2, CheckpointerPhases
  <2>3. ASSUME NEW where, where \notin {"heapWrite", "heapWritten"}, Goto(Checkpointer, where), UNCHANGED <<exclusive, sharers>>
        PROVE  ContentLockOK'
    BY <2>2, <2>3, GotoOnly
  <2>4. CASE UpdateControlFile
    <3>1. at'[Checkpointer] = "idle" /\ UNCHANGED <<exclusive, sharers>>
      BY <2>4 DEF UpdateControlFile, AtOK, heapVars
    <3> QED BY <2>2, <3>1
  <2>5. CASE \E pg \in checkPoint.pages : SkipPage(pg)
    BY <1>2, <2>5 DEF SkipPage, heapVars
  <2> QED BY <1>9, <2>1, <2>3, <2>4, <2>5
          DEF CheckpointerMove, CkptRedo, CkptNextXid, CkptDelay, BufferSync, SkipBuffer, ProcessSyncRequests, CkptRecord,
              SlruWriteFailed, heapVars
<1>10. CASE StartupMove
  <2>1. UNCHANGED <<exclusive, sharers>>
    BY <1>10 DEF StartupMove, RedoTuple, RedoInsert, RedoEnd, RedoZero, RedoOther, EndReplay, heapVars
  <2>2. at'[Checkpointer] \in {at[Checkpointer], "ckNextXid"} /\ \A q \in Backends \union {BgWriter} : at'[q] = at[q]
    BY <1>10, StartupPhases
  <2> QED BY <1>2, <2>1, <2>2
<1>11. CASE Nothing
  BY <1>2, <1>11 DEF Nothing, heapVars
<1>12. ASSUME NEW pg \in Pages, TakeOver(pg) PROVE ContentLockOK'
  BY <1>2, <1>12 DEF TakeOver, AllButIO
<1> QED BY <1>1, <1>3, <1>4, <1>5, <1>6, <1>7, <1>8, <1>9, <1>10, <1>11, <1>12 DEF Move, SharedMove

(* --- The control invariant ------------------------------------------------------------- *)

(* The server as it is started: its log, of commit records only, and what is on the page. *)
LEMMA StartLog ==
  ASSUME NEW plan \in Plans, InitFrom(plan)
  PROVE  /\ plan.nextXid \in Nat \ {0} /\ plan.nextXid <= MaxXid /\ Len(log) = plan.nextXid /\ durable = Len(log)
         /\ log \in Seq([kind : RecordKinds, xid : Ids])
         /\ \A i \in 1..Len(log) : log[i].kind = "commit" /\ log[i].xid = i - 1 /\ i - 1 \in Xids
<1>1. plan.nextXid \in Nat \ {0} /\ plan.nextXid <= MaxXid /\ MaxXid \in Nat
  BY DurabilityConstants, SlruConstants DEF Xids
<1>2. log = [i \in 1..plan.nextXid |-> [kind |-> "commit", xid |-> i - 1]] /\ durable = Len(log)
  BY DEF InitFrom
<1>3. \A i \in 1..plan.nextXid : i - 1 \in Xids /\ i - 1 \in Nat
  BY <1>1 DEF Xids
<1> DEFINE R == [kind : RecordKinds, xid : Ids]
<1>4. \A i \in 1..plan.nextXid : [kind |-> "commit", xid |-> i - 1] \in R
  BY <1>3 DEF RecordKinds, Ids
<1>5. log \in [1..plan.nextXid -> R]
  BY <1>2, <1>4
<1>6. log \in Seq(R) /\ Len(log) = plan.nextXid
  <2> HIDE DEF R
  <2>1. log \in Seq(R)
    BY <1>1, <1>5, SeqDef
  <2>2. DOMAIN log = 1..plan.nextXid /\ DOMAIN log = 1..Len(log) /\ Len(log) \in Nat
    BY <1>5, <2>1, LenProperties
  <2> QED BY <1>1, <2>1, <2>2
<1> QED BY <1>1, <1>2, <1>3, <1>6

\* The control invariant holds initially.
LEMMA InitControl == Init => ControlInv
<1> SUFFICES ASSUME NEW plan \in Plans, InitFrom(plan) PROVE ControlInv
  BY DEF Init
<1> USE Names
<1>0. /\ plan.nextXid \in Nat \ {0} /\ plan.nextXid <= MaxXid /\ Len(log) = plan.nextXid /\ durable = Len(log)
      /\ log \in Seq([kind : RecordKinds, xid : Ids])
      /\ \A i \in 1..Len(log) : log[i].kind = "commit" /\ log[i].xid = i - 1 /\ i - 1 \in Xids
  BY StartLog
<1>1. LogOK
  BY <1>0 DEF LogOK, Traces
<1>2. SlotOK
  <2>1. slot = [pg \in Pages |-> Empty(pg)]
    BY DEF InitFrom
  <2> QED BY <2>1, EmptySlot DEF SlotOK
<1>3. FilesOK
  <2>1. \A pg \in Pages : InitialPage(pg, plan.nextXid) \in [On(pg) -> Status] \union {None}
    BY DEF InitialPage, Status
  <2>2. xactFile = [pg \in Pages |-> InitialPage(pg, plan.nextXid)] /\ xactKept = [pg \in Pages |-> {xactFile[pg]}]
    BY DEF InitFrom
  <2> HIDE DEF InitialPage
  <2> QED BY <2>1, <2>2 DEF FilesOK
<1>4. HeapOK
  <2>1. 0 \in Xids
    BY SlruConstants DEF Xids
  <2>2. page \in Content
    BY <2>1 DEF InitFrom, Content
  <2> QED BY <2>2 DEF InitFrom, HeapOK, CleanHeader
<1>5. \A p \in Everyone : at[p] = "idle" /\ Phase(p) = "idle"
  BY DEF InitFrom, Idle, Phase, IOStates
<1>6. AtOK
  BY DEF InitFrom, Idle, AtOK, BackendStates, StartupStates
<1>7. IOOK
  <2>1. io \in [Everyone -> [page : Ids, back : Backs \union {None}]]
    BY DEF InitFrom, NoIO, Ids
  <2> QED BY <1>5, <2>1 DEF IOOK, IOStates
<1>8. MyOK
  <2>1. my \in [Everyone -> MyType] /\ \A b \in Backends : my[b].kind = None
    BY DEF InitFrom, NoXact, MyType, Kinds, Ids
  <2> QED BY <1>5, <2>1, DurabilityConstants DEF MyOK, XactOK, Updates, Lookups
<1>9. CommitLogged
  BY <1>5 DEF CommitLogged, LoggedBy
<1>10. StartupOK
  BY <1>5 DEF StartupOK, Replaying
<1>11. CheckpointOK
  <2>1. controlFile = [redo |-> Len(log) + 1, nextXid |-> plan.nextXid] /\ plan.nextXid \in NextXids
    BY <1>0, SlruConstants DEF InitFrom, NextXids
  <2>2. Len(log) + 1 \in 1..(durable + 1) /\ Len(log) + 1 \in Nat
    BY <1>0
  <2> QED BY <1>5, <2>1, <2>2 DEF CheckpointOK
<1>12. XidGenOK
  <2>1. nextXid \in NextXids
    BY <1>0, SlruConstants DEF InitFrom, NextXids
  <2>2. todo \in [Backends -> Seq(STRING)]
    BY DurabilityConstants DEF InitFrom
  <2> QED BY <1>5, <2>1, <2>2 DEF XidGenOK
<1>13. ContentLockOK
  BY <1>5 DEF ContentLockOK, InitFrom
<1> QED BY <1>1, <1>2, <1>3, <1>4, <1>6, <1>7, <1>8, <1>9, <1>10, <1>11, <1>12, <1>13 DEF ControlInv

\* The control invariant is inductive by itself.
LEMMA ControlStep == ControlInv /\ [Next]_vars => ControlInv'
<1> SUFFICES ASSUME ControlInv, [Next]_vars PROVE ControlInv'
  OBVIOUS
<1>1. Move
  BY Moves
<1> QED BY <1>1, LogStep, SlotStep, FilesStep, HeapStep, AtStep, IOStep, MyStep, CommitLoggedStep, StartupStep, CheckpointStep,
           XidGenStep, ContentLockStep DEF ControlInv

(* Every process is where its code can be, with what that place needs: a commit record of a   *)
(* transaction that waits for it or goes on to mark it is in the log (RecordTransactionCommit), *)
(* recovery and the server's running exclude each other (StartupXLOG), the control file's redo  *)
(* point is on disk (CreateCheckPoint), and the page of pg_xact that GetNewTransactionId        *)
(* zeroed is nextXid's until the id is taken.                                                 *)
THEOREM SpecControl == Spec => []ControlInv
<1>1. Init => ControlInv
  BY InitControl
<1>2. ControlInv /\ [Next]_vars => ControlInv'
  BY ControlStep
<1> QED BY <1>1, <1>2, PTL DEF Spec

(* --- What changes a slot, and what changes the data page --------------------------------- *)

(* The step that changes the slot of q. *)
SlotMove(q) ==
  \/ \E p \in Backends \union {Startup} :
       \/ SetBit(p) /\ q = TransactionIdToPage(my[p].xid)
       \/ SlruPhysicalReadPage(p) /\ q = io[p].page
       \/ BeginRead(p, q)
  \/ \E p \in Everyone \ {BgWriter} :
       \/ SlruWritten(p) /\ q = io[p].page
       \/ \E back \in Backs : BeginWrite(p, q, back)
  \/ TakeOver(q)
  \/ SlruWriteFailed /\ q = io[Checkpointer].page
  \/ \E b \in Backends : ZeroNext(b) /\ q = TransactionIdToPage(nextXid)
  \/ RedoZero /\ q = log[replay].xid
  \/ EndReplay /\ ~FirstOnPage(nextXid) /\ q = TransactionIdToPage(nextXid)

\* What a step may do to one page of the cache: nothing, evict it, or one of the moves of
\* Slru.
LEMMA SlotChange ==
  ASSUME ControlInv, Move, ~Crash, NEW q \in Pages
  PROVE  slot'[q] = slot[q] \/ Evicted(q) \/ SlotMove(q)
<1> USE Names DEF ControlInv
<1>1. ASSUME UNCHANGED slot PROVE slot'[q] = slot[q]
  BY <1>1
<1>2. ASSUME NEW p \in Backends \union {Startup}, SetBit(p) PROVE slot'[q] = slot[q] \/ SlotMove(q)
  <2>1. my[p].xid \in Xids
    BY <1>2, XidToMark DEF SetBit
  <2>2. (IF my[p].kind = "async" THEN my[p].lsn ELSE 0) \in Nat /\ NewStatus(p) \in Status
    BY DEF MyOK, MyType, Everyone, NewStatus, Status
  <2>3. OthersSame(TransactionIdToPage(my[p].xid))
    BY <1>2, <2>1, <2>2, SetStatusBitEffect DEF SetBit
  <2> QED BY <1>2, <2>3 DEF OthersSame, SlotMove
<1>3. ASSUME NEW p \in Backends \union {Startup}, SlruPhysicalReadPage(p) PROVE slot'[q] = slot[q] \/ SlotMove(q)
  <2>1. UNCHANGED slot \/ \E new : slot' = [slot EXCEPT ![io[p].page] = new]
    BY <1>3 DEF SlruPhysicalReadPage, PageRead
  <2>2. q # io[p].page => slot'[q] = slot[q]
    BY <2>1 DEF SlotOK
  <2> QED BY <1>3, <2>2 DEF SlotMove
<1>4. ASSUME NEW p \in Backends \union {Startup}, NEW pg \in Pages, BeginRead(p, pg)
      PROVE slot'[q] = slot[q] \/ Evicted(q) \/ SlotMove(q)
  <2>1. OthersStay(pg)
    BY <1>4, ReadStartEffect DEF BeginRead, Everyone
  <2> QED BY <1>4, <2>1 DEF OthersStay, SlotMove
<1>5. ASSUME NEW p \in Everyone \ {BgWriter}, NEW pg \in Pages, NEW back \in Backs, BeginWrite(p, pg, back)
      PROVE  slot'[q] = slot[q] \/ SlotMove(q)
  <2>1. OthersSame(pg)
    BY <1>5, WriteStartEffect DEF BeginWrite
  <2> QED BY <1>5, <2>1 DEF OthersSame, SlotMove
<1>6. ASSUME NEW pg \in Pages, TakeOver(pg) PROVE slot'[q] = slot[q] \/ SlotMove(q)
  <2>1. OthersSame(pg)
    BY <1>6, RepairEffect DEF TakeOver
  <2> QED BY <1>6, <2>1 DEF OthersSame, SlotMove
<1>7. ASSUME NEW p \in Everyone \ {BgWriter}, SlruWritten(p) PROVE slot'[q] = slot[q] \/ SlotMove(q)
  <2>1. OthersSame(io[p].page)
    BY <1>7, WriteEndEffect DEF SlruWritten, IOOK, IOStates
  <2> QED BY <1>7, <2>1 DEF OthersSame, SlotMove
<1>8. ASSUME SlruWriteFailed PROVE slot'[q] = slot[q] \/ SlotMove(q)
  <2>1. OthersSame(io[Checkpointer].page)
    BY <1>8, WriteFailsEffect DEF SlruWriteFailed, IOOK, IOStates
  <2> QED BY <1>8, <2>1 DEF OthersSame, SlotMove
<1>9. ASSUME NEW b \in Backends, ZeroNext(b) PROVE slot'[q] = slot[q] \/ Evicted(q) \/ SlotMove(q)
  <2>1. nextXid \in Xids
    BY <1>9 DEF ZeroNext, XidGenOK, NextXids, Xids
  <2>2. OthersStay(TransactionIdToPage(nextXid))
    BY <1>9, <2>1, PageOfXid, ZeroPageEffect DEF ZeroNext
  <2> QED BY <1>9, <2>2 DEF OthersStay, SlotMove
<1>10. ASSUME RedoZero PROVE slot'[q] = slot[q] \/ Evicted(q) \/ SlotMove(q)
  <2>1. replay \in 1..Len(log) /\ log[replay].kind = "zero"
    BY <1>10 DEF RedoZero, Redo, StartupOK, Replaying, LogOK
  <2>2. log[replay].xid \in Pages
    BY <2>1 DEF LogOK
  <2>3. OthersStay(log[replay].xid)
    BY <1>10, <2>2, ZeroPageEffect DEF RedoZero
  <2> QED BY <1>10, <2>3 DEF OthersStay, SlotMove
<1>11. ASSUME EndReplay PROVE slot'[q] = slot[q] \/ SlotMove(q)
  <2>1. CASE UNCHANGED slot
    BY <2>1
  <2>2. CASE ~FirstOnPage(nextXid) /\ slot' = Trimmed(slot, nextXid)
    <3>1. OthersSame(TransactionIdToPage(nextXid))
      BY <2>2, TrimmedEffect DEF XidGenOK
    <3> QED BY <1>11, <2>2, <3>1 DEF OthersSame, SlotMove
  <2> QED BY <1>11, <2>1, <2>2 DEF EndReplay, TrimmedSlots
<1>13. ASSUME NEW b \in Backends, BackendMove(b) PROVE slot'[q] = slot[q] \/ Evicted(q) \/ SlotMove(q)
  BY <1>1, <1>9, <1>13
     DEF BackendMove, GetNewTransactionId, InsertTuple, InsertFails, LogInsert, LogEnd, FlushCommit, EndTransaction, Scan, ScanNothing,
         ReadBit, SetHintBits, MarkBufferDirtyHint, slruVars
<1>14. ASSUME SharedMove PROVE slot'[q] = slot[q] \/ Evicted(q) \/ SlotMove(q)
  BY <1>1, <1>2, <1>3, <1>4, <1>5, <1>6, <1>7, <1>14
     DEF SharedMove, SlruWrite, BeginFlush, HeapWrite, HeapWritten, slruVars
<1>15. ASSUME CheckpointerMove PROVE slot'[q] = slot[q] \/ SlotMove(q)
  BY <1>1, <1>8, <1>15
     DEF CheckpointerMove, CkptRedo, CkptNextXid, CkptDelay, SkipPage, BufferSync, SkipBuffer, ProcessSyncRequests,
         CkptRecord, UpdateControlFile, HeapWriteFailed, slruVars
<1>16. ASSUME StartupMove PROVE slot'[q] = slot[q] \/ Evicted(q) \/ SlotMove(q)
  BY <1>1, <1>10, <1>11, <1>16 DEF StartupMove, RedoTuple, RedoEnd, RedoOther
<1> QED BY <1>1, <1>13, <1>14, <1>15, <1>16 DEF Move, Nothing

(* What a step leaves in the files. *)
LEMMA FileChange ==
  ASSUME ControlInv, Move, ~Crash
  PROVE  \/ UNCHANGED <<xactFile, xactKept>>
         \/ \E p \in Everyone \ {BgWriter} : SlruWrite(p)
         \/ ProcessSyncRequests
<1>13. ASSUME NEW b \in Backends, BackendMove(b) PROVE UNCHANGED <<xactFile, xactKept>>
  BY <1>13
     DEF BackendMove, ZeroNext, AllButIO, GetNewTransactionId, InsertTuple, InsertFails, LogInsert, LogEnd, FlushCommit, EndTransaction,
         Scan, ScanNothing, ReadBit, SetHintBits, MarkBufferDirtyHint, slruVars
<1>14. ASSUME SharedMove PROVE UNCHANGED <<xactFile, xactKept>> \/ \E p \in Everyone \ {BgWriter} : SlruWrite(p)
  BY <1>14
     DEF SharedMove, SetBit, SlruPhysicalReadPage, BeginRead, BeginWrite, TakeOver, AllButIO, SlruWritten, BeginFlush, HeapWrite,
         HeapWritten, slruVars
<1>15. ASSUME CheckpointerMove PROVE UNCHANGED <<xactFile, xactKept>> \/ ProcessSyncRequests
  BY <1>15
     DEF CheckpointerMove, CkptRedo, CkptNextXid, CkptDelay, SkipPage, BufferSync, SkipBuffer, CkptRecord, UpdateControlFile,
         SlruWriteFailed, HeapWriteFailed, slruVars
<1>16. ASSUME StartupMove PROVE UNCHANGED <<xactFile, xactKept>>
  BY <1>16 DEF StartupMove, RedoTuple, RedoEnd, RedoZero, RedoOther, EndReplay, Redo
<1> QED BY <1>13, <1>14, <1>15, <1>16 DEF Move, Nothing

\* Which steps change the data page, and which its file.
LEMMA PageChange ==
  ASSUME ControlInv, Move, ~Crash
  PROVE  /\ \/ UNCHANGED page
            \/ \E b \in Backends : InsertTuple(b) \/ InsertFails(b) \/ LogInsert(b) \/ SetHintBits(b)
            \/ RedoTuple
         /\ \/ UNCHANGED <<heapFile, heapKept>>
            \/ \E p \in {BgWriter, Checkpointer} : HeapWrite(p)
            \/ ProcessSyncRequests
<1>13. ASSUME NEW b \in Backends, BackendMove(b)
       PROVE  /\ UNCHANGED page \/ InsertTuple(b) \/ InsertFails(b) \/ LogInsert(b) \/ SetHintBits(b)
              /\ UNCHANGED <<heapFile, heapKept>>
  BY <1>13
     DEF BackendMove, ZeroNext, AllButIO, GetNewTransactionId, LogEnd, FlushCommit, EndTransaction, Scan, ScanNothing, ReadBit,
         MarkBufferDirtyHint, InsertTuple, PutTuple, InsertFails, LeaveStray, LogInsert, Stamp, SetHintBits, heapVars
<1>14. ASSUME SharedMove
       PROVE  /\ UNCHANGED page
              /\ UNCHANGED <<heapFile, heapKept>> \/ \E p \in {BgWriter, Checkpointer} : HeapWrite(p)
  BY <1>14
     DEF SharedMove, SetBit, SlruPhysicalReadPage, BeginRead, BeginWrite, TakeOver, AllButIO, SlruWrite, SlruWritten, BeginFlush,
         FlushBuffer, StartBufferIO, HeapWrite, smgrwrite, HeapWritten, TerminateBufferIO, heapVars
<1>15. ASSUME CheckpointerMove
       PROVE  /\ UNCHANGED page
              /\ UNCHANGED <<heapFile, heapKept>> \/ ProcessSyncRequests
  BY <1>15
     DEF CheckpointerMove, CkptRedo, CkptNextXid, CkptDelay, SkipPage, BufferSync, SkipBuffer, ProcessSyncRequests, CkptRecord,
         UpdateControlFile, SlruWriteFailed, HeapWriteFailed, TerminateBufferIO, heapVars
<1>16. ASSUME StartupMove
       PROVE  /\ UNCHANGED page \/ RedoTuple
              /\ UNCHANGED <<heapFile, heapKept>>
  BY <1>16 DEF StartupMove, RedoTuple, RedoInsert, RedoEnd, RedoZero, RedoOther, EndReplay, heapVars
<1> QED BY <1>13, <1>14, <1>15, <1>16 DEF Move, Nothing, heapVars

(* --- What is logged before it is written ---------------------------------------------------- *)

(* A record of the kind about x is among the first n of the log l. *)
Has(l, kind, x, n) == \E i \in 1..n : l[i].kind = kind /\ l[i].xid = x

(* The records before the n-th name transactions below x. *)
Below(l, n, x) == \A i \in 1..Len(l) : i < n /\ l[i].kind \in Traces => l[i].xid < x

(* The first record that recovery has not seen yet. *)
Replayed == IF Replaying THEN replay ELSE Len(log) + 1

(* Nobody is given an id that the log names: the redo point comes before the nextXid that goes   *)
(* with it.                                                                                  *)
FreshOK ==
  /\ nextXid > 0 /\ controlFile.nextXid > 0
  /\ Below(log, Replayed, nextXid)
  /\ Below(log, controlFile.redo, controlFile.nextXid)
  /\ at[Checkpointer] \notin {"idle", "ckNextXid"} =>
       checkPoint.nextXid > 0 /\ Below(log, checkPoint.redo, checkPoint.nextXid)
  /\ \A b \in Backends : my[b].kind \in Updates \union Lookups => my[b].xid < nextXid

(* Pages of pg_xact beyond nextXid are left alone, but for one that is being made. *)
Ahead(pg) == \A x \in On(pg) : nextXid <= x
Handling(pg) ==
  \/ \E b \in Backends : at[b] = "extended" /\ pg = TransactionIdToPage(nextXid)
  \/ at[Startup] = "writeZeroes" /\ my[Startup].xid = pg
  \/ at[Startup] \in {"xactWrite", "xactWritten"} /\ io[Startup].page = pg

AheadOK ==
  /\ \A pg \in Pages : Ahead(pg) /\ ~Handling(pg) => slot[pg].status \in {"empty", "valid"} /\ ~slot[pg].dirty
  /\ at[Startup] \in {"xactWrite", "xactWritten"} => ~slot[io[Startup].page].dirty

(* A commit that shows in a slot is durable, or will be once the log is flushed up to the slot's  *)
(* LSN, as it is before the slot is written.                                                  *)
SlotLogged(pg) ==
  /\ slot[pg].lsn <= Len(log)
  /\ slot[pg].status = "writing" => slot[pg].lsn <= durable
  /\ \A x \in On(pg) : slot[pg].bits[x] = "committed" =>
       Has(log, "commit", x, durable) \/ Has(log, "commit", x, slot[pg].lsn)

FileLogged(pg) ==
  \A bits \in xactKept[pg] : bits # None =>
    \A x \in On(pg) : bits[x] = "committed" => Has(log, "commit", x, durable)

(* The ids that a hint calls committed. *)
Says(c) == c.committed \union c.strayCommitted

PageLogged ==
  /\ page.lsn <= Len(log)
  /\ \A p \in {Checkpointer, BgWriter} : at[p] = "heapWrite" => page.lsn <= durable
  /\ \A x \in page.tuples :
       x = 0 \/ Has(log, "insert", x, page.lsn) \/ \E b \in Backends : at[b] = "logInsert" /\ my[b].xid = x
  /\ \A x \in Says(page) : Has(log, "commit", x, durable) \/ Has(log, "commit", x, page.lsn)

KeptLogged(c) ==
  /\ c.lsn <= durable
  /\ \A x \in c.tuples : x = 0 \/ Has(log, "insert", x, c.lsn)
  /\ \A x \in Says(c) : Has(log, "commit", x, durable)

ScanLogged(b) ==
  Phase(b) = "hint" /\ my[b].status = "committed" =>
    /\ my[b].lsn <= Len(log)
    /\ Has(log, "commit", my[b].xid, durable) \/ Has(log, "commit", my[b].xid, my[b].lsn)

LoggedInv ==
  /\ FreshOK /\ AheadOK /\ BufferLockOK /\ PageLogged
  /\ \A pg \in Pages : SlotLogged(pg) /\ FileLogged(pg)
  /\ \A c \in heapKept : KeptLogged(c)
  /\ \A b \in Backends : ScanLogged(b)

\* A longer log with the same beginning has the same records.
LEMMA HasMore ==
  ASSUME NEW l, NEW m, NEW n \in Nat, NEW k \in Nat, n <= k, \A i \in 1..n : m[i] = l[i]
  PROVE  \A kind, x : Has(l, kind, x, n) => Has(m, kind, x, k)
<1>1. \A i \in 1..n : i \in 1..k
  OBVIOUS
<1> QED BY <1>1 DEF Has

(* The log as any step leaves it: what is durable stays. *)
LEMMA DurableStays ==
  ASSUME ControlInv, Move
  PROVE  /\ durable \in Nat /\ durable' \in Nat /\ Len(log) \in Nat /\ Len(log') \in Nat /\ durable <= Len(log)
         /\ durable' <= Len(log') /\ durable <= durable'
         /\ \A i \in 1..durable : log'[i] = log[i]
         /\ \A kind, x : Has(log, kind, x, durable) => Has(log', kind, x, durable')
<1>0. Len(log) \in Nat /\ durable \in 0..Len(log) /\ (Len(log) \in Nat)' /\ (durable \in 0..Len(log))'
  BY LogStep DEF ControlInv, LogOK
<1>1. durable <= durable' /\ \A i \in 1..durable : log'[i] = log[i]
  <2>1. CASE Crash
    <3>1. PICK n \in durable..Len(log) : Lose(n)
      BY <2>1 DEF Crash
    <3>2. durable' = n /\ durable <= n /\ \A i \in 1..n : log'[i] = log[i]
      BY <3>1, LoseEffect DEF ControlInv
    <3> QED BY <1>0, <3>2
  <2>2. CASE ~Crash
    BY <1>0, <2>2, LogStep DEF Grows
  <2> QED BY <2>1, <2>2
<1>2. durable \in Nat /\ durable' \in Nat
  BY <1>0
<1>3. \A kind, x : Has(log, kind, x, durable) => Has(log', kind, x, durable')
  BY <1>1, <1>2, HasMore
<1> QED BY <1>0, <1>1, <1>2, <1>3

(* Without a crash what is in the log stays there. *)
LEMMA LogStays ==
  ASSUME ControlInv, Move, ~Crash, NEW n \in Nat, n <= Len(log), NEW m \in Nat, n <= m
  PROVE  n <= Len(log') /\ \A kind, x : Has(log, kind, x, n) => Has(log', kind, x, m)
<1>1. Grows /\ Len(log) \in Nat /\ Len(log') \in Nat
  BY LogStep DEF ControlInv, LogOK
<1>2. n <= Len(log') /\ \A i \in 1..n : log'[i] = log[i]
  BY <1>1 DEF Grows
<1> QED BY <1>2, HasMore

(* The record a step adds. *)
NewRecord(r) ==
  \/ \E b \in Backends :
       \/ ZeroNext(b) /\ r = [kind |-> "zero", xid |-> TransactionIdToPage(nextXid)]
       \/ LogInsert(b) /\ r = [kind |-> "insert", xid |-> my[b].xid]
       \/ LogEnd(b) /\ r = [kind |-> IF my[b].kind = "abort" THEN "abort" ELSE "commit", xid |-> my[b].xid]
  \/ CkptRedo /\ r = [kind |-> "redo", xid |-> None]
  \/ CkptRecord /\ r = [kind |-> "checkpoint", xid |-> checkPoint.nextXid]

\* A step but a crash leaves the log alone or adds one record of those that the actions
\* write.
LEMMA LogChange ==
  ASSUME ControlInv, Move, ~Crash
  PROVE  \/ log' = log
         \/ /\ Len(log') = Len(log) + 1 /\ NewRecord(log'[Len(log) + 1])
            /\ \A i \in 1..Len(log') : i \in 1..Len(log) \/ i = Len(log) + 1
<1> USE DEF ControlInv
<1>0. Len(log) \in Nat /\ LogOK'
  BY LogStep DEF LogOK
<1>1. ASSUME NEW r, Insert(r), NewRecord(r)
      PROVE  /\ Len(log') = Len(log) + 1 /\ NewRecord(log'[Len(log) + 1])
             /\ \A i \in 1..Len(log') : i \in 1..Len(log) \/ i = Len(log) + 1
  <2>1. log' = Append(log, r)
    BY <1>1 DEF Insert
  <2>2. Len(log') = Len(log) + 1 /\ log'[Len(log) + 1] = r
    BY <2>1 DEF LogOK
  <2>3. \A i \in 1..Len(log') : i \in 1..Len(log) \/ i = Len(log) + 1
    BY <1>0, <2>2
  <2> QED BY <1>1, <2>2, <2>3
<1>2. ASSUME NEW b \in Backends, BackendMove(b) PROVE log' = log \/ \E r : Insert(r) /\ NewRecord(r)
  <2>1. CASE ZeroNext(b)
    BY <2>1 DEF ZeroNext, Log, NewRecord
  <2>2. CASE LogInsert(b)
    BY <2>2 DEF LogInsert, Log, NewRecord
  <2>3. CASE LogEnd(b)
    BY <2>3 DEF LogEnd, Log, NewRecord
  <2>4. CASE FlushCommit(b)
    BY <2>4 DEF FlushCommit, XLogFlush, Sync, walVars
  <2> QED BY <1>2, <2>1, <2>2, <2>3, <2>4
          DEF BackendMove, GetNewTransactionId, InsertTuple, InsertFails, EndTransaction, Scan, ScanNothing, ReadBit, SetHintBits,
              MarkBufferDirtyHint, walVars
<1>3. SharedMove => log' = log
  BY DEF SharedMove, SetBit, SlruPhysicalReadPage, BeginRead, SlruWrite, SlruWritten, BeginWrite, TakeOver, BeginFlush, FlushBuffer,
         XLogFlush, Sync, HeapWrite, HeapWritten, walVars
<1>4. CheckpointerMove => log' = log \/ \E r : Insert(r) /\ NewRecord(r)
  <2>1. CASE CkptRedo \/ CkptRecord
    BY <2>1 DEF CkptRedo, CkptRecord, Log, NewRecord
  <2> QED BY <2>1
          DEF CheckpointerMove, CkptNextXid, CkptDelay, SkipPage, BufferSync, SkipBuffer, ProcessSyncRequests, SlruWriteFailed,
              HeapWriteFailed, UpdateControlFile, XLogFlush, Sync, walVars
<1>5. StartupMove \/ Nothing => log' = log
  BY DEF StartupMove, RedoTuple, RedoEnd, RedoZero, RedoOther, EndReplay, Redo, Nothing
<1> QED BY <1>1, <1>2, <1>3, <1>4, <1>5 DEF Move

Redoes == RedoTuple \/ RedoEnd \/ RedoZero \/ RedoOther

\* How replay advances: record by record until the end, and with the log from then on.
LEMMA ReplayedStep ==
  ASSUME ControlInv, ControlInv', Move, ~Crash
  PROVE  /\ Replayed \in 1..(Len(log) + 1) /\ Len(log) \in Nat
         /\ \/ Redoes /\ replay \in 1..Len(log) /\ Replaying /\ Replaying' /\ Replayed = replay /\ Replayed' = replay + 1 /\ log' = log
            \/ Replayed' = Replayed /\ log' = log
            \/ ~Replaying /\ Replayed = Len(log) + 1 /\ Replayed' = Len(log') + 1
<1> USE Names DEF ControlInv
<1>0. Len(log) \in Nat /\ Replayed \in 1..(Len(log) + 1)
  BY DEF LogOK, Replayed, StartupOK
<1>1. CASE StartupMove
  <2>1. at[Startup] = "replay" /\ Replaying /\ Replayed = replay /\ log' = log /\ replay \in 1..(Len(log) + 1)
    BY <1>1, StartupPhases, ReplayStill DEF Replaying, Replayed, StartupOK
  <2>2. CASE EndReplay
    <3>1. replay = Len(log) + 1
      BY <1>0, <2>1, <2>2 DEF EndReplay
    <3>2. ~Replaying'
      BY <1>1, <2>2, StartupPhases DEF Replaying
    <3> QED BY <1>0, <2>1, <3>1, <3>2 DEF Replayed
  <2>3. CASE Redoes
    <3>1. replay <= Len(log) /\ replay' = replay + 1
      BY <2>3 DEF Redoes, RedoTuple, RedoEnd, RedoZero, RedoOther, Redo
    <3>2. replay \in 1..Len(log)
      BY <1>0, <2>1, <3>1
    <3>3. ~EndReplay
      <4>1. EndReplay => replay > Len(log)
        BY DEF EndReplay
      <4> QED BY <1>0, <2>1, <3>1, <4>1
    <3>4. Replaying'
      BY <1>1, <3>3, StartupPhases DEF Replaying
    <3>5. Replayed' = replay'
      BY <3>4 DEF Replayed
    <3> QED BY <1>0, <2>1, <2>3, <3>1, <3>2, <3>4, <3>5
  <2> QED BY <1>1, <2>2, <2>3 DEF StartupMove, Redoes
<1>2. CASE UpdateControlFile
  <2>1. ~Replaying /\ ~Replaying'
    BY <1>2, CheckpointerPhases DEF CheckpointerMove, Replaying
  <2> QED BY <1>0, <2>1 DEF Replayed
<1>3. CASE ~StartupMove /\ ~UpdateControlFile
  <2>1. replay' = replay /\ (Replaying <=> Replaying')
    BY <1>3, RecoveryGoesOn DEF Replaying
  <2>2. CASE Replaying
    BY <1>0, <2>1, <2>2, ReplayStill DEF Replayed
  <2>3. CASE ~Replaying
    BY <1>0, <2>1, <2>3 DEF Replayed
  <2> QED BY <2>2, <2>3
<1> QED BY <1>1, <1>2, <1>3

\* The next id never goes back outside of a crash, and only its two users move it.
LEMMA NextXidStep ==
  ASSUME ControlInv, Move, ~Crash
  PROVE  /\ nextXid \in Nat /\ nextXid' \in Nat /\ nextXid <= nextXid'
         /\ \/ nextXid' = nextXid
            \/ \E b \in Backends : GetNewTransactionId(b)
            \/ Redoes
<1> USE DEF ControlInv
<1>0. nextXid \in Nat /\ nextXid' \in Nat
  BY XidGenStep, SlruConstants DEF XidGenOK, NextXids
<1>1. ASSUME NEW b \in Backends, BackendMove(b) PROVE nextXid' = nextXid \/ GetNewTransactionId(b)
  BY <1>1 DEF BackendMove, ZeroNext, AllButIO, InsertTuple, InsertFails, LogInsert, LogEnd, FlushCommit, EndTransaction, Scan, ScanNothing, ReadBit,
              SetHintBits, MarkBufferDirtyHint, xactVars
<1>2. SharedMove => nextXid' = nextXid
  BY DEF SharedMove, SetBit, SlruPhysicalReadPage, BeginRead, BeginWrite, TakeOver, AllButIO, SlruWrite, SlruWritten, BeginFlush,
         HeapWrite, HeapWritten, xactVars
<1>3. CheckpointerMove => nextXid' = nextXid
  BY DEF CheckpointerMove, CkptRedo, CkptNextXid, CkptDelay, SkipPage, BufferSync, SkipBuffer, ProcessSyncRequests, CkptRecord,
         UpdateControlFile, SlruWriteFailed, HeapWriteFailed, xactVars
<1>4. StartupMove => nextXid' = nextXid \/ Redoes
  BY DEF StartupMove, EndReplay, Redoes, xactVars
<1>5. Nothing => nextXid' = nextXid
  BY DEF Nothing, xactVars
<1>6. ASSUME NEW b \in Backends, GetNewTransactionId(b) PROVE nextXid <= nextXid'
  BY <1>0, <1>6 DEF GetNewTransactionId
<1>7. Redoes => nextXid <= nextXid'
  <2>1. CASE RedoZero
    BY <1>0, <2>1 DEF RedoZero
  <2>2. CASE RedoTuple \/ RedoEnd \/ RedoOther
    <3>1. replay \in 1..Len(log)
      BY <2>2 DEF RedoTuple, RedoEnd, RedoOther, Redo, StartupOK, Replaying, LogOK
    <3>2. /\ log[replay].kind \in Traces => log[replay].xid \in Xids
          /\ log[replay].kind = "checkpoint" => log[replay].xid \in NextXids
      BY <3>1 DEF LogOK
    <3>3. \A x \in Xids : nextXid <= AdvanceNextXidPast(x)
      BY <1>0 DEF AdvanceNextXidPast, Larger, Xids
    <3>4. \A x \in NextXids : nextXid <= Larger(nextXid, x)
      BY <1>0 DEF Larger, NextXids
    <3> QED BY <1>0, <2>2, <3>2, <3>3, <3>4 DEF RedoTuple, RedoEnd, RedoOther, Redo, Traces
  <2> QED BY <2>1, <2>2 DEF Redoes
<1>8. nextXid' = nextXid => nextXid <= nextXid'
  BY <1>0
<1> QED BY <1>0, <1>1, <1>2, <1>3, <1>4, <1>5, <1>6, <1>7, <1>8 DEF Move

(* A step of somebody else leaves the checkpointer where it is; its own I/O leaves its phase. *)
LEMMA CheckpointerStays ==
  ASSUME ControlInv, Move, ~Crash, ~CheckpointerMove, ~EndReplay
  PROVE  /\ UNCHANGED <<controlFile, checkPoint>>
         /\ at'[Checkpointer] = "idle" <=> at[Checkpointer] = "idle"
         /\ \/ at'[Checkpointer] = at[Checkpointer] /\ Phase(Checkpointer)' = Phase(Checkpointer)
            \/ /\ BeginFlush(Checkpointer) \/ HeapWrite(Checkpointer) \/ HeapWritten(Checkpointer)
               /\ Phase(Checkpointer) = at[Checkpointer] /\ Phase(Checkpointer)' = at'[Checkpointer]
            \/ /\ Phase(Checkpointer) = "ckXact" /\ Phase(Checkpointer)' = "ckXact"
               /\ at[Checkpointer] \in {"ckXact", "xactWrite", "xactWritten"}
               /\ at'[Checkpointer] \in {"ckXact", "xactWrite", "xactWritten"}
<1> USE Names DEF ControlInv
<1>1. ASSUME NEW b \in Backends, BackendMove(b)
      PROVE  /\ UNCHANGED <<controlFile, checkPoint>>
             /\ at'[Checkpointer] = at[Checkpointer] /\ Phase(Checkpointer)' = Phase(Checkpointer)
  <2>1. UNCHANGED <<controlFile, checkPoint>>
    BY <1>1 DEF BackendMove, ZeroNext, AllButIO, GetNewTransactionId, InsertTuple, InsertFails, LogInsert, LogEnd, FlushCommit, EndTransaction,
                Scan, ScanNothing, ReadBit, SetHintBits, MarkBufferDirtyHint, ckptVars
  <2> QED BY <1>1, <2>1, BackendPhases DEF OthersThere
<1>2. StartupMove =>
        /\ UNCHANGED <<controlFile, checkPoint>>
        /\ at'[Checkpointer] = at[Checkpointer] /\ Phase(Checkpointer)' = Phase(Checkpointer)
  <2>1. StartupMove => UNCHANGED <<controlFile, checkPoint>>
    BY DEF StartupMove, RedoTuple, RedoEnd, RedoZero, RedoOther, Redo
  <2> QED BY <2>1, StartupPhases
<1>3. Nothing =>
        /\ UNCHANGED <<controlFile, checkPoint>>
        /\ at'[Checkpointer] = at[Checkpointer] /\ Phase(Checkpointer)' = Phase(Checkpointer)
  BY DEF Nothing, ckptVars, Phase
<1>4. SharedMove => UNCHANGED <<controlFile, checkPoint>>
  BY DEF SharedMove, SetBit, SlruPhysicalReadPage, BeginRead, BeginWrite, TakeOver, AllButIO, SlruWrite, SlruWritten, BeginFlush,
         HeapWrite, HeapWritten, ckptVars
<1>5. ASSUME NEW p \in Backends \union {Startup}, SetBit(p) \/ SlruPhysicalReadPage(p) \/ (\E pg \in Pages : BeginRead(p, pg))
      PROVE  at'[Checkpointer] = at[Checkpointer] /\ Phase(Checkpointer)' = Phase(Checkpointer)
  BY <1>5, SetBitPhases, ReadPhases, BeginReadPhases DEF OthersThere
<1>6. ASSUME NEW p \in Everyone \ {BgWriter}, p # Checkpointer,
             SlruWrite(p) \/ SlruWritten(p) \/ (\E pg \in Pages, back \in Backs : BeginWrite(p, pg, back))
      PROVE  at'[Checkpointer] = at[Checkpointer] /\ Phase(Checkpointer)' = Phase(Checkpointer)
  BY <1>6, WritePhases, WrittenPhases, BeginWritePhases DEF OthersThere
<1>7. ASSUME NEW p, p = Checkpointer,
             SlruWrite(p) \/ SlruWritten(p) \/ (\E pg \in Pages, back \in Backs : BeginWrite(p, pg, back))
      PROVE  /\ Phase(p) = "ckXact" /\ Phase(p)' = "ckXact"
             /\ at[p] \in {"ckXact", "xactWrite", "xactWritten"} /\ at'[p] \in {"ckXact", "xactWrite", "xactWritten"}
  <2>1. at[p] \in {"xactWrite", "xactWritten"} => io[p].back = "ckXact" /\ Phase(p) = "ckXact"
    BY <1>7 DEF IOOK, IOStates, Phase
  <2>2. ASSUME NEW pg \in Pages, NEW back \in Backs, BeginWrite(p, pg, back)
        PROVE  at[p] = "ckXact" /\ Phase(p) = "ckXact" /\ Phase(p)' = "ckXact" /\ at'[p] = "xactWrite"
    <3>1. at[p] \in {"setStatus", "getStatus", "replay", "ckXact"} /\ back = at[p]
      BY <1>7, <2>2 DEF BeginWrite
    <3>2. at[p] = "ckXact"
      BY <1>7, <3>1 DEF AtOK, CkptStates
    <3> QED BY <1>7, <2>2, <3>1, <3>2, BeginWritePhases
  <2> QED BY <1>7, <2>1, <2>2, WritePhases, WrittenPhases
<1>8. ASSUME NEW p \in {BgWriter, Checkpointer}, BeginFlush(p) \/ HeapWrite(p) \/ HeapWritten(p)
      PROVE  IF p = Checkpointer
             THEN Phase(p) = at[p] /\ Phase(p)' = at'[p] /\ at[p] # "idle" /\ at'[p] # "idle"
             ELSE at'[Checkpointer] = at[Checkpointer] /\ Phase(Checkpointer)' = Phase(Checkpointer)
  BY <1>8, HeapIOPhases DEF OthersThere
<1>9. ASSUME NEW pg \in Pages, TakeOver(pg) PROVE at'[Checkpointer] = at[Checkpointer] /\ Phase(Checkpointer)' = Phase(Checkpointer)
  BY <1>9 DEF TakeOver, Phase
<1> QED BY <1>1, <1>2, <1>3, <1>4, <1>5, <1>6, <1>7, <1>8, <1>9 DEF Move, SharedMove

(* No id is assigned that the log names. *)
LEMMA FreshStep ==
  ASSUME ControlInv, ControlInv', FreshOK, Move
  PROVE  FreshOK'
<1> USE Names DEF ControlInv
<1>0. /\ Len(log) \in Nat /\ Len(log') \in Nat /\ durable \in 0..Len(log) /\ durable' \in 0..Len(log')
      /\ nextXid \in Nat /\ nextXid' \in Nat /\ controlFile.redo \in 1..(durable + 1) /\ controlFile.nextXid \in Nat
      /\ \A i \in 1..Len(log) : log[i].kind \in Traces => log[i].xid \in Nat
  <2>1. /\ Len(log) \in Nat /\ durable \in 0..Len(log)
        /\ \A i \in 1..Len(log) : log[i].kind \in Traces => log[i].xid \in Nat
    <3>1. Xids \subseteq Nat
      BY PageOfXid
    <3>2. Len(log) \in Nat /\ durable \in 0..Len(log) /\ \A i \in 1..Len(log) : log[i].kind \in Traces => log[i].xid \in Xids
      BY DEF LogOK
    <3> QED BY <3>1, <3>2
  <2>2. Len(log') \in Nat /\ durable' \in 0..Len(log')
    BY DEF LogOK
  <2>3. NextXids \subseteq Nat
    BY SlruConstants DEF NextXids
  <2>4. nextXid \in Nat /\ nextXid' \in Nat
    BY <2>3 DEF XidGenOK
  <2>5. controlFile.redo \in 1..(durable + 1) /\ controlFile.nextXid \in Nat
    BY <2>3 DEF CheckpointOK
  <2> QED BY <2>1, <2>2, <2>4, <2>5
<1>1. CASE Crash
  <2>1. PICK n \in durable..Len(log) : Lose(n)
    BY <1>1 DEF Crash
  <2>2. Len(log') = n /\ \A i \in 1..n : i \in 1..Len(log) /\ log'[i] = log[i]
    BY <2>1, LoseEffect
  <2>3. Below(log', controlFile.redo, controlFile.nextXid)
    BY <2>2 DEF FreshOK, Below
  <2>4. Replayed' = controlFile.redo /\ nextXid' = controlFile.nextXid /\ controlFile' = controlFile
    BY <1>1, CrashPhases DEF Replayed, Replaying, Crash
  <2>5. at'[Checkpointer] = "idle" /\ \A b \in Backends : my'[b].kind = None
    BY <1>1, CrashPhases DEF Crash, NoXact
  <2> QED BY <2>3, <2>4, <2>5, DurabilityConstants DEF FreshOK, Updates, Lookups
<1> SUFFICES ASSUME ~Crash PROVE FreshOK'
  BY <1>1
<1>2. nextXid <= nextXid' /\ Grows
  BY NextXidStep, LogStep
<1>3. ASSUME NEW n, NEW x \in Nat, NEW y \in Nat, x <= y, Below(log, n, x), NEW i \in 1..Len(log), i < n, log'[i].kind \in Traces
      PROVE  log'[i].xid < y
  <2>1. log'[i] = log[i] /\ log[i].xid \in Nat /\ log[i].xid < x
    BY <1>0, <1>2, <1>3 DEF Below, Grows
  <2> QED BY <1>3, <2>1
<1>4. ASSUME NEW n \in Nat, NEW x \in Nat, n <= Len(log) + 1, Below(log, n, x)
      PROVE  Below(log', n, x)
  <2>1. ASSUME NEW i \in 1..Len(log'), i < n, log'[i].kind \in Traces PROVE log'[i].xid < x
    <3>1. i \in 1..Len(log)
      BY <1>0, <1>4, <2>1
    <3> QED BY <1>3, <1>4, <2>1, <3>1
  <2> QED BY <2>1 DEF Below
<1>5. Below(log', Replayed', nextXid')
  <2> SUFFICES ASSUME NEW i \in 1..Len(log'), i < Replayed', log'[i].kind \in Traces PROVE log'[i].xid < nextXid'
    BY DEF Below
  <2>1. CASE i \in 1..Len(log) /\ i < Replayed
    BY <1>0, <1>2, <1>3, <2>1 DEF FreshOK
  <2>2. CASE Redoes /\ replay \in 1..Len(log) /\ Replayed = replay /\ Replayed' = replay + 1 /\ log' = log
    <3>1. i = replay \/ (i \in 1..Len(log) /\ i < Replayed)
      BY <1>0, <2>2
    <3>2. CASE i = replay
      <4>1. log[replay].kind \in Traces /\ log[replay].xid \in Nat
        BY <1>0, <2>2, <3>2
      <4>2. RedoTuple \/ RedoEnd
        BY <2>2, <4>1 DEF Redoes, RedoZero, RedoOther, Redo, Traces
      <4>3. nextXid' = AdvanceNextXidPast(log[replay].xid)
        BY <4>2 DEF RedoTuple, RedoEnd
      <4>4. log[replay].xid < nextXid'
        <5>1. \A x \in Nat : x < AdvanceNextXidPast(x)
          BY <1>0 DEF AdvanceNextXidPast, Larger
        <5> QED BY <4>1, <4>3, <5>1
      <4> QED BY <2>2, <3>2, <4>4
    <3> QED BY <2>1, <3>1, <3>2
  <2>3. CASE Replayed' = Replayed /\ log' = log
    BY <2>1, <2>3
  <2>4. CASE ~Replaying /\ Replayed = Len(log) + 1 /\ Replayed' = Len(log') + 1
    <3>1. i \in 1..Len(log) => i < Replayed
      <4>1. Len(log) \in Nat
        BY <1>0
      <4> QED BY <2>4, <4>1
    <3>2. CASE i \notin 1..Len(log)
      <4>1. i = Len(log) + 1 /\ NewRecord(log'[i])
        BY <3>2, LogChange
      <4>2. PICK b \in Backends : (LogInsert(b) \/ LogEnd(b)) /\ log'[i].xid = my[b].xid
        <5>1. log'[i].kind \in {"insert", "commit", "abort"}
          BY DEF Traces
        <5>2. PICK r : r = log'[i]
          OBVIOUS
        <5>3. NewRecord(r) /\ r.kind \in {"insert", "commit", "abort"}
          BY <4>1, <5>1, <5>2
        <5>4. \E b \in Backends : (LogInsert(b) \/ LogEnd(b)) /\ r.xid = my[b].xid
          BY <5>3 DEF NewRecord
        <5> QED BY <5>2, <5>4
      <4>3. my[b].kind \in Updates /\ nextXid' = nextXid
        BY <4>2, BackendPhases DEF LogInsert, LogEnd, BackendMove, MyOK, XactOK, xactVars
      <4> QED BY <4>2, <4>3 DEF FreshOK
    <3> QED BY <2>1, <3>1, <3>2
  <2> QED BY <2>2, <2>3, <2>4, ReplayedStep
<1>6. controlFile'.nextXid > 0 /\ Below(log', controlFile'.redo, controlFile'.nextXid)
  <2>1. CASE UpdateControlFile
    <3>1. at[Checkpointer] = "ckControl" /\ controlFile' = NewControlFile
      BY <2>1 DEF UpdateControlFile
    <3>2. checkPoint.redo \in Nat /\ checkPoint.redo <= Len(log) + 1 /\ checkPoint.nextXid \in Nat
      BY <1>0, <3>1, SlruConstants DEF CheckpointOK, NextXids
    <3>3. checkPoint.nextXid > 0 /\ Below(log, checkPoint.redo, checkPoint.nextXid)
      BY <3>1 DEF FreshOK
    <3>4. Below(log', checkPoint.redo, checkPoint.nextXid)
      BY <1>4, <3>2, <3>3
    <3> QED BY <3>1, <3>3, <3>4 DEF NewControlFile
  <2>2. CASE UNCHANGED controlFile
    <3>1. controlFile.redo \in Nat /\ controlFile.redo <= Len(log) + 1
      BY <1>0
    <3>2. Below(log', controlFile.redo, controlFile.nextXid)
      BY <1>0, <1>4, <3>1 DEF FreshOK
    <3> QED BY <2>2, <3>2 DEF FreshOK
  <2>3. UpdateControlFile \/ UNCHANGED controlFile
    BY CheckpointerStays DEF CheckpointerMove, CkptRedo, CkptNextXid, CkptDelay, SkipPage, BufferSync, SkipBuffer, ProcessSyncRequests,
                             CkptRecord, SlruWriteFailed, HeapWriteFailed, EndReplay, ckptVars
  <2> QED BY <2>1, <2>2, <2>3
<1>7. ASSUME at'[Checkpointer] \notin {"idle", "ckNextXid"}
      PROVE  checkPoint'.nextXid > 0 /\ Below(log', checkPoint'.redo, checkPoint'.nextXid)
  <2>1. at[Checkpointer] # "idle"
    <3>1. CASE CheckpointerMove
      <4>1. CASE CkptRedo
        BY <1>7, <4>1, GotoOnly DEF CkptRedo
      <4> QED BY <3>1, <4>1
              DEF CheckpointerMove, CkptNextXid, CkptDelay, SkipPage, BufferSync, SkipBuffer, ProcessSyncRequests, CkptRecord,
                  UpdateControlFile, SlruWriteFailed, HeapWriteFailed
    <3>2. CASE EndReplay
      BY <1>7, <3>2, StartupPhases DEF StartupMove
    <3> QED BY <1>7, <3>1, <3>2, CheckpointerStays
  <2>2. checkPoint.redo \in Nat /\ checkPoint.redo <= Len(log) + 1 /\ checkPoint.nextXid \in Nat
        /\ checkPoint \in [redo : Nat, nextXid : NextXids, record : Nat, pages : SUBSET Pages]
    BY <1>0, <2>1, SlruConstants, SMTT(30) DEF CheckpointOK, NextXids
  <2>3. CASE CkptNextXid
    <3>1. checkPoint' = [checkPoint EXCEPT !.nextXid = nextXid] /\ log' = log
      BY <2>3 DEF CkptNextXid, walVars
    <3>2. checkPoint'.redo = checkPoint.redo /\ checkPoint'.nextXid = nextXid
      BY <2>2, <3>1
    <3>3. ~Replaying
      BY <2>1 DEF StartupOK
    <3>4. Below(log, Len(log) + 1, nextXid)
      BY <3>3 DEF FreshOK, Replayed
    <3>5. Below(log, checkPoint.redo, nextXid)
      <4>1. \A i \in 1..Len(log) : i < Len(log) + 1
        BY <1>0
      <4> QED BY <3>4, <4>1 DEF Below
    <3> QED BY <3>1, <3>2, <3>5 DEF FreshOK
  <2>4. CASE ~CkptNextXid
    <3>1. /\ at[Checkpointer] # "ckNextXid"
          /\ checkPoint'.redo = checkPoint.redo /\ checkPoint'.nextXid = checkPoint.nextXid
      <4>1. CASE CheckpointerMove
        <5>1. CASE CkptRedo
          BY <2>1, <5>1 DEF CkptRedo
        <5>2. CASE UpdateControlFile \/ SlruWriteFailed \/ HeapWriteFailed
          <6>1. at'[Checkpointer] = "idle"
            BY <5>2, GotoOnly DEF UpdateControlFile, AtOK, SlruWriteFailed, HeapWriteFailed
          <6> QED BY <1>7, <6>1
        <5>3. CASE CkptRecord
          BY <2>2, <5>3 DEF CkptRecord
        <5>4. ASSUME NEW pg, SkipPage(pg)
              PROVE  at[Checkpointer] # "ckNextXid" /\ checkPoint'.redo = checkPoint.redo /\ checkPoint'.nextXid = checkPoint.nextXid
          BY <2>2, <5>4 DEF SkipPage
        <5> QED BY <2>4, <4>1, <5>1, <5>2, <5>3, <5>4
                DEF CheckpointerMove, CkptDelay, BufferSync, SkipBuffer, ProcessSyncRequests, ckptVars
      <4>2. CASE EndReplay
        BY <1>7, <4>2, StartupPhases DEF StartupMove
      <4>3. CASE ~CheckpointerMove /\ ~EndReplay
        BY <1>7, <4>3, CheckpointerStays DEF BeginFlush, HeapWrite, HeapWritten
      <4> QED BY <4>1, <4>2, <4>3
    <3>2. Below(log', checkPoint.redo, checkPoint.nextXid) /\ checkPoint.nextXid > 0
      BY <1>4, <2>1, <2>2, <3>1 DEF FreshOK
    <3> QED BY <3>1, <3>2
  <2> QED BY <2>3, <2>4
<1>8. ASSUME NEW b \in Backends, my'[b].kind \in Updates \union Lookups PROVE my'[b].xid < nextXid'
  <2>0. /\ my[b] \in MyType /\ my \in [Everyone -> MyType]
        /\ my[b].kind \in Updates \union Lookups => my[b].xid \in Nat /\ my[b].xid < nextXid
    BY PageOfXid DEF MyOK, XactOK, FreshOK
  <2>1. ASSUME my'[b].kind = my[b].kind, my'[b].xid = my[b].xid PROVE my'[b].xid < nextXid'
    BY <1>0, <1>2, <1>8, <2>0, <2>1
  <2>2. CASE GetNewTransactionId(b)
    <3>1. my'[b].xid = nextXid /\ nextXid' = nextXid + 1
      BY <2>0, <2>2 DEF GetNewTransactionId, MyType
    <3> QED BY <1>0, <3>1
  <2>3. CASE Scan(b)
    <3>1. PICK kind \in Lookups, x \in Xids : x \in Unhinted(kind) /\ ~InProgress(x) /\ my' = [my EXCEPT ![b].kind = kind, ![b].xid = x]
      <4>1. \A kind \in Lookups : Unhinted(kind) \subseteq Xids
        BY DEF Unhinted, HeapOK, Content
      <4> QED BY <2>3, <4>1 DEF Scan, Lookups
    <3>2. my'[b].xid = x /\ nextXid' = nextXid /\ x \in Nat
      BY <2>0, <2>3, <3>1, PageOfXid DEF Scan, MyType, Unhinted, HeapOK, Content, xactVars
    <3> QED BY <1>0, <3>1, <3>2 DEF InProgress
  <2>4. CASE LogEnd(b) \/ ReadBit(b)
    <3>1. my'[b].kind = my[b].kind /\ my'[b].xid = my[b].xid
      <4>1. CASE LogEnd(b)
        <5>1. my' = [my EXCEPT ![b].lsn = Len(log) + 1]
          BY <4>1 DEF LogEnd
        <5> QED BY <2>0, <5>1 DEF MyType
      <4>2. CASE ReadBit(b)
        <5>1. \E s, n : my' = [my EXCEPT ![b].status = s, ![b].lsn = n]
          BY <4>2 DEF ReadBit
        <5> QED BY <2>0, <5>1 DEF MyType
      <4> QED BY <2>4, <4>1, <4>2
    <3> QED BY <2>1, <3>1
  <2>5. ASSUME my' = [my EXCEPT ![b] = NoXact[b]] PROVE FALSE
    <3>1. my'[b].kind = None
      BY <2>0, <2>5, NoXactType
    <3> QED BY <1>8, <3>1, DurabilityConstants DEF Updates, Lookups
  <2>6. CASE UNCHANGED my
    BY <2>1, <2>6
  <2>9. CASE InsertFails(b)
    <3>1. my'[b].xid = my[b].xid /\ my[b].kind \in Updates
      BY <2>0, <2>9 DEF InsertFails, MyType, MyOK, XactOK, Phase, IOStates
    <3> QED BY <1>0, <1>2, <2>0, <3>1
  <2>7. CASE BackendMove(b)
    BY <2>2, <2>3, <2>4, <2>5, <2>6, <2>7, <2>9
       DEF BackendMove, ZeroNext, AllButIO, InsertTuple, LogInsert, FlushCommit, EndTransaction, ScanNothing, SetHintBits,
           MarkBufferDirtyHint
  <2>8. CASE SetBit(b)
    BY <2>6, <2>8 DEF SetBit, AllButIO
  <2> QED BY <2>1, <2>7, <2>8, Bystanders
<1>9. nextXid' > 0
  BY <1>0, <1>2 DEF FreshOK
<1> QED BY <1>5, <1>6, <1>7, <1>8, <1>9 DEF FreshOK

(* --- Who does I/O on a page of pg_xact ----------------------------------------------------- *)

(* A status that is set, as it shows in the slot. *)
LEMMA SetBitEffect ==
  ASSUME ControlInv, NEW p \in Backends \union {Startup}, SetBit(p), NEW pg, pg = TransactionIdToPage(my[p].xid)
  PROVE  /\ my[p].xid \in Xids /\ pg \in Pages /\ my[p].xid \in On(pg) /\ NewStatus(p) \in Status /\ my[p].lsn \in Nat
         /\ slot'[pg].status = slot[pg].status /\ slot'[pg].io = slot[pg].io /\ slot'[pg].dirty = TRUE
         /\ slot'[pg].bits = [slot[pg].bits EXCEPT ![my[p].xid] = NewStatus(p)]
         /\ slot'[pg].lsn = Larger(slot[pg].lsn, IF my[p].kind = "async" THEN my[p].lsn ELSE 0)
         /\ slot[pg].status = "valid" \/ (slot[pg].status = "writing" /\ my[p].kind # "async")
<1>1. PICK x, st, n : x = my[p].xid /\ st = NewStatus(p) /\ n = IF my[p].kind = "async" THEN my[p].lsn ELSE 0
  OBVIOUS
<1>2. x \in Xids
  BY <1>1, XidToMark DEF SetBit
<1>3. n \in Nat /\ st \in Status /\ my[p].lsn \in Nat
  BY <1>1 DEF ControlInv, MyOK, MyType, Everyone, NewStatus, Status
<1>4. slot' = SetStatusBit(slot, x, st, n) /\ pg = TransactionIdToPage(x)
  BY <1>1 DEF SetBit
<1>5. SlotOK
  BY DEF ControlInv
<1>6. /\ SlotOK' /\ OthersSame(pg)
      /\ slot'[pg].status = slot[pg].status /\ slot'[pg].dirty = TRUE
      /\ slot'[pg].bits = [slot[pg].bits EXCEPT ![x] = st]
      /\ slot'[pg].lsn = Larger(slot[pg].lsn, n) /\ slot'[pg].io = slot[pg].io
  BY <1>2, <1>3, <1>4, <1>5, SetStatusBitEffect, ZenonT(60)
<1>7. pg \in Pages /\ x \in On(pg)
  BY <1>2, <1>4, PageOfXid
<1>8. slot[pg].status = "valid" \/ (slot[pg].status = "writing" /\ my[p].kind # "async")
  BY DEF SetBit, Usable, WriteOk
<1> QED BY <1>1, <1>2, <1>3, <1>6, <1>7, <1>8

(* A process that is in the middle of I/O was so before, on the same page, or has just begun. *)
LEMMA IOChange ==
  ASSUME ControlInv, Move, ~Crash, NEW p \in Everyone, at'[p] \in IOStates
  PROVE  \/ /\ at[p] \in IOStates /\ io'[p].page = io[p].page
            /\ at'[p] = at[p] \/ (SlruWrite(p) /\ at[p] = "xactWrite" /\ at'[p] = "xactWritten")
         \/ \E pg \in Pages : BeginRead(p, pg) /\ at'[p] = "xactRead" /\ io'[p].page = pg /\ p \in Backends \union {Startup}
         \/ \E pg \in Pages, back \in Backs : BeginWrite(p, pg, back) /\ at'[p] = "xactWrite" /\ io'[p].page = pg /\ p # BgWriter
<1> USE Names DEF ControlInv
<1>0. p \in Backends \union {Startup, Checkpointer, BgWriter}
  BY DEF Everyone
<1>1. ASSUME at'[p] = at[p], io'[p] = io[p] PROVE at[p] \in IOStates /\ io'[p].page = io[p].page /\ at'[p] = at[p]
  BY <1>1
<1>2. ASSUME NEW b \in Backends, BackendMove(b) PROVE at'[p] = at[p] /\ io'[p] = io[p]
  BY <1>2, BackendPhases DEF OthersThere
<1>3. ASSUME CheckpointerMove PROVE at'[p] = at[p] /\ io'[p] = io[p]
  <2>1. p # Checkpointer /\ ~(p = Startup /\ UpdateControlFile)
    BY <1>3, CheckpointerPhases DEF IOStates
  <2> QED BY <1>0, <1>3, <2>1, CheckpointerPhases
<1>4. ASSUME StartupMove PROVE at'[p] = at[p] /\ io'[p] = io[p]
  <2>1. p # Startup /\ ~(p = Checkpointer /\ EndReplay)
    BY <1>4, StartupPhases DEF IOStates
  <2> QED BY <1>0, <1>4, <2>1, StartupPhases
<1>5. Nothing => at'[p] = at[p] /\ io'[p] = io[p]
  BY DEF Nothing
<1>6. ASSUME NEW r \in Backends \union {Startup}, SetBit(r) PROVE at'[p] = at[p] /\ io'[p] = io[p]
  <2>1. at'[r] \notin IOStates
    BY <1>6, SetBitPhases DEF IOStates
  <2> QED BY <1>6, <2>1, SetBitPhases DEF OthersThere
<1>7. ASSUME NEW r \in Backends \union {Startup}, SlruPhysicalReadPage(r) PROVE at'[p] = at[p] /\ io'[p] = io[p]
  <2>1. io[r].back \notin IOStates /\ "failed" \notin IOStates
    BY <1>7, ReadPhases DEF IOOK, IOStates
  <2>2. at'[r] \notin IOStates
    BY <1>7, <2>1, ReadPhases DEF Phase, IOStates
  <2> QED BY <1>7, <2>2, ReadPhases DEF OthersThere
<1>8. ASSUME NEW r \in Backends \union {Startup}, NEW pg \in Pages, BeginRead(r, pg)
      PROVE  (at'[p] = at[p] /\ io'[p] = io[p]) \/ (r = p /\ at'[p] = "xactRead" /\ io'[p].page = pg)
  BY <1>8, BeginReadPhases DEF OthersThere
<1>9. ASSUME NEW r \in Everyone \ {BgWriter}, SlruWrite(r)
      PROVE  (at'[p] = at[p] /\ io'[p] = io[p]) \/ (r = p /\ at[p] = "xactWrite" /\ at'[p] = "xactWritten" /\ io'[p] = io[p])
  BY <1>9, WritePhases DEF OthersThere
<1>10. ASSUME NEW r \in Everyone \ {BgWriter}, SlruWritten(r) PROVE at'[p] = at[p] /\ io'[p] = io[p]
  BY <1>10, WrittenPhases DEF OthersThere
<1>11. ASSUME NEW r \in Everyone \ {BgWriter}, NEW pg \in Pages, NEW back \in Backs, BeginWrite(r, pg, back)
       PROVE  (at'[p] = at[p] /\ io'[p] = io[p]) \/ (r = p /\ at'[p] = "xactWrite" /\ io'[p].page = pg)
  BY <1>11, BeginWritePhases DEF OthersThere
<1>12. ASSUME NEW pg \in Pages, TakeOver(pg) PROVE at'[p] = at[p] /\ io'[p] = io[p]
  BY <1>12 DEF TakeOver
<1>13. ASSUME NEW r \in {BgWriter, Checkpointer}, BeginFlush(r) \/ HeapWrite(r) \/ HeapWritten(r) PROVE at'[p] = at[p] /\ io'[p] = io[p]
  BY <1>13, HeapIOPhases DEF OthersThere
<1>14. "xactWrite" \in IOStates
  BY DEF IOStates
<1> QED BY <1>1, <1>2, <1>3, <1>4, <1>5, <1>6, <1>7, <1>8, <1>9, <1>10, <1>11, <1>12, <1>13, <1>14 DEF Move, SharedMove

(* While the log is replayed nobody but the startup process does I/O on pg_xact. *)
LEMMA AloneInReplay ==
  ASSUME ControlInv, Replaying, NEW p \in Everyone, p # Startup
  PROVE  at[p] \notin IOStates
<1>1. p \in Backends \/ p = Checkpointer \/ p = BgWriter
  BY DEF Everyone
<1>2. (\A b \in Backends : at[b] = "idle") /\ at[Checkpointer] = "idle" /\ at[BgWriter] \in {"idle", "heapWrite", "heapWritten"}
  BY DEF ControlInv, StartupOK, AtOK, Replaying
<1> QED BY <1>1, <1>2 DEF IOStates

(* The page that GetNewTransactionId is about to zero is nobody's. *)
LEMMA NextPageFree ==
  ASSUME ControlInv, AheadOK, NEW b \in Backends, ZeroNext(b), NEW q, q = TransactionIdToPage(nextXid)
  PROVE  q \in Pages /\ Ahead(q) /\ slot[q].status \in {"empty", "valid"} /\ ~slot[q].dirty
<1> USE Names DEF ControlInv
<1>1. nextXid \in Xids /\ nextXid \in Nat /\ FirstOnPage(nextXid) /\ at[b] = "idle" /\ at[Startup] = "idle" /\ XidGenLock \in {None, b}
  BY SlruConstants DEF ZeroNext, XidGenOK, NextXids, Xids, Starts, Up
<1>2. q \in Pages
  BY <1>1, PageOfXid
<1>3. Ahead(q)
  BY <1>1, FirstIsLeast DEF Ahead
<1>4. ~Handling(q)
  BY <1>1 DEF Handling, XidGenOK
<1> QED BY <1>2, <1>3, <1>4 DEF AheadOK

(* A page of pg_xact that is read or written belongs to the one who does so. *)
LEMMA BufferLockStep ==
  ASSUME ControlInv, ControlInv', AheadOK, BufferLockOK, Move
  PROVE  BufferLockOK'
<1> USE Names DEF ControlInv
<1>1. CASE Crash
  BY <1>1, CrashPhases DEF BufferLockOK, IOStates
<1> SUFFICES ASSUME ~Crash, NEW p \in Everyone, at'[p] \in IOStates
             PROVE  /\ slot'[io'[p].page].io = p
                    /\ slot'[io'[p].page].status = IF at'[p] = "xactRead" THEN "reading" ELSE "writing"
  BY <1>1 DEF BufferLockOK, IOStates
<1>2. ASSUME NEW pg \in Pages, BeginRead(p, pg) PROVE slot'[pg].status = "reading" /\ slot'[pg].io = p
  BY <1>2, ReadStartEffect DEF BeginRead
<1>3. ASSUME NEW pg \in Pages, NEW back, BeginWrite(p, pg, back) PROVE slot'[pg].status = "writing" /\ slot'[pg].io = p
  BY <1>3, WriteStartEffect DEF BeginWrite
<1>4. ASSUME at[p] \in IOStates, io'[p].page = io[p].page, at'[p] = "xactRead" <=> at[p] = "xactRead"
      PROVE  slot'[io[p].page].io = p /\ slot'[io[p].page].status = IF at'[p] = "xactRead" THEN "reading" ELSE "writing"
  <2>1. PICK q \in Pages : q = io[p].page
    BY <1>4 DEF IOOK
  <2>2. slot[q].io = p /\ slot[q].status = IF at'[p] = "xactRead" THEN "reading" ELSE "writing"
    BY <1>4, <2>1 DEF BufferLockOK, IOStates
  <2>3. ASSUME NEW r \in Everyone, at[r] \in IOStates, q = io[r].page PROVE r = p
    BY <2>2, <2>3 DEF BufferLockOK, IOStates
  <2>4. ~Evicted(q)
    BY <2>2 DEF Evicted
  <2>5. CASE SlotMove(q)
    <3>1. ASSUME NEW r \in Backends \union {Startup}, SetBit(r), q = TransactionIdToPage(my[r].xid)
          PROVE  slot'[q].io = slot[q].io /\ slot'[q].status = slot[q].status
      BY <3>1, SetBitEffect
    <3>2. ASSUME NEW r \in Backends \union {Startup}, SlruPhysicalReadPage(r), q = io[r].page PROVE FALSE
      <4>1. at[r] \in IOStates /\ at[r] = "xactRead" /\ r \in Everyone
        BY <3>2, ReadPhases DEF IOStates
      <4>2. r = p
        BY <2>3, <3>2, <4>1
      <4>3. io[r].back \notin IOStates /\ "failed" \notin IOStates
        BY <4>1 DEF IOOK, IOStates
      <4>4. at'[r] \notin IOStates
        BY <3>2, <4>1, <4>3, ReadPhases DEF Phase, IOStates
      <4> QED BY <4>2, <4>4
    <3>3. ASSUME NEW r \in Backends \union {Startup}, BeginRead(r, q) PROVE FALSE
      <4>1. r \in Everyone /\ ReadStart(r, q)
        BY <3>3 DEF BeginRead
      <4> QED BY <2>2, <4>1, ReadStartEffect
    <3>4. ASSUME NEW r \in Everyone \ {BgWriter}, SlruWritten(r), q = io[r].page PROVE FALSE
      <4>1. at[r] \in IOStates /\ at'[r] \notin IOStates
        BY <3>4, WrittenPhases DEF IOStates
      <4> QED BY <2>3, <3>4, <4>1
    <3>5. ASSUME NEW r \in Everyone \ {BgWriter}, NEW back \in Backs, BeginWrite(r, q, back) PROVE FALSE
      BY <2>2, <3>5, WriteStartEffect DEF BeginWrite
    <3>6. ~TakeOver(q)
      BY <2>2 DEF TakeOver, AbandonedIO
    <3>7. ASSUME SlruWriteFailed, q = io[Checkpointer].page PROVE FALSE
      <4>1. at[Checkpointer] \in IOStates /\ at'[Checkpointer] \notin IOStates
        BY <3>7, CheckpointerPhases DEF SlruWriteFailed, CheckpointerMove, IOStates
      <4> QED BY <2>3, <3>7, <4>1
    <3>8. ASSUME NEW b \in Backends, ZeroNext(b), q = TransactionIdToPage(nextXid) PROVE FALSE
      BY <2>2, <3>8, NextPageFree
    <3>9. RedoZero \/ EndReplay => FALSE
      <4>1. RedoZero \/ EndReplay => Replaying /\ at[Startup] \notin IOStates
        BY DEF RedoZero, EndReplay, Redo, Replaying, IOStates
      <4> QED BY <1>4, <4>1, AloneInReplay
    <3>10. \E r \in Backends \union {Startup} : SetBit(r) /\ q = TransactionIdToPage(my[r].xid)
      BY <2>5, <3>2, <3>3, <3>4, <3>5, <3>6, <3>7, <3>8, <3>9 DEF SlotMove
    <3>11. slot'[q].io = slot[q].io /\ slot'[q].status = slot[q].status
      BY <3>1, <3>10
    <3> QED BY <2>1, <2>2, <3>11
  <2> QED BY <2>1, <2>2, <2>4, <2>5, SlotChange
<1> QED BY <1>2, <1>3, <1>4, IOChange

(* --- Pages beyond nextXid -------------------------------------------------------------------- *)

(* A status is set or asked for of an id that has been assigned. *)
LEMMA MarkedXid ==
  ASSUME ControlInv, FreshOK, PageLogged, NEW p \in Backends \union {Startup}, at[p] \in {"setStatus", "getStatus"}
  PROVE  my[p].xid \in Xids /\ my[p].xid < nextXid /\ ~Ahead(TransactionIdToPage(my[p].xid))
<1> USE Names DEF ControlInv
<1>0. my[p].xid \in Xids /\ nextXid \in Nat /\ nextXid > 0 /\ Xids \subseteq Nat /\ Len(log) \in Nat
  BY XidToMark, SlruConstants, PageOfXid DEF XidGenOK, NextXids, FreshOK, LogOK
<1>1. my[p].xid < nextXid
  <2>1. Phase(p) = at[p]
    BY DEF Phase, IOStates
  <2>2. CASE p \in Backends /\ at[p] = "setStatus"
    BY <2>1, <2>2 DEF FreshOK, MyOK, XactOK
  <2>3. CASE p \in Backends /\ at[p] = "getStatus"
    BY <2>1, <2>3 DEF FreshOK, MyOK, XactOK
  <2>4. CASE p = Startup
    <3>1. at[p] = "setStatus"
      BY <2>4 DEF AtOK, StartupStates, IOStates
    <3>2. replay > 1 /\ log[replay - 1].kind \in Traces /\ log[replay - 1].xid = my[p].xid
      BY <2>1, <2>4, <3>1 DEF StartupOK, Ending, Traces
    <3>3. Replaying /\ Replayed = replay /\ replay \in 1..(Len(log) + 1)
      BY <2>4, <3>1 DEF Replayed, Replaying, StartupOK
    <3>4. replay - 1 \in 1..Len(log) /\ replay - 1 < Replayed
      BY <1>0, <3>2, <3>3
    <3> QED BY <3>2, <3>4 DEF FreshOK, Below
  <2> QED BY <2>2, <2>3, <2>4
<1>2. my[p].xid \in On(TransactionIdToPage(my[p].xid))
  BY <1>0, PageOfXid
<1>3. ~ (nextXid <= my[p].xid)
  <2>1. PICK x \in Nat, n \in Nat : x = my[p].xid /\ n = nextXid
    BY <1>0
  <2>2. x < n
    BY <1>1, <2>1
  <2> QED BY <2>1, <2>2
<1>4. ~Ahead(TransactionIdToPage(my[p].xid))
  BY <1>2, <1>3 DEF Ahead
<1> QED BY <1>0, <1>1, <1>4

(* Nor is the page ahead that nextXid is in the middle of. *)
LEMMA NextNotAhead ==
  ASSUME ControlInv, ~FirstOnPage(nextXid)
  PROVE  ~Ahead(TransactionIdToPage(nextXid))
<1>1. nextXid \in NextXids /\ nextXid \in Nat
  BY SlruConstants DEF ControlInv, XidGenOK, NextXids
<1>2. nextXid - 1 \in On(TransactionIdToPage(nextXid))
  BY <1>1, NextPage
<1>3. ~ (nextXid <= nextXid - 1)
  BY <1>1
<1> QED BY <1>2, <1>3 DEF Ahead

(* A backend between two calls stays where it is while others move. *)
LEMMA StandsStill ==
  ASSUME ControlInv, Move, ~Crash, NEW b \in Backends, at[b] \in {"extended", "insert", "logInsert", "end"}, ~BackendMove(b)
  PROVE  at'[b] = at[b] /\ my'[b] = my[b]
<1> USE Names DEF ControlInv
<1>0. my'[b] = my[b]
  <2>1. ~SetBit(b)
    BY DEF SetBit
  <2> QED BY <2>1, Bystanders
<1>1. ASSUME NEW c \in Backends, BackendMove(c) PROVE at'[b] = at[b]
  BY <1>1, BackendPhases DEF OthersThere
<1>2. CheckpointerMove => at'[b] = at[b]
  BY CheckpointerPhases
<1>3. StartupMove => at'[b] = at[b]
  BY StartupPhases
<1>4. Nothing => at'[b] = at[b]
  BY DEF Nothing
<1>5. ASSUME NEW p \in Backends \union {Startup}, SetBit(p) \/ SlruPhysicalReadPage(p) \/ (\E pg \in Pages : BeginRead(p, pg))
      PROVE  at'[b] = at[b]
  <2>1. p # b
    BY <1>5 DEF SetBit, SlruPhysicalReadPage, BeginRead, Wants
  <2> QED BY <1>5, <2>1, SetBitPhases, ReadPhases, BeginReadPhases DEF OthersThere
<1>6. ASSUME NEW p \in Everyone \ {BgWriter},
             SlruWrite(p) \/ SlruWritten(p) \/ (\E pg \in Pages, back \in Backs : BeginWrite(p, pg, back))
      PROVE  at'[b] = at[b]
  <2>1. p # b
    BY <1>6 DEF SlruWrite, SlruWritten, BeginWrite
  <2> QED BY <1>6, <2>1, WritePhases, WrittenPhases, BeginWritePhases DEF OthersThere
<1>7. ASSUME NEW pg \in Pages, TakeOver(pg) PROVE at'[b] = at[b]
  BY <1>7 DEF TakeOver
<1>8. ASSUME NEW p \in {BgWriter, Checkpointer}, BeginFlush(p) \/ HeapWrite(p) \/ HeapWritten(p) PROVE at'[b] = at[b]
  BY <1>8, HeapIOPhases DEF OthersThere
<1> QED BY <1>0, <1>1, <1>2, <1>3, <1>4, <1>5, <1>6, <1>7, <1>8 DEF Move, SharedMove

(* Nobody else is given nextXid while its page is made. *)
LEMMA ExtendedStays ==
  ASSUME ControlInv, Move, ~Crash, NEW b \in Backends, at[b] = "extended", ~GetNewTransactionId(b)
  PROVE  at'[b] = "extended" /\ nextXid' = nextXid
<1> USE Names DEF ControlInv
<1>1. Up /\ XidGenLock = b
  BY WhoRuns DEF XidGenOK
<1>2. nextXid' = nextXid
  <2>1. ASSUME NEW c \in Backends, GetNewTransactionId(c) PROVE FALSE
    BY <1>1, <2>1 DEF GetNewTransactionId, XidGenOK
  <2>2. ~Redoes
    BY <1>1 DEF Up, Redoes, RedoTuple, RedoEnd, RedoZero, RedoOther, Redo
  <2> QED BY <2>1, <2>2, NextXidStep
<1>3. ~BackendMove(b)
  BY DEF BackendMove, ZeroNext, Starts, InsertTuple, InsertFails, LogInsert, LogEnd, FlushCommit, EndTransaction, Scan, ScanNothing, ReadBit,
         SetHintBits, MarkBufferDirtyHint
<1> QED BY <1>2, <1>3, StandsStill

(* Only pages with an id that has been assigned are changed, but for one that is made. *)
LEMMA AheadUntouched ==
  ASSUME ControlInv, ControlInv', FreshOK, AheadOK, BufferLockOK, PageLogged, Move, ~Crash,
         NEW q \in Pages, Ahead(q), ~Handling(q), ~Handling(q)'
  PROVE  slot'[q].status \in {"empty", "valid"} /\ ~slot'[q].dirty
<1> USE Names DEF ControlInv
<1>1. slot[q].status \in {"empty", "valid"} /\ ~slot[q].dirty
  BY DEF AheadOK
<1>2. ASSUME NEW p \in Everyone, at[p] \in IOStates PROVE io[p].page # q
  BY <1>1, <1>2 DEF BufferLockOK, IOStates
<1>3. CASE SlotMove(q)
  <2>1. ASSUME NEW r \in Backends \union {Startup}, SetBit(r), q = TransactionIdToPage(my[r].xid) PROVE FALSE
    BY <2>1, MarkedXid DEF SetBit
  <2>2. ASSUME NEW r \in Backends \union {Startup}, SlruPhysicalReadPage(r), q = io[r].page PROVE FALSE
    BY <1>2, <2>2 DEF SlruPhysicalReadPage, IOStates
  <2>3. ASSUME NEW r \in Backends \union {Startup}, BeginRead(r, q) PROVE FALSE
    BY <2>3, MarkedXid, NextNotAhead DEF BeginRead, Wants
  <2>4. ASSUME NEW r \in Everyone \ {BgWriter}, SlruWritten(r), q = io[r].page PROVE FALSE
    BY <1>2, <2>4 DEF SlruWritten, IOStates
  <2>5. ASSUME NEW r \in Everyone \ {BgWriter}, NEW back \in Backs, BeginWrite(r, q, back) PROVE FALSE
    BY <1>1, <2>5 DEF BeginWrite, WriteStart
  <2>6. ~TakeOver(q)
    BY <1>1 DEF TakeOver, AbandonedIO
  <2>7. ASSUME SlruWriteFailed, q = io[Checkpointer].page PROVE FALSE
    BY <1>2, <2>7 DEF SlruWriteFailed, IOStates
  <2>8. ASSUME NEW b \in Backends, ZeroNext(b), q = TransactionIdToPage(nextXid) PROVE FALSE
    <3>1. at'[b] = "extended" /\ nextXid' = nextXid
      BY <2>8, GotoOnly DEF ZeroNext, AllButIO
    <3> QED BY <2>8, <3>1 DEF Handling
  <2>9. ASSUME RedoZero, q = log[replay].xid PROVE FALSE
    <3>1. at'[Startup] = "writeZeroes"
      BY <2>9, GotoOnly DEF RedoZero
    <3>2. my'[Startup].xid = q
      BY <2>9 DEF RedoZero, MyOK, MyType
    <3> QED BY <3>1, <3>2 DEF Handling
  <2>10. ~(EndReplay /\ ~FirstOnPage(nextXid) /\ q = TransactionIdToPage(nextXid))
    BY NextNotAhead
  <2> QED BY <1>3, <2>1, <2>2, <2>3, <2>4, <2>5, <2>6, <2>7, <2>8, <2>9, <2>10 DEF SlotMove
<1>4. CASE Evicted(q)
  BY <1>4, EmptySlot DEF Evicted
<1>5. CASE slot'[q] = slot[q]
  BY <1>1, <1>5
<1> QED BY <1>3, <1>4, <1>5, SlotChange

\* Every step keeps AheadOK: a page of pg_xact beyond the ids given so far is clean unless the one
\* who zeroes it is still at it.
LEMMA AheadStep ==
  ASSUME ControlInv, ControlInv', FreshOK, AheadOK, BufferLockOK, PageLogged, Move
  PROVE  AheadOK'
<1> USE Names DEF ControlInv
<1>1. CASE Crash
  <2>1. slot' = [pg \in Pages |-> Empty(pg)] /\ at'[Startup] = "replay"
    BY <1>1, CrashPhases DEF Crash, SlruCrash
  <2>2. \A pg \in Pages : slot'[pg].status = "empty" /\ slot'[pg].dirty = FALSE
    BY <2>1, EmptySlot
  <2> QED BY <2>1, <2>2 DEF AheadOK
<1> SUFFICES ASSUME ~Crash PROVE AheadOK'
  BY <1>1
<1>2. ASSUME NEW q \in Pages, Ahead(q)' PROVE Ahead(q)
  <2>1. nextXid \in Nat /\ nextXid' \in Nat /\ nextXid <= nextXid' /\ On(q) \subseteq Nat
    BY NextXidStep, PageOfXid
  <2>2. \A x \in Nat : nextXid' <= x => nextXid <= x
    BY <2>1
  <2> QED BY <1>2, <2>1, <2>2 DEF Ahead
<1>3. ASSUME NEW q \in Pages, Ahead(q)', ~Handling(q)', Handling(q)
      PROVE  slot'[q].status \in {"empty", "valid"} /\ ~slot'[q].dirty
  <2>1. ASSUME NEW b \in Backends, at[b] = "extended", q = TransactionIdToPage(nextXid) PROVE FALSE
    <3>1. CASE GetNewTransactionId(b)
      <4>1. nextXid' = nextXid + 1 /\ nextXid \in Xids /\ nextXid \in Nat
        BY <2>1, <3>1, SlruConstants DEF GetNewTransactionId, XidGenOK, NextXids
      <4>2. nextXid \in On(q) /\ ~ (nextXid' <= nextXid)
        BY <2>1, <4>1, PageOfXid
      <4> QED BY <1>3, <4>2 DEF Ahead
    <3>2. CASE ~GetNewTransactionId(b)
      BY <1>3, <2>1, <3>2, ExtendedStays DEF Handling
    <3> QED BY <3>1, <3>2
  <2>2. ASSUME at[Startup] \in {"writeZeroes", "xactWrite", "xactWritten"} PROVE Replaying /\ ~StartupMove /\ ~UpdateControlFile
    BY <2>2, StartupPhases, CheckpointerPhases DEF Replaying, CheckpointerMove
  <2>3. ASSUME at[Startup] = "writeZeroes", my[Startup].xid = q PROVE FALSE
    <3>1. my'[Startup] = my[Startup]
      <4>1. SharedMove \/ Nothing
        BY <2>2, <2>3, ReplayStill
      <4> QED BY <4>1
              DEF Nothing, SharedMove, SetBit, SlruPhysicalReadPage, BeginRead, BeginWrite, TakeOver, AllButIO, SlruWrite,
                  SlruWritten, BeginFlush, HeapWrite, HeapWritten
    <3>2. at'[Startup] # at[Startup]
      BY <1>3, <2>3, <3>1 DEF Handling
    <3>3. PICK pg \in Pages, back \in Backs : BeginWrite(Startup, pg, back)
      BY <2>2, <2>3, <3>2, StartupStays DEF SetBit, SlruPhysicalReadPage, SlruWrite, SlruWritten, BeginRead, Wants
    <3>4. pg = q
      BY <2>3, <3>3 DEF BeginWrite
    <3> QED BY <1>3, <3>3, <3>4, BeginWritePhases DEF Handling
  <2>4. ASSUME at[Startup] \in {"xactWrite", "xactWritten"}, io[Startup].page = q
        PROVE  slot'[q].status \in {"empty", "valid"} /\ ~slot'[q].dirty
    <3>1. at'[Startup] \notin IOStates
      <4> SUFFICES ASSUME at'[Startup] \in IOStates PROVE FALSE
        OBVIOUS
      <4>1. \A pg \in Pages, back \in Backs : ~BeginWrite(Startup, pg, back)
        BY <2>4 DEF BeginWrite
      <4>2. \A pg \in Pages : ~BeginRead(Startup, pg)
        BY <2>4 DEF BeginRead, Wants
      <4>3. io'[Startup].page = io[Startup].page /\ at'[Startup] \in {"xactWrite", "xactWritten"}
        BY <2>4, <4>1, <4>2, IOChange
      <4> QED BY <1>3, <2>4, <4>3 DEF Handling
    <3>2. at'[Startup] # at[Startup]
      BY <2>4, <3>1 DEF IOStates
    <3>3. SlruWritten(Startup)
      BY <2>2, <2>4, <3>1, <3>2, StartupStays, WritePhases DEF SetBit, SlruPhysicalReadPage, BeginRead, Wants, BeginWrite, IOStates
    <3>4. WriteEnd(q)
      BY <2>4, <3>3 DEF SlruWritten
    <3>5. slot'[q].status = "valid" /\ slot'[q].dirty = slot[q].dirty
      BY <3>4, WriteEndEffect
    <3> QED BY <2>4, <3>5 DEF AheadOK
  <2> QED BY <1>3, <2>1, <2>3, <2>4 DEF Handling
<1>4. ASSUME at'[Startup] \in {"xactWrite", "xactWritten"} PROVE ~slot'[io'[Startup].page].dirty
  <2>1. ASSUME NEW pg \in Pages, NEW back \in Backs, BeginWrite(Startup, pg, back) PROVE slot'[pg].dirty = FALSE
    BY <2>1, WriteStartEffect DEF BeginWrite
  <2>2. ASSUME at[Startup] \in {"xactWrite", "xactWritten"}, io'[Startup].page = io[Startup].page PROVE ~slot'[io[Startup].page].dirty
    <3>1. PICK q \in Pages : q = io[Startup].page
      BY <2>2 DEF IOOK, IOStates
    <3>2. slot[q].status = "writing" /\ slot[q].io = Startup /\ ~slot[q].dirty
      BY <2>2, <3>1 DEF BufferLockOK, AheadOK
    <3>3. Replaying /\ ~Up /\ \A b \in Backends : at[b] = "idle"
      BY <2>2 DEF Replaying, StartupOK, Up
    <3>4. ASSUME NEW r \in Backends \union {Startup} PROVE ~SetBit(r) /\ ~BeginRead(r, q) /\ ~SlruPhysicalReadPage(r)
      BY <2>2, <3>3 DEF SetBit, BeginRead, Wants, SlruPhysicalReadPage
    <3>5. ASSUME NEW r \in Everyone \ {BgWriter}, SlruWritten(r) PROVE FALSE
      <4>1. CASE r = Startup
        BY <1>4, <3>5, <4>1, WrittenPhases DEF IOStates
      <4>2. CASE r # Startup
        BY <3>3, <3>5, <4>2, AloneInReplay DEF SlruWritten, IOStates
      <4> QED BY <4>1, <4>2
    <3>6. ASSUME NEW r, NEW back, BeginWrite(r, q, back) PROVE FALSE
      BY <3>2, <3>6 DEF BeginWrite, WriteStart
    <3>7. ~TakeOver(q) /\ ~SlruWriteFailed /\ ~RedoZero /\ ~EndReplay
      BY <2>2, <3>2, <3>3 DEF TakeOver, AbandonedIO, SlruWriteFailed, RedoZero, Redo, EndReplay
    <3>8. \A b \in Backends : ~ZeroNext(b)
      BY <3>3 DEF ZeroNext, Starts
    <3>9. ~SlotMove(q)
      BY <3>4, <3>5, <3>6, <3>7, <3>8 DEF SlotMove
    <3>10. ~Evicted(q)
      BY <3>2 DEF Evicted
    <3> QED BY <3>1, <3>2, <3>9, <3>10, SlotChange
  <2>3. at'[Startup] \in IOStates /\ at'[Startup] # "xactRead"
    BY <1>4 DEF IOStates
  <2> QED BY <1>4, <2>1, <2>2, <2>3, IOChange DEF IOStates
<1> QED BY <1>2, <1>3, <1>4, AheadUntouched DEF AheadOK

(* --- WAL before data ------------------------------------------------------------------------- *)

(* The commit that a process marks in pg_xact is in the log: on disk if it waited for that, and   *)
(* otherwise no later than the LSN that goes into the slot with it.                             *)
LEMMA MarkLogged ==
  ASSUME ControlInv, NEW p \in Backends \union {Startup}, at[p] = "setStatus", NewStatus(p) = "committed"
  PROVE  \/ Has(log, "commit", my[p].xid, durable)
         \/ my[p].kind = "async" /\ my[p].lsn \in 1..Len(log) /\ Has(log, "commit", my[p].xid, my[p].lsn)
<1> USE Names DEF ControlInv
<1>0. Phase(p) = "setStatus" /\ Len(log) \in Nat /\ durable \in 0..Len(log) /\ my[p].kind # "abort"
  BY DEF Phase, IOStates, LogOK, NewStatus
<1>1. CASE p \in Backends
  <2>1. my[p].lsn \in 1..Len(log) /\ log[my[p].lsn].kind = "commit" /\ log[my[p].lsn].xid = my[p].xid /\ my[p].kind \in {"sync", "async"}
    BY <1>0, <1>1 DEF CommitLogged, LoggedBy, MyOK, XactOK, Updates
  <2>2. CASE my[p].kind = "sync"
    <3>1. my[p].lsn \in 1..durable
      BY <1>0, <1>1, <2>1, <2>2 DEF CommitLogged, LoggedBy
    <3> QED BY <2>1, <3>1 DEF Has
  <2>3. CASE my[p].kind = "async"
    <3>1. my[p].lsn \in 1..my[p].lsn
      BY <2>1
    <3> QED BY <2>1, <2>3, <3>1 DEF Has
  <2> QED BY <2>1, <2>2, <2>3
<1>2. CASE p = Startup
  <2>1. replay > 1 /\ log[replay - 1].kind = "commit" /\ log[replay - 1].xid = my[p].xid
    BY <1>0, <1>2 DEF StartupOK, Ending
  <2>2. durable = Len(log) /\ replay \in 1..(Len(log) + 1)
    BY <1>2 DEF StartupOK, Replaying
  <2>3. replay - 1 \in 1..durable
    BY <1>0, <2>1, <2>2
  <2> QED BY <2>1, <2>3 DEF Has
<1> QED BY <1>1, <1>2

(* What is in the log up to n is there up to any later place afterwards. *)
LEMMA StaysLogged ==
  ASSUME ControlInv, Move, ~Crash, NEW n \in Nat, n <= Len(log), NEW m \in Nat, n <= m, NEW kind, NEW x,
         Has(log, kind, x, durable) \/ Has(log, kind, x, n)
  PROVE  Has(log', kind, x, durable') \/ Has(log', kind, x, m)
BY DurableStays, LogStays

\* Every step keeps a cached page of pg_xact within what the log says, with its LSN past
\* the records behind its bits.
LEMMA SlotLoggedStep ==
  ASSUME ControlInv, ControlInv', Move, NEW q \in Pages, SlotLogged(q), FileLogged(q), BufferLockOK
  PROVE  SlotLogged(q)'
<1> USE Names DEF ControlInv
<1>0. /\ slot[q].lsn \in Nat /\ slot[q].lsn <= Len(log) /\ slot'[q].lsn \in Nat
      /\ slot[q].bits \in [On(q) -> Status]
      /\ Len(log) \in Nat /\ Len(log') \in Nat /\ durable \in Nat /\ durable' \in Nat /\ durable <= durable'
  BY DurableStays DEF SlotLogged, SlotOK, SlotType
<1>1. ASSUME slot'[q].lsn = 0, slot'[q].status # "writing",
             \A x \in On(q) : slot'[q].bits[x] = "committed" => Has(log', "commit", x, durable')
      PROVE  SlotLogged(q)'
  BY <1>0, <1>1 DEF SlotLogged
<1>2. ASSUME slot'[q].lsn = 0, slot'[q].status # "writing", slot'[q].bits = Zeroes(q)
      PROVE  SlotLogged(q)'
  BY <1>1, <1>2, EmptySlot
<1>3. CASE Crash
  <2>1. slot'[q] = Empty(q)
    BY <1>3 DEF Crash, SlruCrash
  <2> QED BY <1>2, <2>1, EmptySlot
<1> SUFFICES ASSUME ~Crash PROVE SlotLogged(q)'
  BY <1>3
<1>4. Len(log) <= Len(log')
  BY <1>0, LogStep DEF Grows
<1>5. ASSUME slot'[q].lsn = slot[q].lsn, slot'[q].status = "writing" => slot[q].lsn <= durable',
             \A x \in On(q) : slot'[q].bits[x] = "committed" => slot[q].bits[x] = "committed"
      PROVE  SlotLogged(q)'
  <2>1. slot'[q].lsn <= Len(log')
    BY <1>0, <1>4, <1>5
  <2>2. ASSUME NEW x \in On(q), slot'[q].bits[x] = "committed"
        PROVE  Has(log', "commit", x, durable') \/ Has(log', "commit", x, slot[q].lsn)
    <3>1. Has(log, "commit", x, durable) \/ Has(log, "commit", x, slot[q].lsn)
      BY <1>5, <2>2 DEF SlotLogged
    <3>2. slot[q].lsn <= slot[q].lsn
      BY <1>0
    <3> QED BY <1>0, <3>1, <3>2, StaysLogged
  <2> QED BY <1>5, <2>1, <2>2 DEF SlotLogged
<1>6. ASSUME slot'[q].lsn = slot[q].lsn, slot'[q].bits = slot[q].bits, slot'[q].status = "writing" => slot[q].status = "writing"
      PROVE  SlotLogged(q)'
  <2>1. slot[q].status = "writing" => slot[q].lsn <= durable'
    BY <1>0 DEF SlotLogged
  <2> QED BY <1>5, <1>6, <2>1
<1>7. CASE SlotMove(q)
  <2>1. ASSUME NEW p \in Backends \union {Startup}, SetBit(p), q = TransactionIdToPage(my[p].xid) PROVE SlotLogged(q)'
    <3>1. PICK n, x : x = my[p].xid /\ n = IF my[p].kind = "async" THEN my[p].lsn ELSE 0
      OBVIOUS
    <3>2. /\ x \in On(q) /\ NewStatus(p) \in Status /\ my[p].lsn \in Nat
          /\ slot'[q].status = slot[q].status /\ slot'[q].bits = [slot[q].bits EXCEPT ![x] = NewStatus(p)]
          /\ slot'[q].lsn = Larger(slot[q].lsn, n)
          /\ slot[q].status = "writing" => my[p].kind # "async"
      BY <2>1, <3>1, SetBitEffect
    <3>3. n \in Nat
      BY <3>1, <3>2
    <3>4. slot'[q].lsn \in {slot[q].lsn, n} /\ slot[q].lsn <= slot'[q].lsn /\ n <= slot'[q].lsn
      BY <1>0, <3>2, <3>3, LargerNat
    <3>5. n <= Len(log)
      <4>1. my[p].kind = "async" => p \in Backends /\ Phase(p) = "setStatus"
        BY <2>1, SetBitPhases DEF StartupOK, Ending
      <4>2. my[p].kind = "async" => my[p].lsn \in 1..Len(log)
        BY <4>1 DEF CommitLogged, LoggedBy
      <4> QED BY <1>0, <3>1, <4>2
    <3>6. slot'[q].lsn <= Len(log')
      BY <1>0, <1>4, <3>3, <3>4, <3>5
    <3>7. slot'[q].status = "writing" => slot'[q].lsn <= durable'
      <4>1. slot'[q].status = "writing" => n = 0 /\ slot[q].lsn <= durable
        BY <3>1, <3>2 DEF SlotLogged
      <4> QED BY <1>0, <3>4, <4>1
    <3>8. ASSUME NEW y \in On(q), slot'[q].bits[y] = "committed"
          PROVE  Has(log', "commit", y, durable') \/ Has(log', "commit", y, slot'[q].lsn)
      <4>1. CASE y = x
        <5>1. NewStatus(p) = "committed"
          BY <1>0, <3>2, <3>8, <4>1
        <5>2. Has(log, "commit", y, durable) \/ Has(log, "commit", y, n)
          BY <2>1, <3>1, <4>1, <5>1, MarkLogged, SetBitPhases
        <5> QED BY <1>0, <3>3, <3>4, <3>5, <5>2, StaysLogged
      <4>2. CASE y # x
        <5>1. slot[q].bits[y] = "committed"
          BY <1>0, <3>2, <3>8, <4>2
        <5>2. Has(log, "commit", y, durable) \/ Has(log, "commit", y, slot[q].lsn)
          BY <5>1 DEF SlotLogged
        <5> QED BY <1>0, <3>4, <5>2, StaysLogged
      <4> QED BY <4>1, <4>2
    <3> QED BY <3>6, <3>7, <3>8 DEF SlotLogged
  <2>2. ASSUME NEW r \in Backends \union {Startup}, SlruPhysicalReadPage(r), q = io[r].page PROVE SlotLogged(q)'
    <3>1. CASE slot' = PageRead(q, xactFile[q]) /\ xactFile[q] # None
      <4>1. xactFile[q] \in xactKept[q] /\ xactFile[q] \in [On(q) -> Status]
        BY <3>1 DEF FilesOK
      <4>2. /\ SlotOK' /\ OthersSame(q)
            /\ slot'[q].status = "valid" /\ slot'[q].dirty = FALSE /\ slot'[q].bits = xactFile[q]
            /\ slot'[q].lsn = 0 /\ slot'[q].io = None
        BY <3>1, <4>1, PageReadEffect
      <4>3. \A x \in On(q) : slot'[q].bits[x] = "committed" => Has(log', "commit", x, durable')
        BY <3>1, <4>1, <4>2, DurableStays DEF FileLogged
      <4> QED BY <1>1, <4>2, <4>3
    <3>2. CASE slot' = PageRead(q, Zeroes(q))
      BY <1>2, <3>2, PageReadEffect, EmptySlot
    <3>3. CASE UNCHANGED slot
      BY <1>6, <3>3
    <3> QED BY <2>2, <3>1, <3>2, <3>3 DEF SlruPhysicalReadPage
  <2>3. ASSUME NEW r \in Backends \union {Startup}, BeginRead(r, q) PROVE SlotLogged(q)'
    <3>1. r \in Everyone /\ ReadStart(r, q)
      BY <2>3 DEF BeginRead
    <3>2. /\ SlotOK' /\ OthersStay(q) /\ slot[q].status = "empty"
          /\ slot'[q].status = "reading" /\ slot'[q].dirty = FALSE /\ slot'[q].bits = Zeroes(q)
          /\ slot'[q].lsn = 0 /\ slot'[q].io = r
      BY <3>1, ReadStartEffect
    <3> QED BY <1>2, <3>2
  <2>4. ASSUME NEW r \in Everyone \ {BgWriter}, SlruWritten(r), q = io[r].page PROVE SlotLogged(q)'
    <3>1. WriteEnd(q)
      BY <2>4 DEF SlruWritten
    <3> QED BY <1>6, <3>1, WriteEndEffect
  <2>5. ASSUME NEW r \in Everyone \ {BgWriter}, NEW back \in Backs, BeginWrite(r, q, back) PROVE SlotLogged(q)'
    <3>1. WriteStart(r, q) /\ XLogFlush(slot[q].lsn)
      BY <2>5 DEF BeginWrite
    <3>2. slot[q].lsn <= durable'
      BY <1>0, <3>1, FlushEffect
    <3> QED BY <1>5, <3>1, <3>2, WriteStartEffect
  <2>6. ASSUME TakeOver(q) PROVE SlotLogged(q)'
    <3>1. Repair(q)
      BY <2>6 DEF TakeOver
    <3> QED BY <1>6, <3>1, RepairEffect
  <2>7. ASSUME SlruWriteFailed, q = io[Checkpointer].page PROVE SlotLogged(q)'
    <3>1. WriteFails(q)
      BY <2>7 DEF SlruWriteFailed
    <3> QED BY <1>6, <3>1, WriteFailsEffect
  <2>8. ASSUME NEW pg, SimpleLruZeroPage(pg), q = pg PROVE SlotLogged(q)'
    BY <1>2, <2>8, ZeroPageEffect
  <2>9. (\E b \in Backends : ZeroNext(b) /\ q = TransactionIdToPage(nextXid)) \/ (RedoZero /\ q = log[replay].xid) => SlotLogged(q)'
    BY <2>8 DEF ZeroNext, RedoZero
  <2>10. ASSUME EndReplay, ~FirstOnPage(nextXid), q = TransactionIdToPage(nextXid) PROVE SlotLogged(q)'
    <3>1. SlotOK /\ slot' = Trimmed(slot, nextXid) /\ nextXid \in NextXids
      BY <2>10 DEF EndReplay, TrimmedSlots, XidGenOK
    <3> HIDE Names DEF ControlInv
    <3>2. /\ SlotOK' /\ OthersSame(q)
          /\ slot'[q].status = slot[q].status /\ slot'[q].dirty = TRUE
          /\ \A y \in On(q) : slot'[q].bits[y] = IF y < nextXid THEN slot[q].bits[y] ELSE "inProgress"
          /\ slot'[q].lsn = slot[q].lsn /\ slot'[q].io = slot[q].io
      BY <2>10, <3>1, TrimmedEffect
    <3>3. slot'[q].status = "writing" => slot[q].lsn <= durable'
      BY <1>0, <3>2 DEF SlotLogged
    <3>4. \A x \in On(q) : slot'[q].bits[x] = "committed" => slot[q].bits[x] = "committed"
      BY <3>2
    <3> QED BY <1>5, <3>2, <3>3, <3>4
  <2> QED BY <1>7, <2>1, <2>2, <2>3, <2>4, <2>5, <2>6, <2>7, <2>9, <2>10 DEF SlotMove
<1>8. CASE Evicted(q)
  BY <1>2, <1>8, EmptySlot DEF Evicted
<1>9. CASE slot'[q] = slot[q]
  BY <1>6, <1>9
<1> QED BY <1>7, <1>8, <1>9, SlotChange

(* A commit that shows in a slot whose write has begun is durable. *)
LEMMA WrittenLogged ==
  ASSUME ControlInv, NEW q \in Pages, SlotLogged(q), slot[q].status = "writing", NEW x \in On(q), slot[q].bits[x] = "committed"
  PROVE  Has(log, "commit", x, durable)
<1>1. slot[q].lsn \in Nat /\ durable \in Nat /\ slot[q].lsn <= durable
  BY DEF ControlInv, SlotOK, SlotType, LogOK, SlotLogged
<1>2. Has(log, "commit", x, slot[q].lsn) => Has(log, "commit", x, durable)
  BY <1>1, HasMore
<1> QED BY <1>2 DEF SlotLogged

\* Every step keeps the files of pg_xact within what the durable log says: the write was
\* preceded by a flush up to the page's LSN.
LEMMA FileLoggedStep ==
  ASSUME ControlInv, ControlInv', Move, NEW q \in Pages, SlotLogged(q), FileLogged(q), BufferLockOK
  PROVE  FileLogged(q)'
<1> USE Names DEF ControlInv
<1>1. ASSUME NEW bits \in xactKept[q], bits # None, NEW x \in On(q), bits[x] = "committed" PROVE Has(log', "commit", x, durable')
  BY <1>1, DurableStays DEF FileLogged
<1>2. ASSUME xactKept'[q] \subseteq xactKept[q] PROVE FileLogged(q)'
  BY <1>1, <1>2 DEF FileLogged
<1>3. CASE Crash
  <2>1. PICK kept \in [Pages -> UNION {xactKept[pg] : pg \in Pages}] :
          (\A pg \in Pages : kept[pg] \in xactKept[pg]) /\ xactKept' = [pg \in Pages |-> {kept[pg]}]
    BY <1>3 DEF Crash, SlruCrash
  <2> QED BY <1>2, <2>1
<1>4. CASE UNCHANGED <<xactFile, xactKept>>
  BY <1>2, <1>4
<1>5. CASE ProcessSyncRequests
  <2>1. xactKept'[q] = IF q \in pending THEN {xactFile[q]} ELSE xactKept[q]
    BY <1>5 DEF ProcessSyncRequests
  <2> QED BY <1>2, <2>1 DEF FilesOK
<1>6. ASSUME NEW p \in Everyone \ {BgWriter}, SlruWrite(p) PROVE FileLogged(q)'
  <2>1. PICK pg \in Pages : pg = io[p].page
    BY <1>6 DEF SlruWrite, IOOK, IOStates
  <2>2. xactKept' = [xactKept EXCEPT ![pg] = @ \union {slot[pg].bits}]
    BY <1>6, <2>1 DEF SlruWrite, PhysicalWrite
  <2>3. CASE pg # q
    BY <1>2, <2>2, <2>3 DEF FilesOK
  <2>4. CASE pg = q
    <3>1. slot[q].status = "writing"
      <4>1. p \in Everyone /\ at[p] = "xactWrite"
        BY <1>6 DEF SlruWrite
      <4>2. slot[io[p].page].status = "writing"
        BY <4>1 DEF BufferLockOK
      <4> QED BY <2>1, <2>4, <4>2
    <3>2. xactKept'[q] = xactKept[q] \union {slot[q].bits}
      BY <2>2, <2>4 DEF FilesOK
    <3>3. \A x \in On(q) : slot[q].bits[x] = "committed" => Has(log', "commit", x, durable')
      BY <3>1, WrittenLogged, DurableStays
    <3> QED BY <1>1, <3>2, <3>3 DEF FileLogged
  <2> QED BY <2>3, <2>4
<1> QED BY <1>3, <1>4, <1>5, <1>6, FileChange

(* While the data page is being written nobody is between changing it and logging the change. *)
LEMMA QuietPage ==
  ASSUME ControlInv, NEW p \in {Checkpointer, BgWriter}, at[p] = "heapWrite", NEW b \in Backends
  PROVE  at[b] # "logInsert" /\ ~InsertTuple(b) /\ ~RedoTuple
<1>1. p \in sharers /\ sharers # {}
  BY DEF ControlInv, ContentLockOK
<1>2. exclusive = NoOne
  BY <1>1 DEF ControlInv, ContentLockOK
<1>3. at[b] # "logInsert"
  BY <1>2, Names DEF ControlInv, ContentLockOK
<1> QED BY <1>1, <1>3 DEF InsertTuple, PutTuple, RedoTuple, RedoInsert

\* Every content of the data file that a crash may leave stays within the durable log.
LEMMA KeptLoggedStep ==
  ASSUME ControlInv, ControlInv', Move, PageLogged, \A c \in heapKept : KeptLogged(c), NEW c \in heapKept'
  PROVE  KeptLogged(c)'
<1> USE Names DEF ControlInv
<1>0. /\ \A k \in heapKept : k.lsn \in Nat /\ page.lsn \in Nat
      /\ Len(log) \in Nat /\ durable \in Nat /\ durable' \in Nat /\ durable <= durable' /\ durable <= Len(log)
  BY DurableStays DEF HeapOK, Content
<1>1. ASSUME NEW k, k.lsn \in Nat, k.lsn <= durable, \A x \in k.tuples : x = 0 \/ Has(log, "insert", x, k.lsn),
             \A x \in Says(k) : Has(log, "commit", x, durable)
      PROVE  KeptLogged(k)'
  <2>1. k.lsn <= durable'
    BY <1>0, <1>1
  <2>2. \A i \in 1..k.lsn : log'[i] = log[i]
    <3>1. \A i \in 1..k.lsn : i \in 1..durable
      BY <1>0, <1>1
    <3> QED BY <3>1, DurableStays
  <2>3. k.lsn <= k.lsn
    BY <1>1
  <2>4. \A kind, x : Has(log, kind, x, k.lsn) => Has(log', kind, x, k.lsn)
    BY <1>1, <2>2, <2>3, HasMore
  <2>5. \A x \in k.tuples : x = 0 \/ Has(log', "insert", x, k.lsn)
    BY <1>1, <2>4
  <2>6. \A x \in Says(k) : Has(log', "commit", x, durable')
    BY <1>1, DurableStays
  <2> QED BY <2>1, <2>5, <2>6 DEF KeptLogged
<1>2. ASSUME NEW k \in heapKept PROVE KeptLogged(k)'
  BY <1>0, <1>1, <1>2 DEF KeptLogged
<1>3. CASE Crash
  BY <1>2, <1>3 DEF Crash, HeapCrash
<1>4. CASE UNCHANGED <<heapFile, heapKept>>
  BY <1>2, <1>4
<1>5. CASE ProcessSyncRequests
  <2>1. heapKept' \subseteq heapKept
    BY <1>5 DEF ProcessSyncRequests, HeapOK
  <2> QED BY <1>2, <2>1
<1>6. ASSUME NEW p \in {BgWriter, Checkpointer}, HeapWrite(p) PROVE KeptLogged(c)'
  <2>1. at[p] = "heapWrite" /\ heapKept' = heapKept \union {page}
    BY <1>6 DEF HeapWrite, smgrwrite
  <2>2. page.lsn <= durable
    BY <2>1 DEF PageLogged
  <2>3. \A x \in page.tuples : x = 0 \/ Has(log, "insert", x, page.lsn)
    BY <2>1, QuietPage DEF PageLogged
  <2>4. \A x : Has(log, "commit", x, page.lsn) => Has(log, "commit", x, durable)
    BY <1>0, <2>2, HasMore DEF HeapOK, Content
  <2>5. \A x \in Says(page) : Has(log, "commit", x, durable)
    BY <2>4 DEF PageLogged
  <2>6. page.lsn \in Nat
    BY DEF HeapOK, Content
  <2>8. PICK k : k = page
    OBVIOUS
  <2>9. KeptLogged(k)'
    BY <1>1, <2>2, <2>3, <2>5, <2>6, <2>8
  <2> QED BY <1>2, <2>1, <2>8, <2>9
<1> QED BY <1>3, <1>4, <1>5, <1>6, PageChange

(* Where a write of the data page begins and goes on. *)
LEMMA HeapIOBegins ==
  ASSUME ControlInv, Move, ~Crash, NEW p \in {BgWriter, Checkpointer}, at'[p] \in {"heapWrite", "heapWritten"}, at'[p] # at[p]
  PROVE  (at'[p] = "heapWrite" /\ BeginFlush(p)) \/ (at'[p] = "heapWritten" /\ HeapWrite(p))
<1> USE Names DEF ControlInv
<1>1. ASSUME NEW b \in Backends, BackendMove(b) PROVE FALSE
  BY <1>1, BackendPhases DEF OthersThere
<1>2. ASSUME CheckpointerMove PROVE FALSE
  <2>1. p = Checkpointer
    BY <1>2, CheckpointerPhases
  <2>2. ASSUME NEW where, where \notin {"heapWrite", "heapWritten"}, Goto(Checkpointer, where) PROVE FALSE
    BY <2>1, <2>2, GotoOnly
  <2>3. ~UpdateControlFile
    BY <2>1 DEF UpdateControlFile, AtOK
  <2>4. \A pg : ~SkipPage(pg)
    BY <2>1 DEF SkipPage
  <2> QED BY <1>2, <2>2, <2>3, <2>4
          DEF CheckpointerMove, CkptRedo, CkptNextXid, CkptDelay, BufferSync, SkipBuffer, ProcessSyncRequests, CkptRecord,
              SlruWriteFailed, HeapWriteFailed
<1>3. ~StartupMove
  BY StartupPhases
<1>4. ~Nothing
  BY DEF Nothing
<1>5. ASSUME NEW r \in Backends \union {Startup}, SetBit(r) \/ SlruPhysicalReadPage(r) \/ (\E pg \in Pages : BeginRead(r, pg))
      PROVE  FALSE
  BY <1>5, SetBitPhases, ReadPhases, BeginReadPhases DEF OthersThere
<1>6. ASSUME NEW r \in Everyone \ {BgWriter},
             SlruWrite(r) \/ SlruWritten(r) \/ (\E pg \in Pages, back \in Backs : BeginWrite(r, pg, back))
      PROVE  FALSE
  <2>1. r # p => at'[p] = at[p]
    BY <1>6, WritePhases, WrittenPhases, BeginWritePhases DEF OthersThere
  <2>2. r = Checkpointer => at'[r] \notin {"heapWrite", "heapWritten"}
    <3>1. r = Checkpointer /\ at[r] \in IOStates => Phase(r) = "ckXact"
      BY DEF IOOK, Phase
    <3> QED BY <1>6, <3>1, WritePhases, WrittenPhases, BeginWritePhases DEF IOStates
  <2> QED BY <1>6, <2>1, <2>2
<1>7. ASSUME NEW pg \in Pages, TakeOver(pg) PROVE FALSE
  BY <1>7 DEF TakeOver
<1>8. ASSUME NEW r \in {BgWriter, Checkpointer}, BeginFlush(r) \/ HeapWrite(r) \/ HeapWritten(r)
      PROVE  (at'[p] = "heapWrite" /\ BeginFlush(p)) \/ (at'[p] = "heapWritten" /\ HeapWrite(p))
  BY <1>8, HeapIOPhases DEF OthersThere
<1> QED BY <1>1, <1>2, <1>3, <1>4, <1>5, <1>6, <1>7, <1>8 DEF Move, SharedMove

\* A hint changes one of the four sets of ids on the page.
LEMMA HintChange ==
  ASSUME ControlInv, NEW b \in Backends, SetHintBits(b), ~UNCHANGED page
  PROVE  /\ page'.lsn = page.lsn /\ page'.tuples = page.tuples
         /\ \/ Says(page') = Says(page)
            \/ my[b].status = "committed" /\ Says(page') = Says(page) \union {my[b].xid}
         /\ \/ page'.invalid = page.invalid
            \/ /\ my[b].status # "committed" /\ my[b].kind = "scan"
               /\ page'.invalid = page.invalid \union {my[b].xid}
<1>0. page \in Content
  BY DEF ControlInv, HeapOK
<1>1. page' = [page EXCEPT ![HintBit(b)] = @ \union {my[b].xid}]
  BY DEF SetHintBits, Hint
<1>2. CASE HintBit(b) = "committed" /\ my[b].status = "committed"
  BY <1>0, <1>1, <1>2 DEF Content, Says
<1>3. CASE HintBit(b) = "strayCommitted" /\ my[b].status = "committed"
  BY <1>0, <1>1, <1>3 DEF Content, Says
<1>4. CASE HintBit(b) = "invalid" /\ my[b].status # "committed" /\ my[b].kind = "scan"
  BY <1>0, <1>1, <1>4 DEF Content, Says
<1>5. CASE HintBit(b) = "strayInvalid"
  BY <1>0, <1>1, <1>5 DEF Content, Says
<1> QED BY <1>2, <1>3, <1>4, <1>5 DEF HintBit

\* Every step keeps the data page within the log, but for the tuple of the backend that
\* holds its lock.
LEMMA PageLoggedStep ==
  ASSUME ControlInv, ControlInv', Move, PageLogged, \A c \in heapKept : KeptLogged(c), \A b \in Backends : ScanLogged(b)
  PROVE  PageLogged'
<1> USE Names DEF ControlInv
<1>0. /\ page \in Content /\ page' \in Content /\ page.lsn \in Nat /\ page'.lsn \in Nat /\ page.lsn <= Len(log)
      /\ Len(log) \in Nat /\ Len(log') \in Nat /\ durable \in Nat /\ durable' \in Nat /\ durable <= durable' /\ durable' <= Len(log')
  BY DurableStays DEF HeapOK, Content, PageLogged
<1>1. CASE Crash
  <2>1. PICK k \in heapKept : page' = k
    BY <1>1 DEF Crash, HeapCrash
  <2>2. KeptLogged(k)'
    <3>1. k \in heapKept'
      BY <1>1, <2>1 DEF Crash, HeapCrash
    <3> QED BY <3>1, KeptLoggedStep
  <2>3. k.lsn <= Len(log')
    BY <1>0, <2>1, <2>2 DEF KeptLogged
  <2>4. \A p \in {Checkpointer, BgWriter} : at'[p] # "heapWrite"
    BY <1>1, CrashPhases
  <2> QED BY <2>1, <2>2, <2>3, <2>4 DEF KeptLogged, PageLogged
<1> SUFFICES ASSUME ~Crash PROVE PageLogged'
  BY <1>1
<1>2. Len(log) <= Len(log')
  BY <1>0, LogStep DEF Grows
<1>3. ASSUME NEW p \in {Checkpointer, BgWriter}, at'[p] = "heapWrite", page'.lsn = page.lsn PROVE page'.lsn <= durable'
  <2>1. CASE at[p] = "heapWrite"
    BY <1>0, <1>3, <2>1 DEF PageLogged
  <2>2. ASSUME NEW r \in {BgWriter, Checkpointer}, BeginFlush(r) PROVE page'.lsn <= durable'
    <3>1. XLogFlush(page.lsn)
      BY <2>2 DEF BeginFlush, FlushBuffer
    <3> QED BY <1>0, <1>3, <3>1, FlushEffect
  <2>3. CASE at'[p] # at[p]
    BY <1>3, <2>2, <2>3, HeapIOBegins
  <2> QED BY <1>3, <2>1, <2>2, <2>3
<1>4. ASSUME page.lsn <= page'.lsn, NEW x \in Says(page)
      PROVE  Has(log', "commit", x, durable') \/ Has(log', "commit", x, page'.lsn)
  <2>1. Has(log, "commit", x, durable) \/ Has(log, "commit", x, page.lsn)
    BY <1>4 DEF PageLogged
  <2> QED BY <1>0, <1>4, <2>1, StaysLogged
<1>5. ASSUME page.lsn <= page'.lsn, NEW x, Has(log, "insert", x, page.lsn) PROVE Has(log', "insert", x, page'.lsn)
  BY <1>0, <1>5, LogStays
<1>6. ASSUME page'.lsn = page.lsn, \A b \in Backends : ~LogInsert(b), NEW x \in page.tuples
      PROVE  \/ x = 0 \/ Has(log', "insert", x, page'.lsn)
             \/ \E b \in Backends : at'[b] = "logInsert" /\ my'[b].xid = x
  <2>1. CASE x = 0 \/ Has(log, "insert", x, page.lsn)
    BY <1>0, <1>5, <1>6, <2>1
  <2>2. ASSUME NEW b \in Backends, at[b] = "logInsert", my[b].xid = x PROVE at'[b] = "logInsert" /\ my'[b].xid = x
    <3>1. ~BackendMove(b)
      BY <1>6, <2>2
         DEF BackendMove, ZeroNext, Starts, GetNewTransactionId, InsertTuple, InsertFails, LogEnd, FlushCommit, EndTransaction, Scan, ScanNothing,
             ReadBit, SetHintBits, MarkBufferDirtyHint
    <3> QED BY <2>2, <3>1, StandsStill
  <2> QED BY <1>6, <2>1, <2>2 DEF PageLogged
<1>7. ASSUME NEW b \in Backends, LogInsert(b) PROVE PageLogged'
  <2>1. /\ at[b] = "logInsert" /\ page' = [page EXCEPT !.lsn = Len(log) + 1]
        /\ Insert([kind |-> "insert", xid |-> my[b].xid])
    BY <1>7 DEF LogInsert, Stamp, Log
  <2>2. log' = Append(log, [kind |-> "insert", xid |-> my[b].xid])
    BY <2>1 DEF Insert
  <2>3. /\ page'.lsn = Len(log) + 1 /\ page'.tuples = page.tuples /\ Says(page') = Says(page)
        /\ Len(log') = Len(log) + 1 /\ log'[Len(log) + 1] = [kind |-> "insert", xid |-> my[b].xid]
    BY <1>0, <2>1, <2>2 DEF Content, LogOK, Says
  <2>4. page.lsn <= page'.lsn /\ page'.lsn <= Len(log')
    BY <1>0, <2>3
  <2>5. Has(log', "insert", my[b].xid, page'.lsn)
    <3>1. Len(log) + 1 \in 1..(Len(log) + 1)
      BY <1>0
    <3> QED BY <2>3, <3>1 DEF Has
  <2>6. exclusive = b
    BY <2>1 DEF ContentLockOK
  <2>7. \A x \in page'.tuples : x = 0 \/ Has(log', "insert", x, page'.lsn)
    <3>1. ASSUME NEW c \in Backends, at[c] = "logInsert" PROVE c = b
      BY <2>6, <3>1 DEF ContentLockOK
    <3> QED BY <1>5, <2>3, <2>4, <2>5, <3>1 DEF PageLogged
  <2>8. \A p \in {Checkpointer, BgWriter} : at'[p] # "heapWrite"
    <3>1. \A p \in {Checkpointer, BgWriter} : at[p] # "heapWrite"
      BY <2>1, QuietPage
    <3> QED BY <1>7, <3>1, BackendPhases DEF OthersThere, BackendMove
  <2> QED BY <1>4, <2>3, <2>4, <2>7, <2>8 DEF PageLogged
<1> SUFFICES ASSUME \A b \in Backends : ~LogInsert(b) PROVE PageLogged'
  BY <1>7
<1>8. ASSUME UNCHANGED page PROVE PageLogged'
  <2>1. page'.lsn = page.lsn /\ page.lsn <= page'.lsn /\ page'.lsn <= Len(log') /\ page'.tuples = page.tuples /\ Says(page') = Says(page)
    BY <1>0, <1>2, <1>8
  <2> QED BY <1>3, <1>4, <1>6, <2>1 DEF PageLogged
<1>9. ASSUME NEW b \in Backends, InsertTuple(b) PROVE PageLogged'
  <2>1. page' = [page EXCEPT !.tuples = @ \union {my[b].xid}] /\ my' = my /\ at'[b] = "logInsert"
    BY <1>9, GotoOnly DEF InsertTuple, PutTuple
  <2>2. page'.lsn = page.lsn /\ page'.tuples = page.tuples \union {my[b].xid} /\ Says(page') = Says(page)
    BY <1>0, <2>1 DEF Content, Says
  <2>3. page.lsn <= page'.lsn /\ page'.lsn <= Len(log')
    BY <1>0, <1>2, <2>2
  <2> QED BY <1>3, <1>4, <1>6, <2>1, <2>2, <2>3 DEF PageLogged
<1>10. ASSUME NEW b \in Backends, SetHintBits(b), ~UNCHANGED page PROVE PageLogged'
  <2>1. HintSafe(b) /\ at[b] = "hint" /\ log' = log /\ durable' = durable
    BY <1>10 DEF SetHintBits, walVars
  <2>2. page'.lsn = page.lsn /\ page'.tuples = page.tuples
    BY <1>10, HintChange
  <2>3. \/ Says(page') = Says(page)
        \/ my[b].status = "committed" /\ Says(page') = Says(page) \union {my[b].xid}
    BY <1>10, HintChange
  <2>4. page.lsn <= page'.lsn /\ page'.lsn <= Len(log')
    BY <1>0, <1>2, <2>2
  <2>5. ASSUME my[b].status = "committed"
        PROVE  Has(log', "commit", my[b].xid, durable') \/ Has(log', "commit", my[b].xid, page'.lsn)
    <3>1. Phase(b) = "hint" /\ my[b].lsn \in Nat
      BY <2>1 DEF Phase, IOStates, MyOK, MyType
    <3>2. Has(log, "commit", my[b].xid, durable) \/ Has(log, "commit", my[b].xid, my[b].lsn)
      BY <2>5, <3>1 DEF ScanLogged
    <3>3. my[b].lsn <= durable \/ my[b].lsn <= page.lsn
      <4>1. my[b].lsn <= durable \/ page.lsn >= my[b].lsn
        BY <2>1, <2>5 DEF HintSafe
      <4> QED BY <1>0, <3>1, <4>1
    <3>4. CASE my[b].lsn <= durable
      <4>1. Has(log, "commit", my[b].xid, my[b].lsn) => Has(log, "commit", my[b].xid, durable)
        BY <1>0, <3>1, <3>4, HasMore
      <4> QED BY <2>1, <3>2, <4>1
    <3>5. CASE my[b].lsn <= page.lsn
      <4>1. Has(log, "commit", my[b].xid, my[b].lsn) => Has(log, "commit", my[b].xid, page.lsn)
        BY <1>0, <3>1, <3>5, HasMore
      <4> QED BY <2>1, <2>2, <3>2, <4>1
    <3> QED BY <3>3, <3>4, <3>5
  <2>6. \A x \in Says(page') : Has(log', "commit", x, durable') \/ Has(log', "commit", x, page'.lsn)
    BY <1>4, <2>3, <2>4, <2>5
  <2> QED BY <1>3, <1>6, <2>2, <2>4, <2>6 DEF PageLogged
<1>11. ASSUME RedoTuple, ~UNCHANGED page PROVE PageLogged'
  <2>1. /\ page' = [page EXCEPT !.tuples = @ \union {log[replay].xid}, !.lsn = replay] /\ page.lsn < replay
        /\ log' = log /\ log[replay].kind = "insert" /\ replay <= Len(log) /\ Replaying /\ at' = at
    BY <1>11 DEF RedoTuple, RedoInsert, Redo, Replaying
  <2>2. replay \in 1..Len(log) /\ \A b \in Backends : at[b] = "idle"
    BY <1>0, <2>1 DEF StartupOK, Replaying
  <2>3. page'.lsn = replay /\ page'.tuples = page.tuples \union {log[replay].xid} /\ Says(page') = Says(page)
    BY <1>0, <2>1 DEF Content, Says
  <2>4. page.lsn <= page'.lsn /\ page'.lsn <= Len(log')
    BY <1>0, <2>1, <2>2, <2>3
  <2>5. Has(log', "insert", log[replay].xid, page'.lsn)
    <3>1. replay \in 1..replay
      BY <2>2
    <3> QED BY <2>1, <2>3, <3>1 DEF Has
  <2>6. \A x \in page'.tuples : x = 0 \/ Has(log', "insert", x, page'.lsn)
    BY <1>5, <2>2, <2>3, <2>4, <2>5 DEF PageLogged
  <2>7. \A p \in {Checkpointer, BgWriter} : at'[p] # "heapWrite"
    <3>1. sharers = {}
      BY <1>11 DEF RedoTuple, RedoInsert
    <3> QED BY <2>1, <3>1 DEF ContentLockOK
  <2> QED BY <1>4, <2>3, <2>4, <2>6, <2>7 DEF PageLogged
<1>12. ASSUME NEW b \in Backends, InsertFails(b) PROVE PageLogged'
  <2>1. page' = [page EXCEPT !.strays = @ \union {my[b].xid}]
    BY <1>12 DEF InsertFails, LeaveStray
  <2>2. page'.lsn = page.lsn /\ page'.tuples = page.tuples /\ Says(page') = Says(page)
    BY <1>0, <2>1 DEF Content, Says
  <2>3. page.lsn <= page'.lsn /\ page'.lsn <= Len(log')
    BY <1>0, <1>2, <2>2
  <2> QED BY <1>3, <1>4, <1>6, <2>2, <2>3 DEF PageLogged
<1> QED BY <1>8, <1>9, <1>10, <1>11, <1>12, PageChange

\* Every step keeps the statuses that a scan has looked up within the log.
LEMMA ScanLoggedStep ==
  ASSUME ControlInv, ControlInv', Move, \A pg \in Pages : SlotLogged(pg), NEW b \in Backends, ScanLogged(b)
  PROVE  ScanLogged(b)'
<1> USE Names DEF ControlInv
<1>1. CASE Crash
  BY <1>1, CrashPhases DEF ScanLogged
<1> SUFFICES ASSUME ~Crash, Phase(b)' = "hint", my'[b].status = "committed"
             PROVE  /\ my'[b].lsn <= Len(log')
                    /\ Has(log', "commit", my'[b].xid, durable') \/ Has(log', "commit", my'[b].xid, my'[b].lsn)
  BY <1>1 DEF ScanLogged
<1>0. my[b].lsn \in Nat /\ Len(log) \in Nat /\ my[b] \in MyType /\ my \in [Everyone -> MyType]
  BY DEF MyOK, MyType, LogOK
<1>2. ASSUME NEW n \in Nat, n <= Len(log), NEW x, Has(log, "commit", x, durable) \/ Has(log, "commit", x, n)
      PROVE  n <= Len(log') /\ (Has(log', "commit", x, durable') \/ Has(log', "commit", x, n))
  <2>1. n <= n
    OBVIOUS
  <2> QED BY <1>2, <2>1, StaysLogged, LogStays
<1>3. CASE my'[b] = my[b] /\ Phase(b)' \in {Phase(b), "failed"}
  BY <1>0, <1>2, <1>3 DEF ScanLogged
<1>4. CASE SetBit(b)
  BY <1>4, SetBitPhases
<1>5. CASE BackendMove(b)
  <2>1. at'[b] = "hint"
    BY <1>5, BackendPhases
  <2>2. ASSUME NEW where, Goto(b, where), where # "hint" PROVE FALSE
    BY <2>1, <2>2, GotoOnly
  <2>3. CASE ReadBit(b)
    <3>1. PICK x, pg : x = my[b].xid /\ pg = TransactionIdToPage(x)
      OBVIOUS
    <3>2. x \in Xids /\ pg \in Pages /\ x \in On(pg)
      <4>1. x \in Xids
        BY <2>3, <3>1, XidToMark DEF ReadBit
      <4> QED BY <3>1, <4>1, PageOfXid
    <3>3. my' = [my EXCEPT ![b].status = slot[pg].bits[x], ![b].lsn = slot[pg].lsn]
      BY <2>3, <3>1 DEF ReadBit
    <3>4. my'[b].status = slot[pg].bits[x] /\ my'[b].lsn = slot[pg].lsn /\ my'[b].xid = x
      BY <1>0, <3>1, <3>3 DEF MyType
    <3>5. slot[pg].lsn \in Nat /\ slot[pg].lsn <= Len(log)
      BY <3>2 DEF SlotOK, SlotType, SlotLogged
    <3>6. Has(log, "commit", x, durable) \/ Has(log, "commit", x, slot[pg].lsn)
      BY <3>2, <3>4 DEF SlotLogged
    <3> QED BY <1>2, <3>4, <3>5, <3>6
  <2>4. ~ScanNothing(b)
    BY <2>1 DEF ScanNothing, Starts
  <2>5. ~SetHintBits(b)
    BY <2>2 DEF SetHintBits
  <2>6. ~LogEnd(b)
    BY <2>2 DEF LogEnd
  <2> QED BY <1>5, <2>2, <2>3, <2>4, <2>5, <2>6
          DEF BackendMove, ZeroNext, GetNewTransactionId, InsertTuple, InsertFails, LogInsert, FlushCommit, EndTransaction, Scan, MarkBufferDirtyHint
<1> QED BY <1>3, <1>4, <1>5, Bystanders

\* The logged invariant holds initially.
LEMMA InitLogged == Init => LoggedInv
<1> SUFFICES ASSUME NEW plan \in Plans, InitFrom(plan) PROVE LoggedInv
  BY DEF Init
<1> USE Names
<1>0. /\ plan.nextXid \in Nat \ {0} /\ plan.nextXid <= MaxXid /\ Len(log) = plan.nextXid /\ durable = Len(log)
      /\ \A i \in 1..Len(log) : log[i].kind = "commit" /\ log[i].xid = i - 1 /\ i - 1 \in Xids
  BY StartLog
<1>1. \A p \in Everyone : at[p] = "idle" /\ Phase(p) = "idle" /\ my[p].kind = None
  BY DEF InitFrom, Idle, Phase, IOStates, NoXact
<1>2. FreshOK
  <2>1. nextXid = plan.nextXid /\ controlFile = [redo |-> Len(log) + 1, nextXid |-> plan.nextXid]
    BY DEF InitFrom
  <2>2. \A n : Below(log, n, plan.nextXid)
    <3>1. \A i \in 1..Len(log) : log[i].xid < plan.nextXid
      BY <1>0
    <3> QED BY <3>1 DEF Below
  <2> QED BY <1>0, <1>1, <2>1, <2>2, DurabilityConstants DEF FreshOK, Updates, Lookups
<1>3. slot = [pg \in Pages |-> Empty(pg)]
  BY DEF InitFrom
<1>4. AheadOK
  <2>1. \A pg \in Pages : slot[pg].status = "empty" /\ slot[pg].dirty = FALSE
    BY <1>3, EmptySlot
  <2> QED BY <1>1, <2>1 DEF AheadOK
<1>5. BufferLockOK
  BY <1>1 DEF BufferLockOK
<1>6. page = [tuples |-> {0}, committed |-> {}, invalid |-> {}, strays |-> {}, strayCommitted |-> {}, strayInvalid |-> {}, lsn |-> 0] /\ heapKept = {page}
  BY DEF InitFrom
<1>7. PageLogged
  BY <1>0, <1>1, <1>6 DEF PageLogged, Says
<1>8. ASSUME NEW pg \in Pages PROVE SlotLogged(pg)
  <2>1. slot[pg] = Empty(pg)
    BY <1>3
  <2>2. slot[pg].lsn = 0 /\ slot[pg].status = "empty" /\ \A x \in On(pg) : slot[pg].bits[x] = "inProgress"
    BY <2>1, EmptySlot
  <2>3. slot[pg].lsn <= Len(log)
    BY <1>0, <2>2
  <2> QED BY <2>2, <2>3 DEF SlotLogged
<1>9. ASSUME NEW pg \in Pages PROVE FileLogged(pg)
  <2>1. xactKept[pg] = {InitialPage(pg, plan.nextXid)}
    BY DEF InitFrom
  <2>2. ASSUME NEW bits, bits = InitialPage(pg, plan.nextXid), bits # None, NEW x \in On(pg), bits[x] = "committed"
        PROVE  Has(log, "commit", x, durable)
    <3>1. x \in Nat
      BY PageOfXid
    <3>2. x < plan.nextXid
      BY <2>2 DEF InitialPage
    <3>3. x + 1 \in 1..durable /\ (x + 1) - 1 = x
      BY <1>0, <3>1, <3>2
    <3> QED BY <1>0, <3>3 DEF Has
  <2> QED BY <2>1, <2>2 DEF FileLogged
<1>10. \A c \in heapKept : KeptLogged(c)
  BY <1>0, <1>6 DEF KeptLogged, Says
<1>11. \A b \in Backends : ScanLogged(b)
  BY <1>1 DEF ScanLogged
<1> QED BY <1>2, <1>4, <1>5, <1>7, <1>8, <1>9, <1>10, <1>11 DEF LoggedInv

\* The logged invariant is inductive with the control invariant.
LEMMA LoggedStep == ControlInv /\ ControlInv' /\ LoggedInv /\ [Next]_vars => LoggedInv'
<1> SUFFICES ASSUME ControlInv, ControlInv', LoggedInv, [Next]_vars PROVE LoggedInv'
  OBVIOUS
<1> USE DEF LoggedInv
<1>1. Move
  BY Moves
<1>2. FreshOK'
  BY <1>1, FreshStep
<1>3. AheadOK' /\ BufferLockOK'
  BY <1>1, AheadStep, BufferLockStep
<1>4. PageLogged'
  BY <1>1, PageLoggedStep
<1>5. ASSUME NEW pg \in Pages PROVE SlotLogged(pg)' /\ FileLogged(pg)'
  BY <1>1, SlotLoggedStep, FileLoggedStep
<1>6. ASSUME NEW c \in heapKept' PROVE KeptLogged(c)'
  BY <1>1, KeptLoggedStep
<1>7. ASSUME NEW b \in Backends PROVE ScanLogged(b)'
  BY <1>1, ScanLoggedStep
<1> QED BY <1>2, <1>3, <1>4, <1>5, <1>6, <1>7

(* What is in a slot, in a file of pg_xact, on the data page and in its file has its record in     *)
(* the log, far enough in front: up to the page's LSN for what is in memory (TransactionIdSetPage- *)
(* StatusInternal, heap_insert, SetHintBits), on disk for what has been written (SlruPhysicalWrite- *)
(* Page and FlushBuffer flush the log first).                                                   *)
THEOREM SpecLogged == Spec => [](ControlInv /\ LoggedInv)
<1>1. Init => LoggedInv
  BY InitLogged
<1>2. ControlInv /\ ControlInv' /\ LoggedInv /\ [Next]_vars => LoggedInv'
  BY LoggedStep
<1> QED BY <1>1, <1>2, SpecControl, PTL DEF Spec

(* A record that the log has up to n is among those a property counts. *)
LEMMA HasRecords ==
  ASSUME NEW kind, NEW x, NEW n
  PROVE  Has(log, kind, x, n) <=> x \in Records(kind, n)
BY DEF Has, Records

(* Whatever a crash may leave of pg_xact or of the data file shows no commit and no tuple whose  *)
(* record is not on disk: SlruPhysicalWritePage and FlushBuffer flush the log up to the page's    *)
(* LSN, and nobody raises that LSN under a write that has begun.                                *)
THEOREM SpecWalBeforeData == Spec => []WalBeforeData
<1>1. ControlInv /\ LoggedInv => WalBeforeData
  <2> SUFFICES ASSUME ControlInv, LoggedInv PROVE WalBeforeData
    OBVIOUS
  <2>1. ASSUME NEW pg \in Pages, NEW bits \in xactKept[pg], bits # None, NEW x \in On(pg), bits[x] = "committed"
        PROVE  x \in Records("commit", durable)
    BY <2>1, HasRecords DEF LoggedInv, FileLogged
  <2>2. ASSUME NEW c \in heapKept, NEW x \in c.tuples PROVE x \in Records("insert", durable) \union {0}
    <3>1. c.lsn \in Nat /\ durable \in Nat /\ c.lsn <= durable
      BY <2>2 DEF ControlInv, HeapOK, Content, LogOK, LoggedInv, KeptLogged
    <3>2. Has(log, "insert", x, c.lsn) => Has(log, "insert", x, durable)
      BY <3>1, HasMore
    <3> QED BY <2>2, <3>2, HasRecords DEF LoggedInv, KeptLogged
  <2> QED BY <2>1, <2>2 DEF WalBeforeData
<1> QED BY <1>1, SpecLogged, PTL

(* Once recovery is over every id that the log or the data file names is below nextXid, so that  *)
(* GetNewTransactionId never assigns it again: CreateCheckPoint reads nextXid after it has fixed  *)
(* the redo point, and redo advances nextXid past every id it meets from there on.               *)
THEOREM SpecXidsFresh == Spec => []XidsFresh
<1>1. ControlInv /\ LoggedInv => XidsFresh
  <2> SUFFICES ASSUME ControlInv, LoggedInv, Up PROVE \A x \in Records("insert", Len(log)) \union UNION {c.tuples : c \in heapKept} : x < nextXid
    BY DEF XidsFresh
  <2>1. Len(log) \in Nat /\ durable \in 0..Len(log) /\ nextXid > 0
    BY DEF ControlInv, LogOK, LoggedInv, FreshOK
  <2>2. Replayed = Len(log) + 1
    BY DEF Replayed, Replaying, Up
  <2>3. ASSUME NEW x, Has(log, "insert", x, Len(log)) PROVE x < nextXid
    <3>1. PICK i \in 1..Len(log) : log[i].kind = "insert" /\ log[i].xid = x
      BY <2>3 DEF Has
    <3>2. i < Replayed
      BY <2>1, <2>2, <3>1
    <3> QED BY <3>1, <3>2 DEF LoggedInv, FreshOK, Below, Traces
  <2>4. ASSUME NEW c \in heapKept, NEW x \in c.tuples PROVE x < nextXid
    <3>1. c.lsn \in Nat /\ c.lsn <= Len(log)
      BY <2>1, <2>4 DEF ControlInv, HeapOK, Content, LoggedInv, KeptLogged
    <3>2. Has(log, "insert", x, c.lsn) => Has(log, "insert", x, Len(log))
      BY <2>1, <3>1, HasMore
    <3>3. x = 0 \/ Has(log, "insert", x, c.lsn)
      BY <2>4 DEF LoggedInv, KeptLogged
    <3> QED BY <2>1, <2>3, <3>2, <3>3
  <2> QED BY <2>3, <2>4, HasRecords
<1> QED BY <1>1, SpecLogged, PTL

(* --- The data page after a crash ------------------------------------------------------------- *)

(* The tuples whose insertion is among the records before the n-th of the log l. *)
Brings(l, n, tuples) == \A i \in 1..Len(l) : i < n /\ l[i].kind = "insert" => l[i].xid \in tuples

(* What replay has passed is on the page, and so is what the page's LSN says is there. *)
PageBrings ==
  /\ Brings(log, Replayed, page.tuples) /\ Brings(log, page.lsn + 1, page.tuples) /\ controlFile.redo <= Replayed
  /\ \A b \in Backends : at[b] = "logInsert" => my[b].xid \in page.tuples

(* What a crash may leave has all that replay from the redo point does not bring back. *)
KeptBrings(c) == Brings(log, c.lsn + 1, c.tuples) /\ Brings(log, controlFile.redo, c.tuples)

(* A page that differs from its file is marked dirty, a file that differs from what a crash leaves *)
(* is to be synced.                                                                             *)
FileFollows ==
  /\ page.tuples \subseteq heapFile.tuples \/ header.dirty
  /\ heapKept = {heapFile} \/ HeapTag \in pending
  /\ \A p \in {Checkpointer, BgWriter} : at[p] = "heapWritten" => page.tuples \subseteq heapFile.tuples

(* The checkpoint on its way to where the same holds for its own redo point. *)
CheckpointBrings ==
  /\ at[Checkpointer] = "ckBuffer" => Brings(log, checkPoint.redo, heapFile.tuples) \/ header.needed
  /\ at[Checkpointer] = "ckSync" => Brings(log, checkPoint.redo, heapFile.tuples)
  /\ at[Checkpointer] \in {"ckRecord", "ckControl"} => \A c \in heapKept : Brings(log, checkPoint.redo, c.tuples)

BroughtInv == PageBrings /\ (\A c \in heapKept : KeptBrings(c)) /\ FileFollows /\ CheckpointBrings

(* Fewer records, or more tuples. *)
LEMMA BringsEasier ==
  ASSUME NEW l, NEW n \in Nat, NEW m \in Nat, m <= n, NEW S, NEW T, S \subseteq T, Brings(l, n, S), Len(l) \in Nat
  PROVE  Brings(l, m, T)
<1>1. \A i \in 1..Len(l) : i < m => i < n
  OBVIOUS
<1> QED BY <1>1 DEF Brings

\* A set of tuples that has those logged before the n-th record has them after a step as well.
LEMMA BringsStays ==
  ASSUME ControlInv, Move, NEW n \in Nat, n <= Len(log) + 1, NEW T, Brings(log, n, T)
  PROVE  Brings(log', n, T)
<1>0. Len(log) \in Nat /\ Len(log') \in Nat
  BY DurableStays
<1>1. CASE Crash
  <2>1. PICK k \in durable..Len(log) : Lose(k)
    BY <1>1 DEF Crash
  <2>2. Len(log') = k /\ \A i \in 1..k : i \in 1..Len(log) /\ log'[i] = log[i]
    BY <2>1, LoseEffect DEF ControlInv
  <2> QED BY <2>2 DEF Brings
<1>2. CASE ~Crash
  <2>1. Len(log) <= Len(log') /\ \A i \in 1..Len(log) : log'[i] = log[i]
    BY <1>2, LogStep DEF Grows
  <2>2. \A i \in 1..Len(log') : i < n => i \in 1..Len(log)
    BY <1>0
  <2> QED BY <2>1, <2>2 DEF Brings
<1> QED BY <1>1, <1>2

(* Once recovery is past the end of the log the page has all of it. *)
LEMMA PageHasAll ==
  ASSUME ControlInv, PageBrings, ~Replaying, NEW n \in Nat, n <= Len(log) + 1
  PROVE  Brings(log, n, page.tuples)
<1>1. Len(log) \in Nat /\ Brings(log, Len(log) + 1, page.tuples)
  BY DEF ControlInv, LogOK, PageBrings, Replayed
<1> QED BY <1>1, BringsEasier

(* Tuples stay on the page, and come to it in two ways. *)
LEMMA TuplesChange ==
  ASSUME ControlInv, Move, ~Crash
  PROVE  /\ page.tuples \subseteq page'.tuples
         /\ \/ page'.tuples = page.tuples
            \/ \E b \in Backends : InsertTuple(b) /\ page'.tuples = page.tuples \union {my[b].xid} /\ page'.lsn = page.lsn
            \/ RedoTuple /\ page.lsn < replay /\ page'.tuples = page.tuples \union {log[replay].xid}
         /\ \/ page'.lsn = page.lsn
            \/ \E b \in Backends : LogInsert(b) /\ page'.lsn = Len(log) + 1
            \/ RedoTuple /\ page.lsn < replay /\ page'.lsn = replay
<1>0. page \in Content
  BY DEF ControlInv, HeapOK
<1>1. ASSUME NEW b \in Backends, InsertTuple(b) PROVE page'.tuples = page.tuples \union {my[b].xid} /\ page'.lsn = page.lsn
  BY <1>0, <1>1 DEF InsertTuple, PutTuple, Content
<1>2. ASSUME NEW b \in Backends, LogInsert(b) PROVE page'.tuples = page.tuples /\ page'.lsn = Len(log) + 1
  BY <1>0, <1>2 DEF LogInsert, Stamp, Content
<1>3. ASSUME NEW b \in Backends, SetHintBits(b) PROVE page'.tuples = page.tuples /\ page'.lsn = page.lsn
  BY <1>3, HintChange
<1>5. ASSUME NEW b \in Backends, InsertFails(b) PROVE page'.tuples = page.tuples /\ page'.lsn = page.lsn
  BY <1>0, <1>5 DEF InsertFails, LeaveStray, Content
<1>4. ASSUME RedoTuple, ~UNCHANGED page
      PROVE  page.lsn < replay /\ page'.tuples = page.tuples \union {log[replay].xid} /\ page'.lsn = replay
  <2>1. page' = [page EXCEPT !.tuples = @ \union {log[replay].xid}, !.lsn = replay] /\ page.lsn < replay
    BY <1>4 DEF RedoTuple, RedoInsert
  <2> QED BY <1>0, <2>1 DEF Content
<1> QED BY <1>1, <1>2, <1>3, <1>4, <1>5, PageChange

(* When the page ceases to be dirty, or to be marked for the checkpoint. *)
LEMMA HeaderChange ==
  ASSUME ControlInv, Move, ~Crash
  PROVE  /\ header.dirty => header'.dirty \/ \E p \in {BgWriter, Checkpointer} : HeapWritten(p)
         /\ header.needed => header'.needed \/ BufferSync \/ \E p \in {BgWriter, Checkpointer} : HeapWritten(p)
         /\ page'.tuples # page.tuples => header'.dirty
<1>0. header \in [dirty : BOOLEAN, just : BOOLEAN, needed : BOOLEAN, io : Everyone \union {NoOne}]
  BY DEF ControlInv, HeapOK
<1>1. ASSUME header' = Dirtied(header) PROVE header'.dirty /\ header'.needed = header.needed
  BY <1>0, <1>1 DEF Dirtied
<1>2. ASSUME UNCHANGED header PROVE header'.dirty = header.dirty /\ header'.needed = header.needed
  BY <1>2
<1>3. ASSUME NEW p, BeginFlush(p) PROVE header'.dirty = header.dirty /\ header'.needed = header.needed
  <2>1. header' = [header EXCEPT !.io = p, !.just = FALSE]
    BY <1>3 DEF BeginFlush, FlushBuffer, StartBufferIO
  <2> QED BY <1>0, <2>1
<1>4. ASSUME HeapWriteFailed PROVE header'.dirty = header.dirty /\ header'.needed = header.needed
  <2>1. header' = [header EXCEPT !.io = NoOne]
    BY <1>4 DEF HeapWriteFailed, TerminateBufferIO
  <2> QED BY <1>0, <2>1
<1>5. ASSUME NEW b \in Backends, BackendMove(b) PROVE UNCHANGED header \/ header' = Dirtied(header)
  BY <1>5 DEF BackendMove, ZeroNext, AllButIO, GetNewTransactionId, InsertTuple, PutTuple, InsertFails, LeaveStray, LogInsert, Stamp, LogEnd, FlushCommit,
              EndTransaction, Scan, ScanNothing, ReadBit, SetHintBits, MarkBufferDirtyHint, heapVars
<1>6. StartupMove => UNCHANGED header \/ header' = Dirtied(header)
  BY DEF StartupMove, RedoTuple, RedoInsert, RedoEnd, RedoZero, RedoOther, EndReplay, heapVars
<1>7. SharedMove => UNCHANGED header \/ \E p \in {BgWriter, Checkpointer} : BeginFlush(p) \/ HeapWritten(p)
  BY DEF SharedMove, SetBit, SlruPhysicalReadPage, BeginRead, BeginWrite, TakeOver, AllButIO, SlruWrite, SlruWritten,
         HeapWrite, smgrwrite, heapVars
<1>8. CheckpointerMove => UNCHANGED header \/ HeapWriteFailed \/ BufferSync
  BY DEF CheckpointerMove, CkptRedo, CkptNextXid, CkptDelay, SkipPage, SkipBuffer, ProcessSyncRequests, CkptRecord,
         UpdateControlFile, SlruWriteFailed, heapVars
<1>9. page'.tuples # page.tuples => header' = Dirtied(header)
  <2>1. ASSUME NEW b \in Backends, InsertTuple(b) PROVE header' = Dirtied(header)
    BY <2>1 DEF InsertTuple, PutTuple
  <2>2. ASSUME RedoTuple, page.lsn < replay PROVE header' = Dirtied(header)
    BY <2>2 DEF RedoTuple, RedoInsert
  <2> QED BY <2>1, <2>2, TuplesChange
<1>10. BufferSync => header'.dirty = header.dirty
  <2>1. BufferSync => header' = [header EXCEPT !.needed = header.dirty]
    BY DEF BufferSync
  <2> QED BY <1>0, <2>1
<1>11. \/ UNCHANGED header
       \/ header' = Dirtied(header)
       \/ BufferSync \/ HeapWriteFailed
       \/ \E p \in {BgWriter, Checkpointer} : BeginFlush(p) \/ HeapWritten(p)
  BY <1>5, <1>6, <1>7, <1>8 DEF Move, Nothing, heapVars
<1> QED BY <1>1, <1>2, <1>3, <1>4, <1>9, <1>10, <1>11

\* The redo point of the control file stays behind replay.
LEMMA RedoPointPassed ==
  ASSUME ControlInv, ControlInv', Move, controlFile.redo <= Replayed
  PROVE  (controlFile.redo <= Replayed)'
<1> USE DEF ControlInv
<1>0. /\ controlFile.redo \in Nat /\ controlFile'.redo \in Nat /\ controlFile'.redo <= durable' + 1
      /\ durable' \in Nat /\ Len(log) \in Nat /\ Len(log') \in Nat /\ durable' <= Len(log')
  BY DurableStays DEF CheckpointOK
<1>1. CASE Crash
  <2>1. Replayed' = controlFile.redo /\ controlFile' = controlFile
    BY <1>1, CrashPhases DEF Replayed, Replaying, Crash
  <2> QED BY <1>0, <2>1
<1>2. CASE Replayed' = Len(log') + 1
  BY <1>0, <1>2
<1>3. CASE ~Crash /\ Replayed' # Len(log') + 1
  <2>1. Replayed \in Nat /\ Replayed' \in {Replayed, Replayed + 1}
    BY <1>0, <1>3, ReplayedStep
  <2>2. UNCHANGED controlFile
    <3>1. CASE CheckpointerMove
      <4>1. Replaying'
        BY <1>3 DEF Replayed
      <4>2. ~UpdateControlFile
        BY <3>1, <4>1, CheckpointerPhases DEF Replaying
      <4> QED BY <3>1, <4>2
              DEF CheckpointerMove, CkptRedo, CkptNextXid, CkptDelay, SkipPage, BufferSync, SkipBuffer, ProcessSyncRequests, CkptRecord,
                  SlruWriteFailed, HeapWriteFailed, ckptVars
    <3>2. CASE EndReplay
      BY <3>2 DEF EndReplay
    <3> QED BY <1>3, <3>1, <3>2, CheckpointerStays
  <2> QED BY <1>0, <2>1, <2>2
<1> QED BY <1>1, <1>2, <1>3

\* Every step keeps PageBrings: what replay has passed is on the page, and so is what the page's
\* LSN says is there.
LEMMA PageBringsStep ==
  ASSUME ControlInv, ControlInv', LoggedInv, PageBrings, \A c \in heapKept : KeptBrings(c), Move
  PROVE  PageBrings'
<1> USE Names DEF ControlInv
<1>0. /\ page.lsn \in Nat /\ page.lsn <= Len(log) /\ Len(log) \in Nat /\ Len(log') \in Nat /\ durable \in 0..Len(log)
      /\ controlFile.redo \in 1..(durable + 1) /\ Replayed \in 1..(Len(log) + 1)
  BY DurableStays DEF LogOK, HeapOK, Content, LoggedInv, PageLogged, CheckpointOK, Replayed, StartupOK
<1>1. (controlFile.redo <= Replayed)'
  BY RedoPointPassed DEF PageBrings
<1>2. CASE Crash
  <2>1. PICK k \in heapKept : page' = k
    BY <1>2 DEF Crash, HeapCrash
  <2>2. Replayed' = controlFile.redo /\ \A b \in Backends : at'[b] = "idle"
    BY <1>2, CrashPhases DEF Replayed, Replaying, Crash
  <2>3. k.lsn \in Nat /\ k.lsn <= durable
    BY DEF HeapOK, Content, LoggedInv, KeptLogged
  <2>4. k.lsn + 1 \in Nat /\ k.lsn + 1 <= Len(log) + 1 /\ controlFile.redo \in Nat /\ controlFile.redo <= Len(log) + 1
    <3>1. PICK n, d, e, c \in Int : n = Len(log) /\ d = durable /\ e = k.lsn /\ c = controlFile.redo
      BY <1>0, <2>3
    <3>2. n \in Nat /\ d \in 0..n /\ e \in Nat /\ e <= d /\ c \in 1..(d + 1)
      BY <1>0, <2>3, <3>1
    <3>3. e + 1 \in Nat /\ e + 1 <= n + 1 /\ c \in Nat /\ c <= n + 1
      BY <3>2
    <3> QED BY <3>1, <3>3
  <2>5. Brings(log', k.lsn + 1, k.tuples) /\ Brings(log', controlFile.redo, k.tuples)
    BY <2>4, BringsStays DEF KeptBrings
  <2> QED BY <1>1, <2>1, <2>2, <2>5 DEF PageBrings
<1> SUFFICES ASSUME ~Crash PROVE PageBrings'
  BY <1>2
<1>3. page.tuples \subseteq page'.tuples /\ Grows
  BY TuplesChange, LogStep
<1>4. Brings(log', Replayed', page'.tuples)
  <2> SUFFICES ASSUME NEW i \in 1..Len(log'), i < Replayed', log'[i].kind = "insert" PROVE log'[i].xid \in page'.tuples
    BY DEF Brings
  <2>1. CASE i \in 1..Len(log) /\ i < Replayed
    BY <1>3, <2>1 DEF PageBrings, Brings, Grows
  <2>2. CASE Redoes /\ replay \in 1..Len(log) /\ Replayed = replay /\ Replayed' = replay + 1 /\ log' = log
    <3>1. i = replay \/ (i \in 1..Len(log) /\ i < Replayed)
      BY <1>0, <2>2
    <3>2. CASE i = replay
      <4>1. RedoTuple
        BY <2>2, <3>2 DEF Redoes, RedoEnd, RedoZero, RedoOther, Redo
      <4>2. CASE page.lsn < replay
        <5>1. page' = [page EXCEPT !.tuples = @ \union {log[replay].xid}, !.lsn = replay]
          BY <4>1, <4>2 DEF RedoTuple, RedoInsert
        <5> QED BY <2>2, <3>2, <5>1 DEF HeapOK, Content
      <4>3. CASE ~(page.lsn < replay)
        <5>1. replay < page.lsn + 1
          BY <1>0, <2>2, <4>3
        <5> QED BY <1>3, <2>2, <3>2, <5>1 DEF PageBrings, Brings
      <4> QED BY <4>2, <4>3
    <3> QED BY <2>1, <3>1, <3>2
  <2>3. CASE Replayed' = Replayed /\ log' = log
    BY <2>1, <2>3
  <2>4. CASE ~Replaying /\ Replayed = Len(log) + 1 /\ Replayed' = Len(log') + 1
    <3>1. i \in 1..Len(log) => i < Replayed
      <4>1. Len(log) \in Nat
        BY <1>0
      <4> QED BY <2>4, <4>1
    <3>2. CASE i \notin 1..Len(log)
      <4>1. PICK r : r = log'[i]
        OBVIOUS
      <4>2. NewRecord(r) /\ r.kind = "insert"
        BY <3>2, <4>1, LogChange
      <4>3. PICK b \in Backends : LogInsert(b) /\ r.xid = my[b].xid
        BY <4>2 DEF NewRecord
      <4>4. my[b].xid \in page.tuples
        BY <4>3 DEF LogInsert, PageBrings
      <4> QED BY <1>3, <4>1, <4>3, <4>4
    <3> QED BY <2>1, <3>1, <3>2
  <2> QED BY <2>2, <2>3, <2>4, ReplayedStep
<1>5. Brings(log', page'.lsn + 1, page'.tuples)
  <2>1. CASE page'.lsn = page.lsn
    <3>1. page.lsn + 1 \in Nat /\ page.lsn + 1 <= Len(log) + 1 /\ page.lsn + 1 <= page.lsn + 1
      BY <1>0
    <3>2. Brings(log', page.lsn + 1, page.tuples)
      BY <3>1, BringsStays DEF PageBrings
    <3> QED BY <1>0, <1>3, <2>1, <3>1, <3>2, BringsEasier
  <2>2. ASSUME NEW b \in Backends, LogInsert(b), page'.lsn = Len(log) + 1 PROVE Replayed' = page'.lsn + 1
    <3>1. Up /\ at'[Startup] = at[Startup]
      BY <2>2, WhoRuns, BackendPhases DEF BackendMove, OthersThere
    <3>2. log' = Append(log, [kind |-> "insert", xid |-> my[b].xid])
      BY <2>2 DEF LogInsert, Log, Insert
    <3>3. Len(log') = Len(log) + 1
      BY <3>2 DEF LogOK
    <3> QED BY <2>2, <3>1, <3>3 DEF Replayed, Replaying, Up
  <2>3. ASSUME RedoTuple, page'.lsn = replay PROVE Replayed' = page'.lsn + 1
    <3>1. replay' = replay + 1 /\ at' = at /\ at[Startup] = "replay"
      BY <2>3 DEF RedoTuple, Redo
    <3> QED BY <2>3, <3>1 DEF Replayed, Replaying
  <2> QED BY <1>4, <2>1, <2>2, <2>3, TuplesChange
<1>6. ASSUME NEW b \in Backends, at'[b] = "logInsert" PROVE my'[b].xid \in page'.tuples
  <2>1. CASE BackendMove(b)
    <3>1. ASSUME NEW where, where # "logInsert", Goto(b, where) PROVE FALSE
      BY <1>6, <3>1, GotoOnly
    <3>2. InsertTuple(b)
      <4>1. ~ScanNothing(b)
        BY <1>6 DEF ScanNothing, Starts
      <4>2. ~SetHintBits(b)
        BY <3>1 DEF SetHintBits
      <4>3. ~LogEnd(b)
        BY <3>1 DEF LogEnd
      <4> QED BY <2>1, <3>1, <4>1, <4>2, <4>3
              DEF BackendMove, ZeroNext, GetNewTransactionId, InsertFails, LogInsert, FlushCommit, EndTransaction, Scan, ReadBit,
                  MarkBufferDirtyHint
    <3>3. page' = [page EXCEPT !.tuples = @ \union {my[b].xid}] /\ my' = my
      BY <3>2 DEF InsertTuple, PutTuple
    <3> QED BY <3>3 DEF HeapOK, Content
  <2>2. CASE ~BackendMove(b)
    <3>1. Phase(b)' = "logInsert"
      BY <1>6 DEF Phase, IOStates
    <3>2. ~SetBit(b)
      BY <3>1, SetBitPhases
    <3>3. my'[b] = my[b] /\ Phase(b) = "logInsert"
      BY <2>2, <3>1, <3>2, Bystanders
    <3>4. at[b] = "logInsert"
      BY <3>3 DEF Phase, IOOK
    <3> QED BY <1>3, <3>3, <3>4 DEF PageBrings
  <2> QED BY <2>1, <2>2
<1> QED BY <1>1, <1>4, <1>5, <1>6 DEF PageBrings

\* Every step keeps KeptBrings: what a crash may leave of the data file has all that replay from
\* the redo point does not bring back.
LEMMA KeptBringsStep ==
  ASSUME ControlInv, ControlInv', LoggedInv, BroughtInv, Move, NEW c \in heapKept'
  PROVE  KeptBrings(c)'
<1> USE Names DEF ControlInv, BroughtInv
<1>0. /\ \A k \in heapKept : k.lsn \in Nat /\ k.lsn <= Len(log)
      /\ page.lsn \in Nat /\ page.lsn <= Len(log) /\ Len(log) \in Nat /\ durable \in 0..Len(log)
      /\ controlFile.redo \in 1..(durable + 1) /\ Replayed \in 1..(Len(log) + 1)
  <2>1. /\ page.lsn \in Nat /\ page.lsn <= Len(log) /\ Len(log) \in Nat /\ durable \in 0..Len(log)
        /\ controlFile.redo \in 1..(durable + 1) /\ Replayed \in 1..(Len(log) + 1)
    BY DEF LogOK, HeapOK, Content, LoggedInv, PageLogged, CheckpointOK, Replayed, StartupOK
  <2>2. \A k \in heapKept : k.lsn \in Nat /\ k.lsn <= durable
    BY DEF HeapOK, Content, LoggedInv, KeptLogged
  <2> QED BY <2>1, <2>2
<1>1. ASSUME NEW k, k.lsn \in Nat, k.lsn <= Len(log), Brings(log, k.lsn + 1, k.tuples) PROVE Brings(log', k.lsn + 1, k.tuples)
  <2>1. k.lsn + 1 \in Nat /\ k.lsn + 1 <= Len(log) + 1
    BY <1>0, <1>1
  <2> QED BY <1>1, <2>1, BringsStays
<1>2. ASSUME NEW T, Brings(log, controlFile.redo, T) PROVE Brings(log', controlFile.redo, T)
  <2>1. controlFile.redo \in Nat /\ controlFile.redo <= Len(log) + 1
    BY <1>0
  <2> QED BY <1>2, <2>1, BringsStays
<1>3. CASE UpdateControlFile
  <2>1. at[Checkpointer] = "ckControl" /\ controlFile'.redo = checkPoint.redo /\ heapKept' = heapKept
    BY <1>3 DEF UpdateControlFile, NewControlFile, heapVars
  <2>2. checkPoint.redo \in Nat /\ checkPoint.redo <= Len(log) + 1
    BY <1>0, <2>1 DEF CheckpointOK
  <2>3. Brings(log', checkPoint.redo, c.tuples)
    BY <2>1, <2>2, BringsStays DEF CheckpointBrings
  <2> QED BY <1>0, <1>1, <2>1, <2>3 DEF KeptBrings
<1>4. CASE ~UpdateControlFile
  <2>0. UNCHANGED controlFile
    BY <1>4, CheckpointerStays DEF CheckpointerMove, CkptRedo, CkptNextXid, CkptDelay, SkipPage, BufferSync, SkipBuffer, ProcessSyncRequests,
                                   CkptRecord, SlruWriteFailed, HeapWriteFailed, EndReplay, Crash, ckptVars
  <2>1. CASE c \in heapKept
    BY <1>0, <1>1, <1>2, <2>0, <2>1 DEF KeptBrings
  <2>2. CASE c = page
    <3>1. page.tuples \subseteq page.tuples /\ controlFile.redo \in Nat /\ Replayed \in Nat /\ controlFile.redo <= Replayed
      BY <1>0 DEF PageBrings
    <3>2. Brings(log, controlFile.redo, page.tuples)
      BY <1>0, <3>1, BringsEasier DEF PageBrings
    <3>3. Brings(log', page.lsn + 1, page.tuples) /\ Brings(log', controlFile.redo, page.tuples)
      BY <1>0, <1>1, <1>2, <3>2 DEF PageBrings
    <3> QED BY <2>0, <2>2, <3>3 DEF KeptBrings
  <2>3. c \in heapKept \/ c = page
    <3>1. Crash => heapKept' \subseteq heapKept
      BY DEF Crash, HeapCrash
    <3>2. ProcessSyncRequests => heapKept' \subseteq heapKept
      BY DEF ProcessSyncRequests, HeapOK
    <3>3. ASSUME NEW p, HeapWrite(p) PROVE heapKept' = heapKept \union {page}
      BY <3>3 DEF HeapWrite, smgrwrite
    <3> QED BY <3>1, <3>2, <3>3, PageChange
  <2> QED BY <2>1, <2>2, <2>3
<1> QED BY <1>3, <1>4

(* A write takes the page as it is. *)
LEMMA HeapFileChange ==
  ASSUME ControlInv, Move, ~Crash
  PROVE  /\ heapFile' \in {heapFile, page}
         /\ heapKept' \subseteq heapKept \union {page}
         /\ heapFile' # heapFile => HeapTag \in pending'
<1>1. ASSUME NEW p, HeapWrite(p) PROVE heapFile' = page /\ heapKept' = heapKept \union {page} /\ HeapTag \in pending'
  BY <1>1 DEF HeapWrite, smgrwrite
<1>2. ProcessSyncRequests => heapFile' = heapFile /\ heapKept' \subseteq heapKept
  BY DEF ProcessSyncRequests, ControlInv, HeapOK
<1> QED BY <1>1, <1>2, PageChange

(* A sync request stays until the checkpointer has carried it out. *)
LEMMA PendingStays ==
  ASSUME Move, ~Crash, ~ProcessSyncRequests
  PROVE  pending \subseteq pending'
<1>1. ASSUME NEW b \in Backends, BackendMove(b) PROVE pending \subseteq pending'
  BY <1>1
     DEF BackendMove, ZeroNext, AllButIO, GetNewTransactionId, InsertTuple, InsertFails, LogInsert, LogEnd, FlushCommit, EndTransaction,
         Scan, ScanNothing, ReadBit, SetHintBits, MarkBufferDirtyHint, slruVars
<1>2. ASSUME SharedMove PROVE pending \subseteq pending'
  BY <1>2
     DEF SharedMove, SetBit, SlruPhysicalReadPage, BeginRead, BeginWrite, TakeOver, AllButIO, SlruWrite, SlruWritten, WriteEnd, BeginFlush,
         HeapWrite, HeapWritten, slruVars
<1>3. ASSUME CheckpointerMove PROVE pending \subseteq pending'
  BY <1>3
     DEF CheckpointerMove, CkptRedo, CkptNextXid, CkptDelay, SkipPage, BufferSync, SkipBuffer, CkptRecord, UpdateControlFile,
         SlruWriteFailed, HeapWriteFailed, slruVars
<1>4. ASSUME StartupMove PROVE pending \subseteq pending'
  BY <1>4 DEF StartupMove, RedoTuple, RedoEnd, RedoZero, RedoOther, EndReplay, Redo
<1> QED BY <1>1, <1>2, <1>3, <1>4 DEF Move, Nothing

(* No tuple comes to the page between its write and the end of the I/O. *)
LEMMA WrittenStays ==
  ASSUME ControlInv, Move, ~Crash, NEW p \in {Checkpointer, BgWriter}, at[p] \in {"heapWrite", "heapWritten"}
  PROVE  page'.tuples = page.tuples
<1>1. p \in sharers
  BY DEF ControlInv, ContentLockOK
<1>2. \A b \in Backends : ~InsertTuple(b)
  BY <1>1 DEF InsertTuple, PutTuple
<1>3. ~RedoTuple
  BY <1>1 DEF RedoTuple, RedoInsert
<1> QED BY <1>2, <1>3, TuplesChange

(* The flags of the buffer and the sync requests keep track of what is not yet on disk. *)
LEMMA FileFollowsStep ==
  ASSUME ControlInv, ControlInv', FileFollows, Move
  PROVE  FileFollows'
<1> USE Names DEF ControlInv
<1>1. CASE Crash
  <2>1. page' = heapFile' /\ heapKept' = {heapFile'}
    BY <1>1 DEF Crash, HeapCrash
  <2>2. \A p \in {Checkpointer, BgWriter} : at'[p] = "idle"
    BY <1>1, CrashPhases
  <2> QED BY <2>1, <2>2 DEF FileFollows
<1> SUFFICES ASSUME ~Crash PROVE FileFollows'
  BY <1>1
<1>2. ASSUME page.tuples \subseteq heapFile.tuples, page'.tuples = page.tuples PROVE page'.tuples \subseteq heapFile'.tuples
  BY <1>2, HeapFileChange
<1>3. ASSUME NEW p \in {BgWriter, Checkpointer}, HeapWritten(p) PROVE page.tuples \subseteq heapFile.tuples
  BY <1>3 DEF HeapWritten, FileFollows
<1>4. page'.tuples \subseteq heapFile'.tuples \/ header'.dirty
  <2>1. CASE page'.tuples # page.tuples
    BY <2>1, HeaderChange
  <2>2. CASE page'.tuples = page.tuples
    BY <1>2, <1>3, <2>2, HeaderChange DEF FileFollows
  <2> QED BY <2>1, <2>2
<1>5. heapKept' = {heapFile'} \/ HeapTag \in pending'
  <2>1. CASE ProcessSyncRequests
    BY <2>1 DEF ProcessSyncRequests, FileFollows
  <2>2. CASE ~ProcessSyncRequests
    <3>1. ASSUME NEW p, HeapWrite(p) PROVE HeapTag \in pending'
      BY <3>1 DEF HeapWrite
    <3> QED BY <2>2, <3>1, PageChange, PendingStays DEF FileFollows
  <2> QED BY <2>1, <2>2
<1>6. ASSUME NEW p \in {Checkpointer, BgWriter}, at'[p] = "heapWritten" PROVE page'.tuples \subseteq heapFile'.tuples
  <2>1. CASE at[p] = "heapWritten"
    <3>1. page'.tuples = page.tuples
      BY <2>1, WrittenStays
    <3> QED BY <1>2, <2>1, <3>1 DEF FileFollows
  <2>2. CASE at[p] # "heapWritten"
    <3>1. HeapWrite(p)
      BY <1>6, <2>2, HeapIOBegins
    <3> QED BY <3>1 DEF HeapWrite, smgrwrite
  <2> QED BY <2>1, <2>2
<1> QED BY <1>4, <1>5, <1>6 DEF FileFollows

(* The checkpoint has written the page once it syncs the file, and synced it once it logs its record. *)
LEMMA CheckpointBringsStep ==
  ASSUME ControlInv, ControlInv', BroughtInv, Move
  PROVE  CheckpointBrings'
<1> USE Names DEF ControlInv, BroughtInv
<1>1. CASE Crash
  <2>1. at'[Checkpointer] = "idle"
    BY <1>1, CrashPhases
  <2> QED BY <2>1 DEF CheckpointBrings
<1>2. CASE EndReplay
  <2>1. at'[Checkpointer] = "ckNextXid"
    BY <1>2 DEF EndReplay, AtOK
  <2> QED BY <2>1 DEF CheckpointBrings
<1> SUFFICES ASSUME ~Crash, ~EndReplay PROVE CheckpointBrings'
  BY <1>1, <1>2
<1>3. CASE at[Checkpointer] = "idle"
  <2>1. at'[Checkpointer] \in {"idle", "ckNextXid"}
    <3>1. CASE CheckpointerMove
      <4>1. CkptRedo
        BY <1>3, <3>1 DEF CheckpointerMove, CkptRedo, CkptNextXid, CkptDelay, SkipPage, BufferSync, SkipBuffer, ProcessSyncRequests,
                          CkptRecord, UpdateControlFile, SlruWriteFailed, HeapWriteFailed
      <4> QED BY <4>1, GotoOnly DEF CkptRedo
    <3> QED BY <1>3, <3>1, CheckpointerStays
  <2> QED BY <2>1 DEF CheckpointBrings
<1> SUFFICES ASSUME at[Checkpointer] # "idle" PROVE CheckpointBrings'
  BY <1>3
<1>4. ~Replaying /\ checkPoint.redo \in Nat /\ checkPoint.redo <= Len(log) + 1
  <2>1. Len(log) \in Nat
    BY DEF LogOK
  <2>2. checkPoint.redo \in 1..(Len(log) + 1)
    BY DEF CheckpointOK
  <2>3. ~Replaying
    BY DEF StartupOK
  <2> QED BY <2>1, <2>2, <2>3
<1>5. ASSUME NEW T, Brings(log, checkPoint.redo, T) PROVE Brings(log', checkPoint.redo, T)
  BY <1>4, <1>5, BringsStays
<1>6. Brings(log, checkPoint.redo, page.tuples)
  BY <1>4, PageHasAll
<1>7. ASSUME NEW T, Brings(log, checkPoint.redo, T), NEW S, T \subseteq S PROVE Brings(log, checkPoint.redo, S)
  BY <1>7 DEF Brings
<1>8. ASSUME NEW where, where \notin {"ckBuffer", "ckSync", "ckRecord", "ckControl"}, at'[Checkpointer] = where PROVE CheckpointBrings'
  BY <1>8 DEF CheckpointBrings
<1>9. ASSUME NEW where, where \notin {"ckBuffer", "ckSync", "ckRecord", "ckControl"}, Goto(Checkpointer, where) PROVE CheckpointBrings'
  BY <1>8, <1>9, GotoOnly
<1>10. CASE CheckpointerMove
  <2>1. CASE BufferSync
    <3>1. at'[Checkpointer] = "ckBuffer" /\ UNCHANGED <<heapFile, checkPoint, log>> /\ header' = [header EXCEPT !.needed = header.dirty]
      BY <2>1, GotoOnly DEF BufferSync, ckptVars, walVars
    <3>2. header'.needed = header.dirty
      BY <3>1 DEF HeapOK
    <3>3. header.dirty \/ Brings(log, checkPoint.redo, heapFile.tuples)
      BY <1>6, <1>7 DEF FileFollows
    <3> QED BY <3>1, <3>2, <3>3 DEF CheckpointBrings
  <2>2. CASE SkipBuffer
    <3>1. at[Checkpointer] = "ckBuffer" /\ at'[Checkpointer] = "ckSync" /\ UNCHANGED <<heapFile, checkPoint, log>> /\ (~header.needed \/ ~header.dirty)
      BY <2>2, GotoOnly DEF SkipBuffer, ckptVars, heapVars
    <3>2. Brings(log, checkPoint.redo, heapFile.tuples)
      BY <1>6, <1>7, <3>1 DEF FileFollows, CheckpointBrings
    <3> QED BY <3>1, <3>2 DEF CheckpointBrings
  <2>3. CASE ProcessSyncRequests
    <3>1. /\ at[Checkpointer] = "ckSync" /\ at'[Checkpointer] = "ckRecord" /\ UNCHANGED <<heapFile, checkPoint, log>>
          /\ heapKept' = IF HeapTag \in pending THEN {heapFile} ELSE heapKept
      BY <2>3, GotoOnly DEF ProcessSyncRequests, ckptVars, walVars
    <3>2. heapKept' = {heapFile}
      BY <3>1 DEF FileFollows
    <3> QED BY <3>1, <3>2 DEF CheckpointBrings
  <2>4. CASE CkptRecord
    <3>1. /\ at[Checkpointer] = "ckRecord" /\ at'[Checkpointer] = "ckControl" /\ UNCHANGED heapKept
          /\ checkPoint' = [checkPoint EXCEPT !.record = Len(log) + 1]
      BY <2>4, GotoOnly DEF CkptRecord, heapVars
    <3>2. checkPoint'.redo = checkPoint.redo
      BY <3>1 DEF CheckpointOK
    <3> QED BY <1>5, <3>1, <3>2 DEF CheckpointBrings
  <2>5. CASE UpdateControlFile
    <3>1. at'[Checkpointer] = "idle"
      BY <2>5 DEF UpdateControlFile, AtOK
    <3> QED BY <1>8, <3>1
  <2>6. ASSUME NEW pg, SkipPage(pg) PROVE CheckpointBrings'
    <3>1. at'[Checkpointer] = "ckXact"
      BY <2>6 DEF SkipPage
    <3> QED BY <1>8, <3>1
  <2> QED BY <1>9, <1>10, <2>1, <2>2, <2>3, <2>4, <2>5, <2>6
          DEF CheckpointerMove, CkptRedo, CkptNextXid, CkptDelay, SlruWriteFailed, HeapWriteFailed
<1>11. CASE ~CheckpointerMove
  <2>0. UNCHANGED checkPoint
    BY <1>11, CheckpointerStays
  <2>1. ASSUME Brings(log, checkPoint.redo, heapFile.tuples) PROVE Brings(log', checkPoint'.redo, heapFile'.tuples)
    BY <1>5, <1>6, <2>0, <2>1, HeapFileChange
  <2>2. ASSUME NEW p \in {BgWriter, Checkpointer}, HeapWritten(p) PROVE Brings(log, checkPoint.redo, heapFile.tuples)
    <3>1. page.tuples \subseteq heapFile.tuples
      BY <2>2 DEF HeapWritten, FileFollows
    <3> QED BY <1>6, <1>7, <3>1
  <2>3. CASE at'[Checkpointer] = at[Checkpointer]
    <3>1. ASSUME at[Checkpointer] = "ckBuffer" PROVE Brings(log', checkPoint'.redo, heapFile'.tuples) \/ header'.needed
      <4>1. ~BufferSync
        BY <1>11 DEF CheckpointerMove
      <4>2. CASE Brings(log, checkPoint.redo, heapFile.tuples)
        BY <2>1, <4>2
      <4>3. CASE header.needed
        BY <2>1, <2>2, <4>1, <4>3, HeaderChange
      <4> QED BY <3>1, <4>2, <4>3 DEF CheckpointBrings
    <3>2. ASSUME at[Checkpointer] = "ckSync" PROVE Brings(log', checkPoint'.redo, heapFile'.tuples)
      BY <2>1, <3>2 DEF CheckpointBrings
    <3>3. ASSUME at[Checkpointer] \in {"ckRecord", "ckControl"}, NEW c \in heapKept' PROVE Brings(log', checkPoint'.redo, c.tuples)
      <4>1. Brings(log, checkPoint.redo, c.tuples)
        BY <1>6, <3>3, HeapFileChange DEF CheckpointBrings
      <4> QED BY <1>5, <2>0, <4>1
    <3> QED BY <2>3, <3>1, <3>2, <3>3 DEF CheckpointBrings
  <2>4. CASE BeginFlush(Checkpointer) \/ HeapWrite(Checkpointer)
    <3>1. at'[Checkpointer] \in {"heapWrite", "heapWritten"}
      BY <2>4, HeapIOPhases
    <3> QED BY <1>8, <3>1
  <2>5. CASE HeapWritten(Checkpointer)
    <3>1. at'[Checkpointer] = "ckSync"
      BY <2>5, HeapIOPhases
    <3> QED BY <2>1, <2>2, <2>5, <3>1 DEF CheckpointBrings
  <2>6. CASE at'[Checkpointer] \in {"ckXact", "xactWrite", "xactWritten"}
    BY <1>8, <2>6
  <2> QED BY <1>11, <2>3, <2>4, <2>5, <2>6, CheckpointerStays
<1> QED BY <1>10, <1>11

(* After a clean start no insertion is in the log, and the file is the page. *)
LEMMA InitBrought == Init => BroughtInv
<1> SUFFICES ASSUME NEW plan \in Plans, InitFrom(plan) PROVE BroughtInv
  BY DEF Init
<1> USE Names
<1>1. Len(log) \in Nat /\ \A i \in 1..Len(log) : log[i].kind = "commit"
  BY StartLog
<1>2. \A n, T : Brings(log, n, T)
  BY <1>1 DEF Brings
<1>3. \A p \in Everyone : at[p] = "idle"
  BY DEF InitFrom, Idle
<1>4. controlFile.redo <= Replayed
  <2>1. Replayed = Len(log) + 1 /\ controlFile.redo = Len(log) + 1
    BY <1>3 DEF Replayed, Replaying, InitFrom
  <2> QED BY <1>1, <2>1
<1>5. PageBrings
  BY <1>2, <1>3, <1>4 DEF PageBrings
<1>6. FileFollows
  BY <1>3 DEF FileFollows, InitFrom
<1>7. CheckpointBrings
  BY <1>3 DEF CheckpointBrings
<1> QED BY <1>2, <1>5, <1>6, <1>7 DEF BroughtInv, KeptBrings

(* Every step keeps what the checkpoint, and replay after a crash, rely on. *)
LEMMA BroughtStep == ControlInv /\ ControlInv' /\ LoggedInv /\ BroughtInv /\ [Next]_vars => BroughtInv'
<1> SUFFICES ASSUME ControlInv, ControlInv', LoggedInv, BroughtInv, [Next]_vars PROVE BroughtInv'
  OBVIOUS
<1>1. Move
  BY Moves
<1>2. PageBrings'
  BY <1>1, PageBringsStep DEF BroughtInv
<1>3. FileFollows'
  BY <1>1, FileFollowsStep DEF BroughtInv
<1>4. CheckpointBrings'
  BY <1>1, CheckpointBringsStep
<1>5. ASSUME NEW c \in heapKept' PROVE KeptBrings(c)'
  BY <1>1, KeptBringsStep
<1> QED BY <1>2, <1>3, <1>4, <1>5 DEF BroughtInv

(* Whatever a crash may leave of the data file has every tuple that replay from the control file's  *)
(* redo point does not bring back: BufferSync writes the pages that are dirty after the redo point  *)
(* is fixed, ProcessSyncRequests syncs them, and only then does UpdateControlFile move the point.    *)
THEOREM SpecBrought == Spec => [](ControlInv /\ LoggedInv /\ BroughtInv)
<1>1. Init => BroughtInv
  BY InitBrought
<1>2. ControlInv /\ ControlInv' /\ LoggedInv /\ BroughtInv /\ [Next]_vars => BroughtInv'
  BY BroughtStep
<1> QED BY <1>1, <1>2, SpecLogged, PTL DEF Spec

(* No crash loses an insertion whose record survives it: once recovery is over the data page has    *)
(* every tuple whose record is in the log, whichever checkpoints, writes and crashes came between    *)
(* (heap_insert, FlushBuffer, CreateCheckPoint, heap_redo).                                        *)
THEOREM SpecHeapKept == Spec => []HeapKept
<1>1. ControlInv /\ BroughtInv => HeapKept
  <2> SUFFICES ASSUME ControlInv, BroughtInv, Up, NEW x \in Records("insert", Len(log)) PROVE x \in page.tuples
    BY DEF HeapKept
  <2>1. Len(log) \in Nat /\ Replayed = Len(log) + 1
    BY DEF ControlInv, LogOK, Replayed, Replaying, Up
  <2>2. PICK i \in 1..Len(log) : log[i].kind = "insert" /\ log[i].xid = x
    BY HasRecords DEF Has
  <2>3. i < Replayed
    BY <2>1, <2>2
  <2> QED BY <2>2, <2>3 DEF BroughtInv, PageBrings, Brings
<1> QED BY <1>1, SpecBrought, PTL
=============================================================================
