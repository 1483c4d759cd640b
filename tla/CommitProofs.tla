----------------------------- MODULE CommitProofs -----------------------------
(* What pg_xact says of a transaction after any sequence of checkpoints, evictions  *)
(* and crashes, what hints on the data page may say, and that no status is set over *)
(* another one.                                                                     *)
EXTENDS DurabilityProofs

(* --- The inductive invariant ------------------------------------------------------ *)

(* A transaction whose commit record is in the log and whose mark in pg_xact is not made yet. *)
Committing(b) == my[b].kind \in {"sync", "async"} /\ Phase(b) \in {"flush", "setStatus", "failed"}
Redoing == Phase(Startup) = "setStatus" /\ my[Startup].kind = "commit"
Marking(x) == (\E b \in Backends : Committing(b) /\ my[b].xid = x) \/ (Redoing /\ my[Startup].xid = x)

(* No two transactions have the same id, and none ends twice; the record of a zeroed page comes     *)
(* before those of the transactions on it.                                                       *)
ZeroFirst(l) ==
  \A i, j \in 1..Len(l) :
    l[i].kind = "zero" /\ l[j].kind \in Traces /\ TransactionIdToPage(l[j].xid) = l[i].xid => i < j
EndOnce(l) == \A i, j \in 1..Len(l) : l[i].kind \in Ending /\ l[j].kind \in Ending /\ l[i].xid = l[j].xid => i = j
Unended(l, x) == \A i \in 1..Len(l) : l[i].kind \in Ending => l[i].xid # x
Uncommitted(l, x) == \A i \in 1..Len(l) : l[i].kind = "commit" => l[i].xid # x

OrderOK ==
  /\ ZeroFirst(log) /\ EndOnce(log)
  /\ \A b \in Backends :
       /\ Phase(b) \in {"insert", "logInsert", "end"} => Unended(log, my[b].xid)
       /\ my[b].kind = "abort" => Uncommitted(log, my[b].xid)
       /\ my[b].kind \in Updates => \A c \in Backends : my[c].kind \in Updates /\ my[c].xid = my[b].xid => c = b

(* A checkpoint passes no commit record whose mark is still to be made: wait_for_delay_chkpt. *)
Waited == Phase(Checkpointer) \in {"ckXact", "ckBuffer", "heapWrite", "heapWritten", "ckSync", "ckRecord", "ckControl"}
DelayOK ==
  /\ \A b \in Backends : Committing(b) =>
       /\ b \in delayChkpt
       /\ my[b].lsn \in 1..Len(log) /\ log[my[b].lsn].kind = "commit" /\ log[my[b].lsn].xid = my[b].xid
       /\ controlFile.redo <= my[b].lsn
       /\ Waited => checkPoint.redo <= my[b].lsn
  /\ Phase(Startup) = "setStatus" => controlFile.redo < replay
  /\ Phase(Checkpointer) \in {"ckNextXid", "ckDelay"} => checkPoint.pages = Pages

(* A page that is clean is as its file, or is one that recovery took for zeroes. *)
AsFile(pg) == xactFile[pg] = slot[pg].bits \/ (xactFile[pg] = None /\ \A x \in On(pg) : slot[pg].bits[x] # "committed")
CleanOK(pg) ==
  /\ slot[pg].status = "valid" /\ ~slot[pg].dirty => AsFile(pg)
  /\ \A p \in Everyone : at[p] = "xactWritten" /\ io[p].page = pg /\ ~slot[pg].dirty => AsFile(pg)

(* Every commit that recovery has passed shows in pg_xact, or is about to. *)
MarkedOK ==
  at[Startup] # "failed" =>
    \A i \in 1..Len(log) : i < Replayed /\ log[i].kind = "commit" =>
      StatusOf(log[i].xid) = "committed" \/ Marking(log[i].xid)

(* The commits before the n-th record show in the contents of a page. *)
Shows(l, n, pg, bits) ==
  \A i \in 1..Len(l) : i < n /\ l[i].kind = "commit" /\ TransactionIdToPage(l[i].xid) = pg =>
    bits # None /\ bits[l[i].xid] = "committed"

Visited(pg) ==
  \/ Phase(Checkpointer) = "ckXact" /\ pg \notin checkPoint.pages
  \/ Phase(Checkpointer) \in {"ckBuffer", "heapWrite", "heapWritten", "ckSync"}

(* What a crash may leave has all that replay does not bring back, for the redo point in the control  *)
(* file and, once the checkpoint has been there, for the checkpoint's own.                          *)
KeptOK(pg) ==
  /\ \A bits \in xactKept[pg] : Shows(log, controlFile.redo, pg, bits)
  /\ Visited(pg) =>
       /\ Shows(log, checkPoint.redo, pg, xactFile[pg])
       /\ pg \in pending \/ \A bits \in xactKept[pg] : Shows(log, checkPoint.redo, pg, bits)
  /\ Phase(Checkpointer) \in {"ckRecord", "ckControl"} => \A bits \in xactKept[pg] : Shows(log, checkPoint.redo, pg, bits)
  /\ \/ xactKept[pg] = {xactFile[pg]}
     \/ pg \in pending
     \/ \E p \in Everyone : at[p] = "xactWritten" /\ io[p].page = pg

CommitInv ==
  /\ OrderOK /\ DelayOK /\ MarkedOK
  /\ \A pg \in Pages : CleanOK(pg) /\ KeptOK(pg)

(* A transaction that is over and has not committed. *)
Gone(x) == Uncommitted(log, x) /\ \A b \in Backends : my[b].kind \in Updates => my[b].xid # x

(* Nobody looks up a transaction that still runs, and a hint says invalid only of one that is gone. *)
HintInv ==
  /\ page.invalid \subseteq page.tuples /\ \A x \in page.invalid : Gone(x)
  /\ \A c \in heapKept : c.invalid \subseteq c.tuples /\ \A x \in c.invalid : Gone(x)
  /\ \A b \in Backends : my[b].kind \in Lookups => \A c \in Backends : my[c].kind \in Updates => my[c].xid # my[b].xid
  /\ \A b \in Backends : Phase(b) = "hint" /\ my[b].status # "committed" => Gone(my[b].xid)

(* --- What becomes of a page of pg_xact -------------------------------------------------------- *)

Kept(q) == slot'[q] = slot[q]
Dropped(q) == slot[q].status = "valid" /\ ~slot[q].dirty /\ slot'[q].status = "empty"
Marked(q) ==
  /\ slot[q].status \in {"valid", "writing"} /\ slot'[q].status = slot[q].status /\ slot'[q].dirty
  /\ \E p \in Backends \union {Startup} :
       /\ SetBit(p) /\ my[p].xid \in On(q)
       /\ slot'[q].bits = [slot[q].bits EXCEPT ![my[p].xid] = NewStatus(p)]
ReadIn(q) ==
  /\ slot[q].status = "reading" /\ slot'[q].status = "valid" /\ ~slot'[q].dirty
  /\ \/ xactFile[q] # None /\ slot'[q].bits = xactFile[q]
     \/ xactFile[q] = None /\ slot'[q].bits = Zeroes(q)
ToRead(q) ==
  /\ slot[q].status = "empty" /\ slot'[q].status = "reading"
  /\ \E p \in Backends \union {Startup} : BeginRead(p, q)
Written(q) ==
  /\ slot[q].status = "writing" /\ slot'[q].status = "valid" /\ slot'[q].dirty = slot[q].dirty /\ slot'[q].bits = slot[q].bits
  /\ \E r \in Everyone : SlruWritten(r) /\ at[r] = "xactWritten" /\ io[r].page = q
ToWrite(q) == slot[q].status = "valid" /\ slot'[q].status = "writing" /\ slot'[q].bits = slot[q].bits
NotWritten(q) ==
  /\ slot[q].status = "writing" /\ slot'[q].bits = slot[q].bits
  /\ (slot'[q].status = "valid" /\ slot'[q].dirty) \/ (slot'[q].status = "writing" /\ slot'[q].dirty = slot[q].dirty)
Zeroed(q) ==
  /\ slot'[q].status = "valid" /\ slot'[q].dirty /\ slot'[q].bits = Zeroes(q)
  /\ (\E b \in Backends : ZeroNext(b) /\ q = TransactionIdToPage(nextXid)) \/ (RedoZero /\ q = log[replay].xid)
Cut(q) ==
  /\ EndReplay /\ slot[q].status = "valid" /\ slot'[q].status = "valid" /\ slot'[q].dirty
  /\ \A y \in On(q) : slot'[q].bits[y] = IF y < nextXid THEN slot[q].bits[y] ELSE "inProgress"

(* Every step leaves a page of pg_xact alone or is one of these for it. *)
LEMMA SlotFate ==
  ASSUME ControlInv, BufferLockOK, Move, ~Crash, NEW q \in Pages
  PROVE  Kept(q) \/ Dropped(q) \/ Marked(q) \/ ReadIn(q) \/ ToRead(q) \/ Written(q) \/ ToWrite(q) \/ NotWritten(q) \/ Zeroed(q) \/ Cut(q)
<1> USE Names DEF ControlInv
<1>1. CASE Evicted(q)
  BY <1>1, EmptySlot DEF Evicted, Dropped
<1>2. ASSUME NEW p \in Backends \union {Startup}, SetBit(p), q = TransactionIdToPage(my[p].xid) PROVE Marked(q)
  BY <1>2, SetBitEffect DEF Marked
<1>3. ASSUME NEW p \in Backends \union {Startup}, SlruPhysicalReadPage(p), q = io[p].page PROVE Kept(q) \/ ReadIn(q)
  <2>0. slot[q].status = "reading"
    BY <1>3 DEF SlruPhysicalReadPage, BufferLockOK
  <2>1. CASE slot' = PageRead(q, xactFile[q]) /\ xactFile[q] # None
    <3>1. xactFile[q] \in [On(q) -> Status]
      BY <2>1 DEF FilesOK
    <3>2. /\ SlotOK' /\ OthersSame(q)
          /\ slot'[q].status = "valid" /\ slot'[q].dirty = FALSE /\ slot'[q].bits = xactFile[q]
          /\ slot'[q].lsn = 0 /\ slot'[q].io = None
      BY <2>1, <3>1, PageReadEffect
    <3> QED BY <2>0, <2>1, <3>2 DEF ReadIn
  <2>2. CASE slot' = PageRead(q, Zeroes(q)) /\ xactFile[q] = None
    <3>1. Zeroes(q) \in [On(q) -> Status]
      BY EmptySlot
    <3>2. /\ SlotOK' /\ OthersSame(q)
          /\ slot'[q].status = "valid" /\ slot'[q].dirty = FALSE /\ slot'[q].bits = Zeroes(q)
          /\ slot'[q].lsn = 0 /\ slot'[q].io = None
      BY <2>2, <3>1, PageReadEffect
    <3> QED BY <2>0, <2>2, <3>2 DEF ReadIn
  <2>3. CASE UNCHANGED slot
    BY <2>3 DEF Kept
  <2> QED BY <1>3, <2>1, <2>2, <2>3 DEF SlruPhysicalReadPage
<1>4. ASSUME NEW p \in Backends \union {Startup}, BeginRead(p, q) PROVE ToRead(q)
  <2>1. p \in Everyone /\ ReadStart(p, q)
    BY <1>4 DEF BeginRead
  <2>2. /\ SlotOK' /\ OthersStay(q) /\ slot[q].status = "empty"
        /\ slot'[q].status = "reading" /\ slot'[q].dirty = FALSE /\ slot'[q].bits = Zeroes(q)
        /\ slot'[q].lsn = 0 /\ slot'[q].io = p
    BY <2>1, ReadStartEffect
  <2> QED BY <1>4, <2>2 DEF ToRead
<1>5. ASSUME NEW p \in Everyone \ {BgWriter}, SlruWritten(p), q = io[p].page PROVE Written(q)
  <2>1. WriteEnd(q) /\ at[p] = "xactWritten"
    BY <1>5 DEF SlruWritten
  <2>2. slot[q].status = "writing"
    BY <1>5, <2>1 DEF BufferLockOK
  <2> QED BY <1>5, <2>1, <2>2, WriteEndEffect DEF Written
<1>6. ASSUME NEW p \in Everyone \ {BgWriter}, NEW back \in Backs, BeginWrite(p, q, back) PROVE ToWrite(q)
  <2>1. WriteStart(p, q)
    BY <1>6 DEF BeginWrite
  <2> QED BY <2>1, WriteStartEffect DEF ToWrite
<1>7. ASSUME TakeOver(q) PROVE NotWritten(q)
  <2>1. Repair(q) /\ slot[q].status = "writing"
    BY <1>7 DEF TakeOver, AbandonedIO
  <2> QED BY <2>1, RepairEffect DEF NotWritten
<1>8. ASSUME SlruWriteFailed, q = io[Checkpointer].page PROVE NotWritten(q)
  <2>1. WriteFails(q) /\ at[Checkpointer] = "xactWrite"
    BY <1>8 DEF SlruWriteFailed
  <2>2. slot[q].status = "writing"
    BY <1>8, <2>1 DEF BufferLockOK
  <2> QED BY <2>1, <2>2, WriteFailsEffect DEF NotWritten
<1>9. ASSUME SimpleLruZeroPage(q) PROVE slot'[q].status = "valid" /\ slot'[q].dirty /\ slot'[q].bits = Zeroes(q)
  BY <1>9, ZeroPageEffect
<1>10. (\E b \in Backends : ZeroNext(b) /\ q = TransactionIdToPage(nextXid)) \/ (RedoZero /\ q = log[replay].xid) => Zeroed(q)
  <2>1. (\E b \in Backends : ZeroNext(b) /\ q = TransactionIdToPage(nextXid)) \/ (RedoZero /\ q = log[replay].xid) => SimpleLruZeroPage(q)
    BY DEF ZeroNext, RedoZero
  <2> QED BY <1>9, <2>1 DEF Zeroed
<1>11. ASSUME EndReplay, ~FirstOnPage(nextXid), q = TransactionIdToPage(nextXid) PROVE Cut(q)
  <2>1. SlotOK /\ slot' = Trimmed(slot, nextXid) /\ nextXid \in NextXids /\ slot[q].status = "valid"
    BY <1>11 DEF EndReplay, TrimmedSlots, XidGenOK, Usable
  <2> HIDE Names DEF ControlInv
  <2>2. /\ SlotOK' /\ OthersSame(q)
        /\ slot'[q].status = slot[q].status /\ slot'[q].dirty = TRUE
        /\ \A y \in On(q) : slot'[q].bits[y] = IF y < nextXid THEN slot[q].bits[y] ELSE "inProgress"
        /\ slot'[q].lsn = slot[q].lsn /\ slot'[q].io = slot[q].io
    BY <1>11, <2>1, TrimmedEffect
  <2> QED BY <1>11, <2>1, <2>2 DEF Cut
<1>12. SlotMove(q) => Kept(q) \/ Marked(q) \/ ReadIn(q) \/ ToRead(q) \/ Written(q) \/ ToWrite(q) \/ NotWritten(q) \/ Zeroed(q) \/ Cut(q)
  BY <1>2, <1>3, <1>4, <1>5, <1>6, <1>7, <1>8, <1>10, <1>11 DEF SlotMove
<1>13. slot'[q] = slot[q] \/ Evicted(q) \/ SlotMove(q)
  BY SlotChange
<1> QED BY <1>1, <1>12, <1>13 DEF Kept

(* The file of a page changes under the page's own I/O only. *)
LEMMA FileFate ==
  ASSUME ControlInv, BufferLockOK, Move, ~Crash, NEW q \in Pages
  PROVE  \/ xactFile'[q] = xactFile[q]
         \/ \E p \in Everyone : /\ at[p] = "xactWrite" /\ io[p].page = q /\ at'[p] = "xactWritten" /\ SlruWrite(p)
                                /\ slot[q].status = "writing" /\ slot[q].io = p /\ slot' = slot /\ xactFile'[q] = slot[q].bits
<1> USE Names DEF ControlInv
<1>1. ASSUME NEW p \in Everyone \ {BgWriter}, SlruWrite(p), xactFile'[q] # xactFile[q]
      PROVE  /\ at[p] = "xactWrite" /\ io[p].page = q /\ at'[p] = "xactWritten"
             /\ slot[q].status = "writing" /\ slot[q].io = p /\ slot' = slot /\ xactFile'[q] = slot[q].bits
  <2>1. at[p] = "xactWrite" /\ slot' = slot /\ xactFile' = [xactFile EXCEPT ![io[p].page] = slot[io[p].page].bits]
    BY <1>1 DEF SlruWrite, PhysicalWrite
  <2>2. io[p].page = q
    BY <1>1, <2>1 DEF FilesOK
  <2>3. xactFile'[q] = slot[q].bits
    BY <2>1, <2>2 DEF FilesOK
  <2>4. at'[p] = "xactWritten"
    BY <1>1, WritePhases
  <2> QED BY <2>1, <2>2, <2>3, <2>4 DEF BufferLockOK
<1>2. ProcessSyncRequests => UNCHANGED xactFile
  BY DEF ProcessSyncRequests
<1> QED BY <1>1, <1>2, FileChange

(* A clean page is as its file: a page is marked clean before it is written, and a change during the  *)
(* write marks it dirty again.                                                                     *)
LEMMA CleanStep ==
  ASSUME ControlInv, BufferLockOK, Move, NEW q \in Pages, CleanOK(q)
  PROVE  CleanOK(q)'
<1> USE Names DEF ControlInv
<1>1. CASE Crash
  <2>1. slot'[q] = Empty(q) /\ \A p \in Everyone : at'[p] # "xactWritten"
    BY <1>1, CrashPhases DEF Crash, SlruCrash, IOStates
  <2> QED BY <2>1, EmptySlot DEF CleanOK
<1> SUFFICES ASSUME ~Crash PROVE CleanOK(q)'
  BY <1>1
<1>2. ASSUME xactFile'[q] = xactFile[q], slot'[q].bits = slot[q].bits, AsFile(q) PROVE AsFile(q)'
  BY <1>2 DEF AsFile
<1>3. slot'[q].status = "valid" /\ ~slot'[q].dirty => AsFile(q)'
  <2>1. CASE slot' = slot /\ slot[q].status = "writing"
    BY <2>1
  <2> SUFFICES ASSUME xactFile'[q] = xactFile[q], slot'[q].status = "valid", ~slot'[q].dirty PROVE AsFile(q)'
    BY <2>1, FileFate
  <2>2. CASE Kept(q)
    BY <1>2, <2>2 DEF Kept, CleanOK
  <2>3. CASE ReadIn(q)
    BY <2>3, EmptySlot DEF ReadIn, AsFile
  <2>4. CASE Written(q)
    BY <1>2, <2>4 DEF Written, CleanOK
  <2> QED BY <2>2, <2>3, <2>4, SlotFate DEF Dropped, Marked, ToRead, ToWrite, NotWritten, Zeroed, Cut
<1>4. ASSUME NEW p \in Everyone, at'[p] = "xactWritten", io'[p].page = q, ~slot'[q].dirty PROVE AsFile(q)'
  <2>1. (at[p] = "xactWritten" /\ io[p].page = q) \/ (SlruWrite(p) /\ io[p].page = q)
    BY <1>4, IOChange DEF IOStates
  <2>2. CASE SlruWrite(p) /\ io[p].page = q
    <3>1. xactFile' = [xactFile EXCEPT ![q] = slot[q].bits] /\ slot' = slot
      BY <2>2 DEF SlruWrite, PhysicalWrite
    <3> QED BY <3>1 DEF AsFile, FilesOK
  <2>3. CASE at[p] = "xactWritten" /\ io[p].page = q
    <3>1. slot[q].status = "writing" /\ slot[q].io = p
      BY <2>3 DEF BufferLockOK
    <3>2. xactFile'[q] = xactFile[q]
      BY <2>3, <3>1, FileFate
    <3>3. Kept(q) \/ Written(q) \/ NotWritten(q)
      BY <1>4, <3>1, SlotFate DEF Dropped, Marked, ReadIn, ToRead, ToWrite, Zeroed, Cut
    <3>4. slot'[q].bits = slot[q].bits /\ ~slot[q].dirty
      BY <1>4, <3>3, <3>1 DEF Kept, Written, NotWritten
    <3> QED BY <1>2, <2>3, <3>2, <3>4 DEF CleanOK
  <2> QED BY <2>1, <2>2, <2>3
<1> QED BY <1>3, <1>4 DEF CleanOK

(* --- What becomes of a transaction, and of the log ---------------------------------------------- *)

Stays(b) == my'[b] = my[b] /\ Phase(b)' = Phase(b)
Fails(b) == my'[b] = my[b] /\ Phase(b) \in {"idle", "setStatus", "getStatus", "failed"} /\ Phase(b)' = "failed"
Advances(b) ==
  /\ my'[b] = my[b]
  /\ \/ Phase(b) = "idle" /\ Phase(b)' = "extended"
     \/ Phase(b) = "insert" /\ Phase(b)' = "logInsert"
     \/ Phase(b) = "logInsert" /\ Phase(b)' = "end"
     \/ Phase(b) = "flush" /\ Phase(b)' = "setStatus"
     \/ Phase(b) = "hint" /\ Phase(b)' = "markDirty"
GivesUp(b) ==
  /\ InsertFails(b) /\ Phase(b) = "insert" /\ Phase(b)' = "end" /\ log' = log
  /\ my[b].kind \in Updates /\ my'[b].kind = "abort" /\ my'[b].xid = my[b].xid
IsMarked(b) == SetBit(b) /\ my'[b] = my[b] /\ Phase(b) = "setStatus" /\ Phase(b)' = "done"
Begins(b) ==
  /\ GetNewTransactionId(b) /\ Phase(b) \in {"idle", "extended"} /\ Phase(b)' = "insert" /\ log' = log
  /\ my'[b].kind \in Updates /\ my'[b].xid = nextXid /\ nextXid' = nextXid + 1
Ends(b) ==
  /\ LogEnd(b) /\ Phase(b) = "end" /\ Phase(b)' \in {"flush", "setStatus"}
  /\ my'[b].kind = my[b].kind /\ my'[b].xid = my[b].xid /\ my'[b].lsn = Len(log) + 1
Leaves(b) == my'[b].kind = None /\ Phase(b) \in {"done", "hint", "markDirty"} /\ Phase(b)' = "idle"
Scans(b) ==
  /\ Scan(b) /\ Phase(b) = "idle" /\ Phase(b)' = "getStatus"
  /\ my'[b].kind \in Lookups /\ my'[b].xid \notin Running
LooksUp(b) ==
  /\ ReadBit(b) /\ Phase(b) = "getStatus" /\ Phase(b)' = "hint"
  /\ my'[b].kind = my[b].kind /\ my'[b].xid = my[b].xid
  /\ my'[b].status = slot[TransactionIdToPage(my[b].xid)].bits[my[b].xid]

(* A backend fails when a page of pg_xact that it wants is not there. *)
LEMMA FailsReading ==
  ASSUME ControlInv, Move, ~Crash, NEW b \in Backends, ~BackendMove(b), Phase(b)' = "failed"
  PROVE  Phase(b) \in {"idle", "setStatus", "getStatus", "failed"}
<1> USE Names DEF ControlInv
<1> SUFFICES ASSUME Phase(b)' # Phase(b) PROVE Phase(b) \in {"idle", "setStatus", "getStatus"}
  OBVIOUS
<1>1. ASSUME NEW c \in Backends, BackendMove(c) PROVE FALSE
  BY <1>1, BackendPhases DEF OthersThere
<1>2. ASSUME NEW p \in Backends \union {Startup},
             SetBit(p) \/ SlruPhysicalReadPage(p) \/ (\E pg \in Pages : BeginRead(p, pg))
      PROVE  at[b] = "xactRead"
  BY <1>2, SetBitPhases, ReadPhases, BeginReadPhases DEF OthersThere
<1>3. ASSUME NEW p \in Everyone \ {BgWriter},
             SlruWrite(p) \/ SlruWritten(p) \/ (\E pg \in Pages, back \in Backs : BeginWrite(p, pg, back))
      PROVE  at[b] = "xactRead"
  BY <1>3, WritePhases, WrittenPhases, BeginWritePhases DEF OthersThere
<1>4. ASSUME NEW pg \in Pages, TakeOver(pg) PROVE FALSE
  BY <1>4 DEF TakeOver, Phase
<1>5. ASSUME NEW p \in {BgWriter, Checkpointer}, BeginFlush(p) \/ HeapWrite(p) \/ HeapWritten(p) PROVE FALSE
  BY <1>5, HeapIOPhases DEF OthersThere
<1>6. ~CheckpointerMove /\ ~StartupMove /\ ~Nothing
  BY CheckpointerPhases, StartupPhases DEF Nothing, Phase
<1>7. at[b] = "xactRead"
  BY <1>1, <1>2, <1>3, <1>4, <1>5, <1>6 DEF Move, SharedMove
<1> QED BY <1>7 DEF Phase, IOOK, IOStates

(* Every step leaves a transaction alone or is one of these for it. *)
LEMMA XactFate ==
  ASSUME ControlInv, Move, ~Crash, NEW b \in Backends
  PROVE  \/ Stays(b) \/ Fails(b) \/ Advances(b) \/ IsMarked(b) \/ Begins(b) \/ Ends(b) \/ Leaves(b) \/ Scans(b)
         \/ LooksUp(b) \/ GivesUp(b)
<1> USE Names DEF ControlInv
<1>1. ASSUME ~BackendMove(b), my'[b] = my[b], Phase(b)' \in {Phase(b), "failed"} PROVE Stays(b) \/ Fails(b)
  BY <1>1, FailsReading DEF Stays, Fails
<1>2. ASSUME SetBit(b) PROVE IsMarked(b)
  <2>1. UNCHANGED my
    BY <1>2 DEF SetBit, AllButIO
  <2> QED BY <1>2, <2>1, SetBitPhases DEF IsMarked
<1>3. ASSUME BackendMove(b)
      PROVE  Stays(b) \/ Advances(b) \/ Begins(b) \/ Ends(b) \/ Leaves(b) \/ Scans(b) \/ LooksUp(b) \/ GivesUp(b)
  <2>0. Phase(b) = at[b] /\ Phase(b)' = at'[b]
    BY <1>3, BackendPhases
  <2>1. MyOK /\ AtOK /\ b \in Everyone /\ my \in [Everyone -> MyType] /\ my[b] \in MyType
    BY DEF MyOK
  <2>a. ASSUME NEW where, Goto(b, where) PROVE Phase(b)' = where
    BY <2>a, <2>0, <2>1, GotoOnly
  <2>2. CASE ZeroNext(b) \/ InsertTuple(b) \/ LogInsert(b) \/ FlushCommit(b)
    <3>1. UNCHANGED my
      BY <2>2 DEF ZeroNext, InsertTuple, LogInsert, FlushCommit, AllButIO
    <3>2. ZeroNext(b) => Phase(b) = "idle" /\ Phase(b)' = "extended"
      BY <2>0, <2>a DEF ZeroNext, Starts
    <3>3. InsertTuple(b) => Phase(b) = "insert" /\ Phase(b)' = "logInsert"
      BY <2>0, <2>a DEF InsertTuple
    <3>4. LogInsert(b) => Phase(b) = "logInsert" /\ Phase(b)' = "end"
      BY <2>0, <2>a DEF LogInsert
    <3>5. FlushCommit(b) => Phase(b) = "flush" /\ Phase(b)' = "setStatus"
      BY <2>0, <2>a DEF FlushCommit
    <3> QED BY <2>2, <3>1, <3>2, <3>3, <3>4, <3>5 DEF Advances
  <2>3. CASE GetNewTransactionId(b)
    <3>1. Phase(b)' = "insert" /\ log' = log /\ Phase(b) \in {"idle", "extended"} /\ nextXid' = nextXid + 1
      BY <2>0, <2>3, <2>a DEF GetNewTransactionId, walVars, Starts
    <3>2. Head(todo[b]) \in Updates /\ nextXid \in Ids
      <4>1. Head(todo[b]) \in Updates
        BY <2>3 DEF GetNewTransactionId, Starts, XidGenOK
      <4>2. nextXid \in Nat
        BY SlruConstants DEF XidGenOK, NextXids
      <4> QED BY <4>1, <4>2 DEF Ids
    <3> DEFINE new == [my[b] EXCEPT !.kind = Head(todo[b]), !.xid = nextXid]
    <3>3. new \in MyType /\ new.kind \in Updates /\ new.xid = nextXid
      BY <2>1, <3>2 DEF MyType, Kinds, Updates
    <3>4. my' = [my EXCEPT ![b] = new]
      BY <2>1, <2>3 DEF GetNewTransactionId
    <3> HIDE DEF new
    <3>5. my'[b] = new
      BY <2>1, <3>3, <3>4, OneXact
    <3> QED BY <2>3, <3>1, <3>3, <3>5 DEF Begins
  <2>4. CASE LogEnd(b)
    <3>1. Phase(b) = "end" /\ Phase(b)' \in {"flush", "setStatus"}
      BY <2>0, <2>4, <2>a DEF LogEnd
    <3> DEFINE new == [my[b] EXCEPT !.lsn = Len(log) + 1]
    <3>2. new \in MyType /\ new.kind = my[b].kind /\ new.xid = my[b].xid /\ new.lsn = Len(log) + 1
      <4>1. Len(log) + 1 \in Nat
        BY DEF LogOK
      <4> QED BY <2>1, <4>1 DEF MyType
    <3>3. my' = [my EXCEPT ![b] = new]
      BY <2>1, <2>4 DEF LogEnd
    <3> HIDE DEF new
    <3>4. my'[b] = new
      BY <2>1, <3>2, <3>3, OneXact
    <3> QED BY <2>4, <3>1, <3>2, <3>4 DEF Ends
  <2>5. ASSUME my' = [my EXCEPT ![b] = NoXact[b]], Goto(b, "idle"), Phase(b) \in {"done", "hint", "markDirty"} PROVE Leaves(b)
    <3>1. my'[b].kind = None
      BY <2>1, <2>5, OneXact, NoXactType
    <3>2. Phase(b)' = "idle"
      BY <2>5, <2>a
    <3> QED BY <2>5, <3>1, <3>2 DEF Leaves
  <2>6. CASE EndTransaction(b)
    BY <2>0, <2>5, <2>6 DEF EndTransaction
  <2>7. CASE Scan(b)
    <3>1. Phase(b)' = "getStatus" /\ Phase(b) = "idle"
      BY <2>0, <2>7, <2>a DEF Scan, Starts
    <3>2. PICK kind \in Lookups, x \in Xids : x \notin Running /\ my' = [my EXCEPT ![b].kind = kind, ![b].xid = x]
      <4>1. \A kind \in Lookups : Unhinted(kind) \subseteq Xids
        BY DEF Unhinted, HeapOK, Content
      <4> QED BY <2>7, <4>1 DEF Scan, Lookups, InProgress
    <3> DEFINE new == [my[b] EXCEPT !.kind = kind, !.xid = x]
    <3>3. new \in MyType /\ new.kind = kind /\ new.xid = x
      <4>1. x \in Ids /\ kind \in Kinds
        BY PageOfXid DEF Ids, Kinds, Lookups
      <4> QED BY <2>1, <4>1 DEF MyType
    <3>4. my' = [my EXCEPT ![b] = new]
      BY <2>1, <3>2
    <3> HIDE DEF new
    <3>5. my'[b] = new
      BY <2>1, <3>3, <3>4, OneXact
    <3> QED BY <2>7, <3>1, <3>2, <3>3, <3>5 DEF Scans
  <2>8. CASE ScanNothing(b)
    BY <2>8 DEF ScanNothing, Stays, Phase
  <2>9. CASE ReadBit(b)
    <3>1. Phase(b)' = "hint" /\ Phase(b) = "getStatus"
      BY <2>0, <2>9, <2>a DEF ReadBit
    <3>2. my[b].xid \in Xids /\ TransactionIdToPage(my[b].xid) \in Pages /\ my[b].xid \in On(TransactionIdToPage(my[b].xid))
      BY <2>0, <3>1, XidToMark, PageOfXid
    <3>3. PICK st, lsn : st = slot[TransactionIdToPage(my[b].xid)].bits[my[b].xid] /\ lsn = slot[TransactionIdToPage(my[b].xid)].lsn
      OBVIOUS
    <3>4. st \in Status /\ lsn \in Nat
      BY <3>2, <3>3 DEF SlotOK, SlotType
    <3> DEFINE new == [my[b] EXCEPT !.status = st, !.lsn = lsn]
    <3>5. new \in MyType /\ new.kind = my[b].kind /\ new.xid = my[b].xid /\ new.status = st
      BY <2>1, <3>4 DEF MyType
    <3>6. my' = [my EXCEPT ![b] = new]
      BY <2>1, <2>9, <3>3 DEF ReadBit
    <3> HIDE DEF new
    <3>7. my'[b] = new
      BY <2>1, <3>5, <3>6, OneXact
    <3> QED BY <2>9, <3>1, <3>3, <3>5, <3>7 DEF LooksUp
  <2>10. CASE SetHintBits(b)
    <3>1. CASE HintSafe(b)
      <4>1. Phase(b)' = "markDirty" /\ Phase(b) = "hint" /\ UNCHANGED my
        BY <2>0, <2>10, <2>a, <3>1 DEF SetHintBits
      <4> QED BY <4>1 DEF Advances
    <3>2. CASE ~HintSafe(b)
      BY <2>0, <2>5, <2>10, <3>2 DEF SetHintBits
    <3> QED BY <3>1, <3>2
  <2>11. CASE MarkBufferDirtyHint(b)
    BY <2>0, <2>5, <2>11 DEF MarkBufferDirtyHint
  <2>12. CASE InsertFails(b)
    <3>1. Phase(b)' = "end" /\ Phase(b) = "insert" /\ log' = log
      BY <2>0, <2>12, <2>a DEF InsertFails, walVars
    <3> DEFINE new == [my[b] EXCEPT !.kind = "abort"]
    <3>2. new \in MyType /\ new.kind = "abort" /\ new.xid = my[b].xid
      BY <2>1 DEF MyType, Kinds, Updates
    <3>3. my' = [my EXCEPT ![b] = new]
      BY <2>1, <2>12 DEF InsertFails
    <3> HIDE DEF new
    <3>4. my'[b] = new
      BY <2>1, <3>2, <3>3, OneXact
    <3>5. my[b].kind \in Updates
      BY <2>1, <3>1 DEF MyOK, XactOK
    <3> QED BY <2>12, <3>1, <3>2, <3>4, <3>5 DEF GivesUp
  <2> QED BY <1>3, <2>2, <2>3, <2>4, <2>6, <2>7, <2>8, <2>9, <2>10, <2>11, <2>12 DEF BackendMove
<1> QED BY <1>1, <1>2, <1>3, Bystanders

(* The log as any step leaves it: a crash cuts it off, and otherwise there is at most one record more. *)
LEMMA LogFate ==
  ASSUME ControlInv, Move
  PROVE  /\ Len(log) \in Nat /\ Len(log') \in Nat
         /\ \/ Len(log') <= Len(log) /\ \A i \in 1..Len(log') : i \in 1..Len(log) /\ log'[i] = log[i]
            \/ /\ ~Crash /\ Len(log') = Len(log) + 1 /\ NewRecord(log'[Len(log) + 1])
               /\ \A i \in 1..Len(log') : (i \in 1..Len(log) /\ log'[i] = log[i]) \/ i = Len(log) + 1
<1>0. Len(log) \in Nat /\ Len(log') \in Nat
  BY DurableStays
<1>1. CASE Crash
  <2>1. PICK k \in durable..Len(log) : Lose(k)
    BY <1>1 DEF Crash
  <2>2. Len(log') = k /\ k <= Len(log) /\ \A i \in 1..k : i \in 1..Len(log) /\ log'[i] = log[i]
    BY <2>1, LoseEffect DEF ControlInv
  <2> QED BY <1>0, <2>2
<1>2. CASE ~Crash /\ log' = log
  BY <1>0, <1>2
<1>3. CASE ~Crash /\ log' # log
  <2>1. \A i \in 1..Len(log) : log'[i] = log[i]
    BY <1>3, LogStep DEF Grows
  <2>2. /\ Len(log') = Len(log) + 1 /\ NewRecord(log'[Len(log) + 1])
        /\ \A i \in 1..Len(log') : i \in 1..Len(log) \/ i = Len(log) + 1
    BY <1>3, LogChange
  <2> QED BY <1>0, <1>3, <2>1, <2>2
<1> QED BY <1>1, <1>2, <1>3

KeepsXid(b) ==
  /\ my'[b].xid = my[b].xid /\ (my'[b].kind \in Updates <=> my[b].kind \in Updates)
  /\ my'[b].kind = my[b].kind \/ GivesUp(b)

(* The transaction of a backend is the one it was, a new one, or none. *)
LEMMA XidFate ==
  ASSUME ControlInv, Move, NEW b \in Backends
  PROVE  my'[b].kind \notin Updates \/ (~Crash /\ KeepsXid(b)) \/ (~Crash /\ Begins(b))
<1>1. CASE Crash
  <2>1. my'[b].kind = None
    BY <1>1, NoXactType, Names DEF Crash
  <2> QED BY <2>1, DurabilityConstants DEF Updates
<1>2. CASE ~Crash
  <2>1. None \notin Updates /\ "abort" \in Updates /\ \A kind \in Lookups : kind \notin Updates
    BY DurabilityConstants DEF Updates, Lookups
  <2>2. GivesUp(b) => KeepsXid(b)
    BY <2>1 DEF GivesUp, KeepsXid
  <2> QED BY <1>2, <2>1, <2>2, XactFate DEF KeepsXid, Stays, Fails, Advances, IsMarked, Ends, Leaves, Scans, LooksUp
<1> QED BY <1>1, <1>2

(* The end of a transaction is logged by the one backend that runs it. *)
LEMMA NewEnding ==
  ASSUME ControlInv, NEW r, NewRecord(r), r.kind \in Ending
  PROVE  \E b \in Backends : LogEnd(b) /\ r.xid = my[b].xid /\ (r.kind = "abort" <=> my[b].kind = "abort")
BY DEF NewRecord, Ending

\* ExtendCLOG logs the zeroing of the page of the id that is about to be given.
LEMMA NewZero ==
  ASSUME ControlInv, NEW r, NewRecord(r), r.kind = "zero"
  PROVE  \E b \in Backends : ZeroNext(b) /\ r.xid = TransactionIdToPage(nextXid)
BY DEF NewRecord

(* All that the log names while the server is up is below nextXid. *)
LEMMA LogBelow ==
  ASSUME ControlInv, FreshOK, ~Replaying, NEW i \in 1..Len(log), log[i].kind \in Traces
  PROVE  log[i].xid < nextXid
<1>1. i < Len(log) + 1
  BY DEF ControlInv, LogOK
<1> QED BY <1>1 DEF FreshOK, Below, Replayed

(* A page is zeroed before any transaction on it ends. *)
LEMMA ZeroFirstStep ==
  ASSUME ControlInv, FreshOK, OrderOK, Move
  PROVE  ZeroFirst(log')
<1>1. CASE Len(log') <= Len(log) /\ \A i \in 1..Len(log') : i \in 1..Len(log) /\ log'[i] = log[i]
  BY <1>1 DEF OrderOK, ZeroFirst
<1>2. CASE /\ ~Crash /\ Len(log') = Len(log) + 1 /\ NewRecord(log'[Len(log) + 1])
           /\ \A i \in 1..Len(log') : (i \in 1..Len(log) /\ log'[i] = log[i]) \/ i = Len(log) + 1
  <2> SUFFICES ASSUME NEW i \in 1..Len(log'), NEW j \in 1..Len(log'), log'[i].kind = "zero", log'[j].kind \in Traces,
                      TransactionIdToPage(log'[j].xid) = log'[i].xid
               PROVE  i < j
    BY DEF ZeroFirst
  <2>1. i # j /\ Len(log) \in Nat
    BY LogFate DEF Traces
  <2>2. CASE j = Len(log) + 1
    BY <1>2, <2>1, <2>2
  <2>3. CASE i \in 1..Len(log) /\ j \in 1..Len(log)
    BY <1>2, <2>3, LogFate DEF OrderOK, ZeroFirst
  <2>4. CASE i = Len(log) + 1 /\ j \in 1..Len(log)
    <3>0. log'[j] = log[j]
      BY <1>2, <2>1, <2>4
    <3>1. PICK r : r = log'[i]
      OBVIOUS
    <3>2. PICK b \in Backends : ZeroNext(b) /\ r.xid = TransactionIdToPage(nextXid)
      BY <1>2, <2>4, <3>1, NewZero
    <3>3. ~Replaying /\ FirstOnPage(nextXid)
      BY <3>2, WhoRuns DEF ZeroNext, Starts, Up, Replaying
    <3>4. log[j].xid < nextXid /\ log[j].xid \in Xids
      BY <2>4, <3>0, <3>3, LogBelow DEF ControlInv, LogOK
    <3>5. nextXid \in Nat
      BY SlruConstants DEF ControlInv, XidGenOK, NextXids
    <3>6. log[j].xid \in On(TransactionIdToPage(nextXid))
      BY <3>0, <3>1, <3>2, <3>4 DEF On
    <3>7. nextXid <= log[j].xid
      BY <3>3, <3>5, <3>6, FirstIsLeast
    <3>8. log[j].xid \in Nat
      BY <3>4, PageOfXid
    <3> QED BY <3>4, <3>5, <3>7, <3>8
  <2> QED BY <1>2, <2>2, <2>3, <2>4
<1> QED BY <1>1, <1>2, LogFate

(* A transaction ends once. *)
LEMMA EndOnceStep ==
  ASSUME ControlInv, OrderOK, Move
  PROVE  EndOnce(log')
<1>1. CASE Len(log') <= Len(log) /\ \A i \in 1..Len(log') : i \in 1..Len(log) /\ log'[i] = log[i]
  BY <1>1 DEF OrderOK, EndOnce
<1>2. CASE /\ ~Crash /\ Len(log') = Len(log) + 1 /\ NewRecord(log'[Len(log) + 1])
           /\ \A i \in 1..Len(log') : (i \in 1..Len(log) /\ log'[i] = log[i]) \/ i = Len(log) + 1
  <2>1. ASSUME NEW i \in 1..Len(log), log[i].kind \in Ending, log'[Len(log) + 1].kind \in Ending PROVE log[i].xid # log'[Len(log) + 1].xid
    <3>1. PICK r : r = log'[Len(log) + 1]
      OBVIOUS
    <3>2. PICK b \in Backends : LogEnd(b) /\ r.xid = my[b].xid
      BY <1>2, <2>1, <3>1, NewEnding
    <3>3. Phase(b) = "end"
      BY <3>2 DEF LogEnd, Phase, IOStates
    <3>4. Unended(log, my[b].xid)
      BY <3>3 DEF OrderOK
    <3> QED BY <2>1, <3>1, <3>2, <3>4 DEF Unended
  <2> QED BY <1>2, <2>1 DEF OrderOK, EndOnce
<1> QED BY <1>1, <1>2, LogFate

(* What the log does not say of a transaction it says only if the transaction does it. *)
LEMMA UnendedStays ==
  ASSUME ControlInv, Move, NEW x, Unended(log, x), \A c \in Backends : LogEnd(c) => my[c].xid # x
  PROVE  Unended(log', x)
<1>1. ASSUME NEW i \in 1..Len(log'), i = Len(log) + 1, NewRecord(log'[Len(log) + 1]), log'[i].kind \in Ending PROVE log'[i].xid # x
  <2>1. PICK r : r = log'[i]
    OBVIOUS
  <2> QED BY <1>1, <2>1, NewEnding
<1> QED BY <1>1, LogFate DEF Unended

\* A transaction without a commit record has none after a step, unless a backend logs its
\* commit in it.
LEMMA UncommittedStays ==
  ASSUME ControlInv, Move, NEW x, Uncommitted(log, x), \A c \in Backends : LogEnd(c) /\ my[c].kind # "abort" => my[c].xid # x
  PROVE  Uncommitted(log', x)
<1>1. ASSUME NEW i \in 1..Len(log'), i = Len(log) + 1, NewRecord(log'[Len(log) + 1]), log'[i].kind = "commit" PROVE log'[i].xid # x
  <2>1. PICK r : r = log'[i]
    OBVIOUS
  <2>2. r.kind \in Ending /\ r.kind # "abort"
    BY <1>1, <2>1 DEF Ending
  <2> QED BY <1>1, <2>1, <2>2, NewEnding
<1> QED BY <1>1, LogFate DEF Uncommitted

(* A new id is one that the log does not name, and that nobody else has. *)
LEMMA NewXid ==
  ASSUME ControlInv, FreshOK, Move, ~Crash, NEW b \in Backends, Begins(b)
  PROVE  /\ ~Replaying /\ Unended(log', nextXid) /\ Uncommitted(log', nextXid)
         /\ \A c \in Backends : c # b /\ my'[c].kind \in Updates => my'[c].xid # nextXid
<1>0. nextXid \in Nat
  BY SlruConstants DEF ControlInv, XidGenOK, NextXids
<1>1. ~Replaying
  BY WhoRuns DEF Begins, BackendMove, Replaying, Up
<1>2. \A i \in 1..Len(log) : log[i].kind \in Traces => log[i].xid # nextXid
  BY <1>0, <1>1, LogBelow
<1>3. Unended(log', nextXid) /\ Uncommitted(log', nextXid)
  BY <1>2 DEF Begins, Unended, Uncommitted, Traces, Ending
<1>4. ASSUME NEW c \in Backends, c # b, my'[c].kind \in Updates PROVE my'[c].xid # nextXid
  <2>1. Phase(c)' = Phase(c)
    BY <1>4, BackendPhases, Names DEF Begins, BackendMove, OthersThere
  <2>2. ~Begins(c)
    BY <2>1 DEF Begins
  <2>3. KeepsXid(c)
    BY <1>4, <2>2, XidFate
  <2> QED BY <1>0, <1>4, <2>3 DEF KeepsXid, FreshOK
<1> QED BY <1>1, <1>3, <1>4

\* Every step keeps OrderOK: a page is zeroed before its transactions leave records, and nobody
\* ends twice.
LEMMA OrderStep ==
  ASSUME ControlInv, ControlInv', FreshOK, OrderOK, Move
  PROVE  OrderOK'
<1>1. ASSUME NEW b \in Backends, NEW c \in Backends, my[b].kind \in Updates, c # b, LogEnd(c) PROVE my[c].xid # my[b].xid
  <2>1. my[c].kind \in Updates
    BY <1>1 DEF LogEnd, ControlInv, MyOK, XactOK, Phase, IOStates
  <2> QED BY <1>1, <2>1 DEF OrderOK
<1>2. ASSUME NEW b \in Backends, Phase(b)' \in {"insert", "logInsert", "end"} PROVE Unended(log', my'[b].xid)
  <2>0. ~Crash /\ my'[b].kind \in Updates
    BY <1>2, CrashPhases, Names DEF ControlInv, MyOK, XactOK
  <2>1. CASE Begins(b)
    BY <2>0, <2>1, NewXid DEF Begins
  <2>2. CASE ~Begins(b)
    <3>1. my[b].kind \in Updates /\ my'[b].xid = my[b].xid /\ Phase(b) \in {"insert", "logInsert", "end"}
      <4>1. my'[b].xid = my[b].xid /\ Phase(b) \in {"insert", "logInsert", "end"}
        BY <1>2, <2>0, <2>2, XactFate DEF Stays, Fails, Advances, IsMarked, Ends, Leaves, Scans, LooksUp, GivesUp
      <4> QED BY <4>1 DEF ControlInv, MyOK, XactOK
    <3>2. Unended(log, my[b].xid)
      BY <3>1 DEF OrderOK
    <3>3. ~LogEnd(b)
      <4>1. LogEnd(b) => Phase(b)' \in {"flush", "setStatus"}
        BY BackendPhases, GotoOnly, Names DEF BackendMove, LogEnd, ControlInv
      <4> QED BY <1>2, <4>1
    <3> QED BY <1>1, <2>0, <3>1, <3>2, <3>3, UnendedStays
  <2> QED BY <2>1, <2>2
<1>3. ASSUME NEW b \in Backends, my'[b].kind = "abort" PROVE Uncommitted(log', my'[b].xid)
  <2>0. my'[b].kind \in Updates
    BY <1>3 DEF Updates
  <2>1. CASE ~Crash /\ Begins(b)
    BY <2>1, NewXid DEF Begins
  <2>2. CASE ~Crash /\ KeepsXid(b)
    <3>1. my[b].kind \in Updates /\ my'[b].xid = my[b].xid
      BY <2>0, <2>2 DEF KeepsXid
    <3>2. CASE my[b].kind = "abort"
      <4>1. Uncommitted(log, my[b].xid)
        BY <3>2 DEF OrderOK
      <4> QED BY <1>1, <3>1, <3>2, <4>1, UncommittedStays
    <3>3. CASE GivesUp(b)
      <4>1. Unended(log, my[b].xid)
        BY <3>3 DEF GivesUp, OrderOK
      <4>2. Uncommitted(log, my[b].xid)
        BY <4>1 DEF Unended, Uncommitted, Ending
      <4> QED BY <3>1, <3>3, <4>2 DEF GivesUp
    <3> QED BY <1>3, <2>2, <3>2, <3>3 DEF KeepsXid
  <2> QED BY <2>0, <2>1, <2>2, XidFate
<1>4. ASSUME NEW b \in Backends, NEW c \in Backends, my'[b].kind \in Updates, my'[c].kind \in Updates, my'[c].xid = my'[b].xid PROVE c = b
  <2>1. ASSUME ~Crash, Begins(b), c # b PROVE FALSE
    BY <1>4, <2>1, NewXid DEF Begins
  <2>2. ASSUME ~Crash, Begins(c), c # b PROVE FALSE
    BY <1>4, <2>2, NewXid DEF Begins
  <2>3. CASE KeepsXid(b) /\ KeepsXid(c)
    BY <1>4, <2>3 DEF KeepsXid, OrderOK
  <2> QED BY <1>4, <2>1, <2>2, <2>3, XidFate
<1> QED BY <1>2, <1>3, <1>4, ZeroFirstStep, EndOnceStep DEF OrderOK

(* --- What becomes of a checkpoint --------------------------------------------------------------- *)

CkptRests == controlFile' = controlFile /\ checkPoint' = checkPoint /\ Phase(Checkpointer)' = Phase(Checkpointer)
CkptBegins ==
  /\ CkptRedo \/ EndReplay
  /\ Phase(Checkpointer) = "idle" /\ Phase(Checkpointer)' = "ckNextXid"
  /\ controlFile' = controlFile /\ checkPoint'.pages = Pages /\ checkPoint'.redo = Len(log) + 1
CkptReads ==
  /\ CkptNextXid /\ Phase(Checkpointer) = "ckNextXid" /\ Phase(Checkpointer)' = "ckDelay"
  /\ controlFile' = controlFile /\ checkPoint'.pages = checkPoint.pages /\ checkPoint'.redo = checkPoint.redo
CkptWaits ==
  /\ CkptDelay /\ Phase(Checkpointer) = "ckDelay" /\ Phase(Checkpointer)' = "ckXact"
  /\ controlFile' = controlFile /\ checkPoint' = checkPoint
CkptSkips(pg) ==
  /\ SkipPage(pg) /\ Phase(Checkpointer) = "ckXact" /\ Phase(Checkpointer)' = "ckXact"
  /\ controlFile' = controlFile /\ checkPoint'.pages = checkPoint.pages \ {pg} /\ checkPoint'.redo = checkPoint.redo
CkptWrites ==
  /\ (Phase(Checkpointer) = "ckXact" /\ checkPoint.pages = {}) \/ Phase(Checkpointer) \in {"ckBuffer", "heapWrite", "heapWritten"}
  /\ Phase(Checkpointer)' \in {"ckBuffer", "heapWrite", "heapWritten", "ckSync"}
  /\ controlFile' = controlFile /\ checkPoint' = checkPoint
CkptSyncs ==
  /\ ProcessSyncRequests /\ Phase(Checkpointer) = "ckSync" /\ Phase(Checkpointer)' = "ckRecord"
  /\ controlFile' = controlFile /\ checkPoint' = checkPoint
CkptLogs ==
  /\ Phase(Checkpointer) = "ckRecord" /\ Phase(Checkpointer)' = "ckControl"
  /\ controlFile' = controlFile /\ checkPoint'.redo = checkPoint.redo
CkptEnds ==
  /\ UpdateControlFile /\ Phase(Checkpointer) = "ckControl" /\ Phase(Checkpointer)' = "idle"
  /\ controlFile'.redo = checkPoint.redo
CkptFails == controlFile' = controlFile /\ Phase(Checkpointer)' = "idle"

(* Every step leaves the checkpoint alone or is one of these for it. *)
LEMMA CkptFate ==
  ASSUME ControlInv, Move, ~Crash
  PROVE  \/ CkptRests \/ CkptBegins \/ CkptReads \/ CkptWaits \/ (\E pg \in Pages : CkptSkips(pg)) \/ CkptWrites \/ CkptSyncs
         \/ CkptLogs \/ CkptEnds \/ CkptFails
<1> USE Names DEF ControlInv
<1>0. at[Checkpointer] # "idle" => checkPoint \in [redo : Nat, nextXid : NextXids, record : Nat, pages : SUBSET Pages]
  BY DEF CheckpointOK
<1>1. CASE EndReplay
  <2>1. Phase(Checkpointer)' = "ckNextXid"
    BY <1>1, StartupPhases DEF StartupMove
  <2>2. at[Checkpointer] = "idle"
    BY <1>1 DEF EndReplay, StartupOK, Replaying
  <2>3. checkPoint' = [redo |-> Len(log) + 1, nextXid |-> 0, record |-> 0, pages |-> Pages] /\ controlFile' = controlFile
    BY <1>1 DEF EndReplay
  <2> QED BY <1>1, <2>1, <2>2, <2>3 DEF CkptBegins, Phase, IOStates
<1>2. CASE CheckpointerMove
  <2>0. Phase(Checkpointer)' = at'[Checkpointer]
    BY <1>2, CheckpointerPhases
  <2>a. ASSUME NEW where, Goto(Checkpointer, where) PROVE Phase(Checkpointer)' = where
    BY <2>a, <2>0, GotoOnly
  <2>b. ASSUME at[Checkpointer] \notin IOStates PROVE Phase(Checkpointer) = at[Checkpointer]
    BY <2>b DEF Phase
  <2>1. CASE CkptRedo
    <3>1. checkPoint' = [redo |-> Len(log) + 1, nextXid |-> 0, record |-> 0, pages |-> Pages] /\ controlFile' = controlFile
      BY <2>1 DEF CkptRedo
    <3>2. Phase(Checkpointer) = "idle" /\ Phase(Checkpointer)' = "ckNextXid"
      BY <2>1, <2>a, <2>b DEF CkptRedo, IOStates
    <3> QED BY <2>1, <3>1, <3>2 DEF CkptBegins
  <2>2. CASE CkptNextXid
    <3>1. checkPoint' = [checkPoint EXCEPT !.nextXid = nextXid] /\ controlFile' = controlFile /\ at[Checkpointer] # "idle"
      BY <2>2 DEF CkptNextXid
    <3>2. Phase(Checkpointer) = "ckNextXid" /\ Phase(Checkpointer)' = "ckDelay"
      BY <2>2, <2>a, <2>b DEF CkptNextXid, IOStates
    <3>3. checkPoint'.pages = checkPoint.pages /\ checkPoint'.redo = checkPoint.redo
      BY <1>0, <3>1
    <3> QED BY <2>2, <3>1, <3>2, <3>3 DEF CkptReads
  <2>3. CASE CkptDelay
    <3>1. Phase(Checkpointer) = "ckDelay" /\ Phase(Checkpointer)' = "ckXact"
      BY <2>3, <2>a, <2>b DEF CkptDelay, IOStates
    <3> QED BY <2>3, <3>1 DEF CkptDelay, CkptWaits, ckptVars
  <2>4. ASSUME NEW pg \in checkPoint.pages, SkipPage(pg) PROVE pg \in Pages /\ CkptSkips(pg)
    <3>1. checkPoint' = [checkPoint EXCEPT !.pages = @ \ {pg}] /\ controlFile' = controlFile /\ at[Checkpointer] # "idle" /\ at' = at /\ io' = io
      BY <2>4 DEF SkipPage
    <3>2. Phase(Checkpointer) = "ckXact" /\ Phase(Checkpointer)' = "ckXact"
      BY <2>4, <2>b, <2>0, <3>1 DEF SkipPage, IOStates
    <3>3. checkPoint'.pages = checkPoint.pages \ {pg} /\ checkPoint'.redo = checkPoint.redo /\ pg \in Pages
      BY <1>0, <2>4, <3>1
    <3> QED BY <2>4, <3>1, <3>2, <3>3 DEF CkptSkips
  <2>5. CASE BufferSync \/ SkipBuffer
    <3>1. BufferSync => Phase(Checkpointer) = "ckXact" /\ checkPoint.pages = {} /\ Phase(Checkpointer)' = "ckBuffer"
      BY <2>a, <2>b DEF BufferSync, IOStates
    <3>2. SkipBuffer => Phase(Checkpointer) = "ckBuffer" /\ Phase(Checkpointer)' = "ckSync"
      BY <2>a, <2>b DEF SkipBuffer, IOStates
    <3> QED BY <2>5, <3>1, <3>2 DEF BufferSync, SkipBuffer, ckptVars, CkptWrites
  <2>6. CASE ProcessSyncRequests
    <3>1. Phase(Checkpointer) = "ckSync" /\ Phase(Checkpointer)' = "ckRecord"
      BY <2>6, <2>a, <2>b DEF ProcessSyncRequests, IOStates
    <3> QED BY <2>6, <3>1 DEF ProcessSyncRequests, CkptSyncs, ckptVars
  <2>7. CASE CkptRecord
    <3>1. checkPoint' = [checkPoint EXCEPT !.record = Len(log) + 1] /\ controlFile' = controlFile /\ at[Checkpointer] # "idle"
      BY <2>7 DEF CkptRecord
    <3>2. Phase(Checkpointer) = "ckRecord" /\ Phase(Checkpointer)' = "ckControl"
      BY <2>7, <2>a, <2>b DEF CkptRecord, IOStates
    <3>3. checkPoint'.redo = checkPoint.redo
      BY <1>0, <3>1
    <3> QED BY <3>1, <3>2, <3>3 DEF CkptLogs
  <2>8. CASE UpdateControlFile
    <3>1. controlFile' = [redo |-> checkPoint.redo, nextXid |-> checkPoint.nextXid]
      BY <2>8 DEF UpdateControlFile, NewControlFile
    <3>2. at' = [at EXCEPT ![Checkpointer] = "idle", ![Startup] = "idle"] /\ at[Checkpointer] = "ckControl"
      BY <2>8 DEF UpdateControlFile
    <3>3. Phase(Checkpointer) = "ckControl" /\ Phase(Checkpointer)' = "idle"
      BY <2>0, <2>b, <3>2 DEF AtOK, IOStates
    <3> QED BY <2>8, <3>1, <3>3 DEF CkptEnds
  <2>9. CASE SlruWriteFailed \/ HeapWriteFailed
    BY <2>9, <2>a DEF SlruWriteFailed, HeapWriteFailed, CkptFails
  <2> QED BY <1>2, <2>1, <2>2, <2>3, <2>4, <2>5, <2>6, <2>7, <2>8, <2>9 DEF CheckpointerMove
<1>3. CASE ~CheckpointerMove /\ ~EndReplay
  <2>0. controlFile' = controlFile /\ checkPoint' = checkPoint
    BY <1>3, CheckpointerStays
  <2>1. CASE Phase(Checkpointer)' = Phase(Checkpointer)
    BY <2>0, <2>1 DEF CkptRests
  <2>2. CASE BeginFlush(Checkpointer) \/ HeapWrite(Checkpointer) \/ HeapWritten(Checkpointer)
    <3>1. Phase(Checkpointer) \in {"ckBuffer", "heapWrite", "heapWritten"} /\ Phase(Checkpointer)' \in {"heapWrite", "heapWritten", "ckSync"}
      BY <2>2, HeapIOPhases
    <3> QED BY <2>0, <3>1 DEF CkptWrites
  <2> QED BY <1>3, <2>1, <2>2, CheckpointerStays
<1> QED BY <1>1, <1>2, <1>3

(* --- A checkpoint waits for the marks of what has committed --------------------------------------- *)

(* The redo points of a checkpoint under way. *)
LEMMA RedoFate ==
  ASSUME ControlInv, Move, ~Crash
  PROVE  /\ controlFile'.redo = controlFile.redo \/ (Phase(Checkpointer) = "ckControl" /\ controlFile'.redo = checkPoint.redo)
         /\ Waited' => CkptDelay \/ (Waited /\ checkPoint'.redo = checkPoint.redo)
         /\ CkptDelay => checkPoint'.redo = checkPoint.redo
BY CkptFate
   DEF Waited, CkptRests, CkptBegins, CkptReads, CkptWaits, CkptSkips, CkptWrites, CkptSyncs, CkptLogs, CkptEnds, CkptFails,
       CkptDelay, ckptVars

(* A backend asks a checkpoint to wait until it ends its transaction. *)
LEMMA DelayStays ==
  ASSUME ControlInv, Move, ~Crash, NEW b \in delayChkpt, ~EndTransaction(b)
  PROVE  b \in delayChkpt'
<1>1. ASSUME NEW c \in Backends, BackendMove(c) PROVE b \in delayChkpt'
  <2>1. CASE EndTransaction(c)
    BY <2>1 DEF EndTransaction
  <2>2. CASE ~EndTransaction(c)
    BY <1>1, <2>2 DEF BackendMove, ZeroNext, AllButIO, GetNewTransactionId, InsertTuple, InsertFails, LogInsert, LogEnd, FlushCommit,
                Scan, ScanNothing, ReadBit, SetHintBits, MarkBufferDirtyHint, xactVars
  <2> QED BY <2>1, <2>2
<1>2. SharedMove => delayChkpt' = delayChkpt
  BY DEF SharedMove, SetBit, SlruPhysicalReadPage, BeginRead, BeginWrite, TakeOver, AllButIO, SlruWrite, SlruWritten,
         BeginFlush, HeapWrite, HeapWritten, xactVars
<1>3. CheckpointerMove => delayChkpt' = delayChkpt
  BY DEF CheckpointerMove, CkptRedo, CkptNextXid, CkptDelay, SkipPage, BufferSync, SkipBuffer, ProcessSyncRequests,
         CkptRecord, UpdateControlFile, SlruWriteFailed, HeapWriteFailed, xactVars
<1>4. StartupMove \/ Nothing => delayChkpt' = delayChkpt
  BY DEF StartupMove, RedoTuple, RedoEnd, RedoZero, RedoOther, EndReplay, Redo, Nothing, xactVars
<1> QED BY <1>1, <1>2, <1>3, <1>4 DEF Move

(* A backend is between its commit record and its mark if it was, or has just logged the commit. *)
LEMMA CommittingFate ==
  ASSUME ControlInv, Move, NEW b \in Backends, Committing(b)'
  PROVE  ~Crash /\ ((Committing(b) /\ my'[b] = my[b]) \/ (Ends(b) /\ my[b].kind \in {"sync", "async"}))
<1>0. my'[b].kind \in {"sync", "async"} /\ Phase(b)' \in {"flush", "setStatus", "failed"}
  BY DEF Committing
<1>1. ~Crash
  BY <1>0, CrashPhases, Names
<1>2. None \notin {"sync", "async"} /\ \A kind \in Lookups : kind \notin {"sync", "async"}
  BY DurabilityConstants DEF Lookups
<1>3. Phase(b) \in {"idle", "extended"} => my[b].kind = None
  BY DEF ControlInv, MyOK, XactOK
<1>4. Phase(b) = "getStatus" => my[b].kind \in Lookups
  BY DEF ControlInv, MyOK, XactOK
<1>5. CASE Stays(b) \/ Advances(b)
  BY <1>0, <1>1, <1>5 DEF Committing, Stays, Advances
<1>6. CASE Fails(b)
  BY <1>0, <1>1, <1>2, <1>3, <1>4, <1>6 DEF Committing, Fails
<1>7. CASE Ends(b)
  BY <1>0, <1>1, <1>7 DEF Ends
<1> QED BY <1>0, <1>1, <1>5, <1>6, <1>7, XactFate DEF IsMarked, Begins, Leaves, Scans, LooksUp, GivesUp

\* Every step keeps DelayOK: a checkpoint passes no commit record whose mark is still to be made.
LEMMA DelayStep ==
  ASSUME ControlInv, ControlInv', PageBrings, DelayOK, Move
  PROVE  DelayOK'
<1> USE Names DEF ControlInv
<1>0. Len(log) \in Nat /\ Len(log') \in Nat
  BY LogFate
<1>1. ASSUME NEW b \in Backends, Committing(b)'
      PROVE  /\ b \in delayChkpt'
             /\ my'[b].lsn \in 1..Len(log') /\ log'[my'[b].lsn].kind = "commit" /\ log'[my'[b].lsn].xid = my'[b].xid
             /\ controlFile'.redo <= my'[b].lsn
             /\ Waited' => checkPoint'.redo <= my'[b].lsn
  <2>0. ~Crash
    BY <1>1, CommittingFate
  <2>1. CASE Committing(b) /\ my'[b] = my[b]
    <3>1. /\ b \in delayChkpt
          /\ my[b].lsn \in 1..Len(log) /\ log[my[b].lsn].kind = "commit" /\ log[my[b].lsn].xid = my[b].xid
          /\ controlFile.redo <= my[b].lsn
          /\ Waited => checkPoint.redo <= my[b].lsn
      BY <2>1 DEF DelayOK
    <3>2. ~EndTransaction(b)
      BY <2>1 DEF Committing, EndTransaction, Phase, IOStates
    <3>3. b \in delayChkpt'
      BY <2>0, <3>1, <3>2, DelayStays
    <3>4. Len(log) <= Len(log') /\ \A i \in 1..Len(log) : log'[i] = log[i]
      BY <2>0, LogStep DEF Grows
    <3>5. my'[b].lsn \in 1..Len(log') /\ log'[my'[b].lsn].kind = "commit" /\ log'[my'[b].lsn].xid = my'[b].xid
      BY <1>0, <2>1, <3>1, <3>4
    <3>6. controlFile'.redo <= my'[b].lsn
      BY <2>0, <2>1, <3>1, RedoFate DEF Waited
    <3>7. ~CkptDelay
      BY <3>1 DEF CkptDelay, NobodyDelays
    <3>8. Waited' => checkPoint'.redo <= my'[b].lsn
      BY <2>0, <2>1, <3>1, <3>7, RedoFate
    <3> QED BY <3>3, <3>5, <3>6, <3>8
  <2>2. CASE Ends(b) /\ my[b].kind \in {"sync", "async"}
    <3>1. LogEnd(b) /\ my'[b].lsn = Len(log) + 1 /\ my'[b].xid = my[b].xid
      BY <2>2 DEF Ends
    <3>2. delayChkpt' = delayChkpt \union {b} /\ UNCHANGED <<controlFile, checkPoint>>
      BY <2>2, <3>1 DEF LogEnd, ckptVars
    <3>3. PICK r : r = [kind |-> "commit", xid |-> my[b].xid]
      OBVIOUS
    <3>4. log' = Append(log, r)
      BY <2>2, <3>1, <3>3 DEF LogEnd, Log, Insert
    <3>5. Len(log') = Len(log) + 1 /\ log'[Len(log) + 1] = r
      BY <3>4 DEF LogOK
    <3>6. controlFile.redo \in Nat /\ controlFile.redo <= Len(log) + 1
      <4>1. controlFile.redo \in 1..(durable + 1) /\ durable \in 0..Len(log)
        BY DEF CheckpointOK, LogOK
      <4> QED BY <1>0, <4>1
    <3>7. Waited' => checkPoint.redo <= Len(log) + 1
      <4>1. Waited' => Waited \/ CkptDelay
        BY <2>0, RedoFate
      <4>2. Waited' => at[Checkpointer] # "idle"
        BY <4>1 DEF Waited, Phase, CkptDelay, IOStates
      <4>3. at[Checkpointer] # "idle" => checkPoint.redo \in 1..(Len(log) + 1)
        BY DEF CheckpointOK
      <4> QED BY <1>0, <4>2, <4>3
    <3> QED BY <1>0, <3>1, <3>2, <3>3, <3>5, <3>6, <3>7
  <2> QED BY <1>1, <2>1, <2>2, CommittingFate
<1>2. ASSUME Phase(Startup)' = "setStatus" PROVE controlFile'.redo < replay'
  <2>1. ~Crash /\ ~UpdateControlFile
    BY <1>2, CrashPhases, CheckpointerPhases DEF CheckpointerMove
  <2>2. CASE ~StartupMove
    <3>1. replay' = replay /\ Phase(Startup) = "setStatus"
      BY <1>2, <2>1, <2>2, RecoveryGoesOn
    <3>2. controlFile.redo < replay
      BY <3>1 DEF DelayOK
    <3>3. Replaying
      BY <3>1 DEF Phase, Replaying, IOStates
    <3>4. at[Checkpointer] = "idle"
      BY <3>3 DEF StartupOK
    <3>5. controlFile'.redo = controlFile.redo
      BY <2>1, <3>4, RedoFate DEF Phase, IOStates
    <3> QED BY <3>1, <3>2, <3>5
  <2>3. CASE StartupMove
    <3>1. RedoEnd
      BY <1>2, <2>3, StartupPhases
    <3>2. replay' = replay + 1 /\ controlFile' = controlFile /\ Replaying
      BY <3>1 DEF RedoEnd, Redo, Replaying
    <3>3. replay \in Nat /\ controlFile.redo \in Nat /\ controlFile.redo <= replay
      BY <3>2 DEF PageBrings, Replayed, StartupOK, CheckpointOK
    <3> QED BY <3>2, <3>3
  <2> QED BY <2>2, <2>3
<1>3. ASSUME Phase(Checkpointer)' \in {"ckNextXid", "ckDelay"} PROVE checkPoint'.pages = Pages
  <2>1. ~Crash
    BY <1>3, CrashPhases
  <2> QED BY <1>3, <2>1, CkptFate
          DEF DelayOK, CkptRests, CkptBegins, CkptReads, CkptWaits, CkptSkips, CkptWrites, CkptSyncs, CkptLogs, CkptEnds, CkptFails
<1> QED BY <1>1, <1>2, <1>3 DEF DelayOK

(* --- Marks in pg_xact ------------------------------------------------------------------------------ *)

(* A page is not zeroed under the mark of a transaction that recovery has passed. *)
LEMMA NotZeroed ==
  ASSUME ControlInv, FreshOK, OrderOK, NEW i \in 1..Len(log), i < Replayed, log[i].kind \in Traces,
         Zeroed(TransactionIdToPage(log[i].xid))
  PROVE  FALSE
<1> USE DEF ControlInv
<1>0. nextXid \in Nat /\ log[i].xid \in Xids /\ log[i].xid \in Nat
  <2>1. log[i].xid \in Xids
    BY DEF LogOK
  <2>2. nextXid \in Nat
    BY SlruConstants DEF XidGenOK, NextXids
  <2> QED BY <2>1, <2>2, PageOfXid
<1>1. PICK q : q = TransactionIdToPage(log[i].xid)
  OBVIOUS
<1>2. ASSUME NEW b \in Backends, ZeroNext(b), q = TransactionIdToPage(nextXid) PROVE FALSE
  <2>1. ~Replaying /\ FirstOnPage(nextXid)
    BY <1>2, WhoRuns DEF ZeroNext, Starts, Up, Replaying
  <2>2. log[i].xid < nextXid
    BY <2>1, LogBelow
  <2>3. log[i].xid \in On(TransactionIdToPage(nextXid))
    BY <1>0, <1>1, <1>2 DEF On
  <2>4. nextXid <= log[i].xid
    BY <1>0, <2>1, <2>3, FirstIsLeast
  <2> QED BY <1>0, <2>2, <2>4
<1>3. ASSUME RedoZero, q = log[replay].xid PROVE FALSE
  <2>1. replay \in 1..Len(log) /\ log[replay].kind = "zero" /\ Replaying
    BY <1>3 DEF RedoZero, Redo, StartupOK, Replaying, LogOK
  <2>2. replay < i
    BY <1>1, <1>3, <2>1 DEF OrderOK, ZeroFirst
  <2> QED BY <2>1, <2>2 DEF Replayed
<1> QED BY <1>1, <1>2, <1>3 DEF Zeroed

(* Nobody marks as aborted a transaction whose commit is in the log. *)
LEMMA MarkedTrue ==
  ASSUME ControlInv, OrderOK, NEW i \in 1..Len(log), log[i].kind = "commit",
         NEW p \in Backends \union {Startup}, SetBit(p), my[p].xid = log[i].xid
  PROVE  NewStatus(p) = "committed"
<1> USE DEF ControlInv
<1> SUFFICES ASSUME my[p].kind = "abort" PROVE FALSE
  BY DEF NewStatus
<1>1. CASE p \in Backends
  BY <1>1 DEF OrderOK, Uncommitted
<1>2. CASE p = Startup
  <2>1. Phase(Startup) = "setStatus" /\ Replaying
    BY <1>2 DEF SetBit, Phase, IOStates, Replaying
  <2>2. replay \in 1..(Len(log) + 1) /\ replay > 1 /\ log[replay - 1].kind = "abort" /\ log[replay - 1].xid = log[i].xid
    BY <1>2, <2>1 DEF StartupOK
  <2>3. replay - 1 \in 1..Len(log)
    BY <2>2 DEF LogOK
  <2>4. replay - 1 = i
    BY <2>2, <2>3 DEF OrderOK, EndOnce, Ending
  <2> QED BY <2>2, <2>4
<1> QED BY <1>1, <1>2

(* A mark that says committed stays. *)
LEMMA StatusStays ==
  ASSUME ControlInv, FreshOK, BufferLockOK, OrderOK, \A pg \in Pages : CleanOK(pg), Move, ~Crash,
         NEW i \in 1..Len(log), i < Replayed, NEW x, log[i].kind = "commit", log[i].xid = x, StatusOf(x) = "committed"
  PROVE  StatusOf(x)' = "committed"
<1> USE DEF ControlInv
<1>0. x = log[i].xid
  OBVIOUS
<1>1. x \in Xids /\ log[i].kind \in Traces
  BY <1>0 DEF LogOK, Traces
<1>2. PICK q : q = TransactionIdToPage(x)
  OBVIOUS
<1>3. q \in Pages /\ x \in On(q)
  BY <1>1, <1>2, PageOfXid
<1>4. StatusOf(x) = IF slot[q].status \in {"valid", "writing"} THEN slot[q].bits[x]
                    ELSE IF xactFile[q] = None THEN "inProgress" ELSE xactFile[q][x]
  BY <1>2 DEF StatusOf
<1>5. StatusOf(x)' = IF slot'[q].status \in {"valid", "writing"} THEN slot'[q].bits[x]
                    ELSE IF xactFile'[q] = None THEN "inProgress" ELSE xactFile'[q][x]
  BY <1>2 DEF StatusOf
<1>7. StatusOf(x) = "committed"
  BY <1>0
<1>8. xactFile'[q] = xactFile[q] \/ (slot[q].status = "writing" /\ slot' = slot)
  BY <1>3, FileFate
<1>9. StatusOf(x)' = "committed"
  <2>1. CASE slot' = slot /\ slot[q].status = "writing"
    BY <1>4, <1>5, <1>7, <2>1
  <2> SUFFICES ASSUME xactFile'[q] = xactFile[q] PROVE StatusOf(x)' = "committed"
    BY <1>8, <2>1
  <2>2. CASE Kept(q)
    BY <1>4, <1>5, <1>7, <2>2 DEF Kept
  <2>3. CASE Dropped(q)
    <3>1. AsFile(q) /\ slot[q].bits[x] = "committed" /\ slot[q].bits \in [On(q) -> Status]
      BY <1>3, <1>4, <1>7, <2>3 DEF Dropped, CleanOK, SlotOK
    <3>2. xactFile[q] = slot[q].bits /\ xactFile[q] # None
      BY <1>3, <3>1, DurabilityConstants DEF AsFile, Status
    <3> QED BY <1>5, <2>3, <3>1, <3>2 DEF Dropped
  <2>4. CASE Marked(q)
    <3>1. PICK p \in Backends \union {Startup} :
            /\ SetBit(p) /\ my[p].xid \in On(q)
            /\ slot'[q].bits = [slot[q].bits EXCEPT ![my[p].xid] = NewStatus(p)]
      BY <2>4 DEF Marked
    <3>2. slot[q].bits \in [On(q) -> Status] /\ slot[q].bits[x] = "committed" /\ slot'[q].status \in {"valid", "writing"}
      BY <1>3, <1>4, <1>7, <2>4 DEF SlotOK, Marked
    <3>3. my[p].xid = x => NewStatus(p) = "committed"
      BY <1>0, <3>1, MarkedTrue
    <3> QED BY <1>3, <1>5, <3>1, <3>2, <3>3
  <2>5. CASE ReadIn(q)
    BY <1>4, <1>5, <1>7, <2>5 DEF ReadIn
  <2>6. CASE ToRead(q)
    BY <1>4, <1>5, <1>7, <2>6 DEF ToRead
  <2>7. CASE Written(q) \/ ToWrite(q) \/ NotWritten(q)
    BY <1>4, <1>5, <1>7, <2>7 DEF Written, ToWrite, NotWritten
  <2>8. CASE Zeroed(q)
    BY <1>0, <1>1, <1>2, <2>8, NotZeroed
  <2>9. CASE Cut(q)
    <3>1. x < nextXid
      BY <1>0, <1>1 DEF FreshOK, Below
    <3> QED BY <1>3, <1>4, <1>5, <1>7, <2>9, <3>1 DEF Cut
  <2> QED BY <1>3, <2>2, <2>3, <2>4, <2>5, <2>6, <2>7, <2>8, <2>9, SlotFate
<1> QED BY <1>9

(* A startup process that has failed stays where it is. *)
LEMMA FailedStays ==
  ASSUME ControlInv, Move, ~Crash, at[Startup] = "failed"
  PROVE  at'[Startup] = "failed"
<1> USE Names
<1>1. ~StartupMove /\ ~UpdateControlFile
  BY StartupPhases, CheckpointerPhases DEF CheckpointerMove
<1>2. Phase(Startup) = "failed"
  BY DEF Phase, IOStates
<1>3. /\ ~SetBit(Startup) /\ ~SlruPhysicalReadPage(Startup) /\ ~SlruWrite(Startup) /\ ~SlruWritten(Startup)
      /\ \A pg : ~BeginRead(Startup, pg) /\ \A back : ~BeginWrite(Startup, pg, back)
  BY DEF SetBit, SlruPhysicalReadPage, SlruWrite, SlruWritten, BeginRead, Wants, BeginWrite
<1> QED BY <1>1, <1>3, StartupStays

(* What the startup process has in hand is its own. *)
LEMMA StartupXactStays ==
  ASSUME ControlInv, Move, ~Crash, ~StartupMove
  PROVE  my'[Startup] = my[Startup]
<1> USE Names DEF ControlInv
<1>1. ASSUME NEW c \in Backends, BackendMove(c) PROVE my'[Startup] = my[Startup]
  <2>1. PICK new : my' = [my EXCEPT ![c] = new] \/ my' = my
    BY <1>1 DEF BackendMove, ZeroNext, AllButIO, GetNewTransactionId, InsertTuple, InsertFails, LogInsert, LogEnd, FlushCommit, EndTransaction,
                Scan, ScanNothing, ReadBit, SetHintBits, MarkBufferDirtyHint
  <2> QED BY <1>1, <2>1 DEF MyOK
<1>2. SharedMove => my' = my
  BY DEF SharedMove, SetBit, SlruPhysicalReadPage, BeginRead, BeginWrite, TakeOver, AllButIO, SlruWrite, SlruWritten,
         BeginFlush, HeapWrite, HeapWritten
<1>3. CheckpointerMove => my' = my
  BY DEF CheckpointerMove, CkptRedo, CkptNextXid, CkptDelay, SkipPage, BufferSync, SkipBuffer, ProcessSyncRequests,
         CkptRecord, UpdateControlFile, SlruWriteFailed, HeapWriteFailed
<1>4. Nothing => my' = my
  BY DEF Nothing
<1> QED BY <1>1, <1>2, <1>3, <1>4 DEF Move

(* The startup process is at a record until it has marked the transaction. *)
LEMMA RedoingStays ==
  ASSUME ControlInv, Move, ~Crash, Phase(Startup) = "setStatus", at'[Startup] # "failed"
  PROVE  SetBit(Startup) \/ (Phase(Startup)' = "setStatus" /\ my'[Startup] = my[Startup])
<1> USE Names
<1>1. ~StartupMove /\ ~UpdateControlFile
  <2>1. StartupMove => Phase(Startup) = "replay"
    BY StartupPhases DEF Phase, IOStates
  <2>2. UpdateControlFile => at[Startup] \in {"idle", "recovered"}
    BY CheckpointerPhases DEF CheckpointerMove
  <2> QED BY <2>1, <2>2 DEF Phase, IOStates
<1>2. my'[Startup] = my[Startup]
  BY <1>1, StartupXactStays
<1>3. SlruPhysicalReadPage(Startup) \/ SlruWrite(Startup) \/ SlruWritten(Startup) => Phase(Startup)' = "setStatus"
  BY ReadPhases, WritePhases, WrittenPhases
<1>4. ASSUME NEW pg \in Pages, BeginRead(Startup, pg) PROVE Phase(Startup)' = "setStatus"
  BY <1>4, BeginReadPhases
<1>5. ASSUME NEW pg \in Pages, NEW back \in Backs, BeginWrite(Startup, pg, back) PROVE Phase(Startup)' = "setStatus"
  BY <1>5, BeginWritePhases
<1> QED BY <1>1, <1>2, <1>3, <1>4, <1>5, StartupStays

(* Who sets a bit sets it where it is looked for. *)
LEMMA BitSet ==
  ASSUME ControlInv, NEW p \in Backends \union {Startup}, SetBit(p), NEW x, x = my[p].xid
  PROVE  StatusOf(x)' = NewStatus(p)
<1>1. PICK q : q = TransactionIdToPage(x)
  OBVIOUS
<1>2. /\ my[p].xid \in Xids /\ q \in Pages /\ my[p].xid \in On(q) /\ NewStatus(p) \in Status /\ my[p].lsn \in Nat
      /\ slot'[q].status = slot[q].status /\ slot'[q].io = slot[q].io /\ slot'[q].dirty = TRUE
      /\ slot'[q].bits = [slot[q].bits EXCEPT ![my[p].xid] = NewStatus(p)]
      /\ slot'[q].lsn = Larger(slot[q].lsn, IF my[p].kind = "async" THEN my[p].lsn ELSE 0)
      /\ slot[q].status = "valid" \/ (slot[q].status = "writing" /\ my[p].kind # "async")
  BY <1>1, SetBitEffect
<1>3. slot[q].bits \in [On(q) -> Status]
  BY <1>2 DEF ControlInv, SlotOK
<1>4. StatusOf(x)' = slot'[q].bits[x]
  BY <1>1, <1>2 DEF StatusOf
<1> QED BY <1>2, <1>3, <1>4

(* A transaction that is about to be marked committed still is, or has been marked. *)
LEMMA MarkingStays ==
  ASSUME ControlInv, Move, ~Crash, at'[Startup] # "failed", NEW x, Marking(x)
  PROVE  Marking(x)' \/ StatusOf(x)' = "committed"
<1>1. ASSUME NEW b \in Backends, Committing(b), my[b].xid = x PROVE Marking(x)' \/ StatusOf(x)' = "committed"
  <2>1. my[b].kind \in {"sync", "async"} /\ Phase(b) \in {"flush", "setStatus", "failed"}
    BY <1>1 DEF Committing
  <2>2. CASE Stays(b) \/ Fails(b) \/ Advances(b)
    <3>1. Committing(b)' /\ my'[b].xid = x
      BY <1>1, <2>1, <2>2 DEF Stays, Fails, Advances, Committing
    <3> QED BY <3>1 DEF Marking
  <2>3. CASE IsMarked(b)
    <3>1. SetBit(b) /\ NewStatus(b) = "committed"
      BY <2>1, <2>3 DEF IsMarked, NewStatus
    <3> QED BY <1>1, <3>1, BitSet
  <2> QED BY <2>1, <2>2, <2>3, XactFate DEF Begins, Ends, Leaves, Scans, LooksUp, GivesUp
<1>2. ASSUME Redoing, my[Startup].xid = x PROVE Marking(x)' \/ StatusOf(x)' = "committed"
  <2>1. CASE SetBit(Startup)
    <3>1. NewStatus(Startup) = "committed"
      BY <1>2 DEF Redoing, NewStatus
    <3> QED BY <1>2, <2>1, <3>1, BitSet
  <2>2. CASE Phase(Startup)' = "setStatus" /\ my'[Startup] = my[Startup]
    BY <1>2, <2>2 DEF Redoing, Marking
  <2> QED BY <1>2, <2>1, <2>2, RedoingStays DEF Redoing
<1> QED BY <1>1, <1>2 DEF Marking

(* After a crash the pages are as their files, which have what replay does not bring back. *)
LEMMA MarkedAfterCrash ==
  ASSUME ControlInv, \A pg \in Pages : KeptOK(pg), Crash
  PROVE  MarkedOK'
<1> USE Names DEF ControlInv
<1>1. Replayed' = controlFile.redo
  BY CrashPhases DEF Crash, Replayed, Replaying
<1>2. SUFFICES ASSUME NEW i \in 1..Len(log'), i < controlFile.redo, log'[i].kind = "commit", NEW x, x = log'[i].xid
               PROVE  StatusOf(x)' = "committed"
  BY <1>1 DEF MarkedOK
<1>3. i \in 1..Len(log) /\ log'[i] = log[i]
  <2>1. PICK k \in durable..Len(log) : Lose(k)
    BY DEF Crash
  <2> QED BY <2>1, LoseEffect
<1>4. x \in Xids
  BY <1>2, <1>3 DEF LogOK, Traces
<1>5. PICK q : q = TransactionIdToPage(x)
  OBVIOUS
<1>6. q \in Pages
  BY <1>4, <1>5, PageOfXid
<1>7. xactFile'[q] \in xactKept[q] /\ slot'[q] = Empty(q)
  BY <1>6 DEF Crash, SlruCrash
<1>8. Shows(log, controlFile.redo, q, xactFile'[q])
  BY <1>6, <1>7 DEF KeptOK
<1>9. xactFile'[q] # None /\ xactFile'[q][x] = "committed"
  BY <1>2, <1>3, <1>5, <1>8 DEF Shows
<1> QED BY <1>5, <1>6, <1>7, <1>9, EmptySlot DEF StatusOf

\* Every step keeps MarkedOK: a commit that recovery has passed shows in pg_xact or is about to.
LEMMA MarkedStep ==
  ASSUME ControlInv, ControlInv', FreshOK, BufferLockOK, CommitInv, Move
  PROVE  MarkedOK'
<1> USE Names DEF ControlInv
<1>1. CASE Crash
  BY <1>1, MarkedAfterCrash DEF CommitInv
<1>2. CASE ~Crash
  <2> SUFFICES ASSUME at'[Startup] # "failed", NEW i \in 1..Len(log'), i < Replayed', log'[i].kind = "commit", NEW x, x = log'[i].xid
               PROVE  StatusOf(x)' = "committed" \/ Marking(x)'
    BY DEF MarkedOK
  <2>0. at[Startup] # "failed" /\ Len(log) \in Nat /\ Len(log') \in Nat
    BY <1>2, FailedStays, LogFate
  <2>1. ASSUME i \in 1..Len(log), log'[i] = log[i], i < Replayed PROVE StatusOf(x)' = "committed" \/ Marking(x)'
    <3>1. StatusOf(x) = "committed" \/ Marking(x)
      BY <2>0, <2>1 DEF CommitInv, MarkedOK
    <3>2. CASE StatusOf(x) = "committed"
      BY <1>2, <2>1, <3>2, StatusStays DEF CommitInv
    <3>3. CASE Marking(x)
      BY <1>2, <3>3, MarkingStays
    <3> QED BY <3>1, <3>2, <3>3
  <2>2. CASE Redoes /\ replay \in 1..Len(log) /\ Replaying /\ Replaying' /\ Replayed = replay /\ Replayed' = replay + 1 /\ log' = log
    <3>1. i < replay \/ i = replay
      BY <2>2
    <3>2. CASE i < replay
      BY <2>1, <2>2, <3>2
    <3>3. CASE i = replay
      <4>1. RedoEnd
        BY <2>2, <3>3 DEF Redoes, RedoTuple, RedoZero, RedoOther, Redo
      <4>2. Phase(Startup)' = "setStatus"
        BY <4>1, StartupPhases, GotoOnly DEF StartupMove, RedoEnd
      <4>3. my'[Startup].kind = log[replay].kind /\ my'[Startup].xid = log[replay].xid
        BY <4>1 DEF RedoEnd, MyOK, MyType
      <4> QED BY <2>2, <3>3, <4>2, <4>3 DEF Marking, Redoing
    <3> QED BY <3>1, <3>2, <3>3
  <2>3. CASE Replayed' = Replayed /\ log' = log
    BY <2>1, <2>3
  <2>4. CASE ~Replaying /\ Replayed = Len(log) + 1 /\ Replayed' = Len(log') + 1
    <3>1. CASE i \in 1..Len(log) /\ log'[i] = log[i]
      BY <2>0, <2>1, <2>4, <3>1
    <3>2. CASE i = Len(log) + 1 /\ NewRecord(log'[Len(log) + 1])
      <4>1. PICK r : r = log'[i]
        OBVIOUS
      <4>2. r.kind \in Ending /\ NewRecord(r) /\ r.kind # "abort"
        BY <3>2, <4>1 DEF Ending
      <4>3. PICK b \in Backends : LogEnd(b) /\ r.xid = my[b].xid /\ (r.kind = "abort" <=> my[b].kind = "abort")
        BY <4>2, NewEnding
      <4>4. Phase(b) = "end" /\ my[b].kind \in Updates
        BY <4>3 DEF LogEnd, Phase, IOStates, MyOK, XactOK
      <4>5. Phase(b)' \in {"flush", "setStatus"}
        BY <4>3, BackendPhases, GotoOnly, ZenonT(60) DEF LogEnd, BackendMove
      <4>6. Ends(b)
        BY <1>2, <4>4, <4>5, XactFate DEF Stays, Fails, Advances, IsMarked, Begins, Leaves, Scans, LooksUp, GivesUp
      <4>7. Committing(b)' /\ my'[b].xid = x
        BY <4>1, <4>2, <4>3, <4>4, <4>6 DEF Ends, Committing, Updates
      <4> QED BY <4>7 DEF Marking
    <3> QED BY <1>2, <3>1, <3>2, LogFate
  <2> QED BY <1>2, <2>2, <2>3, <2>4, ReplayedStep
<1> QED BY <1>1, <1>2

(* --- What a crash may leave of pg_xact -------------------------------------------------------------- *)

\* What a page shows of the log below n it shows of any log that a step makes of it.
LEMMA ShowsStays ==
  ASSUME ControlInv, Move, NEW n \in Nat, n <= Len(log) + 1, NEW q, NEW bits, Shows(log, n, q, bits)
  PROVE  Shows(log', n, q, bits)
<1>0. Len(log) \in Nat /\ Len(log') \in Nat
  BY LogFate
<1>1. ASSUME NEW i \in 1..Len(log'), i < n PROVE i \in 1..Len(log) /\ log'[i] = log[i]
  BY <1>0, <1>1, LogFate
<1> QED BY <1>1 DEF Shows

(* A redo point in use: what is before it has been replayed, and was marked before the checkpoint went on. *)
RedoPoint(n) == n = controlFile.redo \/ (Waited /\ n = checkPoint.redo)

\* A redo point is in the log or at its end, and replay has not gone back behind it.
LEMMA RedoPointBounds ==
  ASSUME ControlInv, PageBrings, NEW n, RedoPoint(n)
  PROVE  n \in Nat /\ n <= Len(log) + 1 /\ n <= Replayed /\ (Waited => ~Replaying)
<1> USE DEF ControlInv
<1>0. Len(log) \in Nat /\ durable \in 0..Len(log)
  BY DEF LogOK
<1>1. controlFile.redo \in Nat /\ controlFile.redo <= Len(log) + 1 /\ controlFile.redo <= Replayed
  <2>1. controlFile.redo \in 1..(durable + 1)
    BY DEF CheckpointOK
  <2> QED BY <1>0, <2>1 DEF PageBrings
<1>2. Waited => at[Checkpointer] # "idle"
  BY DEF Waited, Phase, IOStates
<1>3. Waited => ~Replaying
  BY <1>2 DEF StartupOK
<1>4. Waited => checkPoint.redo \in 1..(Len(log) + 1) /\ Replayed = Len(log) + 1
  BY <1>2, <1>3 DEF CheckpointOK, Replayed
<1> QED BY <1>0, <1>1, <1>3, <1>4 DEF RedoPoint

(* No commit before a redo point is still to be marked. *)
LEMMA MarkedBefore ==
  ASSUME ControlInv, PageBrings, OrderOK, DelayOK, MarkedOK, at[Startup] # "failed", NEW n, RedoPoint(n),
         NEW i \in 1..Len(log), i < n, log[i].kind = "commit", NEW x, x = log[i].xid
  PROVE  StatusOf(x) = "committed"
<1> USE DEF ControlInv
<1>0. n \in Nat /\ n <= Len(log) + 1 /\ n <= Replayed /\ (Waited => ~Replaying) /\ Len(log) \in Nat
  BY RedoPointBounds DEF LogOK
<1>1. i < Replayed
  <2>1. Replayed \in Nat
    BY DEF Replayed, StartupOK, LogOK
  <2> QED BY <1>0, <2>1
<1>2. StatusOf(x) = "committed" \/ Marking(x)
  BY <1>1 DEF MarkedOK
<1>3. ASSUME NEW b \in Backends, Committing(b), my[b].xid = x PROVE FALSE
  <2>1. /\ my[b].lsn \in 1..Len(log) /\ log[my[b].lsn].kind = "commit" /\ log[my[b].lsn].xid = my[b].xid
        /\ controlFile.redo <= my[b].lsn
        /\ Waited => checkPoint.redo <= my[b].lsn
    BY <1>3 DEF DelayOK
  <2>2. my[b].lsn = i
    BY <1>3, <2>1 DEF OrderOK, EndOnce, Ending
  <2>3. n <= i
    BY <2>1, <2>2 DEF RedoPoint
  <2> QED BY <1>0, <2>3
<1>4. ASSUME Redoing, my[Startup].xid = x PROVE FALSE
  <2>1. Replaying /\ Phase(Startup) = "setStatus"
    BY <1>4 DEF Redoing, Phase, Replaying, IOStates
  <2>2. replay \in 1..(Len(log) + 1) /\ replay > 1 /\ log[replay - 1].kind = "commit" /\ log[replay - 1].xid = x
    BY <1>4, <2>1 DEF StartupOK, Redoing
  <2>3. controlFile.redo < replay /\ n = controlFile.redo
    BY <1>0, <2>1 DEF DelayOK, RedoPoint
  <2>4. replay - 1 \in 1..Len(log)
    BY <1>0, <2>2
  <2>5. replay - 1 = i
    BY <2>2, <2>4 DEF OrderOK, EndOnce, Ending
  <2> QED BY <1>0, <2>2, <2>3, <2>5
<1> QED BY <1>2, <1>3, <1>4 DEF Marking

(* So what is in a slot has all that replay does not bring back... *)
LEMMA SlotShows ==
  ASSUME ControlInv, PageBrings, OrderOK, DelayOK, MarkedOK, at[Startup] # "failed", NEW n, RedoPoint(n),
         NEW q \in Pages, slot[q].status \in {"valid", "writing"}
  PROVE  Shows(log, n, q, slot[q].bits)
<1>1. slot[q].bits # None
  BY DurabilityConstants DEF ControlInv, SlotOK, Status
<1>2. ASSUME NEW i \in 1..Len(log), i < n, log[i].kind = "commit", TransactionIdToPage(log[i].xid) = q
      PROVE  slot[q].bits[log[i].xid] = "committed"
  <2>1. PICK x : x = log[i].xid
    OBVIOUS
  <2>2. StatusOf(x) = "committed"
    BY <1>2, <2>1, MarkedBefore
  <2> QED BY <1>2, <2>1, <2>2 DEF StatusOf
<1> QED BY <1>1, <1>2 DEF Shows

(* ... and so has the file of a page that the checkpoint need not write. *)
LEMMA FileShows ==
  ASSUME ControlInv, PageBrings, OrderOK, DelayOK, MarkedOK, at[Startup] # "failed", NEW n, RedoPoint(n),
         NEW q \in Pages, CleanOK(q), slot[q].status \in {"empty", "reading"} \/ (slot[q].status = "valid" /\ ~slot[q].dirty)
  PROVE  Shows(log, n, q, xactFile[q])
<1> SUFFICES ASSUME NEW i \in 1..Len(log), i < n, log[i].kind = "commit", TransactionIdToPage(log[i].xid) = q
             PROVE  xactFile[q] # None /\ xactFile[q][log[i].xid] = "committed"
  BY DEF Shows
<1>1. PICK x : x = log[i].xid
  OBVIOUS
<1>2. StatusOf(x) = "committed"
  BY <1>1, MarkedBefore
<1>3. x \in On(q)
  BY <1>1 DEF ControlInv, LogOK, Traces, On
<1>4. CASE slot[q].status = "valid" /\ ~slot[q].dirty
  <2>1. slot[q].bits[x] = "committed"
    BY <1>1, <1>2, <1>4 DEF StatusOf
  <2>2. slot[q].bits # None
    BY DurabilityConstants DEF ControlInv, SlotOK, Status
  <2> QED BY <1>1, <1>3, <1>4, <2>1, <2>2 DEF CleanOK, AsFile
<1>5. CASE slot[q].status \in {"empty", "reading"}
  BY <1>1, <1>2, <1>5 DEF StatusOf
<1> QED BY <1>4, <1>5

(* Who has written a page of pg_xact asks for its sync. *)
LEMMA WriterFate ==
  ASSUME ControlInv, Move, ~Crash, NEW p \in Everyone, at[p] = "xactWritten"
  PROVE  \/ SlruWritten(p) /\ io[p].page \in pending'
         \/ at'[p] = "xactWritten" /\ io'[p].page = io[p].page
<1> USE Names DEF ControlInv
<1>1. ASSUME NEW c \in Backends, BackendMove(c) PROVE at'[p] = at[p] /\ io' = io
  BY <1>1, BackendPhases DEF OthersThere, IOStates
<1>2. ASSUME NEW c \in Backends \union {Startup},
             SetBit(c) \/ SlruPhysicalReadPage(c) \/ (\E pg \in Pages : BeginRead(c, pg))
      PROVE  at'[p] = at[p] /\ io'[p] = io[p]
  <2>1. c # p /\ c \in Everyone
    BY <1>2 DEF SetBit, SlruPhysicalReadPage, BeginRead, Wants
  <2> QED BY <1>2, <2>1, SetBitPhases, ReadPhases, BeginReadPhases DEF OthersThere
<1>3. ASSUME NEW c \in Everyone \ {BgWriter},
             SlruWrite(c) \/ (\E pg \in Pages, back \in Backs : BeginWrite(c, pg, back))
      PROVE  at'[p] = at[p] /\ io'[p] = io[p]
  <2>1. c # p
    BY <1>3 DEF SlruWrite, BeginWrite
  <2> QED BY <1>3, <2>1, WritePhases, BeginWritePhases DEF OthersThere
<1>4. ASSUME NEW c \in Everyone \ {BgWriter}, SlruWritten(c), c # p PROVE at'[p] = at[p] /\ io'[p] = io[p]
  BY <1>4, WrittenPhases DEF OthersThere
<1>5. SlruWritten(p) => io[p].page \in pending'
  BY DEF SlruWritten, WriteEnd
<1>6. ASSUME NEW pg \in Pages, TakeOver(pg) PROVE at' = at /\ io' = io
  BY <1>6 DEF TakeOver
<1>7. ASSUME NEW c \in {BgWriter, Checkpointer}, BeginFlush(c) \/ HeapWrite(c) \/ HeapWritten(c) PROVE at'[p] = at[p] /\ io' = io
  BY <1>7, HeapIOPhases DEF OthersThere, IOStates
<1>8. ASSUME CheckpointerMove PROVE at'[p] = at[p] /\ io'[p] = io[p]
  <2>1. at[Checkpointer] # "xactWritten"
    BY <1>8 DEF CheckpointerMove, CkptRedo, CkptNextXid, CkptDelay, SkipPage, BufferSync, SkipBuffer, ProcessSyncRequests,
                CkptRecord, UpdateControlFile, SlruWriteFailed, HeapWriteFailed
  <2>2. p # Checkpointer
    BY <2>1
  <2>3. p = Startup => at'[Startup] = at[Startup]
    BY <1>8, CheckpointerPhases
  <2>4. io'[p] = io[p] /\ (p # Startup => at'[p] = at[p])
    BY <1>8, <2>2, CheckpointerPhases DEF Everyone
  <2> QED BY <2>3, <2>4
<1>9. ASSUME StartupMove PROVE at'[p] = at[p] /\ io' = io
  <2>1. at[Startup] = "replay" /\ at[Checkpointer] = "idle" /\ io' = io
    BY <1>9, StartupPhases DEF StartupOK, Replaying
  <2>2. p \in Backends \union {BgWriter}
    BY <2>1 DEF Everyone
  <2> QED BY <1>9, <2>1, <2>2, StartupPhases
<1>10. Nothing => at' = at /\ io' = io
  BY DEF Nothing
<1>11. SharedMove => SlruWritten(p) \/ (at'[p] = at[p] /\ io'[p] = io[p])
  BY <1>2, <1>3, <1>4, <1>6, <1>7 DEF SharedMove
<1> QED BY <1>1, <1>5, <1>8, <1>9, <1>10, <1>11 DEF Move

(* The contents a crash may leave, as a step leaves them. *)
LEMMA KeptFate ==
  ASSUME ControlInv, BufferLockOK, Move, ~Crash, NEW q \in Pages
  PROVE  \/ xactKept'[q] = xactKept[q] /\ xactFile'[q] = xactFile[q]
         \/ /\ ProcessSyncRequests /\ q \in pending /\ xactKept'[q] = {xactFile[q]} /\ xactFile'[q] = xactFile[q]
         \/ /\ slot[q].status = "writing" /\ at[Startup] # "failed" /\ ~ProcessSyncRequests
            /\ xactFile'[q] = slot[q].bits /\ xactKept'[q] = xactKept[q] \union {slot[q].bits}
            /\ \E p \in Everyone : at'[p] = "xactWritten" /\ io'[p].page = q
<1> USE Names DEF ControlInv
<1>1. CASE UNCHANGED <<xactFile, xactKept>>
  BY <1>1
<1>2. CASE ProcessSyncRequests
  BY <1>2 DEF ProcessSyncRequests
<1>3. ASSUME NEW p \in Everyone \ {BgWriter}, SlruWrite(p)
      PROVE  \/ xactKept'[q] = xactKept[q] /\ xactFile'[q] = xactFile[q]
             \/ /\ slot[q].status = "writing" /\ at[Startup] # "failed" /\ ~ProcessSyncRequests
                /\ xactFile'[q] = slot[q].bits /\ xactKept'[q] = xactKept[q] \union {slot[q].bits}
                /\ at'[p] = "xactWritten" /\ io'[p].page = q
  <2>1. /\ xactFile' = [xactFile EXCEPT ![io[p].page] = slot[io[p].page].bits]
        /\ xactKept' = [xactKept EXCEPT ![io[p].page] = @ \union {slot[io[p].page].bits}]
        /\ at[p] = "xactWrite"
    BY <1>3 DEF SlruWrite, PhysicalWrite
  <2>2. CASE io[p].page # q
    BY <2>1, <2>2 DEF FilesOK
  <2>3. CASE io[p].page = q
    <3>1. xactFile'[q] = slot[q].bits /\ xactKept'[q] = xactKept[q] \union {slot[q].bits} /\ slot[q].status = "writing"
      BY <2>1, <2>3 DEF FilesOK, BufferLockOK
    <3>2. at'[p] = "xactWritten" /\ io'[p].page = q
      BY <1>3, <2>3, WritePhases
    <3>3. at[Startup] # "failed"
      BY <2>1, AloneInReplay DEF Replaying, IOStates
    <3>4. ~ProcessSyncRequests
      <4>1. ProcessSyncRequests => at'[Checkpointer] = "ckRecord" /\ at[Checkpointer] = "ckSync"
        BY GotoOnly DEF ProcessSyncRequests
      <4>2. Checkpointer # p => at'[Checkpointer] = at[Checkpointer]
        BY <1>3, WritePhases DEF OthersThere
      <4> QED BY <2>1, <4>1, <4>2
    <3> QED BY <3>1, <3>2, <3>3, <3>4
  <2> QED BY <2>2, <2>3
<1> QED BY <1>1, <1>2, <1>3, FileChange

(* What the checkpoint has visited, after a step. *)
LEMMA VisitedFate ==
  ASSUME ControlInv, DelayOK, Move, ~Crash, NEW q \in Pages
  PROVE  /\ Visited(q)' => /\ checkPoint'.redo = checkPoint.redo /\ Waited /\ ~ProcessSyncRequests
                           /\ Visited(q) \/ SkipPage(q)
         /\ Phase(Checkpointer)' \in {"ckRecord", "ckControl"} =>
              /\ checkPoint'.redo = checkPoint.redo /\ Waited
              /\ (ProcessSyncRequests /\ Visited(q)) \/ (~ProcessSyncRequests /\ Phase(Checkpointer) \in {"ckRecord", "ckControl"})
         /\ ProcessSyncRequests => Phase(Checkpointer) = "ckSync"
<1> USE Names DEF ControlInv
<1>0. ProcessSyncRequests => Phase(Checkpointer) = "ckSync" /\ Phase(Checkpointer)' = "ckRecord"
  <2>1. ASSUME ProcessSyncRequests PROVE Phase(Checkpointer)' = "ckRecord"
    BY <2>1, CheckpointerPhases, GotoOnly DEF CheckpointerMove, ProcessSyncRequests
  <2> QED BY <2>1 DEF ProcessSyncRequests, Phase, IOStates
<1>1. Phase(Checkpointer) = "ckDelay" => checkPoint.pages = Pages
  BY DEF DelayOK
<1>2. CASE CkptRests \/ CkptWrites \/ CkptSyncs \/ CkptLogs
  BY <1>0, <1>2 DEF CkptRests, CkptWrites, CkptSyncs, CkptLogs, Visited, Waited
<1>3. ASSUME NEW pg \in Pages, CkptSkips(pg)
      PROVE  /\ Phase(Checkpointer)' = "ckXact" /\ checkPoint'.redo = checkPoint.redo /\ Waited /\ ~ProcessSyncRequests
             /\ Visited(q)' => Visited(q) \/ SkipPage(q)
  BY <1>0, <1>3 DEF CkptSkips, Visited, Waited
<1>4. CASE CkptWaits
  BY <1>0, <1>1, <1>4 DEF CkptWaits, Visited
<1>5. CASE CkptBegins \/ CkptReads \/ CkptEnds \/ CkptFails
  BY <1>0, <1>5 DEF CkptBegins, CkptReads, CkptEnds, CkptFails, Visited
<1> QED BY <1>0, <1>2, <1>3, <1>4, <1>5, CkptFate

(* What a crash may leave has all that replay does not bring back. *)
LEMMA KeptStep ==
  ASSUME ControlInv, ControlInv', PageBrings, BufferLockOK, CommitInv, Move, NEW q \in Pages
  PROVE  KeptOK(q)'
<1> USE Names DEF ControlInv
<1>0. OrderOK /\ DelayOK /\ MarkedOK /\ CleanOK(q) /\ KeptOK(q)
  BY DEF CommitInv
<1>a. ASSUME NEW n, RedoPoint(n), NEW bits, Shows(log, n, q, bits) PROVE Shows(log', n, q, bits)
  BY <1>a, RedoPointBounds, ShowsStays
<1>1. CASE Crash
  <2>1. xactKept'[q] = {xactFile'[q]} /\ xactFile'[q] \in xactKept[q] /\ controlFile' = controlFile
    BY <1>1 DEF Crash, SlruCrash
  <2>2. PICK n : n = controlFile.redo
    OBVIOUS
  <2>3. RedoPoint(n)
    BY <2>2 DEF RedoPoint
  <2>4. Shows(log, n, q, xactFile'[q])
    BY <1>0, <2>1, <2>2 DEF KeptOK
  <2>5. Shows(log', n, q, xactFile'[q])
    BY <1>a, <2>3, <2>4
  <2>6. Phase(Checkpointer)' = "idle"
    BY <1>1, CrashPhases
  <2> QED BY <2>1, <2>2, <2>5, <2>6 DEF KeptOK, Visited
<1> SUFFICES ASSUME ~Crash PROVE KeptOK(q)'
  BY <1>1
<1>2. \A bits \in xactKept'[q] : bits \in xactKept[q] \/ (bits = slot[q].bits /\ slot[q].status = "writing" /\ at[Startup] # "failed")
  <2>1. xactFile[q] \in xactKept[q]
    BY DEF FilesOK
  <2> QED BY <2>1, KeptFate
<1>3. ASSUME NEW n, RedoPoint(n), \A bits \in xactKept[q] : Shows(log, n, q, bits)
      PROVE  \A bits \in xactKept'[q] : Shows(log', n, q, bits)
  <2>1. slot[q].status = "writing" /\ at[Startup] # "failed" => Shows(log, n, q, slot[q].bits)
    BY <1>0, <1>3, SlotShows
  <2>2. \A bits \in xactKept'[q] : Shows(log, n, q, bits)
    BY <1>2, <1>3, <2>1
  <2> QED BY <1>a, <1>3, <2>2
<1>4. \A bits \in xactKept'[q] : Shows(log', controlFile'.redo, q, bits)
  <2>1. PICK n : n = controlFile'.redo
    OBVIOUS
  <2>2. CASE n = controlFile.redo
    <3>1. \A bits \in xactKept[q] : Shows(log, n, q, bits)
      BY <1>0, <2>2 DEF KeptOK
    <3> QED BY <1>3, <2>1, <2>2, <3>1 DEF RedoPoint
  <2>3. CASE Phase(Checkpointer) = "ckControl" /\ n = checkPoint.redo
    <3>1. \A bits \in xactKept[q] : Shows(log, n, q, bits)
      BY <1>0, <2>3 DEF KeptOK
    <3>2. RedoPoint(n)
      BY <2>3 DEF RedoPoint, Waited
    <3> QED BY <1>3, <2>1, <3>1, <3>2
  <2> QED BY <2>1, <2>2, <2>3, RedoFate
<1>5. ASSUME Visited(q)'
      PROVE  /\ Shows(log', checkPoint'.redo, q, xactFile'[q])
             /\ q \in pending' \/ \A bits \in xactKept'[q] : Shows(log', checkPoint'.redo, q, bits)
  <2>1. PICK n : n = checkPoint'.redo
    OBVIOUS
  <2>2. n = checkPoint.redo /\ Waited /\ ~ProcessSyncRequests /\ (Visited(q) \/ SkipPage(q)) /\ RedoPoint(n)
    BY <1>0, <1>5, <2>1, VisitedFate DEF RedoPoint
  <2>3. CASE Visited(q)
    <3>1. /\ Shows(log, n, q, xactFile[q])
          /\ q \in pending \/ \A bits \in xactKept[q] : Shows(log, n, q, bits)
      BY <1>0, <2>2, <2>3 DEF KeptOK
    <3>2. Shows(log, n, q, xactFile'[q])
      <4>1. slot[q].status = "writing" /\ at[Startup] # "failed" => Shows(log, n, q, slot[q].bits)
        BY <1>0, <2>2, SlotShows
      <4> QED BY <3>1, <4>1, KeptFate
    <3>3. Shows(log', n, q, xactFile'[q])
      BY <1>a, <2>2, <3>2
    <3>4. q \in pending => q \in pending'
      BY <2>2, PendingStays
    <3> QED BY <1>3, <2>1, <2>2, <3>1, <3>3, <3>4
  <2>4. CASE SkipPage(q)
    <3>1. /\ slot[q].status \in {"empty", "reading"} \/ (slot[q].status = "valid" /\ ~slot[q].dirty)
          /\ xactFile' = xactFile /\ xactKept' = xactKept /\ pending' = pending /\ log' = log
      BY <2>4 DEF SkipPage, slruVars
    <3>2. at[Startup] # "failed"
      BY <2>2, RedoPointBounds DEF Replaying
    <3>3. Shows(log, n, q, xactFile[q])
      BY <1>0, <2>2, <3>1, <3>2, FileShows
    <3>4. xactKept[q] = {xactFile[q]} \/ q \in pending
      BY <1>0, <3>1 DEF KeptOK, BufferLockOK
    <3> QED BY <2>1, <3>1, <3>3, <3>4
  <2> QED BY <2>2, <2>3, <2>4
<1>6. ASSUME Phase(Checkpointer)' \in {"ckRecord", "ckControl"}
      PROVE  \A bits \in xactKept'[q] : Shows(log', checkPoint'.redo, q, bits)
  <2>1. PICK n : n = checkPoint'.redo
    OBVIOUS
  <2>2. /\ n = checkPoint.redo /\ RedoPoint(n)
        /\ (ProcessSyncRequests /\ Visited(q)) \/ (~ProcessSyncRequests /\ Phase(Checkpointer) \in {"ckRecord", "ckControl"})
    BY <1>0, <1>6, <2>1, VisitedFate DEF RedoPoint
  <2>3. CASE ProcessSyncRequests /\ Visited(q)
    <3>1. /\ Shows(log, n, q, xactFile[q])
          /\ q \in pending \/ \A bits \in xactKept[q] : Shows(log, n, q, bits)
      BY <1>0, <2>2, <2>3 DEF KeptOK
    <3>2. xactKept'[q] = IF q \in pending THEN {xactFile[q]} ELSE xactKept[q]
      BY <2>3 DEF ProcessSyncRequests
    <3>3. \A bits \in xactKept'[q] : Shows(log, n, q, bits)
      BY <3>1, <3>2
    <3> QED BY <1>a, <2>1, <2>2, <3>3
  <2>4. CASE Phase(Checkpointer) \in {"ckRecord", "ckControl"}
    <3>1. \A bits \in xactKept[q] : Shows(log, n, q, bits)
      BY <1>0, <2>2, <2>4 DEF KeptOK
    <3> QED BY <1>3, <2>1, <2>2, <3>1
  <2> QED BY <2>2, <2>3, <2>4
<1>7. \/ xactKept'[q] = {xactFile'[q]}
      \/ q \in pending'
      \/ \E p \in Everyone : at'[p] = "xactWritten" /\ io'[p].page = q
  <2>1. CASE xactKept'[q] = xactKept[q] /\ xactFile'[q] = xactFile[q]
    <3>1. CASE xactKept[q] = {xactFile[q]}
      BY <2>1, <3>1
    <3>2. CASE q \in pending /\ ~ProcessSyncRequests
      BY <3>2, PendingStays
    <3>3. CASE q \in pending /\ ProcessSyncRequests
      <4>1. xactKept'[q] = {xactFile[q]}
        BY <3>3 DEF ProcessSyncRequests
      <4> QED BY <2>1, <4>1
    <3>4. ASSUME NEW p \in Everyone, at[p] = "xactWritten", io[p].page = q
          PROVE  q \in pending' \/ (at'[p] = "xactWritten" /\ io'[p].page = q)
      BY <3>4, WriterFate
    <3> QED BY <1>0, <3>1, <3>2, <3>3, <3>4 DEF KeptOK
  <2> QED BY <2>1, KeptFate
<1> QED BY <1>4, <1>5, <1>6, <1>7 DEF KeptOK

(* --- Commits are kept --------------------------------------------------------------------------------- *)

(* After a clean start the transactions in the log show in the files, from which nothing has been read. *)
LEMMA InitCommit == Init => CommitInv
<1> SUFFICES ASSUME NEW plan \in Plans, InitFrom(plan) PROVE CommitInv
  BY DEF Init
<1> USE Names
<1>0. /\ plan.nextXid \in Nat \ {0} /\ plan.nextXid <= MaxXid /\ Len(log) = plan.nextXid /\ durable = Len(log)
      /\ \A i \in 1..Len(log) : log[i].kind = "commit" /\ log[i].xid = i - 1 /\ i - 1 \in Xids
  BY StartLog
<1>1. \A p \in Everyone : at[p] = "idle" /\ Phase(p) = "idle" /\ my[p].kind = None
  BY DEF InitFrom, Idle, Phase, IOStates, NoXact
<1>2. ASSUME NEW pg \in Pages
      PROVE  /\ slot[pg] = Empty(pg) /\ slot[pg].status = "empty"
             /\ xactFile[pg] = InitialPage(pg, plan.nextXid) /\ xactKept[pg] = {xactFile[pg]}
  <2>1. slot[pg] = Empty(pg) /\ xactFile[pg] = InitialPage(pg, plan.nextXid) /\ xactKept[pg] = {xactFile[pg]}
    BY DEF InitFrom
  <2> QED BY <2>1, EmptySlot
<1>3. ASSUME NEW i \in 1..Len(log), NEW pg \in Pages, NEW x, x = log[i].xid, TransactionIdToPage(x) = pg
      PROVE  xactFile[pg] # None /\ xactFile[pg][x] = "committed"
  <2>1. x \in On(pg) /\ x < plan.nextXid
    BY <1>0, <1>3 DEF On
  <2>2. xactFile[pg] = [y \in On(pg) |-> IF y < plan.nextXid THEN "committed" ELSE "inProgress"]
    BY <1>2, <2>1 DEF InitialPage
  <2>3. xactFile[pg] \in [On(pg) -> {"inProgress", "committed", "aborted"}]
    BY <2>2
  <2> QED BY <2>1, <2>2, <2>3, DurabilityConstants
<1>4. OrderOK
  <2>1. ZeroFirst(log)
    BY <1>0 DEF ZeroFirst
  <2>2. EndOnce(log)
    BY <1>0 DEF EndOnce
  <2>3. None \notin Updates /\ None # "abort"
    BY DurabilityConstants DEF Updates
  <2> QED BY <1>1, <2>1, <2>2, <2>3 DEF OrderOK
<1>5. DelayOK
  BY <1>1 DEF DelayOK, Committing
<1>6. MarkedOK
  <2> SUFFICES ASSUME NEW i \in 1..Len(log), log[i].kind = "commit" PROVE StatusOf(log[i].xid) = "committed"
    BY DEF MarkedOK
  <2>1. PICK x : x = log[i].xid
    OBVIOUS
  <2>2. x \in Xids
    BY <1>0, <2>1
  <2>3. PICK pg : pg = TransactionIdToPage(x)
    OBVIOUS
  <2>4. pg \in Pages
    BY <2>2, <2>3, PageOfXid
  <2>5. slot[pg].status = "empty" /\ xactFile[pg] # None /\ xactFile[pg][x] = "committed"
    BY <1>2, <1>3, <2>1, <2>3, <2>4
  <2> QED BY <2>1, <2>3, <2>5 DEF StatusOf
<1>7. ASSUME NEW pg \in Pages PROVE CleanOK(pg)
  BY <1>1, <1>2 DEF CleanOK
<1>8. ASSUME NEW pg \in Pages PROVE KeptOK(pg)
  <2>1. \A n : Shows(log, n, pg, xactFile[pg])
    BY <1>3 DEF Shows
  <2> QED BY <1>1, <1>2, <2>1 DEF KeptOK, Visited
<1> QED BY <1>4, <1>5, <1>6, <1>7, <1>8 DEF CommitInv

(* Every step keeps what commits rely on. *)
LEMMA CommitStep == ControlInv /\ ControlInv' /\ LoggedInv /\ BroughtInv /\ CommitInv /\ [Next]_vars => CommitInv'
<1> SUFFICES ASSUME ControlInv, ControlInv', LoggedInv, BroughtInv, CommitInv, [Next]_vars PROVE CommitInv'
  OBVIOUS
<1>1. Move
  BY Moves
<1>2. FreshOK /\ BufferLockOK /\ PageBrings /\ OrderOK /\ DelayOK
  BY DEF LoggedInv, BroughtInv, CommitInv
<1>3. OrderOK' /\ DelayOK' /\ MarkedOK'
  BY <1>1, <1>2, OrderStep, DelayStep, MarkedStep
<1>4. ASSUME NEW pg \in Pages PROVE CleanOK(pg)'
  BY <1>1, <1>2, CleanStep DEF CommitInv
<1>5. ASSUME NEW pg \in Pages PROVE KeptOK(pg)'
  BY <1>1, <1>2, KeptStep
<1> QED BY <1>3, <1>4, <1>5 DEF CommitInv

(* Whatever a crash may leave of pg_xact has the mark of every commit before the control file's redo *)
(* point, and the running system that of every commit that recovery has passed, but for those whose  *)
(* own process is about to set it: RecordTransactionCommit holds a checkpoint up until it has, and    *)
(* CheckPointCLOG then writes what SimpleLruReadPage and SlruSelectLRUPage have not written before.   *)
THEOREM SpecCommit == Spec => [](ControlInv /\ LoggedInv /\ BroughtInv /\ CommitInv)
<1>1. Init => CommitInv
  BY InitCommit
<1>2. ControlInv /\ ControlInv' /\ LoggedInv /\ BroughtInv /\ CommitInv /\ [Next]_vars => CommitInv'
  BY CommitStep
<1> QED BY <1>1, <1>2, SpecBrought, PTL DEF Spec

(* A mark that says committed has its record in the log. *)
LEMMA StatusLogged ==
  ASSUME ControlInv, LoggedInv, NEW x \in Xids, StatusOf(x) = "committed"
  PROVE  Has(log, "commit", x, Len(log))
<1> USE DEF ControlInv
<1>0. Len(log) \in Nat /\ durable \in Nat /\ durable <= Len(log)
  BY DEF LogOK
<1>1. PICK q : q = TransactionIdToPage(x)
  OBVIOUS
<1>2. q \in Pages /\ x \in On(q)
  BY <1>1, PageOfXid
<1>3. Has(log, "commit", x, durable) => Has(log, "commit", x, Len(log))
  BY <1>0, HasMore
<1>4. CASE slot[q].status \in {"valid", "writing"}
  <2>1. slot[q].lsn \in Nat /\ slot[q].lsn <= Len(log)
    BY <1>2 DEF SlotOK, SlotType, LoggedInv, SlotLogged
  <2>2. slot[q].bits[x] = "committed"
    BY <1>1, <1>4 DEF StatusOf
  <2>3. Has(log, "commit", x, durable) \/ Has(log, "commit", x, slot[q].lsn)
    BY <1>2, <2>2 DEF LoggedInv, SlotLogged
  <2>4. Has(log, "commit", x, slot[q].lsn) => Has(log, "commit", x, Len(log))
    BY <1>0, <2>1, HasMore
  <2> QED BY <1>3, <2>3, <2>4
<1>5. CASE slot[q].status \notin {"valid", "writing"}
  <2>1. xactFile[q] # None /\ xactFile[q][x] = "committed"
    BY <1>1, <1>5 DEF StatusOf
  <2>2. xactFile[q] \in xactKept[q]
    BY <1>2 DEF FilesOK
  <2> QED BY <1>2, <1>3, <2>1, <2>2 DEF LoggedInv, FileLogged
<1> QED BY <1>4, <1>5

(* While the server is up a transaction that has ended shows as committed in pg_xact exactly if its    *)
(* commit record is in the log, whichever checkpoints, evictions, failed writes and crashes came       *)
(* between (RecordTransactionCommit, TransactionIdSetStatus, CheckPointCLOG, SlruInternalWritePage,     *)
(* xact_redo, TrimCLOG).                                                                              *)
THEOREM SpecCommitsKept == Spec => []CommitsKept
<1>1. ControlInv /\ LoggedInv /\ BroughtInv /\ CommitInv => CommitsKept
  <2> SUFFICES ASSUME ControlInv, LoggedInv, CommitInv, Up, NEW x \in Xids \ Running
               PROVE  (StatusOf(x) = "committed") <=> (x \in Committed)
    BY DEF CommitsKept
  <2>1. (StatusOf(x) = "committed") => (x \in Committed)
    BY StatusLogged, HasRecords DEF Committed
  <2>2. ASSUME x \in Committed PROVE StatusOf(x) = "committed"
    <3>1. PICK i \in 1..Len(log) : log[i].kind = "commit" /\ log[i].xid = x
      BY <2>2, HasRecords DEF Committed, Has
    <3>2. i < Replayed /\ at[Startup] # "failed" /\ Phase(Startup) # "setStatus"
      BY DEF ControlInv, LogOK, Replayed, Replaying, Up, Phase, IOStates
    <3>3. StatusOf(x) = "committed" \/ Marking(x)
      BY <3>1, <3>2 DEF CommitInv, MarkedOK
    <3>4. ~Marking(x)
      BY <3>2 DEF Marking, Committing, Redoing, Running, Updates
    <3> QED BY <3>3, <3>4
  <2> QED BY <2>1, <2>2
<1> QED BY <1>1, SpecCommit, PTL

(* --- Commits that were answered ------------------------------------------------------------------ *)

(* A commit that was answered has its record on disk, and no transaction that runs has its id. *)
AnsweredInv ==
  \A n \in acked : /\ n \in 1..durable /\ log[n].kind = "commit"
                   /\ \A b \in Backends : my[b].kind \in Updates => my[b].xid # log[n].xid

(* A commit is answered by EndTransaction only. *)
LEMMA AnsweredChange ==
  ASSUME [Next]_vars
  PROVE  \/ acked' = acked
         \/ \E b \in Backends : EndTransaction(b) /\ my[b].kind = "sync" /\ acked' = acked \union {my[b].lsn}
<1> USE DEF walVars, XLogFlush, Sync, Insert, Log
<1>1. \A p, pg : FetchPage(p, pg) => acked' = acked
  BY DEF FetchPage, StartWriting
<1>2. ASSUME NEW b \in Backends, TransactionStep(b), ~EndTransaction(b) PROVE acked' = acked
  <2>1. CASE ExtendCLOG(b)
    BY <2>1 DEF ExtendCLOG, StartWriting
  <2>2. CASE TransactionIdGetStatus(b)
    BY <1>1, <2>2 DEF TransactionIdGetStatus
  <2>3. CASE GetNewTransactionId(b) \/ InsertTuple(b) \/ InsertFails(b) \/ LogInsert(b) \/ LogEnd(b) \/ FlushCommit(b)
    BY <2>3 DEF GetNewTransactionId, InsertTuple, InsertFails, LogInsert, LogEnd, FlushCommit
  <2>4. CASE Scan(b) \/ ScanNothing(b) \/ SetHintBits(b) \/ MarkBufferDirtyHint(b)
    BY <2>4 DEF Scan, ScanNothing, SetHintBits, MarkBufferDirtyHint
  <2> QED BY <1>2, <2>1, <2>2, <2>3, <2>4 DEF TransactionStep
<1>3. ASSUME NEW b \in Backends, EndTransaction(b)
      PROVE  acked' = acked \/ (my[b].kind = "sync" /\ acked' = acked \union {my[b].lsn})
  BY <1>3 DEF EndTransaction
<1>4. \A p : TransactionIdSetStatus(p) \/ SlruPhysicalReadPage(p) \/ SlruWrite(p) \/ SlruWritten(p) => acked' = acked
  BY <1>1 DEF TransactionIdSetStatus, SlruPhysicalReadPage, SlruWrite, SlruWritten
<1>5. \A p : HeapWrite(p) \/ HeapWritten(p) => acked' = acked
  BY DEF HeapWrite, HeapWritten
<1>6. BgWrite \/ SlruWriteFailed \/ HeapWriteFailed => acked' = acked
  BY DEF BgWrite, FlushBuffer, SlruWriteFailed, HeapWriteFailed
<1>7. CreateCheckPoint => acked' = acked
  <2>1. CheckPointCLOG => acked' = acked
    BY <1>1 DEF CheckPointCLOG, StartWriting
  <2>2. SyncOneBuffer => acked' = acked
    BY DEF SyncOneBuffer, FlushBuffer
  <2> QED BY <2>1, <2>2 DEF CreateCheckPoint, CkptRedo, CkptNextXid, CkptDelay, BufferSync, ProcessSyncRequests, CkptRecord,
                            UpdateControlFile
<1>8. Crash => acked' = acked
  BY DEF Crash, Lose
<1>9. ApplyWalRecord \/ RedoZeroPage \/ TrimCLOG => acked' = acked
  BY <1>1 DEF ApplyWalRecord, RedoZeroPage, StartWriting, TrimCLOG
<1>10. Done \/ UNCHANGED vars => acked' = acked
  BY DEF Done, vars
<1> QED BY <1>2, <1>3, <1>4, <1>5, <1>6, <1>7, <1>8, <1>9, <1>10 DEF Next

\* Every step keeps AnsweredInv: a synchronous commit waits for its record before it ends, a crash
\* takes nothing that is on disk, and no id in the log is given again.
LEMMA AnsweredStep == ControlInv /\ ControlInv' /\ LoggedInv /\ CommitInv /\ AnsweredInv /\ [Next]_vars => AnsweredInv'
<1> SUFFICES ASSUME ControlInv, ControlInv', LoggedInv, CommitInv, AnsweredInv, [Next]_vars, NEW n \in acked'
             PROVE  /\ n \in 1..durable' /\ log'[n].kind = "commit"
                    /\ \A b \in Backends : my'[b].kind \in Updates => my'[b].xid # log'[n].xid
  BY DEF AnsweredInv
<1> USE Names
<1>0. Move
  BY Moves
<1>1. durable \in Nat /\ durable' \in Nat /\ durable <= durable' /\ durable <= Len(log) /\ Len(log) \in Nat /\ durable' <= Len(log')
      /\ \A i \in 1..durable : log'[i] = log[i]
  BY <1>0, DurableStays
<1>2. ASSUME n \in 1..durable, log[n].kind = "commit", NEW b \in Backends, Begins(b) PROVE nextXid # log'[n].xid
  <2>1. CASE Crash
    <3>1. Phase(b)' = "insert" /\ b \in Everyone \ {Startup}
      BY <1>2 DEF Begins
    <3> QED BY <2>1, <3>1, CrashPhases
  <2>2. CASE ~Crash
    <3>1. Uncommitted(log', nextXid)
      BY <1>0, <1>2, <2>2, NewXid DEF LoggedInv
    <3>2. n \in 1..Len(log') /\ log'[n].kind = "commit"
      BY <1>1, <1>2, <2>2, LogFate, <1>0
    <3> QED BY <3>1, <3>2 DEF Uncommitted
  <2> QED BY <2>1, <2>2
<1>3. CASE n \in acked
  <2>1. n \in 1..durable /\ log[n].kind = "commit" /\ log'[n] = log[n] /\ n \in 1..durable'
    BY <1>1, <1>3 DEF AnsweredInv
  <2>2. ASSUME NEW b \in Backends, my'[b].kind \in Updates PROVE my'[b].xid # log'[n].xid
    <3>1. CASE KeepsXid(b)
      BY <1>3, <2>1, <2>2, <3>1 DEF KeepsXid, AnsweredInv
    <3>2. CASE Begins(b)
      BY <1>2, <2>1, <3>2 DEF Begins
    <3> QED BY <1>0, <2>2, <3>1, <3>2, XidFate
  <2> QED BY <2>1, <2>2
<1>4. CASE n \notin acked
  <2>1. PICK c \in Backends : EndTransaction(c) /\ my[c].kind = "sync" /\ n = my[c].lsn
    BY <1>4, AnsweredChange
  <2>2. Phase(c) = "done" /\ BackendMove(c) /\ Phase(c)' = "idle"
    <3>1. BackendMove(c)
      BY <2>1 DEF BackendMove
    <3>2. at'[c] = "idle" /\ at[c] = "done"
      BY <2>1, GotoOnly DEF EndTransaction, ControlInv
    <3> QED BY <3>1, <3>2, BackendPhases
  <2>3. n \in 1..durable /\ log[n].kind = "commit" /\ log[n].xid = my[c].xid
    <3>1. LoggedBy(c)
      BY DEF ControlInv, CommitLogged
    <3> QED BY <1>1, <2>1, <2>2, <3>1 DEF LoggedBy
  <2>4. log'[n] = log[n] /\ n \in 1..durable'
    BY <1>1, <2>3
  <2>5. ASSUME NEW b \in Backends, my'[b].kind \in Updates PROVE my'[b].xid # log'[n].xid
    <3>1. b # c
      <4>1. my'[c] = NoXact[c]
        BY <2>1 DEF EndTransaction, ControlInv, MyOK
      <4>2. NoXact[c].kind = None /\ None \notin Updates
        BY NoXactType, DurabilityConstants DEF Updates
      <4> QED BY <2>5, <4>1, <4>2
    <3>2. CASE KeepsXid(b)
      <4>1. my[c].kind \in Updates
        BY <2>1 DEF Updates
      <4> QED BY <2>3, <2>4, <2>5, <3>1, <3>2, <4>1 DEF KeepsXid, CommitInv, OrderOK
    <3>3. CASE Begins(b)
      BY <1>2, <2>3, <3>3 DEF Begins
    <3> QED BY <1>0, <2>5, <3>2, <3>3, XidFate
  <2> QED BY <2>3, <2>4, <2>5
<1> QED BY <1>3, <1>4

(* A commit that was answered is never lost: its record is on disk, no crash puts another in its place, *)
(* and whenever the server is up pg_xact says committed (RecordTransactionCommit flushes before the       *)
(* answer, StartupXLOG replays, GetNewTransactionId gives no id of the log again).                        *)
THEOREM SpecAnsweredDurable == Spec => []AnsweredDurable
<1>1. Init => AnsweredInv
  BY DEF Init, InitFrom, AnsweredInv
<1>2. ControlInv /\ ControlInv' /\ LoggedInv /\ CommitInv /\ AnsweredInv /\ [Next]_vars => AnsweredInv'
  BY AnsweredStep
<1>3. ControlInv /\ CommitsKept /\ AnsweredInv => AnsweredDurable
  <2> SUFFICES ASSUME ControlInv, CommitsKept, AnsweredInv, NEW n \in acked
               PROVE  n <= durable /\ log[n].kind = "commit" /\ (Up => StatusOf(log[n].xid) = "committed")
    BY DEF AnsweredDurable
  <2>1. n \in 1..durable /\ n \in 1..Len(log) /\ log[n].kind = "commit" /\ durable \in Nat
    BY DEF AnsweredInv, ControlInv, LogOK
  <2>2. log[n].xid \in Xids
    BY <2>1 DEF ControlInv, LogOK, Traces
  <2>3. log[n].xid \notin Running
    BY DEF AnsweredInv, Running
  <2>4. log[n].xid \in Committed
    BY <2>1 DEF Committed, Records
  <2> QED BY <2>1, <2>2, <2>3, <2>4 DEF CommitsKept
<1> QED BY <1>1, <1>2, <1>3, SpecCommit, SpecCommitsKept, PTL DEF Spec

(* --- Hints on the data page ----------------------------------------------------------------------------- *)

(* Once recovery is over the tuples on the page, and those in its file, are of transactions that have begun. *)
LEMMA TuplesBelow ==
  ASSUME ControlInv, LoggedInv, ~Replaying
  PROVE  (\A x \in page.tuples : x < nextXid) /\ \A c \in heapKept : \A x \in c.tuples : x < nextXid
<1> USE DEF ControlInv
<1>0. Len(log) \in Nat /\ durable \in 0..Len(log) /\ nextXid > 0
  BY DEF LogOK, LoggedInv, FreshOK
<1>1. ASSUME NEW n \in Nat, n <= Len(log), NEW x, Has(log, "insert", x, n) PROVE x < nextXid
  <2>1. PICK i \in 1..n : log[i].kind = "insert" /\ log[i].xid = x
    BY <1>1 DEF Has
  <2>2. i \in 1..Len(log)
    BY <1>0, <1>1
  <2> QED BY <2>1, <2>2, LogBelow DEF LoggedInv, Traces
<1>2. ASSUME NEW x \in page.tuples PROVE x < nextXid
  <2>1. page.lsn \in Nat /\ page.lsn <= Len(log)
    BY DEF HeapOK, Content, LoggedInv, PageLogged
  <2>2. x = 0 \/ Has(log, "insert", x, page.lsn) \/ \E b \in Backends : at[b] = "logInsert" /\ my[b].xid = x
    BY <1>2 DEF LoggedInv, PageLogged
  <2>3. ASSUME NEW b \in Backends, at[b] = "logInsert", my[b].xid = x PROVE x < nextXid
    <3>1. my[b].kind \in Updates
      BY <2>3 DEF MyOK, XactOK, Phase, IOStates
    <3> QED BY <2>3, <3>1 DEF LoggedInv, FreshOK
  <2> QED BY <1>0, <1>1, <2>1, <2>2, <2>3
<1>3. ASSUME NEW c \in heapKept, NEW x \in c.tuples PROVE x < nextXid
  <2>1. c.lsn \in Nat /\ c.lsn <= Len(log)
    BY <1>0, <1>3 DEF HeapOK, Content, LoggedInv, KeptLogged
  <2>2. x = 0 \/ Has(log, "insert", x, c.lsn)
    BY <1>3 DEF LoggedInv, KeptLogged
  <2> QED BY <1>0, <1>1, <2>1, <2>2
<1> QED BY <1>2, <1>3

(* An id that has been given: it has left a tuple that is no stray, or somebody looks it up.  *)
Given(x) ==
  \/ x \in page.tuples \/ \E c \in heapKept : x \in c.tuples
  \/ \E b \in Backends : my[b].kind \in Lookups /\ my[b].xid = x

(* Nobody is given an id again that has left a tuple or is being looked up. *)
LEMMA NotGivenAgain ==
  ASSUME ControlInv, LoggedInv, Move, ~Crash, NEW b \in Backends, Begins(b)
  PROVE  ~Given(nextXid)
<1>1. ~Replaying /\ nextXid \in Nat
  BY NewXid, SlruConstants DEF LoggedInv, ControlInv, XidGenOK, NextXids
<1>2. \A c \in Backends : my[c].kind \in Lookups => my[c].xid < nextXid
  BY DEF LoggedInv, FreshOK
<1> QED BY <1>1, <1>2, TuplesBelow DEF Given

(* A transaction that is over stays over. *)
LEMMA GoneStays ==
  ASSUME ControlInv, LoggedInv, Move, NEW x, Gone(x), Given(x)
  PROVE  Gone(x)'
<1>1. ASSUME NEW c \in Backends, LogEnd(c) PROVE my[c].xid # x
  <2>1. my[c].kind \in Updates
    BY <1>1 DEF LogEnd, ControlInv, MyOK, XactOK, Phase, IOStates
  <2> QED BY <2>1 DEF Gone
<1>2. Uncommitted(log', x)
  BY <1>1, UncommittedStays DEF Gone
<1>3. ASSUME NEW b \in Backends, my'[b].kind \in Updates PROVE my'[b].xid # x
  <2>1. CASE ~Crash /\ KeepsXid(b)
    BY <1>3, <2>1 DEF KeepsXid, Gone
  <2>2. CASE ~Crash /\ Begins(b)
    BY <2>2, NotGivenAgain DEF Begins
  <2> QED BY <1>3, <2>1, <2>2, XidFate
<1> QED BY <1>2, <1>3 DEF Gone

(* A hint that says invalid is set by SetHintBits only. *)
LEMMA InvalidChange ==
  ASSUME ControlInv, Move, ~Crash
  PROVE  \/ page'.invalid = page.invalid
         \/ \E b \in Backends : /\ at[b] = "hint" /\ my[b].status # "committed" /\ my[b].kind = "scan"
                               /\ page'.invalid = page.invalid \union {my[b].xid}
<1> USE DEF ControlInv, HeapOK, Content
<1>1. ASSUME NEW b \in Backends, InsertTuple(b) \/ InsertFails(b) \/ LogInsert(b) PROVE page'.invalid = page.invalid
  BY <1>1 DEF InsertTuple, PutTuple, InsertFails, LeaveStray, LogInsert, Stamp
<1>2. RedoTuple => page'.invalid = page.invalid
  BY DEF RedoTuple, RedoInsert
<1>3. ASSUME NEW b \in Backends, SetHintBits(b)
      PROVE  \/ page'.invalid = page.invalid
             \/ /\ at[b] = "hint" /\ my[b].status # "committed" /\ my[b].kind = "scan"
                /\ page'.invalid = page.invalid \union {my[b].xid}
  <2>1. at[b] = "hint"
    BY <1>3 DEF SetHintBits
  <2> QED BY <1>3, <2>1, HintChange
<1> QED BY <1>1, <1>2, <1>3, PageChange

(* A transaction that a scan finds without a mark is over. *)
LEMMA LookedUp ==
  ASSUME ControlInv, LoggedInv, CommitInv, HintInv, NEW b \in Backends, LooksUp(b), my'[b].status # "committed"
  PROVE  Gone(my[b].xid)
<1> USE DEF ControlInv
<1>0. at[b] = "getStatus" /\ Up /\ my[b].kind \in Lookups
  <2>1. at[b] = "getStatus" /\ Phase(b) = "getStatus"
    BY DEF LooksUp, ReadBit
  <2> QED BY <2>1, WhoRuns DEF MyOK, XactOK
<1>1. \A c \in Backends : my[c].kind \in Updates => my[c].xid # my[b].xid
  BY <1>0 DEF HintInv
<1>2. ASSUME NEW i \in 1..Len(log), log[i].kind = "commit", log[i].xid = my[b].xid PROVE FALSE
  <2>1. i < Replayed /\ at[Startup] # "failed" /\ Phase(Startup) # "setStatus"
    BY <1>0 DEF LogOK, Replayed, Replaying, Up, Phase, IOStates
  <2>2. PICK x : x = my[b].xid
    OBVIOUS
  <2>3. StatusOf(x) = "committed" \/ Marking(x)
    BY <1>2, <2>1, <2>2 DEF CommitInv, MarkedOK
  <2>4. ~Marking(x)
    BY <1>1, <2>1, <2>2 DEF Marking, Committing, Redoing, Updates
  <2>5. StatusOf(x) = slot[TransactionIdToPage(x)].bits[x]
    BY <2>2 DEF LooksUp, ReadBit, Usable, StatusOf
  <2> QED BY <2>2, <2>3, <2>4, <2>5 DEF LooksUp
<1> QED BY <1>1, <1>2 DEF Gone, Uncommitted

\* Every step keeps HintInv: a hint bit on the page or in a scanner's hands agrees with the
\* log.
LEMMA HintStep == ControlInv /\ ControlInv' /\ LoggedInv /\ CommitInv /\ HintInv /\ [Next]_vars => HintInv'
<1> SUFFICES ASSUME ControlInv, ControlInv', LoggedInv, CommitInv, HintInv, [Next]_vars PROVE HintInv'
  OBVIOUS
<1> USE Names DEF ControlInv
<1>0. Move
  BY Moves
<1>1. ASSUME NEW x, Gone(x), Given(x) PROVE Gone(x)'
  BY <1>0, <1>1, GoneStays
<1>2. \A x \in page.invalid : x \in page.tuples /\ Gone(x)'
  BY <1>1 DEF HintInv, Given
<1>3. ASSUME NEW c \in heapKept PROVE c.invalid \subseteq c.tuples /\ \A x \in c.invalid : Gone(x)'
  BY <1>1, <1>3 DEF HintInv, Given
<1>4. ASSUME NEW b \in Backends, Phase(b) = "hint", my[b].status # "committed"
      PROVE  /\ Given(my[b].xid) /\ Gone(my[b].xid)
             /\ my[b].kind = "scan" => my[b].xid \in page.tuples
  BY <1>4 DEF HintInv, MyOK, XactOK, Given
<1>5. page'.invalid \subseteq page'.tuples /\ \A x \in page'.invalid : Gone(x)'
  <2>1. CASE Crash
    <3>1. page' \in heapKept
      BY <2>1 DEF Crash, HeapCrash
    <3> QED BY <1>3, <3>1
  <2>2. CASE ~Crash
    <3>1. page.tuples \subseteq page'.tuples
      BY <1>0, <2>2, TuplesChange
    <3>2. ASSUME NEW b \in Backends, at[b] = "hint", my[b].status # "committed", my[b].kind = "scan", NEW x, x = my[b].xid
          PROVE  x \in page.tuples /\ Gone(x)'
      <4>1. x \in page.tuples /\ Gone(x) /\ Given(x)
        BY <1>4, <3>2 DEF Phase, IOStates
      <4> QED BY <1>1, <4>1
    <3> QED BY <1>0, <1>2, <2>2, <3>1, <3>2, InvalidChange
  <2> QED BY <2>1, <2>2
<1>6. ASSUME NEW c \in heapKept' PROVE c.invalid \subseteq c.tuples /\ \A x \in c.invalid : Gone(x)'
  <2>1. CASE Crash
    <3>1. c \in heapKept
      BY <1>6, <2>1 DEF Crash, HeapCrash
    <3> QED BY <1>3, <3>1
  <2>2. CASE ~Crash
    <3>1. c \in heapKept \/ c = page
      BY <1>0, <1>6, <2>2, HeapFileChange
    <3> QED BY <1>2, <1>3, <3>1
  <2> QED BY <2>1, <2>2
<1>7. ASSUME NEW b \in Backends, my'[b].kind \in Lookups, NEW c \in Backends, my'[c].kind \in Updates PROVE my'[c].xid # my'[b].xid
  <2>0. ~Crash /\ "abort" \in Updates /\ \A kind \in Lookups : kind \notin Updates
    BY <1>0, <1>7, XidFate DEF Updates, Lookups
  <2>1. CASE Scans(b)
    <3>1. c # b
      BY <1>7, <2>0
    <3>2. Phase(c)' = Phase(c)
      BY <2>1, <3>1, BackendPhases DEF Scans, BackendMove, OthersThere
    <3>3. KeepsXid(c)
      BY <1>0, <1>7, <3>2, XidFate DEF Begins
    <3> QED BY <1>7, <2>1, <3>3 DEF Scans, KeepsXid, Running
  <2>2. CASE KeepsXid(b)
    <3>1. my[b].kind \in Lookups /\ Given(my[b].xid) /\ my'[b].xid = my[b].xid
      BY <1>7, <2>0, <2>2 DEF KeepsXid, GivesUp, Given
    <3>2. CASE KeepsXid(c)
      BY <1>7, <3>1, <3>2 DEF KeepsXid, HintInv
    <3>3. CASE Begins(c)
      BY <1>0, <2>0, <3>1, <3>3, NotGivenAgain DEF Begins
    <3> QED BY <1>0, <1>7, <3>2, <3>3, XidFate
  <2>3. ~Begins(b) /\ ~Leaves(b) /\ ~GivesUp(b)
    <3>1. None \notin Lookups
      BY DurabilityConstants DEF Lookups
    <3> QED BY <1>7, <2>0, <3>1 DEF Begins, Leaves, GivesUp
  <2> QED BY <1>0, <2>0, <2>1, <2>2, <2>3, XactFate DEF KeepsXid, Stays, Fails, Advances, IsMarked, Ends, LooksUp
<1>8. ASSUME NEW b \in Backends, Phase(b)' = "hint", my'[b].status # "committed", NEW x, x = my'[b].xid PROVE Gone(x)'
  <2>0. ~Crash
    BY <1>8, CrashPhases
  <2>1. CASE Stays(b)
    <3>1. Given(x) /\ Gone(x)
      BY <1>4, <1>8, <2>1 DEF Stays
    <3> QED BY <1>1, <3>1
  <2>2. CASE LooksUp(b)
    <3>1. x = my[b].xid
      BY <1>8, <2>2 DEF LooksUp
    <3>2. Gone(x)
      BY <1>8, <2>2, <3>1, LookedUp
    <3>3. Given(x)
      BY <2>2, <3>1 DEF LooksUp, MyOK, XactOK, Given
    <3> QED BY <1>1, <3>2, <3>3
  <2> QED BY <1>0, <1>8, <2>0, <2>1, <2>2, XactFate DEF Fails, Advances, IsMarked, Begins, Ends, Leaves, Scans, GivesUp
<1> QED BY <1>5, <1>6, <1>7, <1>8 DEF HintInv

\* Initially no tuple carries a hint.
LEMMA InitHint == Init => HintInv
<1> SUFFICES ASSUME NEW plan \in Plans, InitFrom(plan) PROVE HintInv
  BY DEF Init
<1>1. \A p \in Everyone : Phase(p) = "idle" /\ my[p].kind = None
  BY DEF InitFrom, Idle, Phase, IOStates, NoXact
<1>2. page.tuples = {0} /\ page.invalid = {} /\ heapKept = {page}
  BY DEF InitFrom
<1>3. None \notin Lookups
  BY DurabilityConstants DEF Lookups
<1> QED BY <1>1, <1>2, <1>3, Names DEF HintInv

(* A hint that says committed reaches the data file only once that commit is on disk, and while the    *)
(* server is up no hint contradicts the log: nobody looks up a transaction that still runs, and one     *)
(* that has neither a mark nor a process can never commit (HeapTupleSatisfiesMVCC, SetHintBits).        *)
THEOREM SpecHintsTrue == Spec => []HintsTrue
<1>1. Init => HintInv
  BY InitHint
<1>2. ControlInv /\ ControlInv' /\ LoggedInv /\ CommitInv /\ HintInv /\ [Next]_vars => HintInv'
  BY HintStep
<1>3. ControlInv /\ LoggedInv /\ HintInv => HintsTrue
  <2> SUFFICES ASSUME ControlInv, LoggedInv, HintInv PROVE HintsTrue
    OBVIOUS
  <2>0. Len(log) \in Nat /\ durable \in Nat /\ durable <= Len(log) /\ page.lsn \in Nat /\ page.lsn <= Len(log)
    BY DEF ControlInv, LogOK, HeapOK, Content, LoggedInv, PageLogged
  <2>1. ASSUME NEW c \in heapKept, NEW x \in c.committed \union c.strayCommitted PROVE x \in Records("commit", durable)
    BY <2>1, HasRecords DEF LoggedInv, KeptLogged, Says
  <2>2. ASSUME NEW x \in page.committed \union page.strayCommitted PROVE x \in Committed
    <3>1. Has(log, "commit", x, durable) \/ Has(log, "commit", x, page.lsn)
      BY <2>2 DEF LoggedInv, PageLogged, Says
    <3>2. Has(log, "commit", x, Len(log))
      BY <2>0, <3>1, HasMore
    <3> QED BY <3>2, HasRecords DEF Committed
  <2>3. ASSUME NEW x \in page.invalid, x \in Committed PROVE FALSE
    <3>1. PICK i \in 1..Len(log) : log[i].kind = "commit" /\ log[i].xid = x
      BY <2>3, HasRecords DEF Committed, Has
    <3> QED BY <2>3, <3>1 DEF HintInv, Gone, Uncommitted
  <2> QED BY <2>1, <2>2, <2>3 DEF HintsTrue
<1> QED BY <1>1, <1>2, <1>3, SpecCommit, PTL DEF Spec

(* --- The status of a transaction is set once --------------------------------------------------- *)

(* The page has an id below n. *)
Reaches(n, pg) == \E y \in On(pg) : y < n

(* Replay of the record r makes nextXid at least this. *)
Bound(r) == IF r.kind \in Traces THEN r.xid + 1 ELSE IF r.kind = "checkpoint" THEN r.xid ELSE 0

(* A record from the m-th on, and before the n-th, zeroes the page. *)
ZeroIn(l, m, n, pg) == \E j \in 1..Len(l) : m <= j /\ j < n /\ l[j].kind = "zero" /\ l[j].xid = pg

(* Replay from the m-th record on zeroes the page before it needs it. *)
ZeroedBeforeUse(l, m, pg) == \A i \in 1..Len(l) : m <= i /\ Reaches(Bound(l[i]), pg) => ZeroIn(l, m, i, pg)

(* A page of ids that are or are about to be assigned. *)
Making(pg) == \E b \in Backends : at[b] = "extended" /\ pg = TransactionIdToPage(nextXid)
InUse(pg) == Reaches(nextXid, pg) \/ Making(pg)

(* The page is in its file, or will be before it leaves its slot. *)
There(pg) == xactFile[pg] # None \/ slot[pg].status = "writing" \/ (slot[pg].status = "valid" /\ slot[pg].dirty)
KeptThere(pg) == \A bits \in xactKept[pg] : bits # None

(* A page in use is there, so that whoever reads it finds it. *)
ThereOK(pg) ==
  /\ InUse(pg) \/ (Replaying /\ ZeroIn(log, controlFile.redo, Replayed, pg)) => There(pg)
  /\ slot[pg].status = "reading" => xactFile[pg] # None
  /\ \A p \in Everyone : at[p] = "xactWritten" /\ io[p].page = pg => xactFile[pg] # None

(* Replay from the n-th record on brings the page back in time, or nobody needs it. *)
BroughtBack(n, pg) == ZeroedBeforeUse(log, n, pg) /\ (InUse(pg) => ZeroIn(log, n, Replayed, pg))

(* A crash leaves every page that replay does not bring back... *)
KeptPages(pg) ==
  /\ KeptThere(pg) \/ BroughtBack(controlFile.redo, pg)
  /\ Reaches(controlFile.nextXid, pg) => KeptThere(pg)

(* ... and will do so once the checkpoint is complete. *)
CkptHas(pg) ==
  /\ There(pg)
  /\ Visited(pg) => xactFile[pg] # None /\ (pg \in pending \/ KeptThere(pg))
  /\ Phase(Checkpointer) \in {"ckRecord", "ckControl"} => KeptThere(pg)
CkptPages(pg) ==
  at[Checkpointer] # "idle" =>
    /\ CkptHas(pg) \/ BroughtBack(checkPoint.redo, pg)
    /\ at[Checkpointer] # "ckNextXid" /\ Reaches(checkPoint.nextXid, pg) => CkptHas(pg)

(* The nextXid that a checkpoint has read is not ahead of the one in use. *)
CkptBehind == at[Checkpointer] \notin {"idle", "ckNextXid"} => checkPoint.nextXid <= nextXid

PagesInv ==
  /\ CkptBehind
  /\ \A p \in Everyone : at[p] # "failed"
  /\ \A pg \in Pages : ThereOK(pg) /\ KeptPages(pg) /\ CkptPages(pg)

(* A transaction that has committed; one that is free to. *)
Sealed(x) == Has(log, "commit", x, Len(log))
Open(x) ==
  \/ \E b \in Backends : my[b].kind \in {"sync", "async"} /\ my[b].xid = x
  \/ InUse(TransactionIdToPage(x)) /\ nextXid <= x

Clear(x, bits) == bits = None \/ bits[x] # "aborted"
KeptClear(x) == \A bits \in xactKept[TransactionIdToPage(x)] : Clear(x, bits)

(* The page of x is zeroed from the n-th record on. *)
Swept(x, n) == ZeroIn(log, n, Len(log) + 1, TransactionIdToPage(x))

ShownOK(x) == Sealed(x) \/ (~Replaying /\ Open(x)) => StatusOf(x) # "aborted" \/ Swept(x, Replayed)
KeptShown(x) == Sealed(x) \/ (Up /\ Open(x)) => KeptClear(x) \/ Swept(x, controlFile.redo)
CkptClear(x) ==
  LET pg == TransactionIdToPage(x)
  IN  /\ Visited(pg) => Clear(x, xactFile[pg]) /\ (pg \in pending \/ KeptClear(x))
      /\ Phase(Checkpointer) \in {"ckRecord", "ckControl"} => KeptClear(x)
CkptShown(x) == at[Checkpointer] # "idle" /\ (Sealed(x) \/ Open(x)) => CkptClear(x) \/ Swept(x, checkPoint.redo)

StatusInv == \A x \in Xids : ShownOK(x) /\ KeptShown(x) /\ CkptShown(x)

(* --- The pages that are in use ------------------------------------------------------------------ *)

(* Every id reaches the pages that a smaller one does. *)
LEMMA ReachesMore ==
  ASSUME NEW m \in Nat, NEW n \in Nat, m <= n, NEW q \in Pages, Reaches(m, q)
  PROVE  Reaches(n, q)
<1>1. On(q) \subseteq Nat
  BY PageOfXid
<1>2. \A y \in Nat : y < m => y < n
  OBVIOUS
<1> QED BY <1>1, <1>2 DEF Reaches

\* A page is reached or ahead.
LEMMA ReachedOrAhead ==
  ASSUME ControlInv, NEW q \in Pages
  PROVE  Reaches(nextXid, q) <=> ~Ahead(q)
<1>0. On(q) \subseteq Nat
  BY PageOfXid
<1>1. nextXid \in Nat
  BY SlruConstants DEF ControlInv, XidGenOK, NextXids
<1>2. \A y \in Nat : (y < nextXid) <=> ~(nextXid <= y)
  BY <1>1
<1> QED BY <1>0, <1>2 DEF Reaches, Ahead

\* A page comes into use when it is zeroed, or when replay meets a record that says so.
LEMMA InUseFate ==
  ASSUME ControlInv, ControlInv', Move, ~Crash, NEW q \in Pages, InUse(q)', ~InUse(q)
  PROVE  \/ \E b \in Backends : ZeroNext(b) /\ q = TransactionIdToPage(nextXid)
         \/ Redoes /\ Reaches(Bound(log[replay]), q)
<1> USE Names DEF ControlInv
<1>0. nextXid \in Nat /\ nextXid' \in Nat /\ On(q) \subseteq Nat /\ nextXid \in NextXids
  BY NextXidStep, PageOfXid DEF XidGenOK
<1>1. ASSUME NEW b \in Backends, at'[b] = "extended", q = TransactionIdToPage(nextXid')
      PROVE  ZeroNext(b) /\ q = TransactionIdToPage(nextXid)
  <2>1. CASE at[b] = "extended"
    <3>1. ~GetNewTransactionId(b)
      <4>1. GetNewTransactionId(b) => at'[b] = "insert"
        BY GotoOnly DEF GetNewTransactionId
      <4> QED BY <1>1, <4>1
    <3>2. nextXid' = nextXid
      BY <2>1, <3>1, ExtendedStays
    <3> QED BY <1>1, <2>1, <3>2 DEF InUse, Making
  <2>2. CASE at[b] # "extended"
    <3>1. Phase(b)' = "extended"
      BY <1>1 DEF Phase, IOStates
    <3>2. Phase(b) # "extended"
      BY <2>2 DEF Phase, IOOK, IOStates, AtOK
    <3>3. BackendMove(b)
      BY <3>1, <3>2, Bystanders, SetBitPhases
    <3>4. ZeroNext(b)
      <4>1. GetNewTransactionId(b) => at'[b] = "insert"
        BY GotoOnly DEF GetNewTransactionId
      <4>2. InsertTuple(b) => at'[b] = "logInsert"
        BY GotoOnly DEF InsertTuple
      <4>3. LogInsert(b) \/ InsertFails(b) => at'[b] = "end"
        BY GotoOnly DEF LogInsert, InsertFails
      <4>4. LogEnd(b) => at'[b] \in {"flush", "setStatus"}
        BY GotoOnly DEF LogEnd
      <4>5. FlushCommit(b) => at'[b] = "setStatus"
        BY GotoOnly DEF FlushCommit
      <4>6. EndTransaction(b) \/ MarkBufferDirtyHint(b) => at'[b] = "idle"
        BY GotoOnly DEF EndTransaction, MarkBufferDirtyHint
      <4>7. Scan(b) => at'[b] = "getStatus"
        BY GotoOnly DEF Scan
      <4>8. ReadBit(b) => at'[b] = "hint"
        BY GotoOnly DEF ReadBit
      <4>9. SetHintBits(b) => at'[b] \in {"idle", "markDirty"}
        BY GotoOnly DEF SetHintBits
      <4>10. ~ScanNothing(b)
        BY <1>1, <2>2 DEF ScanNothing
      <4> QED BY <1>1, <3>3, <4>1, <4>2, <4>3, <4>4, <4>5, <4>6, <4>7, <4>8, <4>9, <4>10 DEF BackendMove
    <3>5. nextXid' = nextXid
      BY <3>4 DEF ZeroNext, AllButIO
    <3> QED BY <1>1, <3>4, <3>5
  <2> QED BY <2>1, <2>2
<1>2. ASSUME NEW y \in On(q), y < nextXid'
      PROVE  Redoes /\ Reaches(Bound(log[replay]), q)
  <2>0. y \in Nat /\ ~(y < nextXid)
    BY <1>0 DEF InUse, Reaches
  <2>1. ASSUME NEW b \in Backends, GetNewTransactionId(b) PROVE FALSE
    <3>1. nextXid' = nextXid + 1
      BY <2>1 DEF GetNewTransactionId
    <3>2. y = nextXid
      BY <1>0, <1>2, <2>0, <3>1
    <3>3. q = TransactionIdToPage(nextXid)
      BY <3>2, PageOfXid
    <3>4. CASE at[b] = "extended"
      BY <3>3, <3>4 DEF InUse, Making
    <3>5. CASE ~FirstOnPage(nextXid)
      <4>1. nextXid > 0 /\ nextXid - 1 \in On(q)
        BY <1>0, <3>3, <3>5, NextPage
      <4>2. nextXid - 1 < nextXid
        BY <1>0
      <4> QED BY <4>1, <4>2 DEF InUse, Reaches
    <3> QED BY <2>1, <3>4, <3>5 DEF GetNewTransactionId
  <2>2. Redoes
    BY <1>0, <1>2, <2>0, <2>1, NextXidStep
  <2>3. PICK r : r = log[replay]
    OBVIOUS
  <2>4. replay \in 1..Len(log)
    BY <2>2, ReplayedStep DEF Redoes, RedoTuple, RedoEnd, RedoZero, RedoOther, Redo, StartupOK, Replaying, LogOK
  <2>5. r.kind \in Traces => r.xid \in Nat
    BY <2>3, <2>4, PageOfXid DEF LogOK
  <2>6. r.kind = "checkpoint" => r.xid \in Nat
    BY <2>3, <2>4, SlruConstants DEF LogOK, NextXids
  <2>7. y < Bound(r)
    <3>1. CASE RedoTuple \/ RedoEnd
      <4>1. r.kind \in Traces /\ nextXid' = Larger(nextXid, r.xid + 1)
        BY <2>3, <3>1 DEF RedoTuple, RedoEnd, Redo, Traces, AdvanceNextXidPast
      <4>2. nextXid' = nextXid \/ nextXid' = r.xid + 1
        BY <4>1 DEF Larger
      <4> QED BY <1>2, <2>0, <4>1, <4>2 DEF Bound
    <3>2. CASE RedoZero
      BY <1>2, <2>0, <3>2 DEF RedoZero
    <3>3. CASE RedoOther
      <4>1. \/ nextXid' = nextXid
            \/ r.kind = "checkpoint" /\ nextXid' = Larger(nextXid, r.xid)
        BY <2>3, <3>3 DEF RedoOther
      <4>2. nextXid' = nextXid \/ (r.kind = "checkpoint" /\ nextXid' = r.xid)
        BY <4>1 DEF Larger
      <4> QED BY <1>2, <2>0, <4>2 DEF Bound, Traces
    <3> QED BY <2>2, <3>1, <3>2, <3>3 DEF Redoes
  <2> QED BY <2>2, <2>3, <2>7 DEF Reaches
<1> QED BY <1>1, <1>2 DEF InUse, Making, Reaches

(* --- The log brings pages back ------------------------------------------------------------------ *)

(* A record that zeroes a page stays in the log. *)
LEMMA ZeroInStays ==
  ASSUME ControlInv, Move, ~Crash, NEW m, NEW n \in Nat, NEW k \in Nat, n <= k, NEW q, ZeroIn(log, m, n, q)
  PROVE  ZeroIn(log', m, k, q)
<1>1. PICK j \in 1..Len(log) : m <= j /\ j < n /\ log[j].kind = "zero" /\ log[j].xid = q
  BY DEF ZeroIn
<1>2. Len(log) \in Nat /\ Len(log') \in Nat /\ Grows
  BY LogFate, LogStep
<1>3. j \in 1..Len(log') /\ log'[j] = log[j] /\ j < k
  BY <1>1, <1>2 DEF Grows
<1> QED BY <1>1, <1>3 DEF ZeroIn

(* No record names an id that has not been assigned. *)
LEMMA NewBound ==
  ASSUME ControlInv, FreshOK, CkptBehind, NEW r, NewRecord(r)
  PROVE  Bound(r) \in Nat /\ Bound(r) <= nextXid
<1> USE DEF ControlInv
<1>0. nextXid \in Nat
  BY SlruConstants DEF XidGenOK, NextXids
<1>1. ASSUME NEW b \in Backends, ZeroNext(b), r = [kind |-> "zero", xid |-> TransactionIdToPage(nextXid)]
      PROVE  Bound(r) = 0
  BY <1>1 DEF Bound, Traces
<1>2. ASSUME NEW b \in Backends, at[b] \in {"logInsert", "end"}, r.kind \in Traces, r.xid = my[b].xid
      PROVE  Bound(r) \in Nat /\ Bound(r) <= nextXid
  <2>1. Phase(b) \in {"logInsert", "end"}
    BY <1>2 DEF Phase, IOStates
  <2>2. my[b].kind \in Updates /\ my[b].xid \in Xids
    BY <2>1 DEF MyOK, XactOK
  <2>3. my[b].xid < nextXid /\ my[b].xid \in Nat
    BY <2>2, PageOfXid DEF FreshOK
  <2>4. Bound(r) = my[b].xid + 1
    BY <1>2 DEF Bound
  <2> QED BY <1>0, <2>3, <2>4
<1>3. ASSUME NEW b \in Backends, LogInsert(b), r = [kind |-> "insert", xid |-> my[b].xid]
      PROVE  at[b] = "logInsert" /\ r.kind \in Traces /\ r.xid = my[b].xid
  BY <1>3 DEF LogInsert, Traces
<1>4. ASSUME NEW b \in Backends, LogEnd(b), r = [kind |-> IF my[b].kind = "abort" THEN "abort" ELSE "commit", xid |-> my[b].xid]
      PROVE  at[b] = "end" /\ r.kind \in Traces /\ r.xid = my[b].xid
  BY <1>4 DEF LogEnd, Traces
<1>5. CASE CkptRedo /\ r = [kind |-> "redo", xid |-> None]
  <2>1. Bound(r) = 0
    BY <1>5 DEF Bound, Traces
  <2> QED BY <1>0, <2>1
<1>6. CASE CkptRecord /\ r = [kind |-> "checkpoint", xid |-> checkPoint.nextXid]
  <2>1. Bound(r) = checkPoint.nextXid
    BY <1>6 DEF Bound, Traces
  <2>2. at[Checkpointer] = "ckRecord"
    BY <1>6 DEF CkptRecord
  <2>3. checkPoint.nextXid \in Nat
    BY <2>2, SlruConstants DEF CheckpointOK, NextXids
  <2> QED BY <2>1, <2>2, <2>3 DEF CkptBehind
<1> QED BY <1>0, <1>1, <1>2, <1>3, <1>4, <1>5, <1>6 DEF NewRecord

(* What replay brings back in time it still does after a step. *)
LEMMA BroughtStays ==
  ASSUME ControlInv, ControlInv', FreshOK, CkptBehind, Move, ~Crash, NEW q \in Pages, NEW m \in Nat, m <= Replayed, BroughtBack(m, q)
  PROVE  BroughtBack(m, q)'
<1>0. nextXid \in Nat /\ Len(log) \in Nat /\ Len(log') \in Nat /\ Replayed \in 1..(Len(log) + 1)
  BY NextXidStep, LogFate, ReplayedStep
<1>1. ASSUME NEW i \in 1..Len(log'), m <= i, Reaches(Bound(log'[i]), q) PROVE ZeroIn(log', m, i, q)
  <2>1. CASE i \in 1..Len(log) /\ log'[i] = log[i]
    <3>1. ZeroIn(log, m, i, q)
      BY <1>1, <2>1 DEF BroughtBack, ZeroedBeforeUse
    <3> QED BY <3>1, ZeroInStays
  <2>2. CASE i = Len(log) + 1 /\ NewRecord(log'[Len(log) + 1])
    <3>1. PICK r : r = log'[i]
      OBVIOUS
    <3>2. Bound(r) \in Nat /\ Bound(r) <= nextXid
      BY <2>2, <3>1, NewBound
    <3>3. Reaches(nextXid, q)
      BY <1>0, <1>1, <3>1, <3>2, ReachesMore
    <3>4. ZeroIn(log, m, Replayed, q)
      BY <3>3 DEF BroughtBack, InUse
    <3> QED BY <1>0, <2>2, <3>4, ZeroInStays
  <2> QED BY <1>0, <2>1, <2>2, LogFate
<1>2. ASSUME InUse(q)' PROVE ZeroIn(log', m, Replayed', q)
  <2>1. Replayed' \in Nat /\ Replayed <= Replayed'
    <3>1. Replayed' = replay + 1 /\ Replayed = replay => Replayed' \in Nat /\ Replayed <= Replayed'
      BY <1>0
    <3>2. Replayed' = Replayed => Replayed' \in Nat /\ Replayed <= Replayed'
      BY <1>0
    <3>3. Len(log) <= Len(log')
      BY LogStep DEF Grows
    <3>4. Replayed' = Len(log') + 1 => Replayed' \in Nat /\ Replayed <= Replayed'
      BY <1>0, <3>3
    <3> QED BY <3>1, <3>2, <3>4, ReplayedStep
  <2>2. CASE InUse(q)
    <3>1. ZeroIn(log, m, Replayed, q)
      BY <2>2 DEF BroughtBack
    <3> QED BY <1>0, <2>1, <3>1, ZeroInStays
  <2>3. ASSUME NEW b \in Backends, ZeroNext(b), q = TransactionIdToPage(nextXid) PROVE ZeroIn(log', m, Replayed', q)
    <3>1. log' = Append(log, [kind |-> "zero", xid |-> q])
      BY <2>3 DEF ZeroNext, Log, Insert
    <3>2. Len(log') = Len(log) + 1 /\ log'[Len(log) + 1] = [kind |-> "zero", xid |-> q]
      BY <3>1 DEF ControlInv, LogOK
    <3>3. ~Replaying
      BY <2>3 DEF ZeroNext, Starts, Up, Replaying
    <3>4. Replayed' = Len(log') + 1
      <4>1. log' # log
        BY <1>0, <3>2
      <4> QED BY <3>3, <4>1, ReplayedStep
    <3>5. Len(log) + 1 \in 1..Len(log') /\ m <= Len(log) + 1 /\ Len(log) + 1 < Replayed'
      BY <1>0, <3>2, <3>4
    <3>6. log'[Len(log) + 1].kind = "zero" /\ log'[Len(log) + 1].xid = q
      BY <3>2
    <3> QED BY <3>5, <3>6 DEF ZeroIn
  <2>4. CASE Redoes /\ Reaches(Bound(log[replay]), q)
    <3>1. replay \in 1..Len(log) /\ Replayed = replay
      <4>1. Redoes => Replaying
        BY DEF Redoes, RedoTuple, RedoEnd, RedoZero, RedoOther, Redo, Replaying
      <4>2. Replayed = replay /\ replay <= Len(log)
        BY <2>4, <4>1 DEF Replayed, Redoes, RedoTuple, RedoEnd, RedoZero, RedoOther, Redo
      <4> QED BY <1>0, <4>2
    <3>2. ZeroIn(log, m, replay, q)
      BY <2>4, <3>1 DEF BroughtBack, ZeroedBeforeUse
    <3> QED BY <1>0, <2>1, <3>1, <3>2, ZeroInStays
  <2> QED BY <1>2, <2>2, <2>3, <2>4, InUseFate
<1> QED BY <1>1, <1>2 DEF BroughtBack, ZeroedBeforeUse

(* --- A page in use is there ----------------------------------------------------------------------- *)

\* A page that has a file keeps it.
LEMMA FileStays ==
  ASSUME ControlInv, BufferLockOK, Move, ~Crash, NEW q \in Pages, xactFile[q] # None
  PROVE  xactFile'[q] # None
<1>1. slot[q].bits \in [On(q) -> Status] /\ slot[q].bits # None
  BY DurabilityConstants DEF ControlInv, SlotOK, Status
<1> QED BY <1>1, FileFate

(* A page that is there stays: only clean pages are evicted, and one that has been written has a file. *)
LEMMA ThereStays ==
  ASSUME ControlInv, BufferLockOK, Move, ~Crash, NEW q \in Pages, There(q), ThereOK(q)
  PROVE  There(q)'
<1>1. CASE xactFile[q] # None
  BY <1>1, FileStays DEF There
<1>2. CASE xactFile[q] = None /\ (slot[q].status = "writing" \/ (slot[q].status = "valid" /\ slot[q].dirty))
  <2>1. ~Written(q)
    BY <1>2 DEF Written, ThereOK
  <2> QED BY <1>2, <2>1, SlotFate DEF There, Kept, Dropped, Marked, ReadIn, ToRead, ToWrite, NotWritten, Zeroed, Cut
<1> QED BY <1>1, <1>2 DEF There

(* Nothing but a crash begins recovery. *)
LEMMA ReplayBegins ==
  ASSUME ControlInv, Move, ~Crash, Replaying'
  PROVE  Replaying /\ log' = log /\ controlFile' = controlFile
<1> USE Names DEF ControlInv
<1>1. CASE StartupMove
  <2>1. at[Startup] = "replay"
    BY <1>1, StartupPhases
  <2>2. controlFile' = controlFile
    BY <1>1 DEF StartupMove, RedoTuple, RedoEnd, RedoZero, RedoOther, Redo, EndReplay
  <2> QED BY <2>1, <2>2, ReplayStill DEF Replaying
<1>2. CASE UpdateControlFile
  BY <1>2, CheckpointerPhases DEF CheckpointerMove, Replaying
<1>3. CASE ~StartupMove /\ ~UpdateControlFile
  <2>1. Replaying
    BY <1>3, RecoveryGoesOn DEF Replaying
  <2>2. ~CheckpointerMove /\ ~EndReplay
    BY <1>3, <2>1, WhoRuns DEF StartupMove
  <2> QED BY <2>1, <2>2, ReplayStill, CheckpointerStays
<1> QED BY <1>1, <1>2, <1>3

(* Who asks for a page asks for one that is in use. *)
LEMMA WantedInUse ==
  ASSUME ControlInv, LoggedInv, NEW p \in Backends \union {Startup}, NEW q \in Pages, BeginRead(p, q)
  PROVE  InUse(q)
<1>1. Wants(p, q)
  BY DEF BeginRead
<1>2. CASE at[p] \in {"setStatus", "getStatus"} /\ q = TransactionIdToPage(my[p].xid)
  <2>1. ~Ahead(q)
    BY <1>2, MarkedXid DEF LoggedInv
  <2> QED BY <2>1, ReachedOrAhead DEF InUse
<1>3. CASE ~FirstOnPage(nextXid) /\ q = TransactionIdToPage(nextXid)
  <2>1. ~Ahead(q)
    BY <1>3, NextNotAhead
  <2> QED BY <2>1, ReachedOrAhead DEF InUse
<1> QED BY <1>1, <1>2, <1>3 DEF Wants

(* Every step leaves the pages in use there. *)
LEMMA ThereStep ==
  ASSUME ControlInv, ControlInv', LoggedInv, PageBrings, Move, ~Crash, NEW q \in Pages, ThereOK(q), KeptPages(q)
  PROVE  ThereOK(q)'
<1> USE Names DEF ControlInv
<1>0. BufferLockOK /\ FreshOK /\ Len(log) \in Nat /\ slot[q].bits \in [On(q) -> Status] /\ slot[q].bits # None
  BY LogFate, DurabilityConstants DEF LoggedInv, SlotOK, Status
<1>1. xactFile[q] # None => xactFile'[q] # None
  BY <1>0, FileStays
<1>2. There(q) => There(q)'
  BY <1>0, ThereStays
<1>3. Zeroed(q) => There(q)'
  BY DEF Zeroed, There
<1>4. ASSUME NEW b \in Backends, ZeroNext(b), q = TransactionIdToPage(nextXid) PROVE There(q)'
  <2>1. SimpleLruZeroPage(q)
    BY <1>4 DEF ZeroNext
  <2> QED BY <2>1, ZeroPageEffect DEF There
<1>5. ASSUME RedoZero, q = log[replay].xid PROVE There(q)'
  <2>1. SimpleLruZeroPage(q)
    BY <1>5 DEF RedoZero
  <2> QED BY <2>1, ZeroPageEffect DEF There
<1>6. ASSUME InUse(q)' PROVE There(q)'
  <2>1. CASE InUse(q)
    BY <1>2, <2>1 DEF ThereOK
  <2>2. CASE Redoes /\ Reaches(Bound(log[replay]), q)
    <3>1. Replaying /\ Replayed = replay /\ replay \in 1..Len(log)
      BY <2>2, ReplayedStep DEF Redoes, RedoTuple, RedoEnd, RedoZero, RedoOther, Redo, Replaying, Replayed
    <3>2. CASE KeptThere(q)
      <4>1. xactFile[q] # None
        BY <3>2 DEF KeptThere, FilesOK
      <4> QED BY <1>1, <4>1 DEF There
    <3>3. CASE BroughtBack(controlFile.redo, q)
      <4>1. controlFile.redo <= replay
        BY <3>1 DEF PageBrings
      <4>2. ZeroIn(log, controlFile.redo, replay, q)
        BY <2>2, <3>1, <3>3, <4>1 DEF BroughtBack, ZeroedBeforeUse
      <4> QED BY <1>2, <3>1, <4>2 DEF ThereOK
    <3> QED BY <3>2, <3>3 DEF KeptPages
  <2> QED BY <1>4, <1>6, <2>1, <2>2, InUseFate
<1>7. ASSUME Replaying', ZeroIn(log', controlFile'.redo, Replayed', q) PROVE There(q)'
  <2>1. Replaying /\ log' = log /\ controlFile' = controlFile
    BY <1>7, ReplayBegins
  <2>2. PICK j \in 1..Len(log) : controlFile.redo <= j /\ j < Replayed' /\ log[j].kind = "zero" /\ log[j].xid = q
    BY <1>7, <2>1 DEF ZeroIn
  <2>3. CASE j < Replayed
    BY <1>2, <2>1, <2>2, <2>3 DEF ThereOK, ZeroIn
  <2>4. CASE ~(j < Replayed)
    <3>1. Redoes /\ j = replay
      <4>1. Redoes /\ Replayed = replay /\ Replayed' = replay + 1 /\ replay \in 1..Len(log)
        BY <2>1, <2>2, <2>4, ReplayedStep
      <4> QED BY <2>2, <2>4, <4>1
    <3>2. RedoZero
      BY <2>2, <3>1 DEF Redoes, RedoTuple, RedoEnd, RedoOther, Redo
    <3> QED BY <1>5, <2>2, <3>1, <3>2
  <2> QED BY <2>3, <2>4
<1>8. ASSUME slot'[q].status = "reading" PROVE xactFile'[q] # None
  <2>1. CASE Kept(q)
    BY <1>1, <1>8, <2>1 DEF Kept, ThereOK
  <2>2. CASE ToRead(q)
    <3>1. InUse(q)
      BY <2>2, WantedInUse DEF ToRead
    <3>2. xactFile[q] # None
      BY <2>2, <3>1 DEF ThereOK, There, ToRead
    <3> QED BY <1>1, <3>2
  <2> QED BY <1>0, <1>8, <2>1, <2>2, SlotFate DEF Dropped, Marked, ReadIn, Written, ToWrite, NotWritten, Zeroed, Cut
<1>9. ASSUME NEW p \in Everyone, at'[p] = "xactWritten", io'[p].page = q PROVE xactFile'[q] # None
  <2>1. \/ at[p] = "xactWritten" /\ io[p].page = q
        \/ SlruWrite(p) /\ io[p].page = q
    BY <1>9, IOChange DEF IOStates
  <2>2. CASE at[p] = "xactWritten" /\ io[p].page = q
    BY <1>1, <2>2 DEF ThereOK
  <2>3. CASE SlruWrite(p) /\ io[p].page = q
    <3>1. xactFile' = [xactFile EXCEPT ![q] = slot[q].bits]
      BY <2>3 DEF SlruWrite, PhysicalWrite
    <3> QED BY <1>0, <3>1 DEF FilesOK
  <2> QED BY <2>1, <2>2, <2>3
<1> QED BY <1>6, <1>7, <1>8, <1>9 DEF ThereOK

(* --- What a crash leaves has the pages ---------------------------------------------------------------- *)

\* A page that no crash takes away stays so.
LEMMA KeptThereStays ==
  ASSUME ControlInv, BufferLockOK, Move, ~Crash, NEW q \in Pages, KeptThere(q)
  PROVE  KeptThere(q)'
<1>1. slot[q].bits # None /\ xactFile[q] \in xactKept[q]
  BY DurabilityConstants DEF ControlInv, SlotOK, Status, FilesOK
<1>2. \A bits \in xactKept'[q] : bits \in xactKept[q] \/ bits = slot[q].bits
  BY <1>1, KeptFate
<1> QED BY <1>1, <1>2 DEF KeptThere

(* A crash leaves the pages that recovery will not zero before it needs them. *)
LEMMA PagesAfterCrash ==
  ASSUME ControlInv, Crash, NEW q \in Pages, KeptPages(q)
  PROVE  ThereOK(q)' /\ KeptPages(q)' /\ CkptPages(q)'
<1> USE Names DEF ControlInv
<1>1. /\ xactKept'[q] = {xactFile'[q]} /\ xactFile'[q] \in xactKept[q] /\ controlFile' = controlFile
      /\ slot'[q] = Empty(q) /\ nextXid' = controlFile.nextXid /\ replay' = controlFile.redo
  BY DEF Crash, SlruCrash
<1>2. /\ at'[Startup] = "replay" /\ \A p \in Everyone \ {Startup} : at'[p] = "idle"
      /\ \A p \in Everyone : at'[p] \notin IOStates
  BY CrashPhases
<1>3. Replaying' /\ Replayed' = controlFile.redo
  BY <1>1, <1>2 DEF Replaying, Replayed
<1>4. InUse(q)' => Reaches(controlFile.nextXid, q)
  <2>1. ~Making(q)'
    BY <1>2 DEF Making
  <2> QED BY <1>1, <2>1 DEF InUse, Reaches
<1>5. KeptThere(q) => KeptThere(q)' /\ xactFile'[q] # None
  BY <1>1 DEF KeptThere
<1>6. controlFile.redo \in Nat
  BY DEF CheckpointOK
<1>7. ~ZeroIn(log', controlFile.redo, controlFile.redo, q)
  BY <1>6 DEF ZeroIn
<1>8. ThereOK(q)'
  <2>1. InUse(q)' => There(q)'
    BY <1>4, <1>5 DEF KeptPages, There
  <2>2. slot'[q].status = "empty"
    BY <1>1, EmptySlot
  <2>3. \A p \in Everyone : at'[p] # "xactWritten"
    BY <1>2 DEF IOStates
  <2>4. ~ZeroIn(log, controlFile.redo, Replayed, q)'
    BY <1>1, <1>3, <1>7
  <2> QED BY <2>1, <2>2, <2>3, <2>4 DEF ThereOK
<1>9. KeptThere(q)' \/ BroughtBack(controlFile.redo, q)'
  <2> SUFFICES ASSUME ~KeptThere(q), BroughtBack(controlFile.redo, q) PROVE BroughtBack(controlFile.redo, q)'
    BY <1>5 DEF KeptPages
  <2>1. ~InUse(q)'
    BY <1>4 DEF KeptPages
  <2>2. PICK k \in durable..Len(log) : Lose(k)
    BY DEF Crash
  <2>3. Len(log') = k /\ \A i \in 1..k : i \in 1..Len(log) /\ log'[i] = log[i]
    BY <2>2, LoseEffect
  <2>4. ASSUME NEW i \in 1..Len(log'), controlFile.redo <= i, Reaches(Bound(log'[i]), q)
        PROVE  ZeroIn(log', controlFile.redo, i, q)
    <3>1. i \in 1..Len(log) /\ log'[i] = log[i]
      BY <2>3
    <3>2. ZeroIn(log, controlFile.redo, i, q)
      BY <2>4, <3>1 DEF BroughtBack, ZeroedBeforeUse
    <3>3. PICK j \in 1..Len(log) : controlFile.redo <= j /\ j < i /\ log[j].kind = "zero" /\ log[j].xid = q
      BY <3>2 DEF ZeroIn
    <3>4. j \in 1..Len(log') /\ log'[j] = log[j]
      BY <2>3, <3>3
    <3> QED BY <3>3, <3>4 DEF ZeroIn
  <2> QED BY <1>1, <2>1, <2>4 DEF BroughtBack, ZeroedBeforeUse
<1>10. Reaches(controlFile.nextXid, q)' => KeptThere(q)'
  <2>1. Reaches(controlFile.nextXid, q)' => Reaches(controlFile.nextXid, q)
    BY <1>1 DEF Reaches
  <2> QED BY <1>5, <2>1 DEF KeptPages
<1>11. CkptPages(q)'
  BY <1>2 DEF CkptPages
<1> QED BY <1>8, <1>9, <1>10, <1>11 DEF KeptPages

(* The redo point of a checkpoint is behind what has been replayed. *)
LEMMA CkptRedoBounds ==
  ASSUME ControlInv, at[Checkpointer] # "idle"
  PROVE  /\ ~Replaying /\ Len(log) \in Nat /\ Replayed = Len(log) + 1
         /\ checkPoint.redo \in Nat /\ checkPoint.redo <= Replayed
<1>1. ~Replaying /\ Len(log) \in Nat /\ checkPoint.redo \in 1..(Len(log) + 1)
  BY DEF ControlInv, StartupOK, CheckpointOK, LogOK
<1> QED BY <1>1 DEF Replayed

(* The control file changes at the end of a checkpoint. *)
LEMMA ControlFileFate ==
  ASSUME ControlInv, Move, ~Crash
  PROVE  \/ controlFile' = controlFile /\ ~UpdateControlFile
         \/ UpdateControlFile /\ at[Checkpointer] = "ckControl" /\ Phase(Checkpointer) = "ckControl"
            /\ controlFile'.redo = checkPoint.redo /\ controlFile'.nextXid = checkPoint.nextXid
<1>1. CASE UpdateControlFile
  BY <1>1 DEF UpdateControlFile, NewControlFile, Phase, IOStates
<1>2. CASE ~UpdateControlFile
  <2>1. CheckpointerMove => controlFile' = controlFile
    BY <1>2 DEF CheckpointerMove, CkptRedo, CkptNextXid, CkptDelay, SkipPage, BufferSync, SkipBuffer, ProcessSyncRequests,
                CkptRecord, SlruWriteFailed, HeapWriteFailed, ckptVars
  <2>2. EndReplay => controlFile' = controlFile
    BY DEF EndReplay
  <2> QED BY <1>2, <2>1, <2>2, CheckpointerStays
<1> QED BY <1>1, <1>2

(* A checkpoint that is under way has begun, reads nextXid, or keeps what it has read. *)
LEMMA CkptGoesOn ==
  ASSUME ControlInv, Move, ~Crash, at'[Checkpointer] # "idle"
  PROVE  \/ CkptBegins
         \/ /\ at[Checkpointer] # "idle" /\ checkPoint'.redo = checkPoint.redo
            /\ \/ /\ CkptNextXid /\ checkPoint'.nextXid = nextXid /\ nextXid' = nextXid
                  /\ at[Checkpointer] = "ckNextXid" /\ at'[Checkpointer] = "ckDelay" /\ Phase(Checkpointer)' = "ckDelay"
               \/ /\ checkPoint'.nextXid = checkPoint.nextXid
                  /\ at[Checkpointer] = "ckNextXid" <=> at'[Checkpointer] = "ckNextXid"
<1> USE Names DEF ControlInv
<1>1. CASE CkptRedo \/ EndReplay
  <2>1. at'[Checkpointer] = "ckNextXid" /\ at[Checkpointer] = "idle" /\ controlFile' = controlFile
        /\ checkPoint' = [redo |-> Len(log) + 1, nextXid |-> 0, record |-> 0, pages |-> Pages]
    BY <1>1, GotoOnly DEF CkptRedo, EndReplay, AtOK, StartupOK, Replaying
  <2> QED BY <1>1, <2>1 DEF CkptBegins, Phase, IOStates
<1>2. CASE CkptNextXid
  <2>1. at[Checkpointer] = "ckNextXid" /\ at'[Checkpointer] = "ckDelay" /\ nextXid' = nextXid
        /\ checkPoint' = [checkPoint EXCEPT !.nextXid = nextXid]
    BY <1>2, GotoOnly DEF CkptNextXid, xactVars
  <2>2. checkPoint'.redo = checkPoint.redo /\ checkPoint'.nextXid = nextXid
    BY <2>1 DEF CheckpointOK
  <2> QED BY <1>2, <2>1, <2>2 DEF Phase, IOStates
<1>3. CASE CkptDelay \/ BufferSync \/ SkipBuffer \/ ProcessSyncRequests
  <2>1. checkPoint' = checkPoint /\ at[Checkpointer] \notin {"idle", "ckNextXid"} /\ at'[Checkpointer] # "ckNextXid"
    BY <1>3, GotoOnly DEF CkptDelay, BufferSync, SkipBuffer, ProcessSyncRequests, ckptVars
  <2> QED BY <2>1
<1>4. ASSUME NEW pg \in checkPoint.pages, SkipPage(pg)
      PROVE  /\ at[Checkpointer] = "ckXact" /\ at' = at
             /\ checkPoint'.redo = checkPoint.redo /\ checkPoint'.nextXid = checkPoint.nextXid
  <2>1. at[Checkpointer] = "ckXact" /\ at' = at /\ checkPoint' = [checkPoint EXCEPT !.pages = @ \ {pg}]
    BY <1>4 DEF SkipPage
  <2> QED BY <2>1 DEF CheckpointOK
<1>5. CASE CkptRecord
  <2>1. at[Checkpointer] = "ckRecord" /\ at'[Checkpointer] = "ckControl"
        /\ checkPoint' = [checkPoint EXCEPT !.record = Len(log) + 1]
    BY <1>5, GotoOnly DEF CkptRecord
  <2>2. checkPoint'.redo = checkPoint.redo /\ checkPoint'.nextXid = checkPoint.nextXid
    BY <2>1 DEF CheckpointOK
  <2> QED BY <2>1, <2>2
<1>6. ~UpdateControlFile /\ ~SlruWriteFailed /\ ~HeapWriteFailed
  BY GotoOnly DEF UpdateControlFile, SlruWriteFailed, HeapWriteFailed, AtOK
<1>7. CASE ~CheckpointerMove /\ ~EndReplay
  <2>1. checkPoint' = checkPoint /\ at[Checkpointer] # "idle"
    BY <1>7, CheckpointerStays
  <2>2. at[Checkpointer] = "ckNextXid" <=> at'[Checkpointer] = "ckNextXid"
    BY <1>7, CheckpointerStays, HeapIOPhases
  <2> QED BY <2>1, <2>2
<1> QED BY <1>1, <1>2, <1>3, <1>4, <1>5, <1>6, <1>7 DEF CheckpointerMove

\* Every step keeps a checkpoint's nextXid behind.
LEMMA CkptBehindStep ==
  ASSUME ControlInv, ControlInv', CkptBehind, Move
  PROVE  CkptBehind'
<1> USE Names
<1>1. CASE Crash
  BY <1>1, CrashPhases DEF CkptBehind
<1>2. CASE ~Crash /\ at'[Checkpointer] \notin {"idle", "ckNextXid"}
  <2>1. nextXid \in Nat /\ nextXid' \in Nat /\ nextXid <= nextXid'
    BY <1>2, NextXidStep
  <2>2. ~CkptBegins
    <3>1. CkptBegins => Phase(Checkpointer)' = "ckNextXid"
      BY DEF CkptBegins
    <3>2. at'[Checkpointer] \notin {"xactRead"}
      BY DEF ControlInv, AtOK, CkptStates
    <3>3. at'[Checkpointer] \in IOStates => Phase(Checkpointer)' = "ckXact"
      BY DEF ControlInv, IOOK, Phase
    <3> QED BY <1>2, <3>1, <3>3 DEF Phase
  <2>3. CASE checkPoint'.nextXid = nextXid
    BY <2>1, <2>3 DEF CkptBehind
  <2>4. CASE checkPoint'.nextXid = checkPoint.nextXid /\ at[Checkpointer] \notin {"idle", "ckNextXid"}
    <3>1. checkPoint.nextXid \in Nat
      BY <2>4, SlruConstants DEF ControlInv, CheckpointOK, NextXids
    <3> QED BY <2>1, <2>4, <3>1 DEF CkptBehind
  <2> QED BY <1>2, <2>2, <2>3, <2>4, CkptGoesOn
<1> QED BY <1>1, <1>2 DEF CkptBehind

(* What a crash may leave of the pages, after a step that is none. *)
LEMMA KeptPagesStep ==
  ASSUME ControlInv, ControlInv', LoggedInv, PageBrings, CkptBehind, Move, ~Crash,
         NEW q \in Pages, KeptPages(q), CkptPages(q)
  PROVE  KeptPages(q)'
<1>0. BufferLockOK /\ FreshOK
  BY DEF LoggedInv
<1>1. KeptThere(q) => KeptThere(q)'
  BY <1>0, KeptThereStays
<1>2. ASSUME NEW m \in Nat, m <= Replayed, BroughtBack(m, q) PROVE BroughtBack(m, q)'
  BY <1>0, <1>2, BroughtStays
<1>3. CASE controlFile' = controlFile
  <2>1. PICK m : m = controlFile.redo
    OBVIOUS
  <2>2. m \in Nat /\ m <= Replayed
    BY <2>1 DEF ControlInv, CheckpointOK, PageBrings
  <2>3. KeptThere(q) \/ BroughtBack(m, q)
    BY <2>1 DEF KeptPages
  <2>4. KeptThere(q)' \/ BroughtBack(m, q)'
    BY <1>1, <1>2, <2>2, <2>3
  <2>5. KeptThere(q)' \/ BroughtBack(controlFile.redo, q)'
    BY <1>3, <2>1, <2>4
  <2>6. Reaches(controlFile.nextXid, q)' => Reaches(controlFile.nextXid, q)
    BY <1>3 DEF Reaches
  <2> QED BY <1>1, <2>5, <2>6 DEF KeptPages
<1>4. CASE /\ UpdateControlFile /\ at[Checkpointer] = "ckControl" /\ Phase(Checkpointer) = "ckControl"
           /\ controlFile'.redo = checkPoint.redo /\ controlFile'.nextXid = checkPoint.nextXid
  <2>0. CkptHas(q) => KeptThere(q)
    BY <1>4 DEF CkptHas
  <2>1. PICK m : m = checkPoint.redo
    OBVIOUS
  <2>2. m \in Nat /\ m <= Replayed
    BY <1>4, <2>1, CkptRedoBounds
  <2>3. KeptThere(q) \/ BroughtBack(m, q)
    BY <1>4, <2>0, <2>1 DEF CkptPages
  <2>4. KeptThere(q)' \/ BroughtBack(m, q)'
    BY <1>1, <1>2, <2>2, <2>3
  <2>5. KeptThere(q)' \/ BroughtBack(controlFile.redo, q)'
    BY <1>4, <2>1, <2>4
  <2>6. Reaches(controlFile.nextXid, q)' => Reaches(checkPoint.nextXid, q)
    BY <1>4 DEF Reaches
  <2>7. Reaches(checkPoint.nextXid, q) => KeptThere(q)
    BY <1>4, <2>0 DEF CkptPages
  <2> QED BY <1>1, <2>5, <2>6, <2>7 DEF KeptPages
<1> QED BY <1>3, <1>4, ControlFileFate

(* A page that the checkpoint is to keep, or has kept, stays so. *)
LEMMA CkptHasStays ==
  ASSUME ControlInv, BufferLockOK, DelayOK, Move, ~Crash, NEW q \in Pages, ThereOK(q), KeptOK(q), CkptHas(q)
  PROVE  CkptHas(q)'
<1> USE Names
<1>0. There(q) /\ There(q)'
  BY ThereStays DEF CkptHas
<1>1. ASSUME Visited(q)' PROVE xactFile'[q] # None /\ (q \in pending' \/ KeptThere(q)')
  <2>1. ~ProcessSyncRequests /\ (Visited(q) \/ SkipPage(q))
    BY <1>1, VisitedFate
  <2>2. CASE Visited(q)
    <3>1. xactFile[q] # None /\ (q \in pending \/ KeptThere(q))
      BY <2>2 DEF CkptHas
    <3>2. q \in pending => q \in pending'
      BY <2>1, PendingStays
    <3> QED BY <3>1, <3>2, FileStays, KeptThereStays
  <2>3. CASE SkipPage(q)
    <3>1. /\ slot[q].status \in {"empty", "reading"} \/ (slot[q].status = "valid" /\ ~slot[q].dirty)
          /\ xactFile' = xactFile /\ xactKept' = xactKept /\ pending' = pending
      BY <2>3 DEF SkipPage, slruVars
    <3>2. xactFile[q] # None
      BY <1>0, <3>1 DEF There
    <3>3. xactKept[q] = {xactFile[q]} \/ q \in pending
      BY <3>1 DEF KeptOK, BufferLockOK
    <3> QED BY <3>1, <3>2, <3>3 DEF KeptThere
  <2> QED BY <2>1, <2>2, <2>3
<1>2. ASSUME Phase(Checkpointer)' \in {"ckRecord", "ckControl"} PROVE KeptThere(q)'
  <2>1. (ProcessSyncRequests /\ Visited(q)) \/ (~ProcessSyncRequests /\ Phase(Checkpointer) \in {"ckRecord", "ckControl"})
    BY <1>2, VisitedFate
  <2>2. CASE ProcessSyncRequests /\ Visited(q)
    <3>1. xactFile[q] # None /\ (q \in pending \/ KeptThere(q))
      BY <2>2 DEF CkptHas
    <3>2. xactKept'[q] = IF q \in pending THEN {xactFile[q]} ELSE xactKept[q]
      BY <2>2 DEF ProcessSyncRequests
    <3> QED BY <3>1, <3>2 DEF KeptThere
  <2>3. CASE Phase(Checkpointer) \in {"ckRecord", "ckControl"}
    BY <2>3, KeptThereStays DEF CkptHas
  <2> QED BY <2>1, <2>2, <2>3
<1> QED BY <1>0, <1>1, <1>2 DEF CkptHas

(* A checkpoint keeps the pages that replay from its redo point will not bring back in time. *)
LEMMA CkptPagesStep ==
  ASSUME ControlInv, ControlInv', LoggedInv, CommitInv, CkptBehind, Move, ~Crash,
         NEW q \in Pages, ThereOK(q), ThereOK(q)', CkptPages(q)
  PROVE  CkptPages(q)'
<1> USE Names
<1>0. BufferLockOK /\ FreshOK /\ DelayOK /\ KeptOK(q)
  BY DEF LoggedInv, CommitInv
<1>a. nextXid \in Nat /\ Len(log) \in Nat /\ Len(log') \in Nat
  BY NextXidStep, LogFate
<1>b. There(q) => There(q)'
  BY <1>0, ThereStays
<1>c. CkptHas(q) => CkptHas(q)'
  BY <1>0, CkptHasStays
<1>d. Phase(Checkpointer)' \in {"ckNextXid", "ckDelay"} /\ There(q)' => CkptHas(q)'
  <2>1. Phase(Checkpointer)' = "ckDelay" \/ Phase(Checkpointer)' = "ckNextXid" => ~Visited(q)'
    BY DEF Visited
  <2> QED BY <2>1 DEF CkptHas
<1> SUFFICES ASSUME at'[Checkpointer] # "idle"
             PROVE  /\ CkptHas(q)' \/ BroughtBack(checkPoint.redo, q)'
                    /\ at'[Checkpointer] # "ckNextXid" /\ Reaches(checkPoint'.nextXid, q) => CkptHas(q)'
  <2>1. Reaches(checkPoint.nextXid, q)' <=> Reaches(checkPoint'.nextXid, q)
    BY DEF Reaches
  <2> QED BY <2>1 DEF CkptPages
<1>1. CASE CkptBegins
  <2>1. Phase(Checkpointer)' = "ckNextXid" /\ checkPoint'.redo = Len(log) + 1
    BY <1>1 DEF CkptBegins
  <2>2. at'[Checkpointer] = "ckNextXid"
    <3>1. at'[Checkpointer] \in IOStates => Phase(Checkpointer)' = "ckXact"
      BY DEF ControlInv, IOOK, Phase
    <3> QED BY <2>1, <3>1 DEF Phase
  <2>3. CASE There(q)'
    BY <1>d, <2>1, <2>2, <2>3
  <2>4. CASE ~There(q)'
    <3>1. ~InUse(q) /\ ~InUse(q)'
      BY <1>b, <2>4 DEF ThereOK
    <3>2. ASSUME NEW i \in 1..Len(log'), Len(log) + 1 <= i, Reaches(Bound(log'[i]), q) PROVE FALSE
      <4>1. i = Len(log) + 1 /\ NewRecord(log'[Len(log) + 1])
        BY <1>a, <3>2, LogFate
      <4>2. PICK r : r = log'[i]
        OBVIOUS
      <4>3. Bound(r) \in Nat /\ Bound(r) <= nextXid
        BY <1>0, <4>1, <4>2, NewBound
      <4>4. Reaches(nextXid, q)
        BY <1>a, <3>2, <4>2, <4>3, ReachesMore
      <4> QED BY <3>1, <4>4 DEF InUse
    <3>3. BroughtBack(checkPoint.redo, q)'
      BY <2>1, <3>1, <3>2 DEF BroughtBack, ZeroedBeforeUse
    <3> QED BY <2>2, <3>3
  <2> QED BY <2>3, <2>4
<1>2. ASSUME at[Checkpointer] # "idle", checkPoint'.redo = checkPoint.redo PROVE CkptHas(q)' \/ BroughtBack(checkPoint.redo, q)'
  <2>1. PICK m : m = checkPoint.redo
    OBVIOUS
  <2>2. m \in Nat /\ m <= Replayed
    BY <1>2, <2>1, CkptRedoBounds
  <2>3. CkptHas(q) \/ BroughtBack(m, q)
    BY <1>2, <2>1 DEF CkptPages
  <2>4. BroughtBack(m, q) => BroughtBack(m, q)'
    BY <1>0, <2>2, BroughtStays
  <2> QED BY <1>c, <1>2, <2>1, <2>3, <2>4
<1>3. ASSUME checkPoint'.nextXid = nextXid, Phase(Checkpointer)' = "ckDelay", Reaches(checkPoint'.nextXid, q) PROVE CkptHas(q)'
  <2>1. There(q)
    BY <1>3 DEF ThereOK, InUse
  <2> QED BY <1>b, <1>d, <1>3, <2>1
<1>4. ASSUME at[Checkpointer] \notin {"idle", "ckNextXid"}, checkPoint'.nextXid = checkPoint.nextXid, Reaches(checkPoint'.nextXid, q)
      PROVE  CkptHas(q)'
  <2>1. Reaches(checkPoint.nextXid, q)
    BY <1>4
  <2> QED BY <1>c, <1>4, <2>1 DEF CkptPages
<1> QED BY <1>1, <1>2, <1>3, <1>4, CkptGoesOn

(* --- Nobody reads a page that was never written --------------------------------------------------------- *)

\* A read that has begun finds the file and goes back to where it came from.
LEMMA ReadFinds ==
  ASSUME ControlInv, BufferLockOK, PagesInv, NEW p \in Backends \union {Startup}, SlruPhysicalReadPage(p)
  PROVE  at'[p] # "failed"
<1> USE Names DEF ControlInv
<1>1. at[p] = "xactRead" /\ p \in Everyone
  BY DEF SlruPhysicalReadPage
<1>2. io[p].page \in Pages /\ slot[io[p].page].status = "reading" /\ io[p].back \in {"idle", "setStatus", "getStatus", "replay"}
  BY <1>1 DEF IOOK, IOStates, BufferLockOK
<1>3. xactFile[io[p].page] # None
  BY <1>2 DEF PagesInv, ThereOK
<1>4. Goto(p, io[p].back)
  BY <1>3 DEF SlruPhysicalReadPage
<1> QED BY <1>1, <1>2, <1>4, GotoOnly

\* A process fails only in a read.
LEMMA NobodyFails ==
  ASSUME ControlInv, ControlInv', BufferLockOK, PagesInv, Move, NEW p \in Everyone
  PROVE  at'[p] # "failed"
<1> USE Names DEF ControlInv
<1>0. at[p] # "failed"
  BY DEF PagesInv
<1>1. CASE Crash
  BY <1>1, CrashPhases
<1> SUFFICES ASSUME ~Crash, at'[p] = "failed" PROVE FALSE
  BY <1>1
<1>2. p \in Backends \/ p = Startup
  BY DEF AtOK, CkptStates, Everyone
<1>3. CASE p \in Backends
  <2>1. ASSUME NEW b \in Backends, BackendMove(b) PROVE FALSE
    <3>1. b # p => at'[p] = at[p]
      BY <2>1, BackendPhases DEF OthersThere
    <3>2. b = p => at'[p] # "failed"
      <4> SUFFICES ASSUME b = p PROVE at'[b] # "failed"
        OBVIOUS
      <4>1. /\ ZeroNext(b) => at'[b] = "extended"
            /\ GetNewTransactionId(b) => at'[b] = "insert"
            /\ InsertTuple(b) => at'[b] = "logInsert"
            /\ LogInsert(b) \/ InsertFails(b) => at'[b] = "end"
        BY GotoOnly DEF ZeroNext, GetNewTransactionId, InsertTuple, InsertFails, LogInsert
      <4>2. /\ LogEnd(b) => at'[b] \in {"flush", "setStatus"}
            /\ FlushCommit(b) => at'[b] = "setStatus"
            /\ EndTransaction(b) \/ MarkBufferDirtyHint(b) => at'[b] = "idle"
        BY GotoOnly DEF LogEnd, FlushCommit, EndTransaction, MarkBufferDirtyHint
      <4>3. /\ Scan(b) => at'[b] = "getStatus"
            /\ ReadBit(b) => at'[b] = "hint"
            /\ SetHintBits(b) => at'[b] \in {"idle", "markDirty"}
            /\ ScanNothing(b) => at'[b] = at[b]
        BY GotoOnly DEF Scan, ReadBit, SetHintBits, ScanNothing
      <4> QED BY <1>0, <2>1, <4>1, <4>2, <4>3 DEF BackendMove
    <3> QED BY <1>0, <3>1, <3>2
  <2>2. ASSUME NEW c \in Backends \union {Startup},
               SetBit(c) \/ SlruPhysicalReadPage(c) \/ (\E pg \in Pages : BeginRead(c, pg))
        PROVE  FALSE
    <3>1. c # p => at'[p] = at[p]
      BY <2>2, SetBitPhases, ReadPhases, BeginReadPhases DEF OthersThere
    <3>2. c = p => at'[p] # "failed"
      BY <2>2, ReadFinds, SetBitPhases, BeginReadPhases
    <3> QED BY <1>0, <3>1, <3>2
  <2>3. ASSUME NEW c \in Everyone \ {BgWriter},
               SlruWrite(c) \/ SlruWritten(c) \/ (\E pg \in Pages, back \in Backs : BeginWrite(c, pg, back))
        PROVE  FALSE
    <3>1. c # p => at'[p] = at[p]
      BY <2>3, WritePhases, WrittenPhases, BeginWritePhases DEF OthersThere
    <3>2. SlruWrite(p) \/ (\E pg \in Pages, back \in Backs : BeginWrite(p, pg, back)) => at'[p] # "failed"
      BY <1>3, WritePhases, BeginWritePhases
    <3>3. SlruWritten(p) => at'[p] # "failed"
      <4>1. at[p] = "xactWritten" => io[p].back \in Backs \union {None} /\ io[p].back \in {"idle", "setStatus", "getStatus"}
        BY <1>3 DEF IOOK, IOStates
      <4> QED BY <4>1, GotoOnly DEF SlruWritten
    <3> QED BY <1>0, <2>3, <3>1, <3>2, <3>3
  <2>4. ASSUME NEW pg \in Pages, TakeOver(pg) PROVE FALSE
    BY <1>0, <2>4 DEF TakeOver
  <2>5. ASSUME NEW c \in {BgWriter, Checkpointer}, BeginFlush(c) \/ HeapWrite(c) \/ HeapWritten(c) PROVE FALSE
    BY <1>0, <1>3, <2>5, HeapIOPhases DEF OthersThere
  <2>6. ~CheckpointerMove /\ ~StartupMove /\ ~Nothing
    BY <1>0, <1>3, CheckpointerPhases, StartupPhases DEF Nothing
  <2> QED BY <2>1, <2>2, <2>3, <2>4, <2>5, <2>6 DEF Move, SharedMove
<1>4. CASE p = Startup
  <2>1. ~StartupMove
    BY <1>4, StartupPhases
  <2>2. ~UpdateControlFile
    BY <1>4, CheckpointerPhases DEF CheckpointerMove
  <2>3. ~SetBit(Startup) /\ ~SlruPhysicalReadPage(Startup)
    BY <1>4, SetBitPhases, ReadFinds
  <2>4. ~SlruWrite(Startup)
    BY <1>4, WritePhases
  <2>5. ~SlruWritten(Startup)
    <3>1. at[Startup] = "xactWritten" => io[Startup].back \in {"setStatus", "replay"}
      BY DEF IOOK, IOStates
    <3> QED BY <1>4, <3>1, GotoOnly DEF SlruWritten
  <2>6. \A pg \in Pages : ~BeginRead(Startup, pg) /\ \A back \in Backs : ~BeginWrite(Startup, pg, back)
    BY <1>4, BeginReadPhases, BeginWritePhases
  <2> QED BY <1>0, <1>4, <2>1, <2>2, <2>3, <2>4, <2>5, <2>6, StartupStays
<1> QED BY <1>2, <1>3, <1>4

(* After a clean start every page with an id that has been assigned has its file. *)
LEMMA InitPages == Init => PagesInv
<1> SUFFICES ASSUME NEW plan \in Plans, InitFrom(plan) PROVE PagesInv
  BY DEF Init
<1> USE Names
<1>0. plan.nextXid \in Nat \ {0} /\ Len(log) = plan.nextXid
  BY StartLog
<1>1. (\A p \in Everyone : at[p] = "idle") /\ nextXid = plan.nextXid
      /\ controlFile.redo = Len(log) + 1 /\ controlFile.nextXid = nextXid
  BY DEF InitFrom, Idle
<1>2. ~Replaying /\ Replayed = Len(log) + 1
  BY <1>1 DEF Replaying, Replayed
<1>3. ASSUME NEW q \in Pages PROVE ThereOK(q) /\ KeptPages(q) /\ CkptPages(q)
  <2>1. slot[q] = Empty(q) /\ xactFile[q] = InitialPage(q, plan.nextXid) /\ xactKept[q] = {xactFile[q]}
    BY DEF InitFrom
  <2>2. slot[q].status = "empty"
    BY <2>1, EmptySlot
  <2>3. InUse(q) <=> Reaches(nextXid, q)
    BY <1>1 DEF InUse, Making
  <2>4. Reaches(nextXid, q) => xactFile[q] # None
    <3> SUFFICES ASSUME Reaches(nextXid, q) PROVE xactFile[q] # None
      OBVIOUS
    <3>1. \E x \in On(q) : x < plan.nextXid
      BY <1>1 DEF Reaches
    <3>2. xactFile[q] = [x \in On(q) |-> IF x < plan.nextXid THEN "committed" ELSE "inProgress"]
      BY <2>1, <3>1 DEF InitialPage
    <3>3. xactFile[q] \in [On(q) -> {"inProgress", "committed", "aborted"}]
      BY <3>2
    <3> QED BY <3>3, DurabilityConstants
  <2>5. ThereOK(q)
    BY <1>1, <1>2, <2>2, <2>3, <2>4 DEF ThereOK, There
  <2>6. Reaches(nextXid, q) => KeptThere(q)
    BY <2>1, <2>4 DEF KeptThere
  <2>7. ~Reaches(nextXid, q) => BroughtBack(controlFile.redo, q)
    <3>1. \A i \in 1..Len(log) : ~(controlFile.redo <= i)
      BY <1>0, <1>1
    <3> QED BY <2>3, <3>1 DEF BroughtBack, ZeroedBeforeUse
  <2>8. KeptPages(q)
    BY <1>1, <2>6, <2>7 DEF KeptPages
  <2>9. CkptPages(q)
    BY <1>1 DEF CkptPages
  <2> QED BY <2>5, <2>8, <2>9
<1>4. CkptBehind
  BY <1>1 DEF CkptBehind
<1> QED BY <1>1, <1>3, <1>4 DEF PagesInv

(* Every step keeps the pages in use there. *)
LEMMA PagesStep ==
  ControlInv /\ ControlInv' /\ LoggedInv /\ BroughtInv /\ CommitInv /\ PagesInv /\ [Next]_vars => PagesInv'
<1> SUFFICES ASSUME ControlInv, ControlInv', LoggedInv, BroughtInv, CommitInv, PagesInv, [Next]_vars PROVE PagesInv'
  OBVIOUS
<1>1. Move
  BY Moves
<1>2. FreshOK /\ BufferLockOK /\ PageBrings /\ CkptBehind
  BY DEF LoggedInv, BroughtInv, PagesInv
<1>3. CkptBehind'
  BY <1>1, <1>2, CkptBehindStep
<1>4. \A p \in Everyone : at'[p] # "failed"
  BY <1>1, <1>2, NobodyFails
<1>5. ASSUME NEW q \in Pages PROVE ThereOK(q)' /\ KeptPages(q)' /\ CkptPages(q)'
  <2>0. ThereOK(q) /\ KeptPages(q) /\ CkptPages(q)
    BY DEF PagesInv
  <2>1. CASE Crash
    BY <2>0, <2>1, PagesAfterCrash
  <2>2. CASE ~Crash
    <3>1. ThereOK(q)'
      BY <1>1, <1>2, <2>0, <2>2, ThereStep
    <3>2. KeptPages(q)'
      BY <1>1, <1>2, <2>0, <2>2, KeptPagesStep
    <3>3. CkptPages(q)'
      BY <1>1, <1>2, <2>0, <2>2, <3>1, CkptPagesStep
    <3> QED BY <3>1, <3>2, <3>3
  <2> QED BY <2>1, <2>2
<1> QED BY <1>3, <1>4, <1>5 DEF PagesInv

(* --- What a transaction that commits finds in pg_xact ----------------------------------------------------- *)

\* The pages are contiguous: what is between two ids of a page is on it.
LEMMA PageBetween ==
  ASSUME NEW y \in Nat, NEW n \in Nat, NEW x \in Nat, y <= n, n <= x, TransactionIdToPage(y) = TransactionIdToPage(x)
  PROVE  TransactionIdToPage(n) = TransactionIdToPage(x)
<1> DEFINE k == XactsPerPage
           a == x \div k
           c == n \div k
<1>0. k \in Nat \ {0}
  BY SlruConstants
<1>1. a \in Nat /\ x % k \in Nat /\ x % k < k /\ x = k * a + (x % k)
  BY <1>0, DivMod
<1>2. y \div k = a
  BY DEF TransactionIdToPage
<1>3. y % k \in Nat /\ y = k * a + (y % k)
  BY <1>0, <1>2, DivMod
<1>4. c \in Nat /\ n % k \in Nat /\ n % k < k /\ n = k * c + (n % k)
  BY <1>0, DivMod
<1>5. k * a \in Nat /\ k * c \in Nat
  BY <1>0, <1>1, <1>4
<1>6. ~(a < c)
  <2> SUFFICES ASSUME a < c PROVE FALSE
    OBVIOUS
  <2>1. k * a + k <= k * c
    BY <1>0, <1>1, <1>4, ProductMonotone
  <2> HIDE DEF a, c, k
  <2> QED BY <1>0, <1>1, <1>4, <1>5, <2>1
<1>7. ~(c < a)
  <2> SUFFICES ASSUME c < a PROVE FALSE
    OBVIOUS
  <2>1. k * c + k <= k * a
    BY <1>0, <1>1, <1>4, ProductMonotone
  <2> HIDE DEF a, c, k
  <2> QED BY <1>0, <1>3, <1>4, <1>5, <2>1
<1>8. a = c
  BY <1>1, <1>4, <1>6, <1>7
<1> QED BY <1>8 DEF TransactionIdToPage

(* A transaction commits only if it has been free to, while the server is up. *)
LEMMA SealedFate ==
  ASSUME ControlInv, Move, NEW x, Sealed(x)'
  PROVE  Sealed(x) \/ (~Crash /\ Up /\ Open(x))
<1> USE DEF ControlInv
<1>1. PICK i \in 1..Len(log') : log'[i].kind = "commit" /\ log'[i].xid = x
  BY DEF Sealed, Has
<1>2. CASE i \in 1..Len(log) /\ log'[i] = log[i]
  BY <1>1, <1>2 DEF Sealed, Has
<1>3. CASE ~Crash /\ i = Len(log) + 1 /\ NewRecord(log'[Len(log) + 1])
  <2>1. PICK r : r = log'[i]
    OBVIOUS
  <2>2. NewRecord(r) /\ r.kind \in Ending /\ r.kind # "abort" /\ r.xid = x
    BY <1>1, <1>3, <2>1 DEF Ending
  <2>3. PICK b \in Backends : LogEnd(b) /\ r.xid = my[b].xid /\ (r.kind = "abort" <=> my[b].kind = "abort")
    BY <2>2, NewEnding
  <2>4. at[b] = "end"
    BY <2>3 DEF LogEnd
  <2>5. my[b].kind \in Updates
    BY <2>4 DEF Phase, IOStates, MyOK, XactOK
  <2>6. my[b].kind \in {"sync", "async"} /\ my[b].xid = x
    BY <2>2, <2>3, <2>5 DEF Updates
  <2>7. Up
    BY <2>4, WhoRuns
  <2> QED BY <1>3, <2>6, <2>7 DEF Open
<1> QED BY <1>2, <1>3, LogFate

(* A transaction is free to commit if it was, if the page of its id has just been made, or if recovery has met  *)
(* the page.                                                                                                  *)
LEMMA OpenFate ==
  ASSUME ControlInv, ControlInv', Move, ~Crash, NEW x \in Xids, Open(x)'
  PROVE  \/ Open(x)
         \/ \E b \in Backends : ZeroNext(b) /\ TransactionIdToPage(x) = TransactionIdToPage(nextXid)
         \/ Redoes
<1> USE DEF ControlInv
<1>0. nextXid \in Nat /\ nextXid' \in Nat /\ nextXid <= nextXid' /\ x \in Nat /\ nextXid \in NextXids
  BY NextXidStep, PageOfXid DEF XidGenOK
<1>1. ASSUME NEW b \in Backends, my'[b].kind \in {"sync", "async"}, my'[b].xid = x PROVE Open(x)
  <2>1. CASE KeepsXid(b)
    BY <1>1, <2>1 DEF KeepsXid, GivesUp, Open
  <2>2. CASE Begins(b)
    <3>1. x = nextXid /\ GetNewTransactionId(b)
      BY <1>1, <2>2 DEF Begins
    <3>2. PICK q : q = TransactionIdToPage(x)
      OBVIOUS
    <3>3. CASE at[b] = "extended"
      BY <1>0, <3>1, <3>3 DEF Open, InUse, Making
    <3>4. CASE ~FirstOnPage(nextXid)
      <4>1. nextXid - 1 \in On(q)
        BY <1>0, <3>1, <3>2, <3>4, NextPage
      <4>2. nextXid - 1 < nextXid
        BY <1>0
      <4>3. InUse(q) /\ nextXid <= x
        BY <1>0, <3>1, <4>1, <4>2 DEF InUse, Reaches
      <4> QED BY <3>2, <4>3 DEF Open
    <3> QED BY <3>1, <3>3, <3>4 DEF GetNewTransactionId
  <2> QED BY <1>1, <2>1, <2>2, XidFate DEF Updates
<1>2. ASSUME InUse(TransactionIdToPage(x))', nextXid' <= x
      PROVE  \/ Open(x)
             \/ \E b \in Backends : ZeroNext(b) /\ TransactionIdToPage(x) = TransactionIdToPage(nextXid)
             \/ Redoes
  <2>1. PICK q : q = TransactionIdToPage(x)
    OBVIOUS
  <2>2. q \in Pages /\ InUse(q)' /\ nextXid <= x
    BY <1>0, <1>2, <2>1, PageOfXid
  <2>3. CASE InUse(q)
    BY <2>1, <2>2, <2>3 DEF Open
  <2>4. CASE ~InUse(q)
    BY <2>1, <2>2, <2>4, InUseFate
  <2> QED BY <2>3, <2>4
<1> QED BY <1>1, <1>2 DEF Open

\* A record that zeroes the page of x stays, but for a crash.
LEMMA SweptStays ==
  ASSUME ControlInv, Move, ~Crash, NEW n \in Nat, NEW x, Swept(x, n)
  PROVE  Swept(x, n)'
<1>1. Len(log) \in Nat /\ Len(log') \in Nat /\ Len(log) <= Len(log')
  BY LogFate, LogStep DEF Grows
<1> QED BY <1>1, ZeroInStays DEF Swept

\* Of a transaction with a commit record it stays after a crash too.
LEMMA SweptAfterCrash ==
  ASSUME ControlInv, OrderOK, Crash, NEW n \in Nat, NEW x, Swept(x, n), Sealed(x)'
  PROVE  Swept(x, n)'
<1> USE DEF ControlInv
<1>1. PICK k \in durable..Len(log) : Lose(k)
  BY DEF Crash
<1>2. Len(log') = k /\ \A i \in 1..k : i \in 1..Len(log) /\ log'[i] = log[i]
  BY <1>1, LoseEffect
<1>3. PICK j \in 1..Len(log) : n <= j /\ log[j].kind = "zero" /\ log[j].xid = TransactionIdToPage(x)
  BY DEF Swept, ZeroIn
<1>4. PICK i \in 1..Len(log') : log'[i].kind = "commit" /\ log'[i].xid = x
  BY DEF Sealed, Has
<1>5. i \in 1..Len(log) /\ log[i].kind = "commit" /\ log[i].xid = x
  BY <1>2, <1>4
<1>6. j < i
  BY <1>3, <1>5 DEF OrderOK, ZeroFirst, Traces
<1>7. j \in 1..Len(log') /\ j < Len(log') + 1 /\ log'[j] = log[j]
  BY <1>2, <1>4, <1>6
<1> QED BY <1>3, <1>7 DEF Swept, ZeroIn

\* The record that ExtendCLOG writes zeroes the page of x.
LEMMA NewlySwept ==
  ASSUME ControlInv, ControlInv', NEW b \in Backends, ZeroNext(b), NEW x, TransactionIdToPage(x) = TransactionIdToPage(nextXid),
         NEW n \in Nat, n <= Len(log) + 1
  PROVE  Swept(x, n)'
<1>0. Len(log) \in Nat
  BY DEF ControlInv, LogOK
<1>1. log' = Append(log, [kind |-> "zero", xid |-> TransactionIdToPage(nextXid)])
  BY DEF ZeroNext, Log, Insert
<1>2. Len(log') = Len(log) + 1 /\ log'[Len(log) + 1] = [kind |-> "zero", xid |-> TransactionIdToPage(nextXid)]
  BY <1>1 DEF ControlInv, LogOK
<1>3. log'[Len(log) + 1].kind = "zero" /\ log'[Len(log) + 1].xid = TransactionIdToPage(x)
  BY <1>2
<1>4. Len(log) + 1 \in 1..Len(log') /\ Len(log) + 1 < Len(log') + 1
  BY <1>0, <1>2
<1> QED BY <1>3, <1>4 DEF Swept, ZeroIn

(* A status that is not aborted becomes so only by being set. *)
LEMMA NotAborted ==
  ASSUME ControlInv, BufferLockOK, \A pg \in Pages : CleanOK(pg), Move, ~Crash, NEW x \in Xids, StatusOf(x) # "aborted",
         \A p \in Backends \union {Startup} : SetBit(p) /\ my[p].xid = x => NewStatus(p) # "aborted"
  PROVE  StatusOf(x)' # "aborted"
<1> USE DEF ControlInv
<1>2. PICK q : q = TransactionIdToPage(x)
  OBVIOUS
<1>3. q \in Pages /\ x \in On(q)
  BY <1>2, PageOfXid
<1>4. StatusOf(x) = IF slot[q].status \in {"valid", "writing"} THEN slot[q].bits[x]
                    ELSE IF xactFile[q] = None THEN "inProgress" ELSE xactFile[q][x]
  BY <1>2 DEF StatusOf
<1>5. StatusOf(x)' = IF slot'[q].status \in {"valid", "writing"} THEN slot'[q].bits[x]
                    ELSE IF xactFile'[q] = None THEN "inProgress" ELSE xactFile'[q][x]
  BY <1>2 DEF StatusOf
<1>6. Zeroes(q)[x] = "inProgress"
  BY <1>3, EmptySlot
<1>8. xactFile'[q] = xactFile[q] \/ (slot[q].status = "writing" /\ slot' = slot)
  BY <1>3, FileFate
<1>9. CASE slot' = slot /\ slot[q].status = "writing"
  BY <1>4, <1>5, <1>9
<1> SUFFICES ASSUME xactFile'[q] = xactFile[q] PROVE StatusOf(x)' # "aborted"
  BY <1>8, <1>9
<1>10. CASE Kept(q)
  BY <1>4, <1>5, <1>10 DEF Kept
<1>11. CASE Dropped(q)
  <2>1. AsFile(q) /\ slot[q].bits[x] # "aborted"
    BY <1>3, <1>4, <1>11 DEF Dropped, CleanOK
  <2> QED BY <1>5, <1>11, <2>1 DEF Dropped, AsFile
<1>12. CASE Marked(q)
  <2>1. PICK p \in Backends \union {Startup} :
          /\ SetBit(p) /\ my[p].xid \in On(q)
          /\ slot'[q].bits = [slot[q].bits EXCEPT ![my[p].xid] = NewStatus(p)]
    BY <1>12 DEF Marked
  <2>2. slot[q].bits \in [On(q) -> Status] /\ slot[q].bits[x] # "aborted" /\ slot'[q].status \in {"valid", "writing"}
    BY <1>3, <1>4, <1>12 DEF SlotOK, Marked
  <2> QED BY <1>3, <1>5, <2>1, <2>2
<1>13. CASE ReadIn(q)
  BY <1>4, <1>5, <1>6, <1>13 DEF ReadIn
<1>14. CASE ToRead(q)
  BY <1>4, <1>5, <1>14 DEF ToRead
<1>15. CASE Written(q) \/ ToWrite(q) \/ NotWritten(q)
  BY <1>4, <1>5, <1>15 DEF Written, ToWrite, NotWritten
<1>16. CASE Zeroed(q)
  BY <1>5, <1>6, <1>16 DEF Zeroed
<1>17. CASE Cut(q)
  BY <1>3, <1>4, <1>5, <1>17 DEF Cut
<1> QED BY <1>3, <1>10, <1>11, <1>12, <1>13, <1>14, <1>15, <1>16, <1>17, SlotFate

(* Nobody aborts a transaction that has committed or is free to. *)
LEMMA NotAborting ==
  ASSUME ControlInv, FreshOK, OrderOK, NEW x \in Xids, Sealed(x) \/ (~Replaying /\ Open(x)),
         NEW p \in Backends \union {Startup}, SetBit(p), my[p].xid = x
  PROVE  NewStatus(p) # "aborted"
<1> USE Names DEF ControlInv
<1>1. CASE Sealed(x)
  <2>1. PICK i \in 1..Len(log) : log[i].kind = "commit" /\ log[i].xid = x
    BY <1>1 DEF Sealed, Has
  <2> QED BY <2>1, MarkedTrue
<1>2. CASE ~Replaying /\ Open(x)
  <2>0. at[p] = "setStatus" /\ nextXid \in Nat /\ x \in Nat
    BY SlruConstants, PageOfXid DEF SetBit, XidGenOK, NextXids
  <2>1. p \in Backends
    BY <1>2, <2>0 DEF Replaying
  <2>2. my[p].kind \in Updates
    BY <2>0, <2>1 DEF Phase, IOStates, MyOK, XactOK
  <2>3. x < nextXid
    BY <2>1, <2>2 DEF FreshOK
  <2>4. PICK b \in Backends : my[b].kind \in {"sync", "async"} /\ my[b].xid = x
    BY <1>2, <2>0, <2>3 DEF Open
  <2>5. b = p
    BY <2>1, <2>2, <2>4 DEF OrderOK, Updates
  <2> QED BY <2>4, <2>5 DEF NewStatus
<1> QED BY <1>1, <1>2

(* TrimCLOG clears what is left of an earlier life beyond nextXid. *)
LEMMA TrimClears ==
  ASSUME ControlInv, EndReplay, NEW x \in Xids, Open(x)'
  PROVE  StatusOf(x)' = "inProgress"
<1> USE Names DEF ControlInv
<1>0. my' = my /\ nextXid' = nextXid /\ at[Startup] = "replay" /\ nextXid \in NextXids /\ nextXid \in Nat /\ x \in Nat
  BY SlruConstants, PageOfXid DEF EndReplay, xactVars, XidGenOK, NextXids
<1>1. ASSUME NEW b \in Backends PROVE at'[b] = "idle" /\ my'[b].kind = None
  <2>1. at[b] = "idle" /\ at'[b] = at[b]
    BY <1>0, StartupPhases DEF StartupOK, StartupMove
  <2>2. my[b].kind = None
    BY <2>1 DEF Phase, IOStates, MyOK, XactOK
  <2> QED BY <1>0, <2>1, <2>2
<1>2. PICK q : q = TransactionIdToPage(x)
  OBVIOUS
<1>3. q \in Pages /\ x \in On(q)
  BY <1>2, PageOfXid
<1>4. InUse(q)' /\ nextXid <= x
  <2>1. None \notin {"sync", "async"}
    BY DurabilityConstants
  <2>2. InUse(TransactionIdToPage(x))' /\ nextXid' <= x
    BY <1>1, <2>1 DEF Open
  <2> QED BY <1>0, <1>2, <2>2
<1>5. Reaches(nextXid, q)
  BY <1>0, <1>1, <1>4 DEF InUse, Making, Reaches
<1>6. PICK y \in On(q) : y < nextXid
  BY <1>5 DEF Reaches
<1>7. y \in Nat /\ TransactionIdToPage(y) = q
  BY <1>3, PageOfXid
<1>8. TransactionIdToPage(nextXid) = q
  BY <1>0, <1>2, <1>4, <1>6, <1>7, PageBetween
<1>9. ~FirstOnPage(nextXid)
  BY <1>0, <1>6, <1>7, <1>8, FirstIsLeast
<1>10. SlotOK /\ slot' = Trimmed(slot, nextXid) /\ slot[q].status = "valid"
  BY <1>8, <1>9 DEF EndReplay, TrimmedSlots, Usable
<1> HIDE Names DEF ControlInv
<1>11. /\ SlotOK' /\ OthersSame(q)
       /\ slot'[q].status = slot[q].status /\ slot'[q].dirty = TRUE
       /\ \A z \in On(q) : slot'[q].bits[z] = IF z < nextXid THEN slot[q].bits[z] ELSE "inProgress"
       /\ slot'[q].lsn = slot[q].lsn /\ slot'[q].io = slot[q].io
  BY <1>0, <1>8, <1>9, <1>10, TrimmedEffect, ZenonT(60)
<1>12. ~(x < nextXid)
  BY <1>0, <1>4
<1> QED BY <1>2, <1>3, <1>10, <1>11, <1>12 DEF StatusOf

\* A page that has just been zeroed has no status.
LEMMA ZeroClears ==
  ASSUME ControlInv, NEW x \in Xids, SimpleLruZeroPage(TransactionIdToPage(x))
  PROVE  StatusOf(x)' = "inProgress"
<1>1. PICK q : q = TransactionIdToPage(x)
  OBVIOUS
<1>2. q \in Pages /\ x \in On(q)
  BY <1>1, PageOfXid
<1>3. slot'[q].status = "valid" /\ slot'[q].bits = Zeroes(q)
  BY <1>1, <1>2, ZeroPageEffect DEF ControlInv
<1>4. Zeroes(q)[x] = "inProgress"
  BY <1>2, EmptySlot
<1> QED BY <1>1, <1>3, <1>4 DEF StatusOf

(* A transaction that has committed or is free to is not marked aborted, unless recovery is still to zero    *)
(* its page.                                                                                               *)
LEMMA ShownStep ==
  ASSUME ControlInv, ControlInv', FreshOK, BufferLockOK, OrderOK, \A pg \in Pages : CleanOK(pg), Move, ~Crash,
         NEW x \in Xids, ShownOK(x)
  PROVE  ShownOK(x)'
<1> USE Names DEF ControlInv
<1>0. Len(log) \in Nat /\ Len(log') \in Nat /\ Replayed \in 1..(Len(log) + 1)
  BY LogFate, ReplayedStep
<1> SUFFICES ASSUME Sealed(x)' \/ (~Replaying' /\ Open(x)') PROVE StatusOf(x)' # "aborted" \/ Swept(x, Replayed)'
  BY DEF ShownOK
<1>1. CASE Sealed(x) \/ (~Replaying /\ Open(x))
  <2>1. CASE StatusOf(x) # "aborted"
    <3>1. \A p \in Backends \union {Startup} : SetBit(p) /\ my[p].xid = x => NewStatus(p) # "aborted"
      BY <1>1, NotAborting
    <3> QED BY <2>1, <3>1, NotAborted
  <2>2. CASE Swept(x, Replayed)
    <3>1. PICK j \in 1..Len(log) : Replayed <= j /\ log[j].kind = "zero" /\ log[j].xid = TransactionIdToPage(x)
      BY <2>2 DEF Swept, ZeroIn
    <3>2. Replaying
      <4>1. Replayed # Len(log) + 1
        BY <1>0, <3>1
      <4> QED BY <4>1 DEF Replayed
    <3>3. CASE Redoes /\ replay \in 1..Len(log) /\ Replayed = replay /\ Replayed' = replay + 1 /\ log' = log
      <4>1. CASE j = replay
        <5>1. RedoZero
          BY <3>1, <3>3, <4>1 DEF Redoes, RedoTuple, RedoEnd, RedoOther, Redo
        <5>2. SimpleLruZeroPage(TransactionIdToPage(x))
          BY <3>1, <4>1, <5>1 DEF RedoZero
        <5> QED BY <5>2, ZeroClears
      <4>2. CASE j # replay
        <5>1. Replayed' <= j /\ j < Len(log') + 1
          BY <1>0, <3>1, <3>3, <4>2
        <5> QED BY <3>1, <3>3, <5>1 DEF Swept, ZeroIn
      <4> QED BY <4>1, <4>2
    <3>4. CASE Replayed' = Replayed /\ log' = log
      BY <2>2, <3>4 DEF Swept, ZeroIn
    <3> QED BY <3>2, <3>3, <3>4, ReplayedStep
  <2> QED BY <1>1, <2>1, <2>2 DEF ShownOK
<1>2. CASE ~(Sealed(x) \/ (~Replaying /\ Open(x)))
  <2>1. ~Sealed(x)'
    BY <1>2, SealedFate DEF Up, Replaying
  <2>2. ~Replaying' /\ Open(x)'
    BY <2>1
  <2>3. CASE Replaying
    <3>1. EndReplay
      <4>1. ~UpdateControlFile
        BY <2>3, WhoRuns DEF CheckpointerMove
      <4>2. CASE StartupMove
        BY <2>2, <4>2, StartupPhases DEF StartupMove, Replaying, RedoTuple, RedoEnd, RedoZero, RedoOther
      <4>3. CASE ~StartupMove
        BY <2>2, <2>3, <4>1, <4>3, RecoveryGoesOn DEF Replaying
      <4> QED BY <4>2, <4>3
    <3> QED BY <2>2, <3>1, TrimClears
  <2>4. CASE ~Replaying
    <3>1. ~Redoes
      BY <2>4 DEF Redoes, RedoTuple, RedoEnd, RedoZero, RedoOther, Redo, Replaying
    <3>2. PICK b \in Backends : ZeroNext(b) /\ TransactionIdToPage(x) = TransactionIdToPage(nextXid)
      BY <1>2, <2>2, <2>4, <3>1, OpenFate
    <3>3. SimpleLruZeroPage(TransactionIdToPage(x))
      BY <3>2 DEF ZeroNext
    <3> QED BY <3>3, ZeroClears
  <2> QED BY <2>3, <2>4
<1> QED BY <1>1, <1>2

(* --- What a crash leaves of it ---------------------------------------------------------------------------- *)

\* While the server runs it is plain: the status is not aborted.
LEMMA ShownUp ==
  ASSUME ControlInv, NEW x \in Xids, ShownOK(x), ~Replaying, Sealed(x) \/ Open(x)
  PROVE  StatusOf(x) # "aborted"
<1>1. Len(log) \in Nat /\ Replayed = Len(log) + 1
  BY DEF ControlInv, LogOK, Replayed
<1>2. ~Swept(x, Replayed)
  BY <1>1 DEF Swept, ZeroIn
<1> QED BY <1>2 DEF ShownOK

\* The contents a crash may leave, of a page that is written while the status is not aborted.
LEMMA KeptClearStays ==
  ASSUME ControlInv, BufferLockOK, Move, ~Crash, NEW x \in Xids, KeptClear(x), StatusOf(x) # "aborted"
  PROVE  KeptClear(x)'
<1>1. PICK q : q = TransactionIdToPage(x)
  OBVIOUS
<1>2. q \in Pages
  BY <1>1, PageOfXid
<1>3. xactFile[q] \in xactKept[q]
  BY <1>2 DEF ControlInv, FilesOK
<1>4. slot[q].status = "writing" => Clear(x, slot[q].bits)
  BY <1>1 DEF StatusOf, Clear
<1>5. \A bits \in xactKept'[q] : bits \in xactKept[q] \/ (bits = slot[q].bits /\ slot[q].status = "writing")
  BY <1>2, <1>3, KeptFate
<1>6. \A bits \in xactKept'[q] : Clear(x, bits)
  BY <1>1, <1>4, <1>5 DEF KeptClear
<1> QED BY <1>1, <1>6 DEF KeptClear

(* After a crash. *)
LEMMA ShownAfterCrash ==
  ASSUME ControlInv, OrderOK, Crash, NEW x \in Xids, KeptShown(x)
  PROVE  ShownOK(x)' /\ KeptShown(x)' /\ CkptShown(x)'
<1> USE Names DEF ControlInv
<1>0. controlFile' = controlFile /\ controlFile.redo \in Nat /\ replay' = controlFile.redo
  BY DEF Crash, CheckpointOK
<1>1. Replaying' /\ ~Up' /\ Replayed' = controlFile.redo /\ at'[Checkpointer] = "idle"
  BY <1>0, CrashPhases DEF Replaying, Replayed, Up
<1>2. CkptShown(x)'
  BY <1>1 DEF CkptShown
<1> SUFFICES ASSUME Sealed(x)' PROVE (StatusOf(x)' # "aborted" /\ KeptClear(x)') \/ Swept(x, controlFile.redo)'
  <2>1. Swept(x, controlFile.redo)' => Swept(x, Replayed)'
    BY <1>0, <1>1 DEF Swept
  <2> QED BY <1>1, <1>2, <2>1 DEF ShownOK, KeptShown
<1>3. Sealed(x)
  BY SealedFate DEF Move
<1>4. CASE KeptClear(x)
  <2>1. PICK q : q = TransactionIdToPage(x)
    OBVIOUS
  <2>2. q \in Pages
    BY <2>1, PageOfXid
  <2>3. xactKept'[q] = {xactFile'[q]} /\ xactFile'[q] \in xactKept[q] /\ slot'[q] = Empty(q)
    BY <2>2 DEF Crash, SlruCrash
  <2>4. Clear(x, xactFile'[q])
    BY <1>4, <2>1, <2>3 DEF KeptClear
  <2>5. StatusOf(x)' # "aborted"
    BY <2>1, <2>2, <2>3, <2>4, EmptySlot DEF StatusOf, Clear
  <2>6. KeptClear(x)'
    BY <2>1, <2>3, <2>4 DEF KeptClear, Clear
  <2> QED BY <2>5, <2>6
<1>5. CASE Swept(x, controlFile.redo)
  <2>1. PICK n : n = controlFile.redo
    OBVIOUS
  <2>2. Swept(x, n)'
    BY <1>0, <1>5, <2>1, SweptAfterCrash
  <2> QED BY <1>0, <2>1, <2>2
<1> QED BY <1>3, <1>4, <1>5 DEF KeptShown

(* What a crash may leave does not show it as aborted, unless replay will zero the page. *)
LEMMA KeptShownStep ==
  ASSUME ControlInv, ControlInv', BufferLockOK, PageBrings, Move, ~Crash,
         NEW x \in Xids, ShownOK(x), KeptShown(x), CkptShown(x)
  PROVE  KeptShown(x)'
<1> USE Names DEF ControlInv
<1>0. Len(log) \in Nat /\ Replayed \in 1..(Len(log) + 1)
  BY LogFate, ReplayedStep
<1> SUFFICES ASSUME Sealed(x)' \/ (Up' /\ Open(x)') PROVE KeptClear(x)' \/ Swept(x, controlFile.redo)'
  BY DEF KeptShown
<1>1. CASE controlFile' = controlFile /\ ~UpdateControlFile
  <2>1. PICK n : n = controlFile.redo
    OBVIOUS
  <2>2. n \in Nat /\ n <= Replayed /\ n <= Len(log) + 1 /\ controlFile'.redo = n
    BY <1>0, <1>1, <2>1 DEF CheckpointOK, PageBrings
  <2>3. CASE Sealed(x) \/ (Up /\ Open(x))
    <3>1. CASE Swept(x, n)
      BY <2>2, <3>1, SweptStays
    <3>2. CASE KeptClear(x) /\ StatusOf(x) # "aborted"
      BY <3>2, KeptClearStays
    <3>3. Swept(x, Replayed) => Swept(x, n)
      BY <1>0, <2>2 DEF Swept, ZeroIn
    <3>4. Up => ~Replaying
      BY DEF Up, Replaying
    <3>5. Swept(x, n) \/ StatusOf(x) # "aborted"
      BY <2>3, <3>3, <3>4 DEF ShownOK
    <3>6. Swept(x, n) \/ KeptClear(x)
      BY <2>1, <2>3 DEF KeptShown
    <3>7. KeptClear(x)' \/ Swept(x, n)'
      BY <2>2, <3>2, <3>5, <3>6, SweptStays
    <3> QED BY <2>2, <3>7
  <2>4. CASE ~(Sealed(x) \/ (Up /\ Open(x)))
    <3>1. ~Sealed(x)'
      BY <2>4, SealedFate
    <3>2. Up
      <4>1. Up'
        BY <3>1
      <4>2. ~StartupMove
        BY <4>1, StartupPhases DEF Up
      <4> QED BY <1>1, <4>1, <4>2, RecoveryGoesOn DEF Up, Replaying
    <3>3. ~Redoes
      BY <3>2 DEF Redoes, RedoTuple, RedoEnd, RedoZero, RedoOther, Redo, Up
    <3>4. PICK b \in Backends : ZeroNext(b) /\ TransactionIdToPage(x) = TransactionIdToPage(nextXid)
      BY <2>4, <3>1, <3>2, <3>3, OpenFate
    <3>5. Swept(x, n)'
      BY <2>2, <3>4, NewlySwept
    <3> QED BY <2>2, <3>5
  <2> QED BY <2>3, <2>4
<1>2. CASE /\ UpdateControlFile /\ at[Checkpointer] = "ckControl" /\ Phase(Checkpointer) = "ckControl"
           /\ controlFile'.redo = checkPoint.redo
  <2>1. PICK n : n = checkPoint.redo
    OBVIOUS
  <2>2. n \in Nat /\ ~Replaying /\ controlFile'.redo = n
    BY <1>2, <2>1, CkptRedoBounds
  <2>3. my' = my /\ nextXid' = nextXid /\ log' = log /\ \A b \in Backends : at'[b] = at[b]
    <3>1. checkPoint.record \in Nat
      BY <1>2 DEF CheckpointOK
    <3>2. log' = log
      BY <1>2, <3>1, FlushEffect DEF UpdateControlFile
    <3> QED BY <1>2, <3>2, CheckpointerPhases DEF UpdateControlFile, xactVars, CheckpointerMove
  <2>4. Sealed(x) \/ Open(x)
    BY <2>3 DEF Sealed, Open, InUse, Making, Reaches
  <2>5. StatusOf(x) # "aborted"
    BY <2>2, <2>4, ShownUp
  <2>6. KeptClear(x) \/ Swept(x, n)
    BY <1>2, <2>1, <2>4 DEF CkptShown, CkptClear
  <2>7. KeptClear(x)' \/ Swept(x, n)'
    BY <2>2, <2>5, <2>6, KeptClearStays, SweptStays
  <2> QED BY <2>2, <2>7
<1> QED BY <1>1, <1>2, ControlFileFate

(* The checkpoint does not write it as aborted either. *)
LEMMA CkptShownStep ==
  ASSUME ControlInv, ControlInv', BufferLockOK, CommitInv, Move, ~Crash, NEW x \in Xids, ShownOK(x), CkptShown(x)
  PROVE  CkptShown(x)'
<1> USE Names DEF ControlInv
<1> SUFFICES ASSUME at'[Checkpointer] # "idle", Sealed(x)' \/ Open(x)' PROVE CkptClear(x)' \/ Swept(x, checkPoint.redo)'
  BY DEF CkptShown
<1>0. PICK q : q = TransactionIdToPage(x)
  OBVIOUS
<1>a. q \in Pages /\ x \in On(q) /\ DelayOK /\ CleanOK(q) /\ KeptOK(q)
  BY <1>0, PageOfXid DEF CommitInv
<1>1. CASE CkptBegins
  <2>1. Phase(Checkpointer)' = "ckNextXid"
    BY <1>1 DEF CkptBegins
  <2>2. ~Visited(q)'
    BY <2>1 DEF Visited
  <2> QED BY <1>0, <2>1, <2>2 DEF CkptClear
<1>2. CASE at[Checkpointer] # "idle" /\ checkPoint'.redo = checkPoint.redo
  <2>1. PICK n : n = checkPoint.redo
    OBVIOUS
  <2>2. ~Replaying /\ Len(log) \in Nat /\ n \in Nat /\ n <= Len(log) + 1 /\ checkPoint'.redo = n
    BY <1>2, <2>1, CkptRedoBounds
  <2> SUFFICES CkptClear(x)' \/ Swept(x, n)'
    BY <2>2
  <2>3. CASE ~(Sealed(x) \/ Open(x))
    <3>1. ~Redoes
      BY <2>2 DEF Redoes, RedoTuple, RedoEnd, RedoZero, RedoOther, Redo, Replaying
    <3>2. PICK b \in Backends : ZeroNext(b) /\ TransactionIdToPage(x) = TransactionIdToPage(nextXid)
      BY <2>3, <3>1, SealedFate, OpenFate
    <3> QED BY <2>2, <3>2, NewlySwept
  <2>4. CASE Sealed(x) \/ Open(x)
    <3>1. StatusOf(x) # "aborted"
      BY <2>2, <2>4, ShownUp
    <3>2. CASE Swept(x, n)
      BY <2>2, <3>2, SweptStays
    <3>3. CASE CkptClear(x)
      <4>1. KeptClear(x) => KeptClear(x)'
        BY <3>1, KeptClearStays
      <4>2. /\ Visited(q) => Clear(x, xactFile[q]) /\ (q \in pending \/ KeptClear(x))
            /\ Phase(Checkpointer) \in {"ckRecord", "ckControl"} => KeptClear(x)
        BY <1>0, <3>3 DEF CkptClear
      <4>3. ASSUME Visited(q)' PROVE Clear(x, xactFile'[q]) /\ (q \in pending' \/ KeptClear(x)')
        <5>1. ~ProcessSyncRequests /\ (Visited(q) \/ SkipPage(q))
          BY <1>a, <4>3, VisitedFate
        <5>2. CASE Visited(q)
          <6>1. slot[q].status = "writing" => Clear(x, slot[q].bits)
            BY <1>0, <3>1 DEF StatusOf, Clear
          <6>2. Clear(x, xactFile'[q])
            BY <1>a, <4>2, <5>2, <6>1, KeptFate
          <6>3. q \in pending => q \in pending'
            BY <5>1, PendingStays
          <6> QED BY <4>1, <4>2, <5>2, <6>2, <6>3
        <5>3. CASE SkipPage(q)
          <6>1. /\ slot[q].status \in {"empty", "reading"} \/ (slot[q].status = "valid" /\ ~slot[q].dirty)
                /\ xactFile' = xactFile /\ xactKept' = xactKept /\ pending' = pending
            BY <5>3 DEF SkipPage, slruVars
          <6>2. ASSUME slot[q].status \in {"empty", "reading"} PROVE Clear(x, xactFile[q])
            BY <1>0, <3>1, <6>1, <6>2 DEF StatusOf, Clear
          <6>3. ASSUME slot[q].status = "valid", ~slot[q].dirty PROVE Clear(x, xactFile[q])
            <7>1. AsFile(q) /\ slot[q].bits[x] # "aborted"
              BY <1>0, <1>a, <3>1, <6>3 DEF StatusOf, CleanOK
            <7> QED BY <6>1, <7>1 DEF AsFile, Clear
          <6>4. Clear(x, xactFile[q])
            BY <6>1, <6>2, <6>3
          <6>5. xactKept[q] = {xactFile[q]} \/ q \in pending
            BY <1>a, <6>1 DEF KeptOK, BufferLockOK
          <6> QED BY <1>0, <6>1, <6>4, <6>5 DEF KeptClear, Clear
        <5> QED BY <5>1, <5>2, <5>3
      <4>4. ASSUME Phase(Checkpointer)' \in {"ckRecord", "ckControl"} PROVE KeptClear(x)'
        <5>1. (ProcessSyncRequests /\ Visited(q)) \/ (~ProcessSyncRequests /\ Phase(Checkpointer) \in {"ckRecord", "ckControl"})
          BY <1>a, <4>4, VisitedFate
        <5>2. CASE ProcessSyncRequests /\ Visited(q)
          <6>1. xactKept'[q] = IF q \in pending THEN {xactFile[q]} ELSE xactKept[q]
            BY <1>a, <5>2 DEF ProcessSyncRequests
          <6>2. \A bits \in xactKept'[q] : Clear(x, bits)
            BY <1>0, <4>2, <5>2, <6>1 DEF KeptClear
          <6> QED BY <1>0, <6>2 DEF KeptClear
        <5> QED BY <4>1, <4>2, <5>1, <5>2
      <4> QED BY <1>0, <4>3, <4>4 DEF CkptClear, Clear
    <3> QED BY <1>2, <2>1, <2>4, <3>2, <3>3 DEF CkptShown
  <2> QED BY <2>3, <2>4
<1> QED BY <1>1, <1>2, CkptGoesOn

(* Every transaction of the first log has committed, and pg_xact says so. *)
LEMMA InitStatus == Init => StatusInv
<1> SUFFICES ASSUME NEW plan \in Plans, InitFrom(plan), NEW x \in Xids PROVE ShownOK(x) /\ KeptShown(x) /\ CkptShown(x)
  BY DEF Init, StatusInv
<1> USE Names
<1>0. PICK q : q = TransactionIdToPage(x)
  OBVIOUS
<1>1. q \in Pages /\ x \in On(q)
  BY <1>0, PageOfXid
<1>2. slot[q] = Empty(q) /\ xactFile[q] = InitialPage(q, plan.nextXid) /\ xactKept[q] = {xactFile[q]}
  BY <1>1 DEF InitFrom
<1>3. slot[q].status = "empty"
  BY <1>1, <1>2, EmptySlot
<1>4. Clear(x, xactFile[q])
  <2>1. CASE \E y \in On(q) : y < plan.nextXid
    <3>1. xactFile[q] = [y \in On(q) |-> IF y < plan.nextXid THEN "committed" ELSE "inProgress"]
      BY <1>2, <2>1 DEF InitialPage
    <3>2. xactFile[q][x] # "aborted"
      BY <1>1, <3>1
    <3> QED BY <3>2 DEF Clear
  <2>2. CASE ~\E y \in On(q) : y < plan.nextXid
    <3>1. xactFile[q] = None
      BY <1>2, <2>2 DEF InitialPage
    <3> QED BY <3>1 DEF Clear
  <2> QED BY <2>1, <2>2
<1>5. StatusOf(x) # "aborted"
  BY <1>0, <1>3, <1>4 DEF StatusOf, Clear
<1>6. KeptClear(x)
  BY <1>0, <1>2, <1>4 DEF KeptClear
<1>7. at[Checkpointer] = "idle"
  BY DEF InitFrom, Idle
<1> QED BY <1>5, <1>6, <1>7 DEF ShownOK, KeptShown, CkptShown

(* Every step leaves them so. *)
LEMMA StatusStep ==
  ControlInv /\ ControlInv' /\ LoggedInv /\ BroughtInv /\ CommitInv /\ StatusInv /\ [Next]_vars => StatusInv'
<1> SUFFICES ASSUME ControlInv, ControlInv', LoggedInv, BroughtInv, CommitInv, StatusInv, [Next]_vars PROVE StatusInv'
  OBVIOUS
<1>1. Move
  BY Moves
<1>2. FreshOK /\ BufferLockOK /\ PageBrings /\ OrderOK /\ \A pg \in Pages : CleanOK(pg)
  BY DEF LoggedInv, BroughtInv, CommitInv
<1>3. ASSUME NEW x \in Xids PROVE ShownOK(x)' /\ KeptShown(x)' /\ CkptShown(x)'
  <2>0. ShownOK(x) /\ KeptShown(x) /\ CkptShown(x)
    BY DEF StatusInv
  <2>1. CASE Crash
    BY <1>2, <2>0, <2>1, ShownAfterCrash
  <2>2. CASE ~Crash
    <3>1. ShownOK(x)'
      BY <1>1, <1>2, <2>0, <2>2, ShownStep
    <3>2. KeptShown(x)'
      BY <1>1, <1>2, <2>0, <2>2, KeptShownStep
    <3>3. CkptShown(x)'
      BY <1>1, <1>2, <2>0, <2>2, CkptShownStep
    <3> QED BY <3>1, <3>2, <3>3
  <2> QED BY <2>1, <2>2
<1> QED BY <1>3 DEF StatusInv

(* Whoever is about to mark a transaction committed finds it not aborted: its commit record is in the  *)
(* log, and no record that is still to be replayed zeroes its page.                                   *)
LEMMA CommitFinds ==
  ASSUME ControlInv, OrderOK, StatusInv, NEW p \in Backends \union {Startup}, at[p] = "setStatus", my[p].kind # "abort"
  PROVE  StatusOf(my[p].xid) # "aborted"
<1> USE Names DEF ControlInv
<1>0. PICK x : x = my[p].xid
  OBVIOUS
<1>1. x \in Xids /\ Phase(p) = "setStatus" /\ Len(log) \in Nat
  BY <1>0, XidToMark DEF Phase, IOStates, LogOK
<1>2. ShownOK(x)
  BY <1>1 DEF StatusInv
<1>3. CASE p \in Backends
  <2>1. my[p].lsn \in 1..Len(log) /\ log[my[p].lsn].kind = "commit" /\ log[my[p].lsn].xid = x
    BY <1>0, <1>1, <1>3 DEF CommitLogged, LoggedBy
  <2>2. Sealed(x)
    BY <2>1 DEF Sealed, Has
  <2>3. ~Replaying
    BY <1>3 DEF StartupOK, Replaying
  <2> QED BY <1>0, <1>1, <1>2, <2>2, <2>3, ShownUp
<1>4. CASE p = Startup
  <2>1. Replaying /\ replay \in 1..(Len(log) + 1) /\ replay > 1 /\ Replayed = replay
    BY <1>1, <1>4 DEF StartupOK, Replaying, Replayed
  <2>2. log[replay - 1].kind = "commit" /\ log[replay - 1].xid = x /\ replay - 1 \in 1..Len(log)
    BY <1>0, <1>1, <1>4, <2>1 DEF StartupOK, Ending
  <2>3. Sealed(x)
    BY <2>2 DEF Sealed, Has
  <2>4. ASSUME Swept(x, Replayed) PROVE FALSE
    <3>1. PICK j \in 1..Len(log) : replay <= j /\ log[j].kind = "zero" /\ log[j].xid = TransactionIdToPage(x)
      BY <2>1, <2>4 DEF Swept, ZeroIn
    <3>2. j < replay - 1
      BY <2>2, <3>1 DEF OrderOK, ZeroFirst, Traces
    <3> QED BY <2>1, <3>1, <3>2
  <2> QED BY <1>0, <1>2, <2>3, <2>4 DEF ShownOK
<1> QED BY <1>3, <1>4

(* Whoever is about to mark a transaction aborted finds it not committed: no record says it committed. *)
LEMMA AbortFinds ==
  ASSUME ControlInv, LoggedInv, OrderOK, NEW p \in Backends \union {Startup}, at[p] = "setStatus", my[p].kind = "abort"
  PROVE  StatusOf(my[p].xid) # "committed"
<1> USE Names DEF ControlInv
<1> SUFFICES ASSUME StatusOf(my[p].xid) = "committed" PROVE FALSE
  OBVIOUS
<1>0. PICK x : x = my[p].xid
  OBVIOUS
<1>1. x \in Xids /\ Phase(p) = "setStatus" /\ Len(log) \in Nat
  BY <1>0, XidToMark DEF Phase, IOStates, LogOK
<1>2. PICK i \in 1..Len(log) : log[i].kind = "commit" /\ log[i].xid = x
  BY <1>0, <1>1, StatusLogged DEF Has
<1>3. CASE p \in Backends
  BY <1>0, <1>2, <1>3 DEF OrderOK, Uncommitted
<1>4. CASE p = Startup
  <2>1. Replaying /\ replay \in 1..(Len(log) + 1) /\ replay > 1
    BY <1>1, <1>4 DEF StartupOK, Replaying
  <2>2. log[replay - 1].kind = "abort" /\ log[replay - 1].xid = x /\ replay - 1 \in 1..Len(log)
    BY <1>0, <1>1, <1>4, <2>1 DEF StartupOK
  <2>3. i = replay - 1
    BY <1>2, <2>2 DEF OrderOK, EndOnce, Ending
  <2> QED BY <1>2, <2>2, <2>3
<1> QED BY <1>3, <1>4

(* What pg_xact says of a transaction is a status. *)
LEMMA StatusIsOne ==
  ASSUME ControlInv, NEW x \in Xids
  PROVE  StatusOf(x) \in {"inProgress", "committed", "aborted"}
<1>0. PICK q : q = TransactionIdToPage(x)
  OBVIOUS
<1>1. q \in Pages /\ x \in On(q)
  BY <1>0, PageOfXid
<1>2. slot[q].bits \in [On(q) -> Status]
  BY <1>1 DEF ControlInv, SlotOK
<1>3. xactFile[q] = None \/ xactFile[q] \in [On(q) -> Status]
  BY <1>1 DEF ControlInv, FilesOK
<1> QED BY <1>0, <1>1, <1>2, <1>3 DEF StatusOf, Status

(* The assertion of TransactionIdSetStatusBit holds whoever calls it, in a backend or in replay, and  *)
(* whatever crashes came before: the status found is in progress or the one that is set. Nobody reads *)
(* a page of pg_xact that its file does not have (RecordTransactionCommit, RecordTransactionAbort,    *)
(* xact_redo, clog_redo, ExtendCLOG, TrimCLOG, SlruReportIOError).                                    *)
THEOREM SpecStatusOnce == Spec => []StatusOnce
<1>1. Init => PagesInv /\ StatusInv
  BY InitPages, InitStatus
<1>2. ControlInv /\ ControlInv' /\ LoggedInv /\ BroughtInv /\ CommitInv /\ PagesInv /\ StatusInv /\ [Next]_vars
        => PagesInv' /\ StatusInv'
  BY PagesStep, StatusStep
<1>3. ControlInv /\ LoggedInv /\ BroughtInv /\ CommitInv /\ PagesInv /\ StatusInv => StatusOnce
  <2> SUFFICES ASSUME ControlInv, LoggedInv, CommitInv, PagesInv, StatusInv, NEW p \in Everyone
               PROVE  /\ at[p] # "failed"
                      /\ at[p] = "setStatus" => StatusOf(my[p].xid) \in {"inProgress", NewStatus(p)}
    BY DEF StatusOnce
  <2>1. at[p] # "failed"
    BY DEF PagesInv
  <2>2. ASSUME at[p] = "setStatus" PROVE StatusOf(my[p].xid) \in {"inProgress", NewStatus(p)}
    <3>1. p \in Backends \union {Startup}
      BY <2>2 DEF ControlInv, AtOK, CkptStates, Everyone
    <3>2. StatusOf(my[p].xid) \in {"inProgress", "committed", "aborted"}
      BY <2>2, <3>1, XidToMark, StatusIsOne
    <3>3. OrderOK
      BY DEF CommitInv
    <3>4. CASE my[p].kind = "abort"
      BY <2>2, <3>1, <3>2, <3>3, <3>4, AbortFinds DEF NewStatus
    <3>5. CASE my[p].kind # "abort"
      BY <2>2, <3>1, <3>2, <3>3, <3>5, CommitFinds DEF NewStatus
    <3> QED BY <3>4, <3>5
  <2> QED BY <2>1, <2>2
<1> QED BY <1>1, <1>2, <1>3, SpecCommit, PTL DEF Spec
=============================================================================
