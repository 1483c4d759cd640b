------------------------------ MODULE HeapPage -------------------------------
(* One data page in its shared buffer: changed under the exclusive content lock,   *)
(* hinted and written under the shared one.  The page stays resident; eviction is  *)
(* the write of FlushBuffer and nothing else.                                     *)
EXTENDS Integers

CONSTANT NoOne

VARIABLES
  page,      \* tuples and strays by xmin, the hints of each, LSN
  header,    \* BM_DIRTY, BM_JUST_DIRTIED, BM_CHECKPOINT_NEEDED, who does I/O
  exclusive, \* holder of the content lock in exclusive mode
  sharers,   \* holders in shared mode
  heapFile,  \* what the file holds
  heapKept   \* what a crash of the machine may leave of it

heapVars == <<page, header, exclusive, sharers, heapFile, heapKept>>

CleanHeader == [dirty |-> FALSE, just |-> FALSE, needed |-> FALSE, io |-> NoOne]

(* MarkBufferDirty *)
Dirtied(h) == [h EXCEPT !.dirty = TRUE, !.just = TRUE]

(* heap_insert changes the page and marks it dirty, then logs the change and stamps   *)
(* the page; the lock is held throughout.                                          *)
PutTuple(p, xid) ==
  /\ exclusive = NoOne /\ sharers = {}
  /\ exclusive' = p
  /\ page' = [page EXCEPT !.tuples = @ \union {xid}]
  /\ header' = Dirtied(header)
  /\ UNCHANGED <<sharers, heapFile, heapKept>>

(* heap_insert left by an error after it changed the page: there is no critical section,  *)
(* the tuple stays without a record, the page dirty or not yet, and the abort releases    *)
(* the lock.  Such a tuple is called a stray and kept apart for the properties' sake.     *)
LeaveStray(xid) ==
  /\ exclusive = NoOne /\ sharers = {}
  /\ page' = [page EXCEPT !.strays = @ \union {xid}]
  /\ header' \in {header, Dirtied(header)}
  /\ UNCHANGED <<exclusive, sharers, heapFile, heapKept>>

Stamp(lsn) ==
  /\ page' = [page EXCEPT !.lsn = lsn]
  /\ exclusive' = NoOne
  /\ UNCHANGED <<header, sharers, heapFile, heapKept>>

LockShared(p) ==
  /\ exclusive = NoOne
  /\ sharers' = sharers \union {p}

(* SetHintBits sets the bit, MarkBufferDirtyHint marks the page dirty.  *)
Hint(kind, xid) == page' = [page EXCEPT ![kind] = @ \union {xid}]

(* FlushBuffer, under the shared content lock: StartBufferIO; the page's LSN is read   *)
(* and BM_JUST_DIRTIED cleared under the header lock.                               *)
StartBufferIO(p) ==
  /\ header.dirty /\ header.io = NoOne
  /\ LockShared(p)
  /\ header' = [header EXCEPT !.io = p, !.just = FALSE]
  /\ UNCHANGED <<page, exclusive, heapFile, heapKept>>

smgrwrite ==
  /\ heapFile' = page
  /\ heapKept' = heapKept \union {page}
  /\ UNCHANGED <<page, header, exclusive, sharers>>

TerminateBufferIO(p, clearDirty) ==
  /\ header' = IF clearDirty /\ ~header.just
               THEN CleanHeader
               ELSE [header EXCEPT !.io = NoOne]
  /\ sharers' = sharers \ {p}
  /\ UNCHANGED <<page, exclusive, heapFile, heapKept>>

(* Redo of an insertion, by the page's LSN.  *)
RedoInsert(xid, lsn) ==
  /\ exclusive = NoOne /\ sharers = {}
  /\ IF page.lsn < lsn
     THEN /\ page' = [page EXCEPT !.tuples = @ \union {xid}, !.lsn = lsn]
          /\ header' = Dirtied(header)
     ELSE UNCHANGED <<page, header>>
  /\ UNCHANGED <<exclusive, sharers, heapFile, heapKept>>

HeapCrash ==
  \E left \in heapKept :
    /\ page' = left /\ heapFile' = left /\ heapKept' = {left}
    /\ header' = CleanHeader
    /\ exclusive' = NoOne /\ sharers' = {}
=============================================================================
