-------------------------------- MODULE Slru ---------------------------------
(* pg_xact on the simple-LRU cache.  A page moves between the shared slots and its *)
(* file.  The bank lock makes each step below atomic; it is given up during I/O,   *)
(* when the page's buffer lock is held instead.  A slot is named by its page: all  *)
(* slots are of one bank, and which of them a page sits in makes no difference.    *)
EXTENDS Integers, FiniteSets

CONSTANTS
  MaxXid,        \* bound: the last transaction id an instance can assign
  XactsPerPage,  \* CLOG_XACTS_PER_PAGE, with one group of LSNs per page
  NumSlots,      \* slots of the bank
  None

ASSUME SlruConstants ==
  /\ MaxXid \in Nat
  /\ XactsPerPage \in Nat \ {0}
  /\ NumSlots \in Nat \ {0, 1}

VARIABLES
  slot,        \* per page: status, dirty, bits, group LSN, holder of the buffer lock
  latestPage,
  xactFile,    \* per page: what its file holds, None if there is none
  xactKept,    \* per page: what a crash of the machine may leave of it
  pending      \* files with a sync request

slruVars == <<slot, latestPage, xactFile, xactKept, pending>>

Xids == 0..MaxXid
TransactionIdToPage(x) == x \div XactsPerPage
Pages == {TransactionIdToPage(x) : x \in Xids}
FirstOnPage(x) == x % XactsPerPage = 0
On(pg) == {x \in Xids : TransactionIdToPage(x) = pg}
Zeroes(pg) == [x \in On(pg) |-> "inProgress"]
Empty(pg) == [status |-> "empty", dirty |-> FALSE, bits |-> Zeroes(pg), lsn |-> 0, io |-> None]

Resident == {pg \in Pages : slot[pg].status # "empty"}
Larger(a, b) == IF a < b THEN b ELSE a

(* SlruSelectLRUPage: a free slot, or that of a clean page other than the latest;   *)
(* which of the candidates is the least recently used is left open.                *)
Victim(v) == slot[v].status = "valid" /\ v # latestPage
SlotFor(pg, s) ==
  \/ /\ pg \in Resident \/ Cardinality(Resident) < NumSlots
     /\ s = slot
  \/ /\ pg \notin Resident /\ Cardinality(Resident) >= NumSlots
     /\ \E v \in Pages :
          /\ Victim(v) /\ ~slot[v].dirty
          /\ s = [slot EXCEPT ![v] = Empty(v)]

(* The page that has to be written, or waited for, before there is a slot for pg.    *)
InTheWay(pg) ==
  IF pg \in Resident \/ Cardinality(Resident) < NumSlots THEN {}
  ELSE IF \E v \in Pages : Victim(v) THEN {v \in Pages : Victim(v) /\ slot[v].dirty}
  ELSE Resident \ {latestPage}

(* SimpleLruZeroPage *)
SimpleLruZeroPage(pg) ==
  /\ \E s \in {slot} \union {[slot EXCEPT ![v] = Empty(v)] : v \in Resident} :
       /\ SlotFor(pg, s)
       /\ slot' = [s EXCEPT ![pg] = [Empty(pg) EXCEPT !.status = "valid", !.dirty = TRUE]]
  /\ latestPage' = pg

(* SimpleLruReadPage: the page is there and may be used... *)
Usable(pg, writeOk) ==
  slot[pg].status = "valid" \/ (slot[pg].status = "writing" /\ writeOk)

(* ... or is read in by p, the slot's buffer lock held.  *)
ReadStart(p, pg) ==
  /\ pg \notin Resident
  /\ \E s \in {slot} \union {[slot EXCEPT ![v] = Empty(v)] : v \in Resident} :
       /\ SlotFor(pg, s)
       /\ slot' = [s EXCEPT ![pg] = [Empty(pg) EXCEPT !.status = "reading", !.io = p]]

PageRead(pg, bits) ==
  [slot EXCEPT ![pg] = [Empty(pg) EXCEPT !.status = "valid", !.bits = bits]]

(* SimpleLruWaitIO: nobody holds the buffer lock of a page in the middle of an I/O,  *)
(* so the I/O failed, and the page has to be written again.                         *)
AbandonedIO(pg) == slot[pg].status = "writing" /\ slot[pg].io = None
Repair(pg) == slot' = [slot EXCEPT ![pg].status = "valid", ![pg].dirty = TRUE]

(* SlruInternalWritePage marks the page clean before it is written: a change made   *)
(* during the I/O makes it dirty again.                                           *)
WriteStart(p, pg) ==
  /\ slot[pg].status = "valid" /\ slot[pg].dirty
  /\ slot' = [slot EXCEPT ![pg].status = "writing", ![pg].dirty = FALSE, ![pg].io = p]

PhysicalWrite(pg) ==
  /\ xactFile' = [xactFile EXCEPT ![pg] = slot[pg].bits]
  /\ xactKept' = [xactKept EXCEPT ![pg] = @ \union {slot[pg].bits}]

WriteEnd(pg) ==
  /\ slot' = [slot EXCEPT ![pg].status = "valid", ![pg].io = None]
  /\ pending' = pending \union {pg}

(* The two ways a write fails: reported, or thrown with the status left behind.       *)
WriteFails(pg) ==
  \/ slot' = [slot EXCEPT ![pg].status = "valid", ![pg].dirty = TRUE, ![pg].io = None]
  \/ slot' = [slot EXCEPT ![pg].io = None]

(* TransactionIdSetStatusBit, and the page marked dirty *)
SetStatusBit(s, x, status, lsn) ==
  LET pg == TransactionIdToPage(x)
  IN  [s EXCEPT ![pg].bits[x] = status, ![pg].dirty = TRUE, ![pg].lsn = Larger(@, lsn)]

(* TrimCLOG: no bits from x on. *)
Trimmed(s, x) ==
  LET pg == TransactionIdToPage(x)
  IN  [s EXCEPT ![pg].bits = [y \in On(pg) |-> IF y < x THEN @[y] ELSE "inProgress"], ![pg].dirty = TRUE]

(* What TransactionIdGetStatus finds once the page is in. *)
StatusOf(x) ==
  LET pg == TransactionIdToPage(x)
  IN  IF slot[pg].status \in {"valid", "writing"} THEN slot[pg].bits[x]
      ELSE IF xactFile[pg] = None THEN "inProgress" ELSE xactFile[pg][x]

(* A crash: the slots are lost, of each file one of the contents it may have.        *)
SlruCrash ==
  /\ slot' = [pg \in Pages |-> Empty(pg)]
  /\ \E left \in [Pages -> UNION {xactKept[pg] : pg \in Pages}] :
       /\ \A pg \in Pages : left[pg] \in xactKept[pg]
       /\ xactFile' = left
       /\ xactKept' = [pg \in Pages |-> {left[pg]}]
  /\ pending' = {}
=============================================================================
