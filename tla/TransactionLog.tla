--------------------------- MODULE TransactionLog ---------------------------
(***************************************************************************)
(* pg_xact and pg_subtrans: the status of every transaction id and the     *)
(* parent of every subtransaction.  A page of pg_xact is written under its *)
(* bank lock, so one page write is one step; a transaction tree that spans *)
(* pages takes several, in the order of TransactionIdSetTreeStatus.        *)
(***************************************************************************)
EXTENDS Integers, Sequences, FiniteSets, SequencesExt

CONSTANTS MaxXid,         \* the last xid an instance hands out (xidStopLimit)
          XactsPerPage    \* CLOG_XACTS_PER_PAGE

ASSUME TransactionLogAssumption ==
    /\ MaxXid \in Nat \ {0}
    /\ XactsPerPage \in Nat \ {0}

VARIABLES clog,       \* the status of each xid
          subtrans    \* the parent of each xid, InvalidXid for none

InvalidXid == 0
Xids == 1 .. MaxXid

InProgress == "in_progress"
SubCommitted == "sub_committed"
Committed == "committed"
Aborted == "aborted"

\* The transactions before next are over.
LogInit(next) ==
    /\ clog = [x \in Xids |-> IF x < next THEN Committed ELSE InProgress]
    /\ subtrans = [x \in Xids |-> InvalidXid]

TransactionIdToPage(x) == x \div XactsPerPage

\* One page write: these xids, all on one page, get this status.
PageWrite(xs, status) == [xids |-> xs, status |-> status]

\* set_status_by_pages: the subtransactions, a page at a time in page order.
StatusByPages(subs, status) ==
    LET pages == SetToSortSeq({TransactionIdToPage(x) : x \in subs}, LAMBDA a, b : a < b)
    IN  [i \in 1 .. Len(pages) |->
            PageWrite({x \in subs : TransactionIdToPage(x) = pages[i]}, status)]

\* TransactionIdSetTreeStatus: the page writes that give the tree its status.
\* Children on other pages are marked sub-committed before the page of the
\* top-level xid commits, and committed after it.
TreeStatusWrites(xid, subs, status) ==
    LET near == {x \in subs : TransactionIdToPage(x) = TransactionIdToPage(xid)}
        far  == subs \ near
        first == IF status = Committed THEN StatusByPages(far, SubCommitted) ELSE <<>>
    IN  IF far = {}
        THEN <<PageWrite({xid} \cup subs, status)>>
        ELSE first \o <<PageWrite({xid} \cup near, status)>> \o StatusByPages(far, status)

\* TransactionIdSetPageStatus
SetPageStatus(w) ==
    clog' = [x \in Xids |-> IF x \in w.xids THEN w.status ELSE clog[x]]

SubTransSetParent(x, parent) == subtrans' = [subtrans EXCEPT ![x] = parent]

\* SubTransGetTopmostTransaction: up the parents, not past the caller's
\* TransactionXmin (txmin).
TopmostTransaction(x, txmin) ==
    LET top[y \in Xids] ==
            IF y < txmin \/ subtrans[y] = InvalidXid THEN y ELSE top[subtrans[y]]
    IN  top[x]

\* The status a sub-committed xid takes from its ancestors: TransactionIdDidCommit
\* and TransactionIdDidAbort ask the parent, and count as crashed what is older
\* than TransactionXmin or has no parent.
ResolvedStatus(x, txmin) ==
    LET status[y \in Xids] ==
            IF clog[y] # SubCommitted THEN clog[y]
            ELSE IF y < txmin \/ subtrans[y] = InvalidXid THEN Aborted
            ELSE status[subtrans[y]]
    IN  status[x]

TransactionIdDidCommit(x, txmin) == ResolvedStatus(x, txmin) = Committed
TransactionIdDidAbort(x, txmin) == ResolvedStatus(x, txmin) = Aborted
=============================================================================
