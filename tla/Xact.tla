-------------------------------- MODULE Xact --------------------------------
(***************************************************************************)
(* Transactions: sessions start them, nest subtransactions, take ids and   *)
(* snapshots, commit, abort, prepare, and finish what was prepared, over   *)
(* the transaction log, the array of running transactions and the snapshot *)
(* manager.                                                                *)
(***************************************************************************)
EXTENDS SnapMgr

CONSTANTS Plans,       \* bound: the first xid, and what each session does
          MaxDepth     \* bound on the nesting of subtransactions

ASSUME XactAssumption ==
    /\ Plans \subseteq
          Xids \X [Sessions -> SUBSET {"assign", "sub", "nest", "snapshot", "catalog", "register",
                                       "progress", "horizon", "prepare", "finish", "churn"}]
    /\ MaxDepth \in Nat \ {0}

VARIABLES xact,    \* each session's transaction stack, the top-level one first
          gxact,   \* the prepared transactions, one per dummy PGPROC
          plan     \* what each session does; never changes

logVars == <<clog, subtrans>>
vars == <<logVars, arrayVars, pc, call, vis, snap, xact, gxact, plan>>

Level(x) == [xid |-> x, children |-> {}]

NoGXact == [valid |-> FALSE, locker |-> NoProc, xid |-> InvalidXid, children |-> {}]

\* The sessions that come and go start outside the array, the others in it.
Init ==
    /\ \E start \in Plans :
          /\ plan = start[2]
          /\ LogInit(start[1])
          /\ ArrayInit({p \in Sessions : "churn" \notin plan[p]}, start[1])
    /\ SnapInit
    /\ xact = [p \in Sessions |-> <<>>]
    /\ gxact = [d \in Dummies |-> NoGXact]

\* The xids that are session p's own (TransactionIdIsCurrentTransactionId).
Own(p) ==
    UNION {{xact[p][i].xid} \cup xact[p][i].children : i \in DOMAIN xact[p]} \ {InvalidXid}

Prepared(d) == {gxact[d].xid} \cup gxact[d].children

\* x belongs to a transaction that has not ended.
Running(x) ==
    \/ \E p \in Sessions : x \in Own(p)
    \/ \E d \in Dummies : gxact[d].valid /\ x \in Prepared(d)

\* x may be in a tuple: its owner has it from AssignTransactionId.
Stored(x) ==
    /\ x < nextXid
    /\ \A p \in Sessions :
          pc[p] \in {"xid_publish", "xid_release", "xid_parent"} => call[p].xid # x

\* The transactions that are over, and those of them that committed.
Ended == {x \in Xids : Stored(x) /\ ~Running(x)}
Known == {x \in Ended : clog[x] = Committed}

-----------------------------------------------------------------------------
\* Sessions come and go.

InitProcess(p) ==
    /\ pc[p] = "out"
    /\ ProcArrayAdd(p, proc[p])
    /\ Goto(p, "idle")
    /\ UNCHANGED <<logVars, call, vis, snap, xact, gxact, plan>>

\* RemoveProcFromArray.  The thread, and with it its static structs, may serve
\* another session (a standing worker leaves and joins again).
RemoveProcFromArray(p) ==
    /\ "churn" \in plan[p]
    /\ pc[p] = "idle"
    /\ ProcArrayRemove(p, InvalidXid)
    /\ Goto(p, "out")
    /\ UNCHANGED <<logVars, call, vis, snap, xact, gxact, plan>>

-----------------------------------------------------------------------------
\* Starting and nesting.

StartTransaction(p) ==
    /\ plan[p] # {}
    /\ pc[p] = "idle"
    /\ xact' = [xact EXCEPT ![p] = <<Level(InvalidXid)>>]
    /\ Goto(p, "run")
    /\ UNCHANGED <<logVars, arrayVars, call, vis, snap, gxact, plan>>

StartSubTransaction(p) ==
    /\ plan[p] \cap {"sub", "nest"} # {}
    /\ pc[p] = "run"
    /\ Len(xact[p]) < IF "nest" \in plan[p] THEN MaxDepth ELSE 2
    /\ xact' = [xact EXCEPT ![p] = Append(@, Level(InvalidXid))]
    /\ UNCHANGED <<logVars, arrayVars, pc, call, vis, snap, gxact, plan>>

Unassigned(p) == {i \in DOMAIN xact[p] : xact[p][i].xid = InvalidXid}

\* AssignTransactionId: the ancestors without an xid come first.
AssignTransactionId(p) ==
    /\ "assign" \in plan[p]
    /\ pc[p] = "run"
    /\ Unassigned(p) # {}
    /\ Goto(p, "xid_lock")
    /\ UNCHANGED <<logVars, arrayVars, call, vis, snap, xact, gxact, plan>>

AssignReturn(p) ==
    LET i == CHOOSE k \in Unassigned(p) : \A n \in Unassigned(p) : k <= n
    IN  /\ GetNewTransactionIdRelease(p)
        /\ xact' = [xact EXCEPT ![p][i].xid = call[p].xid]
        /\ UNCHANGED <<logVars, snap, gxact, plan>>

\* The parent is recorded before the xid is used.
AssignParent(p) ==
    LET i == CHOOSE k \in DOMAIN xact[p] : xact[p][k].xid = call[p].xid
    IN  /\ pc[p] = "xid_parent"
        /\ IF i > 1 THEN SubTransSetParent(call[p].xid, xact[p][i - 1].xid)
           ELSE UNCHANGED subtrans
        /\ call' = [call EXCEPT ![p] = NoCall]
        /\ Goto(p, IF Unassigned(p) = {} THEN "run" ELSE "xid_lock")
        /\ UNCHANGED <<clog, arrayVars, vis, snap, xact, gxact, plan>>

AssignStep(p) ==
    \/ /\ \/ GetNewTransactionIdLock(p)
          \/ GetNewTransactionIdRefused(p)
          \/ GetNewTransactionIdPublish(p)
       /\ UNCHANGED <<logVars, snap, xact, gxact, plan>>
    \/ AssignReturn(p)
    \/ AssignParent(p)

\* CommitSubTransaction: nothing is recorded; the parent takes the xid and its
\* children over.
CommitSubTransaction(p) ==
    LET n == Len(xact[p])
        me == xact[p][n]
        mine == ({me.xid} \ {InvalidXid}) \cup me.children
    IN  /\ pc[p] = "run"
        /\ n > 1
        /\ xact' = [xact EXCEPT ![p] = [Front(xact[p]) EXCEPT ![n - 1].children = @ \cup mine]]
        /\ Release(p, AtSubCommitSnapshot(p, n))
        /\ UNCHANGED <<logVars, pc, call, gxact, plan>>

\* AbortSubTransaction: pg_xact, then the cache of subxids, then the snapshots.
AbortSubTransaction(p) ==
    LET me == Last(xact[p])
    IN  /\ pc[p] = "run"
        /\ Len(xact[p]) > 1
        /\ IF me.xid = InvalidXid
           THEN /\ xact' = [xact EXCEPT ![p] = Front(@)]
                /\ Goto(p, "sub_cleanup")
                /\ UNCHANGED call
           ELSE /\ call' = [call EXCEPT ![p].writes =
                                TreeStatusWrites(me.xid, me.children, Aborted)]
                /\ Goto(p, "sub_record")
                /\ UNCHANGED xact
        /\ UNCHANGED <<logVars, arrayVars, vis, snap, gxact, plan>>

AbortSubTransactionRemove(p) ==
    LET gone == {Last(xact[p]).xid} \cup Last(xact[p]).children
    IN  /\ pc[p] = "sub_remove"
        /\ XidCacheRemoveRunningXids(p, gone, Max(gone))
        /\ xact' = [xact EXCEPT ![p] = Front(@)]
        /\ Goto(p, "sub_cleanup")
        /\ UNCHANGED <<logVars, call, vis, snap, gxact, plan>>

AbortSubTransactionCleanup(p) ==
    /\ pc[p] = "sub_cleanup"
    /\ Release(p, AtSubAbortSnapshot(p, Len(xact[p]) + 1))
    /\ Goto(p, "run")
    /\ UNCHANGED <<logVars, call, xact, gxact, plan>>

-----------------------------------------------------------------------------
\* Recording in pg_xact: one page write at a time, then the next phase.

AfterWrites == [record |-> "end", sub_record |-> "sub_remove", finish_record |-> "finish_remove"]

RecordStep(p) ==
    /\ pc[p] \in DOMAIN AfterWrites
    /\ SetPageStatus(Head(call[p].writes))
    /\ call' = [call EXCEPT ![p].writes = Tail(@)]
    /\ IF Len(call[p].writes) = 1 THEN Goto(p, AfterWrites[pc[p]]) ELSE UNCHANGED pc
    /\ UNCHANGED <<subtrans, arrayVars, vis, snap, xact, gxact, plan>>

\* CommitTransaction and AbortTransaction up to the record.  Without an xid
\* there is nothing to record, and leaving the array takes no lock.
EndTopTransaction(p, status) ==
    LET top == xact[p][1]
    IN  /\ pc[p] = "run"
        /\ Len(xact[p]) = 1
        /\ IF top.xid = InvalidXid
           THEN /\ EndTransactionWithoutXid(p)
                /\ snap' = [snap EXCEPT ![p] = AtEOXactSnapshot(p)]
                /\ xact' = [xact EXCEPT ![p] = <<>>]
                /\ Goto(p, "idle")
                /\ UNCHANGED call
           ELSE /\ call' = [call EXCEPT ![p].writes =
                                TreeStatusWrites(top.xid, top.children, status)]
                /\ Goto(p, "record")
                /\ UNCHANGED <<arrayVars, snap, xact, plan>>
        /\ UNCHANGED <<logVars, vis, gxact, plan>>

CommitTransaction(p) == EndTopTransaction(p, Committed)
AbortTransaction(p) == EndTopTransaction(p, Aborted)

\* ProcArrayEndTransaction, after the record and before the snapshots go.
ProcArrayEndTransaction(p) ==
    /\ pc[p] = "end"
    /\ EndTransactionInternal(p, Max({xact[p][1].xid} \cup xact[p][1].children))
    /\ snap' = [snap EXCEPT ![p] = AtEOXactSnapshot(p)]
    /\ xact' = [xact EXCEPT ![p] = <<>>]
    /\ Goto(p, "idle")
    /\ UNCHANGED <<logVars, call, vis, gxact, plan>>

-----------------------------------------------------------------------------
\* Two-phase commit.

\* The children in the order in which xactGetCommittedChildren lists them.
CommittedChildren(children) == SetToSortSeq(children, LAMBDA a, b : a < b)

\* MarkAsPreparing and GXactLoadSubxactData: the dummy PGPROC takes the xid and as
\* many children as fit.
DummyProc(x, children) ==
    LET kids == CommittedChildren(children)
        n == Len(kids)
    IN  [BlankProc EXCEPT !.xid = x,
                          !.subxids = IF n > MaxCachedSubxids THEN SubSeq(kids, 1, MaxCachedSubxids)
                                      ELSE kids,
                          !.overflowed = n > MaxCachedSubxids]

\* PrepareTransaction up to MarkAsPrepared, with a free dummy PGPROC.
PrepareTransaction(p) ==
    LET top == xact[p][1]
    IN  /\ "prepare" \in plan[p]
        /\ pc[p] = "run"
        /\ Len(xact[p]) = 1
        /\ top.xid # InvalidXid
        /\ \E d \in Dummies :
              /\ gxact[d] = NoGXact
              /\ gxact' = [gxact EXCEPT ![d] = [NoGXact EXCEPT !.locker = p, !.xid = top.xid,
                                                               !.children = top.children]]
              /\ proc' = [proc EXCEPT ![d] = DummyProc(top.xid, top.children)]
              /\ call' = [call EXCEPT ![p].gxact = d]
        /\ Goto(p, "prepare_add")
        /\ UNCHANGED <<logVars, transamVars, denseVars, sharers, xidGen, vis, snap, xact, plan>>

\* An error before EndPrepare: AtAbort_Twophase removes the entry that never
\* became valid, and the transaction aborts.
PrepareFails(p) ==
    LET top == xact[p][1]
    IN  /\ pc[p] = "prepare_add"
        /\ gxact' = [gxact EXCEPT ![call[p].gxact] = NoGXact]
        /\ call' = [call EXCEPT ![p] = [NoCall EXCEPT !.writes =
                                           TreeStatusWrites(top.xid, top.children, Aborted)]]
        /\ Goto(p, "record")
        /\ UNCHANGED <<logVars, arrayVars, vis, snap, xact, plan>>

\* MarkAsPrepared: valid, and in the array.
MarkAsPrepared(p) ==
    LET d == call[p].gxact
    IN  /\ pc[p] = "prepare_add"
        /\ gxact' = [gxact EXCEPT ![d].valid = TRUE]
        /\ ProcArrayAdd(d, proc[d])
        /\ Goto(p, "prepare_clear")
        /\ UNCHANGED <<logVars, call, vis, snap, xact, plan>>

PrepareClear(p) ==
    /\ pc[p] = "prepare_clear"
    /\ ProcArrayClearTransaction(p)
    /\ xact' = [xact EXCEPT ![p] = <<>>]
    /\ Goto(p, "prepare_done")
    /\ UNCHANGED <<logVars, call, vis, snap, gxact, plan>>

\* PostPrepare_Twophase, then AtEOXact_Snapshot.
PostPrepare(p) ==
    /\ pc[p] = "prepare_done"
    /\ gxact' = [gxact EXCEPT ![call[p].gxact].locker = NoProc]
    /\ call' = [call EXCEPT ![p] = NoCall]
    /\ Goto(p, "idle")
    /\ Release(p, AtEOXactSnapshot(p))
    /\ UNCHANGED <<logVars, xact, plan>>

\* Mutant: whether somebody else works on it is not asked.
LockGXactAnyway(p, d) ==
    /\ gxact[d].valid
    /\ gxact' = [gxact EXCEPT ![d].locker = p]

\* LockGXact: a prepared transaction nobody works on, for one session to finish.
LockGXact(p, d) ==
    /\ gxact[d].valid
    /\ gxact[d].locker = NoProc
    /\ gxact' = [gxact EXCEPT ![d].locker = p]

\* FinishPreparedTransaction: the state data, the record, the array, then the
\* gxact is free.
FinishPreparedTransaction(p, d, status) ==
    /\ "finish" \in plan[p]
    /\ pc[p] = "run"
    /\ Unassigned(p) = {1}
    /\ LockGXact(p, d)
    /\ call' = [call EXCEPT ![p].gxact = d,
                            ![p].writes = TreeStatusWrites(gxact[d].xid, gxact[d].children, status)]
    /\ Goto(p, "finish_read")
    /\ UNCHANGED <<logVars, arrayVars, vis, snap, xact, plan>>

FinishPreparedRead(p) ==
    /\ pc[p] = "finish_read"
    /\ Goto(p, "finish_record")
    /\ UNCHANGED <<logVars, arrayVars, call, vis, snap, xact, gxact, plan>>

\* The state data cannot be read: AtAbort_Twophase gives the valid entry back.
FinishPreparedFails(p) ==
    /\ pc[p] = "finish_read"
    /\ gxact' = [gxact EXCEPT ![call[p].gxact].locker = NoProc]
    /\ call' = [call EXCEPT ![p] = NoCall]
    /\ Goto(p, "run")
    /\ UNCHANGED <<logVars, arrayVars, vis, snap, xact, plan>>

FinishPreparedRemove(p) ==
    LET d == call[p].gxact
    IN  /\ pc[p] = "finish_remove"
        /\ ProcArrayRemove(d, Max(Prepared(d)))
        /\ gxact' = [gxact EXCEPT ![d].valid = FALSE]
        /\ Goto(p, "finish_done")
        /\ UNCHANGED <<logVars, call, vis, snap, xact, plan>>

RemoveGXact(p) ==
    /\ pc[p] = "finish_done"
    /\ gxact' = [gxact EXCEPT ![call[p].gxact] = NoGXact]
    /\ call' = [call EXCEPT ![p] = NoCall]
    /\ Goto(p, "run")
    /\ UNCHANGED <<logVars, arrayVars, vis, snap, xact, plan>>

-----------------------------------------------------------------------------
\* What a session in a transaction may ask for.

SnapshotCall(p) ==
    /\ \/ "snapshot" \in plan[p] /\ GetTransactionSnapshot(p, Known)
       \/ "snapshot" \in plan[p] /\ PopActiveSnapshot(p)
       \/ "catalog" \in plan[p] /\ GetCatalogSnapshot(p, Known)
       \/ "catalog" \in plan[p] /\ InvalidateCatalogSnapshot(p)
       \/ "register" \in plan[p] /\ RegisterSnapshot(p, Len(xact[p]))
       \/ "register" \in plan[p] /\ UnregisterSnapshot(p)
    /\ UNCHANGED <<logVars, xact, gxact, plan>>

\* A tuple's xid is looked up.
InProgressCall(p) ==
    /\ "progress" \in plan[p]
    /\ pc[p] = "run"
    /\ \E x \in Xids : Stored(x) /\ InProgressEnter(p, x, Own(p), {x} \cap Ended)
    /\ UNCHANGED <<logVars, snap, xact, gxact, plan>>

InProgressReturn(p) ==
    /\ pc[p] = "told"
    /\ call' = [call EXCEPT ![p] = NoCall]
    /\ Goto(p, "run")
    /\ UNCHANGED <<logVars, arrayVars, vis, snap, xact, gxact, plan>>

HorizonCall(p) ==
    /\ "horizon" \in plan[p]
    /\ pc[p] = "run"
    /\ Goto(p, "horizon_lock")
    /\ UNCHANGED <<logVars, arrayVars, call, vis, snap, xact, gxact, plan>>

ScanStep(p) ==
    /\ GetSnapshotDataStep(p) \/ InProgressStep(p) \/ HorizonStep(p)
    /\ UNCHANGED <<logVars, snap, xact, gxact, plan>>

SnapshotReturn(p) ==
    SnapshotTaken(p, Len(xact[p])) /\ UNCHANGED <<logVars, xact, gxact, plan>>

\* What session p may start.
Begin(p) ==
    \/ InitProcess(p) \/ RemoveProcFromArray(p)
    \/ StartTransaction(p) \/ StartSubTransaction(p) \/ AssignTransactionId(p)
    \/ CommitSubTransaction(p) \/ AbortSubTransaction(p)
    \/ CommitTransaction(p) \/ AbortTransaction(p)
    \/ PrepareTransaction(p)
    \/ \E d \in Dummies, status \in {Committed, Aborted} :
          FinishPreparedTransaction(p, d, status)
    \/ SnapshotCall(p) \/ InProgressCall(p) \/ HorizonCall(p)

\* What it does inside a call.
Step(p) ==
    \/ AssignStep(p)
    \/ RecordStep(p) \/ ProcArrayEndTransaction(p)
    \/ AbortSubTransactionRemove(p) \/ AbortSubTransactionCleanup(p)
    \/ MarkAsPrepared(p) \/ PrepareFails(p) \/ PrepareClear(p) \/ PostPrepare(p)
    \/ FinishPreparedRead(p) \/ FinishPreparedFails(p)
    \/ FinishPreparedRemove(p) \/ RemoveGXact(p)
    \/ ScanStep(p) \/ SnapshotReturn(p) \/ InProgressReturn(p)

Next == \E p \in Sessions : Begin(p) \/ Step(p)

Spec == Init /\ [][Next]_vars

-----------------------------------------------------------------------------
\* Properties.

\* The snapshots session p may read with: active, registered or just taken.  A
\* transaction that is being recorded reads no more.
Live(p) ==
    IF pc[p] \in {"record", "end", "prepare_add", "prepare_clear", "prepare_done"} THEN {}
    ELSE {snap[p].active[i].snap : i \in DOMAIN snap[p].active}
         \cup {h.snap : h \in snap[p].registered}
         \cup (IF pc[p] = "taken" THEN {call[p].snap} ELSE {})

\* Session p, reading with snapshot s, takes x for committed: the order of tests
\* of HeapTupleSatisfiesMVCC for an xid that is not its own.
Sees(p, s, x) ==
    /\ ~XidInMVCCSnapshot(x, s, vis[p].TransactionXmin)
    /\ TransactionIdDidCommit(x, vis[p].TransactionXmin)

Seen(p, s) == {x \in Xids : Stored(x) /\ Sees(p, s, x)}

\* What a snapshot shows of other transactions never changes while it is in use
\* (HeapTupleSatisfiesMVCC sets hint bits from it): whoever commits, aborts,
\* prepares, joins or leaves meanwhile, and whether the snapshot was built or
\* reused.  (Sees depends on no other variable.)
SnapshotStable ==
    [][\A p \in Sessions : \A s \in Live(p) \cap Live(p)' :
          \A x \in Xids \ (Own(p) \cup Own(p)') :
             Stored(x) => (Sees(p, s, x) <=> Sees(p, s, x)')]_<<clog, subtrans, vis>>

\* A snapshot shows every transaction whose commit was over when it was asked
\* for: reusing an old one never hides a commit.
SnapshotFresh ==
    \A p \in Sessions : pc[p] = "taken" => call[p].known \subseteq Seen(p, call[p].snap)

\* Any two snapshots in use, of any sessions, can be put in an order: one shows
\* all that the other shows (of transactions of neither).
SnapshotsOrdered ==
    \A p, q \in Sessions : \A s \in Live(p), t \in Live(q) :
        LET a == Seen(p, s) \ (Own(p) \cup Own(q))
            b == Seen(q, t) \ (Own(p) \cup Own(q))
        IN  a \subseteq b \/ b \subseteq a

\* A snapshot shows a transaction with all of its subtransactions that did not
\* abort, or none of it, also while TransactionIdSetTreeStatus is between pages
\* and when the cache of subxids overflowed.
TreesWhole ==
    \A p \in Sessions : \A s \in Live(p) :
        \A x \in Seen(p, s) \cup {y \in Xids : clog[y] # Aborted} :
            (Stored(x) /\ x \notin Own(p) /\ subtrans[x] # InvalidXid)
                => (Sees(p, s, x) <=> Sees(p, s, subtrans[x]))

\* Nothing a snapshot in use may need is taken for removable: no horizon any
\* session has computed is above its xmin, though the lock-free reuse publishes
\* that xmin without ProcArrayLock (constraints 1 to 3 of GetSnapshotDataReuse).
HorizonSafe ==
    \A p, q \in Sessions : \A s \in Live(q) : vis[p].maybeNeeded <= s.xmin

\* TransactionIdIsInProgress tells the truth: an xid said not to be in progress
\* is aborted in pg_xact, or is committed there and over; and one said to be was
\* not over when the call began.  (A subtransaction is aborted in pg_xact before
\* it leaves the array.)
ToldTruth ==
    \A p \in Sessions : pc[p] = "told" =>
        IF call[p].answer THEN call[p].xid \notin call[p].known
        ELSE clog[call[p].xid] = Aborted \/ call[p].xid \in Known

\* Every running xid up to latestCompletedXid, the one being handed out included,
\* is in the array: as the xid of a place, among its cached subxids, or below an
\* overflowed place in pg_subtrans.  (Above it no scan looks.)
RunningIsListed ==
    \A x \in Xids :
        (/\ x <= latestCompletedXid
         /\ \/ Stored(x) /\ Running(x)
            \/ \E p \in Sessions : pc[p] = "xid_publish" /\ call[p].xid = x) =>
        \E i \in DOMAIN pgprocnos :
            \/ xids[i] = x
            \/ \E j \in 1 .. subxidStates[i].count : proc[pgprocnos[i]].subxids[j] = x
            \/ subxidStates[i].overflowed /\ TopmostTransaction(x, 0) = xids[i]

\* A final status is final: no transaction is committed or aborted twice, also
\* when two sessions finish the same prepared one.
FinalStays ==
    [][\A x \in Xids : clog[x] \in {Committed, Aborted} => clog'[x] = clog[x]]_vars
=============================================================================
