----------------------------- MODULE ProcArray -----------------------------
(***************************************************************************)
(* The array of running transactions.  Each member process has a PGPROC    *)
(* (proc) and a place in the dense arrays xids and subxidStates, which     *)
(* move when a process joins or leaves.  Transaction ids are handed out    *)
(* under XidGenLock; transactions leave the array under ProcArrayLock held *)
(* exclusively; snapshots, horizons and in-progress tests scan it under    *)
(* ProcArrayLock held shared, one slot at a time; and the lock-free path   *)
(* of GetSnapshotData reuses a snapshot as long as no transaction has      *)
(* completed since.                                                        *)
(*                                                                         *)
(* The locks exclude as module RWLock says.  A section under the exclusive *)
(* ProcArrayLock is one step that waits for the readers: what it changes   *)
(* is read under that lock, but for xactCompletionCount, whose one store   *)
(* is when the step happens.                                               *)
(***************************************************************************)
EXTENDS TransactionLog

CONSTANTS Sessions,           \* the processes that run transactions (ProcNumbers)
          Dummies,            \* the PGPROCs of prepared transactions (ProcNumbers)
          MaxCachedSubxids    \* PGPROC_MAX_CACHED_SUBXIDS

Members == Sessions \cup Dummies

ASSUME ProcArrayAssumption ==
    /\ Members \subseteq Nat \ {0} /\ IsFiniteSet(Members)
    /\ Sessions \cap Dummies = {}
    /\ MaxCachedSubxids \in Nat

NoProc == 0

VARIABLES nextXid, latestCompletedXid, xactCompletionCount,    \* TransamVariables
          pgprocnos,       \* the members of the array, by ascending ProcNumber
          xids,            \* ProcGlobal.xids: the xid of each place
          subxidStates,    \* ProcGlobal.subxidStates: how many subxids are cached
          proc,            \* the PGPROCs
          sharers,         \* who holds ProcArrayLock shared
          xidGen,          \* who holds XidGenLock
          pc,              \* where each session is
          call,            \* the locals of its call
          vis              \* its thread's visibility globals

transamVars == <<nextXid, latestCompletedXid, xactCompletionCount>>
denseVars == <<pgprocnos, xids, subxidStates>>
arrayVars == <<transamVars, denseVars, proc, sharers, xidGen>>

NoSubxids == [count |-> 0, overflowed |-> FALSE]
BlankProc == [xid |-> InvalidXid, xmin |-> InvalidXid, subxids |-> <<>>,
              overflowed |-> FALSE, pgxactoff |-> 0]

\* A snapshot.  snapXactCompletionCount 0 is a struct never filled.
NoSnapshot == [xmin |-> InvalidXid, xmax |-> InvalidXid, xip |-> {}, subxip |-> {},
               suboverflowed |-> FALSE, snapXactCompletionCount |-> 0]

\* The locals of a call: the struct being filled (which) and the snapshot it
\* gets, the place a scan is at and the caller's own, the xid asked about, the
\* page writes left to do, the prepared transaction at hand.  known is not in
\* the code: the xids whose commit was over when the call began.
NoCall == [which |-> "current", snap |-> NoSnapshot, published |-> FALSE, known |-> {},
           at |-> 0, off |-> 0, xid |-> InvalidXid, tops |-> {}, answer |-> FALSE,
           writes |-> <<>>, gxact |-> NoProc]

NoVis == [TransactionXmin |-> InvalidXid, RecentXmin |-> 1,
          notInProgress |-> InvalidXid, maybeNeeded |-> 0]

\* Every member's pgxactoff is its place.
Placed(procs, order) ==
    [p \in Members |->
        IF \E i \in DOMAIN order : order[i] = p
        THEN [procs[p] EXCEPT !.pgxactoff = CHOOSE i \in DOMAIN order : order[i] = p]
        ELSE procs[p]]

\* The members of S in ascending order (there is one such sequence).
Ascending(S) ==
    {f \in [1 .. Cardinality(S) -> S] :
        Range(f) = S /\ \A i, j \in DOMAIN f : i < j => f[i] < f[j]}

\* Nothing has run yet; the sessions of joined are in the array.
ArrayInit(joined, next) ==
    /\ nextXid = next
    /\ latestCompletedXid = next - 1
    /\ xactCompletionCount = 1
    /\ pgprocnos \in Ascending(joined)
    /\ xids = [i \in DOMAIN pgprocnos |-> InvalidXid]
    /\ subxidStates = [i \in DOMAIN pgprocnos |-> NoSubxids]
    /\ proc = Placed([p \in Members |-> BlankProc], pgprocnos)
    /\ sharers = {}
    /\ xidGen = NoProc
    /\ pc = [p \in Sessions |-> IF p \in joined THEN "idle" ELSE "out"]
    /\ call = [p \in Sessions |-> NoCall]
    /\ vis = [p \in Sessions |-> NoVis]

Goto(p, where) == pc' = [pc EXCEPT ![p] = where]

-----------------------------------------------------------------------------
\* Joining and leaving the dense arrays.

ProcArrayLockFree == sharers = {}

\* ProcArrayAdd, under both locks: p enters at the place of its ProcNumber
\* with what its PGPROC (me) says, and those behind it move up.
ProcArrayAdd(p, me) ==
    LET i == 1 + Cardinality({k \in DOMAIN pgprocnos : pgprocnos[k] < p})
    IN  /\ ProcArrayLockFree /\ xidGen = NoProc
        /\ pgprocnos' = InsertAt(pgprocnos, i, p)
        /\ xids' = InsertAt(xids, i, me.xid)
        /\ subxidStates' = InsertAt(subxidStates, i,
                              [count |-> Len(me.subxids), overflowed |-> me.overflowed])
        /\ proc' = Placed([proc EXCEPT ![p] = me], pgprocnos')
        /\ UNCHANGED <<transamVars, sharers, xidGen>>

\* Mutant: a completion that is not counted.
CompletedUncounted(latestXid) ==
    /\ latestCompletedXid' = IF latestCompletedXid < latestXid THEN latestXid
                             ELSE latestCompletedXid
    /\ UNCHANGED <<xactCompletionCount, nextXid>>

\* Mutant: the last xid to complete is taken for the latest.
CompletedLast(latestXid) ==
    /\ latestCompletedXid' = latestXid
    /\ xactCompletionCount' = xactCompletionCount + 1
    /\ UNCHANGED nextXid

\* MaintainLatestCompletedXid and the bump of xactCompletionCount.
Completed(latestXid) ==
    /\ latestCompletedXid' = IF latestCompletedXid < latestXid THEN latestXid
                             ELSE latestCompletedXid
    /\ xactCompletionCount' = xactCompletionCount + 1
    /\ UNCHANGED nextXid

\* ProcArrayRemove, under both locks: p leaves and those behind it move down.
\* A prepared transaction completes by leaving (latestXid valid).
ProcArrayRemove(p, latestXid) ==
    LET i == proc[p].pgxactoff
    IN  /\ ProcArrayLockFree /\ xidGen = NoProc
        /\ IF latestXid # InvalidXid THEN Completed(latestXid) ELSE UNCHANGED transamVars
        /\ pgprocnos' = RemoveAt(pgprocnos, i)
        /\ xids' = RemoveAt(xids, i)
        /\ subxidStates' = RemoveAt(subxidStates, i)
        /\ proc' = Placed(proc, pgprocnos')
        /\ UNCHANGED <<sharers, xidGen>>

-----------------------------------------------------------------------------
\* Handing out transaction ids: GetNewTransactionId.

\* Mutant: the lock is given back before the xid is published.
GetNewTransactionIdUnlocked(p) ==
    /\ pc[p] = "xid_lock"
    /\ xidGen = NoProc
    /\ nextXid <= MaxXid
    /\ call' = [call EXCEPT ![p].xid = nextXid]
    /\ nextXid' = nextXid + 1
    /\ Goto(p, "xid_publish")
    /\ UNCHANGED <<latestCompletedXid, xactCompletionCount, denseVars, proc, sharers, xidGen,
                   vis>>

\* Take XidGenLock and the next xid.
GetNewTransactionIdLock(p) ==
    /\ pc[p] = "xid_lock"
    /\ xidGen = NoProc
    /\ nextXid <= MaxXid
    /\ xidGen' = p
    /\ call' = [call EXCEPT ![p].xid = nextXid]
    /\ nextXid' = nextXid + 1
    /\ Goto(p, "xid_publish")
    /\ UNCHANGED <<latestCompletedXid, xactCompletionCount, denseVars, proc, sharers, vis>>

\* Past xidStopLimit there is none: the error ends the call, and the session goes
\* on to abort (or, caught by a subtransaction, to abort that).
GetNewTransactionIdRefused(p) ==
    /\ pc[p] = "xid_lock"
    /\ xidGen = NoProc
    /\ nextXid > MaxXid
    /\ Goto(p, "run")
    /\ UNCHANGED <<arrayVars, call, vis>>

\* Publish it, in the PGPROC and at its place: as the top-level xid, as a cached
\* subxid, or, when the cache is full, as an overflow.
PublishXid(p) ==
    LET x == call[p].xid
        i == proc[p].pgxactoff
        n == Len(proc[p].subxids)
    IN  CASE proc[p].xid = InvalidXid ->
               /\ proc' = [proc EXCEPT ![p].xid = x]
               /\ xids' = [xids EXCEPT ![i] = x]
               /\ UNCHANGED subxidStates
          [] proc[p].xid # InvalidXid /\ n < MaxCachedSubxids ->
               /\ proc' = [proc EXCEPT ![p].subxids = Append(@, x)]
               /\ subxidStates' = [subxidStates EXCEPT ![i].count = n + 1]
               /\ UNCHANGED xids
          [] OTHER ->
               /\ proc' = [proc EXCEPT ![p].overflowed = TRUE]
               /\ subxidStates' = [subxidStates EXCEPT ![i].overflowed = TRUE]
               /\ UNCHANGED xids

GetNewTransactionIdPublish(p) ==
    /\ pc[p] = "xid_publish"
    /\ PublishXid(p)
    /\ Goto(p, "xid_release")
    /\ UNCHANGED <<transamVars, pgprocnos, sharers, xidGen, call, vis>>

GetNewTransactionIdRelease(p) ==
    /\ pc[p] = "xid_release"
    /\ xidGen' = NoProc
    /\ Goto(p, "xid_parent")
    /\ UNCHANGED <<transamVars, denseVars, proc, sharers, call, vis>>

-----------------------------------------------------------------------------
\* Transactions that end.

\* ProcArrayEndTransactionInternal, under the exclusive lock: by p itself, or by
\* the leader of the group p waits in.
EndTransactionInternal(p, latestXid) ==
    LET i == proc[p].pgxactoff
    IN  /\ ProcArrayLockFree
        /\ xids' = [xids EXCEPT ![i] = InvalidXid]
        /\ subxidStates' = [subxidStates EXCEPT ![i] = NoSubxids]
        /\ proc' = [proc EXCEPT ![p] = [BlankProc EXCEPT !.pgxactoff = i]]
        /\ Completed(latestXid)
        /\ UNCHANGED <<pgprocnos, sharers, xidGen>>

\* ProcArrayEndTransaction of a transaction without an xid: no lock.
EndTransactionWithoutXid(p) ==
    /\ proc' = [proc EXCEPT ![p].xmin = InvalidXid]
    /\ UNCHANGED <<transamVars, denseVars, sharers, xidGen>>

\* ProcArrayClearTransaction: the prepared transaction goes on under its dummy
\* PGPROC.  The count is bumped: p's own snapshots leave its own xid out.
ProcArrayClearTransaction(p) ==
    LET i == proc[p].pgxactoff
    IN  /\ ProcArrayLockFree
        /\ xids' = [xids EXCEPT ![i] = InvalidXid]
        /\ subxidStates' = [subxidStates EXCEPT ![i] = NoSubxids]
        /\ proc' = [proc EXCEPT ![p] = [BlankProc EXCEPT !.pgxactoff = i]]
        /\ xactCompletionCount' = xactCompletionCount + 1
        /\ UNCHANGED <<nextXid, latestCompletedXid, pgprocnos, sharers, xidGen>>

\* The cache without xid x: the last entry takes its place.
RemoveOne(cache, x) ==
    IF \E j \in DOMAIN cache : cache[j] = x
    THEN LET j == CHOOSE k \in DOMAIN cache : cache[k] = x
         IN  Front([cache EXCEPT ![j] = Last(cache)])
    ELSE cache

\* The cache without the xids of gone, the latest first.
RemoveAll(cache, gone) ==
    FoldLeft(RemoveOne, cache, SetToSortSeq(gone, LAMBDA a, b : a > b))

\* XidCacheRemoveRunningXids: an aborted subtransaction and its children leave
\* the cache (overflowed stays as it is), and count as completed.
XidCacheRemoveRunningXids(p, gone, latestXid) ==
    LET cache == RemoveAll(proc[p].subxids, gone)
    IN  /\ ProcArrayLockFree
        /\ proc' = [proc EXCEPT ![p].subxids = cache]
        /\ subxidStates' = [subxidStates EXCEPT ![proc[p].pgxactoff].count = Len(cache)]
        /\ Completed(latestXid)
        /\ UNCHANGED <<pgprocnos, xids, sharers, xidGen>>

-----------------------------------------------------------------------------
\* GetSnapshotData into the struct call[p].snap.

\* GetSnapshotDataReuse: give up at once when a transaction has completed since
\* the struct was filled.
ReusePrecheck(p) ==
    /\ pc[p] = "reuse"
    /\ LET n == call[p].snap.snapXactCompletionCount
       IN  Goto(p, IF n = 0 \/ xactCompletionCount # n THEN "build" ELSE "publish")
    /\ UNCHANGED <<arrayVars, call, vis>>

\* Publish the snapshot's xmin, unless an older one is published already.
ReusePublish(p) ==
    /\ pc[p] = "publish"
    /\ LET publish == proc[p].xmin = InvalidXid
       IN  /\ call' = [call EXCEPT ![p].published = publish]
           /\ proc' = IF publish THEN [proc EXCEPT ![p].xmin = call[p].snap.xmin] ELSE proc
    /\ Goto(p, "verify")
    /\ UNCHANGED <<transamVars, denseVars, sharers, xidGen, vis>>

\* Mutant: the first look at the count is trusted.
ReuseUnverified(p) ==
    /\ pc[p] = "verify"
    /\ vis' = [vis EXCEPT ![p].RecentXmin = call[p].snap.xmin,
                          ![p].TransactionXmin = IF call[p].published
                                                 THEN call[p].snap.xmin ELSE @]
    /\ Goto(p, "taken")
    /\ UNCHANGED <<arrayVars, call>>

\* Verify that still nothing has completed.
ReuseVerify(p) ==
    /\ pc[p] = "verify"
    /\ IF xactCompletionCount = call[p].snap.snapXactCompletionCount
       THEN /\ vis' = [vis EXCEPT ![p].RecentXmin = call[p].snap.xmin,
                                  ![p].TransactionXmin = IF call[p].published
                                                         THEN call[p].snap.xmin ELSE @]
            /\ Goto(p, "taken")
       ELSE /\ Goto(p, IF call[p].published THEN "retract" ELSE "build")
            /\ UNCHANGED vis
    /\ UNCHANGED <<arrayVars, call>>

ReuseRetract(p) ==
    /\ pc[p] = "retract"
    /\ proc' = [proc EXCEPT ![p].xmin = InvalidXid]
    /\ Goto(p, "build")
    /\ UNCHANGED <<transamVars, denseVars, sharers, xidGen, call, vis>>

\* Mutant: nextXid is taken for the bound.
SnapshotLockNext(p) ==
    LET own == xids[proc[p].pgxactoff]
    IN  /\ pc[p] = "build"
        /\ sharers' = sharers \cup {p}
        /\ call' = [call EXCEPT ![p].at = 1,
                                ![p].snap = [NoSnapshot EXCEPT
                                    !.xmin = IF own # InvalidXid THEN own ELSE nextXid,
                                    !.xmax = nextXid,
                                    !.snapXactCompletionCount = xactCompletionCount]]
        /\ Goto(p, "scan")
        /\ UNCHANGED <<transamVars, denseVars, proc, xidGen, vis>>

\* The full build: the shared lock, then latestCompletedXid, the count and the
\* caller's own xid, which bound the scan.
SnapshotLock(p) ==
    LET xmax == latestCompletedXid + 1
        own  == xids[proc[p].pgxactoff]
    IN  /\ pc[p] = "build"
        /\ sharers' = sharers \cup {p}
        /\ call' = [call EXCEPT ![p].at = 1,
                                ![p].snap = [NoSnapshot EXCEPT
                                    !.xmin = IF own # InvalidXid /\ own < xmax THEN own ELSE xmax,
                                    !.xmax = xmax,
                                    !.snapXactCompletionCount = xactCompletionCount]]
        /\ Goto(p, "scan")
        /\ UNCHANGED <<transamVars, denseVars, proc, xidGen, vis>>

\* Read the xid of one place.  The caller's own, and one from xmax on, are left
\* out.
SnapshotScanXid(p) ==
    LET i == call[p].at
        x == xids[i]
        s == call[p].snap
    IN  /\ pc[p] = "scan"
        /\ i <= Len(pgprocnos)
        /\ IF x = InvalidXid \/ i = proc[p].pgxactoff \/ x >= s.xmax
           THEN /\ call' = [call EXCEPT ![p].at = i + 1]
                /\ UNCHANGED pc
           ELSE /\ call' = [call EXCEPT ![p].snap.xip = s.xip \cup {x},
                                        ![p].snap.xmin = IF x < s.xmin THEN x ELSE s.xmin]
                /\ Goto(p, "scan_subxids")
        /\ UNCHANGED <<arrayVars, vis>>

\* Mutant: an overflowed cache is taken for a complete one.
SnapshotScanCached(p) ==
    LET i == call[p].at
        cached == {proc[pgprocnos[i]].subxids[j] : j \in 1 .. subxidStates[i].count}
    IN  /\ pc[p] = "scan_subxids"
        /\ call' = [call EXCEPT ![p].at = i + 1,
                                ![p].snap.subxip = @ \cup cached]
        /\ Goto(p, "scan")
        /\ UNCHANGED <<arrayVars, vis>>

\* Then its cached subxids, as many as its place says, until one place has
\* overflowed.
SnapshotScanSubxids(p) ==
    LET i == call[p].at
        st == subxidStates[i]
        s == call[p].snap
        cached == {proc[pgprocnos[i]].subxids[j] : j \in 1 .. st.count}
    IN  /\ pc[p] = "scan_subxids"
        /\ call' = [call EXCEPT ![p].at = i + 1,
                                ![p].snap = IF s.suboverflowed THEN s
                                            ELSE IF st.overflowed
                                            THEN [s EXCEPT !.suboverflowed = TRUE]
                                            ELSE [s EXCEPT !.subxip = s.subxip \cup cached]]
        /\ Goto(p, "scan")
        /\ UNCHANGED <<arrayVars, vis>>

\* At the end publish xmin, while the lock is held.
SnapshotInstallXmin(p) ==
    LET publish == proc[p].xmin = InvalidXid
        xmin == call[p].snap.xmin
    IN  /\ pc[p] = "scan"
        /\ call[p].at > Len(pgprocnos)
        /\ proc' = IF publish THEN [proc EXCEPT ![p].xmin = xmin] ELSE proc
        /\ vis' = [vis EXCEPT ![p].TransactionXmin = IF publish THEN xmin ELSE @]
        /\ Goto(p, "snapshot_unlock")
        /\ UNCHANGED <<transamVars, denseVars, sharers, xidGen, call>>

SnapshotUnlock(p) ==
    /\ pc[p] = "snapshot_unlock"
    /\ sharers' = sharers \ {p}
    /\ vis' = [vis EXCEPT ![p].RecentXmin = call[p].snap.xmin]
    /\ Goto(p, "taken")
    /\ UNCHANGED <<transamVars, denseVars, proc, xidGen, call>>

GetSnapshotDataStep(p) ==
    \/ ReusePrecheck(p) \/ ReusePublish(p) \/ ReuseVerify(p) \/ ReuseRetract(p)
    \/ SnapshotLock(p) \/ SnapshotScanXid(p) \/ SnapshotScanSubxids(p)
    \/ SnapshotInstallXmin(p) \/ SnapshotUnlock(p)

-----------------------------------------------------------------------------
\* TransactionIdIsInProgress(x)

Told(p, answer) ==
    /\ call' = [call EXCEPT ![p].answer = answer]
    /\ Goto(p, "told")

\* The exits that touch no shared state; own are the caller's xids.
InProgressEnter(p, x, own, known) ==
    LET past == x < vis[p].RecentXmin \/ x = vis[p].notInProgress
    IN  /\ call' = [call EXCEPT ![p] = [NoCall EXCEPT !.xid = x, !.known = known,
                                                      !.answer = ~past /\ x \in own]]
        /\ Goto(p, IF past \/ x \in own THEN "told" ELSE "progress_lock")
        /\ UNCHANGED <<arrayVars, vis>>

\* Mutant: the caller's place is read before the lock.
InProgressLockStale(p) ==
    LET x == call[p].xid
    IN  /\ pc[p] = "progress_lock"
        /\ IF call[p].off = 0
           THEN /\ call' = [call EXCEPT ![p].off = proc[p].pgxactoff]
                /\ UNCHANGED <<pc, sharers>>
           ELSE IF latestCompletedXid < x
           THEN Told(p, TRUE) /\ UNCHANGED sharers
           ELSE /\ sharers' = sharers \cup {p}
                /\ call' = [call EXCEPT ![p].at = 1]
                /\ Goto(p, "progress_scan")
        /\ UNCHANGED <<transamVars, denseVars, proc, xidGen, vis>>

\* The shared lock; the caller's place is read under it.
InProgressLock(p) ==
    LET x == call[p].xid
    IN  /\ pc[p] = "progress_lock"
        /\ IF latestCompletedXid < x
           THEN Told(p, TRUE) /\ UNCHANGED sharers
           ELSE /\ sharers' = sharers \cup {p}
                /\ call' = [call EXCEPT ![p].at = 1, ![p].off = proc[p].pgxactoff]
                /\ Goto(p, "progress_scan")
        /\ UNCHANGED <<transamVars, denseVars, proc, xidGen, vis>>

\* One place: its xid.  A younger xid cannot be the parent.
InProgressScanXid(p) ==
    LET i == call[p].at
        x == call[p].xid
    IN  /\ pc[p] = "progress_scan"
        /\ i <= Len(pgprocnos)
        /\ IF i # call[p].off /\ xids[i] = x
           THEN Told(p, TRUE) /\ sharers' = sharers \ {p}
           ELSE IF i = call[p].off \/ xids[i] = InvalidXid \/ xids[i] > x
           THEN /\ call' = [call EXCEPT ![p].at = i + 1]
                /\ UNCHANGED <<pc, sharers>>
           ELSE Goto(p, "progress_subxids") /\ UNCHANGED <<call, sharers>>
        /\ UNCHANGED <<transamVars, denseVars, proc, xidGen, vis>>

\* Then its cached subxids; an overflowed parent is remembered.
InProgressScanSubxids(p) ==
    LET i == call[p].at
        st == subxidStates[i]
        subs == proc[pgprocnos[i]].subxids
    IN  /\ pc[p] = "progress_subxids"
        /\ IF \E j \in 1 .. st.count : subs[j] = call[p].xid
           THEN Told(p, TRUE) /\ sharers' = sharers \ {p}
           ELSE /\ call' = [call EXCEPT ![p].at = i + 1,
                                        ![p].tops = IF st.overflowed THEN @ \cup {xids[i]} ELSE @]
                /\ Goto(p, "progress_scan")
                /\ UNCHANGED sharers
        /\ UNCHANGED <<transamVars, denseVars, proc, xidGen, vis>>

InProgressUnlock(p) ==
    /\ pc[p] = "progress_scan"
    /\ call[p].at > Len(pgprocnos)
    /\ sharers' = sharers \ {p}
    /\ Goto(p, "progress_resolve")
    /\ UNCHANGED <<transamVars, denseVars, proc, xidGen, call, vis>>

\* With an overflowed cache seen: pg_xact, then pg_subtrans.
InProgressResolve(p) ==
    LET x == call[p].xid
        txmin == vis[p].TransactionXmin
        top == TopmostTransaction(x, txmin)
        running == /\ call[p].tops # {}
                   /\ ~TransactionIdDidAbort(x, txmin)
                   /\ top # x /\ top \in call[p].tops
    IN  /\ pc[p] = "progress_resolve"
        /\ Told(p, running)
        /\ vis' = IF running THEN vis ELSE [vis EXCEPT ![p].notInProgress = x]
        /\ UNCHANGED arrayVars

InProgressStep(p) ==
    \/ InProgressLock(p) \/ InProgressScanXid(p) \/ InProgressScanSubxids(p)
    \/ InProgressUnlock(p) \/ InProgressResolve(p)

-----------------------------------------------------------------------------
\* ComputeXidHorizons: the oldest xid some snapshot may still need.

HorizonLock(p) ==
    /\ pc[p] = "horizon_lock"
    /\ sharers' = sharers \cup {p}
    /\ call' = [call EXCEPT ![p].at = 1, ![p].xid = latestCompletedXid + 1]
    /\ Goto(p, "horizon_scan")
    /\ UNCHANGED <<transamVars, denseVars, proc, xidGen, vis>>

\* The older of two xids, an invalid one aside.
TransactionIdOlder(a, b) ==
    IF a = InvalidXid THEN b ELSE IF b = InvalidXid THEN a ELSE IF a < b THEN a ELSE b

\* One place: its xid and its xmin.  (An xid assigned between the two reads is
\* above latestCompletedXid, so the reads may be one step.)
HorizonScan(p) ==
    LET i == call[p].at
        xmin == TransactionIdOlder(proc[pgprocnos[i]].xmin, xids[i])
    IN  /\ pc[p] = "horizon_scan"
        /\ i <= Len(pgprocnos)
        /\ call' = [call EXCEPT ![p].at = i + 1, ![p].xid = TransactionIdOlder(@, xmin)]
        /\ UNCHANGED <<arrayVars, pc, vis>>

\* GlobalVisUpdateApply: what is older than maybe_needed is removable.
HorizonUnlock(p) ==
    /\ pc[p] = "horizon_scan"
    /\ call[p].at > Len(pgprocnos)
    /\ sharers' = sharers \ {p}
    /\ vis' = [vis EXCEPT ![p].maybeNeeded = call[p].xid]
    /\ call' = [call EXCEPT ![p] = NoCall]
    /\ Goto(p, "run")
    /\ UNCHANGED <<transamVars, denseVars, proc, xidGen>>

HorizonStep(p) == HorizonLock(p) \/ HorizonScan(p) \/ HorizonUnlock(p)

-----------------------------------------------------------------------------
=============================================================================
