------------------------------ MODULE SnapMgr ------------------------------
(***************************************************************************)
(* The snapshots a session holds: the two static structs GetSnapshotData   *)
(* fills and reuses, the stack of active snapshots and the registered      *)
(* ones, and the advertised xmin that follows them.                        *)
(***************************************************************************)
EXTENDS ProcArray

CONSTANTS MaxActive,        \* bound on the active snapshot stack
          MaxRegistered     \* bound on the registered snapshots of one session

ASSUME SnapMgrAssumption == MaxActive \in Nat /\ MaxRegistered \in Nat

VARIABLE snap    \* each session's snapshot manager state

Structs == {"current", "catalog"}

NoSnaps == [static |-> [w \in Structs |-> NoSnapshot], active |-> <<>>, registered |-> {},
            catalogValid |-> FALSE]

SnapInit == snap = [p \in Sessions |-> NoSnaps]

Held(s, level) == [snap |-> s, level |-> level]

\* The registered entry of the catalog snapshot belongs to no resource owner.
CatalogEntry(p) == Held(snap[p].static["catalog"], 0)

\* snapshot_reset_xmin_locked, when session p's state becomes s: with no active
\* snapshot the advertised xmin rises to the oldest registered one, or goes.
SnapshotResetXmin(p, s) ==
    LET xmins == {h.snap.xmin : h \in s.registered}
        oldest == CHOOSE m \in xmins : \A n \in xmins : m <= n
        set(x) == /\ proc' = [proc EXCEPT ![p].xmin = x]
                  /\ vis' = [vis EXCEPT ![p].TransactionXmin = x]
    IN  IF s.active = <<>> /\ s.registered = {} THEN set(InvalidXid)
        ELSE IF s.active = <<>> /\ proc[p].xmin < oldest THEN set(oldest)
        ELSE UNCHANGED <<proc, vis>>

\* Session p's state becomes s and the advertised xmin follows.
Release(p, s) ==
    /\ snap' = [snap EXCEPT ![p] = s]
    /\ SnapshotResetXmin(p, s)
    /\ UNCHANGED <<transamVars, denseVars, sharers, xidGen>>

\* p's state without its catalog snapshot.
WithoutCatalog(p) ==
    IF snap[p].catalogValid
    THEN [snap[p] EXCEPT !.catalogValid = FALSE, !.registered = @ \ {CatalogEntry(p)}]
    ELSE snap[p]

InvalidateCatalogSnapshot(p) ==
    /\ pc[p] = "run"
    /\ snap[p].catalogValid
    /\ Release(p, WithoutCatalog(p))
    /\ UNCHANGED <<pc, call>>

\* refill_static_locked: fill the struct w, or a fresh one in its place when
\* somebody still holds the old one.
Refill(p, w, known) ==
    /\ \E s \in {snap[p].static[w], NoSnapshot} :
          call' = [call EXCEPT ![p] = [NoCall EXCEPT !.which = w, !.snap = s, !.known = known]]
    /\ Goto(p, "reuse")

\* GetTransactionSnapshot, READ COMMITTED: the catalog snapshot goes first.
GetTransactionSnapshot(p, known) ==
    /\ pc[p] = "run"
    /\ Len(snap[p].active) < MaxActive
    /\ Refill(p, "current", known)
    /\ IF snap[p].catalogValid THEN Release(p, WithoutCatalog(p))
       ELSE UNCHANGED <<arrayVars, snap, vis>>

\* GetNonHistoricCatalogSnapshot
GetCatalogSnapshot(p, known) ==
    /\ pc[p] = "run"
    /\ ~snap[p].catalogValid
    /\ Refill(p, "catalog", known)
    /\ UNCHANGED <<arrayVars, snap, vis>>

\* The call returns: the caller pushes a copy of the current snapshot
\* (PushActiveSnapshot); the catalog snapshot is registered as it is.
SnapshotTaken(p, level) ==
    LET s == call[p].snap
        filled == [snap[p] EXCEPT !.static[call[p].which] = s]
    IN  /\ pc[p] = "taken"
        /\ snap' = [snap EXCEPT ![p] =
               IF call[p].which = "current"
               THEN [filled EXCEPT !.active = Append(@, Held(s, level))]
               ELSE [filled EXCEPT !.catalogValid = TRUE,
                                   !.registered = @ \cup {Held(s, 0)}]]
        /\ call' = [call EXCEPT ![p] = NoCall]
        /\ Goto(p, "run")
        /\ UNCHANGED <<arrayVars, vis>>

PopActiveSnapshot(p) ==
    /\ pc[p] = "run"
    /\ snap[p].active # <<>>
    /\ Release(p, [snap[p] EXCEPT !.active = Front(@)])
    /\ UNCHANGED <<pc, call>>

\* RegisterSnapshot of the active snapshot, on the resource owner of the level.
RegisterSnapshot(p, level) ==
    /\ pc[p] = "run"
    /\ snap[p].active # <<>>
    /\ Cardinality(snap[p].registered) < MaxRegistered
    /\ snap' = [snap EXCEPT ![p].registered = @ \cup {Held(Last(snap[p].active).snap, level)}]
    /\ UNCHANGED <<arrayVars, pc, call, vis>>

UnregisterSnapshot(p) ==
    /\ pc[p] = "run"
    /\ \E h \in snap[p].registered :
          h.level > 0 /\ Release(p, [snap[p] EXCEPT !.registered = @ \ {h}])
    /\ UNCHANGED <<pc, call>>

\* AtSubCommit_Snapshot: active snapshots of the level pass to the parent; what
\* the level's resource owner had registered is released.
AtSubCommitSnapshot(p, level) ==
    [snap[p] EXCEPT
        !.active = [i \in DOMAIN @ |-> IF @[i].level >= level THEN Held(@[i].snap, level - 1)
                                       ELSE @[i]],
        !.registered = {h \in @ : h.level < level}]

\* AtSubAbort_Snapshot: active snapshots are popped down to one of an outer
\* level; what the level's resource owner had registered is released.
AtSubAbortSnapshot(p, level) ==
    LET outer == {i \in DOMAIN snap[p].active : snap[p].active[i].level < level}
    IN  [snap[p] EXCEPT !.active = SubSeq(@, 1, Max({0} \cup outer)),
                        !.registered = {h \in @ : h.level < level}]

\* AtEOXact_Snapshot: nothing stays but the static structs.
AtEOXactSnapshot(p) == [NoSnaps EXCEPT !.static = snap[p].static]

\* XidInMVCCSnapshot: does snapshot s count x as running?
XidInMVCCSnapshot(x, s, txmin) ==
    LET top == TopmostTransaction(x, txmin)
    IN  \/ x >= s.xmax
        \/ /\ x >= s.xmin
           /\ IF s.suboverflowed THEN top >= s.xmin /\ top \in s.xip
              ELSE x \in s.subxip \cup s.xip
=============================================================================
