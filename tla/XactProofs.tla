----------------------------- MODULE XactProofs -----------------------------
(***************************************************************************)
(* HorizonSafe of Xact, for any number of sessions, prepared transactions, *)
(* xids and snapshots.                                                     *)
(***************************************************************************)
EXTENDS Xact, SequenceTheorems, FiniteSetTheorems, WellFoundedInduction, TLAPS

(***************************************************************************)
(* The state, as far as the argument looks at it.                          *)
(***************************************************************************)

IsProc(r) ==
  /\ r = [xid |-> r.xid, xmin |-> r.xmin, subxids |-> r.subxids, overflowed |-> r.overflowed,
          pgxactoff |-> r.pgxactoff]
  /\ r.xid \in Nat /\ r.xmin \in Nat /\ r.pgxactoff \in Nat

IsSnap(s) ==
  /\ s = [xmin |-> s.xmin, xmax |-> s.xmax, xip |-> s.xip, subxip |-> s.subxip,
          suboverflowed |-> s.suboverflowed, snapXactCompletionCount |-> s.snapXactCompletionCount]
  /\ s.xmin \in Nat /\ s.xmax \in Nat /\ s.snapXactCompletionCount \in Nat

IsCall(c) ==
  /\ c = [which |-> c.which, snap |-> c.snap, published |-> c.published, known |-> c.known,
          at |-> c.at, off |-> c.off, xid |-> c.xid, tops |-> c.tops, answer |-> c.answer,
          writes |-> c.writes, gxact |-> c.gxact]
  /\ c.which \in Structs /\ IsSnap(c.snap) /\ c.published \in BOOLEAN /\ c.at \in Nat /\ c.xid \in Nat

IsVis(v) ==
  /\ v = [TransactionXmin |-> v.TransactionXmin, RecentXmin |-> v.RecentXmin,
          notInProgress |-> v.notInProgress, maybeNeeded |-> v.maybeNeeded]
  /\ v.maybeNeeded \in Nat

\* What a sequence holds.
Entries(a) == {a[i] : i \in DOMAIN a}

IsHeld(h) == h = [snap |-> h.snap, level |-> h.level] /\ IsSnap(h.snap)

IsSnaps(m) ==
  /\ m = [static |-> m.static, active |-> m.active, registered |-> m.registered,
          catalogValid |-> m.catalogValid]
  /\ m.static = [w \in Structs |-> m.static[w]] /\ \A w \in Structs : IsSnap(m.static[w])
  /\ m.active \in Seq(Entries(m.active)) /\ \A h \in Entries(m.active) : IsHeld(h)
  /\ \A h \in m.registered : IsHeld(h)

Levels == [xid : Nat, children : SUBSET Nat]
GXacts == [valid : BOOLEAN, locker : Nat, xid : Nat, children : SUBSET Nat]

Typed ==
  /\ nextXid \in Nat \ {0} /\ latestCompletedXid \in Nat /\ xactCompletionCount \in Nat \ {0}
  /\ xidGen \in Nat
  /\ pgprocnos \in Seq(Members) /\ xids \in Seq(Nat) /\ Len(xids) = Len(pgprocnos)
  /\ proc = [p \in Members |-> proc[p]] /\ \A p \in Members : IsProc(proc[p])
  /\ pc = [q \in Sessions |-> pc[q]]
  /\ call = [p \in Sessions |-> call[p]] /\ \A p \in Sessions : IsCall(call[p])
  /\ vis = [p \in Sessions |-> vis[p]] /\ \A p \in Sessions : IsVis(vis[p])
  /\ snap = [p \in Sessions |-> snap[p]] /\ \A p \in Sessions : IsSnaps(snap[p])
  /\ xact \in [Sessions -> Seq(Levels)]
  /\ gxact \in [Dummies -> GXacts]

(***************************************************************************)
(* The array.                                                              *)
(***************************************************************************)

Listed(m) == \E i \in DOMAIN pgprocnos : pgprocnos[i] = m

\* Every place has its member.
Places == \A i \in DOMAIN pgprocnos : proc[pgprocnos[i]].pgxactoff = i

\* The xid that is being handed out, or the next one: those in use are below it.
Bound == IF xidGen = NoProc THEN nextXid ELSE nextXid - 1

\* The prepared transactions have a place while they are valid.
Prepd ==
  \A d \in Dummies :
    /\ Listed(d) <=> gxact[d].valid
    /\ gxact[d].xid < Bound /\ \A x \in gxact[d].children : x < Bound
    /\ gxact[d].valid => gxact[d].xid # InvalidXid

\* A session that works on a prepared transaction has it locked.
Working == {"prepare_add", "prepare_clear", "prepare_done",
            "finish_read", "finish_record", "finish_remove", "finish_done"}

Works(p) ==
  /\ pc[p] \in Working =>
        /\ call[p].gxact \in Dummies /\ gxact[call[p].gxact].locker = p
        /\ gxact[call[p].gxact].valid <=> pc[p] \notin {"prepare_add", "finish_done"}
  /\ pc[p] = "prepare_add" =>
        gxact[call[p].gxact].xid # InvalidXid /\ proc[call[p].gxact].xid = proc[p].xid

\* XidGenLock is held while an xid is published.
Handed(p) ==
  /\ pc[p] \in {"xid_publish", "xid_release"} => xidGen = p /\ call[p].xid = nextXid - 1
  /\ pc[p] \in {"xid_lock", "xid_publish", "xid_release"} => Unassigned(p) # {}

XidsBelow(p) ==
  \A i \in DOMAIN xact[p] : xact[p][i].xid < Bound /\ \A x \in xact[p][i].children : x < Bound

TopXid(p) == IF xact[p] = <<>> THEN InvalidXid ELSE xact[p][1].xid

\* The xid of a session's place is its transaction's, from the publication on.
TopListed(p) ==
  /\ pc[p] # "out" => xids[proc[p].pgxactoff] = proc[p].xid
  /\ proc[p].xid = IF pc[p] = "xid_release" /\ TopXid(p) = InvalidXid THEN call[p].xid ELSE TopXid(p)

\* How deep a transaction is nested.
Nested(p) ==
  /\ pc[p] \in {"out", "idle", "prepare_done"} => xact[p] = <<>>
  /\ pc[p] \in {"sub_record", "sub_remove"} => Len(xact[p]) > 1
  /\ pc[p] \in {"record", "end", "prepare_add", "prepare_clear"} => Len(xact[p]) = 1

\* Who scans the array holds ProcArrayLock.
Sharing == {"scan", "scan_subxids", "snapshot_unlock", "progress_scan", "progress_subxids",
            "horizon_scan"}

Session(p) ==
  /\ Listed(p) <=> pc[p] # "out"
  /\ Works(p) /\ Handed(p) /\ XidsBelow(p) /\ TopListed(p) /\ Nested(p)
  /\ pc[p] \in Sharing => p \in sharers

ArrayInv ==
  /\ Typed /\ Places /\ 0 < Bound /\ latestCompletedXid < Bound /\ Prepd
  /\ \A p \in Sessions : Session(p)

(***************************************************************************)
(* The snapshots.                                                          *)
(***************************************************************************)

\* The xids in the array.
Vals == {xids[i] : i \in DOMAIN xids} \ {InvalidXid}

\* m is at most the oldest xid that runs or will.
Below(m) == m <= latestCompletedXid + 1 /\ \A v \in Vals : m <= v

\* m is an xid that runs, or one that no transaction has completed from.
Recent(m) == m = latestCompletedXid + 1 \/ m \in Vals

\* A snapshot that was built: its xmin was the oldest running xid, and still is one that runs
\* unless a transaction has completed since.
Built(s) ==
  /\ s.xmin # InvalidXid /\ Below(s.xmin)
  /\ s.snapXactCompletionCount \in 1 .. xactCompletionCount
  /\ s.snapXactCompletionCount = xactCompletionCount => Recent(s.xmin)

\* A snapshot being built has looked at the places before n, and its own.
Building(p, n) ==
  LET s == call[p].snap
  IN  /\ call[p].at # 0 /\ s.snapXactCompletionCount = xactCompletionCount
      /\ s.xmax = latestCompletedXid + 1 /\ s.xmin <= s.xmax /\ s.xmin # InvalidXid /\ Recent(s.xmin)
      /\ \A i \in DOMAIN xids :
            (i < n \/ i = proc[p].pgxactoff) /\ xids[i] # InvalidXid => s.xmin <= xids[i]

\* The snapshots of session p: the structs, those in use, the one in the making.
Snaps(p) ==
  /\ \A w \in Structs : snap[p].static[w] = NoSnapshot \/ Built(snap[p].static[w])
  /\ \A s \in Live(p) : Built(s) /\ proc[p].xmin # InvalidXid /\ proc[p].xmin <= s.xmin
  /\ Below(proc[p].xmin) /\ Below(vis[p].maybeNeeded)
  /\ pc[p] = "reuse" => call[p].snap = NoSnapshot \/ Built(call[p].snap)
  /\ pc[p] \in {"publish", "verify", "retract", "taken"} => Built(call[p].snap)
  /\ pc[p] = "verify" /\ call[p].published => proc[p].xmin = call[p].snap.xmin
  /\ pc[p] \in {"verify", "retract"} => proc[p].xmin # InvalidXid
  /\ (pc[p] = "retract" \/ (pc[p] = "verify" /\ call[p].published)) => Live(p) = {}
  /\ pc[p] \in {"idle", "out"} => Live(p) = {}
  /\ pc[p] = "scan" => Building(p, call[p].at)
  /\ pc[p] = "scan_subxids" => Building(p, call[p].at + 1)
  /\ pc[p] = "snapshot_unlock" =>
        Built(call[p].snap) /\ call[p].snap.snapXactCompletionCount = xactCompletionCount
        /\ proc[p].xmin # InvalidXid /\ proc[p].xmin <= call[p].snap.xmin

\* A horizon in the making: at most the xids of the places it has passed, and at most what the
\* snapshots in use need, unless their session is still ahead or their xmin is of a running xid.
Scanned(p) ==
  LET h == call[p].xid
  IN  /\ call[p].at # 0 /\ h # InvalidXid /\ h <= latestCompletedXid + 1
      /\ \A i \in DOMAIN xids : i < call[p].at /\ xids[i] # InvalidXid => h <= xids[i]
      /\ \A q \in Sessions : \A s \in Live(q) :
            h <= s.xmin \/ proc[q].pgxactoff >= call[p].at \/ Recent(s.xmin)

SnapInv ==
  /\ \A p \in Sessions : Snaps(p)
  /\ \A p \in Sessions : pc[p] = "horizon_scan" => Scanned(p)
  /\ HorizonSafe

(***************************************************************************)
(* Sets of numbers, and sequences with one entry more or less.             *)
(***************************************************************************)

\* A nonempty set of naturals has a least member.
LEMMA LeastNat ==
  ASSUME NEW T \in SUBSET Nat, T # {}
  PROVE  \E x \in T : \A y \in T : x <= y
<1>1. IsWellFoundedOn(OpToRel(<, Nat), Nat)
  BY NatLessThanWellFounded
<1>2. PICK x \in T : \A y \in T : ~(<<y, x>> \in OpToRel(<, Nat))
  BY <1>1, WFMin
<1>3. \A y \in T : ~(y < x)
  BY <1>2 DEF OpToRel
<1> QED BY <1>3

\* A nonempty set of naturals below a bound has a greatest member, which is its Max.
LEMMA MaxNat ==
  ASSUME NEW T \in SUBSET Nat, T # {}, NEW b \in Nat, \A x \in T : x < b
  PROVE  Max(T) \in T /\ \A x \in T : x <= Max(T)
<1> DEFINE U == {b - x : x \in T}
<1>1. U \in SUBSET Nat /\ U # {}
  <2>1. \A x \in T : b - x \in Nat
    OBVIOUS
  <2> QED BY <2>1
<1>2. PICK u \in U : \A y \in U : u <= y
  BY <1>1, LeastNat
<1>3. PICK x \in T : u = b - x
  BY <1>2
<1>4. \A y \in T : b - x <= b - y
  BY <1>2, <1>3
<1>5. \A y \in T : x >= y
  BY <1>4
<1>6. \E z \in T : \A y \in T : z >= y
  BY <1>5
<1>7. Max(T) \in T /\ \A y \in T : Max(T) >= y
  BY <1>6 DEF Max
<1> QED BY <1>7

\* r is s with e at place i.
IsInserted(S, r, s, i, e) ==
  /\ r \in Seq(S) /\ Len(r) = Len(s) + 1 /\ r[i] = e
  /\ \A k \in 1 .. Len(s) : k < i => r[k] = s[k]
  /\ \A k \in 1 .. Len(s) : k >= i => r[k + 1] = s[k]

\* InsertAt.
LEMMA Inserted ==
  ASSUME NEW S, NEW s \in Seq(S), NEW i \in 1 .. Len(s) + 1, NEW e \in S
  PROVE  IsInserted(S, InsertAt(s, i, e), s, i, e)
<1>1. PICK a : a = SubSeq(s, 1, i - 1)
  OBVIOUS
<1>2. a \in Seq(S) /\ Len(a) = i - 1 /\ \A k \in 1 .. i - 1 : a[k] = s[k]
  BY <1>1
<1>3. PICK c : c = SubSeq(s, i, Len(s))
  OBVIOUS
<1>4. c \in Seq(S) /\ Len(c) = Len(s) - i + 1 /\ \A k \in 1 .. Len(s) - i + 1 : c[k] = s[i + k - 1]
  BY <1>3
<1>5. <<e>> \in Seq(S) /\ Len(<<e>>) = 1 /\ <<e>>[1] = e
  OBVIOUS
<1>6. PICK b : b = a \o <<e>>
  OBVIOUS
<1>7. b \in Seq(S) /\ Len(b) = i /\ b[i] = e /\ \A k \in 1 .. i - 1 : b[k] = s[k]
  BY <1>2, <1>5, <1>6
<1>8. /\ b \o c \in Seq(S) /\ Len(b \o c) = Len(b) + Len(c)
      /\ \A k \in 1 .. Len(b) + Len(c) : (b \o c)[k] = IF k <= Len(b) THEN b[k] ELSE c[k - Len(b)]
  BY <1>4, <1>7, ConcatProperties
<1>9. PICK r : r = b \o c
  OBVIOUS
<1>10. r \in Seq(S) /\ Len(r) = Len(s) + 1 /\ r[i] = e
  BY <1>4, <1>7, <1>8, <1>9
<1>11. ASSUME NEW k \in 1 .. Len(s), k < i PROVE r[k] = s[k]
  BY <1>4, <1>7, <1>8, <1>9, <1>11
<1>12. ASSUME NEW k \in 1 .. Len(s), k >= i PROVE r[k + 1] = s[k]
  <2>1. k + 1 \in 1 .. Len(b) + Len(c) /\ ~(k + 1 <= Len(b)) /\ k + 1 - Len(b) \in 1 .. Len(s) - i + 1
    BY <1>4, <1>7, <1>12
  <2>2. r[k + 1] = c[k + 1 - Len(b)]
    BY <1>8, <1>9, <2>1
  <2>3. c[k + 1 - Len(b)] = s[i + (k + 1 - Len(b)) - 1]
    BY <1>4, <2>1
  <2>4. i + (k + 1 - Len(b)) - 1 = k
    BY <1>7
  <2> QED BY <2>2, <2>3, <2>4
<1>13. r = InsertAt(s, i, e)
  BY <1>1, <1>3, <1>6, <1>9 DEF InsertAt
<1> QED BY <1>10, <1>11, <1>12, <1>13 DEF IsInserted

\* r is s without what is at place i.
IsRemoved(S, r, s, i) ==
  /\ r \in Seq(S) /\ Len(r) = Len(s) - 1
  /\ \A k \in 1 .. Len(s) - 1 : k < i => r[k] = s[k]
  /\ \A k \in 1 .. Len(s) - 1 : k >= i => r[k] = s[k + 1]

\* RemoveAt.
LEMMA Removed ==
  ASSUME NEW S, NEW s \in Seq(S), NEW i \in 1 .. Len(s)
  PROVE  IsRemoved(S, RemoveAt(s, i), s, i)
<1>1. PICK a : a = SubSeq(s, 1, i - 1)
  OBVIOUS
<1>2. a \in Seq(S) /\ Len(a) = i - 1 /\ \A k \in 1 .. i - 1 : a[k] = s[k]
  BY <1>1
<1>3. PICK c : c = SubSeq(s, i + 1, Len(s))
  OBVIOUS
<1>4. c \in Seq(S) /\ Len(c) = Len(s) - i /\ \A k \in 1 .. Len(s) - i : c[k] = s[i + k]
  BY <1>3
<1>5. /\ a \o c \in Seq(S) /\ Len(a \o c) = Len(a) + Len(c)
      /\ \A k \in 1 .. Len(a) + Len(c) : (a \o c)[k] = IF k <= Len(a) THEN a[k] ELSE c[k - Len(a)]
  BY <1>2, <1>4, ConcatProperties
<1>6. PICK r : r = a \o c
  OBVIOUS
<1>a. Len(a) + Len(c) = Len(s) - 1
  BY <1>2, <1>4
<1>7. r \in Seq(S) /\ Len(r) = Len(s) - 1
  BY <1>a, <1>5, <1>6
<1>8. ASSUME NEW k \in 1 .. Len(s) - 1, k < i PROVE r[k] = s[k]
  BY <1>2, <1>4, <1>5, <1>6, <1>8
<1>9. ASSUME NEW k \in 1 .. Len(s) - 1, k >= i PROVE r[k] = s[k + 1]
  <2>1. k \in 1 .. Len(a) + Len(c) /\ ~(k <= Len(a)) /\ k - Len(a) \in 1 .. Len(s) - i
    BY <1>2, <1>4, <1>9
  <2>2. r[k] = c[k - Len(a)]
    BY <1>5, <1>6, <2>1
  <2>3. c[k - Len(a)] = s[i + (k - Len(a))]
    BY <1>4, <2>1
  <2>4. i + (k - Len(a)) = k + 1
    BY <1>2
  <2> QED BY <2>2, <2>3, <2>4
<1>10. r = RemoveAt(s, i)
  BY <1>1, <1>3, <1>6 DEF RemoveAt
<1> QED BY <1>7, <1>8, <1>9, <1>10 DEF IsRemoved

\* Placed gives every member of the order its place and changes nothing else.
LEMMA PlacedFields ==
  ASSUME NEW procs, procs = [m \in Members |-> procs[m]], \A m \in Members : IsProc(procs[m]),
         NEW order \in Seq(Members),
         \A i, j \in DOMAIN order : order[i] = order[j] => i = j
  PROVE  /\ Placed(procs, order) = [m \in Members |-> Placed(procs, order)[m]]
         /\ \A m \in Members : /\ IsProc(Placed(procs, order)[m])
                               /\ Placed(procs, order)[m].xid = procs[m].xid
                               /\ Placed(procs, order)[m].xmin = procs[m].xmin
         /\ \A i \in DOMAIN order : Placed(procs, order)[order[i]].pgxactoff = i
         /\ \A m \in Members : (\A i \in DOMAIN order : order[i] # m) => Placed(procs, order)[m] = procs[m]
<1>1. PICK f : f = Placed(procs, order)
  OBVIOUS
<1>2. f = [m \in Members |-> IF \E i \in DOMAIN order : order[i] = m
                             THEN [procs[m] EXCEPT !.pgxactoff = CHOOSE i \in DOMAIN order : order[i] = m]
                             ELSE procs[m]]
  BY <1>1 DEF Placed
<1>3. f = [m \in Members |-> f[m]]
  BY <1>2
<1>4. ASSUME NEW m \in Members, \A i \in DOMAIN order : order[i] # m PROVE f[m] = procs[m]
  BY <1>2, <1>4
<1>5. ASSUME NEW i \in DOMAIN order
      PROVE  /\ f[order[i]].pgxactoff = i /\ IsProc(f[order[i]])
             /\ f[order[i]].xid = procs[order[i]].xid /\ f[order[i]].xmin = procs[order[i]].xmin
  <2>1. PICK m \in Members : m = order[i]
    OBVIOUS
  <2>2. (CHOOSE k \in DOMAIN order : order[k] = m) = i
    BY <2>1
  <2>3. f[m] = [procs[m] EXCEPT !.pgxactoff = i]
    BY <1>2, <2>1, <2>2
  <2>4. IsProc(procs[m]) /\ i \in Nat
    OBVIOUS
  <2>5. f[m].pgxactoff = i /\ f[m].xid = procs[m].xid /\ f[m].xmin = procs[m].xmin /\ IsProc(f[m])
    BY <2>3, <2>4 DEF IsProc
  <2> QED BY <2>1, <2>5
<1>6. ASSUME NEW m \in Members
      PROVE  IsProc(f[m]) /\ f[m].xid = procs[m].xid /\ f[m].xmin = procs[m].xmin
  <2>1. CASE \A i \in DOMAIN order : order[i] # m
    <3>1. f[m] = procs[m] /\ IsProc(procs[m])
      BY <1>4, <2>1
    <3> QED BY <3>1
  <2>2. CASE \E i \in DOMAIN order : order[i] = m
    BY <1>5, <2>2
  <2> QED BY <2>1, <2>2
<1> QED BY <1>1, <1>3, <1>4, <1>5, <1>6

\* A place for member p, at most one behind the last.
LEMMA PlaceFor ==
  ASSUME NEW order \in Seq(Members), NEW p
  PROVE  1 + Cardinality({k \in DOMAIN order : order[k] < p}) \in 1 .. Len(order) + 1
<1>1. PICK K : K = {k \in DOMAIN order : order[k] < p}
  OBVIOUS
<1>2. K \subseteq 1 .. Len(order) /\ Len(order) \in Nat
  BY <1>1
<1>3. IsFiniteSet(1 .. Len(order)) /\ Cardinality(1 .. Len(order)) = Len(order)
  <2>1. 1 \in Int /\ Len(order) \in Int
    BY <1>2
  <2>2. IsFiniteSet(1 .. Len(order)) /\ Cardinality(1 .. Len(order)) = IF 1 > Len(order) THEN 0 ELSE Len(order) - 1 + 1
    BY <2>1, FS_Interval
  <2> QED BY <1>2, <2>2
<1>4. IsFiniteSet(K) /\ Cardinality(K) <= Len(order)
  BY <1>2, <1>3, FS_Subset
<1>5. Cardinality(K) \in Nat
  BY <1>4, FS_CardinalityType
<1> QED BY <1>1, <1>2, <1>4, <1>5

(***************************************************************************)
(* Joining and leaving.                                                    *)
(***************************************************************************)

\* No two places have the same member, and the sizes agree.
LEMMA PlacesApart ==
  ASSUME Typed, Places
  PROVE  /\ \A i, j \in DOMAIN pgprocnos : pgprocnos[i] = pgprocnos[j] => i = j
         /\ DOMAIN pgprocnos = 1 .. Len(pgprocnos) /\ DOMAIN xids = 1 .. Len(pgprocnos)
         /\ \A m \in Members : Listed(m) =>
               proc[m].pgxactoff \in 1 .. Len(pgprocnos) /\ pgprocnos[proc[m].pgxactoff] = m
<1>1. \A i, j \in DOMAIN pgprocnos : pgprocnos[i] = pgprocnos[j] => i = j
  BY DEF Places
<1>2. DOMAIN pgprocnos = 1 .. Len(pgprocnos) /\ DOMAIN xids = 1 .. Len(pgprocnos)
  BY DEF Typed
<1> QED BY <1>1, <1>2 DEF Places, Listed

\* What ProcArrayAdd does.
Joins(m, me) ==
  /\ pgprocnos' \in Seq(Members) /\ xids' \in Seq(Nat) /\ Len(xids') = Len(pgprocnos')
  /\ proc' = [q \in Members |-> proc'[q]] /\ \A q \in Members : IsProc(proc'[q])
  /\ \A i \in DOMAIN pgprocnos' : proc'[pgprocnos'[i]].pgxactoff = i
  /\ \A q \in Members : Listed(q)' <=> Listed(q) \/ q = m
  /\ \A q \in Members : Listed(q) => xids'[proc'[q].pgxactoff] = xids[proc[q].pgxactoff]
  /\ xids'[proc'[m].pgxactoff] = me.xid
  /\ \A q \in Members \ {m} : proc'[q].xid = proc[q].xid /\ proc'[q].xmin = proc[q].xmin
  /\ proc'[m].xid = me.xid /\ proc'[m].xmin = me.xmin
  /\ Vals' = Vals \cup ({me.xid} \ {InvalidXid})
  /\ sharers = {} /\ UNCHANGED <<nextXid, latestCompletedXid, xactCompletionCount, sharers, xidGen>>

\* ProcArrayAdd gives the member a place and leaves the other places as they were.
LEMMA AddJoins ==
  ASSUME Typed, Places, NEW m \in Members, ~Listed(m), NEW me, IsProc(me), ProcArrayAdd(m, me)
  PROVE  Joins(m, me)
<1>1. PICK i : i = 1 + Cardinality({k \in DOMAIN pgprocnos : pgprocnos[k] < m})
  OBVIOUS
<1>2. i \in 1 .. Len(pgprocnos) + 1 /\ pgprocnos \in Seq(Members) /\ xids \in Seq(Nat) /\ Len(xids) = Len(pgprocnos)
  BY <1>1, PlaceFor DEF Typed
<1>3. PICK n \in Nat : n = Len(pgprocnos)
  BY <1>2
<1>4. PICK f : f = pgprocnos'
  OBVIOUS
<1>5. /\ f \in Seq(Members) /\ Len(f) = n + 1 /\ f[i] = m
      /\ \A k \in 1 .. n : k < i => f[k] = pgprocnos[k]
      /\ \A k \in 1 .. n : k >= i => f[k + 1] = pgprocnos[k]
  <2>1. f = InsertAt(pgprocnos, i, m)
    BY <1>1, <1>4 DEF ProcArrayAdd
  <2>2. pgprocnos \in Seq(Members) /\ i \in 1 .. Len(pgprocnos) + 1
    BY <1>2
  <2>3. IsInserted(Members, f, pgprocnos, i, m)
    BY <2>1, <2>2, Inserted
  <2> QED BY <1>3, <2>3 DEF IsInserted
<1>6. PICK x : x = xids'
  OBVIOUS
<1>7. /\ x \in Seq(Nat) /\ Len(x) = n + 1 /\ x[i] = me.xid
      /\ \A k \in 1 .. n : k < i => x[k] = xids[k]
      /\ \A k \in 1 .. n : k >= i => x[k + 1] = xids[k]
  <2>1. x = InsertAt(xids, i, me.xid) /\ me.xid \in Nat
    BY <1>1, <1>6 DEF ProcArrayAdd, IsProc
  <2>2. xids \in Seq(Nat) /\ i \in 1 .. Len(xids) + 1 /\ Len(xids) = n
    BY <1>2, <1>3
  <2>3. IsInserted(Nat, x, xids, i, me.xid)
    BY <2>1, <2>2, Inserted
  <2> QED BY <2>2, <2>3 DEF IsInserted
<1>8. DOMAIN f = 1 .. n + 1 /\ DOMAIN x = 1 .. n + 1 /\ DOMAIN pgprocnos = 1 .. n /\ DOMAIN xids = 1 .. n
  BY <1>2, <1>3, <1>5, <1>7
\* An entry of the new order is the new member or an old place.
<1>9. ASSUME NEW k \in 1 .. n + 1
      PROVE  \/ k = i
             \/ k < i /\ k \in 1 .. n /\ f[k] = pgprocnos[k] /\ x[k] = xids[k]
             \/ k > i /\ k - 1 \in 1 .. n /\ f[k] = pgprocnos[k - 1] /\ x[k] = xids[k - 1]
  <2>1. CASE k < i
    BY <1>2, <1>3, <1>5, <1>7, <2>1
  <2>2. CASE k > i
    <3>1. k - 1 \in 1 .. n /\ k - 1 >= i /\ (k - 1) + 1 = k
      BY <1>2, <1>3, <2>2
    <3>2. f[(k - 1) + 1] = pgprocnos[k - 1] /\ x[(k - 1) + 1] = xids[k - 1]
      BY <1>5, <1>7, <3>1
    <3> QED BY <2>2, <3>1, <3>2
  <2> QED BY <1>2, <1>3, <2>1, <2>2
<1>10. \A k \in 1 .. n : pgprocnos[k] # m
  BY <1>8 DEF Listed
<1>11. \A k, j \in 1 .. n : pgprocnos[k] = pgprocnos[j] => k = j
  BY <1>8, PlacesApart
<1>12. ASSUME NEW k \in DOMAIN f, NEW j \in DOMAIN f, f[k] = f[j] PROVE k = j
  <2>0. k \in 1 .. n + 1 /\ j \in 1 .. n + 1
    BY <1>8
  <2>1. CASE k = i
    BY <1>5, <1>9, <1>10, <1>12, <2>0, <2>1
  <2>2. CASE j = i
    BY <1>5, <1>9, <1>10, <1>12, <2>0, <2>2
  <2>3. CASE k < i /\ j < i
    <3>1. k \in 1 .. n /\ j \in 1 .. n /\ pgprocnos[k] = pgprocnos[j]
      <4>1. k \in 1 .. n /\ f[k] = pgprocnos[k]
        BY <1>2, <1>9, <2>0, <2>3
      <4>2. j \in 1 .. n /\ f[j] = pgprocnos[j]
        BY <1>2, <1>9, <2>0, <2>3
      <4> QED BY <1>12, <4>1, <4>2
    <3> QED BY <1>11, <3>1
  <2>4. CASE k > i /\ j > i
    <3>1. k - 1 \in 1 .. n /\ j - 1 \in 1 .. n /\ pgprocnos[k - 1] = pgprocnos[j - 1]
      <4>1. k - 1 \in 1 .. n /\ f[k] = pgprocnos[k - 1]
        BY <1>2, <1>9, <2>0, <2>4
      <4>2. j - 1 \in 1 .. n /\ f[j] = pgprocnos[j - 1]
        BY <1>2, <1>9, <2>0, <2>4
      <4> QED BY <1>12, <4>1, <4>2
    <3>2. k - 1 = j - 1
      BY <1>11, <3>1
    <3> QED BY <2>0, <3>2
  <2>5. CASE k < i /\ j > i
    <3>1. k = j - 1
      BY <1>2, <1>9, <1>11, <1>12, <2>0, <2>5
    <3> QED BY <1>2, <2>0, <2>5, <3>1
  <2>6. CASE k > i /\ j < i
    <3>1. k - 1 = j
      BY <1>2, <1>9, <1>11, <1>12, <2>0, <2>6
    <3> QED BY <1>2, <2>0, <2>6, <3>1
  <2> QED BY <1>2, <2>0, <2>1, <2>2, <2>3, <2>4, <2>5, <2>6
<1>13. PICK pr : pr = [proc EXCEPT ![m] = me]
  OBVIOUS
<1>14. /\ pr = [q \in Members |-> pr[q]] /\ \A q \in Members : IsProc(pr[q])
       /\ pr[m] = me /\ \A q \in Members \ {m} : pr[q] = proc[q]
  BY <1>13 DEF Typed
<1>15. proc' = Placed(pr, f)
  BY <1>4, <1>13 DEF ProcArrayAdd
<1>16. /\ Placed(pr, f) = [q \in Members |-> Placed(pr, f)[q]]
       /\ \A q \in Members : /\ IsProc(Placed(pr, f)[q])
                             /\ Placed(pr, f)[q].xid = pr[q].xid
                             /\ Placed(pr, f)[q].xmin = pr[q].xmin
       /\ \A k \in DOMAIN f : Placed(pr, f)[f[k]].pgxactoff = k
       /\ \A q \in Members : (\A k \in DOMAIN f : f[k] # q) => Placed(pr, f)[q] = pr[q]
  BY <1>5, <1>12, <1>14, PlacedFields
<1>17. i \in 1 .. n + 1 /\ \A k \in 1 .. n : (k < i /\ k \in 1 .. n + 1) \/ (k >= i /\ k + 1 \in 1 .. n + 1)
  BY <1>2, <1>3
<1>18. ASSUME NEW q \in Members PROVE Listed(q)' <=> Listed(q) \/ q = m
  <2>1. Listed(q)' <=> \E k \in 1 .. n + 1 : f[k] = q
    BY <1>4, <1>8 DEF Listed
  <2>2. Listed(q) <=> \E k \in 1 .. n : pgprocnos[k] = q
    BY <1>8 DEF Listed
  <2>3. Listed(q)' => Listed(q) \/ q = m
    BY <1>5, <1>9, <2>1, <2>2
  <2>4. Listed(q) \/ q = m => Listed(q)'
    BY <1>5, <1>17, <2>1, <2>2
  <2> QED BY <2>3, <2>4
<1>19. ASSUME NEW q \in Members, Listed(q) PROVE x[proc'[q].pgxactoff] = xids[proc[q].pgxactoff]
  <2>1. PICK k \in 1 .. n : pgprocnos[k] = q /\ proc[q].pgxactoff = k
    BY <1>8, <1>19 DEF Listed, Places
  <2>2. CASE k < i
    <3>1. f[k] = q /\ k \in DOMAIN f /\ x[k] = xids[k]
      BY <1>5, <1>7, <1>8, <2>1, <2>2
    <3> QED BY <1>15, <1>16, <2>1, <3>1
  <2>3. CASE k >= i
    <3>1. f[k + 1] = q /\ k + 1 \in DOMAIN f /\ x[k + 1] = xids[k]
      BY <1>5, <1>7, <1>8, <2>1, <2>3
    <3> QED BY <1>15, <1>16, <2>1, <3>1
  <2> QED BY <1>2, <2>1, <2>2, <2>3
<1>20. x[proc'[m].pgxactoff] = me.xid
  BY <1>5, <1>7, <1>8, <1>15, <1>16, <1>17
<1>21. Vals' = Vals \cup ({me.xid} \ {InvalidXid})
  <2>1. Vals' = {x[k] : k \in 1 .. n + 1} \ {InvalidXid} /\ Vals = {xids[k] : k \in 1 .. n} \ {InvalidXid}
    BY <1>6, <1>8 DEF Vals
  <2>2. \A k \in 1 .. n + 1 : x[k] = me.xid \/ \E j \in 1 .. n : x[k] = xids[j]
    BY <1>7, <1>9
  <2>3. \A j \in 1 .. n : \E k \in 1 .. n + 1 : x[k] = xids[j]
    BY <1>7, <1>17
  <2>4. \E k \in 1 .. n + 1 : x[k] = me.xid
    BY <1>7, <1>17
  <2> QED BY <2>1, <2>2, <2>3, <2>4
<1>22. /\ proc' = [q \in Members |-> proc'[q]] /\ \A q \in Members : IsProc(proc'[q])
       /\ \A k \in DOMAIN pgprocnos' : proc'[pgprocnos'[k]].pgxactoff = k
       /\ \A q \in Members \ {m} : proc'[q].xid = proc[q].xid /\ proc'[q].xmin = proc[q].xmin
       /\ proc'[m].xid = me.xid /\ proc'[m].xmin = me.xmin
  BY <1>4, <1>14, <1>15, <1>16
<1>23. pgprocnos' \in Seq(Members) /\ xids' \in Seq(Nat) /\ Len(xids') = Len(pgprocnos')
  BY <1>4, <1>5, <1>6, <1>7
<1>24. sharers = {} /\ UNCHANGED <<nextXid, latestCompletedXid, xactCompletionCount, sharers, xidGen>>
  BY DEF ProcArrayAdd, ProcArrayLockFree, transamVars
<1>25. /\ \A q \in Members : Listed(q) => xids'[proc'[q].pgxactoff] = xids[proc[q].pgxactoff]
       /\ xids'[proc'[m].pgxactoff] = me.xid
  BY <1>6, <1>19, <1>20
<1> QED BY <1>18, <1>21, <1>22, <1>23, <1>24, <1>25 DEF Joins

\* What ProcArrayRemove does.
Leaves(m) ==
  /\ pgprocnos' \in Seq(Members) /\ xids' \in Seq(Nat) /\ Len(xids') = Len(pgprocnos')
  /\ proc' = [q \in Members |-> proc'[q]] /\ \A q \in Members : IsProc(proc'[q])
  /\ \A i \in DOMAIN pgprocnos' : proc'[pgprocnos'[i]].pgxactoff = i
  /\ \A q \in Members : Listed(q)' <=> Listed(q) /\ q # m
  /\ \A q \in Members \ {m} : Listed(q) => xids'[proc'[q].pgxactoff] = xids[proc[q].pgxactoff]
  /\ \A q \in Members : proc'[q].xid = proc[q].xid /\ proc'[q].xmin = proc[q].xmin
  /\ Vals' \subseteq Vals /\ Vals \subseteq Vals' \cup {xids[proc[m].pgxactoff]}
  /\ sharers = {} /\ UNCHANGED <<sharers, xidGen>>

\* ProcArrayRemove takes the member's place away and leaves the other places as they were.
LEMMA RemoveLeaves ==
  ASSUME Typed, Places, NEW m \in Members, Listed(m), NEW latest, ProcArrayRemove(m, latest)
  PROVE  Leaves(m)
<1>1. PICK i : i = proc[m].pgxactoff
  OBVIOUS
<1>2. /\ i \in 1 .. Len(pgprocnos) /\ pgprocnos[i] = m
      /\ pgprocnos \in Seq(Members) /\ xids \in Seq(Nat) /\ Len(xids) = Len(pgprocnos)
  BY <1>1, PlacesApart DEF Typed
<1>3. PICK n \in Nat : n = Len(pgprocnos)
  BY <1>2
<1>4. PICK f : f = pgprocnos'
  OBVIOUS
<1>5. /\ f \in Seq(Members) /\ Len(f) = n - 1
      /\ \A k \in 1 .. n - 1 : k < i => f[k] = pgprocnos[k]
      /\ \A k \in 1 .. n - 1 : k >= i => f[k] = pgprocnos[k + 1]
  <2>1. f = RemoveAt(pgprocnos, i)
    BY <1>1, <1>4 DEF ProcArrayRemove
  <2>2. IsRemoved(Members, f, pgprocnos, i)
    BY <1>2, <2>1, Removed
  <2> QED BY <1>3, <2>2 DEF IsRemoved
<1>6. PICK x : x = xids'
  OBVIOUS
<1>7. /\ x \in Seq(Nat) /\ Len(x) = n - 1
      /\ \A k \in 1 .. n - 1 : k < i => x[k] = xids[k]
      /\ \A k \in 1 .. n - 1 : k >= i => x[k] = xids[k + 1]
  <2>1. x = RemoveAt(xids, i)
    BY <1>1, <1>6 DEF ProcArrayRemove
  <2>2. xids \in Seq(Nat) /\ i \in 1 .. Len(xids)
    BY <1>2
  <2>3. IsRemoved(Nat, x, xids, i)
    BY <2>1, <2>2, Removed
  <2> QED BY <1>2, <1>3, <2>3 DEF IsRemoved
<1>8. DOMAIN f = 1 .. n - 1 /\ DOMAIN x = 1 .. n - 1 /\ DOMAIN pgprocnos = 1 .. n /\ DOMAIN xids = 1 .. n
  BY <1>2, <1>3, <1>5, <1>7
<1>9. \A k, j \in 1 .. n : pgprocnos[k] = pgprocnos[j] => k = j
  BY <1>8, PlacesApart
\* Where the entry of a new place was.
<1>10. PICK was : was = [k \in 1 .. n - 1 |-> IF k < i THEN k ELSE k + 1]
  OBVIOUS
<1>11. ASSUME NEW k \in 1 .. n - 1
       PROVE  was[k] \in 1 .. n /\ was[k] # i /\ f[k] = pgprocnos[was[k]] /\ x[k] = xids[was[k]]
  <2>1. CASE k < i
    BY <1>3, <1>5, <1>7, <1>10, <2>1
  <2>2. CASE k >= i
    BY <1>3, <1>5, <1>7, <1>10, <2>2
  <2> QED BY <1>2, <2>1, <2>2
<1>12. ASSUME NEW k \in 1 .. n, k # i PROVE \E j \in 1 .. n - 1 : was[j] = k
  <2>1. CASE k < i
    <3>1. k \in 1 .. n - 1 /\ was[k] = k
      BY <1>2, <1>3, <1>10, <2>1
    <3> QED BY <3>1
  <2>2. CASE k > i
    <3>1. k - 1 \in 1 .. n - 1 /\ was[k - 1] = k
      BY <1>2, <1>3, <1>10, <2>2
    <3> QED BY <3>1
  <2> QED BY <1>2, <1>12, <2>1, <2>2
<1>13. \A k, j \in 1 .. n - 1 : was[k] = was[j] => k = j
  BY <1>2, <1>3, <1>10
<1>14. ASSUME NEW k \in DOMAIN f, NEW j \in DOMAIN f, f[k] = f[j] PROVE k = j
  <2>1. k \in 1 .. n - 1 /\ was[k] \in 1 .. n /\ f[k] = pgprocnos[was[k]]
    BY <1>8, <1>11
  <2>2. j \in 1 .. n - 1 /\ was[j] \in 1 .. n /\ f[j] = pgprocnos[was[j]]
    BY <1>8, <1>11
  <2>3. was[k] = was[j]
    BY <1>9, <1>14, <2>1, <2>2
  <2> QED BY <1>13, <2>1, <2>2, <2>3
<1>15. proc' = Placed(proc, f)
  BY <1>4 DEF ProcArrayRemove
<1>16. /\ Placed(proc, f) = [q \in Members |-> Placed(proc, f)[q]]
       /\ \A q \in Members : /\ IsProc(Placed(proc, f)[q])
                             /\ Placed(proc, f)[q].xid = proc[q].xid
                             /\ Placed(proc, f)[q].xmin = proc[q].xmin
       /\ \A k \in DOMAIN f : Placed(proc, f)[f[k]].pgxactoff = k
       /\ \A q \in Members : (\A k \in DOMAIN f : f[k] # q) => Placed(proc, f)[q] = proc[q]
  <2>1. proc = [q \in Members |-> proc[q]] /\ \A q \in Members : IsProc(proc[q])
    BY DEF Typed
  <2> QED BY <1>5, <1>14, <2>1, PlacedFields
<1>17. ASSUME NEW q \in Members PROVE Listed(q)' <=> Listed(q) /\ q # m
  <2>1. Listed(q)' <=> \E k \in 1 .. n - 1 : f[k] = q
    BY <1>4, <1>8 DEF Listed
  <2>2. Listed(q) <=> \E k \in 1 .. n : pgprocnos[k] = q
    BY <1>8 DEF Listed
  <2>3. ASSUME Listed(q)' PROVE Listed(q) /\ q # m
    <3>1. PICK k \in 1 .. n - 1 : f[k] = q
      BY <2>1, <2>3
    <3>2. was[k] \in 1 .. n /\ was[k] # i /\ pgprocnos[was[k]] = q
      BY <1>11, <3>1
    <3> QED BY <1>2, <1>3, <1>9, <2>2, <3>2
  <2>4. ASSUME Listed(q), q # m PROVE Listed(q)'
    <3>1. PICK k \in 1 .. n : pgprocnos[k] = q
      BY <2>2, <2>4
    <3>2. PICK j \in 1 .. n - 1 : was[j] = k
      BY <1>2, <1>12, <2>4, <3>1
    <3> QED BY <1>11, <2>1, <3>1, <3>2
  <2> QED BY <2>3, <2>4
<1>18. ASSUME NEW q \in Members \ {m}, Listed(q) PROVE x[proc'[q].pgxactoff] = xids[proc[q].pgxactoff]
  <2>1. PICK k \in 1 .. n : pgprocnos[k] = q /\ proc[q].pgxactoff = k
    BY <1>8, <1>18 DEF Listed, Places
  <2>2. PICK j \in 1 .. n - 1 : was[j] = k
    BY <1>2, <1>12, <2>1
  <2>3. j \in DOMAIN f /\ f[j] = q /\ x[j] = xids[k]
    BY <1>8, <1>11, <2>1, <2>2
  <2>4. proc'[f[j]].pgxactoff = j
    BY <1>15, <1>16, <2>3
  <2> QED BY <2>1, <2>3, <2>4
<1>19. Vals' \subseteq Vals /\ Vals \subseteq Vals' \cup {xids[i]}
  <2>1. Vals' = {x[k] : k \in 1 .. n - 1} \ {InvalidXid} /\ Vals = {xids[k] : k \in 1 .. n} \ {InvalidXid}
    BY <1>6, <1>8 DEF Vals
  <2>2. \A k \in 1 .. n - 1 : \E j \in 1 .. n : x[k] = xids[j]
    BY <1>11
  <2>3. \A k \in 1 .. n : k = i \/ \E j \in 1 .. n - 1 : x[j] = xids[k]
    BY <1>11, <1>12
  <2> QED BY <2>1, <2>2, <2>3
<1>20. /\ proc' = [q \in Members |-> proc'[q]] /\ \A q \in Members : IsProc(proc'[q])
       /\ \A k \in DOMAIN pgprocnos' : proc'[pgprocnos'[k]].pgxactoff = k
       /\ \A q \in Members : proc'[q].xid = proc[q].xid /\ proc'[q].xmin = proc[q].xmin
  BY <1>4, <1>15, <1>16
<1>21. pgprocnos' \in Seq(Members) /\ xids' \in Seq(Nat) /\ Len(xids') = Len(pgprocnos')
  BY <1>4, <1>5, <1>6, <1>7
<1>22. sharers = {} /\ UNCHANGED <<sharers, xidGen>>
  BY DEF ProcArrayRemove, ProcArrayLockFree
<1>23. /\ \A q \in Members \ {m} : Listed(q) => xids'[proc'[q].pgxactoff] = xids[proc[q].pgxactoff]
       /\ Vals' \subseteq Vals /\ Vals \subseteq Vals' \cup {xids[proc[m].pgxactoff]}
  BY <1>1, <1>6, <1>18, <1>19
<1> QED BY <1>17, <1>20, <1>21, <1>22, <1>23 DEF Leaves

(***************************************************************************)
(* One session's step.                                                     *)
(***************************************************************************)

\* What a step of session p leaves of the other sessions.
Rest(p) ==
  /\ Bound <= Bound'
  /\ \A q \in Sessions \ {p} :
       /\ pc'[q] = pc[q] /\ call'[q] = call[q] /\ xact'[q] = xact[q]
       /\ Listed(q)' <=> Listed(q)
       /\ Listed(q) => xids'[proc'[q].pgxactoff] = xids[proc[q].pgxactoff]
       /\ proc'[q].xid = proc[q].xid
       /\ q \in sharers => q \in sharers'
       /\ pc[q] \in Working => gxact'[call[q].gxact] = gxact[call[q].gxact]
       /\ pc[q] = "prepare_add" => proc'[call[q].gxact].xid = proc[call[q].gxact].xid
       /\ pc[q] \in {"xid_publish", "xid_release"} => xidGen' = xidGen /\ nextXid' = nextXid

\* A level of a transaction has an xid, perhaps 0, and children.
LEMMA LevelFields ==
  ASSUME Typed, NEW q \in Sessions, NEW i \in DOMAIN xact[q]
  PROVE  xact[q][i] \in Levels /\ xact[q][i].xid \in Nat /\ xact[q][i].children \in SUBSET Nat
<1>1. xact[q] \in Seq(Levels)
  BY DEF Typed
<1>2. xact[q][i] \in Levels
  BY <1>1
<1> QED BY <1>2 DEF Levels

\* The other sessions are as they were.
LEMMA OthersKept ==
  ASSUME ArrayInv, Typed', NEW p \in Sessions, Rest(p), NEW q \in Sessions \ {p}
  PROVE  Session(q)'
<1>1. /\ pc'[q] = pc[q] /\ call'[q] = call[q] /\ xact'[q] = xact[q]
      /\ Listed(q)' <=> Listed(q)
      /\ Listed(q) => xids'[proc'[q].pgxactoff] = xids[proc[q].pgxactoff]
      /\ proc'[q].xid = proc[q].xid
      /\ q \in sharers => q \in sharers'
      /\ pc[q] \in Working => gxact'[call[q].gxact] = gxact[call[q].gxact]
      /\ pc[q] = "prepare_add" => proc'[call[q].gxact].xid = proc[call[q].gxact].xid
      /\ pc[q] \in {"xid_publish", "xid_release"} => xidGen' = xidGen /\ nextXid' = nextXid
  BY DEF Rest
<1>2. Session(q) /\ Typed
  BY DEF ArrayInv
<1>3. Works(q)'
  BY <1>1, <1>2 DEF Session, Works, Working
<1>4. Handed(q)'
  BY <1>1, <1>2 DEF Session, Handed, Unassigned
<1>5. XidsBelow(q)'
  <2>1. Bound \in Int /\ Bound' \in Int /\ Bound <= Bound'
    BY <1>2 DEF Rest, Bound, Typed
  <2>2. ASSUME NEW i \in DOMAIN xact[q]
        PROVE  xact[q][i].xid < Bound' /\ \A x \in xact[q][i].children : x < Bound'
    <3>1. xact[q][i].xid \in Nat /\ xact[q][i].children \in SUBSET Nat
      BY <1>2, LevelFields
    <3>2. xact[q][i].xid < Bound /\ \A x \in xact[q][i].children : x < Bound
      BY <1>2 DEF Session, XidsBelow
    <3> QED BY <2>1, <3>1, <3>2
  <2> QED BY <1>1, <2>2 DEF XidsBelow
<1>6. TopListed(q)'
  BY <1>1, <1>2 DEF Session, TopListed, TopXid
<1>7. Nested(q)'
  BY <1>1, <1>2 DEF Session, Nested
<1>8. (Listed(q) <=> pc[q] # "out")' /\ (pc[q] \in Sharing => q \in sharers)'
  BY <1>1, <1>2 DEF Session
<1> QED BY <1>3, <1>4, <1>5, <1>6, <1>7, <1>8 DEF Session

\* The invariant holds after a step that leaves the others alone, when it holds of the rest.
LEMMA StepKeeps ==
  ASSUME ArrayInv, NEW p \in Sessions, Rest(p),
         Typed', Places', (0 < Bound /\ latestCompletedXid < Bound)', Prepd', Session(p)'
  PROVE  ArrayInv'
<1>1. \A q \in Sessions : Session(q)'
  BY OthersKept
<1> QED BY <1>1 DEF ArrayInv

\* What concerns session p alone, after a step of its own.
Own1(p) ==
  /\ proc' = [m \in Members |-> proc'[m]] /\ \A m \in Members : IsProc(proc'[m])
  /\ call' = [q \in Sessions |-> call'[q]] /\ IsCall(call'[p])
  /\ vis' = [q \in Sessions |-> vis'[q]] /\ IsVis(vis'[p])
  /\ snap' = [q \in Sessions |-> snap'[q]] /\ IsSnaps(snap'[p])
  /\ pc' = [q \in Sessions |-> pc'[q]] /\ xact' \in [Sessions -> Seq(Levels)]
  /\ gxact' \in [Dummies -> GXacts]
  /\ \A q \in Sessions \ {p} :
       /\ pc'[q] = pc[q] /\ call'[q] = call[q] /\ vis'[q] = vis[q] /\ snap'[q] = snap[q]
       /\ xact'[q] = xact[q] /\ proc'[q].xid = proc[q].xid /\ proc'[q].xmin = proc[q].xmin

\* The types, then.
LEMMA OwnTyped ==
  ASSUME Typed, NEW p \in Sessions, Own1(p),
         nextXid' \in Nat \ {0}, latestCompletedXid' \in Nat, xactCompletionCount' \in Nat \ {0},
         xidGen' \in Nat,
         pgprocnos' \in Seq(Members), xids' \in Seq(Nat), Len(xids') = Len(pgprocnos')
  PROVE  Typed'
<1>1. ASSUME NEW q \in Sessions PROVE IsCall(call'[q]) /\ IsVis(vis'[q]) /\ IsSnaps(snap'[q])
  <2>1. CASE q = p
    BY <2>1 DEF Own1
  <2>2. CASE q # p
    <3>1. call'[q] = call[q] /\ vis'[q] = vis[q] /\ snap'[q] = snap[q]
      BY <2>2 DEF Own1
    <3>2. IsCall(call[q]) /\ IsVis(vis[q]) /\ IsSnaps(snap[q])
      BY DEF Typed
    <3> QED BY <3>1, <3>2
  <2> QED BY <2>1, <2>2
<1>2. /\ proc' = [m \in Members |-> proc'[m]] /\ \A m \in Members : IsProc(proc'[m])
      /\ call' = [q \in Sessions |-> call'[q]]
      /\ vis' = [q \in Sessions |-> vis'[q]]
      /\ snap' = [q \in Sessions |-> snap'[q]]
      /\ pc' = [q \in Sessions |-> pc'[q]] /\ xact' \in [Sessions -> Seq(Levels)]
      /\ gxact' \in [Dummies -> GXacts]
  BY DEF Own1
<1>3. Typed'
  BY <1>1, <1>2 DEF Typed
<1> QED BY <1>3

\* A step of session p that leaves the array and the xids alone.
Calm(p) ==
  /\ UNCHANGED <<nextXid, latestCompletedXid, xactCompletionCount, pgprocnos, xids, xidGen>>
  /\ Own1(p)
  /\ \A m \in Members : proc'[m].xid = proc[m].xid /\ proc'[m].pgxactoff = proc[m].pgxactoff
  /\ \A q \in Sessions \ {p} :
       /\ q \in sharers => q \in sharers'
       /\ pc[q] \in Working => gxact'[call[q].gxact] = gxact[call[q].gxact]

\* Its invariant, in parts.
LEMMA CalmKeeps ==
  ASSUME ArrayInv, NEW p \in Sessions, Calm(p), Prepd', Session(p)'
  PROVE  ArrayInv'
<1>1. Typed /\ Places /\ 0 < Bound /\ latestCompletedXid < Bound /\ \A q \in Sessions : Session(q)
  BY DEF ArrayInv
<1>2. /\ nextXid' = nextXid /\ latestCompletedXid' = latestCompletedXid
      /\ xactCompletionCount' = xactCompletionCount /\ pgprocnos' = pgprocnos /\ xids' = xids
      /\ xidGen' = xidGen
  BY DEF Calm
<1>3. Typed'
  <2>1. /\ nextXid' \in Nat \ {0} /\ latestCompletedXid' \in Nat /\ xactCompletionCount' \in Nat \ {0}
        /\ xidGen' \in Nat
        /\ pgprocnos' \in Seq(Members) /\ xids' \in Seq(Nat) /\ Len(xids') = Len(pgprocnos')
    BY <1>1, <1>2 DEF Typed
  <2>2. Own1(p)
    BY DEF Calm
  <2> QED BY <1>1, <2>1, <2>2, OwnTyped
<1>4. Bound' = Bound /\ (\A m : Listed(m)' <=> Listed(m)) /\ Bound \in Int
  BY <1>1, <1>2 DEF Bound, Listed, Typed
<1>5. Places'
  <2>1. \A i \in DOMAIN pgprocnos : pgprocnos[i] \in Members
    BY <1>1 DEF Typed
  <2>2. \A m \in Members : proc'[m].pgxactoff = proc[m].pgxactoff
    BY DEF Calm
  <2> QED BY <1>1, <1>2, <2>1, <2>2 DEF Places
<1>6. Rest(p)
  <2>1. ASSUME NEW q \in Sessions \ {p}
        PROVE /\ proc'[q].xid = proc[q].xid /\ proc'[q].pgxactoff = proc[q].pgxactoff
              /\ pc[q] = "prepare_add" => proc'[call[q].gxact].xid = proc[call[q].gxact].xid
              /\ pc'[q] = pc[q] /\ call'[q] = call[q] /\ xact'[q] = xact[q]
              /\ (q \in sharers => q \in sharers')
              /\ pc[q] \in Working => gxact'[call[q].gxact] = gxact[call[q].gxact]
    <3>1. pc[q] = "prepare_add" => call[q].gxact \in Members
      BY <1>1 DEF Session, Works, Working, Members
    <3>2. q \in Members
      BY DEF Members
    <3> QED BY <3>1, <3>2 DEF Calm, Own1
  <2> QED BY <1>2, <1>4, <2>1 DEF Rest
<1>7. (0 < Bound /\ latestCompletedXid < Bound)'
  BY <1>1, <1>2, <1>4
<1> QED BY <1>3, <1>5, <1>6, <1>7, StepKeeps

\* A step that leaves the transactions alone, too.
Quiet(p) == Calm(p) /\ UNCHANGED <<xact, gxact>>

\* Where such a step may go.
Moves(p, from, to) ==
  /\ from \notin {"out", "xid_release"}
  /\ to \notin {"out", "idle", "xid_publish", "xid_release", "prepare_add", "prepare_clear",
                "prepare_done", "finish_read", "finish_done"}
  /\ to \in {"finish_record", "finish_remove"} =>
        from \in {"finish_read", "finish_record"} /\ call'[p].gxact = call[p].gxact
  /\ to = "xid_lock" => Unassigned(p) # {}
  /\ to \in {"sub_record", "sub_remove"} => Len(xact[p]) > 1
  /\ to \in {"record", "end"} => Len(xact[p]) = 1
  /\ to \in Sharing => p \in sharers'

\* It keeps the invariant.
LEMMA QuietKeeps ==
  ASSUME ArrayInv, NEW p \in Sessions, Quiet(p), Moves(p, pc[p], pc'[p])
  PROVE  ArrayInv'
<1>1. Typed /\ Prepd /\ Session(p)
  BY DEF ArrayInv
<1>3. /\ Bound' = Bound /\ \A m : Listed(m)' <=> Listed(m)
      /\ gxact' = gxact /\ nextXid' = nextXid /\ xidGen' = xidGen /\ xact' = xact /\ xids' = xids
  BY DEF Quiet, Calm, Bound, Listed
<1>5. Prepd'
  BY <1>1, <1>3 DEF Prepd
<1>9. Session(p)'
  <2>1. p \in Members
    BY DEF Members
  <2>2. proc'[p].xid = proc[p].xid /\ proc'[p].pgxactoff = proc[p].pgxactoff
    BY <2>1 DEF Quiet, Calm
  <2>3. Works(p)'
    BY <1>1, <1>3 DEF Moves, Session, Works, Working
  <2>4. Handed(p)'
    BY <1>3 DEF Moves, Handed, Unassigned
  <2>5. XidsBelow(p)'
    BY <1>1, <1>3 DEF Session, XidsBelow
  <2>6. TopListed(p)'
    BY <1>1, <1>3, <2>2 DEF Moves, Session, TopListed, TopXid
  <2>7. Nested(p)'
    BY <1>1, <1>3 DEF Moves, Session, Nested
  <2>8. (Listed(p) <=> pc[p] # "out")' /\ (pc[p] \in Sharing => p \in sharers)'
    BY <1>1, <1>3 DEF Moves, Session
  <2> QED BY <2>3, <2>4, <2>5, <2>6, <2>7, <2>8 DEF Session
<1> QED BY <1>5, <1>9, CalmKeeps DEF Quiet

(***************************************************************************)
(* The snapshots after a step.                                             *)
(***************************************************************************)

\* A step of session p completes xids in order, keeps those it does not complete, and leaves the
\* array alone but for newly published xids while somebody scans it.
Frame(p) ==
  /\ latestCompletedXid <= latestCompletedXid' /\ xactCompletionCount <= xactCompletionCount'
  /\ \A v \in Vals' : v \in Vals \/ v > latestCompletedXid
  /\ xactCompletionCount' = xactCompletionCount =>
        latestCompletedXid' = latestCompletedXid /\ Vals \subseteq Vals'
  /\ \A q \in Sessions \ {p} :
       /\ pc'[q] = pc[q] /\ call'[q] = call[q] /\ vis'[q] = vis[q] /\ snap'[q] = snap[q]
       /\ proc'[q].xmin = proc[q].xmin
  /\ sharers # {} =>
       /\ latestCompletedXid' = latestCompletedXid /\ xactCompletionCount' = xactCompletionCount
       /\ DOMAIN xids' = DOMAIN xids
       /\ \A q \in Sessions : proc'[q].pgxactoff = proc[q].pgxactoff
       /\ \A i \in DOMAIN xids :
             xids'[i] = xids[i] \/ (xids[i] = InvalidXid /\ xids'[i] > latestCompletedXid)

\* What was old enough stays old enough.
LEMMA BelowKept ==
  ASSUME Typed, Typed', NEW p \in Sessions, Frame(p), NEW m \in Nat, Below(m)
  PROVE  Below(m)'
<1>0. xids \in Seq(Nat) /\ xids' \in Seq(Nat)
  BY DEF Typed
<1>1. Vals \subseteq Nat /\ Vals' \subseteq Nat
  BY <1>0 DEF Vals
<1>a. latestCompletedXid \in Nat /\ latestCompletedXid' \in Nat /\ latestCompletedXid <= latestCompletedXid'
  BY DEF Typed, Frame
<1>2. m <= latestCompletedXid + 1 /\ \A v \in Vals : m <= v
  BY DEF Below
<1>3. latestCompletedXid <= latestCompletedXid' /\ \A v \in Vals' : v \in Vals \/ v > latestCompletedXid
  BY DEF Frame
<1>b. m <= latestCompletedXid + 1
  BY <1>2
<1>4. m <= latestCompletedXid' + 1
  <2>1. PICK a \in Nat : a = latestCompletedXid
    BY <1>a
  <2>2. PICK b \in Nat : b = latestCompletedXid'
    BY <1>a
  <2>3. m <= a + 1 /\ a <= b
    BY <1>a, <1>b, <2>1, <2>2
  <2>4. m <= b + 1
    BY <2>3
  <2> QED BY <2>2, <2>4
<1>5. \A v \in Vals' : m <= v
  BY <1>1, <1>a, <1>2, <1>3
<1> QED BY <1>4, <1>5 DEF Below

\* A snapshot that was built stays good.
LEMMA BuiltKept ==
  ASSUME Typed, Typed', NEW p \in Sessions, Frame(p), NEW s, IsSnap(s), Built(s)
  PROVE  Built(s)'
<1>1. s.xmin \in Nat /\ s.snapXactCompletionCount \in Nat
  BY DEF IsSnap
<1>2. Below(s.xmin)'
  BY <1>1, BelowKept DEF Built
<1>3. /\ xactCompletionCount \in Nat /\ xactCompletionCount' \in Nat
      /\ xactCompletionCount <= xactCompletionCount'
  BY DEF Typed, Frame
<1>4. s.snapXactCompletionCount \in 1 .. xactCompletionCount'
  BY <1>1, <1>3 DEF Built
<1>5. ASSUME s.snapXactCompletionCount = xactCompletionCount' PROVE Recent(s.xmin)'
  <2>1. xactCompletionCount' = xactCompletionCount
    BY <1>1, <1>3, <1>5 DEF Built
  <2>2. Recent(s.xmin)
    BY <1>5, <2>1 DEF Built
  <2> QED BY <2>1, <2>2 DEF Recent, Frame
<1> QED BY <1>2, <1>4, <1>5 DEF Built

\* A recent xmin is at least what is old enough.
LEMMA RecentAbove ==
  ASSUME NEW m \in Nat, Below(m), NEW x, Recent(x)
  PROVE  m <= x
  BY DEF Below, Recent

\* The snapshots of a session are well formed.
LEMMA LiveSnaps ==
  ASSUME Typed, NEW q \in Sessions, NEW s \in Live(q)
  PROVE  IsSnap(s) /\ s.xmin \in Nat
<1>1. IsSnaps(snap[q]) /\ IsCall(call[q])
  BY DEF Typed
<1>2. CASE \E i \in DOMAIN snap[q].active : s = snap[q].active[i].snap
  BY <1>1, <1>2 DEF IsSnaps, IsHeld, IsSnap, Entries
<1>3. CASE \E h \in snap[q].registered : s = h.snap
  BY <1>1, <1>3 DEF IsSnaps, IsHeld, IsSnap
<1>4. CASE s = call[q].snap
  BY <1>1, <1>4 DEF IsCall, IsSnap
<1> QED BY <1>2, <1>3, <1>4 DEF Live

\* The others' snapshots stay good, those in the making included.
LEMMA OthersSnaps ==
  ASSUME ArrayInv, Typed', SnapInv, NEW p \in Sessions, Frame(p), NEW q \in Sessions \ {p}
  PROVE  Snaps(q)' /\ Live(q)' = Live(q)
<1>1. Typed /\ Session(q) /\ Snaps(q)
  BY DEF ArrayInv, SnapInv
<1>2. /\ pc'[q] = pc[q] /\ call'[q] = call[q] /\ vis'[q] = vis[q] /\ snap'[q] = snap[q]
      /\ proc'[q].xmin = proc[q].xmin
  BY DEF Frame
<1>3. Live(q)' = Live(q)
  BY <1>2 DEF Live
<1>4. IsSnap(call[q].snap) /\ IsSnaps(snap[q]) /\ IsProc(proc[q]) /\ IsVis(vis[q])
  BY <1>1 DEF Typed, IsCall, Members
<1>5. PICK c : c = call[q]
  OBVIOUS
<1>6. Built(c.snap) => Built(c.snap)'
  BY <1>1, <1>4, <1>5, BuiltKept
<1>7. \A w \in Structs : snap'[q].static[w] = NoSnapshot \/ Built(snap[q].static[w])'
  <2>1. ASSUME NEW w \in Structs PROVE snap'[q].static[w] = NoSnapshot \/ Built(snap[q].static[w])'
    <3>1. PICK s : s = snap[q].static[w]
      OBVIOUS
    <3>2. IsSnap(s) /\ (s = NoSnapshot \/ Built(s))
      BY <1>1, <1>4, <3>1 DEF Snaps, IsSnaps
    <3>3. s = NoSnapshot \/ Built(s)'
      BY <1>1, <3>2, BuiltKept
    <3> QED BY <1>2, <3>1, <3>3
  <2> QED BY <2>1
<1>8. \A s \in Live(q)' : Built(s)' /\ proc'[q].xmin # InvalidXid /\ proc'[q].xmin <= s.xmin
  <2>1. ASSUME NEW s \in Live(q)
        PROVE  Built(s)' /\ proc'[q].xmin # InvalidXid /\ proc'[q].xmin <= s.xmin
    <3>1. IsSnap(s) /\ Built(s) /\ proc[q].xmin # InvalidXid /\ proc[q].xmin <= s.xmin
      BY <1>1, LiveSnaps DEF Snaps
    <3>2. Built(s)'
      BY <1>1, <3>1, BuiltKept
    <3> QED BY <1>2, <3>1, <3>2
  <2> QED BY <1>3, <2>1
<1>9. Below(proc[q].xmin)' /\ Below(vis[q].maybeNeeded)'
  <2>1. PICK m \in Nat : m = proc[q].xmin
    BY <1>4 DEF IsProc
  <2>2. PICK n \in Nat : n = vis[q].maybeNeeded
    BY <1>4 DEF IsVis
  <2>3. Below(m) /\ Below(n)
    BY <1>1, <2>1, <2>2 DEF Snaps
  <2>4. Below(m)' /\ Below(n)'
    BY <1>1, <2>3, BelowKept
  <2> QED BY <1>2, <2>1, <2>2, <2>4
<1>10. (/\ pc[q] = "reuse" => call[q].snap = NoSnapshot \/ Built(call[q].snap)
        /\ pc[q] \in {"publish", "verify", "retract", "taken"} => Built(call[q].snap))'
  BY <1>1, <1>2, <1>5, <1>6 DEF Snaps
<1>11. (/\ pc[q] = "verify" /\ call[q].published => proc[q].xmin = call[q].snap.xmin
        /\ pc[q] \in {"verify", "retract"} => proc[q].xmin # InvalidXid
        /\ (pc[q] = "retract" \/ (pc[q] = "verify" /\ call[q].published)) => Live(q) = {}
        /\ pc[q] \in {"idle", "out"} => Live(q) = {})'
  BY <1>1, <1>2, <1>3 DEF Snaps
<1>12. ASSUME pc[q] \in Sharing
       PROVE  /\ latestCompletedXid' = latestCompletedXid /\ xactCompletionCount' = xactCompletionCount
              /\ DOMAIN xids' = DOMAIN xids /\ proc'[q].pgxactoff = proc[q].pgxactoff
              /\ Vals \subseteq Vals'
              /\ \A i \in DOMAIN xids :
                    xids'[i] = xids[i] \/ (xids[i] = InvalidXid /\ xids'[i] > latestCompletedXid)
  BY <1>1, <1>12 DEF Frame, Session
<1>13. ASSUME NEW n, Building(q, n), pc[q] \in Sharing PROVE Building(q, n)'
  <2>1. PICK s : s = call[q].snap
    OBVIOUS
  <2>2. /\ call[q].at # 0 /\ s.snapXactCompletionCount = xactCompletionCount
        /\ s.xmax = latestCompletedXid + 1 /\ s.xmin <= s.xmax /\ s.xmin # InvalidXid /\ Recent(s.xmin)
        /\ \A i \in DOMAIN xids :
              (i < n \/ i = proc[q].pgxactoff) /\ xids[i] # InvalidXid => s.xmin <= xids[i]
    BY <1>13, <2>1 DEF Building
  <2>3. s.xmin \in Nat /\ latestCompletedXid \in Nat /\ \A i \in DOMAIN xids' : xids'[i] \in Nat
    <3>1. s.xmin \in Nat
      BY <1>4, <2>1 DEF IsSnap
    <3>2. latestCompletedXid \in Nat /\ xids' \in Seq(Nat)
      BY <1>1 DEF Typed
    <3> QED BY <3>1, <3>2
  <2>4. Recent(s.xmin)'
    BY <1>12, <1>13, <2>2 DEF Recent
  <2>5. ASSUME NEW i \in DOMAIN xids', i < n \/ i = proc'[q].pgxactoff, xids'[i] # InvalidXid
        PROVE  s.xmin <= xids'[i]
    <3>1. CASE xids'[i] = xids[i]
      BY <1>12, <1>13, <2>2, <2>5, <3>1
    <3>2. CASE xids'[i] > latestCompletedXid
      BY <2>2, <2>3, <3>2
    <3> QED BY <1>12, <1>13, <3>1, <3>2
  <2>6. s.snapXactCompletionCount = xactCompletionCount' /\ s.xmax = latestCompletedXid' + 1
    BY <1>12, <1>13, <2>2
  <2> QED BY <1>2, <2>1, <2>2, <2>4, <2>5, <2>6 DEF Building
<1>14. (pc[q] = "scan" => Building(q, call[q].at))'
  <2>1. PICK n : n = call[q].at
    OBVIOUS
  <2>2. pc[q] = "scan" => Building(q, n)'
    BY <1>1, <1>13, <2>1 DEF Snaps, Sharing
  <2> QED BY <1>2, <2>1, <2>2
<1>15. (pc[q] = "scan_subxids" => Building(q, call[q].at + 1))'
  <2>1. PICK n : n = call[q].at + 1
    OBVIOUS
  <2>2. pc[q] = "scan_subxids" => Building(q, n)'
    BY <1>1, <1>13, <2>1 DEF Snaps, Sharing
  <2> QED BY <1>2, <2>1, <2>2
<1>16. (pc[q] = "snapshot_unlock" =>
          Built(call[q].snap) /\ call[q].snap.snapXactCompletionCount = xactCompletionCount
          /\ proc[q].xmin # InvalidXid /\ proc[q].xmin <= call[q].snap.xmin)'
  BY <1>1, <1>2, <1>5, <1>6, <1>12 DEF Snaps, Sharing
<1>17. (\A w \in Structs : snap[q].static[w] = NoSnapshot \/ Built(snap[q].static[w]))'
  BY <1>2, <1>7
<1>18. Snaps(q)'
  BY <1>8, <1>9, <1>10, <1>11, <1>14, <1>15, <1>16, <1>17 DEF Snaps
<1> QED BY <1>3, <1>18

\* What a step of session p owes for its own snapshots and horizons.
OwnOK(p) ==
  /\ Snaps(p)'
  /\ \A s \in Live(p)' : s \in Live(p) \/ Recent(s.xmin)'
  /\ \/ vis'[p].maybeNeeded = vis[p].maybeNeeded
     \/ \A q \in Sessions : \A s \in Live(q)' : vis'[p].maybeNeeded <= s.xmin
  /\ pc'[p] = "horizon_scan" => Scanned(p)'

\* Then no snapshot in use is behind a horizon.
LEMMA SnapStep ==
  ASSUME ArrayInv, ArrayInv', SnapInv, NEW p \in Sessions, Frame(p), OwnOK(p)
  PROVE  SnapInv'
<1>1. Typed /\ Typed'
  BY DEF ArrayInv
<1>2. \A q \in Sessions \ {p} : Snaps(q)' /\ Live(q)' = Live(q)
  BY <1>1, OthersSnaps
<1>3. \A q \in Sessions : Snaps(q)'
  BY <1>2 DEF OwnOK
<1>4. \A q \in Sessions \ {p} : pc'[q] = pc[q] /\ call'[q] = call[q] /\ vis'[q] = vis[q]
  BY DEF Frame
<1>5. ASSUME NEW q \in Sessions, pc'[q] = "horizon_scan" PROVE Scanned(q)'
  <2>1. CASE q = p
    BY <1>5, <2>1 DEF OwnOK
  <2>2. CASE q # p
    <3>1. pc[q] = "horizon_scan" /\ call'[q] = call[q] /\ Session(q)
      BY <1>4, <1>5, <2>2 DEF ArrayInv
    <3>2. PICK h, n : h = call[q].xid /\ n = call[q].at
      OBVIOUS
    <3>3. n # 0 /\ h \in Nat /\ h # InvalidXid /\ h <= latestCompletedXid + 1
          /\ \A i \in DOMAIN xids : i < n /\ xids[i] # InvalidXid => h <= xids[i]
      BY <1>1, <3>1, <3>2 DEF SnapInv, Scanned, Typed, IsCall
    <3>4. /\ latestCompletedXid' = latestCompletedXid /\ xactCompletionCount' = xactCompletionCount
          /\ DOMAIN xids' = DOMAIN xids /\ \A r \in Sessions : proc'[r].pgxactoff = proc[r].pgxactoff
          /\ Vals \subseteq Vals'
          /\ \A i \in DOMAIN xids :
                xids'[i] = xids[i] \/ (xids[i] = InvalidXid /\ xids'[i] > latestCompletedXid)
      BY <3>1 DEF Frame, Session, Sharing
    <3>5. ASSUME NEW i \in DOMAIN xids', i < n, xids'[i] # InvalidXid PROVE h <= xids'[i]
      <4>1. CASE xids'[i] = xids[i]
        BY <3>3, <3>4, <3>5, <4>1
      <4>2. CASE xids'[i] > latestCompletedXid
        <5>1. xids'[i] \in Nat /\ latestCompletedXid \in Nat
          BY <1>1, SMTT(30) DEF Typed
        <5> QED BY <3>3, <4>2, <5>1
      <4> QED BY <3>4, <4>1, <4>2
    <3>6. ASSUME NEW r \in Sessions, NEW s \in Live(r)'
          PROVE  h <= s.xmin \/ proc'[r].pgxactoff >= n \/ Recent(s.xmin)'
      <4>1. CASE s \in Live(r)
        <5>1. h <= s.xmin \/ proc[r].pgxactoff >= n \/ Recent(s.xmin)
          BY <3>1, <3>2, <4>1 DEF SnapInv, Scanned
        <5>2. Recent(s.xmin) => Recent(s.xmin)'
          BY <3>4 DEF Recent
        <5> QED BY <3>4, <5>1, <5>2
      <4>2. CASE s \notin Live(r)
        BY <1>2, <4>2 DEF OwnOK
      <4> QED BY <4>1, <4>2
    <3>7. h <= latestCompletedXid' + 1
      BY <3>3, <3>4
    <3> QED BY <3>1, <3>2, <3>3, <3>5, <3>6, <3>7 DEF Scanned
  <2> QED BY <2>1, <2>2
<1>6. HorizonSafe'
  <2>1. ASSUME NEW q \in Sessions, NEW r \in Sessions, NEW s \in Live(r)'
        PROVE  vis'[q].maybeNeeded <= s.xmin
    <3>1. PICK m \in Nat : m = vis'[q].maybeNeeded
      BY <1>1 DEF Typed, IsVis
    <3>2. Below(m)'
      BY <1>3, <3>1 DEF Snaps
    <3>3. CASE m = vis[q].maybeNeeded
      <4>1. CASE s \in Live(r)
        BY <3>1, <3>3, <4>1 DEF SnapInv, HorizonSafe
      <4>2. CASE s \notin Live(r)
        <5>1. Recent(s.xmin)'
          BY <1>2, <4>2 DEF OwnOK
        <5>2. PICK x : x = s.xmin
          OBVIOUS
        <5>3. Below(m)' /\ Recent(x)'
          BY <3>2, <5>1, <5>2
        <5>4. m <= x
          BY <5>3 DEF Below, Recent
        <5> QED BY <3>1, <5>2, <5>4
      <4> QED BY <4>1, <4>2
    <3>4. CASE m # vis[q].maybeNeeded
      <4>1. q = p
        BY <1>4, <3>1, <3>4
      <4> QED BY <3>1, <3>4, <4>1 DEF OwnOK
    <3> QED BY <3>3, <3>4
  <2> QED BY <2>1 DEF HorizonSafe
<1> QED BY <1>3, <1>5, <1>6 DEF SnapInv

\* A step that takes no snapshot: session p's snapshots in use become fewer, and the xmin it
\* advertises stays, goes with the last of them, or becomes the least of theirs.
Keeps(p) ==
  /\ \A w \in Structs : snap'[p].static[w] = snap[p].static[w]
  /\ Live(p)' \subseteq Live(p)
  /\ vis'[p].maybeNeeded = vis[p].maybeNeeded
  /\ \/ proc'[p].xmin = proc[p].xmin
     \/ proc'[p].xmin = InvalidXid /\ Live(p)' = {}
     \/ \E s \in Live(p)' : proc'[p].xmin = s.xmin /\ \A t \in Live(p)' : s.xmin <= t.xmin

\* Where the snapshot in the making matters, or the horizon.
Snapping == {"reuse", "publish", "verify", "retract", "taken", "scan", "scan_subxids",
             "snapshot_unlock", "horizon_scan"}

\* The part of Snaps that does not look at the snapshot in the making.
Common(p) ==
  /\ \A w \in Structs : snap[p].static[w] = NoSnapshot \/ Built(snap[p].static[w])
  /\ \A s \in Live(p) : Built(s) /\ proc[p].xmin # InvalidXid /\ proc[p].xmin <= s.xmin
  /\ Below(proc[p].xmin) /\ Below(vis[p].maybeNeeded)

\* It holds after such a step.
LEMMA KeepsCommon ==
  ASSUME ArrayInv, Typed', SnapInv, NEW p \in Sessions, Frame(p), Keeps(p)
  PROVE  Common(p)'
<1>1. Typed /\ Snaps(p) /\ p \in Members
  BY DEF ArrayInv, SnapInv, Members
<1>2. ASSUME NEW w \in Structs PROVE (snap[p].static[w] = NoSnapshot \/ Built(snap[p].static[w]))'
  <2>1. PICK s : s = snap[p].static[w]
    OBVIOUS
  <2>2. IsSnap(s) /\ (s = NoSnapshot \/ Built(s)) /\ snap'[p].static[w] = s
    BY <1>1, <2>1 DEF Snaps, Typed, IsSnaps, Keeps
  <2>3. s = NoSnapshot \/ Built(s)'
    BY <1>1, <2>2, BuiltKept
  <2> QED BY <2>2, <2>3
<1>3. \A s \in Live(p)' : IsSnap(s) /\ s.xmin \in Nat /\ Built(s)' /\ proc[p].xmin # InvalidXid /\ proc[p].xmin <= s.xmin
  <2>1. ASSUME NEW s \in Live(p)
        PROVE  IsSnap(s) /\ s.xmin \in Nat /\ Built(s)' /\ proc[p].xmin # InvalidXid /\ proc[p].xmin <= s.xmin
    <3>1. IsSnap(s) /\ s.xmin \in Nat /\ Built(s) /\ proc[p].xmin # InvalidXid /\ proc[p].xmin <= s.xmin
      BY <1>1, LiveSnaps DEF Snaps
    <3>2. Built(s)'
      BY <1>1, <3>1, BuiltKept
    <3> QED BY <3>1, <3>2
  <2> QED BY <2>1 DEF Keeps
<1>4. Below(vis[p].maybeNeeded)'
  <2>1. PICK n \in Nat : n = vis[p].maybeNeeded
    BY <1>1 DEF Typed, IsVis
  <2>2. Below(n)'
    BY <1>1, <2>1, BelowKept DEF Snaps
  <2> QED BY <2>1, <2>2 DEF Keeps
<1>5. Below(proc[p].xmin)' /\ \A s \in Live(p)' : proc'[p].xmin # InvalidXid /\ proc'[p].xmin <= s.xmin
  <2>1. CASE proc'[p].xmin = proc[p].xmin
    <3>1. PICK m \in Nat : m = proc[p].xmin
      BY <1>1 DEF Typed, IsProc
    <3>2. Below(m)'
      BY <1>1, <3>1, BelowKept DEF Snaps
    <3> QED BY <1>3, <2>1, <3>1, <3>2
  <2>2. CASE proc'[p].xmin = InvalidXid /\ Live(p)' = {}
    <3>1. latestCompletedXid' \in Nat /\ xids' \in Seq(Nat)
      BY DEF Typed
    <3>2. PICK b \in Nat : b = latestCompletedXid'
      BY <3>1
    <3>4. 0 <= b + 1 /\ \A v \in Vals' : 0 <= v
      BY <3>1 DEF Vals
    <3>3. Below(0)'
      BY <3>2, <3>4 DEF Below
    <3> QED BY <2>2, <3>3 DEF InvalidXid
  <2>3. CASE \E s \in Live(p)' : proc'[p].xmin = s.xmin /\ \A t \in Live(p)' : s.xmin <= t.xmin
    <3>1. PICK s \in Live(p)' : proc'[p].xmin = s.xmin /\ \A t \in Live(p)' : s.xmin <= t.xmin
      BY <2>3
    <3>2. Built(s)'
      BY <1>3, <3>1
    <3>3. PICK x : x = s.xmin
      OBVIOUS
    <3>4. Below(x)' /\ x # InvalidXid
      BY <3>2, <3>3 DEF Built
    <3> QED BY <3>1, <3>3, <3>4
  <2> QED BY <2>1, <2>2, <2>3 DEF Keeps
<1> QED BY <1>2, <1>3, <1>4, <1>5 DEF Common

\* With nothing in the making that is all there is to show.
LEMMA KeepsOwn ==
  ASSUME ArrayInv, Typed', SnapInv, NEW p \in Sessions, Frame(p), Keeps(p),
         pc'[p] \notin Snapping, pc'[p] \in {"idle", "out"} => Live(p)' = {}
  PROVE  OwnOK(p)
<1>1. Common(p)'
  BY KeepsCommon
<1>2. Snaps(p)'
  BY <1>1 DEF Common, Snaps, Snapping
<1> QED BY <1>2 DEF OwnOK, Keeps, Snapping

(***************************************************************************)
(* Steps that set only what is the session's own.                          *)
(***************************************************************************)

\* Session p goes to w with locals c, visibility globals v, snapshots n and advertised xmin x.
Sets(p, w, c, v, n, x) ==
  /\ pc' = [pc EXCEPT ![p] = w] /\ call' = [call EXCEPT ![p] = c]
  /\ vis' = [vis EXCEPT ![p] = v] /\ snap' = [snap EXCEPT ![p] = n]
  /\ proc' = [proc EXCEPT ![p].xmin = x]
  /\ UNCHANGED <<nextXid, latestCompletedXid, xactCompletionCount, pgprocnos, xids, xidGen>>
  /\ \A q \in Sessions \ {p} : q \in sharers => q \in sharers'

\* The values are as good as they were.
Good(w, c, v, n, x) == IsCall(c) /\ IsVis(v) /\ IsSnaps(n) /\ x \in Nat

\* The transactions of the others are theirs.
XactsApart(p) ==
  /\ xact' \in [Sessions -> Seq(Levels)] /\ \A q \in Sessions \ {p} : xact'[q] = xact[q]
  /\ gxact' \in [Dummies -> GXacts]
  /\ \A q \in Sessions \ {p} : pc[q] \in Working => gxact'[call[q].gxact] = gxact[call[q].gxact]

\* What is set.
LEMMA SetsValues ==
  ASSUME Typed, NEW p \in Sessions, NEW w, NEW c, NEW v, NEW n, NEW x,
         Good(w, c, v, n, x), Sets(p, w, c, v, n, x)
  PROVE  pc'[p] = w /\ call'[p] = c /\ vis'[p] = v /\ snap'[p] = n /\ proc'[p].xmin = x
<1>1. pc'[p] = w /\ call'[p] = c /\ vis'[p] = v /\ snap'[p] = n
  BY DEF Typed, Sets
<1>2. p \in Members /\ IsProc(proc[p]) /\ proc = [m \in Members |-> proc[m]]
  BY DEF Typed, Members
<1>3. proc'[p] = [proc[p] EXCEPT !.xmin = x]
  BY <1>2 DEF Sets
<1> QED BY <1>1, <1>2, <1>3 DEF IsProc

\* Such a step is calm.
LEMMA SetsCalm ==
  ASSUME Typed, NEW p \in Sessions, NEW w, NEW c, NEW v, NEW n, NEW x,
         Good(w, c, v, n, x), Sets(p, w, c, v, n, x), XactsApart(p)
  PROVE  Calm(p)
<1>1. p \in Members /\ proc = [m \in Members |-> proc[m]] /\ (\A m \in Members : IsProc(proc[m])) /\ x \in Nat
  BY DEF Typed, Members, Good
<1>2. PICK r : r = [proc[p] EXCEPT !.xmin = x]
  OBVIOUS
<1>3. IsProc(r) /\ r.xid = proc[p].xid /\ r.pgxactoff = proc[p].pgxactoff
  BY <1>1, <1>2 DEF IsProc
<1>4. proc' = [proc EXCEPT ![p] = r]
  BY <1>1, <1>2 DEF Sets
<1>5. /\ proc' = [m \in Members |-> proc'[m]] /\ proc'[p] = r
      /\ \A m \in Members \ {p} : proc'[m] = proc[m]
  BY <1>1, <1>4
<1>6. \A m \in Members : IsProc(proc'[m]) /\ proc'[m].xid = proc[m].xid /\ proc'[m].pgxactoff = proc[m].pgxactoff
  BY <1>1, <1>3, <1>5
<1>7. /\ call' = [q \in Sessions |-> call'[q]] /\ IsCall(call'[p])
      /\ vis' = [q \in Sessions |-> vis'[q]] /\ IsVis(vis'[p])
      /\ snap' = [q \in Sessions |-> snap'[q]] /\ IsSnaps(snap'[p])
      /\ pc' = [q \in Sessions |-> pc'[q]]
      /\ \A q \in Sessions \ {p} : pc'[q] = pc[q] /\ call'[q] = call[q] /\ vis'[q] = vis[q] /\ snap'[q] = snap[q]
  <2>1. /\ call = [q \in Sessions |-> call[q]] /\ vis = [q \in Sessions |-> vis[q]]
        /\ snap = [q \in Sessions |-> snap[q]] /\ pc = [q \in Sessions |-> pc[q]]
    BY DEF Typed
  <2>2. /\ pc' = [pc EXCEPT ![p] = w] /\ call' = [call EXCEPT ![p] = c]
        /\ vis' = [vis EXCEPT ![p] = v] /\ snap' = [snap EXCEPT ![p] = n]
    BY DEF Sets
  <2>3. IsCall(c) /\ IsVis(v) /\ IsSnaps(n)
    BY DEF Good
  <2>4. call' = [q \in Sessions |-> call'[q]] /\ call'[p] = c /\ \A q \in Sessions \ {p} : call'[q] = call[q]
    BY <2>1, <2>2
  <2>5. vis' = [q \in Sessions |-> vis'[q]] /\ vis'[p] = v /\ \A q \in Sessions \ {p} : vis'[q] = vis[q]
    BY <2>1, <2>2
  <2>6. snap' = [q \in Sessions |-> snap'[q]] /\ snap'[p] = n /\ \A q \in Sessions \ {p} : snap'[q] = snap[q]
    BY <2>1, <2>2
  <2>7. pc' = [q \in Sessions |-> pc'[q]] /\ \A q \in Sessions \ {p} : pc'[q] = pc[q]
    BY <2>1, <2>2, <2>3
  <2> QED BY <2>3, <2>4, <2>5, <2>6, <2>7
<1>8. \A q \in Sessions \ {p} : proc'[q] = proc[q]
  BY <1>5 DEF Members
<1>9. Own1(p)
  BY <1>5, <1>6, <1>7, <1>8 DEF Own1, XactsApart
<1> QED BY <1>6, <1>9 DEF Calm, Sets, XactsApart

\* It leaves the array as it is.
LEMMA CalmFrame ==
  ASSUME Typed, NEW p \in Sessions, Calm(p)
  PROVE  Frame(p)
<1>1. Vals' = Vals
  BY DEF Calm, Vals
<1>2. latestCompletedXid \in Nat /\ xactCompletionCount \in Nat
  BY DEF Typed
<1>3. \A q \in Sessions \ {p} :
         /\ pc'[q] = pc[q] /\ call'[q] = call[q] /\ vis'[q] = vis[q] /\ snap'[q] = snap[q]
         /\ proc'[q].xmin = proc[q].xmin
  BY DEF Calm, Own1
<1>4. \A q \in Sessions : proc'[q].pgxactoff = proc[q].pgxactoff
  BY DEF Calm, Members
<1>5. /\ latestCompletedXid' = latestCompletedXid /\ xactCompletionCount' = xactCompletionCount /\ xids' = xids
  BY DEF Calm
<1> QED BY <1>1, <1>2, <1>3, <1>4, <1>5 DEF Frame

\* Where a session reads no more.
Over == {"record", "end", "prepare_add", "prepare_clear", "prepare_done"}

\* A step that touches neither the array nor the snapshots keeps the invariant.
LEMMA PlainStep ==
  ASSUME ArrayInv, SnapInv, NEW p \in Sessions, NEW w, NEW c, NEW v,
         Good(w, c, v, snap[p], proc[p].xmin), Sets(p, w, c, v, snap[p], proc[p].xmin),
         v.maybeNeeded = vis[p].maybeNeeded, UNCHANGED <<xact, gxact>>,
         Moves(p, pc[p], w), w \notin Snapping, pc[p] \in Over => w \in Over
  PROVE  ArrayInv' /\ SnapInv'
<1>1. Typed
  BY DEF ArrayInv
<1>2. Calm(p) /\ Quiet(p)
  <2>1. XactsApart(p)
    BY <1>1 DEF XactsApart, Typed
  <2>2. Calm(p)
    BY <1>1, <2>1, SetsCalm
  <2> QED BY <2>2 DEF Quiet
<1>3. pc'[p] = w /\ call'[p] = c /\ vis'[p] = v /\ snap'[p] = snap[p] /\ proc'[p].xmin = proc[p].xmin
  BY <1>1, SetsValues
<1>4. ArrayInv'
  BY <1>2, <1>3, QuietKeeps
<1>5. Frame(p)
  BY <1>1, <1>2, CalmFrame
<1>6. Live(p)' \subseteq Live(p)
  BY <1>3 DEF Live, Over, Snapping
<1>7. Keeps(p)
  BY <1>3, <1>6 DEF Keeps
<1>8. OwnOK(p)
  <2>1. pc'[p] \notin {"idle", "out"}
    BY <1>3 DEF Moves
  <2>2. Typed'
    BY <1>4 DEF ArrayInv
  <2> QED BY <1>3, <1>5, <1>7, <2>1, <2>2, KeepsOwn
<1> QED BY <1>4, <1>5, <1>8, SnapStep

\* What is not set is set to what it is.
LEMMA Unmoved ==
  ASSUME Typed, NEW p \in Sessions
  PROVE  /\ pc = [pc EXCEPT ![p] = pc[p]] /\ call = [call EXCEPT ![p] = call[p]]
         /\ vis = [vis EXCEPT ![p] = vis[p]] /\ snap = [snap EXCEPT ![p] = snap[p]]
         /\ proc = [proc EXCEPT ![p].xmin = proc[p].xmin]
         /\ IsCall(call[p]) /\ IsVis(vis[p]) /\ IsSnaps(snap[p]) /\ IsProc(proc[p])
         /\ proc[p].xmin \in Nat
<1>1. p \in Members /\ IsProc(proc[p]) /\ proc = [m \in Members |-> proc[m]]
  BY DEF Typed, Members
<1>2. PICK r : r = proc[p]
  OBVIOUS
<1>3. r = [r EXCEPT !.xmin = r.xmin] /\ r.xmin \in Nat
  BY <1>1, <1>2 DEF IsProc
<1>4. proc = [proc EXCEPT ![p].xmin = proc[p].xmin]
  BY <1>1, <1>2, <1>3
<1>5. /\ call = [q \in Sessions |-> call[q]] /\ vis = [q \in Sessions |-> vis[q]]
      /\ snap = [q \in Sessions |-> snap[q]] /\ pc = [q \in Sessions |-> pc[q]]
      /\ IsCall(call[p]) /\ IsVis(vis[p]) /\ IsSnaps(snap[p])
  BY DEF Typed
<1>6. /\ pc = [pc EXCEPT ![p] = pc[p]] /\ call = [call EXCEPT ![p] = call[p]]
      /\ vis = [vis EXCEPT ![p] = vis[p]] /\ snap = [snap EXCEPT ![p] = snap[p]]
  BY <1>5
<1> QED BY <1>1, <1>2, <1>3, <1>4, <1>5, <1>6

\* The records of the beginning are well formed.
LEMMA Blanks ==
  IsCall(NoCall) /\ IsSnap(NoSnapshot) /\ IsProc(BlankProc) /\ IsVis(NoVis)
<1>1. IsSnap(NoSnapshot)
  BY DEF NoSnapshot, IsSnap, InvalidXid
<1>2. IsCall(NoCall)
  BY <1>1 DEF NoCall, IsCall, InvalidXid, Structs
<1>3. IsProc(BlankProc)
  BY DEF BlankProc, IsProc, InvalidXid
<1>4. IsVis(NoVis)
  BY DEF NoVis, IsVis
<1> QED BY <1>1, <1>2, <1>3, <1>4

\* What a plain step changes: pc and the locals of the call.
PlainTo(p, w, c) ==
  /\ pc' = [pc EXCEPT ![p] = w] /\ call' = [call EXCEPT ![p] = c]
  /\ UNCHANGED <<nextXid, latestCompletedXid, xactCompletionCount, pgprocnos, xids, proc, xidGen,
                 vis, snap, xact, gxact>>
  /\ \A q \in Sessions \ {p} : q \in sharers => q \in sharers'

\* It keeps the invariant.
LEMMA PlainToStep ==
  ASSUME ArrayInv, SnapInv, NEW p \in Sessions, NEW w, NEW c, IsCall(c), PlainTo(p, w, c),
         Moves(p, pc[p], w), w \notin Snapping, pc[p] \in Over => w \in Over
  PROVE  ArrayInv' /\ SnapInv'
<1>1. Typed
  BY DEF ArrayInv
<1>2. PICK v : v = vis[p]
  OBVIOUS
<1>3. Good(w, c, v, snap[p], proc[p].xmin)
  BY <1>1, <1>2, Unmoved DEF Good
<1>4. Sets(p, w, c, v, snap[p], proc[p].xmin)
  BY <1>1, <1>2, Unmoved DEF Sets, PlainTo
<1>5. UNCHANGED <<xact, gxact>> /\ v.maybeNeeded = vis[p].maybeNeeded
  BY <1>2 DEF PlainTo
<1> QED BY <1>3, <1>4, <1>5, PlainStep

\* Assigning an xid, but for the steps that take XidGenLock.
LEMMA AssignSteps ==
  ASSUME ArrayInv, SnapInv, NEW p \in Sessions,
         \/ AssignTransactionId(p) \/ AssignParent(p)
         \/ GetNewTransactionIdRefused(p) /\ UNCHANGED <<logVars, snap, xact, gxact, plan>>
  PROVE  ArrayInv' /\ SnapInv'
<1>1. Typed
  BY DEF ArrayInv
<1> USE DEF Goto, arrayVars, transamVars, denseVars
<1>2. CASE AssignTransactionId(p)
  <2>1. PlainTo(p, "xid_lock", call[p]) /\ IsCall(call[p])
    BY <1>1, <1>2, Unmoved DEF AssignTransactionId, PlainTo
  <2>2. Moves(p, pc[p], "xid_lock")
    BY <1>2 DEF AssignTransactionId, Moves, Sharing
  <2>3. "xid_lock" \notin Snapping /\ pc[p] \notin Over
    BY <1>2 DEF AssignTransactionId, Snapping, Over
  <2> QED BY <2>1, <2>2, <2>3, PlainToStep
<1>3. CASE AssignParent(p)
  <2>1. PICK w \in {"run", "xid_lock"} : w = IF Unassigned(p) = {} THEN "run" ELSE "xid_lock"
    OBVIOUS
  <2>2. PlainTo(p, w, NoCall) /\ IsCall(NoCall)
    BY <1>3, <2>1, Blanks DEF AssignParent, PlainTo
  <2>3. Moves(p, pc[p], w)
    BY <1>3, <2>1 DEF AssignParent, Moves, Sharing
  <2>a. pc[p] = "xid_parent"
    BY <1>3 DEF AssignParent
  <2>4. w \notin Snapping /\ pc[p] \notin Over
    BY <2>a DEF Snapping, Over
  <2> QED BY <2>2, <2>3, <2>4, PlainToStep
<1>4. CASE GetNewTransactionIdRefused(p) /\ UNCHANGED <<logVars, snap, xact, gxact, plan>>
  <2>1. PlainTo(p, "run", call[p]) /\ IsCall(call[p])
    BY <1>1, <1>4, Unmoved DEF GetNewTransactionIdRefused, PlainTo
  <2>2. Moves(p, pc[p], "run")
    BY <1>4 DEF GetNewTransactionIdRefused, Moves, Sharing
  <2>3. "run" \notin Snapping /\ pc[p] \notin Over
    BY <1>4 DEF GetNewTransactionIdRefused, Snapping, Over
  <2> QED BY <2>1, <2>2, <2>3, PlainToStep
<1> QED BY <1>2, <1>3, <1>4

\* Writing pg_xact: before the first page, and page by page.
LEMMA RecordSteps ==
  ASSUME ArrayInv, SnapInv, NEW p \in Sessions,
         \/ AbortSubTransaction(p) /\ Last(xact[p]).xid # InvalidXid
         \/ \E status \in {Committed, Aborted} :
               EndTopTransaction(p, status) /\ xact[p][1].xid # InvalidXid
         \/ RecordStep(p) \/ FinishPreparedRead(p)
  PROVE  ArrayInv' /\ SnapInv'
<1>1. Typed /\ Session(p) /\ IsCall(call[p]) /\ call = [q \in Sessions |-> call[q]]
  BY Unmoved DEF ArrayInv, Typed
<1> USE DEF Goto, arrayVars, transamVars, denseVars
<1>2. CASE AbortSubTransaction(p) /\ Last(xact[p]).xid # InvalidXid
  <2>1. PICK c : c = [call[p] EXCEPT !.writes =
                        TreeStatusWrites(Last(xact[p]).xid, Last(xact[p]).children, Aborted)]
    OBVIOUS
  <2>2. IsCall(c)
    BY <1>1, <2>1 DEF IsCall
  <2>3. call' = [call EXCEPT ![p] = c]
    BY <1>1, <1>2, <2>1 DEF AbortSubTransaction
  <2>4. PlainTo(p, "sub_record", c)
    BY <1>2, <2>3 DEF AbortSubTransaction, PlainTo
  <2>5. Moves(p, pc[p], "sub_record")
    BY <1>2 DEF AbortSubTransaction, Moves, Sharing
  <2>6. "sub_record" \notin Snapping /\ pc[p] \notin Over
    BY <1>2 DEF AbortSubTransaction, Snapping, Over
  <2> QED BY <2>2, <2>4, <2>5, <2>6, PlainToStep
<1>3. CASE \E status \in {Committed, Aborted} :
              EndTopTransaction(p, status) /\ xact[p][1].xid # InvalidXid
  <2>0. PICK status \in {Committed, Aborted} : EndTopTransaction(p, status) /\ xact[p][1].xid # InvalidXid
    BY <1>3
  <2>1. PICK c : c = [call[p] EXCEPT !.writes =
                        TreeStatusWrites(xact[p][1].xid, xact[p][1].children, status)]
    OBVIOUS
  <2>2. IsCall(c)
    BY <1>1, <2>1 DEF IsCall
  <2>3. call' = [call EXCEPT ![p] = c]
    BY <1>1, <2>0, <2>1 DEF EndTopTransaction
  <2>4. PlainTo(p, "record", c)
    BY <2>0, <2>3 DEF EndTopTransaction, PlainTo
  <2>5. Moves(p, pc[p], "record")
    BY <2>0 DEF EndTopTransaction, Moves, Sharing
  <2>6. "record" \notin Snapping /\ pc[p] \notin Over
    BY <2>0 DEF EndTopTransaction, Snapping, Over
  <2> QED BY <2>2, <2>4, <2>5, <2>6, PlainToStep
<1>4. CASE RecordStep(p)
  <2>1. PICK c : c = [call[p] EXCEPT !.writes = Tail(call[p].writes)]
    OBVIOUS
  <2>2. IsCall(c) /\ c.gxact = call[p].gxact
    BY <1>1, <2>1 DEF IsCall
  <2>3. call' = [call EXCEPT ![p] = c]
    BY <1>1, <1>4, <2>1 DEF RecordStep
  <2>a. pc[p] \in {"record", "sub_record", "finish_record"}
    BY <1>4 DEF RecordStep, AfterWrites
  <2>b. PICK w : w = IF Len(call[p].writes) = 1 THEN AfterWrites[pc[p]] ELSE pc[p]
    OBVIOUS
  <2>d. /\ pc[p] = "record" => w \in {"record", "end"}
        /\ pc[p] = "sub_record" => w \in {"sub_record", "sub_remove"}
        /\ pc[p] = "finish_record" => w \in {"finish_record", "finish_remove"}
    BY <2>b DEF AfterWrites
  <2>c. pc' = [pc EXCEPT ![p] = w]
    BY <1>1, <1>4, <2>b, Unmoved DEF RecordStep
  <2>4. PlainTo(p, w, c)
    BY <1>4, <2>3, <2>c DEF RecordStep, PlainTo
  <2>e. call'[p].gxact = call[p].gxact
    BY <1>1, <2>2, <2>3
  <2>f. Nested(p)
    BY <1>1 DEF Session
  <2>5. Moves(p, pc[p], w)
    BY <2>a, <2>d, <2>e, <2>f DEF Moves, Sharing, Nested
  <2>6. w \notin Snapping /\ (pc[p] \in Over => w \in Over)
    BY <2>a, <2>d DEF Snapping, Over
  <2> QED BY <2>2, <2>4, <2>5, <2>6, PlainToStep
<1>5. CASE FinishPreparedRead(p)
  <2>1. PlainTo(p, "finish_record", call[p])
    BY <1>1, <1>5, Unmoved DEF FinishPreparedRead, PlainTo
  <2>2. Moves(p, pc[p], "finish_record")
    BY <1>5 DEF FinishPreparedRead, Moves, Sharing
  <2>3. "finish_record" \notin Snapping /\ pc[p] \notin Over
    BY <1>5 DEF FinishPreparedRead, Snapping, Over
  <2> QED BY <1>1, <2>1, <2>2, <2>3, PlainToStep
<1> QED BY <1>2, <1>3, <1>4, <1>5

\* TransactionIdIsInProgress, and the call for a horizon.
LEMMA InProgressSteps ==
  ASSUME ArrayInv, SnapInv, NEW p \in Sessions,
         \/ InProgressCall(p) \/ InProgressReturn(p) \/ HorizonCall(p)
         \/ InProgressStep(p) /\ UNCHANGED <<logVars, snap, xact, gxact, plan>>
  PROVE  ArrayInv' /\ SnapInv'
<1>1. Typed /\ Session(p) /\ IsCall(call[p]) /\ call = [q \in Sessions |-> call[q]]
  BY Unmoved DEF ArrayInv, Typed
<1> USE DEF Goto, arrayVars, transamVars, denseVars
<1>2. CASE InProgressCall(p)
  <2>1. PICK x \in Xids : Stored(x) /\ InProgressEnter(p, x, Own(p), {x} \cap Ended)
    BY <1>2 DEF InProgressCall
  <2>2. PICK past : past = (x < vis[p].RecentXmin \/ x = vis[p].notInProgress)
    OBVIOUS
  <2>3. PICK c : c = [NoCall EXCEPT !.xid = x, !.known = {x} \cap Ended, !.answer = ~past /\ x \in Own(p)]
    OBVIOUS
  <2>4. IsCall(c)
    <3>1. IsCall(NoCall) /\ x \in Nat
      BY Blanks DEF Xids
    <3> QED BY <2>3, <3>1 DEF IsCall
  <2>5. PICK w : w = IF past \/ x \in Own(p) THEN "told" ELSE "progress_lock"
    OBVIOUS
  <2>6. pc' = [pc EXCEPT ![p] = w] /\ call' = [call EXCEPT ![p] = c] /\ UNCHANGED <<arrayVars, vis>>
    BY <2>1, <2>2, <2>3, <2>5 DEF InProgressEnter
  <2>7. PlainTo(p, w, c)
    BY <1>2, <2>6 DEF InProgressCall, PlainTo
  <2>8. w \in {"told", "progress_lock"} /\ pc[p] = "run"
    BY <1>2, <2>5 DEF InProgressCall
  <2>9. Moves(p, pc[p], w) /\ w \notin Snapping /\ pc[p] \notin Over
    BY <2>8 DEF Moves, Sharing, Snapping, Over
  <2> QED BY <2>4, <2>7, <2>9, PlainToStep
<1>3. CASE InProgressReturn(p)
  <2>1. PlainTo(p, "run", NoCall) /\ IsCall(NoCall)
    BY <1>3, Blanks DEF InProgressReturn, PlainTo
  <2>2. Moves(p, pc[p], "run") /\ "run" \notin Snapping /\ pc[p] \notin Over
    BY <1>3 DEF InProgressReturn, Moves, Sharing, Snapping, Over
  <2> QED BY <2>1, <2>2, PlainToStep
<1>4. CASE HorizonCall(p)
  <2>1. PlainTo(p, "horizon_lock", call[p])
    BY <1>1, <1>4, Unmoved DEF HorizonCall, PlainTo
  <2>2. Moves(p, pc[p], "horizon_lock") /\ "horizon_lock" \notin Snapping /\ pc[p] \notin Over
    BY <1>4 DEF HorizonCall, Moves, Sharing, Snapping, Over
  <2> QED BY <1>1, <2>1, <2>2, PlainToStep
<1>5. ASSUME UNCHANGED <<logVars, snap, xact, gxact, plan>>, InProgressStep(p)
      PROVE  ArrayInv' /\ SnapInv'
  \* An answer, and the lock given back if it is held.
  <2>1. ASSUME NEW a, Told(p, a), pc[p] \in {"progress_lock", "progress_scan", "progress_subxids"},
               UNCHANGED <<transamVars, denseVars, proc, xidGen, vis>>,
               sharers' = sharers \/ sharers' = sharers \ {p}
        PROVE  ArrayInv' /\ SnapInv'
    <3>1. PICK c : c = [call[p] EXCEPT !.answer = a]
      OBVIOUS
    <3>2. IsCall(c)
      BY <1>1, <3>1 DEF IsCall
    <3>3. call' = [call EXCEPT ![p] = c]
      BY <1>1, <2>1, <3>1 DEF Told
    <3>4. PlainTo(p, "told", c)
      BY <1>5, <2>1, <3>3 DEF Told, PlainTo
    <3>5. Moves(p, pc[p], "told") /\ "told" \notin Snapping /\ pc[p] \notin Over
      BY <2>1 DEF Moves, Sharing, Snapping, Over
    <3> QED BY <3>2, <3>4, <3>5, PlainToStep
  <2>2. CASE InProgressLock(p)
    <3>1. CASE latestCompletedXid < call[p].xid
      <4>1. Told(p, TRUE) /\ UNCHANGED sharers /\ pc[p] \in {"progress_lock", "progress_scan", "progress_subxids"}
            /\ UNCHANGED <<transamVars, denseVars, proc, xidGen, vis>>
        BY <2>2, <3>1 DEF InProgressLock
      <4> QED BY <2>1, <4>1
    <3>2. CASE ~(latestCompletedXid < call[p].xid)
      <4>1. PICK c : c = [call[p] EXCEPT !.at = 1, !.off = proc[p].pgxactoff]
        OBVIOUS
      <4>2. IsCall(c)
        BY <1>1, <4>1 DEF IsCall
      <4>3. call' = [call EXCEPT ![p] = c]
        BY <1>1, <2>2, <3>2, <4>1 DEF InProgressLock
      <4>4. PlainTo(p, "progress_scan", c) /\ p \in sharers'
        BY <1>5, <2>2, <3>2, <4>3 DEF InProgressLock, PlainTo
      <4>5. Moves(p, pc[p], "progress_scan") /\ "progress_scan" \notin Snapping /\ pc[p] \notin Over
        BY <2>2, <4>4 DEF InProgressLock, Moves, Sharing, Snapping, Over
      <4> QED BY <4>2, <4>4, <4>5, PlainToStep
    <3> QED BY <3>1, <3>2
  <2>3. CASE InProgressScanXid(p)
    <3>0. pc[p] = "progress_scan" /\ p \in sharers /\ UNCHANGED <<transamVars, denseVars, proc, xidGen, vis>>
      BY <1>1, <2>3 DEF InProgressScanXid, Session, Sharing
    <3>a. PICK i, x : i = call[p].at /\ x = call[p].xid
      OBVIOUS
    <3>1. CASE i # call[p].off /\ xids[i] = x
      <4>1. Told(p, TRUE) /\ sharers' = sharers \ {p}
        BY <2>3, <3>1, <3>a DEF InProgressScanXid
      <4> QED BY <2>1, <3>0, <4>1
    <3>2. CASE ~(i # call[p].off /\ xids[i] = x) /\ (i = call[p].off \/ xids[i] = InvalidXid \/ xids[i] > x)
      <4>1. PICK c : c = [call[p] EXCEPT !.at = i + 1]
        OBVIOUS
      <4>2. IsCall(c)
        BY <1>1, <3>a, <4>1 DEF IsCall
      <4>3. call' = [call EXCEPT ![p] = c] /\ UNCHANGED <<pc, sharers>>
        BY <1>1, <2>3, <3>2, <3>a, <4>1 DEF InProgressScanXid
      <4>4. PlainTo(p, pc[p], c) /\ p \in sharers'
        BY <1>1, <1>5, <3>0, <4>3, Unmoved DEF PlainTo
      <4>5. Moves(p, pc[p], pc[p]) /\ pc[p] \notin Snapping /\ pc[p] \notin Over
        BY <3>0, <4>4 DEF Moves, Sharing, Snapping, Over
      <4> QED BY <4>2, <4>4, <4>5, PlainToStep
    <3>3. CASE ~(i # call[p].off /\ xids[i] = x) /\ ~(i = call[p].off \/ xids[i] = InvalidXid \/ xids[i] > x)
      <4>1. pc' = [pc EXCEPT ![p] = "progress_subxids"] /\ UNCHANGED <<call, sharers>>
        BY <2>3, <3>3, <3>a DEF InProgressScanXid
      <4>2. PlainTo(p, "progress_subxids", call[p]) /\ p \in sharers'
        BY <1>1, <1>5, <3>0, <4>1, Unmoved DEF PlainTo
      <4>3. Moves(p, pc[p], "progress_subxids") /\ "progress_subxids" \notin Snapping /\ pc[p] \notin Over
        BY <3>0, <4>2 DEF Moves, Sharing, Snapping, Over
      <4> QED BY <1>1, <4>2, <4>3, PlainToStep
    <3> QED BY <3>1, <3>2, <3>3
  <2>4. CASE InProgressScanSubxids(p)
    <3>0. pc[p] = "progress_subxids" /\ p \in sharers /\ UNCHANGED <<transamVars, denseVars, proc, xidGen, vis>>
      BY <1>1, <2>4 DEF InProgressScanSubxids, Session, Sharing
    <3>1. CASE Told(p, TRUE) /\ sharers' = sharers \ {p}
      BY <2>1, <3>0, <3>1
    <3>2. CASE ~(Told(p, TRUE) /\ sharers' = sharers \ {p})
      <4>a. PICK n \in Nat : n = call[p].at + 1
        BY <1>1 DEF IsCall
      <4>b. PICK t : t = IF subxidStates[call[p].at].overflowed
                         THEN call[p].tops \cup {xids[call[p].at]} ELSE call[p].tops
        OBVIOUS
      <4>1. PICK c : c = [call[p] EXCEPT !.at = n, !.tops = t]
        OBVIOUS
      <4>2. IsCall(c)
        BY <1>1, <4>1 DEF IsCall
      <4>3. call' = [call EXCEPT ![p] = c] /\ pc' = [pc EXCEPT ![p] = "progress_scan"] /\ UNCHANGED sharers
        BY <1>1, <2>4, <3>2, <4>1, <4>a, <4>b DEF InProgressScanSubxids
      <4>4. PlainTo(p, "progress_scan", c) /\ p \in sharers'
        BY <1>5, <3>0, <4>3 DEF PlainTo
      <4>5. Moves(p, pc[p], "progress_scan") /\ "progress_scan" \notin Snapping /\ pc[p] \notin Over
        BY <3>0, <4>4 DEF Moves, Sharing, Snapping, Over
      <4> QED BY <4>2, <4>4, <4>5, PlainToStep
    <3> QED BY <3>1, <3>2
  <2>5. CASE InProgressUnlock(p)
    <3>1. PlainTo(p, "progress_resolve", call[p])
      BY <1>1, <1>5, <2>5, Unmoved DEF InProgressUnlock, PlainTo
    <3>2. Moves(p, pc[p], "progress_resolve") /\ "progress_resolve" \notin Snapping /\ pc[p] \notin Over
      BY <2>5 DEF InProgressUnlock, Moves, Sharing, Snapping, Over
    <3> QED BY <1>1, <3>1, <3>2, PlainToStep
  <2>6. CASE InProgressResolve(p)
    <3>1. PICK a : Told(p, a) /\ vis' = IF a THEN vis ELSE [vis EXCEPT ![p].notInProgress = call[p].xid]
      BY <2>6 DEF InProgressResolve
    <3>2. PICK c : c = [call[p] EXCEPT !.answer = a]
      OBVIOUS
    <3>3. IsCall(c) /\ call' = [call EXCEPT ![p] = c] /\ pc' = [pc EXCEPT ![p] = "told"]
      BY <1>1, <3>1, <3>2 DEF IsCall, Told
    <3>4. PICK v : v = IF a THEN vis[p] ELSE [vis[p] EXCEPT !.notInProgress = call[p].xid]
      OBVIOUS
    <3>5. IsVis(vis[p]) /\ vis = [q \in Sessions |-> vis[q]]
      BY <1>1 DEF Typed
    <3>6. IsVis(v) /\ v.maybeNeeded = vis[p].maybeNeeded
      BY <3>4, <3>5 DEF IsVis
    <3>7. vis' = [vis EXCEPT ![p] = v]
      BY <3>1, <3>4, <3>5
    <3>8. Sets(p, "told", c, v, snap[p], proc[p].xmin) /\ UNCHANGED <<xact, gxact>>
      BY <1>1, <1>5, <2>6, <3>3, <3>7, Unmoved DEF Sets, InProgressResolve
    <3>9. Good("told", c, v, snap[p], proc[p].xmin)
      BY <1>1, <3>3, <3>6, Unmoved DEF Good
    <3>10. Moves(p, pc[p], "told") /\ "told" \notin Snapping /\ pc[p] \notin Over
      BY <2>6 DEF InProgressResolve, Moves, Sharing, Snapping, Over
    <3> QED BY <3>6, <3>8, <3>9, <3>10, PlainStep
  <2> QED BY <1>5, <2>2, <2>3, <2>4, <2>5, <2>6 DEF InProgressStep
<1> QED BY <1>2, <1>3, <1>4, <1>5

(***************************************************************************)
(* Steps that change the session's transaction or a prepared one.          *)
(***************************************************************************)

\* A calm step whose snapshots are kept keeps the invariant.
LEMMA CalmStep ==
  ASSUME ArrayInv, SnapInv, NEW p \in Sessions, Calm(p), Prepd', Session(p)', Keeps(p),
         pc'[p] \notin Snapping, pc'[p] \in {"idle", "out"} => Live(p)' = {}
  PROVE  ArrayInv' /\ SnapInv'
<1>1. ArrayInv'
  BY CalmKeeps
<1>2. Typed /\ Typed'
  BY <1>1 DEF ArrayInv
<1>3. Frame(p)
  BY <1>2, CalmFrame
<1>4. OwnOK(p)
  BY <1>2, <1>3, KeepsOwn
<1> QED BY <1>1, <1>3, <1>4, SnapStep

\* Where nothing but the transaction stack counts.
Free == {"run", "idle", "sub_cleanup"}

\* There a session keeps its part of the invariant as long as its top xid stays.
LEMMA FreeSession ==
  ASSUME ArrayInv, NEW p \in Sessions, Calm(p), pc[p] \notin {"out", "xid_release"}, pc'[p] \in Free,
         pc'[p] = "idle" => xact'[p] = <<>>, XidsBelow(p)', TopXid(p)' = TopXid(p)
  PROVE  Session(p)'
<1>1. Session(p) /\ p \in Members
  BY DEF ArrayInv, Members
<1>2. proc'[p].xid = proc[p].xid /\ proc'[p].pgxactoff = proc[p].pgxactoff
  BY <1>1 DEF Calm
<1>3. xids' = xids /\ (Listed(p)' <=> Listed(p))
  BY DEF Calm, Listed
<1>4. Works(p)' /\ Handed(p)' /\ Nested(p)'
  BY DEF Works, Handed, Nested, Free, Working
<1>5. TopListed(p)'
  BY <1>1, <1>2, <1>3 DEF TopListed, Session, Free
<1>6. (Listed(p) <=> pc[p] # "out")' /\ (pc[p] \in Sharing => p \in sharers)'
  BY <1>1, <1>3 DEF Session, Free, Sharing
<1> QED BY <1>4, <1>5, <1>6 DEF Session

\* The prepared transactions stay, when they are left alone.
LEMMA PrepdKept ==
  ASSUME ArrayInv, NEW p \in Sessions, Calm(p), gxact' = gxact
  PROVE  Prepd'
<1>1. Prepd /\ Bound' = Bound /\ \A m : Listed(m)' <=> Listed(m)
  BY DEF ArrayInv, Calm, Bound, Listed
<1> QED BY <1>1 DEF Prepd

\* Only the last session to lock a prepared transaction works on it.
LEMMA WorkersApart ==
  ASSUME ArrayInv, NEW p \in Sessions, NEW d \in Dummies, gxact[d].locker \in {p, NoProc},
         NEW q \in Sessions \ {p}, pc[q] \in Working
  PROVE  call[q].gxact # d
<1>1. gxact[call[q].gxact].locker = q
  BY DEF ArrayInv, Session, Works
<1>2. q # NoProc
  BY ProcArrayAssumption DEF Members, NoProc
<1> QED BY <1>1, <1>2

\* A transaction stack with xids in use, and the xid of its top.
GoodStack(l) ==
  /\ l \in Seq(Levels)
  /\ \A i \in DOMAIN l : l[i].xid < Bound /\ \A x \in l[i].children : x < Bound
TopOf(l) == IF l = <<>> THEN InvalidXid ELSE l[1].xid

\* A step that gives session p the stack l.
LEMMA StackCalm ==
  ASSUME ArrayInv, NEW p \in Sessions, NEW w, NEW c, NEW v, NEW n, NEW x, NEW l,
         Good(w, c, v, n, x), Sets(p, w, c, v, n, x), gxact' = gxact, xact' = [xact EXCEPT ![p] = l],
         GoodStack(l), TopOf(l) = TopXid(p), pc[p] \notin {"out", "xid_release"}, w \in Free,
         w = "idle" => l = <<>>
  PROVE  Calm(p) /\ Prepd' /\ Session(p)'
<1>1. Typed /\ xact \in [Sessions -> Seq(Levels)] /\ gxact \in [Dummies -> GXacts]
  BY DEF ArrayInv, Typed
<1>2. /\ xact' \in [Sessions -> Seq(Levels)] /\ xact'[p] = l
      /\ \A q \in Sessions \ {p} : xact'[q] = xact[q]
  BY <1>1 DEF GoodStack
<1>3. XactsApart(p)
  BY <1>1, <1>2 DEF XactsApart
<1>4. Calm(p)
  BY <1>1, <1>3, SetsCalm
<1>5. pc'[p] = w
  BY <1>1, SetsValues
<1>6. Bound' = Bound
  BY <1>4 DEF Calm, Bound
<1>7. XidsBelow(p)'
  BY <1>2, <1>6 DEF XidsBelow, GoodStack
<1>8. TopXid(p)' = TopXid(p)
  BY <1>2 DEF TopXid, TopOf
<1>9. Session(p)'
  BY <1>2, <1>4, <1>5, <1>7, <1>8, FreeSession
<1>10. Prepd'
  BY <1>4, PrepdKept
<1> QED BY <1>4, <1>9, <1>10

\* The stack of a session is good, also with one level more or less.
LEMMA Stacks ==
  ASSUME ArrayInv, NEW p \in Sessions
  PROVE  /\ GoodStack(xact[p]) /\ TopOf(xact[p]) = TopXid(p)
         /\ GoodStack(<<>>) /\ TopOf(<<>>) = InvalidXid
         /\ GoodStack(<<Level(InvalidXid)>>) /\ TopOf(<<Level(InvalidXid)>>) = InvalidXid
         /\ GoodStack(Append(xact[p], Level(InvalidXid)))
         /\ TopOf(Append(xact[p], Level(InvalidXid))) = TopXid(p)
         /\ Len(xact[p]) > 1 => GoodStack(Front(xact[p])) /\ TopOf(Front(xact[p])) = TopXid(p)
<1>1. xact[p] \in Seq(Levels) /\ 0 < Bound /\ XidsBelow(p)
  BY DEF ArrayInv, Typed, Session
<1>a. PICK e : e = Level(InvalidXid)
  OBVIOUS
<1>2. e \in Levels /\ e = Level(InvalidXid) /\ e.xid = InvalidXid /\ e.children = {}
  BY <1>a DEF Level, Levels, InvalidXid
<1>3. PICK s \in Seq(Levels) : s = xact[p]
  BY <1>1
<1>4. \A i \in DOMAIN s : s[i].xid < Bound /\ \A x \in s[i].children : x < Bound
  BY <1>1, <1>3 DEF XidsBelow
<1>5. GoodStack(s) /\ TopOf(s) = TopXid(p)
  BY <1>3, <1>4 DEF GoodStack, TopOf, TopXid
<1>6. GoodStack(<<>>) /\ TopOf(<<>>) = InvalidXid
  BY DEF GoodStack, TopOf
<1>7. GoodStack(<<e>>) /\ TopOf(<<e>>) = InvalidXid
  BY <1>1, <1>2 DEF GoodStack, TopOf, InvalidXid
<1>8. GoodStack(Append(s, e)) /\ TopOf(Append(s, e)) = TopOf(s)
  <2>1. PICK t : t = Append(s, e)
    OBVIOUS
  <2>2. /\ t \in Seq(Levels) /\ Len(t) = Len(s) + 1 /\ t[Len(s) + 1] = e /\ DOMAIN t = 1 .. Len(s) + 1
        /\ \A i \in 1 .. Len(s) : t[i] = s[i]
    BY <1>2, <2>1
  <2>3. ASSUME NEW i \in DOMAIN t PROVE t[i].xid < Bound /\ \A x \in t[i].children : x < Bound
    <3>1. CASE i = Len(s) + 1
      BY <1>1, <1>2, <2>2, <3>1 DEF InvalidXid
    <3>2. CASE i # Len(s) + 1
      <4>1. i \in DOMAIN s /\ t[i] = s[i]
        BY <2>2, <3>2
      <4> QED BY <1>4, <4>1
    <3> QED BY <3>1, <3>2
  <2>4. TopOf(t) = TopOf(s)
    <3>1. CASE s = <<>>
      BY <1>2, <2>2, <3>1 DEF TopOf
    <3>2. CASE s # <<>>
      <4>1. 1 \in 1 .. Len(s) /\ t # <<>>
        BY <2>2, <3>2
      <4> QED BY <2>2, <3>2, <4>1 DEF TopOf
    <3> QED BY <3>1, <3>2
  <2> QED BY <2>1, <2>2, <2>3, <2>4 DEF GoodStack
<1>9. ASSUME Len(s) > 1 PROVE GoodStack(Front(s)) /\ TopOf(Front(s)) = TopOf(s)
  <2>1. PICK t : t = SubSeq(s, 1, Len(s) - 1)
    OBVIOUS
  <2>2. /\ t \in Seq(Levels) /\ Len(t) = Len(s) - 1 /\ DOMAIN t = 1 .. Len(s) - 1
        /\ \A i \in 1 .. Len(s) - 1 : t[i] = s[i]
    BY <1>9, <2>1
  <2>3. ASSUME NEW i \in DOMAIN t PROVE t[i].xid < Bound /\ \A x \in t[i].children : x < Bound
    <3>1. i \in DOMAIN s /\ t[i] = s[i]
      BY <2>2
    <3> QED BY <1>4, <3>1
  <2>4. TopOf(t) = TopOf(s)
    <3>1. t # <<>> /\ s # <<>> /\ t[1] = s[1]
      BY <1>9, <2>2
    <3> QED BY <3>1 DEF TopOf
  <2>5. t = Front(s)
    BY <2>1 DEF Front
  <2> QED BY <2>2, <2>3, <2>4, <2>5 DEF GoodStack
<1> QED BY <1>2, <1>3, <1>5, <1>6, <1>7, <1>8, <1>9

\* Starting a transaction or a subtransaction, and leaving a subtransaction without an xid.
LEMMA NestSteps ==
  ASSUME ArrayInv, SnapInv, NEW p \in Sessions,
         \/ StartTransaction(p) \/ StartSubTransaction(p)
         \/ AbortSubTransaction(p) /\ Last(xact[p]).xid = InvalidXid
  PROVE  ArrayInv' /\ SnapInv'
<1>1. Typed /\ Session(p) /\ Snaps(p)
  BY DEF ArrayInv, SnapInv
<1>2. UNCHANGED <<arrayVars, call, vis, snap, gxact>>
  BY DEF StartTransaction, StartSubTransaction, AbortSubTransaction
<1>3. PICK w \in {"run", "sub_cleanup"} : pc' = [pc EXCEPT ![p] = w] /\ pc[p] \in {"idle", "run"}
  BY <1>1, Unmoved DEF StartTransaction, StartSubTransaction, AbortSubTransaction, Goto
<1>4. PICK l : /\ xact' = [xact EXCEPT ![p] = l]
               /\ \/ pc[p] = "idle" /\ l = <<Level(InvalidXid)>>
                  \/ pc[p] = "run" /\ l = Append(xact[p], Level(InvalidXid))
                  \/ pc[p] = "run" /\ Len(xact[p]) > 1 /\ l = Front(xact[p])
  BY DEF StartTransaction, StartSubTransaction, AbortSubTransaction
<1>5. GoodStack(l) /\ TopOf(l) = TopXid(p)
  <2>1. pc[p] = "idle" => TopXid(p) = InvalidXid
    BY <1>1 DEF Session, Nested, TopXid
  <2> QED BY <1>4, <2>1, Stacks
<1>6. Good(w, call[p], vis[p], snap[p], proc[p].xmin) /\ Sets(p, w, call[p], vis[p], snap[p], proc[p].xmin)
  BY <1>1, <1>2, <1>3, Unmoved DEF Good, Sets, arrayVars, transamVars, denseVars
<1>7. Calm(p) /\ Prepd' /\ Session(p)'
  <2>1. gxact' = gxact /\ w \in Free /\ w # "idle" /\ pc[p] \notin {"out", "xid_release"}
    BY <1>2, <1>3 DEF Free
  <2> QED BY <1>4, <1>5, <1>6, <2>1, StackCalm
<1>8. pc'[p] = w /\ call'[p] = call[p] /\ vis'[p] = vis[p] /\ snap'[p] = snap[p] /\ proc'[p].xmin = proc[p].xmin
  BY <1>1, <1>6, SetsValues
<1>9. Keeps(p)
  BY <1>3, <1>8 DEF Keeps, Live
<1>10. pc'[p] \notin Snapping /\ pc'[p] \notin {"idle", "out"}
  BY <1>3, <1>8 DEF Snapping
<1> QED BY <1>7, <1>9, <1>10, CalmStep

\* The entry of a prepared transaction after a step that leaves its place.
GoodEntry(d, g) ==
  /\ g \in GXacts /\ (g.valid <=> gxact[d].valid)
  /\ g.xid < Bound /\ \A x \in g.children : x < Bound
  /\ g.valid => g.xid # InvalidXid

\* A step of the session that has it, or takes it.
LEMMA EntryCalm ==
  ASSUME ArrayInv, NEW p \in Sessions, NEW w, NEW c, NEW v, NEW n, NEW x, NEW d \in Dummies, NEW g,
         Good(w, c, v, n, x), Sets(p, w, c, v, n, x), xact' = xact, gxact' = [gxact EXCEPT ![d] = g],
         GoodEntry(d, g), gxact[d].locker \in {p, NoProc}
  PROVE  Calm(p) /\ Prepd' /\ gxact'[d] = g
<1>1. Typed /\ Prepd /\ xact \in [Sessions -> Seq(Levels)] /\ gxact \in [Dummies -> GXacts]
  BY DEF ArrayInv, Typed
<1>2. /\ gxact' \in [Dummies -> GXacts] /\ gxact'[d] = g
      /\ \A e \in Dummies \ {d} : gxact'[e] = gxact[e]
  BY <1>1 DEF GoodEntry
<1>3. XactsApart(p)
  <2>1. ASSUME NEW q \in Sessions \ {p}, pc[q] \in Working PROVE gxact'[call[q].gxact] = gxact[call[q].gxact]
    <3>1. call[q].gxact # d
      BY <2>1, WorkersApart
    <3>2. call[q].gxact \in Dummies
      BY <2>1 DEF ArrayInv, Session, Works
    <3> QED BY <1>2, <3>1, <3>2
  <2> QED BY <1>1, <1>2, <2>1 DEF XactsApart
<1>4. Calm(p)
  BY <1>1, <1>3, SetsCalm
<1>5. Bound' = Bound /\ \A m : Listed(m)' <=> Listed(m)
  BY <1>4 DEF Calm, Bound, Listed
<1>6. ASSUME NEW e \in Dummies
      PROVE  (/\ Listed(e) <=> gxact[e].valid
              /\ gxact[e].xid < Bound /\ \A y \in gxact[e].children : y < Bound
              /\ gxact[e].valid => gxact[e].xid # InvalidXid)'
  <2>1. CASE e = d
    BY <1>1, <1>2, <1>5, <2>1 DEF Prepd, GoodEntry
  <2>2. CASE e # d
    BY <1>1, <1>2, <1>5, <2>2 DEF Prepd
  <2> QED BY <2>1, <2>2
<1>7. Prepd'
  BY <1>6 DEF Prepd
<1> QED BY <1>2, <1>4, <1>7

\* A prepare that fails, and finishing a prepared transaction but for its leaving the array.
LEMMA EntrySteps ==
  ASSUME ArrayInv, SnapInv, NEW p \in Sessions,
         \/ PrepareFails(p) \/ FinishPreparedFails(p) \/ RemoveGXact(p)
         \/ \E d \in Dummies, status \in {Committed, Aborted} : FinishPreparedTransaction(p, d, status)
  PROVE  ArrayInv' /\ SnapInv'
<1>1. /\ Typed /\ Session(p) /\ Snaps(p) /\ IsCall(call[p]) /\ call = [q \in Sessions |-> call[q]]
      /\ gxact \in [Dummies -> GXacts] /\ 0 < Bound /\ Prepd /\ p \in Nat
  BY Unmoved, ProcArrayAssumption DEF ArrayInv, Typed, SnapInv, Members
<1>2. UNCHANGED <<arrayVars, vis, snap, xact>>
  BY DEF PrepareFails, FinishPreparedFails, RemoveGXact, FinishPreparedTransaction
<1>3. xact' = xact
  BY <1>2
\* All of them go on from here.
<1>4. ASSUME NEW w, NEW c, NEW d \in Dummies, NEW g,
             pc' = [pc EXCEPT ![p] = w], call' = [call EXCEPT ![p] = c], IsCall(c),
             gxact' = [gxact EXCEPT ![d] = g], GoodEntry(d, g), gxact[d].locker \in {p, NoProc},
             w \notin Snapping, w \notin {"idle", "out"}, pc[p] \in Over => w \in Over
      PROVE  /\ Calm(p) /\ Prepd' /\ gxact'[d] = g /\ pc'[p] = w /\ call'[p] = c
             /\ Session(p)' => ArrayInv' /\ SnapInv'
  <2>a. PICK v, n, x : v = vis[p] /\ n = snap[p] /\ x = proc[p].xmin
    OBVIOUS
  <2>1. Good(w, c, v, n, x) /\ Sets(p, w, c, v, n, x)
    BY <1>1, <1>2, <1>4, <2>a, Unmoved DEF Good, Sets, arrayVars, transamVars, denseVars
  <2>b. gxact' = [gxact EXCEPT ![d] = g] /\ GoodEntry(d, g) /\ gxact[d].locker \in {p, NoProc}
    BY <1>4
  <2>2. Calm(p) /\ Prepd' /\ gxact'[d] = g
    BY <1>3, <2>1, <2>b, EntryCalm
  <2>3. pc'[p] = w /\ call'[p] = c /\ vis'[p] = vis[p] /\ snap'[p] = snap[p] /\ proc'[p].xmin = proc[p].xmin
    BY <1>1, <2>1, <2>a, SetsValues
  <2>4. Keeps(p)
    BY <1>4, <2>3 DEF Keeps, Live, Snapping, Over
  <2>5. Session(p)' => ArrayInv' /\ SnapInv'
    BY <1>4, <2>2, <2>3, <2>4, CalmStep
  <2> QED BY <2>2, <2>3, <2>5
<1>5. ASSUME NEW g, g = NoGXact
      PROVE  g \in GXacts /\ g.valid = FALSE /\ g.xid < Bound /\ \A x \in g.children : x < Bound
  BY <1>1, <1>5 DEF NoGXact, GXacts, NoProc, InvalidXid
<1>6. ASSUME Calm(p) PROVE XidsBelow(p)' /\ TopXid(p)' = TopXid(p)
  <2>1. Bound' = Bound
    BY <1>6 DEF Calm, Bound
  <2> QED BY <1>1, <1>3, <2>1 DEF Session, XidsBelow, TopXid
<1>7. CASE PrepareFails(p)
  <2>1. PICK d : d = call[p].gxact
    OBVIOUS
  <2>2. d \in Dummies /\ gxact[d].locker = p /\ ~gxact[d].valid /\ pc[p] = "prepare_add"
    BY <1>1, <1>7, <2>1 DEF PrepareFails, Session, Works, Working
  <2>3. PICK g : g = NoGXact
    OBVIOUS
  <2>4. GoodEntry(d, g)
    BY <1>5, <2>2, <2>3 DEF GoodEntry
  <2>5. PICK c : c = [NoCall EXCEPT !.writes = TreeStatusWrites(xact[p][1].xid, xact[p][1].children, Aborted)]
    OBVIOUS
  <2>6. IsCall(c)
    BY <2>5, Blanks DEF IsCall
  <2>7. pc' = [pc EXCEPT ![p] = "record"] /\ call' = [call EXCEPT ![p] = c] /\ gxact' = [gxact EXCEPT ![d] = g]
    BY <1>7, <2>1, <2>3, <2>5 DEF PrepareFails, Goto
  <2>8. gxact[d].locker \in {p, NoProc} /\ "record" \notin Snapping /\ "record" \notin {"idle", "out"} /\ "record" \in Over
    BY <2>2 DEF Snapping, Over
  <2>9. /\ Calm(p) /\ Prepd' /\ gxact'[d] = g /\ pc'[p] = "record" /\ call'[p] = c
        /\ Session(p)' => ArrayInv' /\ SnapInv'
    BY <1>4, <2>2, <2>4, <2>6, <2>7, <2>8
  <2>10. Session(p)'
    <3>1. p \in Members
      BY DEF Members
    <3>2. proc'[p].xid = proc[p].xid /\ proc'[p].pgxactoff = proc[p].pgxactoff
      BY <2>9, <3>1 DEF Calm
    <3>3. xids' = xids /\ (Listed(p)' <=> Listed(p))
      BY <2>9 DEF Calm, Listed
    <3>4. Works(p)' /\ Handed(p)' /\ XidsBelow(p)' /\ TopXid(p)' = TopXid(p)
      BY <1>6, <2>9 DEF Works, Handed, Working
    <3>5. Nested(p)'
      BY <1>1, <1>3, <2>2, <2>9 DEF Session, Nested
    <3>6. TopListed(p)'
      BY <1>1, <2>2, <2>9, <3>2, <3>3, <3>4 DEF Session, TopListed
    <3>7. (Listed(p) <=> pc[p] # "out")' /\ (pc[p] \in Sharing => p \in sharers)'
      BY <1>1, <2>2, <2>9, <3>3 DEF Session, Sharing
    <3> QED BY <3>4, <3>5, <3>6, <3>7 DEF Session
  <2> QED BY <2>9, <2>10
<1>8. CASE FinishPreparedFails(p)
  <2>1. PICK d : d = call[p].gxact
    OBVIOUS
  <2>2. d \in Dummies /\ gxact[d].locker = p /\ pc[p] = "finish_read"
    BY <1>1, <1>8, <2>1 DEF FinishPreparedFails, Session, Works, Working
  <2>3. PICK g : g = [gxact[d] EXCEPT !.locker = NoProc]
    OBVIOUS
  <2>4. GoodEntry(d, g)
    <3>1. gxact[d] \in GXacts
      BY <1>1, <2>2
    <3>2. g \in GXacts /\ g.valid = gxact[d].valid /\ g.xid = gxact[d].xid /\ g.children = gxact[d].children
      BY <2>3, <3>1 DEF GXacts, NoProc
    <3> QED BY <1>1, <2>2, <3>2 DEF GoodEntry, Prepd
  <2>7. pc' = [pc EXCEPT ![p] = "run"] /\ call' = [call EXCEPT ![p] = NoCall] /\ gxact' = [gxact EXCEPT ![d] = g]
    BY <1>1, <1>8, <2>1, <2>2, <2>3 DEF FinishPreparedFails, Goto
  <2>8. gxact[d].locker \in {p, NoProc} /\ "run" \notin Snapping /\ "run" \notin {"idle", "out"} /\ pc[p] \notin Over
    BY <2>2 DEF Snapping, Over
  <2>9. /\ Calm(p) /\ Prepd' /\ gxact'[d] = g /\ pc'[p] = "run" /\ call'[p] = NoCall
        /\ Session(p)' => ArrayInv' /\ SnapInv'
    BY <1>4, <2>2, <2>4, <2>7, <2>8, Blanks
  <2>10. Session(p)'
    <3>1. pc[p] \notin {"out", "xid_release"} /\ pc'[p] \in Free /\ pc'[p] # "idle"
      BY <2>2, <2>9 DEF Free
    <3> QED BY <1>6, <2>9, <3>1, FreeSession
  <2> QED BY <2>9, <2>10
<1>9. CASE RemoveGXact(p)
  <2>1. PICK d : d = call[p].gxact
    OBVIOUS
  <2>2. d \in Dummies /\ gxact[d].locker = p /\ ~gxact[d].valid /\ pc[p] = "finish_done"
    BY <1>1, <1>9, <2>1 DEF RemoveGXact, Session, Works, Working
  <2>3. PICK g : g = NoGXact
    OBVIOUS
  <2>4. GoodEntry(d, g)
    BY <1>5, <2>2, <2>3 DEF GoodEntry
  <2>7. pc' = [pc EXCEPT ![p] = "run"] /\ call' = [call EXCEPT ![p] = NoCall] /\ gxact' = [gxact EXCEPT ![d] = g]
    BY <1>9, <2>1, <2>3 DEF RemoveGXact, Goto
  <2>8. gxact[d].locker \in {p, NoProc} /\ "run" \notin Snapping /\ "run" \notin {"idle", "out"} /\ pc[p] \notin Over
    BY <2>2 DEF Snapping, Over
  <2>9. /\ Calm(p) /\ Prepd' /\ gxact'[d] = g /\ pc'[p] = "run" /\ call'[p] = NoCall
        /\ Session(p)' => ArrayInv' /\ SnapInv'
    BY <1>4, <2>2, <2>4, <2>7, <2>8, Blanks
  <2>10. Session(p)'
    <3>1. pc[p] \notin {"out", "xid_release"} /\ pc'[p] \in Free /\ pc'[p] # "idle"
      BY <2>2, <2>9 DEF Free
    <3> QED BY <1>6, <2>9, <3>1, FreeSession
  <2> QED BY <2>9, <2>10
<1>10. ASSUME NEW d \in Dummies, NEW status, FinishPreparedTransaction(p, d, status)
       PROVE  ArrayInv' /\ SnapInv'
  <2>1. pc[p] = "run" /\ gxact[d].valid /\ gxact[d].locker = NoProc /\ gxact' = [gxact EXCEPT ![d].locker = p]
    BY <1>10 DEF FinishPreparedTransaction, LockGXact
  <2>2. PICK g : g = [gxact[d] EXCEPT !.locker = p]
    OBVIOUS
  <2>3. gxact[d] \in GXacts
    BY <1>1
  <2>4. g \in GXacts /\ g.valid = gxact[d].valid /\ g.xid = gxact[d].xid /\ g.children = gxact[d].children /\ g.locker = p
    BY <1>1, <2>2, <2>3 DEF GXacts
  <2>5. GoodEntry(d, g) /\ gxact' = [gxact EXCEPT ![d] = g]
    BY <1>1, <2>1, <2>2, <2>4 DEF GoodEntry, Prepd
  <2>6. PICK wr : wr = TreeStatusWrites(gxact[d].xid, gxact[d].children, status)
    OBVIOUS
  <2>7. PICK c : c = [call[p] EXCEPT !.gxact = d, !.writes = wr]
    OBVIOUS
  <2>8. IsCall(c) /\ c.gxact = d
    BY <1>1, <2>7 DEF IsCall
  <2>9. pc' = [pc EXCEPT ![p] = "finish_read"] /\ call' = [call EXCEPT ![p] = c]
    BY <1>1, <1>10, <2>6, <2>7 DEF FinishPreparedTransaction, Goto
  <2>10. gxact[d].locker \in {p, NoProc} /\ "finish_read" \notin Snapping /\ "finish_read" \notin {"idle", "out"} /\ pc[p] \notin Over
    BY <2>1 DEF Snapping, Over
  <2>11. /\ Calm(p) /\ Prepd' /\ gxact'[d] = g /\ pc'[p] = "finish_read" /\ call'[p] = c
         /\ Session(p)' => ArrayInv' /\ SnapInv'
    BY <1>4, <2>5, <2>8, <2>9, <2>10
  <2>12. Session(p)'
    <3>1. p \in Members
      BY DEF Members
    <3>2. proc'[p].xid = proc[p].xid /\ proc'[p].pgxactoff = proc[p].pgxactoff
      BY <2>11, <3>1 DEF Calm
    <3>3. xids' = xids /\ (Listed(p)' <=> Listed(p))
      BY <2>11 DEF Calm, Listed
    <3>4. Works(p)'
      BY <2>1, <2>4, <2>8, <2>11 DEF Works, Working
    <3>5. Handed(p)' /\ XidsBelow(p)' /\ TopXid(p)' = TopXid(p) /\ Nested(p)'
      BY <1>6, <2>11 DEF Handed, Nested
    <3>6. TopListed(p)'
      BY <1>1, <2>1, <2>11, <3>2, <3>3, <3>5 DEF Session, TopListed
    <3>7. (Listed(p) <=> pc[p] # "out")' /\ (pc[p] \in Sharing => p \in sharers)'
      BY <1>1, <2>1, <2>11, <3>3 DEF Session, Sharing
    <3> QED BY <3>4, <3>5, <3>6, <3>7 DEF Session
  <2> QED BY <2>11, <2>12
<1> QED BY <1>7, <1>8, <1>9, <1>10

(***************************************************************************)
(* Snapshots given back.                                                   *)
(***************************************************************************)

\* The snapshots that a session's state holds.
Using(m) == {m.active[i].snap : i \in DOMAIN m.active} \cup {h.snap : h \in m.registered}

\* The advertised xmin is kept, goes with the last snapshot, or becomes the least of them.
Advertises(s, old, new) ==
  \/ new = old
  \/ new = InvalidXid /\ Using(s) = {}
  \/ \E t \in Using(s) : new = t.xmin /\ \A u \in Using(s) : new <= u.xmin

\* What Release sets.
LEMMA Released ==
  ASSUME Typed, NEW p \in Sessions, NEW s, IsSnaps(s), Release(p, s)
  PROVE  \E v, x : /\ vis' = [vis EXCEPT ![p] = v] /\ IsVis(v) /\ v.maybeNeeded = vis[p].maybeNeeded
                   /\ proc' = [proc EXCEPT ![p].xmin = x] /\ x \in Nat /\ Advertises(s, proc[p].xmin, x)
<1>1. IsVis(vis[p]) /\ vis = [q \in Sessions |-> vis[q]]
  BY DEF Typed
<1>2. \A h \in s.registered : h.snap.xmin \in Nat
  BY DEF IsSnaps, IsHeld, IsSnap
<1>3. ASSUME NEW x \in Nat, Advertises(s, proc[p].xmin, x), proc' = [proc EXCEPT ![p].xmin = x],
             vis' = [vis EXCEPT ![p].TransactionXmin = x]
      PROVE  \E v, y : /\ vis' = [vis EXCEPT ![p] = v] /\ IsVis(v) /\ v.maybeNeeded = vis[p].maybeNeeded
                       /\ proc' = [proc EXCEPT ![p].xmin = y] /\ y \in Nat /\ Advertises(s, proc[p].xmin, y)
  <2>1. PICK v : v = [vis[p] EXCEPT !.TransactionXmin = x]
    OBVIOUS
  <2>2. IsVis(v) /\ v.maybeNeeded = vis[p].maybeNeeded
    BY <1>1, <2>1 DEF IsVis
  <2>3. vis' = [vis EXCEPT ![p] = v]
    BY <1>1, <1>3, <2>1
  <2> QED BY <1>3, <2>2, <2>3
<1>4. CASE s.active = <<>> /\ s.registered = {}
  <2>1. proc' = [proc EXCEPT ![p].xmin = InvalidXid] /\ vis' = [vis EXCEPT ![p].TransactionXmin = InvalidXid]
    BY <1>4 DEF Release, SnapshotResetXmin
  <2>2. Using(s) = {}
    BY <1>4 DEF Using
  <2>3. InvalidXid \in Nat /\ Advertises(s, proc[p].xmin, InvalidXid)
    BY <2>2 DEF Advertises, InvalidXid
  <2> QED BY <1>3, <2>1, <2>3
<1>5. CASE s.active = <<>> /\ s.registered # {}
  <2>1. PICK T : T = {h.snap.xmin : h \in s.registered}
    OBVIOUS
  <2>2. T \in SUBSET Nat /\ T # {}
    BY <1>2, <1>5, <2>1
  <2>3. \E x \in T : \A y \in T : x <= y
    BY <2>2, LeastNat
  <2>4. PICK m : m = CHOOSE x \in T : \A y \in T : x <= y
    OBVIOUS
  <2>5. m \in T /\ \A y \in T : m <= y
    BY <2>3, <2>4
  <2>6. CASE proc[p].xmin < m
    <3>1. proc' = [proc EXCEPT ![p].xmin = m] /\ vis' = [vis EXCEPT ![p].TransactionXmin = m]
      BY <1>5, <2>1, <2>4, <2>6 DEF Release, SnapshotResetXmin
    <3>2. Using(s) = {h.snap : h \in s.registered}
      BY <1>5 DEF Using
    <3>3. m \in Nat /\ Advertises(s, proc[p].xmin, m)
      BY <2>1, <2>2, <2>5, <3>2 DEF Advertises
    <3> QED BY <1>3, <3>1, <3>3
  <2>7. CASE ~(proc[p].xmin < m)
    <3>1. proc' = proc /\ vis' = vis
      BY <1>5, <2>1, <2>4, <2>7 DEF Release, SnapshotResetXmin
    <3> QED BY <1>1, <3>1, Unmoved DEF Advertises
  <2> QED BY <2>6, <2>7
<1>6. CASE s.active # <<>>
  <2>1. proc' = proc /\ vis' = vis
    BY <1>6 DEF Release, SnapshotResetXmin
  <2> QED BY <1>1, <2>1, Unmoved DEF Advertises
<1> QED BY <1>4, <1>5, <1>6

\* A state s of the snapshots that holds no more than the session reads with.
Fewer(p, s) ==
  /\ IsSnaps(s) /\ Using(s) \subseteq Live(p)
  /\ \A w \in Structs : s.static[w] = snap[p].static[w]

\* Giving them up keeps the others.
LEMMA ReleaseSets ==
  ASSUME Typed, NEW p \in Sessions, NEW s, Fewer(p, s), Release(p, s), NEW w, NEW c, IsCall(c),
         pc' = [pc EXCEPT ![p] = w], call' = [call EXCEPT ![p] = c], w \notin Over, w # "taken"
  PROVE  \E v, x : Good(w, c, v, s, x) /\ Sets(p, w, c, v, s, x) /\ Keeps(p)
<1>1. PICK v, x : /\ vis' = [vis EXCEPT ![p] = v] /\ IsVis(v) /\ v.maybeNeeded = vis[p].maybeNeeded
                  /\ proc' = [proc EXCEPT ![p].xmin = x] /\ x \in Nat /\ Advertises(s, proc[p].xmin, x)
  BY Released DEF Fewer
<1>2. Good(w, c, v, s, x)
  BY <1>1 DEF Good, Fewer
<1>3. Sets(p, w, c, v, s, x)
  BY <1>1 DEF Sets, Release, transamVars, denseVars
<1>4. pc'[p] = w /\ call'[p] = c /\ vis'[p] = v /\ snap'[p] = s /\ proc'[p].xmin = x
  BY <1>2, <1>3, SetsValues
<1>5. Live(p)' = Using(s)
  BY <1>4 DEF Live, Using, Over
<1>6. Keeps(p)
  <2>1. \/ proc'[p].xmin = proc[p].xmin
        \/ proc'[p].xmin = InvalidXid /\ Live(p)' = {}
        \/ \E t \in Live(p)' : proc'[p].xmin = t.xmin /\ \A u \in Live(p)' : t.xmin <= u.xmin
    BY <1>1, <1>4, <1>5 DEF Advertises
  <2> QED BY <1>1, <1>4, <1>5, <2>1 DEF Keeps, Fewer
<1> QED BY <1>2, <1>3, <1>6

\* A stack of active snapshots that holds no snapshot m's does not.
PartOf(a, m) ==
  /\ a \in Seq(Entries(a))
  /\ \A h \in Entries(a) : IsHeld(h) /\ \E i \in DOMAIN m.active : h.snap = m.active[i].snap

\* The stack, a part of it from the bottom, the stack with other levels, none.
LEMMA StackParts ==
  ASSUME NEW m, IsSnaps(m)
  PROVE  /\ PartOf(m.active, m) /\ PartOf(<<>>, m)
         /\ \A k \in 0 .. Len(m.active) : PartOf(SubSeq(m.active, 1, k), m)
         /\ m.active # <<>> => PartOf(Front(m.active), m)
         /\ \A a : (/\ DOMAIN a = DOMAIN m.active /\ a = [i \in DOMAIN a |-> a[i]]
                    /\ \A i \in DOMAIN a : IsHeld(a[i]) /\ a[i].snap = m.active[i].snap) => PartOf(a, m)
<1>1. PICK S : S = Entries(m.active)
  OBVIOUS
<1>2. PICK s \in Seq(S) : s = m.active
  BY <1>1 DEF IsSnaps
<1>3. \A h \in S : IsHeld(h) /\ \E i \in DOMAIN s : h.snap = s[i].snap
  BY <1>1, <1>2 DEF IsSnaps, Entries
<1>4. PartOf(s, m) /\ PartOf(<<>>, m)
  BY <1>1, <1>2, <1>3 DEF PartOf, Entries
<1>5. ASSUME NEW k \in 0 .. Len(s) PROVE PartOf(SubSeq(s, 1, k), m)
  <2>1. PICK t : t = SubSeq(s, 1, k)
    OBVIOUS
  <2>2. t \in Seq(S) /\ Len(t) = k /\ DOMAIN t = 1 .. k /\ \A i \in 1 .. k : t[i] = s[i]
    BY <2>1
  <2>3. \A i \in 1 .. k : i \in DOMAIN s
    OBVIOUS
  <2>4. t \in Seq(Entries(t))
    <3>1. t = [i \in 1 .. k |-> t[i]] /\ \A i \in 1 .. k : t[i] \in Entries(t)
      BY <2>2 DEF Entries
    <3>2. t \in [1 .. k -> Entries(t)] /\ k \in Nat
      BY <3>1
    <3> QED BY <3>2, SeqDef
  <2>5. ASSUME NEW h \in Entries(t) PROVE IsHeld(h) /\ \E i \in DOMAIN m.active : h.snap = m.active[i].snap
    <3>1. PICK i \in 1 .. k : h = t[i]
      BY <2>2 DEF Entries
    <3>2. h = s[i] /\ i \in DOMAIN s /\ s[i] \in S
      BY <2>2, <2>3, <3>1
    <3> QED BY <1>2, <1>3, <3>2
  <2> QED BY <2>1, <2>4, <2>5 DEF PartOf
<1>6. s # <<>> => PartOf(Front(s), m)
  <2>1. s # <<>> => Len(s) - 1 \in 0 .. Len(s)
    OBVIOUS
  <2> QED BY <1>5, <2>1 DEF Front
<1>7. ASSUME NEW a, DOMAIN a = DOMAIN s, a = [i \in DOMAIN a |-> a[i]],
             \A i \in DOMAIN a : IsHeld(a[i]) /\ a[i].snap = s[i].snap
      PROVE  PartOf(a, m)
  <2>1. PICK n \in Nat : DOMAIN a = 1 .. n
    BY <1>7
  <2>2. a \in [1 .. n -> Entries(a)]
    BY <1>7, <2>1 DEF Entries
  <2>3. a \in Seq(Entries(a))
    BY <2>2, SeqDef
  <2> QED BY <1>2, <1>7, <2>3 DEF PartOf, Entries
<1> QED BY <1>2, <1>4, <1>5, <1>6, <1>7

\* A state with a part of the stack and some of the registered snapshots.
LEMMA FewerOf ==
  ASSUME Typed, NEW p \in Sessions, pc[p] \notin Over, NEW s, NEW a, NEW r, NEW b,
         s = [static |-> snap[p].static, active |-> a, registered |-> r, catalogValid |-> b],
         PartOf(a, snap[p]), r \subseteq snap[p].registered
  PROVE  Fewer(p, s)
<1>1. IsSnaps(snap[p])
  BY DEF Typed
<1>2. PICK m : m = snap[p]
  OBVIOUS
<1>3. s.static = m.static /\ s.active = a /\ s.registered = r /\ s.catalogValid = b
  BY <1>2
<1>4. IsSnaps(s)
  <2>1. s = [static |-> s.static, active |-> s.active, registered |-> s.registered, catalogValid |-> s.catalogValid]
    BY <1>2, <1>3
  <2>2. s.static = [w \in Structs |-> s.static[w]] /\ \A w \in Structs : IsSnap(s.static[w])
    BY <1>1, <1>2, <1>3 DEF IsSnaps
  <2>3. s.active \in Seq(Entries(s.active)) /\ \A h \in Entries(s.active) : IsHeld(h)
    BY <1>3 DEF PartOf
  <2>4. \A h \in s.registered : IsHeld(h)
    BY <1>1, <1>2, <1>3 DEF IsSnaps
  <2> QED BY <2>1, <2>2, <2>3, <2>4 DEF IsSnaps
<1>5. Using(s) \subseteq Live(p)
  <2>1. \A i \in DOMAIN a : \E j \in DOMAIN m.active : a[i].snap = m.active[j].snap
    BY <1>2 DEF PartOf, Entries
  <2>2. \A h \in r : h \in m.registered
    BY <1>2
  <2> QED BY <1>2, <1>3, <2>1, <2>2 DEF Using, Live, Over
<1> QED BY <1>2, <1>3, <1>4, <1>5 DEF Fewer

\* After AtEOXact_Snapshot nothing is in use.
LEMMA NoneLeft ==
  ASSUME Typed, NEW p \in Sessions
  PROVE  Fewer(p, AtEOXactSnapshot(p)) /\ Using(AtEOXactSnapshot(p)) = {}
<1>1. PICK m : m = snap[p] /\ IsSnaps(m)
  BY DEF Typed
<1>2. PICK s : s = AtEOXactSnapshot(p)
  OBVIOUS
<1>3. s = [static |-> m.static, active |-> <<>>, registered |-> {}, catalogValid |-> FALSE]
  BY <1>1, <1>2 DEF AtEOXactSnapshot, NoSnaps
<1>4. s.static = m.static /\ s.active = <<>> /\ s.registered = {} /\ s.catalogValid = FALSE
  BY <1>3
<1>5. Using(s) = {}
  BY <1>4 DEF Using
<1>6. IsSnaps(s)
  <2>1. s = [static |-> s.static, active |-> s.active, registered |-> s.registered, catalogValid |-> s.catalogValid]
    BY <1>3, <1>4
  <2>2. s.static = [w \in Structs |-> s.static[w]] /\ \A w \in Structs : IsSnap(s.static[w])
    BY <1>1, <1>4 DEF IsSnaps
  <2>3. s.active \in Seq(Entries(s.active)) /\ Entries(s.active) = {}
    BY <1>4 DEF Entries
  <2> QED BY <1>4, <2>1, <2>2, <2>3 DEF IsSnaps
<1> QED BY <1>1, <1>2, <1>4, <1>5, <1>6 DEF Fewer

\* A step that gives up snapshots, and perhaps a level of the transaction.
LEMMA ReleaseStep ==
  ASSUME ArrayInv, SnapInv, NEW p \in Sessions, NEW s, Fewer(p, s), Release(p, s),
         NEW w, w \in Free, w # "idle", pc' = [pc EXCEPT ![p] = w], call' = call,
         NEW l, xact' = [xact EXCEPT ![p] = l], GoodStack(l), TopOf(l) = TopXid(p), gxact' = gxact,
         pc[p] \notin {"out", "xid_release"}
  PROVE  ArrayInv' /\ SnapInv'
<1>1. Typed
  BY DEF ArrayInv
<1>2. w \notin Over /\ w # "taken" /\ w \notin Snapping
  BY DEF Over, Snapping, Free
<1>3. PICK c : c = call[p] /\ IsCall(c) /\ call' = [call EXCEPT ![p] = c]
  BY <1>1, Unmoved
<1>4. PICK v, x : Good(w, c, v, s, x) /\ Sets(p, w, c, v, s, x) /\ Keeps(p)
  BY <1>1, <1>2, <1>3, ReleaseSets
<1>5. Calm(p) /\ Prepd' /\ Session(p)'
  BY <1>4, StackCalm
<1>6. pc'[p] = w
  BY <1>1, <1>4, SetsValues
<1>7. pc'[p] \notin Snapping /\ pc'[p] \notin {"idle", "out"}
  BY <1>2, <1>6 DEF Free
<1> QED BY <1>4, <1>5, <1>7, CalmStep

\* Snapshots popped, unregistered or invalidated, and the end of a subtransaction's.
LEMMA ReleaseSteps ==
  ASSUME ArrayInv, SnapInv, NEW p \in Sessions,
         \/ /\ PopActiveSnapshot(p) \/ InvalidateCatalogSnapshot(p) \/ UnregisterSnapshot(p)
            /\ UNCHANGED <<logVars, xact, gxact, plan>>
         \/ AbortSubTransactionCleanup(p)
  PROVE  ArrayInv' /\ SnapInv'
<1>1. Typed /\ IsSnaps(snap[p])
  BY DEF ArrayInv, Typed
<1>2. PICK m : m = snap[p]
  OBVIOUS
<1>3. m = [static |-> m.static, active |-> m.active, registered |-> m.registered, catalogValid |-> m.catalogValid]
  BY <1>1, <1>2 DEF IsSnaps
<1>4. call' = call /\ xact' = xact /\ gxact' = gxact
  BY DEF PopActiveSnapshot, InvalidateCatalogSnapshot, UnregisterSnapshot, AbortSubTransactionCleanup
<1>5. pc[p] \in {"run", "sub_cleanup"} /\ pc' = [pc EXCEPT ![p] = "run"]
  BY <1>1, Unmoved DEF PopActiveSnapshot, InvalidateCatalogSnapshot, UnregisterSnapshot,
                       AbortSubTransactionCleanup, Goto
<1>6. PICK l : l = xact[p]
  OBVIOUS
<1>7. GoodStack(l) /\ TopOf(l) = TopXid(p) /\ xact' = [xact EXCEPT ![p] = l]
  <2>1. xact \in [Sessions -> Seq(Levels)]
    BY <1>1 DEF Typed
  <2> QED BY <1>4, <1>6, <2>1, Stacks
<1>8. pc[p] \notin Over /\ pc[p] \notin {"out", "xid_release"} /\ "run" \in Free
  BY <1>5 DEF Over, Free
<1>9. ASSUME NEW s, NEW a, NEW r, NEW b, Release(p, s),
             s = [static |-> m.static, active |-> a, registered |-> r, catalogValid |-> b],
             PartOf(a, m), r \subseteq m.registered
      PROVE  ArrayInv' /\ SnapInv'
  <2>1. Fewer(p, s)
    BY <1>1, <1>2, <1>8, <1>9, FewerOf
  <2> QED BY <1>4, <1>5, <1>7, <1>8, <1>9, <2>1, ReleaseStep
<1>10. PartOf(m.active, m) /\ (m.active # <<>> => PartOf(Front(m.active), m))
  BY <1>1, <1>2, StackParts
<1>11. CASE PopActiveSnapshot(p)
  <2>1. PICK s : s = [m EXCEPT !.active = Front(m.active)]
    OBVIOUS
  <2>2. Release(p, s) /\ m.active # <<>>
    BY <1>2, <1>11, <2>1 DEF PopActiveSnapshot
  <2>3. s = [static |-> m.static, active |-> Front(m.active), registered |-> m.registered, catalogValid |-> m.catalogValid]
    BY <1>3, <2>1
  <2>4. m.registered \subseteq m.registered
    OBVIOUS
  <2> QED BY <1>9, <1>10, <2>2, <2>3, <2>4
<1>12. CASE InvalidateCatalogSnapshot(p)
  <2>1. PICK r : r = m.registered \ {CatalogEntry(p)}
    OBVIOUS
  <2>2. PICK s : s = [m EXCEPT !.catalogValid = FALSE, !.registered = r]
    OBVIOUS
  <2>3. Release(p, s)
    BY <1>2, <1>12, <2>1, <2>2 DEF InvalidateCatalogSnapshot, WithoutCatalog
  <2>4. s = [static |-> m.static, active |-> m.active, registered |-> r, catalogValid |-> FALSE]
    BY <1>3, <2>2
  <2>5. r \subseteq m.registered
    BY <2>1
  <2> QED BY <1>9, <1>10, <2>3, <2>4, <2>5
<1>13. CASE UnregisterSnapshot(p)
  <2>1. PICK h \in m.registered : Release(p, [m EXCEPT !.registered = m.registered \ {h}])
    BY <1>2, <1>13 DEF UnregisterSnapshot
  <2>2. PICK r : r = m.registered \ {h}
    OBVIOUS
  <2>3. PICK s : s = [m EXCEPT !.registered = r]
    OBVIOUS
  <2>4. Release(p, s)
    BY <2>1, <2>2, <2>3
  <2>5. s = [static |-> m.static, active |-> m.active, registered |-> r, catalogValid |-> m.catalogValid]
    BY <1>3, <2>3
  <2>6. r \subseteq m.registered
    BY <2>2
  <2> QED BY <1>9, <1>10, <2>4, <2>5, <2>6
<1>14. CASE AbortSubTransactionCleanup(p)
  <2>1. PICK n : n = Len(xact[p]) + 1
    OBVIOUS
  <2>2. PICK O : O = {0} \cup {i \in DOMAIN m.active : m.active[i].level < n}
    OBVIOUS
  <2>3. m.active \in Seq(Entries(m.active))
    BY <1>1, <1>2 DEF IsSnaps
  <2>4. O \in SUBSET Nat /\ O # {} /\ Len(m.active) + 1 \in Nat /\ \A i \in O : i < Len(m.active) + 1
    BY <2>2, <2>3
  <2>5. Max(O) \in O
    BY <2>4, MaxNat
  <2>6. Max(O) \in 0 .. Len(m.active)
    <3>1. PICK k : k = Max(O)
      OBVIOUS
    <3>2. PICK len \in Nat : len = Len(m.active)
      BY <2>3
    <3>3. k \in O
      BY <2>5, <3>1
    <3>4. k \in Nat /\ k < len + 1
      BY <2>4, <3>2, <3>3
    <3>5. k \in 0 .. len
      BY <3>4
    <3> QED BY <3>1, <3>2, <3>5
  <2>7. PICK a : a = SubSeq(m.active, 1, Max(O))
    OBVIOUS
  <2>8. PartOf(a, m)
    BY <1>1, <1>2, <2>6, <2>7, StackParts
  <2>9. PICK r : r = {h \in m.registered : h.level < n}
    OBVIOUS
  <2>10. PICK s : s = [m EXCEPT !.active = a, !.registered = r]
    OBVIOUS
  <2>11. Release(p, s)
    BY <1>2, <1>14, <2>1, <2>2, <2>7, <2>9, <2>10 DEF AbortSubTransactionCleanup, AtSubAbortSnapshot
  <2>12. s = [static |-> m.static, active |-> a, registered |-> r, catalogValid |-> m.catalogValid]
    BY <1>3, <2>10
  <2>13. r \subseteq m.registered
    BY <2>9
  <2> QED BY <1>9, <2>8, <2>11, <2>12, <2>13
<1> QED BY <1>11, <1>12, <1>13, <1>14

\* Stacks with a level committed into its parent: same top, xids in use.
LEMMA CommittedStack ==
  ASSUME ArrayInv, NEW p \in Sessions, Len(xact[p]) > 1, NEW n, n = Len(xact[p]), NEW mine,
         mine = ({xact[p][n].xid} \ {InvalidXid}) \cup xact[p][n].children,
         NEW l, l = [Front(xact[p]) EXCEPT ![n - 1].children = @ \cup mine]
  PROVE  GoodStack(l) /\ TopOf(l) = TopXid(p)
<1>1. GoodStack(Front(xact[p])) /\ TopOf(Front(xact[p])) = TopXid(p) /\ GoodStack(xact[p])
  BY Stacks
<1>2. PICK s \in Seq(Levels) : s = xact[p]
  BY <1>1 DEF GoodStack
<1>3. PICK t \in Seq(Levels) : t = Front(xact[p])
  BY <1>1 DEF GoodStack
<1>4. n \in Nat /\ n > 1 /\ n = Len(s) /\ n \in DOMAIN s
  BY <1>2
<1>5. t = SubSeq(s, 1, n - 1)
  BY <1>2, <1>3, <1>4 DEF Front
<1>6. Len(t) = n - 1 /\ DOMAIN t = 1 .. n - 1 /\ n - 1 \in DOMAIN t
  BY <1>4, <1>5
<1>7. PICK k \in DOMAIN t : k = n - 1
  BY <1>6
<1>8. PICK e \in Levels : e = t[k]
  OBVIOUS
<1>9. PICK u \in Levels : u = s[n]
  BY <1>4
<1>10. /\ e = [xid |-> e.xid, children |-> e.children] /\ e.xid \in Nat /\ e.children \in SUBSET Nat
       /\ u.xid \in Nat /\ u.children \in SUBSET Nat
  BY DEF Levels
<1>11. mine = ({u.xid} \ {InvalidXid}) \cup u.children
  BY <1>2, <1>9
<1>12. PICK f : f = [e EXCEPT !.children = e.children \cup mine]
  OBVIOUS
<1>13. f = [xid |-> e.xid, children |-> e.children \cup mine]
  BY <1>10, <1>12
<1>14. mine \in SUBSET Nat /\ f.xid = e.xid /\ f.children = e.children \cup mine
  BY <1>10, <1>11, <1>13
<1>15. f \in Levels
  BY <1>10, <1>13, <1>14 DEF Levels
<1>16. l = [t EXCEPT ![k] = f]
  BY <1>3, <1>7, <1>8, <1>12
<1>17. l \in Seq(Levels) /\ DOMAIN l = DOMAIN t /\ l[k] = f /\ \A i \in DOMAIN t \ {k} : l[i] = t[i]
  <2>1. t \in Seq(Levels) /\ k \in 1 .. Len(t) /\ f \in Levels
    BY <1>6, <1>7, <1>15
  <2>2. l \in Seq(Levels) /\ Len(l) = Len(t) /\ \A j \in 1 .. Len(t) : l[j] = IF j = k THEN f ELSE t[j]
    <3>1. PICK len \in Nat : len = Len(t)
      OBVIOUS
    <3>2. t \in [1 .. len -> Levels] /\ k \in 1 .. len
      BY <2>1, <3>1
    <3>3. l \in [1 .. len -> Levels] /\ \A j \in 1 .. len : l[j] = IF j = k THEN f ELSE t[j]
      BY <1>16, <2>1, <3>2, ZenonT(60)
    <3>a. l \in [1 .. len -> Levels] /\ len \in Nat
      BY <3>3
    <3>4. l \in Seq(Levels)
      BY ONLY <3>a, SeqDef, Zenon
    <3>5. Len(l) = len
      BY <3>3, <3>4
    <3> QED BY <3>1, <3>3, <3>4, <3>5
  <2> QED BY <2>1, <2>2
<1>18. /\ \A i \in DOMAIN t : t[i].xid < Bound /\ \A x \in t[i].children : x < Bound
       /\ \A i \in DOMAIN s : s[i].xid < Bound /\ \A x \in s[i].children : x < Bound
  BY <1>1, <1>2, <1>3 DEF GoodStack
<1>19. e.xid < Bound /\ (\A x \in e.children : x < Bound) /\ \A x \in mine : x < Bound
  BY <1>4, <1>8, <1>9, <1>11, <1>18
<1>20. ASSUME NEW i \in DOMAIN l PROVE l[i].xid < Bound /\ \A x \in l[i].children : x < Bound
  <2>1. CASE i = k
    BY <1>14, <1>17, <1>19, <2>1
  <2>2. CASE i # k
    BY <1>17, <1>18, <2>2
  <2> QED BY <2>1, <2>2
<1>21. TopOf(l) = TopOf(t)
  <2>1. t # <<>> /\ 1 \in DOMAIN t
    BY <1>4, <1>6
  <2>2. l # <<>>
    BY <1>17, <2>1
  <2>3. l[1].xid = t[1].xid
    BY <1>8, <1>14, <1>17, <2>1
  <2> QED BY <2>1, <2>2, <2>3 DEF TopOf
<1> QED BY <1>1, <1>3, <1>17, <1>20, <1>21 DEF GoodStack

\* A subtransaction committed into its parent.
LEMMA SubCommitStep ==
  ASSUME ArrayInv, SnapInv, NEW p \in Sessions, CommitSubTransaction(p)
  PROVE  ArrayInv' /\ SnapInv'
<1>1. Typed /\ IsSnaps(snap[p])
  BY DEF ArrayInv, Typed
<1>2. PICK n : n = Len(xact[p])
  OBVIOUS
<1>3. PICK mine : mine = ({xact[p][n].xid} \ {InvalidXid}) \cup xact[p][n].children
  OBVIOUS
<1>4. PICK l : l = [Front(xact[p]) EXCEPT ![n - 1].children = @ \cup mine]
  OBVIOUS
<1>5. /\ pc[p] = "run" /\ Len(xact[p]) > 1 /\ xact' = [xact EXCEPT ![p] = l]
      /\ Release(p, AtSubCommitSnapshot(p, n)) /\ pc' = pc /\ call' = call /\ gxact' = gxact
  BY <1>2, <1>3, <1>4 DEF CommitSubTransaction
<1>6. GoodStack(l) /\ TopOf(l) = TopXid(p)
  BY <1>2, <1>3, <1>4, <1>5, CommittedStack
<1>7. PICK m : m = snap[p]
  OBVIOUS
<1>8. m = [static |-> m.static, active |-> m.active, registered |-> m.registered, catalogValid |-> m.catalogValid]
  BY <1>1, <1>7 DEF IsSnaps
<1>9. PICK a : a = [i \in DOMAIN m.active |-> IF m.active[i].level >= n THEN Held(m.active[i].snap, n - 1)
                                              ELSE m.active[i]]
  OBVIOUS
<1>10. PICK r : r = {h \in m.registered : h.level < n}
  OBVIOUS
<1>11. PICK s : s = [m EXCEPT !.active = a, !.registered = r]
  OBVIOUS
<1>12. Release(p, s)
  BY <1>5, <1>7, <1>9, <1>10, <1>11 DEF AtSubCommitSnapshot
<1>13. s = [static |-> m.static, active |-> a, registered |-> r, catalogValid |-> m.catalogValid]
  BY <1>8, <1>11
<1>14. PartOf(a, m)
  <2>1. DOMAIN a = DOMAIN m.active /\ a = [i \in DOMAIN a |-> a[i]]
    BY <1>9
  <2>2. ASSUME NEW i \in DOMAIN a PROVE IsHeld(a[i]) /\ a[i].snap = m.active[i].snap
    <3>1. PICK h : h = m.active[i]
      OBVIOUS
    <3>2. h = [snap |-> h.snap, level |-> h.level] /\ IsSnap(h.snap)
      BY <1>1, <1>7, <2>1, <3>1 DEF IsSnaps, Entries, IsHeld
    <3>3. CASE m.active[i].level >= n
      <4>1. a[i] = [snap |-> h.snap, level |-> n - 1]
        BY <1>9, <2>1, <3>1, <3>3 DEF Held
      <4> QED BY <3>1, <3>2, <4>1 DEF IsHeld
    <3>4. CASE ~(m.active[i].level >= n)
      <4>1. a[i] = h
        BY <1>9, <2>1, <3>1, <3>4
      <4> QED BY <3>1, <3>2, <4>1 DEF IsHeld
    <3> QED BY <3>3, <3>4
  <2> QED BY <1>1, <1>7, <2>1, <2>2, StackParts
<1>15. r \subseteq m.registered /\ pc[p] \notin Over /\ pc[p] \notin {"out", "xid_release"} /\ "run" \in Free
  BY <1>5, <1>10 DEF Over, Free
<1>16. Fewer(p, s)
  BY <1>1, <1>7, <1>13, <1>14, <1>15, FewerOf
<1>17. pc' = [pc EXCEPT ![p] = "run"]
  BY <1>1, <1>5, Unmoved
<1> QED BY <1>5, <1>6, <1>12, <1>15, <1>16, <1>17, ReleaseStep

\* The end of a transaction without an xid.
LEMMA EndWithoutXid ==
  ASSUME ArrayInv, SnapInv, NEW p \in Sessions, NEW status, EndTopTransaction(p, status),
         xact[p][1].xid = InvalidXid
  PROVE  ArrayInv' /\ SnapInv'
<1>1. Typed
  BY DEF ArrayInv
<1>2. PICK n : n = AtEOXactSnapshot(p)
  OBVIOUS
<1>3. Fewer(p, n) /\ Using(n) = {}
  BY <1>1, <1>2, NoneLeft
<1>4. /\ pc[p] = "run" /\ Len(xact[p]) = 1 /\ pc' = [pc EXCEPT ![p] = "idle"] /\ call' = call /\ vis' = vis
      /\ snap' = [snap EXCEPT ![p] = n] /\ proc' = [proc EXCEPT ![p].xmin = InvalidXid]
      /\ xact' = [xact EXCEPT ![p] = <<>>] /\ gxact' = gxact
      /\ UNCHANGED <<transamVars, denseVars, sharers, xidGen>>
  BY <1>2 DEF EndTopTransaction, EndTransactionWithoutXid, Goto
<1>5. Good("idle", call[p], vis[p], n, InvalidXid)
  BY <1>1, <1>3, Unmoved DEF Good, Fewer, InvalidXid
<1>6. Sets(p, "idle", call[p], vis[p], n, InvalidXid)
  BY <1>1, <1>4, Unmoved DEF Sets, transamVars, denseVars
<1>7. GoodStack(<<>>) /\ TopOf(<<>>) = TopXid(p)
  <2>1. TopXid(p) = InvalidXid
    BY <1>4 DEF TopXid
  <2> QED BY <2>1, Stacks
<1>8. Calm(p) /\ Prepd' /\ Session(p)'
  <2>1. "idle" \in Free /\ pc[p] \notin {"out", "xid_release"}
    BY <1>4 DEF Free
  <2>2. PICK l : l = <<>> /\ GoodStack(l) /\ TopOf(l) = TopXid(p) /\ xact' = [xact EXCEPT ![p] = l]
    BY <1>4, <1>7
  <2> QED BY <1>4, <1>5, <1>6, <2>1, <2>2, StackCalm
<1>9. /\ pc'[p] = "idle" /\ call'[p] = call[p] /\ vis'[p] = vis[p] /\ snap'[p] = n /\ proc'[p].xmin = InvalidXid
  BY <1>1, <1>5, <1>6, SetsValues
<1>10. Live(p)' = {}
  BY <1>3, <1>9 DEF Live, Using
<1>11. Keeps(p)
  BY <1>3, <1>9, <1>10 DEF Keeps, Fewer
<1>12. pc'[p] \notin Snapping
  BY <1>9 DEF Snapping
<1> QED BY <1>8, <1>10, <1>11, <1>12, CalmStep

\* The end of a prepare.
LEMMA PostPrepareStep ==
  ASSUME ArrayInv, SnapInv, NEW p \in Sessions, PostPrepare(p)
  PROVE  ArrayInv' /\ SnapInv'
<1>1. Typed /\ Session(p) /\ Prepd /\ gxact \in [Dummies -> GXacts]
  BY DEF ArrayInv, Typed
<1>2. PICK n : n = AtEOXactSnapshot(p)
  OBVIOUS
<1>3. Fewer(p, n) /\ Using(n) = {}
  BY <1>1, <1>2, NoneLeft
<1>4. /\ pc[p] = "prepare_done" /\ pc' = [pc EXCEPT ![p] = "idle"] /\ call' = [call EXCEPT ![p] = NoCall]
      /\ Release(p, n) /\ xact' = xact
      /\ gxact' = [gxact EXCEPT ![call[p].gxact].locker = NoProc]
  BY <1>2 DEF PostPrepare, Goto
<1>5. PICK d \in Dummies : d = call[p].gxact /\ gxact[d].locker = p
  BY <1>1, <1>4 DEF Session, Works, Working
<1>6. PICK g : g = [gxact[d] EXCEPT !.locker = NoProc]
  OBVIOUS
<1>7. gxact[d] \in GXacts
  BY <1>1
<1>8. /\ g \in GXacts /\ g.valid = gxact[d].valid /\ g.xid = gxact[d].xid /\ g.children = gxact[d].children
  BY <1>6, <1>7 DEF GXacts, NoProc
<1>9. GoodEntry(d, g)
  BY <1>1, <1>8 DEF GoodEntry, Prepd
<1>10. gxact' = [gxact EXCEPT ![d] = g]
  BY <1>1, <1>4, <1>5, <1>6
<1>11. IsCall(NoCall) /\ "idle" \notin Over
  BY Blanks DEF Over
<1>12. PICK v, x : Good("idle", NoCall, v, n, x) /\ Sets(p, "idle", NoCall, v, n, x) /\ Keeps(p)
  BY <1>1, <1>3, <1>4, <1>11, ReleaseSets
<1>13. Calm(p) /\ Prepd'
  <2>1. gxact[d].locker \in {p, NoProc} /\ xact' = xact
    BY <1>4, <1>5
  <2>2. PICK c : c = NoCall
    OBVIOUS
  <2>3. Good("idle", c, v, n, x) /\ Sets(p, "idle", c, v, n, x)
    BY <1>12, <2>2
  <2> QED BY <1>9, <1>10, <2>1, <2>3, EntryCalm
<1>14. pc'[p] = "idle" /\ snap'[p] = n
  BY <1>1, <1>12, SetsValues
<1>15. Live(p)' = {}
  BY <1>3, <1>14 DEF Live, Using
<1>16. Session(p)'
  <2>1. xact[p] = <<>> /\ xact'[p] = <<>>
    BY <1>1, <1>4 DEF Session, Nested
  <2>2. Bound' = Bound
    BY <1>13 DEF Calm, Bound
  <2>3. XidsBelow(p)' /\ TopXid(p)' = TopXid(p)
    BY <2>1 DEF XidsBelow, TopXid
  <2>4. pc[p] \notin {"out", "xid_release"} /\ pc'[p] \in Free
    BY <1>4, <1>14 DEF Free
  <2> QED BY <1>13, <2>1, <2>3, <2>4, FreeSession
<1>17. pc'[p] \notin Snapping
  BY <1>14 DEF Snapping
<1> QED BY <1>12, <1>13, <1>15, <1>16, <1>17, CalmStep

\* A registered snapshot is one in use.
LEMMA RegisterStep ==
  ASSUME ArrayInv, SnapInv, NEW p \in Sessions, NEW level, RegisterSnapshot(p, level),
         UNCHANGED <<logVars, xact, gxact, plan>>
  PROVE  ArrayInv' /\ SnapInv'
<1>1. Typed /\ IsSnaps(snap[p]) /\ snap = [q \in Sessions |-> snap[q]]
  BY DEF ArrayInv, Typed
<1>2. PICK m : m = snap[p]
  OBVIOUS
<1>3. /\ m = [static |-> m.static, active |-> m.active, registered |-> m.registered, catalogValid |-> m.catalogValid]
      /\ m.active \in Seq(Entries(m.active)) /\ (\A h \in Entries(m.active) : IsHeld(h))
      /\ \A h \in m.registered : IsHeld(h)
  BY <1>1, <1>2 DEF IsSnaps
<1>4. /\ pc[p] = "run" /\ m.active # <<>> /\ pc' = pc /\ call' = call /\ vis' = vis /\ UNCHANGED arrayVars
      /\ snap' = [snap EXCEPT ![p].registered = m.registered \cup {Held(Last(m.active).snap, level)}]
  BY <1>2 DEF RegisterSnapshot
<1>5. Len(m.active) \in DOMAIN m.active
  BY <1>3, <1>4
<1>6. PICK k \in DOMAIN m.active : k = Len(m.active)
  BY <1>5
<1>7. PICK e : e = m.active[k]
  OBVIOUS
<1>8. Last(m.active) = e /\ IsHeld(e)
  BY <1>3, <1>6, <1>7 DEF Last, Entries
<1>9. PICK h : h = Held(e.snap, level)
  OBVIOUS
<1>10. h = [snap |-> h.snap, level |-> h.level] /\ h.snap = e.snap /\ IsSnap(e.snap)
  BY <1>8, <1>9 DEF Held, IsHeld
<1>11. IsHeld(h)
  BY <1>10 DEF IsHeld
<1>12. PICK r : r = m.registered \cup {h}
  OBVIOUS
<1>13. PICK n : n = [m EXCEPT !.registered = r]
  OBVIOUS
<1>14. n = [static |-> m.static, active |-> m.active, registered |-> r, catalogValid |-> m.catalogValid]
  BY <1>3, <1>13
<1>15. n.static = m.static /\ n.active = m.active /\ n.registered = r /\ n.catalogValid = m.catalogValid
  BY <1>14
<1>16. IsSnaps(n)
  <2>1. m.static = [w \in Structs |-> m.static[w]] /\ \A w \in Structs : IsSnap(m.static[w])
    BY <1>1, <1>2 DEF IsSnaps
  <2>2. n = [static |-> n.static, active |-> n.active, registered |-> n.registered, catalogValid |-> n.catalogValid]
    BY <1>14, <1>15
  <2>3. \A g \in n.registered : IsHeld(g)
    BY <1>3, <1>11, <1>12, <1>15
  <2> QED BY <1>3, <1>15, <2>1, <2>2, <2>3 DEF IsSnaps
<1>17. snap' = [snap EXCEPT ![p] = n]
  BY <1>1, <1>2, <1>4, <1>8, <1>9, <1>12, <1>13
<1>18. Good("run", call[p], vis[p], n, proc[p].xmin) /\ Sets(p, "run", call[p], vis[p], n, proc[p].xmin)
  BY <1>1, <1>4, <1>16, <1>17, Unmoved DEF Good, Sets, arrayVars, transamVars, denseVars
<1>19. Calm(p) /\ Prepd' /\ Session(p)'
  <2>1. PICK l : l = xact[p] /\ GoodStack(l) /\ TopOf(l) = TopXid(p)
    BY Stacks
  <2>2. xact' = [xact EXCEPT ![p] = l]
    <3>1. xact \in [Sessions -> Seq(Levels)] /\ xact' = xact
      BY <1>1 DEF Typed
    <3> QED BY <2>1, <3>1
  <2>3. gxact' = gxact /\ "run" \in Free /\ pc[p] \notin {"out", "xid_release"}
    BY <1>4 DEF Free
  <2>4. PICK w : w = "run" /\ w # "idle"
    OBVIOUS
  <2>5. PICK x : x = proc[p].xmin
    OBVIOUS
  <2>6. w \in Free /\ Good(w, call[p], vis[p], n, x) /\ Sets(p, w, call[p], vis[p], n, x)
    BY <1>18, <2>3, <2>4, <2>5
  <2>7. GoodStack(l) /\ TopOf(l) = TopXid(p) /\ w # "idle"
    BY <2>1, <2>4
  <2> QED BY <2>2, <2>3, <2>6, <2>7, StackCalm
<1>20. /\ pc'[p] = "run" /\ call'[p] = call[p] /\ vis'[p] = vis[p] /\ snap'[p] = n
       /\ proc'[p].xmin = proc[p].xmin
  BY <1>1, <1>18, SetsValues
<1>21. Live(p)' \subseteq Live(p)
  <2>1. Live(p)' = {m.active[i].snap : i \in DOMAIN m.active} \cup {g.snap : g \in m.registered \cup {h}}
    BY <1>12, <1>15, <1>20 DEF Live
  <2>2. Live(p) = {m.active[i].snap : i \in DOMAIN m.active} \cup {g.snap : g \in m.registered}
    BY <1>2, <1>4 DEF Live
  <2>3. h.snap \in {m.active[i].snap : i \in DOMAIN m.active}
    BY <1>7, <1>10
  <2> QED BY <2>1, <2>2, <2>3
<1>22. Keeps(p)
  BY <1>2, <1>15, <1>20, <1>21 DEF Keeps
<1>23. pc'[p] \notin Snapping /\ pc'[p] \notin {"idle", "out"}
  BY <1>20 DEF Snapping
<1> QED BY <1>19, <1>22, <1>23, CalmStep

(***************************************************************************)
(* Taking a snapshot.                                                      *)
(***************************************************************************)

\* The array is as it was, and so is what is said of it.
Still(p) ==
  /\ latestCompletedXid' = latestCompletedXid /\ xactCompletionCount' = xactCompletionCount
  /\ xids' = xids /\ pgprocnos' = pgprocnos
  /\ \A q \in Sessions : proc'[q].pgxactoff = proc[q].pgxactoff
  /\ \A m : (Below(m)' <=> Below(m)) /\ (Recent(m)' <=> Recent(m))
  /\ \A s : Built(s)' <=> Built(s)

\* A step that sets only the session's own, and not its transaction.
LEMMA QuietParts ==
  ASSUME ArrayInv, NEW p \in Sessions, NEW w, NEW c, NEW v, NEW n, NEW x,
         Good(w, c, v, n, x), Sets(p, w, c, v, n, x), UNCHANGED <<xact, gxact>>, Moves(p, pc[p], w)
  PROVE  /\ ArrayInv' /\ Frame(p) /\ Still(p) /\ Typed /\ Typed'
         /\ pc'[p] = w /\ call'[p] = c /\ vis'[p] = v /\ snap'[p] = n /\ proc'[p].xmin = x
<1>1. Typed
  BY DEF ArrayInv
<1>2. Calm(p) /\ Quiet(p)
  <2>1. XactsApart(p)
    BY <1>1 DEF XactsApart, Typed
  <2>2. Calm(p)
    BY <1>1, <2>1, SetsCalm
  <2> QED BY <2>2 DEF Quiet
<1>3. pc'[p] = w /\ call'[p] = c /\ vis'[p] = v /\ snap'[p] = n /\ proc'[p].xmin = x
  BY <1>1, SetsValues
<1>4. ArrayInv'
  BY <1>2, <1>3, QuietKeeps
<1>5. Frame(p)
  BY <1>1, <1>2, CalmFrame
<1>6. /\ latestCompletedXid' = latestCompletedXid /\ xactCompletionCount' = xactCompletionCount
      /\ xids' = xids /\ pgprocnos' = pgprocnos
      /\ \A q \in Sessions : proc'[q].pgxactoff = proc[q].pgxactoff
  BY <1>2 DEF Calm, Members
<1>7. Vals' = Vals
  BY <1>6 DEF Vals
<1>8. \A m : (Below(m)' <=> Below(m)) /\ (Recent(m)' <=> Recent(m))
  BY <1>6, <1>7 DEF Below, Recent
<1>9. \A s : Built(s)' <=> Built(s)
  BY <1>6, <1>8 DEF Built
<1>10. Still(p)
  BY <1>6, <1>8, <1>9 DEF Still
<1>11. Typed'
  BY <1>4 DEF ArrayInv
<1> QED BY <1>1, <1>3, <1>4, <1>5, <1>10, <1>11

\* The part of Snaps that does look at the snapshot in the making.
Making(p) ==
  /\ pc[p] = "reuse" => call[p].snap = NoSnapshot \/ Built(call[p].snap)
  /\ pc[p] \in {"publish", "verify", "retract", "taken"} => Built(call[p].snap)
  /\ pc[p] = "verify" /\ call[p].published => proc[p].xmin = call[p].snap.xmin
  /\ pc[p] \in {"verify", "retract"} => proc[p].xmin # InvalidXid
  /\ (pc[p] = "retract" \/ (pc[p] = "verify" /\ call[p].published)) => Live(p) = {}
  /\ pc[p] \in {"idle", "out"} => Live(p) = {}
  /\ pc[p] = "scan" => Building(p, call[p].at)
  /\ pc[p] = "scan_subxids" => Building(p, call[p].at + 1)
  /\ pc[p] = "snapshot_unlock" =>
        Built(call[p].snap) /\ call[p].snap.snapXactCompletionCount = xactCompletionCount
        /\ proc[p].xmin # InvalidXid /\ proc[p].xmin <= call[p].snap.xmin

\* A step on the way to a snapshot.
LEMMA MakingStep ==
  ASSUME ArrayInv, ArrayInv', SnapInv, NEW p \in Sessions, Frame(p), Keeps(p), Making(p)',
         pc'[p] # "horizon_scan"
  PROVE  SnapInv'
<1>1. Typed'
  BY DEF ArrayInv
<1>2. Common(p)'
  BY <1>1, KeepsCommon
<1>3. Snaps(p)'
  BY <1>2 DEF Snaps, Common, Making
<1>4. OwnOK(p)
  BY <1>3 DEF OwnOK, Keeps
<1> QED BY <1>4, SnapStep

\* GetTransactionSnapshot and GetNonHistoricCatalogSnapshot choose the struct to fill.
LEMMA RefillSteps ==
  ASSUME ArrayInv, SnapInv, NEW p \in Sessions, NEW known,
         GetTransactionSnapshot(p, known) \/ GetCatalogSnapshot(p, known),
         UNCHANGED <<logVars, xact, gxact, plan>>
  PROVE  ArrayInv' /\ SnapInv'
<1>1. Typed /\ Snaps(p) /\ IsSnaps(snap[p])
  BY DEF ArrayInv, SnapInv, Typed
<1>2. PICK u \in Structs : Refill(p, u, known) /\ pc[p] = "run"
  BY DEF GetTransactionSnapshot, GetCatalogSnapshot, Structs
<1>3. PICK s \in {snap[p].static[u], NoSnapshot} :
         call' = [call EXCEPT ![p] = [NoCall EXCEPT !.which = u, !.snap = s, !.known = known]]
  BY <1>2 DEF Refill
<1>4. IsSnap(s) /\ (s = NoSnapshot \/ Built(s))
  BY <1>1, <1>3, Blanks DEF Snaps, IsSnaps
<1>5. PICK c : c = [NoCall EXCEPT !.which = u, !.snap = s, !.known = known]
  OBVIOUS
<1>6. IsCall(c) /\ c.snap = s
  BY <1>4, <1>5, Blanks DEF IsCall, NoCall
<1>7. pc' = [pc EXCEPT ![p] = "reuse"] /\ call' = [call EXCEPT ![p] = c]
  BY <1>2, <1>3, <1>5 DEF Refill, Goto
<1>8. Moves(p, pc[p], "reuse")
  BY <1>2 DEF Moves, Sharing
<1>9. \E v, n, x : Good("reuse", c, v, n, x) /\ Sets(p, "reuse", c, v, n, x) /\ Keeps(p)
  <2>1. CASE Release(p, WithoutCatalog(p)) /\ snap[p].catalogValid
    <3>1. PICK m : m = snap[p]
      OBVIOUS
    <3>2. PICK r : r = m.registered \ {CatalogEntry(p)}
      OBVIOUS
    <3>3. PICK n : n = WithoutCatalog(p)
      OBVIOUS
    <3>4. n = [static |-> m.static, active |-> m.active, registered |-> r, catalogValid |-> FALSE]
      BY <1>1, <2>1, <3>1, <3>2, <3>3 DEF WithoutCatalog, IsSnaps
    <3>5. PartOf(m.active, m) /\ r \subseteq m.registered
      BY <1>1, <3>1, <3>2, StackParts
    <3>6. pc[p] \notin Over
      BY <1>2 DEF Over
    <3>7. Fewer(p, n)
      BY <1>1, <3>1, <3>4, <3>5, <3>6, FewerOf
    <3>8. "reuse" \notin Over /\ Release(p, n)
      BY <2>1, <3>3 DEF Over
    <3> QED BY <1>1, <1>6, <1>7, <3>7, <3>8, ReleaseSets
  <2>2. CASE UNCHANGED <<arrayVars, snap, vis>>
    <3>1. Good("reuse", c, vis[p], snap[p], proc[p].xmin)
      BY <1>1, <1>6, Unmoved DEF Good
    <3>2. Sets(p, "reuse", c, vis[p], snap[p], proc[p].xmin)
      BY <1>1, <1>7, <2>2, Unmoved DEF Sets, arrayVars, transamVars, denseVars
    <3>3. pc'[p] = "reuse"
      BY <1>1, <3>1, <3>2, SetsValues
    <3>4. Keeps(p)
      BY <1>2, <2>2, <3>3 DEF Keeps, Live, arrayVars
    <3> QED BY <3>1, <3>2, <3>4
  <2> QED BY <2>1, <2>2 DEF GetTransactionSnapshot, GetCatalogSnapshot
<1>10. PICK v, n, x : Good("reuse", c, v, n, x) /\ Sets(p, "reuse", c, v, n, x) /\ Keeps(p)
  BY <1>9
<1>11. /\ ArrayInv' /\ Frame(p) /\ Still(p) /\ pc'[p] = "reuse" /\ call'[p] = c
  <2>1. UNCHANGED <<xact, gxact>>
    OBVIOUS
  <2> QED BY <1>8, <1>10, <2>1, QuietParts
<1>12. Making(p)'
  <2>1. s = NoSnapshot \/ Built(s)'
    BY <1>4, <1>11 DEF Still
  <2>2. call'[p].snap = s
    BY <1>6, <1>11
  <2> QED BY <1>11, <2>1, <2>2 DEF Making
<1> QED BY <1>10, <1>11, <1>12, MakingStep

\* The lock-free path.
LEMMA ReuseSteps ==
  ASSUME ArrayInv, SnapInv, NEW p \in Sessions,
         ReusePrecheck(p) \/ ReusePublish(p) \/ ReuseVerify(p) \/ ReuseRetract(p),
         UNCHANGED <<logVars, snap, xact, gxact, plan>>
  PROVE  ArrayInv' /\ SnapInv'
<1>1. /\ Typed /\ Snaps(p) /\ IsCall(call[p]) /\ IsVis(vis[p]) /\ IsSnaps(snap[p]) /\ IsProc(proc[p])
      /\ proc[p].xmin \in Nat /\ call[p].snap.xmin \in Nat /\ IsSnap(call[p].snap)
  BY Unmoved DEF ArrayInv, SnapInv, IsCall, IsSnap
<1>2. UNCHANGED <<snap, xact, gxact>>
  OBVIOUS
<1> USE DEF Goto, arrayVars, transamVars, denseVars
\* Where nothing is set but pc.
<1>3. ASSUME NEW w \in {"publish", "build", "retract"}, pc' = [pc EXCEPT ![p] = w], UNCHANGED <<arrayVars, call, vis>>,
             pc[p] \in {"reuse", "verify"},
             w = "publish" => Built(call[p].snap),
             w = "retract" => pc[p] = "verify" /\ call[p].published
      PROVE  ArrayInv' /\ SnapInv'
  <2>1. PICK c, v, n, x : c = call[p] /\ v = vis[p] /\ n = snap[p] /\ x = proc[p].xmin
    OBVIOUS
  <2>2. Good(w, c, v, n, x) /\ Sets(p, w, c, v, n, x)
    BY <1>1, <1>2, <1>3, <2>1, Unmoved DEF Good, Sets
  <2>3. Moves(p, pc[p], w)
    BY <1>3 DEF Moves, Sharing
  <2>4. /\ ArrayInv' /\ Frame(p) /\ Still(p) /\ pc'[p] = w /\ call'[p] = c /\ vis'[p] = v /\ snap'[p] = n
        /\ proc'[p].xmin = x
    BY <1>2, <2>2, <2>3, QuietParts
  <2>5. Live(p)' = Live(p)
    BY <1>3, <2>1, <2>4 DEF Live
  <2>6. Keeps(p)
    BY <2>1, <2>4, <2>5 DEF Keeps
  <2>7. Built(c.snap) => Built(c.snap)'
    BY <2>4 DEF Still
  <2>8. Making(p)'
    BY <1>1, <1>3, <2>1, <2>4, <2>5, <2>7 DEF Making, Snaps
  <2> QED BY <2>4, <2>6, <2>8, MakingStep
<1>4. CASE ReusePrecheck(p)
  <2>1. PICK k : k = call[p].snap.snapXactCompletionCount
    OBVIOUS
  <2>2. PICK w : w = IF k = 0 \/ xactCompletionCount # k THEN "build" ELSE "publish"
    OBVIOUS
  <2>3. pc[p] = "reuse" /\ pc' = [pc EXCEPT ![p] = w] /\ UNCHANGED <<arrayVars, call, vis>>
    BY <1>4, <2>1, <2>2 DEF ReusePrecheck
  <2>4. w = "publish" => Built(call[p].snap)
    BY <1>1, <2>1, <2>2, <2>3 DEF Snaps, NoSnapshot
  <2>5. w \in {"publish", "build", "retract"} /\ w # "retract" /\ pc[p] \in {"reuse", "verify"}
    BY <2>2, <2>3
  <2> QED BY <1>3, <2>3, <2>4, <2>5
<1>5. CASE ReusePublish(p)
  <2>1. PICK b \in BOOLEAN : b = (proc[p].xmin = InvalidXid)
    OBVIOUS
  <2>2. PICK c : c = [call[p] EXCEPT !.published = b]
    OBVIOUS
  <2>3. IsCall(c) /\ c.snap = call[p].snap /\ c.published = b
    BY <1>1, <2>2 DEF IsCall
  <2>4. PICK x : x = IF b THEN call[p].snap.xmin ELSE proc[p].xmin
    OBVIOUS
  <2>5. x \in Nat
    BY <1>1, <2>4
  <2>6. /\ pc[p] = "publish" /\ pc' = [pc EXCEPT ![p] = "verify"] /\ call' = [call EXCEPT ![p].published = b]
        /\ proc' = IF b THEN [proc EXCEPT ![p].xmin = call[p].snap.xmin] ELSE proc
        /\ UNCHANGED <<transamVars, denseVars, sharers, xidGen, vis>>
    BY <1>5, <2>1 DEF ReusePublish
  <2>7. call' = [call EXCEPT ![p] = c]
    BY <1>1, <2>2, <2>6 DEF Typed
  <2>8. proc' = [proc EXCEPT ![p].xmin = x]
    BY <1>1, <2>4, <2>6, Unmoved
  <2>9. PICK v, n : v = vis[p] /\ n = snap[p]
    OBVIOUS
  <2>10. Good("verify", c, v, n, x)
    BY <1>1, <2>3, <2>5, <2>9 DEF Good
  <2>11. Sets(p, "verify", c, v, n, x)
    BY <1>1, <1>2, <2>6, <2>7, <2>8, <2>9, Unmoved DEF Sets
  <2>12. Moves(p, pc[p], "verify")
    BY <2>6 DEF Moves, Sharing
  <2>13. /\ ArrayInv' /\ Frame(p) /\ Still(p) /\ Typed' /\ pc'[p] = "verify" /\ call'[p] = c /\ vis'[p] = v
         /\ snap'[p] = n /\ proc'[p].xmin = x
    BY <1>2, <2>10, <2>11, <2>12, QuietParts
  <2>14. Live(p)' = Live(p)
    BY <2>6, <2>9, <2>13 DEF Live
  <2>15. Built(c.snap)
    BY <1>1, <2>3, <2>6 DEF Snaps
  <2>16. Built(c.snap)' /\ x # InvalidXid /\ Below(x)
    BY <1>1, <2>1, <2>3, <2>4, <2>13, <2>15 DEF Still, Snaps, Built
  <2>17. b => Live(p) = {} /\ x = c.snap.xmin
    BY <1>1, <2>1, <2>3, <2>4 DEF Snaps
  <2>18. Making(p)'
    BY <2>3, <2>13, <2>14, <2>16, <2>17 DEF Making
  <2>19. Common(p)'
    <3>1. (\A u \in Structs : snap[p].static[u] = NoSnapshot \/ Built(snap[p].static[u]))'
      BY <1>1, <2>9, <2>13 DEF Still, Snaps
    <3>2. (\A s \in Live(p) : Built(s) /\ proc[p].xmin # InvalidXid /\ proc[p].xmin <= s.xmin)'
      BY <1>1, <2>4, <2>13, <2>14, <2>16, <2>17 DEF Still, Snaps
    <3>3. (Below(proc[p].xmin) /\ Below(vis[p].maybeNeeded))'
      BY <1>1, <2>9, <2>13, <2>16 DEF Still, Snaps
    <3> QED BY <3>1, <3>2, <3>3 DEF Common
  <2>20. OwnOK(p)
    BY <2>9, <2>13, <2>14, <2>18, <2>19 DEF OwnOK, Snaps, Common, Making
  <2> QED BY <2>13, <2>20, SnapStep
<1>6. CASE ReuseVerify(p)
  <2>1. CASE xactCompletionCount # call[p].snap.snapXactCompletionCount
    <3>1. PICK w : w = IF call[p].published THEN "retract" ELSE "build"
      OBVIOUS
    <3>2. pc[p] = "verify" /\ pc' = [pc EXCEPT ![p] = w] /\ UNCHANGED <<arrayVars, call, vis>>
      BY <1>6, <2>1, <3>1 DEF ReuseVerify
    <3>3. w \in {"publish", "build", "retract"} /\ w # "publish" /\ (w = "retract" => call[p].published)
      BY <3>1
    <3> QED BY <1>3, <3>2, <3>3
  <2>2. CASE xactCompletionCount = call[p].snap.snapXactCompletionCount
    <3>1. PICK a, t : a = call[p].snap.xmin /\ t = IF call[p].published THEN call[p].snap.xmin ELSE vis[p].TransactionXmin
      OBVIOUS
    <3>2. PICK v : v = [vis[p] EXCEPT !.RecentXmin = a, !.TransactionXmin = t]
      OBVIOUS
    <3>3. IsVis(v) /\ v.maybeNeeded = vis[p].maybeNeeded
      BY <1>1, <3>2 DEF IsVis
    <3>4. /\ pc[p] = "verify" /\ pc' = [pc EXCEPT ![p] = "taken"] /\ vis' = [vis EXCEPT ![p] = v]
          /\ UNCHANGED <<arrayVars, call>>
      BY <1>1, <1>6, <2>2, <3>1, <3>2 DEF ReuseVerify, Typed
    <3>5. PICK c, n, x : c = call[p] /\ n = snap[p] /\ x = proc[p].xmin
      OBVIOUS
    <3>6. Good("taken", c, v, n, x) /\ Sets(p, "taken", c, v, n, x)
      BY <1>1, <1>2, <3>3, <3>4, <3>5, Unmoved DEF Good, Sets
    <3>7. Moves(p, pc[p], "taken")
      BY <3>4 DEF Moves, Sharing
    <3>8. /\ ArrayInv' /\ Frame(p) /\ Still(p) /\ Typed' /\ pc'[p] = "taken" /\ call'[p] = c /\ vis'[p] = v
          /\ snap'[p] = n /\ proc'[p].xmin = x
      BY <1>2, <3>6, <3>7, QuietParts
    <3>9. Live(p)' = Live(p) \cup {c.snap}
      BY <3>4, <3>5, <3>8 DEF Live
    <3>10. Built(c.snap) /\ Recent(c.snap.xmin) /\ x # InvalidXid /\ Below(x) /\ x \in Nat
      BY <1>1, <2>2, <3>4, <3>5 DEF Snaps, Built
    <3>11. x <= c.snap.xmin
      BY <3>10, RecentAbove
    <3>12. Making(p)'
      BY <3>8, <3>10 DEF Making, Still
    <3>13. Common(p)'
      <4>1. (\A u \in Structs : snap[p].static[u] = NoSnapshot \/ Built(snap[p].static[u]))'
        BY <1>1, <3>5, <3>8 DEF Still, Snaps
      <4>2. (\A s \in Live(p) : Built(s) /\ proc[p].xmin # InvalidXid /\ proc[p].xmin <= s.xmin)'
        BY <1>1, <3>5, <3>8, <3>9, <3>10, <3>11 DEF Still, Snaps
      <4>3. (Below(proc[p].xmin) /\ Below(vis[p].maybeNeeded))'
        BY <1>1, <3>3, <3>8, <3>10 DEF Still, Snaps
      <4> QED BY <4>1, <4>2, <4>3 DEF Common
    <3>14. \A s \in Live(p)' : s \in Live(p) \/ Recent(s.xmin)'
      BY <3>8, <3>9, <3>10 DEF Still
    <3>15. OwnOK(p)
      BY <3>3, <3>8, <3>12, <3>13, <3>14 DEF OwnOK, Snaps, Common, Making
    <3> QED BY <3>8, <3>15, SnapStep
  <2> QED BY <2>1, <2>2
<1>7. CASE ReuseRetract(p)
  <2>1. /\ pc[p] = "retract" /\ pc' = [pc EXCEPT ![p] = "build"] /\ proc' = [proc EXCEPT ![p].xmin = InvalidXid]
        /\ UNCHANGED <<transamVars, denseVars, sharers, xidGen, call, vis>>
    BY <1>7 DEF ReuseRetract
  <2>2. PICK c, v, n : c = call[p] /\ v = vis[p] /\ n = snap[p]
    OBVIOUS
  <2>3. Good("build", c, v, n, InvalidXid) /\ Sets(p, "build", c, v, n, InvalidXid)
    BY <1>1, <1>2, <2>1, <2>2, Unmoved DEF Good, Sets, InvalidXid
  <2>4. Moves(p, pc[p], "build")
    BY <2>1 DEF Moves, Sharing
  <2>5. /\ ArrayInv' /\ Frame(p) /\ pc'[p] = "build" /\ call'[p] = c /\ vis'[p] = v /\ snap'[p] = n
        /\ proc'[p].xmin = InvalidXid
    BY <1>2, <2>3, <2>4, QuietParts
  <2>6. Live(p)' = Live(p) /\ Live(p) = {}
    <3>1. Live(p) = {}
      BY <1>1, <2>1 DEF Snaps
    <3>2. Live(p)' = Live(p)
      BY <2>1, <2>2, <2>5 DEF Live
    <3> QED BY <3>1, <3>2
  <2>7. Keeps(p)
    BY <2>2, <2>5, <2>6 DEF Keeps
  <2>8. Making(p)'
    BY <2>5 DEF Making
  <2> QED BY <2>5, <2>7, <2>8, MakingStep
<1> QED BY <1>4, <1>5, <1>6, <1>7

\* The build under the shared lock.
LEMMA BuildSteps ==
  ASSUME ArrayInv, SnapInv, NEW p \in Sessions,
         SnapshotLock(p) \/ SnapshotScanXid(p) \/ SnapshotScanSubxids(p),
         UNCHANGED <<logVars, snap, xact, gxact, plan>>
  PROVE  ArrayInv' /\ SnapInv'
<1>1. /\ Typed /\ Places /\ Session(p) /\ Snaps(p) /\ IsCall(call[p]) /\ IsVis(vis[p]) /\ IsSnaps(snap[p])
      /\ IsProc(proc[p]) /\ IsSnap(call[p].snap) /\ call[p].at \in Nat /\ call = [q \in Sessions |-> call[q]]
      /\ latestCompletedXid \in Nat /\ xactCompletionCount \in Nat /\ p \in Members
  BY Unmoved DEF ArrayInv, SnapInv, IsCall, Typed, Members
<1>2. UNCHANGED <<snap, xact, gxact>>
  OBVIOUS
<1>3. DOMAIN xids = 1 .. Len(pgprocnos) /\ \A i \in DOMAIN xids : xids[i] \in Nat
  BY <1>1 DEF Typed
<1> USE DEF Goto, arrayVars, transamVars, denseVars
\* What is set is the locals of the call.
<1>4. ASSUME NEW w \in {"scan", "scan_subxids"}, NEW c, IsCall(c), pc' = [pc EXCEPT ![p] = w],
             call' = [call EXCEPT ![p] = c], UNCHANGED <<transamVars, denseVars, proc, xidGen, vis>>,
             \A q \in Sessions \ {p} : q \in sharers => q \in sharers',
             pc[p] \in {"build", "scan", "scan_subxids"}, p \in sharers',
             NEW k, k = IF w = "scan" THEN c.at ELSE c.at + 1,
             NEW s, s = c.snap, c.at # 0, s.snapXactCompletionCount = xactCompletionCount,
             s.xmax = latestCompletedXid + 1, s.xmin <= s.xmax, s.xmin # InvalidXid, Recent(s.xmin),
             \A i \in DOMAIN xids :
                (i < k \/ i = proc[p].pgxactoff) /\ xids[i] # InvalidXid => s.xmin <= xids[i]
      PROVE  ArrayInv' /\ SnapInv'
  <2>1. PICK v, n, x : v = vis[p] /\ n = snap[p] /\ x = proc[p].xmin
    OBVIOUS
  <2>2. Good(w, c, v, n, x)
    BY <1>1, <1>4, <2>1, Unmoved DEF Good
  <2>3. Sets(p, w, c, v, n, x)
    BY <1>1, <1>2, <1>4, <2>1, Unmoved DEF Sets
  <2>4. Moves(p, pc[p], w)
    BY <1>4 DEF Moves, Sharing
  <2>5. /\ ArrayInv' /\ Frame(p) /\ Still(p) /\ pc'[p] = w /\ call'[p] = c /\ vis'[p] = v /\ snap'[p] = n
        /\ proc'[p].xmin = x
    BY <1>2, <2>2, <2>3, <2>4, QuietParts
  <2>6. Live(p)' = Live(p)
    BY <1>4, <2>1, <2>5 DEF Live
  <2>7. Keeps(p)
    BY <2>1, <2>5, <2>6 DEF Keeps
  <2>8. Building(p, k)'
    <3>1. /\ latestCompletedXid' = latestCompletedXid /\ xactCompletionCount' = xactCompletionCount
          /\ xids' = xids /\ proc' = proc
      BY <1>4
    <3>2. Recent(s.xmin)'
      BY <1>4, <2>5 DEF Still
    <3> QED BY <1>4, <2>5, <3>1, <3>2 DEF Building
  <2>9. Making(p)'
    <3>1. (pc[p] = "scan" => Building(p, call[p].at))'
      BY <1>4, <2>5, <2>8
    <3>2. (pc[p] = "scan_subxids" => Building(p, call[p].at + 1))'
      BY <1>4, <2>5, <2>8
    <3> QED BY <2>5, <3>1, <3>2 DEF Making
  <2>10. pc'[p] # "horizon_scan"
    BY <2>5
  <2> QED BY <2>5, <2>7, <2>9, <2>10, MakingStep
<1>5. CASE SnapshotLock(p)
  <2>1. PICK b \in Nat : b = latestCompletedXid + 1
    BY <1>1
  <2>2. PICK own : own = xids[proc[p].pgxactoff]
    OBVIOUS
  <2>3. pc[p] = "build"
    BY <1>5 DEF SnapshotLock
  <2>4. proc[p].pgxactoff \in DOMAIN xids /\ own \in Nat
    <3>1. Listed(p)
      BY <1>1, <2>3 DEF Session
    <3>2. proc[p].pgxactoff \in 1 .. Len(pgprocnos)
      BY <1>1, <3>1, PlacesApart
    <3> QED BY <1>3, <2>2, <3>2
  <2>5. PICK a \in Nat : a = IF own # InvalidXid /\ own < b THEN own ELSE b
    BY <2>4
  <2>6. PICK s : s = [NoSnapshot EXCEPT !.xmin = a, !.xmax = b, !.snapXactCompletionCount = xactCompletionCount]
    OBVIOUS
  <2>7. IsSnap(s) /\ s.xmin = a /\ s.xmax = b /\ s.snapXactCompletionCount = xactCompletionCount
    BY <1>1, <2>6 DEF IsSnap, NoSnapshot
  <2>8. PICK c : c = [call[p] EXCEPT !.at = 1, !.snap = s]
    OBVIOUS
  <2>9. IsCall(c) /\ c.snap = s /\ c.at = 1 /\ c.at # 0
    <3>1. IsCall(c) /\ c.snap = s /\ c.at = 1
      BY <1>1, <2>7, <2>8 DEF IsCall
    <3> QED BY <3>1
  <2>10. /\ call' = [call EXCEPT ![p] = c] /\ pc' = [pc EXCEPT ![p] = "scan"] /\ sharers' = sharers \cup {p}
         /\ UNCHANGED <<transamVars, denseVars, proc, xidGen, vis>>
    BY <1>1, <1>5, <2>1, <2>2, <2>5, <2>6, <2>8 DEF SnapshotLock
  <2>11. a <= b /\ a # InvalidXid /\ Recent(a)
    <3>1. CASE own # InvalidXid /\ own < b
      <4>1. a = own /\ own \in Vals
        BY <2>2, <2>4, <2>5, <3>1 DEF Vals
      <4> QED BY <2>4, <3>1, <4>1 DEF Recent
    <3>2. CASE ~(own # InvalidXid /\ own < b)
      BY <1>1, <2>1, <2>5, <3>2 DEF Recent, InvalidXid
    <3> QED BY <3>1, <3>2
  <2>12. ASSUME NEW i \in DOMAIN xids, i < 1 \/ i = proc[p].pgxactoff, xids[i] # InvalidXid PROVE a <= xids[i]
    <3>1. i = proc[p].pgxactoff
      BY <1>3, <2>12
    <3> QED BY <2>2, <2>4, <2>5, <2>12, <3>1
  <2>13. PICK k : k = 1
    OBVIOUS
  <2>14. /\ \A i \in DOMAIN xids : (i < k \/ i = proc[p].pgxactoff) /\ xids[i] # InvalidXid => s.xmin <= xids[i]
         /\ k = c.at
    BY <2>7, <2>9, <2>12, <2>13
  <2>15. /\ s.snapXactCompletionCount = xactCompletionCount /\ s.xmax = latestCompletedXid + 1
         /\ s.xmin <= s.xmax /\ s.xmin # InvalidXid /\ Recent(s.xmin)
    BY <2>1, <2>7, <2>11
  <2>16. (\A q \in Sessions \ {p} : q \in sharers => q \in sharers') /\ p \in sharers'
    BY <2>10
  <2>17. PICK w \in {"scan", "scan_subxids"} : w = "scan"
    OBVIOUS
  <2>18. pc' = [pc EXCEPT ![p] = w] /\ k = (IF w = "scan" THEN c.at ELSE c.at + 1) /\ s = c.snap
    BY <2>9, <2>10, <2>14, <2>17
  <2> QED BY <1>4, <2>3, <2>9, <2>10, <2>14, <2>15, <2>16, <2>18
<1>6. ASSUME pc[p] = "scan", SnapshotScanXid(p) PROVE ArrayInv' /\ SnapInv'
  <2>1. PICK j \in Nat : j = call[p].at
    BY <1>1
  <2>2. PICK x : x = xids[j]
    OBVIOUS
  <2>3. PICK s : s = call[p].snap
    OBVIOUS
  <2>4. /\ j # 0 /\ s.snapXactCompletionCount = xactCompletionCount /\ s.xmax = latestCompletedXid + 1
        /\ s.xmin <= s.xmax /\ s.xmin # InvalidXid /\ Recent(s.xmin) /\ IsSnap(s) /\ s.xmin \in Nat
        /\ \A i \in DOMAIN xids : (i < j \/ i = proc[p].pgxactoff) /\ xids[i] # InvalidXid => s.xmin <= xids[i]
    BY <1>1, <1>6, <2>1, <2>3 DEF Snaps, Building, IsSnap
  <2>5. p \in sharers /\ sharers' = sharers /\ UNCHANGED <<transamVars, denseVars, proc, xidGen, vis>> /\ j <= Len(pgprocnos)
    BY <1>1, <1>6, <2>1 DEF SnapshotScanXid, Session, Sharing
  <2>6. CASE x = InvalidXid \/ j = proc[p].pgxactoff \/ x >= s.xmax
    <3>1. PICK k \in Nat : k = j + 1
      OBVIOUS
    <3>2. PICK c : c = [call[p] EXCEPT !.at = k]
      OBVIOUS
    <3>3. IsCall(c) /\ c.snap = s /\ c.at = k /\ c.at # 0
      BY <1>1, <2>3, <3>1, <3>2 DEF IsCall
    <3>4. call' = [call EXCEPT ![p] = c] /\ pc' = pc
      BY <1>1, <1>6, <2>1, <2>2, <2>3, <2>6, <3>1, <3>2 DEF SnapshotScanXid
    <3>5. ASSUME NEW i \in DOMAIN xids, i < k \/ i = proc[p].pgxactoff, xids[i] # InvalidXid PROVE s.xmin <= xids[i]
      <4>1. CASE i < j \/ i = proc[p].pgxactoff
        BY <2>4, <3>5, <4>1
      <4>2. CASE i = j /\ x >= s.xmax
        BY <1>1, <1>3, <2>2, <2>4, <4>2
      <4> QED BY <1>3, <2>2, <2>6, <3>1, <3>5, <4>1, <4>2
    <3>6. \A i \in DOMAIN xids : (i < k \/ i = proc[p].pgxactoff) /\ xids[i] # InvalidXid => s.xmin <= xids[i]
      BY <3>5
    <3>7. PICK w \in {"scan", "scan_subxids"} : w = "scan"
      OBVIOUS
    <3>8. pc' = [pc EXCEPT ![p] = w] /\ k = (IF w = "scan" THEN c.at ELSE c.at + 1) /\ s = c.snap
      BY <1>1, <1>6, <3>3, <3>4, <3>7, Unmoved
    <3> QED BY <1>4, <1>6, <2>4, <2>5, <3>3, <3>4, <3>6, <3>8
  <2>7. CASE ~(x = InvalidXid \/ j = proc[p].pgxactoff \/ x >= s.xmax)
    <3>0. j \in DOMAIN xids
      <4>1. j # 0 /\ j <= Len(pgprocnos) /\ Len(pgprocnos) \in Nat
        BY <1>1, <2>4, <2>5 DEF Typed
      <4>2. j \in 1 .. Len(pgprocnos)
        BY <4>1
      <4> QED BY <1>3, <4>2
    <3>1. x \in Nat
      BY <1>3, <2>2, <3>0
    <3>2. PICK a \in Nat : a = IF x < s.xmin THEN x ELSE s.xmin
      BY <2>4, <3>1
    <3>3. PICK t : t = [s EXCEPT !.xip = s.xip \cup {x}, !.xmin = a]
      OBVIOUS
    <3>4. IsSnap(t) /\ t.xmin = a /\ t.xmax = s.xmax /\ t.snapXactCompletionCount = s.snapXactCompletionCount
      BY <2>4, <3>3 DEF IsSnap
    <3>5. PICK c : c = [call[p] EXCEPT !.snap = t]
      OBVIOUS
    <3>6. IsCall(c) /\ c.snap = t /\ c.at = j /\ c.at # 0
      BY <1>1, <2>1, <2>4, <3>4, <3>5 DEF IsCall
    <3>7. call' = [call EXCEPT ![p] = c] /\ pc' = [pc EXCEPT ![p] = "scan_subxids"]
      <4>1. PICK t1 : t1 = [s EXCEPT !.xip = s.xip \cup {x}]
        OBVIOUS
      <4>2. PICK c1 : c1 = [call[p] EXCEPT !.snap = t1]
        OBVIOUS
      <4>3. PICK d1 : d1 = [call EXCEPT ![p] = c1]
        OBVIOUS
      <4>4. /\ call' = [call EXCEPT ![p].snap.xip = s.xip \cup {x}, ![p].snap.xmin = a]
            /\ pc' = [pc EXCEPT ![p] = "scan_subxids"]
        BY <1>6, <2>1, <2>2, <2>3, <2>7, <3>2 DEF SnapshotScanXid
      <4>5. call' = [d1 EXCEPT ![p].snap.xmin = a]
        BY <2>3, <4>1, <4>2, <4>3, <4>4
      <4>6. d1[p] = c1 /\ c1.snap = t1
        BY <1>1, <4>2, <4>3 DEF IsCall
      <4>7. call' = [d1 EXCEPT ![p] = [c1 EXCEPT !.snap = [t1 EXCEPT !.xmin = a]]]
        BY <4>5, <4>6
      <4>8. [t1 EXCEPT !.xmin = a] = t
        BY <2>4, <3>3, <4>1 DEF IsSnap
      <4>9. [c1 EXCEPT !.snap = t] = c
        BY <1>1, <3>5, <4>2 DEF IsCall
      <4>10. [d1 EXCEPT ![p] = c] = [call EXCEPT ![p] = c]
        BY <1>1, <4>3
      <4> QED BY <4>4, <4>7, <4>8, <4>9, <4>10
    <3>8. a # InvalidXid /\ a <= s.xmax /\ Recent(a)
      <4>1. x \in Vals
        BY <2>2, <2>7, <3>0 DEF Vals
      <4> QED BY <1>1, <2>4, <2>7, <3>1, <3>2, <4>1 DEF Recent
    <3>9. PICK k \in Nat : k = j + 1
      OBVIOUS
    <3>10. ASSUME NEW i \in DOMAIN xids, i < k \/ i = proc[p].pgxactoff, xids[i] # InvalidXid PROVE a <= xids[i]
      <4>1. CASE i < j \/ i = proc[p].pgxactoff
        <5>1. s.xmin <= xids[i] /\ xids[i] \in Nat
          BY <1>3, <2>4, <3>10, <4>1
        <5> QED BY <2>4, <3>1, <3>2, <5>1
      <4>2. CASE i = j
        BY <2>2, <2>4, <3>1, <3>2, <4>2
      <4> QED BY <1>3, <3>9, <3>10, <4>1, <4>2
    <3>11. /\ \A i \in DOMAIN xids : (i < k \/ i = proc[p].pgxactoff) /\ xids[i] # InvalidXid => t.xmin <= xids[i]
           /\ t.snapXactCompletionCount = xactCompletionCount /\ t.xmax = latestCompletedXid + 1
           /\ t.xmin <= t.xmax /\ t.xmin # InvalidXid /\ Recent(t.xmin)
      BY <2>4, <3>4, <3>8, <3>10
    <3>12. PICK w \in {"scan", "scan_subxids"} : w = "scan_subxids"
      OBVIOUS
    <3>13. pc' = [pc EXCEPT ![p] = w] /\ k = (IF w = "scan" THEN c.at ELSE c.at + 1) /\ t = c.snap
      BY <3>6, <3>7, <3>9, <3>12
    <3> QED BY <1>4, <1>6, <2>5, <3>6, <3>7, <3>11, <3>13
  <2> QED BY <2>6, <2>7
<1>7. ASSUME pc[p] = "scan_subxids", SnapshotScanSubxids(p) PROVE ArrayInv' /\ SnapInv'
  <2>1. PICK j \in Nat : j = call[p].at + 1
    BY <1>1
  <2>2. PICK s : s = call[p].snap
    OBVIOUS
  <2>3. PICK cached : cached = {proc[pgprocnos[call[p].at]].subxids[i] : i \in 1 .. subxidStates[call[p].at].count}
    OBVIOUS
  <2>4. PICK t : t = IF s.suboverflowed THEN s
                     ELSE IF subxidStates[call[p].at].overflowed THEN [s EXCEPT !.suboverflowed = TRUE]
                     ELSE [s EXCEPT !.subxip = s.subxip \cup cached]
    OBVIOUS
  <2>5. /\ s.snapXactCompletionCount = xactCompletionCount /\ s.xmax = latestCompletedXid + 1
        /\ s.xmin <= s.xmax /\ s.xmin # InvalidXid /\ Recent(s.xmin) /\ IsSnap(s)
        /\ \A i \in DOMAIN xids : (i < j \/ i = proc[p].pgxactoff) /\ xids[i] # InvalidXid => s.xmin <= xids[i]
    BY <1>1, <1>7, <2>1, <2>2 DEF Snaps, Building
  <2>6. IsSnap(t) /\ t.xmin = s.xmin /\ t.xmax = s.xmax /\ t.snapXactCompletionCount = s.snapXactCompletionCount
    <3>1. CASE t = s
      BY <2>5, <3>1
    <3>2. CASE t = [s EXCEPT !.suboverflowed = TRUE]
      BY <2>5, <3>2 DEF IsSnap
    <3>3. CASE t = [s EXCEPT !.subxip = s.subxip \cup cached]
      BY <2>5, <3>3 DEF IsSnap
    <3> QED BY <2>4, <3>1, <3>2, <3>3
  <2>7. p \in sharers /\ sharers' = sharers /\ UNCHANGED <<transamVars, denseVars, proc, xidGen, vis>>
    <3>1. p \in sharers
      BY <1>1, <1>7 DEF Session, Sharing
    <3>2. UNCHANGED <<arrayVars, vis>>
      BY <1>7 DEF SnapshotScanSubxids
    <3> QED BY <3>1, <3>2
  <2>8. PICK c : c = [call[p] EXCEPT !.at = j, !.snap = t]
    OBVIOUS
  <2>9. IsCall(c) /\ c.snap = t /\ c.at = j /\ c.at # 0
    <3>0. IsCall(call[p]) /\ IsSnap(t)
      BY <1>1, <2>6
    <3>1. IsCall(c) /\ c.snap = t /\ c.at = j
      BY ONLY <2>8, <3>0, j \in Nat DEF IsCall
    <3> QED BY <1>1, <2>1, <3>1
  <2>10. call' = [call EXCEPT ![p] = c] /\ pc' = [pc EXCEPT ![p] = "scan"]
    BY <1>1, <1>7, <2>1, <2>2, <2>3, <2>4, <2>8 DEF SnapshotScanSubxids
  <2>11. /\ \A i \in DOMAIN xids : (i < j \/ i = proc[p].pgxactoff) /\ xids[i] # InvalidXid => t.xmin <= xids[i]
         /\ t.snapXactCompletionCount = xactCompletionCount /\ t.xmax = latestCompletedXid + 1
         /\ t.xmin <= t.xmax /\ t.xmin # InvalidXid /\ Recent(t.xmin)
    BY <2>5, <2>6
  <2>12. PICK w \in {"scan", "scan_subxids"} : w = "scan"
    OBVIOUS
  <2>13. pc' = [pc EXCEPT ![p] = w] /\ j = (IF w = "scan" THEN c.at ELSE c.at + 1) /\ t = c.snap
    BY <2>9, <2>10, <2>12
  <2> QED BY <1>4, <1>7, <2>7, <2>9, <2>10, <2>11, <2>13
<1> QED BY <1>5, <1>6, <1>7 DEF SnapshotScanXid, SnapshotScanSubxids

\* The end of the build: xmin is published and the lock given back.
LEMMA InstallSteps ==
  ASSUME ArrayInv, SnapInv, NEW p \in Sessions, SnapshotInstallXmin(p) \/ SnapshotUnlock(p),
         UNCHANGED <<logVars, snap, xact, gxact, plan>>
  PROVE  ArrayInv' /\ SnapInv'
<1>1. /\ Typed /\ Places /\ Session(p) /\ Snaps(p) /\ IsCall(call[p]) /\ IsVis(vis[p]) /\ IsSnaps(snap[p])
      /\ IsProc(proc[p]) /\ IsSnap(call[p].snap) /\ call[p].at \in Nat /\ vis = [q \in Sessions |-> vis[q]]
      /\ proc[p].xmin \in Nat /\ call[p].snap.xmin \in Nat
      /\ latestCompletedXid \in Nat /\ xactCompletionCount \in Nat \ {0} /\ p \in Members
  BY Unmoved DEF ArrayInv, SnapInv, IsCall, IsSnap, Typed, Members
<1>2. UNCHANGED <<snap, xact, gxact>>
  OBVIOUS
<1>3. DOMAIN xids = 1 .. Len(pgprocnos) /\ \A i \in DOMAIN xids : xids[i] \in Nat
  BY <1>1 DEF Typed
<1> USE DEF Goto, arrayVars, transamVars, denseVars
<1>4. PICK c, n : c = call[p] /\ n = snap[p]
  OBVIOUS
<1>5. CASE SnapshotInstallXmin(p)
  <2>1. PICK x \in Nat : x = IF proc[p].xmin = InvalidXid THEN c.snap.xmin ELSE proc[p].xmin
    BY <1>1, <1>4
  <2>2. PICK t : t = IF proc[p].xmin = InvalidXid THEN c.snap.xmin ELSE vis[p].TransactionXmin
    OBVIOUS
  <2>3. PICK v : v = [vis[p] EXCEPT !.TransactionXmin = t]
    OBVIOUS
  <2>4. IsVis(v) /\ v.maybeNeeded = vis[p].maybeNeeded
    BY <1>1, <2>3 DEF IsVis
  <2>5. /\ pc[p] = "scan" /\ c.at > Len(pgprocnos) /\ pc' = [pc EXCEPT ![p] = "snapshot_unlock"]
        /\ vis' = [vis EXCEPT ![p] = v] /\ UNCHANGED <<transamVars, denseVars, sharers, xidGen, call>>
    BY <1>1, <1>4, <1>5, <2>2, <2>3 DEF SnapshotInstallXmin
  <2>6. proc' = [proc EXCEPT ![p].xmin = x]
    BY <1>1, <1>4, <1>5, <2>1, Unmoved DEF SnapshotInstallXmin
  <2>7. Good("snapshot_unlock", c, v, n, x)
    BY <1>1, <1>4, <2>1, <2>4 DEF Good
  <2>8. Sets(p, "snapshot_unlock", c, v, n, x)
    BY <1>1, <1>2, <1>4, <2>5, <2>6, Unmoved DEF Sets
  <2>9. p \in sharers' /\ p \in sharers
    BY <1>1, <2>5 DEF Session, Sharing
  <2>10. Moves(p, pc[p], "snapshot_unlock")
    BY <2>5, <2>9 DEF Moves, Sharing
  <2>11. /\ ArrayInv' /\ Frame(p) /\ Still(p) /\ pc'[p] = "snapshot_unlock" /\ call'[p] = c /\ vis'[p] = v
         /\ snap'[p] = n /\ proc'[p].xmin = x
    BY <1>2, <2>7, <2>8, <2>10, QuietParts
  <2>12. Live(p)' = Live(p)
    BY <1>4, <2>5, <2>11 DEF Live
  <2>13. /\ c.snap.snapXactCompletionCount = xactCompletionCount
         /\ c.snap.xmax = latestCompletedXid + 1 /\ c.snap.xmin <= c.snap.xmax /\ c.snap.xmin # InvalidXid
         /\ Recent(c.snap.xmin)
         /\ \A i \in DOMAIN xids :
               (i < c.at \/ i = proc[p].pgxactoff) /\ xids[i] # InvalidXid => c.snap.xmin <= xids[i]
    BY <1>1, <1>4, <2>5 DEF Snaps, Building
  <2>14. Below(c.snap.xmin)
    <3>1. ASSUME NEW y \in Vals PROVE c.snap.xmin <= y
      <4>1. PICK i \in DOMAIN xids : xids[i] = y /\ y # InvalidXid
        BY DEF Vals
      <4>2. i < c.at
        <5>1. i \in Nat /\ i <= Len(pgprocnos) /\ Len(pgprocnos) \in Nat /\ c.at \in Nat
          BY <1>1, <1>3, <1>4 DEF Typed
        <5> QED BY <2>5, <5>1
      <4> QED BY <2>13, <4>1, <4>2
    <3> QED BY <2>13, <3>1 DEF Below
  <2>15. Built(c.snap)
    <3>1. c.snap.snapXactCompletionCount \in 1 .. xactCompletionCount
      BY <1>1, <2>13
    <3> QED BY <2>13, <2>14, <3>1 DEF Built
  <2>16. x # InvalidXid /\ Below(x) /\ x <= c.snap.xmin
    <3>1. CASE proc[p].xmin = InvalidXid
      BY <1>1, <1>4, <2>1, <2>13, <2>14, <3>1
    <3>2. CASE proc[p].xmin # InvalidXid
      <4>1. x # InvalidXid /\ Below(x)
        BY <1>1, <2>1, <3>2 DEF Snaps
      <4>2. x <= c.snap.xmin
        BY <2>13, <4>1, RecentAbove
      <4> QED BY <4>1, <4>2
    <3> QED BY <3>1, <3>2
  <2>17. proc[p].xmin = InvalidXid => Live(p) = {}
    BY <1>1 DEF Snaps
  <2>18. Making(p)'
    BY <2>11, <2>13, <2>15, <2>16 DEF Making, Still
  <2>19. Common(p)'
    <3>1. (\A u \in Structs : snap[p].static[u] = NoSnapshot \/ Built(snap[p].static[u]))'
      BY <1>1, <1>4, <2>11 DEF Still, Snaps
    <3>2. (\A s \in Live(p) : Built(s) /\ proc[p].xmin # InvalidXid /\ proc[p].xmin <= s.xmin)'
      BY <1>1, <2>1, <2>11, <2>12, <2>16, <2>17 DEF Still, Snaps
    <3>3. (Below(proc[p].xmin) /\ Below(vis[p].maybeNeeded))'
      BY <1>1, <2>4, <2>11, <2>16 DEF Still, Snaps
    <3> QED BY <3>1, <3>2, <3>3 DEF Common
  <2>20. OwnOK(p)
    BY <2>4, <2>11, <2>12, <2>18, <2>19 DEF OwnOK, Snaps, Common, Making
  <2> QED BY <2>11, <2>20, SnapStep
<1>6. CASE SnapshotUnlock(p)
  <2>1. PICK v : v = [vis[p] EXCEPT !.RecentXmin = c.snap.xmin]
    OBVIOUS
  <2>2. IsVis(v) /\ v.maybeNeeded = vis[p].maybeNeeded
    BY <1>1, <2>1 DEF IsVis
  <2>3. /\ pc[p] = "snapshot_unlock" /\ pc' = [pc EXCEPT ![p] = "taken"] /\ sharers' = sharers \ {p}
        /\ vis' = [vis EXCEPT ![p] = v] /\ UNCHANGED <<transamVars, denseVars, proc, xidGen, call>>
    BY <1>1, <1>4, <1>6, <2>1 DEF SnapshotUnlock
  <2>4. PICK x : x = proc[p].xmin
    OBVIOUS
  <2>5. Good("taken", c, v, n, x)
    BY <1>1, <1>4, <2>2, <2>4 DEF Good
  <2>6. Sets(p, "taken", c, v, n, x)
    BY <1>1, <1>2, <1>4, <2>3, <2>4, Unmoved DEF Sets
  <2>7. Moves(p, pc[p], "taken")
    BY <2>3 DEF Moves, Sharing
  <2>8. /\ ArrayInv' /\ Frame(p) /\ Still(p) /\ pc'[p] = "taken" /\ call'[p] = c /\ vis'[p] = v
        /\ snap'[p] = n /\ proc'[p].xmin = x
    BY <1>2, <2>5, <2>6, <2>7, QuietParts
  <2>9. Live(p)' = Live(p) \cup {c.snap}
    BY <1>4, <2>3, <2>8 DEF Live
  <2>10. /\ Built(c.snap) /\ c.snap.snapXactCompletionCount = xactCompletionCount
         /\ x # InvalidXid /\ x <= c.snap.xmin /\ Below(x)
    BY <1>1, <1>4, <2>3, <2>4 DEF Snaps
  <2>11. Recent(c.snap.xmin)
    BY <2>10 DEF Built
  <2>12. Making(p)'
    BY <2>8, <2>10 DEF Making, Still
  <2>13. Common(p)'
    <3>1. (\A u \in Structs : snap[p].static[u] = NoSnapshot \/ Built(snap[p].static[u]))'
      BY <1>1, <1>4, <2>8 DEF Still, Snaps
    <3>2. (\A s \in Live(p) : Built(s) /\ proc[p].xmin # InvalidXid /\ proc[p].xmin <= s.xmin)'
      BY <1>1, <2>4, <2>8, <2>9, <2>10 DEF Still, Snaps
    <3>3. (Below(proc[p].xmin) /\ Below(vis[p].maybeNeeded))'
      BY <1>1, <2>2, <2>8, <2>10 DEF Still, Snaps
    <3> QED BY <3>1, <3>2, <3>3 DEF Common
  <2>14. \A s \in Live(p)' : s \in Live(p) \/ Recent(s.xmin)'
    BY <2>8, <2>9, <2>11 DEF Still
  <2>15. OwnOK(p)
    BY <2>2, <2>8, <2>12, <2>13, <2>14 DEF OwnOK, Snaps, Common, Making
  <2> QED BY <2>8, <2>15, SnapStep
<1> QED BY <1>5, <1>6

\* The snapshot is pushed, or registered as the catalog snapshot, and its struct kept for reuse.
LEMMA TakenStep ==
  ASSUME ArrayInv, SnapInv, NEW p \in Sessions, SnapshotReturn(p)
  PROVE  ArrayInv' /\ SnapInv'
<1>1. /\ Typed /\ Snaps(p) /\ IsCall(call[p]) /\ IsVis(vis[p]) /\ IsSnaps(snap[p])
      /\ IsProc(proc[p]) /\ IsSnap(call[p].snap) /\ call[p].which \in Structs
      /\ proc[p].xmin \in Nat /\ snap = [q \in Sessions |-> snap[q]]
  BY Unmoved DEF ArrayInv, SnapInv, IsCall, Typed
<1>2. PICK level : SnapshotTaken(p, level) /\ UNCHANGED <<xact, gxact>>
  BY DEF SnapshotReturn
<1>3. PICK m, s, u : m = snap[p] /\ s = call[p].snap /\ u = call[p].which
  OBVIOUS
<1>4. /\ m = [static |-> m.static, active |-> m.active, registered |-> m.registered, catalogValid |-> m.catalogValid]
      /\ m.static = [w \in Structs |-> m.static[w]] /\ (\A w \in Structs : IsSnap(m.static[w]))
      /\ m.active \in Seq(Entries(m.active)) /\ (\A h \in Entries(m.active) : IsHeld(h))
      /\ (\A h \in m.registered : IsHeld(h)) /\ IsSnap(s) /\ u \in Structs
  BY <1>1, <1>3 DEF IsSnaps
<1>5. PICK st : st = [m.static EXCEPT ![u] = s]
  OBVIOUS
<1>6. st = [w \in Structs |-> st[w]] /\ st[u] = s /\ \A w \in Structs \ {u} : st[w] = m.static[w]
  BY <1>4, <1>5
<1>7. PICK f : f = [m EXCEPT !.static[u] = s]
  OBVIOUS
<1>8. f = [static |-> st, active |-> m.active, registered |-> m.registered, catalogValid |-> m.catalogValid]
  BY <1>4, <1>5, <1>7
<1>9. PICK e, g : e = Held(s, level) /\ g = Held(s, 0)
  OBVIOUS
<1>10. IsHeld(e) /\ e.snap = s /\ IsHeld(g) /\ g.snap = s
  BY <1>4, <1>9 DEF Held, IsHeld
<1>11. PICK n : n = IF u = "current" THEN [f EXCEPT !.active = Append(m.active, e)]
                    ELSE [f EXCEPT !.catalogValid = TRUE, !.registered = m.registered \cup {g}]
  OBVIOUS
<1>12. /\ pc[p] = "taken" /\ snap' = [snap EXCEPT ![p] = n] /\ call' = [call EXCEPT ![p] = NoCall]
       /\ pc' = [pc EXCEPT ![p] = "run"] /\ UNCHANGED <<arrayVars, vis>>
  BY <1>2, <1>3, <1>7, <1>8, <1>9, <1>11 DEF SnapshotTaken, Goto
<1>13. n = [static |-> st, active |-> n.active, registered |-> n.registered, catalogValid |-> n.catalogValid]
  BY <1>8, <1>11
<1>14. /\ n.active \in {m.active, Append(m.active, e)} /\ n.registered \in {m.registered, m.registered \cup {g}}
       /\ n.static = st
  BY <1>8, <1>11
<1>15. n.active \in Seq(Entries(n.active)) /\ \A h \in Entries(n.active) : h \in Entries(m.active) \/ h = e
  <2>1. CASE n.active = m.active
    BY <1>4, <2>1
  <2>2. CASE n.active = Append(m.active, e)
    <3>1. PICK S : S = Entries(m.active)
      OBVIOUS
    <3>2. PICK a \in Seq(S) : a = m.active
      BY <1>4, <3>1
    <3>3. PICK len \in Nat : len = Len(a)
      OBVIOUS
    <3>4. PICK b : b = n.active
      OBVIOUS
    <3>5. /\ b \in Seq(S \cup {e}) /\ DOMAIN b = 1 .. len + 1 /\ b[len + 1] = e
          /\ \A i \in 1 .. len : b[i] = a[i]
      <4>1. a \in Seq(S \cup {e}) /\ b = Append(a, e)
        BY <2>2, <3>2, <3>4
      <4> QED BY <3>3, <4>1
    <3>6. \A i \in 1 .. len : a[i] \in S
      BY <3>3
    <3>7. ASSUME NEW i \in 1 .. len + 1 PROVE b[i] \in S \/ b[i] = e
      <4>1. i = len + 1 \/ i \in 1 .. len
        OBVIOUS
      <4> QED BY <3>5, <3>6, <4>1
    <3>a. PICK k \in Nat : k = len + 1
      OBVIOUS
    <3>8. b \in [1 .. k -> Entries(b)] /\ k \in Nat
      <4>1. b = [i \in 1 .. k |-> b[i]]
        BY <3>5, <3>a
      <4>2. \A i \in 1 .. k : b[i] \in Entries(b)
        BY <3>5, <3>a DEF Entries
      <4> QED BY <4>1, <4>2
    <3>9. b \in Seq(Entries(b))
      BY ONLY <3>8, SeqDef, ZenonT(60)
    <3>10. \A h \in Entries(b) : h \in S \/ h = e
      BY <3>5, <3>7 DEF Entries
    <3> QED BY <3>1, <3>4, <3>9, <3>10
  <2> QED BY <1>14, <2>1, <2>2
<1>16. IsSnaps(n)
  <2>1. n = [static |-> n.static, active |-> n.active, registered |-> n.registered, catalogValid |-> n.catalogValid]
    BY <1>13, <1>14
  <2>2. n.static = [w \in Structs |-> n.static[w]] /\ \A w \in Structs : IsSnap(n.static[w])
    BY <1>4, <1>6, <1>14
  <2>3. \A h \in Entries(n.active) : IsHeld(h)
    BY <1>4, <1>10, <1>15
  <2>4. \A h \in n.registered : IsHeld(h)
    BY <1>4, <1>10, <1>14
  <2> QED BY <1>15, <2>1, <2>2, <2>3, <2>4 DEF IsSnaps
<1>17. PICK v, x : v = vis[p] /\ x = proc[p].xmin
  OBVIOUS
<1>18. PICK c : c = NoCall /\ IsCall(c)
  BY Blanks
<1>19. Good("run", c, v, n, x)
  BY <1>1, <1>16, <1>17, <1>18 DEF Good
<1>20. Sets(p, "run", c, v, n, x)
  BY <1>1, <1>12, <1>17, <1>18, Unmoved DEF Sets, arrayVars, transamVars, denseVars
<1>21. Moves(p, pc[p], "run")
  BY <1>12 DEF Moves, Sharing
<1>22. /\ ArrayInv' /\ Frame(p) /\ Still(p) /\ pc'[p] = "run" /\ call'[p] = c /\ vis'[p] = v
       /\ snap'[p] = n /\ proc'[p].xmin = x
  BY <1>2, <1>19, <1>20, <1>21, QuietParts
<1>23. Live(p)' \subseteq Live(p)
  <2>1. Live(p) = {m.active[i].snap : i \in DOMAIN m.active} \cup {h.snap : h \in m.registered} \cup {s}
    BY <1>3, <1>12 DEF Live
  <2>2. Live(p)' = {n.active[i].snap : i \in DOMAIN n.active} \cup {h.snap : h \in n.registered}
    BY <1>22 DEF Live
  <2>3. ASSUME NEW i \in DOMAIN n.active PROVE n.active[i].snap \in Live(p)
    <3>1. n.active[i] \in Entries(n.active)
      BY DEF Entries
    <3>2. n.active[i] \in Entries(m.active) \/ n.active[i] = e
      BY <1>15, <3>1
    <3> QED BY <1>10, <2>1, <3>2 DEF Entries
  <2>4. \A h \in n.registered : h.snap \in Live(p)
    BY <1>10, <1>14, <2>1
  <2> QED BY <2>2, <2>3, <2>4
<1>24. Built(s)
  BY <1>1, <1>3, <1>12 DEF Snaps
<1>25. Common(p)'
  <2>1. (\A w \in Structs : snap[p].static[w] = NoSnapshot \/ Built(snap[p].static[w]))'
    <3>1. \A w \in Structs : st[w] = NoSnapshot \/ Built(st[w])
      BY <1>1, <1>3, <1>6, <1>24 DEF Snaps
    <3> QED BY <1>14, <1>22, <3>1 DEF Still
  <2>2. (\A t \in Live(p) : Built(t) /\ proc[p].xmin # InvalidXid /\ proc[p].xmin <= t.xmin)'
    BY <1>1, <1>17, <1>22, <1>23 DEF Still, Snaps
  <2>3. (Below(proc[p].xmin) /\ Below(vis[p].maybeNeeded))'
    BY <1>1, <1>17, <1>22 DEF Still, Snaps
  <2> QED BY <2>1, <2>2, <2>3 DEF Common
<1>26. Making(p)'
  BY <1>22 DEF Making
<1>27. OwnOK(p)
  BY <1>17, <1>22, <1>23, <1>25, <1>26 DEF OwnOK, Snaps, Common, Making
<1> QED BY <1>22, <1>27, SnapStep

(***************************************************************************)
(* ComputeXidHorizons.                                                     *)
(***************************************************************************)

\* A session that reads has a place.
LEMMA ReadersListed ==
  ASSUME ArrayInv, SnapInv, NEW q \in Sessions, NEW s \in Live(q)
  PROVE  /\ proc[q].pgxactoff \in 1 .. Len(pgprocnos) /\ pgprocnos[proc[q].pgxactoff] = q
         /\ proc[q].xmin # InvalidXid /\ proc[q].xmin <= s.xmin /\ proc[q].xmin \in Nat /\ s.xmin \in Nat
<1>1. Typed /\ Places /\ Session(q) /\ Snaps(q) /\ q \in Members
  BY DEF ArrayInv, SnapInv, Members
<1>2. pc[q] # "out"
  BY <1>1 DEF Snaps
<1>3. Listed(q)
  BY <1>1, <1>2 DEF Session
<1>4. proc[q].pgxactoff \in 1 .. Len(pgprocnos) /\ pgprocnos[proc[q].pgxactoff] = q
  BY <1>1, <1>3, PlacesApart
<1>5. proc[q].xmin # InvalidXid /\ proc[q].xmin <= s.xmin /\ proc[q].xmin \in Nat
  BY <1>1 DEF Snaps, Typed, IsProc
<1>6. s.xmin \in Nat
  BY <1>1, LiveSnaps
<1> QED BY <1>4, <1>5, <1>6

\* The older of two xids.
LEMMA Older ==
  ASSUME NEW a \in Nat, NEW b \in Nat
  PROVE  /\ TransactionIdOlder(a, b) \in Nat
         /\ a # InvalidXid => TransactionIdOlder(a, b) # InvalidXid /\ TransactionIdOlder(a, b) <= a
         /\ b # InvalidXid => TransactionIdOlder(a, b) # InvalidXid /\ TransactionIdOlder(a, b) <= b
  BY DEF TransactionIdOlder

\* The scan of session p goes on at place k with horizon h and locals c.
Reaches(p, h, k, c) ==
  /\ IsCall(c) /\ c.at = k /\ c.xid = h
  /\ call' = [call EXCEPT ![p] = c] /\ pc' = [pc EXCEPT ![p] = "horizon_scan"]
  /\ UNCHANGED <<nextXid, latestCompletedXid, xactCompletionCount, pgprocnos, xids, proc, xidGen, vis, snap, xact, gxact>>
  /\ \A q \in Sessions \ {p} : q \in sharers => q \in sharers'
  /\ pc[p] \in {"horizon_lock", "horizon_scan"} /\ p \in sharers'
  /\ k # 0 /\ h # InvalidXid /\ h <= latestCompletedXid + 1
  /\ \A i \in DOMAIN xids : i < k /\ xids[i] # InvalidXid => h <= xids[i]
  /\ \A q \in Sessions : \A s \in Live(q) :
        h <= s.xmin \/ proc[q].pgxactoff >= k \/ Recent(s.xmin)

\* That keeps the invariant.
LEMMA ReachesStep ==
  ASSUME ArrayInv, SnapInv, NEW p \in Sessions, NEW h, NEW k, NEW c, Reaches(p, h, k, c)
  PROVE  ArrayInv' /\ SnapInv'
<1>1. Typed
  BY DEF ArrayInv
<1>2. UNCHANGED <<xact, gxact>>
  BY DEF Reaches
<1>3. PICK n, x, v : n = snap[p] /\ x = proc[p].xmin /\ v = vis[p]
  OBVIOUS
<1>4. Good("horizon_scan", c, v, n, x)
  BY <1>1, <1>3, Unmoved DEF Good, Reaches
<1>5. Sets(p, "horizon_scan", c, v, n, x)
  BY <1>1, <1>3, Unmoved DEF Sets, Reaches
<1>6. Moves(p, pc[p], "horizon_scan")
  BY DEF Moves, Sharing, Reaches
<1>7. /\ ArrayInv' /\ Frame(p) /\ Still(p) /\ Typed' /\ pc'[p] = "horizon_scan" /\ call'[p] = c /\ vis'[p] = v
      /\ snap'[p] = n /\ proc'[p].xmin = x
  BY <1>2, <1>4, <1>5, <1>6, QuietParts
<1>8. Live(p)' = Live(p)
  BY <1>3, <1>7 DEF Live, Reaches
<1>9. Keeps(p)
  BY <1>3, <1>7, <1>8 DEF Keeps
<1>10. \A q \in Sessions : Live(q)' = Live(q)
  BY <1>7, <1>8, OthersSnaps
<1>11. Scanned(p)'
  <2>1. latestCompletedXid' = latestCompletedXid /\ xids' = xids /\ proc' = proc
    BY DEF Reaches
  <2>2. \A m : Recent(m)' <=> Recent(m)
    BY <2>1 DEF Recent, Vals
  <2>3. (\A q \in Sessions : \A s \in Live(q) : h <= s.xmin \/ proc[q].pgxactoff >= k \/ Recent(s.xmin))'
    <3>1. ASSUME NEW q \in Sessions, NEW s \in Live(q)'
          PROVE  h <= s.xmin \/ proc'[q].pgxactoff >= k \/ Recent(s.xmin)'
      <4>1. h <= s.xmin \/ proc[q].pgxactoff >= k \/ Recent(s.xmin)
        BY <1>10 DEF Reaches
      <4> QED BY <2>1, <2>2, <4>1
    <3> QED BY <3>1
  <2>4. c.at = k /\ c.xid = h /\ k # 0 /\ h # InvalidXid
    BY DEF Reaches
  <2>5. (h <= latestCompletedXid + 1 /\ \A i \in DOMAIN xids : i < k /\ xids[i] # InvalidXid => h <= xids[i])'
    BY <2>1 DEF Reaches
  <2> QED BY <1>7, <2>3, <2>4, <2>5 DEF Scanned
<1>12. Common(p)'
  BY <1>7, <1>9, KeepsCommon
<1>13. Making(p)'
  BY <1>7 DEF Making
<1>14. OwnOK(p)
  BY <1>9, <1>11, <1>12, <1>13 DEF OwnOK, Keeps, Snaps, Common, Making
<1> QED BY <1>7, <1>14, SnapStep

\* The scan for a horizon.
LEMMA HorizonSteps ==
  ASSUME ArrayInv, SnapInv, NEW p \in Sessions, HorizonStep(p),
         UNCHANGED <<logVars, snap, xact, gxact, plan>>
  PROVE  ArrayInv' /\ SnapInv'
<1>0. Typed /\ Places /\ Session(p) /\ Snaps(p)
  BY DEF ArrayInv, SnapInv
<1>1. /\ IsCall(call[p]) /\ IsVis(vis[p]) /\ IsSnaps(snap[p])
      /\ IsProc(proc[p]) /\ call[p].at \in Nat /\ call[p].xid \in Nat /\ proc[p].xmin \in Nat
      /\ call = [q \in Sessions |-> call[q]] /\ vis = [q \in Sessions |-> vis[q]]
      /\ latestCompletedXid \in Nat /\ Len(pgprocnos) \in Nat
  <2>1. IsCall(call[p]) /\ IsVis(vis[p]) /\ IsSnaps(snap[p]) /\ IsProc(proc[p]) /\ proc[p].xmin \in Nat
    BY <1>0, Unmoved
  <2>2. call[p].at \in Nat /\ call[p].xid \in Nat
    BY <2>1 DEF IsCall
  <2>3. call = [q \in Sessions |-> call[q]] /\ vis = [q \in Sessions |-> vis[q]]
    BY <1>0 DEF Typed
  <2>4. latestCompletedXid \in Nat /\ pgprocnos \in Seq(Members)
    BY <1>0 DEF Typed
  <2> QED BY <2>1, <2>2, <2>3, <2>4
<1>2. UNCHANGED <<snap, xact, gxact>>
  OBVIOUS
<1>3. DOMAIN xids = 1 .. Len(pgprocnos) /\ \A i \in DOMAIN xids : xids[i] \in Nat
  BY <1>0 DEF Typed
<1> USE DEF Goto, arrayVars, transamVars, denseVars
<1>4. PICK n, x : n = snap[p] /\ x = proc[p].xmin
  OBVIOUS
<1>6. CASE HorizonLock(p)
  <2>1. PICK h \in Nat : h = latestCompletedXid + 1
    BY <1>1
  <2>2. PICK k \in Nat : k = 1
    OBVIOUS
  <2>3. PICK c : c = [call[p] EXCEPT !.at = k, !.xid = h]
    OBVIOUS
  <2>4. /\ call' = [call EXCEPT ![p] = c] /\ pc' = [pc EXCEPT ![p] = "horizon_scan"] /\ pc[p] = "horizon_lock"
        /\ sharers' = sharers \cup {p} /\ UNCHANGED <<transamVars, denseVars, proc, xidGen, vis>>
    BY <1>1, <1>6, <2>1, <2>2, <2>3 DEF HorizonLock
  <2>5. \A i \in DOMAIN xids : i < k /\ xids[i] # InvalidXid => h <= xids[i]
    BY <1>3, <2>2
  <2>6. \A q \in Sessions : \A s \in Live(q) : proc[q].pgxactoff >= k
    <3>1. ASSUME NEW q \in Sessions, NEW s \in Live(q) PROVE proc[q].pgxactoff >= k
      <4>1. proc[q].pgxactoff \in 1 .. Len(pgprocnos)
        BY ReadersListed
      <4> QED BY <1>1, <2>2, <4>1
    <3> QED BY <3>1
  <2>7. k # 0 /\ h # InvalidXid /\ h <= latestCompletedXid + 1
    BY <1>1, <2>1, <2>2 DEF InvalidXid
  <2>8. IsCall(c) /\ c.at = k /\ c.xid = h
    <3>1. IsCall(call[p])
      BY <1>1
    <3> QED BY ONLY <2>3, <3>1, h \in Nat, k \in Nat DEF IsCall
  <2>9. Reaches(p, h, k, c)
    BY <1>2, <2>4, <2>5, <2>6, <2>7, <2>8 DEF Reaches
  <2> QED BY <2>9, ReachesStep
<1>7. ASSUME pc[p] = "horizon_scan", HorizonScan(p) PROVE ArrayInv' /\ SnapInv'
  <2>1. PICK j \in Nat : j = call[p].at
    BY <1>1
  <2>2. PICK h \in Nat : h = call[p].xid
    BY <1>1
  <2>3. /\ j # 0 /\ h # InvalidXid /\ h <= latestCompletedXid + 1
        /\ \A i \in DOMAIN xids : i < j /\ xids[i] # InvalidXid => h <= xids[i]
        /\ \A q \in Sessions : \A s \in Live(q) : h <= s.xmin \/ proc[q].pgxactoff >= j \/ Recent(s.xmin)
    BY <1>7, <2>1, <2>2 DEF SnapInv, Scanned
  <2>4. j <= Len(pgprocnos) /\ j \in DOMAIN xids /\ j \in DOMAIN pgprocnos
    <3>1. j <= Len(pgprocnos)
      BY <1>7, <2>1 DEF HorizonScan
    <3>2. j \in 1 .. Len(pgprocnos)
      BY <1>1, <2>3, <3>1
    <3>3. DOMAIN pgprocnos = 1 .. Len(pgprocnos)
      BY <1>0 DEF Typed
    <3> QED BY <1>3, <3>1, <3>2, <3>3
  <2>5. PICK a \in Nat : a = proc[pgprocnos[j]].xmin
    <3>1. pgprocnos[j] \in Members
      BY <1>0, <2>4 DEF Typed
    <3>2. IsProc(proc[pgprocnos[j]])
      BY <1>0, <3>1 DEF Typed
    <3> QED BY <3>2 DEF IsProc
  <2>6. PICK b \in Nat : b = xids[j]
    BY <1>3, <2>4
  <2>7. PICK e \in Nat : /\ e = TransactionIdOlder(a, b)
                         /\ a # InvalidXid => e # InvalidXid /\ e <= a
                         /\ b # InvalidXid => e # InvalidXid /\ e <= b
    BY Older
  <2>8. PICK g \in Nat : /\ g = TransactionIdOlder(h, e) /\ g # InvalidXid /\ g <= h
                         /\ e # InvalidXid => g <= e
    BY <2>3, Older
  <2>9. PICK k \in Nat : k = j + 1
    OBVIOUS
  <2>10. PICK c : c = [call[p] EXCEPT !.at = k, !.xid = g]
    OBVIOUS
  <2>11. /\ UNCHANGED <<arrayVars, pc, vis>>
         /\ call' = [call EXCEPT ![p].at = k, ![p].xid = TransactionIdOlder(@, e)]
    BY <1>7, <2>1, <2>5, <2>6, <2>7, <2>9 DEF HorizonScan
  <2>12. call' = [call EXCEPT ![p] = c]
    <3>1. PICK c1 : c1 = [call[p] EXCEPT !.at = k]
      OBVIOUS
    <3>2. c1.xid = h
      BY <1>1, <2>2, <3>1 DEF IsCall
    <3>3. PICK d1 : d1 = [call EXCEPT ![p] = c1]
      OBVIOUS
    <3>4. d1[p] = c1
      BY <1>1, <3>3
    <3>5. call' = [d1 EXCEPT ![p].xid = TransactionIdOlder(d1[p].xid, e)]
      BY <2>11, <3>1, <3>3
    <3>6. call' = [d1 EXCEPT ![p] = [c1 EXCEPT !.xid = g]]
      BY <2>8, <3>2, <3>4, <3>5
    <3>7. [c1 EXCEPT !.xid = g] = c
      BY <2>10, <3>1
    <3>8. [d1 EXCEPT ![p] = c] = [call EXCEPT ![p] = c]
      BY <1>1, <3>3
    <3> QED BY <3>6, <3>7, <3>8
  <2>13. ASSUME NEW i \in DOMAIN xids, i < k, xids[i] # InvalidXid PROVE g <= xids[i]
    <3>1. CASE i < j
      <4>1. h <= xids[i] /\ xids[i] \in Nat
        BY <1>3, <2>3, <2>13, <3>1
      <4> QED BY <2>8, <4>1
    <3>2. CASE i = j
      <4>1. b # InvalidXid /\ e # InvalidXid /\ e <= b /\ g <= e
        BY <2>6, <2>7, <2>8, <2>13, <3>2
      <4> QED BY <2>6, <3>2, <4>1
    <3> QED BY <1>3, <2>9, <2>13, <3>1, <3>2
  <2>14. ASSUME NEW q \in Sessions, NEW s \in Live(q) PROVE g <= s.xmin \/ proc[q].pgxactoff >= k \/ Recent(s.xmin)
    <3>1. /\ proc[q].pgxactoff \in 1 .. Len(pgprocnos) /\ pgprocnos[proc[q].pgxactoff] = q
          /\ proc[q].xmin # InvalidXid /\ proc[q].xmin <= s.xmin /\ proc[q].xmin \in Nat /\ s.xmin \in Nat
      BY ReadersListed
    <3>2. h <= s.xmin \/ proc[q].pgxactoff >= j \/ Recent(s.xmin)
      BY <2>3
    <3>3. CASE h <= s.xmin
      BY <2>8, <3>1, <3>3
    <3>4. CASE proc[q].pgxactoff = j
      <4>1. a = proc[q].xmin
        BY <2>5, <3>1, <3>4
      <4>2. e # InvalidXid /\ e <= a /\ g <= e
        BY <2>7, <2>8, <3>1, <4>1
      <4> QED BY <3>1, <4>1, <4>2
    <3>5. CASE proc[q].pgxactoff > j
      BY <1>1, <2>9, <3>1, <3>5
    <3> QED BY <1>1, <3>1, <3>2, <3>3, <3>4, <3>5
  <2>15. k # 0 /\ g <= latestCompletedXid + 1
    <3>0. latestCompletedXid \in Nat
      BY <1>1
    <3>1. PICK b1 \in Nat : b1 = latestCompletedXid + 1
      BY ONLY <3>0
    <3>2. h <= b1
      BY <2>3, <3>1
    <3>3. g <= b1
      BY <2>8, <3>2
    <3> QED BY <2>9, <3>1, <3>3
  <2>16. p \in sharers' /\ pc' = [pc EXCEPT ![p] = "horizon_scan"]
    <3>1. p \in sharers
      BY <1>0, <1>7 DEF Session, Sharing
    <3> QED BY <1>0, <1>7, <2>11, <3>1, Unmoved
  <2>17. /\ \A q \in Sessions \ {p} : q \in sharers => q \in sharers'
         /\ UNCHANGED <<transamVars, denseVars, proc, xidGen, vis>>
    BY <2>11
  <2>18. /\ \A i \in DOMAIN xids : i < k /\ xids[i] # InvalidXid => g <= xids[i]
         /\ \A q \in Sessions : \A s \in Live(q) : g <= s.xmin \/ proc[q].pgxactoff >= k \/ Recent(s.xmin)
    BY <2>13, <2>14
  <2>19. IsCall(c) /\ c.at = k /\ c.xid = g
    <3>1. IsCall(call[p])
      BY <1>1
    <3> QED BY ONLY <2>10, <3>1, g \in Nat, k \in Nat DEF IsCall
  <2>20. Reaches(p, g, k, c)
    BY <1>2, <1>7, <2>8, <2>12, <2>15, <2>16, <2>17, <2>18, <2>19 DEF Reaches
  <2> QED BY <2>20, ReachesStep
<1>8. ASSUME pc[p] = "horizon_scan", HorizonUnlock(p) PROVE ArrayInv' /\ SnapInv'
  <2>1. PICK h \in Nat : h = call[p].xid
    BY <1>1
  <2>2. /\ h <= latestCompletedXid + 1
        /\ \A i \in DOMAIN xids : i < call[p].at /\ xids[i] # InvalidXid => h <= xids[i]
        /\ \A q \in Sessions : \A s \in Live(q) : h <= s.xmin \/ proc[q].pgxactoff >= call[p].at \/ Recent(s.xmin)
    BY <1>8, <2>1 DEF SnapInv, Scanned
  <2>3. PICK v : v = [vis[p] EXCEPT !.maybeNeeded = h]
    OBVIOUS
  <2>4. IsVis(v) /\ v.maybeNeeded = h
    BY <1>1, <2>3 DEF IsVis
  <2>5. PICK c : c = NoCall /\ IsCall(c)
    BY Blanks
  <2>6. /\ call[p].at > Len(pgprocnos) /\ sharers' = sharers \ {p} /\ vis' = [vis EXCEPT ![p] = v]
        /\ call' = [call EXCEPT ![p] = c] /\ pc' = [pc EXCEPT ![p] = "run"]
        /\ UNCHANGED <<transamVars, denseVars, proc, xidGen>>
    BY <1>1, <1>8, <2>1, <2>3, <2>5 DEF HorizonUnlock
  <2>7. Good("run", c, v, n, x)
    BY <1>1, <1>4, <2>4, <2>5 DEF Good
  <2>8. Sets(p, "run", c, v, n, x)
    BY <1>0, <1>2, <1>4, <2>6, Unmoved DEF Sets
  <2>9. Moves(p, pc[p], "run")
    BY <1>8 DEF Moves, Sharing
  <2>10. /\ ArrayInv' /\ Frame(p) /\ Still(p) /\ Typed' /\ pc'[p] = "run" /\ call'[p] = c /\ vis'[p] = v
         /\ snap'[p] = n /\ proc'[p].xmin = x
    BY <1>2, <2>7, <2>8, <2>9, QuietParts
  <2>11. Live(p)' = Live(p)
    BY <1>4, <1>8, <2>10 DEF Live
  <2>12. \A q \in Sessions : Live(q)' = Live(q)
    BY <2>10, <2>11, OthersSnaps
  <2>13. Below(h)
    <3>1. ASSUME NEW y \in Vals PROVE h <= y
      <4>1. PICK i \in DOMAIN xids : xids[i] = y /\ y # InvalidXid
        BY DEF Vals
      <4>2. i < call[p].at
        BY <1>1, <1>3, <2>6
      <4> QED BY <2>2, <4>1, <4>2
    <3> QED BY <2>2, <3>1 DEF Below
  <2>14. ASSUME NEW q \in Sessions, NEW s \in Live(q) PROVE h <= s.xmin
    <3>1. proc[q].pgxactoff \in 1 .. Len(pgprocnos)
      BY ReadersListed
    <3>2. ~(proc[q].pgxactoff >= call[p].at)
      BY <1>1, <2>6, <3>1
    <3>3. CASE Recent(s.xmin)
      BY <2>13, <3>3, RecentAbove
    <3> QED BY <2>2, <3>2, <3>3
  <2>15. Common(p)'
    <3>1. (\A w \in Structs : snap[p].static[w] = NoSnapshot \/ Built(snap[p].static[w]))'
      BY <1>0, <1>4, <2>10 DEF Still, Snaps
    <3>2. (\A s \in Live(p) : Built(s) /\ proc[p].xmin # InvalidXid /\ proc[p].xmin <= s.xmin)'
      BY <1>0, <1>4, <2>10, <2>11 DEF Still, Snaps
    <3>3. (Below(proc[p].xmin) /\ Below(vis[p].maybeNeeded))'
      BY <1>0, <1>4, <2>4, <2>10, <2>13 DEF Still, Snaps
    <3> QED BY <3>1, <3>2, <3>3 DEF Common
  <2>16. Making(p)'
    BY <2>10 DEF Making
  <2>17. \A q \in Sessions : \A s \in Live(q)' : vis'[p].maybeNeeded <= s.xmin
    BY <2>4, <2>10, <2>12, <2>14
  <2>18. OwnOK(p)
    BY <2>10, <2>11, <2>15, <2>16, <2>17 DEF OwnOK, Snaps, Common, Making
  <2> QED BY <2>10, <2>18, SnapStep
<1> QED BY <1>6, <1>7, <1>8 DEF HorizonStep, HorizonScan, HorizonUnlock

(***************************************************************************)
(* Steps that change the array.                                            *)
(***************************************************************************)

\* Such a step, when it takes no snapshot.
LEMMA LoudStep ==
  ASSUME ArrayInv, SnapInv, NEW p \in Sessions, Rest(p), Typed', Places',
         (0 < Bound /\ latestCompletedXid < Bound)', Prepd', Session(p)', Frame(p), Keeps(p),
         pc'[p] \notin Snapping, pc'[p] \in {"idle", "out"} => Live(p)' = {}
  PROVE  ArrayInv' /\ SnapInv'
<1>1. ArrayInv'
  BY StepKeeps
<1>2. OwnOK(p)
  BY KeepsOwn
<1> QED BY <1>1, <1>2, SnapStep

\* What session p sets: where it is, its locals, its stack; the others' PGPROCs keep their xid and xmin.
SetsOwn(p, w, c, l) ==
  /\ pc' = [pc EXCEPT ![p] = w] /\ call' = [call EXCEPT ![p] = c] /\ xact' = [xact EXCEPT ![p] = l]
  /\ IsCall(c) /\ l \in Seq(Levels) /\ UNCHANGED vis
  /\ proc' = [m \in Members |-> proc'[m]] /\ \A m \in Members : IsProc(proc'[m])
  /\ \A q \in Sessions \ {p} : proc'[q].xid = proc[q].xid /\ proc'[q].xmin = proc[q].xmin
  /\ snap' = [q \in Sessions |-> snap'[q]] /\ IsSnaps(snap'[p])
  /\ \A q \in Sessions \ {p} : snap'[q] = snap[q]
  /\ gxact' \in [Dummies -> GXacts]

\* The values, and what is typed.
LEMMA SetsOwnParts ==
  ASSUME Typed, NEW p \in Sessions, NEW w, NEW c, NEW l, SetsOwn(p, w, c, l)
  PROVE  Own1(p) /\ pc'[p] = w /\ call'[p] = c /\ xact'[p] = l
<1>1. /\ call = [q \in Sessions |-> call[q]] /\ pc = [q \in Sessions |-> pc[q]]
      /\ xact \in [Sessions -> Seq(Levels)]
      /\ vis = [q \in Sessions |-> vis[q]] /\ IsVis(vis[p])
  BY DEF Typed
<1>2. /\ pc' = [pc EXCEPT ![p] = w] /\ call' = [call EXCEPT ![p] = c] /\ xact' = [xact EXCEPT ![p] = l]
      /\ IsCall(c) /\ l \in Seq(Levels) /\ vis' = vis
  BY DEF SetsOwn
<1>3. pc' = [q \in Sessions |-> pc'[q]] /\ pc'[p] = w /\ \A q \in Sessions \ {p} : pc'[q] = pc[q]
  BY <1>1, <1>2
<1>4. call' = [q \in Sessions |-> call'[q]] /\ call'[p] = c /\ \A q \in Sessions \ {p} : call'[q] = call[q]
  BY <1>1, <1>2
<1>5. xact' \in [Sessions -> Seq(Levels)] /\ xact'[p] = l /\ \A q \in Sessions \ {p} : xact'[q] = xact[q]
  BY <1>1, <1>2
<1>6. Own1(p)
  BY <1>1, <1>2, <1>3, <1>4, <1>5 DEF Own1, SetsOwn
<1> QED BY <1>3, <1>4, <1>5, <1>6

\* XidGenLock has one holder.
LEMMA OneHolder ==
  ASSUME ArrayInv, NEW p \in Sessions, xidGen \in {p, NoProc}, NEW q \in Sessions \ {p}
  PROVE  pc[q] \notin {"xid_publish", "xid_release"} /\ p # NoProc
<1>1. Handed(q)
  BY DEF ArrayInv, Session
<1>2. q # NoProc /\ p # NoProc
  BY ProcArrayAssumption DEF Members, NoProc
<1> QED BY <1>1, <1>2 DEF Handed

\* An xid handed out: the steps that leave the places and what they hold.
LEMMA HandStep ==
  ASSUME ArrayInv, SnapInv, NEW p \in Sessions, NEW w, NEW c, NEW l, SetsOwn(p, w, c, l),
         UNCHANGED <<latestCompletedXid, xactCompletionCount, pgprocnos, xids, proc, sharers, snap, gxact>>,
         xidGen \in {p, NoProc}, xidGen' \in {p, NoProc}, nextXid' \in Nat \ {0},
         Bound <= Bound', pc[p] \notin Snapping \cup Over \cup {"out"}, w \notin Snapping \cup Over \cup {"out", "idle"},
         (Works(p) /\ Handed(p) /\ XidsBelow(p) /\ TopListed(p) /\ Nested(p))', w \notin Sharing
  PROVE  ArrayInv' /\ SnapInv'
<1>1. Typed /\ Places /\ Prepd /\ Session(p) /\ Snaps(p) /\ 0 < Bound /\ latestCompletedXid < Bound
  BY DEF ArrayInv, SnapInv
<1>2. Own1(p) /\ pc'[p] = w /\ call'[p] = c /\ xact'[p] = l
  BY <1>1, SetsOwnParts
<1>3. /\ latestCompletedXid \in Nat /\ xactCompletionCount \in Nat \ {0} /\ nextXid \in Nat
      /\ pgprocnos \in Seq(Members) /\ xids \in Seq(Nat) /\ Len(xids) = Len(pgprocnos)
  BY <1>1 DEF Typed
<1>4. xidGen' \in Nat
  BY ProcArrayAssumption DEF Members, NoProc
<1>5. Typed'
  BY <1>1, <1>2, <1>3, <1>4, OwnTyped
<1>6. \A m : Listed(m)' <=> Listed(m)
  BY DEF Listed
<1>7. Places'
  BY <1>1 DEF Places
<1>8. Bound \in Int /\ Bound' \in Int /\ Bound <= Bound'
  BY <1>1, <1>5 DEF Bound, Typed
<1>9. (0 < Bound /\ latestCompletedXid < Bound)'
  <2>1. PICK b1, b2 \in Int : b1 = Bound /\ b2 = Bound' /\ b1 <= b2
    BY <1>8
  <2>2. 0 < b2 /\ latestCompletedXid < b2
    BY <1>1, <1>3, <2>1
  <2> QED BY <2>1, <2>2
<1>10. Prepd'
  <2>1. ASSUME NEW d \in Dummies PROVE gxact[d].xid < Bound' /\ \A x \in gxact[d].children : x < Bound'
    <3>1. gxact[d] \in GXacts
      BY <1>1 DEF Typed
    <3>2. gxact[d].xid \in Nat /\ gxact[d].children \subseteq Nat
      BY <3>1 DEF GXacts
    <3>3. gxact[d].xid < Bound /\ \A x \in gxact[d].children : x < Bound
      BY <1>1 DEF Prepd
    <3> QED BY <1>8, <3>2, <3>3
  <2>2. gxact' = gxact
    OBVIOUS
  <2> QED BY <1>1, <1>6, <2>1, <2>2 DEF Prepd
<1>11. Session(p)'
  <2>1. (Listed(p) <=> pc[p] # "out")' /\ (pc[p] \in Sharing => p \in sharers)'
    BY <1>1, <1>2, <1>6 DEF Session
  <2> QED BY <2>1 DEF Session
<1>12. Rest(p)
  <2>1. \A q \in Sessions \ {p} : pc[q] \notin {"xid_publish", "xid_release"}
    BY OneHolder
  <2> QED BY <1>2, <1>6, <1>8, <2>1 DEF Rest, Own1
<1>13. Frame(p)
  <2>1. Vals' = Vals
    BY DEF Vals
  <2> QED BY <1>2, <1>3, <2>1 DEF Frame, Own1
<1>14. Live(p)' \subseteq Live(p)
  BY <1>2 DEF Live, Snapping, Over
<1>15. Keeps(p)
  <2>1. vis' = vis
    BY DEF SetsOwn
  <2> QED BY <1>14, <2>1 DEF Keeps
<1>16. pc'[p] \notin Snapping /\ pc'[p] \notin {"idle", "out"}
  BY <1>2
<1> QED BY <1>5, <1>7, <1>9, <1>10, <1>11, <1>12, <1>13, <1>15, <1>16, LoudStep

\* Taking XidGenLock and the next xid.
LEMMA AssignLockStep ==
  ASSUME ArrayInv, SnapInv, NEW p \in Sessions, GetNewTransactionIdLock(p),
         UNCHANGED <<logVars, snap, xact, gxact, plan>>
  PROVE  ArrayInv' /\ SnapInv'
<1>1. Typed /\ Session(p)
  BY DEF ArrayInv
<1> USE DEF Goto, arrayVars, transamVars, denseVars
<1>2. /\ pc[p] = "xid_lock" /\ xidGen = NoProc /\ xidGen' = p /\ nextXid' = nextXid + 1
      /\ call' = [call EXCEPT ![p].xid = nextXid] /\ pc' = [pc EXCEPT ![p] = "xid_publish"]
      /\ UNCHANGED <<latestCompletedXid, xactCompletionCount, pgprocnos, xids, proc, sharers, vis, snap, xact, gxact>>
  BY DEF GetNewTransactionIdLock
<1>3. PICK n \in Nat \ {0} : n = nextXid /\ nextXid' = n + 1
  BY <1>1, <1>2 DEF Typed
<1>4. PICK c : c = [call[p] EXCEPT !.xid = n]
  OBVIOUS
<1>5. IsCall(call[p]) /\ call = [q \in Sessions |-> call[q]]
  BY <1>1 DEF Typed
<1>6. IsCall(c) /\ c.xid = n /\ c.gxact = call[p].gxact
  BY ONLY <1>3, <1>4, <1>5, n \in Nat DEF IsCall
<1>7. call' = [call EXCEPT ![p] = c]
  BY <1>2, <1>3, <1>4, <1>5
<1>8. PICK l : l = xact[p] /\ l \in Seq(Levels) /\ xact' = [xact EXCEPT ![p] = l]
  <2>1. xact \in [Sessions -> Seq(Levels)]
    BY <1>1 DEF Typed
  <2>2. xact = [xact EXCEPT ![p] = xact[p]] /\ xact[p] \in Seq(Levels)
    BY <2>1
  <2> QED BY <1>2, <2>2
<1>9. SetsOwn(p, "xid_publish", c, l)
  <2>1. /\ proc = [m \in Members |-> proc[m]] /\ \A m \in Members : IsProc(proc[m])
        /\ snap = [q \in Sessions |-> snap[q]] /\ IsSnaps(snap[p]) /\ gxact \in [Dummies -> GXacts]
    BY <1>1 DEF Typed
  <2> QED BY <1>2, <1>6, <1>7, <1>8, <2>1 DEF SetsOwn
<1>10. pc'[p] = "xid_publish" /\ call'[p] = c /\ xact'[p] = l
  BY <1>1, <1>9, SetsOwnParts
<1>11. p # NoProc
  BY ProcArrayAssumption DEF Members, NoProc
<1>12. Bound = n /\ Bound' = n
  <2>1. n + 1 - 1 = n
    OBVIOUS
  <2> QED BY <1>2, <1>3, <1>11, <2>1 DEF Bound
<1>13. XidsBelow(p)'
  BY <1>1, <1>2, <1>12 DEF Session, XidsBelow
<1>14. Handed(p)'
  <2>1. Unassigned(p)' # {}
    BY <1>1, <1>2 DEF Session, Handed, Unassigned
  <2>2. call'[p].xid = nextXid' - 1
    BY <1>3, <1>6, <1>10
  <2> QED BY <1>2, <2>1, <2>2 DEF Handed
<1>15. TopListed(p)'
  BY <1>1, <1>2, <1>10 DEF Session, TopListed, TopXid
<1>16. Works(p)' /\ Nested(p)'
  BY <1>10 DEF Works, Working, Nested
<1>17. nextXid' \in Nat \ {0} /\ Bound <= Bound' /\ xidGen \in {p, NoProc} /\ xidGen' \in {p, NoProc}
  BY <1>2, <1>3, <1>12
<1>18. PICK w : w = "xid_publish" /\ w \notin Snapping \cup Over \cup {"out", "idle"} /\ w \notin Sharing
  BY DEF Snapping, Over, Sharing
<1>19. pc[p] \notin Snapping \cup Over \cup {"out"}
  BY <1>2 DEF Snapping, Over
<1>20. SetsOwn(p, w, c, l)
  BY <1>9, <1>18
<1> QED BY <1>2, <1>13, <1>14, <1>15, <1>16, <1>17, <1>18, <1>19, <1>20, HandStep

\* The xid is the transaction's, and XidGenLock is free.
LEMMA AssignReturnStep ==
  ASSUME ArrayInv, SnapInv, NEW p \in Sessions, AssignReturn(p)
  PROVE  ArrayInv' /\ SnapInv'
<1>1. Typed /\ Session(p)
  BY DEF ArrayInv
<1>2. PICK i : i = CHOOSE k \in Unassigned(p) : \A n \in Unassigned(p) : k <= n
  OBVIOUS
<1> USE DEF Goto, arrayVars, transamVars, denseVars
<1>3. /\ pc[p] = "xid_release" /\ xidGen' = NoProc /\ pc' = [pc EXCEPT ![p] = "xid_parent"]
      /\ xact' = [xact EXCEPT ![p][i].xid = call[p].xid]
      /\ UNCHANGED <<nextXid, latestCompletedXid, xactCompletionCount, pgprocnos, xids, proc, sharers, call, vis, snap, gxact>>
  BY <1>2 DEF AssignReturn, GetNewTransactionIdRelease
<1>4. xidGen = p /\ call[p].xid = nextXid - 1 /\ Unassigned(p) # {}
  BY <1>1, <1>3 DEF Session, Handed
<1>5. PICK n \in Nat \ {0} : n = nextXid
  BY <1>1 DEF Typed
<1>6. p # NoProc
  BY ProcArrayAssumption DEF Members, NoProc
<1>7. Bound = n - 1 /\ Bound' = n
  BY <1>3, <1>4, <1>5, <1>6 DEF Bound
<1>8. PICK x \in Nat : x = call[p].xid /\ x = n - 1
  BY <1>4, <1>5
<1>9. PICK s \in Seq(Levels) : s = xact[p]
  BY <1>1 DEF Typed
<1>10. i \in DOMAIN s /\ s[i].xid = InvalidXid /\ (\A k \in Unassigned(p) : i <= k) /\ DOMAIN s = 1 .. Len(s)
  <2>1. Unassigned(p) \in SUBSET Nat
    BY <1>9 DEF Unassigned
  <2>2. \E k \in Unassigned(p) : \A j \in Unassigned(p) : k <= j
    BY <1>4, <2>1, LeastNat
  <2>3. i \in Unassigned(p) /\ \A k \in Unassigned(p) : i <= k
    BY <1>2, <2>2
  <2> QED BY <1>9, <2>3 DEF Unassigned
<1>11. PICK e : e = [s[i] EXCEPT !.xid = x]
  OBVIOUS
<1>12. s[i] \in Levels
  BY <1>10
<1>13. e \in Levels /\ e.xid = x /\ e.children = s[i].children
  BY ONLY <1>11, <1>12, x \in Nat DEF Levels
<1>14. PICK l : l = [s EXCEPT ![i] = e]
  OBVIOUS
<1>15. DOMAIN l = DOMAIN s /\ l[i] = e /\ \A k \in DOMAIN s : k # i => l[k] = s[k]
  BY <1>10, <1>14
<1>16. l \in Seq(Levels)
  <2>1. PICK m \in Nat : m = Len(s)
    OBVIOUS
  <2>2. l \in [1 .. m -> Levels]
    BY <1>10, <1>13, <1>14, <2>1
  <2> QED BY ONLY <2>2, m \in Nat, SeqDef, Zenon
<1>17. xact' = [xact EXCEPT ![p] = l]
  <2>1. xact' = [xact EXCEPT ![p] = [xact[p] EXCEPT ![i] = [xact[p][i] EXCEPT !.xid = x]]]
    BY <1>3, <1>8
  <2> QED BY <1>9, <1>11, <1>14, <2>1
<1>18. PICK w : w = "xid_parent" /\ w \notin Snapping \cup Over \cup {"out", "idle"} /\ w \notin Sharing
  BY DEF Snapping, Over, Sharing
<1>19. PICK c : c = call[p] /\ call' = [call EXCEPT ![p] = c]
  BY <1>1, <1>3, Unmoved
<1>20. SetsOwn(p, w, c, l)
  <2>1. /\ proc = [m \in Members |-> proc[m]] /\ \A m \in Members : IsProc(proc[m])
        /\ snap = [q \in Sessions |-> snap[q]] /\ IsSnaps(snap[p]) /\ gxact \in [Dummies -> GXacts]
        /\ IsCall(call[p])
    BY <1>1 DEF Typed
  <2> QED BY <1>3, <1>16, <1>17, <1>18, <1>19, <2>1 DEF SetsOwn
<1>21. pc'[p] = "xid_parent" /\ call'[p] = c /\ xact'[p] = l
  BY <1>1, <1>18, <1>20, SetsOwnParts
<1>22. XidsBelow(p)'
  <2>1. ASSUME NEW k \in DOMAIN l PROVE l[k].xid < n /\ \A y \in l[k].children : y < n
    <3>1. s[k].xid \in Nat /\ s[k].children \in SUBSET Nat
      BY <1>1, <1>9, <1>15, LevelFields
    <3>2. s[k].xid < n - 1 /\ \A y \in s[k].children : y < n - 1
      BY <1>1, <1>7, <1>9, <1>15 DEF Session, XidsBelow
    <3>3. CASE k = i
      BY <1>8, <1>13, <1>15, <3>1, <3>2, <3>3
    <3>4. CASE k # i
      BY <1>15, <3>1, <3>2, <3>4
    <3> QED BY <3>3, <3>4
  <2> QED BY <1>7, <1>21, <2>1 DEF XidsBelow
<1>23. TopListed(p)'
  <2>1. s # <<>> /\ 1 \in DOMAIN s /\ l # <<>>
    BY <1>10, <1>15, <1>16
  <2>2. proc[p].xid = IF s[1].xid = InvalidXid THEN x ELSE s[1].xid
    BY <1>1, <1>3, <1>8, <1>9, <2>1 DEF Session, TopListed, TopXid
  <2>3. l[1].xid = proc[p].xid
    <3>1. CASE s[1].xid = InvalidXid
      <4>1. 1 \in Unassigned(p)
        BY <1>9, <2>1, <3>1 DEF Unassigned
      <4>2. i = 1
        BY <1>10, <4>1
      <4> QED BY <1>13, <1>15, <2>2, <3>1, <4>2
    <3>2. CASE s[1].xid # InvalidXid
      <4>1. i # 1
        BY <1>10, <3>2
      <4> QED BY <1>15, <2>1, <2>2, <3>2, <4>1
    <3> QED BY <3>1, <3>2
  <2>4. TopXid(p)' = l[1].xid
    BY <1>21, <2>1 DEF TopXid
  <2> QED BY <1>1, <1>3, <1>21, <2>3, <2>4 DEF Session, TopListed
<1>24. Works(p)' /\ Nested(p)' /\ Handed(p)'
  BY <1>21 DEF Works, Working, Nested, Handed
<1>25. nextXid' \in Nat \ {0} /\ Bound <= Bound' /\ xidGen \in {p, NoProc} /\ xidGen' \in {p, NoProc}
  BY <1>3, <1>4, <1>5, <1>7
<1>26. pc[p] \notin Snapping \cup Over \cup {"out"}
  BY <1>3 DEF Snapping, Over
<1> QED BY <1>3, <1>18, <1>20, <1>22, <1>23, <1>24, <1>25, <1>26, HandStep

\* A step of session p that changes its own place only, to xid y.
AtPlace(p, y) ==
  /\ UNCHANGED <<nextXid, xidGen, pgprocnos, gxact, sharers>>
  /\ xids' = [xids EXCEPT ![proc[p].pgxactoff] = y] /\ y \in Nat
  /\ proc'[p].pgxactoff = proc[p].pgxactoff /\ \A m \in Members \ {p} : proc'[m] = proc[m]
  /\ latestCompletedXid' \in Nat /\ latestCompletedXid' < Bound /\ xactCompletionCount' \in Nat \ {0}

\* What that leaves.
LEMMA PlaceParts ==
  ASSUME ArrayInv, NEW p \in Sessions, NEW w, NEW c, NEW l, SetsOwn(p, w, c, l), NEW y, AtPlace(p, y),
         pc[p] # "out"
  PROVE  /\ Rest(p) /\ Typed' /\ Places' /\ (0 < Bound /\ latestCompletedXid < Bound)' /\ Prepd'
         /\ Bound' = Bound /\ Listed(p)' /\ DOMAIN xids' = DOMAIN xids
         /\ proc[p].pgxactoff \in DOMAIN xids /\ xids'[proc[p].pgxactoff] = y
         /\ \A i \in DOMAIN xids : i # proc[p].pgxactoff => xids'[i] = xids[i]
<1>1. Typed /\ Places /\ Prepd /\ Session(p) /\ 0 < Bound /\ p \in Members
  BY DEF ArrayInv, Members
<1>2. Own1(p) /\ pc'[p] = w /\ call'[p] = c /\ xact'[p] = l
  BY <1>1, SetsOwnParts
<1>3. PICK k : k = proc[p].pgxactoff
  OBVIOUS
<1>4. /\ pgprocnos \in Seq(Members) /\ xids \in Seq(Nat) /\ Len(xids) = Len(pgprocnos)
      /\ nextXid \in Nat \ {0} /\ xidGen \in Nat
  BY <1>1 DEF Typed
<1>5. /\ nextXid' = nextXid /\ xidGen' = xidGen /\ pgprocnos' = pgprocnos /\ gxact' = gxact /\ sharers' = sharers
      /\ xids' = [xids EXCEPT ![k] = y] /\ y \in Nat
  BY <1>3 DEF AtPlace
<1>6. Listed(p)
  BY <1>1 DEF Session
<1>7. k \in 1 .. Len(pgprocnos) /\ pgprocnos[k] = p /\ DOMAIN xids = 1 .. Len(pgprocnos)
  BY <1>1, <1>3, <1>6, PlacesApart
<1>8. /\ DOMAIN xids' = DOMAIN xids /\ xids'[k] = y /\ \A i \in DOMAIN xids : i # k => xids'[i] = xids[i]
  BY <1>5, <1>7
<1>9. xids' \in Seq(Nat) /\ Len(xids') = Len(xids)
  <2>1. PICK m \in Nat : m = Len(xids)
    BY <1>4
  <2>2. xids' \in [1 .. m -> Nat]
    BY <1>4, <1>5, <1>7, <2>1
  <2>3. xids' \in Seq(Nat)
    BY ONLY <2>2, m \in Nat, SeqDef, Zenon
  <2> QED BY <2>1, <2>2, <2>3
<1>10. Typed'
  <2>1. /\ nextXid' \in Nat \ {0} /\ latestCompletedXid' \in Nat /\ xactCompletionCount' \in Nat \ {0}
        /\ xidGen' \in Nat /\ pgprocnos' \in Seq(Members) /\ xids' \in Seq(Nat) /\ Len(xids') = Len(pgprocnos')
    BY <1>4, <1>5, <1>9 DEF AtPlace
  <2> QED BY <1>1, <1>2, <2>1, OwnTyped
<1>11. Bound' = Bound /\ \A m : Listed(m)' <=> Listed(m)
  BY <1>5 DEF Bound, Listed
<1>12. \A m \in Members : proc'[m].pgxactoff = proc[m].pgxactoff
  BY DEF AtPlace
<1>13. Places'
  <2>1. \A i \in DOMAIN pgprocnos : pgprocnos[i] \in Members
    BY <1>4
  <2> QED BY <1>1, <1>5, <1>12, <2>1 DEF Places
<1>14. (0 < Bound /\ latestCompletedXid < Bound)'
  BY <1>1, <1>11 DEF AtPlace
<1>15. Prepd'
  BY <1>1, <1>5, <1>11 DEF Prepd
<1>16. Rest(p)
  <2>1. ASSUME NEW q \in Sessions \ {p}
        PROVE  /\ pc'[q] = pc[q] /\ call'[q] = call[q] /\ xact'[q] = xact[q]
               /\ Listed(q)' <=> Listed(q)
               /\ Listed(q) => xids'[proc'[q].pgxactoff] = xids[proc[q].pgxactoff]
               /\ proc'[q].xid = proc[q].xid
               /\ q \in sharers => q \in sharers'
               /\ pc[q] \in Working => gxact'[call[q].gxact] = gxact[call[q].gxact]
               /\ pc[q] = "prepare_add" => proc'[call[q].gxact].xid = proc[call[q].gxact].xid
               /\ pc[q] \in {"xid_publish", "xid_release"} => xidGen' = xidGen /\ nextXid' = nextXid
    <3>1. q \in Members \ {p}
      BY DEF Members
    <3>2. proc'[q] = proc[q]
      BY <3>1 DEF AtPlace
    <3>3. ASSUME Listed(q) PROVE xids'[proc'[q].pgxactoff] = xids[proc[q].pgxactoff]
      <4>1. proc[q].pgxactoff \in 1 .. Len(pgprocnos) /\ pgprocnos[proc[q].pgxactoff] = q
        BY <1>1, <3>1, <3>3, PlacesApart
      <4> QED BY <1>7, <1>8, <3>1, <3>2, <4>1
    <3>4. pc[q] = "prepare_add" => proc'[call[q].gxact].xid = proc[call[q].gxact].xid
      <4>1. pc[q] = "prepare_add" => call[q].gxact \in Dummies
        BY DEF ArrayInv, Session, Works, Working
      <4>2. pc[q] = "prepare_add" => call[q].gxact \in Members \ {p}
        BY <4>1, ProcArrayAssumption DEF Members
      <4> QED BY <4>2 DEF AtPlace
    <3> QED BY <1>2, <1>5, <1>11, <3>2, <3>3, <3>4 DEF Own1
  <2>2. Bound \in Int
    BY <1>1 DEF Bound, Typed
  <2>3. Bound <= Bound'
    BY <1>11, <2>2
  <2> QED BY <2>1, <2>3 DEF Rest
<1> QED BY <1>3, <1>6, <1>7, <1>8, <1>10, <1>11, <1>13, <1>14, <1>15, <1>16

\* The xids in the array then, and where somebody scans it.
LEMMA PlaceFrame ==
  ASSUME ArrayInv, NEW p \in Sessions, NEW w, NEW c, NEW l, SetsOwn(p, w, c, l), NEW y, AtPlace(p, y),
         pc[p] # "out", latestCompletedXid <= latestCompletedXid',
         y \in {InvalidXid, xids[proc[p].pgxactoff]} \/ y > latestCompletedXid,
         \/ /\ UNCHANGED <<latestCompletedXid, xactCompletionCount>>
            /\ xids[proc[p].pgxactoff] \in {InvalidXid, y}
         \/ sharers = {} /\ xactCompletionCount' = xactCompletionCount + 1
  PROVE  Frame(p)
<1>1. Typed /\ p \in Members
  BY DEF ArrayInv, Members
<1>2. Own1(p)
  BY <1>1, SetsOwnParts
<1>3. PICK k : k = proc[p].pgxactoff
  OBVIOUS
<1>4. /\ Typed' /\ DOMAIN xids' = DOMAIN xids /\ k \in DOMAIN xids /\ xids'[k] = y
      /\ \A i \in DOMAIN xids : i # k => xids'[i] = xids[i]
  BY <1>3, PlaceParts
<1>5. ASSUME NEW v \in Vals' PROVE v \in Vals \/ v > latestCompletedXid
  <2>1. PICK i \in DOMAIN xids' : v = xids'[i] /\ v # InvalidXid
    BY DEF Vals
  <2>2. CASE i = k
    BY <1>3, <1>4, <2>1, <2>2 DEF Vals
  <2>3. CASE i # k
    BY <1>4, <2>1, <2>3 DEF Vals
  <2> QED BY <2>2, <2>3
<1>6. ASSUME xids[k] \in {InvalidXid, y} PROVE Vals \subseteq Vals'
  <2>1. ASSUME NEW v \in Vals PROVE v \in Vals'
    <3>1. PICK i \in DOMAIN xids : v = xids[i] /\ v # InvalidXid
      BY DEF Vals
    <3>2. xids'[i] = v
      BY <1>4, <1>6, <3>1
    <3> QED BY <1>4, <3>1, <3>2 DEF Vals
  <2> QED BY <2>1
<1>7. PICK a, b \in Nat : a = xactCompletionCount /\ b = xactCompletionCount'
  BY <1>1, <1>4 DEF Typed
<1>8. b = a \/ b = a + 1
  BY <1>7
<1>9. xactCompletionCount <= xactCompletionCount'
  BY <1>7, <1>8
<1>10. xactCompletionCount' = xactCompletionCount => latestCompletedXid' = latestCompletedXid /\ Vals \subseteq Vals'
  BY <1>3, <1>6, <1>7
<1>11. \A q \in Sessions : proc'[q].pgxactoff = proc[q].pgxactoff
  BY DEF AtPlace, Members
<1>12. ASSUME sharers # {}
       PROVE  /\ latestCompletedXid' = latestCompletedXid /\ xactCompletionCount' = xactCompletionCount
              /\ \A i \in DOMAIN xids : xids'[i] = xids[i] \/ (xids[i] = InvalidXid /\ xids'[i] > latestCompletedXid)
  <2>1. UNCHANGED <<latestCompletedXid, xactCompletionCount>> /\ xids[k] \in {InvalidXid, y}
    BY <1>3, <1>12
  <2>2. xids'[k] = xids[k] \/ (xids[k] = InvalidXid /\ xids'[k] > latestCompletedXid)
    BY <1>3, <1>4, <2>1
  <2> QED BY <1>4, <2>1, <2>2
<1>13. \A q \in Sessions \ {p} :
         /\ pc'[q] = pc[q] /\ call'[q] = call[q] /\ vis'[q] = vis[q] /\ snap'[q] = snap[q]
         /\ proc'[q].xmin = proc[q].xmin
  BY <1>2 DEF Own1
<1> QED BY <1>4, <1>5, <1>9, <1>10, <1>11, <1>12, <1>13 DEF Frame

\* An xid is published: as the top-level one, as a cached subxid, or as an overflow.
LEMMA PublishStep ==
  ASSUME ArrayInv, SnapInv, NEW p \in Sessions, GetNewTransactionIdPublish(p),
         UNCHANGED <<logVars, snap, xact, gxact, plan>>
  PROVE  ArrayInv' /\ SnapInv'
<1>1. Typed /\ Places /\ Session(p) /\ p \in Members /\ latestCompletedXid < Bound
  BY DEF ArrayInv, Members
<1> USE DEF Goto, arrayVars, transamVars, denseVars
<1>2. /\ pc[p] = "xid_publish" /\ pc' = [pc EXCEPT ![p] = "xid_release"] /\ PublishXid(p)
      /\ UNCHANGED <<nextXid, latestCompletedXid, xactCompletionCount, pgprocnos, sharers, xidGen, call, vis,
                     snap, xact, gxact>>
  BY DEF GetNewTransactionIdPublish
<1>3. xidGen = p /\ call[p].xid = nextXid - 1 /\ Unassigned(p) # {}
  BY <1>1, <1>2 DEF Session, Handed
<1>4. p # NoProc
  BY ProcArrayAssumption DEF Members, NoProc
<1>5. PICK x \in Nat : x = call[p].xid
  BY <1>1 DEF Typed, IsCall
<1>6. x = Bound /\ latestCompletedXid < x /\ latestCompletedXid \in Nat /\ xactCompletionCount \in Nat \ {0}
  <2>1. x = Bound
    BY <1>3, <1>4, <1>5 DEF Bound
  <2> QED BY <1>1, <2>1 DEF Typed
<1>7. PICK k : k = proc[p].pgxactoff
  OBVIOUS
<1>8. k \in DOMAIN xids /\ xids[k] = proc[p].xid /\ xids \in Seq(Nat)
  <2>1. Listed(p)
    BY <1>1, <1>2 DEF Session
  <2>2. k \in DOMAIN xids
    BY <1>1, <1>7, <2>1, PlacesApart
  <2>3. xids[k] = proc[p].xid
    BY <1>1, <1>2, <1>7 DEF Session, TopListed
  <2> QED BY <1>1, <2>2, <2>3 DEF Typed
<1>9. proc[p].xid = TopXid(p)
  BY <1>1, <1>2 DEF Session, TopListed
<1>10. IsProc(proc[p]) /\ proc = [m \in Members |-> proc[m]] /\ \A m \in Members : IsProc(proc[m])
  BY <1>1 DEF Typed
<1>11. PICK r, y : /\ proc' = [proc EXCEPT ![p] = r] /\ xids' = [xids EXCEPT ![k] = y]
                   /\ IsProc(r) /\ r.xmin = proc[p].xmin /\ r.pgxactoff = k
                   /\ \/ proc[p].xid = InvalidXid /\ y = x /\ r.xid = x
                      \/ proc[p].xid # InvalidXid /\ y = xids[k] /\ r.xid = proc[p].xid
  <2>1. CASE proc[p].xid = InvalidXid
    <3>1. proc' = [proc EXCEPT ![p].xid = x] /\ xids' = [xids EXCEPT ![k] = x]
      BY <1>2, <1>5, <1>7, <2>1 DEF PublishXid
    <3>2. PICK r : r = [proc[p] EXCEPT !.xid = x]
      OBVIOUS
    <3>3. IsProc(r) /\ r.xmin = proc[p].xmin /\ r.pgxactoff = proc[p].pgxactoff /\ r.xid = x
      BY ONLY <1>10, <3>2, x \in Nat DEF IsProc
    <3>4. proc' = [proc EXCEPT ![p] = r]
      BY <1>1, <1>10, <3>1, <3>2
    <3> QED BY <1>7, <2>1, <3>1, <3>3, <3>4
  <2>2. CASE proc[p].xid # InvalidXid
    <3>1. xids' = xids
      BY <1>2, <2>2 DEF PublishXid
    <3>2. xids' = [xids EXCEPT ![k] = xids[k]]
      BY <1>8, <3>1
    <3>3. PICK s : s = Append(proc[p].subxids, x)
      OBVIOUS
    <3>4. \/ proc' = [proc EXCEPT ![p].subxids = s]
          \/ proc' = [proc EXCEPT ![p].overflowed = TRUE]
      BY <1>1, <1>2, <1>5, <1>10, <2>2, <3>3 DEF PublishXid
    <3>5. PICK r : (r = [proc[p] EXCEPT !.subxids = s] \/ r = [proc[p] EXCEPT !.overflowed = TRUE])
                   /\ proc' = [proc EXCEPT ![p] = r]
      BY <1>1, <1>10, <3>4
    <3>6. IsProc(r) /\ r.xmin = proc[p].xmin /\ r.pgxactoff = proc[p].pgxactoff /\ r.xid = proc[p].xid
      BY ONLY <1>10, <3>5 DEF IsProc
    <3> QED BY <1>7, <2>2, <3>2, <3>5, <3>6
  <2> QED BY <2>1, <2>2
<1>12. /\ proc' = [m \in Members |-> proc'[m]] /\ proc'[p] = r /\ \A m \in Members \ {p} : proc'[m] = proc[m]
  BY <1>1, <1>10, <1>11
<1>13. \A m \in Members : IsProc(proc'[m])
  BY <1>10, <1>11, <1>12
<1>14. PICK c, l : /\ c = call[p] /\ call' = [call EXCEPT ![p] = c]
                   /\ l = xact[p] /\ l \in Seq(Levels) /\ xact' = [xact EXCEPT ![p] = l]
  <2>1. xact \in [Sessions -> Seq(Levels)]
    BY <1>1 DEF Typed
  <2>2. xact = [xact EXCEPT ![p] = xact[p]] /\ xact[p] \in Seq(Levels)
    BY <2>1
  <2> QED BY <1>1, <1>2, <2>2, Unmoved
<1>15. PICK w : w = "xid_release" /\ w \notin Snapping /\ w \notin {"idle", "out"} /\ w \notin Sharing
  BY DEF Snapping, Sharing
<1>16. SetsOwn(p, w, c, l)
  <2>1. /\ snap = [q \in Sessions |-> snap[q]] /\ IsSnaps(snap[p]) /\ gxact \in [Dummies -> GXacts]
        /\ IsCall(call[p])
    BY <1>1 DEF Typed
  <2>2. \A q \in Sessions \ {p} : q \in Members \ {p}
    BY DEF Members
  <2>3. \A q \in Sessions \ {p} : proc'[q] = proc[q]
    BY <1>12, <2>2
  <2> QED BY <1>2, <1>12, <1>13, <1>14, <1>15, <2>1, <2>3 DEF SetsOwn
<1>17. AtPlace(p, y)
  <2>1. y \in Nat
    BY <1>8, <1>11
  <2> QED BY <1>1, <1>2, <1>6, <1>7, <1>11, <1>12, <2>1 DEF AtPlace
<1>18. pc'[p] = w /\ call'[p] = c /\ xact'[p] = l
  BY <1>1, <1>16, SetsOwnParts
<1>19. /\ Rest(p) /\ Typed' /\ Places' /\ (0 < Bound /\ latestCompletedXid < Bound)' /\ Prepd'
       /\ Bound' = Bound /\ Listed(p)' /\ xids'[k] = y
  BY <1>2, <1>7, <1>16, <1>17, PlaceParts
<1>20. Frame(p)
  <2>1. latestCompletedXid <= latestCompletedXid' /\ UNCHANGED <<latestCompletedXid, xactCompletionCount>>
    BY <1>2, <1>6
  <2>2. /\ y \in {InvalidXid, xids[proc[p].pgxactoff]} \/ y > latestCompletedXid
        /\ xids[proc[p].pgxactoff] \in {InvalidXid, y}
    BY <1>6, <1>7, <1>8, <1>11
  <2> QED BY <1>2, <1>16, <1>17, <2>1, <2>2, PlaceFrame
<1>21. Session(p)'
  <2>1. TopListed(p)'
    <3>1. TopXid(p)' = TopXid(p) /\ call'[p].xid = x
      BY <1>2, <1>5 DEF TopXid
    <3>2. xids'[proc'[p].pgxactoff] = y /\ proc'[p].xid = r.xid /\ y = r.xid
      BY <1>8, <1>11, <1>12, <1>19
    <3>3. r.xid = IF TopXid(p) = InvalidXid THEN x ELSE TopXid(p)
      BY <1>9, <1>11
    <3> QED BY <1>15, <1>18, <3>1, <3>2, <3>3 DEF TopListed
  <2>2. Handed(p)'
    BY <1>2, <1>3 DEF Handed, Unassigned
  <2>3. XidsBelow(p)'
    BY <1>1, <1>2, <1>19 DEF Session, XidsBelow
  <2>4. Works(p)' /\ Nested(p)'
    BY <1>15, <1>18 DEF Works, Working, Nested
  <2>5. (Listed(p) <=> pc[p] # "out")' /\ (pc[p] \in Sharing => p \in sharers)'
    BY <1>15, <1>18, <1>19
  <2> QED BY <2>1, <2>2, <2>3, <2>4, <2>5 DEF Session
<1>22. Keeps(p)
  <2>1. Live(p)' = Live(p)
    BY <1>2, <1>15, <1>18 DEF Live
  <2>2. proc'[p].xmin = proc[p].xmin
    BY <1>11, <1>12
  <2> QED BY <1>2, <2>1, <2>2 DEF Keeps
<1>23. pc'[p] \notin Snapping /\ pc'[p] \notin {"idle", "out"}
  BY <1>15, <1>18
<1> QED BY <1>19, <1>20, <1>21, <1>22, <1>23, LoudStep

\* The latest of some xids in use.
LEMMA LatestBelow ==
  ASSUME ArrayInv, NEW x \in Nat, NEW K \in SUBSET Nat, x < Bound, \A y \in K : y < Bound
  PROVE  Max({x} \cup K) \in Nat /\ Max({x} \cup K) < Bound /\ x <= Max({x} \cup K)
<1>1. PICK b \in Nat : b = Bound
  <2>1. Bound \in Int /\ 0 < Bound
    BY DEF ArrayInv, Typed, Bound
  <2> QED BY <2>1
<1>2. PICK T : T = {x} \cup K
  OBVIOUS
<1>3. T \in SUBSET Nat /\ T # {} /\ \A y \in T : y < b
  BY <1>1, <1>2
<1>4. Max(T) \in T /\ \A y \in T : y <= Max(T)
  BY <1>3, MaxNat
<1> QED BY <1>1, <1>2, <1>3, <1>4

\* MaintainLatestCompletedXid.
LEMMA CompletedParts ==
  ASSUME ArrayInv, NEW z \in Nat, z < Bound, Completed(z)
  PROVE  /\ latestCompletedXid' \in Nat /\ latestCompletedXid' < Bound
         /\ latestCompletedXid <= latestCompletedXid' /\ nextXid' = nextXid
         /\ xactCompletionCount' = xactCompletionCount + 1 /\ xactCompletionCount' \in Nat \ {0}
<1>1. latestCompletedXid \in Nat /\ latestCompletedXid < Bound /\ xactCompletionCount \in Nat \ {0}
  BY DEF ArrayInv, Typed
<1>2. PICK a \in Nat : a = latestCompletedXid
  BY <1>1
<1>3. latestCompletedXid' = (IF a < z THEN z ELSE a) /\ xactCompletionCount' = xactCompletionCount + 1 /\ nextXid' = nextXid
  BY <1>2 DEF Completed
<1>4. PICK n \in Nat \ {0} : n = xactCompletionCount /\ n + 1 \in Nat \ {0}
  BY <1>1
<1> QED BY <1>1, <1>2, <1>3, <1>4

\* Session p's place is cleared and its transaction is over.
Clears(p, w, n) ==
  /\ sharers = {} /\ pc[p] \in {"end", "prepare_clear"}
  /\ xids' = [xids EXCEPT ![proc[p].pgxactoff] = InvalidXid]
  /\ proc' = [proc EXCEPT ![p] = [BlankProc EXCEPT !.pgxactoff = proc[p].pgxactoff]]
  /\ latestCompletedXid' \in Nat /\ latestCompletedXid <= latestCompletedXid' /\ latestCompletedXid' < Bound
  /\ xactCompletionCount' = xactCompletionCount + 1
  /\ UNCHANGED <<nextXid, pgprocnos, sharers, xidGen, call, vis, gxact>>
  /\ xact' = [xact EXCEPT ![p] = <<>>] /\ pc' = [pc EXCEPT ![p] = w] /\ snap' = [snap EXCEPT ![p] = n]
  /\ IsSnaps(n) /\ n.static = snap[p].static
  /\ \/ w = "idle" /\ n.active = <<>> /\ n.registered = {}
     \/ w = "prepare_done" /\ pc[p] = "prepare_clear"

\* That keeps the invariant.
LEMMA ClearsStep ==
  ASSUME ArrayInv, SnapInv, NEW p \in Sessions, NEW w, NEW n, Clears(p, w, n)
  PROVE  ArrayInv' /\ SnapInv'
<1>1. Typed /\ Places /\ Session(p) /\ p \in Members
  BY DEF ArrayInv, Members
<1>2. PICK k : k = proc[p].pgxactoff
  OBVIOUS
<1>3. PICK r : r = [BlankProc EXCEPT !.pgxactoff = k]
  OBVIOUS
<1>4. IsProc(r) /\ r.pgxactoff = k /\ r.xid = InvalidXid /\ r.xmin = InvalidXid
  <2>1. k \in Nat
    BY <1>1, <1>2 DEF Typed, IsProc
  <2>2. IsProc(BlankProc) /\ BlankProc.xid = InvalidXid /\ BlankProc.xmin = InvalidXid
    BY Blanks DEF BlankProc
  <2> QED BY ONLY <1>3, <2>1, <2>2 DEF IsProc
<1>5. proc' = [proc EXCEPT ![p] = r] /\ xids' = [xids EXCEPT ![k] = InvalidXid]
  BY <1>2, <1>3 DEF Clears
<1>6. /\ UNCHANGED <<nextXid, pgprocnos, sharers, xidGen, call, vis, gxact>>
      /\ xact' = [xact EXCEPT ![p] = <<>>] /\ pc' = [pc EXCEPT ![p] = w] /\ snap' = [snap EXCEPT ![p] = n]
      /\ IsSnaps(n) /\ n.static = snap[p].static /\ sharers = {} /\ pc[p] \in {"end", "prepare_clear"}
  BY DEF Clears
<1>7. proc = [m \in Members |-> proc[m]] /\ \A m \in Members : IsProc(proc[m])
  BY <1>1 DEF Typed
<1>8. /\ proc' = [m \in Members |-> proc'[m]] /\ proc'[p] = r /\ \A m \in Members \ {p} : proc'[m] = proc[m]
  BY <1>1, <1>5, <1>7
<1>9. \A m \in Members : IsProc(proc'[m])
  BY <1>4, <1>7, <1>8
<1>10. PICK c : c = call[p] /\ call' = [call EXCEPT ![p] = c] /\ IsCall(c)
  BY <1>1, <1>6, Unmoved
<1>11. snap' = [q \in Sessions |-> snap'[q]] /\ snap'[p] = n /\ \A q \in Sessions \ {p} : snap'[q] = snap[q]
  <2>1. snap = [q \in Sessions |-> snap[q]]
    BY <1>1 DEF Typed
  <2> QED BY <1>6, <2>1
<1>12. PICK l : l = <<>> /\ l \in Seq(Levels)
  <2>1. <<>> \in Seq(Levels)
    OBVIOUS
  <2> QED BY <2>1
<1>13. SetsOwn(p, w, c, l)
  <2>1. gxact \in [Dummies -> GXacts]
    BY <1>1 DEF Typed
  <2>2. \A q \in Sessions \ {p} : q \in Members \ {p}
    BY DEF Members
  <2>3. \A q \in Sessions \ {p} : proc'[q] = proc[q]
    BY <1>8, <2>2
  <2> QED BY <1>6, <1>8, <1>9, <1>10, <1>11, <1>12, <2>1, <2>3 DEF SetsOwn
<1>14. PICK y \in Nat : y = InvalidXid
  BY DEF InvalidXid
<1>15. xactCompletionCount' = xactCompletionCount + 1 /\ xactCompletionCount' \in Nat \ {0}
  <2>1. PICK m \in Nat \ {0} : m = xactCompletionCount /\ m + 1 \in Nat \ {0}
    BY <1>1 DEF Typed
  <2> QED BY <2>1 DEF Clears
<1>16. AtPlace(p, y)
  BY <1>2, <1>4, <1>5, <1>6, <1>8, <1>14, <1>15 DEF AtPlace, Clears
<1>17. pc'[p] = w /\ call'[p] = c /\ xact'[p] = l
  BY <1>1, <1>13, SetsOwnParts
<1>18. pc[p] # "out"
  BY <1>6
<1>19. /\ Rest(p) /\ Typed' /\ Places' /\ (0 < Bound /\ latestCompletedXid < Bound)' /\ Prepd'
       /\ Bound' = Bound /\ Listed(p)' /\ xids'[k] = y
  BY <1>2, <1>13, <1>16, <1>18, PlaceParts
<1>20. Frame(p)
  <2>1. latestCompletedXid <= latestCompletedXid' /\ y \in {InvalidXid, xids[proc[p].pgxactoff]}
    BY <1>14 DEF Clears
  <2> QED BY <1>6, <1>13, <1>15, <1>16, <1>18, <2>1, PlaceFrame
<1>21. w \in {"idle", "prepare_done"} /\ (w = "prepare_done" => pc[p] = "prepare_clear")
  BY DEF Clears
<1>22. Session(p)'
  <2>1. TopListed(p)'
    BY <1>4, <1>8, <1>12, <1>14, <1>17, <1>19, <1>21 DEF TopListed, TopXid
  <2>2. Handed(p)' /\ Nested(p)'
    BY <1>12, <1>17, <1>21 DEF Handed, Nested
  <2>3. XidsBelow(p)'
    BY <1>12, <1>17 DEF XidsBelow
  <2>4. Works(p)'
    BY <1>1, <1>6, <1>17, <1>21 DEF Session, Works, Working
  <2>5. (Listed(p) <=> pc[p] # "out")' /\ (pc[p] \in Sharing => p \in sharers)'
    BY <1>17, <1>19, <1>21 DEF Sharing
  <2> QED BY <2>1, <2>2, <2>3, <2>4, <2>5 DEF Session
<1>23. Live(p)' = {}
  <2>1. CASE w = "prepare_done"
    BY <1>17, <2>1 DEF Live
  <2>2. CASE w = "idle" /\ n.active = <<>> /\ n.registered = {}
    <3>1. DOMAIN n.active = {}
      BY <2>2
    <3> QED BY <1>11, <1>17, <2>2, <3>1 DEF Live
  <2> QED BY <2>1, <2>2 DEF Clears
<1>24. Keeps(p)
  BY <1>4, <1>6, <1>8, <1>11, <1>23 DEF Keeps
<1>25. pc'[p] \notin Snapping
  BY <1>17, <1>21 DEF Snapping
<1> QED BY <1>19, <1>20, <1>22, <1>23, <1>24, <1>25, LoudStep

\* A transaction leaves the array when it has ended or is prepared.
LEMMA EndSteps ==
  ASSUME ArrayInv, SnapInv, NEW p \in Sessions, ProcArrayEndTransaction(p) \/ PrepareClear(p)
  PROVE  ArrayInv' /\ SnapInv'
<1>1. Typed /\ Session(p) /\ IsSnaps(snap[p]) /\ IsSnaps(NoSnaps)
  <2>1. Typed /\ Session(p)
    BY DEF ArrayInv
  <2>2. IsSnaps(NoSnaps)
    BY Blanks DEF IsSnaps, NoSnaps, Structs, Entries
  <2> QED BY <2>1, <2>2, Unmoved
<1> USE DEF Goto, arrayVars, transamVars, denseVars
<1>2. CASE ProcArrayEndTransaction(p)
  <2>1. PICK n : n = AtEOXactSnapshot(p)
    OBVIOUS
  <2>2. IsSnaps(n) /\ n.static = snap[p].static /\ n.active = <<>> /\ n.registered = {}
    <3>1. NoSnaps.active = <<>> /\ NoSnaps.registered = {}
      BY DEF NoSnaps
    <3> QED BY <1>1, <2>1, <3>1 DEF AtEOXactSnapshot, IsSnaps
  <2>3. PICK s \in Seq(Levels) : s = xact[p] /\ Len(s) = 1 /\ 1 \in DOMAIN s
    <3>1. xact[p] \in Seq(Levels)
      BY <1>1 DEF Typed
    <3>2. Len(xact[p]) = 1
      BY <1>1, <1>2 DEF ProcArrayEndTransaction, Session, Nested
    <3> QED BY <3>1, <3>2
  <2>4. PICK x, K : x = s[1].xid /\ K = s[1].children
    OBVIOUS
  <2>5. x \in Nat /\ K \in SUBSET Nat
    BY <1>1, <2>3, <2>4, LevelFields
  <2>6. x < Bound /\ \A y \in K : y < Bound
    BY <1>1, <2>3, <2>4 DEF Session, XidsBelow
  <2>7. PICK z \in Nat : z = Max({x} \cup K) /\ z < Bound
    BY <2>5, <2>6, LatestBelow
  <2>8. EndTransactionInternal(p, z)
    BY <1>2, <2>3, <2>4, <2>7 DEF ProcArrayEndTransaction
  <2>9. Completed(z)
    BY <2>8 DEF EndTransactionInternal
  <2>10. /\ latestCompletedXid' \in Nat /\ latestCompletedXid' < Bound
         /\ latestCompletedXid <= latestCompletedXid' /\ nextXid' = nextXid
         /\ xactCompletionCount' = xactCompletionCount + 1
    BY <2>7, <2>9, CompletedParts
  <2>11. Clears(p, "idle", n)
    BY <1>2, <2>1, <2>2, <2>8, <2>10
       DEF Clears, ProcArrayEndTransaction, EndTransactionInternal, ProcArrayLockFree
  <2> QED BY <2>11, ClearsStep
<1>3. CASE PrepareClear(p)
  <2>1. latestCompletedXid \in Nat /\ latestCompletedXid < Bound
    BY DEF ArrayInv, Typed
  <2>2. PICK n : n = snap[p] /\ snap = [snap EXCEPT ![p] = n]
    BY <1>1, Unmoved
  <2>3. /\ ProcArrayClearTransaction(p) /\ pc[p] = "prepare_clear" /\ xact' = [xact EXCEPT ![p] = <<>>]
        /\ pc' = [pc EXCEPT ![p] = "prepare_done"] /\ UNCHANGED <<call, vis, snap, gxact>>
    BY <1>3 DEF PrepareClear
  <2>4. Clears(p, "prepare_done", n)
    BY <1>1, <2>1, <2>2, <2>3 DEF Clears, ProcArrayClearTransaction, ProcArrayLockFree
  <2> QED BY <2>4, ClearsStep
<1> QED BY <1>2, <1>3

\* An aborted subtransaction leaves the cache.
LEMMA SubRemoveStep ==
  ASSUME ArrayInv, SnapInv, NEW p \in Sessions, AbortSubTransactionRemove(p)
  PROVE  ArrayInv' /\ SnapInv'
<1>1. Typed /\ Places /\ Session(p) /\ p \in Members
  BY DEF ArrayInv, Members
<1> USE DEF Goto, arrayVars, transamVars, denseVars
<1>2. PICK s \in Seq(Levels) : s = xact[p] /\ Len(s) > 1
  <2>1. xact[p] \in Seq(Levels)
    BY <1>1 DEF Typed
  <2>2. Len(xact[p]) > 1
    BY <1>1 DEF AbortSubTransactionRemove, Session, Nested
  <2> QED BY <2>1, <2>2
<1>3. PICK e, j : e = Last(s) /\ j = Len(s) /\ e = s[j] /\ j \in DOMAIN s
  <2>1. PICK j : j = Len(s) /\ j \in DOMAIN s
    BY <1>2
  <2>2. Last(s) = s[j]
    BY <2>1 DEF Last
  <2> QED BY <2>1, <2>2
<1>4. PICK x, K : x = e.xid /\ K = e.children
  OBVIOUS
<1>5. x \in Nat /\ K \in SUBSET Nat
  BY <1>1, <1>2, <1>3, <1>4, LevelFields
<1>6. x < Bound /\ \A y \in K : y < Bound
  BY <1>1, <1>2, <1>3, <1>4 DEF Session, XidsBelow
<1>7. PICK z \in Nat : z = Max({x} \cup K) /\ z < Bound
  BY <1>5, <1>6, LatestBelow
<1>8. PICK gone : gone = {x} \cup K
  OBVIOUS
<1>9. /\ pc[p] = "sub_remove" /\ XidCacheRemoveRunningXids(p, gone, z) /\ xact' = [xact EXCEPT ![p] = Front(xact[p])]
      /\ pc' = [pc EXCEPT ![p] = "sub_cleanup"] /\ UNCHANGED <<call, vis, snap, gxact>>
  BY <1>2, <1>3, <1>4, <1>7, <1>8 DEF AbortSubTransactionRemove
<1>10. PICK f : proc' = [proc EXCEPT ![p].subxids = f]
  BY <1>9 DEF XidCacheRemoveRunningXids
<1>11. sharers = {} /\ Completed(z) /\ UNCHANGED <<pgprocnos, xids, sharers, xidGen>>
  BY <1>9 DEF XidCacheRemoveRunningXids, ProcArrayLockFree
<1>12. /\ latestCompletedXid' \in Nat /\ latestCompletedXid' < Bound
       /\ latestCompletedXid <= latestCompletedXid' /\ nextXid' = nextXid
       /\ xactCompletionCount' = xactCompletionCount + 1 /\ xactCompletionCount' \in Nat \ {0}
  BY <1>7, <1>11, CompletedParts
<1>13. PICK r : r = [proc[p] EXCEPT !.subxids = f]
  OBVIOUS
<1>14. proc = [m \in Members |-> proc[m]] /\ (\A m \in Members : IsProc(proc[m])) /\ IsProc(proc[p])
  BY <1>1 DEF Typed
<1>15. IsProc(r) /\ r.xid = proc[p].xid /\ r.xmin = proc[p].xmin /\ r.pgxactoff = proc[p].pgxactoff
  BY ONLY <1>13, <1>14 DEF IsProc
<1>16. proc' = [proc EXCEPT ![p] = r]
  BY <1>1, <1>10, <1>13, <1>14
<1>17. /\ proc' = [m \in Members |-> proc'[m]] /\ proc'[p] = r /\ \A m \in Members \ {p} : proc'[m] = proc[m]
  BY <1>1, <1>14, <1>16
<1>18. \A m \in Members : IsProc(proc'[m])
  BY <1>14, <1>15, <1>17
<1>19. PICK l : l = Front(xact[p]) /\ GoodStack(l) /\ TopOf(l) = TopXid(p) /\ l \in Seq(Levels)
  <2>1. GoodStack(Front(xact[p])) /\ TopOf(Front(xact[p])) = TopXid(p)
    BY <1>2, Stacks
  <2> QED BY <2>1 DEF GoodStack
<1>20. PICK c : c = call[p] /\ call' = [call EXCEPT ![p] = c] /\ IsCall(c)
  BY <1>1, <1>9, Unmoved
<1>21. PICK w : w = "sub_cleanup" /\ w \notin Snapping /\ w \notin {"idle", "out"} /\ w \notin Sharing
  BY DEF Snapping, Sharing
<1>22. SetsOwn(p, w, c, l)
  <2>1. gxact \in [Dummies -> GXacts] /\ snap = [q \in Sessions |-> snap[q]] /\ IsSnaps(snap[p])
    BY <1>1 DEF Typed
  <2>2. \A q \in Sessions \ {p} : q \in Members \ {p}
    BY DEF Members
  <2>3. \A q \in Sessions \ {p} : proc'[q] = proc[q]
    BY <1>17, <2>2
  <2> QED BY <1>9, <1>17, <1>18, <1>19, <1>20, <1>21, <2>1, <2>3 DEF SetsOwn
<1>23. PICK k, y : k = proc[p].pgxactoff /\ y = xids[k]
  OBVIOUS
<1>24. k \in DOMAIN xids /\ y \in Nat /\ xids' = [xids EXCEPT ![k] = y]
  <2>1. Listed(p)
    BY <1>1, <1>9 DEF Session
  <2>2. k \in DOMAIN xids
    BY <1>1, <1>23, <2>1, PlacesApart
  <2>3. xids \in Seq(Nat)
    BY <1>1 DEF Typed
  <2> QED BY <1>11, <1>23, <2>2, <2>3
<1>25. AtPlace(p, y)
  BY <1>9, <1>11, <1>12, <1>15, <1>17, <1>23, <1>24 DEF AtPlace
<1>26. pc'[p] = w /\ call'[p] = c /\ xact'[p] = l
  BY <1>1, <1>22, SetsOwnParts
<1>27. pc[p] # "out"
  BY <1>9
<1>28. /\ Rest(p) /\ Typed' /\ Places' /\ (0 < Bound /\ latestCompletedXid < Bound)' /\ Prepd'
       /\ Bound' = Bound /\ Listed(p)' /\ xids'[k] = y
  BY <1>22, <1>23, <1>25, <1>27, PlaceParts
<1>29. Frame(p)
  <2>1. y \in {InvalidXid, xids[proc[p].pgxactoff]}
    BY <1>23
  <2> QED BY <1>11, <1>12, <1>22, <1>25, <1>27, <2>1, PlaceFrame
<1>30. Session(p)'
  <2>1. TopListed(p)'
    <3>1. TopXid(p)' = TopXid(p)
      BY <1>19, <1>26 DEF TopXid, TopOf
    <3>2. proc'[p].xid = proc[p].xid /\ xids'[proc'[p].pgxactoff] = xids[proc[p].pgxactoff]
      BY <1>11, <1>15, <1>17
    <3> QED BY <1>1, <1>9, <1>21, <1>26, <3>1, <3>2 DEF Session, TopListed
  <2>2. Handed(p)' /\ Nested(p)' /\ Works(p)'
    BY <1>21, <1>26 DEF Handed, Nested, Works, Working
  <2>3. XidsBelow(p)'
    BY <1>19, <1>26, <1>28 DEF XidsBelow, GoodStack
  <2>4. (Listed(p) <=> pc[p] # "out")' /\ (pc[p] \in Sharing => p \in sharers)'
    BY <1>21, <1>26, <1>28
  <2> QED BY <2>1, <2>2, <2>3, <2>4 DEF Session
<1>31. Live(p)' = Live(p)
  BY <1>9, <1>21, <1>26 DEF Live
<1>32. Keeps(p)
  BY <1>9, <1>15, <1>17, <1>31 DEF Keeps
<1>33. pc'[p] \notin Snapping /\ pc'[p] \notin {"idle", "out"}
  BY <1>21, <1>26
<1> QED BY <1>28, <1>29, <1>30, <1>32, <1>33, LoudStep

\* The PGPROC of a prepared transaction.
LEMMA DummyFields ==
  ASSUME NEW x \in Nat, NEW K
  PROVE  IsProc(DummyProc(x, K)) /\ DummyProc(x, K).xid = x /\ DummyProc(x, K).xmin = InvalidXid
<1>a. PICK n : n = Len(CommittedChildren(K))
  OBVIOUS
<1>b. PICK o : o = (n > MaxCachedSubxids)
  OBVIOUS
<1>c. PICK f : f = IF n > MaxCachedSubxids THEN SubSeq(CommittedChildren(K), 1, MaxCachedSubxids)
                   ELSE CommittedChildren(K)
  OBVIOUS
<1>1. DummyProc(x, K) = [BlankProc EXCEPT !.xid = x, !.subxids = f, !.overflowed = o]
  BY <1>a, <1>b, <1>c DEF DummyProc
<1>2. IsProc(BlankProc) /\ BlankProc.xmin = InvalidXid
  BY Blanks DEF BlankProc
<1>3. PICK r : r = DummyProc(x, K)
  OBVIOUS
<1>4. r = [BlankProc EXCEPT !.xid = x, !.subxids = f, !.overflowed = o]
  BY <1>1, <1>3
<1>5. IsProc(r) /\ r.xid = x /\ r.xmin = InvalidXid
  BY ONLY <1>2, <1>4, x \in Nat DEF IsProc
<1> QED BY <1>3, <1>5

\* A dummy PGPROC takes the transaction.
LEMMA PrepareStep ==
  ASSUME ArrayInv, SnapInv, NEW p \in Sessions, PrepareTransaction(p)
  PROVE  ArrayInv' /\ SnapInv'
<1>1. Typed /\ Places /\ Prepd /\ Session(p) /\ 0 < Bound /\ latestCompletedXid < Bound
  BY DEF ArrayInv
<1> USE DEF Goto, arrayVars, transamVars, denseVars
<1>2. PICK s \in Seq(Levels) : s = xact[p] /\ Len(s) = 1 /\ 1 \in DOMAIN s
  <2>1. xact[p] \in Seq(Levels)
    BY <1>1 DEF Typed
  <2>2. Len(xact[p]) = 1
    BY DEF PrepareTransaction
  <2> QED BY <2>1, <2>2
<1>3. PICK x, K : x = s[1].xid /\ K = s[1].children
  OBVIOUS
<1>4. x \in Nat /\ K \in SUBSET Nat
  BY <1>1, <1>2, <1>3, LevelFields
<1>5. x < Bound /\ \A y \in K : y < Bound
  BY <1>1, <1>2, <1>3 DEF Session, XidsBelow
<1>6. PICK d \in Dummies :
        /\ gxact[d] = NoGXact
        /\ gxact' = [gxact EXCEPT ![d] = [NoGXact EXCEPT !.locker = p, !.xid = x, !.children = K]]
        /\ proc' = [proc EXCEPT ![d] = DummyProc(x, K)]
        /\ call' = [call EXCEPT ![p].gxact = d]
  BY <1>2, <1>3 DEF PrepareTransaction
<1>7. /\ pc[p] = "run" /\ x # InvalidXid /\ pc' = [pc EXCEPT ![p] = "prepare_add"]
      /\ UNCHANGED <<nextXid, latestCompletedXid, xactCompletionCount, pgprocnos, xids, sharers, xidGen,
                     vis, snap, xact>>
  BY <1>2, <1>3 DEF PrepareTransaction
<1>8. gxact[d].valid = FALSE /\ gxact[d].locker = NoProc /\ ~Listed(d)
  <2>1. gxact[d].valid = FALSE /\ gxact[d].locker = NoProc
    BY <1>6 DEF NoGXact
  <2> QED BY <1>1, <2>1 DEF Prepd
<1>9. d \in Members /\ d \notin Sessions /\ p \in Members /\ p \in Nat
  BY ProcArrayAssumption DEF Members
<1>10. PICK g : g = [NoGXact EXCEPT !.locker = p, !.xid = x, !.children = K]
  OBVIOUS
<1>11. g = [valid |-> FALSE, locker |-> p, xid |-> x, children |-> K]
  BY <1>10 DEF NoGXact
<1>12. g \in GXacts /\ g.valid = FALSE /\ g.locker = p /\ g.xid = x /\ g.children = K
  BY ONLY <1>4, <1>9, <1>11 DEF GXacts
<1>13. gxact' \in [Dummies -> GXacts] /\ gxact'[d] = g /\ \A e \in Dummies \ {d} : gxact'[e] = gxact[e]
  <2>1. gxact \in [Dummies -> GXacts]
    BY <1>1 DEF Typed
  <2>2. gxact' = [gxact EXCEPT ![d] = g]
    BY <1>6, <1>10
  <2> QED BY <1>12, <2>1, <2>2
<1>14. PICK r : r = DummyProc(x, K) /\ IsProc(r) /\ r.xid = x
  BY <1>4, DummyFields
<1>15. proc = [m \in Members |-> proc[m]] /\ \A m \in Members : IsProc(proc[m])
  BY <1>1 DEF Typed
<1>16. /\ proc' = [m \in Members |-> proc'[m]] /\ proc'[d] = r /\ \A m \in Members \ {d} : proc'[m] = proc[m]
  BY <1>6, <1>9, <1>14, <1>15
<1>17. \A m \in Members : IsProc(proc'[m])
  BY <1>14, <1>15, <1>16
<1>18. \A q \in Sessions : proc'[q] = proc[q]
  BY <1>9, <1>16 DEF Members
<1>19. PICK c : c = [call[p] EXCEPT !.gxact = d]
  OBVIOUS
<1>20. IsCall(call[p]) /\ call = [q \in Sessions |-> call[q]]
  BY <1>1 DEF Typed
<1>21. IsCall(c) /\ c.gxact = d
  BY ONLY <1>19, <1>20 DEF IsCall
<1>22. call' = [call EXCEPT ![p] = c]
  BY <1>6, <1>19, <1>20
<1>23. xact' = [xact EXCEPT ![p] = s]
  <2>1. xact \in [Sessions -> Seq(Levels)]
    BY <1>1 DEF Typed
  <2> QED BY <1>2, <1>7, <2>1
<1>24. PICK w : w = "prepare_add" /\ w \notin Snapping /\ w \notin {"idle", "out"} /\ w \notin Sharing
  BY DEF Snapping, Sharing
<1>25. SetsOwn(p, w, c, s)
  <2>1. snap = [q \in Sessions |-> snap[q]] /\ IsSnaps(snap[p])
    BY <1>1 DEF Typed
  <2> QED BY <1>7, <1>13, <1>16, <1>17, <1>18, <1>21, <1>22, <1>23, <1>24, <2>1 DEF SetsOwn
<1>26. Own1(p) /\ pc'[p] = w /\ call'[p] = c /\ xact'[p] = s
  BY <1>1, <1>25, SetsOwnParts
<1>27. /\ nextXid \in Nat \ {0} /\ latestCompletedXid \in Nat /\ xactCompletionCount \in Nat \ {0} /\ xidGen \in Nat
       /\ pgprocnos \in Seq(Members) /\ xids \in Seq(Nat) /\ Len(xids) = Len(pgprocnos)
  BY <1>1 DEF Typed
<1>28. Typed'
  BY <1>1, <1>7, <1>26, <1>27, OwnTyped
<1>29. Bound' = Bound /\ (\A m : Listed(m)' <=> Listed(m)) /\ Bound \in Int
  BY <1>7, <1>27 DEF Bound, Listed
<1>30. Places'
  <2>1. \A i \in DOMAIN pgprocnos : pgprocnos[i] \in Members \ {d}
    BY <1>8, <1>27 DEF Listed
  <2> QED BY <1>1, <1>7, <1>16, <2>1 DEF Places
<1>31. (0 < Bound /\ latestCompletedXid < Bound)'
  BY <1>1, <1>7, <1>29
<1>32. Prepd'
  BY <1>1, <1>5, <1>8, <1>12, <1>13, <1>29 DEF Prepd
<1>33. Rest(p)
  <2>1. ASSUME NEW q \in Sessions \ {p}, pc[q] \in Working
        PROVE  call[q].gxact \in Dummies \ {d} /\ call[q].gxact \in Members \ {d}
    <3>1. call[q].gxact # d
      BY <1>8, <2>1, WorkersApart
    <3>2. call[q].gxact \in Dummies
      BY <2>1 DEF ArrayInv, Session, Works
    <3> QED BY <3>1, <3>2 DEF Members
  <2>2. \A q \in Sessions \ {p} : pc[q] \in Working => gxact'[call[q].gxact] = gxact[call[q].gxact]
    BY <1>13, <2>1
  <2>3. \A q \in Sessions \ {p} : pc[q] = "prepare_add" => proc'[call[q].gxact].xid = proc[call[q].gxact].xid
    BY <1>16, <2>1 DEF Working
  <2>4. \A q \in Sessions \ {p} : /\ pc'[q] = pc[q] /\ call'[q] = call[q] /\ xact'[q] = xact[q]
    BY <1>26 DEF Own1
  <2> QED BY <1>7, <1>18, <1>29, <2>2, <2>3, <2>4 DEF Rest
<1>34. Session(p)'
  <2>1. proc[p].xid = x /\ xids[proc[p].pgxactoff] = proc[p].xid
    <3>1. TopXid(p) = x
      BY <1>2, <1>3 DEF TopXid
    <3> QED BY <1>1, <1>7, <3>1 DEF Session, TopListed
  <2>2. Works(p)'
    BY <1>7, <1>12, <1>13, <1>14, <1>16, <1>18, <1>21, <1>24, <1>26, <2>1 DEF Works, Working
  <2>3. TopListed(p)'
    <3>1. TopXid(p)' = x
      BY <1>2, <1>3, <1>26 DEF TopXid
    <3> QED BY <1>7, <1>18, <1>24, <1>26, <2>1, <3>1 DEF TopListed
  <2>4. XidsBelow(p)'
    BY <1>1, <1>7, <1>29 DEF Session, XidsBelow
  <2>5. Handed(p)' /\ Nested(p)'
    BY <1>2, <1>24, <1>26 DEF Handed, Nested
  <2>6. (Listed(p) <=> pc[p] # "out")' /\ (pc[p] \in Sharing => p \in sharers)'
    BY <1>1, <1>7, <1>24, <1>26, <1>29 DEF Session
  <2> QED BY <2>2, <2>3, <2>4, <2>5, <2>6 DEF Session
<1>35. Frame(p)
  <2>1. Vals' = Vals
    BY <1>7 DEF Vals
  <2>2. \A q \in Sessions \ {p} :
         /\ pc'[q] = pc[q] /\ call'[q] = call[q] /\ vis'[q] = vis[q] /\ snap'[q] = snap[q]
         /\ proc'[q].xmin = proc[q].xmin
    BY <1>26 DEF Own1
  <2>3. \A q \in Sessions : proc'[q].pgxactoff = proc[q].pgxactoff
    BY <1>18
  <2>4. latestCompletedXid' = latestCompletedXid /\ xactCompletionCount' = xactCompletionCount /\ xids' = xids
    BY <1>7
  <2> QED BY <1>27, <2>1, <2>2, <2>3, <2>4 DEF Frame
<1>36. Live(p)' = {}
  BY <1>24, <1>26 DEF Live
<1>37. Keeps(p)
  BY <1>7, <1>18, <1>36 DEF Keeps
<1>38. pc'[p] \notin Snapping /\ pc'[p] \notin {"idle", "out"}
  BY <1>24, <1>26
<1> QED BY <1>28, <1>30, <1>31, <1>32, <1>33, <1>34, <1>35, <1>37, <1>38, LoudStep

\* Places come or go, none of them another session's; no xid comes into the array that was not there.
Reshapes(p) ==
  /\ pgprocnos' \in Seq(Members) /\ xids' \in Seq(Nat) /\ Len(xids') = Len(pgprocnos')
  /\ \A i \in DOMAIN pgprocnos' : proc'[pgprocnos'[i]].pgxactoff = i
  /\ \A q \in Sessions \ {p} : /\ Listed(q)' <=> Listed(q)
                               /\ Listed(q) => xids'[proc'[q].pgxactoff] = xids[proc[q].pgxactoff]
  /\ \A m \in Members : proc'[m].xid = proc[m].xid /\ proc'[m].xmin = proc[m].xmin
  /\ Vals' \subseteq Vals
  /\ xactCompletionCount' = xactCompletionCount => latestCompletedXid' = latestCompletedXid /\ Vals \subseteq Vals'
  /\ latestCompletedXid' \in Nat /\ latestCompletedXid <= latestCompletedXid' /\ latestCompletedXid' < Bound
  /\ xactCompletionCount' \in Nat \ {0} /\ xactCompletionCount <= xactCompletionCount'
  /\ sharers = {} /\ UNCHANGED <<nextXid, sharers, xidGen>>
  /\ \A q \in Sessions \ {p} : pc[q] \in Working => gxact'[call[q].gxact] = gxact[call[q].gxact]

\* What that leaves.
LEMMA ReshapesParts ==
  ASSUME ArrayInv, NEW p \in Sessions, NEW w, NEW c, NEW l, SetsOwn(p, w, c, l), Reshapes(p)
  PROVE  /\ Rest(p) /\ Typed' /\ Places' /\ (0 < Bound /\ latestCompletedXid < Bound)'
         /\ Bound' = Bound /\ Frame(p)
<1>1. Typed /\ 0 < Bound
  BY DEF ArrayInv
<1>2. Own1(p)
  BY <1>1, SetsOwnParts
<1>3. nextXid \in Nat \ {0} /\ xidGen \in Nat
  BY <1>1 DEF Typed
<1>4. Typed'
  <2>1. /\ nextXid' \in Nat \ {0} /\ latestCompletedXid' \in Nat /\ xactCompletionCount' \in Nat \ {0}
        /\ xidGen' \in Nat
        /\ pgprocnos' \in Seq(Members) /\ xids' \in Seq(Nat) /\ Len(xids') = Len(pgprocnos')
    BY <1>3 DEF Reshapes
  <2> QED BY <1>1, <1>2, <2>1, OwnTyped
<1>5. Bound' = Bound /\ Bound \in Int
  BY <1>3 DEF Reshapes, Bound
<1>6. Places'
  BY DEF Places, Reshapes
<1>7. (0 < Bound /\ latestCompletedXid < Bound)'
  BY <1>1, <1>5 DEF Reshapes
<1>8. Rest(p)
  <2>1. ASSUME NEW q \in Sessions \ {p}
        PROVE  /\ pc'[q] = pc[q] /\ call'[q] = call[q] /\ xact'[q] = xact[q]
               /\ Listed(q)' <=> Listed(q)
               /\ Listed(q) => xids'[proc'[q].pgxactoff] = xids[proc[q].pgxactoff]
               /\ proc'[q].xid = proc[q].xid
               /\ q \in sharers => q \in sharers'
               /\ pc[q] \in Working => gxact'[call[q].gxact] = gxact[call[q].gxact]
               /\ pc[q] = "prepare_add" => proc'[call[q].gxact].xid = proc[call[q].gxact].xid
               /\ pc[q] \in {"xid_publish", "xid_release"} => xidGen' = xidGen /\ nextXid' = nextXid
    <3>1. pc[q] = "prepare_add" => call[q].gxact \in Members
      BY DEF ArrayInv, Session, Works, Working, Members
    <3> QED BY <1>2, <3>1 DEF Own1, Reshapes
  <2>2. Bound <= Bound'
    BY <1>5
  <2> QED BY <2>1, <2>2 DEF Rest
<1>9. Frame(p)
  <2>1. \A q \in Sessions \ {p} :
         /\ pc'[q] = pc[q] /\ call'[q] = call[q] /\ vis'[q] = vis[q] /\ snap'[q] = snap[q]
         /\ proc'[q].xmin = proc[q].xmin
    BY <1>2 DEF Own1
  <2>2. \A v \in Vals' : v \in Vals
    BY DEF Reshapes
  <2> QED BY <2>1, <2>2 DEF Frame, Reshapes
<1> QED BY <1>4, <1>5, <1>6, <1>7, <1>8, <1>9

\* A session joins the array.
LEMMA InitProcessStep ==
  ASSUME ArrayInv, SnapInv, NEW p \in Sessions, InitProcess(p)
  PROVE  ArrayInv' /\ SnapInv'
<1>1. Typed /\ Places /\ Prepd /\ Session(p) /\ Snaps(p) /\ p \in Members /\ latestCompletedXid < Bound
  BY DEF ArrayInv, SnapInv, Members
<1> USE DEF Goto
<1>2. /\ pc[p] = "out" /\ ProcArrayAdd(p, proc[p]) /\ pc' = [pc EXCEPT ![p] = "idle"]
      /\ UNCHANGED <<call, vis, snap, xact, gxact>>
  BY DEF InitProcess
<1>3. xact[p] = <<>> /\ proc[p].xid = InvalidXid /\ ~Listed(p) /\ Live(p) = {} /\ IsProc(proc[p])
  <2>1. xact[p] = <<>> /\ ~Listed(p) /\ TopListed(p)
    BY <1>1, <1>2 DEF Session, Nested
  <2>2. proc[p].xid = InvalidXid
    BY <1>2, <2>1 DEF TopListed, TopXid
  <2>3. Live(p) = {}
    BY <1>1, <1>2 DEF Snaps
  <2> QED BY <1>1, <2>1, <2>2, <2>3 DEF Typed
<1>4. PICK me : me = proc[p]
  OBVIOUS
<1>5. Joins(p, me)
  BY <1>1, <1>2, <1>3, <1>4, AddJoins
<1>6. /\ latestCompletedXid \in Nat /\ xactCompletionCount \in Nat \ {0} /\ IsCall(call[p])
      /\ snap = [q \in Sessions |-> snap[q]] /\ IsSnaps(snap[p]) /\ gxact \in [Dummies -> GXacts]
      /\ xact \in [Sessions -> Seq(Levels)]
  BY <1>1 DEF Typed
<1>7. Vals' = Vals
  BY <1>3, <1>4, <1>5 DEF Joins
<1>8. Reshapes(p)
  <2>1. \A q \in Sessions \ {p} : q \in Members \ {p}
    BY DEF Members
  <2>2. \A q \in Sessions \ {p} :
           /\ Listed(q)' <=> Listed(q)
           /\ Listed(q) => xids'[proc'[q].pgxactoff] = xids[proc[q].pgxactoff]
    BY <1>5, <2>1 DEF Joins
  <2>3. \A m \in Members : proc'[m].xid = proc[m].xid /\ proc'[m].xmin = proc[m].xmin
    BY <1>4, <1>5 DEF Joins
  <2> QED BY <1>1, <1>2, <1>5, <1>6, <1>7, <2>2, <2>3 DEF Reshapes, Joins
<1>9. PICK w : w = "idle" /\ w \notin Snapping /\ w # "out" /\ w \notin Sharing
  BY DEF Snapping, Sharing
<1>10. PICK c, l : c = call[p] /\ call' = [call EXCEPT ![p] = c] /\ l = xact[p] /\ xact' = [xact EXCEPT ![p] = l] /\ l \in Seq(Levels)
  <2>1. xact = [xact EXCEPT ![p] = xact[p]] /\ xact[p] \in Seq(Levels)
    BY <1>6
  <2> QED BY <1>1, <1>2, <2>1, Unmoved
<1>11. SetsOwn(p, w, c, l)
  <2>1. \A q \in Sessions \ {p} : q \in Members \ {p}
    BY DEF Members
  <2> QED BY <1>2, <1>5, <1>6, <1>9, <1>10, <2>1 DEF SetsOwn, Joins
<1>12. pc'[p] = w
  BY <1>1, <1>11, SetsOwnParts
<1>13. /\ Rest(p) /\ Typed' /\ Places' /\ (0 < Bound /\ latestCompletedXid < Bound)'
       /\ Bound' = Bound /\ Frame(p)
  BY <1>8, <1>11, ReshapesParts
<1>14. Prepd'
  <2>1. \A d \in Dummies : d \in Members /\ d # p
    BY ProcArrayAssumption DEF Members
  <2>2. \A d \in Dummies : Listed(d)' <=> Listed(d)
    BY <1>5, <2>1 DEF Joins
  <2> QED BY <1>1, <1>2, <1>13, <2>2 DEF Prepd
<1>15. Session(p)'
  <2>1. Listed(p)' /\ xids'[proc'[p].pgxactoff] = InvalidXid /\ proc'[p].xid = InvalidXid
    BY <1>1, <1>3, <1>4, <1>5 DEF Joins
  <2>2. TopListed(p)'
    BY <1>2, <1>3, <1>9, <1>12, <2>1 DEF TopListed, TopXid
  <2>3. Works(p)' /\ Handed(p)' /\ Nested(p)'
    BY <1>2, <1>3, <1>9, <1>12 DEF Works, Working, Handed, Nested
  <2>4. XidsBelow(p)'
    BY <1>2, <1>3 DEF XidsBelow
  <2>5. (Listed(p) <=> pc[p] # "out")' /\ (pc[p] \in Sharing => p \in sharers)'
    BY <1>9, <1>12, <2>1
  <2> QED BY <2>2, <2>3, <2>4, <2>5 DEF Session
<1>16. Live(p)' = Live(p)
  BY <1>2, <1>9, <1>12 DEF Live
<1>17. Keeps(p)
  <2>1. proc'[p].xmin = proc[p].xmin
    BY <1>1, <1>8 DEF Reshapes
  <2> QED BY <1>2, <1>16, <2>1 DEF Keeps
<1> QED BY <1>3, <1>9, <1>12, <1>13, <1>14, <1>15, <1>16, <1>17, LoudStep

\* A prepared transaction joins the array.
LEMMA MarkStep ==
  ASSUME ArrayInv, SnapInv, NEW p \in Sessions, MarkAsPrepared(p)
  PROVE  ArrayInv' /\ SnapInv'
<1>1. Typed /\ Places /\ Prepd /\ Session(p) /\ p \in Members /\ latestCompletedXid < Bound
  BY DEF ArrayInv, Members
<1> USE DEF Goto
<1>2. PICK d : d = call[p].gxact
  OBVIOUS
<1>3. /\ pc[p] = "prepare_add" /\ ProcArrayAdd(d, proc[d]) /\ pc' = [pc EXCEPT ![p] = "prepare_clear"]
      /\ gxact' = [gxact EXCEPT ![d].valid = TRUE] /\ UNCHANGED <<call, vis, snap, xact>>
  BY <1>2 DEF MarkAsPrepared
<1>4. /\ d \in Dummies /\ gxact[d].locker = p /\ ~gxact[d].valid /\ gxact[d].xid # InvalidXid
      /\ proc[d].xid = proc[p].xid
  BY <1>1, <1>2, <1>3 DEF Session, Works, Working
<1>5. d \in Members /\ d \notin Sessions /\ d # p
  BY <1>4, ProcArrayAssumption DEF Members
<1>6. ~Listed(d) /\ IsProc(proc[d])
  BY <1>1, <1>4, <1>5 DEF Prepd, Typed
<1>7. PICK me : me = proc[d]
  OBVIOUS
<1>8. Joins(d, me)
  BY <1>1, <1>3, <1>5, <1>6, <1>7, AddJoins
<1>9. /\ latestCompletedXid \in Nat /\ xactCompletionCount \in Nat \ {0} /\ IsCall(call[p])
      /\ snap = [q \in Sessions |-> snap[q]] /\ IsSnaps(snap[p]) /\ gxact \in [Dummies -> GXacts]
      /\ xact \in [Sessions -> Seq(Levels)]
  BY <1>1 DEF Typed
<1>10. Listed(p) /\ xids[proc[p].pgxactoff] = proc[p].xid
  BY <1>1, <1>3 DEF Session, TopListed
<1>11. Vals' = Vals
  <2>1. proc[p].pgxactoff \in DOMAIN xids
    BY <1>1, <1>10, PlacesApart
  <2>2. proc[p].xid \in Vals \cup {InvalidXid}
    BY <1>10, <2>1 DEF Vals
  <2> QED BY <1>4, <1>7, <1>8, <2>2 DEF Joins
<1>12. PICK g : g = [gxact[d] EXCEPT !.valid = TRUE]
  OBVIOUS
<1>13. gxact[d] \in GXacts
  BY <1>4, <1>9
<1>14. g \in GXacts /\ g.valid = TRUE /\ g.locker = gxact[d].locker /\ g.xid = gxact[d].xid /\ g.children = gxact[d].children
  BY ONLY <1>12, <1>13 DEF GXacts
<1>15. gxact' \in [Dummies -> GXacts] /\ gxact'[d] = g /\ \A e \in Dummies \ {d} : gxact'[e] = gxact[e]
  BY <1>3, <1>4, <1>9, <1>12, <1>14
<1>16. \A q \in Sessions \ {p} : pc[q] \in Working => gxact'[call[q].gxact] = gxact[call[q].gxact]
  <2>1. ASSUME NEW q \in Sessions \ {p}, pc[q] \in Working PROVE call[q].gxact \in Dummies \ {d}
    <3>1. call[q].gxact # d
      BY <1>4, <2>1, WorkersApart
    <3>2. call[q].gxact \in Dummies
      BY <2>1 DEF ArrayInv, Session, Works
    <3> QED BY <3>1, <3>2
  <2> QED BY <1>15, <2>1
<1>17. Reshapes(p)
  <2>1. \A q \in Sessions : q \in Members \ {d}
    BY <1>5 DEF Members
  <2>2. \A q \in Sessions \ {p} :
           /\ Listed(q)' <=> Listed(q)
           /\ Listed(q) => xids'[proc'[q].pgxactoff] = xids[proc[q].pgxactoff]
    BY <1>8, <2>1 DEF Joins
  <2>3. \A m \in Members : proc'[m].xid = proc[m].xid /\ proc'[m].xmin = proc[m].xmin
    BY <1>7, <1>8 DEF Joins
  <2> QED BY <1>1, <1>8, <1>9, <1>11, <1>16, <2>2, <2>3 DEF Reshapes, Joins
<1>18. PICK w : w = "prepare_clear" /\ w \notin Snapping /\ w \notin {"out", "idle"} /\ w \notin Sharing
  BY DEF Snapping, Sharing
<1>19. PICK c, l : c = call[p] /\ call' = [call EXCEPT ![p] = c] /\ l = xact[p] /\ xact' = [xact EXCEPT ![p] = l] /\ l \in Seq(Levels)
  <2>1. xact = [xact EXCEPT ![p] = xact[p]] /\ xact[p] \in Seq(Levels)
    BY <1>9
  <2> QED BY <1>1, <1>3, <2>1, Unmoved
<1>20. SetsOwn(p, w, c, l)
  <2>1. \A q \in Sessions \ {p} : q \in Members \ {d}
    BY <1>5 DEF Members
  <2> QED BY <1>3, <1>8, <1>9, <1>15, <1>18, <1>19, <2>1 DEF SetsOwn, Joins
<1>21. pc'[p] = w
  BY <1>1, <1>20, SetsOwnParts
<1>22. /\ Rest(p) /\ Typed' /\ Places' /\ (0 < Bound /\ latestCompletedXid < Bound)'
       /\ Bound' = Bound /\ Frame(p)
  BY <1>17, <1>20, ReshapesParts
<1>23. Prepd'
  <2>1. \A e \in Dummies : Listed(e)' <=> Listed(e) \/ e = d
    BY <1>8 DEF Joins, Members
  <2>2. Listed(d)' /\ gxact'[d].valid /\ gxact'[d].xid < Bound /\ gxact'[d].xid # InvalidXid /\ \A x \in gxact'[d].children : x < Bound
    BY <1>1, <1>4, <1>14, <1>15, <2>1 DEF Prepd
  <2>3. ASSUME NEW e \in Dummies \ {d}
        PROVE  (/\ Listed(e) <=> gxact[e].valid
                /\ gxact[e].xid < Bound /\ \A x \in gxact[e].children : x < Bound
                /\ gxact[e].valid => gxact[e].xid # InvalidXid)'
    BY <1>1, <1>15, <1>22, <2>1 DEF Prepd
  <2> QED BY <1>22, <2>2, <2>3 DEF Prepd
<1>24. Session(p)'
  <2>1. Listed(p)' /\ xids'[proc'[p].pgxactoff] = proc[p].xid /\ proc'[p].xid = proc[p].xid
    BY <1>1, <1>5, <1>8, <1>10 DEF Joins
  <2>2. TopListed(p)'
    BY <1>1, <1>3, <1>18, <1>21, <2>1 DEF Session, TopListed, TopXid
  <2>3. Works(p)'
    BY <1>2, <1>3, <1>4, <1>14, <1>15, <1>18, <1>21 DEF Works, Working
  <2>4. Handed(p)' /\ Nested(p)'
    BY <1>1, <1>3, <1>18, <1>21 DEF Session, Handed, Nested
  <2>5. XidsBelow(p)'
    BY <1>1, <1>3, <1>22 DEF Session, XidsBelow
  <2>6. (Listed(p) <=> pc[p] # "out")' /\ (pc[p] \in Sharing => p \in sharers)'
    BY <1>18, <1>21, <2>1
  <2> QED BY <2>2, <2>3, <2>4, <2>5, <2>6 DEF Session
<1>25. Live(p)' = {}
  BY <1>18, <1>21 DEF Live
<1>26. Keeps(p)
  <2>1. proc'[p].xmin = proc[p].xmin
    BY <1>1, <1>17 DEF Reshapes
  <2> QED BY <1>3, <1>25, <2>1 DEF Keeps
<1>27. pc'[p] \notin Snapping /\ pc'[p] \notin {"idle", "out"}
  BY <1>18, <1>21
<1> QED BY <1>22, <1>23, <1>24, <1>26, <1>27, LoudStep

\* A session leaves the array.
LEMMA RemoveProcStep ==
  ASSUME ArrayInv, SnapInv, NEW p \in Sessions, RemoveProcFromArray(p)
  PROVE  ArrayInv' /\ SnapInv'
<1>1. Typed /\ Places /\ Prepd /\ Session(p) /\ Snaps(p) /\ p \in Members /\ latestCompletedXid < Bound
  BY DEF ArrayInv, SnapInv, Members
<1> USE DEF Goto, transamVars
<1>2. /\ pc[p] = "idle" /\ ProcArrayRemove(p, InvalidXid) /\ pc' = [pc EXCEPT ![p] = "out"]
      /\ UNCHANGED <<call, vis, snap, xact, gxact>>
  BY DEF RemoveProcFromArray
<1>3. /\ xact[p] = <<>> /\ proc[p].xid = InvalidXid /\ Listed(p) /\ Live(p) = {}
      /\ xids[proc[p].pgxactoff] = InvalidXid
  <2>1. xact[p] = <<>> /\ Listed(p) /\ TopListed(p)
    BY <1>1, <1>2 DEF Session, Nested
  <2>2. proc[p].xid = InvalidXid /\ xids[proc[p].pgxactoff] = InvalidXid
    BY <1>2, <2>1 DEF TopListed, TopXid
  <2>3. Live(p) = {}
    BY <1>1, <1>2 DEF Snaps
  <2> QED BY <2>1, <2>2, <2>3
<1>4. Leaves(p)
  BY <1>1, <1>2, <1>3, RemoveLeaves
<1>5. UNCHANGED <<nextXid, latestCompletedXid, xactCompletionCount>>
  BY <1>2 DEF ProcArrayRemove
<1>6. /\ latestCompletedXid \in Nat /\ xactCompletionCount \in Nat \ {0} /\ IsCall(call[p])
      /\ snap = [q \in Sessions |-> snap[q]] /\ IsSnaps(snap[p]) /\ gxact \in [Dummies -> GXacts]
      /\ xact \in [Sessions -> Seq(Levels)]
  BY <1>1 DEF Typed
<1>7. Vals' \subseteq Vals /\ Vals \subseteq Vals'
  <2>1. InvalidXid \notin Vals
    BY DEF Vals
  <2> QED BY <1>3, <1>4, <2>1 DEF Leaves
<1>8. Reshapes(p)
  <2>1. \A q \in Sessions \ {p} : q \in Members \ {p}
    BY DEF Members
  <2>2. \A q \in Sessions \ {p} :
           /\ Listed(q)' <=> Listed(q)
           /\ Listed(q) => xids'[proc'[q].pgxactoff] = xids[proc[q].pgxactoff]
    BY <1>4, <2>1 DEF Leaves
  <2> QED BY <1>1, <1>2, <1>4, <1>5, <1>6, <1>7, <2>2 DEF Reshapes, Leaves
<1>9. PICK w : w = "out" /\ w \notin Snapping /\ w \notin Sharing
  BY DEF Snapping, Sharing
<1>10. PICK c, l : c = call[p] /\ call' = [call EXCEPT ![p] = c] /\ l = xact[p] /\ xact' = [xact EXCEPT ![p] = l] /\ l \in Seq(Levels)
  <2>1. xact = [xact EXCEPT ![p] = xact[p]] /\ xact[p] \in Seq(Levels)
    BY <1>6
  <2> QED BY <1>1, <1>2, <2>1, Unmoved
<1>11. SetsOwn(p, w, c, l)
  <2>1. \A q \in Sessions \ {p} : q \in Members \ {p}
    BY DEF Members
  <2> QED BY <1>2, <1>4, <1>6, <1>9, <1>10, <2>1 DEF SetsOwn, Leaves
<1>12. pc'[p] = w
  BY <1>1, <1>11, SetsOwnParts
<1>13. /\ Rest(p) /\ Typed' /\ Places' /\ (0 < Bound /\ latestCompletedXid < Bound)'
       /\ Bound' = Bound /\ Frame(p)
  BY <1>8, <1>11, ReshapesParts
<1>14. Prepd'
  <2>1. \A d \in Dummies : d \in Members /\ d # p
    BY ProcArrayAssumption DEF Members
  <2>2. \A d \in Dummies : Listed(d)' <=> Listed(d)
    BY <1>4, <2>1 DEF Leaves
  <2> QED BY <1>1, <1>2, <1>13, <2>2 DEF Prepd
<1>15. Session(p)'
  <2>1. ~Listed(p)' /\ proc'[p].xid = InvalidXid
    BY <1>1, <1>3, <1>4 DEF Leaves
  <2>2. TopListed(p)'
    BY <1>2, <1>3, <1>9, <1>12, <2>1 DEF TopListed, TopXid
  <2>3. Works(p)' /\ Handed(p)' /\ Nested(p)'
    BY <1>2, <1>3, <1>9, <1>12 DEF Works, Working, Handed, Nested
  <2>4. XidsBelow(p)'
    BY <1>2, <1>3 DEF XidsBelow
  <2>5. (Listed(p) <=> pc[p] # "out")' /\ (pc[p] \in Sharing => p \in sharers)'
    BY <1>9, <1>12, <2>1
  <2> QED BY <2>2, <2>3, <2>4, <2>5 DEF Session
<1>16. Live(p)' = Live(p)
  BY <1>2, <1>9, <1>12 DEF Live
<1>17. Keeps(p)
  <2>1. proc'[p].xmin = proc[p].xmin
    BY <1>1, <1>8 DEF Reshapes
  <2> QED BY <1>2, <1>16, <2>1 DEF Keeps
<1> QED BY <1>3, <1>9, <1>12, <1>13, <1>14, <1>15, <1>16, <1>17, LoudStep

\* A prepared transaction leaves the array.
LEMMA FinishRemoveStep ==
  ASSUME ArrayInv, SnapInv, NEW p \in Sessions, FinishPreparedRemove(p)
  PROVE  ArrayInv' /\ SnapInv'
<1>1. Typed /\ Places /\ Prepd /\ Session(p) /\ p \in Members /\ latestCompletedXid < Bound
  BY DEF ArrayInv, Members
<1> USE DEF Goto, transamVars
<1>2. PICK d : d = call[p].gxact
  OBVIOUS
<1>3. pc[p] = "finish_remove"
  BY DEF FinishPreparedRemove
<1>4. d \in Dummies /\ gxact[d].locker = p /\ gxact[d].valid
  BY <1>1, <1>2, <1>3 DEF Session, Works, Working
<1>5. d \in Members /\ d \notin Sessions /\ d # p
  BY <1>4, ProcArrayAssumption DEF Members
<1>6. /\ latestCompletedXid \in Nat /\ xactCompletionCount \in Nat \ {0} /\ IsCall(call[p])
      /\ snap = [q \in Sessions |-> snap[q]] /\ IsSnaps(snap[p]) /\ gxact \in [Dummies -> GXacts]
      /\ xact \in [Sessions -> Seq(Levels)]
  BY <1>1 DEF Typed
<1>7. gxact[d] \in GXacts
  BY <1>4, <1>6
<1>8. PICK x, K : x = gxact[d].xid /\ K = gxact[d].children
  OBVIOUS
<1>9. x \in Nat /\ K \in SUBSET Nat
  BY ONLY <1>7, <1>8 DEF GXacts
<1>10. x < Bound /\ (\A y \in K : y < Bound) /\ x # InvalidXid /\ Listed(d)
  BY <1>1, <1>4, <1>8 DEF Prepd
<1>11. PICK z \in Nat : z = Max({x} \cup K) /\ z < Bound /\ x <= z
  BY <1>9, <1>10, LatestBelow
<1>12. /\ ProcArrayRemove(d, z) /\ pc' = [pc EXCEPT ![p] = "finish_done"]
       /\ gxact' = [gxact EXCEPT ![d].valid = FALSE] /\ UNCHANGED <<call, vis, snap, xact>>
  BY <1>2, <1>8, <1>11 DEF FinishPreparedRemove, Prepared
<1>13. Leaves(d)
  BY <1>1, <1>5, <1>10, <1>12, RemoveLeaves
<1>14. Completed(z)
  <2>1. z # InvalidXid
    BY <1>9, <1>10, <1>11 DEF InvalidXid
  <2> QED BY <1>12, <2>1 DEF ProcArrayRemove
<1>15. /\ latestCompletedXid' \in Nat /\ latestCompletedXid' < Bound
       /\ latestCompletedXid <= latestCompletedXid' /\ nextXid' = nextXid
       /\ xactCompletionCount' = xactCompletionCount + 1 /\ xactCompletionCount' \in Nat \ {0}
  BY <1>11, <1>14, CompletedParts
<1>16. xactCompletionCount <= xactCompletionCount' /\ xactCompletionCount' # xactCompletionCount
  <2>1. PICK b \in Nat : b = xactCompletionCount
    BY <1>6
  <2> QED BY <1>15, <2>1
<1>17. PICK g : g = [gxact[d] EXCEPT !.valid = FALSE]
  OBVIOUS
<1>18. g \in GXacts /\ g.valid = FALSE /\ g.locker = gxact[d].locker /\ g.xid = gxact[d].xid /\ g.children = gxact[d].children
  BY ONLY <1>7, <1>17 DEF GXacts
<1>19. gxact' \in [Dummies -> GXacts] /\ gxact'[d] = g /\ \A e \in Dummies \ {d} : gxact'[e] = gxact[e]
  BY <1>4, <1>6, <1>12, <1>17, <1>18
<1>20. \A q \in Sessions \ {p} : pc[q] \in Working => gxact'[call[q].gxact] = gxact[call[q].gxact]
  <2>1. ASSUME NEW q \in Sessions \ {p}, pc[q] \in Working PROVE call[q].gxact \in Dummies \ {d}
    <3>1. call[q].gxact # d
      BY <1>4, <2>1, WorkersApart
    <3>2. call[q].gxact \in Dummies
      BY <2>1 DEF ArrayInv, Session, Works
    <3> QED BY <3>1, <3>2
  <2> QED BY <1>19, <2>1
<1>21. Reshapes(p)
  <2>1. \A q \in Sessions : q \in Members \ {d}
    BY <1>5 DEF Members
  <2>2. \A q \in Sessions \ {p} :
           /\ Listed(q)' <=> Listed(q)
           /\ Listed(q) => xids'[proc'[q].pgxactoff] = xids[proc[q].pgxactoff]
    BY <1>13, <2>1 DEF Leaves
  <2> QED BY <1>13, <1>15, <1>16, <1>20, <2>2 DEF Reshapes, Leaves
<1>22. PICK w : w = "finish_done" /\ w \notin Snapping /\ w \notin {"out", "idle"} /\ w \notin Sharing
  BY DEF Snapping, Sharing
<1>23. PICK c, l : c = call[p] /\ call' = [call EXCEPT ![p] = c] /\ l = xact[p] /\ xact' = [xact EXCEPT ![p] = l] /\ l \in Seq(Levels)
  <2>1. xact = [xact EXCEPT ![p] = xact[p]] /\ xact[p] \in Seq(Levels)
    BY <1>6
  <2> QED BY <1>1, <1>12, <2>1, Unmoved
<1>24. SetsOwn(p, w, c, l)
  <2>1. \A q \in Sessions \ {p} : q \in Members
    BY DEF Members
  <2> QED BY <1>6, <1>12, <1>13, <1>19, <1>22, <1>23, <2>1 DEF SetsOwn, Leaves
<1>25. pc'[p] = w
  BY <1>1, <1>24, SetsOwnParts
<1>26. /\ Rest(p) /\ Typed' /\ Places' /\ (0 < Bound /\ latestCompletedXid < Bound)'
       /\ Bound' = Bound /\ Frame(p)
  BY <1>21, <1>24, ReshapesParts
<1>27. Prepd'
  <2>1. \A e \in Dummies : Listed(e)' <=> Listed(e) /\ e # d
    BY <1>13 DEF Leaves, Members
  <2>2. ~Listed(d)' /\ ~gxact'[d].valid /\ gxact'[d].xid < Bound /\ \A y \in gxact'[d].children : y < Bound
    BY <1>4, <1>8, <1>10, <1>18, <1>19, <2>1
  <2>3. ASSUME NEW e \in Dummies \ {d}
        PROVE  (/\ Listed(e) <=> gxact[e].valid
                /\ gxact[e].xid < Bound /\ \A y \in gxact[e].children : y < Bound
                /\ gxact[e].valid => gxact[e].xid # InvalidXid)'
    BY <1>1, <1>19, <1>26, <2>1 DEF Prepd
  <2> QED BY <1>26, <2>2, <2>3 DEF Prepd
<1>28. Session(p)'
  <2>1. Listed(p) /\ xids[proc[p].pgxactoff] = proc[p].xid
    BY <1>1, <1>3 DEF Session, TopListed
  <2>2. Listed(p)' /\ xids'[proc'[p].pgxactoff] = proc[p].xid /\ proc'[p].xid = proc[p].xid
    BY <1>1, <1>5, <1>13, <2>1 DEF Leaves
  <2>3. TopListed(p)'
    BY <1>1, <1>3, <1>12, <1>22, <1>25, <2>2 DEF Session, TopListed, TopXid
  <2>4. Works(p)'
    BY <1>2, <1>3, <1>4, <1>12, <1>18, <1>19, <1>22, <1>25 DEF Works, Working
  <2>5. Handed(p)' /\ Nested(p)'
    BY <1>22, <1>25 DEF Handed, Nested
  <2>6. XidsBelow(p)'
    BY <1>1, <1>12, <1>26 DEF Session, XidsBelow
  <2>7. (Listed(p) <=> pc[p] # "out")' /\ (pc[p] \in Sharing => p \in sharers)'
    BY <1>22, <1>25, <2>2
  <2> QED BY <2>3, <2>4, <2>5, <2>6, <2>7 DEF Session
<1>29. Live(p)' = Live(p)
  BY <1>3, <1>12, <1>22, <1>25 DEF Live
<1>30. Keeps(p)
  <2>1. proc'[p].xmin = proc[p].xmin
    BY <1>1, <1>21 DEF Reshapes
  <2> QED BY <1>12, <1>29, <2>1 DEF Keeps
<1>31. pc'[p] \notin Snapping /\ pc'[p] \notin {"idle", "out"}
  BY <1>22, <1>25
<1> QED BY <1>26, <1>27, <1>28, <1>30, <1>31, LoudStep

(***************************************************************************)
(* The first states.                                                       *)
(***************************************************************************)

\* The members of a finite set in order: each of them once.
LEMMA AscendingFields ==
  ASSUME NEW S \in SUBSET Members, NEW f \in Ascending(S)
  PROVE  /\ f \in Seq(Members)
         /\ \A i, j \in DOMAIN f : f[i] = f[j] => i = j
         /\ \A m : (\E i \in DOMAIN f : f[i] = m) <=> m \in S
<1>1. PICK n : n = Cardinality(S)
  OBVIOUS
<1>2. n \in Nat
  BY <1>1, FS_Subset, FS_CardinalityType, ProcArrayAssumption
<1>3. f \in [1 .. n -> S] /\ Range(f) = S /\ \A i, j \in DOMAIN f : i < j => f[i] < f[j]
  BY <1>1 DEF Ascending
<1>4. f \in [1 .. n -> Members]
  BY <1>3
<1>5. f \in Seq(Members)
  <2>1. PICK k \in Nat : k = n
    BY <1>2
  <2>2. f \in [1 .. k -> Members]
    BY <1>4, <2>1
  <2> QED BY ONLY <2>2, k \in Nat, SeqDef
<1>6. ASSUME NEW i \in DOMAIN f, NEW j \in DOMAIN f, f[i] = f[j] PROVE i = j
  <2>1. DOMAIN f = 1 .. n /\ f[i] \in Members /\ f[j] \in Members
    BY <1>4
  <2>2. f[i] \in Nat /\ f[j] \in Nat
    BY <2>1, ProcArrayAssumption
  <2>3. i \in Nat /\ j \in Nat
    BY <1>2, <2>1
  <2> QED BY <1>3, <1>6, <2>2, <2>3
<1>7. ASSUME NEW m PROVE (\E i \in DOMAIN f : f[i] = m) <=> m \in S
  BY <1>3 DEF Range
<1> QED BY <1>5, <1>6, <1>7

\* The first states satisfy the invariant.
LEMMA InitHolds ==
  ASSUME Init
  PROVE  ArrayInv /\ SnapInv
<1>1. PICK start \in Plans :
        plan = start[2] /\ ArrayInit({p \in Sessions : "churn" \notin plan[p]}, start[1])
  BY DEF Init
<1>2. start[1] \in Nat \ {0}
  BY XactAssumption, TransactionLogAssumption DEF Xids
<1>3. PICK S \in SUBSET Sessions : S = {p \in Sessions : "churn" \notin plan[p]}
  OBVIOUS
<1>4. ArrayInit(S, start[1])
  BY <1>1, <1>3
<1>5. S \in SUBSET Members /\ pgprocnos \in Ascending(S)
  BY <1>4 DEF ArrayInit, Members
<1>6. /\ pgprocnos \in Seq(Members)
      /\ \A i, j \in DOMAIN pgprocnos : pgprocnos[i] = pgprocnos[j] => i = j
      /\ \A m : (\E i \in DOMAIN pgprocnos : pgprocnos[i] = m) <=> m \in S
  BY <1>5, AscendingFields
<1>7. PICK old : old = [p \in Members |-> BlankProc]
  OBVIOUS
<1>8. /\ old = [m \in Members |-> old[m]] /\ \A m \in Members : IsProc(old[m])
      /\ \A m \in Members : old[m] = BlankProc
  BY <1>7, Blanks
<1>9. proc = Placed(old, pgprocnos)
  BY <1>4, <1>7 DEF ArrayInit
<1>10. /\ proc = [m \in Members |-> proc[m]]
       /\ \A m \in Members : IsProc(proc[m]) /\ proc[m].xid = InvalidXid /\ proc[m].xmin = InvalidXid
       /\ Places
  <2>1. \A m \in Members : old[m].xid = InvalidXid /\ old[m].xmin = InvalidXid
    BY <1>8 DEF BlankProc
  <2> QED BY <1>6, <1>8, <1>9, <2>1, PlacedFields DEF Places
<1>11. /\ xids = [i \in DOMAIN pgprocnos |-> InvalidXid] /\ xidGen = NoProc
       /\ nextXid = start[1] /\ latestCompletedXid = start[1] - 1 /\ xactCompletionCount = 1
       /\ pc = [p \in Sessions |-> IF p \in S THEN "idle" ELSE "out"]
       /\ call = [p \in Sessions |-> NoCall] /\ vis = [p \in Sessions |-> NoVis]
       /\ snap = [p \in Sessions |-> NoSnaps] /\ xact = [p \in Sessions |-> <<>>]
       /\ gxact = [d \in Dummies |-> NoGXact]
  BY <1>4 DEF ArrayInit, Init, SnapInit
<1>12. xids \in Seq(Nat) /\ Len(xids) = Len(pgprocnos)
  <2>1. PICK n \in Nat : n = Len(pgprocnos)
    BY <1>6
  <2>2. DOMAIN pgprocnos = 1 .. n
    BY <1>6, <2>1
  <2>3. xids \in [1 .. n -> Nat] /\ DOMAIN xids = 1 .. n
    BY <1>11, <2>2 DEF InvalidXid
  <2>4. xids \in Seq(Nat)
    BY ONLY <2>1, <2>3, SeqDef, Zenon
  <2> QED BY <2>1, <2>3, <2>4
<1>13. IsSnaps(NoSnaps) /\ NoSnaps.active = <<>> /\ NoSnaps.registered = {}
       /\ \A w \in Structs : NoSnaps.static[w] = NoSnapshot
  BY Blanks DEF NoSnaps, IsSnaps, Entries
<1>14. \A p \in Sessions :
         /\ pc[p] \in {"idle", "out"} /\ (pc[p] = "idle" <=> p \in S)
         /\ call[p] = NoCall /\ vis[p] = NoVis /\ snap[p] = NoSnaps /\ xact[p] = <<>> /\ p \in Members
  BY <1>11 DEF Members
<1>15. Typed
  <2>1. nextXid \in Nat \ {0} /\ latestCompletedXid \in Nat /\ xactCompletionCount \in Nat \ {0}
        /\ xidGen \in Nat
    BY <1>2, <1>11 DEF NoProc
  <2>2. /\ pc = [q \in Sessions |-> pc[q]]
        /\ call = [p \in Sessions |-> call[p]] /\ \A p \in Sessions : IsCall(call[p])
        /\ vis = [p \in Sessions |-> vis[p]] /\ \A p \in Sessions : IsVis(vis[p])
        /\ snap = [p \in Sessions |-> snap[p]] /\ \A p \in Sessions : IsSnaps(snap[p])
    BY <1>11, <1>13, Blanks
  <2>3. <<>> \in Seq(Levels)
    OBVIOUS
  <2>4. xact \in [Sessions -> Seq(Levels)]
    BY <1>11, <2>3
  <2>5. NoGXact \in GXacts
    BY DEF NoGXact, GXacts, NoProc, InvalidXid
  <2>6. gxact \in [Dummies -> GXacts]
    BY <1>11, <2>5
  <2> QED BY <1>6, <1>10, <1>12, <2>1, <2>2, <2>4, <2>6 DEF Typed
<1>16. \A m : Listed(m) <=> m \in S
  BY <1>6 DEF Listed
<1>17. Bound = start[1] /\ 0 < Bound /\ latestCompletedXid < Bound
  BY <1>2, <1>11 DEF Bound
<1>18. Prepd
  <2>1. \A d \in Dummies : d \notin S
    BY <1>3, ProcArrayAssumption
  <2>2. \A d \in Dummies : gxact[d].valid = FALSE /\ gxact[d].xid = 0 /\ gxact[d].children = {}
    BY <1>11 DEF NoGXact, InvalidXid
  <2> QED BY <1>16, <1>17, <2>1, <2>2 DEF Prepd
<1>19. ASSUME NEW p \in Sessions PROVE Session(p)
  <2>1. Listed(p) <=> pc[p] # "out"
    BY <1>14, <1>16
  <2>2. Works(p) /\ Handed(p) /\ Nested(p) /\ (pc[p] \in Sharing => p \in sharers)
    BY <1>14 DEF Works, Handed, Nested, Working, Sharing
  <2>3. XidsBelow(p) /\ TopXid(p) = InvalidXid
    BY <1>14 DEF XidsBelow, TopXid
  <2>4. pc[p] # "out" => xids[proc[p].pgxactoff] = InvalidXid
    <3>1. SUFFICES ASSUME pc[p] # "out" PROVE xids[proc[p].pgxactoff] = InvalidXid
      OBVIOUS
    <3>2. PICK i \in DOMAIN pgprocnos : pgprocnos[i] = p
      BY <2>1, <3>1 DEF Listed
    <3>3. proc[p].pgxactoff = i
      BY <1>10, <3>2 DEF Places
    <3> QED BY <1>11, <3>2, <3>3
  <2>5. TopListed(p)
    BY <1>10, <1>14, <2>3, <2>4 DEF TopListed
  <2> QED BY <2>1, <2>2, <2>3, <2>5 DEF Session
<1>20. ASSUME NEW p \in Sessions PROVE Snaps(p) /\ Live(p) = {} /\ vis[p].maybeNeeded = 0
  <2>1. Live(p) = {}
    BY <1>13, <1>14 DEF Live
  <2>2. proc[p].xmin = 0 /\ vis[p].maybeNeeded = 0
    BY <1>10, <1>14 DEF NoVis, InvalidXid
  <2>3. Vals = {}
    BY <1>11 DEF Vals
  <2>4. Below(0)
    BY <1>15, <2>3 DEF Below, Typed
  <2> QED BY <1>13, <1>14, <2>1, <2>2, <2>4 DEF Snaps
<1>21. SnapInv
  BY <1>14, <1>20 DEF SnapInv, HorizonSafe
<1> QED BY <1>10, <1>15, <1>17, <1>18, <1>19, <1>21 DEF ArrayInv

(***************************************************************************)
(* Every step.                                                             *)
(***************************************************************************)

\* What a session starts keeps the invariant.
LEMMA BeginStep ==
  ASSUME ArrayInv, SnapInv, NEW p \in Sessions, Begin(p)
  PROVE  ArrayInv' /\ SnapInv'
<1>1. CASE InitProcess(p) \/ RemoveProcFromArray(p)
  BY <1>1, InitProcessStep, RemoveProcStep
<1>2. CASE StartTransaction(p) \/ StartSubTransaction(p)
  BY <1>2, NestSteps
<1>3. CASE AssignTransactionId(p)
  BY <1>3, AssignSteps
<1>4. CASE CommitSubTransaction(p)
  BY <1>4, SubCommitStep
<1>5. CASE AbortSubTransaction(p)
  BY <1>5, NestSteps, RecordSteps
<1>6. ASSUME NEW status \in {Committed, Aborted}, EndTopTransaction(p, status)
      PROVE  ArrayInv' /\ SnapInv'
  <2>1. CASE xact[p][1].xid = InvalidXid
    BY <1>6, <2>1, EndWithoutXid
  <2>2. CASE xact[p][1].xid # InvalidXid
    BY <1>6, <2>2, RecordSteps
  <2> QED BY <2>1, <2>2
<1>7. CASE CommitTransaction(p) \/ AbortTransaction(p)
  <2>1. \E status \in {Committed, Aborted} : EndTopTransaction(p, status)
    BY <1>7 DEF CommitTransaction, AbortTransaction
  <2> QED BY <1>6, <2>1
<1>8. CASE PrepareTransaction(p)
  BY <1>8, PrepareStep
<1>9. CASE \E d \in Dummies, status \in {Committed, Aborted} : FinishPreparedTransaction(p, d, status)
  BY <1>9, EntrySteps
<1>10. CASE SnapshotCall(p)
  <2>1. UNCHANGED <<logVars, xact, gxact, plan>>
    BY <1>10 DEF SnapshotCall
  <2>2. CASE GetTransactionSnapshot(p, Known) \/ GetCatalogSnapshot(p, Known)
    <3>1. PICK known : known = Known
      OBVIOUS
    <3>2. GetTransactionSnapshot(p, known) \/ GetCatalogSnapshot(p, known)
      BY <2>2, <3>1
    <3> QED BY <2>1, <3>2, RefillSteps
  <2>3. CASE PopActiveSnapshot(p) \/ InvalidateCatalogSnapshot(p) \/ UnregisterSnapshot(p)
    BY <2>1, <2>3, ReleaseSteps
  <2>4. CASE RegisterSnapshot(p, Len(xact[p]))
    <3>1. PICK level : level = Len(xact[p])
      OBVIOUS
    <3>2. RegisterSnapshot(p, level)
      BY <2>4, <3>1
    <3> QED BY <2>1, <3>2, RegisterStep
  <2> QED BY <1>10, <2>2, <2>3, <2>4 DEF SnapshotCall
<1>11. CASE InProgressCall(p) \/ HorizonCall(p)
  BY <1>11, InProgressSteps
<1> QED BY <1>1, <1>2, <1>3, <1>4, <1>5, <1>7, <1>8, <1>9, <1>10, <1>11 DEF Begin

\* What it does inside a call keeps the invariant.
LEMMA CallStep ==
  ASSUME ArrayInv, SnapInv, NEW p \in Sessions, Step(p)
  PROVE  ArrayInv' /\ SnapInv'
<1>1. CASE AssignStep(p)
  <2>1. CASE AssignParent(p)
    BY <2>1, AssignSteps
  <2>2. CASE AssignReturn(p)
    BY <2>2, AssignReturnStep
  <2>3. CASE /\ GetNewTransactionIdLock(p) \/ GetNewTransactionIdRefused(p) \/ GetNewTransactionIdPublish(p)
             /\ UNCHANGED <<logVars, snap, xact, gxact, plan>>
    BY <2>3, AssignSteps, AssignLockStep, PublishStep
  <2> QED BY <1>1, <2>1, <2>2, <2>3 DEF AssignStep
<1>2. CASE RecordStep(p) \/ FinishPreparedRead(p)
  BY <1>2, RecordSteps
<1>3. CASE ProcArrayEndTransaction(p) \/ PrepareClear(p)
  BY <1>3, EndSteps
<1>4. CASE AbortSubTransactionRemove(p)
  BY <1>4, SubRemoveStep
<1>5. CASE AbortSubTransactionCleanup(p)
  BY <1>5, ReleaseSteps
<1>6. CASE MarkAsPrepared(p)
  BY <1>6, MarkStep
<1>7. CASE PrepareFails(p) \/ FinishPreparedFails(p) \/ RemoveGXact(p)
  BY <1>7, EntrySteps
<1>8. CASE PostPrepare(p)
  BY <1>8, PostPrepareStep
<1>9. CASE FinishPreparedRemove(p)
  BY <1>9, FinishRemoveStep
<1>10. CASE ScanStep(p)
  <2>1. UNCHANGED <<logVars, snap, xact, gxact, plan>>
    BY <1>10 DEF ScanStep
  <2>2. CASE GetSnapshotDataStep(p)
    BY <2>1, <2>2, ReuseSteps, BuildSteps, InstallSteps DEF GetSnapshotDataStep
  <2>3. CASE InProgressStep(p)
    BY <2>1, <2>3, InProgressSteps
  <2>4. CASE HorizonStep(p)
    BY <2>1, <2>4, HorizonSteps
  <2> QED BY <1>10, <2>2, <2>3, <2>4 DEF ScanStep
<1>11. CASE SnapshotReturn(p)
  BY <1>11, TakenStep
<1>12. CASE InProgressReturn(p)
  BY <1>12, InProgressSteps
<1> QED BY <1>1, <1>2, <1>3, <1>4, <1>5, <1>6, <1>7, <1>8, <1>9, <1>10, <1>11, <1>12 DEF Step

\* So does doing nothing.
LEMMA StutterStep ==
  ASSUME ArrayInv, SnapInv, UNCHANGED vars
  PROVE  ArrayInv' /\ SnapInv'
<1> USE DEF vars, logVars, arrayVars, transamVars, denseVars
<1>1. \A x : Listed(x)' <=> Listed(x)
  BY DEF Listed
<1>2. /\ Typed' /\ Places' /\ (Bound' = Bound) /\ (0 < Bound)' /\ (latestCompletedXid < Bound)' /\ Prepd'
  BY DEF ArrayInv, Typed, Places, Bound, Prepd, Listed
<1>3. ASSUME NEW p \in Sessions PROVE Session(p)' /\ Snaps(p)' /\ (Scanned(p)' <=> Scanned(p))
  <2>1. Session(p)
    BY DEF ArrayInv
  <2>2. Works(p)' /\ Handed(p)'
    BY <2>1 DEF Session, Works, Handed, Unassigned
  <2>3. XidsBelow(p)' /\ TopListed(p)' /\ Nested(p)'
    BY <1>2, <2>1 DEF Session, XidsBelow, TopListed, TopXid, Nested
  <2>4. Session(p)'
    BY <2>1, <2>2, <2>3 DEF Session, Listed
  <2>5. Vals' = Vals /\ Live(p)' = Live(p)
    BY DEF Vals, Live
  <2>6. ASSUME NEW s PROVE Built(s) => Built(s)'
    BY <2>5 DEF Built, Below, Recent
  <2>7. Snaps(p)
    BY DEF SnapInv
  <2>8. (Below(proc[p].xmin) => Below(proc[p].xmin)') /\ (Below(vis[p].maybeNeeded) => Below(vis[p].maybeNeeded)')
    BY <2>5 DEF Below
  <2>9. Building(p, call[p].at) => Building(p, call[p].at)'
    BY <2>5 DEF Building, Recent
  <2>10. Building(p, call[p].at + 1) => Building(p, call[p].at + 1)'
    BY <2>5 DEF Building, Recent
  <2>11. Snaps(p)'
    BY <2>5, <2>6, <2>7, <2>8, <2>9, <2>10 DEF Snaps
  <2>12. Scanned(p)' <=> Scanned(p)
    BY <2>5 DEF Scanned, Recent, Live
  <2> QED BY <2>4, <2>11, <2>12
<1>4. SnapInv'
  BY <1>3 DEF SnapInv, HorizonSafe, Live
<1> QED BY <1>2, <1>3, <1>4 DEF ArrayInv

\* HorizonSafe, in every reachable state: no horizon that a session has computed for pruning and
\* vacuum is above the xmin of a snapshot some session reads with, whoever joins, leaves,
\* prepares or reuses a snapshot without ProcArrayLock meanwhile.
THEOREM HorizonSafeHolds == Spec => []HorizonSafe
<1>1. Init => ArrayInv /\ SnapInv
  BY InitHolds
<1>2. ArrayInv /\ SnapInv /\ [Next]_vars => ArrayInv' /\ SnapInv'
  BY BeginStep, CallStep, StutterStep DEF Next
<1>3. SnapInv => HorizonSafe
  BY DEF SnapInv
<1> QED BY <1>1, <1>2, <1>3, PTL DEF Spec
=============================================================================
