--------------------------------- MODULE Wal ---------------------------------
(* What the write-ahead log promises its callers: records keep their order, what  *)
(* has become durable stays so, a flush that returned covers its record, and a    *)
(* crash may drop only records that no flush had covered.                         *)
EXTENDS Naturals, Sequences

CONSTANT Record

VARIABLES
  log,      \* the records inserted, in the order of their positions
  durable,  \* how many of them a crash cannot take away
  acked     \* the records whose XLogFlush has returned, as indexes of log

walVars == <<log, durable, acked>>

WalTypeOK ==
  /\ log \in Seq(Record)
  /\ durable \in Nat
  /\ acked \in SUBSET Nat

WalInit == log = <<>> /\ durable = 0 /\ acked = {}

Insert(r) ==
  /\ log' = Append(log, r)
  /\ UNCHANGED <<durable, acked>>

Sync(n) ==
  /\ durable <= n /\ n <= Len(log)
  /\ durable' = n
  /\ UNCHANGED <<log, acked>>

Acknowledge(n) ==
  /\ n \in 1..durable
  /\ acked' = acked \union {n}
  /\ UNCHANGED <<log, durable>>

(* Records that were written and not synced may or may not have reached the disk. *)
Lose(n) ==
  /\ durable <= n /\ n <= Len(log)
  /\ log' = SubSeq(log, 1, n)
  /\ durable' = n
  /\ UNCHANGED acked

WalNext ==
  \/ \E r \in Record : Insert(r)
  \/ \E n \in 0..Len(log) : Sync(n) \/ Acknowledge(n) \/ Lose(n)

WalSpec == WalInit /\ [][WalNext]_walVars
=============================================================================
