---------------------------- MODULE MCDurability -----------------------------
EXTENDS Durability, TLC

(* What backends 1 and 2 do, and how many checkpoints, background writes, failed writes *)
(* or insertions and crashes come in between.                                          *)
Plan(next, first, second, ckpts, writes, failures, crashes) ==
  [nextXid |-> next,
   todo |-> 1 :> first @@ 2 :> second,
   left |-> [checkpoints |-> ckpts, writes |-> writes, failures |-> failures, crashes |-> crashes]]

(* An insertion fails, the page is written, and a crash takes the abort record. *)
FailingInsert == {Plan(3, <<"sync", "sync">>, <<"scan">>, 0, 1, 1, 1)}

(* Ids 0 and 1 share a page of pg_xact, so do 2 and 3, and 4 and 5; there are two slots.  *)
AllPlans ==
  {Plan(2, <<"sync">>, <<"async">>, 1, 0, 0, 1),                \* a checkpoint between commits
   Plan(2, <<"sync">>, <<"async">>, 1, 0, 1, 0),                \* writes fail
   Plan(2, <<"abort">>, <<"scan">>, 1, 0, 1, 1),
   Plan(3, <<"abort", "sync">>, <<>>, 1, 0, 0, 1),              \* an id is given out twice
   Plan(1, <<"sync">>, <<"async", "abort", "sync">>, 0, 0, 0, 1),  \* the slots run out
   Plan(2, <<"sync", "sync", "async">>, <<"scan">>, 1, 0, 0, 0),
   Plan(2, <<"sync", "sync", "async">>, <<"scan">>, 0, 1, 0, 1),
   Plan(2, <<"async">>, <<"scan", "scan">>, 0, 1, 0, 1),        \* hints
   Plan(2, <<"async", "sync">>, <<>>, 1, 0, 0, 2)}              \* a crash during recovery
  \union FailingInsert

(* Wal's set of records is used by WalNext only. *)
LogRecord == {}
=============================================================================
