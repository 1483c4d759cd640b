------------------------------- MODULE MCXLog --------------------------------
EXTENDS XLog, TLC

R(kind, len) == [kind |-> kind, len |-> len]

(* Records that fill the buffers. *)
Ring == 1 :> <<R("sync", 4), R("sync", 1)>> @@ 2 :> <<R("async", 4), R("sync", 2)>> @@ 9 :> 0

(* The WAL writer behind asynchronous commits. *)
Writer == 1 :> <<R("async", 3)>> @@ 2 :> <<R("async", 4)>> @@ 9 :> 2

(* A redo point between two records of one page. *)
Checkpoint == 1 :> <<R("async", 1), R("sync", 4)>> @@ 2 :> <<R("redo", 1), R("async", 4)>> @@ 9 :> 0

(* Segment switches beside an insertion that needs a buffer. *)
Switch == 1 :> <<R("switch", 1), R("switch", 1)>> @@ 2 :> <<R("async", 4), R("sync", 4)>> @@ 9 :> 0

AllPlans == {Ring, Writer, Checkpoint, Switch}
=============================================================================
