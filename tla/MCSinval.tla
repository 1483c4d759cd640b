------------------------------ MODULE MCSinval -------------------------------
EXTENDS Sinval

(* What no step reads is left out of the state. *)
View ==
  LET When(used, f) == [p \in Procs |-> IF used[p] THEN f[p] ELSE None]
      reader    == [p \in Procs |-> p \in Readers \cap listed]
      receiving == [p \in Procs |-> at[p] \in {"apply", "get"}]
      inserting == [p \in Procs |-> at[p] \notin {"idle", "apply", "get", "receiveSignal"}]
  IN  <<ring, When(reader, nextMsgNum), resetState, signaled, When(reader, hasMessages),
        writeLock, readers, catchup, pending, When(receiving, full), at, When(inserting, chunk),
        todo, signal, done, When(reader, seen), When(receiving, sure)>>
=============================================================================
