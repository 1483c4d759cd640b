------------------------------- MODULE DeadLock ------------------------------
(* DeadLockCheck, which runs with every partition lock held: a search for   *)
(* cycles of waiting processes, and for queue orders without them.  Lock groups *)
(* are left out: every process is its own leader.                            *)
EXTENDS LockTable

(* Who waits in front of p, and with a request that p conflicts with. *)
Ahead(order, p) ==
  LET place == CHOOSE i \in DOMAIN order : order[i] = p
  IN  {order[i] : i \in 1..(place - 1)}

(* "table" has the locks, "mode" what each process waits for, "orders" the queue *)
(* orders to believe in.                                                       *)
WaitsOn(table, p) == {r \in DOMAIN table : Contains(table[r].queue, p)}

HardBlockers(table, mode, p) ==
  UNION {{q \in Procs \ {p} : conflictTab[mode[p]] \cap table[r].hold[q] # {}} :
           r \in WaitsOn(table, p)}

SoftBlockers(table, orders, mode, p) ==
  UNION {{q \in Ahead(orders[r], p) : mode[q] \in conflictTab[mode[p]]} :
           r \in WaitsOn(table, p)}
  \ HardBlockers(table, mode, p)

Blockers(table, orders, mode, p) ==
  HardBlockers(table, mode, p) \cup SoftBlockers(table, orders, mode, p)

(* The simple cycles that start at p. *)
Cycles(table, orders, mode, p) ==
  LET Next(s, i) == s[IF i = Len(s) THEN 1 ELSE i + 1]
      OneToOne(s) == \A i, j \in DOMAIN s : i # j => s[i] # s[j]
  IN  {s \in UNION {[1..n -> Procs] : n \in 1..Cardinality(Procs)} :
         /\ s[1] = p
         /\ OneToOne(s)
         /\ \A i \in DOMAIN s : Next(s, i) \in Blockers(table, orders, mode, s[i])}

(* The soft edges of a cycle: orders that would break it. *)
SoftEdges(table, orders, mode, s) ==
  LET next(i) == s[IF i = Len(s) THEN 1 ELSE i + 1]
      soft    == {i \in DOMAIN s : next(i) \in SoftBlockers(table, orders, mode, s[i])}
  IN  {[waiter |-> s[i], blocker |-> next(i)] : i \in soft}

(* TopoSort: the queue with every waiter before its blocker, moving as little *)
(* as possible; the empty order when the constraints contradict each other.    *)
TopoSort(queue, constraints) ==
  LET free(rem) == {i \in DOMAIN rem :
                      \A c \in constraints : c.waiter = rem[i] => ~Contains(rem, c.blocker)}
      Place[rem \in Seq(Procs)] ==
        IF rem = <<>> \/ free(rem) = {} THEN <<>>
        ELSE LET j == Max(free(rem)) IN Append(Place[RemoveAt(rem, j)], rem[j])
      order == Place[queue]
  IN  IF Len(order) = Len(queue) THEN order ELSE <<>>

(* ExpandConstraints: the order of each queue under the constraints. *)
WaitOrders(table, constraints) ==
  [r \in DOMAIN table |->
     TopoSort(table[r].queue,
              {c \in constraints : Contains(table[r].queue, c.waiter)
                                   /\ Contains(table[r].queue, c.blocker)})]

Contradicts(table, orders) == \E r \in DOMAIN table : Len(orders[r]) # Len(table[r].queue)

\* Mutant: a cycle that the order of a queue could break is let be.
TestHardOnly(table, mode, start, constraints) ==
  LET orders == WaitOrders(table, constraints)
      hard   == \E s \in Cycles(table, orders, mode, start) :
                  SoftEdges(table, orders, mode, s) = {}
  IN  [verdict |-> IF hard THEN "bad" ELSE "good", edges |-> {}]

(* TestConfiguration: the soft edges of one cycle, none for a good              *)
(* configuration.  Which cycle is found first depends on the order of lists; any *)
(* will do.                                                                  *)
TestConfiguration(table, mode, start, constraints) ==
  LET orders == WaitOrders(table, constraints)
      starts == {start} \cup UNION {{c.waiter, c.blocker} : c \in constraints}
      cycles == UNION {Cycles(table, orders, mode, p) : p \in starts}
      hard   == \E s \in cycles : SoftEdges(table, orders, mode, s) = {}
  IN  IF Contradicts(table, orders) \/ hard
        THEN [verdict |-> "bad", edges |-> {}]
      ELSE IF cycles = {}
        THEN [verdict |-> "good", edges |-> {}]
      ELSE [verdict |-> "soft",
            edges |-> SoftEdges(table, orders, mode, CHOOSE s \in cycles : TRUE)]

NoSolution == [found |-> FALSE, orders |-> <<>>]

(* DeadLockCheckRecurse: constraints are added one at a time, as many as there *)
(* are processes, until a configuration is good.                             *)
DeadLockCheckRecurse(table, mode, start) ==
  LET Edge == [waiter: Procs, blocker: Procs]
      Try[constraints \in SUBSET Edge] ==
        LET t == TestConfiguration(table, mode, start, constraints) IN
        CASE t.verdict = "good" -> [found |-> TRUE, orders |-> WaitOrders(table, constraints)]
          [] t.verdict = "soft" /\ Cardinality(constraints) < Cardinality(Procs)
               -> LET good == {e \in t.edges \ constraints : Try[constraints \cup {e}].found}
                  IN  IF good = {} THEN NoSolution
                      ELSE Try[constraints \cup {CHOOSE e \in good : TRUE}]
          [] OTHER -> NoSolution
  IN  Try[{}]
==============================================================================
