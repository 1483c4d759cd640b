------------------------------ MODULE ProcList ------------------------------
(***************************************************************************)
(* The intrusive lists of PGPROCs (proclist_head) that the lightweight     *)
(* locks and the condition variables keep, as sequences of backends.  A    *)
(* list is scanned from its head, and the scan may unlink the member it is *)
(* at; what is left, and what was unlinked, keep their order.  Everything  *)
(* here is explicit, without recursion, so that it can be reasoned about.  *)
(***************************************************************************)
EXTENDS Naturals, Sequences, FiniteSets

\* The least member of a nonempty set of numbers.
First(S) == CHOOSE i \in S : \A j \in S : i <= j

\* The ways to enumerate n members of a set of numbers from the least on.
Increasing(n, S) ==
  {g \in [1..n -> S] : \A i, j \in 1..n : i < j => g[i] < g[j]}

Enum(S) == CHOOSE g \in Increasing(Cardinality(S), S) : TRUE

\* The members of list at the places in S, in their order.
Pick(list, S) ==
  LET at == Enum(S) IN [k \in 1..Cardinality(S) |-> list[at[k]]]

proclist_push_head(list, p) == <<p>> \o list
proclist_push_tail(list, p) == Append(list, p)
proclist_delete(list, p)    == Pick(list, {i \in DOMAIN list : list[i] # p})

\* How often q is on a list.
Occurs(q, list) == Cardinality({i \in DOMAIN list : list[i] = q})
=============================================================================
