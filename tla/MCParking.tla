----------------------------- MODULE MCParking -----------------------------
(* Small instances of Parking for TLC. *)
EXTENDS Parking, TLC

Symmetry == Permutations(Threads) \cup Permutations(Slots) \cup Permutations(Fds)

Server(kind, ops) == [kind |-> kind, ops |-> ops]

\* What the threads of a server call, in combinations small enough for liveness.
AllServers ==
    {Server("plain", {"lock", "post", "set", "wait"}),
     Server("plain", {"lock", "post", "sleep", "kill", "rekey", "exit"}),
     Server("plain", {"lock", "post", "set", "kill", "rekey"}),
     Server("plain", {"set", "wait", "kill"}),
     Server("dropping", {"lock", "post"}),
     Server("dropping", {"set", "wait"}),
     Server("failing", {"set", "wait"})}

\* The servers of the runs that show a divergence.
SpinServers  == {Server("plain", {"set", "wait"})}
ByteServers  == {Server("plain", {"set", "wait", "exit", "kill"})}
ErrorServers == {Server("failing", {"set", "wait"})}
=============================================================================
