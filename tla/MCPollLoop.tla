----------------------------- MODULE MCPollLoop -----------------------------
(* Model checking instance of PollLoop. *)
EXTENDS PollLoop, TLC

\* The sockets are interchangeable, and so are the callbacks; symmetry
\* is used in the runs that check no liveness property.
Symmetry == Permutations(Socks) \cup Permutations(Objects) \cup Permutations(Callbacks)

\* The array starts out zeroed: what is stale in it was left by the loop.
CleanSpec ==
    /\ Init
    /\ \A j \in Index : mem[j].revents = {}
    /\ [][Next]_vars
=============================================================================
