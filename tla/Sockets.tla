-------------------------------- MODULE Sockets --------------------------------
(***************************************************************************)
(* utils/net.c: functions which make a socket, or take one, and prepare it *)
(* by system calls that may fail; the question to an echo server for the   *)
(* address of the gateway; and the interface by which a destination is     *)
(* reached.  Of all these the programs of the repository use tcp_bind.     *)
(*                                                                         *)
(* A route is [fits, mask, gw, dev]: whether the destination is in it, the *)
(* length of its mask, its gateway (0 for none), its interface.  The ports *)
(* udp_bind tries when it may choose are one call of bind here.  Not       *)
(* modelled: messages that carry descriptors, tracing the gateway, and the *)
(* addresses of interfaces.                                                *)
(***************************************************************************)
EXTENDS Naturals, Sequences, SequencesExt

CONSTANTS MaxOpen, MaxLost, \* bounds: sockets the program has, and those lost
          Routes            \* the tables of /proc/net/route

\* Gateways are numbers below 99, which stands for the highest address.
Route == [fits : BOOLEAN, mask : Nat, gw : 0..98, dev : STRING]

ASSUME RoutesAssumption == \A rs \in Routes : rs \in Seq(Route)

VARIABLES sockets,  \* sockets made here and not closed
          has,      \* history: those the program was given
          lost,     \* history: calls of tcp_listen that failed behind tcp_bind
          asks,     \* tries of echo_gateway_addr, which are left; 0 when it is not asking
          routes, device \* a table, and what findsaddr found in it

socketsVars == <<sockets, has, lost, asks, routes, device>>

-----------------------------------------------------------------------------

\* The system calls of each function, in their order.
Calls == [tcp_connect |-> <<"setsockopt", "connect">>, tcp_bind |-> <<"setsockopt", "bind">>,
          tcp_listen |-> <<"setsockopt", "bind", "setsockopt", "listen">>,
          udp_connect |-> <<"connect">>, udp_bind |-> <<"setsockopt", "bind", "setsockopt">>,
          unix_listen |-> <<"bind", "listen">>, unix_connect |-> <<"connect">>]

\* Mutant: tcp_bind does not close the socket when it cannot be bound.
BadClosesOnFailure(op, i) == Calls[op][i] # "bind" /\ i <= 2

\* What happens to a socket made here when the i-th call fails: tcp_listen does
\* not close the one it got from tcp_bind.
ClosesOnFailure(op, i) == op # "tcp_listen" \/ i <= 2

SocketsInit == sockets = 0 /\ has = 0 /\ lost = 0 /\ asks = 0 /\ routes = <<>> /\ device = "none"

Opens ==
    /\ has < MaxOpen
    /\ sockets' = sockets + 1 /\ has' = has + 1
    /\ UNCHANGED <<lost, asks, routes, device>>

Fails(op, i) ==
    /\ lost < MaxLost
    /\ sockets' = IF ClosesOnFailure(op, i) THEN sockets ELSE sockets + 1
    /\ lost' = IF op = "tcp_listen" /\ i > 2 THEN lost + 1 ELSE lost
    /\ UNCHANGED <<has, asks, routes, device>>

\* A socket that was given, not made, stays with the program in every case.
ProgramCloses ==
    /\ has > 0 /\ has' = has - 1 /\ sockets' = sockets - 1
    /\ UNCHANGED <<lost, asks, routes, device>>

-----------------------------------------------------------------------------
(* echo_gateway_addr: a socket by udp_bind, eight questions, a quarter of  *)
(* a second each.  The time of the last answer is never stored, so that no *)
(* answer is young enough to be used again.                                *)

Ask ==
    /\ asks = 0 /\ asks' = 8
    /\ sockets' = sockets + 1
    /\ UNCHANGED <<has, lost, routes, device>>

\* Nothing in time, or something else: again.  An error ends the loop, as the
\* answer does.
AskAgain ==
    /\ asks > 0
    /\ asks' \in {asks - 1, 0}
    /\ sockets' = IF asks' = 0 THEN sockets - 1 ELSE sockets
    /\ UNCHANGED <<has, lost, routes, device>>

-----------------------------------------------------------------------------

\* findsaddr: a longer mask wins, but only by a smaller gateway.
FindSAddr(rs) ==
    LET best[i \in 0..Len(rs)] ==
            IF i = 0 THEN [fits |-> FALSE, mask |-> 0, gw |-> 99, dev |-> "none"]
            ELSE LET a == best[i - 1]
                     r == rs[i]
                 IN  IF r.fits /\ (r.mask > a.mask \/ a.mask = 0) /\ r.gw < a.gw THEN r ELSE a
    IN  best[Len(rs)].dev

Select(rs) ==
    /\ sockets = 0 /\ lost = 0 /\ routes = <<>>
    /\ routes' = rs /\ device' = FindSAddr(rs)
    /\ UNCHANGED <<sockets, has, lost, asks>>

SocketsNext ==
    \/ Opens
    \/ \E op \in DOMAIN Calls : \E i \in DOMAIN Calls[op] : Fails(op, i)
    \/ ProgramCloses \/ Ask \/ AskAgain
    \/ \E rs \in Routes : Select(rs)

SocketsSpec == SocketsInit /\ [][SocketsNext]_socketsVars

-----------------------------------------------------------------------------

\* The sockets that are sockets are the program's, the one that asks for the
\* gateway and those tcp_listen has lost; and a destination in a network that
\* is reached without a gateway is reached by its interface, wherever the
\* routes with one, less special than it, stand in the table.
RoutesFound ==
    /\ sockets = has + lost + IF asks > 0 THEN 1 ELSE 0
    /\ \A i \in DOMAIN routes :
           routes[i].fits /\ routes[i].gw = 0
           /\ (\A j \in DOMAIN routes \ {i} : routes[j].fits =>
                   routes[j].gw > 0 /\ routes[j].mask < routes[i].mask)
               => device = routes[i].dev
=============================================================================
