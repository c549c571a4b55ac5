---------------------------- MODULE MCRadmServer ----------------------------
(* Model checking instances of RadmServer: two parts of an instance that is *)
(* beyond TLC as a whole.                                                   *)
EXTENDS RadmServer, TLC, FiniteSetsExt

\* Connections and memory are interchangeable.
Symmetry == Permutations(Links) \cup Permutations(Cli)

\* An address is a number, and its text that of the number: another one begins
\* with it when its last digits were cut off.
TextBegins == [a \in Ips |-> {b \in Ips : b = a \div 10 \/ b = a \div 100}]

VARIABLE page \* which part a behaviour belongs to

\* Devices with two names and customers, without the page.
SessionNext ==
    \/ \E k \in Links : DeviceConnects(k) \/ AcceptDevice(k)
    \/ \E f \in Fds : ConnError(f) \/ ConnPartial(f)
    \/ \E f \in Fds, id \in Ids : Reconnect(f, id, RADMIN) \/ NewClient(f, id, RADMIN)
    \/ \E c \in Cli : DelTimeout(c)
    \/ Customer
    \/ Restart

Connected == backlog \cup ({sock[f] : f \in Fds} \cap Links)

\* The page and one service of a device; the customer is not on the list of
\* the command line.
Outside == Ips \ InitWhite

PageNext ==
    /\ \/ \E k \in Links : \/ DeviceConnects(k) /\ Cardinality(Connected) < 2
                           \/ AcceptDevice(k)
       \/ \E f \in Fds : ConnError(f)
       \/ \E f \in Fds : Reconnect(f, Min(Ids), RADMIN) \/ NewClient(f, Min(Ids), RADMIN)
       \/ \E f \in Fds, a \in Outside : CustomerConnects(f, a)
       \/ \E c \in Cli, a \in Outside : AcceptCustomer(c, a)
       \/ \E w \in fwds : FwdRelease(w) \/ FwdKills(w)
       \/ \E a \in Outside :
              \/ WebRequest(a, <<>>)
              \/ \E kind \in {RADMIN, RLOGIN} :
                     WebRequest(a, <<[cmd |-> "D", id |-> Min(Ids), kind |-> kind]>>)
              \/ \E list \in {{Max(Ips)}, Ips} : WebRequest(a, <<[cmd |-> "W", list |-> list]>>)
       \/ CtlDelete \/ CtlDeleteEmpty \/ CtlDeleteIgnored \/ CtlAddIp \/ CtlWhite
       \/ \E c \in Cli : DelTimeout(c)
       \/ \E a \in Outside : IpTimeout(a)
       \/ Restart
    /\ sock'[Max(Fds)] = Nil

MCInit == Init /\ page \in BOOLEAN

MCNext == (IF page THEN PageNext ELSE SessionNext) /\ UNCHANGED page

MCSpec == MCInit /\ [][MCNext]_<<vars, page>>
=============================================================================
