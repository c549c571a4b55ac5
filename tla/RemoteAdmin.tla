------------------------------ MODULE RemoteAdmin ------------------------------
(***************************************************************************)
(* The whole: one device running radmcli (RadmClient), the server          *)
(* (RadmServer), and the connections between them.  A step is a callback   *)
(* of one process; what the other one learns of it arrives later, over the *)
(* connection: the name of a new one, the first byte of a customer, the    *)
(* close by the other end.  A connection that is cut (a router between     *)
(* them forgets it) stays open at both ends and carries nothing more.      *)
(*                                                                         *)
(* Bounded by UpsetMax in number, together, are the customers that come,   *)
(* the faults, and the keep-alives that fire before the server has read    *)
(* the name sent 30 seconds earlier.  A customer has one session at a      *)
(* time.  The page and the white list are left out: what they add is in    *)
(* RadmServer.                                                             *)
(***************************************************************************)
EXTENDS RadmServer

CONSTANTS CFds,     \* the descriptors of the client
          Services, \* the local services of the device: RadmClient's IS_RADMIN
          Local,    \* the other end of a connection to a local service
          Id,       \* the name of the device
          UpsetMax  \* bound on customers, faults and late names

ASSUME IdAssumption == Id \in Ids
ASSUME LinksAssumption == Links \subseteq Nat
ASSUME UpsetAssumption == UpsetMax \in Nat

VARIABLES phase, csock, creg, radmc, cfwds, \* the client
          named,  \* the names on their way: <<link, service>>
          fed,    \* the links with a customer's byte on its way to the client
          cut,    \* the links that carry nothing more
          upsets  \* customers, faults and late names so far

server  == vars
client  == <<phase, csock, creg, radmc, cfwds>>
network == <<named, fed, cut>>
allVars == <<server, client, network, upsets>>

C == INSTANCE RadmClient WITH Fds <- CFds, sock <- csock, reg <- creg, fwds <- cfwds

ASSUME ClientAssumption ==
    C!FdsAssumption /\ C!ServicesAssumption /\ C!NilAssumption

-----------------------------------------------------------------------------
(* Connections.                                                            *)

ServerHolds(k) == k \in backlog \/ \E f \in Fds : sock[f] = k

ClientHolds(k) == \E f \in CFds : csock[f] = k

\* A new connection gets the lowest name not in use: names say nothing.
Unused == {k \in Links : ~ServerHolds(k) /\ ~ClientHolds(k)}
NextLink == CHOOSE k \in Unused : \A l \in Unused : k <= l

\* What radmc_reconnect writes, and radmsrv_conn_callback reads.
KindOf(s) == IF s = 1 THEN RADMIN ELSE TELNET

ASSUME ServedAssumption == \A s \in Services : KindOf(s) \in Kinds

\* The network after a step, where n, b and c are the names and bytes on
\* their way and the links cut: what nobody is left to read is gone.
Carries(n, b, c) ==
    /\ named' = {x \in n : ServerHolds(x[1])'}
    /\ fed' = {k \in b : ClientHolds(k)'}
    /\ cut' = {k \in c : ServerHolds(k)' \/ ClientHolds(k)'}

Quiet == Carries(named, fed, cut)

Upset == upsets < UpsetMax /\ upsets' = upsets + 1

AllWell == UNCHANGED upsets

-----------------------------------------------------------------------------
(* The server, which learns from the network.                              *)

ServerStep(step) == step /\ UNCHANGED client /\ Quiet

Accepts(k) == ServerStep(AcceptDevice(k)) /\ AllWell

\* The name, which every connection brings unless it is cut, is read, and the
\* entry takes the connection.
ReadsName(f, s) ==
    /\ <<sock[f], s>> \in named
    /\ sock[f] \notin cut
    /\ Reconnect(f, Id, KindOf(s)) \/ NewClient(f, Id, KindOf(s))
    /\ UNCHANGED client
    /\ Carries(named \ {<<sock[f], s>>}, fed, cut)
    /\ AllWell

\* A customer without a session.
Arrives(f, a) ==
    /\ \A g \in Fds : sock[g] # a /\ a \notin pend[g]
    /\ ServerStep(CustomerConnects(f, a))
    /\ Upset

AcceptsCustomer(c, a) == ServerStep(AcceptCustomer(c, a)) /\ AllWell

\* The customer sends, and the session passes the byte on.
CustomerSends(w) ==
    /\ w \in fwds
    /\ ClientHolds(sock[w.t])
    /\ sock[w.t] \notin cut
    /\ UNCHANGED <<server, client>>
    /\ Carries(named, fed \cup {sock[w.t]}, cut)
    /\ AllWell

\* The customer closes, or the device's end is found closed.
SessionEnds(w) == ServerStep(FwdRelease(w)) /\ AllWell

DeviceLeft(w) == w \in fwds /\ sock[w.t] \notin cut /\ ~ClientHolds(sock[w.t])

Expires(c) == ServerStep(DelTimeout(c)) /\ AllWell

ServerKilled(w) == ServerStep(FwdKills(w)) /\ Upset

Restarts == ServerStep(Restart) /\ AllWell

-----------------------------------------------------------------------------
(* The client.                                                             *)

ClientOnly(step) ==
    step /\ UNCHANGED <<up, sock, reg, pend, conn, clients, cli, fwds, ips, white, stale, ctl>>

\* The service s has a new connection, which the kernel of the server takes,
\* and has sent its name; or there is none, because the server is down, and
\* the client has ended.
Joins(s) ==
    \/ /\ phase' = "none"
       /\ ~up
       /\ UNCHANGED backlog
       /\ Quiet
    \/ /\ phase' # "none"
       /\ up
       /\ LET k == radmc'[s].enc
          IN  /\ Unused # {} /\ k = NextLink
              /\ backlog' = backlog \cup {k}
              /\ Carries(named \cup {<<k, s>>}, fed, cut)

Starts == /\ ClientOnly(C!Start \/ C!AppRun)
          /\ UNCHANGED backlog /\ Quiet /\ AllWell

Creates == /\ ClientOnly(C!Create)
           /\ Joins(C!NextService)
           /\ AllWell

LinkOf(s) == csock[radmc[s].sock]

\* The server has closed; what it sent before is read first.
Loses(s) ==
    /\ radmc[s] # Nil
    /\ ~ServerHolds(LinkOf(s))
    /\ LinkOf(s) \notin cut \cup fed
    /\ ClientOnly(C!Lost(s)) /\ Joins(s)
    /\ AllWell

HandsOver(s) ==
    /\ radmc[s] # Nil
    /\ LinkOf(s) \in fed
    /\ ClientOnly(C!HandOver(s)) /\ Joins(s)
    /\ AllWell

LocalDown(s) ==
    /\ radmc[s] # Nil
    /\ LinkOf(s) \in fed
    /\ ClientOnly(C!LocalFails(s)) /\ Joins(s)
    /\ Upset

\* The name sent with the connection is still on its way, and will arrive.
Early(s) == up /\ <<LinkOf(s), s>> \in named /\ LinkOf(s) \notin cut

KeepsAlive(s) ==
    /\ radmc[s] # Nil
    /\ ClientOnly(C!KeepAlive(s)) /\ Joins(s)
    /\ IF Early(s) THEN Upset ELSE AllWell

ClientSessionEnds(w) ==
    /\ ClientOnly(C!FwdRelease(w))
    /\ UNCHANGED backlog /\ Quiet /\ AllWell

ServerLeft(w) == csock[w.t] \notin cut /\ ~ServerHolds(csock[w.t])

ClientKilled == /\ ClientOnly(C!Killed)
                /\ UNCHANGED backlog /\ Quiet /\ Upset

-----------------------------------------------------------------------------
(* The network, and the whole.                                             *)

Cuts(k) ==
    /\ ClientHolds(k) /\ ServerHolds(k)
    /\ k \notin cut
    /\ UNCHANGED <<server, client>>
    /\ Carries(named, fed, cut \cup {k})
    /\ Upset

RemoteInit ==
    /\ Init /\ C!Init
    /\ named = {} /\ fed = {} /\ cut = {} /\ upsets = 0

ServerNext ==
    \/ \E k \in Links : Accepts(k)
    \/ \E f \in Fds, s \in Services : ReadsName(f, s)
    \/ \E f \in Fds, a \in Ips : Arrives(f, a)
    \/ \E c \in Cli, a \in Ips : AcceptsCustomer(c, a)
    \/ \E w \in fwds : CustomerSends(w) \/ SessionEnds(w) \/ ServerKilled(w)
    \/ \E c \in Cli : Expires(c)
    \/ Restarts

ClientNext ==
    \/ Starts \/ Creates
    \/ \E s \in Services : Loses(s) \/ HandsOver(s) \/ LocalDown(s) \/ KeepsAlive(s)
    \/ \E w \in cfwds : ClientSessionEnds(w)
    \/ ClientKilled

RemoteNext == ServerNext \/ ClientNext \/ \E k \in Links : Cuts(k)

RemoteSpec == RemoteInit /\ [][RemoteNext]_allVars

\* Both main loops call every callback whose event stays (PollLoop), the
\* keep-alive timer goes off (Timers), the supervisor restarts the worker,
\* and the device restarts the client.  Nothing is assumed of customers, of
\* faults, or of sessions whose ends stay.
RemoteFairSpec ==
    /\ RemoteSpec
    /\ \A k \in Links : WF_allVars(Accepts(k))
    /\ \A f \in Fds : /\ WF_allVars(\E s \in Services : ReadsName(f, s))
                      /\ WF_allVars(\E w \in fwds : w.t = f /\ DeviceLeft(w) /\ SessionEnds(w))
    /\ \A f \in CFds :
           WF_allVars(\E w \in cfwds : w.t = f /\ ServerLeft(w) /\ ClientSessionEnds(w))
    /\ WF_allVars(Restarts)
    /\ WF_allVars(Starts)
    /\ WF_allVars(Creates)
    /\ \A s \in Services : /\ WF_allVars(Loses(s))
                           /\ WF_allVars(HandsOver(s))
                           /\ WF_allVars(KeepsAlive(s))

-----------------------------------------------------------------------------
(* Properties.                                                             *)

\* A link offered on the port of a service is the one the client waits on for
\* that same service, or one the client has closed; never one that is in a
\* session of the client, and never that of the other service.
OfferIsWaiting ==
    \A s \in Services :
        LET k == OfferOf(<<Id, KindOf(s)>>)
        IN  k # Nil /\ ClientHolds(k) => s \in C!Created /\ LinkOf(s) = k

\* A session of the client is on a link that the server has joined to a
\* customer or has closed: it is not waiting there for a name or a customer.
SessionsMeet ==
    \A w \in cfwds : ServerHolds(csock[w.t]) => \E v \in fwds : sock[v.t] = csock[w.t]

\* The device can be reached: the client waits on the link the server offers.
Reachable(s) ==
    /\ s \in C!Created
    /\ LinkOf(s) = OfferOf(<<Id, KindOf(s)>>)
    /\ LinkOf(s) \notin cut

\* Whatever is cut, killed, expires or is answered late: once customers and faults
\* cease, each service of the device is offered again.
AlwaysReachableAgain == \A s \in Services : []<>Reachable(s)
=============================================================================
