--------------------------- MODULE RemoteAdminProofs ---------------------------
(***************************************************************************)
(* Proofs about RemoteAdmin, for every set of descriptors, connections,    *)
(* names, services and addresses and any number of customers and faults:   *)
(* the whole is a run of the server and a run of the client, what is       *)
(* offered is what the device waits on, and sessions meet.                 *)
(***************************************************************************)
EXTENDS RemoteAdmin, RadmServerProofs

CP == INSTANCE RadmClientProofs WITH Fds <- CFds, sock <- csock, reg <- creg, fwds <- cfwds

-----------------------------------------------------------------------------
(* The invariant.                                                          *)

\* The server has joined link k to a customer.
InSession(k) == \E v \in fwds : sock[v.t] = k

\* The server has not read a name on link k.
Unread(k) == k \in backlog \/ \E f \in Fds : sock[f] = k /\ conn[f] # Nil

\* Entry c is that of service s of the device, and waits on link k.
OfferedOn(c, s, k) == /\ cli[c] # Nil /\ cli[c].r # Nil
                      /\ cli[c].id = Id /\ cli[c].kind = KindOf(s)
                      /\ sock[cli[c].r] = k

\* The client waits for service s on link k.
WaitsOn(s, k) == s \in C!Created /\ LinkOf(s) = k

\* A link has one name on its way, which the server has not read, and the name
\* is that of the service the client waits for there.
Names ==
    /\ named \subseteq Links \X Services
    /\ \A x, y \in named : x[1] = y[1] => x = y
    /\ \A x \in named : Unread(x[1])
    /\ \A x \in named : ClientHolds(x[1]) => WaitsOn(x[2], x[1])

\* So is the service a link is offered for.
OffersFit ==
    \A c \in Cli, s \in Services, k \in Links :
        OfferedOn(c, s, k) /\ ClientHolds(k) => WaitsOn(s, k)

\* A customer's byte is on its way on the link of a session of the server, or
\* of one that has ended: the client may still start a session there.
Bytes ==
    /\ \A k \in fed : k \in Links /\ ClientHolds(k)
    /\ \A k \in fed : ServerHolds(k) => InSession(k)

Met == \A w \in cfwds : ServerHolds(csock[w.t]) => InSession(csock[w.t])

RInv == IInv /\ CP!IInv /\ Names /\ OffersFit /\ Bytes /\ Met

-----------------------------------------------------------------------------
(* The client of RemoteAdmin and the one its proofs are about.             *)

LEMMA ClientAssumed == CP!FdsAssumption /\ CP!ServicesAssumption /\ CP!NilAssumption
  BY ClientAssumption DEF C!FdsAssumption, C!ServicesAssumption, C!NilAssumption, C!RadmcRec,
     CP!FdsAssumption, CP!ServicesAssumption, CP!NilAssumption, CP!RadmcRec

LEMMA SameReconnect ==
    ASSUME NEW s, NEW STATE sk, NEW STATE rg, NEW STATE fw
    PROVE  C!Reconnect(s, sk, rg, fw) <=> CP!Reconnect(s, sk, rg, fw)
  BY DEF C!Reconnect, CP!Reconnect, C!Free, CP!Free, C!Connect, CP!Connect, C!NextFd, CP!NextFd,
     C!Exit, CP!Exit

LEMMA SameStep == C!Next => CP!Next
  <1>1. C!Start => CP!Start
    BY DEF C!Start, CP!Start
  <1>2. C!AppRun => CP!AppRun
    BY DEF C!AppRun, CP!AppRun
  <1>3. C!Create => CP!Create
    BY SameReconnect DEF C!Create, CP!Create, C!NextService, CP!NextService
  <1>4. ASSUME NEW s \in Services
        PROVE  C!Lost(s) => CP!Lost(s)
    BY SameReconnect DEF C!Lost, CP!Lost, C!Waits, CP!Waits,
       C!ResetSock, CP!ResetSock, C!ResetReg, CP!ResetReg
  <1>5. ASSUME NEW s \in Services
        PROVE  C!LocalFails(s) => CP!LocalFails(s)
    BY SameReconnect DEF C!LocalFails, CP!LocalFails, C!Waits, CP!Waits,
       C!ResetSock, CP!ResetSock, C!ResetReg, CP!ResetReg
  <1>6. ASSUME NEW s \in Services
        PROVE  C!HandOver(s) => CP!HandOver(s)
    BY SameReconnect DEF C!HandOver, CP!HandOver, C!Waits, CP!Waits,
       C!Free, CP!Free, C!NextFd, CP!NextFd
  <1>7. ASSUME NEW s \in Services
        PROVE  C!KeepAlive(s) => CP!KeepAlive(s)
    BY SameReconnect DEF C!KeepAlive, CP!KeepAlive,
       C!ResetSock, CP!ResetSock, C!ResetReg, CP!ResetReg
  <1>8. ASSUME NEW w \in cfwds
        PROVE  C!FwdRelease(w) => CP!FwdRelease(w)
    BY DEF C!FwdRelease, CP!FwdRelease
  <1>9. C!Killed => CP!Killed
    BY DEF C!Killed, CP!Killed, C!Exit, CP!Exit
  <1> QED
    BY <1>1, <1>2, <1>3, <1>4, <1>5, <1>6, <1>7, <1>8, <1>9 DEF C!Next, CP!Next

LEMMA SameInit == C!Init => CP!Init
  BY DEF C!Init, CP!Init

LEMMA SameVars == CP!vars = client /\ C!vars = client
  BY DEF CP!vars, C!vars, client

-----------------------------------------------------------------------------
(* The client, by its links.                                               *)

\* Service s waits on the connection of link k.
Waiting(s, k) == radmc[s] # Nil /\ radmc[s].enc = k

ClientView ==
    /\ radmc \in [Services -> C!RadmcRec \cup {Nil}]
    /\ \A u, v \in Services, k \in Links : Waiting(u, k) /\ Waiting(v, k) => u = v
    /\ \A u \in Services, k \in Links : Waiting(u, k) => \A w \in cfwds : w.enc # k
    /\ \A w \in cfwds : csock[w.t] = w.enc /\ w.enc \in Links
    /\ \A u \in Services, k \in Links : WaitsOn(u, k) <=> Waiting(u, k)
    /\ \A k \in Links : ClientHolds(k) <=> \/ \E u \in Services : Waiting(u, k)
                                           \/ \E w \in cfwds : w.enc = k

LEMMA ClientIs == CP!IInv => ClientView
  <1> SUFFICES ASSUME CP!IInv
               PROVE  ClientView
    OBVIOUS
  <1>1. /\ radmc \in [Services -> C!RadmcRec \cup {Nil}]
        /\ C!Created = {s \in Services : radmc[s] # Nil}
    BY DEF CP!IInv, CP!TypeOK, CP!RadmcRec, C!RadmcRec, C!Created
  <1>2. /\ \A s \in C!Created : /\ radmc[s].sock \in CFds /\ radmc[s].enc \in Links
                               /\ csock[radmc[s].sock] = radmc[s].enc
        /\ \A w \in cfwds : /\ w.t \in CFds /\ w.p \in CFds /\ w.enc \in Links
                            /\ csock[w.t] = w.enc /\ csock[w.p] = Local
        /\ \A s, u \in C!Created : radmc[s].sock = radmc[u].sock => s = u
        /\ \A s \in C!Created, w \in cfwds : radmc[s].sock # w.t
        /\ \A f \in CFds : csock[f] # Nil => \/ \E s \in C!Created : radmc[s].sock = f
                                             \/ \E w \in cfwds : w.t = f \/ w.p = f
        /\ \A f, g \in CFds : csock[f] \in Links /\ csock[f] = csock[g] => f = g
    BY DEF CP!IInv, CP!Owned, CP!RadmcRec, CP!FwdRec, C!Created, CP!Created
  <1>3. Nil \notin Links /\ Local \notin Links
    BY ClientAssumption DEF C!NilAssumption
  <1>4. \A u, v \in Services, k \in Links : Waiting(u, k) /\ Waiting(v, k) => u = v
    BY <1>1, <1>2 DEF Waiting
  <1>5. \A u \in Services, k \in Links : Waiting(u, k) => \A w \in cfwds : w.enc # k
    BY <1>1, <1>2 DEF Waiting
  <1>6. \A u \in Services, k \in Links : WaitsOn(u, k) <=> Waiting(u, k)
    BY <1>1, <1>2 DEF Waiting, WaitsOn, LinkOf
  <1>7. \A k \in Links : ClientHolds(k) <=> \/ \E u \in Services : Waiting(u, k)
                                            \/ \E w \in cfwds : w.enc = k
    <2> TAKE k \in Links
    <2>1. ASSUME NEW f \in CFds, csock[f] = k
          PROVE  (\E u \in Services : Waiting(u, k)) \/ \E w \in cfwds : w.enc = k
      BY <1>1, <1>2, <1>3, <2>1 DEF Waiting
    <2>2. ASSUME NEW u \in Services, Waiting(u, k)
          PROVE  \E f \in CFds : csock[f] = k
      BY <1>1, <1>2, <2>2 DEF Waiting
    <2>3. ASSUME NEW w \in cfwds, w.enc = k
          PROVE  \E f \in CFds : csock[f] = k
      BY <1>2, <2>3
    <2> QED
      BY <2>1, <2>2, <2>3 DEF ClientHolds
  <1> QED
    BY <1>1, <1>2, <1>4, <1>5, <1>6, <1>7 DEF ClientView

LEMMA ClientIsNext == CP!IInv' => ClientView'
  BY ClientIs, PTL

\* What a step of the client does with its links: "new" are those it opens,
\* with their services, and "kept" those that change from waiting to a session.
ClientMoves(new, kept) ==
    /\ \A k \in Links : ClientHolds(k)' => ClientHolds(k) \/ \E s \in Services : <<k, s>> \in new
    /\ \A w \in cfwds' : /\ csock'[w.t] \in Links
                         /\ csock'[w.t] \in kept \/ \E v \in cfwds : csock[v.t] = csock'[w.t]
    /\ \A k \in Links, s \in Services : <<k, s>> \in new => WaitsOn(s, k)'
    /\ \A k \in Links, s \in Services :
           WaitsOn(s, k) /\ ClientHolds(k)' => WaitsOn(s, k)' \/ k \in kept

\* radmc_reconnect: service s waits on the new link k, and what it waited on
\* is closed.
LEMMA RenewMoves ==
    ASSUME ClientView, ClientView', NEW s \in Services, NEW k \in Links, ~ClientHolds(k),
           radmc'[s] # Nil, radmc'[s].enc = k,
           \A u \in Services : u # s => radmc'[u] = radmc[u],
           cfwds' = cfwds
    PROVE  ClientMoves({<<k, s>>}, {})
  <1>1. \A u \in Services, l \in Links : u # s => (Waiting(u, l)' <=> Waiting(u, l))
    BY DEF Waiting
  <1>2. \A l \in Links : Waiting(s, l)' <=> l = k
    BY DEF Waiting
  <1>3. \A l \in Links : ClientHolds(l)' => ClientHolds(l) \/ l = k
    BY <1>1, <1>2 DEF ClientView
  <1>4. \A w \in cfwds' : csock'[w.t] \in Links /\ \E v \in cfwds : csock[v.t] = csock'[w.t]
    BY DEF ClientView
  <1>5. WaitsOn(s, k)'
    BY <1>2 DEF ClientView
  <1>6. ASSUME NEW l \in Links, NEW u \in Services, WaitsOn(u, l), ClientHolds(l)'
        PROVE  WaitsOn(u, l)'
    <2>1. l # k /\ Waiting(u, l)
      BY <1>6 DEF ClientView
    <2>2. CASE u # s
      BY <1>1, <2>1, <2>2 DEF ClientView
    <2>3. CASE u = s
      <3>1. ~ \E v \in Services : Waiting(v, l)'
        BY <1>1, <1>2, <2>1, <2>3 DEF ClientView
      <3>2. ~ \E w \in cfwds : w.enc = l
        BY <2>1 DEF ClientView
      <3> QED
        BY <1>6, <3>1, <3>2 DEF ClientView
    <2> QED
      BY <2>2, <2>3
  <1> QED
    BY <1>3, <1>4, <1>5, <1>6 DEF ClientMoves

\* The same, and what it waited on is kept by the session w.
LEMMA HandOverMoves ==
    ASSUME ClientView, ClientView', NEW s \in Services, NEW k \in Links, ~ClientHolds(k),
           radmc'[s] # Nil, radmc'[s].enc = k,
           \A u \in Services : u # s => radmc'[u] = radmc[u],
           NEW w, cfwds' = cfwds \cup {w}, NEW l \in Links, Waiting(s, l), w.enc = l
    PROVE  ClientMoves({<<k, s>>}, {l})
  <1>1. \A u \in Services, m \in Links : u # s => (Waiting(u, m)' <=> Waiting(u, m))
    BY DEF Waiting
  <1>2. \A m \in Links : Waiting(s, m)' <=> m = k
    BY DEF Waiting
  <1>3. \A m \in Links : ClientHolds(m)' => ClientHolds(m) \/ m = k
    BY <1>1, <1>2 DEF ClientView
  <1>4. \A v \in cfwds' : /\ csock'[v.t] \in Links
                          /\ csock'[v.t] \in {l} \/ \E x \in cfwds : csock[x.t] = csock'[v.t]
    BY DEF ClientView
  <1>5. WaitsOn(s, k)'
    BY <1>2 DEF ClientView
  <1>6. ASSUME NEW m \in Links, NEW u \in Services, WaitsOn(u, m), ClientHolds(m)'
        PROVE  WaitsOn(u, m)' \/ m \in {l}
    <2>1. Waiting(u, m)
      BY <1>6 DEF ClientView
    <2>2. CASE u # s
      BY <1>1, <2>1, <2>2 DEF ClientView
    <2>3. CASE u = s
      BY <2>1, <2>3 DEF Waiting
    <2> QED
      BY <2>2, <2>3
  <1> QED
    BY <1>3, <1>4, <1>5, <1>6 DEF ClientMoves

\* The client closes what it closes.
LEMMA CloseMoves ==
    ASSUME ClientView, ClientView', cfwds' \subseteq cfwds,
           \A u \in Services : radmc'[u] = radmc[u] \/ radmc'[u] = Nil
    PROVE  ClientMoves({}, {})
  <1>1. \A u \in Services, k \in Links : Waiting(u, k)' => Waiting(u, k)
    BY DEF Waiting
  <1>2. \A k \in Links : ClientHolds(k)' => ClientHolds(k)
    BY <1>1 DEF ClientView
  <1>3. \A w \in cfwds' : csock'[w.t] \in Links /\ \E v \in cfwds : csock[v.t] = csock'[w.t]
    BY DEF ClientView
  <1>4. ASSUME NEW k \in Links, NEW u \in Services, WaitsOn(u, k), ClientHolds(k)'
        PROVE  WaitsOn(u, k)'
    <2>1. Waiting(u, k)
      BY <1>4 DEF ClientView
    <2>2. ~ \E w \in cfwds' : w.enc = k
      BY <2>1 DEF ClientView
    <2>3. PICK v \in Services : Waiting(v, k)'
      BY <1>4, <2>2 DEF ClientView
    <2>4. v = u
      BY <1>1, <2>1, <2>3 DEF ClientView
    <2> QED
      BY <2>3, <2>4 DEF ClientView
  <1> QED
    BY <1>2, <1>3, <1>4 DEF ClientMoves

-----------------------------------------------------------------------------
(* The server, by its links.                                               *)

\* What one part of the server has of a link, no other has.
ServerView ==
    /\ \A k \in Links : Unread(k) => ServerHolds(k) /\ ~InSession(k)
    /\ \A c \in Cli, s \in Services, k \in Links :
           OfferedOn(c, s, k) => ServerHolds(k) /\ ~InSession(k)

LEMMA ServerIs == IInv => ServerView
  <1> SUFFICES ASSUME IInv
               PROVE  ServerView
    OBVIOUS
  <1>1. /\ \A c \in Cli : cli[c] # Nil => c \in Held(cli) /\ cli[c] \in CliRec
        /\ \A w \in fwds : w.t \in Fds /\ sock[w.t] \in Links /\ conn[w.t] = Nil
        /\ \A f, g \in Fds : sock[f] \in Links /\ sock[f] = sock[g] => f = g
        /\ \A c \in Held(cli), w \in fwds : cli[c].r # w.t
        /\ \A k \in backlog, f \in Fds : sock[f] # k
    BY DEF IInv, Owned, Typed, Ends, Apart, Held, NotOpen, FwdRec
  <1>2. \A k \in Links : Unread(k) => ServerHolds(k) /\ ~InSession(k)
    BY <1>1 DEF Unread, ServerHolds, InSession
  <1>3. \A c \in Cli, s \in Services, k \in Links :
            OfferedOn(c, s, k) => ServerHolds(k) /\ ~InSession(k)
    BY <1>1 DEF OfferedOn, ServerHolds, InSession, CliRec
  <1> QED
    BY <1>2, <1>3 DEF ServerView

\* What a step of the client leaves of the server.
ServerSame == UNCHANGED <<up, sock, reg, pend, conn, clients, cli, fwds, ips, white, stale, ctl>>

\* A step of the client that opens no connection.
LEMMA CloseMeets ==
    ASSUME RInv, ServerSame, UNCHANGED backlog, Quiet, ClientMoves({}, {})
    PROVE  (Names /\ OffersFit /\ Bytes /\ Met)'
  <1>1. \A k : /\ ServerHolds(k)' <=> ServerHolds(k)
               /\ InSession(k)' <=> InSession(k)
               /\ Unread(k)' <=> Unread(k)
               /\ \A c, s : OfferedOn(c, s, k)' <=> OfferedOn(c, s, k)
    BY DEF ServerSame, ServerHolds, InSession, Unread, OfferedOn
  <1>2. \A k \in Links : ClientHolds(k)' => ClientHolds(k)
    BY DEF ClientMoves
  <1>3. \A k \in Links, s \in Services : WaitsOn(s, k) /\ ClientHolds(k)' => WaitsOn(s, k)'
    BY DEF ClientMoves
  <1>4. named' \subseteq named /\ fed' \subseteq fed /\ \A k \in fed' : ClientHolds(k)'
    BY DEF Quiet, Carries
  <1>5. Names'
    <2>1. \A x \in named : x[1] \in Links /\ x[2] \in Services
      BY DEF RInv, Names
    <2> QED
      BY <1>1, <1>2, <1>3, <1>4, <2>1 DEF RInv, Names
  <1>6. OffersFit'
    BY <1>1, <1>2, <1>3 DEF RInv, OffersFit
  <1>7. Bytes'
    BY <1>1, <1>4 DEF RInv, Bytes
  <1>8. Met'
    BY <1>1 DEF RInv, Met, ClientMoves
  <1> QED
    BY <1>5, <1>6, <1>7, <1>8

\* A step of the client that opens a connection for service s, and may keep
\* in a session one on which a byte was on its way.
LEMMA JoinMeets ==
    ASSUME RInv, ServerView, ClientView, ServerSame, NEW s \in Services, NEW k \in Links, NEW kept,
           kept \subseteq fed, k \in Unused, backlog' = backlog \cup {k},
           Carries(named \cup {<<k, s>>}, fed, cut), ClientMoves({<<k, s>>}, kept)
    PROVE  (Names /\ OffersFit /\ Bytes /\ Met)'
  <1>1. \A l : /\ ServerHolds(l)' => ServerHolds(l) \/ l = k
               /\ InSession(l)' <=> InSession(l)
               /\ Unread(l) => Unread(l)'
               /\ \A c, u : OfferedOn(c, u, l)' <=> OfferedOn(c, u, l)
    BY DEF ServerSame, ServerHolds, InSession, Unread, OfferedOn
  <1>2. ~ServerHolds(k) /\ ~ClientHolds(k) /\ Unread(k)'
    BY DEF Unused, Unread
  <1>3. \A l \in Links : ClientHolds(l)' => ClientHolds(l) \/ l = k
    BY DEF ClientMoves
  <1>4. WaitsOn(s, k)'
    BY DEF ClientMoves
  <1>5. \A l \in Links, u \in Services :
            WaitsOn(u, l) /\ ClientHolds(l)' => WaitsOn(u, l)' \/ l \in fed
    BY DEF ClientMoves
  <1>6. /\ named' \subseteq named \cup {<<k, s>>} /\ fed' \subseteq fed
        /\ \A l \in fed' : ClientHolds(l)'
    BY DEF Carries
  <1>7. Names'
    <2>1. \A x \in named : /\ x[1] \in Links /\ x[2] \in Services /\ x = <<x[1], x[2]>>
                           /\ Unread(x[1]) /\ ServerHolds(x[1]) /\ x[1] # k
                           /\ x[1] \notin fed
      BY <1>2 DEF RInv, Names, Bytes, ServerView
    <2>2. named' \subseteq Links \X Services
      BY <1>6 DEF RInv, Names
    <2>3. \A x, y \in named' : x[1] = y[1] => x = y
      BY <1>6, <2>1 DEF RInv, Names
    <2>4. \A x \in named' : Unread(x[1])'
      BY <1>1, <1>2, <1>6, <2>1
    <2>5. \A x \in named' : ClientHolds(x[1])' => WaitsOn(x[2], x[1])'
      <3> SUFFICES ASSUME NEW x \in named', ClientHolds(x[1])'
                   PROVE  WaitsOn(x[2], x[1])'
        OBVIOUS
      <3>1. CASE x = <<k, s>>
        BY <1>4, <3>1
      <3>2. CASE x \in named
        <4>1. ClientHolds(x[1])
          BY <1>3, <2>1, <3>2
        <4>2. WaitsOn(x[2], x[1])
          BY <3>2, <4>1 DEF RInv, Names
        <4> QED
          BY <1>5, <2>1, <3>2, <4>2
      <3> QED
        BY <1>6, <3>1, <3>2
    <2> QED
      BY <2>2, <2>3, <2>4, <2>5 DEF Names
  <1>8. OffersFit'
    <2> SUFFICES ASSUME NEW c \in Cli, NEW u \in Services, NEW l \in Links,
                        OfferedOn(c, u, l)', ClientHolds(l)'
                 PROVE  WaitsOn(u, l)'
      BY DEF OffersFit
    <2>1. OfferedOn(c, u, l) /\ ServerHolds(l) /\ ~InSession(l)
      BY <1>1 DEF ServerView
    <2>2. l # k /\ l \notin fed
      BY <1>2, <2>1 DEF RInv, Bytes
    <2>3. WaitsOn(u, l)
      BY <1>3, <2>1, <2>2 DEF RInv, OffersFit
    <2> QED
      BY <1>5, <2>2, <2>3
  <1>9. Bytes'
    <2>1. \A l \in fed' : l \in Links /\ l # k
      BY <1>2, <1>6 DEF RInv, Bytes
    <2> QED
      BY <1>1, <1>6, <2>1 DEF RInv, Bytes
  <1>10. Met'
    <2> SUFFICES ASSUME NEW w \in cfwds', ServerHolds(csock[w.t])'
                 PROVE  InSession(csock[w.t])'
      BY DEF Met
    <2> DEFINE l == csock'[w.t]
    <2>1. l \in Links /\ (l \in fed \/ \E v \in cfwds : csock[v.t] = l)
      BY DEF ClientMoves
    <2>2. ClientHolds(l)
      BY <2>1 DEF RInv, Bytes, ClientView
    <2>3. ServerHolds(l)
      BY <1>1, <1>2, <2>2
    <2>4. InSession(l)
      BY <2>1, <2>3 DEF RInv, Bytes, Met
    <2> QED
      BY <1>1, <2>4
  <1> QED
    BY <1>7, <1>8, <1>9, <1>10

-----------------------------------------------------------------------------
(* The steps of the client.                                                *)

LEMMA NextLinkIs == ASSUME Unused # {} PROVE NextLink \in Unused
  <1>1. Unused \subseteq Nat
    BY LinksAssumption DEF Unused
  <1>2. \E k \in Unused : \A l \in Unused : k <= l
    BY <1>1, Lowest
  <1> QED
    BY <1>2 DEF NextLink

\* The process has ended.
Ended == /\ \A u \in Services : radmc'[u] = Nil
         /\ cfwds' = {}
         /\ UNCHANGED backlog /\ Quiet

\* Service s has the new link k, which the kernel of the server has taken, and
\* the sessions are fw.
Joined(s, k, fw) == /\ k \in Unused
                    /\ radmc'[s] # Nil /\ radmc'[s].enc = k
                    /\ \A u \in Services : u # s => radmc'[u] = radmc[u]
                    /\ cfwds' = fw
                    /\ backlog' = backlog \cup {k}
                    /\ Carries(named \cup {<<k, s>>}, fed, cut)

\* What radmc_reconnect and the kernel of the server do together.
LEMMA ReconnectJoins ==
    ASSUME NEW s \in Services, NEW STATE sk, NEW STATE rg, NEW STATE fw,
           radmc \in [Services -> C!RadmcRec \cup {Nil}], phase # "none",
           C!Reconnect(s, sk, rg, fw), Joins(s)
    PROVE  Ended \/ \E k \in Links : Joined(s, k, fw)
  <1>1. CASE C!Exit
    <2>1. phase' = "none" /\ radmc' = [u \in Services |-> Nil] /\ cfwds' = {}
      BY <1>1 DEF C!Exit
    <2> QED
      BY <2>1 DEF Joins, Ended
  <1>2. CASE ~C!Exit
    <2>1. PICK k \in Links : /\ \A f \in CFds : sk[f] # k
                             /\ C!Free(sk) # {}
                             /\ C!Connect(s, k, sk, rg)
                             /\ cfwds' = fw
                             /\ phase' = phase
      BY <1>2 DEF C!Reconnect
    <2>2. radmc' = [radmc EXCEPT ![s] = [sock |-> C!NextFd(sk), enc |-> k]]
      BY <2>1 DEF C!Connect
    <2>3. C!NextFd(sk) \in CFds
      <3>1. C!Free(sk) \subseteq CFds /\ CFds \subseteq Nat
        BY ClientAssumption DEF C!Free, C!FdsAssumption
      <3>2. \E f \in C!Free(sk) : \A g \in C!Free(sk) : f <= g
        BY <2>1, <3>1, Lowest
      <3> QED
        BY <3>1, <3>2 DEF C!NextFd
    <2>4. [sock |-> C!NextFd(sk), enc |-> k] \in C!RadmcRec
      BY <2>3 DEF C!RadmcRec
    <2>5. radmc'[s] = [sock |-> C!NextFd(sk), enc |-> k]
      BY <2>2
    <2>6. radmc'[s] # Nil /\ radmc'[s].enc = k
      BY <2>4, <2>5, ClientAssumption DEF C!NilAssumption
    <2>7. \A u \in Services : u # s => radmc'[u] = radmc[u]
      BY <2>2
    <2>8. /\ Unused # {} /\ k = NextLink
          /\ backlog' = backlog \cup {k}
          /\ Carries(named \cup {<<k, s>>}, fed, cut)
      BY <2>1, <2>6 DEF Joins
    <2> QED
      BY <2>1, <2>6, <2>7, <2>8, NextLinkIs DEF Joined
  <1> QED
    BY <1>1, <1>2

\* What is asked of the network and of the sessions.
Network == Names /\ OffersFit /\ Bytes /\ Met

\* A connection is closed, or there is none yet, and service s connects.
LEMMA RenewMeets ==
    ASSUME RInv, CP!IInv', ServerSame, phase # "none",
           NEW s \in Services, NEW STATE sk, NEW STATE rg,
           C!Reconnect(s, sk, rg, cfwds), Joins(s)
    PROVE  Network'
  <1>1. ClientView /\ ClientView' /\ ServerView
    BY ClientIs, ClientIsNext, ServerIs DEF RInv
  <1>2. radmc \in [Services -> C!RadmcRec \cup {Nil}]
    BY <1>1 DEF ClientView
  <1>3. CASE Ended
    <2>1. ClientMoves({}, {})
      BY <1>1, <1>3, CloseMoves DEF Ended
    <2> QED
      BY <1>3, <2>1, CloseMeets DEF Network, Ended
  <1>4. ASSUME NEW k \in Links, Joined(s, k, cfwds)
        PROVE  Network'
    <2>1. ~ClientHolds(k)
      BY <1>4 DEF Unused, Joined
    <2>2. ClientMoves({<<k, s>>}, {})
      BY <1>1, <1>4, <2>1, RenewMoves DEF Joined
    <2> QED
      BY <1>1, <1>4, <2>2, JoinMeets DEF Network, Joined
  <1> QED
    BY <1>2, <1>3, <1>4, ReconnectJoins

\* The service radmcs_create takes next.
LEMMA NextServiceIs == ASSUME NEW u \in Services, radmc[u] = Nil
                       PROVE  C!NextService \in Services
  <1>1. Services \subseteq 0 .. 1
    BY ClientAssumption DEF C!ServicesAssumption
  <1>2. \E s \in Services : radmc[s] = Nil /\ \A v \in Services : radmc[v] = Nil => v <= s
    <2>1. CASE 1 \in Services /\ radmc[1] = Nil
      BY <1>1, <2>1
    <2>2. CASE ~(1 \in Services /\ radmc[1] = Nil)
      <3>1. u = 0 /\ \A v \in Services : radmc[v] = Nil => v = 0
        BY <1>1, <2>2
      <3> QED
        BY <3>1
    <2> QED
      BY <2>1, <2>2
  <1> QED
    BY <1>2 DEF C!NextService

LEMMA CreatesMeets == ASSUME RInv, CP!IInv', Creates
                      PROVE  Network'
  <1>1. C!NextService \in Services
    BY NextServiceIs DEF Creates, ClientOnly, C!Create
  <1>2. /\ C!Reconnect(C!NextService, csock, creg, cfwds) /\ phase # "none"
        /\ Joins(C!NextService) /\ ServerSame
    BY DEF Creates, ClientOnly, C!Create, ServerSame
  <1> QED
    BY <1>1, <1>2, RenewMeets

LEMMA RenewsMeet == ASSUME RInv, CP!IInv', NEW s \in Services,
                           Loses(s) \/ LocalDown(s) \/ KeepsAlive(s)
                    PROVE  Network'
  <1>1. /\ C!Reconnect(s, C!ResetSock(s), C!ResetReg(s), cfwds) /\ phase # "none"
        /\ Joins(s) /\ ServerSame
    BY DEF Loses, LocalDown, KeepsAlive, ClientOnly, C!Lost, C!LocalFails, C!KeepAlive, C!Waits,
       ServerSame
  <1> QED
    BY <1>1, RenewMeets

LEMMA HandsOverMeets == ASSUME RInv, CP!IInv', NEW s \in Services, HandsOver(s)
                        PROVE  Network'
  <1>1. ClientView /\ ClientView' /\ ServerView
    BY ClientIs, ClientIsNext, ServerIs DEF RInv
  <1>2. radmc \in [Services -> C!RadmcRec \cup {Nil}]
    BY <1>1 DEF ClientView
  <1> DEFINE l == LinkOf(s)
             t == radmc[s].sock
             g == C!NextFd(csock)
             w == [t |-> t, p |-> g, enc |-> radmc[s].enc, dec |-> csock[t], serves |-> s]
             rg == (creg \ {<<t, "radmc", s>>}) \cup {<<t, "fwd", t>>, <<g, "fwd", t>>}
             sk == [csock EXCEPT ![g] = Local]
  <1>3. /\ C!Reconnect(s, sk, rg, cfwds \cup {w}) /\ phase # "none"
        /\ Joins(s) /\ ServerSame /\ radmc[s] # Nil /\ l \in fed
    BY DEF HandsOver, ClientOnly, C!HandOver, C!Waits, ServerSame
  <1>4. l \in Links
    BY <1>3 DEF RInv, Bytes
  <1>5. Waiting(s, l) /\ w.enc = l
    <2>1. WaitsOn(s, l)
      BY <1>3 DEF WaitsOn, C!Created
    <2> QED
      BY <1>1, <1>4, <2>1 DEF ClientView, Waiting
  <1> HIDE DEF l, w, rg, sk
  <1>6. CASE Ended
    <2>1. ClientMoves({}, {})
      BY <1>1, <1>6, CloseMoves DEF Ended
    <2> QED
      BY <1>3, <1>6, <2>1, CloseMeets DEF Network, Ended
  <1>7. ASSUME NEW k \in Links, Joined(s, k, cfwds \cup {w})
        PROVE  Network'
    <2>1. ~ClientHolds(k)
      BY <1>7 DEF Unused, Joined
    <2>2. ClientMoves({<<k, s>>}, {l})
      BY <1>1, <1>4, <1>5, <1>7, <2>1, HandOverMoves DEF Joined
    <2> QED
      BY <1>1, <1>3, <1>7, <2>2, JoinMeets DEF Network, Joined
  <1> QED
    BY <1>2, <1>3, <1>6, <1>7, ReconnectJoins

LEMMA ClosesMeet == ASSUME RInv, CP!IInv',
                           Starts \/ ClientKilled \/ \E w \in cfwds : ClientSessionEnds(w)
                    PROVE  Network'
  <1>1. ClientView /\ ClientView'
    BY ClientIs, ClientIsNext DEF RInv
  <1>2. /\ cfwds' \subseteq cfwds
        /\ \A u \in Services : radmc'[u] = radmc[u] \/ radmc'[u] = Nil
    BY DEF Starts, ClientKilled, ClientSessionEnds, ClientOnly, C!Start, C!AppRun, C!Killed, C!Exit,
       C!FwdRelease
  <1>3. ServerSame /\ UNCHANGED backlog /\ Quiet
    BY DEF Starts, ClientKilled, ClientSessionEnds, ClientOnly, ServerSame
  <1> QED
    BY <1>1, <1>2, <1>3, CloseMoves, CloseMeets DEF Network

-----------------------------------------------------------------------------
(* The steps of the server.                                                *)

\* What a step of the server that reads the names "read" does with its links.
Keeps(read) ==
    /\ \A k \in Links : ServerHolds(k)' =>
           /\ ServerHolds(k)
           /\ InSession(k) => InSession(k)'
           /\ Unread(k) => Unread(k)' \/ \E s \in Services : <<k, s>> \in read
    /\ \A c \in Cli, s \in Services, k \in Links :
           OfferedOn(c, s, k)' => OfferedOn(c, s, k) \/ <<k, s>> \in read

LEMMA ServerMeets ==
    ASSUME RInv, NEW read, UNCHANGED client, Keeps(read), read \subseteq named,
           named' \subseteq named \ read, \A x \in named' : ServerHolds(x[1])',
           \A k \in fed' : k \in fed \/ (k \in Links /\ ClientHolds(k) /\ InSession(k))
    PROVE  Network'
  <1>1. \A k : /\ ClientHolds(k)' <=> ClientHolds(k)
               /\ \A s : WaitsOn(s, k)' <=> WaitsOn(s, k)
    BY DEF client, ClientHolds, WaitsOn, LinkOf, C!Created
  <1>2. Names'
    <2>1. \A x \in named : x[1] \in Links /\ x[2] \in Services /\ x = <<x[1], x[2]>>
      BY DEF RInv, Names
    <2>2. \A x \in named' : Unread(x[1])'
      <3> SUFFICES ASSUME NEW x \in named'
                   PROVE  Unread(x[1])'
        OBVIOUS
      <3>1. x \in named /\ x \notin read /\ x[1] \in Links
        BY <2>1
      <3>2. Unread(x[1])
        BY <3>1 DEF RInv, Names
      <3>3. ASSUME NEW s \in Services, <<x[1], s>> \in read
            PROVE  FALSE
        <4>1. <<x[1], s>> = x
          BY <3>1, <3>3 DEF RInv, Names
        <4> QED
          BY <3>1, <3>3, <4>1
      <3> QED
        BY <3>1, <3>2, <3>3 DEF Keeps
    <2> QED
      BY <1>1, <2>1, <2>2 DEF RInv, Names
  <1>3. OffersFit'
    <2> SUFFICES ASSUME NEW c \in Cli, NEW s \in Services, NEW k \in Links,
                        OfferedOn(c, s, k)', ClientHolds(k)
                 PROVE  WaitsOn(s, k)
      BY <1>1 DEF OffersFit
    <2>1. CASE OfferedOn(c, s, k)
      BY <2>1 DEF RInv, OffersFit
    <2>2. CASE <<k, s>> \in read
      BY <2>2 DEF RInv, Names
    <2> QED
      BY <2>1, <2>2 DEF Keeps
  <1>4. Bytes'
    BY <1>1 DEF RInv, Bytes, Keeps
  <1>5. Met'
    <2>1. \A w \in cfwds : csock[w.t] \in Links
      BY ClientIs DEF RInv, ClientView
    <2>2. cfwds' = cfwds /\ csock' = csock
      BY DEF client
    <2> QED
      BY <2>1, <2>2 DEF RInv, Met, Keeps
  <1> QED
    BY <1>2, <1>3, <1>4, <1>5 DEF Network

\* A worker that ends holds nothing.
LEMMA CrashKeeps == Crash => Keeps({})
  <1> SUFFICES ASSUME Crash
               PROVE  Keeps({})
    OBVIOUS
  <1>1. backlog' = {} /\ sock' = Nowhere /\ cli' = [c \in Cli |-> Nil]
    BY DEF Crash, Fresh
  <1>2. Nil \notin Links
    BY NilAssumption DEF Remote
  <1>3. \A k \in Links : ~ServerHolds(k)'
    BY <1>1, <1>2 DEF ServerHolds, Nowhere
  <1>4. \A c \in Cli, s \in Services, k \in Links : ~OfferedOn(c, s, k)'
    BY <1>1 DEF OfferedOn
  <1> QED
    BY <1>3, <1>4 DEF Keeps

\* The server's links stay as they are.
LEMMA SameKeeps == ASSUME UNCHANGED <<backlog, sock, conn, cli, fwds>>
                   PROVE  Keeps({})
  BY DEF Keeps, ServerHolds, InSession, Unread, OfferedOn

LEMMA AcceptKeeps == ASSUME NEW k \in Links, IInv, AcceptDevice(k)
                     PROVE  Keeps({})
  <1>1. CASE Crash
    BY <1>1, CrashKeeps
  <1>2. CASE ~Crash
    <2> DEFINE f == NextFd
               e == [dec |-> k, part |-> 0]
    <2>1. /\ k \in backlog
          /\ FreeFds # {}
          /\ sock' = [sock EXCEPT ![f] = k]
          /\ conn' = [conn EXCEPT ![f] = e]
          /\ backlog' = backlog \ {k}
          /\ cli' = cli /\ fwds' = fwds
      BY <1>2 DEF AcceptDevice
    <2>2. f \in Fds /\ sock[f] = Nil
      BY <2>1, NextIsFree
    <2>3. e \in ConnRec /\ Nil \notin ConnRec
      BY BoundsAssumption, NilAssumption DEF ConnRec
    <2> HIDE DEF f, e
    <2>4. /\ sock \in [Fds -> Remote \cup {Nil}] /\ conn \in [Fds -> ConnRec \cup {Nil}]
          /\ Owned(sock, conn, cli, fwds)
      BY DEF IInv, Owned, Typed
    <2>5. /\ sock'[f] = k /\ conn'[f] # Nil
          /\ \A g \in Fds : g # f => sock'[g] = sock[g] /\ conn'[g] = conn[g]
      BY <2>1, <2>2, <2>3, <2>4
    <2>6. /\ \A w \in fwds : w.t \in Fds /\ w.t # f
          /\ \A c \in Cli : cli[c] # Nil => cli[c].r # f /\ cli[c].r \in Fds \cup {Nil}
      <3>1. /\ \A c \in Held(cli) : cli[c].r # f
            /\ \A w \in fwds : w.t # f
        BY <2>2, <2>4, FreeIsNobodys
      <3>2. \A c \in Cli : cli[c] # Nil => c \in Held(cli) /\ cli[c].r \in Fds \cup {Nil}
        BY <2>4 DEF Held, Owned, Typed, CliRec
      <3>3. \A w \in fwds : w.t \in Fds
        BY <2>4 DEF Owned, Typed, FwdRec
      <3> QED
        BY <3>1, <3>2, <3>3
    <2>7. Nil \notin Links
      BY NilAssumption DEF Remote
    <2>8. \A l \in Links : ServerHolds(l)' => ServerHolds(l)
      BY <2>1, <2>2, <2>5 DEF ServerHolds
    <2>9. \A l \in Links : InSession(l) => InSession(l)'
      BY <2>1, <2>5, <2>6 DEF InSession
    <2>10. \A l \in Links : Unread(l) => Unread(l)'
      BY <2>1, <2>2, <2>5, <2>7 DEF Unread
    <2>11. \A c \in Cli, s \in Services, l \in Links : OfferedOn(c, s, l)' => OfferedOn(c, s, l)
      BY <2>1, <2>5, <2>6 DEF OfferedOn
    <2> QED
      BY <2>8, <2>9, <2>10, <2>11 DEF Keeps
  <1> QED
    BY <1>1, <1>2

\* The entry c of service u takes the connection f, whose name was read.
LEMMA TakeOverKeeps ==
    ASSUME NEW f \in Fds, NEW u \in Services, NEW s, NEW es, NEW c \in Cli, IInv,
           <<f, "conn", f>> \in reg,
           \A g \in Fds : s[g] \in Links => s[g] = sock[g],
           \A g \in Fds : sock[g] \in Links => s[g] = sock[g],
           es \in [Cli -> CliRec \cup {Nil}], es[c] # Nil,
           \A d \in Cli : d # c => es[d] = cli[d],
           es[c].r # Nil => es[c] = cli[c],
           TakeOver(c, f, Id, KindOf(u), s, es)
    PROVE  Keeps({<<sock[f], u>>})
  <1>1. /\ sock \in [Fds -> Remote \cup {Nil}] /\ conn \in [Fds -> ConnRec \cup {Nil}]
        /\ Owned(sock, conn, cli, fwds) /\ conn[f] # Nil
    BY ConnOpen DEF IInv, Owned, Typed
  <1> DEFINE e == [id |-> Id, kind |-> KindOf(u), l |-> es[c].l, r |-> f, dec |-> conn[f].dec]
  <1>2. /\ \A g \in Fds : sock'[g] = IF g = es[c].r THEN Nil ELSE s[g]
        /\ \A d \in Cli : d # c => cli'[d] = cli[d]
        /\ cli'[c] = e
        /\ \A g \in Fds : g # f => conn'[g] = conn[g]
        /\ backlog' = backlog /\ fwds' = fwds
    BY <1>1 DEF TakeOver
  <1>3. e.id = Id /\ e.kind = KindOf(u) /\ e.r = f
    OBVIOUS
  <1> HIDE DEF e
  <1>4. Nil \notin Links /\ Nil \notin Fds
    BY NilAssumption DEF Remote
  <1>5. es[c].r # Nil => c \in Held(cli) /\ cli[c].r = es[c].r
    BY DEF Held
  <1>6. /\ \A w \in fwds : w.t \in Fds /\ sock[w.t] \in Links /\ w.t # es[c].r
        /\ \A g \in Fds : conn[g] # Nil => g # es[c].r
        /\ \A d \in Cli : d # c /\ cli[d] # Nil /\ cli[d].r # Nil =>
               cli[d].r \in Fds /\ cli[d].r # es[c].r
    BY <1>1, <1>4, <1>5 DEF Owned, Typed, Ends, Apart, Held, FwdRec, CliRec
  <1>7. sock[f] \in Links
    BY <1>1 DEF Owned, Ends
  <1>8. \A k \in Links : ServerHolds(k)' => ServerHolds(k)
    BY <1>2, <1>4 DEF ServerHolds
  <1>9. \A k \in Links : InSession(k) => InSession(k)'
    BY <1>2, <1>6 DEF InSession
  <1>10. \A k \in Links : ServerHolds(k)' /\ Unread(k) => Unread(k)' \/ k = sock[f]
    BY <1>2, <1>6 DEF Unread
  <1>11. \A d \in Cli, v \in Services, k \in Links :
             OfferedOn(d, v, k)' => OfferedOn(d, v, k) \/ <<k, v>> = <<sock[f], u>>
    <2> SUFFICES ASSUME NEW d \in Cli, NEW v \in Services, NEW k \in Links, OfferedOn(d, v, k)'
                 PROVE  OfferedOn(d, v, k) \/ <<k, v>> = <<sock[f], u>>
      OBVIOUS
    <2>1. CASE d = c
      <3>1. v = u
        <4>1. KindOf(v) = KindOf(u)
          BY <1>2, <1>3, <2>1 DEF OfferedOn
        <4>2. Services \subseteq 0 .. 1
          BY ClientAssumption DEF C!ServicesAssumption
        <4> QED
          BY <4>1, <4>2 DEF KindOf, RADMIN, TELNET
      <3>2. sock'[f] = k
        BY <1>2, <1>3, <2>1 DEF OfferedOn
      <3>3. sock[f] = k
        BY <1>2, <1>4, <3>2
      <3> QED
        BY <3>1, <3>3
    <2>2. CASE d # c
      <3>1. cli[d] # Nil /\ cli[d].r # Nil /\ cli[d].id = Id /\ cli[d].kind = KindOf(v)
        BY <1>2, <2>2 DEF OfferedOn
      <3>2. sock'[cli[d].r] = k
        BY <1>2, <2>2 DEF OfferedOn
      <3>3. sock[cli[d].r] = k
        BY <1>2, <1>4, <1>6, <2>2, <3>1, <3>2
      <3> QED
        BY <3>1, <3>3 DEF OfferedOn
    <2> QED
      BY <2>1, <2>2
  <1> QED
    BY <1>8, <1>9, <1>10, <1>11 DEF Keeps

LEMMA ReconnectKeeps ==
    ASSUME NEW f \in Fds, NEW u \in Services, IInv, Reconnect(f, Id, KindOf(u))
    PROVE  Keeps({<<sock[f], u>>})
  <1> DEFINE c == Find(Id, KindOf(u))
  <1>1. /\ c \in Held(cli) /\ <<f, "conn", f>> \in reg
        /\ TakeOver(c, f, Id, KindOf(u), sock, cli)
    BY Finds DEF Reconnect, IInv
  <1> HIDE DEF c
  <1>2. cli \in [Cli -> CliRec \cup {Nil}] /\ c \in Cli /\ cli[c] # Nil
    BY <1>1 DEF IInv, Owned, Typed, Held
  <1> QED
    BY <1>1, <1>2, TakeOverKeeps

LEMMA NewClientKeeps ==
    ASSUME NEW f \in Fds, NEW u \in Services, IInv, NewClient(f, Id, KindOf(u))
    PROVE  Keeps({<<sock[f], u>>})
  <1>1. CASE Crash
    BY <1>1, CrashKeeps DEF Keeps
  <1>2. CASE ~Crash
    <2> DEFINE g == NextFd
               s == [sock EXCEPT ![g] = Listen]
    <2>1. PICK c \in Cli \ Listed :
              TakeOver(c, f, Id, KindOf(u), s,
                       [cli EXCEPT ![c] = [id |-> Id, kind |-> KindOf(u), l |-> g,
                                           r |-> Nil, dec |-> Nil]])
      BY <1>2 DEF NewClient
    <2> DEFINE e == [id |-> Id, kind |-> KindOf(u), l |-> g, r |-> Nil, dec |-> Nil]
               es == [cli EXCEPT ![c] = e]
    <2>2. g \in Fds /\ sock[g] = Nil /\ <<f, "conn", f>> \in reg
      BY <1>2, NextIsFree DEF NewClient
    <2>3. /\ sock \in [Fds -> Remote \cup {Nil}] /\ cli \in [Cli -> CliRec \cup {Nil}]
      BY DEF IInv, Owned, Typed
    <2>4. e \in CliRec /\ e.r = Nil /\ e # Nil
      BY <2>2, IdAssumption, ServedAssumption, NilAssumption DEF CliRec
    <2>5. TakeOver(c, f, Id, KindOf(u), s, es)
      BY <2>1
    <2> HIDE DEF g, e
    <2>6. /\ s[g] = Listen /\ \A h \in Fds : h # g => s[h] = sock[h]
          /\ es \in [Cli -> CliRec \cup {Nil}]
          /\ es[c] = e /\ \A d \in Cli : d # c => es[d] = cli[d]
      BY <2>2, <2>3, <2>4
    <2>7. Nil \notin Links /\ Listen \notin Links
      BY NilAssumption, EndsAssumption DEF Remote
    <2> HIDE DEF s, es
    <2>8. /\ \A h \in Fds : s[h] \in Links => s[h] = sock[h]
          /\ \A h \in Fds : sock[h] \in Links => s[h] = sock[h]
      BY <2>2, <2>6, <2>7
    <2> QED
      BY <2>2, <2>4, <2>5, <2>6, <2>8, TakeOverKeeps
  <1> QED
    BY <1>1, <1>2

LEMMA AcceptCustomerKeeps ==
    ASSUME NEW c \in Cli, NEW a \in Ips, IInv, AcceptCustomer(c, a)
    PROVE  Keeps({})
  <1>1. CASE Crash
    BY <1>1, CrashKeeps
  <1>2. CASE ~Crash
    <2>1. /\ cli[c] # Nil /\ <<cli[c].l, "cli", c>> \in reg /\ FreeFds # {}
          /\ backlog' = backlog /\ conn' = conn
      BY <1>2 DEF AcceptCustomer
    <2>2. CASE Forwarded(c, a, NextFd)
      <3> DEFINE g == NextFd
      <3>1. g \in Fds /\ sock[g] = Nil
        BY <2>1, NextIsFree
      <3>2. /\ sock \in [Fds -> Remote \cup {Nil}] /\ cli \in [Cli -> CliRec \cup {Nil}]
            /\ Owned(sock, conn, cli, fwds)
        BY DEF IInv, Owned, Typed
      <3>3. /\ sock' = [sock EXCEPT ![g] = a]
            /\ fwds \subseteq fwds'
            /\ cli' = [cli EXCEPT ![c].r = Nil, ![c].dec = Nil]
        BY <2>2 DEF Forwarded
      <3> HIDE DEF g
      <3>4. /\ sock'[g] = a /\ \A f \in Fds : f # g => sock'[f] = sock[f]
            /\ \A d \in Cli : d # c => cli'[d] = cli[d]
        BY <3>1, <3>2, <3>3
      <3>5. cli'[c].r = Nil
        <4>1. cli[c] \in CliRec
          BY <2>1, <3>2
        <4>2. cli'[c] = [cli[c] EXCEPT !.r = Nil, !.dec = Nil]
          BY <3>2, <3>3
        <4> QED
          BY <4>1, <4>2 DEF CliRec
      <3>6. /\ Nil \notin Links /\ a \notin Links
        BY NilAssumption, EndsAssumption DEF Remote
      <3>7. /\ \A w \in fwds : w.t \in Fds /\ w.t # g
            /\ \A f \in Fds : conn[f] # Nil => f # g
            /\ \A d \in Cli : cli[d] # Nil /\ cli[d].r # Nil => cli[d].r # g /\ cli[d].r \in Fds
        <4>1. /\ \A d \in Held(cli) : cli[d].r # g
              /\ \A w \in fwds : w.t # g
              /\ conn[g] = Nil
          BY <3>1, <3>2, FreeIsNobodys
        <4> QED
          BY <3>2, <4>1 DEF Owned, Typed, FwdRec, CliRec, Held
      <3>8. \A k \in Links : ServerHolds(k)' => ServerHolds(k)
        BY <2>1, <3>4, <3>6 DEF ServerHolds
      <3>9. \A k \in Links : InSession(k) => InSession(k)'
        BY <3>3, <3>4, <3>7 DEF InSession
      <3>10. \A k \in Links : Unread(k) => Unread(k)'
        BY <2>1, <3>4, <3>7 DEF Unread
      <3>11. \A d \in Cli, s \in Services, k \in Links : OfferedOn(d, s, k)' => OfferedOn(d, s, k)
        BY <3>4, <3>5, <3>7 DEF OfferedOn
      <3> QED
        BY <3>8, <3>9, <3>10, <3>11 DEF Keeps
    <2>3. CASE UNCHANGED <<sock, fwds, cli, reg>>
      BY <2>1, <2>3, SameKeeps
    <2> QED
      BY <1>2, <2>2, <2>3 DEF AcceptCustomer
  <1> QED
    BY <1>1, <1>2

LEMMA FwdReleaseKeeps == ASSUME NEW w \in fwds, IInv, FwdRelease(w)
                         PROVE  Keeps({})
  <1>1. /\ sock \in [Fds -> Remote \cup {Nil}] /\ fwds \subseteq FwdRec
        /\ Owned(sock, conn, cli, fwds)
    BY DEF IInv, Owned, Typed
  <1>2. w.t \in Fds /\ w.p \in Fds /\ sock[w.t] \in Links /\ sock[w.p] \in Ips
    BY <1>1 DEF FwdRec, Owned, Ends
  <1>3. /\ \A f \in Fds : sock'[f] = IF f = w.t \/ f = w.p THEN Nil ELSE sock[f]
        /\ fwds' = fwds \ {w} /\ backlog' = backlog /\ conn' = conn /\ cli' = cli
    BY <1>1, <1>2 DEF FwdRelease
  <1>4. Nil \notin Links /\ Links \cap Ips = {}
    BY NilAssumption, EndsAssumption DEF Remote
  <1>5. /\ \A f, g \in Fds : sock[f] \in Links /\ sock[f] = sock[g] => f = g
        /\ \A f \in Fds : conn[f] # Nil => sock[f] \in Links /\ f # w.t
        /\ \A d \in Cli : cli[d] # Nil /\ cli[d].r # Nil => cli[d].r \in Fds
        /\ \A v \in fwds : v.t \in Fds /\ sock[v.t] \in Links
        /\ \A k \in backlog, f \in Fds : sock[f] # k
    BY <1>1 DEF Owned, Typed, Ends, Held, CliRec, FwdRec, IInv, NotOpen
  <1>6. \A k \in Links : ServerHolds(k)' => ServerHolds(k) /\ k # sock[w.t]
    <2> SUFFICES ASSUME NEW k \in Links, ServerHolds(k)'
                 PROVE  ServerHolds(k) /\ k # sock[w.t]
      OBVIOUS
    <2>1. CASE k \in backlog
      BY <1>2, <1>5, <2>1 DEF ServerHolds
    <2>2. CASE \E f \in Fds : sock'[f] = k
      <3>1. PICK f \in Fds : sock'[f] = k
        BY <2>2
      <3>2. sock[f] = k /\ f # w.t
        BY <1>3, <1>4, <3>1
      <3> QED
        BY <1>2, <1>5, <3>2 DEF ServerHolds
    <2> QED
      BY <1>3, <2>1, <2>2 DEF ServerHolds
  <1>7. \A k \in Links : ServerHolds(k)' /\ InSession(k) => InSession(k)'
    <2> SUFFICES ASSUME NEW k \in Links, ServerHolds(k)', NEW v \in fwds, sock[v.t] = k
                 PROVE  InSession(k)'
      BY DEF InSession
    <2>1. v # w /\ v.t # w.t
      BY <1>6
    <2>2. v.t # w.p
      BY <1>2, <1>4
    <2> QED
      BY <1>3, <1>5, <2>1, <2>2 DEF InSession
  <1>8. \A k \in Links : Unread(k) => Unread(k)'
    <2>1. \A f \in Fds : conn[f] # Nil => sock'[f] = sock[f]
      BY <1>2, <1>3, <1>4, <1>5
    <2> QED
      BY <1>3, <2>1 DEF Unread
  <1>9. \A d \in Cli, s \in Services, k \in Links : OfferedOn(d, s, k)' => OfferedOn(d, s, k)
    BY <1>3, <1>4, <1>5 DEF OfferedOn
  <1> QED
    BY <1>6, <1>7, <1>8, <1>9 DEF Keeps

LEMMA ExpiresKeeps == ASSUME NEW d \in Cli, IInv, DelTimeout(d)
                      PROVE  Keeps({})
  <1> DEFINE c == Find(cli[d].id, cli[d].kind)
  <1>1. CASE c = Nil
    BY <1>1, SameKeeps DEF DelTimeout, Delete
  <1>2. CASE c # Nil
    <2>1. /\ c \in Held(cli) /\ Release(c) /\ backlog' = backlog /\ conn' = conn /\ fwds' = fwds
      BY <1>2, Finds DEF DelTimeout, Delete, IInv
    <2> HIDE DEF c
    <2>2. /\ sock \in [Fds -> Remote \cup {Nil}] /\ cli \in [Cli -> CliRec \cup {Nil}]
          /\ Owned(sock, conn, cli, fwds)
      BY DEF IInv, Owned, Typed
    <2>3. c \in Cli
      BY <2>1 DEF Held
    <2>4. /\ \A f \in Fds : sock'[f] = IF f \in {cli[c].l, cli[c].r} THEN Nil ELSE sock[f]
          /\ cli'[c] = Nil /\ \A e \in Cli : e # c => cli'[e] = cli[e]
      BY <2>1, <2>2, <2>3 DEF Release
    <2>5. Nil \notin Links /\ Nil \notin Fds /\ Listen \notin Links
      BY NilAssumption, EndsAssumption DEF Remote
    <2>6. /\ sock[cli[c].l] = Listen
          /\ \A w \in fwds : w.t \in Fds /\ sock[w.t] \in Links /\ w.t # cli[c].r
          /\ \A f \in Fds : conn[f] # Nil => sock[f] \in Links /\ f # cli[c].r
          /\ \A e \in Cli : e # c /\ cli[e] # Nil /\ cli[e].r # Nil => cli[e].r \in Fds
      BY <2>1, <2>2, <2>5 DEF Owned, Typed, Ends, Apart, Held, CliRec, FwdRec
    <2>7. \A k \in Links : ServerHolds(k)' => ServerHolds(k)
      BY <2>1, <2>4, <2>5 DEF ServerHolds
    <2>8. \A k \in Links : InSession(k) => InSession(k)'
      BY <2>1, <2>4, <2>5, <2>6 DEF InSession
    <2>9. \A k \in Links : Unread(k) => Unread(k)'
      <3>1. \A f \in Fds : conn[f] # Nil => sock'[f] = sock[f]
        BY <2>4, <2>5, <2>6
      <3> QED
        BY <2>1, <3>1 DEF Unread
    <2>10. \A e \in Cli, s \in Services, k \in Links : OfferedOn(e, s, k)' => OfferedOn(e, s, k)
      BY <2>4, <2>5, <2>6 DEF OfferedOn
    <2> QED
      BY <2>7, <2>8, <2>9, <2>10 DEF Keeps
  <1> QED
    BY <1>1, <1>2

-----------------------------------------------------------------------------
(* The whole.                                                              *)

\* What the two processes hold at the start.
LEMMA RemoteInitInv == RemoteInit => RInv
  <1> SUFFICES ASSUME RemoteInit
               PROVE  RInv
    OBVIOUS
  <1>1. IInv
    BY InitInv DEF RemoteInit
  <1>2. CP!IInv
    BY CP!InitInv, ClientAssumed, SameInit DEF RemoteInit
  <1>3. named = {} /\ fed = {} /\ cfwds = {} /\ cli = [c \in Cli |-> Nil]
    BY DEF RemoteInit, Init, C!Init
  <1> QED
    BY <1>1, <1>2, <1>3 DEF RInv, Names, OffersFit, OfferedOn, Bytes, Met

\* A new connection of the device is one of the server's DeviceConnects.
LEMMA JoinsConnects ==
    ASSUME IInv, ServerSame, NEW s \in Services, Joins(s)
    PROVE  UNCHANGED vars \/ \E k \in Links : DeviceConnects(k)
  <1>1. CASE UNCHANGED backlog
    BY <1>1 DEF ServerSame, vars
  <1>2. CASE ~UNCHANGED backlog
    <2>1. up /\ Unused # {} /\ backlog' = backlog \cup {NextLink}
      BY <1>2 DEF Joins
    <2>2. NextLink \in Links /\ ~ServerHolds(NextLink)
      BY <2>1, NextLinkIs DEF Unused
    <2>3. \A l \in Streams : l = Nil \/ \E f \in Fds : sock[f] = l
      <3>1. /\ \A f \in Fds : conn[f] # Nil => conn[f].dec = sock[f]
            /\ \A c \in Listed : cli[c].dec = Nil \/ (cli[c].r \in Fds /\ cli[c].dec = sock[cli[c].r])
            /\ \A w \in fwds : w.t \in Fds /\ w.dec = sock[w.t]
        BY ListedHeld DEF IInv, Owned, Typed, Ends, Held, CliRec, FwdRec
      <3> QED
        BY <3>1 DEF Streams
    <2>4. NextLink \notin Streams
      BY <2>2, <2>3, NilAssumption DEF ServerHolds, Remote
    <2>5. DeviceConnects(NextLink)
      BY <2>1, <2>2, <2>4 DEF DeviceConnects, ServerHolds, ServerSame
    <2> QED
      BY <2>2, <2>5
  <1> QED
    BY <1>1, <1>2

LEMMA ServerNextIs == ASSUME IInv, ServerNext
                      PROVE  [Next]_vars /\ UNCHANGED client
  <1>1. ASSUME NEW k \in Links, Accepts(k)
        PROVE  Next /\ UNCHANGED client
    BY <1>1 DEF Accepts, ServerStep, Next, Device
  <1>2. ASSUME NEW f \in Fds, NEW s \in Services, ReadsName(f, s)
        PROVE  Next /\ UNCHANGED client
    BY <1>2, IdAssumption, ServedAssumption DEF ReadsName, Next, Device
  <1>3. ASSUME NEW f \in Fds, NEW a \in Ips, Arrives(f, a)
        PROVE  Next /\ UNCHANGED client
    BY <1>3 DEF Arrives, ServerStep, Next, Customer
  <1>4. ASSUME NEW c \in Cli, NEW a \in Ips, AcceptsCustomer(c, a)
        PROVE  Next /\ UNCHANGED client
    BY <1>4 DEF AcceptsCustomer, ServerStep, Next, Customer
  <1>5. ASSUME NEW w \in fwds, CustomerSends(w)
        PROVE  UNCHANGED vars /\ UNCHANGED client
    BY <1>5 DEF CustomerSends, server
  <1>6. ASSUME NEW w \in fwds, SessionEnds(w) \/ ServerKilled(w)
        PROVE  Next /\ UNCHANGED client
    BY <1>6 DEF SessionEnds, ServerKilled, ServerStep, Next, Customer
  <1>7. ASSUME NEW c \in Cli, Expires(c)
        PROVE  Next /\ UNCHANGED client
    BY <1>7 DEF Expires, ServerStep, Next, Control
  <1>8. ASSUME Restarts
        PROVE  Next /\ UNCHANGED client
    BY <1>8 DEF Restarts, ServerStep, Next
  <1> QED
    BY <1>1, <1>2, <1>3, <1>4, <1>5, <1>6, <1>7, <1>8 DEF ServerNext

LEMMA ClientNextIs == ASSUME IInv, ClientNext
                      PROVE  [Next]_vars /\ C!Next
  <1>1. ASSUME Starts
        PROVE  UNCHANGED vars /\ C!Next
    BY <1>1 DEF Starts, ClientOnly, vars, C!Next
  <1>2. ASSUME Creates
        PROVE  [Next]_vars /\ C!Next
    <2>1. C!NextService \in Services
      BY <1>2, NextServiceIs DEF Creates, ClientOnly, C!Create
    <2>2. Joins(C!NextService) /\ ServerSame /\ C!Next
      BY <1>2 DEF Creates, ClientOnly, ServerSame, C!Next
    <2> QED
      BY <2>1, <2>2, JoinsConnects DEF Next, Device
  <1>3. ASSUME NEW s \in Services, Loses(s) \/ HandsOver(s) \/ LocalDown(s) \/ KeepsAlive(s)
        PROVE  [Next]_vars /\ C!Next
    <2>1. Joins(s) /\ ServerSame
      BY <1>3 DEF Loses, HandsOver, LocalDown, KeepsAlive, ClientOnly, ServerSame
    <2>2. C!Next
      BY <1>3 DEF Loses, HandsOver, LocalDown, KeepsAlive, ClientOnly, C!Next
    <2> QED
      BY <2>1, <2>2, JoinsConnects DEF Next, Device
  <1>4. ASSUME NEW w \in cfwds, ClientSessionEnds(w)
        PROVE  UNCHANGED vars /\ C!Next
    BY <1>4 DEF ClientSessionEnds, ClientOnly, vars, C!Next
  <1>5. ASSUME ClientKilled
        PROVE  UNCHANGED vars /\ C!Next
    BY <1>5 DEF ClientKilled, ClientOnly, vars, C!Next
  <1> QED
    BY <1>1, <1>2, <1>3, <1>4, <1>5 DEF ClientNext

\* A step of the whole is a step of the server, of the client, or of both: a
\* new connection.
LEMMA StepsAre == IInv /\ [RemoteNext]_allVars => [Next]_vars /\ [C!Next]_(C!vars)
  <1> SUFFICES ASSUME IInv, [RemoteNext]_allVars
               PROVE  [Next]_vars /\ [C!Next]_(C!vars)
    OBVIOUS
  <1>1. CASE ServerNext
    BY <1>1, ServerNextIs DEF client, C!vars
  <1>2. CASE ClientNext
    BY <1>2, ClientNextIs
  <1>3. CASE (\E k \in Links : Cuts(k)) \/ UNCHANGED allVars
    BY <1>3 DEF Cuts, allVars, server, client, C!vars
  <1> QED
    BY <1>1, <1>2, <1>3 DEF RemoteNext

\* A step of the server.
LEMMA ServerNextMeets == ASSUME RInv, ServerNext
                         PROVE  Network'
  <1>1. IInv /\ UNCHANGED client
    BY ServerNextIs DEF RInv
  <1>2. ASSUME Keeps({}), Quiet
        PROVE  Network'
    BY <1>1, <1>2, ServerMeets DEF Quiet, Carries
  <1>3. ASSUME NEW k \in Links, Accepts(k)
        PROVE  Network'
    BY <1>1, <1>2, <1>3, AcceptKeeps DEF Accepts, ServerStep
  <1>4. ASSUME NEW f \in Fds, NEW s \in Services, ReadsName(f, s)
        PROVE  Network'
    <2>1. Keeps({<<sock[f], s>>})
      BY <1>1, <1>4, ReconnectKeeps, NewClientKeeps DEF ReadsName
    <2>2. /\ {<<sock[f], s>>} \subseteq named
          /\ named' \subseteq named \ {<<sock[f], s>>}
          /\ \A x \in named' : ServerHolds(x[1])'
          /\ fed' \subseteq fed
      BY <1>4 DEF ReadsName, Carries
    <2> QED
      BY <1>1, <2>1, <2>2, ServerMeets
  <1>5. ASSUME NEW f \in Fds, NEW a \in Ips, Arrives(f, a)
        PROVE  Network'
    BY <1>2, <1>5, SameKeeps DEF Arrives, ServerStep, CustomerConnects
  <1>6. ASSUME NEW c \in Cli, NEW a \in Ips, AcceptsCustomer(c, a)
        PROVE  Network'
    BY <1>1, <1>2, <1>6, AcceptCustomerKeeps DEF AcceptsCustomer, ServerStep
  <1>7. ASSUME NEW w \in fwds, CustomerSends(w)
        PROVE  Network'
    <2>1. Keeps({})
      BY <1>7, SameKeeps DEF CustomerSends, server, vars
    <2>2. /\ named' \subseteq named \ {}
          /\ \A x \in named' : ServerHolds(x[1])'
          /\ fed' \subseteq fed \cup {sock[w.t]}
      BY <1>7 DEF CustomerSends, Carries
    <2>3. sock[w.t] \in Links /\ ClientHolds(sock[w.t]) /\ InSession(sock[w.t])
      BY <1>1, <1>7 DEF CustomerSends, InSession, IInv, Owned, Ends
    <2> QED
      BY <1>1, <2>1, <2>2, <2>3, ServerMeets
  <1>8. ASSUME NEW w \in fwds, SessionEnds(w)
        PROVE  Network'
    BY <1>1, <1>2, <1>8, FwdReleaseKeeps DEF SessionEnds, ServerStep
  <1>9. ASSUME NEW w \in fwds, ServerKilled(w)
        PROVE  Network'
    BY <1>2, <1>9, CrashKeeps DEF ServerKilled, ServerStep, FwdKills
  <1>10. ASSUME NEW c \in Cli, Expires(c)
         PROVE  Network'
    BY <1>1, <1>2, <1>10, ExpiresKeeps DEF Expires, ServerStep
  <1>11. ASSUME Restarts
         PROVE  Network'
    BY <1>2, <1>11, SameKeeps DEF Restarts, ServerStep, Restart
  <1> QED
    BY <1>3, <1>4, <1>5, <1>6, <1>7, <1>8, <1>9, <1>10, <1>11 DEF ServerNext

LEMMA RemoteNextInv == RInv /\ [RemoteNext]_allVars => RInv'
  <1> SUFFICES ASSUME RInv, [RemoteNext]_allVars
               PROVE  RInv'
    OBVIOUS
  <1>1. [Next]_vars /\ [C!Next]_(C!vars)
    BY StepsAre DEF RInv
  <1>2. IInv'
    BY <1>1, NextInv DEF RInv
  <1>3. CP!IInv'
    <2>1. [CP!Next]_(CP!vars)
      BY <1>1, SameStep DEF C!vars, CP!vars
    <2> QED
      BY <2>1, CP!Inductive, ClientAssumed DEF RInv
  <1>4. Network'
    <2>1. CASE ServerNext
      BY <2>1, ServerNextMeets
    <2>2. CASE ClientNext
      BY <1>3, <2>2, CreatesMeets, RenewsMeet, HandsOverMeets, ClosesMeet DEF ClientNext
    <2>3. CASE (\E k \in Links : Cuts(k)) \/ UNCHANGED allVars
      <3>1. UNCHANGED vars /\ UNCHANGED client /\ named' \subseteq named /\ fed' \subseteq fed
        BY <2>3 DEF Cuts, Carries, allVars, server, network
      <3>2. Keeps({})
        BY <3>1, SameKeeps DEF vars
      <3>3. \A x \in named' : ServerHolds(x[1])'
        <4>1. \A x \in named : x[1] \in Links /\ ServerHolds(x[1])
          BY ServerIs DEF RInv, Names, ServerView
        <4> QED
          BY <3>1, <4>1 DEF vars, ServerHolds
      <3> QED
        BY <3>1, <3>2, <3>3, ServerMeets
    <2> QED
      BY <2>1, <2>2, <2>3 DEF RemoteNext
  <1> QED
    BY <1>2, <1>3, <1>4 DEF RInv, Network

\* Whatever is cut, killed, expires or is answered late, the names and bytes
\* on their way, the offers and the sessions go together, and the server and
\* the client keep the invariants they have on their own.
THEOREM RemoteInvariance == RemoteSpec => []RInv
  BY RemoteInitInv, RemoteNextInv, PTL DEF RemoteSpec

\* The composition does nothing to the server or to the client that they do not
\* do on their own: all that is proved of each of them holds in the whole.
THEOREM Parts == RemoteSpec => Spec /\ C!Spec
  <1>1. RemoteInit => Init /\ C!Init
    BY DEF RemoteInit
  <1>2. RInv /\ [RemoteNext]_allVars => [Next]_vars /\ [C!Next]_(C!vars)
    BY StepsAre DEF RInv
  <1> QED
    BY <1>1, <1>2, RemoteInvariance, PTL DEF RemoteSpec, Spec, C!Spec

\* Connected to real devices as RemoteAdmin connects it, the worker is a broker.
COROLLARY WholeIsBroker == RemoteSpec => ImplementsBroker
  BY Parts, Refinement, PTL

\* The device that the client of RemoteAdmin is, and the one of its proofs.
SameViews == /\ C!Running <=> CP!Running
             /\ C!Offer = CP!Offer
             /\ C!Sessions = CP!Sessions

LEMMA SameView == SameViews
  <1>1. C!Running <=> CP!Running
    BY DEF C!Running, CP!Running
  <1>2. C!Offer = CP!Offer
    BY <1>1 DEF C!Offer, CP!Offer, C!Running, CP!Running
  <1>3. C!Sessions = CP!Sessions
    BY DEF C!Sessions, CP!Sessions
  <1> QED
    BY <1>1, <1>2, <1>3 DEF SameViews

LEMMA SameViewNext == SameViews'
  BY SameView, PTL

LEMMA SameDevice ==
    /\ CP!Promise!Init => C!Promise!Init
    /\ [CP!Promise!Next]_(CP!Promise!vars) => [C!Promise!Next]_(C!Promise!vars)
  <1>1. C!Running = CP!Running
    BY DEF C!Running, CP!Running
  <1>2. C!Running' = CP!Running'
    BY DEF C!Running, CP!Running
  <1>3. C!Promise!None = CP!Promise!None
    BY DEF C!Promise!None, CP!Promise!None
  <1>4. CP!Promise!Init => C!Promise!Init
    BY <1>1, <1>3, SameView DEF SameViews, C!Promise!Init, CP!Promise!Init
  <1>5. ASSUME NEW o \in [Services -> Links], CP!Promise!Boot(o)
        PROVE  C!Promise!Boot(o)
    BY <1>1, <1>2, <1>5, SameView, SameViewNext DEF SameViews, C!Promise!Boot, CP!Promise!Boot
  <1>6. C!Promise!Used = CP!Promise!Used
    BY SameView DEF SameViews, C!Promise!Used, CP!Promise!Used, C!Promise!Offered, CP!Promise!Offered
  <1>7. ASSUME NEW v \in Services, NEW k \in Links, CP!Promise!Renew(v, k)
        PROVE  C!Promise!Renew(v, k)
    BY <1>1, <1>2, <1>6, <1>7, SameView, SameViewNext DEF SameViews, C!Promise!Renew, CP!Promise!Renew
  <1>8. ASSUME NEW v \in Services, NEW k \in Links, CP!Promise!HandOver(v, k)
        PROVE  C!Promise!HandOver(v, k)
    BY <1>1, <1>2, <1>6, <1>8, SameView, SameViewNext DEF SameViews, C!Promise!HandOver, CP!Promise!HandOver
  <1>9. ASSUME NEW s \in CP!Sessions, CP!Promise!End(s)
        PROVE  C!Promise!End(s)
    BY <1>1, <1>2, <1>9, SameView, SameViewNext DEF SameViews, C!Promise!End, CP!Promise!End
  <1>10. ASSUME CP!Promise!Die
         PROVE  C!Promise!Die
    BY <1>2, <1>3, <1>10, SameViewNext DEF SameViews, C!Promise!Die, CP!Promise!Die
  <1>11. ASSUME UNCHANGED CP!Promise!vars
         PROVE  UNCHANGED C!Promise!vars
    BY <1>1, <1>2, <1>11, SameView, SameViewNext DEF SameViews, C!Promise!vars, CP!Promise!vars
  <1>12. ASSUME [CP!Promise!Next]_(CP!Promise!vars)
         PROVE  [C!Promise!Next]_(C!Promise!vars)
    BY <1>5, <1>7, <1>8, <1>9, <1>10, <1>11, <1>12, SameView DEF SameViews, C!Promise!Next, CP!Promise!Next
  <1> QED
    BY <1>4, <1>12

\* And radmcli is the device Device promises, connected to the real server.
THEOREM WholeIsDevice == RemoteSpec => C!ImplementsDevice
  <1>1. C!Init => CP!Init
    BY SameInit
  <1>2. [C!Next]_(C!vars) => [CP!Next]_(CP!vars)
    BY SameStep DEF C!vars, CP!vars
  <1>3. RemoteSpec => CP!Spec
    BY Parts, <1>1, <1>2, PTL DEF C!Spec, CP!Spec
  <1>4. CP!Spec => CP!ImplementsDevice
    BY CP!Refinement, ClientAssumed
  <1> QED
    BY <1>3, <1>4, SameDevice, PTL DEF C!ImplementsDevice, CP!ImplementsDevice, C!Promise!Spec,
       CP!Promise!Spec

\* A customer let in on the port of a service gets a connection on which the
\* device waits for that service, or has closed: never one that is already in
\* a session of the device, nor that of its other service.
THEOREM OffersWait == RemoteSpec => []OfferIsWaiting
  <1>1. RInv => OfferIsWaiting
    <2> SUFFICES ASSUME RInv, NEW s \in Services,
                        OfferOf(<<Id, KindOf(s)>>) # Nil, ClientHolds(OfferOf(<<Id, KindOf(s)>>))
                 PROVE  s \in C!Created /\ LinkOf(s) = OfferOf(<<Id, KindOf(s)>>)
      BY DEF OfferIsWaiting
    <2> DEFINE c == Find(Id, KindOf(s))
               k == OfferOf(<<Id, KindOf(s)>>)
    <2>1. c # Nil /\ cli[c].r # Nil /\ k = sock[cli[c].r]
      BY DEF OfferOf
    <2>2. c \in Held(cli) /\ cli[c].id = Id /\ cli[c].kind = KindOf(s)
      BY <2>1, Finds DEF RInv, IInv
    <2>3. k \in Links
      BY <2>1, <2>2 DEF RInv, IInv, Owned, Ends
    <2>4. c \in Cli /\ OfferedOn(c, s, k)
      BY <2>1, <2>2 DEF OfferedOn, Held
    <2>5. WaitsOn(s, k)
      BY <2>3, <2>4 DEF RInv, OffersFit
    <2> QED
      BY <2>5 DEF WaitsOn
  <1> QED
    BY <1>1, RemoteInvariance, PTL

\* A session of the device has a session of the server at the other end of its
\* connection, or none any more: the server does not take it for a connection
\* that still waits for a name or a customer.
THEOREM SessionsAreMet == RemoteSpec => []SessionsMeet
  <1>1. RInv => SessionsMeet
    BY DEF RInv, Met, InSession, SessionsMeet
  <1> QED
    BY <1>1, RemoteInvariance, PTL
=============================================================================
