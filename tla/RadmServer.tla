------------------------------ MODULE RadmServer ------------------------------
(***************************************************************************)
(* The worker process of radmsrvd: the devices that connect and name       *)
(* themselves (radm.c), the port opened for each of their services, the    *)
(* customers let in by address (ip_list.c) and forwarded to a device       *)
(* (fwd.c), the requests of the web page that reach the worker through the *)
(* control socket (main.c), and its restart by the supervisor (srvd.c).    *)
(*                                                                         *)
(* The worker is one thread: a callback is one step, and the callback of   *)
(* any registered socket may be next (PollLoop implements that).  A socket *)
(* is its descriptor; what is on the other end is in "sock": a device's    *)
(* link, a customer's address, or Listen.  A keystream (struct rc4_state)  *)
(* is named after the link it was set up for.  What the relay does with    *)
(* the data of a session is in Forward.                                    *)
(*                                                                         *)
(* Not modelled: failures of malloc, copies of the sockets held by the     *)
(* children that serve the web page, and names of devices with a bar and   *)
(* an address in them, which buf and the log's buffers may hold as well.   *)
(***************************************************************************)
EXTENDS Integers, Sequences, FiniteSets

CONSTANTS Fds,       \* the descriptors the process may open besides its fixed ones
          Cli,       \* the memory of struct radmcli
          Links,     \* connections of devices to the server
          Ids,       \* device names, compared as strcmp does
          Kinds,     \* the values of is_radmin in use, among 1 .. 3
          Ips,       \* customer addresses
          InitWhite, \* white_list_ip from the command line
          Begins,    \* the addresses whose text the text of an address begins with
          Listen,    \* the other end of a listening socket
          Nil,
          PartMax,   \* bound on the reads of an incomplete name
          CtlMax     \* bound on the datagrams waiting in radmsrv_ctl

ASSUME FdsAssumption == Fds \subseteq Nat
ASSUME IdsAssumption == Ids \subseteq Nat
ASSUME KindsAssumption == Kinds \subseteq 1 .. 3
ASSUME BoundsAssumption == PartMax \in Nat /\ CtlMax \in Nat
ASSUME WhiteAssumption == InitWhite \subseteq Ips /\ Begins \in [Ips -> SUBSET Ips]
ASSUME EndsAssumption == Links \cap Ips = {} /\ Listen \notin Links \cup Ips

VARIABLES up,      \* the worker runs
          sock,    \* the other end of each open descriptor
          reg,     \* the registrations: <<descriptor, callback, object>>
          backlog, \* links the kernel accepted on srv->sock
          pend,    \* customers the kernel accepted on each listening socket
          conn,    \* struct radmconn, by its socket
          clients, \* srv->clients, the list of known services
          cli,     \* struct radmcli
          fwds,    \* struct fwd
          ips,     \* ip_list
          white,   \* white_list_ip
          stale,   \* addresses that stood behind a bar in lists read into buf, the
                   \* array of radmsrv_ctl_callback, which is never cleared
          ctl      \* datagrams in radmsrv_ctl

vars == <<up, sock, reg, backlog, pend, conn, clients, cli, fwds, ips, white, stale, ctl>>

-----------------------------------------------------------------------------

RADMIN == 1
RLOGIN == 2
TELNET == 3

Remote == Links \cup Ips \cup {Listen}

ConnRec == [dec : Links, part : 0 .. PartMax]

CliRec == [id : Ids, kind : Kinds, l : Fds, r : Fds \cup {Nil}, dec : Links \cup {Nil}]

FwdRec == [t : Fds, p : Fds, dec : Links]

ASSUME NilAssumption == Nil \notin Fds \cup Cli \cup Remote \cup ConnRec \cup CliRec

\* What a page may ask to change: delete a service, or a new white list.
Change == [cmd : {"D"}, id : Ids, kind : Kinds] \cup [cmd : {"W"}, list : SUBSET Ips]

Datagram == [cmd : {"IP"}, ip : Ips] \cup Change

FreeFds == {f \in Fds : sock[f] = Nil}

\* The descriptor accept and socket return: the lowest that is free.
NextFd == CHOOSE f \in FreeFds : \A g \in FreeFds : f <= g

Listed == {clients[n] : n \in DOMAIN clients}

\* The first entry of the list with this name and service, as both
\* radmsrv_find_client and radmsrv_del look for it; Nil when there is none.
Find(id, kind) ==
    LET at == {n \in DOMAIN clients : /\ cli[clients[n]].id = id
                                      /\ cli[clients[n]].kind = kind}
    IN  IF at = {} THEN Nil
        ELSE clients[CHOOSE n \in at : \A m \in at : n <= m]

\* Mutant: the entry is put in front.
BadInsert(list, c, id) == <<c>> \o list

\* radmsrv_new_client puts an entry before the first greater name.
Insert(list, c, id) ==
    LET before == Cardinality({n \in DOMAIN list :
                        \A m \in 1 .. n : cli[list[m]].id <= id})
    IN  SubSeq(list, 1, before) \o <<c>> \o SubSeq(list, before + 1, Len(list))

\* The list closed up over the one place of c.
Without(list, c) ==
    LET n == CHOOSE m \in DOMAIN list : list[m] = c
    IN  SubSeq(list, 1, n - 1) \o SubSeq(list, n + 1, Len(list))

\* Keystreams that are allocated.
Streams == {conn[f].dec : f \in {g \in Fds : conn[g] # Nil}}
           \cup {cli[c].dec : c \in Listed} \cup {w.dec : w \in fwds}

Nowhere == [f \in Fds |-> Nil]
Nobody  == [f \in Fds |-> {}]

Fresh ==
    /\ sock' = Nowhere /\ reg' = {} /\ backlog' = {} /\ pend' = Nobody
    /\ conn' = Nowhere /\ clients' = <<>> /\ cli' = [c \in Cli |-> Nil]
    /\ fwds' = {} /\ ips' = {} /\ white' = InitWhite /\ stale' = {} /\ ctl' = <<>>

Init ==
    /\ up = TRUE
    /\ sock = Nowhere /\ reg = {} /\ backlog = {} /\ pend = Nobody
    /\ conn = Nowhere /\ clients = <<>> /\ cli = [c \in Cli |-> Nil]
    /\ fwds = {} /\ ips = {} /\ white = InitWhite /\ stale = {} /\ ctl = <<>>

\* The worker ends: radmsrv_del on an empty list, exit(1) of MYDLOG when there
\* is no descriptor left, or SIGPIPE.  The kernel closes what it had open.
Crash == up' = FALSE /\ Fresh

\* child_exit and mysystem of the supervisor, whose own white_list_ip is
\* the one of its command line.
Restart ==
    /\ ~up
    /\ up' = TRUE
    /\ UNCHANGED <<sock, reg, backlog, pend, conn, clients, cli, fwds, ips, white, stale, ctl>>

-----------------------------------------------------------------------------
(* Devices: radmsrv_accept_callback and radmsrv_conn_callback.             *)

\* The kernel completes a connection to srv->sock.
DeviceConnects(k) ==
    /\ up
    /\ k \notin backlog \cup Streams
    /\ \A f \in Fds : sock[f] # k
    /\ backlog' = backlog \cup {k}
    /\ UNCHANGED <<up, sock, reg, pend, conn, clients, cli, fwds, ips, white, stale, ctl>>

AcceptDevice(k) ==
    /\ up
    /\ k \in backlog
    /\ \/ /\ FreeFds # {}
          /\ sock' = [sock EXCEPT ![NextFd] = k]
          /\ conn' = [conn EXCEPT ![NextFd] = [dec |-> k, part |-> 0]]
          /\ reg' = reg \cup {<<NextFd, "conn", NextFd>>}
          /\ backlog' = backlog \ {k}
          /\ UNCHANGED <<up, pend, clients, cli, fwds, ips, white, stale, ctl>>
       \/ FreeFds = {} /\ Crash

\* err_exit: the device closed, the buffer is full, the line has no known
\* prefix, or no port could be bound for a new service.
ConnError(f) ==
    /\ <<f, "conn", f>> \in reg
    /\ reg' = reg \ {<<f, "conn", f>>}
    /\ sock' = [sock EXCEPT ![f] = Nil]
    /\ conn' = [conn EXCEPT ![f] = Nil]
    /\ UNCHANGED <<up, backlog, pend, clients, cli, fwds, ips, white, stale, ctl>>

\* Mutant: the full buffer is not noticed.
BadConnPartial(f) ==
    /\ <<f, "conn", f>> \in reg
    /\ conn' = [conn EXCEPT ![f].part = @ + 1]
    /\ UNCHANGED <<up, sock, reg, backlog, pend, clients, cli, fwds, ips, white, stale, ctl>>

\* Bytes that do not end in a newline.
ConnPartial(f) ==
    /\ <<f, "conn", f>> \in reg
    /\ conn[f].part < PartMax
    /\ conn' = [conn EXCEPT ![f].part = @ + 1]
    /\ UNCHANGED <<up, sock, reg, backlog, pend, clients, cli, fwds, ips, white, stale, ctl>>

\* Mutant: the old device connection is not closed.
BadTakeOver(c, f, id, kind, s, es) ==
    /\ sock' = s
    /\ cli' = [es EXCEPT ![c] = [id |-> id, kind |-> kind, l |-> es[c].l,
                                 r |-> f, dec |-> conn[f].dec]]
    /\ reg' = (reg \cup {<<es[c].l, "cli", c>>}) \ {<<f, "conn", f>>}
    /\ conn' = [conn EXCEPT ![f] = Nil]
    /\ UNCHANGED <<up, backlog, pend, fwds, ips, white, stale, ctl>>

\* Mutant: the entry keeps the keystream it has.
StaleTakeOver(c, f, id, kind, s, es) ==
    /\ sock' = [g \in Fds |-> IF g = es[c].r THEN Nil ELSE s[g]]
    /\ cli' = [es EXCEPT ![c] = [id |-> id, kind |-> kind, l |-> es[c].l, r |-> f,
                                 dec |-> IF es[c].dec = Nil THEN conn[f].dec ELSE es[c].dec]]
    /\ reg' = (reg \cup {<<es[c].l, "cli", c>>}) \ {<<f, "conn", f>>}
    /\ conn' = [conn EXCEPT ![f] = Nil]
    /\ UNCHANGED <<up, backlog, pend, fwds, ips, white, stale, ctl>>

\* The end of radmsrv_conn_callback: entry c gets the connection f, in place
\* of the one it may have; s and es are the sockets and entries with the
\* listening socket and the entry of a new client.
TakeOver(c, f, id, kind, s, es) ==
    /\ sock' = [g \in Fds |-> IF g = es[c].r THEN Nil ELSE s[g]]
    /\ cli' = [es EXCEPT ![c] = [id |-> id, kind |-> kind, l |-> es[c].l,
                                 r |-> f, dec |-> conn[f].dec]]
    /\ reg' = (reg \cup {<<es[c].l, "cli", c>>}) \ {<<f, "conn", f>>}
    /\ conn' = [conn EXCEPT ![f] = Nil]
    /\ UNCHANGED <<up, backlog, pend, fwds, ips, white, stale, ctl>>

\* Mutant: the connection that came first is kept.
BadReconnect(f, id, kind) ==
    /\ Find(id, kind) # Nil
    /\ \/ cli[Find(id, kind)].r # Nil /\ ConnError(f)
       \/ /\ cli[Find(id, kind)].r = Nil
          /\ <<f, "conn", f>> \in reg
          /\ TakeOver(Find(id, kind), f, id, kind, sock, cli)
          /\ UNCHANGED clients

\* The name arrived and the service is known.
Reconnect(f, id, kind) ==
    /\ <<f, "conn", f>> \in reg
    /\ Find(id, kind) # Nil
    /\ TakeOver(Find(id, kind), f, id, kind, sock, cli)
    /\ UNCHANGED clients

\* The name arrived and is new: radmsrv_new_client opens a port for it.
NewClient(f, id, kind) ==
    /\ <<f, "conn", f>> \in reg
    /\ Find(id, kind) = Nil
    /\ \/ /\ FreeFds # {}
          /\ \E c \in Cli \ Listed :
                 /\ clients' = Insert(clients, c, id)
                 /\ TakeOver(c, f, id, kind, [sock EXCEPT ![NextFd] = Listen],
                             [cli EXCEPT ![c] = [id |-> id, kind |-> kind, l |-> NextFd,
                                                 r |-> Nil, dec |-> Nil]])
       \/ FreeFds = {} /\ Crash

-----------------------------------------------------------------------------
(* Customers: radmcli_accept_callback and the sessions of fwd.c.           *)

CustomerConnects(f, a) ==
    /\ sock[f] = Listen
    /\ a \notin pend[f]
    /\ pend' = [pend EXCEPT ![f] = @ \cup {a}]
    /\ UNCHANGED <<up, sock, reg, backlog, conn, clients, cli, fwds, ips, white, stale, ctl>>

Granted == white \cup ips

\* Mutant: the entry keeps the connection it handed out.
SharedForwarded(c, a, g) ==
    /\ sock' = [sock EXCEPT ![g] = a]
    /\ fwds' = fwds \cup {[t |-> cli[c].r, p |-> g, dec |-> cli[c].dec]}
    /\ reg' = reg \cup {<<cli[c].r, "fwd", cli[c].r>>, <<g, "fwd", cli[c].r>>}
    /\ UNCHANGED cli

\* do_forward, and the entry waits for the next connection of its device.
Forwarded(c, a, g) ==
    /\ sock' = [sock EXCEPT ![g] = a]
    /\ fwds' = fwds \cup {[t |-> cli[c].r, p |-> g, dec |-> cli[c].dec]}
    /\ cli' = [cli EXCEPT ![c].r = Nil, ![c].dec = Nil]
    /\ reg' = (reg \cup {<<cli[c].r, "fwd", cli[c].r>>, <<g, "fwd", cli[c].r>>})
                 \ {<<cli[c].l, "cli", c>>}

AcceptCustomer(c, a) ==
    /\ cli[c] # Nil
    /\ <<cli[c].l, "cli", c>> \in reg
    /\ a \in pend[cli[c].l]
    /\ \/ /\ FreeFds # {}
          /\ pend' = [pend EXCEPT ![cli[c].l] = @ \ {a}]
          /\ \/ a \in Granted /\ Forwarded(c, a, NextFd)
             \/ a \notin Granted /\ UNCHANGED <<sock, fwds, cli, reg>>
          /\ UNCHANGED <<up, backlog, conn, clients, ips, white, stale, ctl>>
       \/ FreeFds = {} /\ Crash

\* Mutant: the connection of the device is not closed.
BadFwdRelease(w) ==
    /\ w \in fwds
    /\ fwds' = fwds \ {w}
    /\ reg' = reg \ {<<w.t, "fwd", w.t>>, <<w.p, "fwd", w.t>>}
    /\ sock' = [sock EXCEPT ![w.p] = Nil]
    /\ UNCHANGED <<up, backlog, pend, conn, clients, cli, ips, white, stale, ctl>>

\* fwd_release: either side closed or failed.
FwdRelease(w) ==
    /\ w \in fwds
    /\ fwds' = fwds \ {w}
    /\ reg' = reg \ {<<w.t, "fwd", w.t>>, <<w.p, "fwd", w.t>>}
    /\ sock' = [sock EXCEPT ![w.t] = Nil, ![w.p] = Nil]
    /\ UNCHANGED <<up, backlog, pend, conn, clients, cli, ips, white, stale, ctl>>

\* A send of a session raises SIGPIPE, which no handler takes (Forward).
FwdKills(w) == w \in fwds /\ Crash

-----------------------------------------------------------------------------
(* Deletion: radmsrv_del and radmcli_release.                              *)

\* Mutant: the port stays registered with the freed entry.
DanglingRelease(c) ==
    /\ clients' = Without(clients, c)
    /\ sock' = [f \in Fds |-> IF f \in {cli[c].l, cli[c].r} THEN Nil ELSE sock[f]]
    /\ pend' = [pend EXCEPT ![cli[c].l] = {}]
    /\ cli' = [cli EXCEPT ![c] = Nil]
    /\ UNCHANGED reg

Release(c) ==
    /\ clients' = Without(clients, c)
    /\ reg' = reg \ {<<cli[c].l, "cli", c>>}
    /\ sock' = [f \in Fds |-> IF f \in {cli[c].l, cli[c].r} THEN Nil ELSE sock[f]]
    /\ pend' = [pend EXCEPT ![cli[c].l] = {}]
    /\ cli' = [cli EXCEPT ![c] = Nil]

Delete(id, kind) ==
    /\ clients # <<>>
    /\ IF Find(id, kind) # Nil THEN Release(Find(id, kind))
                               ELSE UNCHANGED <<clients, reg, sock, pend, cli>>
    /\ UNCHANGED <<up, backlog, conn, fwds, ips, white, stale>>

\* timeout_del, 30 minutes after the last radmsrv_find_client of the entry.
DelTimeout(c) ==
    /\ c \in Listed
    /\ Delete(cli[c].id, cli[c].kind)
    /\ UNCHANGED ctl

-----------------------------------------------------------------------------
(* The web page: its children write datagrams, radmsrv_ctl_callback reads  *)
(* them.  A page may be old: it may ask to delete what is gone.            *)

\* An authenticated request from address a: the address, then the change it
\* asks for, if any.
WebRequest(a, change) ==
    /\ up
    /\ Len(ctl) + 1 + Len(change) <= CtlMax
    /\ ctl' = ctl \o <<[cmd |-> "IP", ip |-> a]>> \o change
    /\ UNCHANGED <<up, sock, reg, backlog, pend, conn, clients, cli, fwds, ips, white, stale>>

Asked(cmd) == ctl # <<>> /\ Head(ctl).cmd = cmd

Deletable == {RADMIN, TELNET}

CtlDelete ==
    /\ Asked("D")
    /\ Head(ctl).kind \in Deletable
    /\ Delete(Head(ctl).id, Head(ctl).kind)
    /\ ctl' = Tail(ctl)

\* radmsrv_del looks at the head of the list before it knows there is one.
CtlDeleteEmpty ==
    /\ Asked("D")
    /\ Head(ctl).kind \in Deletable
    /\ clients = <<>>
    /\ Crash

CtlDeleteIgnored ==
    /\ Asked("D")
    /\ Head(ctl).kind \notin Deletable
    /\ ctl' = Tail(ctl)
    /\ UNCHANGED <<up, sock, reg, backlog, pend, conn, clients, cli, fwds, ips, white, stale>>

\* add_ip, which also starts the 24 hours of a known address again.
CtlAddIp ==
    /\ Asked("IP")
    /\ ips' = ips \cup {Head(ctl).ip}
    /\ ctl' = Tail(ctl)
    /\ UNCHANGED <<up, sock, reg, backlog, pend, conn, clients, cli, fwds, white, stale>>

\* What may follow a bar in the bytes behind a datagram: an address of an
\* earlier list, or one that is left when its last digits were cut off.  Which
\* of them stand there depends on the lengths of all the texts since, which are
\* left out.
Leftover == stale \cup UNION {Begins[a] : a \in stale}

\* The addresses check_white_ip finds in a list of the page.  It splits the
\* text at its first bar only.  The datagram is not terminated: strlen reads
\* on into the stack, and the byte dropped is the newline only if a zero
\* happens to follow it.  Otherwise the newline stays glued to the last
\* address, which then matches no customer; and if the list has no bar of its
\* own, what follows the first one of the bytes behind it is looked for.
Heard(list) ==
    IF Cardinality(list) > 2 THEN {{first} : first \in list}
    ELSE {list} \cup {list \ {last} : last \in list}
         \cup {{a} : a \in {b \in Leftover : Cardinality(list) < 2}}

\* Mutant: white_list_ip is not cleared, the new list goes behind the old one.
BadCtlWhite ==
    /\ Asked("W")
    /\ white' \in {white \cup h : h \in Heard(Head(ctl).list)}
    /\ stale' = stale \cup {a \in Head(ctl).list : Cardinality(Head(ctl).list) > 1}
    /\ ctl' = Tail(ctl)
    /\ UNCHANGED <<up, sock, reg, backlog, pend, conn, clients, cli, fwds, ips>>

\* A list of two addresses or more leaves a bar in buf, and any of them may
\* have stood behind it.
CtlWhite ==
    /\ Asked("W")
    /\ white' \in Heard(Head(ctl).list)
    /\ stale' = stale \cup {a \in Head(ctl).list : Cardinality(Head(ctl).list) > 1}
    /\ ctl' = Tail(ctl)
    /\ UNCHANGED <<up, sock, reg, backlog, pend, conn, clients, cli, fwds, ips>>

\* ip_timeout, 24 hours after the last add_ip of the address.
IpTimeout(a) ==
    /\ a \in ips
    /\ ips' = ips \ {a}
    /\ UNCHANGED <<up, sock, reg, backlog, pend, conn, clients, cli, fwds, white, stale, ctl>>

-----------------------------------------------------------------------------

Device ==
    \/ \E k \in Links : DeviceConnects(k) \/ AcceptDevice(k)
    \/ \E f \in Fds : ConnError(f) \/ ConnPartial(f)
    \/ \E f \in Fds, id \in Ids, kind \in Kinds :
           Reconnect(f, id, kind) \/ NewClient(f, id, kind)

Customer ==
    \/ \E f \in Fds, a \in Ips : CustomerConnects(f, a)
    \/ \E c \in Cli, a \in Ips : AcceptCustomer(c, a)
    \/ \E w \in fwds : FwdRelease(w) \/ FwdKills(w)

Control ==
    \/ \E a \in Ips : \/ WebRequest(a, <<>>)
                      \/ \E d \in Change : WebRequest(a, <<d>>)
    \/ CtlDelete \/ CtlDeleteEmpty \/ CtlDeleteIgnored
    \/ CtlAddIp \/ CtlWhite
    \/ \E c \in Cli : DelTimeout(c)
    \/ \E a \in Ips : IpTimeout(a)

Next == Device \/ Control \/ Customer \/ Restart

Spec == Init /\ [][Next]_vars

-----------------------------------------------------------------------------
(* Properties.                                                             *)

TypeOK ==
    /\ up \in BOOLEAN
    /\ sock \in [Fds -> Remote \cup {Nil}]
    /\ reg \subseteq Fds \X {"conn", "cli", "fwd"} \X (Fds \cup Cli)
    /\ backlog \subseteq Links
    /\ pend \in [Fds -> SUBSET Ips]
    /\ conn \in [Fds -> ConnRec \cup {Nil}]
    /\ clients \in Seq(Cli)
    /\ cli \in [Cli -> CliRec \cup {Nil}]
    /\ fwds \subseteq FwdRec
    /\ ips \subseteq Ips /\ white \subseteq Ips /\ stale \subseteq Ips
    /\ ctl \in Seq(Datagram)

\* The structures that own a descriptor.
Owners(f) ==
    {<<"conn", g>> : g \in {h \in Fds : h = f /\ conn[h] # Nil}}
    \cup {<<"port", c>> : c \in {d \in Listed : cli[d].l = f}}
    \cup {<<"waiting", c>> : c \in {d \in Listed : cli[d].r = f}}
    \cup {<<"device", w>> : w \in {v \in fwds : v.t = f}}
    \cup {<<"customer", w>> : w \in {v \in fwds : v.p = f}}

\* What each kind of owner takes to be at the other end.
EndOf == [conn |-> Links, port |-> {Listen}, waiting |-> Links,
          device |-> Links, customer |-> Ips]

\* A descriptor is open if and only if exactly one structure owns it, and it
\* is what its owner takes it for: none leaks when a device reconnects, is
\* deleted or is handed to a customer, and none is used after its close.
FdOwnership ==
    \A f \in Fds : IF sock[f] = Nil THEN Owners(f) = {}
                   ELSE \E o \in Owners(f) : Owners(f) = {o} /\ sock[f] \in EndOf[o[1]]

\* The callbacks registered are those of the live structures: the receiver of
\* the name of each new connection, the port of each service whose device
\* waits and of no other, and both ends of each session.  None is left with a
\* freed context, and none is missing.
RegistryExact ==
    reg = {<<f, "conn", f>> : f \in {g \in Fds : conn[g] # Nil}}
          \cup {<<cli[c].l, "cli", c>> : c \in {d \in Listed : cli[d].r # Nil}}
          \cup {<<w.t, "fwd", w.t>> : w \in fwds} \cup {<<w.p, "fwd", w.t>> : w \in fwds}

\* The keystream that decrypts a device's bytes was set up for the same
\* connection, through the hand-over from radmconn to radmcli to fwd, and an
\* entry has a keystream exactly while its device waits.
KeystreamInSync ==
    /\ \A f \in Fds : conn[f] # Nil => conn[f].dec = sock[f]
    /\ \A c \in Listed : cli[c].dec = IF cli[c].r = Nil THEN Nil ELSE sock[cli[c].r]
    /\ \A w \in fwds : w.dec = sock[w.t]

\* The list holds every entry once, one entry for a name and service, in the
\* order of the names: a device that reconnects finds its port again, and no
\* entry is out of reach of the page.
ClientsSorted ==
    /\ Listed = {c \in Cli : cli[c] # Nil}
    /\ \A m, n \in DOMAIN clients : m < n =>
           /\ cli[clients[m]].id <= cli[clients[n]].id
           /\ <<cli[clients[m]].id, cli[clients[m]].kind>>
                # <<cli[clients[n]].id, cli[clients[n]].kind>>

Service == Ids \X Kinds

OfferOf(v) == LET c == Find(v[1], v[2])
              IN  IF c = Nil \/ cli[c].r = Nil THEN Nil ELSE sock[cli[c].r]

Sessions == {<<sock[w.t], sock[w.p]>> : w \in fwds}

Promise == INSTANCE Broker WITH Services <- Service,
                                Requests <- Change,
                                offer    <- [v \in Service |-> OfferOf(v)],
                                sessions <- Sessions,
                                list     <- white,
                                logins   <- ips,
                                past     <- stale,
                                asked    <- ctl

\* The worker is a broker: a customer gets a device only while its address is
\* granted, the device is the one waiting on that service, and no device is
\* handed out twice or offered while it is in a session, whatever devices
\* reconnect, services are deleted and addresses expire meanwhile.  Granted are
\* the addresses of the page's requests of the last day and, of the list that
\* was sent last, as much as is understood, or else an address of a list that
\* an earlier request since the start had; after a restart, those of the
\* command line.
ImplementsBroker == Promise!Spec

\* Deleting a service from the page ends no session.
DeleteEndsNoSession ==
    [][CtlDelete \/ CtlDeleteEmpty \/ CtlDeleteIgnored => fwds' = fwds]_vars
=============================================================================
