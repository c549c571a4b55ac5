------------------------------ MODULE RadmClient ------------------------------
(***************************************************************************)
(* radmcli/radmc.c: for each local service (web, telnet) the device keeps  *)
(* a connection to the server (struct radmc) on which it has sent its      *)
(* name, waits for the first byte of a customer, hands the connection over *)
(* to a session with the local service, and connects anew.  A timer        *)
(* replaces a connection on which nothing came.                            *)
(*                                                                         *)
(* The client is one thread: a callback is one step (PollLoop), including  *)
(* the connects and the sends in it, which block.  A socket is its         *)
(* descriptor; "sock" holds what is on the other end.  A keystream (struct *)
(* rc4_state) is named after the link it was set up for.  The session is   *)
(* the subject of ClientForward; here it ends when it likes.  A connection *)
(* that cannot be made ends the process, ten seconds later; what starts it *)
(* again is outside the repository.                                        *)
(*                                                                         *)
(* Not modelled: radmc_release, which is called only where radmc_reconnect *)
(* returns -1, and it never does; a failing malloc.                        *)
(***************************************************************************)
EXTENDS Integers, FiniteSets

CONSTANTS Fds,      \* the descriptors the process may open
          Links,    \* connections to the server
          Services, \* the values of IS_RADMIN in use, among 0 .. 1
          Local,    \* the other end of a connection to a local service
          Nil

ASSUME FdsAssumption == Fds \subseteq Nat
ASSUME ServicesAssumption == Services \subseteq 0 .. 1 /\ Services # {}
VARIABLES phase, \* what the process does: "none", "create" (main) or "loop"
          sock,  \* the other end of each open descriptor
          reg,   \* the registrations: <<descriptor, callback, object>>
          radmc, \* struct radmc, by service
          fwds   \* struct fwd

vars == <<phase, sock, reg, radmc, fwds>>

-----------------------------------------------------------------------------

RADMIN == 1
RLOGIN == 0

RadmcRec == [sock : Fds, enc : Links]

FwdRec == [t : Fds, p : Fds, enc : Links, dec : Links, serves : Services]

ASSUME NilAssumption == Nil \notin Links \cup RadmcRec /\ Local \notin Links \cup {Nil}

Free(sk) == {f \in Fds : sk[f] = Nil}

\* The descriptor socket returns, with the sockets sk open.
NextFd(sk) == CHOOSE f \in Free(sk) : \A g \in Free(sk) : f <= g

Init ==
    /\ phase = "none"
    /\ sock = [f \in Fds |-> Nil]
    /\ reg = {}
    /\ radmc = [s \in Services |-> Nil]
    /\ fwds = {}

\* exit(-1): no descriptor, no server, or no room for the name.
Exit ==
    /\ phase' = "none"
    /\ sock' = [f \in Fds |-> Nil]
    /\ reg' = {}
    /\ radmc' = [s \in Services |-> Nil]
    /\ fwds' = {}

\* radmc_reconnect over link k, with the sockets sk and registrations rg.
Connect(s, k, sk, rg) ==
    LET f == NextFd(sk)
    IN  /\ sock' = [sk EXCEPT ![f] = k]
        /\ reg' = rg \cup {<<f, "radmc", s>>}
        /\ radmc' = [radmc EXCEPT ![s] = [sock |-> f, enc |-> k]]

Reconnect(s, sk, rg, fw) ==
    \/ \E k \in Links :
           /\ \A f \in Fds : sk[f] # k
           /\ Free(sk) # {}
           /\ Connect(s, k, sk, rg)
           /\ fwds' = fw
           /\ UNCHANGED phase
    \/ Exit

-----------------------------------------------------------------------------
(* main, radmcs_create and radmc_create.                                   *)

Start == phase = "none" /\ phase' = "create" /\ UNCHANGED <<sock, reg, radmc, fwds>>

\* The web service first.
NextService == CHOOSE s \in Services :
                   /\ radmc[s] = Nil
                   /\ \A u \in Services : radmc[u] = Nil => u <= s

Create ==
    /\ phase = "create"
    /\ \E s \in Services : radmc[s] = Nil
    /\ Reconnect(NextService, sock, reg, fwds)

AppRun ==
    /\ phase = "create"
    /\ \A s \in Services : radmc[s] # Nil
    /\ phase' = "loop"
    /\ UNCHANGED <<sock, reg, radmc, fwds>>

-----------------------------------------------------------------------------
(* The callbacks of radmc.c.                                               *)

Waits(s) == phase = "loop" /\ <<radmc[s].sock, "radmc", s>> \in reg

\* radmc_reset: the sockets and the registrations it leaves.
\* Mutant: the socket stays open.
BadResetSock(s) == sock
ResetSock(s) == [sock EXCEPT ![radmc[s].sock] = Nil]

\* Mutant: the registration stays.
BadResetReg(s) == reg
ResetReg(s) == reg \ {<<radmc[s].sock, "radmc", s>>}

\* radmc_callback finds the connection closed or broken.
Lost(s) ==
    /\ Waits(s)
    /\ Reconnect(s, ResetSock(s), ResetReg(s), fwds)

\* The first byte came, and the local service cannot be reached, or there is
\* no descriptor for it.
LocalFails(s) ==
    /\ Waits(s)
    /\ Reconnect(s, ResetSock(s), ResetReg(s), fwds)

\* Mutant: after the hand-over the process does not connect again.
LazyHandOver(s) ==
    /\ Waits(s)
    /\ Free(sock) # {}
    /\ LET t == radmc[s].sock
           g == NextFd(sock)
       IN  /\ sock' = [sock EXCEPT ![g] = Local]
           /\ reg' = (reg \ {<<t, "radmc", s>>}) \cup {<<t, "fwd", t>>, <<g, "fwd", t>>}
           /\ fwds' = fwds \cup {[t |-> t, p |-> g, enc |-> radmc[s].enc,
                                  dec |-> sock[t], serves |-> s]}
    /\ UNCHANGED <<phase, radmc>>

\* The first byte came: do_forward, and a new connection to the server.
HandOver(s) ==
    /\ Waits(s)
    /\ Free(sock) # {}
    /\ LET t == radmc[s].sock
           g == NextFd(sock)
       IN  Reconnect(s, [sock EXCEPT ![g] = Local],
                     (reg \ {<<t, "radmc", s>>}) \cup {<<t, "fwd", t>>, <<g, "fwd", t>>},
                     fwds \cup {[t |-> t, p |-> g, enc |-> radmc[s].enc,
                                 dec |-> sock[t], serves |-> s]})

\* radmc_keepalive: the timer, which the last reconnection started.
KeepAlive(s) ==
    /\ phase = "loop"
    /\ Reconnect(s, ResetSock(s), ResetReg(s), fwds)

\* fwd_release: a side of the session closed or failed.
FwdRelease(w) ==
    /\ w \in fwds
    /\ fwds' = fwds \ {w}
    /\ reg' = reg \ {<<w.t, "fwd", w.t>>, <<w.p, "fwd", w.t>>}
    /\ sock' = [sock EXCEPT ![w.t] = Nil, ![w.p] = Nil]
    /\ UNCHANGED <<phase, radmc>>

\* SIGPIPE, from the send of a session (ClientForward).
Killed == fwds # {} /\ Exit

-----------------------------------------------------------------------------

Next == \/ Start \/ Create \/ AppRun
        \/ \E s \in Services : Lost(s) \/ LocalFails(s) \/ HandOver(s) \/ KeepAlive(s)
        \/ \E w \in fwds : FwdRelease(w)
        \/ Killed

Spec == Init /\ [][Next]_vars

-----------------------------------------------------------------------------
(* Properties.                                                             *)

TypeOK ==
    /\ phase \in {"none", "create", "loop"}
    /\ sock \in [Fds -> Links \cup {Local, Nil}]
    /\ reg \subseteq Fds \X {"radmc", "fwd"} \X (Fds \cup Services)
    /\ radmc \in [Services -> RadmcRec \cup {Nil}]
    /\ fwds \subseteq FwdRec

\* Between callbacks the running client waits for every service on a
\* registered connection, whichever way the last one was lost, replaced or
\* handed over.
AlwaysWaits == phase = "loop" => \A s \in Services : radmc[s] # Nil /\ Waits(s)

Created == {s \in Services : radmc[s] # Nil}

\* The structures that own a descriptor.
Owners(f) ==
    {<<"waiting", s>> : s \in {u \in Created : radmc[u].sock = f}}
    \cup {<<"server", w>> : w \in {v \in fwds : v.t = f}}
    \cup {<<"local", w>> : w \in {v \in fwds : v.p = f}}

\* What each kind of owner takes to be at the other end.
EndOf == [waiting |-> Links, server |-> Links, local |-> {Local}]

\* Each keystream belongs to the connection it is used on.
KeystreamInSync ==
    /\ \A s \in Created : radmc[s].enc = sock[radmc[s].sock]
    /\ \A w \in fwds : w.enc = sock[w.t] /\ w.dec = sock[w.t]

OneOwner ==
    \A f \in Fds : IF sock[f] = Nil THEN Owners(f) = {}
                   ELSE \E o \in Owners(f) : Owners(f) = {o} /\ sock[f] \in EndOf[o[1]]

\* Every open descriptor has one owner, leads where its owner takes it to and
\* is used with the keystream set up for it: the connection handed over belongs
\* to the session alone, with its keystreams, and none is left behind by a
\* reset, a failed local connect or the end of a session.
SocketsOwned == OneOwner /\ KeystreamInSync

\* A callback is registered for the owner of its descriptor and for nothing
\* else: no event reaches a radmc for the connection of a session.
RegistryExact ==
    reg = {<<radmc[s].sock, "radmc", s>> : s \in Created}
          \cup {<<w.t, "fwd", w.t>> : w \in fwds} \cup {<<w.p, "fwd", w.t>> : w \in fwds}

Running == phase = "loop"

\* The links the client waits on, by service.
Offer == [s \in (IF Running THEN Services ELSE {}) |-> sock[radmc[s].sock]]

\* The links that sessions use, with their services.
Sessions == {<<sock[w.t], w.serves>> : w \in fwds}

Promise == INSTANCE Device WITH on <- Running, offer <- Offer, sessions <- Sessions

\* The client is a device: one link on offer per service as long as it runs,
\* and a link becomes a session only when it is the one on offer, once.
ImplementsDevice == Promise!Spec
=============================================================================
