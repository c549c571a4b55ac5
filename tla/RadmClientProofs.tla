--------------------------- MODULE RadmClientProofs ---------------------------
(***************************************************************************)
(* Proofs about RadmClient, for every set of descriptors, links and        *)
(* services: who owns each descriptor, registration and keystream.         *)
(***************************************************************************)
EXTENDS RadmClient, FiniteSetTheorems, TLAPS

-----------------------------------------------------------------------------
(* The descriptor socket returns.                                          *)

\* A set of natural numbers that is not empty has a lowest one.
LEMMA Lowest ==
    ASSUME NEW S, S \subseteq Nat, S # {}
    PROVE  \E f \in S : \A g \in S : f <= g
  <1>1. PICK m \in S : TRUE
    OBVIOUS
  <1> DEFINE T == {0 .. f : f \in {g \in S : g <= m}}
             R == StrictSubsetOrdering(0 .. m)
  <1>2. FiniteSubsetsOf(0 .. m) = SUBSET (0 .. m)
    <2>1. IsFiniteSet(0 .. m)
      BY <1>1, FS_Interval
    <2> QED
      BY <2>1, FS_FiniteSubsetsOfFinite
  <1>3. IsWellFoundedOn(R, SUBSET (0 .. m))
    BY <1>2, FS_StrictSubsetOrderingWellFounded
  <1>4. T \subseteq SUBSET (0 .. m) /\ T # {}
    BY <1>1
  <1>5. PICK I \in T : \A J \in T : ~(<<J, I>> \in R)
    <2> HIDE DEF T, R
    <2> QED
      BY <1>3, <1>4, WFMin, Zenon
  <1>6. PICK f \in S : f <= m /\ I = 0 .. f
    BY <1>5
  <1>7. ASSUME NEW g \in S, g < f
        PROVE  FALSE
    <2>1. g <= m /\ (0 .. g) \in T
      BY <1>1, <1>6, <1>7
    <2>2. f \in 0 .. f /\ f \notin 0 .. g
      BY <1>7
    <2>3. (0 .. g) \subseteq (0 .. f) /\ (0 .. g) # (0 .. f)
      BY <2>2, <1>7
    <2>4. <<0 .. g, 0 .. f>> \in R
      BY <2>1, <2>3, <1>4, <1>6 DEF StrictSubsetOrdering
    <2> QED
      BY <1>5, <1>6, <2>1, <2>4
  <1> QED
    BY <1>6, <1>7

\* The descriptor socket returns was free.
LEMMA NextIsFree ==
    ASSUME NEW sk, Free(sk) # {}
    PROVE  NextFd(sk) \in Fds /\ sk[NextFd(sk)] = Nil
  <1>1. Free(sk) \subseteq Nat
    BY FdsAssumption DEF Free
  <1>2. \E f \in Free(sk) : \A g \in Free(sk) : f <= g
    BY <1>1, Lowest
  <1>3. NextFd(sk) \in Free(sk)
    BY <1>2 DEF NextFd
  <1> QED
    BY <1>3 DEF Free

-----------------------------------------------------------------------------
(* The inductive invariant.                                                *)

\* The sockets sk are those of the services C and of the sessions fw, each of
\* one of them; each keystream is that of its connection, each link is open once.
Owned(sk, C, fw) ==
    /\ sk \in [Fds -> Links \cup {Local, Nil}]
    /\ \A s \in C : radmc[s] \in RadmcRec /\ sk[radmc[s].sock] = radmc[s].enc
    /\ \A w \in fw : w \in FwdRec /\ sk[w.t] = w.enc /\ w.dec = w.enc /\ sk[w.p] = Local
    /\ \A s, u \in C : radmc[s].sock = radmc[u].sock => s = u
    /\ \A s \in C, w \in fw : radmc[s].sock # w.t
    /\ \A v, w \in fw : v.t = w.t \/ v.p = w.p => v = w
    /\ \A f \in Fds : sk[f] # Nil => \/ \E s \in C : radmc[s].sock = f
                                     \/ \E w \in fw : w.t = f \/ w.p = f
    /\ \A f, g \in Fds : sk[f] \in Links /\ sk[f] = sk[g] => f = g

\* The registrations of the services C and the sessions fw.
RegOf(C, fw) == {<<radmc[s].sock, "radmc", s>> : s \in C}
                \cup {<<w.t, "fwd", w.t>> : w \in fw} \cup {<<w.p, "fwd", w.t>> : w \in fw}

AllCreated == phase = "loop" => Created = Services

IInv == /\ TypeOK /\ AllCreated
        /\ Owned(sock, Created, fwds)
        /\ reg = RegOf(Created, fwds)

LEMMA InitInv == Init => IInv
  BY NilAssumption DEF Init, IInv, TypeOK, AllCreated, Owned, RegOf, Created

LEMMA ExitInv == IInv /\ Exit => IInv'
  BY NilAssumption DEF Exit, IInv, TypeOK, AllCreated, Owned, RegOf, Created

-----------------------------------------------------------------------------
(* radmc_reconnect, from what its caller leaves of the service s.          *)

LEMMA ReconnectInv ==
    ASSUME NEW s \in Services, NEW STATE sk, NEW STATE rg, NEW STATE fw,
           IInv,
           Owned(sk, Created \ {s}, fw),
           rg = RegOf(Created \ {s}, fw),
           Reconnect(s, sk, rg, fw)
    PROVE  IInv'
  <1>1. CASE Exit
    BY <1>1, ExitInv
  <1>2. CASE \E k \in Links : /\ \A f \in Fds : sk[f] # k
                              /\ Free(sk) # {}
                              /\ Connect(s, k, sk, rg)
                              /\ fwds' = fw
                              /\ UNCHANGED phase
    <2>1. PICK k \in Links : /\ \A f \in Fds : sk[f] # k
                             /\ Free(sk) # {}
                             /\ Connect(s, k, sk, rg)
                             /\ fwds' = fw
                             /\ UNCHANGED phase
      BY <1>2
    <2> DEFINE f == NextFd(sk)
    <2>2. f \in Fds /\ sk[f] = Nil
      BY <2>1, NextIsFree
    <2>3. /\ sock' = [sk EXCEPT ![f] = k]
          /\ reg' = rg \cup {<<f, "radmc", s>>}
          /\ radmc' = [radmc EXCEPT ![s] = [sock |-> f, enc |-> k]]
      BY <2>1 DEF Connect
    <2> HIDE DEF f
    <2>4. radmc \in [Services -> RadmcRec \cup {Nil}]
      BY DEF IInv, TypeOK
    <2>5. /\ radmc'[s] = [sock |-> f, enc |-> k] /\ radmc'[s] \in RadmcRec
          /\ \A u \in Created \ {s} : radmc'[u] = radmc[u]
          /\ \A u \in Services : u # s => radmc'[u] = radmc[u]
      BY <2>2, <2>3, <2>4 DEF RadmcRec, Created
    <2>6. radmc'[s] # Nil
      BY <2>5, NilAssumption
    <2>7. Created' = (Created \ {s}) \cup {s}
      BY <2>5, <2>6 DEF Created
    <2>8. TypeOK'
      <3>1. fw \subseteq FwdRec
        BY DEF Owned
      <3>2. sock' \in [Fds -> Links \cup {Local, Nil}]
        BY <2>2, <2>3 DEF Owned
      <3>3. rg \subseteq Fds \X {"radmc", "fwd"} \X (Fds \cup Services)
        BY <3>1 DEF Owned, RegOf, RadmcRec, FwdRec, Created
      <3>4. reg' \subseteq Fds \X {"radmc", "fwd"} \X (Fds \cup Services)
        BY <2>2, <2>3, <3>3, <<f, "radmc", s>> \in Fds \X {"radmc", "fwd"} \X (Fds \cup Services)
      <3>5. radmc' \in [Services -> RadmcRec \cup {Nil}]
        BY <2>3, <2>4, <2>5
      <3> QED
        BY <2>1, <3>1, <3>2, <3>4, <3>5 DEF IInv, TypeOK
    <2>9. AllCreated'
      BY <2>1, <2>7 DEF IInv, AllCreated, Created
    <2>10. reg' = RegOf(Created, fwds)'
      BY <2>1, <2>3, <2>5, <2>7 DEF RegOf
    <2>11. Owned(sock, Created, fwds)'
      <3>1. sock'[f] = k /\ \A g \in Fds : g # f => sock'[g] = sk[g]
        BY <2>2, <2>3 DEF Owned
      <3>2. \A u \in Created \ {s} : radmc[u].sock \in Fds /\ radmc[u].sock # f
        BY <2>2, NilAssumption DEF Owned, RadmcRec
      <3>3. \A w \in fw : w.t \in Fds /\ w.p \in Fds /\ w.t # f /\ w.p # f
        BY <2>2, NilAssumption DEF Owned, FwdRec
      <3>4. \A u \in Created' : radmc'[u] \in RadmcRec /\ sock'[radmc'[u].sock] = radmc'[u].enc
        BY <2>5, <2>7, <3>1, <3>2 DEF Owned
      <3>5. \A w \in fw : w \in FwdRec /\ sock'[w.t] = w.enc /\ w.dec = w.enc /\ sock'[w.p] = Local
        BY <3>1, <3>3 DEF Owned
      <3>6. \A u, v \in Created' : radmc'[u].sock = radmc'[v].sock => u = v
        BY <2>5, <2>7, <3>2 DEF Owned
      <3>7. \A u \in Created', w \in fw : radmc'[u].sock # w.t
        BY <2>5, <2>7, <3>3 DEF Owned
      <3>8. \A g \in Fds : sock'[g] # Nil => \/ \E u \in Created' : radmc'[u].sock = g
                                           \/ \E w \in fw : w.t = g \/ w.p = g
        BY <2>5, <2>7, <3>1 DEF Owned
      <3>9. sock' \in [Fds -> Links \cup {Local, Nil}]
        BY <2>8 DEF TypeOK
      <3>10. \A v, w \in fw : v.t = w.t \/ v.p = w.p => v = w
        BY DEF Owned
      <3>11. \A g, h \in Fds : sock'[g] \in Links /\ sock'[g] = sock'[h] => g = h
        BY <2>1, <3>1 DEF Owned
      <3> QED
        BY <2>1, <3>4, <3>5, <3>6, <3>7, <3>8, <3>9, <3>10, <3>11 DEF Owned
    <2> QED
      BY <2>8, <2>9, <2>10, <2>11 DEF IInv
  <1> QED
    BY <1>1, <1>2 DEF Reconnect

-----------------------------------------------------------------------------
(* What the callbacks leave to radmc_reconnect.                            *)

\* A service that waits has been created.
LEMMA WaitsCreated ==
    ASSUME NEW s \in Services, IInv, Waits(s)
    PROVE  s \in Created
  BY DEF IInv, Waits, RegOf

\* radmc_reset takes a service out of the sockets and the registrations.
LEMMA ResetOwned ==
    ASSUME NEW s \in Services, IInv, s \in Created
    PROVE  /\ Owned(ResetSock(s), Created \ {s}, fwds)
           /\ ResetReg(s) = RegOf(Created \ {s}, fwds)
  <1> DEFINE f == radmc[s].sock
             sk == ResetSock(s)
  <1>1. f \in Fds /\ sock \in [Fds -> Links \cup {Local, Nil}]
    BY DEF IInv, Owned, RadmcRec
  <1>2. /\ sk \in [Fds -> Links \cup {Local, Nil}]
        /\ sk[f] = Nil
        /\ \A g \in Fds : g # f => sk[g] = sock[g]
    BY <1>1 DEF ResetSock
  <1>3. \A u \in Created \ {s} : radmc[u].sock \in Fds /\ radmc[u].sock # f
    BY DEF IInv, Owned, RadmcRec
  <1>4. sock[f] \in Links
    BY DEF IInv, Owned, RadmcRec
  <1>5. \A w \in fwds : w.t \in Fds /\ w.p \in Fds /\ w.t # f /\ w.p # f
    BY <1>4, NilAssumption DEF IInv, Owned, FwdRec
  <1>6. \A u \in Created \ {s} : radmc[u] \in RadmcRec /\ sk[radmc[u].sock] = radmc[u].enc
    BY <1>2, <1>3 DEF IInv, Owned
  <1>7. \A w \in fwds : w \in FwdRec /\ sk[w.t] = w.enc /\ w.dec = w.enc /\ sk[w.p] = Local
    BY <1>2, <1>5 DEF IInv, Owned
  <1>8. \A g \in Fds : sk[g] # Nil => \/ \E u \in Created \ {s} : radmc[u].sock = g
                                      \/ \E w \in fwds : w.t = g \/ w.p = g
    BY <1>2 DEF IInv, Owned
  <1>9. Owned(sk, Created \ {s}, fwds)
    <2>1. \A g, h \in Fds : sk[g] \in Links /\ sk[g] = sk[h] => g = h
      BY <1>2, NilAssumption DEF IInv, Owned
    <2> HIDE DEF sk
    <2> QED
      BY <1>2, <1>6, <1>7, <1>8, <2>1 DEF IInv, Owned
  <1>10. ResetReg(s) = RegOf(Created \ {s}, fwds)
    BY DEF IInv, ResetReg, RegOf
  <1> QED
    BY <1>9, <1>10

\* do_forward hands the connection of a service over to a new session.
LEMMA HandOverOwned ==
    ASSUME NEW s \in Services, IInv, s \in Created, Free(sock) # {},
           NEW g, g = NextFd(sock),
           NEW w, w = [t |-> radmc[s].sock, p |-> g, enc |-> radmc[s].enc,
                       dec |-> sock[radmc[s].sock], serves |-> s]
    PROVE  /\ Owned([sock EXCEPT ![g] = Local], Created \ {s}, fwds \cup {w})
           /\ (reg \ {<<w.t, "radmc", s>>}) \cup {<<w.t, "fwd", w.t>>, <<g, "fwd", w.t>>}
                   = RegOf(Created \ {s}, fwds \cup {w})
  <1> DEFINE sk == [sock EXCEPT ![g] = Local]
  <1>1. g \in Fds /\ sock[g] = Nil
    BY NextIsFree
  <1>2. sock \in [Fds -> Links \cup {Local, Nil}] /\ radmc[s] \in RadmcRec
    BY DEF IInv, Owned
  <1>3. /\ sk \in [Fds -> Links \cup {Local, Nil}]
        /\ sk[g] = Local
        /\ \A f \in Fds : f # g => sk[f] = sock[f]
    BY <1>1, <1>2
  <1>4. \A u \in Created : radmc[u].sock \in Fds /\ radmc[u].sock # g
    BY <1>1, NilAssumption DEF IInv, Owned, RadmcRec
  <1>5. \A v \in fwds : v.t \in Fds /\ v.p \in Fds /\ v.t # g /\ v.p # g
    BY <1>1, NilAssumption DEF IInv, Owned, FwdRec
  <1>6. /\ w \in FwdRec /\ w.t = radmc[s].sock /\ w.p = g
        /\ w.enc = radmc[s].enc /\ w.dec = w.enc /\ sock[w.t] = w.enc
    BY <1>1, <1>2 DEF IInv, Owned, RadmcRec, FwdRec
  <1>7. \A u \in Created \ {s} : radmc[u] \in RadmcRec /\ sk[radmc[u].sock] = radmc[u].enc
    BY <1>3, <1>4 DEF IInv, Owned
  <1>8. \A v \in fwds \cup {w} : v \in FwdRec /\ sk[v.t] = v.enc /\ v.dec = v.enc /\ sk[v.p] = Local
    BY <1>3, <1>4, <1>5, <1>6 DEF IInv, Owned
  <1>9. \A u, v \in Created \ {s} : radmc[u].sock = radmc[v].sock => u = v
    BY DEF IInv, Owned
  <1>10. \A u \in Created \ {s}, v \in fwds \cup {w} : radmc[u].sock # v.t
    BY <1>6 DEF IInv, Owned
  <1>11. \A v, x \in fwds \cup {w} : v.t = x.t \/ v.p = x.p => v = x
    BY <1>5, <1>6 DEF IInv, Owned
  <1>12. \A f \in Fds : sk[f] # Nil => \/ \E u \in Created \ {s} : radmc[u].sock = f
                                       \/ \E v \in fwds \cup {w} : v.t = f \/ v.p = f
    <2> SUFFICES ASSUME NEW f \in Fds, sk[f] # Nil
                 PROVE  \/ \E u \in Created \ {s} : radmc[u].sock = f
                        \/ \E v \in fwds \cup {w} : v.t = f \/ v.p = f
      OBVIOUS
    <2>1. CASE f = g
      BY <2>1, <1>6
    <2>2. CASE f # g
      <3>1. \/ \E u \in Created : radmc[u].sock = f
            \/ \E v \in fwds : v.t = f \/ v.p = f
        BY <2>2, <1>3 DEF IInv, Owned
      <3> QED
        BY <3>1, <1>6
    <2> QED
      BY <2>1, <2>2
  <1>13. Owned(sk, Created \ {s}, fwds \cup {w})
    <2>1. \A f, h \in Fds : sk[f] \in Links /\ sk[f] = sk[h] => f = h
      BY <1>3, NilAssumption DEF IInv, Owned
    <2> HIDE DEF sk
    <2> QED
      BY <1>3, <1>7, <1>8, <1>9, <1>10, <1>11, <1>12, <2>1 DEF Owned
  <1>14. (reg \ {<<w.t, "radmc", s>>}) \cup {<<w.t, "fwd", w.t>>, <<g, "fwd", w.t>>}
             = RegOf(Created \ {s}, fwds \cup {w})
    <2>1. reg \ {<<w.t, "radmc", s>>} = RegOf(Created \ {s}, fwds)
      BY <1>6 DEF IInv, RegOf
    <2>2. RegOf(Created \ {s}, fwds \cup {w})
              = RegOf(Created \ {s}, fwds) \cup {<<w.t, "fwd", w.t>>, <<g, "fwd", w.t>>}
      BY <1>6 DEF RegOf
    <2> QED
      BY <2>1, <2>2
  <1> QED
    BY <1>13, <1>14

-----------------------------------------------------------------------------
(* Each action preserves the invariant.                                    *)

LEMMA CreateInv == IInv /\ Create => IInv'
  <1> SUFFICES ASSUME IInv, Create
               PROVE  IInv'
    OBVIOUS
  <1>1. PICK u \in Services : radmc[u] = Nil
    BY DEF Create
  <1>2. \E s \in Services : radmc[s] = Nil /\ \A v \in Services : radmc[v] = Nil => v <= s
    <2>1. CASE 1 \in Services /\ radmc[1] = Nil
      BY <2>1, ServicesAssumption
    <2>2. CASE ~(1 \in Services /\ radmc[1] = Nil)
      <3>1. u = 0 /\ \A v \in Services : radmc[v] = Nil => v = 0
        BY <1>1, <2>2, ServicesAssumption
      <3> QED
        BY <1>1, <3>1
    <2> QED
      BY <2>1, <2>2
  <1>3. NextService \in Services /\ radmc[NextService] = Nil
    BY <1>2 DEF NextService
  <1>4. Created \ {NextService} = Created
    BY <1>3 DEF Created
  <1>5. Owned(sock, Created \ {NextService}, fwds) /\ reg = RegOf(Created \ {NextService}, fwds)
    BY <1>4 DEF IInv
  <1>6. Reconnect(NextService, sock, reg, fwds)
    BY DEF Create
  <1> QED
    BY <1>3, <1>5, <1>6, ReconnectInv

LEMMA LostInv == ASSUME NEW s \in Services, IInv, Lost(s) \/ LocalFails(s)
                 PROVE  IInv'
  <1>1. s \in Created
    BY WaitsCreated DEF Lost, LocalFails
  <1>2. Reconnect(s, ResetSock(s), ResetReg(s), fwds)
    BY DEF Lost, LocalFails
  <1> QED
    BY <1>1, <1>2, ResetOwned, ReconnectInv

LEMMA KeepAliveInv == ASSUME NEW s \in Services, IInv, KeepAlive(s)
                      PROVE  IInv'
  <1>1. s \in Created
    BY DEF KeepAlive, IInv, AllCreated
  <1>2. Reconnect(s, ResetSock(s), ResetReg(s), fwds)
    BY DEF KeepAlive
  <1> QED
    BY <1>1, <1>2, ResetOwned, ReconnectInv

LEMMA HandOverInv == ASSUME NEW s \in Services, IInv, HandOver(s)
                     PROVE  IInv'
  <1> DEFINE g == NextFd(sock)
             w == [t |-> radmc[s].sock, p |-> g, enc |-> radmc[s].enc,
                   dec |-> sock[radmc[s].sock], serves |-> s]
             sk == [sock EXCEPT ![g] = Local]
             rg == (reg \ {<<w.t, "radmc", s>>}) \cup {<<w.t, "fwd", w.t>>, <<g, "fwd", w.t>>}
  <1>1. s \in Created /\ Free(sock) # {}
    BY WaitsCreated DEF HandOver
  <1>2. Reconnect(s, sk, rg, fwds \cup {w})
    BY DEF HandOver
  <1>3. Owned(sk, Created \ {s}, fwds \cup {w}) /\ rg = RegOf(Created \ {s}, fwds \cup {w})
    BY <1>1, HandOverOwned
  <1> HIDE DEF g, w, sk, rg
  <1> QED
    BY <1>2, <1>3, ReconnectInv

LEMMA FwdReleaseInv == ASSUME NEW w \in fwds, IInv, FwdRelease(w)
                       PROVE  IInv'
  <1>1. /\ w \in FwdRec
        /\ sock[w.t] \in Links /\ sock[w.p] = Local /\ w.t \in Fds /\ w.p \in Fds
    BY DEF IInv, Owned, FwdRec
  <1>2. /\ fwds' = fwds \ {w}
        /\ reg' = reg \ {<<w.t, "fwd", w.t>>, <<w.p, "fwd", w.t>>}
        /\ sock' = [sock EXCEPT ![w.t] = Nil, ![w.p] = Nil]
        /\ phase' = phase /\ radmc' = radmc
    BY DEF FwdRelease
  <1>3. Created' = Created
    BY <1>2 DEF Created
  <1>4. /\ sock' \in [Fds -> Links \cup {Local, Nil}]
        /\ sock'[w.t] = Nil /\ sock'[w.p] = Nil
        /\ \A f \in Fds : f # w.t /\ f # w.p => sock'[f] = sock[f]
    BY <1>1, <1>2 DEF IInv, Owned
  <1>5. \A u \in Created : radmc[u].sock \in Fds /\ radmc[u].sock # w.t /\ radmc[u].sock # w.p
    BY <1>1, NilAssumption DEF IInv, Owned, RadmcRec
  <1>6. \A v \in fwds \ {w} : /\ v.t \in Fds /\ v.t # w.t /\ v.t # w.p
                             /\ v.p \in Fds /\ v.p # w.t /\ v.p # w.p
    <2> SUFFICES ASSUME NEW v \in fwds \ {w}
                 PROVE  /\ v.t \in Fds /\ v.t # w.t /\ v.t # w.p
                        /\ v.p \in Fds /\ v.p # w.t /\ v.p # w.p
      OBVIOUS
    <2>1. v.t \in Fds /\ v.p \in Fds /\ sock[v.t] \in Links /\ sock[v.p] = Local
      BY DEF IInv, Owned, FwdRec
    <2>2. v.t # w.t /\ v.p # w.p
      BY DEF IInv, Owned
    <2> QED
      BY <2>1, <2>2, <1>1, NilAssumption
  <1>7. \A f \in Fds : sock'[f] # Nil => \/ \E u \in Created : radmc[u].sock = f
                                         \/ \E v \in fwds \ {w} : v.t = f \/ v.p = f
    BY <1>4 DEF IInv, Owned
  <1>8. Owned(sock, Created, fwds)'
    <2>1. \A u \in Created' : radmc'[u] \in RadmcRec /\ sock'[radmc'[u].sock] = radmc'[u].enc
      BY <1>2, <1>3, <1>4, <1>5 DEF IInv, Owned
    <2>2. \A v \in fwds' : v \in FwdRec /\ sock'[v.t] = v.enc /\ v.dec = v.enc /\ sock'[v.p] = Local
      BY <1>2, <1>4, <1>6 DEF IInv, Owned
    <2>3. /\ \A u, x \in Created' : radmc'[u].sock = radmc'[x].sock => u = x
          /\ \A u \in Created', v \in fwds' : radmc'[u].sock # v.t
          /\ \A v, x \in fwds' : v.t = x.t \/ v.p = x.p => v = x
      BY <1>2, <1>3 DEF IInv, Owned
    <2>4. \A f, g \in Fds : sock'[f] \in Links /\ sock'[f] = sock'[g] => f = g
      BY <1>1, <1>4, NilAssumption DEF IInv, Owned
    <2> QED
      BY <1>2, <1>3, <1>4, <1>7, <2>1, <2>2, <2>3, <2>4 DEF Owned
  <1>9. reg' = RegOf(Created, fwds)'
    <2>1. RegOf(Created, fwds)' = RegOf(Created, fwds \ {w})
      BY <1>2, <1>3 DEF RegOf
    <2>2. RegOf(Created, fwds) = RegOf(Created, fwds \ {w}) \cup {<<w.t, "fwd", w.t>>, <<w.p, "fwd", w.t>>}
      BY DEF RegOf
    <2>3. /\ <<w.t, "fwd", w.t>> \notin RegOf(Created, fwds \ {w})
          /\ <<w.p, "fwd", w.t>> \notin RegOf(Created, fwds \ {w})
      BY <1>6 DEF RegOf
    <2> QED
      BY <1>2, <2>1, <2>2, <2>3 DEF IInv
  <1>10. TypeOK'
    <2>1. reg' \subseteq reg /\ fwds' \subseteq fwds
      BY <1>2
    <2> QED
      BY <1>2, <1>4, <2>1 DEF IInv, TypeOK
  <1> QED
    BY <1>2, <1>3, <1>8, <1>9, <1>10 DEF IInv, AllCreated

LEMMA OtherInv == IInv /\ (Start \/ AppRun \/ UNCHANGED vars) => IInv'
  <1> SUFFICES ASSUME IInv, Start \/ AppRun \/ UNCHANGED vars
               PROVE  IInv'
    OBVIOUS
  <1>1. UNCHANGED <<sock, reg, radmc, fwds>>
    BY DEF Start, AppRun, vars
  <1>2. Owned(sock, Created, fwds)' /\ reg' = RegOf(Created, fwds)' /\ Created' = Created
    BY <1>1 DEF IInv, Owned, RegOf, Created
  <1>3. TypeOK' /\ AllCreated'
    BY <1>1 DEF IInv, TypeOK, AllCreated, Created, Start, AppRun, vars
  <1> QED
    BY <1>2, <1>3 DEF IInv

LEMMA Inductive == IInv /\ [Next]_vars => IInv'
  <1> SUFFICES ASSUME IInv, [Next]_vars
               PROVE  IInv'
    OBVIOUS
  <1>1. ASSUME Start \/ AppRun \/ UNCHANGED vars
        PROVE  IInv'
    BY <1>1, OtherInv
  <1>2. ASSUME Create
        PROVE  IInv'
    BY <1>2, CreateInv
  <1>3. ASSUME NEW s \in Services, Lost(s) \/ LocalFails(s)
        PROVE  IInv'
    BY <1>3, LostInv
  <1>4. ASSUME NEW s \in Services, HandOver(s)
        PROVE  IInv'
    BY <1>4, HandOverInv
  <1>5. ASSUME NEW s \in Services, KeepAlive(s)
        PROVE  IInv'
    BY <1>5, KeepAliveInv
  <1>6. ASSUME NEW w \in fwds, FwdRelease(w)
        PROVE  IInv'
    BY <1>6, FwdReleaseInv
  <1>7. ASSUME Killed
        PROVE  IInv'
    BY <1>7, ExitInv DEF Killed
  <1> QED
    BY <1>1, <1>2, <1>3, <1>4, <1>5, <1>6, <1>7 DEF Next

-----------------------------------------------------------------------------
(* What the invariant says of the client.                                  *)

\* Between callbacks of the client, IInv holds: every socket has one owner, and
\* the registry is that of the owners.
THEOREM Invariance == Spec => []IInv
  BY InitInv, Inductive, PTL DEF Spec

\* The types of the client's sockets, registrations and structures.
THEOREM TypeCorrect == Spec => []TypeOK
  <1>1. IInv => TypeOK
    BY DEF IInv
  <1> QED
    BY <1>1, Invariance, PTL

\* Whatever happens to a connection, the running client waits for each of its
\* services on a registered one.
THEOREM WaitsAlways == Spec => []AlwaysWaits
  <1>1. IInv => AlwaysWaits
    BY DEF IInv, AllCreated, Created, RegOf, AlwaysWaits, Waits
  <1> QED
    BY <1>1, Invariance, PTL

\* The callbacks registered are those of the waiting connections and of the
\* sessions.
THEOREM RegistryIsExact == Spec => []RegistryExact
  <1>1. IInv => RegistryExact
    BY DEF IInv, RegOf, RegistryExact
  <1> QED
    BY <1>1, Invariance, PTL

\* No descriptor leaks, none is closed or read by two owners, and no keystream
\* outlives the connection it was set up for.
THEOREM DescriptorsOwned == Spec => []SocketsOwned
  <1>1. ASSUME IInv, NEW f \in Fds
        PROVE  IF sock[f] = Nil THEN Owners(f) = {}
               ELSE \E o \in Owners(f) : Owners(f) = {o} /\ sock[f] \in EndOf[o[1]]
    <2>1. CASE sock[f] = Nil
      <3>1. \A s \in Created : radmc[s].sock # f
        BY <1>1, <2>1, NilAssumption DEF IInv, Owned, RadmcRec
      <3>2. \A w \in fwds : w.t # f /\ w.p # f
        BY <1>1, <2>1, NilAssumption DEF IInv, Owned, FwdRec
      <3> QED
        BY <2>1, <3>1, <3>2 DEF Owners
    <2>2. CASE \E s \in Created : radmc[s].sock = f
      <3>1. PICK s \in Created : radmc[s].sock = f
        BY <2>2
      <3>2. sock[f] \in Links /\ sock[f] # Nil
        BY <1>1, <3>1, NilAssumption DEF IInv, Owned, RadmcRec
      <3>3. \A u \in Created : radmc[u].sock = f => u = s
        BY <1>1, <3>1 DEF IInv, Owned
      <3>4. \A w \in fwds : w.t # f /\ w.p # f
        BY <1>1, <3>1, <3>2, NilAssumption DEF IInv, Owned
      <3>5. Owners(f) = {<<"waiting", s>>}
        BY <3>1, <3>3, <3>4 DEF Owners
      <3> QED
        BY <3>2, <3>5 DEF EndOf
    <2>3. CASE \E w \in fwds : w.t = f
      <3>1. PICK w \in fwds : w.t = f
        BY <2>3
      <3>2. sock[f] \in Links /\ sock[f] # Nil
        BY <1>1, <3>1, NilAssumption DEF IInv, Owned, FwdRec
      <3>3. \A s \in Created : radmc[s].sock # f
        BY <1>1, <3>1 DEF IInv, Owned
      <3>4. /\ \A v \in fwds : v.t = f => v = w
            /\ \A v \in fwds : v.p # f
        BY <1>1, <3>1, <3>2, NilAssumption DEF IInv, Owned
      <3>5. Owners(f) = {<<"server", w>>}
        BY <3>1, <3>3, <3>4 DEF Owners
      <3> QED
        BY <3>2, <3>5 DEF EndOf
    <2>4. CASE \E w \in fwds : w.p = f
      <3>1. PICK w \in fwds : w.p = f
        BY <2>4
      <3>2. sock[f] = Local
        BY <1>1, <3>1 DEF IInv, Owned
      <3>3. \A s \in Created : radmc[s].sock # f
        BY <1>1, <3>2, NilAssumption DEF IInv, Owned, RadmcRec
      <3>4. /\ \A v \in fwds : v.p = f => v = w
            /\ \A v \in fwds : v.t # f
        BY <1>1, <3>1, <3>2, NilAssumption DEF IInv, Owned, FwdRec
      <3>5. Owners(f) = {<<"local", w>>}
        BY <3>1, <3>3, <3>4 DEF Owners
      <3> QED
        BY <3>2, <3>5, NilAssumption DEF EndOf
    <2> QED
      BY <1>1, <2>1, <2>2, <2>3, <2>4 DEF IInv, Owned
  <1>2. IInv => KeystreamInSync
    BY DEF IInv, Owned, KeystreamInSync
  <1>3. IInv => SocketsOwned
    BY <1>1, <1>2 DEF SocketsOwned, OneOwner
  <1> QED
    BY <1>3, Invariance, PTL

-----------------------------------------------------------------------------
(* The client implements Device.                                           *)

\* Under the invariant the keystreams tell the links.
KeyView == /\ Offer = [s \in (IF Running THEN Services ELSE {}) |-> radmc[s].enc]
           /\ Sessions = {<<w.enc, w.serves>> : w \in fwds}

LEMMA DeviceView == IInv => KeyView
  <1> SUFFICES ASSUME IInv
               PROVE  KeyView
    OBVIOUS
  <1>1. Running => \A s \in Services : sock[radmc[s].sock] = radmc[s].enc
    BY DEF IInv, AllCreated, Owned, Running
  <1>2. \A w \in fwds : sock[w.t] = w.enc
    BY DEF IInv, Owned
  <1> QED
    BY <1>1, <1>2 DEF KeyView, Offer, Sessions

LEMMA DeviceViewNext == IInv' => KeyView'
  BY DeviceView, PTL

LEMMA ExitDies == Exit => Promise!Die
  BY DEF Exit, Promise!Die, Promise!None, Running, Offer, Sessions

\* A link that nothing else uses has replaced that of s, with the sessions fw.
Renewed(s, fw) ==
    \E k \in Links :
        /\ radmc'[s].enc = k /\ \A u \in Services : u # s => radmc'[u] = radmc[u]
        /\ fwds' = fw
        /\ phase' = phase
        /\ \A u \in Created \ {s} : radmc[u].enc # k
        /\ \A w \in fw : w.enc # k

\* radmc_reconnect, when it does not exit, takes an unused link.
LEMMA ReconnectView ==
    ASSUME NEW s \in Services, NEW STATE sk, NEW STATE rg, NEW STATE fw,
           IInv, Owned(sk, Created \ {s}, fw), Reconnect(s, sk, rg, fw), ~Exit
    PROVE  Renewed(s, fw)
  <1>1. PICK k \in Links : /\ \A f \in Fds : sk[f] # k
                           /\ Connect(s, k, sk, rg)
                           /\ fwds' = fw
                           /\ UNCHANGED phase
    BY DEF Reconnect
  <1>2. radmc' = [radmc EXCEPT ![s] = [sock |-> NextFd(sk), enc |-> k]]
    BY <1>1 DEF Connect
  <1>3. radmc'[s] = [sock |-> NextFd(sk), enc |-> k]
    BY <1>2 DEF IInv, TypeOK
  <1>4. \A u \in Created \ {s} : radmc[u].enc # k
    BY <1>1 DEF Owned, RadmcRec
  <1>5. \A w \in fw : w.enc # k
    BY <1>1 DEF Owned, FwdRec
  <1> QED
    BY <1>1, <1>2, <1>3, <1>4, <1>5 DEF Renewed, IInv, TypeOK

\* A connection that is replaced: Renew.
LEMMA RenewStep ==
    ASSUME NEW s \in Services, IInv, IInv', phase = "loop", s \in Created,
           Reconnect(s, ResetSock(s), ResetReg(s), fwds)
    PROVE  Promise!Next
  <1>1. CASE Exit
    BY <1>1, ExitDies DEF Promise!Next
  <1>2. CASE ~Exit
    <2>7. Renewed(s, fwds)
      BY <1>2, ResetOwned, ReconnectView
    <2>1. PICK k \in Links :
              /\ radmc'[s].enc = k /\ \A u \in Services : u # s => radmc'[u] = radmc[u]
              /\ fwds' = fwds
              /\ phase' = phase
              /\ \A u \in Created \ {s} : radmc[u].enc # k
              /\ \A w \in fwds : w.enc # k
      BY <2>7 DEF Renewed
    <2>2. Running /\ Running' /\ Created = Services
      BY <2>1 DEF Running, IInv, AllCreated
    <2>3. Offer' = [Offer EXCEPT ![s] = k]
      BY <2>1, <2>2, DeviceView, DeviceViewNext DEF KeyView
    <2>4. Sessions' = Sessions
      BY <2>1, DeviceView, DeviceViewNext DEF KeyView
    <2>5. k \notin Promise!Used \ {Offer[s]}
      BY <2>1, <2>2, DeviceView DEF Promise!Used, Promise!Offered, KeyView
    <2>6. Promise!Renew(s, k)
      BY <2>2, <2>3, <2>4, <2>5 DEF Promise!Renew
    <2> QED
      BY <2>6 DEF Promise!Next
  <1> QED
    BY <1>1, <1>2

\* The first byte came: HandOver.
LEMMA HandOverStep ==
    ASSUME NEW s \in Services, IInv, IInv', HandOver(s)
    PROVE  Promise!Next
  <1> DEFINE g == NextFd(sock)
             w == [t |-> radmc[s].sock, p |-> g, enc |-> radmc[s].enc,
                   dec |-> sock[radmc[s].sock], serves |-> s]
             sk == [sock EXCEPT ![g] = Local]
             rg == (reg \ {<<w.t, "radmc", s>>}) \cup {<<w.t, "fwd", w.t>>, <<g, "fwd", w.t>>}
  <1>1. s \in Created /\ Free(sock) # {} /\ phase = "loop"
    BY WaitsCreated DEF HandOver, Waits
  <1>2. Reconnect(s, sk, rg, fwds \cup {w})
    BY DEF HandOver
  <1>3. Owned(sk, Created \ {s}, fwds \cup {w})
    BY <1>1, HandOverOwned
  <1>4. w.enc = radmc[s].enc /\ w.serves = s
    OBVIOUS
  <1> HIDE DEF g, w, sk, rg
  <1>5. CASE Exit
    BY <1>5, ExitDies DEF Promise!Next
  <1>6. CASE ~Exit
    <2>7. Renewed(s, fwds \cup {w})
      BY <1>2, <1>3, <1>6, ReconnectView
    <2>1. PICK k \in Links :
              /\ radmc'[s].enc = k /\ \A u \in Services : u # s => radmc'[u] = radmc[u]
              /\ fwds' = fwds \cup {w}
              /\ phase' = phase
              /\ \A u \in Created \ {s} : radmc[u].enc # k
              /\ \A v \in fwds \cup {w} : v.enc # k
      BY <2>7 DEF Renewed
    <2>2. Running /\ Running' /\ Created = Services
      BY <1>1, <2>1 DEF Running, IInv, AllCreated
    <2>3. Offer' = [Offer EXCEPT ![s] = k]
      BY <2>1, <2>2, DeviceView, DeviceViewNext DEF KeyView
    <2>4. Sessions' = Sessions \cup {<<Offer[s], s>>}
      BY <1>4, <2>1, <2>2, DeviceView, DeviceViewNext DEF KeyView
    <2>5. k \notin Promise!Used
      BY <1>4, <2>1, <2>2, DeviceView DEF Promise!Used, Promise!Offered, KeyView
    <2>6. Promise!HandOver(s, k)
      BY <2>2, <2>3, <2>4, <2>5 DEF Promise!HandOver
    <2> QED
      BY <2>6 DEF Promise!Next
  <1> QED
    BY <1>5, <1>6

\* app_run: Boot.
LEMMA AppRunStep == ASSUME IInv, IInv', AppRun
                    PROVE  Promise!Next
  <1>1. Created = Services /\ ~Running /\ Running' /\ UNCHANGED <<sock, radmc, fwds>>
    BY DEF AppRun, Running, Created
  <1>2. Offer' = [s \in Services |-> radmc[s].enc]
    BY <1>1, DeviceViewNext DEF KeyView
  <1>3. Offer' \in [Services -> Links]
    BY <1>1, <1>2 DEF IInv, Owned, RadmcRec
  <1>4. \A v, u \in Services : Offer'[v] = Offer'[u] => v = u
    <2>1. \A v \in Services : /\ Offer'[v] = sock[radmc[v].sock] /\ radmc[v].sock \in Fds
                             /\ sock[radmc[v].sock] \in Links
      BY <1>1, <1>2 DEF IInv, Owned, RadmcRec
    <2> QED
      BY <1>1, <2>1 DEF IInv, Owned
  <1>5. Sessions' = Sessions
    BY <1>1, DeviceView, DeviceViewNext DEF KeyView
  <1>6. Promise!Boot(Offer')
    BY <1>1, <1>4, <1>5 DEF Promise!Boot
  <1> QED
    BY <1>3, <1>6 DEF Promise!Next

\* fwd_release: End.
LEMMA FwdReleaseStep == ASSUME NEW w \in fwds, IInv, IInv', FwdRelease(w)
                        PROVE  Promise!Next
  <1>1. fwds' = fwds \ {w} /\ phase' = phase /\ radmc' = radmc
    BY DEF FwdRelease
  <1>2. \A v \in fwds : v.enc = w.enc => v = w
    <2>1. \A v \in fwds : v.t \in Fds /\ sock[v.t] = v.enc /\ v.enc \in Links
      BY DEF IInv, Owned, FwdRec
    <2>2. \A v \in fwds : v.enc = w.enc => v.t = w.t
      BY <2>1 DEF IInv, Owned
    <2> QED
      BY <2>2 DEF IInv, Owned
  <1>3. Sessions' = Sessions \ {<<w.enc, w.serves>>}
    BY <1>1, <1>2, DeviceView, DeviceViewNext DEF KeyView
  <1>4. Running' = Running /\ Offer' = Offer
    BY <1>1, DeviceView, DeviceViewNext DEF Running, KeyView
  <1>5. <<w.enc, w.serves>> \in Sessions /\ Promise!End(<<w.enc, w.serves>>)
    BY <1>3, <1>4, DeviceView DEF Promise!End, KeyView
  <1> QED
    BY <1>5 DEF Promise!Next

\* The steps of main before app_run: a stutter, or the end of the process.
LEMMA OtherStep == ASSUME IInv, IInv', Start \/ Create \/ UNCHANGED vars
                   PROVE  Promise!Next \/ UNCHANGED Promise!vars
  <1>1. CASE Exit
    BY <1>1, ExitDies DEF Promise!Next
  <1>2. CASE ~Exit
    <2>1. Running' = Running /\ fwds' = fwds /\ (Running => radmc' = radmc)
      BY <1>2 DEF Start, Create, Reconnect, vars, Running
    <2>2. Offer' = Offer /\ Sessions' = Sessions
      BY <2>1, DeviceView, DeviceViewNext DEF KeyView
    <2> QED
      BY <2>1, <2>2 DEF Promise!vars
  <1> QED
    BY <1>1, <1>2

LEMMA NextStep == IInv /\ IInv' /\ [Next]_vars => [Promise!Next]_(Promise!vars)
  <1> SUFFICES ASSUME IInv, IInv', [Next]_vars
               PROVE  Promise!Next \/ UNCHANGED Promise!vars
    OBVIOUS
  <1>1. ASSUME Start \/ Create \/ UNCHANGED vars
        PROVE  Promise!Next \/ UNCHANGED Promise!vars
    BY <1>1, OtherStep
  <1>2. ASSUME AppRun
        PROVE  Promise!Next
    BY <1>2, AppRunStep
  <1>3. ASSUME NEW s \in Services, Lost(s) \/ LocalFails(s) \/ KeepAlive(s)
        PROVE  Promise!Next
    <2>1. phase = "loop" /\ s \in Created
      BY <1>3, WaitsCreated DEF Lost, LocalFails, KeepAlive, Waits, IInv, AllCreated
    <2>2. Reconnect(s, ResetSock(s), ResetReg(s), fwds)
      BY <1>3 DEF Lost, LocalFails, KeepAlive
    <2> QED
      BY <2>1, <2>2, RenewStep
  <1>4. ASSUME NEW s \in Services, HandOver(s)
        PROVE  Promise!Next
    BY <1>4, HandOverStep
  <1>5. ASSUME NEW w \in fwds, FwdRelease(w)
        PROVE  Promise!Next
    BY <1>5, FwdReleaseStep
  <1>6. ASSUME Killed
        PROVE  Promise!Next
    BY <1>6, ExitDies DEF Killed, Promise!Next
  <1> QED
    BY <1>1, <1>2, <1>3, <1>4, <1>5, <1>6 DEF Next

\* The client is a device: a link on offer per service as long as it runs, and
\* a link becomes a session only when it is the one on offer, once.
THEOREM Refinement == Spec => ImplementsDevice
  <1>1. Init => Promise!Init
    BY DEF Init, Promise!Init, Promise!None, Running, Offer, Sessions
  <1>2. IInv /\ IInv' /\ [Next]_vars => [Promise!Next]_(Promise!vars)
    BY NextStep
  <1> QED
    BY <1>1, <1>2, Invariance, PTL DEF Spec, ImplementsDevice, Promise!Spec
=============================================================================
