--------------------------- MODULE RadmServerProofs ---------------------------
(***************************************************************************)
(* Proofs about RadmServer, for every set of descriptors, connections,     *)
(* names and addresses: the list of services, who owns each descriptor,    *)
(* registration and keystream, and that the worker is a Broker.            *)
(***************************************************************************)
EXTENDS RadmServer, FiniteSetTheorems, SequenceTheorems, TLAPS

-----------------------------------------------------------------------------
(* The descriptor accept and socket return.                                *)

\* A set of natural numbers that is not empty has a lowest one.
LEMMA Lowest ==
    ASSUME NEW S, S \subseteq Nat, S # {}
    PROVE  \E f \in S : \A g \in S : f <= g
  <1>1. PICK m \in S : TRUE
    OBVIOUS
  <1> DEFINE T == {0 .. f : f \in {g \in S : g <= m}}
             R == StrictSubsetOrdering(0 .. m)
  <1>2. FiniteSubsetsOf(0 .. m) = SUBSET (0 .. m)
    <2>1. IsFiniteSet(0 .. m)
      BY <1>1, FS_Interval
    <2> QED
      BY <2>1, FS_FiniteSubsetsOfFinite
  <1>3. IsWellFoundedOn(R, SUBSET (0 .. m))
    BY <1>2, FS_StrictSubsetOrderingWellFounded
  <1>4. T \subseteq SUBSET (0 .. m) /\ T # {}
    BY <1>1
  <1>5. PICK I \in T : \A J \in T : ~(<<J, I>> \in R)
    <2> HIDE DEF T, R
    <2> QED
      BY <1>3, <1>4, WFMin, Zenon
  <1>6. PICK f \in S : f <= m /\ I = 0 .. f
    BY <1>5
  <1>7. ASSUME NEW g \in S, g < f
        PROVE  FALSE
    <2>1. g <= m /\ (0 .. g) \in T
      BY <1>1, <1>6, <1>7
    <2>2. f \in 0 .. f /\ f \notin 0 .. g
      BY <1>7
    <2>3. (0 .. g) \subseteq (0 .. f) /\ (0 .. g) # (0 .. f)
      BY <2>2, <1>7
    <2>4. <<0 .. g, 0 .. f>> \in R
      BY <2>1, <2>3, <1>4, <1>6 DEF StrictSubsetOrdering
    <2> QED
      BY <1>5, <1>6, <2>1, <2>4
  <1> QED
    BY <1>6, <1>7

LEMMA NextIsFree ==
    ASSUME FreeFds # {}
    PROVE  NextFd \in Fds /\ sock[NextFd] = Nil
  <1>1. FreeFds \subseteq Nat
    BY FdsAssumption DEF FreeFds
  <1>2. \E f \in FreeFds : \A g \in FreeFds : f <= g
    BY <1>1, Lowest
  <1>3. NextFd \in FreeFds
    BY <1>2 DEF NextFd
  <1> QED
    BY <1>3 DEF FreeFds

-----------------------------------------------------------------------------
(* The list of services.                                                   *)

Held(es) == {c \in Cli : es[c] # Nil}

Same(e, d) == e.id = d.id /\ e.kind = d.kind

\* The list holds the entries es, each once, in the order of their names, and
\* no two for one service.
Sorted(list, es) ==
    /\ list \in Seq(Cli)
    /\ {list[n] : n \in DOMAIN list} = Held(es)
    /\ \A m, n \in DOMAIN list : m < n => /\ es[list[m]].id <= es[list[n]].id
                                          /\ ~Same(es[list[m]], es[list[n]])

\* A set of places with all that come before each of them is a prefix.
LEMMA Prefix ==
    ASSUME NEW N \in Nat, NEW S \in SUBSET (1 .. N),
           \A n \in S : \A m \in 1 .. n : m \in S
    PROVE  Cardinality(S) \in 0 .. N /\ S = 1 .. Cardinality(S)
  <1> DEFINE k == Cardinality(S)
  <1>1. IsFiniteSet(1 .. N) /\ Cardinality(1 .. N) = N
    BY FS_Interval
  <1>2. IsFiniteSet(S) /\ k <= N /\ k \in Nat
    BY <1>1, FS_Subset, FS_CardinalityType
  <1>3. \A n \in S : n <= k
    <2> TAKE n \in S
    <2>1. (1 .. n) \in SUBSET S
      OBVIOUS
    <2>2. Cardinality(1 .. n) = n
      BY FS_Interval
    <2> QED
      BY <1>2, <2>1, <2>2, FS_Subset
  <1>4. S \in SUBSET (1 .. k)
    BY <1>2, <1>3
  <1>5. IsFiniteSet(1 .. k) /\ Cardinality(1 .. k) = k
    BY <1>2, FS_Interval
  <1>6. S = 1 .. k
    <2> HIDE DEF k
    <2> QED
      BY <1>4, <1>5, FS_Subset DEF k
  <1> QED
    BY <1>2, <1>6

\* Insert, place by place.
LEMMA InsertPlaces ==
    ASSUME clients \in Seq(Cli), NEW c \in Cli, NEW id \in Ids
    PROVE  \E k \in 0 .. Len(clients) :
               /\ \A n \in 1 .. k : cli[clients[n]].id <= id
               /\ k < Len(clients) => ~(cli[clients[k + 1]].id <= id)
               /\ Insert(clients, c, id) \in Seq(Cli)
               /\ Len(Insert(clients, c, id)) = Len(clients) + 1
               /\ \A n \in 1 .. Len(clients) + 1 :
                      Insert(clients, c, id)[n] = IF n <= k THEN clients[n]
                                               ELSE IF n = k + 1 THEN c ELSE clients[n - 1]
  <1> DEFINE S == {n \in DOMAIN clients : \A m \in 1 .. n : cli[clients[m]].id <= id}
             k == Cardinality(S)
             L == Len(clients)
             one == SubSeq(clients, 1, k)
             two == SubSeq(clients, k + 1, L)
  <1>1. L \in Nat /\ DOMAIN clients = 1 .. L
    OBVIOUS
  <1>2. S \in SUBSET (1 .. L) /\ \A n \in S : \A m \in 1 .. n : m \in S
    BY <1>1
  <1>3. k \in 0 .. L /\ S = 1 .. k
    <2> HIDE DEF S
    <2> QED
      BY <1>1, <1>2, Prefix
  <1>4. \A n \in 1 .. k : cli[clients[n]].id <= id
    BY <1>1, <1>3
  <1>5. k < L => ~(cli[clients[k + 1]].id <= id)
    <2> SUFFICES ASSUME k < L, cli[clients[k + 1]].id <= id
                 PROVE  FALSE
      OBVIOUS
    <2>1. k + 1 \in 1 .. L /\ k + 1 \notin 1 .. k
      BY <1>1, <1>3
    <2>2. \A m \in 1 .. k + 1 : cli[clients[m]].id <= id
      BY <1>3, <1>4
    <2>3. k + 1 \in S
      BY <1>1, <2>1, <2>2
    <2> QED
      BY <1>3, <2>1, <2>3
  <1>6. Insert(clients, c, id) = one \o <<c>> \o two
    BY DEF Insert
  <1> HIDE DEF S, k
  <1>7. /\ one \in Seq(Cli) /\ Len(one) = k /\ \A n \in 1 .. k : one[n] = clients[n]
    BY <1>1, <1>3
  <1>8. /\ two \in Seq(Cli) /\ Len(two) = L - k /\ \A n \in 1 .. L - k : two[n] = clients[k + n]
    <2>1. \A n \in k + 1 .. L : clients[n] \in Cli
      BY <1>1, <1>3
    <2>2. /\ two \in Seq(Cli)
          /\ Len(two) = IF k + 1 <= L THEN L - (k + 1) + 1 ELSE 0
          /\ \A n \in 1 .. L - (k + 1) + 1 : two[n] = clients[k + 1 + n - 1]
      BY <1>1, <1>3, <2>1, SubSeqProperties
    <2> HIDE DEF two, L
    <2> QED
      BY <1>1, <1>3, <2>2
  <1> HIDE DEF one, two
  <1> DEFINE lone == one \o <<c>>
  <1>9. /\ lone \in Seq(Cli) /\ Len(lone) = k + 1
        /\ \A n \in 1 .. k + 1 : lone[n] = IF n <= k THEN clients[n] ELSE c
    BY <1>3, <1>7
  <1> HIDE DEF lone
  <1>10. /\ lone \o two \in Seq(Cli) /\ Len(lone \o two) = Len(lone) + Len(two)
         /\ \A n \in 1 .. Len(lone) + Len(two) : (lone \o two)[n] =
                IF n <= Len(lone) THEN lone[n] ELSE two[n - Len(lone)]
    BY <1>8, <1>9, ConcatProperties
  <1>11. \A n \in 1 .. L + 1 : (lone \o two)[n] =
             IF n <= k THEN clients[n] ELSE IF n = k + 1 THEN c ELSE clients[n - 1]
    <2> HIDE DEF L
    <2> QED
      BY <1>1, <1>3, <1>8, <1>9, <1>10
  <1>12. lone \o two \in Seq(Cli) /\ Len(lone \o two) = L + 1
    <2> HIDE DEF L
    <2> QED
      BY <1>1, <1>3, <1>8, <1>9, <1>10
  <1> QED
    BY <1>3, <1>4, <1>5, <1>6, <1>11, <1>12 DEF lone

\* An entry is found exactly if it is held, and then it is the only one.
LEMMA Finds ==
    ASSUME Sorted(clients, cli), NEW id, NEW kind
    PROVE  /\ Find(id, kind) = Nil =>
                  \A c \in Held(cli) : ~(cli[c].id = id /\ cli[c].kind = kind)
           /\ Find(id, kind) # Nil =>
                  /\ Find(id, kind) \in Held(cli)
                  /\ cli[Find(id, kind)].id = id
                  /\ cli[Find(id, kind)].kind = kind
                  /\ \A c \in Held(cli) : cli[c].id = id /\ cli[c].kind = kind => c = Find(id, kind)
  <1> DEFINE at == {n \in DOMAIN clients : /\ cli[clients[n]].id = id
                                           /\ cli[clients[n]].kind = kind}
             first == CHOOSE n \in at : \A m \in at : n <= m
  <1>1. /\ clients \in Seq(Cli) /\ DOMAIN clients \subseteq Nat
        /\ {clients[n] : n \in DOMAIN clients} = Held(cli)
    BY DEF Sorted
  <1>2. CASE at = {}
    <2>1. Find(id, kind) = Nil
      BY <1>2 DEF Find
    <2> QED
      BY <1>1, <1>2, <2>1
  <1>3. CASE at # {}
    <2>1. \E n \in at : \A m \in at : n <= m
      BY <1>1, <1>3, Lowest
    <2>2. first \in at
      BY <2>1
    <2>3. Find(id, kind) = clients[first]
      BY <1>3 DEF Find
    <2>4. \A m \in at : m = first
      BY <1>1, <2>2 DEF Sorted, Same
    <2>5. clients[first] \in Held(cli)
      BY <1>1, <2>2
    <2>6. \A c \in Held(cli) : cli[c].id = id /\ cli[c].kind = kind => c = clients[first]
      BY <1>1, <2>4
    <2>7. clients[first] # Nil
      BY <2>5, NilAssumption DEF Held
    <2> HIDE DEF first
    <2> QED
      BY <2>2, <2>3, <2>5, <2>6, <2>7
  <1> QED
    BY <1>2, <1>3

\* An entry for a new name and service goes where the order wants it.
LEMMA InsertSorted ==
    ASSUME Sorted(clients, cli), NEW c \in Cli, NEW id \in Ids, NEW kind, NEW es,
           cli[c] = Nil, Find(id, kind) = Nil,
           \A d \in Held(cli) : cli[d].id \in Ids,
           Held(es) = Held(cli) \cup {c},
           es[c].id = id, es[c].kind = kind,
           \A d \in Held(cli) : es[d].id = cli[d].id /\ es[d].kind = cli[d].kind
    PROVE  Sorted(Insert(clients, c, id), es)
  <1> DEFINE new == Insert(clients, c, id)
             L == Len(clients)
  <1>1. clients \in Seq(Cli) /\ L \in Nat /\ DOMAIN clients = 1 .. L
    BY DEF Sorted
  <1>2. PICK k \in 0 .. Len(clients) :
            /\ \A n \in 1 .. k : cli[clients[n]].id <= id
            /\ k < Len(clients) => ~(cli[clients[k + 1]].id <= id)
            /\ Insert(clients, c, id) \in Seq(Cli)
            /\ Len(Insert(clients, c, id)) = Len(clients) + 1
            /\ \A n \in 1 .. Len(clients) + 1 :
                   Insert(clients, c, id)[n] = IF n <= k THEN clients[n]
                                               ELSE IF n = k + 1 THEN c ELSE clients[n - 1]
    BY <1>1, InsertPlaces
  <1>3. /\ k \in 0 .. L /\ new \in Seq(Cli) /\ DOMAIN new = 1 .. L + 1
        /\ k < L => ~(cli[clients[k + 1]].id <= id)
        /\ \A n \in 1 .. L + 1 : new[n] = IF n <= k THEN clients[n]
                                          ELSE IF n = k + 1 THEN c ELSE clients[n - 1]
    BY <1>1, <1>2
  <1> HIDE DEF new, L
  <1>4. \A n \in 1 .. L : clients[n] \in Held(cli) /\ cli[clients[n]].id \in Nat
    BY <1>1, IdsAssumption DEF Sorted
  <1>5. \A m, n \in 1 .. L : m < n => /\ cli[clients[m]].id <= cli[clients[n]].id
                                      /\ ~Same(cli[clients[m]], cli[clients[n]])
    BY <1>1 DEF Sorted
  <1>6. id \in Nat
    BY IdsAssumption
  <1>7. \A n \in k + 1 .. L : id <= cli[clients[n]].id
    <2> TAKE n \in k + 1 .. L
    <2>1. k + 1 \in 1 .. L /\ k < L /\ n \in 1 .. L
      BY <1>1
    <2>2. cli[clients[k + 1]].id <= cli[clients[n]].id
      BY <1>4, <1>5, <2>1
    <2> QED
      BY <1>2, <1>3, <1>4, <1>6, <2>1, <2>2
  <1>8. {new[n] : n \in 1 .. L + 1} = Held(es)
    <2>1. \A n \in 1 .. L + 1 : new[n] \in Held(es)
      BY <1>1, <1>2, <1>3, <1>4
    <2>2. \A d \in Held(cli) : \E n \in 1 .. L + 1 : new[n] = d
      <3> TAKE d \in Held(cli)
      <3>1. PICK n \in 1 .. L : clients[n] = d
        BY <1>1 DEF Sorted
      <3>2. CASE n <= k
        BY <1>1, <1>2, <1>3, <3>1, <3>2
      <3>3. CASE n > k
        <4>1. n + 1 \in 1 .. L + 1 /\ ~(n + 1 <= k) /\ n + 1 # k + 1 /\ n + 1 - 1 = n
          BY <1>1, <3>3
        <4>2. new[n + 1] = clients[n]
          BY <1>2, <1>3, <4>1
        <4> QED
          BY <3>1, <4>1, <4>2
      <3> QED
        BY <3>2, <3>3
    <2>3. new[k + 1] = c /\ k + 1 \in 1 .. L + 1
      BY <1>1, <1>2, <1>3
    <2> QED
      BY <2>1, <2>2, <2>3
  <1>9. \A d \in Held(cli) : ~Same(cli[d], es[c])
    BY Finds DEF Same
  <1>10. ASSUME NEW m \in 1 .. L + 1, NEW n \in 1 .. L + 1, m < n
         PROVE  es[new[m]].id <= es[new[n]].id /\ ~Same(es[new[m]], es[new[n]])
    <2>1. CASE n <= k
      <3>1. m \in 1 .. L /\ n \in 1 .. L /\ new[m] = clients[m] /\ new[n] = clients[n]
        BY <1>1, <1>2, <1>3, <1>10, <2>1
      <3> QED
        BY <1>4, <1>5, <1>10, <3>1 DEF Same
    <2>2. CASE n = k + 1
      <3>1. m \in 1 .. k /\ m \in 1 .. L /\ new[m] = clients[m] /\ new[n] = c
        BY <1>1, <1>2, <1>3, <1>10, <2>2
      <3> QED
        BY <1>2, <1>3, <1>4, <1>9, <3>1 DEF Same
    <2>3. CASE m = k + 1
      <3>1. n - 1 \in k + 1 .. L /\ n - 1 \in 1 .. L /\ new[n] = clients[n - 1] /\ new[m] = c
        BY <1>1, <1>2, <1>3, <1>10, <2>3
      <3> QED
        BY <1>4, <1>7, <1>9, <3>1 DEF Same
    <2>4. CASE m <= k /\ n > k + 1
      <3>1. /\ m \in 1 .. L /\ n - 1 \in 1 .. L /\ m < n - 1
            /\ new[m] = clients[m] /\ new[n] = clients[n - 1]
        BY <1>1, <1>2, <1>3, <1>10, <2>4
      <3> QED
        BY <1>4, <1>5, <3>1 DEF Same
    <2>5. CASE m > k + 1
      <3>1. /\ m - 1 \in 1 .. L /\ n - 1 \in 1 .. L /\ m - 1 < n - 1
            /\ new[m] = clients[m - 1] /\ new[n] = clients[n - 1]
        BY <1>1, <1>2, <1>3, <1>10, <2>5
      <3> QED
        BY <1>4, <1>5, <3>1 DEF Same
    <2> QED
      BY <1>1, <1>10, <2>1, <2>2, <2>3, <2>4, <2>5
  <1> QED
    BY <1>2, <1>3, <1>8, <1>10 DEF Sorted, new

\* Without, place by place, and the order stays.
LEMMA WithoutSorted ==
    ASSUME NEW list, NEW es, NEW fs, NEW c, Sorted(list, es), c \in Held(es),
           Held(fs) = Held(es) \ {c},
           \A d \in Held(fs) : fs[d] = es[d]
    PROVE  Sorted(Without(list, c), fs)
  <1> DEFINE n == CHOOSE m \in DOMAIN list : list[m] = c
             L == Len(list)
             one == SubSeq(list, 1, n - 1)
             two == SubSeq(list, n + 1, L)
             new == one \o two
  <1>1. list \in Seq(Cli) /\ L \in Nat /\ DOMAIN list = 1 .. L
    BY DEF Sorted
  <1>2. n \in 1 .. L /\ list[n] = c
    BY <1>1 DEF Sorted
  <1>3. Without(list, c) = new
    BY DEF Without
  <1> HIDE DEF n
  <1>4. \A m \in 1 .. L : list[m] = c => m = n
    BY <1>1, <1>2 DEF Sorted, Same
  <1>5. /\ one \in Seq(Cli) /\ Len(one) = n - 1 /\ \A m \in 1 .. n - 1 : one[m] = list[m]
    BY <1>1, <1>2
  <1>6. /\ two \in Seq(Cli) /\ Len(two) = L - n /\ \A m \in 1 .. L - n : two[m] = list[n + m]
    <2>1. \A m \in n + 1 .. L : list[m] \in Cli
      BY <1>1, <1>2
    <2>2. /\ two \in Seq(Cli)
          /\ Len(two) = IF n + 1 <= L THEN L - (n + 1) + 1 ELSE 0
          /\ \A m \in 1 .. L - (n + 1) + 1 : two[m] = list[n + 1 + m - 1]
      BY <1>1, <1>2, <2>1, SubSeqProperties
    <2> HIDE DEF two, L
    <2> QED
      BY <1>1, <1>2, <2>2
  <1> HIDE DEF one, two
  <1>7. /\ new \in Seq(Cli) /\ Len(new) = Len(one) + Len(two)
        /\ \A m \in 1 .. Len(one) + Len(two) : new[m] =
               IF m <= Len(one) THEN one[m] ELSE two[m - Len(one)]
    BY <1>5, <1>6, ConcatProperties
  <1> HIDE DEF new, L
  <1>8. /\ new \in Seq(Cli) /\ DOMAIN new = 1 .. L - 1
        /\ \A m \in 1 .. L - 1 : new[m] = IF m < n THEN list[m] ELSE list[m + 1]
    <2>1. Len(new) = L - 1
      BY <1>1, <1>2, <1>5, <1>6, <1>7
    <2>2. \A m \in 1 .. L - 1 : new[m] = IF m < n THEN list[m] ELSE list[m + 1]
      BY <1>1, <1>2, <1>5, <1>6, <1>7
    <2> QED
      BY <1>7, <2>1, <2>2
  <1> DEFINE at(m) == IF m < n THEN m ELSE m + 1
  <1>9. \A m \in 1 .. L - 1 : at(m) \in 1 .. L /\ at(m) # n /\ new[m] = list[at(m)]
    BY <1>1, <1>2, <1>8
  <1>10. \A m \in 1 .. L : m # n => \E q \in 1 .. L - 1 : at(q) = m
    <2> TAKE m \in 1 .. L
    <2>1. CASE m < n
      BY <1>1, <1>2, <2>1
    <2>2. CASE m > n
      <3>1. m - 1 \in 1 .. L - 1 /\ at(m - 1) = m
        BY <1>1, <1>2, <2>2
      <3> QED
        BY <3>1
    <2> QED
      BY <1>1, <1>2, <2>1, <2>2
  <1>11. {new[m] : m \in 1 .. L - 1} = Held(fs)
    <2> HIDE DEF at
    <2>1. \A m \in 1 .. L - 1 : new[m] \in Held(fs)
      BY <1>1, <1>4, <1>9 DEF Sorted
    <2>2. \A d \in Held(fs) : \E m \in 1 .. L - 1 : new[m] = d
      <3> TAKE d \in Held(fs)
      <3>1. PICK m \in 1 .. L : list[m] = d /\ m # n
        BY <1>1, <1>2 DEF Sorted
      <3> QED
        BY <1>9, <1>10, <3>1
    <2> QED
      BY <2>1, <2>2
  <1>12. ASSUME NEW p \in 1 .. L - 1, NEW q \in 1 .. L - 1, p < q
         PROVE  fs[new[p]].id <= fs[new[q]].id /\ ~Same(fs[new[p]], fs[new[q]])
    <2>1. at(p) < at(q)
      BY <1>1, <1>2, <1>12
    <2> HIDE DEF at
    <2>2. new[p] = list[at(p)] /\ new[q] = list[at(q)] /\ at(p) \in 1 .. L /\ at(q) \in 1 .. L
      BY <1>9
    <2>3. fs[new[p]] = es[new[p]] /\ fs[new[q]] = es[new[q]]
      BY <1>11
    <2> QED
      BY <1>1, <2>1, <2>2, <2>3 DEF Sorted
  <1> QED
    BY <1>3, <1>8, <1>11, <1>12 DEF Sorted

-----------------------------------------------------------------------------
(* Descriptors, registrations and keystreams.                              *)

Typed(sk, cn, es, fw) ==
    /\ sk \in [Fds -> Remote \cup {Nil}]
    /\ cn \in [Fds -> ConnRec \cup {Nil}]
    /\ es \in [Cli -> CliRec \cup {Nil}]
    /\ fw \subseteq FwdRec

\* The sockets sk are those of the connections cn, the entries es and the
\* sessions fw: each is at the end its owner takes it for, with the keystream
\* of its link, no two owners share one, and none is without an owner.
Ends(sk, cn, es, fw) ==
    /\ \A f \in Fds : cn[f] # Nil => sk[f] \in Links /\ cn[f].dec = sk[f]
    /\ \A c \in Held(es) :
           /\ sk[es[c].l] = Listen
           /\ es[c].r = Nil => es[c].dec = Nil
           /\ es[c].r # Nil => /\ sk[es[c].r] \in Links
                               /\ es[c].dec = sk[es[c].r]
                               /\ cn[es[c].r] = Nil
    /\ \A w \in fw : /\ sk[w.t] \in Links /\ w.dec = sk[w.t] /\ cn[w.t] = Nil
                     /\ sk[w.p] \in Ips

Apart(es, fw) ==
    /\ \A c, d \in Held(es) : es[c].l = es[d].l => c = d
    /\ \A c, d \in Held(es) : es[c].r # Nil /\ es[c].r = es[d].r => c = d
    /\ \A c \in Held(es), w \in fw : es[c].r # w.t
    /\ \A v, w \in fw : v.t = w.t \/ v.p = w.p => v = w

Has(f, cn, es, fw) == \/ cn[f] # Nil
                      \/ \E c \in Held(es) : f = es[c].l \/ f = es[c].r
                      \/ \E w \in fw : f = w.t \/ f = w.p

Owned(sk, cn, es, fw) ==
    /\ Typed(sk, cn, es, fw)
    /\ Ends(sk, cn, es, fw)
    /\ Apart(es, fw)
    /\ \A f \in Fds : sk[f] # Nil => Has(f, cn, es, fw)
    /\ \A f, g \in Fds : sk[f] \in Links /\ sk[f] = sk[g] => f = g

RegOf(cn, es, fw) ==
    {<<f, "conn", f>> : f \in {g \in Fds : cn[g] # Nil}}
    \cup {<<es[c].l, "cli", c>> : c \in {d \in Held(es) : es[d].r # Nil}}
    \cup {<<w.t, "fwd", w.t>> : w \in fw} \cup {<<w.p, "fwd", w.t>> : w \in fw}

\* A descriptor that is free belongs to nobody.
LEMMA FreeIsNobodys ==
    ASSUME NEW sk, NEW cn, NEW es, NEW fw, Owned(sk, cn, es, fw),
           NEW f \in Fds, sk[f] = Nil
    PROVE  /\ cn[f] = Nil
           /\ \A c \in Held(es) : es[c].l # f /\ es[c].r # f
           /\ \A w \in fw : w.t # f /\ w.p # f
  <1>1. Nil \notin Links \cup Ips \cup {Listen} \cup Fds
    BY NilAssumption DEF Remote
  <1> QED
    BY <1>1 DEF Owned, Ends

\* radmsrv_accept_callback: a new connection has its descriptor to itself.
LEMMA OpenConn ==
    ASSUME NEW sk, NEW cn, NEW es, NEW fw, Owned(sk, cn, es, fw),
           NEW f \in Fds, sk[f] = Nil,
           NEW k \in Links, \A g \in Fds : sk[g] # k,
           NEW e \in ConnRec, e.dec = k,
           NEW sk2 \in [Fds -> Remote \cup {Nil}],
           sk2[f] = k, \A g \in Fds : g # f => sk2[g] = sk[g],
           NEW cn2 \in [Fds -> ConnRec \cup {Nil}],
           cn2[f] = e, \A g \in Fds : g # f => cn2[g] = cn[g]
    PROVE  Owned(sk2, cn2, es, fw) /\ RegOf(cn2, es, fw) = RegOf(cn, es, fw) \cup {<<f, "conn", f>>}
  <1>1. /\ Typed(sk, cn, es, fw) /\ Ends(sk, cn, es, fw) /\ Apart(es, fw)
    BY DEF Owned
  <1>2. Nil \notin Fds \cup Links \cup Ips \cup {Listen} \cup ConnRec \cup CliRec
    BY NilAssumption DEF Remote
  <1>3. /\ cn[f] = Nil
        /\ \A c \in Held(es) : es[c].l # f /\ es[c].r # f
        /\ \A w \in fw : w.t # f /\ w.p # f
    BY FreeIsNobodys
  <1>4. Typed(sk2, cn2, es, fw)
    BY <1>1 DEF Typed, Remote
  <1>5. /\ \A c \in Held(es) : es[c] \in CliRec
        /\ \A w \in fw : w \in FwdRec
    BY <1>1 DEF Typed, Held
  <1>6. Ends(sk2, cn2, es, fw)
    BY <1>1, <1>3, <1>5 DEF Ends, CliRec, FwdRec
  <1>7. \A g \in Fds : sk2[g] # Nil => Has(g, cn2, es, fw)
    BY <1>2 DEF Has, Owned
  <1>8. \A g, h \in Fds : sk2[g] \in Links /\ sk2[g] = sk2[h] => g = h
    BY DEF Owned
  <1>9. RegOf(cn2, es, fw) = RegOf(cn, es, fw) \cup {<<f, "conn", f>>}
    BY <1>2 DEF RegOf
  <1> QED
    BY <1>1, <1>4, <1>6, <1>7, <1>8, <1>9 DEF Owned

\* err_exit of radmsrv_conn_callback.
LEMMA CloseConn ==
    ASSUME NEW sk, NEW cn, NEW es, NEW fw, Owned(sk, cn, es, fw),
           NEW f \in Fds, cn[f] # Nil,
           NEW sk2 \in [Fds -> Remote \cup {Nil}],
           sk2[f] = Nil, \A g \in Fds : g # f => sk2[g] = sk[g],
           NEW cn2 \in [Fds -> ConnRec \cup {Nil}],
           cn2[f] = Nil, \A g \in Fds : g # f => cn2[g] = cn[g]
    PROVE  Owned(sk2, cn2, es, fw) /\ RegOf(cn2, es, fw) = RegOf(cn, es, fw) \ {<<f, "conn", f>>}
  <1>1. /\ Typed(sk, cn, es, fw) /\ Ends(sk, cn, es, fw) /\ Apart(es, fw)
    BY DEF Owned
  <1>2. /\ Nil \notin Links \cup Fds /\ sk[f] \in Links
        /\ Listen \notin Links /\ \A a \in Ips : a \notin Links
    BY <1>1, NilAssumption, EndsAssumption DEF Ends, Remote
  <1>3. /\ \A c \in Held(es) : es[c].l # f /\ es[c].r # f
        /\ \A w \in fw : w.t # f /\ w.p # f
    BY <1>1, <1>2 DEF Ends
  <1>4. Typed(sk2, cn2, es, fw)
    BY <1>1 DEF Typed
  <1>5. /\ \A c \in Held(es) : es[c] \in CliRec
        /\ \A w \in fw : w \in FwdRec
    BY <1>1 DEF Typed, Held
  <1>6. Ends(sk2, cn2, es, fw)
    BY <1>1, <1>3, <1>5 DEF Ends, CliRec, FwdRec
  <1>7. \A g \in Fds : sk2[g] # Nil => Has(g, cn2, es, fw)
    BY DEF Has, Owned
  <1>8. \A g, h \in Fds : sk2[g] \in Links /\ sk2[g] = sk2[h] => g = h
    BY <1>2 DEF Owned
  <1>9. RegOf(cn2, es, fw) = RegOf(cn, es, fw) \ {<<f, "conn", f>>}
    BY DEF RegOf
  <1> QED
    BY <1>1, <1>4, <1>6, <1>7, <1>8, <1>9 DEF Owned

\* radmsrv_new_client: the port of a new entry, whose device is not there yet.
LEMMA OpenPort ==
    ASSUME NEW sk, NEW cn, NEW es, NEW fw, Owned(sk, cn, es, fw),
           NEW f \in Fds, sk[f] = Nil,
           NEW c \in Cli, es[c] = Nil,
           NEW sk2 \in [Fds -> Remote \cup {Nil}],
           sk2[f] = Listen, \A g \in Fds : g # f => sk2[g] = sk[g],
           NEW es2 \in [Cli -> CliRec \cup {Nil}],
           es2[c] \in CliRec, \A d \in Cli : d # c => es2[d] = es[d],
           es2[c].l = f, es2[c].r = Nil, es2[c].dec = Nil
    PROVE  Owned(sk2, cn, es2, fw) /\ RegOf(cn, es2, fw) = RegOf(cn, es, fw)
  <1>1. /\ Typed(sk, cn, es, fw) /\ Ends(sk, cn, es, fw) /\ Apart(es, fw)
    BY DEF Owned
  <1>2. /\ Nil \notin Fds \cup Links \cup Ips \cup {Listen} \cup CliRec
        /\ Listen \notin Links \cup Ips
    BY NilAssumption, EndsAssumption DEF Remote
  <1>3. /\ cn[f] = Nil
        /\ \A d \in Held(es) : es[d].l # f /\ es[d].r # f
        /\ \A w \in fw : w.t # f /\ w.p # f
    BY FreeIsNobodys
  <1>4. Typed(sk2, cn, es2, fw)
    BY <1>1 DEF Typed, Remote
  <1>5. /\ \A d \in Held(es) : es[d] \in CliRec
        /\ \A w \in fw : w \in FwdRec
    BY <1>1 DEF Typed, Held
  <1>6. c \notin Held(es) /\ Held(es2) = Held(es) \cup {c}
    BY <1>2 DEF Held
  <1>7. \A d \in Held(es) : es2[d] = es[d]
    BY <1>6 DEF Held
  <1>8. \A d \in Held(es) : /\ es[d].l \in Fds /\ es[d].r \in Fds \cup {Nil}
                            /\ sk2[es[d].l] = sk[es[d].l]
                            /\ es[d].r # Nil => sk2[es[d].r] = sk[es[d].r]
    BY <1>3, <1>5 DEF CliRec
  <1>9. \A w \in fw : w.t \in Fds /\ w.p \in Fds /\ sk2[w.t] = sk[w.t] /\ sk2[w.p] = sk[w.p]
    BY <1>3, <1>5 DEF FwdRec
  <1>10. Ends(sk2, cn, es2, fw)
    <2>1. \A g \in Fds : cn[g] # Nil => sk2[g] \in Links /\ cn[g].dec = sk2[g]
      BY <1>1, <1>3 DEF Ends
    <2>2. \A d \in Held(es2) :
              /\ sk2[es2[d].l] = Listen
              /\ es2[d].r = Nil => es2[d].dec = Nil
              /\ es2[d].r # Nil => /\ sk2[es2[d].r] \in Links
                                   /\ es2[d].dec = sk2[es2[d].r]
                                   /\ cn[es2[d].r] = Nil
      <3> TAKE d \in Held(es2)
      <3>1. CASE d = c
        BY <3>1
      <3>2. CASE d \in Held(es)
        BY <1>1, <1>7, <1>8, <3>2 DEF Ends
      <3> QED
        BY <1>6, <3>1, <3>2
    <2>3. \A w \in fw : /\ sk2[w.t] \in Links /\ w.dec = sk2[w.t] /\ cn[w.t] = Nil
                        /\ sk2[w.p] \in Ips
      BY <1>1, <1>9 DEF Ends
    <2> QED
      BY <2>1, <2>2, <2>3 DEF Ends
  <1>11. Apart(es2, fw)
    <2>1. \A d, e2 \in Held(es) : es2[d].l = es2[e2].l => d = e2
      BY <1>1, <1>7 DEF Apart
    <2>2. \A d, e2 \in Held(es) : es2[d].r # Nil /\ es2[d].r = es2[e2].r => d = e2
      BY <1>1, <1>7 DEF Apart
    <2>3. \A d \in Held(es), w \in fw : es2[d].r # w.t
      BY <1>1, <1>7 DEF Apart
    <2>4. \A d \in Held(es) : es2[d].l # f /\ es2[d].r # f
      BY <1>3, <1>7
    <2>5. \A w \in fw : w.t # Nil
      BY <1>2, <1>9
    <2>6. \A v, w \in fw : v.t = w.t \/ v.p = w.p => v = w
      BY <1>1 DEF Apart
    <2> QED
      BY <1>6, <2>1, <2>2, <2>3, <2>4, <2>5, <2>6 DEF Apart
  <1>12. \A g \in Fds : sk2[g] # Nil => Has(g, cn, es2, fw)
    <2> SUFFICES ASSUME NEW g \in Fds, sk2[g] # Nil
                 PROVE  Has(g, cn, es2, fw)
      OBVIOUS
    <2>1. CASE g = f
      BY <1>6, <2>1 DEF Has
    <2>2. CASE g # f
      <3>1. Has(g, cn, es, fw)
        BY <2>2 DEF Owned
      <3> QED
        BY <1>6, <1>7, <3>1 DEF Has
    <2> QED
      BY <2>1, <2>2
  <1>13. \A g, h \in Fds : sk2[g] \in Links /\ sk2[g] = sk2[h] => g = h
    BY <1>2 DEF Owned
  <1>14. RegOf(cn, es2, fw) = RegOf(cn, es, fw)
    <2>1. {d \in Held(es2) : es2[d].r # Nil} = {d \in Held(es) : es[d].r # Nil}
      BY <1>6, <1>7
    <2>2. {<<es2[d].l, "cli", d>> : d \in {d \in Held(es2) : es2[d].r # Nil}}
            = {<<es[d].l, "cli", d>> : d \in {d \in Held(es) : es[d].r # Nil}}
      BY <1>7, <2>1
    <2> QED
      BY <2>2 DEF RegOf
  <1> QED
    BY <1>4, <1>10, <1>11, <1>12, <1>13, <1>14 DEF Owned

\* The ends of the sockets tell their owners apart.
LEMMA EndsDiffer ==
    ASSUME NEW sk, NEW cn, NEW es, NEW fw, Owned(sk, cn, es, fw)
    PROVE  /\ \A f \in Fds, c \in Held(es) : cn[f] # Nil => f # es[c].l /\ f # es[c].r
           /\ \A f \in Fds, w \in fw : cn[f] # Nil => f # w.t /\ f # w.p
           /\ \A c, d \in Held(es) : es[c].l # es[d].r
           /\ \A c \in Held(es), w \in fw : /\ es[c].l # w.t /\ es[c].l # w.p
                                            /\ es[c].r # w.t /\ es[c].r # w.p
           /\ \A v, w \in fw : v.t # w.p
  <1>1. /\ Typed(sk, cn, es, fw) /\ Ends(sk, cn, es, fw) /\ Apart(es, fw)
    BY DEF Owned
  <1>2. Nil \notin Fds /\ Listen \notin Links \cup Ips /\ \A a \in Ips : a \notin Links
    BY NilAssumption, EndsAssumption
  <1>3. /\ \A c \in Held(es) : es[c] \in CliRec
        /\ \A w \in fw : w \in FwdRec
    BY <1>1 DEF Typed, Held
  <1>4. \A c \in Held(es) : es[c].l \in Fds /\ es[c].l # Nil /\ sk[es[c].l] = Listen
    BY <1>1, <1>2, <1>3 DEF Ends, CliRec
  <1>5. \A w \in fw : /\ w.t \in Fds /\ w.t # Nil /\ sk[w.t] \in Links
                      /\ w.p \in Fds /\ w.p # Nil /\ sk[w.p] \in Ips
    BY <1>1, <1>2, <1>3 DEF Ends, FwdRec
  <1>6. \A c \in Held(es) : es[c].r # Nil => sk[es[c].r] \in Links /\ cn[es[c].r] = Nil
    BY <1>1 DEF Ends
  <1>7. \A f \in Fds : cn[f] # Nil => sk[f] \in Links
    BY <1>1 DEF Ends
  <1>8. \A w \in fw : cn[w.t] = Nil
    BY <1>1 DEF Ends
  <1>9. \A c \in Held(es), w \in fw : es[c].r # w.t
    BY <1>1 DEF Apart
  <1> QED
    BY <1>2, <1>4, <1>5, <1>6, <1>7, <1>8, <1>9

\* radmsrv_conn_callback: the entry of the name gets the connection, and the
\* one it had is closed.
LEMMA TakeOverOwned ==
    ASSUME NEW sk, NEW cn, NEW es, NEW fw, Owned(sk, cn, es, fw),
           NEW f \in Fds, cn[f] # Nil, NEW c \in Held(es),
           NEW sk2 \in [Fds -> Remote \cup {Nil}],
           \A g \in Fds : sk2[g] = IF g = es[c].r THEN Nil ELSE sk[g],
           NEW cn2 \in [Fds -> ConnRec \cup {Nil}],
           cn2[f] = Nil, \A g \in Fds : g # f => cn2[g] = cn[g],
           NEW es2 \in [Cli -> CliRec \cup {Nil}],
           es2[c] \in CliRec, \A d \in Cli : d # c => es2[d] = es[d],
           es2[c].l = es[c].l, es2[c].r = f, es2[c].dec = cn[f].dec
    PROVE  /\ Owned(sk2, cn2, es2, fw)
           /\ RegOf(cn2, es2, fw)
                = (RegOf(cn, es, fw) \cup {<<es[c].l, "cli", c>>}) \ {<<f, "conn", f>>}
  <1>1. /\ Typed(sk, cn, es, fw) /\ Ends(sk, cn, es, fw) /\ Apart(es, fw)
    BY DEF Owned
  <1>2. Nil \notin Fds \cup Links \cup CliRec
    BY NilAssumption DEF Remote
  <1>3. c \in Cli /\ Held(es2) = Held(es)
    BY <1>2 DEF Held
  <1>4. /\ \A d \in Held(es) : es[d].l \in Fds /\ es[d].r \in Fds \cup {Nil}
        /\ \A w \in fw : w.t \in Fds /\ w.p \in Fds
    BY <1>1 DEF Typed, Held, CliRec, FwdRec
  <1>5. \A d \in Held(es) : d # c => es2[d] = es[d]
    BY DEF Held
  <1>6. /\ f # es[c].r /\ sk2[f] = sk[f] /\ sk[f] \in Links /\ cn[f].dec = sk[f]
        /\ \A d \in Held(es) : es[d].l # f /\ es[d].r # f
        /\ \A w \in fw : w.t # f /\ w.p # f
    BY <1>1, EndsDiffer DEF Ends
  <1>7. \A d \in Held(es) : sk2[es[d].l] = Listen
    BY <1>1, <1>4, EndsDiffer DEF Ends
  <1>8. \A d \in Held(es) : d # c /\ es[d].r # Nil => sk2[es[d].r] = sk[es[d].r]
    BY <1>1, <1>4 DEF Apart
  <1>9. \A w \in fw : sk2[w.t] = sk[w.t] /\ sk2[w.p] = sk[w.p]
    BY <1>4, EndsDiffer
  <1>10. Typed(sk2, cn2, es2, fw)
    BY <1>1 DEF Typed
  <1>11. Ends(sk2, cn2, es2, fw)
    <2>1. \A g \in Fds : cn2[g] # Nil => sk2[g] \in Links /\ cn2[g].dec = sk2[g]
      BY <1>1, EndsDiffer DEF Ends
    <2>2. \A d \in Held(es2) :
              /\ sk2[es2[d].l] = Listen
              /\ es2[d].r = Nil => es2[d].dec = Nil
              /\ es2[d].r # Nil => /\ sk2[es2[d].r] \in Links
                                   /\ es2[d].dec = sk2[es2[d].r]
                                   /\ cn2[es2[d].r] = Nil
      <3> TAKE d \in Held(es2)
      <3>1. CASE d = c
        BY <1>2, <1>3, <1>6, <1>7, <3>1
      <3>2. CASE d # c
        BY <1>1, <1>3, <1>4, <1>5, <1>6, <1>7, <1>8, <3>2 DEF Ends
      <3> QED
        BY <3>1, <3>2
    <2>3. \A w \in fw : /\ sk2[w.t] \in Links /\ w.dec = sk2[w.t] /\ cn2[w.t] = Nil
                        /\ sk2[w.p] \in Ips
      BY <1>1, <1>4, <1>6, <1>9 DEF Ends
    <2> QED
      BY <2>1, <2>2, <2>3 DEF Ends
  <1>12. Apart(es2, fw)
    <2>1. \A d, e \in Held(es) : es2[d].l = es2[e].l => d = e
      BY <1>1, <1>5 DEF Apart
    <2>2. \A d, e \in Held(es) : es2[d].r # Nil /\ es2[d].r = es2[e].r => d = e
      BY <1>1, <1>5, <1>6 DEF Apart
    <2>3. \A d \in Held(es), w \in fw : es2[d].r # w.t
      BY <1>1, <1>5, <1>6 DEF Apart
    <2>4. \A v, w \in fw : v.t = w.t \/ v.p = w.p => v = w
      BY <1>1 DEF Apart
    <2> QED
      BY <1>3, <2>1, <2>2, <2>3, <2>4 DEF Apart
  <1>13. ASSUME NEW g \in Fds, sk2[g] # Nil
         PROVE  Has(g, cn2, es2, fw)
    <2>1. CASE g = f
      BY <1>3, <2>1 DEF Has
    <2>2. CASE g # f
      <3>1. g # es[c].r /\ Has(g, cn, es, fw)
        BY <1>13 DEF Owned
      <3> QED
        BY <1>3, <1>5, <2>2, <3>1 DEF Has
    <2> QED
      BY <2>1, <2>2
  <1>14. \A g, h \in Fds : sk2[g] \in Links /\ sk2[g] = sk2[h] => g = h
    BY <1>2 DEF Owned
  <1>15. RegOf(cn2, es2, fw)
           = (RegOf(cn, es, fw) \cup {<<es[c].l, "cli", c>>}) \ {<<f, "conn", f>>}
    <2> DEFINE ports(x) == {<<x[d].l, "cli", d>> : d \in {e \in Held(x) : x[e].r # Nil}}
    <2>1. ports(es2) = ports(es) \cup {<<es[c].l, "cli", c>>}
      <3>1. {e \in Held(es2) : es2[e].r # Nil} = {e \in Held(es) : es[e].r # Nil} \cup {c}
        BY <1>2, <1>3, <1>5
      <3>2. \A d \in Held(es) : es2[d].l = es[d].l
        BY <1>5
      <3> QED
        BY <3>1, <3>2
    <2>2. {<<g, "conn", g>> : g \in {h \in Fds : cn2[h] # Nil}}
            = {<<g, "conn", g>> : g \in {h \in Fds : cn[h] # Nil}} \ {<<f, "conn", f>>}
      OBVIOUS
    <2> QED
      BY <2>1, <2>2 DEF RegOf
  <1> QED
    BY <1>10, <1>11, <1>12, <1>13, <1>14, <1>15 DEF Owned

\* do_forward: with the descriptor g of customer a, the device of entry c is in
\* session w, and the entry has none.
HandOver(sk, es, c, g, a, w, sk2, es2) ==
    /\ c \in Held(es) /\ es[c].r # Nil
    /\ g \in Fds /\ sk[g] = Nil /\ a \in Ips
    /\ w \in FwdRec /\ w.t = es[c].r /\ w.p = g /\ w.dec = es[c].dec
    /\ sk2 \in [Fds -> Remote \cup {Nil}] /\ sk2[g] = a
    /\ \A f \in Fds : f # g => sk2[f] = sk[f]
    /\ es2 \in [Cli -> CliRec \cup {Nil}] /\ es2[c] \in CliRec
    /\ \A d \in Cli : d # c => es2[d] = es[d]
    /\ es2[c].l = es[c].l /\ es2[c].r = Nil /\ es2[c].dec = Nil

\* The registrations then.
HandedReg(rg, l, c, g, w) ==
    (rg \cup {<<w.t, "fwd", w.t>>, <<g, "fwd", w.t>>}) \ {<<l, "cli", c>>}

\* do_forward: the connection of the entry goes over to the session w.
LEMMA ForwardedOwned ==
    ASSUME NEW sk, NEW cn, NEW es, NEW fw, Owned(sk, cn, es, fw),
           NEW c, NEW g, NEW a, NEW w, NEW sk2, NEW es2,
           HandOver(sk, es, c, g, a, w, sk2, es2)
    PROVE  /\ Owned(sk2, cn, es2, fw \cup {w})
           /\ RegOf(cn, es2, fw \cup {w}) = HandedReg(RegOf(cn, es, fw), es[c].l, c, g, w)
  <1> USE DEF HandOver
  <1> DEFINE fw2 == fw \cup {w}
  <1>1. /\ Typed(sk, cn, es, fw) /\ Ends(sk, cn, es, fw) /\ Apart(es, fw)
    BY DEF Owned
  <1>2. Nil \notin Fds \cup Links \cup Ips \cup CliRec /\ \A b \in Ips : b \notin Links
    BY NilAssumption, EndsAssumption DEF Remote
  <1>3. c \in Cli /\ Held(es2) = Held(es)
    BY <1>2 DEF Held
  <1>4. /\ \A d \in Held(es) : es[d].l \in Fds /\ es[d].r \in Fds \cup {Nil}
        /\ \A v \in fw2 : v.t \in Fds /\ v.p \in Fds
    BY <1>1 DEF Typed, Held, CliRec, FwdRec
  <1>5. \A d \in Held(es) : d # c => es2[d] = es[d]
    BY DEF Held
  <1>6. /\ cn[g] = Nil
        /\ \A d \in Held(es) : es[d].l # g /\ es[d].r # g
        /\ \A v \in fw : v.t # g /\ v.p # g
    BY FreeIsNobodys
  <1>7. Typed(sk2, cn, es2, fw2)
    BY <1>1 DEF Typed
  <1>8. Ends(sk2, cn, es2, fw2)
    <2>1. \A f \in Fds : cn[f] # Nil => sk2[f] \in Links /\ cn[f].dec = sk2[f]
      BY <1>1, <1>6 DEF Ends
    <2>2. \A d \in Held(es2) :
              /\ sk2[es2[d].l] = Listen
              /\ es2[d].r = Nil => es2[d].dec = Nil
              /\ es2[d].r # Nil => /\ sk2[es2[d].r] \in Links
                                   /\ es2[d].dec = sk2[es2[d].r]
                                   /\ cn[es2[d].r] = Nil
      <3> TAKE d \in Held(es2)
      <3>1. CASE d = c
        BY <1>1, <1>3, <1>4, <1>6, <3>1 DEF Ends
      <3>2. CASE d # c
        BY <1>1, <1>3, <1>4, <1>5, <1>6, <3>2 DEF Ends
      <3> QED
        BY <3>1, <3>2
    <2>3. \A v \in fw : /\ sk2[v.t] \in Links /\ v.dec = sk2[v.t] /\ cn[v.t] = Nil
                        /\ sk2[v.p] \in Ips
      BY <1>1, <1>4, <1>6 DEF Ends
    <2>4. /\ sk2[w.t] \in Links /\ w.dec = sk2[w.t] /\ cn[w.t] = Nil
          /\ sk2[w.p] \in Ips
      BY <1>1, <1>4, <1>6 DEF Ends
    <2> QED
      BY <2>1, <2>2, <2>3, <2>4 DEF Ends
  <1>9. Apart(es2, fw2)
    <2>1. \A d, e \in Held(es) : es2[d].l = es2[e].l => d = e
      BY <1>1, <1>5 DEF Apart
    <2>2. \A d, e \in Held(es) : es2[d].r # Nil /\ es2[d].r = es2[e].r => d = e
      BY <1>1, <1>5 DEF Apart
    <2>3. \A d \in Held(es), v \in fw2 : es2[d].r # v.t
      BY <1>1, <1>2, <1>4, <1>5 DEF Apart
    <2>4. \A u, v \in fw2 : u.t = v.t \/ u.p = v.p => u = v
      BY <1>1, <1>6 DEF Apart
    <2> QED
      BY <1>3, <2>1, <2>2, <2>3, <2>4 DEF Apart
  <1>10. ASSUME NEW f \in Fds, sk2[f] # Nil
         PROVE  Has(f, cn, es2, fw2)
    <2>1. CASE f = g \/ f = w.t
      BY <2>1 DEF Has
    <2>2. CASE f # g /\ f # w.t
      <3>1. Has(f, cn, es, fw)
        BY <1>10, <2>2 DEF Owned
      <3>2. (\E d \in Held(es) : f = es[d].l \/ f = es[d].r)
                => (\E d \in Held(es2) : f = es2[d].l \/ f = es2[d].r)
        BY <1>3, <1>5, <2>2
      <3> QED
        BY <3>1, <3>2 DEF Has
    <2> QED
      BY <2>1, <2>2
  <1>11. \A f, h \in Fds : sk2[f] \in Links /\ sk2[f] = sk2[h] => f = h
    BY <1>2 DEF Owned
  <1>12. RegOf(cn, es2, fw2)
           = HandedReg(RegOf(cn, es, fw), es[c].l, c, g, w)
    <2> DEFINE ports(x) == {<<x[d].l, "cli", d>> : d \in {e \in Held(x) : x[e].r # Nil}}
               ends(x) == {<<v.t, "fwd", v.t>> : v \in x} \cup {<<v.p, "fwd", v.t>> : v \in x}
    <2>1. ports(es2) = ports(es) \ {<<es[c].l, "cli", c>>}
      <3>1. {e \in Held(es2) : es2[e].r # Nil} = {e \in Held(es) : es[e].r # Nil} \ {c}
        BY <1>3, <1>5
      <3>2. \A d \in Held(es) : es2[d].l = es[d].l
        BY <1>5
      <3> QED
        BY <3>1, <3>2
    <2>2. ends(fw2) = ends(fw) \cup {<<w.t, "fwd", w.t>>, <<g, "fwd", w.t>>}
      OBVIOUS
    <2> QED
      BY <2>1, <2>2 DEF RegOf, HandedReg
  <1> QED
    BY <1>7, <1>8, <1>9, <1>10, <1>11, <1>12 DEF Owned

\* radmcli_release: the port and the connection that waits are closed.
LEMMA ReleaseOwned ==
    ASSUME NEW sk, NEW cn, NEW es, NEW fw, Owned(sk, cn, es, fw),
           NEW c \in Held(es),
           NEW sk2 \in [Fds -> Remote \cup {Nil}],
           \A f \in Fds : sk2[f] = IF f \in {es[c].l, es[c].r} THEN Nil ELSE sk[f],
           NEW es2 \in [Cli -> CliRec \cup {Nil}],
           es2[c] = Nil, \A d \in Cli : d # c => es2[d] = es[d]
    PROVE  /\ Owned(sk2, cn, es2, fw)
           /\ RegOf(cn, es2, fw) = RegOf(cn, es, fw) \ {<<es[c].l, "cli", c>>}
  <1>1. /\ Typed(sk, cn, es, fw) /\ Ends(sk, cn, es, fw) /\ Apart(es, fw)
    BY DEF Owned
  <1>2. Nil \notin Fds \cup Links \cup Ips \cup CliRec
    BY NilAssumption DEF Remote
  <1>3. c \in Cli /\ Held(es2) = Held(es) \ {c} /\ \A d \in Held(es2) : es2[d] = es[d]
    BY <1>2 DEF Held
  <1>4. /\ \A d \in Held(es) : es[d].l \in Fds /\ es[d].r \in Fds \cup {Nil}
        /\ \A v \in fw : v.t \in Fds /\ v.p \in Fds
    BY <1>1 DEF Typed, Held, CliRec, FwdRec
  <1>5. \A d \in Held(es2) : /\ sk2[es[d].l] = sk[es[d].l]
                             /\ es[d].r # Nil => sk2[es[d].r] = sk[es[d].r]
    <2> TAKE d \in Held(es2)
    <2>1. d \in Held(es) /\ d # c
      BY <1>3
    <2>2. es[d].l # es[c].l /\ (es[d].r # Nil => es[d].r # es[c].r)
      BY <1>1, <2>1 DEF Apart
    <2> QED
      BY <1>4, <2>1, <2>2, EndsDiffer
  <1>6. \A v \in fw : sk2[v.t] = sk[v.t] /\ sk2[v.p] = sk[v.p]
    BY <1>4, EndsDiffer
  <1>7. Typed(sk2, cn, es2, fw)
    BY <1>1 DEF Typed
  <1>8. Ends(sk2, cn, es2, fw)
    <2>1. \A f \in Fds : cn[f] # Nil => sk2[f] \in Links /\ cn[f].dec = sk2[f]
      BY <1>1, EndsDiffer DEF Ends
    <2> QED
      BY <1>1, <1>3, <1>5, <1>6, <2>1 DEF Ends
  <1>9. Apart(es2, fw)
    BY <1>1, <1>3 DEF Apart
  <1>10. ASSUME NEW f \in Fds, sk2[f] # Nil
         PROVE  Has(f, cn, es2, fw)
    <2>1. f # es[c].l /\ f # es[c].r /\ Has(f, cn, es, fw)
      BY <1>10 DEF Owned
    <2> QED
      BY <1>3, <2>1 DEF Has
  <1>11. \A f, h \in Fds : sk2[f] \in Links /\ sk2[f] = sk2[h] => f = h
    BY <1>2 DEF Owned
  <1>12. RegOf(cn, es2, fw) = RegOf(cn, es, fw) \ {<<es[c].l, "cli", c>>}
    <2> DEFINE ports(x) == {<<x[d].l, "cli", d>> : d \in {e \in Held(x) : x[e].r # Nil}}
    <2>1. ports(es2) = ports(es) \ {<<es[c].l, "cli", c>>}
      BY <1>3
    <2> QED
      BY <2>1 DEF RegOf
  <1> QED
    BY <1>7, <1>8, <1>9, <1>10, <1>11, <1>12 DEF Owned

\* fwd_release: both ends of the session are closed.
LEMMA FwdReleaseOwned ==
    ASSUME NEW sk, NEW cn, NEW es, NEW fw, Owned(sk, cn, es, fw),
           NEW w \in fw,
           NEW sk2 \in [Fds -> Remote \cup {Nil}],
           \A f \in Fds : sk2[f] = IF f = w.t \/ f = w.p THEN Nil ELSE sk[f]
    PROVE  /\ Owned(sk2, cn, es, fw \ {w})
           /\ RegOf(cn, es, fw \ {w})
                = RegOf(cn, es, fw) \ {<<w.t, "fwd", w.t>>, <<w.p, "fwd", w.t>>}
  <1> DEFINE fw2 == fw \ {w}
  <1>1. /\ Typed(sk, cn, es, fw) /\ Ends(sk, cn, es, fw) /\ Apart(es, fw)
    BY DEF Owned
  <1>2. Nil \notin Fds \cup Links \cup Ips
    BY NilAssumption DEF Remote
  <1>3. /\ \A d \in Held(es) : es[d].l \in Fds /\ es[d].r \in Fds \cup {Nil}
        /\ \A v \in fw : v.t \in Fds /\ v.p \in Fds
    BY <1>1 DEF Typed, Held, CliRec, FwdRec
  <1>4. \A d \in Held(es) : /\ sk2[es[d].l] = sk[es[d].l]
                            /\ es[d].r # Nil => sk2[es[d].r] = sk[es[d].r]
    BY <1>3, EndsDiffer
  <1>5. \A v \in fw2 : v.t # w.t /\ v.p # w.p /\ v.t # w.p /\ v.p # w.t
    BY <1>1, EndsDiffer DEF Apart
  <1>6. \A v \in fw2 : sk2[v.t] = sk[v.t] /\ sk2[v.p] = sk[v.p]
    BY <1>3, <1>5
  <1>7. Typed(sk2, cn, es, fw2)
    BY <1>1 DEF Typed
  <1>8. Ends(sk2, cn, es, fw2)
    <2>1. \A f \in Fds : cn[f] # Nil => sk2[f] \in Links /\ cn[f].dec = sk2[f]
      BY <1>1, EndsDiffer DEF Ends
    <2> QED
      BY <1>1, <1>4, <1>6, <2>1 DEF Ends
  <1>9. Apart(es, fw2)
    BY <1>1 DEF Apart
  <1>10. ASSUME NEW f \in Fds, sk2[f] # Nil
         PROVE  Has(f, cn, es, fw2)
    <2>1. f # w.t /\ f # w.p /\ Has(f, cn, es, fw)
      BY <1>10 DEF Owned
    <2> QED
      BY <2>1 DEF Has
  <1>11. \A f, h \in Fds : sk2[f] \in Links /\ sk2[f] = sk2[h] => f = h
    BY <1>2 DEF Owned
  <1>12. RegOf(cn, es, fw2)
           = RegOf(cn, es, fw) \ {<<w.t, "fwd", w.t>>, <<w.p, "fwd", w.t>>}
    <2> DEFINE ends(x) == {<<v.t, "fwd", v.t>> : v \in x} \cup {<<v.p, "fwd", v.t>> : v \in x}
    <2>1. ends(fw2) = ends(fw) \ {<<w.t, "fwd", w.t>>, <<w.p, "fwd", w.t>>}
      BY <1>5
    <2> QED
      BY <2>1 DEF RegOf
  <1> QED
    BY <1>7, <1>8, <1>9, <1>10, <1>11, <1>12 DEF Owned

-----------------------------------------------------------------------------
(* The inductive invariant.                                                *)

\* What the other variables hold.
Rest == /\ up \in BOOLEAN
        /\ backlog \subseteq Links
        /\ pend \in [Fds -> SUBSET Ips]
        /\ ips \subseteq Ips /\ white \subseteq Ips /\ stale \subseteq Ips
        /\ ctl \in Seq(Datagram)

NotOpen == \A k \in backlog, f \in Fds : sock[f] # k

IInv == /\ Rest
        /\ Sorted(clients, cli)
        /\ Owned(sock, conn, cli, fwds)
        /\ reg = RegOf(conn, cli, fwds)
        /\ NotOpen

\* All but the page and the addresses is as it was.
Kept == UNCHANGED <<sock, reg, conn, clients, cli, fwds>>

LEMMA KeptInv == ASSUME IInv, Kept, Rest', NotOpen'
                 PROVE  IInv'
  BY DEF IInv, Kept, Sorted, Held, Same, Owned, Typed, Ends, Apart, Has, RegOf

\* The list stays right as long as the entries keep their names.
LEMMA SortedSame ==
    ASSUME NEW list, NEW es, NEW fs, Sorted(list, es), Held(fs) = Held(es),
           \A d \in Held(es) : fs[d].id = es[d].id /\ fs[d].kind = es[d].kind
    PROVE  Sorted(list, fs)
  BY DEF Sorted, Same

\* A worker that has just started holds nothing.
LEMMA FreshOwned ==
    /\ Sorted(<<>>, [c \in Cli |-> Nil])
    /\ Owned(Nowhere, Nowhere, [c \in Cli |-> Nil], {})
    /\ RegOf(Nowhere, [c \in Cli |-> Nil], {}) = {}
  <1>1. Held([c \in Cli |-> Nil]) = {}
    BY DEF Held
  <1>2. Nil \notin Links
    BY NilAssumption DEF Remote
  <1>3. Owned(Nowhere, Nowhere, [c \in Cli |-> Nil], {})
    BY <1>1, <1>2 DEF Owned, Typed, Ends, Apart, Nowhere
  <1>4. RegOf(Nowhere, [c \in Cli |-> Nil], {}) = {}
    BY <1>1 DEF RegOf, Nowhere
  <1>5. Sorted(<<>>, [c \in Cli |-> Nil])
    BY <1>1 DEF Sorted
  <1> QED
    BY <1>3, <1>4, <1>5

LEMMA InitInv == Init => IInv
  <1> SUFFICES ASSUME Init
               PROVE  IInv
    OBVIOUS
  <1>1. Rest /\ NotOpen
    BY WhiteAssumption DEF Init, Rest, NotOpen, Nobody
  <1>2. /\ sock = Nowhere /\ conn = Nowhere /\ cli = [c \in Cli |-> Nil]
        /\ fwds = {} /\ clients = <<>> /\ reg = {}
    BY DEF Init
  <1> QED
    BY <1>1, <1>2, FreshOwned DEF IInv

LEMMA CrashInv == Crash => IInv'
  <1> SUFFICES ASSUME Crash
               PROVE  IInv'
    OBVIOUS
  <1>1. (Rest /\ NotOpen)'
    <2>1. up' \in BOOLEAN
      BY DEF Crash
    <2>2. /\ backlog' = {} /\ pend' = Nobody /\ ips' = {} /\ white' = InitWhite
          /\ stale' = {} /\ ctl' = <<>>
      BY DEF Crash, Fresh
    <2> QED
      BY <2>1, <2>2, WhiteAssumption DEF Rest, NotOpen, Nobody
  <1>2. /\ sock' = Nowhere /\ conn' = Nowhere /\ cli' = [c \in Cli |-> Nil]
        /\ fwds' = {} /\ clients' = <<>> /\ reg' = {}
    BY DEF Crash, Fresh
  <1> QED
    BY <1>1, <1>2, FreshOwned DEF IInv

-----------------------------------------------------------------------------
(* Each action preserves the invariant.                                    *)

LEMMA RestartInv == IInv /\ Restart => IInv'
  BY KeptInv DEF IInv, Rest, NotOpen, Kept, Restart

LEMMA DeviceConnectsInv == ASSUME NEW k \in Links, IInv, DeviceConnects(k)
                           PROVE  IInv'
  BY KeptInv DEF IInv, Rest, NotOpen, Kept, DeviceConnects

LEMMA AcceptDeviceInv == ASSUME NEW k \in Links, IInv, AcceptDevice(k)
                         PROVE  IInv'
  <1>1. CASE Crash
    BY <1>1, CrashInv
  <1>2. CASE ~Crash
    <2> DEFINE f == NextFd
               e == [dec |-> k, part |-> 0]
    <2>1. /\ k \in backlog
          /\ FreeFds # {}
          /\ sock' = [sock EXCEPT ![f] = k]
          /\ conn' = [conn EXCEPT ![f] = e]
          /\ reg' = reg \cup {<<f, "conn", f>>}
          /\ backlog' = backlog \ {k}
          /\ UNCHANGED <<up, pend, clients, cli, fwds, ips, white, stale, ctl>>
      BY <1>2 DEF AcceptDevice
    <2>2. f \in Fds /\ sock[f] = Nil
      BY <2>1, NextIsFree
    <2>3. e \in ConnRec /\ e.dec = k
      BY BoundsAssumption DEF ConnRec
    <2> HIDE DEF f, e
    <2>4. /\ sock \in [Fds -> Remote \cup {Nil}] /\ conn \in [Fds -> ConnRec \cup {Nil}]
          /\ Owned(sock, conn, cli, fwds)
      BY DEF IInv, Owned, Typed
    <2>5. /\ sock' \in [Fds -> Remote \cup {Nil}]
          /\ sock'[f] = k /\ \A g \in Fds : g # f => sock'[g] = sock[g]
          /\ conn' \in [Fds -> ConnRec \cup {Nil}]
          /\ conn'[f] = e /\ \A g \in Fds : g # f => conn'[g] = conn[g]
      BY <2>1, <2>2, <2>3, <2>4 DEF Remote
    <2>6. \A g \in Fds : sock[g] # k
      BY <2>1 DEF IInv, NotOpen
    <2>7. /\ Owned(sock', conn', cli, fwds)
          /\ RegOf(conn', cli, fwds) = RegOf(conn, cli, fwds) \cup {<<f, "conn", f>>}
      BY <2>2, <2>3, <2>4, <2>5, <2>6, OpenConn
    <2>8. (Rest /\ NotOpen)'
      BY <2>1, <2>5 DEF IInv, Rest, NotOpen
    <2> QED
      BY <2>1, <2>7, <2>8 DEF IInv
  <1> QED
    BY <1>1, <1>2

\* A registered radmsrv_conn_callback has its radmconn.
LEMMA ConnOpen == ASSUME NEW f, IInv, <<f, "conn", f>> \in reg
                  PROVE  f \in Fds /\ conn[f] # Nil
  BY DEF IInv, RegOf

LEMMA ConnErrorInv == ASSUME NEW f \in Fds, IInv, ConnError(f)
                      PROVE  IInv'
  <1>1. conn[f] # Nil
    BY ConnOpen DEF ConnError
  <1>2. /\ sock \in [Fds -> Remote \cup {Nil}] /\ conn \in [Fds -> ConnRec \cup {Nil}]
        /\ Owned(sock, conn, cli, fwds)
    BY DEF IInv, Owned, Typed
  <1>3. /\ sock' \in [Fds -> Remote \cup {Nil}]
        /\ sock'[f] = Nil /\ \A g \in Fds : g # f => sock'[g] = sock[g]
        /\ conn' \in [Fds -> ConnRec \cup {Nil}]
        /\ conn'[f] = Nil /\ \A g \in Fds : g # f => conn'[g] = conn[g]
    BY <1>2 DEF ConnError
  <1>4. /\ Owned(sock', conn', cli, fwds)
        /\ RegOf(conn', cli, fwds) = RegOf(conn, cli, fwds) \ {<<f, "conn", f>>}
    BY <1>1, <1>2, <1>3, CloseConn
  <1>5. (Rest /\ NotOpen)'
    BY <1>3, NilAssumption DEF IInv, Rest, NotOpen, ConnError, Remote
  <1> QED
    BY <1>4, <1>5 DEF IInv, ConnError

\* Only the length of the name read so far changes.
LEMMA ConnPartialInv == ASSUME NEW f \in Fds, IInv, ConnPartial(f)
                        PROVE  IInv'
  <1>1. conn[f] # Nil /\ conn \in [Fds -> ConnRec \cup {Nil}]
    BY ConnOpen DEF ConnPartial, IInv, Owned, Typed
  <1>2. conn[f] \in ConnRec /\ conn[f].part < PartMax
    BY <1>1 DEF ConnPartial
  <1>3. /\ conn'[f] \in ConnRec /\ conn'[f].dec = conn[f].dec
        /\ conn' \in [Fds -> ConnRec \cup {Nil}]
        /\ \A g \in Fds : g # f => conn'[g] = conn[g]
    BY <1>1, <1>2, BoundsAssumption DEF ConnPartial, ConnRec
  <1>4. \A g \in Fds : conn'[g] # Nil <=> conn[g] # Nil
    BY <1>1, <1>3, NilAssumption
  <1>5. Typed(sock, conn', cli, fwds)
    BY <1>3 DEF IInv, Owned, Typed
  <1>6. Ends(sock, conn', cli, fwds)
    <2>1. \A g \in Fds : conn'[g] # Nil => sock[g] \in Links /\ conn'[g].dec = sock[g]
      BY <1>1, <1>3, <1>4 DEF IInv, Owned, Ends
    <2>2. /\ \A c \in Held(cli) : cli[c].r \in Fds \cup {Nil}
          /\ \A w \in fwds : w.t \in Fds
      BY DEF IInv, Owned, Typed, Held, CliRec, FwdRec
    <2> QED
      BY <1>4, <2>1, <2>2 DEF IInv, Owned, Ends
  <1>7. \A g \in Fds : sock[g] # Nil => Has(g, conn', cli, fwds)
    BY <1>4 DEF IInv, Owned, Has
  <1>8. Owned(sock, conn', cli, fwds)
    BY <1>5, <1>6, <1>7 DEF IInv, Owned
  <1>9. RegOf(conn', cli, fwds) = RegOf(conn, cli, fwds)
    BY <1>4 DEF RegOf
  <1> QED
    BY <1>8, <1>9 DEF IInv, Rest, NotOpen, ConnPartial

\* The end of radmsrv_conn_callback, for an entry of es, where the sockets s
\* and the entries es are those of the state up to a new port.
LEMMA TakeOverInv ==
    ASSUME NEW f \in Fds, NEW id \in Ids, NEW kind \in Kinds, NEW s, NEW es, NEW c \in Held(es),
           IInv, <<f, "conn", f>> \in reg,
           Owned(s, conn, es, fwds), RegOf(conn, es, fwds) = reg,
           TakeOver(c, f, id, kind, s, es)
    PROVE  /\ Owned(sock, conn, cli, fwds)' /\ reg' = RegOf(conn, cli, fwds)'
           /\ Held(cli') = Held(es)
           /\ cli'[c].id = id /\ cli'[c].kind = kind
           /\ \A d \in Held(es) : d # c => cli'[d] = es[d]
           /\ \A g \in Fds : sock'[g] # Nil => sock'[g] = s[g]
           /\ UNCHANGED <<up, backlog, pend, fwds, ips, white, stale, ctl>>
  <1>1. /\ s \in [Fds -> Remote \cup {Nil}] /\ conn \in [Fds -> ConnRec \cup {Nil}]
        /\ es \in [Cli -> CliRec \cup {Nil}]
    BY DEF Owned, Typed
  <1>2. c \in Cli /\ es[c] \in CliRec
    BY <1>1 DEF Held
  <1>3. conn[f] # Nil /\ conn[f] \in ConnRec
    BY <1>1, ConnOpen
  <1> DEFINE e == [id |-> id, kind |-> kind, l |-> es[c].l, r |-> f, dec |-> conn[f].dec]
  <1>4. e \in CliRec /\ e # Nil
    BY <1>2, <1>3, NilAssumption DEF CliRec, ConnRec
  <1>5. /\ sock' = [g \in Fds |-> IF g = es[c].r THEN Nil ELSE s[g]]
        /\ cli' = [es EXCEPT ![c] = e]
        /\ reg' = (reg \cup {<<es[c].l, "cli", c>>}) \ {<<f, "conn", f>>}
        /\ conn' = [conn EXCEPT ![f] = Nil]
        /\ UNCHANGED <<up, backlog, pend, fwds, ips, white, stale, ctl>>
    BY DEF TakeOver
  <1>6. /\ sock' \in [Fds -> Remote \cup {Nil}]
        /\ \A g \in Fds : sock'[g] = IF g = es[c].r THEN Nil ELSE s[g]
    BY <1>1, <1>5
  <1>7. /\ conn' \in [Fds -> ConnRec \cup {Nil}]
        /\ conn'[f] = Nil /\ \A g \in Fds : g # f => conn'[g] = conn[g]
    BY <1>1, <1>5
  <1>8. cli'[c] = e /\ \A d \in Cli : d # c => cli'[d] = es[d]
    BY <1>1, <1>2, <1>5
  <1>9. cli' \in [Cli -> CliRec \cup {Nil}]
    <2> HIDE DEF e
    <2> QED
      BY <1>1, <1>4, <1>5
  <1>10. /\ e.id = id /\ e.kind = kind /\ e.l = es[c].l /\ e.r = f /\ e.dec = conn[f].dec
    OBVIOUS
  <1> HIDE DEF e
  <1>11. /\ Owned(sock', conn', cli', fwds)
         /\ RegOf(conn', cli', fwds)
              = (RegOf(conn, es, fwds) \cup {<<es[c].l, "cli", c>>}) \ {<<f, "conn", f>>}
    BY <1>3, <1>4, <1>6, <1>7, <1>8, <1>9, <1>10, TakeOverOwned
  <1>12. Held(cli') = Held(es) /\ \A d \in Held(es) : d # c => cli'[d] = es[d]
    BY <1>2, <1>4, <1>8 DEF Held
  <1> QED
    BY <1>5, <1>6, <1>8, <1>10, <1>11, <1>12

LEMMA ReconnectInv ==
    ASSUME NEW f \in Fds, NEW id \in Ids, NEW kind \in Kinds, IInv, Reconnect(f, id, kind)
    PROVE  IInv'
  <1> DEFINE c == Find(id, kind)
  <1>1. /\ c \in Held(cli) /\ cli[c].id = id /\ cli[c].kind = kind
        /\ <<f, "conn", f>> \in reg
        /\ TakeOver(c, f, id, kind, sock, cli) /\ UNCHANGED clients
    BY Finds DEF Reconnect, IInv
  <1> HIDE DEF c
  <1>2. Owned(sock, conn, cli, fwds) /\ RegOf(conn, cli, fwds) = reg
    BY DEF IInv
  <1>3. /\ Owned(sock, conn, cli, fwds)' /\ reg' = RegOf(conn, cli, fwds)'
        /\ Held(cli') = Held(cli)
        /\ cli'[c].id = id /\ cli'[c].kind = kind
        /\ \A d \in Held(cli) : d # c => cli'[d] = cli[d]
        /\ \A g \in Fds : sock'[g] # Nil => sock'[g] = sock[g]
        /\ UNCHANGED <<up, backlog, pend, fwds, ips, white, stale, ctl>>
    BY <1>1, <1>2, TakeOverInv
  <1>4. Sorted(clients, cli)'
    BY <1>1, <1>3, SortedSame DEF IInv
  <1>5. Rest'
    BY <1>3 DEF IInv, Rest
  <1>6. NotOpen'
    BY <1>3, NilAssumption DEF IInv, Rest, NotOpen, Remote
  <1> QED
    BY <1>3, <1>4, <1>5, <1>6 DEF IInv

LEMMA NewClientInv ==
    ASSUME NEW f \in Fds, NEW id \in Ids, NEW kind \in Kinds, IInv, NewClient(f, id, kind)
    PROVE  IInv'
  <1>1. CASE Crash
    BY <1>1, CrashInv
  <1>2. CASE ~Crash
    <2> DEFINE g == NextFd
               s == [sock EXCEPT ![g] = Listen]
    <2>1. PICK c \in Cli \ Listed :
              /\ clients' = Insert(clients, c, id)
              /\ TakeOver(c, f, id, kind, s, [cli EXCEPT ![c] = [id |-> id, kind |-> kind, l |-> g,
                                                                 r |-> Nil, dec |-> Nil]])
      BY <1>2 DEF NewClient
    <2> DEFINE e == [id |-> id, kind |-> kind, l |-> g, r |-> Nil, dec |-> Nil]
               es == [cli EXCEPT ![c] = e]
    <2>2. g \in Fds /\ sock[g] = Nil
      BY <1>2, NextIsFree DEF NewClient
    <2>3. /\ sock \in [Fds -> Remote \cup {Nil}] /\ cli \in [Cli -> CliRec \cup {Nil}]
          /\ Owned(sock, conn, cli, fwds) /\ Sorted(clients, cli)
      BY DEF IInv, Owned, Typed
    <2>4. c \in Cli /\ cli[c] = Nil
      BY <2>3 DEF Sorted, Listed, Held
    <2>5. /\ e \in CliRec /\ e.l = g /\ e.r = Nil /\ e.dec = Nil /\ e.id = id /\ e.kind = kind
          /\ e # Nil
      BY <2>2, NilAssumption DEF CliRec
    <2>6. TakeOver(c, f, id, kind, s, es) /\ clients' = Insert(clients, c, id)
      BY <2>1
    <2> HIDE DEF g, e
    <2>7. /\ s \in [Fds -> Remote \cup {Nil}]
          /\ s[g] = Listen /\ \A h \in Fds : h # g => s[h] = sock[h]
          /\ es \in [Cli -> CliRec \cup {Nil}]
          /\ es[c] = e /\ \A d \in Cli : d # c => es[d] = cli[d]
      BY <2>2, <2>3, <2>4, <2>5 DEF Remote
    <2> HIDE DEF s, es
    <2>8. Owned(s, conn, es, fwds) /\ RegOf(conn, es, fwds) = RegOf(conn, cli, fwds)
      BY <2>2, <2>3, <2>4, <2>5, <2>7, OpenPort
    <2>9. Held(es) = Held(cli) \cup {c} /\ \A d \in Held(cli) : d # c
      BY <2>4, <2>5, <2>7 DEF Held
    <2>10. c \in Held(es) /\ reg = RegOf(conn, es, fwds) /\ <<f, "conn", f>> \in reg
      BY <2>8, <2>9 DEF IInv, NewClient
    <2>11. /\ Owned(sock, conn, cli, fwds)' /\ reg' = RegOf(conn, cli, fwds)'
           /\ Held(cli') = Held(es)
           /\ cli'[c].id = id /\ cli'[c].kind = kind
           /\ \A d \in Held(es) : d # c => cli'[d] = es[d]
           /\ \A h \in Fds : sock'[h] # Nil => sock'[h] = s[h]
           /\ UNCHANGED <<up, backlog, pend, fwds, ips, white, stale, ctl>>
      BY <2>6, <2>8, <2>10, TakeOverInv
    <2>12. \A d \in Held(cli) : cli[d].id \in Ids /\ cli'[d] = cli[d]
      BY <2>3, <2>7, <2>9, <2>11 DEF Held, CliRec
    <2>13. Sorted(clients, cli)'
      <3>1. Find(id, kind) = Nil
        BY DEF NewClient
      <3>2. Held(cli') = Held(cli) \cup {c}
        BY <2>9, <2>11
      <3>3. Sorted(Insert(clients, c, id), cli')
        BY <2>3, <2>4, <2>11, <2>12, <3>1, <3>2, InsertSorted
      <3> QED
        BY <2>6, <3>3
    <2>14. Rest'
      BY <2>11 DEF IInv, Rest
    <2>15. NotOpen'
      BY <2>2, <2>7, <2>11, NilAssumption, EndsAssumption DEF IInv, Rest, NotOpen, Remote
    <2> QED
      BY <2>11, <2>13, <2>14, <2>15 DEF IInv
  <1> QED
    BY <1>1, <1>2

LEMMA CustomerConnectsInv ==
    ASSUME NEW f \in Fds, NEW a \in Ips, IInv, CustomerConnects(f, a)
    PROVE  IInv'
  BY KeptInv DEF IInv, Rest, NotOpen, Kept, CustomerConnects

\* radmcli_accept_callback is registered while the device waits.
LEMMA PortWaits == ASSUME NEW c, IInv, cli[c] # Nil, <<cli[c].l, "cli", c>> \in reg
                   PROVE  c \in Held(cli) /\ cli[c].r # Nil
  BY DEF IInv, RegOf

\* A customer that is let in takes the place of the entry at its connection.
LEMMA ForwardedInv ==
    ASSUME NEW c \in Cli, NEW a \in Ips, IInv,
           cli[c] # Nil, <<cli[c].l, "cli", c>> \in reg, FreeFds # {},
           Forwarded(c, a, NextFd), conn' = conn
    PROVE  /\ Owned(sock, conn, cli, fwds)' /\ reg' = RegOf(conn, cli, fwds)'
           /\ Held(cli') = Held(cli)
           /\ \A d \in Held(cli) : cli'[d].id = cli[d].id /\ cli'[d].kind = cli[d].kind
           /\ \A g \in Fds : sock'[g] \in Links => sock'[g] = sock[g]
  <1> DEFINE fd == NextFd
             ses == [t |-> cli[c].r, p |-> fd, dec |-> cli[c].dec]
             e == [cli[c] EXCEPT !.r = Nil, !.dec = Nil]
  <1>1. c \in Held(cli) /\ cli[c].r # Nil
    BY PortWaits
  <1>2. fd \in Fds /\ sock[fd] = Nil
    BY NextIsFree
  <1>3. /\ sock \in [Fds -> Remote \cup {Nil}] /\ cli \in [Cli -> CliRec \cup {Nil}]
        /\ Owned(sock, conn, cli, fwds) /\ reg = RegOf(conn, cli, fwds)
    BY DEF IInv, Owned, Typed
  <1>4. cli[c] \in CliRec /\ cli[c].r \in Fds /\ cli[c].dec \in Links
    BY <1>1, <1>3 DEF Held, CliRec, Owned, Ends
  <1>5. ses \in FwdRec /\ ses.t = cli[c].r /\ ses.p = fd /\ ses.dec = cli[c].dec
    BY <1>2, <1>4 DEF FwdRec
  <1>6. /\ e \in CliRec /\ e.l = cli[c].l /\ e.r = Nil /\ e.dec = Nil
        /\ e.id = cli[c].id /\ e.kind = cli[c].kind /\ e # Nil
    BY <1>4, NilAssumption DEF CliRec
  <1>7. /\ sock' = [sock EXCEPT ![fd] = a]
        /\ fwds' = fwds \cup {ses}
        /\ cli' = [cli EXCEPT ![c] = e]
        /\ reg' = HandedReg(reg, cli[c].l, c, fd, ses)
    BY <1>3 DEF Forwarded, HandedReg
  <1> HIDE DEF fd, ses, e
  <1>8. /\ sock' \in [Fds -> Remote \cup {Nil}]
        /\ sock'[fd] = a /\ \A f \in Fds : f # fd => sock'[f] = sock[f]
        /\ cli' \in [Cli -> CliRec \cup {Nil}]
        /\ cli'[c] = e /\ \A d \in Cli : d # c => cli'[d] = cli[d]
    BY <1>2, <1>3, <1>6, <1>7 DEF Remote
  <1>9. /\ Owned(sock', conn, cli', fwds \cup {ses})
        /\ RegOf(conn, cli', fwds \cup {ses})
             = HandedReg(RegOf(conn, cli, fwds), cli[c].l, c, fd, ses)
    <2>1. cli'[c] \in CliRec /\ cli'[c].l = cli[c].l /\ cli'[c].r = Nil /\ cli'[c].dec = Nil
      BY <1>6, <1>8
    <2>2. HandOver(sock, cli, c, fd, a, ses, sock', cli')
      BY <1>1, <1>2, <1>5, <1>8, <2>1 DEF HandOver
    <2> QED
      BY <1>3, <2>2, ForwardedOwned
  <1>10. Held(cli') = Held(cli)
    <2>1. \A d \in Cli : cli'[d] # Nil <=> cli[d] # Nil
      <3> TAKE d \in Cli
      <3>1. CASE d = c
        BY <1>1, <1>6, <1>8, <3>1 DEF Held
      <3>2. CASE d # c
        BY <1>8, <3>2
      <3> QED
        BY <3>1, <3>2
    <2> QED
      BY <2>1 DEF Held
  <1>11. \A d \in Held(cli) : cli'[d].id = cli[d].id /\ cli'[d].kind = cli[d].kind
    BY <1>6, <1>8 DEF Held
  <1>12. \A f \in Fds : sock'[f] \in Links => sock'[f] = sock[f]
    BY <1>8, EndsAssumption
  <1> QED
    BY <1>3, <1>7, <1>9, <1>10, <1>11, <1>12

LEMMA AcceptCustomerInv ==
    ASSUME NEW c \in Cli, NEW a \in Ips, IInv, AcceptCustomer(c, a)
    PROVE  IInv'
  <1>1. CASE Crash
    BY <1>1, CrashInv
  <1>2. CASE ~Crash
    <2>1. /\ cli[c] # Nil /\ <<cli[c].l, "cli", c>> \in reg /\ FreeFds # {}
          /\ pend' = [pend EXCEPT ![cli[c].l] = @ \ {a}]
          /\ UNCHANGED <<up, backlog, conn, clients, ips, white, stale, ctl>>
      BY <1>2 DEF AcceptCustomer
    <2>2. Rest'
      <3>1. pend' \in [Fds -> SUBSET Ips]
        BY <2>1 DEF IInv, Rest
      <3> QED
        BY <2>1, <3>1 DEF IInv, Rest
    <2>3. CASE Forwarded(c, a, NextFd)
      <3>1. /\ Owned(sock, conn, cli, fwds)' /\ reg' = RegOf(conn, cli, fwds)'
            /\ Held(cli') = Held(cli)
            /\ \A d \in Held(cli) : cli'[d].id = cli[d].id /\ cli'[d].kind = cli[d].kind
            /\ \A g \in Fds : sock'[g] \in Links => sock'[g] = sock[g]
        BY <2>1, <2>3, ForwardedInv
      <3>2. Sorted(clients, cli)'
        BY <2>1, <3>1, SortedSame DEF IInv
      <3>3. NotOpen'
        BY <2>1, <3>1 DEF IInv, Rest, NotOpen
      <3> QED
        BY <2>2, <3>1, <3>2, <3>3 DEF IInv
    <2>4. CASE UNCHANGED <<sock, fwds, cli, reg>>
      BY <2>1, <2>2, <2>4, KeptInv DEF Kept, IInv, NotOpen
    <2> QED
      BY <1>2, <2>3, <2>4 DEF AcceptCustomer
  <1> QED
    BY <1>1, <1>2

LEMMA FwdReleaseInv == ASSUME NEW w \in fwds, IInv, FwdRelease(w)
                       PROVE  IInv'
  <1>1. /\ sock \in [Fds -> Remote \cup {Nil}] /\ fwds \subseteq FwdRec
        /\ Owned(sock, conn, cli, fwds) /\ reg = RegOf(conn, cli, fwds)
    BY DEF IInv, Owned, Typed
  <1>2. w.t \in Fds /\ w.p \in Fds
    BY <1>1 DEF FwdRec
  <1>3. /\ sock' \in [Fds -> Remote \cup {Nil}]
        /\ \A f \in Fds : sock'[f] = IF f = w.t \/ f = w.p THEN Nil ELSE sock[f]
    BY <1>1, <1>2 DEF FwdRelease
  <1>4. /\ Owned(sock', conn, cli, fwds \ {w})
        /\ RegOf(conn, cli, fwds \ {w})
             = RegOf(conn, cli, fwds) \ {<<w.t, "fwd", w.t>>, <<w.p, "fwd", w.t>>}
    BY <1>1, <1>3, FwdReleaseOwned
  <1>5. Rest' /\ Sorted(clients, cli)'
    BY DEF FwdRelease, IInv, Rest, Sorted, Held, Same
  <1>6. NotOpen'
    BY <1>3, NilAssumption DEF FwdRelease, IInv, Rest, NotOpen, Remote
  <1> QED
    BY <1>1, <1>4, <1>5, <1>6 DEF FwdRelease, IInv

\* radmsrv_del; ctl is that of its caller.
LEMMA DeleteInv == ASSUME NEW id, NEW kind, IInv, Delete(id, kind), ctl' \in Seq(Datagram)
                   PROVE  IInv'
  <1> DEFINE c == Find(id, kind)
  <1>1. CASE c = Nil
    <2>1. Kept /\ UNCHANGED <<up, backlog, pend, ips, white, stale>>
      BY <1>1 DEF Delete, Kept
    <2> QED
      BY <2>1, KeptInv DEF IInv, Rest, NotOpen, Kept
  <1>2. CASE c # Nil
    <2>1. c \in Held(cli) /\ Release(c) /\ UNCHANGED <<up, backlog, conn, fwds, ips, white, stale>>
      BY <1>2, Finds DEF Delete, IInv
    <2> HIDE DEF c
    <2>2. /\ sock \in [Fds -> Remote \cup {Nil}] /\ cli \in [Cli -> CliRec \cup {Nil}]
          /\ Owned(sock, conn, cli, fwds) /\ reg = RegOf(conn, cli, fwds)
      BY DEF IInv, Owned, Typed
    <2>3. c \in Cli
      BY <2>1 DEF Held
    <2>4. /\ sock' \in [Fds -> Remote \cup {Nil}]
          /\ \A f \in Fds : sock'[f] = IF f \in {cli[c].l, cli[c].r} THEN Nil ELSE sock[f]
          /\ cli' \in [Cli -> CliRec \cup {Nil}]
          /\ cli'[c] = Nil /\ \A d \in Cli : d # c => cli'[d] = cli[d]
      BY <2>1, <2>2, <2>3 DEF Release
    <2>5. /\ Owned(sock', conn, cli', fwds)
          /\ RegOf(conn, cli', fwds) = RegOf(conn, cli, fwds) \ {<<cli[c].l, "cli", c>>}
      BY <2>1, <2>2, <2>4, ReleaseOwned
    <2>6. Sorted(clients, cli)'
      <3>1. Held(cli') = Held(cli) \ {c} /\ \A d \in Held(cli') : cli'[d] = cli[d]
        BY <2>4 DEF Held
      <3>2. Sorted(Without(clients, c), cli')
        BY <2>1, <3>1, WithoutSorted DEF IInv
      <3> QED
        BY <2>1, <3>2 DEF Release
    <2>7. Rest'
      BY <2>1 DEF Release, IInv, Rest
    <2>8. NotOpen'
      BY <2>1, <2>4, NilAssumption DEF IInv, Rest, NotOpen, Remote
    <2> QED
      BY <2>1, <2>2, <2>5, <2>6, <2>7, <2>8 DEF Release, IInv
  <1> QED
    BY <1>1, <1>2

LEMMA DelTimeoutInv == ASSUME NEW c \in Cli, IInv, DelTimeout(c)
                       PROVE  IInv'
  BY DeleteInv DEF DelTimeout, IInv, Rest

\* Whatever is left of an address is an address.
LEMMA LeftoverIs == ASSUME stale \subseteq Ips PROVE Leftover \subseteq Ips
  <1>1. \A a \in stale : Begins[a] \subseteq Ips
    BY WhiteAssumption
  <1> QED
    BY <1>1 DEF Leftover

\* The steps of the page and of the addresses other than deletions.
LEMMA PageInv ==
    ASSUME IInv,
           \/ \E a \in Ips : WebRequest(a, <<>>) \/ \E d \in Change : WebRequest(a, <<d>>)
           \/ CtlDeleteIgnored \/ CtlAddIp \/ CtlWhite
           \/ \E a \in Ips : IpTimeout(a)
    PROVE  IInv'
  <1> DEFINE PageTyped == /\ ips' \subseteq Ips /\ white' \subseteq Ips /\ stale' \subseteq Ips
                          /\ ctl' \in Seq(Datagram)
  <1>1. ctl \in Seq(Datagram) /\ ips \subseteq Ips /\ white \subseteq Ips /\ stale \subseteq Ips
    BY DEF IInv, Rest
  <1>2. Kept /\ UNCHANGED <<up, backlog, pend>>
    BY DEF Kept, WebRequest, CtlDeleteIgnored, CtlAddIp, CtlWhite, IpTimeout
  <1>3. ctl # <<>> => Head(ctl) \in Datagram /\ Tail(ctl) \in Seq(Datagram)
    BY <1>1
  <1>4. PageTyped
    <2>1. ASSUME NEW a \in Ips, NEW change \in Seq(Datagram), WebRequest(a, change)
          PROVE  PageTyped
      <3>1. <<[cmd |-> "IP", ip |-> a]>> \in Seq(Datagram)
        BY DEF Datagram
      <3> QED
        BY <1>1, <2>1, <3>1, ConcatProperties DEF WebRequest
    <2>2. <<>> \in Seq(Datagram) /\ \A d \in Change : <<d>> \in Seq(Datagram)
      BY DEF Datagram
    <2>3. CASE CtlDeleteIgnored
      BY <1>1, <1>3, <2>3 DEF CtlDeleteIgnored, Asked
    <2>4. CASE CtlAddIp
      <3>1. Head(ctl) \in Datagram /\ Head(ctl).cmd = "IP"
        BY <1>3, <2>4 DEF CtlAddIp, Asked
      <3>2. Head(ctl).ip \in Ips
        BY <3>1 DEF Datagram, Change
      <3> QED
        BY <1>1, <1>3, <2>4, <3>2 DEF CtlAddIp, Asked
    <2>5. CASE CtlWhite
      <3>1. Head(ctl) \in Datagram /\ Head(ctl).cmd = "W"
        BY <1>3, <2>5 DEF CtlWhite, Asked
      <3>2. Head(ctl).list \subseteq Ips
        BY <3>1 DEF Datagram, Change
      <3>3. white' \in Heard(Head(ctl).list)
        BY <2>5 DEF CtlWhite
      <3>4. Leftover \subseteq Ips
        BY <1>1, LeftoverIs
      <3>5. white' \subseteq Ips
        BY <3>2, <3>3, <3>4 DEF Heard
      <3>6. stale' \subseteq Ips
        BY <1>1, <2>5, <3>2 DEF CtlWhite
      <3>7. ctl' \in Seq(Datagram) /\ ips' = ips
        BY <1>3, <2>5 DEF CtlWhite, Asked
      <3> QED
        BY <1>1, <3>5, <3>6, <3>7
    <2>6. ASSUME NEW a \in Ips, IpTimeout(a)
          PROVE  PageTyped
      BY <1>1, <2>6 DEF IpTimeout
    <2> QED
      BY <2>1, <2>2, <2>3, <2>4, <2>5, <2>6
  <1>5. Rest' /\ NotOpen'
    BY <1>2, <1>4 DEF IInv, Rest, NotOpen, Kept
  <1> QED
    BY <1>2, <1>5, KeptInv

LEMMA NextInv == IInv /\ [Next]_vars => IInv'
  <1> SUFFICES ASSUME IInv, [Next]_vars
               PROVE  IInv'
    OBVIOUS
  <1>1. CASE Device
    BY <1>1, DeviceConnectsInv, AcceptDeviceInv, ConnErrorInv, ConnPartialInv, ReconnectInv,
       NewClientInv DEF Device
  <1>2. CASE Customer
    BY <1>2, CustomerConnectsInv, AcceptCustomerInv, FwdReleaseInv, CrashInv DEF Customer, FwdKills
  <1>3. CASE Control
    <2>1. CASE CtlDelete
      <3>1. ctl' \in Seq(Datagram)
        BY <2>1 DEF CtlDelete, Asked, IInv, Rest
      <3> QED
        BY <2>1, <3>1, DeleteInv DEF CtlDelete
    <2>2. CASE CtlDeleteEmpty
      BY <2>2, CrashInv DEF CtlDeleteEmpty
    <2>3. CASE \E c \in Cli : DelTimeout(c)
      BY <2>3, DelTimeoutInv
    <2> QED
      BY <1>3, <2>1, <2>2, <2>3, PageInv DEF Control
  <1>4. CASE Restart
    BY <1>4, RestartInv
  <1>5. CASE UNCHANGED vars
    <2>1. Kept /\ Rest' /\ NotOpen'
      BY <1>5 DEF vars, Kept, IInv, Rest, NotOpen
    <2> QED
      BY <2>1, KeptInv
  <1> QED
    BY <1>1, <1>2, <1>3, <1>4, <1>5 DEF Next

\* Between callbacks of the worker, IInv holds, whatever devices, customers,
\* pages and timers did.
THEOREM Invariance == Spec => []IInv
  BY InitInv, NextInv, PTL DEF Spec

-----------------------------------------------------------------------------
(* What the invariant says of the properties.                              *)

LEMMA ListedHeld == ASSUME IInv PROVE Listed = Held(cli)
  BY DEF IInv, Sorted, Listed

\* Every variable keeps to its type: in particular no registration names a
\* descriptor or an object that is not there, and no datagram of the control
\* socket is read as another.
THEOREM TypeCorrect == Spec => []TypeOK
  <1>1. ASSUME IInv
        PROVE  TypeOK
    <2>1. /\ sock \in [Fds -> Remote \cup {Nil}] /\ conn \in [Fds -> ConnRec \cup {Nil}]
          /\ cli \in [Cli -> CliRec \cup {Nil}] /\ fwds \subseteq FwdRec
      BY <1>1 DEF IInv, Owned, Typed
    <2>2. \A c \in Held(cli) : c \in Cli /\ cli[c].l \in Fds
      BY <2>1 DEF Held, CliRec
    <2>3. \A w \in fwds : w.t \in Fds /\ w.p \in Fds
      BY <2>1 DEF FwdRec
    <2>4. reg = RegOf(conn, cli, fwds)
      BY <1>1 DEF IInv
    <2>5. reg \subseteq Fds \X {"conn", "cli", "fwd"} \X (Fds \cup Cli)
      BY <2>2, <2>3, <2>4 DEF RegOf
    <2> QED
      BY <1>1, <2>1, <2>5 DEF IInv, Rest, Sorted, TypeOK
  <1> QED
    BY <1>1, Invariance, PTL

\* Each descriptor the worker holds open belongs to exactly one structure,
\* which takes it for what it is, and a closed one to none: nothing leaks and
\* nothing is used after its close, whatever the devices, the customers and
\* the page do, and with however few descriptors.
THEOREM DescriptorsOwned == Spec => []FdOwnership
  <1>1. ASSUME IInv
        PROVE  FdOwnership
    <2>1. /\ Typed(sock, conn, cli, fwds) /\ Ends(sock, conn, cli, fwds) /\ Apart(cli, fwds)
          /\ \A f \in Fds : sock[f] # Nil => Has(f, conn, cli, fwds)
          /\ Listed = Held(cli)
      BY <1>1, ListedHeld DEF IInv, Owned
    <2>2. /\ Nil \notin Fds \cup Links \cup Ips \cup {Listen}
          /\ Links \cap Ips = {} /\ Listen \notin Links \cup Ips
      BY NilAssumption, EndsAssumption DEF Remote
    <2>3. \A w \in fwds : w.t \in Fds /\ w.p \in Fds
      BY <2>1 DEF Typed, FwdRec
    <2> SUFFICES ASSUME NEW f \in Fds
                 PROVE  IF sock[f] = Nil THEN Owners(f) = {}
                        ELSE \E o \in Owners(f) : Owners(f) = {o} /\ sock[f] \in EndOf[o[1]]
      BY DEF FdOwnership
    <2> DEFINE port == {c \in Held(cli) : cli[c].l = f}
               waiting == {c \in Held(cli) : cli[c].r = f}
               device == {w \in fwds : w.t = f}
               customer == {w \in fwds : w.p = f}
               only(name, x) == Owners(f) = {<<name, x>>} /\ sock[f] \in EndOf[name]
    <2>4. Owners(f) = {<<"conn", g>> : g \in {h \in Fds : h = f /\ conn[h] # Nil}}
                      \cup {<<"port", c>> : c \in port} \cup {<<"waiting", c>> : c \in waiting}
                      \cup {<<"device", w>> : w \in device} \cup {<<"customer", w>> : w \in customer}
      BY <2>1 DEF Owners
    <2>5. ASSUME sock[f] = Nil
          PROVE  Owners(f) = {}
      <3>1. conn[f] = Nil /\ port = {} /\ waiting = {} /\ device = {} /\ customer = {}
        BY <1>1, <2>5, FreeIsNobodys DEF IInv
      <3> HIDE DEF port, waiting, device, customer
      <3> QED
        BY <2>4, <3>1
    <2>6. ASSUME conn[f] # Nil
          PROVE  only("conn", f)
      <3>1. sock[f] \in Links /\ port = {} /\ waiting = {} /\ device = {} /\ customer = {}
        BY <2>1, <2>2, <2>6 DEF Ends
      <3> HIDE DEF port, waiting, device, customer
      <3> QED
        BY <2>4, <2>6, <3>1 DEF EndOf
    <2>7. ASSUME NEW c \in Held(cli), cli[c].l = f
          PROVE  only("port", c)
      <3>1. sock[f] = Listen
        BY <2>1, <2>7 DEF Ends
      <3>2. conn[f] = Nil /\ waiting = {} /\ device = {} /\ customer = {}
        BY <2>1, <2>2, <3>1 DEF Ends
      <3>3. port = {c}
        BY <2>1, <2>7 DEF Apart
      <3> HIDE DEF port, waiting, device, customer
      <3> QED
        BY <2>4, <3>1, <3>2, <3>3 DEF EndOf
    <2>8. ASSUME NEW c \in Held(cli), cli[c].r = f
          PROVE  only("waiting", c)
      <3>1. sock[f] \in Links /\ conn[f] = Nil
        BY <2>1, <2>2, <2>8 DEF Ends
      <3>2. port = {} /\ customer = {}
        BY <2>1, <2>2, <3>1 DEF Ends
      <3>3. waiting = {c} /\ device = {}
        BY <2>1, <2>2, <2>8 DEF Apart
      <3> HIDE DEF port, waiting, device, customer
      <3> QED
        BY <2>4, <3>1, <3>2, <3>3 DEF EndOf
    <2>9. ASSUME NEW w \in fwds, w.t = f
          PROVE  only("device", w)
      <3>1. sock[f] \in Links /\ conn[f] = Nil
        BY <2>1, <2>9 DEF Ends
      <3>2. port = {} /\ customer = {}
        BY <2>1, <2>2, <3>1 DEF Ends
      <3>3. waiting = {} /\ device = {w}
        BY <2>1, <2>9 DEF Apart
      <3> HIDE DEF port, waiting, device, customer
      <3> QED
        BY <2>4, <3>1, <3>2, <3>3 DEF EndOf
    <2>10. ASSUME NEW w \in fwds, w.p = f
           PROVE  only("customer", w)
      <3>1. sock[f] \in Ips
        BY <2>1, <2>10 DEF Ends
      <3>2. conn[f] = Nil /\ port = {} /\ waiting = {} /\ device = {}
        BY <2>1, <2>2, <3>1 DEF Ends
      <3>3. customer = {w}
        BY <2>1, <2>10 DEF Apart
      <3> HIDE DEF port, waiting, device, customer
      <3> QED
        BY <2>4, <3>1, <3>2, <3>3 DEF EndOf
    <2>11. CASE sock[f] # Nil
      <3>1. \E name, x : only(name, x)
        <4> HIDE DEF only
        <4> QED
          BY <2>1, <2>6, <2>7, <2>8, <2>9, <2>10, <2>11 DEF Has
      <3> QED
        BY <2>11, <3>1
    <2> QED
      BY <2>5, <2>11
  <1> QED
    BY <1>1, Invariance, PTL

\* The callbacks registered are those of the structures that live, none with
\* the context of one that was freed and none missing: a waiting device can
\* always be asked for, and an entry without a device never accepts.
THEOREM RegistryIsExact == Spec => []RegistryExact
  <1>1. ASSUME IInv
        PROVE  RegistryExact
    BY <1>1, ListedHeld DEF IInv, RegOf, RegistryExact
  <1> QED
    BY <1>1, Invariance, PTL

\* The keystream handed from radmconn to radmcli to fwd stays with the
\* connection it was set up for, however often the device reconnects.
THEOREM KeystreamsInSync == Spec => []KeystreamInSync
  <1>1. ASSUME IInv
        PROVE  KeystreamInSync
    <2>1. Ends(sock, conn, cli, fwds) /\ Listed = Held(cli)
      BY <1>1, ListedHeld DEF IInv, Owned
    <2> QED
      BY <2>1 DEF Ends, KeystreamInSync
  <1> QED
    BY <1>1, Invariance, PTL

\* The list names every entry once, one for a name and service, in order: what
\* radmsrv_find_client and radmsrv_del find is the entry of the device, and
\* none is out of their reach.
THEOREM ListSorted == Spec => []ClientsSorted
  <1>1. ASSUME IInv
        PROVE  ClientsSorted
    <2>1. Sorted(clients, cli)
      BY <1>1 DEF IInv
    <2>2. Listed = {c \in Cli : cli[c] # Nil}
      BY <1>1, ListedHeld DEF Held
    <2>3. \A m, n \in DOMAIN clients : m < n =>
              /\ cli[clients[m]].id <= cli[clients[n]].id
              /\ ~(cli[clients[m]].id = cli[clients[n]].id
                   /\ cli[clients[m]].kind = cli[clients[n]].kind)
      BY <2>1 DEF Sorted, Same
    <2> QED
      BY <2>2, <2>3 DEF ClientsSorted
  <1> QED
    BY <1>1, Invariance, PTL

-----------------------------------------------------------------------------
(* The worker is a broker.                                                 *)

Offers == [v \in Service |-> OfferOf(v)]

\* Entry c has a device that waits, for service v.
Offered(es, v, c) == /\ c \in Held(es) /\ es[c].r # Nil
                     /\ es[c].id = v[1] /\ es[c].kind = v[2]

\* What is offered is the connection of the one entry that waits.
OfferView ==
    \A v \in Service :
        /\ \A c : Offered(cli, v, c) => OfferOf(v) = sock[cli[c].r] /\ OfferOf(v) \in Links
        /\ (\A c : ~Offered(cli, v, c)) => OfferOf(v) = Nil

LEMMA OfferIs == IInv => OfferView
  <1> SUFFICES ASSUME IInv, NEW v \in Service
               PROVE  /\ \A c : Offered(cli, v, c)
                              => OfferOf(v) = sock[cli[c].r] /\ OfferOf(v) \in Links
                      /\ (\A c : ~Offered(cli, v, c)) => OfferOf(v) = Nil
    BY DEF OfferView
  <1> DEFINE d == Find(v[1], v[2])
  <1>1. /\ d = Nil => \A c \in Held(cli) : ~(cli[c].id = v[1] /\ cli[c].kind = v[2])
        /\ d # Nil => /\ d \in Held(cli) /\ cli[d].id = v[1] /\ cli[d].kind = v[2]
                      /\ \A c \in Held(cli) : cli[c].id = v[1] /\ cli[c].kind = v[2] => c = d
    BY Finds DEF IInv
  <1>2. OfferOf(v) = IF d = Nil \/ cli[d].r = Nil THEN Nil ELSE sock[cli[d].r]
    BY DEF OfferOf
  <1>3. \A c \in Held(cli) : cli[c].r # Nil => sock[cli[c].r] \in Links
    BY DEF IInv, Owned, Ends
  <1> HIDE DEF d
  <1> QED
    BY <1>1, <1>2, <1>3 DEF Offered

LEMMA OfferIsNext == IInv' => OfferView'
  BY OfferIs, PTL

\* A service whose entry, device and connection stay is offered as before.
LEMMA OfferKept ==
    ASSUME IInv, IInv', NEW v \in Service,
           \A c : Offered(cli', v, c) <=> Offered(cli, v, c),
           \A c : Offered(cli, v, c) => sock'[cli'[c].r] = sock[cli[c].r]
    PROVE  OfferOf(v)' = OfferOf(v)
  <1>1. CASE \E c : Offered(cli, v, c)
    BY <1>1, OfferIs, OfferIsNext DEF OfferView
  <1>2. CASE \A c : ~Offered(cli, v, c)
    BY <1>2, OfferIs, OfferIsNext DEF OfferView
  <1> QED
    BY <1>1, <1>2

LEMMA SessionsKept ==
    ASSUME fwds' = fwds, \A w \in fwds : sock'[w.t] = sock[w.t] /\ sock'[w.p] = sock[w.p]
    PROVE  Sessions' = Sessions
  BY DEF Sessions

\* Neither the names and connections of the entries nor the sessions changed.
LEMMA Stutters ==
    ASSUME IInv, IInv', UNCHANGED <<cli, fwds, ips, white, stale, ctl>>,
           \A c \in Held(cli) : cli[c].r # Nil => sock'[cli[c].r] = sock[cli[c].r],
           \A w \in fwds : sock'[w.t] = sock[w.t] /\ sock'[w.p] = sock[w.p]
    PROVE  UNCHANGED Promise!vars
  <1>1. \A v \in Service : OfferOf(v)' = OfferOf(v)
    BY OfferKept DEF Offered
  <1>2. Offers' = Offers
    BY <1>1 DEF Offers
  <1> QED
    BY <1>2, SessionsKept DEF Promise!vars, Offers

LEMMA CrashRestarts == ASSUME IInv, IInv', Crash PROVE Promise!Restart
  <1>1. /\ cli' = [c \in Cli |-> Nil] /\ fwds' = {}
        /\ ips' = {} /\ white' = InitWhite /\ stale' = {} /\ ctl' = <<>>
    BY DEF Crash, Fresh
  <1>2. \A v \in Service : OfferOf(v)' = Nil
    BY <1>1, OfferIsNext DEF OfferView, Offered, Held
  <1>3. Offers' = [v \in Service |-> Nil]
    BY <1>2 DEF Offers
  <1> QED
    BY <1>1, <1>3 DEF Promise!Restart, Offers, Sessions

\* A device named itself: what entry c offers is the connection f.
LEMMA TakeOverOffers ==
    ASSUME IInv, IInv', NEW f \in Fds, conn[f] # Nil,
           NEW u \in Service, NEW c \in Cli,
           Offered(cli', u, c), cli'[c].r = f, sock'[f] = sock[f],
           c \in Held(cli) => cli[c].id = u[1] /\ cli[c].kind = u[2],
           \A d \in Cli : d # c => cli'[d] = cli[d],
           \A d \in Held(cli) : d # c /\ cli[d].r # Nil => sock'[cli[d].r] = sock[cli[d].r],
           \A w \in fwds : sock'[w.t] = sock[w.t] /\ sock'[w.p] = sock[w.p],
           UNCHANGED <<fwds, ips, white, stale, ctl>>
    PROVE  \E k \in Links : Promise!Offer(u, k)
  <1> DEFINE k == sock[f]
  <1>1. /\ k \in Links
        /\ \A d \in Held(cli) : cli[d].r # Nil => conn[cli[d].r] = Nil /\ cli[d].r \in Fds
        /\ \A w \in fwds : conn[w.t] = Nil /\ w.t \in Fds
        /\ \A g, h \in Fds : sock[g] \in Links /\ sock[g] = sock[h] => g = h
    BY DEF IInv, Owned, Typed, Ends, Held, CliRec, FwdRec
  <1>2. \A w \in fwds : sock[w.t] # k
    BY <1>1
  <1>3. \A v \in Service : OfferOf(v) # k
    <2> TAKE v \in Service
    <2>1. CASE \E d : Offered(cli, v, d)
      BY <1>1, <2>1, OfferIs DEF OfferView, Offered
    <2>2. CASE \A d : ~Offered(cli, v, d)
      BY <1>1, <2>2, OfferIs, NilAssumption DEF OfferView, Remote
    <2> QED
      BY <2>1, <2>2
  <1>4. OfferOf(u)' = k
    BY OfferIsNext DEF OfferView
  <1>5. \A v \in Service : v # u => OfferOf(v)' = OfferOf(v)
    <2> SUFFICES ASSUME NEW v \in Service, v # u
                 PROVE  OfferOf(v)' = OfferOf(v)
      OBVIOUS
    <2>1. ~(v[1] = u[1] /\ v[2] = u[2])
      BY DEF Service
    <2>2. ~Offered(cli', v, c) /\ ~Offered(cli, v, c)
      BY <2>1 DEF Offered
    <2>3. \A d : d # c => (Offered(cli', v, d) <=> Offered(cli, v, d))
      BY DEF Offered, Held
    <2>4. \A d : Offered(cli, v, d) => sock'[cli'[d].r] = sock[cli[d].r]
      BY <2>2 DEF Offered, Held
    <2> QED
      BY <2>2, <2>3, <2>4, OfferKept
  <1> HIDE DEF k
  <1>6. Offers' = [Offers EXCEPT ![u] = k]
    BY <1>4, <1>5 DEF Offers
  <1>7. k \notin Promise!InSession
    BY <1>2 DEF Promise!InSession, Sessions
  <1>8. \A v \in Service : Offers[v] # k
    BY <1>3 DEF Offers
  <1>9. Sessions' = Sessions
    BY SessionsKept
  <1> QED
    BY <1>1, <1>6, <1>7, <1>8, <1>9 DEF Promise!Offer, Promise!grants, Offers

\* What the sockets of entries and sessions are not.
LEMMA EndsView ==
    ASSUME IInv
    PROVE  /\ \A c \in Held(cli) : /\ c \in Cli /\ cli[c] \in CliRec /\ cli[c].l \in Fds
                                   /\ sock[cli[c].l] = Listen
                                   /\ cli[c].r # Nil => /\ cli[c].r \in Fds
                                                        /\ sock[cli[c].r] \in Links
                                                        /\ conn[cli[c].r] = Nil
           /\ \A w \in fwds : /\ w.t \in Fds /\ w.p \in Fds
                              /\ sock[w.t] \in Links /\ conn[w.t] = Nil /\ sock[w.p] \in Ips
           /\ \A f \in Fds : conn[f] # Nil => sock[f] \in Links
           /\ \A c, d \in Held(cli) : cli[c].r # Nil /\ cli[c].r = cli[d].r => c = d
           /\ \A c \in Held(cli), w \in fwds : cli[c].r # w.t
           /\ \A v, w \in fwds : v.t = w.t \/ v.p = w.p => v = w
           /\ \A f, g \in Fds : sock[f] \in Links /\ sock[f] = sock[g] => f = g
  BY DEF IInv, Owned, Typed, Ends, Apart, Held, CliRec, FwdRec

LEMMA NotLinks == /\ Nil \notin Fds \cup Cli \cup Links \cup Ips \cup {Listen} \cup CliRec
                  /\ Links \cap Ips = {} /\ Listen \notin Links \cup Ips
  BY NilAssumption, EndsAssumption DEF Remote

LEMMA AcceptDeviceRefines ==
    ASSUME NEW k \in Links, IInv, IInv', AcceptDevice(k)
    PROVE  UNCHANGED Promise!vars \/ Promise!Restart
  <1>1. CASE Crash
    BY <1>1, CrashRestarts
  <1>2. CASE ~Crash
    <2> DEFINE g == NextFd
    <2>1. /\ g \in Fds /\ sock[g] = Nil /\ sock' = [sock EXCEPT ![g] = k]
          /\ UNCHANGED <<cli, fwds, ips, white, stale, ctl>>
      BY <1>2, NextIsFree DEF AcceptDevice
    <2> HIDE DEF g
    <2>2. \A f \in Fds : sock[f] # Nil => sock'[f] = sock[f]
      BY <2>1 DEF IInv, Owned, Typed
    <2> QED
      BY <2>1, <2>2, EndsView, NotLinks, Stutters
  <1> QED
    BY <1>1, <1>2

LEMMA ConnErrorRefines ==
    ASSUME NEW f \in Fds, IInv, IInv', ConnError(f)
    PROVE  UNCHANGED Promise!vars
  <1>1. conn[f] # Nil
    BY ConnOpen DEF ConnError
  <1>2. \A g \in Fds : g # f => sock'[g] = sock[g]
    BY DEF ConnError, IInv, Owned, Typed
  <1>3. \A w \in fwds : w.p # f /\ w.t # f
    BY <1>1, EndsView, NotLinks
  <1>4. \A c \in Held(cli) : cli[c].r # Nil => sock'[cli[c].r] = sock[cli[c].r]
    BY <1>1, <1>2, EndsView
  <1>5. \A w \in fwds : sock'[w.t] = sock[w.t] /\ sock'[w.p] = sock[w.p]
    BY <1>2, <1>3, EndsView
  <1>6. UNCHANGED <<cli, fwds, ips, white, stale, ctl>>
    BY DEF ConnError
  <1> QED
    BY <1>4, <1>5, <1>6, Stutters

\* Steps that touch neither sockets, entries, sessions nor grants.
LEMMA KeptRefines ==
    ASSUME IInv, IInv', UNCHANGED <<sock, cli, fwds, ips, white, stale, ctl>>
    PROVE  UNCHANGED Promise!vars
  BY Stutters

\* The end of radmsrv_conn_callback, for an entry that was there before or one
\* that was put into s and es.
LEMMA TakeOverRefines ==
    ASSUME NEW f \in Fds, NEW id \in Ids, NEW kind \in Kinds, IInv, IInv', conn[f] # Nil,
           NEW c \in Cli, NEW s, NEW es,
           TakeOver(c, f, id, kind, s, es),
           es \in [Cli -> CliRec \cup {Nil}], es[c] \in CliRec,
           c \in Held(cli) => cli[c].id = id /\ cli[c].kind = kind /\ cli[c].r = es[c].r,
           c \notin Held(cli) => es[c].r = Nil,
           \A d \in Cli : d # c => es[d] = cli[d],
           \A g \in Fds : sock[g] # Nil => s[g] = sock[g]
    PROVE  \E u \in Service, k \in Links : Promise!Offer(u, k)
  <1> DEFINE u == <<id, kind>>
             e == [id |-> id, kind |-> kind, l |-> es[c].l, r |-> f, dec |-> conn[f].dec]
  <1>1. u \in Service /\ u[1] = id /\ u[2] = kind
    BY DEF Service
  <1>2. /\ \A g \in Fds : sock'[g] = IF g = es[c].r THEN Nil ELSE s[g]
        /\ cli' = [es EXCEPT ![c] = e]
        /\ UNCHANGED <<fwds, ips, white, stale, ctl>>
    BY DEF TakeOver
  <1>3. e.id = id /\ e.kind = kind /\ e.r = f
    OBVIOUS
  <1> HIDE DEF e, u
  <1>4. cli'[c] = e /\ \A d \in Cli : d # c => cli'[d] = cli[d]
    BY <1>2
  <1>5. f # Nil /\ sock[f] \in Links /\ sock[f] # Nil
    BY EndsView, NotLinks
  <1>6. f # es[c].r
    BY <1>5, EndsView
  <1>7. sock'[f] = sock[f]
    BY <1>2, <1>5, <1>6
  <1>8. e # Nil
    <2>1. conn[f] \in ConnRec
      BY DEF IInv, Owned, Typed
    <2>2. es[c].l \in Fds /\ conn[f].dec \in Links
      BY <2>1 DEF CliRec, ConnRec
    <2> QED
      BY <2>2, NotLinks DEF e, CliRec
  <1>9. Offered(cli', u, c)
    BY <1>1, <1>3, <1>4, <1>5, <1>8 DEF Offered, Held
  <1>10. \A d \in Held(cli) : d # c /\ cli[d].r # Nil => sock'[cli[d].r] = sock[cli[d].r]
    <2> SUFFICES ASSUME NEW d \in Held(cli), d # c, cli[d].r # Nil
                 PROVE  sock'[cli[d].r] = sock[cli[d].r]
      OBVIOUS
    <2>1. cli[d].r \in Fds /\ sock[cli[d].r] # Nil /\ cli[d].r # es[c].r
      BY EndsView, NotLinks
    <2> QED
      BY <1>2, <2>1
  <1>11. \A w \in fwds : sock'[w.t] = sock[w.t] /\ sock'[w.p] = sock[w.p]
    <2> SUFFICES ASSUME NEW w \in fwds
                 PROVE  sock'[w.t] = sock[w.t] /\ sock'[w.p] = sock[w.p]
      OBVIOUS
    <2>1. /\ w.t \in Fds /\ w.p \in Fds /\ sock[w.t] # Nil /\ sock[w.p] # Nil
          /\ w.t # es[c].r /\ w.p # es[c].r
      BY EndsView, NotLinks
    <2> QED
      BY <1>2, <2>1
  <1>12. c \in Held(cli) => cli[c].id = u[1] /\ cli[c].kind = u[2]
    BY <1>1
  <1>13. cli'[c].r = f
    BY <1>3, <1>4
  <1>14. \E k \in Links : Promise!Offer(u, k)
    BY <1>1, <1>2, <1>4, <1>7, <1>9, <1>10, <1>11, <1>12, <1>13, TakeOverOffers
  <1> QED
    BY <1>1, <1>14

LEMMA ReconnectRefines ==
    ASSUME NEW f \in Fds, NEW id \in Ids, NEW kind \in Kinds, IInv, IInv', Reconnect(f, id, kind)
    PROVE  \E u \in Service, k \in Links : Promise!Offer(u, k)
  <1> DEFINE c == Find(id, kind)
  <1>1. /\ c \in Held(cli) /\ cli[c].id = id /\ cli[c].kind = kind
        /\ TakeOver(c, f, id, kind, sock, cli)
    BY Finds DEF Reconnect, IInv
  <1> HIDE DEF c
  <1>2. conn[f] # Nil
    BY ConnOpen DEF Reconnect
  <1>3. c \in Cli /\ cli[c] \in CliRec /\ cli \in [Cli -> CliRec \cup {Nil}]
    BY <1>1, EndsView DEF IInv, Owned, Typed
  <1> QED
    BY <1>1, <1>2, <1>3, TakeOverRefines

LEMMA NewClientRefines ==
    ASSUME NEW f \in Fds, NEW id \in Ids, NEW kind \in Kinds, IInv, IInv', NewClient(f, id, kind)
    PROVE  (\E u \in Service, k \in Links : Promise!Offer(u, k)) \/ Promise!Restart
  <1>1. CASE Crash
    BY <1>1, CrashRestarts
  <1>2. CASE ~Crash
    <2> DEFINE g == NextFd
               s == [sock EXCEPT ![g] = Listen]
               e == [id |-> id, kind |-> kind, l |-> g, r |-> Nil, dec |-> Nil]
    <2>1. g \in Fds /\ sock[g] = Nil
      BY <1>2, NextIsFree DEF NewClient
    <2>2. PICK c \in Cli \ Listed : TakeOver(c, f, id, kind, s, [cli EXCEPT ![c] = e])
      BY <1>2 DEF NewClient
    <2> DEFINE es == [cli EXCEPT ![c] = e]
    <2>3. e \in CliRec /\ e.r = Nil
      BY <2>1 DEF CliRec
    <2> HIDE DEF g, e
    <2>4. c \in Cli /\ c \notin Held(cli)
      BY <2>2, ListedHeld
    <2>5. cli \in [Cli -> CliRec \cup {Nil}] /\ sock \in [Fds -> Remote \cup {Nil}]
      BY DEF IInv, Owned, Typed
    <2>6. /\ es \in [Cli -> CliRec \cup {Nil}] /\ es[c] \in CliRec /\ es[c].r = Nil
          /\ \A d \in Cli : d # c => es[d] = cli[d]
      BY <2>3, <2>4, <2>5
    <2>7. \A h \in Fds : sock[h] # Nil => s[h] = sock[h]
      BY <2>1, <2>5
    <2>8. TakeOver(c, f, id, kind, s, es)
      BY <2>2
    <2>9. conn[f] # Nil
      BY ConnOpen DEF NewClient
    <2> HIDE DEF s, es
    <2> QED
      BY <2>4, <2>6, <2>7, <2>8, <2>9, TakeOverRefines
  <1> QED
    BY <1>1, <1>2

\* A customer gets the link on offer, if its address is granted.
LEMMA ForwardedRefines ==
    ASSUME NEW c \in Cli, NEW a \in Granted, IInv, IInv',
           cli[c] # Nil, <<cli[c].l, "cli", c>> \in reg, FreeFds # {},
           Forwarded(c, a, NextFd), UNCHANGED <<ips, white, stale, ctl>>
    PROVE  \E v \in Service, b \in Ips : Promise!Connect(v, b)
  <1> DEFINE g == NextFd
             w == [t |-> cli[c].r, p |-> g, dec |-> cli[c].dec]
             e == [cli[c] EXCEPT !.r = Nil, !.dec = Nil]
  <1>1. c \in Held(cli) /\ cli[c].r # Nil /\ cli[c] \in CliRec
    BY PortWaits, EndsView
  <1>2. PICK u \in Service : u[1] = cli[c].id /\ u[2] = cli[c].kind
    <2>1. <<cli[c].id, cli[c].kind>> \in Service
      BY <1>1 DEF Service, CliRec
    <2> QED
      BY <2>1
  <1>3. g \in Fds /\ sock[g] = Nil
    BY NextIsFree
  <1>4. e.r = Nil
    BY <1>1 DEF CliRec
  <1>5. w.t = cli[c].r /\ w.p = g
    OBVIOUS
  <1>6. /\ sock' = [sock EXCEPT ![g] = a]
        /\ fwds' = fwds \cup {w}
        /\ cli' = [cli EXCEPT ![c] = e]
    BY DEF Forwarded, IInv, Owned, Typed
  <1> HIDE DEF g, w, e
  <1>7. /\ sock'[g] = a /\ \A f \in Fds : sock[f] # Nil => sock'[f] = sock[f]
        /\ cli'[c] = e /\ \A d \in Cli : d # c => cli'[d] = cli[d]
    BY <1>3, <1>6 DEF IInv, Owned, Typed
  <1>8. Offered(cli, u, c) /\ ~Offered(cli', u, c)
    BY <1>1, <1>2, <1>4, <1>7 DEF Offered
  <1>9. OfferOf(u) = sock[cli[c].r] /\ OfferOf(u) \in Links
    BY <1>2, <1>8, OfferIs DEF OfferView
  <1>10. \A d : d # c => ~Offered(cli, u, d)
    <2>1. \A d \in Held(cli) : Same(cli[d], cli[c]) => d = c
      BY <1>1 DEF IInv, Sorted, Same
    <2> QED
      BY <1>2, <2>1 DEF Offered, Same
  <1>11. OfferOf(u)' = Nil
    <2>1. \A d : ~Offered(cli', u, d)
      BY <1>7, <1>8, <1>10 DEF Offered, Held
    <2> QED
      BY <1>2, <2>1, OfferIsNext DEF OfferView
  <1>12. ASSUME NEW v \in Service, v # u
         PROVE  OfferOf(v)' = OfferOf(v)
    <2>1. ~Offered(cli, v, c)
      BY <1>2, <1>12 DEF Offered, Service
    <2>2. ~Offered(cli', v, c)
      BY <1>4, <1>7 DEF Offered
    <2>3. \A d : d # c => (Offered(cli', v, d) <=> Offered(cli, v, d))
      BY <1>7 DEF Offered, Held
    <2>4. \A d : Offered(cli, v, d) => sock'[cli'[d].r] = sock[cli[d].r]
      <3> SUFFICES ASSUME NEW d, Offered(cli, v, d)
                   PROVE  sock'[cli'[d].r] = sock[cli[d].r]
        OBVIOUS
      <3>1. d # c /\ d \in Held(cli) /\ cli[d].r # Nil
        BY <2>1 DEF Offered
      <3>2. d \in Cli /\ cli[d].r \in Fds /\ sock[cli[d].r] # Nil
        BY <3>1, EndsView, NotLinks
      <3> QED
        BY <1>7, <3>1, <3>2
    <2> QED
      BY <2>1, <2>2, <2>3, <2>4, OfferKept
  <1>13. Offers' = [Offers EXCEPT ![u] = Nil] /\ Offers[u] = OfferOf(u)
    BY <1>2, <1>11, <1>12 DEF Offers
  <1>14. Sessions' = Sessions \cup {<<OfferOf(u), a>>}
    <2>1. \A v \in fwds : sock'[v.t] = sock[v.t] /\ sock'[v.p] = sock[v.p]
      BY <1>7, EndsView, NotLinks
    <2>2. sock'[w.t] = OfferOf(u) /\ sock'[w.p] = a
      BY <1>1, <1>5, <1>7, <1>9, EndsView, NotLinks
    <2> QED
      BY <1>6, <2>1, <2>2 DEF Sessions
  <1>15. a \in Ips
    BY DEF IInv, Rest, Granted
  <1>16. Promise!Connect(u, a)
    BY <1>9, <1>13, <1>14, NotLinks DEF Promise!Connect, Promise!grants, Offers, Granted
  <1> QED
    BY <1>2, <1>15, <1>16

LEMMA AcceptCustomerRefines ==
    ASSUME NEW c \in Cli, NEW a \in Ips, IInv, IInv', AcceptCustomer(c, a)
    PROVE  \/ UNCHANGED Promise!vars \/ Promise!Restart
           \/ \E v \in Service, b \in Ips : Promise!Connect(v, b)
  <1>1. CASE Crash
    BY <1>1, CrashRestarts
  <1>2. CASE ~Crash /\ a \in Granted /\ Forwarded(c, a, NextFd)
    BY <1>2, ForwardedRefines DEF AcceptCustomer
  <1>3. CASE ~Crash /\ UNCHANGED <<sock, fwds, cli, reg>>
    BY <1>3, KeptRefines DEF AcceptCustomer
  <1> QED
    BY <1>1, <1>2, <1>3 DEF AcceptCustomer

LEMMA FwdReleaseRefines ==
    ASSUME NEW w \in fwds, IInv, IInv', FwdRelease(w)
    PROVE  \E s \in Sessions : Promise!End(s)
  <1>1. PICK s : s = <<sock[w.t], sock[w.p]>>
    OBVIOUS
  <1>2. \A f \in Fds : f # w.t /\ f # w.p => sock'[f] = sock[f]
    BY EndsView DEF FwdRelease, IInv, Owned, Typed
  <1>3. UNCHANGED <<cli, ips, white, stale, ctl>> /\ fwds' = fwds \ {w}
    BY DEF FwdRelease
  <1>4. ASSUME NEW v \in Service
        PROVE  OfferOf(v)' = OfferOf(v)
    <2>1. \A c \in Held(cli) : cli[c].r # Nil => sock'[cli[c].r] = sock[cli[c].r]
      BY <1>2, EndsView, NotLinks
    <2> QED
      BY <1>3, <2>1, OfferKept DEF Offered
  <1>5. Offers' = Offers
    BY <1>4 DEF Offers
  <1>6. \A x \in fwds \ {w} :
            /\ sock'[x.t] = sock[x.t] /\ sock'[x.p] = sock[x.p]
            /\ sock[x.t] # sock[w.t]
    BY <1>2, EndsView, NotLinks
  <1>7. Sessions' = Sessions \ {s}
    <2>1. Sessions' = {<<sock[x.t], sock[x.p]>> : x \in fwds \ {w}}
      BY <1>3, <1>6 DEF Sessions
    <2>2. \A x \in fwds \ {w} : <<sock[x.t], sock[x.p]>> # s
      BY <1>1, <1>6
    <2> QED
      BY <1>1, <2>1, <2>2 DEF Sessions
  <1>8. s \in Sessions
    BY <1>1 DEF Sessions
  <1>9. Promise!End(s)
    BY <1>3, <1>5, <1>7 DEF Promise!End, Promise!grants, Offers
  <1> QED
    BY <1>8, <1>9

\* Steps that leave the sockets, entries and sessions alone.
LEMMA OffersKept ==
    ASSUME IInv, IInv', UNCHANGED <<sock, cli, fwds>>
    PROVE  Offers' = Offers /\ Sessions' = Sessions
  <1>1. \A v \in Service : OfferOf(v)' = OfferOf(v)
    BY OfferKept DEF Offered
  <1> QED
    BY <1>1, SessionsKept DEF Offers

\* Deleting a service withdraws what it offers, if it offers anything, and ends
\* no session.
LEMMA DeleteRefines ==
    ASSUME NEW id, NEW kind, IInv, IInv', Delete(id, kind)
    PROVE  /\ \/ Offers' = Offers
              \/ <<id, kind>> \in Service /\ Offers' = [Offers EXCEPT ![<<id, kind>>] = Nil]
           /\ Sessions' = Sessions
           /\ UNCHANGED <<ips, white, stale>>
  <1>1. CASE Find(id, kind) = Nil
    BY <1>1, OffersKept DEF Delete
  <1>2. CASE Find(id, kind) # Nil
    <2>1. PICK c : c = Find(id, kind)
      OBVIOUS
    <2>2. /\ c \in Held(cli) /\ cli[c].id = id /\ cli[c].kind = kind
          /\ Release(c) /\ UNCHANGED <<fwds, ips, white, stale>>
          /\ \A d \in Held(cli) : cli[d].id = id /\ cli[d].kind = kind => d = c
      BY <1>2, <2>1, Finds DEF Delete, IInv
    <2>3. PICK u \in Service : u[1] = id /\ u[2] = kind /\ u = <<id, kind>>
      <3>1. <<id, kind>> \in Service
        BY <2>2, EndsView DEF Service, CliRec
      <3> QED
        BY <3>1
    <2>4. /\ \A f \in Fds : sock'[f] = IF f \in {cli[c].l, cli[c].r} THEN Nil ELSE sock[f]
          /\ cli'[c] = Nil /\ \A d \in Cli : d # c => cli'[d] = cli[d]
      BY <2>2, EndsView DEF Release, IInv, Owned, Typed
    <2>5. \A d \in Held(cli) : d # c /\ cli[d].r # Nil => sock'[cli[d].r] = sock[cli[d].r]
      <3> SUFFICES ASSUME NEW d \in Held(cli), d # c, cli[d].r # Nil
                   PROVE  sock'[cli[d].r] = sock[cli[d].r]
        OBVIOUS
      <3>1. cli[d].r \in Fds /\ cli[d].r # cli[c].l /\ cli[d].r # cli[c].r
        BY <2>2, EndsView, NotLinks
      <3> QED
        BY <2>4, <3>1
    <2>6. \A w \in fwds : sock'[w.t] = sock[w.t] /\ sock'[w.p] = sock[w.p]
      <3> SUFFICES ASSUME NEW w \in fwds
                   PROVE  sock'[w.t] = sock[w.t] /\ sock'[w.p] = sock[w.p]
        OBVIOUS
      <3>1. /\ w.t \in Fds /\ w.t # cli[c].l /\ w.t # cli[c].r
            /\ w.p \in Fds /\ w.p # cli[c].l /\ w.p # cli[c].r
        BY <2>2, EndsView, NotLinks
      <3> QED
        BY <2>4, <3>1
    <2>7. OfferOf(u)' = Nil
      <3>1. \A d : ~Offered(cli', u, d)
        BY <2>2, <2>3, <2>4 DEF Offered, Held
      <3> QED
        BY <3>1, OfferIsNext DEF OfferView
    <2>8. ASSUME NEW v \in Service, v # u
          PROVE  OfferOf(v)' = OfferOf(v)
      <3>1. ~Offered(cli, v, c) /\ ~Offered(cli', v, c)
        BY <2>2, <2>3, <2>4, <2>8 DEF Offered, Held, Service
      <3>2. \A d : d # c => (Offered(cli', v, d) <=> Offered(cli, v, d))
        BY <2>4 DEF Offered, Held
      <3>3. \A d : Offered(cli, v, d) => sock'[cli'[d].r] = sock[cli[d].r]
        BY <2>4, <2>5, <3>1 DEF Offered, Held
      <3> QED
        BY <3>1, <3>2, <3>3, OfferKept
    <2>9. Offers' = [Offers EXCEPT ![u] = Nil]
      BY <2>7, <2>8 DEF Offers
    <2> QED
      BY <2>2, <2>3, <2>6, <2>9, SessionsKept
  <1> QED
    BY <1>1, <1>2

LEMMA DelTimeoutRefines ==
    ASSUME NEW c, IInv, IInv', DelTimeout(c)
    PROVE  UNCHANGED Promise!vars \/ \E v \in Service : Promise!Withdraw(v)
  <1>1. PICK id, kind : Delete(id, kind) /\ ctl' = ctl
    BY DEF DelTimeout
  <1> QED
    BY <1>1, DeleteRefines DEF Promise!vars, Promise!Withdraw, Promise!grants, Offers

\* What the page asked for last is obeyed last.
LEMMA WebRequestRefines ==
    ASSUME NEW a \in Ips, NEW more, IInv, IInv', WebRequest(a, more)
    PROVE  Promise!Ask(a, more)
  <1>1. /\ ctl' = ctl \o <<[cmd |-> "IP", ip |-> a]>> \o more
        /\ UNCHANGED <<sock, cli, fwds, ips, white, stale>>
    BY DEF WebRequest
  <1> QED
    BY <1>1, OffersKept DEF Promise!Ask, Promise!grants, Offers

\* A datagram of the page says which service it deletes.
LEMMA CtlDeleteRefines ==
    ASSUME IInv, IInv', CtlDelete \/ CtlDeleteIgnored
    PROVE  Promise!Delete
  <1> DEFINE id == Head(ctl).id
             kind == Head(ctl).kind
  <1>1. /\ \/ Offers' = Offers
           \/ Offers' = [Offers EXCEPT ![<<id, kind>>] = Nil]
        /\ Sessions' = Sessions
        /\ UNCHANGED <<ips, white, stale>>
    <2>1. CASE CtlDelete
      BY <2>1, DeleteRefines DEF CtlDelete
    <2>2. CASE CtlDeleteIgnored
      BY <2>2, OffersKept DEF CtlDeleteIgnored
    <2> QED
      BY <2>1, <2>2
  <1>2. Promise!Obey("D")
    BY DEF CtlDelete, CtlDeleteIgnored, Asked, Promise!Obey
  <1> QED
    BY <1>1, <1>2 DEF Promise!Delete, Promise!grants, Offers

LEMMA CtlAddIpRefines == ASSUME IInv, IInv', CtlAddIp PROVE Promise!LogIn
  <1>1. ips' = ips \cup {Head(ctl).ip} /\ UNCHANGED <<sock, cli, fwds, white, stale>>
    BY DEF CtlAddIp
  <1>2. Promise!Obey("IP")
    BY DEF CtlAddIp, Asked, Promise!Obey
  <1> QED
    BY <1>1, <1>2, OffersKept DEF Promise!LogIn, Offers

\* The white list becomes a part of what the page sent, or one address that an
\* earlier list left in the buffer, whole or cut short.
LEMMA CtlWhiteRefines == ASSUME IInv, IInv', CtlWhite PROVE Promise!NewList
  <1> DEFINE list == Head(ctl).list
  <1>1. /\ white' \in Heard(list)
        /\ stale' = stale \cup {a \in list : Cardinality(list) > 1}
        /\ UNCHANGED <<sock, cli, fwds, ips>>
    BY DEF CtlWhite
  <1>2. Promise!Obey("W")
    BY DEF CtlWhite, Asked, Promise!Obey
  <1>3. white' \subseteq list \/ \E a \in Leftover : white' = {a}
    BY <1>1 DEF Heard
  <1>4. Leftover = Promise!Former
    BY DEF Leftover, Promise!Former
  <1>5. \E as \in SUBSET list : stale' = stale \cup as
    BY <1>1
  <1> QED
    BY <1>1, <1>2, <1>3, <1>4, <1>5, OffersKept DEF Promise!NewList, Offers

LEMMA IpTimeoutRefines == ASSUME NEW a \in Ips, IInv, IInv', IpTimeout(a) PROVE Promise!Forget(a)
  <1>1. ips' = ips \ {a} /\ UNCHANGED <<sock, cli, fwds, white, stale, ctl>>
    BY DEF IpTimeout
  <1> QED
    BY <1>1, OffersKept DEF Promise!Forget, Offers

LEMMA NextRefines == IInv /\ IInv' /\ [Next]_vars => [Promise!Next]_(Promise!vars)
  <1> SUFFICES ASSUME IInv, IInv', [Next]_vars
               PROVE  Promise!Next \/ UNCHANGED Promise!vars
    OBVIOUS
  <1>1. CASE Device
    <2>1. ASSUME NEW k \in Links, DeviceConnects(k)
          PROVE  UNCHANGED Promise!vars
      BY <2>1, KeptRefines DEF DeviceConnects
    <2>2. ASSUME NEW f \in Fds, ConnPartial(f)
          PROVE  UNCHANGED Promise!vars
      BY <2>2, KeptRefines DEF ConnPartial
    <2> QED
      BY <1>1, <2>1, <2>2, AcceptDeviceRefines, ConnErrorRefines, ReconnectRefines,
         NewClientRefines DEF Device, Promise!Next
  <1>2. CASE Customer
    <2>1. ASSUME NEW f \in Fds, NEW a \in Ips, CustomerConnects(f, a)
          PROVE  UNCHANGED Promise!vars
      BY <2>1, KeptRefines DEF CustomerConnects
    <2> QED
      BY <1>2, <2>1, AcceptCustomerRefines, FwdReleaseRefines, CrashRestarts
         DEF Customer, FwdKills, Promise!Next
  <1>3. CASE Control
    <2>1. CASE \E a \in Ips : WebRequest(a, <<>>) \/ \E d \in Change : WebRequest(a, <<d>>)
      <3>1. PICK a \in Ips, more \in {<<>>} \cup {<<d>> : d \in Change} : WebRequest(a, more)
        BY <2>1
      <3> QED
        BY <3>1, WebRequestRefines DEF Promise!Next
    <2>2. CASE CtlDeleteEmpty
      BY <2>2, CrashRestarts DEF CtlDeleteEmpty, Promise!Next
    <2>3. CASE CtlAddIp \/ CtlWhite \/ CtlDelete \/ CtlDeleteIgnored
      BY <2>3, CtlAddIpRefines, CtlWhiteRefines, CtlDeleteRefines DEF Promise!Next
    <2>4. CASE \/ \E c \in Cli : DelTimeout(c)
               \/ \E a \in Ips : IpTimeout(a)
      BY <2>4, DelTimeoutRefines, IpTimeoutRefines DEF Promise!Next
    <2> QED
      BY <1>3, <2>1, <2>2, <2>3, <2>4 DEF Control
  <1>4. CASE Restart
    BY <1>4, KeptRefines DEF Restart
  <1>5. CASE UNCHANGED vars
    BY <1>5, KeptRefines DEF vars
  <1> QED
    BY <1>1, <1>2, <1>3, <1>4, <1>5 DEF Next

LEMMA InitRefines == Init => Promise!Init
  <1> SUFFICES ASSUME Init
               PROVE  Promise!Init
    OBVIOUS
  <1>1. /\ clients = <<>> /\ fwds = {}
        /\ ips = {} /\ white = InitWhite /\ stale = {} /\ ctl = <<>>
    BY DEF Init
  <1>2. \A v \in Service : OfferOf(v) = Nil
    BY <1>1 DEF OfferOf, Find
  <1> QED
    BY <1>1, <1>2 DEF Promise!Init, Sessions

\* The worker, with its sockets, list, timers, page and restarts, keeps what
\* Broker promises: a customer only ever gets the device that waits on the
\* service, and no device is handed out twice; its address is then that of a
\* request obeyed and not forgotten, or on the white list, which is a part of the
\* list obeyed last, or else one address that an earlier list left behind.
THEOREM Refinement == Spec => ImplementsBroker
  <1>1. Init => Promise!Init
    BY InitRefines
  <1>2. IInv /\ IInv' /\ [Next]_vars => [Promise!Next]_(Promise!vars)
    BY NextRefines
  <1> QED
    BY <1>1, <1>2, Invariance, PTL DEF Spec, ImplementsBroker, Promise!Spec
=============================================================================
