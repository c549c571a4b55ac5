----------------------------- MODULE LibraryProofs -----------------------------
(***************************************************************************)
(* Proofs about the parts of utils that keep lists and tables: the tasks   *)
(* of Scheduler, the events of EventLoop, the slots of Observers, the      *)
(* sockets of Socks and Sockets, the chains of Containers; about the turn  *)
(* of the ports of radmsrvd (Ports), and about the pages of its web server *)
(* (HttpContent).                                                          *)
(***************************************************************************)
EXTENDS Scheduler, EventLoop, Observers, Socks, Ports, Containers, HttpContent,
        FiniteSetTheorems, SequenceTheorems, TLAPS

-----------------------------------------------------------------------------
(* Induction and recursion on numbers.                                     *)

\* A set of natural numbers that is not empty has a lowest one.
LEMMA Lowest ==
    ASSUME NEW S, S \subseteq Nat, S # {}
    PROVE  \E f \in S : \A g \in S : f <= g
  <1>1. PICK m \in S : TRUE
    OBVIOUS
  <1> DEFINE T == {0 .. f : f \in {g \in S : g <= m}}
             R == StrictSubsetOrdering(0 .. m)
  <1>2. FiniteSubsetsOf(0 .. m) = SUBSET (0 .. m)
    <2>1. IsFiniteSet(0 .. m)
      BY <1>1, FS_Interval
    <2> QED
      BY <2>1, FS_FiniteSubsetsOfFinite
  <1>3. IsWellFoundedOn(R, SUBSET (0 .. m))
    BY <1>2, FS_StrictSubsetOrderingWellFounded
  <1>4. T \subseteq SUBSET (0 .. m) /\ T # {}
    BY <1>1
  <1>5. PICK I \in T : \A J \in T : ~(<<J, I>> \in R)
    <2> HIDE DEF T, R
    <2> QED
      BY <1>3, <1>4, WFMin, Zenon
  <1>6. PICK f \in S : f <= m /\ I = 0 .. f
    BY <1>5
  <1>7. ASSUME NEW g \in S, g < f
        PROVE  FALSE
    <2>1. g <= m /\ (0 .. g) \in T
      BY <1>1, <1>6, <1>7
    <2>2. f \in 0 .. f /\ f \notin 0 .. g
      BY <1>7
    <2>3. (0 .. g) \subseteq (0 .. f) /\ (0 .. g) # (0 .. f)
      BY <2>2, <1>7
    <2>4. <<0 .. g, 0 .. f>> \in R
      BY <2>1, <2>3, <1>4, <1>6 DEF StrictSubsetOrdering
    <2> QED
      BY <1>5, <1>6, <2>1, <2>4
  <1>8. f \in Nat /\ \A g \in S : g \in Nat /\ ~(g < f)
    BY <1>6, <1>7
  <1>9. \A g \in S : f <= g
    BY <1>8
  <1> QED
    BY <1>6, <1>9

LEMMA Induction ==
    ASSUME NEW S, 0 \in S, \A n \in Nat : n \in S => n + 1 \in S
    PROVE  Nat \subseteq S
  <1> SUFFICES ASSUME ~(Nat \subseteq S)
               PROVE  FALSE
    OBVIOUS
  <1>1. PICK f \in Nat \ S : \A g \in Nat \ S : f <= g
    <2>1. Nat \ S \subseteq Nat /\ Nat \ S # {}
      OBVIOUS
    <2> QED
      BY <2>1, Lowest
  <1>2. f - 1 \in Nat /\ f - 1 \notin Nat \ S
    BY <1>1
  <1>3. (f - 1) + 1 \in S
    BY <1>2
  <1> QED
    BY <1>1, <1>3

Steps(g, n, T) == \A i \in 1 .. n : \A x \in T : g[i][x] \in T

\* The function f on 0 .. n begins with b and goes on with the steps g.
Runs(f, n, T, b, g) ==
    f \in [0 .. n -> T] /\ f[0] = b /\ \A i \in 1 .. n : f[i] = g[i][f[i - 1]]

LEMMA Recursion ==
    ASSUME NEW n \in Nat, NEW T, NEW b \in T, NEW g, Steps(g, n, T)
    PROVE  \E f : Runs(f, n, T, b, g)
  <1> DEFINE Goes(f, m) == f[0] = b /\ \A i \in 1 .. m : f[i] = g[i][f[i - 1]]
             S == {m \in Nat : m <= n => \E f \in [0 .. m -> T] : Goes(f, m)}
  <1>1. 0 \in S
    <2> DEFINE f == [i \in 0 .. 0 |-> b]
    <2>1. f \in [0 .. 0 -> T] /\ Goes(f, 0)
      OBVIOUS
    <2> QED
      BY <2>1
  <1>2. ASSUME NEW m \in Nat, m \in S
        PROVE  m + 1 \in S
    <2> SUFFICES ASSUME m + 1 <= n
                 PROVE  \E f \in [0 .. m + 1 -> T] : Goes(f, m + 1)
      OBVIOUS
    <2>1. PICK h \in [0 .. m -> T] : Goes(h, m)
      BY <1>2
    <2> DEFINE f == [i \in 0 .. m + 1 |-> IF i <= m THEN h[i] ELSE g[m + 1][h[m]]]
    <2>2. g[m + 1][h[m]] \in T
      <3>1. m + 1 \in 1 .. n /\ h[m] \in T
        OBVIOUS
      <3> QED
        BY <3>1 DEF Steps
    <2>3. f \in [0 .. m + 1 -> T]
      BY <2>2
    <2>4. f[0] = b
      BY <2>1
    <2>5. \A i \in 0 .. m : f[i] = h[i]
      OBVIOUS
    <2>6. f[m + 1] = g[m + 1][f[m]]
      <3>1. f[m + 1] = g[m + 1][h[m]]
        OBVIOUS
      <3> QED
        BY <2>5, <3>1
    <2> HIDE DEF f
    <2>7. ASSUME NEW i \in 1 .. m + 1
          PROVE  f[i] = g[i][f[i - 1]]
      <3>1. CASE i = m + 1
        BY <2>6, <3>1
      <3>2. CASE i # m + 1
        <4>1. i \in 1 .. m /\ i - 1 \in 0 .. m /\ i \in 0 .. m
          BY <3>2
        <4> QED
          BY <2>1, <2>5, <4>1
      <3> QED
        BY <3>1, <3>2
    <2> QED
      BY <2>3, <2>4, <2>7
  <1>3. n \in S
    <2> HIDE DEF S
    <2> QED
      BY <1>1, <1>2, Induction
  <1> QED
    BY <1>3 DEF Runs

-----------------------------------------------------------------------------
(* Lists.                                                                  *)

\* The part of a list from place a to place b.
LEMMA PartIs ==
    ASSUME NEW T, NEW l \in Seq(T), NEW a \in 1 .. Len(l) + 1, NEW b \in a - 1 .. Len(l)
    PROVE  /\ SubSeq(l, a, b) \in Seq(T) /\ Len(SubSeq(l, a, b)) = b - a + 1
           /\ \A n \in 1 .. b - a + 1 : SubSeq(l, a, b)[n] = l[a + n - 1]
  <1>1. Len(l) \in Nat /\ a \in Int /\ b \in Int
    OBVIOUS
  <1>2. \A n \in a .. b : l[n] \in T
    BY <1>1
  <1>3. /\ SubSeq(l, a, b) \in Seq(T)
        /\ Len(SubSeq(l, a, b)) = IF a <= b THEN b - a + 1 ELSE 0
        /\ \A n \in 1 .. b - a + 1 : SubSeq(l, a, b)[n] = l[a + n - 1]
    BY <1>1, <1>2, SubSeqProperties
  <1> QED
    BY <1>1, <1>3

\* A list l with e put in place p.
Inserted(r, T, l, p, e) ==
    /\ r \in Seq(T) /\ Len(r) = Len(l) + 1
    /\ \A n \in 1 .. Len(l) + 1 :
           r[n] = IF n < p THEN l[n] ELSE IF n = p THEN e ELSE l[n - 1]

LEMMA InsertIs ==
    ASSUME NEW T, NEW l \in Seq(T), NEW e \in T, NEW p \in 1 .. Len(l) + 1
    PROVE  Inserted(InsertAt(l, p, e), T, l, p, e)
  <1> DEFINE L == Len(l)
             one == SubSeq(l, 1, p - 1)
             two == SubSeq(l, p, L)
             lone == one \o <<e>>
  <1>1. L \in Nat /\ p \in Nat /\ 1 <= p /\ p <= L + 1
    OBVIOUS
  <1>2. one \in Seq(T) /\ Len(one) = p - 1 /\ \A n \in 1 .. p - 1 : one[n] = l[n]
    <2>1. 1 \in 1 .. Len(l) + 1 /\ p - 1 \in 1 - 1 .. Len(l) /\ p - 1 - 1 + 1 = p - 1
      BY <1>1
    <2>2. /\ one \in Seq(T) /\ Len(one) = p - 1 - 1 + 1
          /\ \A n \in 1 .. p - 1 - 1 + 1 : one[n] = l[1 + n - 1]
      BY <2>1, PartIs
    <2> HIDE DEF one, L
    <2> QED
      BY <1>1, <2>2
  <1>3. two \in Seq(T) /\ Len(two) = L - p + 1 /\ \A n \in 1 .. L - p + 1 : two[n] = l[p + n - 1]
    <2>1. L \in p - 1 .. Len(l)
      BY <1>1
    <2> QED
      BY <2>1, PartIs
  <1>4. InsertAt(l, p, e) = lone \o two
    BY DEF InsertAt
  <1> HIDE DEF one, two
  <1>5. /\ lone \in Seq(T) /\ Len(lone) = p
        /\ \A n \in 1 .. p : lone[n] = IF n < p THEN l[n] ELSE e
    BY <1>1, <1>2
  <1> HIDE DEF lone
  <1>6. /\ lone \o two \in Seq(T) /\ Len(lone \o two) = Len(lone) + Len(two)
        /\ \A n \in 1 .. Len(lone) + Len(two) : (lone \o two)[n] =
               IF n <= Len(lone) THEN lone[n] ELSE two[n - Len(lone)]
    BY <1>3, <1>5, ConcatProperties
  <1> HIDE DEF L
  <1>7. Len(lone) + Len(two) = L + 1
    BY <1>1, <1>3, <1>5
  <1>8. \A n \in 1 .. L + 1 : (lone \o two)[n] =
            IF n < p THEN l[n] ELSE IF n = p THEN e ELSE l[n - 1]
    BY <1>1, <1>3, <1>5, <1>6, <1>7
  <1>9. lone \o two \in Seq(T) /\ Len(lone \o two) = L + 1
    BY <1>6, <1>7
  <1>10. Inserted(lone \o two, T, l, p, e)
    BY <1>8, <1>9 DEF Inserted, L
  <1> QED
    BY <1>4, <1>10

\* A list l without what is in place p.
Removed(r, T, l, p) ==
    /\ r \in Seq(T) /\ Len(r) = Len(l) - 1
    /\ \A n \in 1 .. Len(l) - 1 : r[n] = IF n < p THEN l[n] ELSE l[n + 1]

LEMMA RemoveIs ==
    ASSUME NEW T, NEW l \in Seq(T), NEW p \in 1 .. Len(l)
    PROVE  Removed(RemoveAt(l, p), T, l, p)
  <1> DEFINE L == Len(l)
             one == SubSeq(l, 1, p - 1)
             two == SubSeq(l, p + 1, L)
  <1>1. L \in Nat /\ p \in Nat /\ 1 <= p /\ p <= L
    OBVIOUS
  <1>2. one \in Seq(T) /\ Len(one) = p - 1 /\ \A n \in 1 .. p - 1 : one[n] = l[n]
    <2>1. 1 \in 1 .. Len(l) + 1 /\ p - 1 \in 1 - 1 .. Len(l) /\ p - 1 - 1 + 1 = p - 1
      BY <1>1
    <2>2. /\ one \in Seq(T) /\ Len(one) = p - 1 - 1 + 1
          /\ \A n \in 1 .. p - 1 - 1 + 1 : one[n] = l[1 + n - 1]
      BY <2>1, PartIs
    <2> HIDE DEF one, L
    <2> QED
      BY <1>1, <2>2
  <1>3. two \in Seq(T) /\ Len(two) = L - p /\ \A n \in 1 .. L - p : two[n] = l[p + n]
    <2>1. p + 1 \in 1 .. Len(l) + 1 /\ L \in p + 1 - 1 .. Len(l)
      BY <1>1
    <2>2. /\ two \in Seq(T) /\ Len(two) = L - (p + 1) + 1
          /\ \A n \in 1 .. L - (p + 1) + 1 : two[n] = l[p + 1 + n - 1]
      BY <2>1, PartIs
    <2> HIDE DEF two, L
    <2>3. L - (p + 1) + 1 = L - p
      BY <1>1
    <2>4. \A n \in 1 .. L - p : p + 1 + n - 1 = p + n
      BY <1>1
    <2> QED
      BY <2>2, <2>3, <2>4
  <1>4. RemoveAt(l, p) = one \o two
    BY DEF RemoveAt
  <1> HIDE DEF one, two
  <1>5. /\ one \o two \in Seq(T) /\ Len(one \o two) = Len(one) + Len(two)
        /\ \A n \in 1 .. Len(one) + Len(two) : (one \o two)[n] =
               IF n <= Len(one) THEN one[n] ELSE two[n - Len(one)]
    BY <1>2, <1>3, ConcatProperties
  <1> HIDE DEF L
  <1>6. Len(one) + Len(two) = L - 1
    BY <1>1, <1>2, <1>3
  <1>7. ASSUME NEW n \in 1 .. L - 1
        PROVE  (one \o two)[n] = IF n < p THEN l[n] ELSE l[n + 1]
    <2>1. (one \o two)[n] = IF n <= p - 1 THEN one[n] ELSE two[n - (p - 1)]
      BY <1>2, <1>5, <1>6
    <2>2. CASE n < p
      <3>1. n \in 1 .. p - 1 /\ n <= p - 1
        BY <1>1, <2>2
      <3> QED
        BY <1>2, <2>1, <2>2, <3>1
    <2>3. CASE ~(n < p)
      <3>1. n - (p - 1) \in 1 .. L - p /\ p + (n - (p - 1)) = n + 1 /\ ~(n <= p - 1)
        BY <1>1, <2>3
      <3>2. two[n - (p - 1)] = l[p + (n - (p - 1))]
        BY <1>3, <3>1
      <3> QED
        BY <2>1, <2>3, <3>1, <3>2
    <2> QED
      BY <2>2, <2>3
  <1>8. one \o two \in Seq(T) /\ Len(one \o two) = L - 1
    BY <1>5, <1>6
  <1>9. Removed(one \o two, T, l, p)
    BY <1>7, <1>8 DEF Removed, L
  <1> QED
    BY <1>4, <1>9

\* r has the first n of l that are in S, in their order.
Chosen(r, T, l, n, S) ==
    /\ r \in Seq(T)
    /\ {r[k] : k \in 1 .. Len(r)} = {l[k] : k \in 1 .. n} \cap S
    /\ \A h, k \in 1 .. Len(r) : h < k => \E i, j \in 1 .. n : i < j /\ r[h] = l[i] /\ r[k] = l[j]

LEMMA ChosenGrows ==
    ASSUME NEW T, NEW l \in Seq(T), NEW S, NEW n \in Nat, n < Len(l), NEW r, Chosen(r, T, l, n, S)
    PROVE  Chosen(IF l[n + 1] \in S THEN Append(r, l[n + 1]) ELSE r, T, l, n + 1, S)
  <1> DEFINE x == l[n + 1]
  <1>1. x \in T /\ r \in Seq(T) /\ Len(r) \in Nat
    BY DEF Chosen
  <1>2. {l[k] : k \in 1 .. n + 1} = {l[k] : k \in 1 .. n} \cup {x}
    <2>1. 1 .. n + 1 = (1 .. n) \cup {n + 1}
      OBVIOUS
    <2> QED
      BY <2>1
  <1>3. {r[k] : k \in 1 .. Len(r)} = {l[k] : k \in 1 .. n} \cap S
    BY DEF Chosen
  <1>4. \A h, k \in 1 .. Len(r) : h < k => \E i, j \in 1 .. n : i < j /\ r[h] = l[i] /\ r[k] = l[j]
    BY DEF Chosen
  <1>5. \A h, k \in 1 .. Len(r) : h < k => \E i, j \in 1 .. n + 1 : i < j /\ r[h] = l[i] /\ r[k] = l[j]
    <2>1. 1 .. n \subseteq 1 .. n + 1
      OBVIOUS
    <2> QED
      BY <1>4, <2>1
  <1>6. CASE x \notin S
    BY <1>1, <1>2, <1>3, <1>5, <1>6 DEF Chosen
  <1>7. CASE x \in S
    <2> DEFINE q == Append(r, x)
    <2>1. /\ q \in Seq(T) /\ Len(q) = Len(r) + 1 /\ q[Len(r) + 1] = x
          /\ \A k \in 1 .. Len(r) : q[k] = r[k]
      BY <1>1
    <2> HIDE DEF q
    <2>2. {q[k] : k \in 1 .. Len(q)} = {r[k] : k \in 1 .. Len(r)} \cup {x}
      <3>1. 1 .. Len(q) = (1 .. Len(r)) \cup {Len(r) + 1}
        BY <1>1, <2>1
      <3> QED
        BY <2>1, <3>1
    <2>3. {q[k] : k \in 1 .. Len(q)} = {l[k] : k \in 1 .. n + 1} \cap S
      BY <1>2, <1>3, <1>7, <2>2
    <2>4. ASSUME NEW h \in 1 .. Len(q), NEW k \in 1 .. Len(q), h < k
          PROVE  \E i, j \in 1 .. n + 1 : i < j /\ q[h] = l[i] /\ q[k] = l[j]
      <3>1. h \in 1 .. Len(r) /\ q[h] = r[h]
        BY <1>1, <2>1, <2>4
      <3>2. CASE k \in 1 .. Len(r)
        BY <1>5, <2>1, <2>4, <3>1, <3>2
      <3>3. CASE k \notin 1 .. Len(r)
        <4>1. k = Len(r) + 1 /\ q[k] = x
          BY <1>1, <2>1, <3>3
        <4>2. r[h] \in {l[i] : i \in 1 .. n}
          BY <1>3, <3>1
        <4>3. PICK i \in 1 .. n : r[h] = l[i]
          BY <4>2
        <4>4. i \in 1 .. n + 1 /\ n + 1 \in 1 .. n + 1 /\ i < n + 1
          OBVIOUS
        <4> QED
          BY <3>1, <4>1, <4>3, <4>4
      <3> QED
        BY <3>2, <3>3
    <2>5. Chosen(q, T, l, n + 1, S)
      BY <2>1, <2>3, <2>4 DEF Chosen
    <2> QED
      BY <1>7, <2>5 DEF q
  <1> QED
    BY <1>6, <1>7

LEMMA OnlyIs ==
    ASSUME NEW T, NEW l \in Seq(T), NEW S
    PROVE  Chosen(Only(l, S), T, l, Len(l), S)
  <1> DEFINE L == Len(l)
             Step(i, r) == IF l[i] \in S THEN Append(r, l[i]) ELSE r
             Loop(f) == f = [i \in 0 .. L |-> IF i = 0 THEN <<>> ELSE Step(i, f[i - 1])]
             kept == CHOOSE f : Loop(f)
  <1>1. L \in Nat /\ \A i \in 1 .. L : l[i] \in T
    OBVIOUS
  <1>2. \E f : Loop(f)
    <2> DEFINE g == [i \in 1 .. L |-> [r \in Seq(T) |-> Step(i, r)]]
    <2>1. \A i \in 1 .. L : \A r \in Seq(T) : g[i][r] = Step(i, r) /\ g[i][r] \in Seq(T)
      BY <1>1
    <2>2. <<>> \in Seq(T)
      OBVIOUS
    <2> HIDE DEF g, L
    <2>3. PICK f \in [0 .. L -> Seq(T)] : f[0] = <<>> /\ \A i \in 1 .. L : f[i] = g[i][f[i - 1]]
      <3>1. L \in Nat /\ Steps(g, L, Seq(T))
        BY <1>1, <2>1 DEF Steps
      <3>2. \E f : Runs(f, L, Seq(T), <<>>, g)
        BY <2>2, <3>1, Recursion
      <3> QED
        BY <3>2 DEF Runs
    <2>4. \A i \in 0 .. L : f[i] = IF i = 0 THEN <<>> ELSE Step(i, f[i - 1])
      <3> SUFFICES ASSUME NEW i \in 0 .. L, i # 0
                   PROVE  f[i] = Step(i, f[i - 1])
        BY <2>3
      <3>1. i \in 1 .. L /\ i - 1 \in 0 .. L
        BY <1>1
      <3>2. f[i - 1] \in Seq(T)
        BY <3>1
      <3> QED
        BY <2>1, <2>3, <3>1, <3>2
    <2>5. Loop(f)
      BY <2>4
    <2> QED
      BY <2>5
  <1>3. Loop(kept)
    BY <1>2
  <1>4. Only(l, S) = kept[L]
    BY DEF Only
  <1> HIDE DEF kept
  <1>5. kept[0] = <<>> /\ \A i \in 1 .. L : kept[i] = Step(i, kept[i - 1])
    <2>1. 0 \in 0 .. L /\ \A i \in 1 .. L : i \in 0 .. L /\ i # 0
      BY <1>1
    <2> HIDE DEF Step, L
    <2> QED
      BY <1>3, <2>1
  <1> DEFINE N == {n \in Nat : n <= L => Chosen(kept[n], T, l, n, S)}
  <1>6. 0 \in N
    <2>1. <<>> \in Seq(T) /\ Len(<<>>) = 0 /\ 1 .. 0 = {}
      OBVIOUS
    <2>2. Chosen(<<>>, T, l, 0, S)
      BY <2>1 DEF Chosen
    <2> QED
      BY <1>5, <2>2
  <1>7. ASSUME NEW n \in Nat, n \in N
        PROVE  n + 1 \in N
    <2> SUFFICES ASSUME n + 1 <= L
                 PROVE  Chosen(kept[n + 1], T, l, n + 1, S)
      OBVIOUS
    <2>1. n < Len(l) /\ Chosen(kept[n], T, l, n, S)
      BY <1>1, <1>7
    <2>2. kept[n + 1] = Step(n + 1, kept[n])
      <3>1. n + 1 \in 1 .. L /\ (n + 1) - 1 = n
        OBVIOUS
      <3> QED
        BY <1>5, <3>1
    <2> QED
      BY <2>1, <2>2, ChosenGrows
  <1>8. L \in N
    <2> HIDE DEF N
    <2> QED
      BY <1>1, <1>6, <1>7, Induction
  <1> QED
    BY <1>1, <1>4, <1>8

Members(q) == {q[k] : k \in 1 .. Len(q)}

Distinct(q) == \A i, j \in 1 .. Len(q) : i < j => q[i] # q[j]

LEMMA OnlyKeeps ==
    ASSUME NEW T, NEW l \in Seq(T), NEW S
    PROVE  /\ Only(l, S) \in Seq(T) /\ Members(Only(l, S)) = Members(l) \cap S
           /\ \A h, k \in 1 .. Len(Only(l, S)) : h < k =>
                  \E i, j \in 1 .. Len(l) : i < j /\ Only(l, S)[h] = l[i] /\ Only(l, S)[k] = l[j]
           /\ Distinct(l) => Distinct(Only(l, S))
  <1> DEFINE r == Only(l, S)
  <1>1. Chosen(r, T, l, Len(l), S)
    BY OnlyIs
  <1> HIDE DEF r
  <1>2. /\ r \in Seq(T) /\ Members(r) = Members(l) \cap S
        /\ \A h, k \in 1 .. Len(r) : h < k =>
               \E i, j \in 1 .. Len(l) : i < j /\ r[h] = l[i] /\ r[k] = l[j]
    BY <1>1 DEF Chosen, Members
  <1>3. Distinct(l) => Distinct(r)
    BY <1>2 DEF Distinct
  <1> QED
    BY <1>2, <1>3 DEF r

LEMMA NoMembers == ASSUME NEW T, NEW l \in Seq(T), Members(l) = {} PROVE l = <<>>
  <1>1. l # <<>> => 1 \in 1 .. Len(l)
    OBVIOUS
  <1> QED
    BY <1>1 DEF Members

LEMMA MembersAre == ASSUME NEW T, NEW l \in Seq(T) PROVE Members(l) = ToSet(l)
  <1>1. DOMAIN l = 1 .. Len(l)
    OBVIOUS
  <1> QED
    BY <1>1 DEF Members, ToSet

-----------------------------------------------------------------------------
(* Scheduler.                                                              *)

Jobs == [task : Tasks, prior : Priorities]

TasksOf(l) == {l[i].task : i \in 1 .. Len(l)}

Once(l) == \A i, j \in 1 .. Len(l) : l[i].task = l[j].task => i = j

SchedulerInv ==
    /\ tasks \in Seq(Jobs)
    /\ Once(tasks)
    /\ TasksOf(tasks) = due
    /\ tasks # <<>> => ticking

LEMMA MinIs == ASSUME NEW S, S \subseteq Nat, S # {}
               PROVE  Min(S) \in S /\ \A n \in S : Min(S) <= n
  BY Lowest DEF Min

LEMMA WithoutIs ==
    ASSUME SchedulerInv, NEW t
    PROVE  /\ Without(t) \in Seq(Jobs) /\ Once(Without(t))
           /\ TasksOf(Without(t)) = due \ {t}
  <1> DEFINE L == Len(tasks)
  <1>1. L \in Nat /\ DOMAIN tasks = 1 .. L /\ tasks \in Seq(Jobs) /\ Once(tasks)
        /\ TasksOf(tasks) = due
    BY DEF SchedulerInv
  <1>2. CASE At(t) = {}
    <2>1. Without(t) = tasks
      BY <1>2 DEF Without
    <2>2. t \notin due
      BY <1>1, <1>2 DEF At, TasksOf
    <2> QED
      BY <1>1, <2>1, <2>2
  <1>3. CASE At(t) # {}
    <2> DEFINE p == Min(At(t))
               r == RemoveAt(tasks, p)
               from(n) == IF n < p THEN n ELSE n + 1
    <2>1. p \in 1 .. L /\ tasks[p].task = t
      <3>1. At(t) \subseteq Nat
        BY <1>1 DEF At
      <3>2. p \in At(t)
        BY <1>3, <3>1, MinIs
      <3> QED
        BY <1>1, <3>2 DEF At
    <2>2. Without(t) = r
      BY <1>3 DEF Without
    <2> HIDE DEF p
    <2>3. Removed(r, Jobs, tasks, p)
      BY <1>1, <2>1, RemoveIs
    <2> HIDE DEF r
    <2>4. r \in Seq(Jobs) /\ Len(r) = L - 1 /\ \A n \in 1 .. L - 1 : r[n] = tasks[from(n)]
      BY <2>3 DEF Removed
    <2>5. \A n \in 1 .. L - 1 : from(n) \in 1 .. L /\ from(n) # p
      BY <1>1, <2>1
    <2>6. \A m, n \in 1 .. L - 1 : from(m) = from(n) => m = n
      BY <1>1, <2>1
    <2>7. \A n \in 1 .. L : n # p => \E m \in 1 .. L - 1 : from(m) = n
      <3> SUFFICES ASSUME NEW n \in 1 .. L, n # p
                   PROVE  \E m \in 1 .. L - 1 : from(m) = n
        OBVIOUS
      <3>1. CASE n < p
        <4>1. n \in 1 .. L - 1 /\ from(n) = n
          BY <1>1, <2>1, <3>1
        <4> QED
          BY <4>1
      <3>2. CASE n > p
        <4>1. n - 1 \in 1 .. L - 1 /\ from(n - 1) = n
          BY <1>1, <2>1, <3>2
        <4> QED
          BY <4>1
      <3> QED
        BY <2>1, <3>1, <3>2
    <2> HIDE DEF from, L
    <2>8. Once(r)
      BY <1>1, <2>4, <2>5, <2>6 DEF Once, L
    <2>9. TasksOf(r) \subseteq due \ {t}
      <3> SUFFICES ASSUME NEW n \in 1 .. L - 1
                   PROVE  r[n].task \in due \ {t}
        BY <2>4 DEF TasksOf
      <3>1. r[n] = tasks[from(n)] /\ from(n) \in 1 .. L /\ from(n) # p
        BY <2>4, <2>5
      <3> QED
        BY <1>1, <2>1, <3>1 DEF Once, TasksOf, L
    <2>10. due \ {t} \subseteq TasksOf(r)
      <3> SUFFICES ASSUME NEW n \in 1 .. L, tasks[n].task # t
                   PROVE  tasks[n].task \in TasksOf(r)
        BY <1>1 DEF TasksOf, L
      <3>1. n # p
        BY <2>1
      <3>2. PICK m \in 1 .. L - 1 : from(m) = n
        BY <2>7, <3>1
      <3> QED
        BY <2>4, <3>2 DEF TasksOf
    <2> QED
      BY <2>2, <2>4, <2>8, <2>9, <2>10
  <1> QED
    BY <1>2, <1>3

LEMMA PlaceIs ==
    ASSUME NEW l \in Seq(Jobs), NEW p
    PROVE  Place(l, p) \in 1 .. Len(l) + 1
  <1> DEFINE after == {i \in 2 .. Len(l) : p > l[i].prior}
  <1>1. Len(l) \in Nat /\ after \subseteq Nat
    OBVIOUS
  <1>2. after # {} => Min(after) \in after
    <2> HIDE DEF after
    <2> QED
      BY <1>1, MinIs
  <1>3. after # {} => Min(after) \in 1 .. Len(l) + 1
    BY <1>1, <1>2
  <1>4. 1 \in 1 .. Len(l) + 1 /\ Len(l) + 1 \in 1 .. Len(l) + 1
    BY <1>1
  <1>5. \/ Place(l, p) = 1
        \/ Place(l, p) = Len(l) + 1
        \/ after # {} /\ Place(l, p) = Min(after)
    BY DEF Place
  <1> QED
    BY <1>3, <1>4, <1>5

LEMMA AddTaskInv ==
    ASSUME SchedulerInv, NEW t \in Tasks, NEW p \in Priorities, AddTask(t, p)
    PROVE  SchedulerInv'
  <1> DEFINE l == Without(t)
             e == [task |-> t, prior |-> p]
             k == Place(l, p)
             r == InsertAt(l, k, e)
  <1>1. tasks' = r /\ ticking' = (ticking \/ l = <<>>) /\ due' = due \cup {t}
    BY DEF AddTask
  <1>2. l \in Seq(Jobs) /\ Once(l) /\ TasksOf(l) = due \ {t}
    BY WithoutIs
  <1>3. e \in Jobs
    BY DEF Jobs
  <1>4. k \in 1 .. Len(l) + 1
    BY <1>2, PlaceIs
  <1>5. l # <<>> => ticking
    <2>1. l # <<>> => TasksOf(l) # {}
      <3> HIDE DEF l
      <3>1. l # <<>> => 1 \in 1 .. Len(l)
        BY <1>2
      <3> QED
        BY <3>1 DEF TasksOf
    <2>2. due # {} => tasks # <<>>
      <3>1. 1 .. Len(<<>>) = {}
        OBVIOUS
      <3> QED
        BY <3>1 DEF SchedulerInv, TasksOf
    <2> QED
      BY <1>2, <2>1, <2>2 DEF SchedulerInv
  <1> HIDE DEF l, k, e
  <1>6. Inserted(r, Jobs, l, k, e)
    BY <1>2, <1>3, <1>4, InsertIs
  <1> HIDE DEF r
  <1> DEFINE L == Len(l)
  <1>7. /\ L \in Nat /\ r \in Seq(Jobs) /\ Len(r) = L + 1
        /\ \A n \in 1 .. L + 1 : r[n] = IF n < k THEN l[n] ELSE IF n = k THEN e ELSE l[n - 1]
    BY <1>2, <1>6 DEF Inserted
  <1>8. \A n \in 1 .. L : l[n].task # t
    BY <1>2 DEF TasksOf
  <1>9. e.task = t
    BY DEF e
  <1> DEFINE from(n) == IF n < k THEN n ELSE n - 1
  <1>10. \A n \in 1 .. L + 1 : n # k => from(n) \in 1 .. L /\ r[n] = l[from(n)]
    BY <1>4, <1>7
  <1>11. \A m, n \in 1 .. L + 1 : m # k /\ n # k /\ from(m) = from(n) => m = n
    BY <1>4, <1>7
  <1>12. \A n \in 1 .. L : \E m \in 1 .. L + 1 : m # k /\ from(m) = n
    <2> SUFFICES ASSUME NEW n \in 1 .. L
                 PROVE  \E m \in 1 .. L + 1 : m # k /\ from(m) = n
      OBVIOUS
    <2>1. CASE n < k
      <3>1. n \in 1 .. L + 1 /\ n # k /\ from(n) = n
        BY <1>4, <1>7, <2>1
      <3> QED
        BY <3>1
    <2>2. CASE ~(n < k)
      <3>1. n + 1 \in 1 .. L + 1 /\ n + 1 # k /\ from(n + 1) = n
        BY <1>4, <1>7, <2>2
      <3> QED
        BY <3>1
    <2> QED
      BY <2>1, <2>2
  <1>13. r[k] = e /\ k \in 1 .. L + 1
    BY <1>4, <1>7
  <1> HIDE DEF from, L
  <1>14. Once(r)
    <2> SUFFICES ASSUME NEW m \in 1 .. L + 1, NEW n \in 1 .. L + 1, r[m].task = r[n].task
                 PROVE  m = n
      BY <1>7 DEF Once
    <2>1. \A x \in 1 .. L + 1 : x # k => r[x].task # t
      BY <1>8, <1>10
    <2>2. CASE m = k
      BY <1>9, <1>13, <2>1, <2>2
    <2>3. CASE n = k
      BY <1>9, <1>13, <2>1, <2>3
    <2>4. CASE m # k /\ n # k
      <3>1. /\ from(m) \in 1 .. L /\ r[m] = l[from(m)]
            /\ from(n) \in 1 .. L /\ r[n] = l[from(n)]
        BY <1>10, <2>4
      <3>2. from(m) = from(n)
        BY <1>2, <3>1 DEF Once, L
      <3> QED
        BY <1>11, <2>4, <3>2
    <2> QED
      BY <2>2, <2>3, <2>4
  <1>15. TasksOf(r) = TasksOf(l) \cup {t}
    <2>1. TasksOf(r) \subseteq TasksOf(l) \cup {t}
      <3> SUFFICES ASSUME NEW n \in 1 .. L + 1
                   PROVE  r[n].task \in TasksOf(l) \cup {t}
        BY <1>7 DEF TasksOf
      <3>1. CASE n = k
        BY <1>9, <1>13, <3>1
      <3>2. CASE n # k
        <4>1. from(n) \in 1 .. L /\ r[n] = l[from(n)]
          BY <1>10, <3>2
        <4> QED
          BY <4>1 DEF TasksOf, L
      <3> QED
        BY <3>1, <3>2
    <2>2. TasksOf(l) \subseteq TasksOf(r)
      <3> SUFFICES ASSUME NEW n \in 1 .. L
                   PROVE  l[n].task \in TasksOf(r)
        BY DEF TasksOf, L
      <3>1. PICK m \in 1 .. L + 1 : m # k /\ from(m) = n
        BY <1>12
      <3>2. r[m] = l[n]
        BY <1>10, <3>1
      <3> QED
        BY <1>7, <3>2 DEF TasksOf
    <2>3. t \in TasksOf(r)
      BY <1>7, <1>9, <1>13 DEF TasksOf
    <2> QED
      BY <2>1, <2>2, <2>3
  <1> QED
    BY <1>1, <1>2, <1>5, <1>7, <1>14, <1>15 DEF SchedulerInv

LEMMA DeleteAllInv == ASSUME SchedulerInv, NEW c, DeleteAll(c) PROVE SchedulerInv'
  <1> DEFINE S == {e \in ToSet(tasks) : e.task[1] # c}
             r == Only(tasks, S)
  <1>1. tasks' = r /\ ticking' = ticking /\ due' = {t \in due : t[1] # c}
    BY DEF DeleteAll
  <1>2. /\ tasks \in Seq(Jobs) /\ Len(tasks) \in Nat /\ DOMAIN tasks = 1 .. Len(tasks)
        /\ Once(tasks) /\ TasksOf(tasks) = due
    BY DEF SchedulerInv
  <1>3. Chosen(r, Jobs, tasks, Len(tasks), S)
    <2> HIDE DEF S
    <2> QED
      BY <1>2, OnlyIs
  <1> HIDE DEF r
  <1>4. /\ r \in Seq(Jobs)
        /\ {r[k] : k \in 1 .. Len(r)} = {tasks[k] : k \in 1 .. Len(tasks)} \cap S
        /\ \A h, k \in 1 .. Len(r) : h < k =>
               \E i, j \in 1 .. Len(tasks) : i < j /\ r[h] = tasks[i] /\ r[k] = tasks[j]
    BY <1>3 DEF Chosen
  <1>5. {r[k] : k \in 1 .. Len(r)} = {e \in {tasks[k] : k \in 1 .. Len(tasks)} : e.task[1] # c}
    BY <1>2, <1>4 DEF ToSet
  <1>6. TasksOf(r) = {t \in due : t[1] # c}
    <2>1. TasksOf(r) = {e.task : e \in {r[k] : k \in 1 .. Len(r)}}
      BY DEF TasksOf
    <2>2. due = {e.task : e \in {tasks[k] : k \in 1 .. Len(tasks)}}
      BY <1>2 DEF TasksOf
    <2> QED
      BY <1>5, <2>1, <2>2
  <1>7. Once(r)
    <2>1. ASSUME NEW h \in 1 .. Len(r), NEW k \in 1 .. Len(r), h < k
          PROVE  r[h].task # r[k].task
      <3>1. PICK i, j \in 1 .. Len(tasks) : i < j /\ r[h] = tasks[i] /\ r[k] = tasks[j]
        BY <1>4, <2>1
      <3>2. i # j
        BY <3>1
      <3> QED
        BY <1>2, <3>1, <3>2 DEF Once
    <2>2. \A h, k \in 1 .. Len(r) : h = k \/ h < k \/ k < h
      BY <1>4
    <2> QED
      BY <2>1, <2>2 DEF Once
  <1>8. r # <<>> => ticking
    <2>1. r # <<>> => 1 \in 1 .. Len(r)
      BY <1>4
    <2>2. r # <<>> => Len(tasks) # 0
      <3> SUFFICES ASSUME r # <<>>
                   PROVE  Len(tasks) # 0
        OBVIOUS
      <3>1. PICK k \in 1 .. Len(tasks) : r[1] = tasks[k]
        BY <1>5, <2>1
      <3>2. Len(tasks) \in Nat
        BY <1>2
      <3> QED
        BY <3>1, <3>2
    <2>3. r # <<>> => tasks # <<>>
      BY <2>2
    <2> QED
      BY <2>3 DEF SchedulerInv
  <1> QED
    BY <1>1, <1>4, <1>6, <1>7, <1>8 DEF SchedulerInv

LEMMA CallbackInv == ASSUME SchedulerInv, Callback PROVE SchedulerInv'
  <1>1. CASE tasks = <<>>
    BY <1>1 DEF Callback, SchedulerInv
  <1>2. CASE tasks # <<>>
    <2> DEFINE r == Tail(tasks)
               L == Len(tasks)
    <2>1. tasks' = r /\ due' = due \ {Head(tasks).task} /\ ticking' = ticking
      BY <1>2 DEF Callback
    <2>2. tasks \in Seq(Jobs) /\ Once(tasks) /\ TasksOf(tasks) = due /\ ticking
      BY <1>2 DEF SchedulerInv
    <2>3. L \in Nat /\ L >= 1 /\ Head(tasks) = tasks[1]
      BY <1>2, <2>2
    <2>4. r \in Seq(Jobs) /\ Len(r) = L - 1 /\ \A n \in 1 .. L - 1 : r[n] = tasks[n + 1]
      BY <1>2, <2>2
    <2> HIDE DEF r
    <2>5. \A n \in 1 .. L - 1 : n + 1 \in 1 .. L /\ n + 1 # 1
      BY <2>3
    <2>6. Once(r)
      <3> SUFFICES ASSUME NEW m \in 1 .. L - 1, NEW n \in 1 .. L - 1, r[m].task = r[n].task
                   PROVE  m = n
        BY <2>4 DEF Once
      <3>1. m + 1 \in 1 .. L /\ n + 1 \in 1 .. L
        BY <2>5
      <3>2. m + 1 = n + 1
        BY <2>2, <2>4, <3>1 DEF Once
      <3> QED
        BY <3>2
    <2>7. TasksOf(r) \subseteq due \ {tasks[1].task}
      <3> SUFFICES ASSUME NEW n \in 1 .. L - 1
                   PROVE  r[n].task \in due \ {tasks[1].task}
        BY <2>4 DEF TasksOf
      <3>1. n + 1 \in 1 .. L /\ 1 \in 1 .. L /\ n + 1 # 1
        BY <2>3
      <3> QED
        BY <2>2, <2>4, <3>1 DEF Once, TasksOf
    <2>8. due \ {tasks[1].task} \subseteq TasksOf(r)
      <3> SUFFICES ASSUME NEW n \in 1 .. L, n # 1
                   PROVE  tasks[n].task \in TasksOf(r)
        BY <2>2 DEF TasksOf
      <3>1. n - 1 \in 1 .. L - 1 /\ (n - 1) + 1 = n
        BY <2>3
      <3>2. r[n - 1] = tasks[n]
        BY <2>4, <3>1
      <3> QED
        BY <2>4, <3>1, <3>2 DEF TasksOf
    <2> QED
      BY <2>1, <2>2, <2>3, <2>4, <2>6, <2>7, <2>8 DEF SchedulerInv
  <1> QED
    BY <1>1, <1>2

THEOREM SchedulerInvariance == SchedulerSpec => []SchedulerInv
  <1>1. SchedulerInit => SchedulerInv
    <2> SUFFICES ASSUME SchedulerInit
                 PROVE  SchedulerInv
      OBVIOUS
    <2>1. tasks = <<>> /\ due = {} /\ Len(<<>>) = 0 /\ <<>> \in Seq(Jobs)
      BY DEF SchedulerInit
    <2>2. 1 .. 0 = {}
      OBVIOUS
    <2> QED
      BY <2>1, <2>2 DEF SchedulerInv, Once, TasksOf
  <1>2. SchedulerInv /\ [SchedulerNext]_schedulerVars => SchedulerInv'
    <2> SUFFICES ASSUME SchedulerInv, [SchedulerNext]_schedulerVars
                 PROVE  SchedulerInv'
      OBVIOUS
    <2>1. ASSUME NEW t \in Tasks, DeleteTask(t)
          PROVE  SchedulerInv'
      <3>1. tasks' = Without(t) /\ due' = due \ {t} /\ ticking' = ticking
        BY <2>1 DEF DeleteTask
      <3>2. Without(t) # <<>> => ticking
        BY DEF Without, SchedulerInv, RemoveAt
      <3> QED
        BY <3>1, <3>2, WithoutIs DEF SchedulerInv
    <2>2. CASE Return
      BY <2>2 DEF Return, SchedulerInv, Once, TasksOf
    <2>3. CASE UNCHANGED schedulerVars
      BY <2>3 DEF schedulerVars, SchedulerInv, Once, TasksOf
    <2> QED
      BY <2>1, <2>2, <2>3, AddTaskInv, DeleteAllInv, CallbackInv DEF SchedulerNext
  <1> QED
    BY <1>1, <1>2, PTL DEF SchedulerSpec

\* scheduler.c: whatever a task adds and deletes while it runs, itself
\* included, a task that was added and neither run nor deleted is in the list
\* exactly once, and the timer that runs the list is on.
THEOREM TasksAreRun == SchedulerSpec => []TasksRun
  <1>1. SchedulerInv => TasksRun
    <2> SUFFICES ASSUME SchedulerInv, NEW t \in Tasks
                 PROVE  Cardinality(At(t)) = IF t \in due THEN 1 ELSE 0
      BY DEF TasksRun, SchedulerInv
    <2>1. DOMAIN tasks = 1 .. Len(tasks) /\ TasksOf(tasks) = due /\ Once(tasks)
      BY DEF SchedulerInv
    <2>2. CASE t \in due
      <3>1. PICK i \in 1 .. Len(tasks) : tasks[i].task = t
        BY <2>1, <2>2 DEF TasksOf
      <3>2. At(t) = {i}
        BY <2>1, <3>1 DEF At, Once
      <3> QED
        BY <2>2, <3>2, FS_Singleton
    <2>3. CASE t \notin due
      <3>1. At(t) = {}
        BY <2>1, <2>3 DEF At, TasksOf
      <3> QED
        BY <2>3, <3>1, FS_EmptySet
    <2> QED
      BY <2>2, <2>3
  <1> QED
    BY <1>1, SchedulerInvariance, PTL

-----------------------------------------------------------------------------
(* EventLoop.                                                              *)

\* Each event once, the smaller numbers first.
Queue(q) ==
    /\ q \in Seq(Events)
    /\ \A i, j \in 1 .. Len(q) : i < j => q[i] # q[j] /\ Priority[q[i]] <= Priority[q[j]]

Descriptor == [event : Events, ready : BOOLEAN]

\* Every event in the table knows its place there.
Indexed(tb, ix, S) ==
    /\ tb \in Seq(Descriptor) /\ ix \in [Events -> Nat]
    /\ \A e \in Events : ix[e] # 0 => ix[e] \in 1 .. Len(tb) /\ tb[ix[e]].event = e /\ e \in S
    /\ \A i \in 1 .. Len(tb) : ix[tb[i].event] = i

EventInv ==
    /\ live \subseteq Events
    /\ Indexed(table, id, live)
    /\ Queue(pending)
    /\ Members(pending) = owed
    /\ owed \subseteq live
    /\ turn \in {"start", "dispatch"} => pending = <<>>

LEMMA QueueOnly ==
    ASSUME NEW q, Queue(q), NEW S
    PROVE  Queue(Only(q, S)) /\ Members(Only(q, S)) = Members(q) \cap S
  <1> DEFINE r == Only(q, S)
  <1>1. q \in Seq(Events)
        /\ \A i, j \in 1 .. Len(q) : i < j => q[i] # q[j] /\ Priority[q[i]] <= Priority[q[j]]
    BY DEF Queue
  <1>2. Chosen(r, Events, q, Len(q), S)
    BY <1>1, OnlyIs
  <1> HIDE DEF r
  <1>3. /\ r \in Seq(Events)
        /\ Members(r) = Members(q) \cap S
        /\ \A h, k \in 1 .. Len(r) : h < k =>
               \E i, j \in 1 .. Len(q) : i < j /\ r[h] = q[i] /\ r[k] = q[j]
    BY <1>2 DEF Chosen, Members
  <1>4. \A h, k \in 1 .. Len(r) : h < k => r[h] # r[k] /\ Priority[r[h]] <= Priority[r[k]]
    BY <1>1, <1>3
  <1> QED
    BY <1>3, <1>4 DEF Queue, r

LEMMA ScheduleIs ==
    ASSUME NEW q, Queue(q), NEW e \in Events
    PROVE  Queue(Schedule(q, e)) /\ Members(Schedule(q, e)) = Members(q) \cup {e}
  <1> DEFINE l == Only(q, Events \ {e})
             later == {i \in DOMAIN l : Priority[l[i]] > Priority[e]}
             p == IF later = {} THEN Len(l) + 1 ELSE Min(later)
             r == InsertAt(l, p, e)
             L == Len(l)
  <1>1. Schedule(q, e) = r
    BY DEF Schedule
  <1>2. Queue(l) /\ Members(l) = Members(q) \cap (Events \ {e})
    BY QueueOnly
  <1>3. Members(l) = Members(q) \ {e}
    <2>1. Members(q) \subseteq Events
      BY DEF Queue, Members
    <2> HIDE DEF l
    <2> QED
      BY <1>2, <2>1
  <1> HIDE DEF l
  <1>4. /\ l \in Seq(Events) /\ L \in Nat /\ DOMAIN l = 1 .. L
        /\ \A i \in 1 .. L : l[i] \in Events
        /\ \A i, j \in 1 .. L : i < j => l[i] # l[j] /\ Priority[l[i]] <= Priority[l[j]]
    BY <1>2 DEF Queue
  <1>5. \A x \in Events : Priority[x] \in Nat
    BY PriorityAssumption
  <1>6. later # {} => Min(later) \in later /\ \A i \in later : Min(later) <= i
    <2>1. later \subseteq Nat
      BY <1>4
    <2> HIDE DEF later
    <2> QED
      BY <2>1, MinIs
  <1>7. /\ p \in 1 .. L + 1
        /\ \A i \in 1 .. L : i < p => Priority[l[i]] <= Priority[e]
        /\ \A i \in 1 .. L : p <= i => Priority[e] <= Priority[l[i]]
    <2>1. CASE later = {}
      <3>1. p = L + 1
        BY <2>1
      <3>2. \A i \in 1 .. L : ~(Priority[l[i]] > Priority[e])
        BY <1>4, <2>1
      <3>3. \A i \in 1 .. L : ~(L + 1 <= i)
        BY <1>4
      <3> HIDE DEF p, later
      <3> QED
        BY <1>4, <1>5, <3>1, <3>2, <3>3
    <2>2. CASE later # {}
      <3>1. p \in 1 .. L /\ Priority[l[p]] > Priority[e] /\ \A i \in later : p <= i
        BY <1>4, <1>6, <2>2
      <3>2. \A i \in 1 .. L : i < p => i \notin later
        <4> HIDE DEF later, p
        <4> QED
          BY <3>1
      <3> HIDE DEF p
      <3>3. \A i \in 1 .. L : i < p => Priority[l[i]] <= Priority[e]
        BY <1>4, <1>5, <3>2
      <3>4. \A i \in 1 .. L : p < i => Priority[l[p]] <= Priority[l[i]]
        BY <1>4, <3>1
      <3> HIDE DEF later
      <3>5. \A i \in 1 .. L : p <= i => Priority[e] <= Priority[l[i]]
        <4> TAKE i \in 1 .. L
        <4>1. CASE i = p
          BY <1>4, <1>5, <3>1, <4>1
        <4>2. CASE i # p
          <5>1. p <= i => p < i
            BY <3>1, <4>2
          <5>2. Priority[l[p]] \in Nat /\ Priority[l[i]] \in Nat /\ Priority[e] \in Nat
            BY <1>4, <1>5, <3>1
          <5> QED
            BY <3>1, <3>4, <5>1, <5>2
        <4> QED
          BY <4>1, <4>2
      <3> QED
        BY <1>4, <3>1, <3>3, <3>5
    <2> QED
      BY <2>1, <2>2
  <1> HIDE DEF p, later
  <1>8. Inserted(r, Events, l, p, e)
    BY <1>4, <1>7, InsertIs
  <1> HIDE DEF r
  <1>9. /\ r \in Seq(Events) /\ Len(r) = L + 1
        /\ \A n \in 1 .. L + 1 : r[n] = IF n < p THEN l[n] ELSE IF n = p THEN e ELSE l[n - 1]
    BY <1>8 DEF Inserted
  <1>10. \A i \in 1 .. L : l[i] # e
    BY <1>3 DEF Members
  <1> HIDE DEF L
  <1>11. \A i, j \in 1 .. L + 1 : i < j => r[i] # r[j] /\ Priority[r[i]] <= Priority[r[j]]
    <2> SUFFICES ASSUME NEW i \in 1 .. L + 1, NEW j \in 1 .. L + 1, i < j
                 PROVE  r[i] # r[j] /\ Priority[r[i]] <= Priority[r[j]]
      OBVIOUS
    <2>1. i \in Nat /\ j \in Nat /\ 1 <= i /\ j <= L + 1 /\ p \in Nat /\ 1 <= p /\ p <= L + 1 /\ L \in Nat
      BY <1>4, <1>7
    <2>2. /\ r[i] = IF i < p THEN l[i] ELSE IF i = p THEN e ELSE l[i - 1]
          /\ r[j] = IF j < p THEN l[j] ELSE IF j = p THEN e ELSE l[j - 1]
      BY <1>9
    <2>3. CASE j < p
      <3>1. i \in 1 .. L /\ j \in 1 .. L /\ i < p
        BY <2>1, <2>3
      <3> QED
        BY <1>4, <2>2, <2>3, <3>1
    <2>4. CASE j = p
      <3>1. i \in 1 .. L /\ i < p /\ ~(j < p)
        BY <2>1, <2>4
      <3> QED
        BY <1>7, <1>10, <2>2, <2>4, <3>1
    <2>5. CASE i = p
      <3>1. j - 1 \in 1 .. L /\ p <= j - 1 /\ ~(i < p) /\ ~(j < p) /\ j # p
        BY <2>1, <2>5
      <3> QED
        BY <1>7, <1>10, <2>2, <2>5, <3>1
    <2>6. CASE i < p /\ p < j
      <3>1. i \in 1 .. L /\ j - 1 \in 1 .. L /\ i < j - 1 /\ ~(j < p) /\ j # p
        BY <2>1, <2>6
      <3> QED
        BY <1>4, <2>2, <2>6, <3>1
    <2>7. CASE p < i
      <3>1. /\ i - 1 \in 1 .. L /\ j - 1 \in 1 .. L /\ i - 1 < j - 1 /\ ~(i < p) /\ i # p
            /\ ~(j < p) /\ j # p
        BY <2>1, <2>7
      <3> QED
        BY <1>4, <2>2, <2>7, <3>1
    <2> QED
      BY <2>1, <2>3, <2>4, <2>5, <2>6, <2>7
  <1>12. Members(r) \subseteq Members(l) \cup {e}
    <2> SUFFICES ASSUME NEW n \in 1 .. L + 1, n # p
                 PROVE  r[n] \in Members(l)
      BY <1>4, <1>7, <1>9 DEF Members
    <2>1. CASE n < p
      <3>1. n \in 1 .. L /\ r[n] = l[n]
        BY <1>4, <1>7, <1>9, <2>1
      <3> QED
        BY <3>1 DEF Members, L
    <2>2. CASE p < n
      <3>1. n - 1 \in 1 .. L /\ r[n] = l[n - 1]
        BY <1>4, <1>7, <1>9, <2>2
      <3> QED
        BY <3>1 DEF Members, L
    <2> QED
      BY <1>4, <1>7, <2>1, <2>2
  <1>13. Members(l) \subseteq Members(r)
    <2> SUFFICES ASSUME NEW n \in 1 .. L
                 PROVE  l[n] \in Members(r)
      BY DEF Members, L
    <2>1. CASE n < p
      <3>1. n \in 1 .. L + 1 /\ r[n] = l[n]
        BY <1>4, <1>7, <1>9, <2>1
      <3> QED
        BY <1>9, <3>1 DEF Members
    <2>2. CASE p <= n
      <3>1. n + 1 \in 1 .. L + 1 /\ r[n + 1] = l[n]
        BY <1>4, <1>7, <1>9, <2>2
      <3> QED
        BY <1>9, <3>1 DEF Members
    <2> QED
      BY <1>4, <1>7, <2>1, <2>2
  <1>14. e \in Members(r)
    <2>1. r[p] = e /\ p \in 1 .. Len(r)
      BY <1>4, <1>7, <1>9
    <2> QED
      BY <2>1 DEF Members
  <1>15. Queue(r)
    BY <1>9, <1>11 DEF Queue
  <1>16. Members(r) = Members(q) \cup {e}
    BY <1>3, <1>12, <1>13, <1>14
  <1> QED
    BY <1>1, <1>15, <1>16

LEMMA DispatchIs ==
    ASSUME EventInv, Dispatch
    PROVE  Queue(pending') /\ Members(pending') = owed' /\ owed' \subseteq live
  <1> DEFINE L == Len(table)
             Step(i, q) == IF table[i].ready THEN Schedule(q, table[i].event) ELSE q
             Loop(f) == f = [i \in 0 .. L |-> IF i = 0 THEN pending ELSE Step(i, f[i - 1])]
             scheduled == CHOOSE f : Loop(f)
             Ready(n) == {table[i].event : i \in {k \in 1 .. n : table[k].ready}}
  <1>1. /\ Indexed(table, id, live) /\ Queue(pending)
        /\ turn \in {"start", "dispatch"} => pending = <<>>
    BY DEF EventInv
  <1>2. L \in Nat /\ DOMAIN table = 1 .. L /\ \A i \in 1 .. L : table[i] \in Descriptor
    BY <1>1 DEF Indexed
  <1>3. pending' = scheduled[L]
    BY DEF Dispatch
  <1>4. owed' = {t.event : t \in {r \in ToSet(table) : r.ready}} /\ pending = <<>>
    BY <1>1 DEF Dispatch
  <1>5. ToSet(table) = {table[i] : i \in 1 .. L}
    BY <1>2 DEF ToSet
  <1>6. owed' = Ready(L)
    BY <1>4, <1>5
  <1>7. \A i \in 1 .. L : table[i].event \in Events
    BY <1>2 DEF Descriptor
  <1>8. owed' \subseteq live
    <2>1. \A i \in 1 .. L : table[i].event \in live
      <3> TAKE i \in 1 .. L
      <3>1. id[table[i].event] = i /\ i # 0
        BY <1>1, <1>2 DEF Indexed
      <3> QED
        BY <1>1, <1>7, <3>1 DEF Indexed
    <2> QED
      BY <1>6, <2>1
  <1> DEFINE Q == {q \in Seq(Events) : Queue(q)}
  <1>9. \A i \in 1 .. L : \A q \in Q : Step(i, q) \in Q
    <2> SUFFICES ASSUME NEW i \in 1 .. L, NEW q \in Q
                 PROVE  Step(i, q) \in Q
      OBVIOUS
    <2>1. Queue(Schedule(q, table[i].event))
      BY <1>7, ScheduleIs
    <2> QED
      BY <2>1 DEF Queue
  <1>10. pending \in Q
    BY <1>1 DEF Queue
  <1> HIDE DEF L, Q, Step
  <1>11. \E f : Loop(f)
    <2> DEFINE g == [i \in 1 .. L |-> [q \in Q |-> Step(i, q)]]
    <2>1. \A i \in 1 .. L : \A q \in Q : g[i][q] = Step(i, q) /\ g[i][q] \in Q
      BY <1>9
    <2> HIDE DEF g
    <2>2. Steps(g, L, Q)
      BY <2>1 DEF Steps
    <2>3. PICK f : Runs(f, L, Q, pending, g)
      BY <1>2, <1>10, <2>2, Recursion
    <2>4. f \in [0 .. L -> Q] /\ f[0] = pending /\ \A i \in 1 .. L : f[i] = g[i][f[i - 1]]
      BY <2>3 DEF Runs
    <2>5. \A i \in 0 .. L : f[i] = IF i = 0 THEN pending ELSE Step(i, f[i - 1])
      <3> SUFFICES ASSUME NEW i \in 0 .. L, i # 0
                   PROVE  f[i] = Step(i, f[i - 1])
        BY <2>4
      <3>1. i \in 1 .. L /\ i - 1 \in 0 .. L
        BY <1>2
      <3> QED
        BY <2>1, <2>4, <3>1
    <2>6. Loop(f)
      BY <2>4, <2>5
    <2> QED
      BY <2>6
  <1>12. Loop(scheduled)
    BY <1>11
  <1> HIDE DEF scheduled
  <1>13. scheduled[0] = pending /\ \A i \in 1 .. L : scheduled[i] = Step(i, scheduled[i - 1])
    <2>1. 0 \in 0 .. L /\ \A i \in 1 .. L : i \in 0 .. L /\ i # 0
      BY <1>2
    <2> QED
      BY <1>12, <2>1
  <1> DEFINE N == {n \in Nat : n <= L => Queue(scheduled[n]) /\ Members(scheduled[n]) = Ready(n)}
  <1>14. 0 \in N
    <2>1. Members(<<>>) = {} /\ Ready(0) = {}
      BY DEF Members
    <2> QED
      BY <1>1, <1>4, <1>13, <2>1
  <1>15. ASSUME NEW n \in Nat, n \in N
         PROVE  n + 1 \in N
    <2> SUFFICES ASSUME n + 1 <= L
                 PROVE  /\ Queue(scheduled[n + 1])
                        /\ Members(scheduled[n + 1]) = Ready(n + 1)
      OBVIOUS
    <2>1. n <= L /\ n + 1 \in 1 .. L /\ (n + 1) - 1 = n
      BY <1>2
    <2>2. Queue(scheduled[n]) /\ Members(scheduled[n]) = Ready(n)
      BY <1>15, <2>1
    <2>3. scheduled[n + 1] = Step(n + 1, scheduled[n])
      BY <1>13, <2>1
    <2>4. 1 .. n + 1 = (1 .. n) \cup {n + 1}
      OBVIOUS
    <2>5. Ready(n + 1) = IF table[n + 1].ready THEN Ready(n) \cup {table[n + 1].event} ELSE Ready(n)
      BY <2>4
    <2>6. table[n + 1].event \in Events
      BY <1>7, <2>1 DEF L
    <2> HIDE DEF Ready
    <2>7. CASE table[n + 1].ready
      <3>1. scheduled[n + 1] = Schedule(scheduled[n], table[n + 1].event)
        BY <2>3, <2>7 DEF Step
      <3>2. /\ Queue(scheduled[n + 1])
            /\ Members(scheduled[n + 1]) = Members(scheduled[n]) \cup {table[n + 1].event}
        BY <2>2, <2>6, <3>1, ScheduleIs
      <3> QED
        BY <2>2, <2>5, <2>7, <3>2
    <2>8. CASE ~table[n + 1].ready
      <3>1. scheduled[n + 1] = scheduled[n]
        BY <2>3, <2>8 DEF Step
      <3> QED
        BY <2>2, <2>5, <2>8, <3>1
    <2> QED
      BY <2>7, <2>8
  <1>16. L \in N
    <2> HIDE DEF N
    <2> QED
      BY <1>2, <1>14, <1>15, Induction
  <1> HIDE DEF Ready
  <1>17. Queue(scheduled[L]) /\ Members(scheduled[L]) = Ready(L)
    BY <1>2, <1>16
  <1> QED
    BY <1>3, <1>6, <1>8, <1>17

LEMMA RemoveEventIs ==
    ASSUME EventInv, NEW e \in Events, id[e] # 0, RemoveEvent(e)
    PROVE  Indexed(table', id', live \ {e})
  <1> DEFINE L == Len(table)
             k == id[e]
             z == table[L]
             moved == [table EXCEPT ![k] = z]
  <1>1. /\ table \in Seq(Descriptor) /\ id \in [Events -> Nat] /\ L \in Nat
        /\ \A x \in Events : id[x] # 0 => id[x] \in 1 .. L /\ table[id[x]].event = x /\ x \in live
        /\ \A i \in 1 .. L : table[i] \in Descriptor /\ id[table[i].event] = i
    BY DEF EventInv, Indexed
  <1>2. k \in 1 .. L /\ L \in 1 .. L /\ z \in Descriptor /\ z.event \in Events /\ id[z.event] = L
    BY <1>1 DEF Descriptor
  <1>3. table' = Front(moved) /\ id' = [id EXCEPT ![z.event] = k, ![e] = 0]
    BY DEF RemoveEvent
  <1>4. /\ moved \in Seq(Descriptor) /\ Len(moved) = L
        /\ \A i \in 1 .. L : moved[i] = IF i = k THEN z ELSE table[i]
    BY <1>1, <1>2, ExceptSeq
  <1> HIDE DEF moved
  <1>5. /\ table' \in Seq(Descriptor) /\ Len(table') = L - 1
        /\ \A i \in 1 .. L - 1 : table'[i] = moved[i]
    <2>1. table' = SubSeq(moved, 1, L - 1)
      BY <1>3, <1>4 DEF Front
    <2>2. 1 \in 1 .. Len(moved) + 1 /\ L - 1 \in 1 - 1 .. Len(moved) /\ L - 1 - 1 + 1 = L - 1
      BY <1>2, <1>4
    <2>3. /\ SubSeq(moved, 1, L - 1) \in Seq(Descriptor)
          /\ Len(SubSeq(moved, 1, L - 1)) = L - 1 - 1 + 1
          /\ \A n \in 1 .. L - 1 - 1 + 1 : SubSeq(moved, 1, L - 1)[n] = moved[1 + n - 1]
      BY <1>4, <2>2, PartIs
    <2>4. \A n \in 1 .. L - 1 : 1 + n - 1 = n
      OBVIOUS
    <2> QED
      BY <2>1, <2>2, <2>3, <2>4
  <1>6. \A i \in 1 .. L - 1 : table'[i] = IF i = k THEN z ELSE table[i]
    BY <1>1, <1>4, <1>5
  <1>7. /\ id' \in [Events -> Nat]
        /\ \A x \in Events : id'[x] = IF x = e THEN 0 ELSE IF x = z.event THEN k ELSE id[x]
    BY <1>1, <1>2, <1>3
  <1>8. ASSUME NEW x \in Events, id'[x] # 0
        PROVE  id'[x] \in 1 .. L - 1 /\ table'[id'[x]].event = x /\ x \in live \ {e}
    <2>1. x # e
      BY <1>7, <1>8
    <2>2. CASE x = z.event
      <3>1. id'[x] = k /\ k # L
        BY <1>1, <1>2, <1>7, <2>1, <2>2
      <3>2. k \in 1 .. L - 1 /\ L # 0
        BY <1>1, <1>2, <3>1
      <3> QED
        BY <1>1, <1>2, <1>6, <2>1, <2>2, <3>1, <3>2
    <2>3. CASE x # z.event
      <3>1. id'[x] = id[x] /\ id[x] # 0
        BY <1>7, <1>8, <2>1, <2>3
      <3>2. id[x] \in 1 .. L /\ table[id[x]].event = x /\ x \in live
        BY <1>1, <3>1
      <3>3. id[x] # L /\ id[x] # k
        BY <1>1, <1>2, <2>1, <2>3, <3>2
      <3>4. id[x] \in 1 .. L - 1
        BY <1>1, <3>2, <3>3
      <3> QED
        BY <1>6, <2>1, <3>1, <3>2, <3>3, <3>4
    <2> QED
      BY <2>2, <2>3
  <1>9. ASSUME NEW i \in 1 .. L - 1
        PROVE  id'[table'[i].event] = i
    <2>1. i \in 1 .. L /\ i # L
      BY <1>1
    <2>2. CASE i = k
      <3>1. table'[i] = z /\ z.event # e
        BY <1>2, <1>6, <2>1, <2>2
      <3> QED
        BY <1>2, <1>7, <2>2, <3>1
    <2>3. CASE i # k
      <3>1. table'[i] = table[i] /\ id[table[i].event] = i /\ table[i].event \in Events
        BY <1>1, <1>6, <2>1, <2>3 DEF Descriptor
      <3>2. table[i].event # e /\ table[i].event # z.event
        BY <1>2, <2>1, <2>3, <3>1
      <3> QED
        BY <1>7, <3>1, <3>2
    <2> QED
      BY <2>2, <2>3
  <1> QED
    BY <1>5, <1>7, <1>8, <1>9 DEF Indexed

LEMMA NewEventInv == ASSUME EventInv, NEW e \in Events, NewEvent(e) PROVE EventInv'
  <1>1. /\ live' = live \cup {e} /\ table' = table /\ id' = id /\ pending' = pending
        /\ owed' = owed /\ turn' = turn
    BY DEF NewEvent
  <1>2. Indexed(table, id, live')
    BY <1>1 DEF EventInv, Indexed
  <1> QED
    BY <1>1, <1>2 DEF EventInv

LEMMA AddEventInv ==
    ASSUME EventInv, NEW e \in Events, NEW timeout \in BOOLEAN, AddEvent(e, timeout)
    PROVE  EventInv'
  <1> DEFINE L == Len(table)
             d == [event |-> e, ready |-> FALSE]
  <1>1. /\ e \in live /\ id[e] = 0 /\ id' = [id EXCEPT ![e] = L + 1] /\ table' = Append(table, d)
        /\ live' = live /\ pending' = pending /\ owed' = owed /\ turn' = turn
    BY DEF AddEvent
  <1>2. /\ table \in Seq(Descriptor) /\ id \in [Events -> Nat] /\ L \in Nat
        /\ \A x \in Events : id[x] # 0 => id[x] \in 1 .. L /\ table[id[x]].event = x /\ x \in live
        /\ \A i \in 1 .. L : table[i].event \in Events /\ id[table[i].event] = i
    <2>1. /\ table \in Seq(Descriptor) /\ id \in [Events -> Nat] /\ L \in Nat
          /\ \A x \in Events : id[x] # 0 => id[x] \in 1 .. L /\ table[id[x]].event = x /\ x \in live
          /\ \A i \in 1 .. L : table[i] \in Descriptor /\ id[table[i].event] = i
      BY DEF EventInv, Indexed
    <2>2. \A i \in 1 .. L : table[i].event \in Events
      BY <2>1 DEF Descriptor
    <2> QED
      BY <2>1, <2>2
  <1>3. d \in Descriptor /\ d.event = e
    BY DEF Descriptor
  <1> HIDE DEF d
  <1>4. /\ table' \in Seq(Descriptor) /\ Len(table') = L + 1 /\ table'[L + 1] = d
        /\ \A i \in 1 .. L : table'[i] = table[i]
    BY <1>1, <1>2, <1>3
  <1>5. id' \in [Events -> Nat] /\ \A x \in Events : id'[x] = IF x = e THEN L + 1 ELSE id[x]
    BY <1>1, <1>2
  <1>6. ASSUME NEW x \in Events, id'[x] # 0
        PROVE  id'[x] \in 1 .. L + 1 /\ table'[id'[x]].event = x /\ x \in live
    <2>1. CASE x = e
      BY <1>1, <1>2, <1>3, <1>4, <1>5, <2>1
    <2>2. CASE x # e
      <3>1. id'[x] = id[x] /\ id[x] \in 1 .. L /\ table[id[x]].event = x /\ x \in live
        BY <1>2, <1>5, <1>6, <2>2
      <3>2. id[x] \in 1 .. L + 1
        BY <1>2, <3>1
      <3> QED
        BY <1>4, <3>1, <3>2
    <2> QED
      BY <2>1, <2>2
  <1>7. ASSUME NEW i \in 1 .. L + 1
        PROVE  id'[table'[i].event] = i
    <2>1. CASE i = L + 1
      BY <1>3, <1>4, <1>5, <2>1
    <2>2. CASE i # L + 1
      <3>1. i \in 1 .. L /\ i # 0
        BY <1>2, <2>2
      <3>2. table'[i] = table[i] /\ table[i].event \in Events /\ id[table[i].event] = i
        BY <1>2, <1>4, <3>1
      <3>3. table[i].event # e
        BY <1>1, <3>1, <3>2
      <3> QED
        BY <1>5, <3>2, <3>3
    <2> QED
      BY <2>1, <2>2
  <1>8. Indexed(table', id', live)
    BY <1>4, <1>5, <1>6, <1>7 DEF Indexed
  <1> QED
    BY <1>1, <1>8 DEF EventInv

LEMMA DeleteEventInv == ASSUME EventInv, NEW e \in Events, DeleteEvent(e) PROVE EventInv'
  <1>1. CASE UNCHANGED eventVars
    BY <1>1 DEF eventVars, EventInv
  <1>2. CASE ~(UNCHANGED eventVars)
    <2>1. /\ RemoveEvent(e) /\ live' = live \ {e}
          /\ pending' = Only(pending, Events \ {e}) /\ owed' = owed \ {e} /\ turn' = turn
      BY <1>2 DEF DeleteEvent
    <2>2. /\ Queue(pending) /\ Members(pending) = owed /\ owed \subseteq live /\ live \subseteq Events
          /\ turn \in {"start", "dispatch"} => pending = <<>>
      BY DEF EventInv
    <2>3. Queue(pending') /\ Members(pending') = owed'
      <3>1. Members(pending') = owed \cap (Events \ {e}) /\ Queue(pending')
        BY <2>1, <2>2, QueueOnly
      <3> QED
        BY <2>1, <2>2, <3>1
    <2>4. turn \in {"start", "dispatch"} => pending' = <<>>
      <3> SUFFICES ASSUME pending = <<>>
                   PROVE  pending' = <<>>
        BY <2>2
      <3>1. Members(<<>>) = {}
        BY DEF Members
      <3>2. pending' \in Seq(Events) /\ Members(pending') = {}
        BY <2>1, <2>2, <2>3, <3>1 DEF Queue
      <3>3. pending' # <<>> => 1 \in 1 .. Len(pending')
        BY <3>2
      <3> QED
        BY <3>2, <3>3 DEF Members
    <2>5. Indexed(table', id', live')
      <3>1. CASE id[e] = 0
        <4>1. table' = table /\ id' = id
          BY <2>1, <3>1 DEF RemoveEvent
        <4> QED
          BY <2>1, <3>1, <4>1 DEF EventInv, Indexed
      <3>2. CASE id[e] # 0
        BY <2>1, <3>2, RemoveEventIs
      <3> QED
        BY <3>1, <3>2
    <2> QED
      BY <2>1, <2>2, <2>3, <2>4, <2>5 DEF EventInv
  <1> QED
    BY <1>1, <1>2

LEMMA ExecInv == ASSUME EventInv, Exec PROVE EventInv'
  <1> DEFINE L == Len(pending)
             r == Tail(pending)
  <1>1. /\ pending # <<>> /\ owed' = owed \ {Head(pending)} /\ pending' = r /\ turn' = "callback"
        /\ live' = live /\ id' = id /\ table' = table
    BY DEF Exec
  <1>2. /\ pending \in Seq(Events)
        /\ \A i, j \in 1 .. L : i < j => pending[i] # pending[j]
                                         /\ Priority[pending[i]] <= Priority[pending[j]]
        /\ Members(pending) = owed /\ owed \subseteq live
    BY DEF EventInv, Queue
  <1>3. L \in Nat /\ L >= 1 /\ Head(pending) = pending[1]
    BY <1>1, <1>2
  <1>4. r \in Seq(Events) /\ Len(r) = L - 1 /\ \A n \in 1 .. L - 1 : r[n] = pending[n + 1]
    BY <1>1, <1>2
  <1> HIDE DEF r
  <1>5. \A n \in 1 .. L - 1 : n + 1 \in 1 .. L /\ 1 < n + 1 /\ 1 \in 1 .. L
    BY <1>3
  <1>6. Queue(r)
    <2>1. \A i, j \in 1 .. L - 1 : i < j => i + 1 < j + 1
      OBVIOUS
    <2>2. ASSUME NEW i \in 1 .. L - 1, NEW j \in 1 .. L - 1, i < j
          PROVE  r[i] # r[j] /\ Priority[r[i]] <= Priority[r[j]]
      <3>1. r[i] = pending[i + 1] /\ r[j] = pending[j + 1] /\ i + 1 < j + 1
        BY <1>4, <2>1, <2>2
      <3>2. i + 1 \in 1 .. L /\ j + 1 \in 1 .. L
        BY <1>5
      <3> QED
        BY <1>2, <3>1, <3>2
    <2> QED
      BY <1>4, <2>2 DEF Queue
  <1>7. Members(r) = owed \ {pending[1]}
    <2>1. Members(r) \subseteq owed \ {pending[1]}
      <3> SUFFICES ASSUME NEW n \in 1 .. L - 1
                   PROVE  r[n] \in owed \ {pending[1]}
        BY <1>4 DEF Members
      <3> QED
        BY <1>2, <1>4, <1>5 DEF Members
    <2>2. owed \ {pending[1]} \subseteq Members(r)
      <3> SUFFICES ASSUME NEW n \in 1 .. L, n # 1
                   PROVE  pending[n] \in Members(r)
        BY <1>2 DEF Members
      <3>1. n - 1 \in 1 .. L - 1 /\ (n - 1) + 1 = n
        BY <1>3
      <3>2. r[n - 1] = pending[n]
        BY <1>4, <3>1
      <3> QED
        BY <1>4, <3>1, <3>2 DEF Members
    <2> QED
      BY <2>1, <2>2
  <1> QED
    BY <1>1, <1>2, <1>3, <1>6, <1>7 DEF EventInv

LEMMA PollInv == ASSUME EventInv, Poll PROVE EventInv'
  <1> DEFINE L == Len(table)
  <1>1. PICK happened \in [DOMAIN table -> BOOLEAN] :
            table' = [i \in DOMAIN table |-> [table[i] EXCEPT !.ready = happened[i]]]
    BY DEF Poll
  <1>2. /\ pending = <<>> /\ pending' = pending /\ live' = live /\ id' = id /\ owed' = owed
    BY DEF Poll
  <1>3. /\ table \in Seq(Descriptor) /\ L \in Nat /\ DOMAIN table = 1 .. L
        /\ \A i \in 1 .. L : table[i] \in Descriptor
        /\ \A x \in Events : id[x] # 0 => id[x] \in 1 .. L /\ table[id[x]].event = x /\ x \in live
        /\ \A i \in 1 .. L : id[table[i].event] = i
        /\ id \in [Events -> Nat]
    BY DEF EventInv, Indexed
  <1>4. \A i \in 1 .. L : [table[i] EXCEPT !.ready = happened[i]] \in Descriptor
                          /\ [table[i] EXCEPT !.ready = happened[i]].event = table[i].event
    BY <1>3 DEF Descriptor
  <1>5. table' \in [1 .. L -> Descriptor] /\ \A i \in 1 .. L : table'[i].event = table[i].event
    BY <1>1, <1>3, <1>4
  <1>6. table' \in Seq(Descriptor) /\ Len(table') = L
    <2>1. table' \in Seq(Descriptor)
      BY <1>3, <1>5, SeqDef
    <2> QED
      BY <1>3, <1>5, <2>1, LenProperties
  <1> HIDE DEF L
  <1>7. Indexed(table', id', live')
    BY <1>2, <1>3, <1>5, <1>6 DEF Indexed
  <1> QED
    BY <1>2, <1>7 DEF EventInv

THEOREM EventInvariance == EventSpec => []EventInv
  <1>1. EventInit => EventInv
    <2> SUFFICES ASSUME EventInit
                 PROVE  EventInv
      OBVIOUS
    <2>1. /\ live = {} /\ owed = {} /\ table = <<>> /\ pending = <<>>
          /\ id \in [Events -> Nat] /\ \A e \in Events : id[e] = 0
      BY DEF EventInit
    <2>2. <<>> \in Seq(Descriptor) /\ <<>> \in Seq(Events) /\ Len(<<>>) = 0 /\ 1 .. 0 = {}
      OBVIOUS
    <2> QED
      BY <2>1, <2>2 DEF EventInv, Indexed, Queue, Members
  <1>2. EventInv /\ [EventNext]_eventVars => EventInv'
    <2> SUFFICES ASSUME EventInv, [EventNext]_eventVars
                 PROVE  EventInv'
      OBVIOUS
    <2>1. CASE Dispatch
      <3>1. /\ live' = live /\ id' = id /\ table' = table
            /\ turn' \notin {"start", "dispatch"}
        BY <2>1 DEF Dispatch
      <3> QED
        BY <2>1, <3>1, DispatchIs DEF EventInv
    <2>2. CASE CallbackReturns
      BY <2>2 DEF CallbackReturns, EventInv
    <2>3. CASE UNCHANGED eventVars
      BY <2>3 DEF eventVars, EventInv
    <2> QED
      BY <2>1, <2>2, <2>3, NewEventInv, AddEventInv, DeleteEventInv, ExecInv, PollInv DEF EventNext
  <1> QED
    BY <1>1, <1>2, PTL DEF EventSpec

\* event.c, fdsel.c: what a pass found ready and nobody has deleted since waits
\* for its turn in that pass, once and the smaller numbers first, and every
\* event finds itself in the table, which moves its last entry about.
THEOREM ReadyAreRun == EventSpec => []ReadyRuns
  <1>1. EventInv => ReadyRuns
    <2> SUFFICES ASSUME EventInv
                 PROVE  ReadyRuns
      OBVIOUS
    <2> DEFINE L == Len(table)
               P == Len(pending)
    <2>1. /\ pending \in Seq(Events) /\ P \in Nat /\ DOMAIN pending = 1 .. P
          /\ \A i \in 1 .. P : pending[i] \in Events
          /\ \A i, j \in 1 .. P : i < j => pending[i] # pending[j]
                                           /\ Priority[pending[i]] <= Priority[pending[j]]
      BY DEF EventInv, Queue
    <2>2. ToSet(pending) = owed /\ owed \subseteq live
      BY <2>1 DEF EventInv, Members, ToSet
    <2>3. IsInjective(pending)
      <3>1. \A i, j \in 1 .. P : i = j \/ i < j \/ j < i
        BY <2>1
      <3> QED
        BY <2>1, <3>1 DEF IsInjective
    <2>4. /\ L \in Nat /\ DOMAIN table = 1 .. L /\ live \subseteq Events /\ id \in [Events -> Nat]
          /\ \A i \in 1 .. L : table[i].event \in Events /\ id[table[i].event] = i
          /\ \A x \in Events : id[x] # 0 => id[x] \in 1 .. L /\ table[id[x]].event = x /\ x \in live
      <3>1. /\ L \in Nat /\ DOMAIN table = 1 .. L /\ live \subseteq Events /\ id \in [Events -> Nat]
            /\ \A i \in 1 .. L : table[i] \in Descriptor /\ id[table[i].event] = i
            /\ \A x \in Events : id[x] # 0 => id[x] \in 1 .. L /\ table[id[x]].event = x /\ x \in live
        BY DEF EventInv, Indexed
      <3>2. \A i \in 1 .. L : table[i].event \in Events
        BY <3>1 DEF Descriptor
      <3> QED
        BY <3>1, <3>2
    <2>5. {t.event : t \in ToSet(table)} = {table[i].event : i \in 1 .. L}
      BY <2>4 DEF ToSet
    <2>6. \A i \in 1 .. L : table[i].event \in live /\ id[table[i].event] > 0
      BY <2>4
    <2>7. \A e \in live : id[e] > 0 => id[e] \in 1 .. L /\ table[id[e]].event = e
      BY <2>4
    <2>8. {table[i].event : i \in 1 .. L} = {e \in live : id[e] > 0}
      BY <2>6, <2>7
    <2> QED
      BY <2>1, <2>2, <2>3, <2>4, <2>5, <2>8 DEF ReadyRuns
  <1> QED
    BY <1>1, EventInvariance, PTL

-----------------------------------------------------------------------------
(* Socks.                                                                  *)

Granted == {<<0, 0>>, <<2, 0, 0>>}

Stages == {"idle", "connecting", "method", "auth", "reply", "returned", "exited",
           "initiating", "relayed"}

SocksInv ==
    /\ stage \in Stages /\ created \in BOOLEAN /\ closed \in BOOLEAN
    /\ open \in Nat /\ refused \in Nat
    /\ open = refused + (IF created /\ stage # "idle" THEN 1 ELSE 0)
    /\ stage \in {"connecting", "method"} => said = <<>>
    /\ stage = "auth" => closed \/ said = <<2>>
    /\ stage = "reply" => closed \/ said \in {<<0>>, <<2, 0>>}
    /\ stage \in {"returned", "initiating", "relayed"} => said \in Granted

LEMMA AppendIs ==
    ASSUME NEW a \in Nat, NEW b \in Nat, NEW x \in Nat
    PROVE  Append(<<a>>, x) = <<a, x>> /\ Append(<<a, b>>, x) = <<a, b, x>>
  <1>1. Append(<<a>>, x) = <<a, x>>
    <2>1. <<a>> \in Seq(Nat) /\ <<a, x>> \in Seq(Nat)
      OBVIOUS
    <2>2. /\ Len(Append(<<a>>, x)) = 2 /\ Append(<<a>>, x)[1] = a /\ Append(<<a>>, x)[2] = x
          /\ Append(<<a>>, x) \in Seq(Nat)
      BY <2>1
    <2>3. Len(<<a, x>>) = 2 /\ <<a, x>>[1] = a /\ <<a, x>>[2] = x
      OBVIOUS
    <2>4. \A i \in 1 .. 2 : i = 1 \/ i = 2
      OBVIOUS
    <2> QED
      BY <2>1, <2>2, <2>3, <2>4, SeqEqual
  <1>2. Append(<<a, b>>, x) = <<a, b, x>>
    <2>1. <<a, b>> \in Seq(Nat) /\ <<a, b, x>> \in Seq(Nat)
      OBVIOUS
    <2>2. /\ Len(Append(<<a, b>>, x)) = 3 /\ Append(<<a, b>>, x)[1] = a
          /\ Append(<<a, b>>, x)[2] = b /\ Append(<<a, b>>, x)[3] = x
          /\ Append(<<a, b>>, x) \in Seq(Nat)
      BY <2>1
    <2>3. Len(<<a, b, x>>) = 3 /\ <<a, b, x>>[1] = a /\ <<a, b, x>>[2] = b /\ <<a, b, x>>[3] = x
      OBVIOUS
    <2>4. \A i \in 1 .. 3 : i = 1 \/ i = 2 \/ i = 3
      OBVIOUS
    <2> QED
      BY <2>1, <2>2, <2>3, <2>4, SeqEqual
  <1> QED
    BY <1>1, <1>2

LEMMA Said ==
    /\ Append(<<2>>, 0) = <<2, 0>> /\ Append(<<0>>, 0) = <<0, 0>>
    /\ Append(<<2, 0>>, 0) = <<2, 0, 0>>
    /\ SubSeq(<<0, 0>>, 1, 2) = <<0, 0>> /\ SubSeq(<<2, 0, 0>>, 1, 3) = <<2, 0, 0>>
  <1>1. <<2>> \in Seq(Nat) /\ <<0>> \in Seq(Nat) /\ <<2, 0>> \in Seq(Nat) /\ <<0, 0>> \in Seq(Nat)
    OBVIOUS
  <1>2. <<2, 0, 0>> \in Seq(Nat) /\ Len(<<0, 0>>) = 2 /\ Len(<<2, 0, 0>>) = 3
    OBVIOUS
  <1>3. /\ Append(<<2>>, 0) = <<2, 0>> /\ Append(<<0>>, 0) = <<0, 0>>
        /\ Append(<<2, 0>>, 0) = <<2, 0, 0>>
    BY AppendIs
  <1>4. SubSeq(<<0, 0>>, 1, 2) = <<0, 0>> /\ SubSeq(<<2, 0, 0>>, 1, 3) = <<2, 0, 0>>
    BY <1>1, <1>2, SubSeqFull
  <1> QED
    BY <1>3, <1>4

LEMMA FailInv ==
    ASSUME SocksInv, stage # "idle", Fail, closed' \in BOOLEAN
    PROVE  SocksInv'
  BY DEF SocksInv, Fail, Stages

LEMMA MethodInv == ASSUME SocksInv, Method PROVE SocksInv'
  <1>1. PICK c \in Codes :
            /\ Reads(c, Codes)
            /\ CASE c = 0 -> GoesOn("reply")
                 [] c = 2 -> GoesOn("auth") \/ Fail
                 [] OTHER -> Fail
    BY DEF Method
  <1>2. stage = "method" /\ said = <<>> /\ closed' \in BOOLEAN
    BY <1>1 DEF Method, SocksInv, Reads
  <1>3. CASE Fail
    BY <1>2, <1>3, FailInv
  <1>4. CASE c = 0 /\ GoesOn("reply")
    <2>1. closed' \/ said' = <<0>>
      BY <1>1, <1>2, <1>4 DEF Reads
    <2> QED
      BY <1>2, <1>4, <2>1 DEF SocksInv, GoesOn, Stages
  <1>5. CASE c = 2 /\ GoesOn("auth")
    <2>1. closed' \/ said' = <<2>>
      BY <1>1, <1>2, <1>5 DEF Reads
    <2> QED
      BY <1>2, <1>5, <2>1 DEF SocksInv, GoesOn, Stages
  <1> QED
    BY <1>1, <1>3, <1>4, <1>5 DEF Codes

LEMMA AuthInv == ASSUME SocksInv, Auth PROVE SocksInv'
  <1>1. PICK c \in Codes :
            /\ Reads(c, IF UserEmpty THEN {0} ELSE {255})
            /\ IF c = 0 THEN GoesOn("reply") ELSE Fail
    BY DEF Auth
  <1>2. stage = "auth" /\ (closed \/ said = <<2>>) /\ closed' \in BOOLEAN
    BY <1>1 DEF Auth, SocksInv, Reads
  <1>3. CASE Fail
    BY <1>2, <1>3, FailInv
  <1>4. CASE c = 0 /\ GoesOn("reply")
    <2>1. closed' \/ (said = <<2>> /\ said' = Append(said, 0))
      BY <1>1, <1>2, <1>4 DEF Reads
    <2>2. closed' \/ said' = <<2, 0>>
      BY <2>1, Said
    <2> QED
      BY <1>2, <1>4, <2>2 DEF SocksInv, GoesOn, Stages
  <1> QED
    BY <1>1, <1>3, <1>4

LEMMA ReplyInv == ASSUME SocksInv, Reply PROVE SocksInv'
  <1>1. PICK c \in Codes :
            /\ Reads(c, {255})
            /\ IF c = 0 THEN GoesOn("returned")
               ELSE /\ stage' = "idle"
                    /\ refused' = IF created THEN refused + 1 ELSE refused
                    /\ UNCHANGED <<request, created, open, tries, alive>>
    BY DEF Reply
  <1>2. stage = "reply" /\ (closed \/ said \in {<<0>>, <<2, 0>>}) /\ closed' \in BOOLEAN
    BY <1>1 DEF Reply, SocksInv, Reads
  <1>3. CASE c = 0
    <2>1. ~closed /\ said' = Append(said, 0)
      BY <1>1, <1>3 DEF Reads
    <2>2. said' \in Granted
      BY <1>2, <2>1, Said DEF Granted
    <2> QED
      BY <1>1, <1>2, <1>3, <2>2 DEF SocksInv, GoesOn, Stages
  <1>4. CASE c # 0
    BY <1>1, <1>2, <1>4 DEF SocksInv, Stages
  <1> QED
    BY <1>3, <1>4

LEMMA RelayInv == ASSUME SocksInv, Establish \/ Accept \/ Closes \/ Initiate \/ Try PROVE SocksInv'
  <1>1. CASE Establish
    <2>1. stage = "connecting" /\ closed' = closed /\ said' = said
          /\ (GoesOn("exited") \/ GoesOn("method") \/ Fail)
      BY <1>1 DEF Establish
    <2>2. CASE Fail
      BY <2>1, <2>2, FailInv DEF SocksInv
    <2>3. CASE GoesOn("exited") \/ GoesOn("method")
      BY <2>1, <2>3 DEF SocksInv, GoesOn, Stages
    <2> QED
      BY <2>1, <2>2, <2>3
  <1>2. CASE Accept
    BY <1>2 DEF SocksInv, Accept, GoesOn, Stages
  <1>3. CASE Closes
    BY <1>3, FailInv DEF SocksInv, Closes
  <1>4. CASE Initiate
    BY <1>4 DEF SocksInv, Initiate, Stages
  <1>5. CASE Try
    <2>1. /\ stage = "initiating" /\ stage' \in {"relayed", "returned", "initiating"}
          /\ created' = created /\ closed' = closed /\ said' = said /\ open' = open
          /\ refused' = refused
      BY <1>5 DEF Try
    <2> QED
      BY <2>1 DEF SocksInv, Stages
  <1> QED
    BY <1>1, <1>2, <1>3, <1>4, <1>5

THEOREM SocksInvariance == SocksSpec => []SocksInv
  <1>1. SocksInit => SocksInv
    <2> SUFFICES ASSUME SocksInit
                 PROVE  SocksInv
      OBVIOUS
    <2>1. stage = "idle" /\ created = FALSE /\ closed = FALSE /\ open = 0 /\ refused = 0
      BY DEF SocksInit
    <2>2. stage \in Stages /\ stage \notin {"connecting", "method", "auth", "reply", "returned",
                                            "initiating", "relayed"}
      BY <2>1 DEF Stages
    <2>3. open = refused + (IF created /\ stage # "idle" THEN 1 ELSE 0)
      BY <2>1
    <2>4. created \in BOOLEAN /\ closed \in BOOLEAN /\ open \in Nat /\ refused \in Nat
      BY <2>1
    <2>5. ~(stage \in {"connecting", "method"}) /\ stage # "auth" /\ stage # "reply"
          /\ ~(stage \in {"returned", "initiating", "relayed"})
      BY <2>2
    <2> QED
      BY <2>2, <2>3, <2>4, <2>5 DEF SocksInv
  <1>2. SocksInv /\ [SocksNext]_socksVars => SocksInv'
    <2> SUFFICES ASSUME SocksInv, [SocksNext]_socksVars
                 PROVE  SocksInv'
      OBVIOUS
    <2>1. ASSUME NEW r \in {"connect", "listen", "associate"}, NEW own \in BOOLEAN, Begin(r, own)
          PROVE  SocksInv'
      <3>1. /\ stage = "idle" /\ stage' = "connecting" /\ created' = own /\ closed' = FALSE
            /\ said' = <<>> /\ open' = (IF own THEN open + 1 ELSE open) /\ refused' = refused
        BY <2>1 DEF Begin
      <3>2. /\ stage' \in Stages
            /\ stage' \notin {"auth", "reply", "returned", "initiating", "relayed"}
        BY <3>1 DEF Stages
      <3>3. open = refused /\ open \in Nat
        BY <3>1 DEF SocksInv
      <3>4. open' \in Nat /\ open' = refused' + (IF created' /\ stage' # "idle" THEN 1 ELSE 0)
        BY <3>1, <3>3
      <3> QED
        BY <3>1, <3>2, <3>3, <3>4 DEF SocksInv
    <2>2. CASE UNCHANGED socksVars
      BY <2>2 DEF socksVars, SocksInv
    <2> QED
      BY <2>1, <2>2, MethodInv, AuthInv, ReplyInv, RelayInv DEF SocksNext
  <1> QED
    BY <1>1, <1>2, PTL DEF SocksSpec

\* socks.c: a socket is returned only when the server granted the request and
\* accepted the user, however early it closed; all others made here are closed,
\* but for those of requests that were refused.
THEOREM GrantsAreHeard == SocksSpec => []GrantsHeard
  <1>1. SocksInv => GrantsHeard
    <2> SUFFICES ASSUME SocksInv
                 PROVE  GrantsHeard
      OBVIOUS
    <2>1. stage \in {"returned", "initiating", "relayed"} =>
             SubSeq(said, 1, 2) = <<0, 0>> \/ SubSeq(said, 1, 3) = <<2, 0, 0>>
      BY Said DEF SocksInv, Granted
    <2>2. open = refused + IF created /\ stage \notin {"idle"} THEN 1 ELSE 0
      BY DEF SocksInv
    <2> QED
      BY <2>1, <2>2 DEF GrantsHeard
  <1> QED
    BY <1>1, SocksInvariance, PTL

-----------------------------------------------------------------------------
(* Sockets.                                                                *)

NoRoute == [fits |-> FALSE, mask |-> 0, gw |-> 99, dev |-> "none"]

Better(a, r) == IF r.fits /\ (r.mask > a.mask \/ a.mask = 0) /\ r.gw < a.gw THEN r ELSE a

\* The place of a route that findsaddr is to find.
Direct(rs, i) ==
    /\ i \in 1 .. Len(rs) /\ rs[i].fits /\ rs[i].gw = 0
    /\ \A j \in 1 .. Len(rs) \ {i} :
           rs[j].fits => rs[j].gw > 0 /\ rs[j].mask < rs[i].mask

\* Routes that findsaddr may have found before that place.
Before(a, r) ==
    a.gw \in Nat /\ a.mask \in Nat /\ a.gw > 0 /\ (a.mask = 0 \/ a.mask < r.mask)

LEMMA BetterKeeps ==
    ASSUME NEW rs \in Seq(Route), NEW i, Direct(rs, i)
    PROVE  /\ \A a : Before(a, rs[i]) => Better(a, rs[i]) = rs[i]
           /\ \A j \in 1 .. Len(rs) : Better(rs[i], rs[j]) = rs[i]
           /\ \A j \in 1 .. Len(rs) \ {i} : \A a :
                  Before(a, rs[i]) => Before(Better(a, rs[j]), rs[i])
  <1>1. i \in 1 .. Len(rs) /\ rs[i].fits /\ rs[i].gw = 0
    BY DEF Direct
  <1>2. \A j \in 1 .. Len(rs) : rs[j] \in Route /\ rs[j].gw \in Nat /\ rs[j].mask \in Nat
    <2>1. \A a \in Route : a.gw \in Nat /\ a.mask \in Nat
      <3>1. \A a \in Route : a.gw \in 0 .. 98
        BY DEF Route
      <3>2. \A a \in Route : a.mask \in Nat
        BY DEF Route
      <3>3. \A x \in 0 .. 98 : x \in Nat
        OBVIOUS
      <3> QED
        BY <3>1, <3>2, <3>3
    <2>2. \A j \in 1 .. Len(rs) : rs[j] \in Route
      OBVIOUS
    <2> QED
      BY <2>1, <2>2
  <1>3. ASSUME NEW a, Before(a, rs[i])
        PROVE  Better(a, rs[i]) = rs[i]
    <2>1. a.gw \in Nat /\ a.mask \in Nat /\ a.gw > 0 /\ (a.mask = 0 \/ a.mask < rs[i].mask)
      BY <1>3 DEF Before
    <2> QED
      BY <1>1, <1>2, <2>1 DEF Better
  <1>4. ASSUME NEW j \in 1 .. Len(rs)
        PROVE  Better(rs[i], rs[j]) = rs[i]
    <2>1. ~(rs[j].gw < rs[i].gw)
      BY <1>1, <1>2
    <2> QED
      BY <2>1 DEF Better
  <1>5. ASSUME NEW j \in 1 .. Len(rs) \ {i}, NEW a, Before(a, rs[i])
        PROVE  Before(Better(a, rs[j]), rs[i])
    <2>1. CASE ~rs[j].fits
      BY <1>5, <2>1 DEF Better
    <2>2. CASE rs[j].fits
      <3>1. rs[j].gw > 0 /\ rs[j].mask < rs[i].mask
        BY <1>5, <2>2 DEF Direct
      <3>2. Before(rs[j], rs[i])
        BY <1>2, <3>1 DEF Before
      <3> QED
        BY <1>5, <3>2 DEF Better
    <2> QED
      BY <2>1, <2>2
  <1> QED
    BY <1>3, <1>4, <1>5

LEMMA FindSAddrIs ==
    ASSUME NEW rs \in Seq(Route), NEW i, Direct(rs, i)
    PROVE  FindSAddr(rs) = rs[i].dev
  <1> DEFINE L == Len(rs)
             Loop(f) == f = [k \in 0 .. L |-> IF k = 0 THEN NoRoute ELSE Better(f[k - 1], rs[k])]
             best == CHOOSE f : Loop(f)
             Found == Route \cup {NoRoute}
  <1>1. L \in Nat /\ i \in 1 .. L /\ \A k \in 1 .. L : rs[k] \in Route
    BY DEF Direct
  <1>2. FindSAddr(rs) = best[L].dev
    BY DEF FindSAddr, NoRoute, Better
  <1>3. NoRoute \in Found /\ Before(NoRoute, rs[i])
    <2>1. NoRoute.mask = 0 /\ NoRoute.gw = 99
      BY DEF NoRoute
    <2> QED
      BY <2>1 DEF Before
  <1>4. \A k \in 1 .. L : \A a \in Found : Better(a, rs[k]) \in Found
    BY <1>1 DEF Better
  <1> HIDE DEF L, Found
  <1>5. \E f : Loop(f)
    <2> DEFINE g == [k \in 1 .. L |-> [a \in Found |-> Better(a, rs[k])]]
    <2>1. \A k \in 1 .. L : \A a \in Found : g[k][a] = Better(a, rs[k]) /\ g[k][a] \in Found
      BY <1>4
    <2> HIDE DEF g
    <2>2. Steps(g, L, Found)
      BY <2>1 DEF Steps
    <2>3. PICK f : Runs(f, L, Found, NoRoute, g)
      BY <1>1, <1>3, <2>2, Recursion
    <2>4. /\ f \in [0 .. L -> Found] /\ f[0] = NoRoute
          /\ \A k \in 1 .. L : f[k] = g[k][f[k - 1]]
      BY <2>3 DEF Runs
    <2>5. \A k \in 0 .. L : f[k] = IF k = 0 THEN NoRoute ELSE Better(f[k - 1], rs[k])
      <3> SUFFICES ASSUME NEW k \in 0 .. L, k # 0
                   PROVE  f[k] = Better(f[k - 1], rs[k])
        BY <2>4
      <3>1. k \in 1 .. L /\ k - 1 \in 0 .. L
        BY <1>1
      <3> QED
        BY <2>1, <2>4, <3>1
    <2>6. Loop(f)
      BY <2>4, <2>5
    <2> QED
      BY <2>6
  <1>6. Loop(best)
    BY <1>5
  <1> HIDE DEF best
  <1>7. best[0] = NoRoute /\ \A k \in 1 .. L : best[k] = Better(best[k - 1], rs[k])
    <2>1. 0 \in 0 .. L /\ \A k \in 1 .. L : k \in 0 .. L /\ k # 0
      BY <1>1
    <2> QED
      BY <1>6, <2>1
  <1> DEFINE N == {n \in Nat : n <= L => IF n < i THEN Before(best[n], rs[i]) ELSE best[n] = rs[i]}
  <1>8. 0 \in N
    BY <1>1, <1>3, <1>7
  <1>9. ASSUME NEW n \in Nat, n \in N
        PROVE  n + 1 \in N
    <2> SUFFICES ASSUME n + 1 <= L
                 PROVE  IF n + 1 < i THEN Before(best[n + 1], rs[i]) ELSE best[n + 1] = rs[i]
      OBVIOUS
    <2>1. /\ n + 1 \in 1 .. Len(rs) /\ best[n + 1] = Better(best[n], rs[n + 1])
          /\ IF n < i THEN Before(best[n], rs[i]) ELSE best[n] = rs[i]
      <3>1. n + 1 \in 1 .. L /\ n <= L /\ (n + 1) - 1 = n
        BY <1>1
      <3> QED
        BY <1>7, <1>9, <3>1 DEF L
    <2>2. CASE n + 1 < i
      <3>1. n < i /\ n + 1 # i
        BY <1>1, <2>2
      <3> QED
        BY <2>1, <2>2, <3>1, BetterKeeps
    <2>3. CASE n + 1 = i
      <3>1. n < i /\ ~(n + 1 < i)
        BY <1>1, <2>3
      <3> QED
        BY <2>1, <2>3, <3>1, BetterKeeps
    <2>4. CASE n + 1 > i
      <3>1. ~(n < i) /\ ~(n + 1 < i)
        BY <1>1, <2>4
      <3> QED
        BY <2>1, <3>1, BetterKeeps
    <2> QED
      BY <1>1, <2>2, <2>3, <2>4
  <1>10. L \in N
    <2> HIDE DEF N
    <2> QED
      BY <1>1, <1>8, <1>9, Induction
  <1> QED
    BY <1>1, <1>2, <1>10

SocketsInv ==
    /\ sockets \in Nat /\ has \in Nat /\ lost \in Nat /\ asks \in Nat
    /\ sockets = has + lost + (IF asks > 0 THEN 1 ELSE 0)
    /\ routes # <<>> => routes \in Routes /\ device = FindSAddr(routes)

LEMMA FailsInv ==
    ASSUME SocketsInv, NEW op \in DOMAIN Calls, NEW i \in DOMAIN Calls[op], Fails(op, i)
    PROVE  SocketsInv'
  <1>1. i \in Nat
    <2>1. op \in {"tcp_connect", "tcp_bind", "tcp_listen", "udp_connect", "udp_bind",
                   "unix_listen", "unix_connect"}
      BY DEF Calls
    <2>2. /\ Calls["tcp_connect"] = <<"setsockopt", "connect">>
          /\ Calls["tcp_bind"] = <<"setsockopt", "bind">>
          /\ Calls["tcp_listen"] = <<"setsockopt", "bind", "setsockopt", "listen">>
          /\ Calls["udp_connect"] = <<"connect">>
          /\ Calls["udp_bind"] = <<"setsockopt", "bind", "setsockopt">>
          /\ Calls["unix_listen"] = <<"bind", "listen">>
          /\ Calls["unix_connect"] = <<"connect">>
      BY DEF Calls
    <2>3. DOMAIN Calls[op] \subseteq Nat
      BY <2>1, <2>2
    <2> QED
      BY <2>3
  <1>2. ClosesOnFailure(op, i) <=> ~(op = "tcp_listen" /\ i > 2)
    BY <1>1 DEF ClosesOnFailure
  <1>3. /\ sockets' = IF ClosesOnFailure(op, i) THEN sockets ELSE sockets + 1
        /\ lost' = IF ClosesOnFailure(op, i) THEN lost ELSE lost + 1
        /\ has' = has /\ asks' = asks /\ routes' = routes /\ device' = device
    BY <1>2 DEF Fails
  <1> QED
    BY <1>3 DEF SocketsInv

THEOREM SocketsInvariance == SocketsSpec => []SocketsInv
  <1>1. SocketsInit => SocketsInv
    BY DEF SocketsInit, SocketsInv
  <1>2. SocketsInv /\ [SocketsNext]_socketsVars => SocketsInv'
    <2> SUFFICES ASSUME SocketsInv, [SocketsNext]_socketsVars
                 PROVE  SocketsInv'
      OBVIOUS
    <2>1. CASE Opens
      BY <2>1 DEF SocketsInv, Opens
    <2>2. CASE ProgramCloses
      BY <2>2 DEF SocketsInv, ProgramCloses
    <2>3. CASE Ask
      BY <2>3 DEF SocketsInv, Ask
    <2>4. CASE AskAgain
      BY <2>4 DEF SocketsInv, AskAgain
    <2>5. ASSUME NEW rs \in Routes, Select(rs)
          PROVE  SocketsInv'
      BY <2>5 DEF SocketsInv, Select
    <2>6. CASE UNCHANGED socketsVars
      BY <2>6 DEF SocketsInv, socketsVars
    <2> QED
      BY <2>1, <2>2, <2>3, <2>4, <2>5, <2>6, FailsInv DEF SocketsNext
  <1> QED
    BY <1>1, <1>2, PTL DEF SocketsSpec

\* net.c: the sockets that stay are the program's, the one that asks for the
\* gateway, and those tcp_listen lost; and the interface by which a network is
\* reached without a gateway is found in every table of routes, of any length.
THEOREM RoutesAreFound == SocketsSpec => []RoutesFound
  <1>1. SocketsInv => RoutesFound
    <2> SUFFICES ASSUME SocketsInv
                 PROVE  RoutesFound
      OBVIOUS
    <2>1. sockets = has + lost + IF asks > 0 THEN 1 ELSE 0
      BY DEF SocketsInv
    <2>2. ASSUME NEW i \in DOMAIN routes, routes[i].fits, routes[i].gw = 0,
                 \A j \in DOMAIN routes \ {i} : routes[j].fits =>
                     routes[j].gw > 0 /\ routes[j].mask < routes[i].mask
          PROVE  device = routes[i].dev
      <3>1. CASE routes = <<>>
        BY <2>2, <3>1
      <3>2. CASE routes # <<>>
        <4>1. routes \in Seq(Route) /\ device = FindSAddr(routes)
          BY <3>2, RoutesAssumption DEF SocketsInv
        <4>2. DOMAIN routes = 1 .. Len(routes)
          BY <4>1
        <4>3. Direct(routes, i)
          BY <2>2, <4>2 DEF Direct
        <4> QED
          BY <4>1, <4>3, FindSAddrIs
      <3> QED
        BY <3>1, <3>2
    <2> QED
      BY <2>1, <2>2 DEF RoutesFound
  <1> QED
    BY <1>1, SocketsInvariance, PTL

\* socks.c, net.c: the sockets that utils makes are returned, closed or lost
\* where it is said, and no socket is returned without the proxy's word.
THEOREM SocketsAreKept == SocksSpec /\ SocketsSpec => []SocketsKept
  <1>1. GrantsHeard /\ RoutesFound => SocketsKept
    BY DEF SocketsKept
  <1> QED
    BY <1>1, GrantsAreHeard, RoutesAreFound, PTL

-----------------------------------------------------------------------------
(* Observers.                                                              *)

\* An emission that stands on p has called the slots of l up to p, c.
Emission(l, c, p) ==
    /\ Distinct(c)
    /\ \E r \in 1 .. Len(l) : l[r] = p /\ \A i \in 1 .. Len(l) : l[i] \in Members(c) <=> i <= r

ObserverInv ==
    /\ owner \in [Objects -> Objects \cup {NoObject}]
    /\ holder \in [Slots -> Objects \cup {NoObject}]
    /\ signal \in [Objects -> Seq(Slots)]
    /\ \A o \in Objects : /\ \A i \in 1 .. Len(signal[o]) : holder[signal[o][i]] # NoObject
                          /\ Distinct(signal[o])
                          /\ owner[o] = NoObject => signal[o] = <<>>
    /\ called \in Seq(Slots) /\ left \in BOOLEAN
    /\ emitting \in Objects \cup {NoObject}
    /\ emitting = NoObject => called = <<>>
    /\ emitting # NoObject /\ ~left =>
           owner[emitting] # NoObject /\ Emission(signal[emitting], called, pos)

LEMMA EmissionOnly ==
    ASSUME NEW l \in Seq(Slots), Distinct(l), NEW c, NEW p, Emission(l, c, p), NEW S, p \in S
    PROVE  Emission(Only(l, S), c, p)
  <1> DEFINE q == Only(l, S)
  <1>1. /\ q \in Seq(Slots) /\ Members(q) = Members(l) \cap S
        /\ \A h, k \in 1 .. Len(q) : h < k =>
               \E i, j \in 1 .. Len(l) : i < j /\ q[h] = l[i] /\ q[k] = l[j]
    BY OnlyKeeps
  <1> HIDE DEF q
  <1>2. PICK r \in 1 .. Len(l) : l[r] = p /\ \A i \in 1 .. Len(l) : l[i] \in Members(c) <=> i <= r
    BY DEF Emission
  <1>3. PICK t \in 1 .. Len(q) : q[t] = p
    BY <1>1, <1>2 DEF Members
  <1>4. \A i, j \in 1 .. Len(l) : l[i] = l[j] => i = j
    <2>1. \A i, j \in 1 .. Len(l) : i = j \/ i < j \/ j < i
      OBVIOUS
    <2> QED
      BY <2>1 DEF Distinct
  <1>5. ASSUME NEW k \in 1 .. Len(q)
        PROVE  q[k] \in Members(c) <=> k <= t
    <2>1. Len(q) \in Nat /\ Len(l) \in Nat
      BY <1>1
    <2>2. CASE k = t
      BY <1>2, <1>3, <2>1, <2>2
    <2>3. CASE k < t
      <3>1. PICK i, j \in 1 .. Len(l) : i < j /\ q[k] = l[i] /\ q[t] = l[j]
        BY <1>1, <2>3
      <3>2. j = r /\ i <= r
        BY <1>2, <1>3, <1>4, <2>1, <3>1
      <3> QED
        BY <1>2, <2>1, <2>3, <3>1, <3>2
    <2>4. CASE t < k
      <3>1. PICK i, j \in 1 .. Len(l) : i < j /\ q[t] = l[i] /\ q[k] = l[j]
        BY <1>1, <2>4
      <3>2. i = r /\ ~(j <= r)
        BY <1>2, <1>3, <1>4, <2>1, <3>1
      <3> QED
        BY <1>2, <2>1, <2>4, <3>1, <3>2
    <2> QED
      BY <2>1, <2>2, <2>3, <2>4
  <1>6. Distinct(c)
    BY DEF Emission
  <1>7. Emission(q, c, p)
    BY <1>3, <1>5, <1>6 DEF Emission
  <1> QED
    BY <1>7 DEF q

\* Slots gone leave all signals, and with them the objects none else observed.
LEMMA DisconnectedInv ==
    ASSUME ObserverInv, ~left, NEW gone, Disconnected(gone), UNCHANGED <<emitting, pos, called>>,
           owner' \in [Objects -> Objects \cup {NoObject}],
           holder' \in [Slots -> Objects \cup {NoObject}],
           \A s \in Slots \ gone : holder'[s] = holder[s],
           \A o \in Objects : owner'[o] = owner[o] \/ Members(signal[o]) \subseteq gone
    PROVE  ObserverInv'
  <1>1. /\ signal \in [Objects -> Seq(Slots)] /\ called \in Seq(Slots)
        /\ emitting \in Objects \cup {NoObject}
        /\ \A o \in Objects : Distinct(signal[o]) /\ (owner[o] = NoObject => signal[o] = <<>>)
    BY DEF ObserverInv
  <1>2. /\ \A o \in Objects : signal'[o] = Only(signal[o], Slots \ gone)
        /\ signal' = [o \in Objects |-> Only(signal[o], Slots \ gone)]
    BY DEF Disconnected
  <1>3. \A o \in Objects : /\ signal'[o] \in Seq(Slots) /\ Distinct(signal'[o])
                           /\ Members(signal'[o]) = Members(signal[o]) \ gone
    <2> SUFFICES ASSUME NEW o \in Objects
                 PROVE  /\ signal'[o] \in Seq(Slots) /\ Distinct(signal'[o])
                        /\ Members(signal'[o]) = Members(signal[o]) \ gone
      OBVIOUS
    <2>1. signal[o] \in Seq(Slots) /\ Distinct(signal[o])
      BY <1>1
    <2>2. /\ signal'[o] \in Seq(Slots) /\ Distinct(signal'[o])
          /\ Members(signal'[o]) = Members(signal[o]) \cap (Slots \ gone)
      BY <1>2, <2>1, OnlyKeeps
    <2>3. Members(signal[o]) \subseteq Slots
      BY <2>1 DEF Members
    <2> QED
      BY <2>2, <2>3
  <1>4. signal' \in [Objects -> Seq(Slots)]
    BY <1>2, <1>3
  <1>5. ASSUME NEW o \in Objects, NEW i \in 1 .. Len(signal'[o])
        PROVE  holder'[signal'[o][i]] # NoObject
    <2>1. signal'[o][i] \in Members(signal[o]) \ gone
      <3>1. signal'[o][i] \in Members(signal'[o])
        BY <1>5 DEF Members
      <3>2. Members(signal'[o]) = Members(signal[o]) \ gone
        BY <1>3, <1>5
      <3> QED
        BY <3>1, <3>2
    <2>2. holder[signal'[o][i]] # NoObject /\ signal'[o][i] \in Slots
      BY <1>1, <2>1 DEF ObserverInv, Members
    <2> QED
      BY <2>1, <2>2
  <1>6. ASSUME NEW o \in Objects, owner'[o] = NoObject
        PROVE  signal'[o] = <<>>
    <2>1. Members(signal[o]) \subseteq gone
      <3>1. CASE owner[o] = NoObject
        <4>1. signal[o] = <<>>
          BY <1>1, <3>1
        <4> QED
          BY <4>1 DEF Members
      <3>2. CASE owner[o] # NoObject
        BY <1>6, <3>2
      <3> QED
        BY <3>1, <3>2
    <2>2. Members(signal'[o]) = {} /\ signal'[o] \in Seq(Slots)
      BY <1>3, <2>1
    <2> QED
      BY <2>2, NoMembers
  <1>7. left' \in BOOLEAN /\ (left' <=> emitting # NoObject /\ pos \in gone)
    BY DEF Disconnected
  <1>8. ASSUME emitting # NoObject, ~left'
        PROVE  owner'[emitting] # NoObject /\ Emission(signal'[emitting], called, pos)
    <2>1. owner[emitting] # NoObject /\ Emission(signal[emitting], called, pos) /\ pos \notin gone
      BY <1>7, <1>8 DEF ObserverInv
    <2>2. emitting \in Objects /\ signal[emitting] \in Seq(Slots) /\ Distinct(signal[emitting])
      BY <1>1, <1>8
    <2>3. pos \in Members(signal[emitting]) /\ pos \in Slots \ gone
      BY <2>1, <2>2 DEF Emission, Members
    <2>4. owner'[emitting] # NoObject
      BY <2>1, <2>2, <2>3
    <2>5. Emission(signal'[emitting], called, pos)
      BY <1>2, <2>1, <2>2, <2>3, EmissionOnly
    <2> QED
      BY <2>4, <2>5
  <1>9. emitting = NoObject => called = <<>>
    BY DEF ObserverInv
  <1> QED
    BY <1>1, <1>3, <1>4, <1>5, <1>6, <1>7, <1>8, <1>9 DEF ObserverInv

LEMMA DisconnectInv == ASSUME ObserverInv, ~left, NEW s \in Slots, Disconnect(s) PROVE ObserverInv'
  <1>1. Disconnected({s}) /\ UNCHANGED <<owner, holder, emitting, pos, called>>
    BY DEF Disconnect
  <1>2. /\ owner' \in [Objects -> Objects \cup {NoObject}]
        /\ holder' \in [Slots -> Objects \cup {NoObject}]
    BY <1>1 DEF ObserverInv
  <1> QED
    BY <1>1, <1>2, DisconnectedInv

LEMMA ReleaseInv ==
    ASSUME ObserverInv, ~left, NEW o \in Objects, ReleaseObject(o)
    PROVE  ObserverInv'
  <1> DEFINE F == Family(o)
             gone == HeldBy(F) \cup UNION {ToSet(signal[p]) : p \in F}
  <1>1. /\ owner' = [p \in Objects |-> IF p \in F THEN NoObject ELSE owner[p]]
        /\ holder' = [s \in Slots |-> IF holder[s] \in F THEN NoObject ELSE holder[s]]
        /\ Disconnected(gone) /\ UNCHANGED <<emitting, pos, called>>
    BY DEF ReleaseObject, Dies
  <1> HIDE DEF F
  <1>2. /\ owner \in [Objects -> Objects \cup {NoObject}]
        /\ holder \in [Slots -> Objects \cup {NoObject}] /\ signal \in [Objects -> Seq(Slots)]
    BY DEF ObserverInv
  <1>3. /\ owner' \in [Objects -> Objects \cup {NoObject}]
        /\ holder' \in [Slots -> Objects \cup {NoObject}]
    BY <1>1, <1>2
  <1>4. \A s \in Slots \ gone : holder'[s] = holder[s]
    BY <1>1 DEF HeldBy
  <1>5. \A p \in Objects : owner'[p] = owner[p] \/ Members(signal[p]) \subseteq gone
    <2> SUFFICES ASSUME NEW p \in Objects, p \in F
                 PROVE  Members(signal[p]) \subseteq gone
      BY <1>1
    <2>1. Members(signal[p]) = ToSet(signal[p])
      <3>1. signal[p] \in Seq(Slots)
        BY <1>2
      <3> QED
        BY <3>1, MembersAre
    <2> QED
      BY <2>1
  <1> HIDE DEF gone
  <1> QED
    BY <1>1, <1>3, <1>4, <1>5, DisconnectedInv

LEMMA NewInv ==
    ASSUME ObserverInv, NEW o \in Objects, NEW p \in Objects, New(o, p)
    PROVE  ObserverInv'
  <1>1. /\ owner' = [owner EXCEPT ![o] = p]
        /\ UNCHANGED <<holder, signal, emitting, pos, called, left>>
    BY DEF New
  <1>2. /\ owner' \in [Objects -> Objects \cup {NoObject}]
        /\ \A x \in Objects : owner'[x] = NoObject => owner[x] = NoObject
    BY <1>1, NoObjectAssumption DEF ObserverInv
  <1> QED
    BY <1>1, <1>2 DEF ObserverInv

LEMMA ConnectInv ==
    ASSUME ObserverInv, NEW o \in Objects, NEW s \in Slots, NEW by \in Objects, Connect(o, s, by)
    PROVE  ObserverInv'
  <1>1. /\ holder[s] = NoObject /\ holder' = [holder EXCEPT ![s] = by] /\ by # NoObject
        /\ owner[o] # NoObject
        /\ signal' = [signal EXCEPT ![o] = Append(signal[o], s)]
        /\ called' = Only(called, Slots \ {s})
        /\ UNCHANGED <<owner, emitting, pos, left>>
    BY NoObjectAssumption DEF Connect, free, existing
  <1>2. /\ holder \in [Slots -> Objects \cup {NoObject}] /\ signal \in [Objects -> Seq(Slots)]
        /\ called \in Seq(Slots)
        /\ \A x \in Objects : /\ \A i \in 1 .. Len(signal[x]) : holder[signal[x][i]] # NoObject
                              /\ Distinct(signal[x])
    BY DEF ObserverInv
  <1>3. /\ holder' \in [Slots -> Objects \cup {NoObject}]
        /\ \A x \in Slots : holder'[x] = IF x = s THEN by ELSE holder[x]
    BY <1>1, <1>2
  <1>4. /\ signal' \in [Objects -> Seq(Slots)]
        /\ \A x \in Objects : signal'[x] = IF x = o THEN Append(signal[o], s) ELSE signal[x]
    BY <1>1, <1>2
  <1>5. /\ called' \in Seq(Slots) /\ Members(called') = Members(called) \cap (Slots \ {s})
        /\ Distinct(called) => Distinct(called')
    BY <1>1, <1>2, OnlyKeeps
  <1>6. ASSUME NEW x \in Objects
        PROVE  \A i \in 1 .. Len(signal[x]) : signal[x][i] \in Slots \ {s}
    BY <1>1, <1>2
  <1>7. LET l == signal[o]
            t == Append(signal[o], s)
        IN  /\ Len(t) = Len(l) + 1 /\ t[Len(l) + 1] = s /\ Len(l) \in Nat
            /\ \A i \in 1 .. Len(l) : t[i] = l[i]
    BY <1>2
  <1>8. ASSUME NEW x \in Objects
        PROVE  /\ \A i \in 1 .. Len(signal'[x]) : holder'[signal'[x][i]] # NoObject
               /\ Distinct(signal'[x])
    <2>1. CASE x # o
      BY <1>1, <1>2, <1>3, <1>4, <1>6, <2>1
    <2>2. CASE x = o
      <3>1. \A i \in 1 .. Len(signal[o]) + 1 : i \in 1 .. Len(signal[o]) \/ i = Len(signal[o]) + 1
        BY <1>7
      <3>2. signal'[x] = Append(signal[o], s)
        BY <1>4, <2>2
      <3>3. \A i \in 1 .. Len(signal'[x]) : holder'[signal'[x][i]] # NoObject
        BY <1>1, <1>2, <1>3, <1>6, <1>7, <3>1, <3>2
      <3>4. \A i, j \in 1 .. Len(signal[o]) + 1 : i < j => i \in 1 .. Len(signal[o])
        BY <1>7
      <3>5. Distinct(signal'[x])
        BY <1>2, <1>6, <1>7, <3>1, <3>2, <3>4 DEF Distinct
      <3> QED
        BY <3>3, <3>5
    <2> QED
      BY <2>1, <2>2
  <1>9. emitting = NoObject => called' = <<>>
    <2> SUFFICES ASSUME called = <<>>
                 PROVE  called' = <<>>
      BY DEF ObserverInv
    <2>1. Members(<<>>) = {}
      BY DEF Members
    <2>2. called' \in Seq(Slots) /\ Members(called') = {}
      BY <1>5, <2>1
    <2> QED
      BY <2>2, NoMembers
  <1>10. ASSUME emitting # NoObject, ~left
         PROVE  owner[emitting] # NoObject /\ Emission(signal'[emitting], called', pos)
    <2> DEFINE l == signal[emitting]
               t == signal'[emitting]
    <2>1. /\ emitting \in Objects /\ owner[emitting] # NoObject
          /\ Emission(l, called, pos) /\ l \in Seq(Slots)
      BY <1>2, <1>10 DEF ObserverInv
    <2>2. PICK r \in 1 .. Len(l) :
              l[r] = pos /\ \A i \in 1 .. Len(l) : l[i] \in Members(called) <=> i <= r
      BY <2>1 DEF Emission
    <2>3. \A i \in 1 .. Len(l) : l[i] \in Members(called') <=> i <= r
      BY <1>5, <1>6, <2>1, <2>2
    <2>4. Distinct(called')
      BY <1>5, <2>1 DEF Emission
    <2>5. CASE emitting # o
      <3>1. t = l
        BY <1>4, <2>1, <2>5
      <3> QED
        BY <2>1, <2>2, <2>3, <2>4, <3>1 DEF Emission
    <2>6. CASE emitting = o
      <3>1. /\ Len(t) = Len(l) + 1 /\ t[Len(l) + 1] = s /\ Len(l) \in Nat
            /\ \A i \in 1 .. Len(l) : t[i] = l[i]
        BY <1>4, <1>7, <2>1, <2>6
      <3> HIDE DEF t, l
      <3>2. r \in 1 .. Len(t) /\ t[r] = pos
        BY <2>2, <3>1
      <3>3. \A i \in 1 .. Len(t) : t[i] \in Members(called') <=> i <= r
        <4> TAKE i \in 1 .. Len(t)
        <4>1. CASE i = Len(l) + 1
          <5>1. ~(i <= r)
            BY <3>1, <4>1
          <5>2. s \notin Members(called')
            BY <1>5
          <5> QED
            BY <3>1, <4>1, <5>1, <5>2
        <4>2. CASE i # Len(l) + 1
          <5>1. i \in 1 .. Len(l)
            BY <3>1, <4>2
          <5> QED
            BY <2>3, <3>1, <5>1
        <4> QED
          BY <4>1, <4>2
      <3>4. Emission(t, called', pos)
        BY <2>4, <3>2, <3>3 DEF Emission
      <3> QED
        BY <2>1, <3>4 DEF t
    <2> QED
      BY <2>5, <2>6
  <1>11. \A x \in Objects : owner'[x] = NoObject => signal'[x] = <<>>
    BY <1>1, <1>4 DEF ObserverInv
  <1> QED
    BY <1>1, <1>3, <1>4, <1>5, <1>8, <1>9, <1>10, <1>11 DEF ObserverInv

LEMMA EmitInv == ASSUME ObserverInv, NEW o \in Objects, Emit(o) PROVE ObserverInv'
  <1> DEFINE l == signal[o]
  <1>1. /\ emitting = NoObject /\ l # <<>> /\ emitting' = o /\ pos' = l[1]
        /\ called' = Append(called, l[1]) /\ owner[o] # NoObject
        /\ UNCHANGED <<owner, holder, signal, left>>
    BY DEF Emit, Call, existing
  <1>2. called = <<>> /\ l \in Seq(Slots) /\ Distinct(l)
    BY <1>1 DEF ObserverInv
  <1>3. 1 \in 1 .. Len(l) /\ l[1] \in Slots /\ Len(l) \in Nat
    BY <1>1, <1>2
  <1> HIDE DEF l
  <1>4. Append(<<>>, l[1]) = <<l[1]>>
    OBVIOUS
  <1>5. called' = <<l[1]>>
    BY <1>1, <1>2, <1>4
  <1>6. called' \in Seq(Slots) /\ Len(called') = 1 /\ called'[1] = l[1]
    BY <1>3, <1>5
  <1>7. Members(called') = {l[1]} /\ Distinct(called')
    <2>1. \A i \in 1 .. 1 : i = 1
      OBVIOUS
    <2> QED
      BY <1>6, <2>1 DEF Members, Distinct
  <1>8. \A i \in 1 .. Len(l) : l[i] \in Members(called') <=> i <= 1
    <2>1. \A i \in 1 .. Len(l) : i = 1 \/ 1 < i
      BY <1>3
    <2> QED
      BY <1>2, <1>3, <1>7, <2>1 DEF Distinct
  <1>9. Emission(l, called', pos')
    BY <1>1, <1>3, <1>7, <1>8 DEF Emission
  <1> QED
    BY <1>1, <1>6, <1>9, NoObjectAssumption DEF ObserverInv, l

LEMMA EmitNextInv == ASSUME ObserverInv, EmitNext PROVE ObserverInv'
  <1> DEFINE l == signal[emitting]
             k == CHOOSE j \in DOMAIN l : l[j] = pos
             x == l[k + 1]
  <1>1. /\ emitting # NoObject /\ ~left
        /\ IF k < Len(l) THEN Call(x) /\ UNCHANGED emitting
           ELSE /\ emitting' = NoObject /\ pos' = 0 /\ called' = <<>>
                /\ UNCHANGED <<owner, holder, signal, left>>
    BY DEF EmitNext
  <1>2. /\ emitting \in Objects /\ owner[emitting] # NoObject /\ Emission(l, called, pos)
        /\ l \in Seq(Slots) /\ Distinct(l) /\ called \in Seq(Slots)
    BY <1>1 DEF ObserverInv
  <1>3. PICK r \in 1 .. Len(l) :
            l[r] = pos /\ \A i \in 1 .. Len(l) : l[i] \in Members(called) <=> i <= r
    BY <1>2 DEF Emission
  <1>4. DOMAIN l = 1 .. Len(l) /\ Len(l) \in Nat
    BY <1>2
  <1>5. k = r
    <2>1. k \in 1 .. Len(l) /\ l[k] = pos
      BY <1>3, <1>4
    <2> HIDE DEF k, l
    <2>2. k = r \/ k < r \/ r < k
      BY <1>4, <2>1
    <2> QED
      BY <1>2, <1>3, <2>1, <2>2 DEF Distinct
  <1> HIDE DEF k, l
  <1>6. CASE k < Len(l)
    <2>1. k + 1 \in 1 .. Len(l) /\ x \in Slots /\ ~(k + 1 <= r)
      BY <1>2, <1>3, <1>4, <1>5, <1>6
    <2> HIDE DEF x
    <2>2. /\ pos' = x /\ called' = Append(called, x)
          /\ UNCHANGED <<owner, holder, signal, left, emitting>>
      BY <1>1, <1>6 DEF Call
    <2>3. /\ called' \in Seq(Slots) /\ Len(called') = Len(called) + 1 /\ Len(called) \in Nat
          /\ called'[Len(called) + 1] = x /\ \A i \in 1 .. Len(called) : called'[i] = called[i]
      BY <1>2, <2>1, <2>2
    <2>4. \A i \in 1 .. Len(called) + 1 : i \in 1 .. Len(called) \/ i = Len(called) + 1
      BY <2>3
    <2>5. Members(called') = Members(called) \cup {x}
      <3>1. 1 .. Len(called) + 1 = (1 .. Len(called)) \cup {Len(called) + 1}
        BY <2>3
      <3> QED
        BY <2>3, <3>1 DEF Members
    <2>6. x \notin Members(called)
      BY <1>3, <2>1 DEF x
    <2>7. Distinct(called')
      <3>1. Distinct(called)
        BY <1>2 DEF Emission
      <3>2. \A i, j \in 1 .. Len(called) + 1 : i < j => i \in 1 .. Len(called)
        BY <2>3
      <3> QED
        BY <2>3, <2>4, <2>6, <3>1, <3>2 DEF Distinct, Members
    <2>8. ASSUME NEW i \in 1 .. Len(l)
          PROVE  l[i] \in Members(called') <=> i <= k + 1
      <3>1. CASE i = k + 1
        BY <2>5, <3>1 DEF x
      <3>2. CASE i # k + 1
        <4>1. l[i] # x
          <5>1. i < k + 1 \/ k + 1 < i
            BY <1>4, <2>1, <3>2
          <5> QED
            BY <1>2, <2>1, <5>1 DEF Distinct, x
        <4>2. i <= k + 1 <=> i <= r
          BY <1>4, <1>5, <3>2
        <4> QED
          BY <1>3, <2>5, <4>1, <4>2
      <3> QED
        BY <3>1, <3>2
    <2>9. Emission(l, called', pos')
      BY <2>1, <2>2, <2>7, <2>8 DEF Emission, x
    <2>10. signal'[emitting'] = l
      BY <2>2 DEF l
    <2>11. /\ emitting' = NoObject => called' = <<>>
           /\ owner'[emitting'] # NoObject /\ Emission(signal'[emitting'], called', pos')
      BY <1>1, <1>2, <2>2, <2>9, <2>10
    <2> QED
      BY <2>2, <2>3, <2>11 DEF ObserverInv
  <1>7. CASE ~(k < Len(l))
    <2>1. /\ emitting' = NoObject /\ called' = <<>> /\ UNCHANGED <<owner, holder, signal, left>>
      BY <1>1, <1>7
    <2>2. <<>> \in Seq(Slots)
      OBVIOUS
    <2> QED
      BY <2>1, <2>2 DEF ObserverInv
  <1> QED
    BY <1>6, <1>7

THEOREM ObserverInvariance == ObserverSpec => []ObserverInv
  <1>1. ObserverInit => ObserverInv
    <2> SUFFICES ASSUME ObserverInit
                 PROVE  ObserverInv
      OBVIOUS
    <2>1. /\ owner = [o \in Objects |-> NoObject] /\ holder = [s \in Slots |-> NoObject]
          /\ signal = [o \in Objects |-> <<>>] /\ emitting = NoObject /\ called = <<>>
          /\ left \in BOOLEAN
      BY DEF ObserverInit
    <2>2. <<>> \in Seq(Slots) /\ Len(<<>>) = 0 /\ 1 .. 0 = {}
      OBVIOUS
    <2> QED
      BY <2>1, <2>2 DEF ObserverInv, Distinct
  <1>2. ObserverInv /\ [ObserverNext]_observerVars => ObserverInv'
    <2> SUFFICES ASSUME ObserverInv, [ObserverNext]_observerVars
                 PROVE  ObserverInv'
      OBVIOUS
    <2>1. CASE UNCHANGED observerVars
      BY <2>1 DEF observerVars, ObserverInv
    <2> QED
      BY <2>1, DisconnectInv, ReleaseInv, NewInv, ConnectInv, EmitInv, EmitNextInv DEF ObserverNext
  <1> QED
    BY <1>1, <1>2, PTL DEF ObserverSpec

\* cobject.c, observer.c: no signal has a slot of an object that is gone, and
\* an emission that has not lost its place has called the slots up to that
\* place, each once, and none behind it, whatever its callbacks did.
THEOREM SlotsAreCalled == ObserverSpec => []SlotsCalled
  <1>1. ObserverInv => SlotsCalled
    <2> SUFFICES ASSUME ObserverInv
                 PROVE  SlotsCalled
      OBVIOUS
    <2>1. ASSUME NEW o \in Objects
          PROVE  /\ ToSet(signal[o]) \cap free = {} /\ IsInjective(signal[o])
                 /\ o \notin existing => signal[o] = <<>>
      <3>1. /\ signal[o] \in Seq(Slots) /\ DOMAIN signal[o] = 1 .. Len(signal[o])
            /\ \A i \in 1 .. Len(signal[o]) : holder[signal[o][i]] # NoObject
            /\ Distinct(signal[o]) /\ (owner[o] = NoObject => signal[o] = <<>>)
        BY DEF ObserverInv
      <3>2. \A i, j \in 1 .. Len(signal[o]) : i = j \/ i < j \/ j < i
        BY <3>1
      <3>3. IsInjective(signal[o])
        BY <3>1, <3>2 DEF IsInjective, Distinct
      <3> QED
        BY <3>1, <3>3 DEF ToSet, free, existing
    <2> DEFINE l == signal[emitting]
               P == {i \in DOMAIN l : l[i] = pos}
               CalledAt(i) == {k \in DOMAIN called : called[k] = l[i]}
    <2>2. ASSUME emitting # NoObject, ~left
          PROVE  /\ P # {} /\ emitting \in existing
                 /\ \A i \in DOMAIN l : Cardinality(CalledAt(i)) = IF i <= Max(P) THEN 1 ELSE 0
      <3>1. /\ emitting \in Objects /\ owner[emitting] # NoObject /\ Emission(l, called, pos)
            /\ l \in Seq(Slots) /\ Distinct(l) /\ called \in Seq(Slots)
        BY <2>2 DEF ObserverInv
      <3>2. PICK r \in 1 .. Len(l) :
                l[r] = pos /\ \A i \in 1 .. Len(l) : l[i] \in Members(called) <=> i <= r
        BY <3>1 DEF Emission
      <3>3. DOMAIN l = 1 .. Len(l) /\ DOMAIN called = 1 .. Len(called)
        BY <3>1
      <3> HIDE DEF l
      <3>4. P = {r}
        <4>1. \A i \in 1 .. Len(l) : i = r \/ i < r \/ r < i
          BY <3>1
        <4> QED
          BY <3>1, <3>2, <3>3, <4>1 DEF Distinct
      <3>5. Max(P) = r
        BY <3>4 DEF Max
      <3>6. ASSUME NEW i \in 1 .. Len(l)
            PROVE  Cardinality(CalledAt(i)) = IF i <= r THEN 1 ELSE 0
        <4>1. CASE i <= r
          <5>1. PICK m \in 1 .. Len(called) : called[m] = l[i]
            BY <3>2, <4>1 DEF Members
          <5>2. \A n \in 1 .. Len(called) : n = m \/ n < m \/ m < n
            BY <3>1
          <5>3. CalledAt(i) = {m}
            BY <3>1, <3>3, <5>1, <5>2 DEF Emission, Distinct
          <5> HIDE DEF CalledAt
          <5> QED
            BY <4>1, <5>3, FS_Singleton
        <4>2. CASE ~(i <= r)
          <5>1. CalledAt(i) = {}
            BY <3>2, <3>3, <4>2 DEF Members
          <5> HIDE DEF CalledAt
          <5> QED
            BY <4>2, <5>1, FS_EmptySet
        <4> QED
          BY <4>1, <4>2
      <3> QED
        BY <3>1, <3>3, <3>4, <3>5, <3>6 DEF existing
    <2> QED
      BY <2>1, <2>2 DEF SlotsCalled
  <1> QED
    BY <1>1, ObserverInvariance, PTL

-----------------------------------------------------------------------------
(* Ports.                                                                  *)

\* The port q is behind p and before g, where the first port of the range
\* follows the last.
Within(p, q, g) == IF p < g THEN p < q /\ q < g ELSE p < q \/ q < g

Turn == range[1] .. range[2]

PortsInv ==
    /\ range[1] \in Nat /\ range[2] \in Nat /\ 0 < range[1] /\ range[1] < range[2]
    /\ range[2] < 2^Bits - 1 =>
           /\ held \subseteq Turn /\ getPort \in Turn
           /\ \A p, q \in Turn : Within(p, q, getPort) => q \in between[p]

\* A port asked for is the next one to be before the turn.
LEMMA AfterIs ==
    ASSUME PortsInv, range[2] < 2^Bits - 1, NEW g \in Turn
    PROVE  /\ After(g) \in Turn
           /\ \A p, q \in Turn : Within(p, q, After(g)) => p # g /\ (q = g \/ Within(p, q, g))
  <1> DEFINE a == range[1]
             b == range[2]
             W == 2^Bits
  <1>1. /\ a \in Nat /\ b \in Nat /\ 0 < a /\ a < b /\ W \in Nat /\ b < W - 1
        /\ g \in Nat /\ a <= g /\ g <= b
    BY PortsAssumption DEF PortsInv, Turn
  <1>2. After(g) = IF (g + 1) % W > b THEN a ELSE (g + 1) % W
    BY DEF After
  <1>3. Turn = a .. b
    BY DEF Turn
  <1> HIDE DEF a, b, W
  <1>4. (g + 1) % W = g + 1
    BY <1>1
  <1>5. After(g) = IF g = b THEN a ELSE g + 1
    BY <1>1, <1>2, <1>4
  <1> HIDE DEF After
  <1>6. After(g) \in Turn
    BY <1>1, <1>3, <1>5
  <1>7. ASSUME NEW p \in Turn, NEW q \in Turn, Within(p, q, After(g))
        PROVE  p # g /\ (q = g \/ Within(p, q, g))
    <2>1. p \in Nat /\ q \in Nat /\ a <= p /\ p <= b /\ a <= q /\ q <= b
      BY <1>1, <1>3
    <2>2. IF p < After(g) THEN p < q /\ q < After(g) ELSE p < q \/ q < After(g)
      BY <1>7 DEF Within
    <2>3. CASE g = b
      <3>1. After(g) = a
        BY <1>5, <2>3
      <3> QED
        BY <1>1, <2>1, <2>2, <2>3, <3>1 DEF Within
    <2>4. CASE g # b
      <3>1. After(g) = g + 1
        BY <1>5, <2>4
      <3> QED
        BY <1>1, <2>1, <2>2, <3>1 DEF Within
    <2> QED
      BY <2>3, <2>4
  <1> QED
    BY <1>6, <1>7

\* What radmsrv_new_client asks for, one after the other.
Asks(f) == f = [j \in 1 .. Tries |-> IF j = 1 THEN getPort ELSE After(f[j - 1])]

LEMMA AsksExist == ASSUME PortsInv, range[2] < 2^Bits - 1 PROVE \E f : Asks(f)
  <1> DEFINE g == [i \in 1 .. Tries |-> [x \in Turn |-> After(x)]]
  <1>1. Tries \in Nat /\ getPort \in Turn
    BY PortsAssumption DEF PortsInv
  <1>2. \A i \in 1 .. Tries : \A x \in Turn : g[i][x] = After(x) /\ g[i][x] \in Turn
    BY AfterIs
  <1> HIDE DEF g
  <1>3. Steps(g, Tries, Turn)
    BY <1>2 DEF Steps
  <1>4. PICK h : Runs(h, Tries, Turn, getPort, g)
    BY <1>1, <1>3, Recursion
  <1>5. /\ h \in [0 .. Tries -> Turn] /\ h[0] = getPort
        /\ \A i \in 1 .. Tries : h[i] = g[i][h[i - 1]]
    BY <1>4 DEF Runs
  <1> DEFINE f == [j \in 1 .. Tries |-> h[j - 1]]
  <1>6. \A j \in 1 .. Tries : f[j] = IF j = 1 THEN getPort ELSE After(f[j - 1])
    <2>1. 1 - 1 = 0 /\ \A j \in 1 .. Tries : f[j] = h[j - 1]
      OBVIOUS
    <2> SUFFICES ASSUME NEW j \in 1 .. Tries, j # 1
                 PROVE  h[j - 1] = After(f[j - 1])
      BY <1>5, <2>1
    <2>2. j - 1 \in 1 .. Tries /\ (j - 1) - 1 \in 0 .. Tries
      BY <1>1
    <2>3. f[j - 1] = h[(j - 1) - 1]
      BY <2>2
    <2>4. h[j - 1] = g[j - 1][h[(j - 1) - 1]] /\ h[(j - 1) - 1] \in Turn
      BY <1>5, <2>2
    <2> QED
      BY <1>2, <2>2, <2>3, <2>4
  <1>7. Asks(f)
    BY <1>6 DEF Asks
  <1> QED
    BY <1>7

\* The history after n of the tries f.
Times(f, p, n) == {j \in 1 .. n : f[j] = p}

Since(f, p, n) == {f[j] : j \in {i \in 1 .. n : \A l \in Times(f, p, n) : i > l}}

Seen(f, p, n) ==
    IF Times(f, p, n) = {} THEN between[p] \cup Since(f, p, n) ELSE Since(f, p, n)

Upcoming(f, n) == IF n = 0 THEN getPort ELSE After(f[n])

LEMMA SeenGrows ==
    ASSUME NEW f, NEW p, NEW n \in Nat, f[n + 1] # p
    PROVE  Seen(f, p, n) \cup {f[n + 1]} \subseteq Seen(f, p, n + 1)
  <1>1. 1 .. n + 1 = (1 .. n) \cup {n + 1}
    OBVIOUS
  <1>2. Times(f, p, n + 1) = Times(f, p, n)
    BY <1>1 DEF Times
  <1>3. \A l \in Times(f, p, n) : n + 1 > l
    BY DEF Times
  <1>4. Since(f, p, n) \cup {f[n + 1]} \subseteq Since(f, p, n + 1)
    BY <1>1, <1>2, <1>3 DEF Since
  <1> QED
    BY <1>2, <1>4 DEF Seen

LEMMA TurnKept ==
    ASSUME PortsInv, range[2] < 2^Bits - 1, NEW f, Asks(f), NEW m \in 1 .. Tries
    PROVE  /\ f[m] \in Turn
           /\ \A p, q \in Turn : Within(p, q, After(f[m])) => q \in Seen(f, p, m)
  <1> DEFINE Kept(n) == \A p, q \in Turn : Within(p, q, Upcoming(f, n)) => q \in Seen(f, p, n)
             N == {n \in Nat : n <= Tries => Upcoming(f, n) \in Turn /\ Kept(n)
                                             /\ (n # 0 => f[n] \in Turn)}
  <1>1. Tries \in Nat /\ getPort \in Turn
        /\ \A p, q \in Turn : Within(p, q, getPort) => q \in between[p]
    BY PortsAssumption DEF PortsInv
  <1>2. \A j \in 1 .. Tries : f[j] = IF j = 1 THEN getPort ELSE After(f[j - 1])
    BY DEF Asks
  <1>3. 0 \in N
    <2>1. \A p : Times(f, p, 0) = {}
      BY DEF Times
    <2>2. \A p : between[p] \subseteq Seen(f, p, 0)
      BY <2>1 DEF Seen
    <2>3. Upcoming(f, 0) = getPort
      BY DEF Upcoming
    <2> QED
      BY <1>1, <2>2, <2>3
  <1>4. ASSUME NEW n \in Nat, n \in N
        PROVE  n + 1 \in N
    <2> SUFFICES ASSUME n + 1 <= Tries
                 PROVE  Upcoming(f, n + 1) \in Turn /\ Kept(n + 1) /\ f[n + 1] \in Turn
      OBVIOUS
    <2>1. n <= Tries /\ n + 1 \in 1 .. Tries /\ (n + 1) - 1 = n /\ (n + 1 = 1 <=> n = 0)
      BY <1>1
    <2>2. Upcoming(f, n) \in Turn /\ Kept(n)
      BY <1>4, <2>1
    <2>3. f[n + 1] = Upcoming(f, n)
      BY <1>2, <2>1 DEF Upcoming
    <2>4. Upcoming(f, n + 1) = After(f[n + 1])
      BY DEF Upcoming
    <2>5. f[n + 1] \in Turn
      BY <2>2, <2>3
    <2>6. ASSUME NEW p \in Turn, NEW q \in Turn, Within(p, q, Upcoming(f, n + 1))
          PROVE  q \in Seen(f, p, n + 1)
      <3>1. p # f[n + 1] /\ (q = f[n + 1] \/ Within(p, q, f[n + 1]))
        BY <2>4, <2>5, <2>6, AfterIs
      <3>2. q = f[n + 1] \/ q \in Seen(f, p, n)
        BY <2>2, <2>3, <3>1
      <3>3. Seen(f, p, n) \cup {f[n + 1]} \subseteq Seen(f, p, n + 1)
        BY <3>1, SeenGrows
      <3> QED
        BY <3>2, <3>3
    <2> QED
      BY <2>4, <2>5, <2>6, AfterIs
  <1>5. m \in N
    <2> HIDE DEF N
    <2> QED
      BY <1>3, <1>4, Induction
  <1>6. Upcoming(f, m) = After(f[m]) /\ m # 0 /\ m <= Tries
    BY <1>1 DEF Upcoming
  <1> QED
    BY <1>5, <1>6

LEMMA NewClientInv == ASSUME PortsInv, NEW k \in 0 .. Tries, NewClient(k) PROVE PortsInv'
  <1> DEFINE asked == CHOOSE f : Asks(f)
             last == IF k = Tries THEN k ELSE k + 1
             bound == IF k = Tries THEN {}
                      ELSE (IF asked[last] = 0 THEN Numbers \ {0} ELSE {asked[last]}) \ held
  <1>1. /\ IF k = Tries THEN UNCHANGED held ELSE \E p \in bound : held' = held \cup {p}
        /\ getPort' = After(asked[last]) /\ range' = range
        /\ between' = [p \in Numbers |-> Seen(asked, p, last)]
    BY DEF NewClient, Asks, Seen, Since, Times
  <1>2. /\ range[1] \in Nat /\ range[2] \in Nat /\ 0 < range[1] /\ range[1] < range[2]
        /\ Turn' = Turn
    BY <1>1 DEF PortsInv, Turn
  <1> SUFFICES ASSUME range[2] < 2^Bits - 1
               PROVE  /\ held' \subseteq Turn /\ getPort' \in Turn
                      /\ \A p, q \in Turn : Within(p, q, getPort') => q \in between'[p]
    BY <1>1, <1>2 DEF PortsInv
  <1>3. Asks(asked)
    BY AsksExist
  <1> HIDE DEF asked
  <1>4. last \in 1 .. Tries
    BY PortsAssumption
  <1>5. /\ asked[last] \in Turn
        /\ \A p, q \in Turn : Within(p, q, After(asked[last])) => q \in Seen(asked, p, last)
    BY <1>3, <1>4, TurnKept
  <1> HIDE DEF last
  <1>6. Turn \subseteq Numbers
    BY <1>2, PortsAssumption DEF Turn, Numbers
  <1>7. held' \subseteq Turn
    <2>1. asked[last] # 0
      BY <1>2, <1>5 DEF Turn
    <2>2. bound \subseteq {asked[last]}
      BY <2>1
    <2> HIDE DEF bound
    <2> QED
      BY <1>1, <1>5, <2>2 DEF PortsInv
  <1>8. getPort' \in Turn
    BY <1>1, <1>5, AfterIs
  <1> QED
    BY <1>1, <1>5, <1>6, <1>7, <1>8

THEOREM PortsInvariance == PortsSpec => []PortsInv
  <1>1. PortsInit => PortsInv
    <2> SUFFICES ASSUME PortsInit
                 PROVE  PortsInv
      OBVIOUS
    <2>1. /\ range \in Numbers \X Numbers /\ 0 < range[1] /\ range[1] < range[2]
          /\ getPort = range[1] /\ held = {} /\ between = [p \in Numbers |-> Numbers]
      BY DEF PortsInit
    <2>2. Numbers \subseteq Nat /\ range[1] \in Numbers /\ range[2] \in Numbers
      BY <2>1, PortsAssumption DEF Numbers
    <2>3. Turn \subseteq Numbers
      BY <2>1, <2>2, PortsAssumption DEF Turn, Numbers
    <2>4. getPort \in Turn
      <3>1. /\ getPort = range[1] /\ range[1] \in Nat /\ range[2] \in Nat
            /\ range[1] < range[2]
        BY <2>1, <2>2
      <3> HIDE DEF Numbers
      <3> QED
        BY <3>1 DEF Turn
    <2> QED
      BY <2>1, <2>2, <2>3, <2>4 DEF PortsInv
  <1>2. PortsInv /\ [PortsNext]_portVars => PortsInv'
    <2> SUFFICES ASSUME PortsInv, [PortsNext]_portVars
                 PROVE  PortsInv'
      OBVIOUS
    <2>1. ASSUME NEW p \in held, Frees(p)
          PROVE  PortsInv'
      BY <2>1 DEF PortsInv, Frees, Turn
    <2>2. CASE UNCHANGED portVars
      BY <2>2 DEF PortsInv, portVars, Turn
    <2> QED
      BY <2>1, <2>2, NewClientInv DEF PortsNext
  <1> QED
    BY <1>1, <1>2, PTL DEF PortsSpec

\* radm.c, radmsrv_alloc_addr: entries have ports of the range, and a port comes
\* up again only after all others of it, for a range of any size that does not
\* end with the last number, and however often bind fails.
THEOREM PortsAreInTurn == PortsSpec => []PortsInTurn
  <1>1. PortsInv => PortsInTurn
    <2> SUFFICES ASSUME PortsInv, range[2] < 2^Bits - 1
                 PROVE  /\ held \cup {getPort} \subseteq Turn
                        /\ Turn \ {getPort} \subseteq between[getPort]
      BY DEF PortsInTurn, Turn
    <2>1. ASSUME NEW q \in Turn, q # getPort
          PROVE  Within(getPort, q, getPort)
      <3>1. getPort \in Nat /\ q \in Nat
        BY <2>1 DEF PortsInv, Turn
      <3> QED
        BY <2>1, <3>1 DEF Within
    <2> QED
      BY <2>1 DEF PortsInv
  <1> QED
    BY <1>1, PortsInvariance, PTL

-----------------------------------------------------------------------------
(* Containers.                                                             *)

Contents == Items \cup DataOf(Names, Items) \cup {NoData}

Links == Iterators \cup {0}

\* The n-th of w, or NULL.
Nth(w, n) == IF n \in 1 .. Len(w) THEN w[n] ELSE 0

\* Those of w, each once, are linked from first to NULL.
Linked(first, next, w) ==
    /\ w \in Seq(Iterators) /\ Distinct(w)
    /\ first = Nth(w, 1) /\ \A i \in 1 .. Len(w) : next[w[i]] = Nth(w, i + 1)

LEMMA ShortIs ==
    ASSUME NEW w \in Seq(Iterators), Distinct(w)
    PROVE  Len(w) <= Cardinality(Iterators)
  <1> DEFINE L == Len(w)
  <1>1. L \in Nat /\ w \in [1 .. L -> Iterators]
    OBVIOUS
  <1>2. IsFiniteSet(1 .. L) /\ Cardinality(1 .. L) = L
    BY <1>1, FS_Interval
  <1>3. IsFiniteSet(Iterators) /\ Cardinality(Iterators) \in Nat
    BY IteratorsAssumption, FS_CardinalityType
  <1>4. \A i, j \in 1 .. L : i # j => w[i] # w[j]
    <2>1. \A i, j \in 1 .. L : i = j \/ i < j \/ j < i
      BY <1>1
    <2> QED
      BY <2>1 DEF Distinct
  <1>5. ~(Cardinality(Iterators) < L)
    <2> SUFFICES ASSUME Cardinality(Iterators) < Cardinality(1 .. L)
                 PROVE  FALSE
      BY <1>2
    <2> HIDE DEF L
    <2>1. \E x, y \in 1 .. L : x # y /\ w[x] = w[y]
      BY <1>1, <1>2, <1>3, FS_PigeonHole
    <2> QED
      BY <1>4, <2>1
  <1> QED
    BY <1>1, <1>3, <1>5

LEMMA WalkIs ==
    ASSUME NEW c, c.next \in [Iterators -> Links], NEW w, Linked(c.first, c.next, w)
    PROVE  Walk(c) = w
  <1> DEFINE N == Cardinality(Iterators)
             L == Len(w)
             Step(x) == IF x = 0 THEN 0 ELSE c.next[x]
             Loop(f) == f = [k \in 0 .. N |-> IF k = 0 THEN c.first ELSE Step(f[k - 1])]
             step == CHOOSE f : Loop(f)
  <1>1. Walk(c) = [k \in 1 .. Cardinality({j \in 0 .. N : step[j] # 0}) |-> step[k - 1]]
    BY DEF Walk
  <1>2. /\ w \in Seq(Iterators) /\ L \in Nat /\ Distinct(w) /\ c.first = Nth(w, 1)
        /\ \A i \in 1 .. L : w[i] \in Iterators /\ w[i] # 0 /\ c.next[w[i]] = Nth(w, i + 1)
    BY IteratorsAssumption DEF Linked
  <1>3. N \in Nat /\ L <= N
    BY <1>2, ShortIs, IteratorsAssumption, FS_CardinalityType
  <1>4. c.first \in Links
    BY <1>2 DEF Nth, Links
  <1>5. \A x \in Links : Step(x) \in Links
    BY DEF Links
  <1> HIDE DEF N, L, Step
  <1>6. \E f : Loop(f)
    <2> DEFINE g == [i \in 1 .. N |-> [x \in Links |-> Step(x)]]
    <2>1. \A i \in 1 .. N : \A x \in Links : g[i][x] = Step(x) /\ g[i][x] \in Links
      BY <1>5
    <2> HIDE DEF g
    <2>2. Steps(g, N, Links)
      BY <2>1 DEF Steps
    <2>3. PICK f : Runs(f, N, Links, c.first, g)
      BY <1>3, <1>4, <2>2, Recursion
    <2>4. f \in [0 .. N -> Links] /\ f[0] = c.first /\ \A i \in 1 .. N : f[i] = g[i][f[i - 1]]
      BY <2>3 DEF Runs
    <2>5. \A i \in 0 .. N : f[i] = IF i = 0 THEN c.first ELSE Step(f[i - 1])
      <3> SUFFICES ASSUME NEW i \in 0 .. N, i # 0
                   PROVE  f[i] = Step(f[i - 1])
        BY <2>4
      <3>1. i \in 1 .. N /\ i - 1 \in 0 .. N
        BY <1>3
      <3> QED
        BY <2>1, <2>4, <3>1
    <2>6. Loop(f)
      BY <2>4, <2>5
    <2> QED
      BY <2>6
  <1>7. Loop(step)
    BY <1>6
  <1> HIDE DEF step
  <1>8. step[0] = c.first /\ \A k \in 1 .. N : step[k] = Step(step[k - 1])
    <2>1. 0 \in 0 .. N /\ \A k \in 1 .. N : k \in 0 .. N /\ k # 0
      BY <1>3
    <2> QED
      BY <1>7, <2>1
  <1> DEFINE M == {n \in Nat : n <= N => step[n] = Nth(w, n + 1)}
  <1>9. 0 \in M
    BY <1>2, <1>8
  <1>10. ASSUME NEW n \in Nat, n \in M
         PROVE  n + 1 \in M
    <2> SUFFICES ASSUME n + 1 <= N
                 PROVE  step[n + 1] = Nth(w, n + 1 + 1)
      OBVIOUS
    <2>1. n <= N /\ n + 1 \in 1 .. N /\ (n + 1) - 1 = n
      BY <1>3
    <2>2. step[n + 1] = Step(Nth(w, n + 1))
      BY <1>8, <1>10, <2>1
    <2>3. CASE n + 1 \in 1 .. L
      <3>1. Nth(w, n + 1) = w[n + 1]
        BY <2>3 DEF Nth, L
      <3> QED
        BY <1>2, <2>2, <2>3, <3>1 DEF Step
    <2>4. CASE n + 1 \notin 1 .. L
      <3>1. n + 1 + 1 \notin 1 .. L
        BY <1>2, <2>4
      <3>2. Nth(w, n + 1) = 0 /\ Nth(w, n + 1 + 1) = 0
        BY <2>4, <3>1 DEF Nth, L
      <3> QED
        BY <2>2, <3>2 DEF Step
    <2> QED
      BY <2>3, <2>4
  <1>11. Nat \subseteq M
    <2> HIDE DEF M
    <2> QED
      BY <1>9, <1>10, Induction
  <1>12. \A n \in 0 .. N : step[n] = IF n < L THEN w[n + 1] ELSE 0
    <2> TAKE n \in 0 .. N
    <2>1. n \in Nat /\ n <= N
      BY <1>3
    <2>2. step[n] = Nth(w, n + 1)
      BY <1>11, <2>1
    <2>3. n + 1 \in 1 .. L <=> n < L
      BY <1>2, <2>1
    <2> QED
      BY <2>2, <2>3 DEF Nth, L
  <1>13. {j \in 0 .. N : step[j] # 0} = 0 .. L - 1
    <2>1. \A j \in 0 .. N : step[j] # 0 <=> j < L
      <3> TAKE j \in 0 .. N
      <3>1. j < L => j + 1 \in 1 .. L
        BY <1>2, <1>3
      <3> QED
        BY <1>2, <1>12, <3>1
    <2>2. 0 .. L - 1 = {j \in 0 .. N : j < L}
      BY <1>2, <1>3
    <2> QED
      BY <2>1, <2>2
  <1>14. Cardinality(0 .. L - 1) = L
    <2>1. 0 \in Int /\ L - 1 \in Int
      BY <1>2
    <2>2. Cardinality(0 .. L - 1) = IF 0 > L - 1 THEN 0 ELSE (L - 1) - 0 + 1
      BY <2>1, FS_Interval
    <2> QED
      BY <1>2, <2>2
  <1>15. Walk(c) = [k \in 1 .. L |-> step[k - 1]]
    BY <1>1, <1>13, <1>14
  <1>16. \A k \in 1 .. L : step[k - 1] = w[k]
    <2> TAKE k \in 1 .. L
    <2>1. k - 1 \in 0 .. N /\ k - 1 < L /\ (k - 1) + 1 = k
      BY <1>2, <1>3
    <2> QED
      BY <1>12, <2>1
  <1>17. w = [k \in 1 .. L |-> w[k]]
    BY <1>2 DEF L
  <1> QED
    BY <1>15, <1>16, <1>17

LEMMA Distinguished ==
    ASSUME NEW T, NEW l \in Seq(T)
    PROVE  Distinct(l) <=> \A i, j \in 1 .. Len(l) : l[i] = l[j] => i = j
  <1>1. \A i, j \in 1 .. Len(l) : i = j \/ i < j \/ j < i
    OBVIOUS
  <1>2. \A i, j \in 1 .. Len(l) : i < j => i # j
    OBVIOUS
  <1> QED
    BY <1>1, <1>2 DEF Distinct

LEMMA InsertedIs ==
    ASSUME NEW T, NEW l \in Seq(T), NEW e \in T, NEW p \in 1 .. Len(l) + 1, NEW r,
           Inserted(r, T, l, p, e)
    PROVE  /\ Members(r) = Members(l) \cup {e}
           /\ Distinct(l) /\ e \notin Members(l) => Distinct(r)
  <1> DEFINE L == Len(l)
             from(n) == IF n < p THEN n ELSE n - 1
  <1>1. /\ L \in Nat /\ p \in 1 .. L + 1 /\ r \in Seq(T) /\ Len(r) = L + 1
        /\ \A n \in 1 .. L + 1 : r[n] = IF n < p THEN l[n] ELSE IF n = p THEN e ELSE l[n - 1]
    BY DEF Inserted
  <1>2. \A n \in 1 .. L + 1 : n # p => from(n) \in 1 .. L /\ r[n] = l[from(n)]
    <2> TAKE n \in 1 .. L + 1
    <2>1. CASE n < p
      <3>1. n \in 1 .. L
        BY <1>1, <2>1
      <3> QED
        BY <1>1, <2>1, <3>1
    <2>2. CASE n > p
      <3>1. n - 1 \in 1 .. L /\ ~(n < p) /\ n # p
        BY <1>1, <2>2
      <3> QED
        BY <1>1, <3>1
    <2>3. n < p \/ n > p \/ n = p
      BY <1>1
    <2> QED
      BY <2>1, <2>2, <2>3
  <1>3. \A m, n \in 1 .. L + 1 : m # p /\ n # p /\ from(m) = from(n) => m = n
    BY <1>1
  <1>4. \A n \in 1 .. L : \E m \in 1 .. L + 1 : m # p /\ from(m) = n
    <2> SUFFICES ASSUME NEW n \in 1 .. L
                 PROVE  \E m \in 1 .. L + 1 : m # p /\ from(m) = n
      OBVIOUS
    <2>1. CASE n < p
      <3>1. n \in 1 .. L + 1 /\ n # p /\ from(n) = n
        BY <1>1, <2>1
      <3> QED
        BY <3>1
    <2>2. CASE ~(n < p)
      <3>1. n + 1 \in 1 .. L + 1 /\ n + 1 # p /\ from(n + 1) = n
        BY <1>1, <2>2
      <3> QED
        BY <3>1
    <2> QED
      BY <2>1, <2>2
  <1>5. r[p] = e /\ p \in 1 .. L + 1
    BY <1>1
  <1> HIDE DEF from
  <1>6. Members(r) \subseteq Members(l) \cup {e}
    <2> SUFFICES ASSUME NEW n \in 1 .. L + 1
                 PROVE  r[n] \in Members(l) \cup {e}
      BY <1>1 DEF Members
    <2>1. CASE n = p
      BY <1>5, <2>1
    <2>2. CASE n # p
      BY <1>2, <2>2 DEF Members
    <2> QED
      BY <2>1, <2>2
  <1>7. Members(l) \cup {e} \subseteq Members(r)
    <2>1. e \in Members(r)
      BY <1>1, <1>5 DEF Members
    <2>2. ASSUME NEW n \in 1 .. L
          PROVE  l[n] \in Members(r)
      <3>1. PICK m \in 1 .. L + 1 : m # p /\ from(m) = n
        BY <1>4
      <3>2. r[m] = l[n]
        BY <1>2, <3>1
      <3> QED
        BY <1>1, <3>2 DEF Members
    <2> QED
      BY <2>1, <2>2 DEF Members
  <1>8. ASSUME Distinct(l), e \notin Members(l)
        PROVE  Distinct(r)
    <2>1. \A i, j \in 1 .. L : l[i] = l[j] => i = j
      BY <1>8, Distinguished
    <2>2. \A n \in 1 .. L + 1 : n # p => r[n] # e
      BY <1>2, <1>8 DEF Members
    <2>3. ASSUME NEW m \in 1 .. L + 1, NEW n \in 1 .. L + 1, r[m] = r[n]
          PROVE  m = n
      <3>1. CASE m = p
        BY <1>5, <2>2, <2>3, <3>1
      <3>2. CASE n = p
        BY <1>5, <2>2, <2>3, <3>2
      <3>3. CASE m # p /\ n # p
        BY <1>2, <1>3, <2>1, <2>3, <3>3
      <3> QED
        BY <3>1, <3>2, <3>3
    <2> QED
      BY <1>1, <2>3, Distinguished
  <1> QED
    BY <1>6, <1>7, <1>8

LEMMA RemovedIs ==
    ASSUME NEW T, NEW l \in Seq(T), NEW p \in 1 .. Len(l), NEW r, Removed(r, T, l, p), Distinct(l)
    PROVE  Members(r) = Members(l) \ {l[p]} /\ Distinct(r)
  <1> DEFINE L == Len(l)
             from(n) == IF n < p THEN n ELSE n + 1
  <1>1. /\ L \in Nat /\ r \in Seq(T) /\ Len(r) = L - 1
        /\ \A n \in 1 .. L - 1 : r[n] = IF n < p THEN l[n] ELSE l[n + 1]
    BY DEF Removed
  <1>2. \A n \in 1 .. L - 1 : from(n) \in 1 .. L /\ from(n) # p /\ r[n] = l[from(n)]
    BY <1>1
  <1>3. \A m, n \in 1 .. L - 1 : from(m) = from(n) => m = n
    BY <1>1
  <1>4. \A n \in 1 .. L : n # p => \E m \in 1 .. L - 1 : from(m) = n
    <2> SUFFICES ASSUME NEW n \in 1 .. L, n # p
                 PROVE  \E m \in 1 .. L - 1 : from(m) = n
      OBVIOUS
    <2>1. CASE n < p
      <3>1. n \in 1 .. L - 1 /\ from(n) = n
        BY <1>1, <2>1
      <3> QED
        BY <3>1
    <2>2. CASE ~(n < p)
      <3>1. n - 1 \in 1 .. L - 1 /\ from(n - 1) = n
        BY <1>1, <2>2
      <3> QED
        BY <3>1
    <2> QED
      BY <2>1, <2>2
  <1>5. \A i, j \in 1 .. L : l[i] = l[j] => i = j
    BY Distinguished
  <1> HIDE DEF from
  <1>6. Members(r) \subseteq Members(l) \ {l[p]}
    <2> SUFFICES ASSUME NEW n \in 1 .. L - 1
                 PROVE  r[n] \in Members(l) \ {l[p]}
      BY <1>1 DEF Members
    <2> QED
      BY <1>2, <1>5 DEF Members
  <1>7. Members(l) \ {l[p]} \subseteq Members(r)
    <2> SUFFICES ASSUME NEW n \in 1 .. L, n # p
                 PROVE  l[n] \in Members(r)
      BY DEF Members
    <2>1. PICK m \in 1 .. L - 1 : from(m) = n
      BY <1>4
    <2>2. r[m] = l[n]
      BY <1>2, <2>1
    <2> QED
      BY <1>1, <2>2 DEF Members
  <1>8. Distinct(r)
    <2>1. \A m, n \in 1 .. L - 1 : r[m] = r[n] => m = n
      BY <1>2, <1>3, <1>5
    <2> QED
      BY <1>1, <2>1, Distinguished
  <1> QED
    BY <1>6, <1>7, <1>8

LEMMA AppendedIs ==
    ASSUME NEW T, NEW l \in Seq(T), NEW e \in T
    PROVE  Inserted(Append(l, e), T, l, Len(l) + 1, e)
  <1>1. /\ Append(l, e) \in Seq(T) /\ Len(Append(l, e)) = Len(l) + 1
        /\ Append(l, e)[Len(l) + 1] = e /\ \A i \in 1 .. Len(l) : Append(l, e)[i] = l[i]
    OBVIOUS
  <1>2. \A n \in 1 .. Len(l) + 1 : (n < Len(l) + 1 /\ n \in 1 .. Len(l)) \/ n = Len(l) + 1
    OBVIOUS
  <1>3. ~(Len(l) + 1 < Len(l) + 1)
    OBVIOUS
  <1> QED
    BY <1>1, <1>2, <1>3 DEF Inserted

LEMMA PrependedIs ==
    ASSUME NEW T, NEW l \in Seq(T), NEW e \in T
    PROVE  Inserted(<<e>> \o l, T, l, 1, e)
  <1> DEFINE r == <<e>> \o l
  <1>1. <<e>> \in Seq(T) /\ Len(<<e>>) = 1 /\ <<e>>[1] = e
    OBVIOUS
  <1>2. /\ r \in Seq(T) /\ Len(r) = 1 + Len(l)
        /\ \A i \in 1 .. 1 + Len(l) : r[i] = IF i <= 1 THEN <<e>>[i] ELSE l[i - 1]
    BY <1>1, ConcatProperties
  <1> HIDE DEF r
  <1>3. \A n \in 1 .. Len(l) + 1 : ~(n < 1) /\ (n <= 1 <=> n = 1)
    OBVIOUS
  <1>4. Len(r) = Len(l) + 1 /\ 1 .. 1 + Len(l) = 1 .. Len(l) + 1
    BY <1>2
  <1>5. Inserted(r, T, l, 1, e)
    BY <1>1, <1>2, <1>3, <1>4 DEF Inserted
  <1> QED
    BY <1>5 DEF r

LEMMA TailIs ==
    ASSUME NEW T, NEW l \in Seq(T), l # <<>>
    PROVE  Removed(Tail(l), T, l, 1)
  <1>1. /\ Tail(l) \in Seq(T) /\ Len(Tail(l)) = Len(l) - 1
        /\ \A n \in 1 .. Len(l) - 1 : Tail(l)[n] = l[n + 1]
    OBVIOUS
  <1>2. \A n \in 1 .. Len(l) - 1 : ~(n < 1)
    OBVIOUS
  <1> QED
    BY <1>1, <1>2 DEF Removed

-----------------------------------------------------------------------------

\* The two differ at it only.
ButAt(g, h, it) == \A x \in Iterators : x # it => g[x] = h[x]

LEMMA LinkedElsewhere ==
    ASSUME NEW fst, NEW next, NEW w, Linked(fst, next, w),
           NEW it, it \notin Members(w), NEW g, ButAt(g, next, it)
    PROVE  Linked(fst, g, w)
  <1>1. \A i \in 1 .. Len(w) : w[i] \in Iterators /\ w[i] # it
    BY DEF Linked, Members
  <1>2. \A i \in 1 .. Len(w) : g[w[i]] = next[w[i]]
    BY <1>1 DEF ButAt
  <1> QED
    BY <1>2 DEF Linked

LEMMA LinkedFirst ==
    ASSUME NEW fst, NEW next, NEW w, Linked(fst, next, w),
           NEW it \in Iterators \ Members(w), next[it] = fst,
           NEW r, Inserted(r, Iterators, w, 1, it)
    PROVE  Linked(it, next, r)
  <1> DEFINE L == Len(w)
  <1>1. /\ w \in Seq(Iterators) /\ L \in Nat /\ Distinct(w) /\ fst = Nth(w, 1)
        /\ \A i \in 1 .. L : next[w[i]] = Nth(w, i + 1)
    BY DEF Linked
  <1>2. /\ r \in Seq(Iterators) /\ Len(r) = L + 1
        /\ \A n \in 1 .. L + 1 : r[n] = IF n < 1 THEN w[n] ELSE IF n = 1 THEN it ELSE w[n - 1]
    BY DEF Inserted
  <1>3. Distinct(r)
    BY <1>1, InsertedIs
  <1>4. \A n \in Nat : Nth(r, n + 1) = IF n = 0 THEN it ELSE Nth(w, n)
    <2> TAKE n \in Nat
    <2>1. n + 1 \in 1 .. L + 1 <=> n = 0 \/ n \in 1 .. L
      BY <1>1
    <2>2. (n + 1) - 1 = n /\ ~(n + 1 < 1) /\ (n + 1 = 1 <=> n = 0)
      OBVIOUS
    <2> QED
      BY <1>2, <2>1, <2>2 DEF Nth
  <1>5. it = Nth(r, 1)
    <2>1. 0 + 1 = 1 /\ 0 \in Nat
      OBVIOUS
    <2> QED
      BY <1>4, <2>1
  <1>6. ASSUME NEW i \in 1 .. L + 1
        PROVE  next[r[i]] = Nth(r, i + 1)
    <2>1. Nth(r, i + 1) = Nth(w, i)
      <3>1. i \in Nat /\ i # 0
        BY <1>1
      <3> QED
        BY <1>4, <3>1
    <2>2. CASE i = 1
      <3>1. r[i] = it
        BY <1>2, <2>2
      <3> QED
        BY <1>1, <2>1, <2>2, <3>1
    <2>3. CASE i # 1
      <3>1. i - 1 \in 1 .. L /\ (i - 1) + 1 = i /\ ~(i < 1)
        BY <1>1, <2>3
      <3>2. r[i] = w[i - 1]
        BY <1>2, <2>3, <3>1
      <3> QED
        BY <1>1, <2>1, <3>1, <3>2
    <2> QED
      BY <2>2, <2>3
  <1> QED
    BY <1>2, <1>3, <1>5, <1>6 DEF Linked

LEMMA LinkedLast ==
    ASSUME NEW fst, NEW next, NEW w, Linked(fst, next, w),
           NEW it \in Iterators \ Members(w), next[it] = 0, NEW g
    PROVE  /\ w # <<>> /\ ButAt(g, next, w[Len(w)]) /\ g[w[Len(w)]] = it => Linked(fst, g, Append(w, it))
           /\ w = <<>> => Linked(it, next, Append(w, it))
  <1> DEFINE L == Len(w)
             r == Append(w, it)
  <1>1. /\ w \in Seq(Iterators) /\ L \in Nat /\ Distinct(w) /\ fst = Nth(w, 1)
        /\ \A i \in 1 .. L : next[w[i]] = Nth(w, i + 1) /\ w[i] \in Iterators
    BY DEF Linked
  <1>2. Inserted(r, Iterators, w, L + 1, it)
    BY <1>1, AppendedIs
  <1>3. /\ r \in Seq(Iterators) /\ Len(r) = L + 1 /\ r[L + 1] = it
        /\ \A n \in 1 .. L : r[n] = w[n]
    BY <1>1
  <1>4. Distinct(r)
    <2>1. L + 1 \in 1 .. L + 1
      BY <1>1
    <2> QED
      BY <1>1, <1>2, <2>1, InsertedIs
  <1>5. \A i, j \in 1 .. L : w[i] = w[j] => i = j
    BY <1>1, Distinguished
  <1> HIDE DEF r, L
  <1>6. Nth(r, L + 1) = it /\ Nth(r, L + 1 + 1) = 0 /\ \A n \in 1 .. L : Nth(r, n) = w[n]
    <2>1. L + 1 \in 1 .. L + 1 /\ L + 1 + 1 \notin 1 .. L + 1 /\ \A n \in 1 .. L : n \in 1 .. L + 1
      BY <1>1
    <2> QED
      BY <1>3, <2>1 DEF Nth
  <1>7. ASSUME w # <<>>, ButAt(g, next, w[L]), g[w[L]] = it
        PROVE  Linked(fst, g, r)
    <2>1. 1 \in 1 .. L /\ L \in 1 .. L
      BY <1>1, <1>7 DEF L
    <2>2. w[L] \in Iterators /\ w[L] # it
      BY <1>1, <2>1 DEF Members, L
    <2>3. g[w[L]] = it /\ \A x \in Iterators : x # w[L] => g[x] = next[x]
      BY <1>7 DEF ButAt
    <2>4. ASSUME NEW i \in 1 .. L + 1
          PROVE  g[r[i]] = Nth(r, i + 1)
      <3>1. CASE i = L + 1
        BY <1>3, <1>6, <2>2, <2>3, <3>1
      <3>2. CASE i = L
        BY <1>3, <1>6, <2>1, <2>3, <3>2
      <3>3. CASE i # L + 1 /\ i # L
        <4>1. i \in 1 .. L /\ i + 1 \in 1 .. L
          BY <1>1, <3>3
        <4>2. r[i] = w[i] /\ w[i] # w[L] /\ w[i] \in Iterators
          BY <1>1, <1>3, <1>5, <2>1, <3>3, <4>1
        <4>3. Nth(w, i + 1) = Nth(r, i + 1)
          BY <1>6, <4>1 DEF Nth, L
        <4> QED
          BY <1>1, <2>3, <4>1, <4>2, <4>3
      <3> QED
        BY <3>1, <3>2, <3>3
    <2>5. fst = Nth(r, 1)
      BY <1>1, <1>6, <2>1 DEF Nth, L
    <2> QED
      BY <1>3, <1>4, <2>4, <2>5 DEF Linked
  <1>8. ASSUME w = <<>>
        PROVE  Linked(it, next, r)
    <2>1. L = 0 /\ L + 1 = 1 /\ \A i \in 1 .. L + 1 : i = 1
      BY <1>8 DEF L
    <2>2. \A i \in 1 .. L + 1 : next[r[i]] = Nth(r, i + 1)
      BY <1>3, <1>6, <2>1
    <2>3. it = Nth(r, 1)
      BY <1>6, <2>1
    <2> QED
      BY <1>3, <1>4, <2>2, <2>3 DEF Linked
  <1> QED
    BY <1>7, <1>8 DEF r, L

LEMMA LinkedRemove ==
    ASSUME NEW fst, NEW next, NEW w, Linked(fst, next, w),
           NEW i \in 1 .. Len(w), NEW v, Removed(v, Iterators, w, i), NEW g
    PROVE  /\ i = 1 => Linked(next[w[1]], next, v)
           /\ i # 1 /\ ButAt(g, next, w[i - 1]) /\ g[w[i - 1]] = next[w[i]] => Linked(fst, g, v)
  <1> DEFINE L == Len(w)
  <1>1. /\ w \in Seq(Iterators) /\ L \in Nat /\ Distinct(w) /\ fst = Nth(w, 1)
        /\ \A n \in 1 .. L : next[w[n]] = Nth(w, n + 1) /\ w[n] \in Iterators
    BY DEF Linked
  <1>2. /\ v \in Seq(Iterators) /\ Len(v) = L - 1
        /\ \A n \in 1 .. L - 1 : v[n] = IF n < i THEN w[n] ELSE w[n + 1]
    BY DEF Removed
  <1>3. Distinct(v)
    BY <1>1, RemovedIs
  <1>4. \A m, n \in 1 .. L : w[m] = w[n] => m = n
    BY <1>1, Distinguished
  <1> HIDE DEF L
  <1>5. i \in 1 .. L
    BY DEF L
  <1>6. \A n \in Nat : /\ n # 0 /\ n < i => Nth(v, n) = Nth(w, n)
                       /\ n >= i => Nth(v, n) = Nth(w, n + 1)
    <2> TAKE n \in Nat
    <2>1. n # 0 /\ n < i => n \in 1 .. L - 1 /\ n \in 1 .. L
      BY <1>1, <1>5
    <2>2. n >= i => (n \in 1 .. L - 1 <=> n + 1 \in 1 .. L) /\ ~(n < i)
      BY <1>1, <1>5
    <2> QED
      BY <1>2, <2>1, <2>2 DEF Nth, L
  <1>7. ASSUME i = 1
        PROVE  Linked(next[w[1]], next, v)
    <2>1. next[w[1]] = Nth(v, 1)
      BY <1>1, <1>5, <1>6, <1>7
    <2>2. ASSUME NEW n \in 1 .. L - 1
          PROVE  next[v[n]] = Nth(v, n + 1)
      <3>1. n + 1 \in 1 .. L /\ ~(n < i) /\ n + 1 \in Nat /\ n + 1 >= i
        BY <1>1, <1>7
      <3>2. v[n] = w[n + 1]
        BY <1>2, <3>1
      <3> QED
        BY <1>1, <1>6, <3>1, <3>2
    <2> QED
      BY <1>2, <1>3, <2>1, <2>2 DEF Linked
  <1>8. ASSUME i # 1, ButAt(g, next, w[i - 1]), g[w[i - 1]] = next[w[i]]
        PROVE  Linked(fst, g, v)
    <2>1. i - 1 \in 1 .. L /\ 1 < i
      BY <1>1, <1>5, <1>8
    <2>2. /\ w[i - 1] \in Iterators /\ g[w[i - 1]] = Nth(w, i + 1)
          /\ \A n \in 1 .. L : n # i - 1 => g[w[n]] = next[w[n]]
      <3>1. g[w[i - 1]] = Nth(w, i + 1)
        BY <1>1, <1>5, <1>8
      <3>2. \A n \in 1 .. L : n # i - 1 => w[n] # w[i - 1]
        BY <1>4, <2>1
      <3> QED
        BY <1>1, <1>8, <2>1, <3>1, <3>2 DEF ButAt
    <2>3. fst = Nth(v, 1)
      BY <1>1, <1>6, <2>1
    <2>4. ASSUME NEW n \in 1 .. L - 1
          PROVE  g[v[n]] = Nth(v, n + 1)
      <3>1. n \in Nat /\ n + 1 \in Nat /\ n + 1 # 0 /\ n \in 1 .. L /\ n + 1 \in 1 .. L
        BY <1>1
      <3>2. CASE n = i - 1
        <4>1. n < i /\ n + 1 >= i /\ (n + 1) + 1 = i + 1 /\ v[n] = w[i - 1]
          BY <1>2, <1>5, <3>1, <3>2
        <4> QED
          BY <1>6, <2>2, <3>1, <4>1
      <3>3. CASE n < i - 1
        <4>1. n < i /\ n + 1 < i /\ n # i - 1 /\ v[n] = w[n]
          BY <1>2, <1>5, <3>1, <3>3
        <4> QED
          BY <1>1, <1>6, <2>2, <3>1, <4>1
      <3>4. CASE n >= i
        <4>1. ~(n < i) /\ n + 1 >= i /\ n + 1 # i - 1 /\ v[n] = w[n + 1]
          BY <1>2, <1>5, <3>1, <3>4
        <4> QED
          BY <1>1, <1>6, <2>2, <3>1, <4>1
      <3> QED
        BY <1>5, <3>1, <3>2, <3>3, <3>4
    <2> QED
      BY <1>2, <1>3, <2>3, <2>4 DEF Linked
  <1> QED
    BY <1>7, <1>8

-----------------------------------------------------------------------------

Kinds == {"list", "queue", "set"}

Chains == [first : Links, last : Links, n : Int, free : Links, used : SUBSET Iterators,
           next : [Iterators -> Links], data : [Iterators -> Contents]]

\* What an iterator holds.
Held(k) == IF k = "set" THEN DataOf(Names, Items) ELSE Items

LastIs(k, lst, w) == IF w # <<>> THEN lst = w[Len(w)] ELSE k = "queue" \/ lst = 0

\* The kept iterators f are those to be used again, and none of them is in use.
FreeIs(k, c, w, f) ==
    k # "queue" => /\ Linked(c.free, c.next, f) /\ Members(w) \cap Members(f) = {}
                   /\ Members(w) \cup Members(f) \subseteq c.used

Full(data, w, s) == Len(w) = Len(s) /\ \A i \in 1 .. Len(s) : data[w[i]] = s[i]

Shape(k, c, s, w, f) ==
    /\ Linked(c.first, c.next, w) /\ LastIs(k, c.last, w) /\ FreeIs(k, c, w, f)
    /\ Full(c.data, w, s) /\ c.n = Len(s)

Keeps(k, c, s) ==
    /\ c \in Chains /\ s \in Seq(Held(k))
    /\ \E w, f \in Seq(Iterators) : Shape(k, c, s, w, f)

NamesOnce(s) == \A i, j \in 1 .. Len(s) : s[i].name = s[j].name => i = j

ContainerInv ==
    /\ kind \in Kinds
    /\ ~odd => Keeps(kind, chain, items) /\ (kind = "set" => NamesOnce(items))

LEMMA ChainIs ==
    ASSUME NEW c \in Chains
    PROVE  /\ c.first \in Links /\ c.last \in Links /\ c.n \in Int /\ c.free \in Links
           /\ c.used \subseteq Iterators /\ c.next \in [Iterators -> Links]
           /\ c.data \in [Iterators -> Contents]
  BY DEF Chains

Taken(t, c, it, d) ==
    /\ t \in Chains
    /\ t.first = c.first /\ t.last = c.last /\ t.n = c.n + 1
    /\ t.free = (IF it = c.free THEN c.next[it] ELSE c.free)
    /\ t.used = c.used \cup {it}
    /\ ButAt(t.next, c.next, it) /\ t.next[it] = 0
    /\ ButAt(t.data, c.data, it) /\ t.data[it] = d

LEMMA TakeFields ==
    ASSUME NEW c \in Chains, NEW it \in Iterators, NEW d \in Contents
    PROVE  Taken(Take(c, it, d), c, it, d)
  <1> DEFINE t == Take(c, it, d)
  <1>1. 0 \in Links /\ c.next[it] \in Links
    BY ChainIs DEF Links
  <1>2. t \in Chains
    <2> DEFINE fr == IF it = c.free THEN c.next[it] ELSE c.free
               us == c.used \cup {it}
               nx == [c.next EXCEPT ![it] = 0]
               da == [c.data EXCEPT ![it] = d]
    <2>1. /\ fr \in Links /\ us \subseteq Iterators /\ nx \in [Iterators -> Links]
          /\ da \in [Iterators -> Contents] /\ c.n + 1 \in Int
      BY <1>1, ChainIs
    <2>2. t = [c EXCEPT !.free = fr, !.used = us, !.next = nx, !.data = da, !.n = c.n + 1]
      BY DEF Take, Chains
    <2> HIDE DEF fr, us, nx, da
    <2> QED
      BY <2>1, <2>2 DEF Chains
  <1>3. /\ t.first = c.first /\ t.last = c.last /\ t.n = c.n + 1
        /\ t.free = (IF it = c.free THEN c.next[it] ELSE c.free)
        /\ t.used = c.used \cup {it}
        /\ t.next = [c.next EXCEPT ![it] = 0]
        /\ t.data = [c.data EXCEPT ![it] = d]
    BY DEF Take, Chains
  <1> HIDE DEF t
  <1>4. /\ ButAt(t.next, c.next, it) /\ t.next[it] = 0
        /\ ButAt(t.data, c.data, it) /\ t.data[it] = d
    BY <1>3, ChainIs DEF ButAt
  <1>5. Taken(t, c, it, d)
    BY <1>2, <1>3, <1>4 DEF Taken
  <1> QED
    BY <1>5 DEF t

LinkedOn(t, c, it) ==
    /\ t \in Chains
    /\ t.last = it /\ t.n = c.n /\ t.free = c.free /\ t.used = c.used /\ t.data = c.data
    /\ c.last = 0 => t.first = it /\ t.next = c.next
    /\ c.last # 0 => t.first = c.first /\ ButAt(t.next, c.next, c.last) /\ t.next[c.last] = it

LEMMA LinkLastFields ==
    ASSUME NEW c \in Chains, NEW it \in Iterators
    PROVE  LinkedOn(LinkLast(c, it), c, it)
  <1> DEFINE t == LinkLast(c, it)
  <1>1. it \in Links
    BY DEF Links
  <1>2. CASE c.last = 0
    BY <1>1, <1>2 DEF LinkLast, Chains, LinkedOn
  <1>3. CASE c.last # 0
    <2>1. t = [c EXCEPT !.next[c.last] = it, !.last = it]
      BY <1>3 DEF LinkLast
    <2>2. t \in Chains
      <3> DEFINE nx == [c.next EXCEPT ![c.last] = it]
      <3>1. nx \in [Iterators -> Links]
        BY <1>1, ChainIs
      <3>2. t = [c EXCEPT !.next = nx, !.last = it]
        BY <2>1 DEF Chains
      <3> HIDE DEF nx
      <3> QED
        BY <1>1, <3>1, <3>2 DEF Chains
    <2>3. /\ t.last = it /\ t.n = c.n /\ t.free = c.free /\ t.used = c.used /\ t.data = c.data
          /\ t.first = c.first /\ t.next = [c.next EXCEPT ![c.last] = it]
      BY <2>1 DEF Chains
    <2>4. c.last \in Iterators
      BY <1>3, ChainIs DEF Links
    <2> HIDE DEF t
    <2>5. ButAt(t.next, c.next, c.last) /\ t.next[c.last] = it
      BY <2>3, <2>4, ChainIs DEF ButAt
    <2>6. LinkedOn(t, c, it)
      BY <1>3, <2>2, <2>3, <2>5 DEF LinkedOn
    <2> QED
      BY <2>6 DEF t
  <1> QED
    BY <1>2, <1>3

Released(t, c, it) ==
    /\ t \in Chains
    /\ t.first = c.first /\ t.last = c.last /\ t.n = c.n - 1 /\ t.used = c.used
    /\ ButAt(t.next, c.next, it) /\ ButAt(t.data, c.data, it)
    /\ kind # "queue" => t.free = it /\ t.next[it] = c.free

LEMMA ReleaseFields ==
    ASSUME NEW c \in Chains, NEW it \in Iterators
    PROVE  Released(Release(c, it), c, it)
  <1> DEFINE t == Release(c, it)
  <1>1. it \in Links /\ NoData \in Contents
    BY DEF Links, Contents
  <1>2. CASE kind = "queue"
    <2>1. t = [c EXCEPT !.n = @ - 1]
      BY <1>2 DEF Release
    <2> QED
      BY <1>2, <2>1 DEF Chains, Released, ButAt
  <1>3. CASE kind # "queue"
    <2>1. t = [c EXCEPT !.n = @ - 1, !.next[it] = c.free, !.data[it] = NoData, !.free = it]
      BY <1>3 DEF Release
    <2>2. t \in Chains
      <3> DEFINE nx == [c.next EXCEPT ![it] = c.free]
                 da == [c.data EXCEPT ![it] = NoData]
      <3>1. nx \in [Iterators -> Links] /\ da \in [Iterators -> Contents] /\ c.n - 1 \in Int
        BY <1>1, ChainIs
      <3>2. t = [c EXCEPT !.n = c.n - 1, !.next = nx, !.data = da, !.free = it]
        BY <2>1 DEF Chains
      <3> HIDE DEF nx, da
      <3> QED
        BY <1>1, <3>1, <3>2 DEF Chains
    <2>3. /\ t.first = c.first /\ t.last = c.last /\ t.n = c.n - 1 /\ t.used = c.used
          /\ t.free = it /\ t.next = [c.next EXCEPT ![it] = c.free]
          /\ t.data = [c.data EXCEPT ![it] = NoData]
      BY <2>1 DEF Chains
    <2> HIDE DEF t
    <2>4. ButAt(t.next, c.next, it) /\ t.next[it] = c.free /\ ButAt(t.data, c.data, it)
      BY <2>3, ChainIs DEF ButAt
    <2>5. Released(t, c, it)
      BY <1>3, <2>2, <2>3, <2>4 DEF Released
    <2> QED
      BY <2>5 DEF t
  <1> QED
    BY <1>2, <1>3

LEMMA AvailableIs ==
    ASSUME NEW c \in Chains, NEW s, NEW w \in Seq(Iterators), NEW f \in Seq(Iterators),
           Shape(kind, c, s, w, f), NEW it \in Available(c)
    PROVE  /\ it \in Iterators \ Members(w)
           /\ kind # "queue" => \/ it = c.free /\ f # <<>> /\ f[1] = it
                                \/ c.free = 0 /\ f = <<>> /\ it \notin c.used
  <1>1. Linked(c.first, c.next, w) /\ FreeIs(kind, c, w, f)
    BY DEF Shape
  <1>2. Walk(c) = w
    BY <1>1, ChainIs, WalkIs
  <1>3. CASE kind = "queue"
    <2>1. it \in Iterators \ ToSet(w)
      BY <1>2, <1>3 DEF Available
    <2> QED
      BY <1>3, <2>1, MembersAre
  <1>4. CASE kind # "queue" /\ c.free # 0
    <2>1. it = c.free
      BY <1>4 DEF Available
    <2>2. 1 \in 1 .. Len(f) /\ f[1] = c.free
      BY <1>1, <1>4 DEF FreeIs, Linked, Nth
    <2>3. f # <<>> /\ it \in Members(f) /\ it \in Iterators
      BY <2>1, <2>2 DEF Members
    <2> QED
      BY <1>1, <1>4, <2>1, <2>2, <2>3 DEF FreeIs
  <1>5. CASE kind # "queue" /\ c.free = 0
    <2>1. it \in Iterators \ c.used
      <3>1. c.used # Iterators /\ it = Min(Iterators \ c.used)
        BY <1>5 DEF Available
      <3>2. Iterators \ c.used \subseteq Nat /\ Iterators \ c.used # {}
        BY <3>1, ChainIs, IteratorsAssumption
      <3> QED
        BY <3>1, <3>2, MinIs
    <2>2. f = <<>>
      <3>1. c.free = Nth(f, 1)
        BY <1>1, <1>5 DEF FreeIs, Linked
      <3>2. f # <<>> => 1 \in 1 .. Len(f) /\ f[1] # 0
        BY IteratorsAssumption
      <3> QED
        BY <1>5, <3>1, <3>2 DEF Nth
    <2> QED
      BY <1>1, <1>5, <2>1, <2>2 DEF FreeIs
  <1> QED
    BY <1>3, <1>4, <1>5

\* After alloc_..._iterator the iterator is in neither chain.
LEMMA TakeIs ==
    ASSUME NEW c \in Chains, NEW s, NEW w \in Seq(Iterators), NEW f \in Seq(Iterators),
           Shape(kind, c, s, w, f), NEW it \in Available(c), NEW d \in Contents,
           NEW t, Taken(t, c, it, d)
    PROVE  /\ it \in Iterators \ Members(w) /\ t \in Chains
           /\ Linked(t.first, t.next, w) /\ LastIs(kind, t.last, w)
           /\ Full(t.data, w, s) /\ t.data[it] = d /\ t.n = Len(s) + 1
           /\ t.next[it] = 0 /\ t.first = c.first /\ t.last = c.last
           /\ \E g \in Seq(Iterators) : FreeIs(kind, t, w, g)
                                        /\ (kind # "queue" => it \in t.used \ Members(g))
  <1>1. /\ it \in Iterators \ Members(w)
        /\ kind # "queue" => \/ it = c.free /\ f # <<>> /\ f[1] = it
                             \/ c.free = 0 /\ f = <<>> /\ it \notin c.used
    BY AvailableIs
  <1>2. /\ t \in Chains /\ t.first = c.first /\ t.last = c.last /\ t.n = c.n + 1
        /\ t.free = (IF it = c.free THEN c.next[it] ELSE c.free)
        /\ t.used = c.used \cup {it}
        /\ ButAt(t.next, c.next, it) /\ t.next[it] = 0
        /\ ButAt(t.data, c.data, it) /\ t.data[it] = d
    BY DEF Taken
  <1>3. /\ c.n = Len(s) /\ LastIs(kind, c.last, w) /\ Linked(c.first, c.next, w)
        /\ FreeIs(kind, c, w, f) /\ Full(c.data, w, s)
    BY DEF Shape
  <1>4. Linked(t.first, t.next, w)
    BY <1>1, <1>2, <1>3, LinkedElsewhere
  <1>5. Full(t.data, w, s)
    <2>1. Len(w) = Len(s) /\ \A i \in 1 .. Len(s) : c.data[w[i]] = s[i]
      BY <1>3 DEF Full
    <2>2. \A i \in 1 .. Len(w) : w[i] \in Iterators /\ w[i] # it
      BY <1>1 DEF Members
    <2>3. \A i \in 1 .. Len(w) : t.data[w[i]] = c.data[w[i]]
      BY <1>2, <2>2 DEF ButAt
    <2> QED
      BY <2>1, <2>3 DEF Full
  <1>6. \E g \in Seq(Iterators) : FreeIs(kind, t, w, g) /\ (kind # "queue" => it \in t.used \ Members(g))
    <2>1. CASE kind = "queue"
      BY <2>1 DEF FreeIs
    <2>2. CASE kind # "queue" /\ it = c.free /\ f # <<>> /\ f[1] = it
      <3>1. /\ Linked(c.free, c.next, f) /\ Members(w) \cap Members(f) = {}
            /\ Members(w) \cup Members(f) \subseteq c.used
        BY <1>3, <2>2 DEF FreeIs
      <3>2. Removed(Tail(f), Iterators, f, 1) /\ 1 \in 1 .. Len(f)
        BY <2>2, TailIs
      <3>3. Linked(c.next[it], c.next, Tail(f))
        BY <1>3, <2>2, <3>1, <3>2, LinkedRemove
      <3>4. Members(Tail(f)) = Members(f) \ {it} /\ Tail(f) \in Seq(Iterators)
        <4>1. Distinct(f) /\ Tail(f) \in Seq(Iterators)
          BY <3>1, <3>2 DEF Linked, Removed
        <4> QED
          BY <2>2, <3>2, <4>1, RemovedIs
      <3>5. Linked(c.next[it], t.next, Tail(f))
        BY <1>1, <1>2, <1>3, <3>3, <3>4, LinkedElsewhere
      <3>6. FreeIs(kind, t, w, Tail(f)) /\ it \in t.used \ Members(Tail(f))
        BY <1>2, <2>2, <3>1, <3>4, <3>5 DEF FreeIs
      <3> QED
        BY <3>4, <3>6
    <2>3. CASE kind # "queue" /\ c.free = 0 /\ f = <<>> /\ it \notin c.used
      <3>1. /\ Linked(c.free, c.next, f) /\ Members(w) \cap Members(f) = {}
            /\ Members(w) \cup Members(f) \subseteq c.used
        BY <1>3, <2>3 DEF FreeIs
      <3>2. it \notin Members(f)
        BY <2>3, <3>1
      <3>3. Linked(c.free, t.next, f)
        BY <1>1, <1>2, <1>3, <3>1, <3>2, LinkedElsewhere
      <3>4. t.free = c.free
        BY <1>1, <1>2, <2>3, IteratorsAssumption
      <3>5. FreeIs(kind, t, w, f) /\ it \in t.used \ Members(f)
        BY <1>2, <2>3, <3>1, <3>2, <3>3, <3>4 DEF FreeIs
      <3> QED
        BY <3>5
    <2> QED
      BY <1>1, <2>1, <2>2, <2>3
  <1> QED
    BY <1>1, <1>2, <1>3, <1>4, <1>5, <1>6

\* An iterator behind the others: with its data, what they hold is appended to.
LEMMA FullAppended ==
    ASSUME NEW data, NEW w \in Seq(Iterators), NEW it \in Iterators, NEW T, NEW s \in Seq(T),
           NEW d \in T, Full(data, w, s), data[it] = d
    PROVE  Full(data, Append(w, it), Append(s, d))
  <1>1. Len(w) = Len(s) /\ Len(s) \in Nat /\ \A i \in 1 .. Len(s) : data[w[i]] = s[i]
    BY DEF Full
  <1>2. /\ Len(Append(w, it)) = Len(w) + 1 /\ Append(w, it)[Len(w) + 1] = it
        /\ \A i \in 1 .. Len(w) : Append(w, it)[i] = w[i]
    OBVIOUS
  <1>3. /\ Len(Append(s, d)) = Len(s) + 1 /\ Append(s, d)[Len(s) + 1] = d
        /\ \A i \in 1 .. Len(s) : Append(s, d)[i] = s[i]
    OBVIOUS
  <1>4. \A i \in 1 .. Len(s) + 1 : i \in 1 .. Len(s) \/ i = Len(s) + 1
    BY <1>1
  <1> QED
    BY <1>1, <1>2, <1>3, <1>4 DEF Full

LEMMA AppendedMembers ==
    ASSUME NEW T, NEW l \in Seq(T), NEW e \in T
    PROVE  /\ Append(l, e) \in Seq(T) /\ Append(l, e) # <<>>
           /\ Append(l, e)[Len(Append(l, e))] = e /\ Members(Append(l, e)) = Members(l) \cup {e}
  <1>1. Append(l, e) \in Seq(T) /\ Append(l, e) # <<>> /\ Append(l, e)[Len(Append(l, e))] = e
    OBVIOUS
  <1>2. Inserted(Append(l, e), T, l, Len(l) + 1, e)
    BY AppendedIs
  <1>3. Len(l) + 1 \in 1 .. Len(l) + 1
    OBVIOUS
  <1> DEFINE r == Append(l, e)
             p == Len(l) + 1
  <1> HIDE DEF r, p
  <1>4. Inserted(r, T, l, p, e) /\ p \in 1 .. Len(l) + 1
    BY <1>2, <1>3 DEF r, p
  <1>5. Members(r) = Members(l) \cup {e}
    BY <1>4, InsertedIs
  <1> QED
    BY <1>1, <1>5 DEF r

LEMMA AppendedKeeps ==
    ASSUME NEW c, NEW s, Keeps(kind, c, s), ~(c.first = 0 /\ c.last # 0),
           NEW it \in Available(c), NEW d \in Held(kind)
    PROVE  Keeps(kind, Appended(c, it, d), Append(s, d))
  <1>1. c \in Chains /\ s \in Seq(Held(kind))
    BY DEF Keeps
  <1>2. PICK w \in Seq(Iterators), f \in Seq(Iterators) : Shape(kind, c, s, w, f)
    BY DEF Keeps
  <1>3. d \in Contents
    BY DEF Held, Contents
  <1> DEFINE t == Take(c, it, d)
             a == LinkLast(t, it)
             v == Append(w, it)
  <1>4. t = Take(c, it, d) /\ a = LinkLast(t, it) /\ Appended(c, it, d) = a
    BY DEF Appended
  <1> HIDE DEF t, a
  <1>5. /\ it \in Iterators \ Members(w) /\ t \in Chains
        /\ Linked(t.first, t.next, w) /\ LastIs(kind, t.last, w)
        /\ Full(t.data, w, s) /\ t.data[it] = d /\ t.n = Len(s) + 1
        /\ t.next[it] = 0 /\ t.first = c.first /\ t.last = c.last
        /\ \E g \in Seq(Iterators) : FreeIs(kind, t, w, g)
                                     /\ (kind # "queue" => it \in t.used \ Members(g))
    <2>1. it \in Iterators
      BY <1>1, <1>2, AvailableIs
    <2>2. Taken(t, c, it, d)
      BY <1>1, <1>3, <1>4, <2>1, TakeFields
    <2> QED
      BY <1>1, <1>2, <1>3, <2>2, TakeIs
  <1>6. PICK g \in Seq(Iterators) : FreeIs(kind, t, w, g)
                                    /\ (kind # "queue" => it \in t.used \ Members(g))
    BY <1>5
  <1>7. /\ a \in Chains /\ a.last = it /\ a.n = t.n /\ a.free = t.free /\ a.used = t.used /\ a.data = t.data
        /\ t.last = 0 => a.first = it /\ a.next = t.next
        /\ t.last # 0 => a.first = t.first /\ ButAt(a.next, t.next, t.last) /\ a.next[t.last] = it
    <2>1. LinkedOn(a, t, it)
      BY <1>4, <1>5, LinkLastFields
    <2> QED
      BY <2>1 DEF LinkedOn
  <1>8. v \in Seq(Iterators) /\ v # <<>> /\ v[Len(v)] = it /\ Members(v) = Members(w) \cup {it}
    BY <1>5, AppendedMembers
  <1>9. w = <<>> => t.last = 0
    <2>1. w = <<>> => t.first = 0
      BY <1>5 DEF Linked, Nth
    <2> QED
      BY <1>5, <2>1
  <1>10. w # <<>> => t.last = w[Len(w)] /\ t.last \in Members(w) /\ t.last \in Iterators /\ t.last # 0
    <2>1. w # <<>> => Len(w) \in 1 .. Len(w) /\ w[Len(w)] \in Iterators
      OBVIOUS
    <2> QED
      BY <1>5, <2>1, IteratorsAssumption DEF LastIs, Members
  <1>11. Linked(a.first, a.next, v)
    <2>1. CASE w = <<>>
      BY <1>5, <1>7, <1>9, <2>1, LinkedLast
    <2>2. CASE w # <<>>
      <3>1. ButAt(a.next, t.next, w[Len(w)]) /\ a.next[w[Len(w)]] = it /\ a.first = t.first
        BY <1>7, <1>10, <2>2
      <3> QED
        BY <1>5, <2>2, <3>1, LinkedLast
    <2> QED
      BY <2>1, <2>2
  <1>12. LastIs(kind, a.last, v)
    BY <1>7, <1>8 DEF LastIs
  <1>13. FreeIs(kind, a, v, g)
    <2> SUFFICES ASSUME kind # "queue"
                 PROVE  /\ Linked(a.free, a.next, g) /\ Members(v) \cap Members(g) = {}
                        /\ Members(v) \cup Members(g) \subseteq a.used
      BY DEF FreeIs
    <2>1. /\ Linked(t.free, t.next, g) /\ Members(w) \cap Members(g) = {}
          /\ Members(w) \cup Members(g) \subseteq t.used /\ it \in t.used \ Members(g)
      BY <1>6 DEF FreeIs
    <2>2. Linked(a.free, a.next, g)
      <3>1. CASE w = <<>>
        BY <1>7, <1>9, <2>1, <3>1
      <3>2. CASE w # <<>>
        <4>1. t.last \notin Members(g) /\ ButAt(a.next, t.next, t.last)
          BY <1>7, <1>10, <2>1, <3>2
        <4>2. Linked(t.free, a.next, g)
          BY <2>1, <4>1, LinkedElsewhere
        <4> QED
          BY <1>7, <4>2
      <3> QED
        BY <3>1, <3>2
    <2> QED
      BY <1>7, <1>8, <2>1, <2>2
  <1>14. Full(a.data, v, Append(s, d))
    BY <1>1, <1>5, <1>7, FullAppended
  <1>15. a.n = Len(Append(s, d)) /\ Append(s, d) \in Seq(Held(kind))
    BY <1>1, <1>5, <1>7
  <1>16. Shape(kind, a, Append(s, d), v, g)
    BY <1>11, <1>12, <1>13, <1>14, <1>15 DEF Shape
  <1> HIDE DEF v
  <1>17. Keeps(kind, a, Append(s, d))
    BY <1>6, <1>7, <1>8, <1>15, <1>16 DEF Keeps
  <1> QED
    BY <1>4, <1>17

\* datalist_insert at the front.
LEMMA PrependedKeeps ==
    ASSUME NEW c, NEW s, Keeps(kind, c, s), kind # "queue", NEW it \in Available(c),
           NEW d \in Held(kind), NEW a,
           a = [Take(c, it, d) EXCEPT !.next[it] = c.first, !.first = it,
                                      !.last = IF @ = 0 THEN it ELSE @]
    PROVE  Keeps(kind, a, <<d>> \o s)
  <1>1. c \in Chains /\ s \in Seq(Held(kind))
    BY DEF Keeps
  <1>2. PICK w \in Seq(Iterators), f \in Seq(Iterators) : Shape(kind, c, s, w, f)
    BY DEF Keeps
  <1>3. d \in Contents
    BY DEF Held, Contents
  <1> DEFINE t == Take(c, it, d)
             v == <<it>> \o w
             r == <<d>> \o s
  <1>4. t = Take(c, it, d)
    OBVIOUS
  <1>5. it \in Iterators
    BY <1>1, <1>2, AvailableIs
  <1>6. Taken(t, c, it, d)
    BY <1>1, <1>3, <1>5, TakeFields
  <1>7. a = [t EXCEPT !.next[it] = c.first, !.first = it, !.last = IF @ = 0 THEN it ELSE @]
    OBVIOUS
  <1> HIDE DEF t
  <1>8. /\ it \in Iterators \ Members(w) /\ t \in Chains
        /\ Linked(t.first, t.next, w) /\ LastIs(kind, t.last, w)
        /\ Full(t.data, w, s) /\ t.data[it] = d /\ t.n = Len(s) + 1
        /\ t.next[it] = 0 /\ t.first = c.first /\ t.last = c.last
        /\ \E g \in Seq(Iterators) : FreeIs(kind, t, w, g)
                                     /\ (kind # "queue" => it \in t.used \ Members(g))
    BY <1>1, <1>2, <1>3, <1>6, TakeIs
  <1>9. PICK g \in Seq(Iterators) : FreeIs(kind, t, w, g) /\ it \in t.used \ Members(g)
    BY <1>8
  <1>10. /\ a \in Chains /\ a.first = it /\ a.last = (IF t.last = 0 THEN it ELSE t.last)
         /\ a.n = t.n /\ a.free = t.free /\ a.used = t.used /\ a.data = t.data
         /\ ButAt(a.next, t.next, it) /\ a.next[it] = t.first
    <2> DEFINE nx == [t.next EXCEPT ![it] = c.first]
               lst == IF t.last = 0 THEN it ELSE t.last
    <2>1. it \in Links /\ c.first \in Links /\ t.last \in Links /\ t.next \in [Iterators -> Links]
      BY <1>1, <1>5, <1>8, ChainIs DEF Links
    <2>2. nx \in [Iterators -> Links] /\ lst \in Links /\ nx[it] = c.first /\ ButAt(nx, t.next, it)
      BY <1>5, <2>1 DEF ButAt
    <2>3. a = [t EXCEPT !.next = nx, !.first = it, !.last = lst]
      BY <1>7, <1>8 DEF Chains
    <2>4. lst = (IF t.last = 0 THEN it ELSE t.last)
      OBVIOUS
    <2> HIDE DEF nx, lst
    <2>5. /\ a.first = it /\ a.last = lst /\ a.next = nx
          /\ a.n = t.n /\ a.free = t.free /\ a.used = t.used /\ a.data = t.data
      BY <1>8, <2>3 DEF Chains
    <2>6. a \in Chains
      BY <1>8, <2>1, <2>2, <2>3 DEF Chains
    <2> QED
      BY <1>8, <2>2, <2>4, <2>5, <2>6
  <1>11. /\ Inserted(v, Iterators, w, 1, it) /\ Inserted(r, Held(kind), s, 1, d)
    BY <1>1, <1>5, PrependedIs
  <1> HIDE DEF v, r
  <1>12. /\ v \in Seq(Iterators) /\ Len(v) = Len(w) + 1 /\ Members(v) = Members(w) \cup {it}
         /\ v[1] = it /\ \A n \in 1 .. Len(w) + 1 : n # 1 => v[n] = w[n - 1]
    <2>1. 1 \in 1 .. Len(w) + 1 /\ Len(w) \in Nat
      OBVIOUS
    <2>2. Inserted(v, Iterators, w, 1, it) /\ w \in Seq(Iterators)
      BY <1>11
    <2>3. Members(v) = Members(w) \cup {it}
      <3>1. ASSUME NEW p \in 1 .. Len(w) + 1, Inserted(v, Iterators, w, p, it)
            PROVE  Members(v) = Members(w) \cup {it}
        BY <1>5, <3>1, InsertedIs
      <3> QED
        BY <2>1, <2>2, <3>1
    <2>4. \A n \in 1 .. Len(w) + 1 : ~(n < 1)
      OBVIOUS
    <2> QED
      BY <2>1, <2>2, <2>3, <2>4 DEF Inserted
  <1>13. /\ r \in Seq(Held(kind)) /\ Len(r) = Len(s) + 1
         /\ r[1] = d /\ \A n \in 1 .. Len(s) + 1 : n # 1 => r[n] = s[n - 1]
    <2>1. 1 \in 1 .. Len(s) + 1 /\ Len(s) \in Nat
      BY <1>1
    <2>2. \A n \in 1 .. Len(s) + 1 : ~(n < 1)
      BY <2>1
    <2> QED
      BY <1>11, <2>1, <2>2 DEF Inserted
  <1>14. Linked(a.first, a.next, v)
    <2>1. Linked(t.first, a.next, w)
      BY <1>8, <1>10, LinkedElsewhere
    <2>2. /\ it \in Iterators \ Members(w) /\ a.first = it /\ a.next[it] = t.first
          /\ Inserted(v, Iterators, w, 1, it)
      BY <1>8, <1>10, <1>11
    <2> QED
      BY <2>1, <2>2, LinkedFirst
  <1>15. LastIs(kind, a.last, v)
    <2>1. CASE w = <<>>
      <3>1. Len(v) = 1 /\ v # <<>> /\ t.last = 0
        BY <1>8, <1>12, <2>1 DEF LastIs
      <3> QED
        BY <1>10, <1>12, <3>1 DEF LastIs
    <2>2. CASE w # <<>>
      <3>1. /\ Len(w) + 1 \in 1 .. Len(w) + 1 /\ Len(w) + 1 # 1 /\ (Len(w) + 1) - 1 = Len(w)
            /\ w[Len(w)] \in Iterators
        BY <2>2
      <3>2. v[Len(v)] = w[Len(w)]
        BY <1>12, <3>1
      <3>3. t.last = w[Len(w)] /\ t.last # 0
        BY <1>8, <2>2, <3>1, IteratorsAssumption DEF LastIs
      <3>4. v # <<>>
        BY <1>12
      <3> QED
        BY <1>10, <3>2, <3>3, <3>4 DEF LastIs
    <2> QED
      BY <2>1, <2>2
  <1>16. FreeIs(kind, a, v, g)
    <2>1. /\ Linked(t.free, t.next, g) /\ Members(w) \cap Members(g) = {}
          /\ Members(w) \cup Members(g) \subseteq t.used
      BY <1>9 DEF FreeIs
    <2>2. Linked(a.free, a.next, g)
      BY <1>9, <1>10, <2>1, LinkedElsewhere
    <2> QED
      BY <1>9, <1>10, <1>12, <2>1, <2>2 DEF FreeIs
  <1>17. Full(a.data, v, r)
    <2>1. Len(w) = Len(s) /\ Len(s) \in Nat /\ \A i \in 1 .. Len(s) : a.data[w[i]] = s[i]
      BY <1>1, <1>8, <1>10 DEF Full
    <2>2. ASSUME NEW n \in 1 .. Len(s) + 1
          PROVE  a.data[v[n]] = r[n]
      <3>1. CASE n = 1
        BY <1>8, <1>10, <1>12, <1>13, <3>1
      <3>2. CASE n # 1
        <4>1. n - 1 \in 1 .. Len(s)
          BY <2>1, <3>2
        <4> QED
          BY <1>12, <1>13, <2>1, <3>2, <4>1
      <3> QED
        BY <3>1, <3>2
    <2> QED
      BY <1>12, <1>13, <2>1, <2>2 DEF Full
  <1>18. a.n = Len(r)
    BY <1>8, <1>10, <1>13
  <1>19. Shape(kind, a, r, v, g)
    BY <1>14, <1>15, <1>16, <1>17, <1>18 DEF Shape
  <1>20. Keeps(kind, a, r)
    BY <1>9, <1>10, <1>12, <1>13, <1>19 DEF Keeps
  <1> QED
    BY <1>20 DEF r

Cut(t, c, w, i) ==
    /\ t \in Chains /\ t.n = c.n /\ t.free = c.free /\ t.used = c.used /\ t.data = c.data
    /\ i = 1 => /\ t.first = c.next[w[1]] /\ t.next = c.next
                /\ t.last = (IF w[1] = c.last THEN 0 ELSE c.last)
    /\ i # 1 => /\ t.first = c.first
                /\ ButAt(t.next, c.next, w[i - 1]) /\ t.next[w[i - 1]] = c.next[w[i]]
                /\ t.last = (IF w[i] = c.last THEN w[i - 1] ELSE c.last)

LEMMA CutIs ==
    ASSUME NEW c \in Chains, NEW w \in Seq(Iterators), Walk(c) = w, NEW i \in 1 .. Len(w)
    PROVE  \E t : Cut(t, c, w, i) /\ Unlink(c, i) = Release(t, w[i])
  <1>1. /\ c.first \in Links /\ c.last \in Links /\ c.next \in [Iterators -> Links] /\ 0 \in Links
        /\ Iterators \subseteq Links
    BY ChainIs DEF Links
  <1>2. w[i] \in Iterators /\ w[1] \in Iterators /\ (i # 1 => w[i - 1] \in Iterators)
    OBVIOUS
  <1>3. CASE i = 1
    <2> DEFINE fst == c.next[w[1]]
               lst == IF w[1] = c.last THEN 0 ELSE c.last
               t == [c EXCEPT !.first = fst, !.last = lst]
    <2>1. Unlink(c, i) = Release([c EXCEPT !.first = c.next[w[1]], !.last = IF w[1] = @ THEN 0 ELSE @], w[i])
      BY <1>3 DEF Unlink
    <2>2. t = [c EXCEPT !.first = c.next[w[1]], !.last = IF w[1] = @ THEN 0 ELSE @]
      BY DEF Chains
    <2>3. fst \in Links /\ lst \in Links
      BY <1>1, <1>2
    <2>4. fst = c.next[w[1]] /\ lst = (IF w[1] = c.last THEN 0 ELSE c.last)
      OBVIOUS
    <2>5. Unlink(c, i) = Release(t, w[i])
      BY <2>1, <2>2
    <2> HIDE DEF fst, lst
    <2>6. /\ t \in Chains /\ t.first = fst /\ t.last = lst /\ t.next = c.next
          /\ t.n = c.n /\ t.free = c.free /\ t.used = c.used /\ t.data = c.data
      BY <2>3 DEF Chains
    <2> HIDE DEF t
    <2>7. Cut(t, c, w, i)
      BY <1>3, <2>4, <2>6 DEF Cut
    <2> QED
      BY <2>5, <2>7
  <1>4. CASE i # 1
    <2> DEFINE nx == [c.next EXCEPT ![w[i - 1]] = c.next[w[i]]]
               lst == IF w[i] = c.last THEN w[i - 1] ELSE c.last
               t == [c EXCEPT !.next = nx, !.last = lst]
    <2>1. Unlink(c, i) = Release([c EXCEPT !.next[w[i - 1]] = c.next[w[i]],
                                           !.last = IF w[i] = @ THEN w[i - 1] ELSE @], w[i])
      BY <1>4 DEF Unlink
    <2>2. t = [c EXCEPT !.next[w[i - 1]] = c.next[w[i]],
                        !.last = IF w[i] = @ THEN w[i - 1] ELSE @]
      BY DEF Chains
    <2>3. nx \in [Iterators -> Links] /\ lst \in Links
      BY <1>1, <1>2, <1>4
    <2>4. /\ lst = (IF w[i] = c.last THEN w[i - 1] ELSE c.last)
          /\ ButAt(nx, c.next, w[i - 1]) /\ nx[w[i - 1]] = c.next[w[i]]
      BY <1>1, <1>2, <1>4 DEF ButAt
    <2>5. Unlink(c, i) = Release(t, w[i])
      BY <2>1, <2>2
    <2> HIDE DEF nx, lst
    <2>6. /\ t \in Chains /\ t.first = c.first /\ t.last = lst /\ t.next = nx
          /\ t.n = c.n /\ t.free = c.free /\ t.used = c.used /\ t.data = c.data
      BY <2>3 DEF Chains
    <2> HIDE DEF t
    <2>7. Cut(t, c, w, i)
      BY <1>4, <2>4, <2>6 DEF Cut
    <2> QED
      BY <2>5, <2>7
  <1> QED
    BY <1>3, <1>4

LEMMA LastCut ==
    ASSUME NEW c \in Chains, NEW w \in Seq(Iterators), Distinct(w), LastIs(kind, c.last, w),
           NEW i \in 1 .. Len(w), NEW v, Removed(v, Iterators, w, i), NEW t, Cut(t, c, w, i)
    PROVE  LastIs(kind, t.last, v)
  <1> DEFINE L == Len(w)
  <1>1. /\ L \in Nat /\ L # 0 /\ \A m, n \in 1 .. L : w[m] = w[n] => m = n
    BY Distinguished
  <1>2. /\ v \in Seq(Iterators) /\ Len(v) = L - 1
        /\ \A n \in 1 .. L - 1 : v[n] = IF n < i THEN w[n] ELSE w[n + 1]
    BY DEF Removed
  <1>3. c.last = w[L]
    BY <1>1 DEF LastIs
  <1>4. /\ i = 1 => t.last = (IF w[1] = c.last THEN 0 ELSE c.last)
        /\ i # 1 => t.last = (IF w[i] = c.last THEN w[i - 1] ELSE c.last)
    BY DEF Cut
  <1> HIDE DEF L
  <1>5. i \in 1 .. L
    BY DEF L
  <1>6. CASE L = 1
    <2>1. v = <<>> /\ i = 1 /\ 1 \in 1 .. L
      BY <1>2, <1>5, <1>6
    <2>2. t.last = 0
      BY <1>3, <1>4, <1>6, <2>1
    <2> QED
      BY <2>1, <2>2 DEF LastIs
  <1>7. CASE L # 1
    <2>1. v # <<>> /\ L - 1 \in 1 .. L - 1 /\ L \in 1 .. L /\ (L - 1) + 1 = L
      BY <1>1, <1>2, <1>7
    <2>2. CASE i = L
      <3>1. t.last = w[L - 1] /\ L - 1 < i
        BY <1>1, <1>3, <1>4, <1>7, <2>2
      <3>2. v[L - 1] = w[L - 1]
        BY <1>2, <2>1, <3>1
      <3> QED
        BY <1>2, <2>1, <3>1, <3>2 DEF LastIs
    <2>3. CASE i # L
      <3>1. ~(L - 1 < i)
        BY <1>1, <1>5, <2>3
      <3>2. w[i] # w[L]
        BY <1>1, <1>5, <2>1, <2>3
      <3>3. t.last = w[L]
        BY <1>3, <1>4, <3>2
      <3>4. v[L - 1] = w[L]
        BY <1>2, <2>1, <3>1
      <3> QED
        BY <1>2, <2>1, <3>3, <3>4 DEF LastIs
    <2> QED
      BY <2>2, <2>3
  <1> QED
    BY <1>6, <1>7

LEMMA UnlinkKeeps ==
    ASSUME NEW c, NEW s, Keeps(kind, c, s), NEW i \in 1 .. Len(s),
           NEW r, Removed(r, Held(kind), s, i)
    PROVE  Keeps(kind, Unlink(c, i), r)
  <1>1. c \in Chains /\ s \in Seq(Held(kind))
    BY DEF Keeps
  <1>2. PICK w \in Seq(Iterators), f \in Seq(Iterators) : Shape(kind, c, s, w, f)
    BY DEF Keeps
  <1>3. /\ Linked(c.first, c.next, w) /\ LastIs(kind, c.last, w) /\ FreeIs(kind, c, w, f)
        /\ Len(w) = Len(s) /\ (\A n \in 1 .. Len(s) : c.data[w[n]] = s[n]) /\ c.n = Len(s)
    BY <1>2 DEF Shape, Full
  <1>4. i \in 1 .. Len(w) /\ Distinct(w) /\ w[i] \in Iterators /\ w[i] \in Members(w)
    BY <1>3 DEF Linked, Members
  <1> DEFINE v == RemoveAt(w, i)
             x == w[i]
  <1>5. Removed(v, Iterators, w, i)
    BY <1>4, RemoveIs
  <1>6. Members(v) = Members(w) \ {x} /\ v \in Seq(Iterators)
    <2>1. v \in Seq(Iterators)
      BY <1>5 DEF Removed
    <2> QED
      BY <1>4, <1>5, <2>1, RemovedIs
  <1>7. x \in Iterators /\ x \in Members(w) /\ x \notin Members(v)
    BY <1>4, <1>6
  <1>8. Walk(c) = w
    BY <1>1, <1>3, ChainIs, WalkIs
  <1>9. PICK t : Cut(t, c, w, i) /\ Unlink(c, i) = Release(t, x)
    BY <1>1, <1>4, <1>8, CutIs
  <1> DEFINE u == Release(t, x)
             h == <<x>> \o f
  <1>10. /\ t \in Chains /\ t.n = c.n /\ t.free = c.free /\ t.used = c.used /\ t.data = c.data
         /\ i = 1 => t.first = c.next[w[1]] /\ t.next = c.next
         /\ i # 1 => /\ t.first = c.first
                     /\ ButAt(t.next, c.next, w[i - 1]) /\ t.next[w[i - 1]] = c.next[w[i]]
    BY <1>9 DEF Cut
  <1>11. Released(u, t, x)
    BY <1>7, <1>10, ReleaseFields
  <1> HIDE DEF v, u
  <1>12. /\ u \in Chains /\ u.first = t.first /\ u.last = t.last /\ u.n = t.n - 1 /\ u.used = t.used
         /\ ButAt(u.next, t.next, x) /\ ButAt(u.data, t.data, x)
         /\ kind # "queue" => u.free = x /\ u.next[x] = t.free
    BY <1>11 DEF Released
  <1>13. Linked(t.first, t.next, v)
    BY <1>3, <1>4, <1>5, <1>10, LinkedRemove
  <1>14. Linked(u.first, u.next, v)
    BY <1>7, <1>12, <1>13, LinkedElsewhere
  <1>15. LastIs(kind, u.last, v)
    BY <1>1, <1>3, <1>4, <1>5, <1>9, <1>12, LastCut
  <1>16. h \in Seq(Iterators) /\ Inserted(h, Iterators, f, 1, x)
    <2>1. Inserted(h, Iterators, f, 1, x)
      BY <1>7, PrependedIs
    <2> QED
      BY <2>1 DEF Inserted
  <1> HIDE DEF h, x
  <1>17. FreeIs(kind, u, v, h)
    <2> SUFFICES ASSUME kind # "queue"
                 PROVE  /\ Linked(u.free, u.next, h) /\ Members(v) \cap Members(h) = {}
                        /\ Members(v) \cup Members(h) \subseteq u.used
      BY DEF FreeIs
    <2>1. /\ Linked(c.free, c.next, f) /\ Members(w) \cap Members(f) = {}
          /\ Members(w) \cup Members(f) \subseteq c.used
      BY <1>3 DEF FreeIs
    <2>2. Linked(c.free, t.next, f)
      <3>1. CASE i = 1
        BY <1>10, <2>1, <3>1
      <3>2. CASE i # 1
        <4>1. i - 1 \in 1 .. Len(w)
          BY <1>4, <3>2
        <4>2. w[i - 1] \notin Members(f)
          BY <2>1, <4>1 DEF Members
        <4> QED
          BY <1>10, <2>1, <3>2, <4>2, LinkedElsewhere
      <3> QED
        BY <3>1, <3>2
    <2>3. x \notin Members(f)
      BY <1>7, <2>1
    <2>4. Linked(c.free, u.next, f)
      BY <1>12, <2>2, <2>3, LinkedElsewhere
    <2>5. x \in Iterators \ Members(f) /\ u.next[x] = c.free
      BY <1>7, <1>10, <1>12, <2>3
    <2>6. Linked(x, u.next, h)
      BY <1>16, <2>4, <2>5, LinkedFirst
    <2>7. Members(h) = Members(f) \cup {x}
      <3>1. ASSUME NEW p \in 1 .. Len(f) + 1, Inserted(h, Iterators, f, p, x)
            PROVE  Members(h) = Members(f) \cup {x}
        BY <1>7, <3>1, InsertedIs
      <3>2. 1 \in 1 .. Len(f) + 1
        OBVIOUS
      <3> QED
        BY <1>16, <3>1, <3>2
    <2>8. u.free = x /\ u.used = c.used
      BY <1>10, <1>12
    <2> QED
      BY <1>6, <1>7, <2>1, <2>3, <2>6, <2>7, <2>8
  <1>18. /\ r \in Seq(Held(kind)) /\ Len(r) = Len(s) - 1
         /\ \A n \in 1 .. Len(s) - 1 : r[n] = IF n < i THEN s[n] ELSE s[n + 1]
    BY DEF Removed
  <1>19. /\ Len(v) = Len(s) - 1 /\ \A n \in 1 .. Len(s) - 1 : v[n] = IF n < i THEN w[n] ELSE w[n + 1]
    BY <1>3, <1>5 DEF Removed
  <1>20. Full(u.data, v, r)
    <2>1. ASSUME NEW n \in 1 .. Len(s) - 1
          PROVE  u.data[v[n]] = r[n]
      <3>1. n \in 1 .. Len(s) /\ n + 1 \in 1 .. Len(s)
        BY <1>1
      <3>2. c.data[v[n]] = r[n]
        BY <1>3, <1>18, <1>19, <3>1
      <3>3. v[n] \in Iterators /\ v[n] \in Members(v)
        BY <1>6, <1>19 DEF Members
      <3>4. u.data[v[n]] = t.data[v[n]]
        BY <1>7, <1>12, <3>3 DEF ButAt
      <3> QED
        BY <1>10, <3>2, <3>4
    <2> QED
      BY <1>18, <1>19, <2>1 DEF Full
  <1>21. u.n = Len(r)
    BY <1>3, <1>10, <1>12, <1>18
  <1>22. Shape(kind, u, r, v, h)
    BY <1>14, <1>15, <1>17, <1>20, <1>21 DEF Shape
  <1>23. Keeps(kind, u, r)
    BY <1>6, <1>12, <1>16, <1>18, <1>22 DEF Keeps
  <1> QED
    BY <1>9, <1>23 DEF u

-----------------------------------------------------------------------------

LEMMA BecomesInv ==
    ASSUME ContainerInv, NEW c, NEW s, Becomes(c, s), Keeps(kind, c, s),
           kind = "set" => NamesOnce(s)
    PROVE  ContainerInv'
  BY DEF ContainerInv, Becomes, Keeps, Shape, LastIs, FreeIs, Full, NamesOnce, Held

LEMMA SpoiltInv == ASSUME ContainerInv, Spoilt PROVE ContainerInv'
  BY DEF ContainerInv, Spoilt

LEMMA MatchesAre ==
    ASSUME Keeps(kind, chain, items), NEW D
    PROVE  Matches(D) = {i \in 1 .. Len(items) : items[i] \in D}
  <1>1. PICK w \in Seq(Iterators), f \in Seq(Iterators) : Shape(kind, chain, items, w, f)
    BY DEF Keeps
  <1>2. /\ chain \in Chains /\ Linked(chain.first, chain.next, w)
        /\ Len(w) = Len(items) /\ \A i \in 1 .. Len(items) : chain.data[w[i]] = items[i]
    BY <1>1 DEF Keeps, Shape, Full
  <1>3. Walk(chain) = w
    BY <1>2, ChainIs, WalkIs
  <1>4. DOMAIN w = 1 .. Len(items)
    BY <1>2
  <1>5. Matches(D) = {i \in DOMAIN w : chain.data[w[i]] \in D}
    BY <1>3 DEF Matches
  <1> QED
    BY <1>2, <1>4, <1>5

LEMMA FirstMatch ==
    ASSUME Keeps(kind, chain, items), NEW D, Matches(D) # {}
    PROVE  Min(Matches(D)) \in 1 .. Len(items) /\ items[Min(Matches(D))] \in D
  <1>1. Matches(D) = {i \in 1 .. Len(items) : items[i] \in D}
    BY MatchesAre
  <1>2. Min(Matches(D)) \in Matches(D)
    <2>1. Matches(D) \subseteq Nat
      BY <1>1
    <2> QED
      BY <2>1, MinIs
  <1> QED
    BY <1>1, <1>2

LEMMA RemovedOnce ==
    ASSUME NEW T, NEW s \in Seq(T), NamesOnce(s), NEW i \in 1 .. Len(s), NEW r, Removed(r, T, s, i)
    PROVE  NamesOnce(r)
  <1>1. /\ Len(s) \in Nat /\ Len(r) = Len(s) - 1
        /\ \A n \in 1 .. Len(s) - 1 : r[n] = s[IF n < i THEN n ELSE n + 1]
    BY DEF Removed
  <1>2. \A n \in 1 .. Len(s) - 1 : (IF n < i THEN n ELSE n + 1) \in 1 .. Len(s)
    BY <1>1
  <1>3. ASSUME NEW m \in 1 .. Len(s) - 1, NEW n \in 1 .. Len(s) - 1, r[m].name = r[n].name
        PROVE  m = n
    <2>1. (IF m < i THEN m ELSE m + 1) = (IF n < i THEN n ELSE n + 1)
      BY <1>1, <1>2, <1>3 DEF NamesOnce
    <2> QED
      BY <2>1
  <1> QED
    BY <1>1, <1>3 DEF NamesOnce

LEMMA RemoveInv ==
    ASSUME ContainerInv, ~odd, NEW i \in 1 .. Len(items), NEW r, Removed(r, Held(kind), items, i),
           Becomes(Unlink(chain, i), r)
    PROVE  ContainerInv'
  <1>1. Keeps(kind, chain, items) /\ (kind = "set" => NamesOnce(items)) /\ items \in Seq(Held(kind))
    BY DEF ContainerInv, Keeps
  <1>2. Keeps(kind, Unlink(chain, i), r)
    BY <1>1, UnlinkKeeps
  <1>3. kind = "set" => NamesOnce(r)
    BY <1>1, RemovedOnce
  <1> QED
    BY <1>2, <1>3, BecomesInv

LEMMA RemoveWhereInv == ASSUME ContainerInv, ~odd, NEW D, RemoveWhere(D) PROVE ContainerInv'
  <1>1. Keeps(kind, chain, items) /\ items \in Seq(Held(kind))
    BY DEF ContainerInv, Keeps
  <1> DEFINE i == Min(Matches(D))
             r == RemoveAt(items, i)
  <1>2. Matches(D) # {} /\ Becomes(Unlink(chain, i), r)
    BY DEF RemoveWhere
  <1>3. i \in 1 .. Len(items)
    BY <1>1, <1>2, FirstMatch
  <1> HIDE DEF i
  <1>4. Removed(r, Held(kind), items, i)
    BY <1>1, <1>3, RemoveIs
  <1> QED
    BY <1>2, <1>3, <1>4, RemoveInv

LEMMA AppendItemInv ==
    ASSUME ContainerInv, ~odd, NEW d \in Held(kind), AppendItem(d),
           kind = "set" => \A i \in 1 .. Len(items) : items[i].name # d.name
    PROVE  ContainerInv'
  <1>1. Keeps(kind, chain, items) /\ (kind = "set" => NamesOnce(items)) /\ items \in Seq(Held(kind))
    BY DEF ContainerInv, Keeps
  <1>2. CASE chain.first = 0 /\ chain.last # 0
    BY <1>2, SpoiltInv DEF AppendItem
  <1>3. CASE ~(chain.first = 0 /\ chain.last # 0)
    <2>1. PICK it \in Available(chain) : Becomes(Appended(chain, it, d), Append(items, d))
      BY <1>3 DEF AppendItem
    <2>2. Keeps(kind, Appended(chain, it, d), Append(items, d))
      BY <1>1, <1>3, AppendedKeeps
    <2>3. kind = "set" => NamesOnce(Append(items, d))
      <3>1. /\ Len(items) \in Nat /\ Len(Append(items, d)) = Len(items) + 1
            /\ Append(items, d)[Len(items) + 1] = d
            /\ \A i \in 1 .. Len(items) : Append(items, d)[i] = items[i]
        BY <1>1
      <3>2. \A i \in 1 .. Len(items) + 1 : i \in 1 .. Len(items) \/ i = Len(items) + 1
        BY <3>1
      <3> QED
        BY <1>1, <3>1, <3>2 DEF NamesOnce
    <2> QED
      BY <2>1, <2>2, <2>3, BecomesInv
  <1> QED
    BY <1>2, <1>3

\* A list that is empty has no last one.
LEMMA LastOfNone ==
    ASSUME NEW c, NEW s, Keeps(kind, c, s), kind # "queue"
    PROVE  ~(c.first = 0 /\ c.last # 0)
  <1>1. PICK w \in Seq(Iterators), f \in Seq(Iterators) : Shape(kind, c, s, w, f)
    BY DEF Keeps
  <1>2. c.first = Nth(w, 1) /\ LastIs(kind, c.last, w)
    BY <1>1 DEF Shape, Linked
  <1>3. w # <<>> => 1 \in 1 .. Len(w) /\ w[1] # 0
    BY IteratorsAssumption
  <1> QED
    BY <1>2, <1>3 DEF Nth, LastIs

LEMMA InsertInv ==
    ASSUME ContainerInv, ~odd, kind = "list", NEW i \in Nat, NEW d \in Items, Insert(i, d)
    PROVE  ContainerInv'
  <1>1. Keeps(kind, chain, items) /\ d \in Held(kind) /\ kind # "queue" /\ kind # "set"
    BY DEF ContainerInv, Held
  <1>2. /\ i = 0 => \E it \in Available(chain) :
              Becomes([Take(chain, it, d) EXCEPT !.next[it] = chain.first, !.first = it,
                                                 !.last = IF @ = 0 THEN it ELSE @], <<d>> \o items)
        /\ i > 0 /\ i >= chain.n /\ chain.last # 0 => AppendItem(d)
        /\ i # 0 /\ ~(i > 0 /\ i >= chain.n /\ chain.last # 0) => Spoilt
    <2> DEFINE First == \E it \in Available(chain) :
              Becomes([Take(chain, it, d) EXCEPT !.next[it] = chain.first, !.first = it,
                                                 !.last = IF @ = 0 THEN it ELSE @], <<d>> \o items)
               End == i > 0 /\ i >= chain.n /\ chain.last # 0
    <2>1. (CASE i = 0 -> First [] End -> AppendItem(d) [] OTHER -> Spoilt)
      BY DEF Insert
    <2>2. ~(i = 0 /\ End)
      OBVIOUS
    <2> HIDE DEF First, End
    <2>3. (i = 0 => First) /\ (End => AppendItem(d)) /\ (i # 0 /\ ~End => Spoilt)
      BY <2>1, <2>2
    <2> QED
      BY <2>3 DEF First, End
  <1>3. CASE i = 0
    <2>1. PICK it \in Available(chain) :
              Becomes([Take(chain, it, d) EXCEPT !.next[it] = chain.first, !.first = it,
                                                 !.last = IF @ = 0 THEN it ELSE @], <<d>> \o items)
      BY <1>3, <1>2
    <2> DEFINE a == [Take(chain, it, d) EXCEPT !.next[it] = chain.first, !.first = it,
                                               !.last = IF @ = 0 THEN it ELSE @]
    <2>2. Keeps(kind, a, <<d>> \o items)
      BY <1>1, PrependedKeeps
    <2> HIDE DEF a
    <2> QED
      BY <1>1, <2>1, <2>2, BecomesInv DEF a
  <1>4. CASE i > 0 /\ i >= chain.n /\ chain.last # 0
    <2>1. AppendItem(d)
      BY <1>4, <1>2
    <2> QED
      BY <1>1, <2>1, AppendItemInv
  <1>5. CASE i # 0 /\ ~(i > 0 /\ i >= chain.n /\ chain.last # 0)
    <2>1. Spoilt
      BY <1>5, <1>2
    <2> QED
      BY <2>1, SpoiltInv
  <1> QED
    BY <1>3, <1>4, <1>5

LEMMA CopyInv ==
    ASSUME ContainerInv, ~odd, kind = "list", NEW d \in Items, NEW e \in Items, CopyList(d, e)
    PROVE  ContainerInv'
  <1>1. Keeps(kind, chain, items) /\ d \in Held(kind) /\ e \in Held(kind) /\ kind # "queue" /\ kind # "set"
    BY DEF ContainerInv, Held
  <1>2. chain.n = Len(items) /\ items \in Seq(Held(kind))
    BY <1>1 DEF Keeps, Shape
  <1>3. CASE chain.n > 0
    BY <1>3, SpoiltInv DEF CopyList
  <1>4. CASE ~(chain.n > 0)
    <2>1. items = <<>>
      BY <1>2, <1>4
    <2>2. PICK it \in Available(chain) :
              \E jt \in Available(Appended(chain, it, d)) :
                  Becomes(Appended(Appended(chain, it, d), jt, e), <<d, e>>)
      BY <1>4 DEF CopyList
    <2> DEFINE c == Appended(chain, it, d)
    <2>3. PICK jt \in Available(c) : Becomes(Appended(c, jt, e), <<d, e>>)
      BY <2>2
    <2>4. Keeps(kind, c, Append(<<>>, d))
      <3>1. Keeps(kind, chain, <<>>) /\ ~(chain.first = 0 /\ chain.last # 0)
        BY <1>1, <2>1, LastOfNone
      <3> QED
        BY <1>1, <3>1, AppendedKeeps
    <2> HIDE DEF c
    <2>5. Keeps(kind, Appended(c, jt, e), Append(Append(<<>>, d), e))
      <3>1. ~(c.first = 0 /\ c.last # 0)
        BY <1>1, <2>4, LastOfNone
      <3> QED
        BY <1>1, <2>4, <3>1, AppendedKeeps
    <2>6. Append(Append(<<>>, d), e) = <<d, e>>
      <3> DEFINE l == Append(<<>>, d)
      <3>1. <<>> \in Seq(Items) /\ <<d, e>> \in Seq(Items)
        OBVIOUS
      <3>2. l \in Seq(Items) /\ Len(l) = 1 /\ l[1] = d
        BY <3>1
      <3> HIDE DEF l
      <3>3. /\ Append(l, e) \in Seq(Items) /\ Len(Append(l, e)) = 2
            /\ Append(l, e)[1] = d /\ Append(l, e)[2] = e
        <4>1. Append(l, e) \in Seq(Items) /\ Len(Append(l, e)) = Len(l) + 1
          BY <3>2, AppendProperties
        <4>2. Append(l, e)[Len(l) + 1] = e
          BY <3>2, AppendProperties
        <4>3. \A i \in 1 .. Len(l) : Append(l, e)[i] = l[i]
          BY <3>2, AppendProperties
        <4>4. 1 \in 1 .. Len(l) /\ Len(l) + 1 = 2
          BY <3>2
        <4> QED
          BY <3>2, <4>1, <4>2, <4>3, <4>4
      <3>4. Len(<<d, e>>) = 2 /\ <<d, e>>[1] = d /\ <<d, e>>[2] = e
        OBVIOUS
      <3>5. \A i \in 1 .. 2 : i = 1 \/ i = 2
        OBVIOUS
      <3>6. Append(l, e) = <<d, e>>
        BY <3>1, <3>3, <3>4, <3>5, SeqEqual
      <3> QED
        BY <3>6 DEF l
    <2> QED
      BY <1>1, <2>3, <2>5, <2>6, BecomesInv
  <1> QED
    BY <1>3, <1>4

LEMMA EmptyInv == ASSUME ContainerInv, ~odd, kind = "queue", EmptyQueue PROVE ContainerInv'
  <1>1. Keeps(kind, chain, items) /\ kind # "set" /\ chain \in Chains
    BY DEF ContainerInv, Keeps
  <1> DEFINE a == [chain EXCEPT !.first = 0, !.n = 0]
  <1>2. a \in Chains /\ a.first = 0 /\ a.n = 0
    <2>1. 0 \in Links /\ 0 \in Int
      BY DEF Links
    <2>2. a \in Chains
      BY <1>1, <2>1 DEF Chains
    <2>3. a.first = 0 /\ a.n = 0
      BY <1>1 DEF Chains
    <2> QED
      BY <2>2, <2>3
  <1>3. Becomes(a, <<>>)
    BY DEF EmptyQueue
  <1> HIDE DEF a
  <1>4. <<>> \in Seq(Iterators) /\ <<>> \in Seq(Held(kind))
    OBVIOUS
  <1>5. Linked(a.first, a.next, <<>>)
    BY <1>2, <1>4 DEF Linked, Distinct, Nth
  <1>6. Shape(kind, a, <<>>, <<>>, <<>>)
    BY <1>2, <1>5 DEF Shape, LastIs, FreeIs, Full
  <1>7. Keeps(kind, a, <<>>)
    BY <1>2, <1>4, <1>6 DEF Keeps
  <1> QED
    BY <1>1, <1>3, <1>7, BecomesInv

LEMMA NextInv == ASSUME ContainerInv, ~odd, NextItem PROVE ContainerInv'
  <1>1. Keeps(kind, chain, items) /\ items \in Seq(Held(kind))
    BY DEF ContainerInv, Keeps
  <1>2. chain.n = Len(items)
    BY <1>1 DEF Keeps, Shape
  <1>3. chain.n > 0 /\ Becomes(Unlink(chain, 1), Tail(items))
    BY DEF NextItem
  <1>4. items # <<>> /\ 1 \in 1 .. Len(items)
    BY <1>1, <1>2, <1>3
  <1>5. Removed(Tail(items), Held(kind), items, 1)
    BY <1>1, <1>4, TailIs
  <1>6. ASSUME NEW i \in 1 .. Len(items), Removed(Tail(items), Held(kind), items, i),
               Becomes(Unlink(chain, i), Tail(items))
        PROVE  ContainerInv'
    BY <1>6, RemoveInv
  <1> QED
    BY <1>3, <1>4, <1>5, <1>6

LEMMA RemoveIndexInv == ASSUME ContainerInv, ~odd, NEW i \in Nat, RemoveIndex(i) PROVE ContainerInv'
  <1>1. Keeps(kind, chain, items) /\ items \in Seq(Held(kind))
    BY DEF ContainerInv, Keeps
  <1>2. chain.n = Len(items) /\ i < chain.n
    BY <1>1 DEF Keeps, Shape, RemoveIndex
  <1>3. CASE chain.n = 1
    BY <1>3, SpoiltInv DEF RemoveIndex
  <1>4. CASE chain.n # 1
    <2>1. Becomes(Unlink(chain, i + 1), RemoveAt(items, i + 1))
      BY <1>4 DEF RemoveIndex
    <2>2. i + 1 \in 1 .. Len(items)
      BY <1>1, <1>2
    <2>3. Removed(RemoveAt(items, i + 1), Held(kind), items, i + 1)
      BY <1>1, <2>2, RemoveIs
    <2> QED
      BY <2>1, <2>2, <2>3, RemoveInv
  <1> QED
    BY <1>3, <1>4

\* A name that is in no place is new.
LEMMA NameIsNew ==
    ASSUME Keeps(kind, chain, items), kind = "set", NEW n, Named(n) = {}
    PROVE  \A i \in 1 .. Len(items) : items[i].name # n
  <1> SUFFICES ASSUME NEW i \in 1 .. Len(items), items[i].name = n
               PROVE  FALSE
    OBVIOUS
  <1>1. items \in Seq(DataOf(Names, Items))
    BY DEF Keeps, Held
  <1>2. items[i] \in DataOf(Names, Items)
    BY <1>1
  <1>3. items[i] \in DataOf({n}, Items)
    BY <1>2 DEF DataOf
  <1> QED
    BY <1>3, MatchesAre DEF Named

LEMMA NewNameInv ==
    ASSUME ContainerInv, ~odd, kind = "set", NEW n \in Names, NEW d \in Items,
           NEW b \in BOOLEAN, Named(n) = {}, AppendItem([name |-> n, typed |-> b, data |-> d])
    PROVE  ContainerInv'
  <1>1. Keeps(kind, chain, items)
    BY DEF ContainerInv
  <1> DEFINE e == [name |-> n, typed |-> b, data |-> d]
  <1>2. e \in Held(kind) /\ e.name = n
    BY DEF Held, DataOf
  <1>3. AppendItem(e)
    OBVIOUS
  <1> HIDE DEF e
  <1>4. \A i \in 1 .. Len(items) : items[i].name # e.name
    BY <1>1, <1>2, NameIsNew
  <1> QED
    BY <1>2, <1>3, <1>4, AppendItemInv

\* Data written over data: the chain and the names stay.
LEMMA WrittenKeeps ==
    ASSUME NEW c, NEW s, Keeps(kind, c, s), kind = "set", NamesOnce(s), NEW d \in Items,
           NEW i \in 1 .. Len(s)
    PROVE  /\ Keeps(kind, [c EXCEPT !.data[Walk(c)[i]].data = d], [s EXCEPT ![i].data = d])
           /\ NamesOnce([s EXCEPT ![i].data = d])
  <1> DEFINE T == DataOf(Names, Items)
             e == [s[i] EXCEPT !.data = d]
             r == [s EXCEPT ![i].data = d]
  <1>1. c \in Chains /\ s \in Seq(T) /\ Held(kind) = T /\ c.data \in [Iterators -> Contents]
    BY ChainIs DEF Keeps, Held
  <1>2. PICK w \in Seq(Iterators), f \in Seq(Iterators) : Shape(kind, c, s, w, f)
    BY DEF Keeps
  <1>3. /\ Linked(c.first, c.next, w) /\ LastIs(kind, c.last, w) /\ FreeIs(kind, c, w, f)
        /\ Len(w) = Len(s) /\ (\A n \in 1 .. Len(s) : c.data[w[n]] = s[n]) /\ c.n = Len(s)
    BY <1>2 DEF Shape, Full
  <1>4. Walk(c) = w
    BY <1>1, <1>3, ChainIs, WalkIs
  <1>5. e \in T /\ e.name = s[i].name
    <2>1. s[i] \in T
      BY <1>1
    <2> QED
      BY <2>1 DEF DataOf
  <1>6. /\ r \in Seq(T) /\ Len(r) = Len(s) /\ r[i] = e
        /\ \A n \in 1 .. Len(s) : n # i => r[n] = s[n]
    <2>1. r = [s EXCEPT ![i] = e]
      OBVIOUS
    <2> HIDE DEF r, e, T
    <2> QED
      BY <1>1, <1>5, <2>1
  <1>7. w[i] \in Iterators /\ c.data[w[i]] = s[i] /\ \A m, n \in 1 .. Len(w) : w[m] = w[n] => m = n
    BY <1>3, Distinguished DEF Linked
  <1> DEFINE x == w[i]
             da == [c.data EXCEPT ![x].data = d]
             t == [c EXCEPT !.data[x].data = d]
  <1>8. da \in [Iterators -> Contents] /\ da[x] = e /\ ButAt(da, c.data, x)
    <2>1. da = [c.data EXCEPT ![x] = e]
      BY <1>1, <1>7
    <2>2. e \in Contents
      BY <1>5 DEF Contents
    <2> HIDE DEF da, e
    <2> QED
      BY <1>1, <1>7, <2>1, <2>2 DEF ButAt
  <1>9. t = [c EXCEPT !.data = da]
    BY <1>1 DEF Chains
  <1> HIDE DEF da
  <1>10. /\ t \in Chains /\ t.first = c.first /\ t.last = c.last /\ t.n = c.n /\ t.free = c.free
         /\ t.used = c.used /\ t.next = c.next /\ t.data = da
    BY <1>1, <1>8, <1>9 DEF Chains
  <1>11. Keeps(kind, [c EXCEPT !.data[Walk(c)[i]].data = d], r) <=> Keeps(kind, t, r)
    BY <1>4
  <1> HIDE DEF t, r, e, T
  <1>12. Full(t.data, w, r)
    <2>1. ASSUME NEW n \in 1 .. Len(s)
          PROVE  t.data[w[n]] = r[n]
      <3>1. CASE n = i
        BY <1>6, <1>8, <1>10, <3>1
      <3>2. CASE n # i
        <4>1. w[n] \in Iterators /\ w[n] # x
          BY <1>3, <1>7, <3>2
        <4>2. da[w[n]] = c.data[w[n]]
          BY <1>8, <4>1 DEF ButAt
        <4> QED
          BY <1>3, <1>6, <1>10, <3>2, <4>2
      <3> QED
        BY <3>1, <3>2
    <2> QED
      BY <1>3, <1>6, <2>1 DEF Full
  <1>13. Shape(kind, t, r, w, f)
    BY <1>3, <1>6, <1>10, <1>12 DEF Shape, FreeIs
  <1>14. Keeps(kind, t, r)
    BY <1>1, <1>6, <1>10, <1>13 DEF Keeps
  <1>15. NamesOnce(r)
    <2>1. \A n \in 1 .. Len(s) : r[n].name = s[n].name
      BY <1>5, <1>6
    <2> QED
      BY <1>6, <2>1 DEF NamesOnce
  <1> QED
    BY <1>11, <1>14, <1>15 DEF r

LEMMA InsertDataInv ==
    ASSUME ContainerInv, ~odd, kind = "set", NEW n \in Names, NEW d \in Items,
           NEW value \in BOOLEAN, InsertData(n, d, value)
    PROVE  ContainerInv'
  <1>1. Keeps(kind, chain, items) /\ NamesOnce(items)
    BY DEF ContainerInv
  <1>2. CASE Named(n) = {}
    <2>1. AppendItem([name |-> n, typed |-> FALSE, data |-> d])
      BY <1>2 DEF InsertData
    <2> QED
      BY <1>2, <2>1, NewNameInv
  <1>3. CASE Named(n) # {}
    <2> DEFINE i == Min(Named(n))
    <2>1. i \in 1 .. Len(items)
      BY <1>1, <1>3, FirstMatch DEF Named
    <2>2. \/ Spoilt
          \/ Becomes([chain EXCEPT !.data[Walk(chain)[i]].data = d], [items EXCEPT ![i].data = d])
      BY <1>3 DEF InsertData
    <2> HIDE DEF i
    <2>3. /\ Keeps(kind, [chain EXCEPT !.data[Walk(chain)[i]].data = d], [items EXCEPT ![i].data = d])
          /\ NamesOnce([items EXCEPT ![i].data = d])
      BY <1>1, <2>1, WrittenKeeps
    <2>4. CASE Becomes([chain EXCEPT !.data[Walk(chain)[i]].data = d], [items EXCEPT ![i].data = d])
      <3> DEFINE c == [chain EXCEPT !.data[Walk(chain)[i]].data = d]
                 s == [items EXCEPT ![i].data = d]
      <3>1. Becomes(c, s) /\ Keeps(kind, c, s) /\ NamesOnce(s)
        BY <2>3, <2>4
      <3> HIDE DEF c, s
      <3> QED
        BY <3>1, BecomesInv
    <2> QED
      BY <2>2, <2>4, SpoiltInv
  <1> QED
    BY <1>2, <1>3

LEMMA InsertTypeInv ==
    ASSUME ContainerInv, ~odd, kind = "set", NEW n \in Names, NEW d \in Items, InsertType(n, d)
    PROVE  ContainerInv'
  <1>1. CASE Named(n) = {}
    <2>1. AppendItem([name |-> n, typed |-> TRUE, data |-> d])
      BY <1>1 DEF InsertType
    <2> QED
      BY <1>1, <2>1, NewNameInv
  <1>2. CASE Named(n) # {}
    BY <1>2, SpoiltInv DEF InsertType
  <1> QED
    BY <1>1, <1>2

-----------------------------------------------------------------------------

LEMMA ContainerStart == ContainerInit => ContainerInv
  <1> SUFFICES ASSUME ContainerInit
               PROVE  ContainerInv
    OBVIOUS
  <1>1. kind \in Kinds /\ chain = Empty /\ items = <<>>
    BY DEF ContainerInit, Kinds
  <1>2. Empty \in Chains
    <2>1. 0 \in Links /\ 0 \in Int /\ NoData \in Contents /\ {} \in SUBSET Iterators
      BY DEF Links, Contents
    <2> HIDE DEF NoData
    <2> QED
      BY <2>1 DEF Empty, Chains
  <1>3. Empty.first = 0 /\ Empty.last = 0 /\ Empty.n = 0 /\ Empty.free = 0
    BY DEF Empty
  <1>4. <<>> \in Seq(Iterators) /\ <<>> \in Seq(Held(kind)) /\ Len(<<>>) = 0
    OBVIOUS
  <1>5. Linked(Empty.first, Empty.next, <<>>) /\ Linked(Empty.free, Empty.next, <<>>)
    BY <1>3, <1>4 DEF Linked, Distinct, Nth
  <1>6. Members(<<>>) = {}
    BY <1>4 DEF Members
  <1>7. Shape(kind, Empty, <<>>, <<>>, <<>>)
    BY <1>3, <1>4, <1>5, <1>6 DEF Shape, LastIs, FreeIs, Full
  <1>8. Keeps(kind, chain, items)
    BY <1>1, <1>2, <1>4, <1>7 DEF Keeps
  <1>9. NamesOnce(items)
    BY <1>1, <1>4 DEF NamesOnce
  <1> QED
    BY <1>1, <1>8, <1>9 DEF ContainerInv

\* The chains of datalist.c, dataqueue.c and dataset.c: two chains without an
\* iterator in common, that of the items and that of the iterators kept.
THEOREM ContainerInvariance == ContainerSpec => []ContainerInv
  <1>1. ContainerInit => ContainerInv
    BY ContainerStart
  <1>2. ASSUME ContainerInv, [ContainerNext]_containerVars
        PROVE  ContainerInv'
    <2>1. CASE UNCHANGED containerVars
      BY <1>2, <2>1 DEF containerVars, ContainerInv
    <2>2. CASE ~odd /\ ListNext
      <3>1. kind = "list" /\ \A d \in Items : d \in Held(kind)
        BY <2>2 DEF ListNext, Held
      <3>2. \A i \in 0 .. Len(items) + 1 : i \in Nat
        OBVIOUS
      <3>3. ASSUME NEW d \in Items, AppendItem(d)
            PROVE  ContainerInv'
        BY <1>2, <2>2, <3>1, <3>3, AppendItemInv
      <3>4. ASSUME NEW d \in Items, RemoveItem(d)
            PROVE  ContainerInv'
        BY <1>2, <2>2, <3>4, RemoveWhereInv DEF RemoveItem
      <3>5. ASSUME NEW d \in Items, NEW i \in 0 .. Len(items) + 1, Insert(i, d)
            PROVE  ContainerInv'
        BY <1>2, <2>2, <3>1, <3>2, <3>5, InsertInv
      <3>6. ASSUME NEW i \in 0 .. Len(items), RemoveIndex(i)
            PROVE  ContainerInv'
        BY <1>2, <2>2, <3>6, RemoveIndexInv
      <3>7. ASSUME NEW d \in Items, NEW e \in Items, CopyList(d, e)
            PROVE  ContainerInv'
        BY <1>2, <2>2, <3>1, <3>7, CopyInv
      <3> QED
        BY <2>2, <3>3, <3>4, <3>5, <3>6, <3>7 DEF ListNext
    <2>3. CASE ~odd /\ QueueNext
      <3>1. kind = "queue" /\ \A d \in Items : d \in Held(kind)
        BY <2>3 DEF QueueNext, Held
      <3>2. ASSUME NEW d \in Items, AppendItem(d)
            PROVE  ContainerInv'
        BY <1>2, <2>3, <3>1, <3>2, AppendItemInv
      <3>3. ASSUME NEW d \in Items, RemoveItem(d)
            PROVE  ContainerInv'
        BY <1>2, <2>3, <3>3, RemoveWhereInv DEF RemoveItem
      <3> QED
        BY <1>2, <2>3, <3>1, <3>2, <3>3, NextInv, EmptyInv DEF QueueNext
    <2>4. CASE ~odd /\ SetNext
      <3>1. kind = "set"
        BY <2>4 DEF SetNext
      <3>2. ASSUME NEW n \in Names, NEW d \in Items, InsertType(n, d)
            PROVE  ContainerInv'
        BY <1>2, <2>4, <3>1, <3>2, InsertTypeInv
      <3>3. ASSUME NEW n \in Names, NEW d \in Items, NEW v \in BOOLEAN, InsertData(n, d, v)
            PROVE  ContainerInv'
        BY <1>2, <2>4, <3>1, <3>3, InsertDataInv
      <3>4. ASSUME NEW n \in Names, RemoveName(n)
            PROVE  ContainerInv'
        BY <1>2, <2>4, <3>4, RemoveWhereInv DEF RemoveName
      <3>5. ASSUME NEW d \in Items, RemoveData(d)
            PROVE  ContainerInv'
        BY <1>2, <2>4, <3>5, RemoveWhereInv DEF RemoveData
      <3> QED
        BY <2>4, <3>2, <3>3, <3>4, <3>5 DEF SetNext
    <2> QED
      BY <1>2, <2>1, <2>2, <2>3, <2>4 DEF ContainerNext
  <1> QED
    BY <1>1, <1>2, PTL DEF ContainerSpec

\* Until a call that breaks it, the chain of a list, a queue or a set of utils
\* holds what its calls put in, in their order and once; its count and its
\* last pointer agree with it, and no iterator in use is kept for another use.
THEOREM ContentsAreKept == ContainerSpec => []ContentsKept
  <1>1. ContainerInv => ContentsKept
    <2> SUFFICES ASSUME ContainerInv, ~odd
                 PROVE  LET w == Walk(chain)
                        IN  /\ [i \in DOMAIN w |-> chain.data[w[i]]] = items
                            /\ chain.n = Len(items)
                            /\ IF w # <<>> THEN chain.last = Last(w) ELSE kind = "queue" \/ chain.last = 0
                            /\ kind # "queue" =>
                                   ToSet(w) \cap ToSet(Walk([chain EXCEPT !.first = chain.free])) = {}
                            /\ kind = "set" =>
                                   \A i, j \in DOMAIN items : items[i].name = items[j].name => i = j
      BY DEF ContentsKept
    <2>1. Keeps(kind, chain, items) /\ (kind = "set" => NamesOnce(items))
      BY DEF ContainerInv
    <2>2. PICK w \in Seq(Iterators), f \in Seq(Iterators) : Shape(kind, chain, items, w, f)
      BY <2>1 DEF Keeps
    <2>3. /\ chain \in Chains /\ items \in Seq(Held(kind))
          /\ Linked(chain.first, chain.next, w) /\ LastIs(kind, chain.last, w)
          /\ FreeIs(kind, chain, w, f) /\ chain.n = Len(items)
          /\ Len(w) = Len(items) /\ \A i \in 1 .. Len(items) : chain.data[w[i]] = items[i]
      BY <2>1, <2>2 DEF Keeps, Shape, Full
    <2>4. Walk(chain) = w
      BY <2>3, ChainIs, WalkIs
    <2>5. DOMAIN w = 1 .. Len(items) /\ DOMAIN items = 1 .. Len(items)
      BY <2>3
    <2>6. [i \in DOMAIN w |-> chain.data[w[i]]] = items
      <3>1. items = [i \in 1 .. Len(items) |-> items[i]]
        BY <2>3
      <3> QED
        BY <2>3, <2>5, <3>1
    <2>7. IF w # <<>> THEN chain.last = Last(w) ELSE kind = "queue" \/ chain.last = 0
      BY <2>3 DEF LastIs, Last
    <2>8. kind # "queue" => ToSet(w) \cap ToSet(Walk([chain EXCEPT !.first = chain.free])) = {}
      <3> SUFFICES ASSUME kind # "queue"
                   PROVE  ToSet(w) \cap ToSet(Walk([chain EXCEPT !.first = chain.free])) = {}
        OBVIOUS
      <3> DEFINE g == [chain EXCEPT !.first = chain.free]
      <3>1. g.first = chain.free /\ g.next = chain.next /\ g.next \in [Iterators -> Links]
        BY <2>3, ChainIs DEF Chains
      <3> HIDE DEF g
      <3>2. Linked(chain.free, chain.next, f) /\ Members(w) \cap Members(f) = {}
        BY <2>3 DEF FreeIs
      <3>3. Walk(g) = f
        BY <3>1, <3>2, WalkIs
      <3>4. Members(w) = ToSet(w) /\ Members(f) = ToSet(f)
        BY MembersAre
      <3> QED
        BY <3>2, <3>3, <3>4 DEF g
    <2>9. kind = "set" => \A i, j \in DOMAIN items : items[i].name = items[j].name => i = j
      BY <2>1, <2>5 DEF NamesOnce
    <2> QED
      BY <2>3, <2>4, <2>6, <2>7, <2>8, <2>9
  <1> QED
    BY <1>1, ContainerInvariance, PTL

-----------------------------------------------------------------------------
(* Content of the web server.                                              *)

LEMMA MaxIs ==
    ASSUME NEW m \in Nat, NEW s \in SUBSET (1 .. m), s # {}
    PROVE  Max(s) \in s /\ \A x \in s : x <= Max(s)
  <1> DEFINE S == {m - x : x \in s}
  <1>1. S \subseteq Nat /\ S # {}
    <2>1. \A x \in s : x \in 1 .. m /\ m - x \in Nat
      OBVIOUS
    <2> QED
      BY <2>1
  <1>2. PICK d \in S : \A e \in S : d <= e
    BY <1>1, Lowest
  <1>3. PICK x \in s : d = m - x
    BY <1>2
  <1>4. \A y \in s : y <= x
    <2> TAKE y \in s
    <2>1. m - x <= m - y
      BY <1>2, <1>3
    <2>2. x \in 1 .. m /\ y \in 1 .. m
      OBVIOUS
    <2> QED
      BY <2>1, <2>2
  <1> QED
    BY <1>4 DEF Max

Trees(E, W) == UNION {[D -> Seq(E)] : D \in SUBSET Seq(W)}

LEMMA AddContentIs ==
    ASSUME NEW W, NEW E, \A e \in E : e.dir \in Seq(W),
           NEW t \in Trees(E, W), NEW e \in E
    PROVE  /\ AddContent(t, e) \in Trees(E, W)
           /\ DOMAIN t \subseteq DOMAIN AddContent(t, e) /\ e.dir \in DOMAIN AddContent(t, e)
           /\ \A p \in DOMAIN AddContent(t, e) :
                 LET old == IF p \in DOMAIN t THEN t[p] ELSE <<>>
                 IN  AddContent(t, e)[p] = IF p = e.dir THEN <<e>> \o old ELSE old
  <1> DEFINE P == Prefixes(e.dir)
             old(p) == IF p \in DOMAIN t THEN t[p] ELSE <<>>
             new(p) == IF p = e.dir THEN <<e>> \o old(p) ELSE old(p)
  <1>1. AddContent(t, e) = [p \in DOMAIN t \cup P |-> new(p)]
    BY DEF AddContent, WithDir
  <1>2. e.dir \in P /\ P \subseteq Seq(W)
    <2>1. e.dir \in Seq(W) /\ Len(e.dir) \in Nat
      OBVIOUS
    <2>2. \A l \in 0 .. Len(e.dir) : SubSeq(e.dir, 1, l) \in Seq(W)
      <3> TAKE l \in 0 .. Len(e.dir)
      <3>1. 1 \in 1 .. Len(e.dir) + 1 /\ l \in 1 - 1 .. Len(e.dir)
        BY <2>1
      <3> QED
        BY <2>1, <3>1, PartIs
    <2>3. e.dir = SubSeq(e.dir, 1, Len(e.dir))
      <3> DEFINE s == e.dir
      <3>1. 1 \in 1 .. Len(s) + 1 /\ Len(s) \in 1 - 1 .. Len(s) /\ Len(s) - 1 + 1 = Len(s)
        BY <2>1
      <3>2. /\ SubSeq(s, 1, Len(s)) \in Seq(W) /\ Len(SubSeq(s, 1, Len(s))) = Len(s)
            /\ \A n \in 1 .. Len(s) : SubSeq(s, 1, Len(s))[n] = s[1 + n - 1]
        BY <2>1, <3>1, PartIs
      <3>3. \A n \in 1 .. Len(s) : 1 + n - 1 = n
        BY <2>1
      <3> HIDE DEF s
      <3> QED
        BY <2>1, <3>2, <3>3, SeqEqual DEF s
    <2>4. Len(e.dir) \in 0 .. Len(e.dir)
      BY <2>1
    <2> QED
      BY <2>2, <2>3, <2>4 DEF Prefixes
  <1>3. DOMAIN t \subseteq Seq(W) /\ \A p \in DOMAIN t : t[p] \in Seq(E)
    BY DEF Trees
  <1>4. \A p : old(p) \in Seq(E)
    BY <1>3
  <1>5. \A p : <<e>> \o old(p) \in Seq(E)
    <2>1. <<e>> \in Seq(E)
      OBVIOUS
    <2> HIDE DEF old
    <2> QED
      BY <1>4, <2>1, ConcatProperties
  <1>6. \A p : new(p) \in Seq(E)
    BY <1>4, <1>5
  <1>7. AddContent(t, e) \in [DOMAIN t \cup P -> Seq(E)] /\ DOMAIN t \cup P \in SUBSET Seq(W)
    <2> HIDE DEF new, P
    <2> QED
      BY <1>1, <1>2, <1>3, <1>6
  <1>8. AddContent(t, e) \in Trees(E, W)
    <2> HIDE DEF P
    <2> QED
      BY <1>7 DEF Trees
  <1> QED
    BY <1>1, <1>2, <1>8

\* The first of those a list begins with.
LEMMA FindFirst ==
    ASSUME NEW E, NEW es \in Seq(E), NEW e \in E, NEW name
    PROVE  FindContentEntry(<<e>> \o es, name) =
               IF Fits(e, name) THEN <<e>> ELSE FindContentEntry(es, name)
  <1> DEFINE l == <<e>> \o es
             A == {i \in DOMAIN es : Fits(es[i], name)}
             B == {i \in DOMAIN l : Fits(l[i], name)}
  <1>1. Inserted(l, E, es, 1, e)
    BY PrependedIs
  <1> HIDE DEF l
  <1>2. /\ l \in Seq(E) /\ Len(l) = Len(es) + 1 /\ l[1] = e
        /\ \A i \in 2 .. Len(es) + 1 : l[i] = es[i - 1]
    <2>1. 1 \in 1 .. Len(es) + 1
      OBVIOUS
    <2>2. \A i \in 2 .. Len(es) + 1 : i \in 1 .. Len(es) + 1 /\ ~(i < 1) /\ i # 1
      OBVIOUS
    <2>3. ~(1 < 1)
      OBVIOUS
    <2> QED
      BY <1>1, <2>1, <2>2, <2>3 DEF Inserted
  <1>3. Len(es) \in Nat /\ DOMAIN es = 1 .. Len(es) /\ DOMAIN l = 1 .. Len(es) + 1
    BY <1>2
  <1>4. FindContentEntry(l, name) = IF B = {} THEN <<>> ELSE <<l[Min(B)]>>
    BY DEF FindContentEntry
  <1>5. FindContentEntry(es, name) = IF A = {} THEN <<>> ELSE <<es[Min(A)]>>
    BY DEF FindContentEntry
  <1>6. \A i : i \in A <=> i \in 1 .. Len(es) /\ Fits(es[i], name)
    BY <1>3
  <1>7. \A i : i \in B <=> i \in 1 .. Len(es) + 1 /\ Fits(l[i], name)
    BY <1>3
  <1> HIDE DEF A, B
  <1>8. A \subseteq Nat /\ B \subseteq Nat
    BY <1>6, <1>7
  <1>9. CASE Fits(e, name)
    <2>1. 1 \in B
      BY <1>2, <1>3, <1>7, <1>9
    <2>2. Min(B) \in B /\ Min(B) <= 1
      BY <1>8, <2>1, MinIs
    <2>3. Min(B) = 1
      BY <1>7, <2>2
    <2> QED
      BY <1>2, <1>4, <1>9, <2>1, <2>3 DEF l
  <1>10. CASE ~Fits(e, name)
    <2>1. \A i \in A : i + 1 \in B
      <3> TAKE i \in A
      <3>1. i + 1 \in 2 .. Len(es) + 1 /\ (i + 1) - 1 = i /\ i + 1 \in 1 .. Len(es) + 1
        BY <1>3, <1>6
      <3> QED
        BY <1>2, <1>6, <1>7, <3>1
    <2>2. \A i \in B : i # 1 /\ i - 1 \in A /\ l[i] = es[i - 1]
      <3> TAKE i \in B
      <3>1. i # 1
        BY <1>2, <1>7, <1>10
      <3>2. i \in 2 .. Len(es) + 1 /\ i - 1 \in 1 .. Len(es)
        BY <1>3, <1>7, <3>1
      <3> QED
        BY <1>2, <1>6, <1>7, <3>1, <3>2
    <2>3. CASE A = {}
      BY <1>4, <1>5, <1>10, <2>2, <2>3 DEF l
    <2>4. CASE A # {}
      <3>1. B # {}
        BY <2>1, <2>4
      <3>2. /\ Min(A) \in A /\ \A i \in A : Min(A) <= i
            /\ Min(B) \in B /\ \A i \in B : Min(B) <= i
        BY <1>8, <2>4, <3>1, MinIs
      <3>3. Min(B) - 1 \in A /\ Min(A) + 1 \in B /\ l[Min(B)] = es[Min(B) - 1]
        BY <2>1, <2>2, <3>2
      <3>4. Min(B) - 1 = Min(A)
        <4>1. Min(A) \in Nat /\ Min(B) \in Nat /\ Min(A) <= Min(B) - 1 /\ Min(B) <= Min(A) + 1
          BY <1>8, <3>2, <3>3
        <4> QED
          BY <4>1
      <3> QED
        BY <1>4, <1>5, <1>10, <2>4, <3>1, <3>3, <3>4 DEF l
    <2> QED
      BY <2>3, <2>4
  <1> QED
    BY <1>9, <1>10

\* The last of the first k entries that are of a directory and fit a name.
Latest(calls, k, p, name) == {i \in 1 .. k : calls[i].dir = p /\ Fits(calls[i], name)}

\* What a tree finds there is the last of the entries that were added to it.
Finds(t, calls, k, p, name) ==
    (IF p \in DOMAIN t THEN FindContentEntry(t[p], name) ELSE <<>>)
        = IF Latest(calls, k, p, name) = {} THEN <<>> ELSE <<calls[Max(Latest(calls, k, p, name))]>>

LEMMA FindsOn ==
    ASSUME NEW W, NEW E, \A e \in E : e.dir \in Seq(W), NEW calls \in Seq(E),
           NEW k \in Nat, k + 1 <= Len(calls), NEW t \in Trees(E, W), NEW p, NEW name,
           Finds(t, calls, k, p, name)
    PROVE  Finds(AddContent(t, calls[k + 1]), calls, k + 1, p, name)
  <1> DEFINE e == calls[k + 1]
             u == AddContent(t, e)
             A == Latest(calls, k, p, name)
             B == Latest(calls, k + 1, p, name)
             old == IF p \in DOMAIN t THEN t[p] ELSE <<>>
             was == IF p \in DOMAIN t THEN FindContentEntry(t[p], name) ELSE <<>>
             is == IF p \in DOMAIN u THEN FindContentEntry(u[p], name) ELSE <<>>
  <1>1. k + 1 \in 1 .. Len(calls) /\ e \in E
    <2>1. k + 1 \in 1 .. Len(calls)
      OBVIOUS
    <2> QED
      BY <2>1
  <1>2. /\ DOMAIN t \subseteq DOMAIN u /\ e.dir \in DOMAIN u
        /\ p \in DOMAIN u => u[p] = IF p = e.dir THEN <<e>> \o old ELSE old
    <2> HIDE DEF e
    <2> QED
      BY <1>1, AddContentIs
  <1>3. old \in Seq(E)
    <2>1. \A q \in DOMAIN t : t[q] \in Seq(E)
      BY DEF Trees
    <2>2. <<>> \in Seq(E)
      OBVIOUS
    <2> QED
      BY <2>1, <2>2
  <1>4. FindContentEntry(<<>>, name) = <<>>
    <2>1. {i \in DOMAIN <<>> : Fits(<<>>[i], name)} = {}
      OBVIOUS
    <2> QED
      BY <2>1 DEF FindContentEntry
  <1>5. was = FindContentEntry(old, name)
    BY <1>4
  <1>6. A \subseteq Nat /\ B \subseteq Nat /\ A \in SUBSET (1 .. k) /\ B \in SUBSET (1 .. k + 1)
    BY DEF Latest
  <1>7. \A i : i \in A <=> i \in 1 .. k /\ calls[i].dir = p /\ Fits(calls[i], name)
    BY DEF Latest
  <1>8. \A i : i \in B <=> i \in 1 .. k + 1 /\ calls[i].dir = p /\ Fits(calls[i], name)
    BY DEF Latest
  <1>9. was = IF A = {} THEN <<>> ELSE <<calls[Max(A)]>>
    BY DEF Finds
  <1> HIDE DEF A, B, u, was, old
  <1>10. SUFFICES is = IF B = {} THEN <<>> ELSE <<calls[Max(B)]>>
    BY DEF Finds, B, u
  <1>11. CASE p = e.dir /\ Fits(e, name)
    <2>1. k + 1 \in B
      BY <1>8, <1>11
    <2>2. Max(B) \in B /\ k + 1 <= Max(B)
      <3>1. k + 1 \in Nat
        OBVIOUS
      <3> QED
        BY <1>6, <2>1, <3>1, MaxIs
    <2>3. Max(B) = k + 1
      <3>1. Max(B) \in 1 .. k + 1
        BY <1>6, <2>2
      <3> HIDE DEF e
      <3> QED
        BY <2>2, <3>1
    <2>4. is = FindContentEntry(<<e>> \o old, name)
      BY <1>2, <1>11
    <2>5. FindContentEntry(<<e>> \o old, name) = <<e>>
      <3> HIDE DEF e
      <3> QED
        BY <1>1, <1>3, <1>11, FindFirst
    <2> QED
      BY <2>1, <2>3, <2>4, <2>5
  <1>12. CASE ~(p = e.dir /\ Fits(e, name))
    <2>1. B = A
      <3>1. \A i : i \in 1 .. k + 1 <=> i \in 1 .. k \/ i = k + 1
        OBVIOUS
      <3> QED
        BY <1>7, <1>8, <1>12, <3>1
    <2>2. is = was
      <3>1. CASE p = e.dir
        <4>1. is = FindContentEntry(<<e>> \o old, name)
          BY <1>2, <3>1
        <4>2. FindContentEntry(<<e>> \o old, name) = FindContentEntry(old, name)
          <5> HIDE DEF e
          <5> QED
            BY <1>1, <1>3, <1>12, <3>1, FindFirst
        <4> QED
          BY <1>5, <4>1, <4>2
      <3>2. CASE p # e.dir /\ p \in DOMAIN u
        BY <1>2, <1>5, <3>2
      <3>3. CASE p \notin DOMAIN u
        <4>1. p \notin DOMAIN t
          BY <1>2, <3>3
        <4> QED
          BY <3>3, <4>1 DEF was
      <3> QED
        BY <3>1, <3>2, <3>3
    <2> QED
      BY <1>9, <2>1, <2>2
  <1> QED
    BY <1>11, <1>12

\* The tree finds, wherever and whatever is asked for, what was added last.
ContentInv ==
    /\ content \in Trees(Pages, Folders) /\ added \in Seq(Pages)
    /\ \A p, name : Finds(content, added, Len(added), p, name)

LEMMA NothingFound == ContentInit => ContentInv
  <1> SUFFICES ASSUME ContentInit
               PROVE  ContentInv
    OBVIOUS
  <1>1. content = Root /\ added = <<>> /\ Len(added) = 0
    BY DEF ContentInit
  <1>2. Root \in Trees(Pages, Folders)
    <2>1. <<>> \in Seq(Folders) /\ <<>> \in Seq(Pages)
      OBVIOUS
    <2>2. Root \in [{<<>>} -> Seq(Pages)] /\ {<<>>} \in SUBSET Seq(Folders)
      BY <2>1 DEF Root
    <2> QED
      BY <2>2 DEF Trees
  <1>3. added \in Seq(Pages)
    BY <1>1
  <1>4. ASSUME NEW p, NEW name
        PROVE  Finds(Root, added, 0, p, name)
    <2>1. Latest(added, 0, p, name) = {}
      BY DEF Latest
    <2>2. FindContentEntry(<<>>, name) = <<>>
      <3>1. {i \in DOMAIN <<>> : Fits(<<>>[i], name)} = {}
        OBVIOUS
      <3> QED
        BY <3>1 DEF FindContentEntry
    <2>3. \A q \in DOMAIN Root : Root[q] = <<>>
      BY DEF Root
    <2> QED
      BY <2>1, <2>2, <2>3 DEF Finds
  <1> QED
    BY <1>1, <1>2, <1>3, <1>4 DEF ContentInv

LEMMA AddsInv == ASSUME ContentInv, NEW e \in Pages, Adds(e) PROVE ContentInv'
  <1> DEFINE k == Len(added)
             calls == Append(added, e)
  <1>1. content' = AddContent(content, e) /\ added' = calls
    BY DEF Adds
  <1>2. content \in Trees(Pages, Folders) /\ added \in Seq(Pages)
    BY DEF ContentInv
  <1>3. /\ k \in Nat /\ calls \in Seq(Pages) /\ Len(calls) = k + 1
        /\ calls[k + 1] = e /\ \A i \in 1 .. k : calls[i] = added[i]
    BY <1>2
  <1>4. \A q \in Pages : q.dir \in Seq(Folders)
    BY PagesAssumption
  <1>5. content' \in Trees(Pages, Folders)
    BY <1>1, <1>2, <1>4, AddContentIs
  <1> HIDE DEF calls
  <1>6. ASSUME NEW p, NEW name
        PROVE  Finds(AddContent(content, e), calls, k + 1, p, name)
    <2>1. Finds(content, added, k, p, name)
      BY DEF ContentInv
    <2>2. Latest(calls, k, p, name) = Latest(added, k, p, name)
      BY <1>3 DEF Latest
    <2> DEFINE A == Latest(added, k, p, name)
    <2>3. A # {} => calls[Max(A)] = added[Max(A)]
      <3>1. A \in SUBSET (1 .. k)
        BY DEF Latest
      <3> HIDE DEF A
      <3>2. A # {} => Max(A) \in 1 .. k
        BY <1>3, <3>1, MaxIs
      <3> QED
        BY <1>3, <3>2
    <2>4. Finds(content, calls, k, p, name)
      BY <2>1, <2>2, <2>3 DEF Finds
    <2>5. k + 1 <= Len(calls)
      BY <1>3
    <2>6. Finds(AddContent(content, calls[k + 1]), calls, k + 1, p, name)
      <3> HIDE DEF k
      <3> QED
        BY <1>2, <1>3, <1>4, <2>4, <2>5, FindsOn
    <2> QED
      BY <1>3, <2>6
  <1> QED
    BY <1>1, <1>3, <1>5, <1>6 DEF ContentInv

\* Each call of httpdAdd...Content keeps what the tree finds in step with the
\* order of the calls.
THEOREM ContentInvariance == ContentSpec => []ContentInv
  <1>1. ContentInv /\ [ContentNext]_contentVars => ContentInv'
    <2> SUFFICES ASSUME ContentInv, [ContentNext]_contentVars
                 PROVE  ContentInv'
      OBVIOUS
    <2>1. CASE ContentNext
      BY <2>1, AddsInv DEF ContentNext
    <2>2. CASE UNCHANGED contentVars
      BY <2>2 DEF contentVars, ContentInv
    <2> QED
      BY <2>1, <2>2
  <1> QED
    BY <1>1, NothingFound, PTL DEF ContentSpec

\* Among all entries that were added, in whatever order and to whatever
\* directories, a request is answered by the last one it fits, and by none only
\* when it fits none: each httpdAdd...Content puts its entry in front of the
\* list of its directory and leaves every other list as it was.
LEMMA LatestIsFound == ASSUME ContentInv, NEW r PROVE LatestFound(r)
  <1>1. Finds(content, added, Len(added), r.dir, r.name) /\ added \in Seq(Pages)
    BY DEF ContentInv
  <1>2. DOMAIN added = 1 .. Len(added)
    BY <1>1
  <1>3. \A l : FindContentEntry(<<l>>[1], r.name) = FindContentEntry(l, r.name) /\ <<l>> # <<>>
    OBVIOUS
  <1> QED
    BY <1>1, <1>2, <1>3 DEF LatestFound, Finds, Latest, FindContentDir

\* A head and at most two parts of a body.
Answers(c) == {<<c>>, <<c, "text">>, <<c, "text", "text">>}

LEMMA AnswerIs ==
    ASSUME NEW c, c # "text", NEW out \in Answers(c)
    PROVE  out # <<>> /\ out[1] = c /\ \A i \in 2 .. Len(out) : out[i] = "text"
  BY DEF Answers

LEMMA AppendedTo ==
    ASSUME NEW a, NEW b
    PROVE  /\ Append(<<a>>, b) = <<a, b>> /\ Append(<<a, b>>, b) = <<a, b, b>>
  <1> DEFINE T == {a, b}
             one == Append(<<a>>, b)
             two == Append(<<a, b>>, b)
  <1>1. a \in T /\ b \in T
    OBVIOUS
  <1> HIDE DEF T
  <1>2. /\ <<a>> \in Seq(T) /\ Len(<<a>>) = 1
        /\ <<a, b>> \in Seq(T) /\ Len(<<a, b>>) = 2
        /\ <<a, b, b>> \in Seq(T) /\ Len(<<a, b, b>>) = 3
    BY <1>1
  <1>3. one \in Seq(T) /\ Len(one) = 2
    BY <1>1, <1>2, AppendProperties
  <1>4. one[1] = a
    <2>1. 1 \in 1 .. Len(<<a>>) /\ <<a>>[1] = a
      BY <1>2
    <2> QED
      BY <1>1, <1>2, <2>1, AppendProperties
  <1>5. one[2] = b
    <2>1. one[Len(<<a>>) + 1] = b /\ Len(<<a>>) + 1 = 2
      BY <1>1, <1>2, AppendProperties
    <2> QED
      BY <2>1
  <1>6. two \in Seq(T) /\ Len(two) = 3
    BY <1>1, <1>2, AppendProperties
  <1>7. two[1] = a /\ two[2] = b
    <2>1. 1 \in 1 .. Len(<<a, b>>) /\ 2 \in 1 .. Len(<<a, b>>) /\ <<a, b>>[1] = a /\ <<a, b>>[2] = b
      BY <1>2
    <2> QED
      BY <1>1, <1>2, <2>1, AppendProperties
  <1>8. two[3] = b
    <2>1. two[Len(<<a, b>>) + 1] = b /\ Len(<<a, b>>) + 1 = 3
      BY <1>1, <1>2, AppendProperties
    <2> QED
      BY <2>1
  <1> HIDE DEF one, two
  <1>9. one = <<a, b>>
    <2>1. \A i \in 1 .. 2 : one[i] = <<a, b>>[i]
      BY <1>4, <1>5
    <2> QED
      BY <1>2, <1>3, <2>1, SeqEqual
  <1>10. two = <<a, b, b>>
    <2>1. \A i \in 1 .. 3 : two[i] = <<a, b, b>>[i]
      BY <1>7, <1>8
    <2> QED
      BY <1>2, <1>6, <2>1, SeqEqual
  <1> QED
    BY <1>9, <1>10 DEF one, two

LEMMA OutputIs ==
    ASSUME NEW c, NEW d
    PROVE  /\ Output(<<>>, c) = <<c, "text">> /\ Output(<<d>>, c) = <<d, "text">>
           /\ Output(<<d, "text">>, c) = <<d, "text", "text">>
           /\ SendHeaders(<<>>, c) = <<c>> /\ SendHeaders(<<d>>, c) = <<d>>
  <1>1. <<d>> # <<>> /\ <<d, "text">> # <<>>
    OBVIOUS
  <1> QED
    BY <1>1, AppendedTo DEF Output, SendHeaders

\* An error has an answer of its code, and a body with "not modified" only if
\* the program writes the page.
LEMMA ErrorIs ==
    ASSUME NEW errors, NEW code \in {"304", "404"}
    PROVE  LET out == SendError(code, errors)
           IN  \/ out = <<>>
               \/ out = <<code>>
               \/ out = <<code, "text">> /\ (code = "304" => "304" \in DOMAIN errors)
  BY OutputIs DEF SendError

\* An answer is one head and then its body, and "not modified" has a body only
\* for static data or by a page of the program: however a request ends, the
\* parts that each may send the headers (httpdOutput, httpdSendFile, _httpd_send304,
\* _httpd_send404) send them once and before anything else.
LEMMA AnswerIsFormed == ASSUME ContentInv, NEW r, NEW errors PROVE AnswerFormed(r, errors)
  <1> DEFINE dir == FindContentDir(content, r.dir)
             found == IF dir = <<>> THEN <<>> ELSE FindContentEntry(dir[1], r.name)
             out == ProcessRequest(content, r, errors)
             e == found[1]
             S == {i \in DOMAIN added : added[i].dir = r.dir /\ Fits(added[i], r.name)}
  <1>1. found = IF S = {} THEN <<>> ELSE <<added[Max(S)]>>
    <2>1. LatestFound(r)
      BY LatestIsFound
    <2> QED
      BY <2>1 DEF LatestFound
  <1>2. found # <<>> => /\ e \in ToSet(added)
                        /\ e.type \in {"C_FUNCT", "C_WILDCARD", "FILE", "WILDCARD", "STATIC"}
    <2> SUFFICES ASSUME found # <<>>
                 PROVE  /\ e \in ToSet(added)
                        /\ e.type \in {"C_FUNCT", "C_WILDCARD", "FILE", "WILDCARD", "STATIC"}
      OBVIOUS
    <2> DEFINE m == Max(S)
    <2>1. S \in SUBSET (1 .. Len(added)) /\ Len(added) \in Nat /\ DOMAIN added = 1 .. Len(added)
      <3>1. added \in Seq(Pages)
        BY DEF ContentInv
      <3> QED
        BY <3>1
    <2>2. S # {} /\ found = <<added[m]>>
      BY <1>1
    <2> HIDE DEF found, S
    <2>3. m \in 1 .. Len(added)
      BY <2>1, <2>2, MaxIs
    <2> HIDE DEF m
    <2>4. added[m] \in ToSet(added)
      BY <2>1, <2>3 DEF ToSet
    <2>5. added[m] \in Pages
      BY <2>1, <2>3 DEF ContentInv
    <2> QED
      BY <2>2, <2>4, <2>5, PagesAssumption
  <1>3. \/ out = SendError("404", errors)
        \/ out = <<>>
        \/ out = Function(r)
        \/ found # <<>> /\ out = SendFile(e, r, errors)
        \/ found # <<>> /\ e.type = "STATIC" /\ out = SendStatic(r, errors)
    <2>1. CASE found = <<>>
      BY <2>1 DEF ProcessRequest
    <2>2. CASE found # <<>>
      <3>1. out = CASE e.preload = "ends" -> <<>>
                    [] e.preload # "ends" /\ e.type \in {"C_FUNCT", "C_WILDCARD"} -> Function(r)
                    [] e.preload # "ends" /\ e.type \in {"FILE", "WILDCARD"} -> SendFile(e, r, errors)
                    [] OTHER -> SendStatic(r, errors)
        BY <2>2 DEF ProcessRequest
      <3> HIDE DEF out, found
      <3>2. CASE e.preload = "ends"
        BY <3>1, <3>2
      <3>3. CASE e.preload # "ends" /\ e.type \in {"C_FUNCT", "C_WILDCARD"}
        BY <3>1, <3>3
      <3>4. CASE e.preload # "ends" /\ e.type \in {"FILE", "WILDCARD"}
        BY <2>2, <3>1, <3>4
      <3>5. CASE e.preload # "ends" /\ e.type = "STATIC"
        BY <2>2, <3>1, <3>5
      <3> QED
        BY <1>2, <2>2, <3>2, <3>3, <3>4, <3>5
    <2> QED
      BY <2>1, <2>2
  <1> DEFINE Bodied == "304" \in DOMAIN errors \/ \E x \in ToSet(added) : x.type = "STATIC"
  <1> HIDE DEF out, found, S
  <1>4. \/ out = <<>>
        \/ \E c \in {"200", "401", "404"} : out \in Answers(c)
        \/ out = <<"304">>
        \/ out \in Answers("304") /\ Bodied
    <2> HIDE DEF Bodied
    <2>1. CASE out = SendError("404", errors)
      BY <2>1, ErrorIs DEF Answers
    <2>2. CASE out = SendError("304", errors)
      BY <2>2, ErrorIs DEF Answers, Bodied
    <2>3. CASE out = <<"200", "text">> \/ out = <<"401", "text">>
      BY <2>3 DEF Answers
    <2>4. CASE out = Function(r)
      BY <2>3, <2>4, OutputIs DEF Function
    <2>5. CASE found # <<>> /\ out = SendFile(e, r, errors)
      <3>1. Append(SendHeaders(<<>>, "200"), "text") = <<"200", "text">>
        BY OutputIs DEF Output
      <3>2. out \in {SendError("404", errors), SendError("304", errors), <<"200", "text">>}
        BY <2>5, <3>1 DEF SendFile
      <3> QED
        BY <2>1, <2>2, <2>3, <3>2
    <2>6. CASE found # <<>> /\ e.type = "STATIC" /\ out = SendStatic(r, errors)
      <3>1. Bodied
        BY <1>2, <2>6 DEF Bodied
      <3>2. CASE ~r.since
        BY <2>3, <2>6, <3>2, OutputIs DEF SendStatic
      <3>3. CASE r.since
        <4>1. out = Output(SendError("304", errors), "304")
          BY <2>6, <3>3 DEF SendStatic
        <4>2. SendError("304", errors) \in {<<>>, <<"304">>, <<"304", "text">>}
          BY ErrorIs
        <4>3. out \in {<<"304", "text">>, <<"304", "text", "text">>}
          BY <4>1, <4>2, OutputIs
        <4> QED
          BY <3>1, <4>3 DEF Answers
      <3> QED
        BY <3>2, <3>3
    <2> QED
      BY <1>3, <2>1, <2>4, <2>5, <2>6
  <1> HIDE DEF Bodied
  <1>5. out # <<>> => /\ out[1] # "text" /\ \A i \in 2..Len(out) : out[i] = "text"
                      /\ out[1] = "304" /\ Len(out) > 1 => Bodied
    <2>1. CASE \E c \in {"200", "401", "404"} : out \in Answers(c)
      BY <2>1, AnswerIs
    <2>2. CASE out = <<"304">>
      <3>1. Len(out) = 1 /\ out[1] = "304" /\ \A i \in 2 .. 1 : FALSE
        BY <2>2
      <3> QED
        BY <3>1
    <2>3. CASE out \in Answers("304") /\ Bodied
      BY <2>3, AnswerIs
    <2> QED
      BY <1>4, <2>1, <2>2, <2>3
  <1> QED
    BY <1>5 DEF AnswerFormed, out, Bodied

\* Whatever was added, whatever is asked for and whatever the program does
\* about errors, a request is served by the entry added last among those it
\* fits, by one head and then a body (httpdProcessRequest).
THEOREM LatestIsServed == ContentSpec => []LatestServed
  <1>1. ContentInv => LatestServed
    BY LatestIsFound, AnswerIsFormed DEF LatestServed
  <1> QED
    BY <1>1, ContentInvariance, PTL
=============================================================================
