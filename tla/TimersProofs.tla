----------------------------- MODULE TimersProofs -----------------------------
(***************************************************************************)
(* Proofs about Timers, for every number of timers and every scale of      *)
(* time: how far the order of the list may be from that of the instants,   *)
(* that a timer has one entry on the lists while it is on and none         *)
(* otherwise, and that the lists are the armed timers of Alarms.           *)
(***************************************************************************)
EXTENDS Timers, FiniteSetTheorems, SequenceTheorems, TLAPS

-----------------------------------------------------------------------------
(* The invariant.                                                          *)

\* A struct timeval in which add_timer may have left a full second.
Timeval == [s : Nat, us : 0 .. Sec]

\* The times an entry may have: none is later than an interval after the last
\* the clock shows.
Reach == {at \in Timeval : \E iv \in Intervals : Ticks(at) <= Horizon + iv * Ms}

Entry == [timer : Timers, at : Reach, left : (Nat \ {0}) \cup {Forever}]

Entries(l) == {l[n] : n \in DOMAIN l}

\* An entry may come after one that is later, by less than a millisecond: what
\* tvcmp says of three times need not agree.
Ordered(l) == \A m, n \in DOMAIN l : m < n => Ticks(l[m].at) < Ticks(l[n].at) + Ms

Single(l) == \A m, n \in DOMAIN l : l[m].timer = l[n].timer => m = n

\* The entries of lists l and p: of timers that exist, one for each.
Lists(l, p) ==
    /\ l \in Seq(Entry) /\ p \in Seq(Entry)
    /\ Single(l) /\ Single(p)
    /\ \A e \in Entries(l), d \in Entries(p) : e.timer # d.timer
    /\ Ordered(l)

Held == Entries(list) \cup Entries(pending)

\* Started and not stopped since are the timers of these entries.
OnHeld == on = {e.timer : e \in Held}

\* Between two steps of the program, of a pass and of the clock.
IInv ==
    /\ interval \in [Existing -> Intervals] /\ Existing \subseteq Timers
    /\ Lists(list, pending)
    /\ \A e \in Entries(list) \cup Entries(pending) : e.timer \in Existing
    /\ OnHeld
    /\ now \in Clock /\ tv \in Clock
    /\ pc \in {"idle", "check", "call", "merge"} /\ wait \in Int

-----------------------------------------------------------------------------
(* Arithmetic.                                                             *)

LEMMA DivMod ==
    ASSUME NEW a \in Nat, NEW b \in Nat \ {0}
    PROVE  a \div b \in Nat /\ a % b \in 0 .. b - 1 /\ a = ((a \div b) * b) + (a % b)
  OBVIOUS

\* Ticks compare as their milliseconds do.
LEMMA Scaled ==
    ASSUME NEW a \in Int, NEW b \in Int, a * Ms < b * Ms
    PROVE  a < b
  BY ScaleAssumption

LEMMA SecIs == Sec \in Nat \ {0} /\ Ms <= Sec
  BY ScaleAssumption DEF Sec

\* A quotient of C is off by less than one, and not too large if positive.
LEMMA TruncIs ==
    ASSUME NEW a \in Int
    PROVE  /\ Trunc(a, Ms) \in Int
           /\ Trunc(a, Ms) * Ms - a < Ms
           /\ a - Trunc(a, Ms) * Ms < Ms
           /\ a >= 0 => Trunc(a, Ms) * Ms <= a
  BY ScaleAssumption, DivMod DEF Trunc

LEMMA Int32Is ==
    ASSUME NEW a \in Int, -IntHalf <= a, a < IntHalf
    PROVE  Int32(a) = a
  BY ScaleAssumption DEF Int32

\* d seconds and q milliseconds, in milliseconds and in ticks.
LEMMA SecondsAnd ==
    ASSUME NEW d \in Int, NEW q \in Int
    PROVE  (d * MsPerSec + q) * Ms = d * Sec + q * Ms
  BY ScaleAssumption DEF Sec

\* No difference of two times that occur is too large for an int.
LEMMA Fits ==
    ASSUME NEW x \in Int, NEW iv \in Intervals, NEW d \in Int,
           x * Ms - d < Ms, d - x * Ms < Ms,
           d <= Horizon + iv * Ms, -d <= Horizon + iv * Ms
    PROVE  Int32(x) = x
  <1>1. Horizon + iv * Ms + Ms < IntHalf * Ms
    <2>1. Horizon + iv * Ms + 2 * MsPerSec * Ms < IntHalf * Ms
      BY WidthAssumption
    <2>2. Ms <= 2 * MsPerSec * Ms
      BY ScaleAssumption
    <2> QED
      BY <2>1, <2>2, ScaleAssumption, IntervalsAssumption, HorizonAssumption
  <1> DEFINE i == iv * Ms
             h == IntHalf * Ms
             y == x * Ms
  <1>2. i \in Nat /\ h \in Nat /\ y \in Int
    BY ScaleAssumption, IntervalsAssumption
  <1>3. y < h /\ -h < y
    <2> HIDE DEF i, h, y
    <2>1. y - d < Ms /\ d - y < Ms /\ d <= Horizon + i /\ -d <= Horizon + i /\ Horizon + i + Ms < h
      BY <1>1 DEF i, h, y
    <2> QED
      BY <1>2, <2>1, ScaleAssumption, HorizonAssumption
  <1>4. x < IntHalf
    BY <1>3, Scaled, ScaleAssumption
  <1>5. -IntHalf < x
    <2>1. (-IntHalf) * Ms < x * Ms
      BY <1>3, ScaleAssumption
    <2> QED
      BY <2>1, Scaled, ScaleAssumption
  <1> QED
    BY <1>4, <1>5, Int32Is, ScaleAssumption

-----------------------------------------------------------------------------
(* Times.                                                                  *)

LEMMA TicksIs ==
    ASSUME NEW a \in Timeval
    PROVE  a.s \in Nat /\ a.us \in 0 .. Sec /\ Ticks(a) \in Nat /\ Ticks(a) = a.s * Sec + a.us
  BY SecIs DEF Timeval, Ticks

\* The difference of two times, in ticks.
LEMMA Difference ==
    ASSUME NEW a \in Timeval, NEW b \in Timeval, NEW c \in Int
    PROVE  Ticks(a) - Ticks(b) = (a.s - c - b.s) * Sec + (a.us - b.us + c * Sec)
  <1>1. a.s \in Nat /\ b.s \in Nat /\ a.us \in Nat /\ b.us \in Nat /\ Sec \in Nat
    BY TicksIs, SecIs
  <1> HIDE DEF Sec
  <1> QED
    BY <1>1 DEF Ticks

\* What tvcmp says of two times no further apart than times here are: less
\* means earlier; not less may be earlier by less than a millisecond.
LEMMA Compares ==
    ASSUME NEW a \in Timeval, NEW b \in Timeval, NEW iv \in Intervals,
           Ticks(a) - Ticks(b) <= Horizon + iv * Ms,
           Ticks(b) - Ticks(a) <= Horizon + iv * Ms
    PROVE  /\ tvcmp(a, b) \in Int
           /\ tvcmp(a, b) < 0 => Ticks(a) < Ticks(b)
           /\ tvcmp(a, b) >= 0 => Ticks(b) < Ticks(a) + Ms
  <1> DEFINE ds == a.s - b.s
             du == a.us - b.us
             q == Trunc(du, Ms)
             x == ds * MsPerSec + q
             d == Ticks(a) - Ticks(b)
             p == q * Ms
             y == x * Ms
  <1>1. a.s \in Nat /\ b.s \in Nat /\ a.us \in Nat /\ b.us \in Nat /\ Ms \in Nat \ {0}
    BY TicksIs, SecIs, ScaleAssumption
  <1>2. ds \in Int /\ du \in Int /\ d \in Int
    BY <1>1, TicksIs
  <1>3. q \in Int /\ p - du < Ms /\ du - p < Ms
    BY <1>2, TruncIs
  <1>4. x \in Int
    BY <1>2, <1>3, ScaleAssumption
  <1>5. y = ds * Sec + p
    BY <1>2, <1>3, SecondsAnd
  <1>6. d = ds * Sec + du
    <2>1. d = (a.s - 0 - b.s) * Sec + (a.us - b.us + 0 * Sec)
      BY Difference
    <2> QED
      BY <1>1, <2>1, SecIs
  <1>7. p \in Int /\ y \in Int /\ ds * Sec \in Int
    BY <1>1, <1>2, <1>3, <1>4, SecIs
  <1>8. y - d < Ms /\ d - y < Ms
    <2> DEFINE e == ds * Sec
    <2> HIDE DEF e, y, p, d, du
    <2>1. y = e + p /\ d = e + du /\ e \in Int
      BY <1>5, <1>6, <1>7 DEF e
    <2> QED
      BY <2>1, <1>1, <1>2, <1>3, <1>7
  <1>9. Int32(x) = x
    <2>1. -d = Ticks(b) - Ticks(a)
      BY TicksIs
    <2> HIDE DEF x
    <2> QED
      BY <1>2, <1>4, <1>8, <2>1, Fits
  <1>10. tvcmp(a, b) = x
    BY <1>9 DEF tvcmp
  <1>11. x < 0 => y <= -Ms
    BY <1>1, <1>4
  <1>12. x >= 0 => y >= 0
    BY <1>1, <1>4
  <1>13. Ticks(a) \in Nat /\ Ticks(b) \in Nat
    BY TicksIs
  <1> HIDE DEF x, y
  <1>14. tvcmp(a, b) < 0 => d < 0
    BY <1>1, <1>2, <1>4, <1>7, <1>8, <1>10, <1>11
  <1>15. tvcmp(a, b) >= 0 => -Ms < d
    BY <1>1, <1>2, <1>4, <1>7, <1>8, <1>10, <1>12
  <1> QED
    BY <1>1, <1>4, <1>10, <1>13, <1>14, <1>15

\* The wait that timer_check_timeout returns: a whole number of milliseconds,
\* rounded down.
LEMMA Waits ==
    ASSUME NEW a \in Timeval, NEW b \in Timeval, NEW iv \in Intervals,
           Ticks(a) - Ticks(b) <= Horizon + iv * Ms,
           Ticks(b) - Ticks(a) <= Horizon + iv * Ms
    PROVE  MsUntil(a, b) \in Int /\ MsUntil(a, b) * Ms <= Ticks(a) - Ticks(b)
  <1> DEFINE c == IF a.us < b.us THEN 1 ELSE 0
             ds == a.s - c - b.s
             du == a.us - b.us + c * Sec
             q == Trunc(du, Ms)
             x == ds * MsPerSec + q
             d == Ticks(a) - Ticks(b)
             p == q * Ms
             y == x * Ms
  <1>1. /\ a.s \in Nat /\ b.s \in Nat /\ a.us \in 0 .. Sec /\ b.us \in 0 .. Sec
        /\ Ms \in Nat \ {0} /\ Sec \in Nat \ {0}
    BY TicksIs, SecIs, ScaleAssumption
  <1>2. c \in 0 .. 1 /\ ds \in Int /\ du \in Nat /\ d \in Int
    <2> HIDE DEF Sec
    <2> QED
      BY <1>1, TicksIs
  <1>3. q \in Int /\ p - du < Ms /\ du - p < Ms /\ p <= du
    BY <1>2, TruncIs
  <1>4. x \in Int
    BY <1>2, <1>3, ScaleAssumption
  <1>5. y = ds * Sec + p
    BY <1>2, <1>3, SecondsAnd
  <1>6. d = ds * Sec + du
    BY <1>2, Difference
  <1>7. p \in Int /\ y \in Int /\ ds * Sec \in Int
    BY <1>1, <1>2, <1>3, <1>4, SecIs
  <1>8. y - d < Ms /\ d - y < Ms /\ y <= d
    <2> DEFINE e == ds * Sec
    <2> HIDE DEF e, y, p, d, du
    <2>1. y = e + p /\ d = e + du /\ e \in Int
      BY <1>5, <1>6, <1>7 DEF e
    <2> QED
      BY <2>1, <1>1, <1>2, <1>3, <1>7
  <1>9. Int32(x) = x
    <2>1. -d = Ticks(b) - Ticks(a)
      BY TicksIs
    <2> HIDE DEF x
    <2> QED
      BY <1>2, <1>4, <1>8, <2>1, Fits
  <1>10. MsUntil(a, b) = x
    BY <1>9 DEF MsUntil
  <1> QED
    BY <1>4, <1>8, <1>10

\* The clock shows times of less than a full second of microseconds.
LEMMA ClockIs ==
    ASSUME NEW t \in Clock
    PROVE  t \in Timeval /\ t.us < Sec /\ Ticks(t) \in 0 .. Horizon
  <1>1. PICK n \in 0 .. Horizon : t = [s |-> n \div Sec, us |-> n % Sec]
    BY DEF Clock
  <1>2. n \in Nat /\ Sec \in Nat \ {0}
    BY SecIs, HorizonAssumption
  <1>3. n \div Sec \in Nat /\ n % Sec \in 0 .. Sec - 1 /\ n = ((n \div Sec) * Sec) + (n % Sec)
    BY <1>2, DivMod
  <1> QED
    BY <1>1, <1>2, <1>3 DEF Timeval, Ticks

LEMMA ZeroIsTime == Zero \in Clock
  <1>1. 0 \div Sec = 0 /\ 0 % Sec = 0
    BY SecIs
  <1>2. 0 \in 0 .. Horizon
    BY HorizonAssumption
  <1> QED
    BY <1>1, <1>2 DEF Clock, Zero

\* add_timer adds the interval, whether or not it carries a full second.
LEMMA DeadlineIs ==
    ASSUME NEW t \in Clock, NEW iv \in Intervals
    PROVE  Deadline(t, iv) \in Reach /\ Ticks(Deadline(t, iv)) = Ticks(t) + iv * Ms
  <1> DEFINE r == iv % MsPerSec
             v == iv \div MsPerSec
             u == r * Ms
             us == t.us + u
             carry == IF us > Sec THEN 1 ELSE 0
  <1>1. /\ t.s \in Nat /\ t.us \in 0 .. Sec - 1 /\ Sec \in Nat \ {0} /\ Ms \in Nat \ {0}
        /\ iv \in Nat /\ MsPerSec \in Nat \ {0}
    BY ClockIs, TicksIs, SecIs, ScaleAssumption, IntervalsAssumption
  <1>2. v \in Nat /\ r \in 0 .. MsPerSec - 1 /\ iv = (v * MsPerSec) + r
    BY <1>1, DivMod
  <1>3. u \in Nat /\ u <= Sec
    BY <1>1, <1>2 DEF Sec
  <1>4. iv * Ms = v * Sec + u
    BY <1>1, <1>2, SecondsAnd
  <1>5. Deadline(t, iv) = [s |-> t.s + v + carry, us |-> us - carry * Sec]
    BY DEF Deadline
  <1> HIDE DEF r, v, u, Sec
  <1>6. carry \in 0 .. 1 /\ us - carry * Sec \in 0 .. Sec
    BY <1>1, <1>3
  <1>7. Deadline(t, iv) \in Timeval
    BY <1>1, <1>2, <1>5, <1>6 DEF Timeval
  <1>8. Ticks(Deadline(t, iv)) = Ticks(t) + iv * Ms
    <2>1. Ticks(Deadline(t, iv)) = (t.s + v + carry) * Sec + (us - carry * Sec)
      BY <1>5 DEF Ticks
    <2>2. Ticks(t) = t.s * Sec + t.us
      BY DEF Ticks
    <2> DEFINE i == iv * Ms
    <2>3. i = v * Sec + u
      BY <1>4
    <2> SUFFICES Ticks(Deadline(t, iv)) = Ticks(t) + i
      OBVIOUS
    <2> HIDE DEF carry, i
    <2>4. CASE carry = 0
      BY <1>1, <1>2, <1>3, <2>1, <2>2, <2>3, <2>4
    <2>5. CASE carry = 1
      <3>1. (t.s + v + 1) * Sec = t.s * Sec + v * Sec + Sec
        BY <1>1, <1>2
      <3> QED
        BY <1>1, <1>2, <1>3, <2>1, <2>2, <2>3, <2>5, <3>1
    <2> QED
      BY <1>6, <2>4, <2>5
  <1>9. Ticks(t) <= Horizon /\ Ticks(t) \in Nat
    BY ClockIs
  <1>10. Ticks(Deadline(t, iv)) <= Horizon + iv * Ms
    <2>1. iv * Ms \in Nat
      BY <1>1
    <2> QED
      BY <1>8, <1>9, <2>1, HorizonAssumption
  <1> QED
    BY <1>7, <1>8, <1>10 DEF Reach

LEMMA ReachIs ==
    ASSUME NEW at \in Reach
    PROVE  /\ at \in Timeval /\ Ticks(at) \in Nat
           /\ \E iv \in Intervals : iv * Ms \in Nat /\ Ticks(at) <= Horizon + iv * Ms
  BY TicksIs, ScaleAssumption, IntervalsAssumption DEF Reach

\* While a timer exists, the clock may be what it is set to.
LEMMA ClockInReach ==
    ASSUME NEW t \in Clock, NEW iv \in Intervals
    PROVE  t \in Reach
  <1>1. iv * Ms \in Nat
    BY ScaleAssumption, IntervalsAssumption
  <1> QED
    BY <1>1, ClockIs, HorizonAssumption DEF Reach

\* The comparisons of the code are between times that occur.
LEMMA ReachCompares ==
    ASSUME NEW a \in Clock \cup Reach, NEW b \in Reach
    PROVE  /\ tvcmp(a, b) \in Int
           /\ tvcmp(a, b) < 0 => Ticks(a) < Ticks(b)
           /\ tvcmp(a, b) >= 0 => Ticks(b) < Ticks(a) + Ms
  <1>1. PICK iv \in Intervals : iv * Ms \in Nat /\ Ticks(b) <= Horizon + iv * Ms
    BY ReachIs
  <1>2. \E iw \in Intervals : iw * Ms \in Nat /\ Ticks(a) <= Horizon + iw * Ms
    BY <1>1, ReachIs, ClockIs, HorizonAssumption
  <1>3. PICK iw \in Intervals : iw * Ms \in Nat /\ Ticks(a) <= Horizon + iw * Ms
    BY <1>2
  <1>4. /\ a \in Timeval /\ b \in Timeval /\ Ticks(a) \in Nat /\ Ticks(b) \in Nat
    BY ReachIs, ClockIs
  <1>5. CASE iv * Ms <= iw * Ms
    BY <1>1, <1>3, <1>4, <1>5, Compares, HorizonAssumption
  <1>6. CASE iw * Ms <= iv * Ms
    BY <1>1, <1>3, <1>4, <1>6, Compares, HorizonAssumption
  <1> QED
    BY <1>1, <1>3, <1>5, <1>6

-----------------------------------------------------------------------------
(* Lists.                                                                  *)

\* A set of natural numbers that is not empty has a lowest one.
LEMMA Lowest ==
    ASSUME NEW S, S \subseteq Nat, S # {}
    PROVE  \E f \in S : \A g \in S : f <= g
  <1>1. PICK m \in S : TRUE
    OBVIOUS
  <1> DEFINE T == {0 .. f : f \in {g \in S : g <= m}}
             R == StrictSubsetOrdering(0 .. m)
  <1>2. FiniteSubsetsOf(0 .. m) = SUBSET (0 .. m)
    <2>1. IsFiniteSet(0 .. m)
      BY <1>1, FS_Interval
    <2> QED
      BY <2>1, FS_FiniteSubsetsOfFinite
  <1>3. IsWellFoundedOn(R, SUBSET (0 .. m))
    BY <1>2, FS_StrictSubsetOrderingWellFounded
  <1>4. T \subseteq SUBSET (0 .. m) /\ T # {}
    BY <1>1
  <1>5. PICK I \in T : \A J \in T : ~(<<J, I>> \in R)
    <2> HIDE DEF T, R
    <2> QED
      BY <1>3, <1>4, WFMin, Zenon
  <1>6. PICK f \in S : f <= m /\ I = 0 .. f
    BY <1>5
  <1>7. ASSUME NEW g \in S, g < f
        PROVE  FALSE
    <2>1. g <= m /\ (0 .. g) \in T
      BY <1>1, <1>6, <1>7
    <2>2. f \in 0 .. f /\ f \notin 0 .. g
      BY <1>7
    <2>3. (0 .. g) \subseteq (0 .. f) /\ (0 .. g) # (0 .. f)
      BY <2>2, <1>7
    <2>4. <<0 .. g, 0 .. f>> \in R
      BY <2>1, <2>3, <1>4, <1>6 DEF StrictSubsetOrdering
    <2> QED
      BY <1>5, <1>6, <2>1, <2>4
  <1> QED
    BY <1>6, <1>7

\* A set of places with all that come before each of them is a prefix.
LEMMA Prefix ==
    ASSUME NEW N \in Nat, NEW S \in SUBSET (1 .. N),
           \A n \in S : \A m \in 1 .. n : m \in S
    PROVE  Cardinality(S) \in 0 .. N /\ S = 1 .. Cardinality(S)
  <1> DEFINE k == Cardinality(S)
  <1>1. IsFiniteSet(1 .. N) /\ Cardinality(1 .. N) = N
    BY FS_Interval
  <1>2. IsFiniteSet(S) /\ k <= N /\ k \in Nat
    BY <1>1, FS_Subset, FS_CardinalityType
  <1>3. \A n \in S : n <= k
    <2> TAKE n \in S
    <2>1. (1 .. n) \in SUBSET S
      OBVIOUS
    <2>2. Cardinality(1 .. n) = n
      BY FS_Interval
    <2> QED
      BY <1>2, <2>1, <2>2, FS_Subset
  <1>4. S \in SUBSET (1 .. k)
    BY <1>2, <1>3
  <1>5. IsFiniteSet(1 .. k) /\ Cardinality(1 .. k) = k
    BY <1>2, FS_Interval
  <1>6. S = 1 .. k
    <2> HIDE DEF k
    <2> QED
      BY <1>4, <1>5, FS_Subset DEF k
  <1> QED
    BY <1>2, <1>6

\* The part of a list from place a to place b.
LEMMA PartIs ==
    ASSUME NEW T, NEW l \in Seq(T), NEW a \in 1 .. Len(l) + 1, NEW b \in a - 1 .. Len(l)
    PROVE  /\ SubSeq(l, a, b) \in Seq(T) /\ Len(SubSeq(l, a, b)) = b - a + 1
           /\ \A n \in 1 .. b - a + 1 : SubSeq(l, a, b)[n] = l[a + n - 1]
  <1>1. Len(l) \in Nat /\ a \in Int /\ b \in Int
    OBVIOUS
  <1>2. \A n \in a .. b : l[n] \in T
    BY <1>1
  <1>3. /\ SubSeq(l, a, b) \in Seq(T)
        /\ Len(SubSeq(l, a, b)) = IF a <= b THEN b - a + 1 ELSE 0
        /\ \A n \in 1 .. b - a + 1 : SubSeq(l, a, b)[n] = l[a + n - 1]
    BY <1>1, <1>2, SubSeqProperties
  <1> QED
    BY <1>1, <1>3

\* A list l with e in place k + 1.
With(new, l, e, k) ==
    /\ new \in Seq(Entry) /\ Len(new) = Len(l) + 1
    /\ \A n \in 1 .. Len(l) + 1 :
           new[n] = IF n <= k THEN l[n] ELSE IF n = k + 1 THEN e ELSE l[n - 1]

LEMMA InsertAtIs ==
    ASSUME NEW l \in Seq(Entry), NEW e \in Entry, NEW k \in 0 .. Len(l), NEW i, i = k + 1
    PROVE  With(InsertAt(l, i, e), l, e, k)
  <1> DEFINE L == Len(l)
             one == SubSeq(l, 1, k)
             two == SubSeq(l, k + 1, L)
             lone == one \o <<e>>
  <1>1. L \in Nat /\ k \in 0 .. L /\ i - 1 = k
    OBVIOUS
  <1>2. one \in Seq(Entry) /\ Len(one) = k /\ \A n \in 1 .. k : one[n] = l[n]
    BY <1>1
  <1>3. two \in Seq(Entry) /\ Len(two) = L - k /\ \A n \in 1 .. L - k : two[n] = l[k + n]
    <2>1. /\ two \in Seq(Entry) /\ Len(two) = L - (k + 1) + 1
          /\ \A n \in 1 .. L - (k + 1) + 1 : two[n] = l[k + 1 + n - 1]
      BY <1>1, PartIs
    <2> HIDE DEF two, L
    <2> QED
      BY <1>1, <2>1
  <1>4. InsertAt(l, i, e) = lone \o two
    <2>1. InsertAt(l, i, e) = SubSeq(l, 1, i - 1) \o <<e>> \o SubSeq(l, i, Len(l))
      BY DEF InsertAt
    <2>2. SubSeq(l, 1, i - 1) = one /\ SubSeq(l, i, Len(l)) = two
      BY <1>1
    <2> QED
      BY <2>1, <2>2
  <1> HIDE DEF one, two
  <1>5. /\ lone \in Seq(Entry) /\ Len(lone) = k + 1
        /\ \A n \in 1 .. k + 1 : lone[n] = IF n <= k THEN l[n] ELSE e
    BY <1>1, <1>2
  <1> HIDE DEF lone
  <1>6. /\ lone \o two \in Seq(Entry) /\ Len(lone \o two) = Len(lone) + Len(two)
        /\ \A n \in 1 .. Len(lone) + Len(two) : (lone \o two)[n] =
               IF n <= Len(lone) THEN lone[n] ELSE two[n - Len(lone)]
    BY <1>3, <1>5, ConcatProperties
  <1> HIDE DEF L
  <1>7. Len(lone) = k + 1 /\ Len(two) = L - k /\ Len(lone) + Len(two) = L + 1
    BY <1>1, <1>3, <1>5
  <1>8. \A n \in 1 .. L + 1 : (lone \o two)[n] =
            IF n <= k THEN l[n] ELSE IF n = k + 1 THEN e ELSE l[n - 1]
    BY <1>1, <1>3, <1>5, <1>6, <1>7
  <1>9. lone \o two \in Seq(Entry) /\ Len(lone \o two) = L + 1
    BY <1>6, <1>7
  <1>10. With(lone \o two, l, e, k)
    BY <1>8, <1>9 DEF With, L
  <1> QED
    BY <1>4, <1>10

\* insert_timer puts an entry behind those that tvcmp finds no later, in front
\* of one that it finds later.
LEMMA InsertPlaces ==
    ASSUME NEW l \in Seq(Entry), NEW e \in Entry
    PROVE  \E k \in 0 .. Len(l) :
               /\ \A n \in 1 .. k : tvcmp(e.at, l[n].at) >= 0
               /\ k < Len(l) => ~(tvcmp(e.at, l[k + 1].at) >= 0)
               /\ With(Insert(l, e), l, e, k)
  <1> DEFINE S == {n \in DOMAIN l : \A m \in 1 .. n : tvcmp(e.at, l[m].at) >= 0}
             k == Cardinality(S)
             L == Len(l)
  <1>1. L \in Nat /\ DOMAIN l = 1 .. L
    OBVIOUS
  <1>2. S \in SUBSET (1 .. L) /\ \A n \in S : \A m \in 1 .. n : m \in S
    BY <1>1
  <1>3. k \in 0 .. L /\ S = 1 .. k
    <2> HIDE DEF S
    <2> QED
      BY <1>1, <1>2, Prefix
  <1>4. \A n \in 1 .. k : tvcmp(e.at, l[n].at) >= 0
    BY <1>1, <1>3
  <1>5. k < L => ~(tvcmp(e.at, l[k + 1].at) >= 0)
    <2> SUFFICES ASSUME k < L, tvcmp(e.at, l[k + 1].at) >= 0
                 PROVE  FALSE
      OBVIOUS
    <2>1. k + 1 \in 1 .. L /\ k + 1 \notin 1 .. k
      BY <1>1, <1>3
    <2>2. \A m \in 1 .. k + 1 : tvcmp(e.at, l[m].at) >= 0
      BY <1>3, <1>4
    <2>3. k + 1 \in S
      BY <1>1, <2>1, <2>2
    <2> QED
      BY <1>3, <2>1, <2>3
  <1>6. Insert(l, e) = InsertAt(l, k + 1, e)
    BY DEF Insert
  <1> HIDE DEF k
  <1>7. With(Insert(l, e), l, e, k)
    BY <1>3, <1>6, InsertAtIs
  <1> QED
    BY <1>3, <1>4, <1>5, <1>7

\* What is in a list with one entry more, wherever it was put.
LEMMA WithIs ==
    ASSUME NEW l \in Seq(Entry), NEW e \in Entry, NEW k \in 0 .. Len(l), NEW new,
           With(new, l, e, k), Single(l), \A x \in Entries(l) : x.timer # e.timer
    PROVE  new \in Seq(Entry) /\ Single(new) /\ Entries(new) = Entries(l) \cup {e}
  <1> DEFINE L == Len(l)
  <1>1. /\ L \in Nat /\ k \in 0 .. L /\ DOMAIN l = 1 .. L
        /\ new \in Seq(Entry) /\ DOMAIN new = 1 .. L + 1
        /\ \A n \in 1 .. L + 1 :
               new[n] = IF n <= k THEN l[n] ELSE IF n = k + 1 THEN e ELSE l[n - 1]
    BY DEF With
  <1> HIDE DEF L
  <1>2. \A n \in 1 .. L : l[n] \in Entries(l) /\ l[n].timer # e.timer
    BY <1>1 DEF Entries
  <1>3. ASSUME NEW m \in 1 .. L + 1, NEW n \in 1 .. L + 1, new[m].timer = new[n].timer
        PROVE  m = n
    <2>1. CASE m = k + 1
      BY <1>1, <1>2, <1>3, <2>1
    <2>2. CASE n = k + 1
      BY <1>1, <1>2, <1>3, <2>2
    <2>3. CASE m # k + 1 /\ n # k + 1
      <3> DEFINE i == IF m <= k THEN m ELSE m - 1
                 j == IF n <= k THEN n ELSE n - 1
      <3>1. i \in 1 .. L /\ j \in 1 .. L /\ new[m] = l[i] /\ new[n] = l[j]
        BY <1>1, <2>3
      <3>2. i = j
        BY <1>1, <1>3, <3>1 DEF Single
      <3> QED
        BY <1>1, <2>3, <3>2
    <2> QED
      BY <2>1, <2>2, <2>3
  <1>4. Single(new)
    BY <1>1, <1>3 DEF Single
  <1>5. \A n \in 1 .. L + 1 : new[n] \in Entries(l) \cup {e}
    BY <1>1, <1>2
  <1>6. \A n \in 1 .. L : \E m \in 1 .. L + 1 : new[m] = l[n]
    <2> TAKE n \in 1 .. L
    <2>1. CASE n <= k
      BY <1>1, <2>1
    <2>2. CASE ~(n <= k)
      <3>1. n + 1 \in 1 .. L + 1 /\ new[n + 1] = l[n]
        BY <1>1, <2>2
      <3> QED
        BY <3>1
    <2> QED
      BY <2>1, <2>2
  <1>7. k + 1 \in 1 .. L + 1 /\ new[k + 1] = e
    BY <1>1
  <1>8. Entries(new) = Entries(l) \cup {e}
    <2>1. \A x \in Entries(new) : x \in Entries(l) \cup {e}
      BY <1>1, <1>5 DEF Entries
    <2>2. \A x \in Entries(l) : x \in Entries(new)
      <3> TAKE x \in Entries(l)
      <3>1. PICK n \in 1 .. L : x = l[n]
        BY <1>1 DEF Entries
      <3>2. PICK m \in 1 .. L + 1 : new[m] = l[n]
        BY <1>6
      <3> QED
        BY <1>1, <3>1, <3>2 DEF Entries
    <2>3. e \in Entries(new)
      BY <1>1, <1>7 DEF Entries
    <2> QED
      BY <2>1, <2>2, <2>3
  <1> QED
    BY <1>1, <1>4, <1>8

\* insert_timer keeps the list ordered, up to a millisecond.
LEMMA InsertIs ==
    ASSUME NEW l \in Seq(Entry), NEW e \in Entry,
           Single(l), Ordered(l), \A x \in Entries(l) : x.timer # e.timer
    PROVE  /\ Insert(l, e) \in Seq(Entry) /\ Single(Insert(l, e)) /\ Ordered(Insert(l, e))
           /\ Entries(Insert(l, e)) = Entries(l) \cup {e}
  <1> DEFINE L == Len(l)
             new == Insert(l, e)
  <1>1. PICK k \in 0 .. Len(l) :
            /\ \A n \in 1 .. k : tvcmp(e.at, l[n].at) >= 0
            /\ k < Len(l) => ~(tvcmp(e.at, l[k + 1].at) >= 0)
            /\ With(Insert(l, e), l, e, k)
    BY InsertPlaces
  <1>2. new \in Seq(Entry) /\ Single(new) /\ Entries(new) = Entries(l) \cup {e}
    BY <1>1, WithIs
  <1>3. /\ L \in Nat /\ k \in 0 .. L /\ DOMAIN l = 1 .. L /\ DOMAIN new = 1 .. L + 1
        /\ \A n \in 1 .. L + 1 :
               new[n] = IF n <= k THEN l[n] ELSE IF n = k + 1 THEN e ELSE l[n - 1]
    BY <1>1 DEF With
  <1> HIDE DEF L, new
  <1>4. \A n \in 1 .. L : l[n].at \in Reach /\ Ticks(l[n].at) \in Nat
    <2>1. \A n \in 1 .. L : l[n].at \in Reach
      <3> TAKE n \in 1 .. L
      <3>1. l[n] \in Entry
        BY <1>3
      <3> QED
        BY <3>1 DEF Entry
    <2> QED
      BY <2>1, ReachIs
  <1>5. e.at \in Reach /\ Ticks(e.at) \in Nat /\ Ms \in Nat \ {0}
    BY ReachIs, ScaleAssumption DEF Entry
  <1>6. \A n \in 1 .. k : Ticks(l[n].at) < Ticks(e.at) + Ms
    <2> TAKE n \in 1 .. k
    <2>1. n \in 1 .. L /\ tvcmp(e.at, l[n].at) >= 0
      BY <1>1, <1>3
    <2> QED
      BY <1>4, <1>5, <2>1, ReachCompares
  <1>7. \A n \in k + 1 .. L : Ticks(e.at) < Ticks(l[n].at) + Ms
    <2> TAKE n \in k + 1 .. L
    <2>1. k + 1 \in 1 .. L /\ n \in 1 .. L /\ ~(tvcmp(e.at, l[k + 1].at) >= 0)
      BY <1>1, <1>3 DEF L
    <2>2. tvcmp(e.at, l[k + 1].at) \in Int
      BY <1>4, <1>5, <2>1, ReachCompares
    <2>3. Ticks(e.at) < Ticks(l[k + 1].at)
      BY <1>4, <1>5, <2>1, <2>2, ReachCompares
    <2>4. k + 1 = n \/ k + 1 < n
      BY <1>3
    <2>5. k + 1 < n => Ticks(l[k + 1].at) < Ticks(l[n].at) + Ms
      BY <1>3, <2>1 DEF Ordered
    <2> QED
      BY <1>4, <1>5, <2>1, <2>3, <2>4, <2>5
  <1>8. ASSUME NEW m \in 1 .. L + 1, NEW n \in 1 .. L + 1, m < n
        PROVE  Ticks(new[m].at) < Ticks(new[n].at) + Ms
    <2>1. CASE m = k + 1
      <3>1. n - 1 \in k + 1 .. L /\ new[n] = l[n - 1] /\ new[m] = e
        BY <1>3, <1>8, <2>1
      <3> QED
        BY <1>7, <3>1
    <2>2. CASE n = k + 1
      <3>1. m \in 1 .. k /\ new[n] = e /\ new[m] = l[m]
        BY <1>3, <1>8, <2>2
      <3> QED
        BY <1>6, <3>1
    <2>3. CASE m # k + 1 /\ n # k + 1
      <3> DEFINE i == IF m <= k THEN m ELSE m - 1
                 j == IF n <= k THEN n ELSE n - 1
      <3>1. i \in 1 .. L /\ j \in 1 .. L /\ i < j /\ new[m] = l[i] /\ new[n] = l[j]
        BY <1>3, <1>8, <2>3
      <3> HIDE DEF i, j
      <3> QED
        BY <1>3, <3>1 DEF Ordered
    <2> QED
      BY <2>1, <2>2, <2>3
  <1>9. Ordered(new)
    BY <1>3, <1>8 DEF Ordered
  <1> QED
    BY <1>2, <1>9 DEF new

\* pend_timer puts an entry in front.
LEMMA PushIs ==
    ASSUME NEW p \in Seq(Entry), NEW e \in Entry,
           Single(p), \A x \in Entries(p) : x.timer # e.timer
    PROVE  /\ <<e>> \o p \in Seq(Entry) /\ Single(<<e>> \o p)
           /\ Entries(<<e>> \o p) = Entries(p) \cup {e}
  <1>1. With(<<e>> \o p, p, e, 0)
    <2>1. <<e>> \in Seq(Entry) /\ Len(<<e>>) = 1 /\ <<e>>[1] = e /\ Len(p) \in Nat
      OBVIOUS
    <2>2. /\ <<e>> \o p \in Seq(Entry) /\ Len(<<e>> \o p) = 1 + Len(p)
          /\ \A n \in 1 .. 1 + Len(p) :
                 (<<e>> \o p)[n] = IF n <= 1 THEN <<e>>[n] ELSE p[n - 1]
      BY <2>1, ConcatProperties
    <2> DEFINE q == <<e>> \o p
    <2> HIDE DEF q
    <2>3. \A n \in 1 .. Len(p) + 1 :
              q[n] = IF n <= 0 THEN p[n] ELSE IF n = 0 + 1 THEN e ELSE p[n - 1]
      BY <2>1, <2>2 DEF q
    <2>4. q \in Seq(Entry) /\ Len(q) = Len(p) + 1
      BY <2>1, <2>2 DEF q
    <2>5. With(q, p, e, 0)
      BY <2>3, <2>4 DEF With
    <2> QED
      BY <2>5 DEF q
  <1> QED
    BY <1>1, WithIs

\* A list l without place k.
Lacking(new, l, k) ==
    /\ new \in Seq(Entry) /\ Len(new) = Len(l) - 1
    /\ \A n \in 1 .. Len(l) - 1 : new[n] = IF n < k THEN l[n] ELSE l[n + 1]

LEMMA LackingIs ==
    ASSUME NEW l \in Seq(Entry), NEW k \in 1 .. Len(l), NEW new, Lacking(new, l, k), Single(l)
    PROVE  /\ new \in Seq(Entry) /\ Single(new)
           /\ Entries(new) = {x \in Entries(l) : x.timer # l[k].timer}
           /\ Ordered(l) => Ordered(new)
  <1> DEFINE L == Len(l)
             from(n) == IF n < k THEN n ELSE n + 1
  <1>1. /\ L \in Nat /\ k \in 1 .. L /\ DOMAIN l = 1 .. L
        /\ new \in Seq(Entry) /\ DOMAIN new = 1 .. L - 1
        /\ \A n \in 1 .. L - 1 : new[n] = IF n < k THEN l[n] ELSE l[n + 1]
    BY DEF Lacking
  <1> HIDE DEF L
  <1>2. /\ \A n \in 1 .. L - 1 : /\ from(n) \in 1 .. L /\ from(n) # k
                                 /\ new[n] = l[from(n)]
        /\ \A m, n \in 1 .. L - 1 : m < n => from(m) < from(n)
        /\ \A m, n \in 1 .. L - 1 : from(m) = from(n) => m = n
    BY <1>1
  <1>3. \A n \in 1 .. L : n # k => \E m \in 1 .. L - 1 : from(m) = n
    <2> SUFFICES ASSUME NEW n \in 1 .. L, n # k
                 PROVE  \E m \in 1 .. L - 1 : from(m) = n
      OBVIOUS
    <2>1. CASE n < k
      BY <1>1, <2>1
    <2>2. CASE ~(n < k)
      <3>1. n - 1 \in 1 .. L - 1 /\ from(n - 1) = n
        BY <1>1, <2>2
      <3> QED
        BY <3>1
    <2> QED
      BY <2>1, <2>2
  <1> HIDE DEF from
  <1>4. Single(new)
    <2>1. ASSUME NEW m \in 1 .. L - 1, NEW n \in 1 .. L - 1, new[m].timer = new[n].timer
          PROVE  m = n
      <3>1. /\ from(m) \in DOMAIN l /\ new[m] = l[from(m)]
            /\ from(n) \in DOMAIN l /\ new[n] = l[from(n)]
        BY <1>1, <1>2
      <3>2. from(m) = from(n)
        BY <2>1, <3>1 DEF Single
      <3> QED
        BY <1>2, <3>2
    <2> QED
      BY <1>1, <2>1 DEF Single
  <1>5. Ordered(l) => Ordered(new)
    BY <1>1, <1>2 DEF Ordered
  <1>6. \A x \in Entries(new) : x \in Entries(l) /\ x.timer # l[k].timer
    <2> TAKE x \in Entries(new)
    <2>1. PICK n \in 1 .. L - 1 : x = new[n]
      BY <1>1 DEF Entries
    <2>2. from(n) \in 1 .. L /\ from(n) # k /\ x = l[from(n)]
      BY <1>2, <2>1
    <2>3. l[from(n)].timer # l[k].timer
      BY <1>1, <2>2 DEF Single
    <2> QED
      BY <1>1, <2>2, <2>3 DEF Entries
  <1>7. \A x \in Entries(l) : x.timer # l[k].timer => x \in Entries(new)
    <2> SUFFICES ASSUME NEW x \in Entries(l), x.timer # l[k].timer
                 PROVE  x \in Entries(new)
      OBVIOUS
    <2>1. PICK n \in 1 .. L : x = l[n]
      BY <1>1 DEF Entries
    <2>2. n # k
      BY <2>1
    <2>3. PICK m \in 1 .. L - 1 : from(m) = n
      BY <1>3, <2>2
    <2>4. new[m] = x
      BY <1>2, <2>1, <2>3
    <2> QED
      BY <1>1, <2>4 DEF Entries
  <1> QED
    BY <1>1, <1>4, <1>5, <1>6, <1>7

\* remove_timer takes the one entry of a timer off a list.
LEMMA WithoutIs ==
    ASSUME NEW l \in Seq(Entry), Single(l), NEW t
    PROVE  /\ Without(l, t) \in Seq(Entry) /\ Single(Without(l, t))
           /\ Entries(Without(l, t)) = {x \in Entries(l) : x.timer # t}
           /\ Ordered(l) => Ordered(Without(l, t))
  <1> DEFINE L == Len(l)
             k == CHOOSE n \in Places(l, t) : \A m \in Places(l, t) : n <= m
  <1>1. L \in Nat /\ DOMAIN l = 1 .. L
    OBVIOUS
  <1>2. CASE Places(l, t) = {}
    <2>1. Without(l, t) = l
      BY <1>2 DEF Without
    <2>2. Entries(l) = {x \in Entries(l) : x.timer # t}
      BY <1>2 DEF Places, Entries
    <2> QED
      BY <2>1, <2>2
  <1>3. CASE Places(l, t) # {}
    <2>1. Places(l, t) \subseteq Nat
      BY <1>1 DEF Places
    <2>2. \E n \in Places(l, t) : \A m \in Places(l, t) : n <= m
      BY <1>3, <2>1, Lowest
    <2>3. k \in Places(l, t)
      BY <2>2
    <2> HIDE DEF k
    <2>4. k \in 1 .. L /\ l[k].timer = t
      BY <1>1, <2>3 DEF Places
    <2> DEFINE one == SubSeq(l, 1, k - 1)
               two == SubSeq(l, k + 1, L)
               new == one \o two
    <2>5. Without(l, t) = new
      <3>1. Without(l, t) = RemoveAt(l, k)
        BY <1>3 DEF Without, k
      <3>2. RemoveAt(l, k) = new
        BY DEF RemoveAt
      <3> QED
        BY <3>1, <3>2
    <2>6. one \in Seq(Entry) /\ Len(one) = k - 1 /\ \A n \in 1 .. k - 1 : one[n] = l[n]
      <3>1. 1 \in 1 .. Len(l) + 1 /\ k - 1 \in 1 - 1 .. Len(l) /\ k - 1 - 1 + 1 = k - 1
        BY <1>1, <2>4
      <3>2. /\ one \in Seq(Entry) /\ Len(one) = k - 1 - 1 + 1
            /\ \A n \in 1 .. k - 1 - 1 + 1 : one[n] = l[1 + n - 1]
        BY <3>1, PartIs
      <3> HIDE DEF one
      <3> QED
        BY <1>1, <2>4, <3>2
    <2>7. two \in Seq(Entry) /\ Len(two) = L - k /\ \A n \in 1 .. L - k : two[n] = l[k + n]
      <3>1. k + 1 \in 1 .. Len(l) + 1 /\ L \in k + 1 - 1 .. Len(l)
        BY <1>1, <2>4
      <3>2. /\ two \in Seq(Entry) /\ Len(two) = L - (k + 1) + 1
            /\ \A n \in 1 .. L - (k + 1) + 1 : two[n] = l[k + 1 + n - 1]
        BY <3>1, PartIs
      <3> HIDE DEF two, L
      <3> QED
        BY <1>1, <2>4, <3>2
    <2> HIDE DEF one, two
    <2>8. /\ new \in Seq(Entry) /\ Len(new) = Len(one) + Len(two)
          /\ \A n \in 1 .. Len(one) + Len(two) :
                 new[n] = IF n <= Len(one) THEN one[n] ELSE two[n - Len(one)]
      BY <2>6, <2>7, ConcatProperties
    <2> HIDE DEF new, L
    <2>9. Len(one) = k - 1 /\ Len(two) = L - k /\ Len(one) + Len(two) = L - 1
      BY <1>1, <2>4, <2>6, <2>7
    <2>10. \A n \in 1 .. L - 1 : new[n] = IF n < k THEN l[n] ELSE l[n + 1]
      BY <1>1, <2>4, <2>6, <2>7, <2>8, <2>9
    <2>11. Lacking(new, l, k)
      BY <2>8, <2>9, <2>10 DEF Lacking, L
    <2> QED
      BY <2>4, <2>5, <2>11, LackingIs DEF L
  <1> QED
    BY <1>2, <1>3

\* The rest of a list that is not empty.
LEMMA TailIs ==
    ASSUME NEW l \in Seq(Entry), Single(l), l # <<>>
    PROVE  /\ Head(l) \in Entry /\ Head(l) \in Entries(l)
           /\ Tail(l) \in Seq(Entry) /\ Single(Tail(l))
           /\ Entries(Tail(l)) = {x \in Entries(l) : x.timer # Head(l).timer}
           /\ Ordered(l) => Ordered(Tail(l))
  <1>1. 1 \in DOMAIN l /\ Head(l) = l[1] /\ l[1] \in Entry /\ 1 \in 1 .. Len(l)
    OBVIOUS
  <1>2. Lacking(Tail(l), l, 1)
    BY HeadTailProperties DEF Lacking
  <1>3. Head(l) \in Entries(l)
    BY <1>1 DEF Entries
  <1> QED
    BY <1>1, <1>2, <1>3, LackingIs

-----------------------------------------------------------------------------
(* What the operations do to the entries there are.                        *)

Others(t) == {x \in Held : x.timer # t}

\* remove_timer leaves no entry of a timer on either list.
LEMMA Removed ==
    ASSUME Lists(list, pending), NEW t
    PROVE  /\ Lists(ListAfter(t), PendingAfter(t))
           /\ Entries(ListAfter(t)) \cup Entries(PendingAfter(t)) = Others(t)
  <1>1. /\ list \in Seq(Entry) /\ Single(list) /\ pending \in Seq(Entry) /\ Single(pending)
        /\ \A e \in Entries(list), d \in Entries(pending) : e.timer # d.timer
        /\ Ordered(list)
    BY DEF Lists
  <1>2. /\ ListAfter(t) \in Seq(Entry) /\ Single(ListAfter(t)) /\ Ordered(ListAfter(t))
        /\ Entries(ListAfter(t)) = {x \in Entries(list) : x.timer # t}
    BY <1>1, WithoutIs DEF ListAfter
  <1>3. /\ PendingAfter(t) \in Seq(Entry) /\ Single(PendingAfter(t))
        /\ Entries(PendingAfter(t)) = {x \in Entries(pending) : x.timer # t}
    <2>1. CASE Places(list, t) # {}
      <3>1. PICK n \in DOMAIN list : list[n].timer = t
        BY <2>1 DEF Places
      <3>2. list[n] \in Entries(list)
        BY DEF Entries
      <3>3. \A d \in Entries(pending) : d.timer # t
        BY <1>1, <3>1, <3>2
      <3>4. PendingAfter(t) = pending
        BY <2>1 DEF PendingAfter
      <3> QED
        BY <1>1, <3>3, <3>4
    <2>2. CASE Places(list, t) = {}
      <3>1. PendingAfter(t) = Without(pending, t)
        BY <2>2 DEF PendingAfter
      <3> QED
        BY <1>1, <3>1, WithoutIs
    <2> QED
      BY <2>1, <2>2
  <1> QED
    BY <1>1, <1>2, <1>3 DEF Lists, Others, Held

\* A timer that is started has the new entry and no other.
LEMMA Armed ==
    ASSUME Lists(list, pending), NEW e \in Entry, Arm(e)
    PROVE  Lists(list, pending)' /\ Held' = Others(e.timer) \cup {e}
  <1> DEFINE l == ListAfter(e.timer)
             p == PendingAfter(e.timer)
  <1>1. Lists(l, p) /\ Entries(l) \cup Entries(p) = Others(e.timer)
    BY Removed
  <1> HIDE DEF l, p
  <1>2. /\ l \in Seq(Entry) /\ Single(l) /\ Ordered(l)
        /\ p \in Seq(Entry) /\ Single(p)
        /\ \A x \in Entries(l), d \in Entries(p) : x.timer # d.timer
    BY <1>1 DEF Lists
  <1>3. \A x \in Entries(l) \cup Entries(p) : x.timer # e.timer
    BY <1>1 DEF Others
  <1>4. CASE pc = "idle"
    <2>1. list' = Insert(l, e) /\ pending' = p
      BY <1>4 DEF Arm, l, p
    <2>2. /\ Insert(l, e) \in Seq(Entry) /\ Single(Insert(l, e)) /\ Ordered(Insert(l, e))
          /\ Entries(Insert(l, e)) = Entries(l) \cup {e}
      BY <1>2, <1>3, InsertIs
    <2>3. Lists(Insert(l, e), p)
      BY <1>2, <1>3, <2>2 DEF Lists
    <2>4. Entries(Insert(l, e)) \cup Entries(p) = Others(e.timer) \cup {e}
      BY <1>1, <2>2
    <2> QED
      BY <2>1, <2>3, <2>4 DEF Held
  <1>5. CASE pc # "idle"
    <2>1. list' = l /\ pending' = <<e>> \o p
      BY <1>5 DEF Arm, l, p
    <2>2. /\ <<e>> \o p \in Seq(Entry) /\ Single(<<e>> \o p)
          /\ Entries(<<e>> \o p) = Entries(p) \cup {e}
      BY <1>2, <1>3, PushIs
    <2> DEFINE q == <<e>> \o p
    <2> HIDE DEF q
    <2>3. Lists(l, q)
      BY <1>2, <1>3, <2>2 DEF Lists, q
    <2>4. Entries(l) \cup Entries(q) = Others(e.timer) \cup {e}
      BY <1>1, <2>2 DEF q
    <2> QED
      BY <2>1, <2>3, <2>4 DEF Held, q
  <1> QED
    BY <1>4, <1>5

\* What the pass makes of the entry it takes off the list.
LEMMA AgainIs ==
    ASSUME IInv, NEW e \in Entry, e.timer \in Existing, Less(e.left) # 0
    PROVE  Again(e) \in Entry /\ Again(e).timer = e.timer
  <1>1. interval[e.timer] \in Intervals /\ now \in Clock
    BY DEF IInv
  <1>2. Deadline(now, interval[e.timer]) \in Reach
    BY <1>1, DeadlineIs
  <1>3. Less(e.left) \in (Nat \ {0}) \cup {Forever}
    BY CountsAssumption DEF Entry, Less
  <1> QED
    BY <1>2, <1>3 DEF Again, Entry

LEMMA Fired ==
    ASSUME IInv, Fire
    PROVE  /\ list # <<>> /\ Head(list) \in Entry /\ Head(list) \in Entries(list)
           /\ Lists(list, pending)'
           /\ Less(Head(list).left) = 0 => Held' = Others(Head(list).timer)
           /\ Less(Head(list).left) # 0 =>
                  Held' = Others(Head(list).timer) \cup {Again(Head(list))}
  <1> DEFINE e == Head(list)
             l == Tail(list)
  <1>1. /\ list \in Seq(Entry) /\ Single(list) /\ Ordered(list)
        /\ pending \in Seq(Entry) /\ Single(pending)
        /\ \A x \in Entries(list), d \in Entries(pending) : x.timer # d.timer
        /\ \A x \in Entries(list) : x.timer \in Existing
    BY DEF IInv, Lists
  <1>2. /\ list # <<>> /\ list' = l
        /\ pending' = IF Less(e.left) # 0 THEN <<Again(e)>> \o pending ELSE pending
    BY DEF Fire, Due
  <1>3. /\ e \in Entry /\ e \in Entries(list)
        /\ l \in Seq(Entry) /\ Single(l) /\ Ordered(l)
        /\ Entries(l) = {x \in Entries(list) : x.timer # e.timer}
    BY <1>1, <1>2, TailIs
  <1> HIDE DEF e, l
  <1>4. Entries(l) \cup Entries(pending) = Others(e.timer)
    BY <1>1, <1>3 DEF Others, Held
  <1>5. CASE Less(e.left) = 0
    <2>1. pending' = pending
      BY <1>2, <1>5
    <2>2. Lists(l, pending)
      BY <1>1, <1>3 DEF Lists
    <2> QED
      BY <1>2, <1>3, <1>4, <1>5, <2>1, <2>2 DEF Held, e
  <1>6. CASE Less(e.left) # 0
    <2> DEFINE a == Again(e)
               q == <<a>> \o pending
    <2>1. a \in Entry /\ a.timer = e.timer
      BY <1>1, <1>3, <1>6, AgainIs
    <2> HIDE DEF a
    <2>2. \A x \in Entries(pending) : x.timer # a.timer
      BY <1>1, <1>3, <2>1
    <2>3. q \in Seq(Entry) /\ Single(q) /\ Entries(q) = Entries(pending) \cup {a}
      BY <1>1, <2>1, <2>2, PushIs
    <2>4. pending' = q
      BY <1>2, <1>6 DEF a
    <2> HIDE DEF q
    <2>5. Lists(l, q)
      BY <1>1, <1>3, <2>1, <2>3 DEF Lists
    <2>6. Entries(l) \cup Entries(q) = Others(e.timer) \cup {a}
      BY <1>4, <2>3
    <2> QED
      BY <1>2, <1>3, <1>6, <2>4, <2>5, <2>6 DEF Held, e, a
  <1> QED
    BY <1>5, <1>6

\* The second loop moves entries from one list to the other.
LEMMA Merged ==
    ASSUME Lists(list, pending), Merge
    PROVE  Lists(list, pending)' /\ Held' = Held
  <1> DEFINE e == Head(pending)
             p == Tail(pending)
             l == Insert(list, e)
  <1>1. /\ list \in Seq(Entry) /\ Single(list) /\ Ordered(list)
        /\ pending \in Seq(Entry) /\ Single(pending)
        /\ \A x \in Entries(list), d \in Entries(pending) : x.timer # d.timer
    BY DEF Lists
  <1>2. pending # <<>> /\ list' = l /\ pending' = p
    BY DEF Merge
  <1>3. /\ e \in Entry /\ e \in Entries(pending)
        /\ p \in Seq(Entry) /\ Single(p)
        /\ Entries(p) = {x \in Entries(pending) : x.timer # e.timer}
    BY <1>1, <1>2, TailIs
  <1> HIDE DEF e, p
  <1>4. l \in Seq(Entry) /\ Single(l) /\ Ordered(l) /\ Entries(l) = Entries(list) \cup {e}
    BY <1>1, <1>3, InsertIs
  <1> HIDE DEF l
  <1>5. \A x \in Entries(pending) : x.timer = e.timer => x = e
    <2> TAKE x \in Entries(pending)
    <2>1. PICK m, n \in DOMAIN pending : x = pending[m] /\ e = pending[n]
      BY <1>3 DEF Entries
    <2> QED
      BY <1>1, <2>1 DEF Single
  <1>6. Lists(l, p)
    BY <1>1, <1>3, <1>4 DEF Lists
  <1>7. Entries(l) \cup Entries(p) = Held
    BY <1>3, <1>4, <1>5 DEF Held
  <1> QED
    BY <1>2, <1>6, <1>7 DEF Held

\* The history follows the entries: a timer loses its own, or has a new one.
LEMMA OnFewer ==
    ASSUME IInv, NEW t, Held' = Others(t), on' = on \ {t}
    PROVE  OnHeld'
  <1>1. on = {e.timer : e \in Held}
    BY DEF IInv, OnHeld
  <1>2. on' = {e.timer : e \in Held'}
    BY <1>1 DEF Others
  <1> QED
    BY <1>2 DEF OnHeld

LEMMA OnMore ==
    ASSUME IInv, NEW e, Held' = Others(e.timer) \cup {e}, on' = on \cup {e.timer}
    PROVE  OnHeld'
  <1>1. on = {x.timer : x \in Held}
    BY DEF IInv, OnHeld
  <1>2. on' = {x.timer : x \in Held'}
    BY <1>1 DEF Others
  <1> QED
    BY <1>2 DEF OnHeld

LEMMA OnSame ==
    ASSUME IInv, Held' = Held, on' = on
    PROVE  OnHeld'
  BY DEF IInv, OnHeld

-----------------------------------------------------------------------------
(* The invariant holds in every reachable state.                           *)

LEMMA InitInv == ASSUME Init PROVE IInv
  <1>1. list = <<>> /\ pending = <<>> /\ <<>> \in Seq(Entry)
    BY DEF Init
  <1>2. Entries(list) = {} /\ Entries(pending) = {}
    BY <1>1 DEF Entries
  <1>3. Lists(list, pending)
    <2>1. Single(<<>>) /\ Ordered(<<>>)
      BY DEF Single, Ordered
    <2> QED
      BY <1>1, <1>2, <2>1 DEF Lists
  <1>4. Existing = {} /\ interval \in [Existing -> Intervals]
    BY DEF Init, Existing
  <1>5. now \in Clock /\ tv \in Clock /\ wait = 0 /\ pc = "idle"
    BY ZeroIsTime DEF Init
  <1>6. OnHeld
    BY <1>2 DEF Init, OnHeld, Held
  <1> QED
    BY <1>2, <1>3, <1>4, <1>5, <1>6 DEF IInv

\* The entries of a timer's interval: what start_timer and set_timeout put in.
LEMMA StartEntry ==
    ASSUME IInv, NEW t \in Existing, NEW n \in Counts
    PROVE  [timer |-> t, at |-> Deadline(now, interval[t]), left |-> n] \in Entry
  <1>1. t \in Timers /\ interval[t] \in Intervals /\ now \in Clock
    BY DEF IInv
  <1>2. Deadline(now, interval[t]) \in Reach
    BY <1>1, DeadlineIs
  <1> QED
    BY <1>1, <1>2, CountsAssumption DEF Entry

LEMMA SetEntry ==
    ASSUME IInv, NEW t \in Existing, NEW at \in Clock
    PROVE  [timer |-> t, at |-> at, left |-> 1] \in Entry
  <1>1. t \in Timers /\ interval[t] \in Intervals
    BY DEF IInv
  <1>2. at \in Reach
    BY <1>1, ClockInReach
  <1> QED
    BY <1>1, <1>2 DEF Entry

LEMMA ArmInv ==
    ASSUME IInv, NEW e \in Entry, e.timer \in Existing, Arm(e), on' = on \cup {e.timer},
           UNCHANGED <<interval, pass>>
    PROVE  IInv'
  <1>1. Lists(list, pending)' /\ Held' = Others(e.timer) \cup {e}
    BY Armed DEF IInv
  <1>2. \A x \in Held : x.timer \in Existing
    BY DEF IInv, Held
  <1>3. \A x \in Held' : x.timer \in Existing
    BY <1>1, <1>2 DEF Others
  <1>4. interval' = interval /\ pc' = pc /\ now' = now /\ tv' = tv /\ wait' = wait
    BY DEF pass
  <1>5. OnHeld'
    BY <1>1, OnMore
  <1> QED
    BY <1>1, <1>3, <1>4, <1>5 DEF IInv, Held, Existing

\* Stop and the removal in Destroy.
LEMMA RemoveInv ==
    ASSUME IInv, NEW t, list' = ListAfter(t), pending' = PendingAfter(t)
    PROVE  Lists(list, pending)' /\ Held' = Others(t)
  BY Removed DEF IInv, Held

LEMMA DestroyInv == ASSUME IInv, NEW t, Destroy(t) PROVE IInv'
  <1>1. Lists(list, pending)' /\ Held' = Others(t)
    BY RemoveInv DEF Destroy
  <1>2. \A x \in Held : x.timer \in Existing
    BY DEF IInv, Held
  <1>3. interval' = [u \in Existing \ {t} |-> interval[u]]
    BY DEF Destroy
  <1>4. Existing' = Existing \ {t}
    BY <1>3 DEF Existing
  <1>5. \A x \in Held' : x.timer \in Existing'
    BY <1>1, <1>2, <1>4 DEF Others
  <1>6. interval \in [Existing -> Intervals] /\ Existing \subseteq Timers
    BY DEF IInv
  <1>7. interval' \in [Existing' -> Intervals] /\ Existing' \subseteq Timers
    BY <1>3, <1>4, <1>6
  <1>8. pc' = pc /\ now' = now /\ tv' = tv /\ wait' = wait
    BY DEF Destroy, pass
  <1>9. OnHeld'
    BY <1>1, OnFewer DEF Destroy
  <1> QED
    BY <1>1, <1>5, <1>7, <1>8, <1>9 DEF IInv, Held

LEMMA CreateInv ==
    ASSUME IInv, NEW t \in Timers, NEW iv \in Intervals, Create(t, iv)
    PROVE  IInv'
  <1>1. interval' = [u \in Existing \cup {t} |-> IF u = t THEN iv ELSE interval[u]]
    BY DEF Create
  <1>2. Existing' = Existing \cup {t}
    BY <1>1 DEF Existing
  <1>3. interval \in [Existing -> Intervals] /\ Existing \subseteq Timers
    BY DEF IInv
  <1>4. interval' \in [Existing' -> Intervals] /\ Existing' \subseteq Timers
    BY <1>1, <1>2, <1>3
  <1>5. list' = list /\ pending' = pending /\ pc' = pc /\ now' = now /\ tv' = tv /\ wait' = wait
    BY DEF Create, pass
  <1>6. OnHeld'
    BY <1>5, OnSame DEF Create, Held
  <1> QED
    BY <1>2, <1>4, <1>5, <1>6 DEF IInv

LEMMA ProgramInv == ASSUME IInv, Program PROVE IInv'
  <1>1. ASSUME NEW t \in Timers, NEW iv \in Intervals, Create(t, iv)
        PROVE  IInv'
    BY <1>1, CreateInv
  <1>2. ASSUME NEW t \in Timers, NEW n \in Counts, Start(t, n)
        PROVE  IInv'
    <2> DEFINE e == [timer |-> t, at |-> Deadline(now, interval[t]), left |-> n]
    <2>1. /\ t \in Existing /\ Arm(e) /\ UNCHANGED <<interval, pass>>
          /\ e.timer = t /\ on' = on \cup {t}
      BY <1>2 DEF Start
    <2>2. e \in Entry
      BY <2>1, StartEntry
    <2> HIDE DEF e
    <2> QED
      BY <2>1, <2>2, ArmInv
  <1>3. ASSUME NEW t \in Timers, NEW at \in Clock, SetTimeout(t, at)
        PROVE  IInv'
    <2> DEFINE e == [timer |-> t, at |-> at, left |-> 1]
    <2>1. /\ t \in Existing /\ Arm(e) /\ UNCHANGED <<interval, pass>>
          /\ e.timer = t /\ on' = on \cup {t}
      BY <1>3 DEF SetTimeout
    <2>2. e \in Entry
      BY <2>1, SetEntry
    <2> HIDE DEF e
    <2> QED
      BY <2>1, <2>2, ArmInv
  <1>4. ASSUME NEW t \in Timers, Stop(t)
        PROVE  IInv'
    <2>1. Lists(list, pending)' /\ Held' = Others(t)
      BY <1>4, RemoveInv DEF Stop
    <2>2. \A x \in Held : x.timer \in Existing
      BY DEF IInv, Held
    <2>3. \A x \in Held' : x.timer \in Existing
      BY <2>1, <2>2 DEF Others
    <2>4. interval' = interval /\ pc' = pc /\ now' = now /\ tv' = tv /\ wait' = wait
      BY <1>4 DEF Stop, pass
    <2>5. OnHeld'
      BY <1>4, <2>1, OnFewer DEF Stop
    <2> QED
      BY <2>1, <2>3, <2>4, <2>5 DEF IInv, Held, Existing
  <1> QED
    BY <1>1, <1>2, <1>3, <1>4, DestroyInv DEF Program

LEMMA FireInv == ASSUME IInv, Fire PROVE IInv'
  <1> DEFINE e == Head(list)
  <1>1. /\ e \in Entry /\ e \in Held /\ Lists(list, pending)'
        /\ Less(e.left) = 0 => Held' = Others(e.timer)
        /\ Less(e.left) # 0 => Held' = Others(e.timer) \cup {Again(e)}
    BY Fired DEF Held
  <1> HIDE DEF e
  <1>2. \A x \in Held : x.timer \in Existing
    BY DEF IInv, Held
  <1>3. Again(e).timer = e.timer
    BY DEF Again
  <1>4. \A x \in Held' : x.timer \in Existing
    BY <1>1, <1>2, <1>3 DEF Others
  <1>5. interval' = interval /\ pc' = "call" /\ now' = now /\ tv' = tv /\ wait' = wait
    BY DEF Fire
  <1>6. on' = IF Less(e.left) # 0 THEN on ELSE on \ {e.timer}
    BY DEF Fire, e
  <1>7. OnHeld'
    <2>1. CASE Less(e.left) = 0
      BY <1>1, <1>6, <2>1, OnFewer
    <2>2. CASE Less(e.left) # 0
      <3>1. e.timer \in on
        BY <1>1 DEF IInv, OnHeld
      <3> DEFINE a == Again(e)
      <3>2. Held' = Others(a.timer) \cup {a} /\ on' = on \cup {a.timer}
        BY <1>1, <1>3, <1>6, <2>2, <3>1
      <3> HIDE DEF a
      <3> QED
        BY <3>2, OnMore
    <2> QED
      BY <2>1, <2>2
  <1> QED
    BY <1>1, <1>4, <1>5, <1>7 DEF IInv, Held, Existing

\* While an entry exists, so does an interval.
LEMMA EntryIs ==
    ASSUME IInv, NEW n \in DOMAIN list
    PROVE  /\ list[n] \in Entry /\ list[n].at \in Reach /\ list[n].at \in Timeval
           /\ Ticks(list[n].at) \in Nat
           /\ 1 \in DOMAIN list /\ Head(list) = list[1] /\ list # <<>>
  <1>1. list \in Seq(Entry)
    BY DEF IInv, Lists
  <1>2. list[n] \in Entry
    BY <1>1
  <1>3. list[n].at \in Reach
    BY <1>2 DEF Entry
  <1> QED
    BY <1>1, <1>2, <1>3, ReachIs

LEMMA WaitIs ==
    ASSUME IInv, EndCheck
    PROVE  /\ list = <<>> => wait' = -1
           /\ list # <<>> => /\ wait' \in Nat
                             /\ wait' = 0 \/ wait' * Ms <= Ticks(Head(list).at) - Ticks(now)
  <1>1. CASE list = <<>>
    BY <1>1 DEF EndCheck
  <1>2. CASE list # <<>>
    <2> DEFINE at == Head(list).at
               ms == MsUntil(at, now)
    <2>1. 1 \in DOMAIN list
      BY <1>2 DEF IInv, Lists
    <2>2. at \in Reach /\ at \in Timeval /\ Ticks(at) \in Nat
      BY <2>1, EntryIs
    <2>3. now \in Timeval /\ Ticks(now) \in 0 .. Horizon
      BY ClockIs DEF IInv
    <2>4. PICK iv \in Intervals : iv * Ms \in Nat /\ Ticks(at) <= Horizon + iv * Ms
      BY <2>2, ReachIs
    <2>5. wait' = IF ms < 0 THEN 0 ELSE ms
      BY <1>2 DEF EndCheck
    <2> HIDE DEF at
    <2>6. ms \in Int /\ ms * Ms <= Ticks(at) - Ticks(now)
      <3>1. Ticks(at) - Ticks(now) <= Horizon + iv * Ms /\ Ticks(now) - Ticks(at) <= Horizon + iv * Ms
        BY <2>2, <2>3, <2>4, HorizonAssumption
      <3> QED
        BY <2>2, <2>3, <3>1, Waits
    <2> HIDE DEF ms
    <2> QED
      BY <1>2, <2>5, <2>6 DEF at
  <1> QED
    BY <1>1, <1>2

LEMMA PassInv == ASSUME IInv, Pass PROVE IInv'
  <1>1. CASE Check
    BY <1>1 DEF IInv, Check, Existing, OnHeld, Held
  <1>2. CASE Fire
    BY <1>2, FireInv
  <1>3. CASE Return
    BY <1>3 DEF IInv, Return, Existing, OnHeld, Held
  <1>4. CASE Unlock
    BY <1>4 DEF IInv, Unlock, Existing, OnHeld, Held
  <1>5. CASE Merge
    <2>1. Lists(list, pending)' /\ Held' = Held
      BY <1>5, Merged DEF IInv
    <2>2. interval' = interval /\ pc' = pc /\ now' = now /\ tv' = tv /\ wait' = wait
      BY <1>5 DEF Merge
    <2>3. OnHeld'
      BY <1>5, <2>1, OnSame DEF Merge
    <2> QED
      BY <2>1, <2>2, <2>3 DEF IInv, Held, Existing
  <1>6. CASE EndCheck
    <2>1. wait' \in Int
      BY <1>6, WaitIs
    <2>2. /\ list' = list /\ pending' = pending /\ interval' = interval
          /\ now' = now /\ tv' = Zero /\ pc' = "idle" /\ on' = on
      BY <1>6 DEF EndCheck
    <2> QED
      BY <2>1, <2>2, ZeroIsTime DEF IInv, Existing, OnHeld, Held
  <1> QED
    BY <1>1, <1>2, <1>3, <1>4, <1>5, <1>6 DEF Pass, GoesOn

LEMMA Inductive == ASSUME IInv, [Next]_vars PROVE IInv'
  <1>1. CASE Tick
    BY <1>1 DEF IInv, Tick, Existing, OnHeld, Held
  <1>2. CASE UNCHANGED vars
    BY <1>2 DEF IInv, vars, Existing, OnHeld, Held
  <1> QED
    BY <1>1, <1>2, ProgramInv, PassInv DEF Next

\* In every reachable state no timer is on the lists of timer.c twice, and the
\* list is out of order by less than a millisecond.
THEOREM Invariance == Spec => []IInv
  BY InitInv, Inductive, PTL DEF Spec

-----------------------------------------------------------------------------
(* What a pass leaves undone, and how long the main loop waits.            *)

\* Behind a head that is not due, nothing is overdue by a millisecond.
LEMMA HeadFirst ==
    ASSUME IInv, NEW n \in DOMAIN list
    PROVE  Ticks(Head(list).at) < Ticks(list[n].at) + Ms
  <1>1. list \in Seq(Entry) /\ Ordered(list)
    BY DEF IInv, Lists
  <1>2. 1 \in DOMAIN list /\ Head(list) = list[1] /\ Ticks(list[n].at) \in Nat
    BY EntryIs
  <1>3. n = 1 \/ 1 < n
    BY <1>1
  <1> QED
    BY <1>1, <1>2, <1>3, ScaleAssumption DEF Ordered

LEMMA UnlockLeaves ==
    ASSUME IInv, Unlock, NEW n \in DOMAIN list
    PROVE  Ticks(list[n].at) > Ticks(tv) - Ms
  <1> DEFINE at == Head(list).at
  <1>1. /\ 1 \in DOMAIN list /\ Head(list) = list[1] /\ list # <<>> /\ Ticks(list[n].at) \in Nat
    BY EntryIs
  <1>2. at \in Reach /\ Ticks(at) \in Nat
    BY <1>1, EntryIs
  <1>3. tv \in Clock /\ Ticks(tv) \in Nat
    BY ClockIs DEF IInv
  <1>4. ~(tvcmp(tv, at) >= 0)
    BY <1>1 DEF Unlock, Due
  <1> HIDE DEF at
  <1>5. Ticks(tv) < Ticks(at)
    BY <1>2, <1>3, <1>4, ReachCompares
  <1>6. Ticks(at) < Ticks(list[n].at) + Ms
    BY HeadFirst DEF at
  <1> QED
    BY <1>1, <1>2, <1>3, <1>5, <1>6, ScaleAssumption

\* timer_check_timeout looks at the head of the list only, and yet leaves no
\* timer that was due a millisecond before it began, however the callbacks
\* started, stopped and set the others and the clock.
THEOREM LeavesNoneOverdue == Spec => NoneOverdue
  <1>1. IInv /\ [Next]_vars =>
            [Unlock => \A n \in DOMAIN list : Ticks(list[n].at) > Ticks(tv) - Ms]_vars
    BY UnlockLeaves
  <1> QED
    BY <1>1, Invariance, PTL DEF Spec, NoneOverdue

LEMMA MaxIs ==
    ASSUME NEW a \in Int
    PROVE  Max({a, 0}) \in Int /\ Max({a, 0}) >= a /\ Max({a, 0}) >= 0
  <1>1. \E x \in {a, 0} : \A y \in {a, 0} : x >= y
    OBVIOUS
  <1> QED
    BY <1>1 DEF Max

LEMMA EndCheckWaits ==
    ASSUME IInv, EndCheck
    PROVE  /\ wait' = -1 <=> InUse = <<>>
           /\ \A n \in DOMAIN InUse :
                  wait' * Ms < Max({Ticks(InUse[n].at) - Ticks(now), 0}) + Ms
  <1>1. list \in Seq(Entry) /\ pending = <<>>
    BY DEF IInv, Lists, EndCheck
  <1>2. InUse = list
    BY <1>1 DEF InUse
  <1>3. wait' = -1 <=> list = <<>>
    BY WaitIs
  <1>4. ASSUME NEW n \in DOMAIN list
        PROVE  wait' * Ms < Max({Ticks(list[n].at) - Ticks(now), 0}) + Ms
    <2> DEFINE d == Ticks(list[n].at) - Ticks(now)
               h == Ticks(Head(list).at)
               y == wait' * Ms
    <2>1. /\ 1 \in DOMAIN list /\ Head(list) = list[1] /\ list # <<>> /\ Ticks(list[n].at) \in Nat
      BY EntryIs
    <2>2. h \in Nat
      BY <2>1, EntryIs
    <2>3. h < Ticks(list[n].at) + Ms
      BY HeadFirst
    <2>4. Ticks(now) \in Nat
      BY ClockIs DEF IInv
    <2>5. wait' \in Nat /\ (wait' = 0 \/ y <= h - Ticks(now))
      BY <2>1, WaitIs
    <2>6. y \in Int /\ (y = 0 \/ y <= h - Ticks(now)) /\ Ms \in Nat \ {0}
      <3>1. y \in Int /\ Ms \in Nat \ {0}
        BY <2>5, ScaleAssumption
      <3>2. wait' = 0 => y = 0
        BY ScaleAssumption
      <3> HIDE DEF y, h
      <3> QED
        BY <2>5, <3>1, <3>2
    <2>7. d \in Int
      BY <2>1, <2>4
    <2>8. Max({d, 0}) \in Int /\ Max({d, 0}) >= d /\ Max({d, 0}) >= 0
      BY <2>7, MaxIs
    <2> DEFINE mx == Max({d, 0})
    <2> HIDE DEF y, h, mx
    <2>9. y < mx + Ms
      BY <2>1, <2>2, <2>3, <2>4, <2>6, <2>8 DEF mx
    <2> QED
      BY <2>9 DEF y, mx
  <1> QED
    BY <1>2, <1>3, <1>4

\* The main loop is told to wait for ever only when no timer is armed, and
\* never to wait a millisecond too long for any of them.
THEOREM MainLoopWakes == Spec => WakesInTime
  <1>1. IInv /\ [Next]_vars =>
            [EndCheck =>
                /\ wait' = -1 <=> InUse = <<>>
                /\ \A n \in DOMAIN InUse :
                       wait' * Ms < Max({Ticks(InUse[n].at) - Ticks(now), 0}) + Ms]_vars
    BY EndCheckWaits
  <1> QED
    BY <1>1, Invariance, PTL DEF Spec, WakesInTime

-----------------------------------------------------------------------------
(* Timers implements Alarms.                                               *)

Alarm(e) == [at |-> Ticks(e.at), left |-> e.left]

\* f tells for each timer of the entries E what it is armed for.
Shows(f, E) ==
    /\ f = [t \in DOMAIN f |-> f[t]]
    /\ DOMAIN f = {e.timer : e \in E}
    /\ \A e \in E : f[e.timer] = Alarm(e)

\* The two lists, one behind the other, hold each entry once.
LEMMA InUseIs ==
    ASSUME IInv
    PROVE  /\ {InUse[n] : n \in DOMAIN InUse} = Held
           /\ \A m, n \in DOMAIN InUse : InUse[m].timer = InUse[n].timer => m = n
  <1> DEFINE L == Len(list)
             P == Len(pending)
  <1>1. /\ list \in Seq(Entry) /\ pending \in Seq(Entry) /\ Single(list) /\ Single(pending)
        /\ \A e \in Entries(list), d \in Entries(pending) : e.timer # d.timer
    BY DEF IInv, Lists
  <1>2. /\ L \in Nat /\ P \in Nat /\ DOMAIN list = 1 .. L /\ DOMAIN pending = 1 .. P
        /\ InUse \in Seq(Entry) /\ DOMAIN InUse = 1 .. L + P
        /\ \A n \in 1 .. L + P : InUse[n] = IF n <= L THEN list[n] ELSE pending[n - L]
    <2>1. L \in Nat /\ P \in Nat /\ DOMAIN list = 1 .. L /\ DOMAIN pending = 1 .. P
      BY <1>1
    <2>2. /\ list \o pending \in Seq(Entry) /\ Len(list \o pending) = L + P
          /\ \A n \in 1 .. L + P : (list \o pending)[n] = IF n <= L THEN list[n] ELSE pending[n - L]
      BY <1>1, ConcatProperties
    <2> HIDE DEF L, P
    <2>3. DOMAIN (list \o pending) = 1 .. L + P
      BY <2>2
    <2> QED
      BY <2>1, <2>2, <2>3 DEF InUse
  <1> HIDE DEF L, P
  <1>3. ASSUME NEW n \in 1 .. L + P
        PROVE  \/ n <= L /\ InUse[n] = list[n] /\ n \in 1 .. L
               \/ n > L /\ InUse[n] = pending[n - L] /\ n - L \in 1 .. P
    BY <1>2
  <1>4. \A n \in 1 .. L : list[n] \in Entries(list)
    BY <1>2 DEF Entries
  <1>5. \A n \in 1 .. P : pending[n] \in Entries(pending)
    BY <1>2 DEF Entries
  <1>6. {InUse[n] : n \in DOMAIN InUse} = Held
    <2>1. \A n \in DOMAIN InUse : InUse[n] \in Held
      BY <1>2, <1>3, <1>4, <1>5 DEF Held
    <2>2. \A e \in Held : \E n \in DOMAIN InUse : e = InUse[n]
      <3> TAKE e \in Held
      <3>1. CASE e \in Entries(list)
        <4>1. PICK n \in 1 .. L : e = list[n]
          BY <1>2, <3>1 DEF Entries
        <4>2. n \in 1 .. L + P /\ InUse[n] = e
          BY <1>2, <4>1
        <4> QED
          BY <1>2, <4>2
      <3>2. CASE e \in Entries(pending)
        <4>1. PICK n \in 1 .. P : e = pending[n]
          BY <1>2, <3>2 DEF Entries
        <4>2. n + L \in 1 .. L + P /\ ~(n + L <= L) /\ n + L - L = n
          BY <1>2
        <4>3. InUse[n + L] = pending[n]
          BY <1>2, <4>2
        <4> QED
          BY <1>2, <4>1, <4>2, <4>3
      <3> QED
        BY <3>1, <3>2 DEF Held
    <2> QED
      BY <2>1, <2>2
  <1>7. ASSUME NEW m \in DOMAIN InUse, NEW n \in DOMAIN InUse, InUse[m].timer = InUse[n].timer
        PROVE  m = n
    <2>1. CASE m <= L /\ n <= L
      BY <1>1, <1>2, <1>3, <1>7, <2>1 DEF Single
    <2>2. CASE m > L /\ n > L
      <3>1. /\ m - L \in 1 .. P /\ InUse[m] = pending[m - L]
            /\ n - L \in 1 .. P /\ InUse[n] = pending[n - L]
        BY <1>2, <1>3, <2>2
      <3>2. m - L = n - L
        BY <1>1, <1>2, <1>7, <3>1 DEF Single
      <3> QED
        BY <1>2, <3>1, <3>2
    <2>3. CASE m <= L /\ n > L
      BY <1>1, <1>2, <1>3, <1>4, <1>5, <1>7, <2>3
    <2>4. CASE m > L /\ n <= L
      BY <1>1, <1>2, <1>3, <1>4, <1>5, <1>7, <2>4
    <2> QED
      BY <1>2, <2>1, <2>2, <2>3, <2>4
  <1> QED
    BY <1>6, <1>7

LEMMA EntriesOn == ASSUME IInv PROVE ArmedAreOn
  <1>1. /\ {InUse[n] : n \in DOMAIN InUse} = Held
        /\ \A m, n \in DOMAIN InUse : InUse[m].timer = InUse[n].timer => m = n
    BY InUseIs
  <1>2. on = {e.timer : e \in Held} /\ \A e \in Held : e.timer \in Existing
    BY DEF IInv, OnHeld, Held
  <1>3. ASSUME NEW t \in Timers
        PROVE  Cardinality(Places(InUse, t)) = IF t \in on THEN 1 ELSE 0
    <2>1. CASE t \in on
      <3>1. PICK n \in DOMAIN InUse : InUse[n].timer = t
        BY <1>1, <1>2, <2>1
      <3>2. Places(InUse, t) = {n}
        BY <1>1, <3>1 DEF Places
      <3> QED
        BY <2>1, <3>2, FS_Singleton
    <2>2. CASE t \notin on
      <3>1. \A n \in DOMAIN InUse : InUse[n].timer # t
        BY <1>1, <1>2, <2>2
      <3>2. Places(InUse, t) = {}
        BY <3>1 DEF Places
      <3> QED
        BY <2>2, <3>2, FS_EmptySet
    <2> QED
      BY <2>1, <2>2
  <1> QED
    BY <1>2, <1>3 DEF ArmedAreOn

\* Whatever the callbacks of a pass start, stop and destroy, their own timers
\* included: a timer that was started and not stopped, destroyed or run out
\* since has its one entry, no other timer has any, and none is freed while it
\* has one.
THEOREM StoppedHaveNoEntry == Spec => []ArmedAreOn
  BY Invariance, EntriesOn, PTL

LEMMA ArmedShows == ASSUME IInv PROVE Shows(ArmedFor, Held)
  <1> DEFINE T == {InUse[n].timer : n \in DOMAIN InUse}
             at(t) == CHOOSE m \in DOMAIN InUse : InUse[m].timer = t
  <1>1. /\ {InUse[n] : n \in DOMAIN InUse} = Held
        /\ \A m, n \in DOMAIN InUse : InUse[m].timer = InUse[n].timer => m = n
    BY InUseIs
  <1>2. ArmedFor = [t \in T |-> [at |-> Ticks(InUse[at(t)].at), left |-> InUse[at(t)].left]]
    BY DEF ArmedFor
  <1>3. T = {e.timer : e \in Held}
    BY <1>1
  <1>4. ASSUME NEW e \in Held
        PROVE  ArmedFor[e.timer] = Alarm(e)
    <2>1. PICK n \in DOMAIN InUse : InUse[n] = e
      BY <1>1
    <2>2. at(e.timer) \in DOMAIN InUse /\ InUse[at(e.timer)].timer = e.timer
      BY <2>1
    <2>3. InUse[at(e.timer)] = e
      BY <1>1, <2>1, <2>2
    <2> QED
      BY <1>2, <1>3, <2>3 DEF Alarm
  <1>5. ArmedFor = [t \in DOMAIN ArmedFor |-> ArmedFor[t]] /\ DOMAIN ArmedFor = T
    BY <1>2
  <1> QED
    BY <1>3, <1>4, <1>5 DEF Shows

LEMMA ShowsSame ==
    ASSUME NEW f, NEW g, NEW E, Shows(f, E), Shows(g, E)
    PROVE  f = g
  <1>1. DOMAIN f = DOMAIN g
    BY DEF Shows
  <1>2. \A t \in DOMAIN f : f[t] = g[t]
    BY DEF Shows
  <1> QED
    BY <1>1, <1>2 DEF Shows

\* The entries of other timers.
Rest(E, t) == {x \in E : x.timer # t}

RestAnd(E, e) == Rest(E, e.timer) \cup {e}

LEMMA ShowsFewer ==
    ASSUME NEW f, NEW g, NEW E, NEW t,
           Shows(f, E), Shows(g, Rest(E, t))
    PROVE  g = [u \in DOMAIN f \ {t} |-> f[u]]
  <1>1. DOMAIN g = DOMAIN f \ {t}
    BY DEF Shows, Rest
  <1>2. \A u \in DOMAIN g : g[u] = f[u]
    BY DEF Shows, Rest
  <1> QED
    BY <1>1, <1>2 DEF Shows, Rest

\* g is f with the timer of e armed as e says.
Rearmed(f, g, e) ==
    g = [u \in DOMAIN f \cup {e.timer} |-> IF u = e.timer THEN Alarm(e) ELSE f[u]]

LEMMA ShowsOneMore ==
    ASSUME NEW f, NEW g, NEW E, NEW e,
           Shows(f, E), Shows(g, RestAnd(E, e))
    PROVE  Rearmed(f, g, e)
  <1> DEFINE F == RestAnd(E, e)
  <1>1. DOMAIN g = DOMAIN f \cup {e.timer}
    BY DEF Shows, Rest, RestAnd
  <1>2. g[e.timer] = Alarm(e)
    BY DEF Shows, Rest, RestAnd
  <1>3. ASSUME NEW u \in DOMAIN g, u # e.timer
        PROVE  g[u] = f[u]
    <2>1. PICK x \in F : x.timer = u
      BY DEF Shows, Rest, RestAnd
    <2>2. x \in E /\ g[u] = Alarm(x) /\ f[u] = Alarm(x)
      BY <1>3, <2>1 DEF Shows, Rest, RestAnd
    <2> QED
      BY <2>2
  <1>4. g = [u \in DOMAIN g |-> g[u]]
    BY DEF Shows, Rest, RestAnd
  <1> QED
    BY <1>1, <1>2, <1>3, <1>4 DEF Rearmed

LEMMA ArmedShowsNext == IInv' => Shows(ArmedFor, Held)'
  <1>1. IInv => Shows(ArmedFor, Held)
    BY ArmedShows
  <1> QED
    BY <1>1, PTL

\* What is armed is seen through the entries alone.
LEMMA SeenSame ==
    ASSUME IInv, IInv', Held' = Held
    PROVE  ArmedFor' = ArmedFor
  BY ArmedShows, ArmedShowsNext, ShowsSame

LEMMA SeenFewer ==
    ASSUME IInv, IInv', NEW t, Held' = Others(t)
    PROVE  Promise!Disarm(t)
  <1>1. Shows(ArmedFor, Held) /\ Shows(ArmedFor', Rest(Held, t))
    BY ArmedShows, ArmedShowsNext DEF Others, Rest
  <1>2. ArmedFor' = [u \in DOMAIN ArmedFor \ {t} |-> ArmedFor[u]]
    BY <1>1, ShowsFewer
  <1> QED
    BY <1>2 DEF Promise!Disarm, Promise!Armed

LEMMA SeenArmed ==
    ASSUME IInv, IInv', NEW e, Held' = Others(e.timer) \cup {e}
    PROVE  Promise!Arm(e.timer, Alarm(e))
  <1>1. Shows(ArmedFor, Held) /\ Shows(ArmedFor', RestAnd(Held, e))
    BY ArmedShows, ArmedShowsNext DEF Others, Rest, RestAnd
  <1>2. Rearmed(ArmedFor, ArmedFor', e)
    BY <1>1, ShowsOneMore
  <1> QED
    BY <1>2 DEF Promise!Arm, Promise!Armed, Rearmed

LEMMA PromiseInit == ASSUME Init PROVE Promise!Init
  <1>1. IInv
    BY InitInv
  <1>2. Held = {}
    BY DEF Init, Held, Entries
  <1>3. Shows(ArmedFor, {})
    BY <1>1, <1>2, ArmedShows
  <1>4. ArmedFor = [t \in {} |-> 0]
    BY <1>3 DEF Shows
  <1>5. Ticks(tv) \in Int
    BY <1>1, ClockIs DEF IInv
  <1>6. (pc = "call") = FALSE /\ on = {}
    BY DEF Init
  <1> QED
    BY <1>4, <1>5, <1>6 DEF Promise!Init

LEMMA ClockTicks == ASSUME NEW t \in Clock PROVE Ticks(t) \in {Ticks(c) + iv * Ms : c \in Clock, iv \in Intervals \cup {0}}
  <1>1. Ticks(t) = Ticks(t) + 0 * Ms
    BY ClockIs, ScaleAssumption
  <1> QED
    BY <1>1

LEMMA ArmPromise ==
    ASSUME IInv, IInv', NEW e \in Entry, Arm(e), on' = on \cup {e.timer},
           UNCHANGED <<interval, pass>>,
           Ticks(e.at) \in Instants, e.left \in Counts \cup {1}
    PROVE  Promise!Next
  <1>1. Held' = Others(e.timer) \cup {e}
    BY Armed DEF IInv
  <1>2. Promise!Arm(e.timer, Alarm(e))
    BY <1>1, SeenArmed
  <1>3. Alarm(e) = [at |-> Ticks(e.at), left |-> e.left]
    BY DEF Alarm
  <1>4. tv' = tv /\ pc' = pc /\ e.timer \in Timers
    BY DEF pass, Entry
  <1>5. Ticks(tv)' = Ticks(tv) /\ (pc = "call")' = (pc = "call")
    BY <1>4 DEF Ticks
  <1>6. Promise!Start(e.timer, Ticks(e.at), e.left)
    BY <1>2, <1>3, <1>5 DEF Promise!Start
  <1> QED
    BY <1>4, <1>6 DEF Promise!Next

LEMMA RemovePromise ==
    ASSUME IInv, IInv', NEW t \in Timers, Held' = Others(t), on' = on \ {t},
           tv' = tv, pc' = pc
    PROVE  Promise!Next
  <1>1. Promise!Disarm(t)
    BY SeenFewer
  <1>2. Ticks(tv)' = Ticks(tv) /\ (pc = "call")' = (pc = "call")
    BY DEF Ticks
  <1>3. Promise!Stop(t)
    BY <1>1, <1>2 DEF Promise!Stop
  <1> QED
    BY <1>3 DEF Promise!Next

LEMMA ProgramPromise ==
    ASSUME IInv, IInv', Program
    PROVE  Promise!Next \/ UNCHANGED Promise!vars
  <1>1. ASSUME NEW t \in Timers, NEW iv \in Intervals, Create(t, iv)
        PROVE  UNCHANGED Promise!vars
    <2>1. list' = list /\ pending' = pending /\ tv' = tv /\ pc' = pc /\ on' = on
      BY <1>1 DEF Create, pass
    <2>2. ArmedFor' = ArmedFor
      BY <2>1, SeenSame DEF Held
    <2> QED
      BY <2>1, <2>2 DEF Promise!vars, Ticks
  <1>2. ASSUME NEW t \in Timers, NEW n \in Counts, Start(t, n)
        PROVE  Promise!Next
    <2> DEFINE at == Deadline(now, interval[t])
               e == [timer |-> t, at |-> at, left |-> n]
    <2>1. /\ t \in Existing /\ Arm(e) /\ UNCHANGED <<interval, pass>>
          /\ e.timer = t /\ on' = on \cup {t}
      BY <1>2 DEF Start
    <2>2. e \in Entry
      BY <2>1, StartEntry
    <2>3. now \in Clock /\ interval[t] \in Intervals
      BY <2>1 DEF IInv
    <2>4. Ticks(at) = Ticks(now) + interval[t] * Ms
      BY <2>3, DeadlineIs
    <2>5. Ticks(at) \in Instants
      BY <2>3, <2>4 DEF Instants
    <2>6. e.at = at /\ e.left = n
      OBVIOUS
    <2> HIDE DEF e, at
    <2> QED
      BY <2>1, <2>2, <2>5, <2>6, ArmPromise
  <1>3. ASSUME NEW t \in Timers, NEW at \in Clock, SetTimeout(t, at)
        PROVE  Promise!Next
    <2> DEFINE e == [timer |-> t, at |-> at, left |-> 1]
    <2>1. /\ t \in Existing /\ Arm(e) /\ UNCHANGED <<interval, pass>>
          /\ e.timer = t /\ on' = on \cup {t}
      BY <1>3 DEF SetTimeout
    <2>2. e \in Entry
      BY <2>1, SetEntry
    <2>3. Ticks(at) \in Instants
      BY ClockTicks DEF Instants
    <2>4. e.at = at /\ e.left = 1
      OBVIOUS
    <2> HIDE DEF e
    <2> QED
      BY <2>1, <2>2, <2>3, <2>4, ArmPromise
  <1>4. ASSUME NEW t \in Timers, Stop(t) \/ Destroy(t)
        PROVE  Promise!Next
    <2>1. Held' = Others(t) /\ on' = on \ {t} /\ tv' = tv /\ pc' = pc
      BY <1>4, RemoveInv DEF Stop, Destroy, pass
    <2> QED
      BY <2>1, RemovePromise
  <1> QED
    BY <1>1, <1>2, <1>3, <1>4 DEF Program

\* The callback that a pass runs is due, and its timer is armed again for the
\* rest of its count only.
LEMMA FirePromise == ASSUME IInv, IInv', Fire PROVE Promise!Next
  <1> DEFINE e == Head(list)
             t == e.timer
  <1>1. /\ list # <<>> /\ e \in Entry /\ e \in Held
        /\ Less(e.left) = 0 => Held' = Others(e.timer)
        /\ Less(e.left) # 0 => Held' = Others(e.timer) \cup {Again(e)}
    BY Fired DEF Held
  <1>2. /\ pc = "check" /\ pc' = "call" /\ tv' = tv /\ tvcmp(tv, e.at) >= 0
        /\ on' = IF Less(e.left) # 0 THEN on ELSE on \ {t}
    BY DEF Fire, Due
  <1> HIDE DEF e
  <1>3. t \in Timers /\ e.at \in Reach /\ t \in Existing
    BY <1>1 DEF Entry, IInv, Held
  <1>4. Ticks(e.at) < Ticks(tv) + Ms
    BY <1>2, <1>3, ReachCompares DEF IInv
  <1>5. Shows(ArmedFor, Held)
    BY ArmedShows
  <1>6. /\ t \in DOMAIN ArmedFor
        /\ ArmedFor[t].at = Ticks(e.at) /\ ArmedFor[t].left = e.left
    <2>1. t \in DOMAIN ArmedFor /\ ArmedFor[t] = Alarm(e)
      BY <1>1, <1>5 DEF Shows
    <2> QED
      BY <2>1 DEF Alarm
  <1>7. IF ArmedFor[t].left = 1 THEN Promise!Disarm(t)
        ELSE \E at \in Instants :
                 Promise!Arm(t, [at |-> at, left |-> IF ArmedFor[t].left = Forever THEN Forever
                                                     ELSE ArmedFor[t].left - 1])
    <2>1. e.left \in (Nat \ {0}) \cup {Forever}
      BY <1>1 DEF Entry
    <2>2. CASE e.left = 1
      <3>1. Less(e.left) = 0
        BY <2>2, CountsAssumption DEF Less
      <3>2. Promise!Disarm(t)
        BY <1>1, <3>1, SeenFewer
      <3> QED
        BY <1>6, <2>2, <3>2
    <2>3. CASE e.left # 1
      <3>1. Less(e.left) # 0
        BY <2>1, <2>3, CountsAssumption DEF Less
      <3> DEFINE a == Again(e)
      <3>2. /\ a.timer = t /\ a.at = Deadline(now, interval[t])
            /\ a.left = IF e.left = Forever THEN Forever ELSE e.left - 1
        BY DEF Again, Less
      <3>3. now \in Clock /\ interval[t] \in Intervals
        BY <1>3 DEF IInv
      <3>4. Ticks(a.at) \in Instants
        BY <3>2, <3>3, DeadlineIs DEF Instants
      <3>5. Held' = Others(a.timer) \cup {a}
        BY <1>1, <3>1, <3>2
      <3> HIDE DEF a
      <3>6. Promise!Arm(a.timer, Alarm(a))
        BY <3>5, SeenArmed
      <3>7. Alarm(a) = [at |-> Ticks(a.at), left |-> IF ArmedFor[t].left = Forever THEN Forever
                                                      ELSE ArmedFor[t].left - 1]
        BY <1>6, <3>2 DEF Alarm
      <3>8. Promise!Arm(t, [at |-> Ticks(a.at),
                            left |-> IF ArmedFor[t].left = Forever THEN Forever
                                     ELSE ArmedFor[t].left - 1])
        BY <3>2, <3>6, <3>7
      <3> QED
        BY <1>6, <2>3, <3>4, <3>8
    <2> QED
      BY <2>2, <2>3
  <1>8. (pc = "call") = FALSE /\ (pc = "call")' = TRUE /\ Ticks(tv)' = Ticks(tv)
    BY <1>2 DEF Ticks
  <1>9. on' = IF ArmedFor[t].left = 1 THEN on \ {t} ELSE on
    <2>1. e.left \in (Nat \ {0}) \cup {Forever}
      BY <1>1 DEF Entry
    <2>2. Less(e.left) = 0 <=> e.left = 1
      BY <2>1, CountsAssumption DEF Less
    <2> QED
      BY <1>2, <1>6, <2>2
  <1>10. Promise!Ring(t)
    <2>1. ~(pc = "call") /\ t \in Promise!Armed /\ ArmedFor[t].at < Ticks(tv) + Ms
      BY <1>4, <1>6, <1>8 DEF Promise!Armed
    <2> QED
      BY <2>1, <1>7, <1>8, <1>9 DEF Promise!Ring
  <1> QED
    BY <1>3, <1>10 DEF Promise!Next

\* The clock a pass goes by is read when it begins, and forgotten when it ends.
LEMMA LookPromise ==
    ASSUME IInv, IInv', Held' = Held, on' = on, pc # "call", pc' # "call"
    PROVE  Promise!Next
  <1>1. ArmedFor' = ArmedFor
    BY SeenSame
  <1>2. Ticks(tv)' \in Int
    <2>1. tv' \in Clock
      BY DEF IInv
    <2> QED
      BY <2>1, ClockIs DEF Ticks
  <1>3. ~(pc = "call") /\ (pc = "call")' = (pc = "call")
    OBVIOUS
  <1>4. Promise!Look
    BY <1>1, <1>2, <1>3 DEF Promise!Look
  <1> QED
    BY <1>4 DEF Promise!Next

LEMMA StepPromise ==
    ASSUME IInv, IInv', [Next]_vars
    PROVE  Promise!Next \/ UNCHANGED Promise!vars
  <1>1. ASSUME Check \/ Unlock \/ EndCheck
        PROVE  Promise!Next
    <2>1. list' = list /\ pending' = pending /\ on' = on /\ pc # "call" /\ pc' # "call"
      BY <1>1 DEF Check, Unlock, EndCheck
    <2> QED
      BY <2>1, LookPromise DEF Held
  <1>2. ASSUME Merge
        PROVE  Promise!Next
    <2>1. Held' = Held /\ on' = on /\ pc # "call" /\ pc' # "call"
      BY <1>2, Merged DEF IInv, Merge
    <2> QED
      BY <2>1, LookPromise
  <1>3. ASSUME Return
        PROVE  Promise!Next
    <2>1. /\ list' = list /\ pending' = pending /\ tv' = tv /\ on' = on
          /\ pc = "call" /\ pc' = "check"
      BY <1>3 DEF Return
    <2>2. ArmedFor' = ArmedFor
      BY <2>1, SeenSame DEF Held
    <2>3. (pc = "call") /\ (pc = "call")' = FALSE /\ Ticks(tv)' = Ticks(tv)
      BY <2>1 DEF Ticks
    <2>4. Promise!Done
      BY <2>1, <2>2, <2>3 DEF Promise!Done
    <2> QED
      BY <2>4 DEF Promise!Next
  <1>4. ASSUME Tick \/ UNCHANGED vars
        PROVE  UNCHANGED Promise!vars
    <2>1. list' = list /\ pending' = pending /\ tv' = tv /\ pc' = pc /\ on' = on
      BY <1>4 DEF Tick, vars
    <2>2. ArmedFor' = ArmedFor
      BY <2>1, SeenSame DEF Held
    <2> QED
      BY <2>1, <2>2 DEF Promise!vars, Ticks
  <1> QED
    BY <1>1, <1>2, <1>3, <1>4, ProgramPromise, FirePromise DEF Next, Pass, GoesOn

\* The sorted list, the pending list and the pass over them are the alarms of
\* Alarms: a timer goes off for an instant it was last started for, less than a
\* millisecond early, as often as its count says, and never once it is stopped
\* or destroyed, which takes it off both the history and the lists.
THEOREM Refinement == Spec => ImplementsAlarms
  <1>1. IInv /\ IInv' /\ [Next]_vars => [Promise!Next]_(Promise!vars)
    BY StepPromise
  <1> QED
    BY <1>1, PromiseInit, Invariance, PTL DEF Spec, ImplementsAlarms, Promise!Spec
=============================================================================
