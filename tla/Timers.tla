-------------------------------- MODULE Timers --------------------------------
(***************************************************************************)
(* utils/timer.c: the sorted list of armed timers, the pass of             *)
(* timer_check_timeout over it, and the pending list that takes the        *)
(* timers started by the callbacks of a pass.                              *)
(*                                                                         *)
(* A time is a struct timeval, [s, us]; a second has MsPerSec milliseconds *)
(* of Ms ticks, so that the roundings of tvcmp and add_timer are those of  *)
(* the code on a smaller scale, and its int has IntHalf as 2^31.  The      *)
(* clock is gettimeofday: it may be set, forwards or backwards.            *)
(*                                                                         *)
(* An entry is its contents: which memory it has, and free_entries, are    *)
(* left out.  Not modelled: a failing malloc, the average jitter, the      *)
(* interval timer of SIGALRM (no program uses it), and the wrap of a       *)
(* repeat count that started negative, after 2^32 callbacks.               *)
(***************************************************************************)
EXTENDS Integers, Sequences, SequencesExt

CONSTANTS Timers,    \* struct timer
          Intervals, \* intervals of timers, in milliseconds
          Counts,    \* repeat counts, Forever for a negative one
          Forever,
          MsPerSec, Ms, IntHalf,
          Horizon    \* bound on the ticks the clock shows

ASSUME ScaleAssumption == MsPerSec \in Nat \ {0} /\ Ms \in Nat \ {0} /\ IntHalf \in Nat \ {0}
ASSUME IntervalsAssumption == Intervals \subseteq Nat
ASSUME CountsAssumption == Forever \notin Nat /\ Counts \subseteq (Nat \ {0}) \cup {Forever}
ASSUME HorizonAssumption == Horizon \in Nat
\* No two times compared are 2^31 milliseconds apart: the clock is never set
\* by more than 24 days.
ASSUME WidthAssumption ==
    \A iv \in Intervals : Horizon + iv * Ms + 2 * MsPerSec * Ms < IntHalf * Ms

VARIABLES interval, \* the timers that exist, and their intervals
          list,     \* timer_list, entries [timer, at, left]
          pending,  \* pending_list
          pc,       \* outside timer_check_timeout ("idle"), in its first loop
                    \* ("check"), in a callback ("call"), in its second loop ("merge")
          now,      \* the time of day
          tv,       \* the time of day the pass goes by
          wait,     \* what timer_check_timeout returned last
          on        \* history: the timers started, and neither stopped nor destroyed
                    \* nor run out since

vars == <<interval, list, pending, pc, now, tv, wait, on>>

-----------------------------------------------------------------------------
(* Time.                                                                   *)

Sec == MsPerSec * Ms

Clock == {[s |-> t \div Sec, us |-> t % Sec] : t \in 0 .. Horizon}

Ticks(t) == t.s * Sec + t.us

\* Division of C: towards zero.
Trunc(a, b) == IF a >= 0 THEN a \div b ELSE -((-a) \div b)

\* The conversion to int.
Int32(a) == ((a + IntHalf) % (2 * IntHalf)) - IntHalf

tvcmp(t1, t2) == Int32((t1.s - t2.s) * MsPerSec + Trunc(t1.us - t2.us, Ms))

\* tvsub, and the milliseconds timer_check_timeout makes of its result.
MsUntil(t1, t2) ==
    LET borrow == IF t1.us < t2.us THEN 1 ELSE 0
    IN  Int32((t1.s - borrow - t2.s) * MsPerSec + Trunc(t1.us - t2.us + borrow * Sec, Ms))

\* add_timer: a full second of microseconds is not carried.
Deadline(t, iv) ==
    LET us == t.us + (iv % MsPerSec) * Ms
        carry == IF us > Sec THEN 1 ELSE 0
    IN  [s |-> t.s + (iv \div MsPerSec) + carry, us |-> us - carry * Sec]

-----------------------------------------------------------------------------
(* Lists of entries.                                                       *)

\* Mutant: sorts the list the other way round.
BadInsert(l, e) ==
    LET before == {n \in DOMAIN l : \A m \in 1 .. n : tvcmp(e.at, l[m].at) < 0}
    IN  InsertAt(l, Cardinality(before) + 1, e)

\* insert_timer: in front of the first entry that is later.
Insert(l, e) ==
    LET before == {n \in DOMAIN l : \A m \in 1 .. n : tvcmp(e.at, l[m].at) >= 0}
    IN  InsertAt(l, Cardinality(before) + 1, e)

Places(l, t) == {n \in DOMAIN l : l[n].timer = t}

\* A list without the first entry of a timer.
Without(l, t) == IF Places(l, t) = {} THEN l
                 ELSE RemoveAt(l, CHOOSE n \in Places(l, t) : \A m \in Places(l, t) : n <= m)

\* Mutant: remove_timer looks for the timer on timer_list only.
KeptPending(t) == pending

\* remove_timer: from the list, or else from the pending list.
ListAfter(t)    == Without(list, t)
PendingAfter(t) == IF Places(list, t) # {} THEN pending ELSE Without(pending, t)

Existing == DOMAIN interval

\* What tv holds outside a pass, where it does not exist.
Zero == [s |-> 0, us |-> 0]

Init ==
    /\ interval = [t \in {} |-> 0]
    /\ list = <<>> /\ pending = <<>>
    /\ pc = "idle"
    /\ now \in Clock /\ tv = Zero
    /\ wait = 0
    /\ on = {}

-----------------------------------------------------------------------------
(* The operations, called by the program outside the pass and by the       *)
(* callbacks the pass runs.                                                *)

InProgram == pc \in {"idle", "call"}

pass == <<pc, now, tv, wait>>

Create(t, iv) ==
    /\ InProgram
    /\ t \notin Existing
    /\ interval' = [u \in Existing \cup {t} |-> IF u = t THEN iv ELSE interval[u]]
    /\ UNCHANGED <<list, pending, pass, on>>

Destroy(t) ==
    /\ InProgram
    /\ t \in Existing
    /\ interval' = [u \in Existing \ {t} |-> interval[u]]
    /\ list' = ListAfter(t)
    /\ pending' = PendingAfter(t)
    /\ on' = on \ {t}
    /\ UNCHANGED pass

Stop(t) ==
    /\ InProgram
    /\ t \in Existing
    /\ list' = ListAfter(t)
    /\ pending' = PendingAfter(t)
    /\ on' = on \ {t}
    /\ UNCHANGED <<interval, pass>>

\* Mutant: the timer of a callback goes into the list the pass walks over.
EagerArm(e) ==
    /\ list' = Insert(ListAfter(e.timer), e)
    /\ pending' = PendingAfter(e.timer)

\* remove_timer, and the new entry is inserted, or pended while the list is
\* locked by a pass.
Arm(e) ==
    IF pc = "idle"
    THEN list' = Insert(ListAfter(e.timer), e) /\ pending' = PendingAfter(e.timer)
    ELSE list' = ListAfter(e.timer) /\ pending' = <<e>> \o PendingAfter(e.timer)

Start(t, n) ==
    /\ InProgram
    /\ t \in Existing
    /\ Arm([timer |-> t, at |-> Deadline(now, interval[t]), left |-> n])
    /\ on' = on \cup {t}
    /\ UNCHANGED <<interval, pass>>

\* set_timeout
SetTimeout(t, at) ==
    /\ InProgram
    /\ t \in Existing
    /\ Arm([timer |-> t, at |-> at, left |-> 1])
    /\ on' = on \cup {t}
    /\ UNCHANGED <<interval, pass>>

-----------------------------------------------------------------------------
(* timer_check_timeout.                                                    *)

Check ==
    /\ pc = "idle"
    /\ tv' = now
    /\ pc' = "check"
    /\ wait' = 0
    /\ UNCHANGED <<interval, list, pending, now, on>>

Due == list # <<>> /\ tvcmp(tv, Head(list).at) >= 0

Less(n) == IF n = Forever THEN Forever ELSE n - 1

Again(e) == [timer |-> e.timer, at |-> Deadline(now, interval[e.timer]), left |-> Less(e.left)]

\* Mutant: the count is looked at before it is decremented.
BadFire ==
    /\ pc = "check"
    /\ Due
    /\ pending' = IF Head(list).left # 0 THEN <<Again(Head(list))>> \o pending ELSE pending
    /\ list' = Tail(list)
    /\ pc' = "call"
    /\ on' = IF Less(Head(list).left) # 0 THEN on ELSE on \ {Head(list).timer}
    /\ UNCHANGED <<interval, now, tv, wait>>

\* The head is due: its entry is pended again or freed, and the callback runs.
Fire ==
    /\ pc = "check"
    /\ Due
    /\ pending' = IF Less(Head(list).left) # 0 THEN <<Again(Head(list))>> \o pending
                                               ELSE pending
    /\ list' = Tail(list)
    /\ pc' = "call"
    /\ on' = IF Less(Head(list).left) # 0 THEN on ELSE on \ {Head(list).timer}
    /\ UNCHANGED <<interval, now, tv, wait>>

Return ==
    /\ pc = "call"
    /\ pc' = "check"
    /\ UNCHANGED <<interval, list, pending, now, tv, wait, on>>

\* The head is not due: the loop ends, and the list is unlocked.
Unlock ==
    /\ pc = "check"
    /\ ~Due
    /\ pc' = "merge"
    /\ UNCHANGED <<interval, list, pending, now, tv, wait, on>>

\* A pending entry is inserted.
Merge ==
    /\ pc = "merge"
    /\ pending # <<>>
    /\ list' = Insert(list, Head(pending))
    /\ pending' = Tail(pending)
    /\ UNCHANGED <<interval, pc, now, tv, wait, on>>

\* Mutant: waits for the last entry.
BadEndCheck ==
    /\ pc = "merge"
    /\ pending = <<>>
    /\ wait' = IF list = <<>> THEN -1
               ELSE LET ms == MsUntil(Last(list).at, now) IN IF ms < 0 THEN 0 ELSE ms
    /\ pc' = "idle"
    /\ tv' = Zero
    /\ UNCHANGED <<interval, list, pending, now, on>>

\* None is left: the time until the first entry is what the main loop will wait
\* for, -1 for ever.
EndCheck ==
    /\ pc = "merge"
    /\ pending = <<>>
    /\ wait' = IF list = <<>> THEN -1
               ELSE LET ms == MsUntil(Head(list).at, now) IN IF ms < 0 THEN 0 ELSE ms
    /\ pc' = "idle"
    /\ tv' = Zero
    /\ UNCHANGED <<interval, list, pending, now, on>>

\* Time passes, or the clock is set.
Tick ==
    /\ now' \in Clock \ {now}
    /\ UNCHANGED <<interval, list, pending, pc, tv, wait, on>>

-----------------------------------------------------------------------------

Program ==
    \/ \E t \in Timers, iv \in Intervals : Create(t, iv)
    \/ \E t \in Timers, n \in Counts : Start(t, n)
    \/ \E t \in Timers, at \in Clock : SetTimeout(t, at)
    \/ \E t \in Timers : Stop(t) \/ Destroy(t)

\* What a pass that has begun does.
GoesOn == Fire \/ Return \/ Unlock \/ Merge \/ EndCheck

Pass == Check \/ GoesOn

Next == Program \/ Pass \/ Tick

Spec == Init /\ [][Next]_vars

\* A pass that has begun goes on: its callbacks return.
FairSpec == Spec /\ WF_vars(GoesOn)

-----------------------------------------------------------------------------
(* Properties.                                                             *)

InUse == list \o pending

\* The entries on the two lists are those of the timers that were started and
\* neither stopped nor destroyed nor run out since, one for each, and these
\* timers exist: a timer that was stopped or destroyed, by its own callback or
\* another's, before the pass or in it, has no entry that could still go off
\* with a freed context, and one that was started has an entry that will.
ArmedAreOn ==
    /\ \A t \in Timers : Cardinality(Places(InUse, t)) = IF t \in on THEN 1 ELSE 0
    /\ on \subseteq Existing

\* When the callbacks have run, no timer is left that was due a millisecond
\* before the pass began, though it looks at the head of the list only.
NoneOverdue ==
    [][Unlock => \A n \in DOMAIN list : Ticks(list[n].at) > Ticks(tv) - Ms]_vars

\* The main loop waits forever only when no timer is armed, and never more
\* than a millisecond beyond the first one.
WakesInTime ==
    [][EndCheck =>
         /\ wait' = -1 <=> InUse = <<>>
         /\ \A n \in DOMAIN InUse : wait' * Ms < Max({Ticks(InUse[n].at) - Ticks(now), 0}) + Ms]_vars

\* Every pass ends, whatever its callbacks start and stop.
PassEnds == (pc # "idle") ~> (pc = "idle")

ArmedFor ==
    [t \in {InUse[n].timer : n \in DOMAIN InUse} |->
        LET n == CHOOSE m \in DOMAIN InUse : InUse[m].timer = t
        IN  [at |-> Ticks(InUse[n].at), left |-> InUse[n].left]]

Instants == {Ticks(c) + iv * Ms : c \in Clock, iv \in Intervals \cup {0}}

Promise == INSTANCE Alarms WITH Counts <- Counts \cup {1}, armed <- ArmedFor,
                                clock <- Ticks(tv), rings <- pc = "call"

\* The lists implement the alarms: what goes off is a timer with an entry, for
\* the instant of the entry, no more than a millisecond early, and the entry
\* goes on as often as its count says; no other timer's entry is lost, moved or
\* doubled by it, none comes into being but by a start, and none outlives a
\* stop or the end of its timer, which "on" tells from a step that does nothing.
ImplementsAlarms == Promise!Spec
=============================================================================
