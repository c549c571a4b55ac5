-------------------------------- MODULE Alarms --------------------------------
(***************************************************************************)
(* What the timers of utils/timer.c promise, with no lists, entries or     *)
(* locks: a timer is armed for one instant at most, it goes off when the   *)
(* clock of the check has come within a millisecond of that instant, as    *)
(* many times as it was started for, and never once it is stopped or       *)
(* destroyed.  Timers implements this.                                     *)
(*                                                                         *)
(* Which timers are on is kept apart from what they wait for, so that to   *)
(* stop one that stays armed would be no step of this specification.       *)
(***************************************************************************)
EXTENDS Integers

CONSTANTS Timers,  \* the timers of the program
          Instants,\* the times a timer may be armed for, in ticks
          Counts,  \* how often a started timer goes off
          Forever, \* the count that does not run out
          Ms       \* the ticks of a millisecond

VARIABLES armed,   \* what each armed timer waits for: an instant and a count
          clock,   \* the time the check goes by
          rings,   \* whether a callback runs
          on       \* the timers started, and neither stopped nor run out since

vars == <<armed, clock, rings, on>>

Armed == DOMAIN armed

Init == armed = [t \in {} |-> 0] /\ rings = FALSE /\ clock \in Int /\ on = {}

Arm(t, a) == armed' = [u \in Armed \cup {t} |-> IF u = t THEN a ELSE armed[u]]

Disarm(t) == armed' = [u \in Armed \ {t} |-> armed[u]]

Start(t, at, n) == /\ Arm(t, [at |-> at, left |-> n])
                   /\ on' = on \cup {t}
                   /\ UNCHANGED <<clock, rings>>

Stop(t) == /\ Disarm(t)
           /\ on' = on \ {t}
           /\ UNCHANGED <<clock, rings>>

Look == ~rings /\ clock' \in Int /\ UNCHANGED <<armed, rings, on>>

Ring(t) == /\ ~rings
           /\ t \in Armed
           /\ armed[t].at < clock + Ms
           /\ rings' = TRUE
           /\ on' = IF armed[t].left = 1 THEN on \ {t} ELSE on
           /\ IF armed[t].left = 1 THEN Disarm(t)
              ELSE \E at \in Instants :
                       Arm(t, [at |-> at, left |-> IF armed[t].left = Forever THEN Forever
                                                   ELSE armed[t].left - 1])
           /\ UNCHANGED clock

Done == rings /\ rings' = FALSE /\ UNCHANGED <<armed, clock, on>>

Next == \/ \E t \in Timers, at \in Instants, n \in Counts : Start(t, at, n)
        \/ \E t \in Timers : Stop(t) \/ Ring(t)
        \/ Look \/ Done

Spec == Init /\ [][Next]_vars
=============================================================================
