------------------------------ MODULE MCTimers ------------------------------
(* Model checking instance of Timers, in two parts that share the module:   *)
(* a few timers under every operation and pass, and more of them that are   *)
(* only armed, in any order, at instants of a longer clock.                 *)
EXTENDS Timers

CONSTANTS Few,  \* the timers of the first part
          Soon  \* the bound on its clock

VARIABLE arming

Early == {t \in Clock : Ticks(t) <= Soon}

RunNext ==
    \/ \E t \in Few, iv \in Intervals : Create(t, iv)
    \/ \E t \in Few, n \in Counts : Start(t, n)
    \/ \E t \in Few, at \in Early : SetTimeout(t, at)
    \/ \E t \in Few : Stop(t) \/ Destroy(t)
    \/ Pass
    \/ Tick /\ now' \in Early

ArmNext == \E t \in Timers : Create(t, 0) \/ \E at \in Clock : SetTimeout(t, at)

MCInit == /\ Init
          /\ arming \in BOOLEAN
          /\ IF arming THEN now = Zero ELSE now \in Early

MCNext == /\ IF arming THEN ArmNext ELSE RunNext
          /\ UNCHANGED arming

\* The fairness of FairSpec.
MCSpec == MCInit /\ [][MCNext]_<<vars, arming>> /\ WF_vars(GoesOn)
=============================================================================
