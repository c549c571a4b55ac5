--------------------------------- MODULE Lists ---------------------------------
(***************************************************************************)
(* The loops of utils that go through a list and take members out.  The    *)
(* test is a set, not an operator as that of SelectSeq, and the loop a     *)
(* function of its index: it can be reasoned about.                        *)
(***************************************************************************)
EXTENDS Naturals, Sequences

\* What stays of s when all that is not in S is taken out.
Only(s, S) ==
    LET kept[i \in 0..Len(s)] ==
            IF i = 0 THEN <<>>
            ELSE IF s[i] \in S THEN Append(kept[i - 1], s[i]) ELSE kept[i - 1]
    IN  kept[Len(s)]
=============================================================================
