--------------------------------- MODULE Pipe ---------------------------------
(***************************************************************************)
(* What a relayed connection promises to its two ends: each direction is a *)
(* stream of bytes, the n-th byte taken out is the n-th byte put in, and   *)
(* the connection ends only because an end failed, or because an end       *)
(* closed and all it had put in was taken out.  Forward implements this.   *)
(***************************************************************************)
EXTENDS Naturals, Sequences

CONSTANT Sides

VARIABLES put,    \* how many bytes each side has put in
          taken,  \* what was taken out, by the side that put it in
          closed, \* the sides that will put in no more
          failed, \* the sides whose connection is broken
          open    \* the connection lasts

vars == <<put, taken, closed, failed, open>>

Init == /\ put = [d \in Sides |-> 0]
        /\ taken = [d \in Sides |-> <<>>]
        /\ closed = {}
        /\ failed = {}
        /\ open = TRUE

Put(d) == /\ d \notin closed
          /\ put' = [put EXCEPT ![d] = @ + 1]
          /\ UNCHANGED <<taken, closed, failed, open>>

\* Any number of the bytes that follow those taken so far.
Take(d) == /\ taken' = [taken EXCEPT ![d] = taken'[d]]
           /\ Len(taken'[d]) \in Len(taken[d]) .. put[d]
           /\ taken'[d] = [n \in 1 .. Len(taken'[d]) |-> n]
           /\ UNCHANGED <<put, closed, failed, open>>

Close(d) == closed' = closed \cup {d} /\ UNCHANGED <<put, taken, failed, open>>

Fail(d) == failed' = failed \cup {d} /\ UNCHANGED <<put, taken, closed, open>>

End == /\ \/ failed # {}
          \/ \E d \in closed : Len(taken[d]) = put[d]
       /\ open' = FALSE
       /\ UNCHANGED <<put, taken, closed, failed>>

Next == End \/ \E d \in Sides : Put(d) \/ Take(d) \/ Close(d) \/ Fail(d)

Spec == Init /\ [][Next]_vars
=============================================================================
