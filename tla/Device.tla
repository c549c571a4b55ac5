-------------------------------- MODULE Device --------------------------------
(***************************************************************************)
(* What radmcli promises to the server: while it runs, it keeps one link   *)
(* on offer for each of its services.  A link that is lost or too old is   *)
(* replaced; a link whose first byte arrives becomes a session with the    *)
(* local service and is replaced in the same step; nothing else becomes a  *)
(* session.  RadmClient implements this.                                   *)
(***************************************************************************)
CONSTANTS Services, \* the local services
          Links     \* connections to the server

VARIABLES on,       \* the client runs
          offer,    \* the link on offer, by service; empty at start-up
          sessions  \* the links being forwarded, with their services

vars == <<on, offer, sessions>>

None == [v \in {} |-> {}]

Offered == {offer[v] : v \in DOMAIN offer}

Used == Offered \cup {s[1] : s \in sessions}

Init == on = FALSE /\ offer = None /\ sessions = {}

Boot(o) == /\ ~on
           /\ \A v, u \in Services : o[v] = o[u] => v = u
           /\ on' = TRUE
           /\ offer' = o
           /\ UNCHANGED sessions

Renew(v, k) == /\ on
               /\ k \notin Used \ {offer[v]}
               /\ offer' = [offer EXCEPT ![v] = k]
               /\ UNCHANGED <<on, sessions>>

HandOver(v, k) == /\ on
                  /\ k \notin Used
                  /\ offer' = [offer EXCEPT ![v] = k]
                  /\ sessions' = sessions \cup {<<offer[v], v>>}
                  /\ UNCHANGED on

End(s) == /\ sessions' = sessions \ {s}
          /\ UNCHANGED <<on, offer>>

Die == on' = FALSE /\ offer' = None /\ sessions' = {}

Next == \/ \E o \in [Services -> Links] : Boot(o)
        \/ \E v \in Services, k \in Links : Renew(v, k) \/ HandOver(v, k)
        \/ \E s \in sessions : End(s)
        \/ Die

Spec == Init /\ [][Next]_vars
=============================================================================
