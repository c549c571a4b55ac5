-------------------------------- MODULE Broker --------------------------------
(***************************************************************************)
(* What radmsrvd promises, with no sockets, lists or timers.  A device     *)
(* offers one link at a time for each of its services; a customer whose    *)
(* address is granted gets the offered link for itself, and a link is never*)
(* handed out twice.  Requests of the page are obeyed in their order: each *)
(* grants the address it came from for a while, and may delete a service or*)
(* replace the list of the addresses granted for good.  A list may be      *)
(* obeyed in part, or be taken for an address of an earlier one.  Offers   *)
(* and sessions may end at any time; a restart of the server ends all of   *)
(* them, and all grants but those of its start.  RadmServer implements     *)
(* this.                                                                   *)
(***************************************************************************)
EXTENDS Sequences

CONSTANTS Services,  \* the (device, service) pairs
          Links,     \* the connections of devices to the server
          Ips,       \* the addresses of customers
          Requests,  \* what a request of the page may ask for
          InitWhite, \* the addresses on the white list at the start
          Begins,    \* the addresses an address may be taken for when cut short
          Nil        \* no link

VARIABLES offer,     \* the link on offer, for each service
          sessions,  \* the pairs (link, customer address) being forwarded
          list,      \* the white list
          logins,    \* the addresses requests of the page came from lately
          past,      \* addresses of lists that were obeyed since the start
          asked      \* the requests of the page not obeyed yet

vars == <<offer, sessions, list, logins, past, asked>>

grants == <<list, logins, past>>

InSession == {s[1] : s \in sessions}

Init == /\ offer = [v \in Services |-> Nil]
        /\ sessions = {}
        /\ list = InitWhite /\ logins = {} /\ past = {}
        /\ asked = <<>>

\* A new link replaces the one on offer.
Offer(v, k) == /\ UNCHANGED <<asked, sessions, grants>>
               /\ k \notin InSession
               /\ \A u \in Services : offer[u] # k
               /\ offer' = [offer EXCEPT ![v] = k]

Withdraw(v) == /\ UNCHANGED <<asked, sessions, grants>>
               /\ offer' = [offer EXCEPT ![v] = Nil]

Connect(v, a) == /\ UNCHANGED <<asked, grants>>
                 /\ offer[v] # Nil
                 /\ a \in list \cup logins
                 /\ sessions' = sessions \cup {<<offer[v], a>>}
                 /\ offer' = [offer EXCEPT ![v] = Nil]

End(s) == /\ sessions' = sessions \ {s}
          /\ UNCHANGED <<offer, grants, asked>>

\* A request from address a, with what it asks for, if anything.
Ask(a, more) == /\ asked' = asked \o <<[cmd |-> "IP", ip |-> a]>> \o more
                /\ UNCHANGED <<offer, sessions, grants>>

Obey(cmd) == asked # <<>> /\ Head(asked).cmd = cmd /\ asked' = Tail(asked)

LogIn == /\ Obey("IP")
         /\ logins' = logins \cup {Head(asked).ip}
         /\ UNCHANGED <<offer, sessions, list, past>>

Forget(a) == /\ logins' = logins \ {a}
             /\ UNCHANGED <<offer, sessions, list, past, asked>>

\* An address of an earlier list, or what such an address begins with.
Former == past \cup UNION {Begins[a] : a \in past}

NewList == /\ Obey("W")
           /\ list' \subseteq Head(asked).list \/ \E a \in Former : list' = {a}
           /\ \E as \in SUBSET Head(asked).list : past' = past \cup as
           /\ UNCHANGED <<offer, sessions, logins>>

\* The service the request names, and no other, may lose its offer.
Delete == /\ Obey("D")
          /\ \/ offer' = offer
             \/ offer' = [offer EXCEPT ![<<Head(asked).id, Head(asked).kind>>] = Nil]
          /\ UNCHANGED <<sessions, grants>>

Restart == /\ offer' = [v \in Services |-> Nil]
           /\ sessions' = {}
           /\ list' = InitWhite /\ logins' = {} /\ past' = {}
           /\ asked' = <<>>

Next == \/ \E v \in Services, k \in Links : Offer(v, k)
        \/ \E v \in Services : Withdraw(v)
        \/ \E v \in Services, a \in Ips : Connect(v, a)
        \/ \E s \in sessions : End(s)
        \/ \E a \in Ips, more \in {<<>>} \cup {<<r>> : r \in Requests} : Ask(a, more)
        \/ LogIn \/ NewList \/ Delete
        \/ \E a \in Ips : Forget(a)
        \/ Restart

Spec == Init /\ [][Next]_vars
=============================================================================
