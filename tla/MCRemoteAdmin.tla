----------------------------- MODULE MCRemoteAdmin -----------------------------
(* Model checking instance of RemoteAdmin.  Numbers of different kinds are     *)
(* kept apart, so that a mix-up shows.                                         *)
EXTENDS RemoteAdmin

ServerFds == 11 .. 16
DeviceFds == 21 .. 25

\* A customer's session that stays, the connection the device waits on, the
\* one that replaces it, and one more that the server has not yet dropped.
FourLinks == 101 .. 104

\* No list is sent.
NoneBegins == [a \in Ips |-> {}]
=============================================================================
