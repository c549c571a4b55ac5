--------------------------------- MODULE Socks ---------------------------------
(***************************************************************************)
(* utils/socks.c: a client of a SOCKS 5 server.  A call connects, offers   *)
(* authentication by name and password, sends its request and returns the  *)
(* socket; the server may answer anything, and close the connection before *)
(* an answer or within it.  readn then returns fewer bytes than it was     *)
(* asked for, which no caller looks at: the code is whatever the buffer    *)
(* held, nothing for the method, the length of the user's name after it,   *)
(* the number of the request at last.                                      *)
(*                                                                         *)
(* A code is 0, 2 (the method offered) or 255 for every other.  Not        *)
(* modelled: addresses and their bytes, and resolving the server's name.   *)
(***************************************************************************)
EXTENDS Sockets

CONSTANTS UserEmpty, \* the option relay-user is the empty string
          MaxRefused \* bound: requests that the server refuses

Codes == {0, 2, 255}

VARIABLES request, \* "connect", "listen" or "associate"
          stage,   \* what the call waits for, or "idle", "returned", "exited"
          created, \* the call made its socket, else it was given one
          closed,  \* the server has closed the connection
          said,    \* history: the codes the server sent in this call
          open,    \* sockets made here and not closed
          refused, \* history: requests without success, on a socket made here
          tries,   \* of socks_initiate, which are left
          alive    \* history: a keep-alive was sent

socksVars == <<request, stage, created, closed, said, open, refused, tries, alive>>

-----------------------------------------------------------------------------

SocksInit ==
    /\ request = "connect" /\ stage = "idle" /\ created = FALSE /\ closed = FALSE
    /\ said = <<>> /\ open = 0 /\ refused = 0 /\ tries = 0 /\ alive = FALSE

\* socks_connect, socks_listen, socks_associate up to connect in socks_establish;
\* without a server's address, or a socket, nothing has happened.
Begin(r, own) ==
    /\ stage = "idle" /\ refused < MaxRefused
    /\ request' = r /\ created' = own /\ closed' = FALSE /\ said' = <<>>
    /\ stage' = "connecting"
    /\ open' = IF own THEN open + 1 ELSE open
    /\ UNCHANGED <<refused, tries, alive>>

\* Mutant: the socket stays open when the server does not accept the user.
BadFail ==
    /\ stage' = "idle"
    /\ open' = IF created /\ stage # "auth" THEN open - 1 ELSE open
    /\ UNCHANGED <<request, created, refused, tries, alive>>

\* socks_establish gives up: it closes what it made.
Fail ==
    /\ stage' = "idle"
    /\ open' = IF created THEN open - 1 ELSE open
    /\ UNCHANGED <<request, created, refused, tries, alive>>

GoesOn(s) == stage' = s /\ UNCHANGED <<request, created, open, refused, tries, alive>>

\* Fifteen seconds of select: the program ends.  A connection that was refused
\* is writable, and writing to it fails.
Establish ==
    /\ stage = "connecting"
    /\ GoesOn("exited") \/ GoesOn("method") \/ Fail
    /\ UNCHANGED <<closed, said>>

\* The two bytes up to the code: sent by the server, or what was there before.
Reads(c, before) ==
    \/ ~closed /\ said' = Append(said, c) /\ closed' \in BOOLEAN
    \/ c \in before /\ closed' = TRUE /\ UNCHANGED said

\* socks_auth: without name and password nothing is sent.
Method ==
    /\ stage = "method"
    /\ \E c \in Codes :
           /\ Reads(c, Codes)
           /\ CASE c = 0 -> GoesOn("reply")
                [] c = 2 -> GoesOn("auth") \/ Fail
                [] OTHER -> Fail

\* socks_auth_rfc1929: the answer is read over the name that was sent.
Auth ==
    /\ stage = "auth"
    /\ \E c \in Codes :
           /\ Reads(c, IF UserEmpty THEN {0} ELSE {255})
           /\ IF c = 0 THEN GoesOn("reply") ELSE Fail

\* socks_cmd: the answer is read over the request; nobody closes the socket of
\* a request without success.
Reply ==
    /\ stage = "reply"
    /\ \E c \in Codes :
           /\ Reads(c, {255})
           /\ IF c = 0 THEN GoesOn("returned")
              ELSE /\ stage' = "idle"
                   /\ refused' = IF created THEN refused + 1 ELSE refused
                   /\ UNCHANGED <<request, created, open, tries, alive>>

\* socks_accept reads the second answer into memory that holds anything: what
\* it returns means nothing when the server has closed the connection.
Accept ==
    /\ stage = "returned" /\ request = "listen"
    /\ closed' \in {closed, TRUE}
    /\ GoesOn("returned")
    /\ UNCHANGED said

\* The program closes the socket that it got or gave.
Closes ==
    /\ stage \in {"returned", "relayed"}
    /\ Fail
    /\ UNCHANGED <<closed, said>>

-----------------------------------------------------------------------------
(* Datagrams: eight times a keep-alive and a quarter of a second.          *)

Initiate ==
    /\ stage = "returned" /\ request = "associate"
    /\ stage' = "initiating" /\ tries' = 8 /\ alive' = FALSE
    /\ UNCHANGED <<request, created, closed, said, open, refused>>

\* Sending fails, nothing comes, or something else; or the acknowledgement of
\* this keep-alive or of one before.
Try ==
    /\ stage = "initiating"
    /\ tries' = tries - 1
    /\ alive' \in {alive, TRUE}
    /\ stage' \in (IF alive' THEN {"relayed"} ELSE {})
                  \cup (IF tries' = 0 THEN {"returned"} ELSE {"initiating"})
    /\ UNCHANGED <<request, created, closed, said, open, refused>>

SocksNext ==
    \/ \E r \in {"connect", "listen", "associate"}, own \in BOOLEAN : Begin(r, own)
    \/ Establish \/ Method \/ Auth \/ Reply \/ Accept \/ Closes \/ Initiate \/ Try

SocksSpec == SocksInit /\ [][SocksNext]_socksVars

-----------------------------------------------------------------------------

\* A socket is returned only when the server said that the request succeeded
\* and, if it wanted name and password, that they are right, however early it
\* closed the connection; and the sockets made here are closed but for those
\* of requests that the server refused.
GrantsHeard ==
    /\ stage \in {"returned", "initiating", "relayed"} =>
           \/ SubSeq(said, 1, 2) = <<0, 0>>
           \/ SubSeq(said, 1, 3) = <<2, 0, 0>>
    /\ open = refused + IF created /\ stage \notin {"idle"} THEN 1 ELSE 0

\* Of utils: a proxy's socket is returned only when the proxy granted the
\* request, no socket is lost but those of refused requests and of tcp_listen,
\* and the interface of a network that is reached without a gateway is found.
SocketsKept == GrantsHeard /\ RoutesFound
=============================================================================
