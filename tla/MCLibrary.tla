------------------------------ MODULE MCLibrary ------------------------------
(***************************************************************************)
(* The modules of the libraries libhttpd and utils, checked in one run.    *)
(* They share nothing: the initial state chooses one unit, of which the    *)
(* steps are taken; a unit without state is a sample, and has no steps.    *)
(***************************************************************************)
EXTENDS HttpRequest, HttpContent, Scheduler, EventLoop, Containers, Observers, Socks, Ports

VARIABLES unit, sample

Event1First == [e \in Events |-> IF e = 1 THEN 1 ELSE 0]

\* Tables of up to three routes: the destination is in it or not, with the
\* length of the mask and with a gateway or without.
RouteTables ==
    LET Rows == {<<FALSE, 0, 0>>} \cup {TRUE} \X (0..2) \X (0..1)
    IN  {[i \in DOMAIN f |-> [fits |-> f[i][1], mask |-> f[i][2], gw |-> f[i][3],
                              dev |-> <<"a", "b", "c">>[i]]] :
            f \in UNION {[1..n -> Rows] : n \in 1..3}}

Texts == INSTANCE HttpText
Stun == INSTANCE Stun

-----------------------------------------------------------------------------
(* Samples.                                                                *)

Strings(S, n) == UNION {[1..k -> S] : k \in 0..n}

Acls == Strings([addr : {0, 5, 7}, len : 0..3, permit : BOOLEAN], 2)

Entries ==
    LET entry(t) == [dir : {<<>>, <<"d">>}, name : {IF Wild([type |-> t]) THEN "NULL" ELSE "n"},
                     type : {t}, index : IF Wild([type |-> t]) THEN {FALSE} ELSE BOOLEAN,
                     preload : {"none"}, there : {TRUE}]
        missing == {[dir |-> <<"d">>, name |-> "n", type |-> "FILE", index |-> TRUE, preload |-> p, there |-> FALSE] :
                   p \in {"none", "ends"}}
    IN  missing \cup UNION {entry(t) : t \in {"C_FUNCT", "STATIC", "FILE", "WILDCARD", "C_WILDCARD"}}

ContentRequests == [dir : {<<>>, <<"d">>}, name : {"", "n", "m"}, since : BOOLEAN, login : BOOLEAN]

ErrorHandlers == {<<>>, "404" :> "page", "304" :> "page", "304" :> "none"}

Messages ==
    LET value(n) == CASE n \in Stun!Addresses -> <<2, 3, 4, 5, 6, 7>>
                      [] n = "change" -> <<0, 0, 0, 6>>
                      [] n = "error" -> [class |-> 4, number |-> 1, reason |-> <<65>>]
                      [] n = "unknown" -> <<17, 18>>
                      [] OTHER -> <<65, 66, 0, 0>>
    IN  {[type |-> t, attrs |-> [n \in A |-> value(n)]] :
            t \in {Stun!BindRequest, Stun!BindResponse, Stun!SecretResponse},
            A \in UNION {kSubset(k, DOMAIN Stun!Code \ {"integrity"}) : k \in 0..2}}

IsSample ==
    \/ unit = "path" /\ sample \in Strings({"/", ".", "a"}, 8)
    \/ unit = "url" /\ sample \in Strings({37, 43, 32, 97, 255, 52}, 3)
    \/ unit = "base64" /\ sample \in Strings({1, 130, 255}, 5)
    \/ unit = "template" /\ sample \in Strings(Texts!Pieces, 3)
    \/ unit = "acl" /\ sample \in Acls
    \/ unit = "stun" /\ sample \in Messages \X {<<>>, <<1>>}

-----------------------------------------------------------------------------

Units == {"request", "content", "tasks", "loop", "chains", "signals", "proxy", "net", "ports"}

\* What another unit than the chosen one may begin with does not matter.
MCInit ==
    /\ IsSample \/ (unit \in Units /\ sample = <<>>)
    /\ RequestInit /\ ContentInit /\ SchedulerInit /\ EventInit
    /\ ContainerInit /\ (unit # "chains" => kind = "list")
    /\ ObserverInit /\ SocksInit /\ SocketsInit
    /\ PortsInit /\ (unit # "ports" => range = <<1, 2>>)

rq == requestVars
ct == contentVars
tk == schedulerVars
ev == eventVars
ch == containerVars
ob == observerVars
sk == socksVars
nt == socketsVars
pt == portVars

MCNext ==
    /\ UNCHANGED <<unit, sample>>
    /\ \/ unit = "request" /\ RequestNext /\ UNCHANGED <<ct, tk, ev, ch, ob, sk, nt, pt>>
       \/ unit = "content" /\ ContentNext /\ UNCHANGED <<rq, tk, ev, ch, ob, sk, nt, pt>>
       \/ unit = "tasks" /\ SchedulerNext /\ UNCHANGED <<rq, ct, ev, ch, ob, sk, nt, pt>>
       \/ unit = "loop" /\ EventNext /\ UNCHANGED <<rq, ct, tk, ch, ob, sk, nt, pt>>
       \/ unit = "chains" /\ ContainerNext /\ UNCHANGED <<rq, ct, tk, ev, ob, sk, nt, pt>>
       \/ unit = "signals" /\ ObserverNext /\ UNCHANGED <<rq, ct, tk, ev, ch, sk, nt, pt>>
       \/ unit = "proxy" /\ SocksNext /\ UNCHANGED <<rq, ct, tk, ev, ch, ob, nt, pt>>
       \/ unit = "net" /\ SocketsNext /\ UNCHANGED <<rq, ct, tk, ev, ch, ob, sk, pt>>
       \/ unit = "ports" /\ PortsNext /\ UNCHANGED <<rq, ct, tk, ev, ch, ob, sk, nt>>

MCSpec == MCInit /\ [][MCNext]_<<unit, sample, rq, ct, tk, ev, ch, ob, sk, nt, pt>>

-----------------------------------------------------------------------------
(* Properties, each of one module and stated there.                        *)

\* protocol.c, api.c, ip_acl.c, stun.c: each conversion keeps or finds what it
\* promises: the place a path asks for, escaped and encoded bytes, the values
\* of the references in a template, the ranges of addresses that may call; and
\* a STUN message is parsed to what was encoded, and never to a part of it.
ConversionsKept ==
    /\ unit = "path" => Texts!PathResolved(sample)
    /\ unit = "url" => Texts!EscapeKept(sample)
    /\ unit = "base64" => Texts!Base64Kept(sample, 4)
    /\ unit = "template" => Texts!ExpandedRight(sample)
    /\ unit = "acl" => \A a \in 0..7 : Texts!AclObeyed(sample, a, 3)
    /\ unit = "stun" => Stun!MessageKept(sample[1], sample[2])
=============================================================================
