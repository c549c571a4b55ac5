--------------------------------- MODULE Ports ---------------------------------
(***************************************************************************)
(* The ports of the device entries (radmsrv_alloc_addr in radmsrv/radm.c): *)
(* radmsrvd takes them in turn from the range of its option -r, in numbers *)
(* of Bits bits for the 16 of an unsigned short, and tries the next one    *)
(* while bind says that a port is in use.                                  *)
(***************************************************************************)
EXTENDS Naturals, FiniteSets

CONSTANTS Bits, \* width of port_min, port_max and get_port
          Tries \* for the 10 of radmsrv_new_client

ASSUME PortsAssumption == Bits \in Nat /\ 2^Bits \in Nat /\ Tries \in Nat \ {0}

VARIABLES range,   \* <<port_min, port_max>>
          getPort, \* get_port
          held,    \* ports of entries
          between  \* history: of each port, those asked for since it was

portVars == <<range, getPort, held, between>>

Numbers == 0..2^Bits-1

PortsInit ==
    /\ range \in {r \in Numbers \X Numbers : 0 < r[1] /\ r[1] < r[2]}
    /\ getPort = range[1] /\ held = {}
    /\ between = [p \in Numbers |-> Numbers]

\* Mutant: the turn begins anew at the last port.
BadAfter(p) == IF p + 1 >= range[2] THEN range[1] ELSE p + 1

\* get_port++ and what follows it.
After(p) == LET next == (p + 1) % 2^Bits
            IN  IF next > range[2] THEN range[1] ELSE next

\* radmsrv_new_client: k ports are in use, by entries or others, and the next
\* one is not, or none is left to try and no entry is made.  To bind the port
\* 0 is to bind any port that is free.
NewClient(k) ==
    LET asked[j \in 1..Tries] == IF j = 1 THEN getPort ELSE After(asked[j - 1])
        last == IF k = Tries THEN k ELSE k + 1
        bound == IF k = Tries THEN {}
                 ELSE (IF asked[last] = 0 THEN Numbers \ {0} ELSE {asked[last]}) \ held
    IN  /\ \A j \in 1..k : asked[j] # 0
        /\ IF k = Tries THEN UNCHANGED held ELSE \E p \in bound : held' = held \cup {p}
        /\ getPort' = After(asked[last])
        /\ between' = [p \in Numbers |->
               LET J == {j \in 1..last : asked[j] = p}
                   since == {asked[j] : j \in {i \in 1..last : \A l \in J : i > l}}
               IN  IF J = {} THEN between[p] \cup since ELSE since]
        /\ UNCHANGED range

\* An entry is deleted and its socket closed.
Frees(p) == held' = held \ {p} /\ UNCHANGED <<range, getPort, between>>

PortsNext == (\E k \in 0..Tries : NewClient(k)) \/ \E p \in held : Frees(p)

PortsSpec == PortsInit /\ [][PortsNext]_portVars

\* Entries have ports of the range, and a port comes up again only after all
\* the others: who still has the address of a device that is gone does not
\* meet another one there.  A range that ends with the last number is an
\* exception: the number after it is 0, and not behind the range.
PortsInTurn ==
    range[2] < 2^Bits - 1 =>
        /\ held \cup {getPort} \subseteq range[1]..range[2]
        /\ (range[1]..range[2]) \ {getPort} \subseteq between[getPort]
=============================================================================
