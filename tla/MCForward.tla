----------------------------- MODULE MCForward -----------------------------
(* Model checking instances of Forward and ClientForward, which share their *)
(* peers: a behaviour is that of a session of one of the two programs.      *)
EXTENDS ClientForward

VARIABLE program

Server(step) == program = "radmsrvd" /\ step /\ UNCHANGED <<busy, taken, program>>

Client(step) == program = "radmcli" /\ step /\ UNCHANGED program

BothNext == Server(Next) \/ Client(ClientNext)

BothInit == ClientInit /\ program \in {"radmsrvd", "radmcli"}

BothSpec == BothInit /\ [][BothNext]_<<cvars, program>>

\* FairSpec and ClientFairSpec, for the program that runs.
BothFairSpec ==
    /\ BothSpec
    /\ WF_cvars(Client(Sending))
    /\ \A d \in Sides :
           /\ WF_cvars(Server(ReadEnds(d) \/ ReadData(d) \/ SendKills(d)))
           /\ WF_cvars(Server(WriteEnds(d) \/ WriteData(d) \/ SendKills(d)))
           /\ SF_cvars(Client(Reading(d)))
           /\ SF_cvars(Client(Writing(d)))
           /\ WF_cvars(SideReads(d) /\ UNCHANGED <<busy, taken, program>>)
=============================================================================
