----------------------------- MODULE ClientForward -----------------------------
(***************************************************************************)
(* radmcli/fwd.c: the session on the device, between the connection to the *)
(* server (tsock) and the local web or telnet server (psock).  It differs  *)
(* from the session of radmsrvd (Forward, whose state and peers it shares) *)
(* in its sends: only psock_read_callback sends with MSG_DONTWAIT.  The    *)
(* three other sends wait until the kernel has taken all bytes or the      *)
(* connection breaks, and nothing else of the process runs meanwhile.      *)
(*                                                                         *)
(* Not modelled: as in Forward, a failing malloc and interrupted calls.    *)
(***************************************************************************)
EXTENDS Forward

VARIABLES busy,  \* the callback whose send waits, <<>> when none does
          taken  \* the bytes that send has passed to the kernel so far

cvars == <<vars, busy, taken>>

-----------------------------------------------------------------------------

InLoop == busy = <<>>

ClientInit == Init /\ busy = <<>> /\ taken = 0

\* A step of the session that waits for nothing.
AtOnce(step) == InLoop /\ step /\ UNCHANGED <<busy, taken>>

\* The peers do not wait for the process.
ClientPeer == Peer /\ UNCHANGED <<busy, taken>>

\* fwd_release, from a callback that finds its connection closed or broken.
ClientEnds(d) == AtOnce(ReadEnds(d) \/ WriteEnds(d))

\* As on the server, SIGPIPE ends the process.
ClientSendKills(d) == AtOnce(SendKills(d))

\* psock_read_callback: sends to the server what it takes at once.
PsockRead == AtOnce(ReadData("p"))

\* tsock_read_callback up to its send.
TsockRead ==
    /\ InLoop
    /\ <<"read", "t">> \in reg
    /\ got["t"] < sent["t"]
    /\ "p" \notin failed
    /\ LET n == Chunk("t")
       IN  /\ mem' = [mem EXCEPT !["t"] = [m \in 1 .. BufSize |->
                         IF m > n THEN mem["t"][m]
                         ELSE IF got["t"] = key["t"] THEN got["t"] + m ELSE Noise]]
           /\ len' = [len EXCEPT !["t"] = n]
           /\ got' = [got EXCEPT !["t"] = @ + n]
           /\ key' = [key EXCEPT !["t"] = @ + n]
    /\ busy' = <<"read", "t">>
    /\ taken' = 0
    /\ UNCHANGED <<live, killed, reg, pos, out, peers>>

\* psock_write_callback and tsock_write_callback, up to their sends: poll
\* reports room.
WriteStarts(d) ==
    /\ InLoop
    /\ <<"write", d>> \in reg
    /\ Other(d) \notin failed
    /\ Free(d) > 0
    /\ busy' = <<"write", d>>
    /\ taken' = 0
    /\ UNCHANGED vars

\* The bytes the send still has to pass on.
Left == len[busy[2]] - pos[busy[2]] - taken

\* Room appears, and the send goes on.
SendGoesOn ==
    /\ ~InLoop
    /\ LET d == busy[2]
       IN  /\ Other(d) \notin failed
           /\ \E r \in 1 .. Smaller(Left, Free(d)) :
                  /\ out' = [out EXCEPT ![d] =
                                @ \o SubSeq(mem[d], pos[d] + taken + 1, pos[d] + taken + r)]
                  /\ taken' = taken + r
    /\ UNCHANGED <<live, killed, reg, mem, len, pos, key, got, peers, busy>>

\* Mutant: the rest is tried again until it is sent.
StuckSendReturns ==
    /\ ~InLoop
    /\ \/ /\ Left = 0
          /\ LET d == busy[2]
             IN  /\ len' = [len EXCEPT ![d] = 0]
                 /\ pos' = [pos EXCEPT ![d] = 0]
                 /\ reg' = IF busy[1] = "write" THEN AwaitData(d) ELSE reg
          /\ busy' = <<>>
          /\ UNCHANGED <<live, killed, mem, key, got, out, peers, taken>>
       \/ Left > 0 /\ UNCHANGED cvars

\* The send returns: with all bytes, or with those taken before the
\* connection broke.
SendReturns ==
    /\ ~InLoop
    /\ LET d == busy[2]
       IN  \/ /\ Left = 0
              /\ len' = [len EXCEPT ![d] = 0]
              /\ pos' = [pos EXCEPT ![d] = 0]
              /\ reg' = IF busy[1] = "write" THEN AwaitData(d) ELSE reg
           \/ /\ Left > 0
              /\ Other(d) \in failed
              /\ taken > 0
              /\ pos' = [pos EXCEPT ![d] = @ + taken]
              /\ reg' = AwaitRoom(d)
              /\ UNCHANGED len
    /\ busy' = <<>>
    /\ UNCHANGED <<live, killed, mem, key, got, out, peers, taken>>

\* The send fails before it has passed on a byte.
SendFails ==
    /\ ~InLoop
    /\ Other(busy[2]) \in failed
    /\ taken = 0
    /\ live' = FALSE
    /\ killed' \in (IF Other(busy[2]) \in eof THEN BOOLEAN ELSE {FALSE})
    /\ reg' = {}
    /\ busy' = <<>>
    /\ UNCHANGED <<mem, len, pos, key, got, out, peers, taken>>

-----------------------------------------------------------------------------

Sending == SendGoesOn \/ SendReturns \/ SendFails

Reading(d) ==
    \/ ClientEnds(d) \/ ClientSendKills(d)
    \/ d = "t" /\ TsockRead
    \/ d = "p" /\ PsockRead

Writing(d) == ClientEnds(d) \/ ClientSendKills(d) \/ WriteStarts(d)

ClientOver == InLoop /\ Over /\ UNCHANGED <<busy, taken>>

ClientNext == \/ ClientPeer
              \/ \E d \in Sides : Reading(d) \/ Writing(d)
              \/ Sending
              \/ ClientOver

ClientSpec == ClientInit /\ [][ClientNext]_cvars

\* The main loop calls every callback whose event stays before it polls again
\* (PollLoop), also when a send of another one has made it wait.  The peers
\* go on reading.
ClientFairSpec ==
    /\ ClientSpec
    /\ WF_cvars(Sending)
    /\ \A d \in Sides : /\ SF_cvars(Reading(d))
                        /\ SF_cvars(Writing(d))
                        /\ WF_cvars(SideReads(d) /\ UNCHANGED <<busy, taken>>)

-----------------------------------------------------------------------------
(* Properties.                                                             *)

\* A process that waits for one side serves the other one again, as long as
\* both sides read what they get.
SendEnds == ~InLoop ~> InLoop
=============================================================================
