-------------------------------- MODULE Forward --------------------------------
(***************************************************************************)
(* radmsrv/fwd.c: the session do_forward starts between a device and a     *)
(* customer.  Each direction has one buffer and two callbacks: one reads   *)
(* from its side, decrypts or encrypts, and sends on what the other side   *)
(* takes at once; the other sends the rest when there is room.             *)
(*                                                                         *)
(* A direction is named after the side it comes from: "t" for tsock, the   *)
(* device, whose buffer is tbuf, and "p" for psock, the customer, whose    *)
(* buffer is pbuf.  A byte is its position in the stream of its side, and  *)
(* Noise when it met another position of the keystream.  The kernel keeps  *)
(* Room bytes per direction for a side that does not read.                 *)
(*                                                                         *)
(* A connection that is reset after its side has closed fails with EPIPE,  *)
(* which comes with SIGPIPE; any other one fails with an error only.  The  *)
(* programs leave SIGPIPE at its default: setup_sighandler compiles the    *)
(* branch that does not install sigio_handler.                             *)
(*                                                                         *)
(* Not modelled: a failing malloc, and an interrupted call.                *)
(***************************************************************************)
EXTENDS Integers, Sequences

CONSTANTS BufSize, \* sizeof(fwd->tbuf) and of pbuf
          Room,    \* the kernel's buffer towards a side
          Noise,   \* a byte decrypted wrongly
          SentMax  \* bound on the bytes a side sends

ASSUME SizesAssumption == BufSize \in Nat \ {0} /\ Room \in Nat \ {0} /\ SentMax \in Nat
ASSUME NoiseAssumption == Noise \notin Nat

VARIABLES live,   \* the session exists
          killed, \* SIGPIPE has ended the process, and the session with it
          reg,    \* the callbacks registered: <<"read" or "write", direction>>
          mem,    \* tbuf, pbuf
          len,    \* tbuflen, pbuflen
          pos,    \* tbufpos, pbufpos
          key,    \* the position of each keystream
          got,    \* the bytes recv has returned
          sent,   \* the bytes each side has sent
          eof,    \* the sides that have closed
          failed, \* the sides whose connection is reset
          out,    \* what send has taken, by direction
          read    \* the bytes of it the other side has read

peers == <<sent, eof, failed, read>>
vars == <<live, killed, reg, mem, len, pos, key, got, out, peers>>

-----------------------------------------------------------------------------

Sides == {"t", "p"}

Other(d) == IF d = "t" THEN "p" ELSE "t"

Smaller(a, b) == IF a <= b THEN a ELSE b

\* The callbacks that read from and write for direction d:
\* tsock_read_callback and psock_write_callback for "t", psock_read_callback
\* and tsock_write_callback for "p".
Callback == {"read", "write"} \X Sides

Init ==
    /\ live = TRUE
    /\ killed = FALSE
    /\ reg = {<<"read", d>> : d \in Sides}
    /\ mem = [d \in Sides |-> [n \in 1 .. BufSize |-> 0]]
    /\ len = [d \in Sides |-> 0] /\ pos = [d \in Sides |-> 0]
    /\ key = [d \in Sides |-> 0] /\ got = [d \in Sides |-> 0]
    /\ sent = [d \in Sides |-> 0]
    /\ eof = {} /\ failed = {}
    /\ out = [d \in Sides |-> <<>>]
    /\ read = [d \in Sides |-> 0]

-----------------------------------------------------------------------------
(* The two sides.                                                          *)

SideSends(d) ==
    /\ live
    /\ d \notin eof \cup failed
    /\ sent[d] < SentMax
    /\ sent' = [sent EXCEPT ![d] = @ + 1]
    /\ UNCHANGED <<live, killed, reg, mem, len, pos, key, got, out, eof, failed, read>>

SideCloses(d) ==
    /\ live
    /\ d \notin eof \cup failed
    /\ eof' = eof \cup {d}
    /\ UNCHANGED <<live, killed, reg, mem, len, pos, key, got, out, sent, failed, read>>

SideFails(d) ==
    /\ live
    /\ d \notin failed
    /\ failed' = failed \cup {d}
    /\ UNCHANGED <<live, killed, reg, mem, len, pos, key, got, out, sent, eof, read>>

\* The other side reads what direction d brought it.
SideReads(d) ==
    /\ read[d] < Len(out[d])
    /\ read' = [read EXCEPT ![d] = @ + 1]
    /\ UNCHANGED <<live, killed, reg, mem, len, pos, key, got, out, sent, eof, failed>>

-----------------------------------------------------------------------------
(* The callbacks.                                                          *)

\* fwd_release: the buffers go with the struct.
Release ==
    /\ live' = FALSE
    /\ reg' = {}
    /\ UNCHANGED <<killed, mem, len, pos, key, got, out, peers>>

\* The send of a callback of direction d raises SIGPIPE.
SendKills(d) ==
    /\ \/ <<"read", d>> \in reg /\ got[d] < sent[d]
       \/ <<"write", d>> \in reg
    /\ Other(d) \in failed \cap eof
    /\ live' = FALSE
    /\ killed' = TRUE
    /\ reg' = {}
    /\ UNCHANGED <<mem, len, pos, key, got, out, peers>>

Free(d) == Room - (Len(out[d]) - read[d])

\* What send may take of n bytes: none is EAGAIN.
Taken(d, n) == IF Free(d) = 0 THEN {0} ELSE 1 .. Smaller(n, Free(d))

\* What recv takes of what has arrived.
Chunk(d) == Smaller(BufSize, sent[d] - got[d])

\* The rest of the buffer waits for room; the side is not read meanwhile.
AwaitRoom(d) == (reg \ {<<"read", d>>}) \cup {<<"write", d>>}

\* The buffer is sent, so the side is read again.
BadAwaitData(d) == reg \ {<<"write", d>>}
AwaitData(d) == (reg \cup {<<"read", d>>}) \ {<<"write", d>>}

\* The next r bytes of the buffer.
Rest(d, r) == SubSeq(mem[d], pos[d] + 1, pos[d] + r)

\* recv or send fails, or recv finds the end.
BadReadEnds(d) ==
    /\ <<"read", d>> \in reg
    /\ \/ d \in failed
       \/ d \in eof /\ got[d] = sent[d]
       \/ got[d] < sent[d] /\ (Other(d) \in failed \/ Free(d) = 0)
    /\ Release

ReadEnds(d) ==
    /\ <<"read", d>> \in reg
    /\ \/ d \in failed
       \/ d \in eof /\ got[d] = sent[d]
       \/ got[d] < sent[d] /\ Other(d) \in failed
    /\ Release

\* recv, rc4_crypt and the first send, which takes r of the n bytes.  What
\* had arrived before a reset may still be read.
ReadData(d) ==
    /\ <<"read", d>> \in reg
    /\ got[d] < sent[d]
    /\ Other(d) \notin failed
    /\ LET n == Chunk(d)
           bytes == [m \in 1 .. n |-> IF got[d] = key[d] THEN got[d] + m ELSE Noise]
       IN  /\ mem' = [mem EXCEPT ![d] = [m \in 1 .. BufSize |->
                                            IF m <= n THEN bytes[m] ELSE mem[d][m]]]
           /\ got' = [got EXCEPT ![d] = @ + n]
           /\ key' = [key EXCEPT ![d] = @ + n]
           /\ \E r \in Taken(d, n) :
                  /\ out' = [out EXCEPT ![d] = @ \o SubSeq(bytes, 1, r)]
                  /\ \/ /\ r < n
                        /\ len' = [len EXCEPT ![d] = n]
                        /\ pos' = [pos EXCEPT ![d] = r]
                        /\ reg' = AwaitRoom(d)
                     \/ /\ r = n
                        /\ len' = [len EXCEPT ![d] = 0]
                        /\ pos' = [pos EXCEPT ![d] = 0]
                        /\ reg' = reg
    /\ UNCHANGED <<live, killed, peers>>

\* send fails.
WriteEnds(d) ==
    /\ <<"write", d>> \in reg
    /\ Other(d) \in failed
    /\ Release

\* poll reports room, so send takes some of the rest.
WriteData(d) ==
    /\ <<"write", d>> \in reg
    /\ Other(d) \notin failed
    /\ Free(d) > 0
    /\ \E r \in Taken(d, len[d] - pos[d]) :
           /\ out' = [out EXCEPT ![d] = @ \o Rest(d, r)]
           /\ \/ /\ pos[d] + r = len[d]
                 /\ len' = [len EXCEPT ![d] = 0]
                 /\ pos' = [pos EXCEPT ![d] = 0]
                 /\ reg' = AwaitData(d)
              \/ /\ pos[d] + r < len[d]
                 /\ pos' = [pos EXCEPT ![d] = @ + r]
                 /\ UNCHANGED <<len, reg>>
    /\ UNCHANGED <<live, killed, mem, key, got, peers>>

-----------------------------------------------------------------------------

Peer == \E d \in Sides : SideSends(d) \/ SideCloses(d) \/ SideFails(d) \/ SideReads(d)

Callbacks(d) == \/ ReadEnds(d) \/ ReadData(d) \/ WriteEnds(d) \/ WriteData(d)
                \/ SendKills(d)

\* The session is gone and its sides have read what they were sent.
Over == ~live /\ (\A d \in Sides : read[d] = Len(out[d])) /\ UNCHANGED vars

Next == Peer \/ (\E d \in Sides : Callbacks(d)) \/ Over

Spec == Init /\ [][Next]_vars

\* The main loop calls every callback whose event stays (PollLoop), and the
\* sides read what they are sent.
FairSpec ==
    /\ Spec
    /\ \A d \in Sides : /\ WF_vars(ReadEnds(d) \/ ReadData(d) \/ SendKills(d))
                        /\ WF_vars(WriteEnds(d) \/ WriteData(d) \/ SendKills(d))
                        /\ WF_vars(SideReads(d))

-----------------------------------------------------------------------------
(* Properties.                                                             *)

Connection == INSTANCE Pipe WITH put <- sent, taken <- out, closed <- eof, open <- live

\* The session is a pair of streams, whatever the sides send, read and close
\* in whatever order: the session is not given up while bytes of the side
\* that closed are still in its buffer.
ImplementsPipe == Connection!Spec

\* A connection that breaks under a send ends its session and nothing else,
\* which is what the error branches after send and sigio_handler are for.
OnlySessionEnds == ~killed

\* What a side sends reaches the other, unless the session ends.
Delivered ==
    \A d \in Sides, n \in 1 .. SentMax : sent[d] >= n ~> (Len(out[d]) >= n \/ ~live)
=============================================================================
