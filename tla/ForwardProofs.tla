----------------------------- MODULE ForwardProofs -----------------------------
(***************************************************************************)
(* Proofs about Forward and ClientForward, for every size of the buffers   *)
(* of the session and of the kernel: what is in a buffer is the part of    *)
(* the stream between what was received and what was sent on, a session    *)
(* listens to one event of each direction, and it is a Pipe; so is the     *)
(* session of radmcli, whose sends take many steps and pass on the next    *)
(* bytes of the stream at each.                                            *)
(***************************************************************************)
EXTENDS ClientForward, SequenceTheorems, TLAPS

Byte == Nat \cup {Noise}

-----------------------------------------------------------------------------
(* One direction.                                                          *)

\* The first bytes of a stream, in order.
Stream(o) == o \in Seq(Nat) /\ \A i \in 1 .. Len(o) : o[i] = i

\* Of s bytes sent by a side, g were received with the keystream at k, the
\* last l of them are in the buffer m, all but those from place p on were
\* sent on, as o, and r of these were read.
Flow(m, l, p, k, g, s, o, r) ==
    /\ m \in [1 .. BufSize -> Byte]
    /\ l \in Nat /\ p \in Nat /\ g \in Nat /\ s \in Nat /\ r \in Nat
    /\ p <= l /\ l <= BufSize /\ l <= g /\ g <= s /\ k = g
    /\ \A n \in 1 .. l : m[n] = g - l + n
    /\ Stream(o) /\ Len(o) = g - (l - p)
    /\ r <= Len(o) /\ Len(o) - r <= Room

\* q bytes of the buffer from place p on, as send gets them.
Part(m, p, q) == SubSeq(m, p + 1, p + q)

\* A stream, and the bytes that follow.
LEMMA StreamGrows ==
    ASSUME NEW o, Stream(o), NEW x \in Seq(Nat),
           \A i \in 1 .. Len(x) : x[i] = Len(o) + i
    PROVE  Stream(o \o x) /\ Len(o \o x) = Len(o) + Len(x)
  <1>1. /\ o \o x \in Seq(Nat) /\ Len(o \o x) = Len(o) + Len(x)
        /\ \A i \in 1 .. Len(o) + Len(x) :
               (o \o x)[i] = IF i <= Len(o) THEN o[i] ELSE x[i - Len(o)]
    BY ConcatProperties DEF Stream
  <1>2. o \in Seq(Nat) /\ Len(o) \in Nat /\ Len(x) \in Nat
    BY DEF Stream
  <1>3. ASSUME NEW i \in 1 .. Len(o) + Len(x)
        PROVE  (o \o x)[i] = i
    <2>1. CASE i <= Len(o)
      BY <1>1, <1>2, <2>1 DEF Stream
    <2>2. CASE ~(i <= Len(o))
      <3>1. i - Len(o) \in 1 .. Len(x) /\ Len(o) + (i - Len(o)) = i
        BY <1>2, <2>2
      <3>2. x[i - Len(o)] = i
        BY <3>1
      <3> QED
        BY <1>1, <2>2, <3>2
    <2> QED
      BY <2>1, <2>2
  <1> QED
    BY <1>1, <1>3 DEF Stream

LEMMA StreamIs == ASSUME NEW o, Stream(o)
                  PROVE  o = [n \in 1 .. Len(o) |-> n]
  BY DEF Stream

\* They are the q that follow the first h of the stream.
Follow(m, p, q, h) == \A i \in 1 .. q : m[p + i] = h + i

LEMMA PartIs ==
    ASSUME NEW m, NEW p \in Nat, NEW q \in Nat, NEW h \in Nat, Follow(m, p, q, h)
    PROVE  /\ Part(m, p, q) \in Seq(Nat) /\ Len(Part(m, p, q)) = q
           /\ \A i \in 1 .. q : Part(m, p, q)[i] = h + i
  <1> DEFINE x == SubSeq(m, p + 1, p + q)
  <1>1. \A i \in p + 1 .. p + q : m[i] \in Nat
    <2> TAKE n \in p + 1 .. p + q
    <2>1. n - p \in 1 .. q /\ p + (n - p) = n
      OBVIOUS
    <2>2. m[p + (n - p)] = h + (n - p)
      BY <2>1 DEF Follow
    <2> QED
      BY <2>1, <2>2
  <1>2. p + 1 \in Int /\ p + q \in Int
    OBVIOUS
  <1>3. /\ x \in Seq(Nat) /\ Len(x) = IF p + 1 <= p + q THEN p + q - (p + 1) + 1 ELSE 0
        /\ \A i \in 1 .. p + q - (p + 1) + 1 : x[i] = m[p + 1 + i - 1]
    BY <1>1, <1>2, SubSeqProperties
  <1> HIDE DEF x
  <1>4. x \in Seq(Nat) /\ Len(x) = q
    BY <1>3
  <1>5. \A i \in 1 .. q : x[i] = h + i
    <2> TAKE i \in 1 .. q
    <2>1. i \in 1 .. p + q - (p + 1) + 1 /\ p + 1 + i - 1 = p + i
      OBVIOUS
    <2>2. x[i] = m[p + i]
      BY <1>3, <2>1
    <2> QED
      BY <2>2 DEF Follow
  <1> QED
    BY <1>4, <1>5 DEF Part, x

\* send takes the next q bytes of the buffer.
LEMMA FlowSends ==
    ASSUME NEW m, NEW l, NEW p, NEW k, NEW g, NEW s, NEW o, NEW r,
           Flow(m, l, p, k, g, s, o, r),
           NEW q \in Nat, p + q <= l, Len(o) - r + q <= Room
    PROVE  /\ Flow(m, l, p + q, k, g, s, o \o Part(m, p, q), r)
           /\ Len(o \o Part(m, p, q)) \in Len(o) .. s
  <1> DEFINE x == Part(m, p, q)
             y == o \o x
  <1>1. /\ BufSize \in Nat /\ Room \in Nat /\ l \in Nat /\ p \in Nat
        /\ g \in Nat /\ s \in Nat /\ r \in Nat /\ p <= l /\ l <= g /\ l <= BufSize
        /\ g <= s /\ k = g /\ r <= Len(o) /\ Len(o) - r <= Room
    BY SizesAssumption DEF Flow
  <1>2. /\ m \in [1 .. BufSize -> Byte] /\ \A n \in 1 .. l : m[n] = g - l + n
        /\ Stream(o) /\ Len(o) = g - (l - p)
    BY DEF Flow
  <1>3. Len(o) \in Nat
    BY <1>1, <1>2
  <1>4. Follow(m, p, q, Len(o))
    <2> SUFFICES ASSUME NEW i \in 1 .. q
                 PROVE  m[p + i] = Len(o) + i
      BY DEF Follow
    <2>1. p + i \in 1 .. l
      BY <1>1
    <2> QED
      BY <1>1, <1>2, <2>1
  <1>5. x \in Seq(Nat) /\ Len(x) = q /\ \A i \in 1 .. q : x[i] = Len(o) + i
    BY <1>1, <1>3, <1>4, PartIs
  <1> HIDE DEF x
  <1>6. Stream(y) /\ Len(y) = Len(o) + q
    BY <1>2, <1>5, StreamGrows
  <1> HIDE DEF y
  <1>8. /\ p + q \in Nat /\ Len(y) = g - (l - (p + q)) /\ Len(y) \in Len(o) .. s
        /\ r <= Len(y) /\ Len(y) - r <= Room
    BY <1>1, <1>2, <1>3, <1>6
  <1>9. Flow(m, l, p + q, k, g, s, y, r)
    BY <1>1, <1>2, <1>6, <1>8 DEF Flow
  <1> QED
    BY <1>8, <1>9 DEF y, x

\* recv and rc4_crypt fill a buffer that was empty.
LEMMA FlowReceives ==
    ASSUME NEW m, NEW k, NEW g, NEW s, NEW o, NEW r,
           Flow(m, 0, 0, k, g, s, o, r),
           NEW n \in 1 .. BufSize, g + n <= s,
           NEW m2 \in [1 .. BufSize -> Byte], \A i \in 1 .. n : m2[i] = g + i
    PROVE  Flow(m2, n, 0, k + n, g + n, s, o, r)
  <1>1. /\ BufSize \in Nat /\ g \in Nat /\ s \in Nat /\ g <= s /\ k = g
        /\ r \in Nat /\ r <= Len(o) /\ Len(o) - r <= Room
        /\ Stream(o) /\ Len(o) = g - (0 - 0)
    BY SizesAssumption DEF Flow
  <1>2. n \in Nat /\ g + n \in Nat /\ n <= g + n /\ k + n = g + n /\ n <= BufSize
    BY <1>1
  <1>3. \A i \in 1 .. n : m2[i] = g + n - n + i
    BY <1>1
  <1>4. Len(o) = g + n - (n - 0)
    BY <1>1
  <1> QED
    BY <1>1, <1>2, <1>3, <1>4 DEF Flow

\* The buffer was sent.
LEMMA FlowEmpties ==
    ASSUME NEW m, NEW l, NEW k, NEW g, NEW s, NEW o, NEW r,
           Flow(m, l, l, k, g, s, o, r)
    PROVE  Flow(m, 0, 0, k, g, s, o, r)
  <1>1. l \in Nat /\ g \in Nat /\ g - (l - l) = g - (0 - 0)
    BY DEF Flow
  <1> QED
    BY <1>1, SizesAssumption DEF Flow

\* What is passed on is told by its place in the stream alone.
LEMMA PartsAgree ==
    ASSUME NEW m, NEW n, NEW p \in Nat, NEW q \in Nat, NEW h \in Nat,
           Follow(m, p, q, h), Follow(n, p, q, h)
    PROVE  Part(m, p, q) = Part(n, p, q)
  <1> DEFINE x == Part(m, p, q)
             y == Part(n, p, q)
  <1>1. /\ x \in Seq(Nat) /\ Len(x) = q /\ \A i \in 1 .. q : x[i] = h + i
        /\ y \in Seq(Nat) /\ Len(y) = q /\ \A i \in 1 .. q : y[i] = h + i
    BY PartIs
  <1> HIDE DEF x, y
  <1>2. x = y
    BY <1>1
  <1> QED
    BY <1>2 DEF x, y

-----------------------------------------------------------------------------
(* The session.                                                            *)

Typed ==
    /\ live \in BOOLEAN /\ reg \subseteq Callback
    /\ mem \in [Sides -> [1 .. BufSize -> Byte]]
    /\ len \in [Sides -> Nat] /\ pos \in [Sides -> Nat]
    /\ key \in [Sides -> Nat] /\ got \in [Sides -> Nat]
    /\ sent \in [Sides -> Nat] /\ read \in [Sides -> Nat]
    /\ out \in [Sides -> Seq(Nat)]
    /\ eof \subseteq Sides /\ failed \subseteq Sides

Flows(d) == Flow(mem[d], len[d], pos[d], key[d], got[d], sent[d], out[d], read[d])

\* A side is read while its buffer is empty, and the other side is watched for
\* room while there is a rest.
Listens(d) == /\ <<"read", d>> \in reg => len[d] = 0 /\ pos[d] = 0
              /\ <<"write", d>> \in reg => pos[d] < len[d]

IInv ==
    /\ Typed
    /\ \A d \in Sides : Flows(d) /\ Listens(d)
    /\ \A d \in Sides : live => <<"read", d>> \in reg \/ <<"write", d>> \in reg
    /\ ~live => reg = {}

LEMMA InitInv == Init => IInv
  <1> SUFFICES ASSUME Init
               PROVE  IInv
    OBVIOUS
  <1>1. BufSize \in Nat /\ Room \in Nat
    BY SizesAssumption
  <1>2. Typed
    BY <1>1 DEF Init, Typed, Callback, Byte
  <1>3. \A d \in Sides : mem[d] \in [1 .. BufSize -> Byte] /\ out[d] = <<>>
    BY <1>2 DEF Init, Typed
  <1>4. Stream(<<>>) /\ Len(<<>>) = 0
    BY DEF Stream
  <1>5. \A d \in Sides : Flows(d) /\ Listens(d)
    BY <1>1, <1>3, <1>4 DEF Init, Flows, Flow, Listens
  <1> QED
    BY <1>2, <1>5 DEF Init, IInv

\* The session and the process may end at any callback.
LEMMA EndInv ==
    ASSUME IInv, live' = FALSE, reg' = {}, UNCHANGED <<mem, len, pos, key, got, out, peers>>
    PROVE  IInv'
  BY DEF IInv, Typed, Flows, Listens, peers

\* What the sides do leaves the session as it is.
LEMMA PeerTyped ==
    ASSUME Typed, Peer
    PROVE  Typed' /\ UNCHANGED <<live, killed, reg, mem, len, pos, key, got, out>>
  <1>1. PICK d \in Sides : SideSends(d) \/ SideCloses(d) \/ SideFails(d) \/ SideReads(d)
    BY DEF Peer
  <1>2. UNCHANGED <<live, killed, reg, mem, len, pos, key, got, out>>
    BY <1>1 DEF SideSends, SideCloses, SideFails, SideReads
  <1>3. sent' \in [Sides -> Nat] /\ read' \in [Sides -> Nat]
    <2>1. sent \in [Sides -> Nat] /\ read \in [Sides -> Nat]
      BY DEF Typed
    <2>2. sent' = [sent EXCEPT ![d] = @ + 1] \/ sent' = sent
      BY <1>1 DEF SideSends, SideCloses, SideFails, SideReads
    <2>3. read' = [read EXCEPT ![d] = @ + 1] \/ read' = read
      BY <1>1 DEF SideSends, SideCloses, SideFails, SideReads
    <2> QED
      BY <2>1, <2>2, <2>3
  <1>4. eof' \subseteq Sides /\ failed' \subseteq Sides
    BY <1>1 DEF Typed, SideSends, SideCloses, SideFails, SideReads
  <1> QED
    BY <1>2, <1>3, <1>4 DEF Typed

\* It keeps a direction in order, also one of which more was sent on than its
\* position tells.
LEMMA PeerFlow ==
    ASSUME Typed, Peer, NEW e \in Sides, NEW p,
           Flow(mem[e], len[e], p, key[e], got[e], sent[e], out[e], read[e])
    PROVE  Flow(mem[e], len[e], p, key[e], got[e], sent'[e], out[e], read'[e])
  <1>1. PICK d \in Sides : SideSends(d) \/ SideCloses(d) \/ SideFails(d) \/ SideReads(d)
    BY DEF Peer
  <1>2. /\ sent \in [Sides -> Nat] /\ read \in [Sides -> Nat] /\ Len(out[e]) \in Nat
        /\ sent[e] \in Nat /\ read[e] \in Nat
    BY DEF Typed
  <1>3. sent'[e] \in Nat /\ sent[e] <= sent'[e]
    <2>1. sent' = [sent EXCEPT ![d] = @ + 1] \/ sent' = sent
      BY <1>1 DEF SideSends, SideCloses, SideFails, SideReads
    <2> QED
      BY <1>2, <2>1
  <1>4. read'[e] \in Nat /\ read'[e] <= Len(out[e]) /\ Len(out[e]) - read'[e] <= Room
    <2>1. read[e] <= Len(out[e]) /\ Len(out[e]) - read[e] <= Room
      BY DEF Flow
    <2>2. \/ read[d] < Len(out[d]) /\ read' = [read EXCEPT ![d] = @ + 1]
          \/ read' = read
      BY <1>1 DEF SideSends, SideCloses, SideFails, SideReads
    <2>3. \/ read[e] < Len(out[e]) /\ read'[e] = read[e] + 1
          \/ read'[e] = read[e]
      BY <1>2, <2>2
    <2> QED
      BY <1>2, <2>1, <2>3, SizesAssumption
  <1>5. got[e] <= sent'[e]
    <2>1. got[e] \in Nat /\ got[e] <= sent[e]
      BY DEF Flow
    <2> QED
      BY <1>2, <1>3, <2>1
  <1> QED
    BY <1>3, <1>4, <1>5 DEF Flow

LEMMA PeerInv == ASSUME IInv, Peer PROVE IInv'
  <1>1. Typed' /\ UNCHANGED <<live, killed, reg, mem, len, pos, key, got, out>>
    BY PeerTyped DEF IInv
  <1>2. \A e \in Sides : Flows(e)'
    BY <1>1, PeerFlow DEF IInv, Flows
  <1> QED
    BY <1>1, <1>2 DEF IInv, Listens

\* Only direction d changed, and it is still in order.
LEMMA StepInv ==
    ASSUME IInv, NEW d \in Sides, Typed', Flows(d)', Listens(d)',
           <<"read", d>> \in reg' \/ <<"write", d>> \in reg',
           \A e \in Sides \ {d} :
               /\ mem'[e] = mem[e] /\ len'[e] = len[e] /\ pos'[e] = pos[e] /\ key'[e] = key[e]
               /\ got'[e] = got[e] /\ out'[e] = out[e]
               /\ \A w \in {"read", "write"} : <<w, e>> \in reg' <=> <<w, e>> \in reg,
           reg # {}, UNCHANGED <<live, peers>>
    PROVE  IInv'
  <1>1. \A e \in Sides \ {d} : Flows(e)' /\ Listens(e)'
    BY DEF IInv, Flows, Listens, peers
  <1>2. live' /\ live
    BY DEF IInv, Typed
  <1>3. \A e \in Sides \ {d} : <<"read", e>> \in reg' \/ <<"write", e>> \in reg'
    BY <1>2 DEF IInv
  <1> QED
    BY <1>1, <1>2, <1>3 DEF IInv

\* What send may take leaves the kernel's buffer within its room.
LEMMA TakenFits ==
    ASSUME IInv, NEW d \in Sides, NEW n \in Nat, NEW q \in Taken(d, n)
    PROVE  q \in Nat /\ q <= n /\ Len(out[d]) - read[d] + q <= Room
  <1>1. /\ Len(out[d]) \in Nat /\ read[d] \in Nat /\ Room \in Nat
        /\ Len(out[d]) - read[d] <= Room
    <2>1. Flow(mem[d], len[d], pos[d], key[d], got[d], sent[d], out[d], read[d])
      BY DEF IInv, Flows
    <2>2. out[d] \in Seq(Nat)
      BY DEF IInv, Typed
    <2> QED
      BY <2>1, <2>2, SizesAssumption DEF Flow
  <1>2. Free(d) \in Nat /\ Free(d) = Room - (Len(out[d]) - read[d])
    BY <1>1 DEF Free
  <1>3. CASE Free(d) = 0
    BY <1>1, <1>2, <1>3 DEF Taken
  <1>4. CASE Free(d) # 0
    <2>1. q \in 1 .. Smaller(n, Free(d))
      BY <1>4 DEF Taken
    <2>2. q \in Nat /\ q <= n /\ q <= Free(d)
      BY <1>2, <2>1 DEF Smaller
    <2> QED
      BY <1>1, <1>2, <2>2
  <1> QED
    BY <1>3, <1>4

\* What is known when the side of direction d is read.
LEMMA ReadIdle ==
    ASSUME IInv, NEW d \in Sides, <<"read", d>> \in reg
    PROVE  /\ live /\ len[d] = 0 /\ pos[d] = 0 /\ <<"write", d>> \notin reg
           /\ Flow(mem[d], 0, 0, key[d], got[d], sent[d], out[d], read[d])
           /\ key[d] = got[d] /\ got[d] \in Nat /\ sent[d] \in Nat
  <1>1. live /\ len[d] = 0 /\ pos[d] = 0 /\ <<"write", d>> \notin reg
    BY DEF IInv, Typed, Listens
  <1>2. Flow(mem[d], 0, 0, key[d], got[d], sent[d], out[d], read[d])
    BY <1>1 DEF IInv, Flows
  <1> QED
    BY <1>1, <1>2 DEF Flow

LEMMA ChunkFits ==
    ASSUME IInv, NEW d \in Sides, <<"read", d>> \in reg, got[d] < sent[d]
    PROVE  Chunk(d) \in 1 .. BufSize /\ got[d] + Chunk(d) <= sent[d]
  <1>1. got[d] \in Nat /\ sent[d] \in Nat /\ BufSize \in Nat /\ BufSize > 0
    <2>1. got[d] \in Nat /\ sent[d] \in Nat
      BY ReadIdle
    <2> QED
      BY <2>1, SizesAssumption
  <1>2. Chunk(d) = IF BufSize <= sent[d] - got[d] THEN BufSize ELSE sent[d] - got[d]
    BY DEF Chunk, Smaller
  <1> QED
    BY <1>1, <1>2

LEMMA OtherKept ==
    ASSUME NEW d \in Sides, NEW e \in Sides \ {d}, NEW w \in {"read", "write"}
    PROVE  /\ <<w, e>> \in AwaitRoom(d) <=> <<w, e>> \in reg
           /\ <<w, e>> \in AwaitData(d) <=> <<w, e>> \in reg
  BY DEF AwaitRoom, AwaitData

\* What was received is in the buffer, and what was sent on is the next part of
\* the stream.
LEMMA ReadDataInv ==
    ASSUME IInv, NEW d \in Sides, ReadData(d)
    PROVE  IInv' /\ Connection!Take(d)
  <1> DEFINE n == Chunk(d)
             bytes == [m \in 1 .. n |-> IF got[d] = key[d] THEN got[d] + m ELSE Noise]
             m2 == [m \in 1 .. BufSize |-> IF m <= n THEN bytes[m] ELSE mem[d][m]]
  <1>1. Typed
    BY DEF IInv
  <1>2. /\ <<"read", d>> \in reg /\ got[d] < sent[d] /\ UNCHANGED <<live, killed, peers>>
        /\ mem' = [mem EXCEPT ![d] = m2]
        /\ got' = [got EXCEPT ![d] = @ + n] /\ key' = [key EXCEPT ![d] = @ + n]
    BY DEF ReadData
  <1>3. PICK q \in Taken(d, n) :
            /\ out' = [out EXCEPT ![d] = @ \o SubSeq(bytes, 1, q)]
            /\ \/ /\ q < n
                  /\ len' = [len EXCEPT ![d] = n] /\ pos' = [pos EXCEPT ![d] = q]
                  /\ reg' = AwaitRoom(d)
               \/ /\ q = n
                  /\ len' = [len EXCEPT ![d] = 0] /\ pos' = [pos EXCEPT ![d] = 0]
                  /\ reg' = reg
    BY DEF ReadData
  <1>4. n \in 1 .. BufSize /\ got[d] + n <= sent[d] /\ n \in Nat
    <2>1. n \in 1 .. BufSize /\ got[d] + n <= sent[d]
      BY <1>2, ChunkFits
    <2> QED
      BY <2>1, SizesAssumption
  <1>5. /\ live /\ len[d] = 0 /\ pos[d] = 0 /\ <<"write", d>> \notin reg
        /\ Flow(mem[d], 0, 0, key[d], got[d], sent[d], out[d], read[d])
        /\ key[d] = got[d] /\ got[d] \in Nat /\ sent[d] \in Nat
    BY <1>2, ReadIdle
  <1>6. q \in Nat /\ q <= n /\ Len(out[d]) - read[d] + q <= Room
    BY <1>3, <1>4, TakenFits
  <1>7. bytes = [m \in 1 .. n |-> got[d] + m]
    BY <1>5
  <1>8. m2 \in [1 .. BufSize -> Byte] /\ \A i \in 1 .. n : m2[i] = got[d] + i
    <2>1. mem[d] \in [1 .. BufSize -> Byte]
      BY <1>1 DEF Typed
    <2>2. \A i \in 1 .. n : bytes[i] = got[d] + i /\ bytes[i] \in Nat
      BY <1>4, <1>5, <1>7
    <2> HIDE DEF bytes
    <2>3. \A i \in 1 .. BufSize : m2[i] \in Byte
      <3> TAKE i \in 1 .. BufSize
      <3>1. CASE i <= n
        <4>1. i \in 1 .. n
          BY <1>4, <3>1
        <4> QED
          BY <2>2, <3>1, <4>1 DEF Byte
      <3>2. CASE ~(i <= n)
        BY <2>1, <3>2
      <3> QED
        BY <3>1, <3>2
    <2>4. m2 \in [1 .. BufSize -> Byte]
      BY <2>3
    <2>5. \A i \in 1 .. n : m2[i] = got[d] + i
      BY <1>4, <2>2, SizesAssumption
    <2> QED
      BY <2>4, <2>5
  <1>9. Part(m2, 0, q) = SubSeq(bytes, 1, q)
    <2>1. Follow(m2, 0, q, got[d])
      <3>1. \A i \in 1 .. q : i \in 1 .. n /\ 0 + i = i
        BY <1>4, <1>6
      <3> HIDE DEF m2, n
      <3> QED
        BY <1>8, <3>1 DEF Follow
    <2>2. Follow(bytes, 0, q, got[d])
      <3>1. \A i \in 1 .. q : i \in 1 .. n /\ 0 + i = i
        BY <1>4, <1>6
      <3> QED
        BY <1>7, <3>1 DEF Follow
    <2>3. Part(m2, 0, q) = Part(bytes, 0, q)
      BY <1>5, <1>6, <2>1, <2>2, PartsAgree
    <2>4. 0 + 1 = 1 /\ 0 + q = q
      BY <1>6
    <2> QED
      BY <2>3, <2>4 DEF Part
  <1> HIDE DEF bytes, m2
  <1>10. Flow(m2, n, 0, key[d] + n, got[d] + n, sent[d], out[d], read[d])
    BY <1>4, <1>5, <1>8, FlowReceives
  <1> HIDE DEF n
  <1> DEFINE o == out[d] \o Part(m2, 0, q)
  <1>11. /\ Flow(m2, n, q, key[d] + n, got[d] + n, sent[d], o, read[d])
         /\ Len(o) \in Len(out[d]) .. sent[d] /\ o = [i \in 1 .. Len(o) |-> i]
    <2>1. 0 + q <= n /\ 0 + q = q
      BY <1>4, <1>6
    <2> QED
      <3>1. /\ Flow(m2, n, 0 + q, key[d] + n, got[d] + n, sent[d], o, read[d])
            /\ Len(o) \in Len(out[d]) .. sent[d]
        BY <1>6, <1>10, <2>1, FlowSends
      <3> HIDE DEF o
      <3>2. o = [i \in 1 .. Len(o) |-> i]
        BY <3>1, StreamIs DEF Flow
      <3> QED
        BY <2>1, <3>1, <3>2
  <1> HIDE DEF o
  <1>12. /\ mem'[d] = m2 /\ got'[d] = got[d] + n /\ key'[d] = key[d] + n /\ out'[d] = o
         /\ out' = [out EXCEPT ![d] = o]
    BY <1>1, <1>2, <1>3, <1>9 DEF Typed, o
  <1>13. Connection!Take(d)
    BY <1>1, <1>2, <1>11, <1>12 DEF Connection!Take, peers, Typed
  <1>14. o \in Seq(Nat)
    BY <1>11 DEF Flow, Stream
  <1>15. Flows(d)' /\ Listens(d)' /\ (<<"read", d>> \in reg' \/ <<"write", d>> \in reg')
    <2>1. CASE /\ q < n
               /\ len' = [len EXCEPT ![d] = n] /\ pos' = [pos EXCEPT ![d] = q]
               /\ reg' = AwaitRoom(d)
      <3>1. len'[d] = n /\ pos'[d] = q
        BY <1>1, <2>1 DEF Typed
      <3>2. Flows(d)'
        BY <1>2, <1>11, <1>12, <3>1 DEF Flows, peers
      <3>3. <<"read", d>> \notin reg' /\ <<"write", d>> \in reg'
        BY <2>1 DEF AwaitRoom
      <3> QED
        BY <2>1, <3>1, <3>2, <3>3 DEF Listens
    <2>2. CASE /\ q = n
               /\ len' = [len EXCEPT ![d] = 0] /\ pos' = [pos EXCEPT ![d] = 0]
               /\ reg' = reg
      <3>1. len'[d] = 0 /\ pos'[d] = 0
        BY <1>1, <2>2 DEF Typed
      <3>2. Flow(m2, 0, 0, key[d] + n, got[d] + n, sent[d], o, read[d])
        BY <1>11, <2>2, FlowEmpties
      <3>3. Flows(d)'
        BY <1>2, <1>12, <3>1, <3>2 DEF Flows, peers
      <3> QED
        BY <1>2, <1>5, <2>2, <3>1, <3>3 DEF Listens
    <2> QED
      BY <1>3, <2>1, <2>2
  <1>16. Typed'
    <2>1. /\ mem' \in [Sides -> [1 .. BufSize -> Byte]]
          /\ got' \in [Sides -> Nat] /\ key' \in [Sides -> Nat]
          /\ len' \in [Sides -> Nat] /\ pos' \in [Sides -> Nat]
      <3>1. m2 \in [1 .. BufSize -> Byte] /\ \A e \in Sides : got[e] + n \in Nat /\ key[e] + n \in Nat
        <4>1. m2 \in [1 .. BufSize -> Byte] /\ n \in Nat
          BY <1>4, <1>8
        <4>2. \A e \in Sides : got[e] \in Nat /\ key[e] \in Nat
          BY <1>1 DEF Typed
        <4> QED
          BY <4>1, <4>2
      <3>2. mem' \in [Sides -> [1 .. BufSize -> Byte]]
        BY <1>1, <1>2, <3>1 DEF Typed
      <3>3. got' \in [Sides -> Nat] /\ key' \in [Sides -> Nat]
        BY <1>1, <1>2, <3>1 DEF Typed
      <3>4. len' \in [Sides -> Nat] /\ pos' \in [Sides -> Nat]
        <4>1. len \in [Sides -> Nat] /\ pos \in [Sides -> Nat] /\ n \in Nat /\ q \in Nat
          BY <1>1, <1>4, <1>6 DEF Typed
        <4>2. len' = [len EXCEPT ![d] = n] \/ len' = [len EXCEPT ![d] = 0]
          BY <1>3
        <4>3. pos' = [pos EXCEPT ![d] = q] \/ pos' = [pos EXCEPT ![d] = 0]
          BY <1>3
        <4> QED
          BY <4>1, <4>2, <4>3
      <3> QED
        BY <3>2, <3>3, <3>4
    <2>2. out' \in [Sides -> Seq(Nat)]
      BY <1>1, <1>12, <1>14 DEF Typed
    <2>3. reg' \subseteq Callback
      BY <1>1, <1>3 DEF Typed, AwaitRoom, Callback
    <2> QED
      BY <1>1, <1>2, <2>1, <2>2, <2>3 DEF Typed, peers
  <1>17. \A e \in Sides \ {d} :
             /\ mem'[e] = mem[e] /\ len'[e] = len[e] /\ pos'[e] = pos[e] /\ key'[e] = key[e]
             /\ got'[e] = got[e] /\ out'[e] = out[e]
             /\ \A w \in {"read", "write"} : <<w, e>> \in reg' <=> <<w, e>> \in reg
    <2> TAKE e \in Sides \ {d}
    <2>1. \A w \in {"read", "write"} : <<w, e>> \in reg' <=> <<w, e>> \in reg
      BY <1>3, OtherKept
    <2> QED
      BY <1>1, <1>2, <1>3, <1>12, <2>1 DEF Typed
  <1>18. IInv'
    BY <1>2, <1>15, <1>16, <1>17, StepInv
  <1> QED
    BY <1>13, <1>18

\* The next part of the rest was sent on, or all of it, which empties the buffer.
LEMMA WriteDataInv ==
    ASSUME IInv, NEW d \in Sides, WriteData(d)
    PROVE  IInv' /\ Connection!Take(d)
  <1> DEFINE n == len[d] - pos[d]
  <1>1. Typed
    BY DEF IInv
  <1>2. <<"write", d>> \in reg /\ UNCHANGED <<live, killed, mem, key, got, peers>>
    BY DEF WriteData
  <1>3. PICK q \in Taken(d, n) :
            /\ out' = [out EXCEPT ![d] = @ \o Rest(d, q)]
            /\ \/ /\ pos[d] + q = len[d]
                  /\ len' = [len EXCEPT ![d] = 0] /\ pos' = [pos EXCEPT ![d] = 0]
                  /\ reg' = AwaitData(d)
               \/ /\ pos[d] + q < len[d]
                  /\ pos' = [pos EXCEPT ![d] = @ + q]
                  /\ UNCHANGED <<len, reg>>
    BY DEF WriteData
  <1>4. /\ pos[d] < len[d] /\ <<"read", d>> \notin reg
        /\ len[d] \in Nat /\ pos[d] \in Nat
    BY <1>1, <1>2 DEF IInv, Listens, Typed
  <1>5. n \in Nat /\ pos[d] + n = len[d]
    BY <1>4
  <1>6. q \in Nat /\ q <= n /\ Len(out[d]) - read[d] + q <= Room
    BY <1>3, <1>5, TakenFits
  <1>7. pos[d] + q <= len[d] /\ pos[d] + q \in Nat
    BY <1>4, <1>5, <1>6
  <1> HIDE DEF n
  <1> DEFINE o == out[d] \o Part(mem[d], pos[d], q)
  <1>8. Flow(mem[d], len[d], pos[d], key[d], got[d], sent[d], out[d], read[d])
    BY DEF IInv, Flows
  <1>9. /\ Flow(mem[d], len[d], pos[d] + q, key[d], got[d], sent[d], o, read[d])
        /\ Len(o) \in Len(out[d]) .. sent[d]
    BY <1>6, <1>7, <1>8, FlowSends
  <1>10. out'[d] = o /\ out' = [out EXCEPT ![d] = o]
    BY <1>1, <1>3 DEF Typed, Rest, Part
  <1> HIDE DEF o
  <1>11. o = [i \in 1 .. Len(o) |-> i] /\ o \in Seq(Nat)
    <2>1. Stream(o)
      BY <1>9 DEF Flow
    <2> QED
      BY <2>1, StreamIs DEF Stream
  <1>12. Connection!Take(d)
    BY <1>2, <1>9, <1>10, <1>11 DEF Connection!Take, peers
  <1>13. Flows(d)' /\ Listens(d)' /\ (<<"read", d>> \in reg' \/ <<"write", d>> \in reg')
    <2>1. CASE /\ pos[d] + q = len[d]
               /\ len' = [len EXCEPT ![d] = 0] /\ pos' = [pos EXCEPT ![d] = 0]
               /\ reg' = AwaitData(d)
      <3>1. len'[d] = 0 /\ pos'[d] = 0
        BY <1>1, <2>1 DEF Typed
      <3>2. Flow(mem[d], 0, 0, key[d], got[d], sent[d], o, read[d])
        BY <1>9, <2>1, FlowEmpties
      <3>3. Flows(d)'
        BY <1>2, <1>10, <3>1, <3>2 DEF Flows, peers
      <3>4. <<"read", d>> \in reg' /\ <<"write", d>> \notin reg'
        BY <2>1 DEF AwaitData
      <3> QED
        BY <3>1, <3>3, <3>4 DEF Listens
    <2>2. CASE /\ pos[d] + q < len[d]
               /\ pos' = [pos EXCEPT ![d] = @ + q]
               /\ UNCHANGED <<len, reg>>
      <3>1. pos'[d] = pos[d] + q
        BY <1>1, <2>2 DEF Typed
      <3>2. Flows(d)'
        BY <1>2, <1>9, <1>10, <2>2, <3>1 DEF Flows, peers
      <3> QED
        BY <1>2, <1>4, <2>2, <3>1, <3>2 DEF Listens
    <2> QED
      BY <1>3, <2>1, <2>2
  <1>14. Typed'
    <2>1. len' \in [Sides -> Nat] /\ pos' \in [Sides -> Nat]
      <3>1. len \in [Sides -> Nat] /\ pos \in [Sides -> Nat]
        BY <1>1 DEF Typed
      <3>2. len' = [len EXCEPT ![d] = 0] \/ len' = len
        BY <1>3
      <3>3. pos' = [pos EXCEPT ![d] = 0] \/ pos' = [pos EXCEPT ![d] = pos[d] + q]
        BY <1>3
      <3> QED
        BY <1>7, <3>1, <3>2, <3>3
    <2>2. out' \in [Sides -> Seq(Nat)]
      BY <1>1, <1>10, <1>11 DEF Typed
    <2>3. reg' \subseteq Callback
      BY <1>1, <1>3 DEF Typed, AwaitData, Callback
    <2> QED
      BY <1>1, <1>2, <2>1, <2>2, <2>3 DEF Typed, peers
  <1>15. \A e \in Sides \ {d} :
             /\ mem'[e] = mem[e] /\ len'[e] = len[e] /\ pos'[e] = pos[e] /\ key'[e] = key[e]
             /\ got'[e] = got[e] /\ out'[e] = out[e]
             /\ \A w \in {"read", "write"} : <<w, e>> \in reg' <=> <<w, e>> \in reg
    <2> TAKE e \in Sides \ {d}
    <2>1. \A w \in {"read", "write"} : <<w, e>> \in reg' <=> <<w, e>> \in reg
      BY <1>3, OtherKept
    <2> QED
      BY <1>1, <1>2, <1>3, <1>10, <2>1 DEF Typed
  <1>16. IInv'
    BY <1>2, <1>13, <1>14, <1>15, StepInv
  <1> QED
    BY <1>12, <1>16

\* Every step keeps the invariant.
LEMMA NextInv == IInv /\ [Next]_vars => IInv'
  <1> SUFFICES ASSUME IInv, [Next]_vars
               PROVE  IInv'
    OBVIOUS
  <1>1. CASE Peer
    BY <1>1, PeerInv
  <1>2. ASSUME NEW d \in Sides, Callbacks(d)
        PROVE  IInv'
    <2>1. CASE ReadEnds(d) \/ WriteEnds(d) \/ SendKills(d)
      <3>1. live' = FALSE /\ reg' = {} /\ UNCHANGED <<mem, len, pos, key, got, out, peers>>
        BY <2>1 DEF ReadEnds, WriteEnds, SendKills, Release
      <3> QED
        BY <3>1, EndInv
    <2>2. CASE ReadData(d)
      BY <2>2, ReadDataInv
    <2>3. CASE WriteData(d)
      BY <2>3, WriteDataInv
    <2> QED
      BY <1>2, <2>1, <2>2, <2>3 DEF Callbacks
  <1>3. CASE UNCHANGED vars
    BY <1>3 DEF vars, peers, IInv, Typed, Flows, Listens
  <1> QED
    BY <1>1, <1>2, <1>3 DEF Next, Over

-----------------------------------------------------------------------------
(* What is proved of the session.                                          *)

\* In every reachable state, each buffer holds the bytes between those sent on
\* and those received, in the place its callbacks expect.
THEOREM Invariance == Spec => []IInv
  <1> QED
    BY InitInv, NextInv, PTL DEF Spec

\* At any time a session has one callback of each direction registered, the
\* reader while its buffer is empty and the writer while it has a rest: it can
\* neither lose a direction nor read over what is still to be sent.
OneEach == \A d \in Sides : live => ((<<"read", d>> \in reg) # (<<"write", d>> \in reg))

\* While a session lives, fwd.c has for each direction either the reader's
\* callback registered or the writer's, and never both.
THEOREM ListensToEach == Spec => []OneEach
  <1>1. IInv => OneEach
    <2> SUFFICES ASSUME IInv, NEW d \in Sides, live
                 PROVE  (<<"read", d>> \in reg) # (<<"write", d>> \in reg)
      BY DEF OneEach
    <2>1. /\ <<"read", d>> \in reg => len[d] = 0 /\ pos[d] = 0
          /\ <<"write", d>> \in reg => pos[d] < len[d]
          /\ <<"read", d>> \in reg \/ <<"write", d>> \in reg
      BY DEF IInv, Listens
    <2> QED
      BY <2>1
  <1> QED
    BY <1>1, Invariance, PTL

LEMMA InitRefines == Init => Connection!Init
  BY DEF Init, Connection!Init

\* What the sides do is what the ends of a pipe do, or is not seen there.
LEMMA PeerRefines ==
    ASSUME Peer
    PROVE  \/ \E d \in Sides : Connection!Put(d) \/ Connection!Close(d) \/ Connection!Fail(d)
           \/ UNCHANGED Connection!vars
  <1>1. PICK d \in Sides : SideSends(d) \/ SideCloses(d) \/ SideFails(d) \/ SideReads(d)
    BY DEF Peer
  <1>2. CASE SideSends(d)
    BY <1>2 DEF SideSends, Connection!Put
  <1>3. CASE SideCloses(d)
    BY <1>3 DEF SideCloses, Connection!Close
  <1>4. CASE SideFails(d)
    BY <1>4 DEF SideFails, Connection!Fail
  <1>5. CASE SideReads(d)
    BY <1>5 DEF SideReads, Connection!vars
  <1> QED
    BY <1>1, <1>2, <1>3, <1>4, <1>5

\* A callback ends the session after a failure, or when it has received the
\* end of the side and sent on all that came before: it reads the side only
\* while the buffer is empty.
LEMMA EndRefines ==
    ASSUME IInv, NEW d \in Sides, ReadEnds(d) \/ WriteEnds(d) \/ SendKills(d)
    PROVE  Connection!End
  <1>1. live' = FALSE /\ UNCHANGED <<out, peers>>
    BY DEF ReadEnds, WriteEnds, SendKills, Release
  <1>2. failed # {} \/ \E e \in eof : Len(out[e]) = sent[e]
    <2>1. CASE <<"read", d>> \in reg /\ d \in eof /\ got[d] = sent[d]
      <3>1. Flow(mem[d], 0, 0, key[d], got[d], sent[d], out[d], read[d])
        BY <2>1, ReadIdle
      <3>2. Len(out[d]) = got[d] - (0 - 0) /\ got[d] \in Nat
        BY <3>1 DEF Flow
      <3> QED
        BY <2>1, <3>2
    <2> QED
      BY <2>1 DEF ReadEnds, WriteEnds, SendKills
  <1> QED
    BY <1>1, <1>2 DEF Connection!End, peers

LEMMA NextRefines == IInv /\ [Next]_vars => [Connection!Next]_(Connection!vars)
  <1> SUFFICES ASSUME IInv, [Next]_vars
               PROVE  Connection!Next \/ UNCHANGED Connection!vars
    OBVIOUS
  <1>1. CASE Peer
    BY <1>1, PeerRefines DEF Connection!Next
  <1>2. ASSUME NEW d \in Sides, Callbacks(d)
        PROVE  Connection!Next
    <2>1. CASE ReadEnds(d) \/ WriteEnds(d) \/ SendKills(d)
      BY <2>1, EndRefines DEF Connection!Next
    <2>2. CASE ReadData(d) \/ WriteData(d)
      BY <2>2, ReadDataInv, WriteDataInv DEF Connection!Next
    <2> QED
      BY <1>2, <2>1, <2>2 DEF Callbacks
  <1>3. CASE UNCHANGED vars
    BY <1>3 DEF vars, peers, Connection!vars
  <1> QED
    BY <1>1, <1>2, <1>3 DEF Next, Over

\* The session of radmsrvd is a pair of streams that ends only after a failure
\* or after one side has closed and the other was sent all it had sent.
THEOREM Refinement == Spec => ImplementsPipe
  <1> QED
    BY Invariance, InitRefines, NextRefines, PTL DEF Spec, ImplementsPipe, Connection!Spec

-----------------------------------------------------------------------------
(* ClientForward: the invariant.                                           *)

\* The callbacks whose send waits.
Waiting == {<<"read", "t">>} \cup ({"write"} \X Sides)

BusyWith(d) == busy # <<>> /\ busy[2] = d

\* The place in the buffer of what direction d still has to send.
Passed(d) == IF BusyWith(d) THEN pos[d] + taken ELSE pos[d]

ClientFlows(d) ==
    Flow(mem[d], len[d], Passed(d), key[d], got[d], sent[d], out[d], read[d])

\* As Listens, but the buffer that tsock_read_callback has filled is still in
\* its send.
ClientListens(d) ==
    /\ <<"read", d>> \in reg => pos[d] = 0 /\ (len[d] = 0 \/ busy = <<"read", d>>)
    /\ <<"write", d>> \in reg => pos[d] < len[d] /\ <<"read", d>> \notin reg

ClientInv ==
    /\ Typed
    /\ taken \in Nat
    /\ busy \in {<<>>} \cup Waiting
    /\ InLoop \/ busy \in reg
    /\ \A d \in Sides : ClientFlows(d) /\ ClientListens(d)
    /\ \A d \in Sides : live => <<"read", d>> \in reg \/ <<"write", d>> \in reg
    /\ ~live => reg = {}

\* Between two callbacks it is the invariant of Forward.
LEMMA InvInLoop == ASSUME ClientInv, InLoop PROVE IInv
  <1>1. \A d \in Sides : Flows(d)
    BY DEF ClientInv, ClientFlows, Flows, Passed, BusyWith, InLoop
  <1>2. \A d \in Sides : Listens(d)
    BY DEF ClientInv, ClientListens, Listens, InLoop
  <1> QED
    BY <1>1, <1>2 DEF ClientInv, IInv

LEMMA InLoopInv == IInv /\ busy = <<>> /\ taken \in Nat => ClientInv
  <1> SUFFICES ASSUME IInv, busy = <<>>, taken \in Nat
               PROVE  ClientInv
    OBVIOUS
  <1>1. \A d \in Sides : ClientFlows(d)
    BY DEF IInv, ClientFlows, Flows, Passed, BusyWith
  <1>2. \A d \in Sides : ClientListens(d)
    <2> SUFFICES ASSUME NEW d \in Sides
                 PROVE  ClientListens(d)
      OBVIOUS
    <2>1. len[d] \in Nat /\ pos[d] \in Nat
      BY DEF IInv, Typed
    <2>2. Listens(d)
      BY DEF IInv
    <2>3. <<"write", d>> \in reg => pos[d] < len[d] /\ <<"read", d>> \notin reg
      BY <2>1, <2>2 DEF Listens
    <2> QED
      BY <2>2, <2>3 DEF Listens, ClientListens
  <1> QED
    BY <1>1, <1>2 DEF IInv, ClientInv, InLoop

LEMMA InLoopInvNext == IInv' /\ (busy = <<>>)' /\ (taken \in Nat)' => ClientInv'
  BY InLoopInv, PTL

LEMMA ClientInitInv == ClientInit => ClientInv
  BY InitInv, InLoopInv DEF ClientInit

-----------------------------------------------------------------------------
(* The steps.                                                              *)

\* The callbacks that wait for nothing are those of Forward.
LEMMA AtOnceInv ==
    ASSUME ClientInv, InLoop, Next, UNCHANGED <<busy, taken>>
    PROVE  ClientInv' /\ [Connection!Next]_(Connection!vars)
  <1>1. IInv
    BY InvInLoop
  <1>2. IInv'
    BY <1>1, NextInv
  <1>3. busy' = <<>> /\ taken' \in Nat
    BY DEF InLoop, ClientInv
  <1> QED
    BY <1>1, <1>2, <1>3, InLoopInvNext, NextRefines

LEMMA ClientPeerInv == ASSUME ClientInv, ClientPeer PROVE ClientInv'
  <1>1. Peer /\ UNCHANGED <<busy, taken>>
    BY DEF ClientPeer
  <1>2. Typed' /\ UNCHANGED <<live, killed, reg, mem, len, pos, key, got, out>>
    BY <1>1, PeerTyped DEF ClientInv
  <1>3. ASSUME NEW d \in Sides
        PROVE  ClientFlows(d)'
    <2>1. Flow(mem[d], len[d], Passed(d), key[d], got[d], sent[d], out[d], read[d])
      BY DEF ClientInv, ClientFlows
    <2>2. Flow(mem[d], len[d], Passed(d), key[d], got[d], sent'[d], out[d], read'[d])
      BY <1>1, <2>1, PeerFlow DEF ClientInv
    <2>3. Passed(d)' = Passed(d)
      BY <1>1, <1>2 DEF Passed, BusyWith
    <2> QED
      BY <1>2, <2>2, <2>3 DEF ClientFlows
  <1> QED
    BY <1>1, <1>2, <1>3 DEF ClientInv, ClientListens, InLoop

\* The device is read into its buffer, and nothing is sent on yet.
LEMMA TsockReadInv ==
    ASSUME ClientInv, TsockRead
    PROVE  ClientInv' /\ UNCHANGED Connection!vars
  <1> DEFINE n == Chunk("t")
             m2 == [m \in 1 .. BufSize |->
                       IF m > n THEN mem["t"][m]
                       ELSE IF got["t"] = key["t"] THEN got["t"] + m ELSE Noise]
  <1>1. /\ InLoop /\ <<"read", "t">> \in reg /\ got["t"] < sent["t"]
        /\ mem' = [mem EXCEPT !["t"] = m2] /\ len' = [len EXCEPT !["t"] = n]
        /\ got' = [got EXCEPT !["t"] = @ + n] /\ key' = [key EXCEPT !["t"] = @ + n]
        /\ busy' = <<"read", "t">> /\ taken' = 0
        /\ UNCHANGED <<live, killed, reg, pos, out, peers>>
    BY DEF TsockRead
  <1>2. IInv /\ Typed /\ "t" \in Sides /\ "p" \in Sides
    BY <1>1, InvInLoop DEF IInv, Sides
  <1>3. /\ live /\ len["t"] = 0 /\ pos["t"] = 0 /\ <<"write", "t">> \notin reg
        /\ Flow(mem["t"], 0, 0, key["t"], got["t"], sent["t"], out["t"], read["t"])
        /\ key["t"] = got["t"] /\ got["t"] \in Nat
    BY <1>1, <1>2, ReadIdle
  <1>4. n \in 1 .. BufSize /\ got["t"] + n <= sent["t"]
    BY <1>1, <1>2, ChunkFits
  <1>5. n \in Nat /\ n > 0
    BY <1>4, SizesAssumption
  <1>6. m2 \in [1 .. BufSize -> Byte] /\ \A i \in 1 .. n : m2[i] = got["t"] + i
    <2>1. mem["t"] \in [1 .. BufSize -> Byte]
      BY <1>2 DEF Typed
    <2> HIDE DEF n
    <2>2. ASSUME NEW i \in 1 .. BufSize
          PROVE  m2[i] \in Byte /\ (i <= n => m2[i] = got["t"] + i)
      <3>1. CASE i > n
        <4>1. ~(i <= n)
          BY <1>5, <3>1, SizesAssumption
        <4>2. m2[i] = mem["t"][i]
          BY <3>1
        <4> QED
          BY <2>1, <4>1, <4>2
      <3>2. CASE ~(i > n)
        BY <1>3, <3>2 DEF Byte
      <3> QED
        BY <3>1, <3>2
    <2>3. m2 \in [1 .. BufSize -> Byte]
      BY <2>2
    <2>4. \A i \in 1 .. n : i \in 1 .. BufSize /\ i <= n
      BY <1>4, SizesAssumption
    <2> HIDE DEF m2
    <2> QED
      BY <2>2, <2>3, <2>4
  <1> HIDE DEF m2
  <1>7. Flow(m2, n, 0, key["t"] + n, got["t"] + n, sent["t"], out["t"], read["t"])
    BY <1>3, <1>4, <1>6, FlowReceives
  <1> HIDE DEF n
  <1>8. /\ mem'["t"] = m2 /\ len'["t"] = n /\ got'["t"] = got["t"] + n
        /\ key'["t"] = key["t"] + n /\ pos'["t"] = 0
        /\ mem'["p"] = mem["p"] /\ len'["p"] = len["p"] /\ got'["p"] = got["p"]
        /\ key'["p"] = key["p"]
    BY <1>1, <1>2, <1>3 DEF Typed
  <1>9. Passed("t")' = 0 /\ Passed("p")' = pos["p"]
    BY <1>1, <1>8 DEF Passed, BusyWith
  <1>10. ClientFlows("t")'
    BY <1>1, <1>7, <1>8, <1>9 DEF ClientFlows, peers
  <1>11. Flows("p") /\ Listens("p") /\ len["p"] \in Nat /\ pos["p"] \in Nat
    BY <1>2 DEF IInv, Typed
  <1>12. ClientFlows("p")'
    BY <1>1, <1>8, <1>9, <1>11 DEF ClientFlows, Flows, peers
  <1>13. ClientListens("t")'
    BY <1>1, <1>3, <1>5, <1>8 DEF ClientListens
  <1>14. ClientListens("p")'
    BY <1>1, <1>8, <1>11 DEF ClientListens, Listens
  <1>15. Typed'
    <2>1. mem' \in [Sides -> [1 .. BufSize -> Byte]]
      BY <1>1, <1>2, <1>6 DEF Typed
    <2>2. len' \in [Sides -> Nat]
      BY <1>1, <1>2, <1>5 DEF Typed
    <2>3. got' \in [Sides -> Nat] /\ key' \in [Sides -> Nat]
      <3>1. got["t"] + n \in Nat /\ key["t"] + n \in Nat
        BY <1>3, <1>5
      <3> QED
        BY <1>1, <1>2, <3>1 DEF Typed
    <2> QED
      BY <1>1, <1>2, <2>1, <2>2, <2>3 DEF Typed, peers
  <1>16. /\ taken' \in Nat /\ busy' \in {<<>>} \cup Waiting /\ busy' \in reg'
         /\ \A d \in Sides : live' => <<"read", d>> \in reg' \/ <<"write", d>> \in reg'
         /\ ~live' => reg' = {}
    BY <1>1, <1>2 DEF IInv, Waiting
  <1>17. \A d \in Sides : ClientFlows(d)' /\ ClientListens(d)'
    BY <1>10, <1>12, <1>13, <1>14 DEF Sides
  <1>18. ClientInv'
    BY <1>15, <1>16, <1>17 DEF ClientInv
  <1> QED
    BY <1>1, <1>18 DEF Connection!vars, peers

\* A send starts, and has passed on nothing yet.
LEMMA WriteStartsInv ==
    ASSUME ClientInv, NEW d \in Sides, WriteStarts(d)
    PROVE  ClientInv' /\ UNCHANGED Connection!vars
  <1>1. /\ InLoop /\ <<"write", d>> \in reg /\ busy' = <<"write", d>> /\ taken' = 0
        /\ UNCHANGED vars
    BY DEF WriteStarts
  <1>2. IInv
    BY <1>1, InvInLoop
  <1>3. ASSUME NEW e \in Sides
        PROVE  ClientFlows(e)' /\ ClientListens(e)'
    <2>1. pos[e] \in Nat /\ len[e] \in Nat
      BY <1>2 DEF IInv, Typed
    <2>2. pos'[e] = pos[e]
      BY <1>1 DEF vars
    <2>3. Passed(e)' = pos[e]
      BY <1>1, <2>1, <2>2 DEF Passed, BusyWith
    <2>4. Flows(e) /\ Listens(e)
      BY <1>2 DEF IInv
    <2>5. ClientFlows(e)'
      BY <1>1, <2>3, <2>4 DEF ClientFlows, Flows, vars, peers
    <2>6. ClientListens(e)'
      BY <1>1, <2>1, <2>4 DEF ClientListens, Listens, vars
    <2> QED
      BY <2>5, <2>6
  <1>4. /\ taken' \in Nat /\ busy' \in {<<>>} \cup Waiting /\ busy' \in reg'
    BY <1>1 DEF vars, Waiting
  <1>5. /\ Typed'
        /\ \A e \in Sides : live' => <<"read", e>> \in reg' \/ <<"write", e>> \in reg'
        /\ ~live' => reg' = {}
    BY <1>1, <1>2 DEF IInv, Typed, vars, peers
  <1>6. ClientInv'
    BY <1>3, <1>4, <1>5 DEF ClientInv
  <1> QED
    BY <1>1, <1>6 DEF Connection!vars, vars, peers

\* What is known of the direction whose send waits.
LEMMA Sends ==
    ASSUME ClientInv, ~InLoop
    PROVE  \E d \in Sides :
               /\ busy[2] = d /\ BusyWith(d)
               /\ \A e \in Sides \ {d} : ~BusyWith(e)
               /\ busy = <<"read", d>> \/ busy = <<"write", d>>
               /\ busy[1] = "write" => busy = <<"write", d>>
               /\ busy[1] # "write" => busy = <<"read", d>>
               /\ busy \in reg /\ live
               /\ Flow(mem[d], len[d], pos[d] + taken, key[d], got[d], sent[d], out[d], read[d])
               /\ len[d] \in Nat /\ pos[d] \in Nat /\ taken \in Nat
               /\ pos[d] + taken <= len[d]
  <1>1. busy \in Waiting /\ busy \in reg /\ busy # <<>>
    BY DEF ClientInv, InLoop
  <1>2. PICK d \in Sides : busy = <<"read", d>> \/ busy = <<"write", d>>
    BY <1>1 DEF Waiting, Sides
  <1>3. busy[2] = d /\ BusyWith(d) /\ \A e \in Sides \ {d} : ~BusyWith(e)
    BY <1>1, <1>2 DEF BusyWith
  <1>4. busy[1] = "write" => busy = <<"write", d>>
    BY <1>2
  <1>5. busy[1] # "write" => busy = <<"read", d>>
    BY <1>2
  <1>6. live
    BY <1>1 DEF ClientInv, Typed
  <1>7. Flow(mem[d], len[d], pos[d] + taken, key[d], got[d], sent[d], out[d], read[d])
    BY <1>3 DEF ClientInv, ClientFlows, Passed
  <1>8. len[d] \in Nat /\ pos[d] \in Nat /\ taken \in Nat
    BY DEF ClientInv, Typed
  <1>9. pos[d] + taken <= len[d]
    BY <1>7 DEF Flow
  <1> QED
    BY <1>1, <1>2, <1>3, <1>4, <1>5, <1>6, <1>7, <1>8, <1>9

\* Room appears, and the next bytes of the stream are passed on.
LEMMA SendGoesOnInv ==
    ASSUME ClientInv, SendGoesOn
    PROVE  ClientInv' /\ Connection!Next
  <1>1. ~InLoop
    BY DEF SendGoesOn
  <1>2. PICK d \in Sides :
            /\ busy[2] = d /\ BusyWith(d)
            /\ \A e \in Sides \ {d} : ~BusyWith(e)
            /\ busy = <<"read", d>> \/ busy = <<"write", d>>
            /\ busy \in reg /\ live
            /\ Flow(mem[d], len[d], pos[d] + taken, key[d], got[d], sent[d], out[d], read[d])
            /\ len[d] \in Nat /\ pos[d] \in Nat /\ taken \in Nat
            /\ pos[d] + taken <= len[d]
    BY <1>1, Sends
  <1>3. PICK q \in 1 .. Smaller(Left, Free(d)) :
            /\ out' = [out EXCEPT ![d] =
                          @ \o SubSeq(mem[d], pos[d] + taken + 1, pos[d] + taken + q)]
            /\ taken' = taken + q
    BY <1>2 DEF SendGoesOn
  <1>4. UNCHANGED <<live, killed, reg, mem, len, pos, key, got, peers, busy>>
    BY DEF SendGoesOn
  <1>5. /\ out[d] \in Seq(Nat) /\ Len(out[d]) \in Nat /\ read[d] \in Nat
        /\ Room \in Nat /\ Typed
    <2>1. out[d] \in Seq(Nat) /\ read[d] \in Nat
      BY DEF ClientInv, Typed
    <2> QED
      BY <2>1, SizesAssumption DEF ClientInv
  <1>6. q \in Nat /\ pos[d] + taken + q <= len[d] /\ Len(out[d]) - read[d] + q <= Room
    <2>1. Left = len[d] - pos[d] - taken /\ Free(d) = Room - (Len(out[d]) - read[d])
      BY <1>2 DEF Left, Free
    <2>2. Smaller(Left, Free(d)) = IF Left <= Free(d) THEN Left ELSE Free(d)
      BY DEF Smaller
    <2>3. Left \in Int /\ Free(d) \in Int
      BY <1>2, <1>5, <2>1
    <2>4. q \in Nat /\ q <= Left /\ q <= Free(d)
      BY <1>3, <2>2, <2>3
    <2>5. q + (pos[d] + taken) <= len[d]
      BY <1>2, <2>1, <2>4
    <2>6. Len(out[d]) - read[d] + q <= Room
      BY <1>5, <2>1, <2>4
    <2> QED
      BY <1>2, <2>4, <2>5, <2>6
  <1> DEFINE p == pos[d] + taken
             o == out[d] \o Part(mem[d], p, q)
  <1>7. p \in Nat
    BY <1>2
  <1>8. /\ Flow(mem[d], len[d], p + q, key[d], got[d], sent[d], o, read[d])
        /\ Len(o) \in Len(out[d]) .. sent[d]
    <2> HIDE DEF p
    <2>1. Flow(mem[d], len[d], p, key[d], got[d], sent[d], out[d], read[d]) /\ p + q <= len[d]
      BY <1>2, <1>6 DEF p
    <2> QED
      BY <1>6, <2>1, FlowSends
  <1>9. out' = [out EXCEPT ![d] = o] /\ out'[d] = o
    BY <1>3, <1>5 DEF Typed, Part
  <1> HIDE DEF o
  <1>10. o = [i \in 1 .. Len(o) |-> i] /\ o \in Seq(Nat)
    <2>1. Stream(o)
      BY <1>8 DEF Flow
    <2> QED
      BY <2>1, StreamIs DEF Stream
  <1>11. Connection!Take(d)
    BY <1>4, <1>8, <1>9, <1>10 DEF Connection!Take, peers
  <1>12. ASSUME NEW e \in Sides
         PROVE  ClientFlows(e)'
    <2>1. CASE e = d
      <3>1. Passed(d)' = p + q
        <4>1. Passed(d)' = pos[d] + (taken + q)
          BY <1>2, <1>3, <1>4 DEF Passed, BusyWith
        <4> QED
          BY <1>2, <1>6, <4>1
      <3> HIDE DEF p
      <3> QED
        BY <1>4, <1>8, <1>9, <2>1, <3>1 DEF ClientFlows, peers
    <2>2. CASE e # d
      <3>1. ~BusyWith(e) /\ ~BusyWith(e)'
        BY <1>2, <1>4, <2>2 DEF BusyWith
      <3>2. Passed(e)' = Passed(e)
        BY <1>4, <3>1 DEF Passed
      <3>3. out'[e] = out[e]
        BY <1>5, <1>9, <2>2 DEF Typed
      <3> QED
        BY <1>4, <3>2, <3>3 DEF ClientInv, ClientFlows, peers
    <2> QED
      BY <2>1, <2>2
  <1>13. Typed'
    <2>1. out' \in [Sides -> Seq(Nat)]
      BY <1>5, <1>9, <1>10 DEF Typed
    <2> QED
      BY <1>4, <1>5, <2>1 DEF Typed, peers
  <1>14. taken' \in Nat
    BY <1>2, <1>3, <1>6
  <1>15. \A e \in Sides : ClientListens(e)'
    BY <1>4 DEF ClientInv, ClientListens
  <1>16. ClientInv'
    BY <1>4, <1>12, <1>13, <1>14, <1>15 DEF ClientInv, InLoop
  <1> QED
    BY <1>11, <1>16 DEF Connection!Next

\* The send returns, and the position follows what it passed on.
LEMMA SendReturnsInv ==
    ASSUME ClientInv, SendReturns
    PROVE  ClientInv' /\ UNCHANGED Connection!vars
  <1>1. ~InLoop /\ busy' = <<>>
        /\ UNCHANGED <<live, killed, mem, key, got, out, peers, taken>>
    BY DEF SendReturns
  <1>2. PICK d \in Sides :
            /\ busy[2] = d /\ BusyWith(d)
            /\ \A e \in Sides \ {d} : ~BusyWith(e)
            /\ busy = <<"read", d>> \/ busy = <<"write", d>>
            /\ busy[1] = "write" => busy = <<"write", d>>
            /\ busy[1] # "write" => busy = <<"read", d>>
            /\ busy \in reg /\ live
            /\ Flow(mem[d], len[d], pos[d] + taken, key[d], got[d], sent[d], out[d], read[d])
            /\ len[d] \in Nat /\ pos[d] \in Nat /\ taken \in Nat
            /\ pos[d] + taken <= len[d]
    BY <1>1, Sends
  <1>3. \/ /\ Left = 0
           /\ len' = [len EXCEPT ![d] = 0] /\ pos' = [pos EXCEPT ![d] = 0]
           /\ reg' = IF busy[1] = "write" THEN AwaitData(d) ELSE reg
        \/ /\ Left > 0
           /\ pos' = [pos EXCEPT ![d] = @ + taken] /\ reg' = AwaitRoom(d) /\ len' = len
    BY <1>2 DEF SendReturns
  <1>4. Left = len[d] - pos[d] - taken
    BY <1>2 DEF Left
  <1>5. Typed /\ ClientListens(d)
    BY DEF ClientInv
  <1>6. /\ Flows(d)' /\ Listens(d)'
        /\ <<"read", d>> \in reg' \/ <<"write", d>> \in reg'
    <2>1. CASE /\ Left = 0
               /\ len' = [len EXCEPT ![d] = 0] /\ pos' = [pos EXCEPT ![d] = 0]
               /\ reg' = IF busy[1] = "write" THEN AwaitData(d) ELSE reg
      <3>1. len'[d] = 0 /\ pos'[d] = 0
        BY <1>5, <2>1 DEF Typed
      <3>2. pos[d] + taken = len[d]
        BY <1>2, <1>4, <2>1
      <3>3. Flow(mem[d], 0, 0, key[d], got[d], sent[d], out[d], read[d])
        BY <1>2, <3>2, FlowEmpties
      <3>4. Flows(d)'
        BY <1>1, <3>1, <3>3 DEF Flows, peers
      <3>5. <<"write", d>> \notin reg' /\ <<"read", d>> \in reg'
        <4>1. CASE busy[1] = "write"
          BY <2>1, <4>1 DEF AwaitData
        <4>2. CASE busy[1] # "write"
          BY <1>2, <1>5, <2>1, <4>2 DEF ClientListens
        <4> QED
          BY <4>1, <4>2
      <3> QED
        BY <3>1, <3>4, <3>5 DEF Listens
    <2>2. CASE /\ Left > 0
               /\ pos' = [pos EXCEPT ![d] = @ + taken] /\ reg' = AwaitRoom(d) /\ len' = len
      <3>1. pos'[d] = pos[d] + taken
        BY <1>5, <2>2 DEF Typed
      <3>2. pos[d] + taken < len[d]
        BY <1>2, <1>4, <2>2
      <3>3. Flows(d)'
        BY <1>1, <1>2, <2>2, <3>1 DEF Flows, peers
      <3>4. <<"write", d>> \in reg' /\ <<"read", d>> \notin reg'
        BY <2>2 DEF AwaitRoom
      <3> QED
        BY <2>2, <3>1, <3>2, <3>3, <3>4 DEF Listens
    <2> QED
      BY <1>3, <2>1, <2>2
  <1>7. ASSUME NEW e \in Sides \ {d}
        PROVE  /\ Flows(e)' /\ Listens(e)'
               /\ <<"read", e>> \in reg' \/ <<"write", e>> \in reg'
    <2>1. len'[e] = len[e] /\ pos'[e] = pos[e]
      BY <1>3, <1>5 DEF Typed
    <2>2. \A w \in {"read", "write"} : <<w, e>> \in reg' <=> <<w, e>> \in reg
      BY <1>3, OtherKept
    <2>3. Passed(e) = pos[e] /\ busy # <<"read", e>>
      BY <1>2 DEF Passed
    <2>4. Flows(e)'
      BY <1>1, <2>1, <2>3 DEF ClientInv, ClientFlows, Flows, peers
    <2>5. Listens(e)'
      BY <2>1, <2>2, <2>3 DEF ClientInv, ClientListens, Listens
    <2>6. <<"read", e>> \in reg \/ <<"write", e>> \in reg
      BY <1>2 DEF ClientInv
    <2> QED
      BY <2>2, <2>4, <2>5, <2>6
  <1>8. Typed'
    <2>1. len' \in [Sides -> Nat] /\ pos' \in [Sides -> Nat]
      <3>1. len \in [Sides -> Nat] /\ pos \in [Sides -> Nat] /\ pos[d] + taken \in Nat
        BY <1>2, <1>5 DEF Typed
      <3>2. len' = [len EXCEPT ![d] = 0] \/ len' = len
        BY <1>3
      <3>3. pos' = [pos EXCEPT ![d] = 0] \/ pos' = [pos EXCEPT ![d] = pos[d] + taken]
        BY <1>3
      <3> QED
        BY <3>1, <3>2, <3>3
    <2>2. reg' \subseteq Callback
      BY <1>3, <1>5 DEF Typed, AwaitData, AwaitRoom, Callback
    <2> QED
      BY <1>1, <1>5, <2>1, <2>2 DEF Typed, peers
  <1>9. IInv'
    <2>1. \A e \in Sides : /\ Flows(e)' /\ Listens(e)'
                           /\ <<"read", e>> \in reg' \/ <<"write", e>> \in reg'
      BY <1>6, <1>7
    <2> QED
      BY <1>1, <1>2, <1>8, <2>1 DEF IInv
  <1>10. busy' = <<>> /\ taken' \in Nat
    BY <1>1, <1>2
  <1>11. ClientInv'
    BY <1>9, <1>10, InLoopInvNext
  <1> QED
    BY <1>1, <1>11 DEF Connection!vars, peers

\* The send fails, and with it the session or the process.
LEMMA SendFailsInv ==
    ASSUME ClientInv, SendFails
    PROVE  ClientInv' /\ Connection!Next
  <1>1. /\ ~InLoop /\ Other(busy[2]) \in failed /\ taken = 0
        /\ live' = FALSE /\ reg' = {} /\ busy' = <<>>
        /\ UNCHANGED <<mem, len, pos, key, got, out, peers, taken>>
    BY DEF SendFails
  <1>2. \A e \in Sides : Passed(e) = pos[e] /\ Passed(e)' = pos[e]
    <2> TAKE e \in Sides
    <2>1. pos[e] \in Nat
      BY DEF ClientInv, Typed
    <2> QED
      BY <1>1, <2>1 DEF Passed, BusyWith
  <1>3. \A e \in Sides : ClientFlows(e)' /\ ClientListens(e)'
    BY <1>1, <1>2 DEF ClientInv, ClientFlows, ClientListens, peers
  <1>4. Typed'
    BY <1>1 DEF ClientInv, Typed, peers
  <1>5. ClientInv'
    BY <1>1, <1>3, <1>4 DEF ClientInv, InLoop
  <1>6. Connection!End
    BY <1>1 DEF Connection!End, peers
  <1> QED
    BY <1>5, <1>6 DEF Connection!Next

\* Every step keeps the invariant, and is one of a pipe or is not seen there.
LEMMA ClientStep ==
    ClientInv /\ [ClientNext]_cvars => ClientInv' /\ [Connection!Next]_(Connection!vars)
  <1> SUFFICES ASSUME ClientInv, [ClientNext]_cvars
               PROVE  ClientInv' /\ [Connection!Next]_(Connection!vars)
    OBVIOUS
  <1>1. CASE ClientPeer
    <2>1. [Connection!Next]_(Connection!vars)
      BY <1>1, PeerRefines DEF ClientPeer, Connection!Next
    <2> QED
      BY <1>1, <2>1, ClientPeerInv
  <1>2. ASSUME NEW d \in Sides, Reading(d) \/ Writing(d)
        PROVE  ClientInv' /\ [Connection!Next]_(Connection!vars)
    <2>1. CASE ClientEnds(d) \/ ClientSendKills(d) \/ (d = "p" /\ PsockRead)
      <3>1. InLoop /\ Callbacks(d) /\ UNCHANGED <<busy, taken>>
        BY <2>1 DEF ClientEnds, ClientSendKills, PsockRead, AtOnce, Callbacks
      <3>2. Next
        BY <3>1 DEF Next
      <3> QED
        BY <3>1, <3>2, AtOnceInv
    <2>2. CASE TsockRead
      BY <2>2, TsockReadInv
    <2>3. CASE WriteStarts(d)
      BY <2>3, WriteStartsInv
    <2> QED
      BY <1>2, <2>1, <2>2, <2>3 DEF Reading, Writing
  <1>3. CASE Sending
    BY <1>3, SendGoesOnInv, SendReturnsInv, SendFailsInv DEF Sending
  <1>4. CASE UNCHANGED cvars
    <2>1. \A d \in Sides : Passed(d)' = Passed(d)
      BY <1>4 DEF cvars, vars, Passed, BusyWith
    <2>2. \A d \in Sides : ClientFlows(d)' /\ ClientListens(d)'
      BY <1>4, <2>1 DEF ClientInv, cvars, vars, peers, ClientFlows, ClientListens
    <2> QED
      BY <1>4, <2>2 DEF ClientInv, cvars, vars, peers, Typed, InLoop, Connection!vars
  <1>5. CASE ClientOver
    BY <1>4, <1>5 DEF ClientOver, Over, cvars
  <1> QED
    BY <1>1, <1>2, <1>3, <1>4, <1>5 DEF ClientNext

-----------------------------------------------------------------------------
(* What is proved of the session.                                          *)

\* In every reachable state of a session of radmcli, what each buffer holds
\* beyond what its send has passed on is the part of the stream that follows.
THEOREM ClientInvariance == ClientSpec => []ClientInv
  <1>1. ClientInv /\ [ClientNext]_cvars => ClientInv'
    BY ClientStep
  <1> QED
    BY <1>1, ClientInitInv, PTL DEF ClientSpec

\* The session of radmcli is a pair of streams too, though its sends wait for
\* room and may break off in the middle of a buffer.
THEOREM ClientRefinement == ClientSpec => ImplementsPipe
  <1>1. ClientInit => Connection!Init
    BY InitRefines DEF ClientInit
  <1>2. ClientInv /\ [ClientNext]_cvars => [Connection!Next]_(Connection!vars)
    BY ClientStep
  <1> QED
    BY <1>1, <1>2, ClientInvariance, PTL DEF ClientSpec, ImplementsPipe, Connection!Spec
=============================================================================
