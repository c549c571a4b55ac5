---------------------------- MODULE WebServerProofs ----------------------------
(***************************************************************************)
(* Proofs about the web server of radmsrvd, for any number of browsers and *)
(* children.  Of WebServer: the white list that the worker will obey once  *)
(* it has read its datagrams is the one in the file, as long as a save was *)
(* whole and alone.  Of HttpRequest, for buffers of any size: what a child *)
(* reads is what the browser sent, however the network cuts it, and what   *)
(* is saved is what was sent, whenever reading ends.                       *)
(***************************************************************************)
EXTENDS WebServer, HttpRequest, FiniteSetTheorems, SequenceTheorems, TLAPS

States == {"select", "accept", "read", "tell", "open", "write"}

KidRec == [st : States, req : Reqs \cup {Nil}, dev : BOOLEAN, sess : BOOLEAN,
           old : BOOLEAN, alone : BOOLEAN]

\* A worker that obeys w obeys x after the datagrams c.
Leads(c, w, x) ==
    \/ w = x /\ \A n \in 1 .. Len(c) : c[n] = "IP"
    \/ x # "IP" /\ \E n \in 1 .. Len(c) : /\ c[n] = x
                                          /\ \A m \in n + 1 .. Len(c) : c[m] = "IP"

Typed ==
    /\ queue \in Seq(Reqs)
    /\ ctl \in Seq(Reqs \cup {"IP"})
    /\ kid \in [Kids -> KidRec \cup {Nil}]
    /\ synced \in BOOLEAN /\ dev \in BOOLEAN

\* A child that saves, with nobody else that saved since it told the worker.
Alone(k) == Saving(k) /\ kid[k].alone

IInv ==
    /\ Typed
    /\ \A k \in Alive : kid[k].st \in {"read", "tell", "open", "write"} => kid[k].req \in Reqs
    /\ \A k \in Alive : ~kid[k].old => worker = "run"
    /\ \A k \in Kids : Alone(k) =>
           /\ ~kid[k].old
           /\ \A j \in Kids : Saving(j) => j = k
           /\ Leads(ctl, white, kid[k].req)
           /\ kid[k].st = "write" => file = "empty"
    /\ synced => (\A k \in Kids : ~Saving(k)) /\ (worker = "run" => Leads(ctl, white, file))

-----------------------------------------------------------------------------
(* What is on its way to the worker.                                       *)

LEMMA Emptied ==
    ASSUME NEW S, NEW c \in Seq(S), NEW d, d = c \/ d = <<>>
    PROVE  d \in Seq(S)
  <1>1. <<>> \in Seq(S)
    OBVIOUS
  <1> QED
    BY <1>1

LEMMA LeadsNone == ASSUME NEW w, NEW x, Leads(<<>>, w, x) PROVE w = x
  BY DEF Leads

LEMMA LeadsIp ==
    ASSUME NEW S, NEW c \in Seq(S), NEW w, NEW x, Leads(c, w, x), "IP" \in S
    PROVE  Leads(Append(c, "IP"), w, x)
  <1> DEFINE d == Append(c, "IP")
  <1>1. /\ Len(d) = Len(c) + 1 /\ d[Len(c) + 1] = "IP" /\ Len(c) \in Nat
        /\ \A n \in 1 .. Len(c) : d[n] = c[n]
    BY AppendProperties
  <1> HIDE DEF d
  <1>2. CASE w = x /\ \A n \in 1 .. Len(c) : c[n] = "IP"
    <2>1. \A n \in 1 .. Len(d) : d[n] = "IP"
      BY <1>1, <1>2
    <2> QED
      BY <1>2, <2>1 DEF Leads, d
  <1>3. CASE x # "IP" /\ \E n \in 1 .. Len(c) : /\ c[n] = x
                                                /\ \A m \in n + 1 .. Len(c) : c[m] = "IP"
    <2>1. PICK n \in 1 .. Len(c) : c[n] = x /\ \A m \in n + 1 .. Len(c) : c[m] = "IP"
      BY <1>3
    <2>2. n \in 1 .. Len(d) /\ d[n] = x
      BY <1>1, <2>1
    <2>3. \A m \in n + 1 .. Len(d) : d[m] = "IP"
      <3> TAKE m \in n + 1 .. Len(d)
      <3>1. CASE m \in n + 1 .. Len(c)
        BY <1>1, <2>1, <3>1
      <3>2. CASE m \notin n + 1 .. Len(c)
        BY <1>1, <3>2
      <3> QED
        BY <3>1, <3>2
    <2> QED
      BY <1>3, <2>2, <2>3 DEF Leads, d
  <1> QED
    BY <1>2, <1>3 DEF Leads

LEMMA LeadsNew ==
    ASSUME NEW S, NEW c \in Seq(S), NEW w, NEW x \in S, x # "IP"
    PROVE  Leads(Append(c, x), w, x)
  <1> DEFINE d == Append(c, x)
  <1>1. Len(d) = Len(c) + 1 /\ d[Len(c) + 1] = x /\ Len(c) \in Nat
    BY AppendProperties
  <1> HIDE DEF d
  <1>2. Len(d) \in 1 .. Len(d) /\ d[Len(d)] = x /\ \A m \in Len(d) + 1 .. Len(d) : d[m] = "IP"
    BY <1>1
  <1> QED
    BY <1>2 DEF Leads, d

LEMMA LeadsTail ==
    ASSUME NEW S, NEW c \in Seq(S), c # <<>>, NEW w, NEW x, Leads(c, w, x)
    PROVE  Leads(Tail(c), IF Head(c) = "IP" THEN w ELSE Head(c), x)
  <1> DEFINE d == Tail(c)
  <1>1. /\ Head(c) = c[1] /\ Len(d) = Len(c) - 1 /\ Len(c) \in Nat /\ Len(c) > 0
        /\ \A n \in 1 .. Len(c) - 1 : d[n] = c[n + 1]
    BY HeadTailProperties
  <1> HIDE DEF d
  <1>2. CASE w = x /\ \A n \in 1 .. Len(c) : c[n] = "IP"
    <2>1. \A n \in 1 .. Len(d) : d[n] = "IP"
      BY <1>1, <1>2
    <2>2. Head(c) = "IP"
      BY <1>1, <1>2
    <2> QED
      BY <1>2, <2>1, <2>2 DEF Leads, d
  <1>3. ASSUME x # "IP", NEW n \in 1 .. Len(c), c[n] = x,
               \A m \in n + 1 .. Len(c) : c[m] = "IP"
        PROVE  Leads(Tail(c), IF Head(c) = "IP" THEN w ELSE Head(c), x)
    <2>1. CASE n = 1
      <3>1. \A m \in 1 .. Len(d) : d[m] = "IP"
        <4> TAKE m \in 1 .. Len(d)
        <4>1. m + 1 \in n + 1 .. Len(c) /\ m \in 1 .. Len(c) - 1
          BY <1>1, <2>1
        <4> QED
          BY <1>1, <1>3, <4>1
      <3>2. Head(c) = x
        BY <1>1, <1>3, <2>1
      <3> QED
        BY <1>3, <3>1, <3>2 DEF Leads, d
    <2>2. CASE n # 1
      <3>1. n - 1 \in 1 .. Len(d) /\ d[n - 1] = x
        BY <1>1, <1>3, <2>2
      <3>2. \A m \in n - 1 + 1 .. Len(d) : d[m] = "IP"
        <4> TAKE m \in n - 1 + 1 .. Len(d)
        <4>1. m + 1 \in n + 1 .. Len(c) /\ m \in 1 .. Len(c) - 1
          BY <1>1, <2>2
        <4> QED
          BY <1>1, <1>3, <4>1
      <3> QED
        BY <1>3, <3>1, <3>2 DEF Leads, d
    <2> QED
      BY <2>1, <2>2
  <1> QED
    BY <1>2, <1>3 DEF Leads

-----------------------------------------------------------------------------
(* The steps.                                                              *)

LEMMA InitInv == Init => IInv
  <1> SUFFICES ASSUME Init
               PROVE  IInv
    OBVIOUS
  <1>1. queue \in Seq(Reqs) /\ ctl \in Seq(Reqs \cup {"IP"})
    BY DEF Init
  <1>2. Typed
    BY <1>1 DEF Init, Typed
  <1>3. \A k \in Kids : k \notin Alive
    BY DEF Init, Alive
  <1>4. Leads(ctl, white, file)
    BY DEF Init, Leads
  <1> QED
    BY <1>2, <1>3, <1>4 DEF IInv, Alone, Saving, Alive

\* A save that goes on, as far as the others can see.
GoesOn(j) ==
    Saving(j)' => /\ Saving(j)
                  /\ kid'[j].req = kid[j].req
                  /\ kid'[j].alone => kid[j].alone
                  /\ kid'[j].old = kid[j].old
                  /\ kid'[j].st = kid[j].st

\* A step of which nobody who saves takes notice.
LEMMA Unnoticed ==
    ASSUME IInv, Typed',
           \A k \in Alive' : kid'[k].st \in {"read", "tell", "open", "write"} =>
                                 kid'[k].req \in Reqs,
           \A k \in Alive' : ~kid'[k].old => worker' = "run",
           \A j \in Kids : GoesOn(j),
           \A x : Leads(ctl, white, x) => Leads(ctl', white', x),
           file' = file, synced' => synced, worker' = "run" => worker = "run"
    PROVE  IInv'
  <1>1. \A k \in Kids : Alone(k)' => Alone(k)
    BY DEF Alone, GoesOn
  <1>2. ASSUME NEW k \in Kids, Alone(k)'
        PROVE  /\ ~kid'[k].old
               /\ \A j \in Kids : Saving(j)' => j = k
               /\ Leads(ctl', white', kid'[k].req)
               /\ kid'[k].st = "write" => file' = "empty"
    <2>1. Saving(k)' /\ Alone(k)
      BY <1>1, <1>2 DEF Alone
    <2> QED
      BY <2>1 DEF GoesOn, IInv
  <1>3. synced' => /\ \A k \in Kids : ~Saving(k)'
                   /\ worker' = "run" => Leads(ctl', white', file')
    BY DEF GoesOn, IInv
  <1> QED
    BY <1>2, <1>3 DEF IInv

\* No child changed.
LEMMA KidsKept ==
    ASSUME IInv, UNCHANGED <<worker, dev, kid, ctl, white, file, synced>>,
           queue' \in Seq(Reqs)
    PROVE  IInv'
  <1>1. Typed'
    BY DEF IInv, Typed
  <1>2. \A j \in Kids : Saving(j)' <=> Saving(j)
    BY DEF Saving, Alive
  <1>3. Alive' = Alive
    BY DEF Alive
  <1>4. \A j \in Kids : GoesOn(j)
    BY <1>2 DEF GoesOn
  <1>5. \A k \in Alive' : /\ kid'[k].st \in {"read", "tell", "open", "write"} => kid'[k].req \in Reqs
                          /\ ~kid'[k].old => worker' = "run"
    BY <1>3 DEF IInv
  <1> QED
    BY <1>1, <1>4, <1>5, Unnoticed

\* The kinds of a child's record.
LEMMA KidIs == ASSUME IInv, NEW k \in Alive PROVE k \in Kids /\ kid[k] \in KidRec
  BY DEF IInv, Typed, Alive

\* A child goes on without saving, or is forked; e is its new record.
LEMMA KidMoves ==
    ASSUME IInv, NEW k \in Kids, NEW e \in KidRec, kid' = [kid EXCEPT ![k] = e],
           e.st \in {"select", "accept", "read", "tell"},
           e.st \in {"read", "tell"} => e.req \in Reqs,
           ~e.old => worker = "run",
           UNCHANGED <<worker, dev, white, file, synced>>,
           queue' \in Seq(Reqs), ctl' = ctl \/ ctl' = Append(ctl, "IP")
    PROVE  IInv'
  <1>1. kid'[k] = e /\ \A j \in Kids \ {k} : kid'[j] = kid[j]
    BY DEF IInv, Typed
  <1>2. ctl' \in Seq(Reqs \cup {"IP"})
    <2>1. ctl \in Seq(Reqs \cup {"IP"}) /\ "IP" \in Reqs \cup {"IP"}
      BY DEF IInv, Typed
    <2> QED
      BY <2>1, AppendProperties
  <1>3. Typed'
    <2>1. kid' \in [Kids -> KidRec \cup {Nil}]
      BY DEF IInv, Typed
    <2> QED
      BY <1>2, <2>1 DEF IInv, Typed
  <1>4. \A j \in Kids \ {k} : (Saving(j)' <=> Saving(j)) /\ (j \in Alive' <=> j \in Alive)
    BY <1>1 DEF Saving, Alive
  <1>5. ~Saving(k)'
    BY <1>1 DEF Saving
  <1>6. \A j \in Kids : GoesOn(j)
    BY <1>1, <1>4, <1>5 DEF GoesOn
  <1>7. \A x : Leads(ctl, white, x) => Leads(ctl', white', x)
    <2> TAKE x
    <2>1. ctl \in Seq(Reqs \cup {"IP"}) /\ "IP" \in Reqs \cup {"IP"}
      BY DEF IInv, Typed
    <2> QED
      BY <2>1, LeadsIp
  <1>8. ASSUME NEW j \in Alive'
        PROVE  /\ kid'[j].st \in {"read", "tell", "open", "write"} => kid'[j].req \in Reqs
               /\ ~kid'[j].old => worker' = "run"
    <2>1. j \in Kids
      BY <1>8 DEF Alive
    <2>2. CASE j = k
      BY <1>1, <2>2
    <2>3. CASE j # k
      <3>1. j \in Alive /\ kid'[j] = kid[j]
        BY <1>1, <1>4, <2>1, <2>3
      <3> QED
        BY <3>1 DEF IInv
    <2> QED
      BY <2>2, <2>3
  <1> QED
    BY <1>3, <1>6, <1>7, <1>8, Unnoticed

\* A child exits.
LEMMA KidLeaves ==
    ASSUME IInv, NEW k \in Alive, NEW outcome, Leaves(k, outcome),
           UNCHANGED <<worker, dev, white, file, synced>>, ctl' = ctl \/ ctl' = Append(ctl, "IP")
    PROVE  IInv'
  <1>1. kid' = [kid EXCEPT ![k] = Nil] /\ (queue' = queue \/ queue' = <<>>)
    BY DEF Leaves
  <1>2. k \in Kids
    BY DEF Alive
  <1>3. kid'[k] = Nil /\ \A j \in Kids \ {k} : kid'[j] = kid[j]
    BY <1>1, <1>2 DEF IInv, Typed
  <1>4. ctl' \in Seq(Reqs \cup {"IP"})
    <2>1. ctl \in Seq(Reqs \cup {"IP"}) /\ "IP" \in Reqs \cup {"IP"}
      BY DEF IInv, Typed
    <2> QED
      BY <2>1, AppendProperties
  <1>5. Typed'
    <2>1. kid' \in [Kids -> KidRec \cup {Nil}]
      BY <1>1 DEF IInv, Typed
    <2>2. queue' \in Seq(Reqs)
      BY <1>1, Emptied DEF IInv, Typed
    <2> QED
      BY <1>4, <2>1, <2>2 DEF IInv, Typed
  <1>6. \A j \in Kids : j \in Alive' => j # k /\ j \in Alive
    BY <1>3 DEF Alive
  <1>7. \A j \in Kids : GoesOn(j)
    <2> TAKE j \in Kids
    <2>1. CASE j = k
      BY <1>6, <2>1 DEF GoesOn, Saving
    <2>2. CASE j # k
      BY <1>3, <1>6, <2>2 DEF GoesOn, Saving
    <2> QED
      BY <2>1, <2>2
  <1>8. \A x : Leads(ctl, white, x) => Leads(ctl', white', x)
    <2> TAKE x
    <2>1. ctl \in Seq(Reqs \cup {"IP"}) /\ "IP" \in Reqs \cup {"IP"}
      BY DEF IInv, Typed
    <2> QED
      BY <2>1, LeadsIp
  <1>9. ASSUME NEW j \in Alive'
        PROVE  /\ kid'[j].st \in {"read", "tell", "open", "write"} => kid'[j].req \in Reqs
               /\ ~kid'[j].old => worker' = "run"
    <2>1. j \in Kids
      BY <1>9 DEF Alive
    <2>2. j \in Alive /\ kid'[j] = kid[j]
      BY <1>3, <1>6, <1>9, <2>1
    <2> QED
      BY <2>2 DEF IInv
  <1> QED
    BY <1>5, <1>7, <1>8, <1>9, Unnoticed

\* The worker comes up: no child knows it yet, and if it runs it has the white
\* list of its command line and no datagrams.
LEMMA StartInv == ASSUME IInv, Start PROVE IInv'
  <1>1. worker # "run" /\ UNCHANGED <<kid, file, queue>> /\ dev' \in BOOLEAN
    <2>1. worker # "run" /\ UNCHANGED <<kid, file, queue>>
      <3>1. CASE Wake
        BY <3>1 DEF Wake, page, lists
      <3>2. CASE BindDevice
        BY <3>2 DEF BindDevice, page, lists
      <3>3. CASE BindWeb
        BY <3>3 DEF BindWeb, page, lists
      <3> QED
        BY <3>1, <3>2, <3>3 DEF Start
    <2>2. dev' \in BOOLEAN
      <3>1. CASE Wake \/ BindWeb
        BY <3>1 DEF Wake, BindWeb, IInv, Typed
      <3>2. CASE BindDevice
        BY <3>2 DEF BindDevice
      <3> QED
        BY <3>1, <3>2 DEF Start
    <2> QED
      BY <2>1, <2>2
  <1>2. CASE worker' # "run" /\ UNCHANGED <<ctl, white, synced>>
    <2>1. \A j \in Kids : (Saving(j)' <=> Saving(j)) /\ (Alone(j)' <=> Alone(j))
      BY <1>1 DEF Alone, Saving, Alive
    <2>2. Alive' = Alive /\ Typed'
      BY <1>1, <1>2 DEF Alive, IInv, Typed
    <2> QED
      BY <1>1, <1>2, <2>1, <2>2 DEF IInv
  <1>3. CASE /\ Alive = {} /\ white' = "start" /\ ctl' = <<>>
             /\ synced' = (file = "start")
    <2>1. Alive' = {} /\ \A j \in Kids : ~Saving(j)' /\ ~Alone(j)'
      BY <1>1, <1>3 DEF Alive, Saving, Alone
    <2>2. Typed'
      BY <1>1, <1>3 DEF IInv, Typed
    <2>3. synced' => Leads(ctl', white', file')
      <3> SUFFICES ASSUME synced'
                   PROVE  Leads(ctl', white', file')
        OBVIOUS
      <3>1. file = "start"
        BY <1>3
      <3> QED
        BY <1>1, <1>3, <3>1 DEF Leads
    <2> QED
      BY <2>1, <2>2, <2>3 DEF IInv
  <1> QED
    BY <1>2, <1>3 DEF Start, Wake, BindDevice, BindWeb, lists

\* The worker is gone: its children write to nobody.
LEMMA DiesInv == ASSUME IInv, Dies PROVE IInv'
  <1>1. /\ synced' = FALSE /\ dev' = FALSE /\ ctl' = <<>> /\ (queue' = queue \/ queue' = <<>>)
        /\ kid' = [k \in Kids |-> IF kid[k] = Nil THEN Nil
                                  ELSE [kid[k] EXCEPT !.old = TRUE, !.alone = FALSE]]
    BY DEF Dies
  <1>2. ASSUME NEW j \in Kids
        PROVE  /\ kid'[j] = Nil \/ kid'[j] \in KidRec
               /\ kid'[j] # Nil => /\ kid[j] # Nil /\ kid'[j].old /\ ~kid'[j].alone
                                   /\ kid'[j].st = kid[j].st /\ kid'[j].req = kid[j].req
    <2>1. CASE kid[j] = Nil
      BY <1>1, <2>1
    <2>2. CASE kid[j] # Nil
      <3>1. kid[j] \in KidRec
        BY <2>2 DEF IInv, Typed
      <3>2. kid'[j] = [kid[j] EXCEPT !.old = TRUE, !.alone = FALSE]
        BY <1>1, <2>2
      <3> QED
        BY <2>2, <3>1, <3>2 DEF KidRec
    <2> QED
      BY <2>1, <2>2
  <1>3. Typed'
    <2>1. kid' \in [Kids -> KidRec \cup {Nil}]
      BY <1>1, <1>2
    <2>2. queue' \in Seq(Reqs) /\ ctl' \in Seq(Reqs \cup {"IP"})
      BY <1>1, Emptied DEF IInv, Typed
    <2> QED
      BY <1>1, <2>1, <2>2 DEF Typed
  <1>4. \A j \in Kids : ~Alone(j)'
    BY <1>2 DEF Alone, Saving, Alive
  <1>5. \A j \in Alive' : /\ j \in Alive /\ kid'[j].old
                          /\ kid'[j].st = kid[j].st /\ kid'[j].req = kid[j].req
    BY <1>2 DEF Alive
  <1> QED
    BY <1>1, <1>3, <1>4, <1>5 DEF IInv

LEMMA HearInv == ASSUME IInv, Hear PROVE IInv'
  <1>1. CASE Dies
    BY <1>1, DiesInv
  <1>2. CASE /\ ctl # <<>> /\ ctl' = Tail(ctl)
             /\ white' = IF Head(ctl) = "IP" THEN white ELSE Head(ctl)
             /\ UNCHANGED <<worker, dev, kid, sess, page, file, synced>>
    <2>1. ctl \in Seq(Reqs \cup {"IP"})
      BY DEF IInv, Typed
    <2>2. ctl' \in Seq(Reqs \cup {"IP"})
      BY <1>2, <2>1, HeadTailProperties
    <2>3. \A x : Leads(ctl, white, x) => Leads(ctl', white', x)
      BY <1>2, <2>1, LeadsTail
    <2>4. Typed' /\ Alive' = Alive
      BY <1>2, <2>2 DEF IInv, Typed, page, Alive
    <2>5. \A j \in Kids : GoesOn(j)
      BY <1>2 DEF GoesOn, Saving, Alive
    <2>6. \A j \in Alive' :
              /\ kid'[j].st \in {"read", "tell", "open", "write"} => kid'[j].req \in Reqs
              /\ ~kid'[j].old => worker' = "run"
      BY <1>2, <2>4 DEF IInv
    <2> QED
      BY <1>2, <2>3, <2>4, <2>5, <2>6, Unnoticed
  <1> QED
    BY <1>1, <1>2 DEF Hear

LEMMA ForkInv == ASSUME IInv, NEW k \in Kids, Fork(k) PROVE IInv'
  <1> DEFINE e == [st |-> "select", req |-> Nil, dev |-> dev,
                   sess |-> sess = "open", old |-> FALSE, alone |-> FALSE]
  <1>1. kid' = [kid EXCEPT ![k] = e] /\ worker = "run" /\ UNCHANGED <<worker, dev, sess, page, lists>>
    BY DEF Fork
  <1>2. queue' \in Seq(Reqs)
    BY <1>1 DEF page, IInv, Typed
  <1>3. e.st = "select" /\ e.old = FALSE
    OBVIOUS
  <1>4. e \in KidRec
    BY DEF KidRec, States, IInv, Typed
  <1> HIDE DEF e
  <1> QED
    BY <1>1, <1>2, <1>3, <1>4, KidMoves DEF lists

\* The record of a child that goes on.
LEMMA GoesTo ==
    ASSUME IInv, NEW k \in Alive, NEW st \in States, Goes(k, st)
    PROVE  \E e \in KidRec : /\ kid' = [kid EXCEPT ![k] = e]
                             /\ e.st = st /\ e.req = kid[k].req
                             /\ e.old = kid[k].old /\ e.alone = kid[k].alone
  <1> DEFINE e == [kid[k] EXCEPT !.st = st]
  <1>1. k \in Kids /\ kid[k] \in KidRec
    BY KidIs
  <1>2. kid' = [kid EXCEPT ![k] = e]
    BY DEF Goes
  <1>3. /\ e \in KidRec /\ e.st = st /\ e.req = kid[k].req
        /\ e.old = kid[k].old /\ e.alone = kid[k].alone
    BY <1>1 DEF KidRec
  <1> HIDE DEF e
  <1> QED
    BY <1>2, <1>3

\* A child that goes on without saving.
LEMMA GoesInv ==
    ASSUME IInv, NEW k \in Alive, NEW st \in {"accept", "tell"}, Goes(k, st),
           st = "tell" => kid[k].st = "read",
           UNCHANGED <<worker, dev, white, file, synced>>,
           queue' \in Seq(Reqs), ctl' = ctl \/ ctl' = Append(ctl, "IP")
    PROVE  IInv'
  <1>1. k \in Kids
    BY DEF Alive
  <1>2. PICK e \in KidRec : /\ kid' = [kid EXCEPT ![k] = e]
                            /\ e.st = st /\ e.req = kid[k].req
                            /\ e.old = kid[k].old /\ e.alone = kid[k].alone
    BY GoesTo DEF States
  <1>3. e.st \in {"read", "tell"} => e.req \in Reqs
    BY <1>2 DEF IInv
  <1>4. ~e.old => worker = "run"
    BY <1>2 DEF IInv
  <1>5. e.st \in {"select", "accept", "read", "tell"}
    BY <1>2
  <1> QED
    BY <1>1, <1>2, <1>3, <1>4, <1>5, KidMoves

LEMMA SelectInv == ASSUME IInv, NEW k \in Kids, Select(k) PROVE IInv'
  <1>1. k \in Alive /\ UNCHANGED <<worker, dev, sess, lists>>
    BY DEF Select, At
  <1>2. CASE Leaves(k, Nil)
    BY <1>1, <1>2, KidLeaves DEF lists
  <1>3. CASE Goes(k, "accept") /\ UNCHANGED page
    <2>1. queue' \in Seq(Reqs)
      BY <1>3 DEF page, IInv, Typed
    <2> QED
      BY <1>1, <1>3, <2>1, GoesInv DEF lists
  <1> QED
    BY <1>2, <1>3 DEF Select

LEMMA AcceptInv == ASSUME IInv, NEW k \in Kids, Accept(k) PROVE IInv'
  <1> DEFINE e == [kid[k] EXCEPT !.st = "read", !.req = Head(queue)]
  <1>1. /\ k \in Alive /\ queue # <<>> /\ queue' = Tail(queue)
        /\ kid' = [kid EXCEPT ![k] = e] /\ UNCHANGED <<worker, dev, sess, asks, lists>>
    BY DEF Accept, At
  <1>2. queue \in Seq(Reqs) /\ kid[k] \in KidRec
    BY <1>1, KidIs DEF IInv, Typed
  <1>3. Head(queue) \in Reqs /\ queue' \in Seq(Reqs)
    BY <1>1, <1>2, HeadTailProperties
  <1>4. e \in KidRec /\ e.st = "read" /\ e.req \in Reqs /\ e.old = kid[k].old
    BY <1>2, <1>3 DEF KidRec, States
  <1> HIDE DEF e
  <1>5. ~e.old => worker = "run"
    BY <1>1, <1>4 DEF IInv
  <1> QED
    BY <1>1, <1>3, <1>4, <1>5, KidMoves DEF lists

LEMMA ServeInv == ASSUME IInv, NEW k \in Kids, Serve(k) PROVE IInv'
  <1>1. /\ k \in Alive /\ kid[k].st = "read" /\ UNCHANGED <<worker, dev, sess, white, file, synced>>
        /\ ctl' = ctl \/ ctl' = Append(ctl, "IP")
    BY DEF Serve, At, Sent
  <1>2. \/ Leaves(k, "answered") \/ Leaves(k, "reset")
        \/ Goes(k, "tell") /\ UNCHANGED page
    <2>1. CASE kid[k].dev
      BY <2>1 DEF Serve
    <2>2. CASE ~kid[k].dev
      BY <2>2 DEF Serve
    <2> QED
      BY <2>1, <2>2
  <1>3. CASE Leaves(k, "answered") \/ Leaves(k, "reset")
    BY <1>1, <1>3, KidLeaves
  <1>4. CASE Goes(k, "tell") /\ UNCHANGED page
    <2>1. queue' \in Seq(Reqs)
      BY <1>4 DEF page, IInv, Typed
    <2> QED
      BY <1>1, <1>4, <2>1, GoesInv
  <1> QED
    BY <1>2, <1>3, <1>4

\* The worker is told, and the others that save are not alone any more.
LEMMA TellInv == ASSUME IInv, NEW k \in Kids, Tell(k) PROVE IInv'
  <1> DEFINE others == {j \in Kids \ {k} : Saving(j)}
  <1>1. /\ k \in Alive /\ kid[k].st = "tell" /\ Sent(k, kid[k].req) /\ synced' = FALSE
        /\ UNCHANGED <<worker, dev, sess, page, white, file>>
    BY DEF Tell, At
  <1>2. kid' = [j \in Kids |->
                  IF j = k THEN [kid[k] EXCEPT !.st = "open",
                                               !.alone = others = {} /\ ~kid[k].old]
                  ELSE IF j \in others THEN [kid[j] EXCEPT !.alone = FALSE]
                  ELSE kid[j]]
    BY DEF Tell
  <1>3. kid[k] \in KidRec /\ kid[k].req \in Reqs /\ (~kid[k].old => worker = "run")
    BY <1>1, KidIs DEF IInv
  <1>4. /\ kid'[k] \in KidRec /\ kid'[k].st = "open" /\ kid'[k].req = kid[k].req
        /\ kid'[k].old = kid[k].old
        /\ kid'[k].alone <=> others = {} /\ ~kid[k].old
    <2> DEFINE b == others = {} /\ ~kid[k].old
    <2>1. b \in BOOLEAN
      OBVIOUS
    <2> HIDE DEF others
    <2>2. kid'[k] = [kid[k] EXCEPT !.st = "open", !.alone = b]
      BY <1>2
    <2> HIDE DEF b
    <2>3. /\ kid'[k] \in KidRec /\ kid'[k].st = "open" /\ kid'[k].req = kid[k].req
          /\ kid'[k].old = kid[k].old /\ kid'[k].alone = b
      BY <1>3, <2>1, <2>2 DEF KidRec, States
    <2> QED
      BY <2>3 DEF b
  <1>5. ASSUME NEW j \in Kids \ {k}
        PROVE  /\ kid'[j] \in KidRec \cup {Nil}
               /\ j \in Alive' => j \in Alive /\ /\ kid'[j].st = kid[j].st
                                                 /\ kid'[j].req = kid[j].req
                                                 /\ kid'[j].old = kid[j].old
               /\ Saving(j)' => j \in others /\ ~kid'[j].alone
    <2>1. CASE j \in others
      <3>1. kid'[j] = [kid[j] EXCEPT !.alone = FALSE]
        BY <1>2, <2>1
      <3>2. j \in Alive /\ kid[j] \in KidRec
        BY <2>1, KidIs DEF Saving
      <3>3. /\ kid'[j] \in KidRec /\ kid'[j].st = kid[j].st /\ kid'[j].req = kid[j].req
            /\ kid'[j].old = kid[j].old /\ kid'[j].alone = FALSE
        BY <3>1, <3>2 DEF KidRec
      <3> QED
        BY <2>1, <3>2, <3>3
    <2>2. CASE j \notin others
      <3>1. kid'[j] = kid[j]
        BY <1>2, <2>2
      <3>2. ~Saving(j)
        BY <2>2
      <3> QED
        BY <3>1, <3>2 DEF IInv, Typed, Alive, Saving
    <2> QED
      BY <2>1, <2>2
  <1>6. ctl \in Seq(Reqs \cup {"IP"}) /\ kid[k].req \in Reqs \cup {"IP"} /\ kid[k].req # "IP"
    BY <1>3, NamesAssumption DEF IInv, Typed
  <1>7. ctl' = ctl \/ ctl' = Append(ctl, kid[k].req)
    BY <1>1 DEF Sent
  <1>8. ctl' \in Seq(Reqs \cup {"IP"})
    BY <1>6, <1>7, AppendProperties
  <1>9. Typed'
    <2>1. kid' \in [Kids -> KidRec \cup {Nil}]
      <3>1. \A j \in Kids : kid'[j] \in KidRec \cup {Nil}
        BY <1>4, <1>5
      <3> QED
        BY <1>2, <3>1
    <2>2. queue' \in Seq(Reqs)
      BY <1>1 DEF page, IInv, Typed
    <2> QED
      BY <1>1, <1>8, <2>1, <2>2 DEF IInv, Typed
  <1>10. ~kid[k].old => Leads(ctl', white', kid[k].req)
    BY <1>1, <1>6, LeadsNew DEF Sent
  <1>11. ASSUME NEW j \in Kids, Alone(j)'
         PROVE  /\ ~kid'[j].old
                /\ \A i \in Kids : Saving(i)' => i = j
                /\ Leads(ctl', white', kid'[j].req)
                /\ kid'[j].st = "write" => file' = "empty"
    <2>1. j = k
      BY <1>5, <1>11 DEF Alone
    <2>2. others = {} /\ ~kid[k].old
      BY <1>4, <1>11, <2>1 DEF Alone
    <2>3. \A i \in Kids : Saving(i)' => i = j
      BY <1>5, <2>1, <2>2
    <2> QED
      BY <1>4, <1>10, <2>1, <2>2, <2>3
  <1>12. ASSUME NEW j \in Alive'
         PROVE  /\ kid'[j].st \in {"read", "tell", "open", "write"} => kid'[j].req \in Reqs
                /\ ~kid'[j].old => worker' = "run"
    <2>1. j \in Kids
      BY <1>12 DEF Alive
    <2>2. CASE j = k
      BY <1>1, <1>3, <1>4, <2>2
    <2>3. CASE j # k
      <3>1. j \in Alive /\ kid'[j].st = kid[j].st /\ kid'[j].req = kid[j].req
            /\ kid'[j].old = kid[j].old
        BY <1>5, <1>12, <2>1, <2>3
      <3> QED
        BY <1>1, <3>1 DEF IInv
    <2> QED
      BY <2>2, <2>3
  <1> QED
    BY <1>1, <1>9, <1>11, <1>12 DEF IInv

LEMMA OpenFileInv == ASSUME IInv, NEW k \in Kids, OpenFile(k) PROVE IInv'
  <1>1. /\ k \in Alive /\ kid[k].st = "open" /\ Saving(k)
        /\ UNCHANGED <<worker, dev, sess, ctl, white, synced>>
    BY DEF OpenFile, At, Saving
  <1>2. CASE Leaves(k, "answered") /\ file' = file
    BY <1>1, <1>2, KidLeaves
  <1>3. CASE file' = "empty" /\ Goes(k, "write") /\ UNCHANGED page
    <2>1. PICK e \in KidRec : /\ kid' = [kid EXCEPT ![k] = e]
                              /\ e.st = "write" /\ e.req = kid[k].req
                              /\ e.old = kid[k].old /\ e.alone = kid[k].alone
      BY <1>1, <1>3, GoesTo DEF States
    <2>2. kid'[k] = e /\ \A j \in Kids \ {k} : kid'[j] = kid[j]
      BY <2>1 DEF IInv, Typed
    <2>3. Typed'
      <3>1. kid' \in [Kids -> KidRec \cup {Nil}] /\ queue' \in Seq(Reqs)
        BY <1>3, <2>1 DEF IInv, Typed, page
      <3> QED
        BY <1>1, <3>1 DEF IInv, Typed
    <2>4. \A j \in Kids \ {k} : (Saving(j)' <=> Saving(j)) /\ (j \in Alive' <=> j \in Alive)
      BY <2>2 DEF Saving, Alive
    <2>5. ASSUME NEW j \in Kids, Alone(j)'
          PROVE  j = k /\ Alone(k)
      <3>1. CASE j = k
        BY <1>1, <2>1, <2>2, <2>5, <3>1 DEF Alone
      <3>2. CASE j # k
        <4>1. Alone(j)
          BY <2>2, <2>4, <2>5, <3>2 DEF Alone
        <4> QED
          BY <1>1, <3>2, <4>1 DEF IInv
      <3> QED
        BY <3>1, <3>2
    <2>6. ASSUME NEW j \in Kids, Alone(j)'
          PROVE  /\ ~kid'[j].old
                 /\ \A i \in Kids : Saving(i)' => i = j
                 /\ Leads(ctl', white', kid'[j].req)
                 /\ kid'[j].st = "write" => file' = "empty"
      <3>1. j = k /\ Alone(k)
        BY <2>5, <2>6
      <3>2. /\ ~kid[k].old /\ \A i \in Kids : Saving(i) => i = k
            /\ Leads(ctl, white, kid[k].req)
        BY <3>1 DEF IInv
      <3> QED
        BY <1>1, <1>3, <2>1, <2>2, <2>4, <3>1, <3>2
    <2>7. ~synced'
      BY <1>1 DEF IInv
    <2>8. ASSUME NEW j \in Alive'
          PROVE  /\ kid'[j].st \in {"read", "tell", "open", "write"} => kid'[j].req \in Reqs
                 /\ ~kid'[j].old => worker' = "run"
      <3>1. j \in Kids
        BY <2>8 DEF Alive
      <3>2. CASE j = k
        BY <1>1, <2>1, <2>2, <3>2 DEF IInv
      <3>3. CASE j # k
        BY <1>1, <2>2, <2>4, <2>8, <3>1, <3>3 DEF IInv
      <3> QED
        BY <3>2, <3>3
    <2> QED
      BY <2>3, <2>6, <2>7, <2>8 DEF IInv
  <1> QED
    BY <1>2, <1>3 DEF OpenFile

\* The file is whole again if it was written by one child alone.
LEMMA WriteFileInv == ASSUME IInv, NEW k \in Kids, WriteFile(k) PROVE IInv'
  <1>1. /\ k \in Alive /\ kid[k].st = "write" /\ Saving(k) /\ Leaves(k, "answered")
        /\ file' \in {kid[k].req} \cup (IF file = "empty" THEN {} ELSE {"mixed"})
        /\ synced' = kid[k].alone /\ UNCHANGED <<worker, dev, sess, ctl, white>>
    BY DEF WriteFile, At, Saving
  <1>2. kid[k] \in KidRec
    BY <1>1, KidIs
  <1>3. kid' = [kid EXCEPT ![k] = Nil] /\ (queue' = queue \/ queue' = <<>>)
    BY <1>1 DEF Leaves
  <1>4. kid'[k] = Nil /\ \A j \in Kids \ {k} : kid'[j] = kid[j]
    BY <1>3 DEF IInv, Typed
  <1>5. Typed'
    <2>1. kid' \in [Kids -> KidRec \cup {Nil}]
      BY <1>3 DEF IInv, Typed
    <2>2. queue' \in Seq(Reqs)
      BY <1>3, Emptied DEF IInv, Typed
    <2>3. synced' \in BOOLEAN
      BY <1>1, <1>2 DEF KidRec
    <2> QED
      BY <1>1, <2>1, <2>2, <2>3 DEF IInv, Typed
  <1>6. \A j \in Kids : j \in Alive' => j # k /\ j \in Alive /\ kid'[j] = kid[j]
    BY <1>4 DEF Alive
  <1>7. \A j \in Kids : Saving(j)' => j # k /\ Saving(j) /\ kid'[j] = kid[j]
    BY <1>6 DEF Saving
  <1>8. \A j \in Kids : ~Alone(j)'
    <2> SUFFICES ASSUME NEW j \in Kids, Alone(j)'
                 PROVE  FALSE
      OBVIOUS
    <2>1. j # k /\ Alone(j)
      BY <1>7 DEF Alone
    <2> QED
      BY <1>1, <2>1 DEF IInv
  <1>9. ASSUME synced'
        PROVE  (\A j \in Kids : ~Saving(j)') /\ Leads(ctl', white', file')
    <2>1. Alone(k)
      BY <1>1, <1>9 DEF Alone
    <2>2. /\ \A j \in Kids : Saving(j) => j = k
          /\ Leads(ctl, white, kid[k].req) /\ file = "empty"
      BY <1>1, <2>1 DEF IInv
    <2>3. file' = kid[k].req
      BY <1>1, <2>2
    <2> QED
      BY <1>1, <1>7, <2>2, <2>3
  <1>10. ASSUME NEW j \in Alive'
         PROVE  /\ kid'[j].st \in {"read", "tell", "open", "write"} => kid'[j].req \in Reqs
                /\ ~kid'[j].old => worker' = "run"
    <2>1. j \in Kids
      BY <1>10 DEF Alive
    <2>2. j \in Alive /\ kid'[j] = kid[j]
      BY <1>6, <1>10, <2>1
    <2> QED
      BY <1>1, <2>2 DEF IInv
  <1> QED
    BY <1>5, <1>8, <1>9, <1>10 DEF IInv

\* Every step keeps the invariant.
LEMMA NextInv == IInv /\ [Next]_vars => IInv'
  <1> SUFFICES ASSUME IInv, [Next]_vars
               PROVE  IInv'
    OBVIOUS
  <1>1. CASE Start
    BY <1>1, StartInv
  <1>2. CASE WorkerDies
    BY <1>2, DiesInv DEF WorkerDies
  <1>3. CASE Hear
    BY <1>3, HearInv
  <1>4. CASE SessionOpens \/ SessionEnds \/ UNCHANGED vars
    <2>1. UNCHANGED <<worker, dev, kid, ctl, white, file, synced, queue>>
      BY <1>4 DEF SessionOpens, SessionEnds, vars, page, lists
    <2>2. queue' \in Seq(Reqs)
      BY <2>1 DEF IInv, Typed
    <2> QED
      BY <2>1, <2>2, KidsKept
  <1>5. ASSUME NEW r \in Reqs, Connects(r)
        PROVE  IInv'
    <2>1. UNCHANGED <<worker, dev, kid, ctl, white, file, synced>> /\ queue' = Append(queue, r)
      BY <1>5 DEF Connects, lists
    <2>2. queue' \in Seq(Reqs)
      BY <2>1, AppendProperties DEF IInv, Typed
    <2> QED
      BY <2>1, <2>2, KidsKept
  <1>6. ASSUME NEW k \in Kids, Fork(k) \/ Child(k)
        PROVE  IInv'
    BY <1>6, ForkInv, SelectInv, AcceptInv, ServeInv, TellInv, OpenFileInv, WriteFileInv DEF Child
  <1> QED
    BY <1>1, <1>2, <1>3, <1>4, <1>5, <1>6 DEF Next

-----------------------------------------------------------------------------
(* What is proved of the web page.                                         *)

\* In every reachable state, the list that a child saves alone is the last one
\* on its way to the worker.
THEOREM Invariance == Init /\ [][Next]_vars => []IInv
  <1> QED
    BY InitInv, NextInv, PTL

\* The worker obeys the white list in the file, whatever other children save,
\* fail to open the file or outlive their worker, as long as the last save was
\* whole and alone and the worker was not started again since.
THEOREM Obeyed == FairSpec => []SavedIsObeyed
  <1>1. IInv => SavedIsObeyed
    <2> SUFFICES ASSUME IInv, synced, worker = "run", ctl = <<>>
                 PROVE  white = file
      BY DEF SavedIsObeyed
    <2>1. Leads(<<>>, white, file)
      BY DEF IInv
    <2> QED
      BY <2>1, LeadsNone
  <1>2. FairSpec => Init /\ [][Next]_vars
    BY PTL DEF FairSpec
  <1> QED
    BY <1>1, <1>2, Invariance, PTL

-----------------------------------------------------------------------------
(* Induction and recursion on numbers.                                     *)

\* A set of natural numbers that is not empty has a lowest one.
LEMMA Lowest ==
    ASSUME NEW S, S \subseteq Nat, S # {}
    PROVE  \E f \in S : \A g \in S : f <= g
  <1>1. PICK m \in S : TRUE
    OBVIOUS
  <1> DEFINE T == {0 .. f : f \in {g \in S : g <= m}}
             R == StrictSubsetOrdering(0 .. m)
  <1>2. FiniteSubsetsOf(0 .. m) = SUBSET (0 .. m)
    <2>1. IsFiniteSet(0 .. m)
      BY <1>1, FS_Interval
    <2> QED
      BY <2>1, FS_FiniteSubsetsOfFinite
  <1>3. IsWellFoundedOn(R, SUBSET (0 .. m))
    BY <1>2, FS_StrictSubsetOrderingWellFounded
  <1>4. T \subseteq SUBSET (0 .. m) /\ T # {}
    BY <1>1
  <1>5. PICK I \in T : \A J \in T : ~(<<J, I>> \in R)
    <2> HIDE DEF T, R
    <2> QED
      BY <1>3, <1>4, WFMin, Zenon
  <1>6. PICK f \in S : f <= m /\ I = 0 .. f
    BY <1>5
  <1>7. ASSUME NEW g \in S, g < f
        PROVE  FALSE
    <2>1. g <= m /\ (0 .. g) \in T
      BY <1>1, <1>6, <1>7
    <2>2. f \in 0 .. f /\ f \notin 0 .. g
      BY <1>7
    <2>3. (0 .. g) \subseteq (0 .. f) /\ (0 .. g) # (0 .. f)
      BY <2>2, <1>7
    <2>4. <<0 .. g, 0 .. f>> \in R
      BY <2>1, <2>3, <1>4, <1>6 DEF StrictSubsetOrdering
    <2> QED
      BY <1>5, <1>6, <2>1, <2>4
  <1>8. f \in Nat /\ \A g \in S : g \in Nat /\ ~(g < f)
    BY <1>6, <1>7
  <1>9. \A g \in S : f <= g
    BY <1>8
  <1> QED
    BY <1>6, <1>9

LEMMA Induction ==
    ASSUME NEW S, 0 \in S, \A n \in Nat : n \in S => n + 1 \in S
    PROVE  Nat \subseteq S
  <1> SUFFICES ASSUME ~(Nat \subseteq S)
               PROVE  FALSE
    OBVIOUS
  <1>1. PICK f \in Nat \ S : \A g \in Nat \ S : f <= g
    <2>1. Nat \ S \subseteq Nat /\ Nat \ S # {}
      OBVIOUS
    <2> QED
      BY <2>1, Lowest
  <1>2. f - 1 \in Nat /\ f - 1 \notin Nat \ S
    BY <1>1
  <1>3. (f - 1) + 1 \in S
    BY <1>2
  <1> QED
    BY <1>1, <1>3

Steps(g, n, T) == \A i \in 1 .. n : \A x \in T : g[i][x] \in T

\* The function f on 0 .. n begins with b and goes on with the steps g.
Runs(f, n, T, b, g) ==
    f \in [0 .. n -> T] /\ f[0] = b /\ \A i \in 1 .. n : f[i] = g[i][f[i - 1]]

LEMMA Recursion ==
    ASSUME NEW n \in Nat, NEW T, NEW b \in T, NEW g, Steps(g, n, T)
    PROVE  \E f : Runs(f, n, T, b, g)
  <1> DEFINE Ran(f, m) == f[0] = b /\ \A i \in 1 .. m : f[i] = g[i][f[i - 1]]
             S == {m \in Nat : m <= n => \E f \in [0 .. m -> T] : Ran(f, m)}
  <1>1. 0 \in S
    <2> DEFINE f == [i \in 0 .. 0 |-> b]
    <2>1. f \in [0 .. 0 -> T] /\ Ran(f, 0)
      OBVIOUS
    <2> QED
      BY <2>1
  <1>2. ASSUME NEW m \in Nat, m \in S
        PROVE  m + 1 \in S
    <2> SUFFICES ASSUME m + 1 <= n
                 PROVE  \E f \in [0 .. m + 1 -> T] : Ran(f, m + 1)
      OBVIOUS
    <2>1. PICK h \in [0 .. m -> T] : Ran(h, m)
      BY <1>2
    <2> DEFINE f == [i \in 0 .. m + 1 |-> IF i <= m THEN h[i] ELSE g[m + 1][h[m]]]
    <2>2. g[m + 1][h[m]] \in T
      <3>1. m + 1 \in 1 .. n /\ h[m] \in T
        OBVIOUS
      <3> QED
        BY <3>1 DEF Steps
    <2>3. f \in [0 .. m + 1 -> T]
      BY <2>2
    <2>4. f[0] = b
      BY <2>1
    <2>5. \A i \in 0 .. m : f[i] = h[i]
      OBVIOUS
    <2>6. f[m + 1] = g[m + 1][f[m]]
      <3>1. f[m + 1] = g[m + 1][h[m]]
        OBVIOUS
      <3> QED
        BY <2>5, <3>1
    <2> HIDE DEF f
    <2>7. ASSUME NEW i \in 1 .. m + 1
          PROVE  f[i] = g[i][f[i - 1]]
      <3>1. CASE i = m + 1
        BY <2>6, <3>1
      <3>2. CASE i # m + 1
        <4>1. i \in 1 .. m /\ i - 1 \in 0 .. m /\ i \in 0 .. m
          BY <3>2
        <4> QED
          BY <2>1, <2>5, <4>1
      <3> QED
        BY <3>1, <3>2
    <2> QED
      BY <2>3, <2>4, <2>7
  <1>3. n \in S
    <2> HIDE DEF S
    <2> QED
      BY <1>1, <1>2, Induction
  <1> QED
    BY <1>3 DEF Runs

-----------------------------------------------------------------------------
(* Folds.                                                                  *)

LEMMA MaxIs ==
    ASSUME NEW m \in Nat, NEW s \in SUBSET (1 .. m), s # {}
    PROVE  Max(s) \in s /\ \A x \in s : x <= Max(s)
  <1> DEFINE S == {m - x : x \in s}
  <1>1. S \subseteq Nat /\ S # {}
    <2>1. \A x \in s : x \in 1 .. m /\ m - x \in Nat
      OBVIOUS
    <2> QED
      BY <2>1
  <1>2. PICK d \in S : \A e \in S : d <= e
    BY <1>1, Lowest
  <1>3. PICK x \in s : d = m - x
    BY <1>2
  <1>4. \A y \in s : y <= x
    <2> TAKE y \in s
    <2>1. m - x <= m - y
      BY <1>2, <1>3
    <2>2. x \in 1 .. m /\ y \in 1 .. m
      OBVIOUS
    <2> QED
      BY <2>1, <2>2
  <1> QED
    BY <1>4 DEF Max

\* The function by which a fold is defined goes through a set from its maximum.
Folded(f, n, b, g) ==
    f = [s \in SUBSET (1 .. n) |-> IF s = {} THEN b ELSE g[Max(s)][f[s \ {Max(s)}]]]

Climbs(f, m, b, g) ==
    f[{}] = b /\ \A s \in SUBSET (1 .. m) : s # {} => f[s] = g[Max(s)][f[s \ {Max(s)}]]

LEMMA FoldExists ==
    ASSUME NEW n \in Nat, NEW T, NEW b \in T, NEW g, Steps(g, n, T)
    PROVE  \E f \in [SUBSET (1 .. n) -> T] : Folded(f, n, b, g)
  <1> DEFINE Can(m) == \E f \in [SUBSET (1 .. m) -> T] : Climbs(f, m, b, g)
             S == {m \in Nat : m <= n => Can(m)}
  <1>1. 0 \in S
    <2> DEFINE f == [s \in SUBSET (1 .. 0) |-> b]
    <2>1. \A s \in SUBSET (1 .. 0) : s = {}
      OBVIOUS
    <2>2. f \in [SUBSET (1 .. 0) -> T] /\ f[{}] = b
      OBVIOUS
    <2>3. Climbs(f, 0, b, g)
      BY <2>1, <2>2 DEF Climbs
    <2>4. Can(0)
      BY <2>2, <2>3
    <2> HIDE DEF Can
    <2> QED
      BY <2>4
  <1>2. ASSUME NEW m \in Nat, m \in S
        PROVE  m + 1 \in S
    <2> SUFFICES ASSUME m + 1 <= n
                 PROVE  Can(m + 1)
      <3> HIDE DEF Can
      <3> QED
        OBVIOUS
    <2>1. Can(m)
      <3> HIDE DEF Can
      <3> QED
        BY <1>2
    <2>2. PICK h \in [SUBSET (1 .. m) -> T] : Climbs(h, m, b, g)
      BY <2>1
    <2>3. /\ h \in [SUBSET (1 .. m) -> T] /\ h[{}] = b
          /\ \A s \in SUBSET (1 .. m) : s # {} => h[s] = g[Max(s)][h[s \ {Max(s)}]]
      BY <2>2 DEF Climbs
    <2> DEFINE f == [s \in SUBSET (1 .. m + 1) |->
                         IF m + 1 \in s THEN g[m + 1][h[s \ {m + 1}]] ELSE h[s]]
    <2>4. \A s \in SUBSET (1 .. m + 1) : s \ {m + 1} \in SUBSET (1 .. m)
                                         /\ (m + 1 \notin s => s \in SUBSET (1 .. m))
      BY 1 .. m + 1 = (1 .. m) \cup {m + 1}
    <2>5. \A x \in T : g[m + 1][x] \in T
      <3>1. m + 1 \in 1 .. n
        OBVIOUS
      <3> QED
        BY <3>1 DEF Steps
    <2>6. f \in [SUBSET (1 .. m + 1) -> T]
      BY <2>3, <2>4, <2>5
    <2>7. \A s \in SUBSET (1 .. m) : s \in SUBSET (1 .. m + 1) /\ m + 1 \notin s /\ f[s] = h[s]
      <3>1. (1 .. m) \subseteq (1 .. m + 1) /\ m + 1 \notin 1 .. m
        OBVIOUS
      <3> QED
        BY <3>1
    <2>8. \A s \in SUBSET (1 .. m + 1) : m + 1 \in s => f[s] = g[m + 1][h[s \ {m + 1}]]
      OBVIOUS
    <2> HIDE DEF f
    <2>9. f[{}] = b
      BY <2>3, <2>7
    <2>10. ASSUME NEW s \in SUBSET (1 .. m + 1), s # {}
          PROVE  f[s] = g[Max(s)][f[s \ {Max(s)}]]
      <3>1. CASE m + 1 \in s
        <4>1. Max(s) = m + 1
          <5>1. m + 1 \in Nat
            OBVIOUS
          <5>2. Max(s) \in s /\ \A x \in s : x <= Max(s)
            BY <2>10, <5>1, MaxIs
          <5>3. Max(s) \in 1 .. m + 1 /\ m + 1 <= Max(s)
            BY <3>1, <5>2
          <5> QED
            BY <5>3
        <4>2. f[s \ {m + 1}] = h[s \ {m + 1}]
          BY <2>4, <2>7
        <4> QED
          BY <2>8, <3>1, <4>1, <4>2
      <3>2. CASE m + 1 \notin s
        <4>1. s \in SUBSET (1 .. m) /\ s \ {Max(s)} \in SUBSET (1 .. m)
          BY <2>4, <3>2
        <4> QED
          BY <2>3, <2>7, <2>10, <4>1
      <3> QED
        BY <3>1, <3>2
    <2>11. Climbs(f, m + 1, b, g)
      BY <2>9, <2>10 DEF Climbs
    <2> QED
      BY <2>6, <2>11
  <1>3. n \in S
    <2> HIDE DEF S
    <2> QED
      BY <1>1, <1>2, Induction
  <1>4. Can(n)
    <2> HIDE DEF Can
    <2> QED
      BY <1>3
  <1>5. PICK f \in [SUBSET (1 .. n) -> T] : Climbs(f, n, b, g)
    BY <1>4
  <1>6. \A s \in SUBSET (1 .. n) : f[s] = IF s = {} THEN b ELSE g[Max(s)][f[s \ {Max(s)}]]
    BY <1>5 DEF Climbs
  <1>7. f = [s \in SUBSET (1 .. n) |-> f[s]]
    BY <1>5
  <1> QED
    BY <1>6, <1>7 DEF Folded

-----------------------------------------------------------------------------
(* Texts.                                                                  *)

\* s stands in a text behind its first o tokens.
Laid(text, o, s) ==
    o \in Nat /\ o + Len(s) <= Len(text) /\ \A i \in 1 .. Len(s) : text[o + i] = s[i]

\* u is s and then t.
Glued(u, T, s, t) ==
    /\ u \in Seq(T) /\ Len(u) = Len(s) + Len(t)
    /\ \A i \in 1 .. Len(s) : u[i] = s[i]
    /\ \A i \in 1 .. Len(t) : u[Len(s) + i] = t[i]

LEMMA ConcatIs ==
    ASSUME NEW T, NEW s \in Seq(T), NEW t \in Seq(T)
    PROVE  Glued(s \o t, T, s, t)
  <1>1. s \o t \in Seq(T) /\ Len(s \o t) = Len(s) + Len(t)
    OBVIOUS
  <1>2. Len(s) \in Nat /\ Len(t) \in Nat
    OBVIOUS
  <1>3. \A i \in 1 .. Len(s) + Len(t) : (s \o t)[i] = IF i <= Len(s) THEN s[i] ELSE t[i - Len(s)]
    BY ConcatProperties
  <1>4. \A i \in 1 .. Len(s) : (s \o t)[i] = s[i]
    <2> TAKE i \in 1 .. Len(s)
    <2>1. i \in 1 .. Len(s) + Len(t) /\ i <= Len(s)
      BY <1>2
    <2> QED
      BY <1>3, <2>1
  <1>5. \A i \in 1 .. Len(t) : (s \o t)[Len(s) + i] = t[i]
    <2> TAKE i \in 1 .. Len(t)
    <2>1. Len(s) + i \in 1 .. Len(s) + Len(t) /\ ~(Len(s) + i <= Len(s)) /\ Len(s) + i - Len(s) = i
      BY <1>2
    <2> QED
      BY <1>3, <2>1
  <1> QED
    BY <1>1, <1>4, <1>5 DEF Glued

LEMMA LaidParts ==
    ASSUME NEW T, NEW text \in Seq(T), NEW s \in Seq(T), NEW t \in Seq(T), NEW o
    PROVE  Laid(text, o, s \o t) <=> Laid(text, o, s) /\ Laid(text, o + Len(s), t)
  <1> DEFINE u == s \o t
  <1>1. /\ Len(u) = Len(s) + Len(t) /\ Len(s) \in Nat /\ Len(t) \in Nat /\ Len(text) \in Nat
        /\ \A i \in 1 .. Len(s) : u[i] = s[i]
        /\ \A i \in 1 .. Len(t) : u[Len(s) + i] = t[i]
    BY ConcatIs DEF Glued
  <1> HIDE DEF u
  <1>2. ASSUME Laid(text, o, u)
        PROVE  Laid(text, o, s) /\ Laid(text, o + Len(s), t)
    <2>1. o \in Nat /\ o + (Len(s) + Len(t)) <= Len(text)
      BY <1>1, <1>2 DEF Laid
    <2>2. \A i \in 1 .. Len(s) : i \in 1 .. Len(u)
      BY <1>1
    <2>3. \A i \in 1 .. Len(t) : Len(s) + i \in 1 .. Len(u) /\ o + (Len(s) + i) = (o + Len(s)) + i
      BY <1>1, <2>1
    <2>4. \A i \in 1 .. Len(s) : text[o + i] = s[i]
      BY <1>1, <1>2, <2>2 DEF Laid
    <2>5. \A i \in 1 .. Len(t) : text[(o + Len(s)) + i] = t[i]
      BY <1>1, <1>2, <2>3 DEF Laid
    <2>6. o + Len(s) <= Len(text) /\ (o + Len(s)) + Len(t) <= Len(text) /\ o + Len(s) \in Nat
      BY <1>1, <2>1
    <2> QED
      BY <2>1, <2>4, <2>5, <2>6 DEF Laid
  <1>3. ASSUME Laid(text, o, s), Laid(text, o + Len(s), t)
        PROVE  Laid(text, o, u)
    <2>1. o \in Nat /\ o + Len(u) <= Len(text)
      BY <1>1, <1>3 DEF Laid
    <2>2. ASSUME NEW i \in 1 .. Len(u)
          PROVE  text[o + i] = u[i]
      <3>1. CASE i <= Len(s)
        <4>1. i \in 1 .. Len(s)
          BY <1>1, <3>1
        <4> QED
          BY <1>1, <1>3, <4>1 DEF Laid
      <3>2. CASE ~(i <= Len(s))
        <4>1. i - Len(s) \in 1 .. Len(t) /\ Len(s) + (i - Len(s)) = i
              /\ (o + Len(s)) + (i - Len(s)) = o + i
          BY <1>1, <2>1, <3>2
        <4>2. u[i] = t[i - Len(s)]
          BY <1>1, <4>1
        <4>3. text[o + i] = t[i - Len(s)]
          BY <1>3, <4>1 DEF Laid
        <4> QED
          BY <4>2, <4>3
      <3> QED
        BY <3>1, <3>2
    <2> QED
      BY <2>1, <2>2 DEF Laid
  <1> QED
    BY <1>2, <1>3 DEF u

LEMMA LaidWhole ==
    ASSUME NEW T, NEW text \in Seq(T)
    PROVE  Laid(text, 0, text)
  <1>1. Len(text) \in Nat /\ \A i \in 1 .. Len(text) : 0 + i = i
    OBVIOUS
  <1> QED
    BY <1>1 DEF Laid

\* Where each of the texts ss begins that are put one behind the other.
Starts(at, ss) ==
    /\ at \in [1 .. Len(ss) + 1 -> Nat] /\ at[1] = 0
    /\ \A j \in 1 .. Len(ss) : at[j + 1] = at[j] + Len(ss[j])

LEMMA StartsIs ==
    ASSUME NEW T, NEW ss \in Seq(Seq(T))
    PROVE  \E at : Starts(at, ss)
  <1> DEFINE n == Len(ss)
             g == [i \in 1 .. n |-> [x \in Nat |-> x + Len(ss[i])]]
  <1>1. n \in Nat /\ \A i \in 1 .. n : Len(ss[i]) \in Nat
    OBVIOUS
  <1>2. \A i \in 1 .. n : \A x \in Nat : g[i][x] = x + Len(ss[i]) /\ x + Len(ss[i]) \in Nat
    BY <1>1
  <1> HIDE DEF g
  <1>3. PICK f : Runs(f, n, Nat, 0, g)
    <2>1. Steps(g, n, Nat) /\ 0 \in Nat
      BY <1>2 DEF Steps
    <2> QED
      BY <1>1, <2>1, Recursion
  <1> DEFINE at == [j \in 1 .. n + 1 |-> f[j - 1]]
  <1>4. f \in [0 .. n -> Nat] /\ f[0] = 0 /\ \A i \in 1 .. n : f[i] = f[i - 1] + Len(ss[i])
    <2>1. f \in [0 .. n -> Nat] /\ f[0] = 0 /\ \A i \in 1 .. n : f[i] = g[i][f[i - 1]]
      BY <1>3 DEF Runs
    <2>2. \A i \in 1 .. n : i - 1 \in 0 .. n
      BY <1>1
    <2> QED
      BY <1>2, <2>1, <2>2
  <1>5. \A j \in 1 .. n + 1 : j - 1 \in 0 .. n
    BY <1>1
  <1>6. at \in [1 .. n + 1 -> Nat] /\ at[1] = 0
    BY <1>1, <1>4, <1>5
  <1>7. \A j \in 1 .. n : at[j + 1] = at[j] + Len(ss[j])
    <2> TAKE j \in 1 .. n
    <2>1. j \in 1 .. n + 1 /\ j + 1 \in 1 .. n + 1 /\ (j + 1) - 1 = j
      BY <1>1
    <2> QED
      BY <1>4, <2>1
  <1>8. Starts(at, ss)
    BY <1>6, <1>7 DEF Starts
  <1> QED
    BY <1>8

LEMMA Flattened ==
    ASSUME NEW T, NEW ss \in Seq(Seq(T)), NEW at, Starts(at, ss)
    PROVE  /\ FlattenSeq(ss) \in Seq(T) /\ Len(FlattenSeq(ss)) = at[Len(ss) + 1]
           /\ \A j \in 1 .. Len(ss) : Laid(FlattenSeq(ss), at[j], ss[j])
  <1> DEFINE n == Len(ss)
             Eq(f) == f = [i \in 1 .. n |-> IF i = 1 THEN ss[i] ELSE f[i - 1] \o ss[i]]
             flatten == CHOOSE f : Eq(f)
             g == [i \in 1 .. n |-> [x \in Seq(T) |-> x \o ss[i]]]
  <1>1. n \in Nat /\ \A i \in 1 .. n : ss[i] \in Seq(T) /\ Len(ss[i]) \in Nat
    OBVIOUS
  <1>2. /\ at \in [1 .. n + 1 -> Nat] /\ at[1] = 0
        /\ \A j \in 1 .. n : at[j + 1] = at[j] + Len(ss[j])
    BY DEF Starts
  <1>3. CASE n = 0
    <2>1. FlattenSeq(ss) = ss /\ ss = <<>>
      BY <1>3 DEF FlattenSeq
    <2>2. <<>> \in Seq(T) /\ Len(ss) = 0 /\ at[Len(ss) + 1] = 0
      BY <1>2, <1>3
    <2> QED
      BY <2>1, <2>2
  <1>4. CASE n # 0
    <2>1. \A i \in 1 .. n : \A x \in Seq(T) : g[i][x] = x \o ss[i] /\ x \o ss[i] \in Seq(T)
      BY <1>1
    <2> HIDE DEF g
    <2>2. PICK f : Runs(f, n, Seq(T), <<>>, g)
      <3>1. Steps(g, n, Seq(T))
        BY <2>1 DEF Steps
      <3>2. <<>> \in Seq(T)
        OBVIOUS
      <3> QED
        BY <1>1, <3>1, <3>2, Recursion
    <2>3. f \in [0 .. n -> Seq(T)] /\ f[0] = <<>> /\ \A i \in 1 .. n : f[i] = f[i - 1] \o ss[i]
      <3>1. f \in [0 .. n -> Seq(T)] /\ f[0] = <<>> /\ \A i \in 1 .. n : f[i] = g[i][f[i - 1]]
        BY <2>2 DEF Runs
      <3>2. \A i \in 1 .. n : i - 1 \in 0 .. n
        BY <1>1
      <3> QED
        BY <2>1, <3>1, <3>2
    <2> DEFINE h == [i \in 1 .. n |-> f[i]]
    <2>4. Eq(h)
      <3>1. ASSUME NEW i \in 1 .. n
            PROVE  h[i] = IF i = 1 THEN ss[i] ELSE h[i - 1] \o ss[i]
        <4>1. CASE i = 1
          <5>1. h[1] = <<>> \o ss[1]
            <6>1. h[1] = f[1] /\ 1 - 1 = 0 /\ 1 \in 1 .. n
              BY <1>1, <4>1
            <6>2. f[1] = f[1 - 1] \o ss[1]
              BY <2>3, <6>1
            <6> QED
              BY <2>3, <6>1, <6>2
          <5>2. ss[1] \in Seq(T)
            BY <1>1, <4>1
          <5> QED
            BY <4>1, <5>1, <5>2, ConcatEmptySeq
        <4>2. CASE i # 1
          <5>1. i - 1 \in 1 .. n
            BY <1>1, <4>2
          <5> QED
            BY <2>3, <4>2, <5>1
        <4> QED
          BY <4>1, <4>2
      <3> QED
        BY <3>1
    <2>5. Eq(flatten)
      <3> HIDE DEF Eq, h
      <3> QED
        BY <2>4
    <2>6. FlattenSeq(ss) = flatten[n]
      BY <1>4 DEF FlattenSeq
    <2> HIDE DEF flatten
    <2>7. \A i \in 1 .. n : flatten[i] = IF i = 1 THEN ss[i] ELSE flatten[i - 1] \o ss[i]
      BY <2>5
    <2> DEFINE Good(k) == /\ flatten[k] \in Seq(T) /\ Len(flatten[k]) = at[k + 1]
                          /\ \A j \in 1 .. k : Laid(flatten[k], at[j], ss[j])
               S == {k \in Nat : k + 1 <= n => Good(k + 1)}
    <2> HIDE DEF Eq
    <2>8. 0 \in S
      <3>1. 1 \in 1 .. n /\ flatten[1] = ss[1] /\ at[1 + 1] = Len(ss[1])
        BY <1>1, <1>2, <1>4, <2>7
      <3>2. flatten[1] \in Seq(T) /\ Len(flatten[1]) = at[1 + 1]
        BY <1>1, <3>1
      <3>3. Laid(flatten[1], at[1], ss[1])
        BY <1>1, <1>2, <3>1, LaidWhole
      <3>4. \A j \in 1 .. 1 : j = 1
        OBVIOUS
      <3> QED
        BY <3>2, <3>3, <3>4
    <2>9. ASSUME NEW k \in Nat, k \in S
          PROVE  k + 1 \in S
      <3> SUFFICES ASSUME (k + 1) + 1 <= n
                   PROVE  Good((k + 1) + 1)
        <4> HIDE DEF Good
        <4> QED
          OBVIOUS
      <3> DEFINE m == k + 1
      <3>1. m \in Nat /\ m <= n /\ m # 0 /\ m + 1 \in 1 .. n /\ m + 1 # 1 /\ (m + 1) - 1 = m
            /\ m \in 1 .. n
        BY <1>1
      <3>2. Good(m)
        <4> HIDE DEF Good
        <4> QED
          BY <2>9, <3>1
      <3>3. /\ flatten[m] \in Seq(T) /\ Len(flatten[m]) = at[m + 1]
            /\ \A j \in 1 .. m : Laid(flatten[m], at[j], ss[j])
        BY <3>2
      <3> HIDE DEF m
      <3>4. flatten[m + 1] = flatten[m] \o ss[m + 1]
        BY <2>7, <3>1
      <3>5. ss[m + 1] \in Seq(T) /\ Len(ss[m + 1]) \in Nat
        BY <1>1, <3>1
      <3>6. flatten[m + 1] \in Seq(T) /\ Len(flatten[m + 1]) = Len(flatten[m]) + Len(ss[m + 1])
        <4>1. \A x, y \in Seq(T) : x \o y \in Seq(T) /\ Len(x \o y) = Len(x) + Len(y)
          OBVIOUS
        <4>2. flatten[m] \in Seq(T)
          BY <3>3
        <4>3. /\ flatten[m] \o ss[m + 1] \in Seq(T)
              /\ Len(flatten[m] \o ss[m + 1]) = Len(flatten[m]) + Len(ss[m + 1])
          BY <3>5, <4>1, <4>2
        <4> QED
          BY <3>4, <4>3
      <3>7. at[(m + 1) + 1] = at[m + 1] + Len(ss[m + 1])
        BY <1>2, <3>1
      <3>8. Laid(flatten[m + 1], 0, flatten[m + 1])
        BY <3>6, LaidWhole
      <3>9. Laid(flatten[m + 1], 0, flatten[m]) /\ Laid(flatten[m + 1], 0 + Len(flatten[m]), ss[m + 1])
        <4> DEFINE u == flatten[m + 1]
                   x == flatten[m]
                   y == ss[m + 1]
        <4>1. x \in Seq(T) /\ y \in Seq(T) /\ u \in Seq(T) /\ Laid(u, 0, x \o y)
          BY <3>3, <3>4, <3>5, <3>6, <3>8
        <4> HIDE DEF u, x, y
        <4>2. Laid(u, 0, x) /\ Laid(u, 0 + Len(x), y)
          BY <4>1, LaidParts
        <4> QED
          BY <4>2 DEF u, x, y
      <3>10. 0 + Len(flatten[m]) = at[m + 1]
        BY <3>3
      <3>11. ASSUME NEW j \in 1 .. m
             PROVE  Laid(flatten[m + 1], at[j], ss[j])
        <4>1. Laid(flatten[m], at[j], ss[j])
          BY <3>3
        <4>2. /\ at[j] \in Nat /\ at[j] + Len(ss[j]) <= Len(flatten[m])
              /\ \A i \in 1 .. Len(ss[j]) : flatten[m][at[j] + i] = ss[j][i]
          BY <4>1 DEF Laid
        <4>3. \A i \in 1 .. Len(flatten[m]) : flatten[m + 1][i] = flatten[m][i]
          BY <3>9 DEF Laid
        <4>4. Len(ss[j]) \in Nat /\ Len(flatten[m]) \in Nat
          BY <1>1, <3>1, <3>3
        <4>5. \A i \in 1 .. Len(ss[j]) : at[j] + i \in 1 .. Len(flatten[m])
          <5>1. \A a, b, c \in Nat : a + b <= c => \A i \in 1 .. b : a + i \in 1 .. c
            OBVIOUS
          <5> QED
            BY <4>2, <4>4, <5>1
        <4>6. at[j] + Len(ss[j]) <= Len(flatten[m + 1])
          <5>1. Len(ss[m + 1]) \in Nat /\ Len(flatten[m + 1]) = Len(flatten[m]) + Len(ss[m + 1])
            BY <3>5, <3>6
          <5>2. at[j] + Len(ss[j]) <= Len(flatten[m]) /\ at[j] \in Nat
            BY <4>2
          <5>3. \A a, b, c, d \in Nat : a + b <= c => a + b <= c + d
            OBVIOUS
          <5>4. at[j] + Len(ss[j]) <= Len(flatten[m]) + Len(ss[m + 1])
            BY <4>4, <5>1, <5>2, <5>3
          <5> QED
            BY <5>1, <5>4
        <4>7. \A i \in 1 .. Len(ss[j]) : flatten[m + 1][at[j] + i] = ss[j][i]
          BY <4>2, <4>3, <4>5
        <4> QED
          BY <4>2, <4>6, <4>7 DEF Laid
      <3>12. \A j \in 1 .. m + 1 : j \in 1 .. m \/ j = m + 1
        BY <3>1
      <3>13. \A j \in 1 .. m + 1 : Laid(flatten[m + 1], at[j], ss[j])
        BY <3>9, <3>10, <3>11, <3>12
      <3>14. Len(flatten[m + 1]) = at[(m + 1) + 1]
        BY <3>3, <3>6, <3>7
      <3> QED
        BY <3>6, <3>13, <3>14 DEF m
    <2>10. n - 1 \in S
      <3>1. n - 1 \in Nat
        BY <1>1, <1>4
      <3> HIDE DEF S
      <3> QED
        BY <2>8, <2>9, <3>1, Induction
    <2>11. Good(n)
      <3>1. (n - 1) + 1 = n /\ n <= n
        BY <1>1
      <3> HIDE DEF Good
      <3> QED
        BY <2>10, <3>1
    <2> QED
      BY <2>6, <2>11
  <1> QED
    BY <1>3, <1>4

-----------------------------------------------------------------------------
(* What browsers send.                                                     *)

Chars == {"GET", "POST", "PUT", "/", "?", "form", "length", "cookie", "x", "W", "P", "1", "2",
          "3", "=", "&", "+", " ", "Submit", "Save", "Reboot", "cfg", "write"}

Toks == Chars \cup {"\r", "\n"}

LEMMA CharsAreToks == Chars \subseteq Toks /\ Seq(Chars) \subseteq Seq(Toks)
  <1>1. Chars \subseteq Toks
    BY DEF Toks
  <1> QED
    BY <1>1, SeqMonotonic

LEMMA CharsHave ==
    {"GET", "POST", "PUT", "/", "?", "form", "length", "cookie", "x", "W", "P", "1", "2",
     "3", "=", "&", "+", " ", "Submit", "Save", "Reboot", "cfg", "write"} \subseteq Chars
  BY DEF Chars

LEMMA SeqIs ==
    ASSUME NEW T, NEW n \in Nat, NEW f \in [1 .. n -> T]
    PROVE  f \in Seq(T) /\ Len(f) = n
  OBVIOUS

\* A field as it is written.
FieldText(t, n, v) ==
    /\ t \in Seq(Chars) /\ Len(t) = 2 + Len(v) /\ t[1] = n /\ t[2] = "="
    /\ \A i \in 1 .. Len(v) : t[2 + i] = IF v[i] = " " THEN "+" ELSE v[i]

LEMMA FieldIs ==
    ASSUME NEW n \in Chars, NEW v \in Seq(Chars)
    PROVE  FieldText(Field(<<n, v>>), n, v)
  <1> DEFINE e == Escaped(v)
             l == <<n, "=">>
  <1>1. Len(v) \in Nat /\ DOMAIN v = 1 .. Len(v) /\ \A i \in 1 .. Len(v) : v[i] \in Chars
    OBVIOUS
  <1>2. "+" \in Chars /\ "=" \in Chars
    BY DEF Chars
  <1>3. e = [i \in 1 .. Len(v) |-> IF v[i] = " " THEN "+" ELSE v[i]]
    BY <1>1 DEF Escaped
  <1>4. e \in [1 .. Len(v) -> Chars]
    BY <1>1, <1>2, <1>3
  <1>5. e \in Seq(Chars) /\ Len(e) = Len(v)
    <2> HIDE DEF e
    <2> QED
      BY <1>1, <1>4
  <1>6. \A i \in 1 .. Len(v) : e[i] = IF v[i] = " " THEN "+" ELSE v[i]
    BY <1>3
  <1>7. l \in Seq(Chars) /\ Len(l) = 2 /\ l[1] = n /\ l[2] = "="
    BY <1>2
  <1>8. Field(<<n, v>>) = l \o e
    BY DEF Field
  <1> HIDE DEF e, l
  <1>9. /\ l \o e \in Seq(Chars) /\ Len(l \o e) = Len(l) + Len(e)
        /\ \A i \in 1 .. Len(l) : (l \o e)[i] = l[i]
        /\ \A i \in 1 .. Len(e) : (l \o e)[Len(l) + i] = e[i]
    <2>1. Glued(l \o e, Chars, l, e)
      BY <1>5, <1>7, ConcatIs
    <2> QED
      BY <2>1 DEF Glued
  <1>10. 1 \in 1 .. Len(l) /\ 2 \in 1 .. Len(l)
    <2>1. Len(l) = 2
      BY <1>7
    <2>2. 1 \in 1 .. 2 /\ 2 \in 1 .. 2
      OBVIOUS
    <2> QED
      BY <2>1, <2>2
  <1>11. FieldText(l \o e, n, v)
    <2> DEFINE u == l \o e
    <2>1. /\ u \in Seq(Chars) /\ Len(u) = Len(l) + Len(e)
          /\ \A i \in 1 .. Len(l) : u[i] = l[i]
          /\ \A i \in 1 .. Len(e) : u[Len(l) + i] = e[i]
      BY <1>9
    <2> HIDE DEF u
    <2>2. Len(u) = 2 + Len(v)
      <3>1. Len(l) = 2 /\ Len(e) = Len(v)
        BY <1>5, <1>7
      <3> QED
        BY <2>1, <3>1, Zenon
    <2>3. u[1] = n /\ u[2] = "="
      <3>1. l[1] = n /\ l[2] = "="
        BY <1>7
      <3> QED
        BY <1>10, <2>1, <3>1, Zenon
    <2>5. \A i \in 1 .. Len(v) : u[2 + i] = IF v[i] = " " THEN "+" ELSE v[i]
      <3>1. Len(l) = 2 /\ Len(e) = Len(v)
        BY <1>5, <1>7
      <3>2. \A i \in 1 .. Len(v) : u[2 + i] = e[i]
        BY <2>1, <3>1, Zenon
      <3> QED
        BY <1>6, <3>2, Zenon
    <2>4. FieldText(u, n, v)
      BY <2>1, <2>2, <2>3, <2>5, Zenon DEF FieldText
    <2> QED
      BY <2>4 DEF u
  <1> QED
    BY <1>8, <1>11

\* A field behind another.
PieceText(t, n, v) ==
    /\ t \in Seq(Chars) /\ Len(t) = 3 + Len(v) /\ t[1] = "&" /\ t[2] = n /\ t[3] = "="
    /\ \A i \in 1 .. Len(v) : t[3 + i] = IF v[i] = " " THEN "+" ELSE v[i]

LEMMA PieceIs ==
    ASSUME NEW n \in Chars, NEW v \in Seq(Chars)
    PROVE  PieceText(<<"&">> \o Field(<<n, v>>), n, v)
  <1> DEFINE l == <<"&">>
             f == Field(<<n, v>>)
             t == l \o f
  <1>1. l \in Seq(Chars) /\ Len(l) = 1 /\ l[1] = "&"
    <2>1. "&" \in Chars
      BY DEF Chars
    <2> QED
      BY <2>1
  <1>2. FieldText(f, n, v)
    BY FieldIs
  <1> HIDE DEF l, f
  <1>3. /\ f \in Seq(Chars) /\ Len(f) = 2 + Len(v) /\ f[1] = n /\ f[2] = "="
        /\ \A i \in 1 .. Len(v) : f[2 + i] = IF v[i] = " " THEN "+" ELSE v[i]
    BY <1>2 DEF FieldText
  <1>4. Glued(t, Chars, l, f)
    BY <1>1, <1>3, ConcatIs
  <1> HIDE DEF t
  <1>5. /\ t \in Seq(Chars) /\ Len(t) = 1 + Len(f)
        /\ \A i \in 1 .. 1 : t[i] = l[i]
        /\ \A i \in 1 .. Len(f) : t[1 + i] = f[i]
    BY <1>1, <1>4 DEF Glued
  <1>6. Len(v) \in Nat /\ Len(f) \in Nat /\ Len(f) = 2 + Len(v)
    <2>1. Len(v) \in Nat
      OBVIOUS
    <2>2. Len(f) = 2 + Len(v)
      BY <1>3
    <2> QED
      BY <2>1, <2>2
  <1>7. /\ 1 \in 1 .. 1 /\ 1 \in 1 .. Len(f) /\ 2 \in 1 .. Len(f) /\ 1 + (2 + Len(v)) = 3 + Len(v)
    BY <1>6
  <1>8. \A i \in 1 .. Len(v) : 2 + i \in 1 .. Len(f) /\ 1 + (2 + i) = 3 + i
    BY <1>6
  <1>9. t[1] = "&" /\ t[1 + 1] = n /\ t[1 + 2] = "="
    BY <1>1, <1>3, <1>5, <1>7
  <1>10. \A i \in 1 .. Len(v) : t[3 + i] = IF v[i] = " " THEN "+" ELSE v[i]
    <2> TAKE i \in 1 .. Len(v)
    <2>1. 2 + i \in 1 .. Len(f) /\ 1 + (2 + i) = 3 + i
      BY <1>8
    <2>2. t[1 + (2 + i)] = f[2 + i]
      BY <1>5, <2>1
    <2>3. f[2 + i] = IF v[i] = " " THEN "+" ELSE v[i]
      BY <1>3
    <2> QED
      BY <2>1, <2>2, <2>3
  <1>11. PieceText(t, n, v)
    <2>1. Len(t) = 3 + Len(v)
      BY <1>5, <1>6, <1>7
    <2>2. t[1] = "&" /\ t[2] = n /\ t[3] = "="
      BY <1>9
    <2> QED
      BY <1>5, <1>10, <2>1, <2>2 DEF PieceText
  <1> QED
    BY <1>11 DEF t, l, f

\* A form as it is written.
FormText(t, p, b) ==
    /\ t \in Seq(Chars) /\ Len(t) = 10 + Len(b)
    /\ t[1] = "W" /\ t[2] = "=" /\ t[3] = "1" /\ t[4] = "&"
    /\ t[5] = "P" /\ t[6] = "=" /\ t[7] = p /\ t[8] = "&"
    /\ t[9] = "Submit" /\ t[10] = "="
    /\ \A i \in 1 .. Len(b) : t[10 + i] = IF b[i] = " " THEN "+" ELSE b[i]

LEMMA ButtonsAre == \A b \in Buttons : b \in Seq(Chars) /\ Len(b) \in {1, 3}
  <1>1. <<"Save">> \in Seq(Chars) /\ Len(<<"Save">>) = 1
    BY DEF Chars
  <1>2. <<"Save", " ", "Reboot">> \in Seq(Chars) /\ Len(<<"Save", " ", "Reboot">>) = 3
    BY DEF Chars
  <1> QED
    BY <1>1, <1>2 DEF Buttons

LEMMA FormIs ==
    ASSUME NEW p \in {"1", "2"}, NEW b \in Buttons
    PROVE  FormText(Encoded(Form(p, b)), p, b)
  <1> DEFINE f == Form(p, b)
             s1 == <<>> \o Field(<<"W", <<"1">>>>)
             s2 == <<"&">> \o Field(<<"P", <<p>>>>)
             s3 == <<"&">> \o Field(<<"Submit", b>>)
             ss == [i \in DOMAIN f |-> (IF i = 1 THEN <<>> ELSE <<"&">>) \o Field(f[i])]
             t == Encoded(f)
  <1>1. /\ "W" \in Chars /\ "P" \in Chars /\ "Submit" \in Chars /\ "1" \in Chars /\ p \in Chars
        /\ b \in Seq(Chars) /\ Len(b) \in Nat
    <2>1. p \in Chars
      BY DEF Chars
    <2>2. b \in Seq(Chars)
      BY ButtonsAre
    <2>3. Len(b) \in Nat
      BY <2>2
    <2>4. "W" \in Chars /\ "P" \in Chars /\ "Submit" \in Chars /\ "1" \in Chars
      BY DEF Chars
    <2> QED
      BY <2>1, <2>2, <2>3, <2>4
  <1>2. /\ f = <<<<"W", <<"1">>>>, <<"P", <<p>>>>, <<"Submit", b>>>>
        /\ DOMAIN f = 1 .. 3 /\ f[1] = <<"W", <<"1">>>> /\ f[2] = <<"P", <<p>>>> /\ f[3] = <<"Submit", b>>
    BY DEF Form
  <1>3. /\ <<"1">> \in Seq(Chars) /\ Len(<<"1">>) = 1 /\ <<"1">>[1] = "1"
        /\ <<p>> \in Seq(Chars) /\ Len(<<p>>) = 1 /\ <<p>>[1] = p
    BY <1>1
  <1>4. t = FlattenSeq(ss)
    BY DEF Encoded
  <1>5. ss[1] = s1 /\ ss[2] = s2 /\ ss[3] = s3 /\ DOMAIN ss = 1 .. 3
    <2>1. DOMAIN ss = 1 .. 3 /\ 1 \in 1 .. 3 /\ 2 \in 1 .. 3 /\ 3 \in 1 .. 3
      BY <1>2
    <2>2. \A i \in DOMAIN f : ss[i] = (IF i = 1 THEN <<>> ELSE <<"&">>) \o Field(f[i])
      OBVIOUS
    <2>3. 1 \in DOMAIN f /\ 2 \in DOMAIN f /\ 3 \in DOMAIN f
      BY <1>2
    <2> HIDE DEF f, ss
    <2>4. ss[1] = <<>> \o Field(f[1])
      BY <2>2, <2>3
    <2>5. ss[2] = <<"&">> \o Field(f[2])
      BY <2>2, <2>3
    <2>6. ss[3] = <<"&">> \o Field(f[3])
      BY <2>2, <2>3
    <2> QED
      BY <1>2, <2>1, <2>4, <2>5, <2>6
  <1>6. s1 \in Seq(Chars) /\ Len(s1) = 3 /\ s1[1] = "W" /\ s1[2] = "=" /\ s1[3] = "1"
    <2> DEFINE one == <<"1">>
               w == Field(<<"W", one>>)
    <2>1. one \in Seq(Chars) /\ Len(one) = 1 /\ one[1] = "1" /\ 1 \in 1 .. 1
      BY <1>3
    <2> HIDE DEF one
    <2>2. FieldText(w, "W", one)
      BY <1>1, <2>1, FieldIs
    <2> HIDE DEF w
    <2>3. /\ w \in Seq(Chars) /\ Len(w) = 2 + 1 /\ w[1] = "W" /\ w[2] = "=" /\ w[2 + 1] = "1"
      BY <2>1, <2>2 DEF FieldText
    <2>4. <<>> \o w = w
      BY <2>3, ConcatEmptySeq
    <2>5. s1 = <<>> \o w
      BY DEF w, one
    <2> HIDE DEF s1
    <2> QED
      BY <2>3, <2>4, <2>5
  <1>7. s2 \in Seq(Chars) /\ Len(s2) = 4 /\ s2[1] = "&" /\ s2[2] = "P" /\ s2[3] = "=" /\ s2[4] = p
    <2> DEFINE one == <<p>>
    <2>1. one \in Seq(Chars) /\ Len(one) = 1 /\ one[1] = p /\ 1 \in 1 .. 1
      BY <1>3
    <2>2. p # " "
      OBVIOUS
    <2>3. s2 = <<"&">> \o Field(<<"P", one>>)
      OBVIOUS
    <2> HIDE DEF one
    <2>4. PieceText(s2, "P", one)
      BY <1>1, <2>1, <2>3, PieceIs
    <2> HIDE DEF s2
    <2>5. s2 \in Seq(Chars) /\ Len(s2) = 3 + 1 /\ s2[1] = "&" /\ s2[2] = "P" /\ s2[3] = "=" /\ s2[3 + 1] = p
      BY <2>1, <2>2, <2>4 DEF PieceText
    <2> QED
      BY <2>5
  <1>8. PieceText(s3, "Submit", b)
    BY <1>1, PieceIs
  <1> HIDE DEF s3
  <1>80. /\ s3 \in Seq(Chars) /\ Len(s3) = 3 + Len(b)
        /\ s3[1] = "&" /\ s3[2] = "Submit" /\ s3[3] = "="
        /\ \A i \in 1 .. Len(b) : s3[3 + i] = IF b[i] = " " THEN "+" ELSE b[i]
    BY <1>8 DEF PieceText
  <1> HIDE DEF s1, s2, s3, f, ss, t
  <1>9. ss \in Seq(Seq(Chars)) /\ Len(ss) = 3
    <2>1. \A i \in 1 .. 3 : i = 1 \/ i = 2 \/ i = 3
      OBVIOUS
    <2>2. \A i \in 1 .. 3 : ss[i] \in Seq(Chars)
      BY <1>5, <1>6, <1>7, <1>80, <2>1
    <2>3. ss = [i \in 1 .. 3 |-> ss[i]]
      BY <1>2, <1>5 DEF ss
    <2>4. ss \in [1 .. 3 -> Seq(Chars)]
      BY <2>2, <2>3
    <2> QED
      BY <2>4, SeqIs
  <1>10. PICK at : Starts(at, ss)
    BY <1>9, StartsIs
  <1>11. /\ t \in Seq(Chars) /\ Len(t) = at[3 + 1]
         /\ \A j \in 1 .. 3 : Laid(t, at[j], ss[j])
    BY <1>4, <1>9, <1>10, Flattened
  <1>12. at[1] = 0 /\ at[2] = 3 /\ at[3] = 7 /\ at[4] = 10 + Len(b)
    <2>1. at[1] = 0 /\ \A j \in 1 .. 3 : at[j + 1] = at[j] + Len(ss[j])
      BY <1>9, <1>10 DEF Starts
    <2>2. at[1 + 1] = at[1] + Len(ss[1]) /\ at[2 + 1] = at[2] + Len(ss[2])
          /\ at[3 + 1] = at[3] + Len(ss[3])
      BY <2>1
    <2>3. at[2] = 3
      BY <1>5, <1>6, <2>1, <2>2
    <2>4. at[3] = 7
      BY <1>5, <1>7, <2>2, <2>3
    <2>5. Len(ss[3]) = 3 + Len(b) /\ Len(b) \in Nat
      BY <1>1, <1>5, <1>80
    <2>6. at[4] = 10 + Len(b)
      BY <2>2, <2>4, <2>5
    <2> QED
      BY <2>1, <2>3, <2>4, <2>6
  <1>13. Laid(t, 0, s1) /\ Laid(t, 3, s2) /\ Laid(t, 7, s3)
    <2>1. 1 \in 1 .. 3 /\ 2 \in 1 .. 3 /\ 3 \in 1 .. 3
      OBVIOUS
    <2> QED
      BY <1>5, <1>11, <1>12, <2>1
  <1>14. t[1] = "W" /\ t[2] = "=" /\ t[3] = "1"
    <2>1. \A i \in 1 .. 3 : t[0 + i] = s1[i]
      BY <1>6, <1>13 DEF Laid
    <2>2. t[0 + 1] = s1[1] /\ t[0 + 2] = s1[2] /\ t[0 + 3] = s1[3]
      BY <2>1
    <2> QED
      BY <1>6, <2>2
  <1>15. t[4] = "&" /\ t[5] = "P" /\ t[6] = "=" /\ t[7] = p
    <2>1. \A i \in 1 .. 4 : t[3 + i] = s2[i]
      BY <1>7, <1>13 DEF Laid
    <2>2. t[3 + 1] = s2[1] /\ t[3 + 2] = s2[2] /\ t[3 + 3] = s2[3] /\ t[3 + 4] = s2[4]
      BY <2>1
    <2> QED
      BY <1>7, <2>2
  <1>16. /\ t[8] = "&" /\ t[9] = "Submit" /\ t[10] = "="
         /\ \A i \in 1 .. Len(b) : t[10 + i] = IF b[i] = " " THEN "+" ELSE b[i]
    <2>1. \A i \in 1 .. 3 + Len(b) : t[7 + i] = s3[i]
      BY <1>80, <1>13 DEF Laid
    <2>2. 1 \in 1 .. 3 + Len(b) /\ 2 \in 1 .. 3 + Len(b) /\ 3 \in 1 .. 3 + Len(b)
          /\ \A i \in 1 .. Len(b) : 3 + i \in 1 .. 3 + Len(b) /\ 7 + (3 + i) = 10 + i
      BY <1>1
    <2>3. t[7 + 1] = s3[1] /\ t[7 + 2] = s3[2] /\ t[7 + 3] = s3[3]
      BY <2>1, <2>2
    <2>4. \A i \in 1 .. Len(b) : t[10 + i] = s3[3 + i]
      BY <2>1, <2>2
    <2>5. t[8] = "&" /\ t[9] = "Submit" /\ t[10] = "="
      <3>1. s3[1] = "&" /\ s3[2] = "Submit" /\ s3[3] = "="
        BY <1>80
      <3> QED
        BY <2>3, <3>1
    <2>6. \A i \in 1 .. Len(b) : t[10 + i] = IF b[i] = " " THEN "+" ELSE b[i]
      BY <1>80, <2>4
    <2> QED
      BY <2>5, <2>6
  <1>17. FormText(t, p, b)
    <2>1. t \in Seq(Chars) /\ Len(t) = 10 + Len(b)
      BY <1>11, <1>12
    <2> QED
      BY <1>14, <1>15, <1>16, <2>1 DEF FormText
  <1> QED
    BY <1>17 DEF t, f

LEMMA QueryIs == Encoded(Query) = <<"cfg", "=", "write">> /\ Encoded(<<>>) = <<>>
  <1> DEFINE v == <<"write">>
             w == Field(<<"cfg", v>>)
             ss == [i \in DOMAIN Query |-> (IF i = 1 THEN <<>> ELSE <<"&">>) \o Field(Query[i])]
  <1>1. v \in Seq(Chars) /\ Len(v) = 1 /\ v[1] = "write" /\ "cfg" \in Chars
    BY DEF Chars
  <1>2. DOMAIN Query = 1 .. 1 /\ Query[1] = <<"cfg", v>>
    BY DEF Query
  <1> HIDE DEF v
  <1>3. /\ w \in Seq(Chars) /\ Len(w) = 3 /\ w[1] = "cfg" /\ w[2] = "="
        /\ w[3] = "write"
    <2>0. FieldText(w, "cfg", v)
      BY <1>1, FieldIs
    <2> HIDE DEF w
    <2>1. /\ w \in Seq(Chars) /\ Len(w) = 2 + Len(v) /\ w[1] = "cfg" /\ w[2] = "="
          /\ \A i \in 1 .. Len(v) : w[2 + i] = IF v[i] = " " THEN "+" ELSE v[i]
      BY <2>0 DEF FieldText
    <2>2. 1 \in 1 .. Len(v) /\ v[1] # " "
      BY <1>1
    <2>3. w[2 + 1] = v[1]
      BY <2>1, <2>2
    <2>4. Len(w) = 3
      <3>1. Len(w) = 2 + Len(v) /\ Len(v) = 1
        BY <1>1, <2>1
      <3> QED
        BY <3>1
    <2> QED
      BY <1>1, <2>1, <2>3, <2>4
  <1> HIDE DEF w
  <1>4. ss = [i \in 1 .. 1 |-> w]
    <2>1. \A i \in 1 .. 1 : i = 1
      OBVIOUS
    <2>2. <<>> \o w = w
      BY <1>3, ConcatEmptySeq
    <2> QED
      BY <1>2, <2>1, <2>2 DEF w
  <1>5. Encoded(Query) = FlattenSeq(ss)
    BY DEF Encoded
  <1> HIDE DEF ss
  <1>6. ss \in Seq(Seq(Chars)) /\ Len(ss) = 1 /\ ss[1] = w
    BY <1>3, <1>4
  <1>7. PICK at : Starts(at, ss)
    BY <1>6, StartsIs
  <1> DEFINE t == FlattenSeq(ss)
  <1>8. t \in Seq(Chars) /\ Len(t) = at[1 + 1] /\ \A j \in 1 .. 1 : Laid(t, at[j], ss[j])
    BY <1>6, <1>7, Flattened
  <1>9. at[1] = 0 /\ at[1 + 1] = at[1] + Len(ss[1])
    <2>1. \A j \in 1 .. 1 : at[j + 1] = at[j] + Len(ss[j])
      BY <1>6, <1>7 DEF Starts
    <2> QED
      BY <1>7, <2>1 DEF Starts
  <1> HIDE DEF t
  <1>10. Len(t) = 3 /\ Laid(t, 0, w)
    BY <1>3, <1>6, <1>8, <1>9
  <1>11. t = w
    <2>1. \A i \in 1 .. 3 : t[0 + i] = w[i] /\ 0 + i = i
      BY <1>3, <1>10 DEF Laid
    <2> QED
      BY <1>3, <1>8, <1>10, <2>1, SeqEqual
  <1>12. w = <<"cfg", "=", "write">>
    <2> DEFINE u == <<"cfg", "=", "write">>
    <2>1. u \in Seq(Chars) /\ Len(u) = 3 /\ u[1] = "cfg" /\ u[2] = "=" /\ u[3] = "write"
      BY DEF Chars
    <2> HIDE DEF u
    <2>2. \A i \in 1 .. 3 : i = 1 \/ i = 2 \/ i = 3
      OBVIOUS
    <2>3. w = u
      BY <1>3, <2>1, <2>2, SeqEqual
    <2> QED
      BY <2>3 DEF u
  <1>13. Encoded(<<>>) = <<>>
    <2> DEFINE no == [i \in DOMAIN <<>> |-> (IF i = 1 THEN <<>> ELSE <<"&">>) \o Field(<<>>[i])]
    <2>1. no = <<>>
      OBVIOUS
    <2>2. FlattenSeq(<<>>) = <<>>
      BY DEF FlattenSeq
    <2> QED
      BY <2>1, <2>2 DEF Encoded
  <1> QED
    BY <1>5, <1>11, <1>12, <1>13 DEF t

-----------------------------------------------------------------------------
(* How a request is read: its lines, as the reader takes them.             *)

Crlf == <<"\r", "\n">>

LEMMA CrlfIs == Crlf \in Seq(Toks) /\ Len(Crlf) = 2 /\ Crlf[1] = "\r" /\ Crlf[2] = "\n"
  <1>1. "\r" \in Toks /\ "\n" \in Toks
    BY DEF Toks
  <1> QED
    BY <1>1 DEF Crlf

\* The first line of a request.
First(r) == <<r.method, "/">> \o (IF r.query = <<>> THEN <<>> ELSE <<"?">> \o Encoded(r.query))

FirstText(l, r) ==
    /\ l \in Seq(Chars) /\ Len(l) = IF r.query = <<>> THEN 2 ELSE 6
    /\ l[1] = r.method /\ l[2] = "/"
    /\ r.query # <<>> => l[3] = "?" /\ l[4] = "cfg" /\ l[5] = "=" /\ l[6] = "write"

LEMMA QueryIsSent == Query # <<>>
  BY DEF Query

LEMMA FirstIs ==
    ASSUME NEW r, r.method \in {"GET", "POST", "PUT"}, r.query \in {<<>>, Query}
    PROVE  FirstText(First(r), r)
  <1> DEFINE a == <<r.method, "/">>
             q == <<"?">>
             e == <<"cfg", "=", "write">>
             m == r.method
  <1>1. m \in Chars /\ "/" \in Chars /\ "?" \in Chars /\ "cfg" \in Chars /\ "=" \in Chars /\ "write" \in Chars
    BY DEF Chars
  <1>2. a \in Seq(Chars) /\ Len(a) = 2 /\ a[1] = r.method /\ a[2] = "/"
    <2> DEFINE c == "/"
    <2>1. m \in Chars /\ c \in Chars /\ a = <<m, c>>
      BY <1>1
    <2> HIDE DEF m, a, c
    <2>2. a \in Seq(Chars) /\ Len(a) = 2 /\ a[1] = m /\ a[2] = c
      BY <2>1
    <2> QED
      BY <2>2 DEF m, c
  <1>3. q \in Seq(Chars) /\ Len(q) = 1 /\ q[1] = "?"
    BY <1>1
  <1>4. e \in Seq(Chars) /\ Len(e) = 3 /\ e[1] = "cfg" /\ e[2] = "=" /\ e[3] = "write"
    BY <1>1
  <1>5. CASE r.query = <<>>
    <2>1. First(r) = a \o <<>>
      BY <1>5 DEF First
    <2> HIDE DEF a
    <2>2. First(r) = a
      BY <1>2, <2>1, ConcatEmptySeq
    <2> QED
      BY <1>2, <1>5, <2>2 DEF FirstText
  <1>6. CASE r.query # <<>>
    <2>1. First(r) = a \o (q \o e)
      BY <1>6, QueryIs DEF First
    <2> HIDE DEF a, q, e
    <2>2. Glued(q \o e, Chars, q, e)
      BY <1>3, <1>4, ConcatIs
    <2> DEFINE u == q \o e
    <2>3. /\ u \in Seq(Chars) /\ Len(u) = 1 + 3
          /\ \A i \in 1 .. 1 : u[i] = q[i]
          /\ \A i \in 1 .. 3 : u[1 + i] = e[i]
      BY <1>3, <1>4, <2>2 DEF Glued
    <2>4. u \in Seq(Chars) /\ Len(u) = 4 /\ u[1] = "?" /\ u[2] = "cfg" /\ u[3] = "=" /\ u[4] = "write"
      <3>1. u[1 + 1] = e[1] /\ u[1 + 2] = e[2] /\ u[1 + 3] = e[3]
        BY <2>3
      <3>2. u[1] = q[1]
        BY <2>3
      <3>3. u \in Seq(Chars) /\ Len(u) = 4
        BY <2>3
      <3> HIDE DEF u
      <3> QED
        BY <1>3, <1>4, <3>1, <3>2, <3>3
    <2> HIDE DEF u
    <2>5. Glued(a \o u, Chars, a, u)
      BY <1>2, <2>4, ConcatIs
    <2> DEFINE l == a \o u
    <2>6. /\ l \in Seq(Chars) /\ Len(l) = 2 + 4
          /\ \A i \in 1 .. 2 : l[i] = a[i]
          /\ \A i \in 1 .. 4 : l[2 + i] = u[i]
      BY <1>2, <2>4, <2>5 DEF Glued
    <2>7. l[1] = a[1] /\ l[2] = a[2]
      BY <2>6
    <2>8. l[2 + 1] = u[1] /\ l[2 + 2] = u[2] /\ l[2 + 3] = u[3] /\ l[2 + 4] = u[4]
      BY <2>6
    <2>9. First(r) = l
      BY <2>1 DEF u
    <2>10. l \in Seq(Chars) /\ Len(l) = 6
      BY <2>6
    <2> HIDE DEF l
    <2>11. l[3] = "?" /\ l[4] = "cfg" /\ l[5] = "=" /\ l[6] = "write"
      BY <2>4, <2>8
    <2>12. FirstText(l, r)
      BY <1>2, <1>6, <2>7, <2>10, <2>11 DEF FirstText
    <2> QED
      BY <2>9, <2>12
  <1> QED
    BY <1>5, <1>6

LEMMA LaidIn ==
    ASSUME NEW T, NEW t \in Seq(T), NEW u \in Seq(T), NEW s \in Seq(T), NEW o, NEW p,
           Laid(t, o, u), Laid(u, p, s)
    PROVE  Laid(t, o + p, s)
  <1>1. Len(t) \in Nat /\ Len(u) \in Nat /\ Len(s) \in Nat
    OBVIOUS
  <1>2. o \in Nat /\ o + Len(u) <= Len(t) /\ \A i \in 1 .. Len(u) : t[o + i] = u[i]
    BY DEF Laid
  <1>3. p \in Nat /\ p + Len(s) <= Len(u) /\ \A i \in 1 .. Len(s) : u[p + i] = s[i]
    BY DEF Laid
  <1>4. o + p \in Nat /\ (o + p) + Len(s) <= Len(t)
    BY <1>1, <1>2, <1>3
  <1>5. \A i \in 1 .. Len(s) : p + i \in 1 .. Len(u) /\ o + (p + i) = (o + p) + i
    BY <1>1, <1>2, <1>3
  <1>6. \A i \in 1 .. Len(s) : t[(o + p) + i] = s[i]
    BY <1>2, <1>3, <1>5
  <1> QED
    BY <1>4, <1>6 DEF Laid

\* A line of a text, with its end.
LineAt(t, o, l, to) ==
    /\ Laid(t, o, l) /\ to = (o + Len(l)) + 2 /\ to <= Len(t)
    /\ t[(o + Len(l)) + 1] = "\r" /\ t[(o + Len(l)) + 2] = "\n"

LEMMA LineIs ==
    ASSUME NEW t \in Seq(Toks), NEW o, NEW l \in Seq(Toks), Laid(t, o, l \o Crlf)
    PROVE  LineAt(t, o, l, (o + Len(l)) + 2)
  <1>1. Laid(t, o, l) /\ Laid(t, o + Len(l), Crlf)
    BY CrlfIs, LaidParts
  <1>2. (o + Len(l)) + 2 <= Len(t) /\ \A i \in 1 .. 2 : t[(o + Len(l)) + i] = Crlf[i]
    BY <1>1, CrlfIs DEF Laid
  <1> QED
    BY <1>1, <1>2, CrlfIs DEF LineAt

\* Where the lines of a request and its form are in its text.
Layout(t, f, H, e, o) ==
    /\ t \in Seq(Toks)
    /\ o \in [1 .. Len(H) + 1 -> Nat]
    /\ LineAt(t, 0, f, o[1])
    /\ \A j \in 1 .. Len(H) : LineAt(t, o[j], H[j], o[j + 1])
    /\ LineAt(t, o[Len(H) + 1], <<>>, o[Len(H) + 1] + 2)
    /\ Laid(t, o[Len(H) + 1] + 2, e)
    /\ Len(t) = (o[Len(H) + 1] + 2) + Len(e)

LEMMA TextIs ==
    ASSUME NEW r, NEW f \in Seq(Toks), NEW H \in Seq(Seq(Toks)), NEW e \in Seq(Toks),
           f = First(r), H = r.headers, e = Encoded(r.form)
    PROVE  \E o : Layout(Text(r), f, H, e, o)
  <1> DEFINE m == Len(H)
             a == f \o Crlf
             ss == [i \in DOMAIN H |-> H[i] \o Crlf]
             h == FlattenSeq(ss)
             b == <<>> \o Crlf
             x == a \o h
             y == x \o b
             t == y \o e
  <1>1. Text(r) = t
    BY DEF Text, First, Crlf
  <1>2. m \in Nat /\ DOMAIN H = 1 .. m /\ \A i \in 1 .. m : H[i] \in Seq(Toks)
    OBVIOUS
  <1>3. \A u, v \in Seq(Toks) : u \o v \in Seq(Toks) /\ Len(u \o v) = Len(u) + Len(v) /\ Len(u) \in Nat
    OBVIOUS
  <1>4. /\ <<>> \in Seq(Toks) /\ b \in Seq(Toks) /\ a \in Seq(Toks)
        /\ Len(b) = 2 /\ Len(a) = Len(f) + 2 /\ Len(f) \in Nat /\ Len(e) \in Nat
    <2>1. <<>> \in Seq(Toks) /\ b = Crlf
      BY CrlfIs, ConcatEmptySeq
    <2>2. Len(a) = Len(f) + 2 /\ a \in Seq(Toks)
      <3>1. Len(a) = Len(f) + Len(Crlf)
        BY <1>3, CrlfIs
      <3>2. a \in Seq(Toks)
        BY <1>3, CrlfIs
      <3> QED
        BY <3>1, <3>2, CrlfIs
    <2>3. Len(f) \in Nat /\ Len(e) \in Nat
      OBVIOUS
    <2> HIDE DEF a, b
    <2> QED
      BY <2>1, <2>2, <2>3, CrlfIs
  <1>5. ss \in Seq(Seq(Toks)) /\ Len(ss) = m /\ \A i \in 1 .. m : ss[i] = H[i] \o Crlf
    <2>1. \A i \in 1 .. m : H[i] \o Crlf \in Seq(Toks)
      BY <1>2, <1>3, CrlfIs
    <2>2. ss \in [1 .. m -> Seq(Toks)] /\ \A i \in 1 .. m : ss[i] = H[i] \o Crlf
      BY <1>2, <2>1
    <2> QED
      BY <1>2, <2>2, SeqIs
  <1> HIDE DEF a, ss, b
  <1>6. PICK at : Starts(at, ss)
    BY <1>5, StartsIs
  <1>7. h \in Seq(Toks) /\ Len(h) = at[m + 1] /\ \A j \in 1 .. m : Laid(h, at[j], ss[j])
    BY <1>5, <1>6, Flattened
  <1>8. /\ at \in [1 .. m + 1 -> Nat] /\ at[1] = 0
        /\ \A j \in 1 .. m : at[j + 1] = at[j] + Len(ss[j])
    BY <1>5, <1>6 DEF Starts
  <1> HIDE DEF h
  <1>9. /\ x \in Seq(Toks) /\ y \in Seq(Toks) /\ t \in Seq(Toks)
        /\ Len(x) = Len(a) + Len(h) /\ Len(y) = Len(x) + Len(b) /\ Len(t) = Len(y) + Len(e)
    <2>1. x \in Seq(Toks) /\ Len(x) = Len(a) + Len(h)
      BY <1>3, <1>4, <1>7
    <2> HIDE DEF x
    <2>2. y \in Seq(Toks) /\ Len(y) = Len(x) + Len(b)
      BY <1>3, <1>4, <2>1
    <2> HIDE DEF y
    <2>3. t \in Seq(Toks) /\ Len(t) = Len(y) + Len(e)
      BY <1>3, <1>4, <2>2
    <2> QED
      BY <2>1, <2>2, <2>3
  <1>10. t = y \o e /\ y = x \o b /\ x = a \o h
    OBVIOUS
  <1> HIDE DEF x, y, t
  <1>11. Laid(t, 0, y) /\ Laid(t, 0 + Len(y), e)
    <2>1. Laid(t, 0, y \o e)
      BY <1>9, <1>10, LaidWhole
    <2> QED
      BY <1>9, <2>1, LaidParts
  <1>12. Laid(t, 0, x) /\ Laid(t, 0 + Len(x), b)
    <2>1. Laid(t, 0, x \o b)
      BY <1>10, <1>11
    <2> QED
      BY <1>4, <1>9, <2>1, LaidParts
  <1>13. Laid(t, 0, a) /\ Laid(t, 0 + Len(a), h)
    <2>1. Laid(t, 0, a \o h)
      BY <1>10, <1>12
    <2> QED
      BY <1>4, <1>7, <1>9, <2>1, LaidParts
  <1> DEFINE o == [j \in 1 .. m + 1 |-> (Len(f) + 2) + at[j]]
  <1>14. /\ o \in [1 .. m + 1 -> Nat] /\ o[1] = Len(f) + 2
         /\ \A j \in 1 .. m + 1 : o[j] = (Len(f) + 2) + at[j]
    BY <1>2, <1>4, <1>8
  <1> HIDE DEF o
  <1>15. LineAt(t, 0, f, o[1])
    <2>1. LineAt(t, 0, f, (0 + Len(f)) + 2)
      BY <1>9, <1>13, LineIs DEF a
    <2>2. (0 + Len(f)) + 2 = o[1]
      BY <1>4, <1>14
    <2> QED
      BY <2>1, <2>2
  <1>16. ASSUME NEW j \in 1 .. m
         PROVE  LineAt(t, o[j], H[j], o[j + 1])
    <2>1. j \in 1 .. m + 1 /\ j + 1 \in 1 .. m + 1
      BY <1>2
    <2>2. Laid(t, (0 + Len(a)) + at[j], ss[j])
      <3>1. ss[j] \in Seq(Toks) /\ Laid(h, at[j], ss[j])
        BY <1>5, <1>7
      <3> QED
        BY <1>7, <1>9, <1>13, <3>1, LaidIn
    <2>3. (0 + Len(a)) + at[j] = o[j] /\ at[j] \in Nat
      <3>1. at[j] \in Nat /\ o[j] = (Len(f) + 2) + at[j]
        BY <1>8, <1>14, <2>1
      <3> QED
        BY <1>4, <3>1
    <2>4. LineAt(t, o[j], H[j], (o[j] + Len(H[j])) + 2)
      <3>1. H[j] \in Seq(Toks) /\ t \in Seq(Toks) /\ ss[j] = H[j] \o Crlf
        BY <1>2, <1>5, <1>9
      <3>2. Laid(t, o[j], H[j] \o Crlf)
        BY <2>2, <2>3, <3>1
      <3> DEFINE hj == H[j]
                 oj == o[j]
      <3>3. hj \in Seq(Toks) /\ t \in Seq(Toks) /\ Laid(t, oj, hj \o Crlf)
        BY <3>1, <3>2
      <3> HIDE DEF hj, oj
      <3>4. LineAt(t, oj, hj, (oj + Len(hj)) + 2)
        BY <3>3, LineIs
      <3> QED
        BY <3>4 DEF hj, oj
    <2>5. Len(ss[j]) = Len(H[j]) + 2 /\ Len(H[j]) \in Nat
      <3>1. ss[j] = H[j] \o Crlf /\ H[j] \in Seq(Toks)
        BY <1>2, <1>5
      <3> DEFINE hj == H[j]
                 c == Crlf
      <3>2. hj \in Seq(Toks) /\ c \in Seq(Toks) /\ Len(c) = 2 /\ ss[j] = hj \o c
        BY <3>1, CrlfIs
      <3> HIDE DEF hj, c
      <3>3. \A p, q \in Seq(Toks) : Len(p \o q) = Len(p) + Len(q) /\ Len(p) \in Nat
        OBVIOUS
      <3>4. Len(hj \o c) = Len(hj) + Len(c) /\ Len(hj) \in Nat
        BY <3>2, <3>3, Zenon
      <3>5. Len(ss[j]) = Len(hj) + 2 /\ Len(hj) \in Nat
        BY <3>2, <3>4, Zenon
      <3> QED
        BY <3>5 DEF hj
    <2>6. o[j + 1] = (o[j] + Len(H[j])) + 2
      <3>1. o[j] = (Len(f) + 2) + at[j] /\ o[j + 1] = (Len(f) + 2) + at[j + 1]
        BY <1>14, <2>1
      <3>2. at[j + 1] = at[j] + Len(ss[j])
        BY <1>8
      <3>3. Len(f) \in Nat
        BY <1>4
      <3> DEFINE lh == Len(H[j])
                 lf == Len(f)
                 aj == at[j]
      <3>4. lh \in Nat /\ lf \in Nat /\ aj \in Nat
        BY <2>3, <2>5, <3>3
      <3> HIDE DEF lh, lf, aj
      <3>5. (lf + 2) + (aj + (lh + 2)) = (((lf + 2) + aj) + lh) + 2
        BY <3>4
      <3> QED
        BY <2>5, <3>1, <3>2, <3>5 DEF lh, lf, aj
    <2> QED
      BY <2>4, <2>6
  <1>17. /\ o[m + 1] = Len(x) /\ Len(y) = o[m + 1] + 2 /\ o[m + 1] \in Nat
    <2>1. m + 1 \in 1 .. m + 1
      BY <1>2
    <2>2. o[m + 1] = (Len(f) + 2) + at[m + 1] /\ at[m + 1] \in Nat
      BY <1>8, <1>14, <2>1
    <2> QED
      BY <1>4, <1>7, <1>9, <2>2
  <1>18. LineAt(t, o[m + 1], <<>>, o[m + 1] + 2)
    <2>1. Laid(t, o[m + 1], <<>> \o Crlf)
      BY <1>12, <1>17 DEF b
    <2>2. LineAt(t, o[m + 1], <<>>, (o[m + 1] + Len(<<>>)) + 2)
      BY <1>4, <1>9, <2>1, LineIs
    <2>3. o[m + 1] + Len(<<>>) = o[m + 1]
      BY <1>17
    <2> QED
      BY <2>2, <2>3
  <1>19. Laid(t, o[m + 1] + 2, e) /\ Len(t) = (o[m + 1] + 2) + Len(e)
    <2>1. 0 + Len(y) = o[m + 1] + 2
      BY <1>17
    <2> QED
      BY <1>9, <1>11, <1>17, <2>1
  <1>20. Layout(t, f, H, e, o)
    BY <1>9, <1>14, <1>15, <1>16, <1>18, <1>19 DEF Layout
  <1> QED
    BY <1>1, <1>20 DEF t
-----------------------------------------------------------------------------
(* The lines the reader takes from a request.                              *)

FormLine == <<"form">>
LengthLine == <<"length">>
CookieLine == <<"cookie">>
OtherLine == <<"x">>
HeaderLines == {FormLine, LengthLine, CookieLine}

\* l is an ordinary line of some header.
Word(l) == l \in Seq(Chars) /\ l # <<>> /\ Len(l) \in Nat \ {0}

LEMMA LinesAre ==
    /\ Word(FormLine) /\ Word(LengthLine) /\ Word(CookieLine) /\ Word(OtherLine)
    /\ Len(FormLine) = 1 /\ Len(LengthLine) = 1 /\ Len(CookieLine) = 1 /\ Len(OtherLine) = 1
    /\ FormLine # LengthLine /\ FormLine # CookieLine /\ LengthLine # CookieLine
    /\ OtherLine \notin HeaderLines /\ <<>> \notin HeaderLines
  <1>1. "form" \in Chars /\ "length" \in Chars /\ "cookie" \in Chars /\ "x" \in Chars
    BY DEF Chars
  <1>2. \A c \in Chars : <<c>> \in Seq(Chars) /\ <<c>> # <<>> /\ Len(<<c>>) = 1
    OBVIOUS
  <1>3. Word(FormLine) /\ Len(FormLine) = 1
    BY <1>1, <1>2 DEF FormLine, Word
  <1>4. Word(LengthLine) /\ Len(LengthLine) = 1
    BY <1>1, <1>2 DEF LengthLine, Word
  <1>5. Word(CookieLine) /\ Len(CookieLine) = 1
    BY <1>1, <1>2 DEF CookieLine, Word
  <1>6. Word(OtherLine) /\ Len(OtherLine) = 1
    BY <1>1, <1>2 DEF OtherLine, Word
  <1>7. FormLine # LengthLine /\ FormLine # CookieLine /\ LengthLine # CookieLine
    BY DEF FormLine, LengthLine, CookieLine
  <1>8. OtherLine # FormLine /\ OtherLine # LengthLine /\ OtherLine # CookieLine
    BY DEF FormLine, LengthLine, CookieLine, OtherLine
  <1>9. <<>> # FormLine /\ <<>> # LengthLine /\ <<>> # CookieLine
    BY DEF FormLine, LengthLine, CookieLine
  <1> QED
    BY <1>3, <1>4, <1>5, <1>6, <1>7, <1>8, <1>9 DEF HeaderLines

LEMMA FillerIs ==
    ASSUME NEW n \in Nat \ {0}
    PROVE  /\ Word(Filler(n)) /\ Len(Filler(n)) = n /\ Filler(n) \notin HeaderLines
           /\ \A i \in 1 .. n : Filler(n)[i] = "x"
  <1>1. "x" \in Chars
    BY DEF Chars
  <1>2. Filler(n) \in [1 .. n -> Chars] /\ \A i \in 1 .. n : Filler(n)[i] = "x"
    BY <1>1 DEF Filler
  <1>3. Filler(n) \in Seq(Chars) /\ Len(Filler(n)) = n /\ 1 \in 1 .. n
    BY <1>2, SeqIs
  <1>4. Filler(n)[1] = "x"
    BY <1>2, <1>3
  <1>5. Filler(n) # FormLine
    <2>1. FormLine[1] = "form"
      BY DEF FormLine
    <2> QED
      BY <1>4, <2>1
  <1>6. Filler(n) # LengthLine
    <2>1. LengthLine[1] = "length"
      BY DEF LengthLine
    <2> QED
      BY <1>4, <2>1
  <1>7. Filler(n) # CookieLine
    <2>1. CookieLine[1] = "cookie"
      BY DEF CookieLine
    <2> QED
      BY <1>4, <2>1
  <1>8. Filler(n) # <<>>
    <2>1. Len(<<>>) = 0
      OBVIOUS
    <2> QED
      BY <1>3, <2>1
  <1> QED
    BY <1>2, <1>3, <1>5, <1>6, <1>7, <1>8 DEF Word, HeaderLines

\* l is one of the lines G.
Among(l, G) == \E i \in 1 .. Len(G) : G[i] = l

\* The headers of a request: the form's two headers end only with the last.
Heads(G) ==
    /\ G \in Seq(Seq(Chars)) /\ Len(G) \in Nat
    /\ \A i \in 1 .. Len(G) : G[i] # <<>>
    /\ \A i, j \in 1 .. Len(G) : G[i] = CookieLine /\ G[j] = CookieLine => i = j
    /\ \A i, j \in 1 .. Len(G) : G[i] = FormLine /\ G[j] = LengthLine => i = Len(G) \/ j = Len(G)

HasOf(G, cookie, form, length) ==
    (Among(CookieLine, G) <=> cookie) /\ (Among(FormLine, G) <=> form) /\ (Among(LengthLine, G) <=> length)

LEMMA HeadsAre ==
    ASSUME NEW f, Word(f), f \notin HeaderLines
    PROVE  /\ Heads(<<>>) /\ HasOf(<<>>, FALSE, FALSE, FALSE) /\ Len(<<>>) = 0
           /\ Heads(<<f>>) /\ HasOf(<<f>>, FALSE, FALSE, FALSE) /\ Len(<<f>>) = 1
           /\ Heads(<<LengthLine>>) /\ HasOf(<<LengthLine>>, FALSE, FALSE, TRUE)
           /\ Heads(<<FormLine, LengthLine>>) /\ HasOf(<<FormLine, LengthLine>>, FALSE, TRUE, TRUE)
           /\ Heads(<<CookieLine, LengthLine, FormLine>>)
           /\ HasOf(<<CookieLine, LengthLine, FormLine>>, TRUE, TRUE, TRUE)
           /\ Heads(<<f, FormLine, LengthLine>>) /\ HasOf(<<f, FormLine, LengthLine>>, FALSE, TRUE, TRUE)
           /\ Heads(<<f, OtherLine, FormLine, LengthLine>>)
           /\ HasOf(<<f, OtherLine, FormLine, LengthLine>>, FALSE, TRUE, TRUE)
  <1> DEFINE T == Seq(Chars)
  <1>1. /\ FormLine \in T /\ LengthLine \in T /\ CookieLine \in T /\ OtherLine \in T /\ f \in T
        /\ FormLine # <<>> /\ LengthLine # <<>> /\ CookieLine # <<>> /\ OtherLine # <<>> /\ f # <<>>
        /\ FormLine # LengthLine /\ FormLine # CookieLine /\ LengthLine # CookieLine
        /\ OtherLine # FormLine /\ OtherLine # LengthLine /\ OtherLine # CookieLine
        /\ f # FormLine /\ f # LengthLine /\ f # CookieLine
    BY LinesAre DEF Word, HeaderLines
  <1> HIDE DEF T
  <1>2. Heads(<<>>) /\ HasOf(<<>>, FALSE, FALSE, FALSE) /\ Len(<<>>) = 0
    <2>1. <<>> \in Seq(T) /\ Len(<<>>) = 0
      OBVIOUS
    <2> QED
      BY <2>1 DEF Heads, HasOf, Among, T
  <1>3. Heads(<<f>>) /\ HasOf(<<f>>, FALSE, FALSE, FALSE) /\ Len(<<f>>) = 1
    <2> DEFINE G == <<f>>
    <2>1. G \in Seq(T) /\ Len(G) = 1 /\ G[1] = f
      BY <1>1
    <2> HIDE DEF G
    <2>2. \A i \in 1 .. Len(G) : i = 1
      BY <2>1
    <2>3. Heads(G)
      BY <1>1, <2>1, <2>2 DEF Heads, T
    <2>4. HasOf(G, FALSE, FALSE, FALSE)
      BY <1>1, <2>1, <2>2 DEF HasOf, Among
    <2> QED
      BY <2>1, <2>3, <2>4 DEF G
  <1>4. Heads(<<LengthLine>>) /\ HasOf(<<LengthLine>>, FALSE, FALSE, TRUE)
    <2> DEFINE G == <<LengthLine>>
    <2>1. G \in Seq(T) /\ Len(G) = 1 /\ G[1] = LengthLine
      BY <1>1
    <2> HIDE DEF G
    <2>2. /\ \A i \in 1 .. Len(G) : i = 1
          /\ 1 \in 1 .. Len(G)
      BY <2>1
    <2>3. Heads(G)
      BY <1>1, <2>1, <2>2 DEF Heads, T
    <2>4. HasOf(G, FALSE, FALSE, TRUE)
      BY <1>1, <2>1, <2>2 DEF HasOf, Among
    <2> QED
      BY <2>3, <2>4 DEF G
  <1>5. Heads(<<FormLine, LengthLine>>) /\ HasOf(<<FormLine, LengthLine>>, FALSE, TRUE, TRUE)
    <2> DEFINE G == <<FormLine, LengthLine>>
    <2>1. G \in Seq(T) /\ Len(G) = 2 /\ G[1] = FormLine /\ G[2] = LengthLine
      BY <1>1
    <2> HIDE DEF G
    <2>2. /\ \A i \in 1 .. Len(G) : i = 1 \/ i = 2
          /\ 1 \in 1 .. Len(G) /\ 2 \in 1 .. Len(G)
      BY <2>1
    <2>3. Heads(G)
      BY <1>1, <2>1, <2>2 DEF Heads, T
    <2>4. HasOf(G, FALSE, TRUE, TRUE)
      BY <1>1, <2>1, <2>2 DEF HasOf, Among
    <2> QED
      BY <2>3, <2>4 DEF G
  <1>6. /\ Heads(<<CookieLine, LengthLine, FormLine>>)
        /\ HasOf(<<CookieLine, LengthLine, FormLine>>, TRUE, TRUE, TRUE)
    <2> DEFINE G == <<CookieLine, LengthLine, FormLine>>
    <2>1. G \in Seq(T) /\ Len(G) = 3 /\ G[1] = CookieLine /\ G[2] = LengthLine /\ G[3] = FormLine
      BY <1>1
    <2> HIDE DEF G
    <2>2. /\ \A i \in 1 .. Len(G) : i = 1 \/ i = 2 \/ i = 3
          /\ 1 \in 1 .. Len(G) /\ 2 \in 1 .. Len(G) /\ 3 \in 1 .. Len(G)
      BY <2>1
    <2>3. Heads(G)
      BY <1>1, <2>1, <2>2 DEF Heads, T
    <2>4. HasOf(G, TRUE, TRUE, TRUE)
      BY <1>1, <2>1, <2>2 DEF HasOf, Among
    <2> QED
      BY <2>3, <2>4 DEF G
  <1>7. Heads(<<f, FormLine, LengthLine>>) /\ HasOf(<<f, FormLine, LengthLine>>, FALSE, TRUE, TRUE)
    <2> DEFINE G == <<f, FormLine, LengthLine>>
    <2>1. G \in Seq(T) /\ Len(G) = 3 /\ G[1] = f /\ G[2] = FormLine /\ G[3] = LengthLine
      BY <1>1
    <2> HIDE DEF G
    <2>2. /\ \A i \in 1 .. Len(G) : i = 1 \/ i = 2 \/ i = 3
          /\ 1 \in 1 .. Len(G) /\ 2 \in 1 .. Len(G) /\ 3 \in 1 .. Len(G)
      BY <2>1
    <2>3. Heads(G)
      BY <1>1, <2>1, <2>2 DEF Heads, T
    <2>4. HasOf(G, FALSE, TRUE, TRUE)
      BY <1>1, <2>1, <2>2 DEF HasOf, Among
    <2> QED
      BY <2>3, <2>4 DEF G
  <1>8. /\ Heads(<<f, OtherLine, FormLine, LengthLine>>)
        /\ HasOf(<<f, OtherLine, FormLine, LengthLine>>, FALSE, TRUE, TRUE)
    <2> DEFINE G == <<f, OtherLine, FormLine, LengthLine>>
    <2>1. G \in Seq(T) /\ Len(G) = 4 /\ G[1] = f /\ G[2] = OtherLine /\ G[3] = FormLine /\ G[4] = LengthLine
      BY <1>1
    <2> HIDE DEF G
    <2>2. /\ \A i \in 1 .. Len(G) : i = 1 \/ i = 2 \/ i = 3 \/ i = 4
          /\ 1 \in 1 .. Len(G) /\ 2 \in 1 .. Len(G) /\ 3 \in 1 .. Len(G) /\ 4 \in 1 .. Len(G)
      BY <2>1
    <2>3. Heads(G)
      BY <1>1, <2>1, <2>2 DEF Heads, T
    <2>4. HasOf(G, FALSE, TRUE, TRUE)
      BY <1>1, <2>1, <2>2 DEF HasOf, Among
    <2> QED
      BY <2>3, <2>4 DEF G
  <1> QED
    BY <1>2, <1>3, <1>4, <1>5, <1>6, <1>7, <1>8

\* The line l is taken from the text t: with its end, or when the buffer is full.
TakenLine(t, o, l, to) ==
    /\ Laid(t, o, l) /\ to \in Nat /\ to <= Len(t)
    /\ \/ /\ Len(l) < LineMax /\ to = (o + Len(l)) + 2
          /\ t[(o + Len(l)) + 1] = "\r" /\ t[(o + Len(l)) + 2] = "\n"
       \/ Len(l) = LineMax /\ to = o + LineMax

\* The line l is a header and was taken before the line j.
Had(k, j, l) == \E i \in 2 .. k.n : i < j /\ k.line[i] = l

Short(r) == \A h \in ToSet(r.headers) : Len(h) < LineMax

\* What is taken has the headers of r, if it has the form's or r's are short.
HeadsOf(cookie, form, length, r) ==
    /\ cookie => CookieLine \in ToSet(r.headers)
    /\ form => FormLine \in ToSet(r.headers)
    /\ length => LengthLine \in ToSet(r.headers)
    /\ Short(r) \/ form => /\ CookieLine \in ToSet(r.headers) => cookie
                           /\ FormLine \in ToSet(r.headers) => form /\ length

EndsWith(t, o, e) == Laid(t, o, e) /\ Len(t) = o + Len(e)

\* The lines taken from the text of r: at[j] is where the j-th begins.
Plan(k, r) ==
    /\ k.n \in Nat /\ k.n >= 1
    /\ k.line \in [1 .. k.n -> Seq(Chars)]
    /\ k.at \in [1 .. k.n + 1 -> Nat]
    /\ k.at[1] = 0
    /\ \A j \in 1 .. k.n : TakenLine(Text(r), k.at[j], k.line[j], k.at[j + 1])
    /\ k.line[1] = First(r)
    /\ r.method = "PUT" => k.n = 1
    /\ r.method # "PUT" => k.n >= 2 /\ \A j \in 2 .. k.n : k.line[j] = <<>> <=> j = k.n
    /\ \A i, j \in 2 .. k.n : k.line[i] = CookieLine /\ k.line[j] = CookieLine => i = j
    /\ \A j \in 1 .. k.n + 1 : Had(k, j, FormLine) /\ Had(k, j, LengthLine) => j >= k.n
    /\ HeadsOf(Had(k, k.n, CookieLine), Had(k, k.n, FormLine), Had(k, k.n, LengthLine), r)
    /\ Had(k, k.n, FormLine) /\ Had(k, k.n, LengthLine)
          => EndsWith(Text(r), k.at[k.n + 1], Encoded(r.form))

\* The lines G are taken behind the first line.
Planned(t, r, G, o) ==
    /\ Heads(G)
    /\ o \in [1 .. Len(G) + 1 -> Nat]
    /\ TakenLine(t, 0, First(r), o[1])
    /\ \A j \in 1 .. Len(G) : TakenLine(t, o[j], G[j], o[j + 1])
    /\ TakenLine(t, o[Len(G) + 1], <<>>, o[Len(G) + 1] + 2)
    /\ HeadsOf(Among(CookieLine, G), Among(FormLine, G), Among(LengthLine, G), r)
    /\ Among(FormLine, G) => EndsWith(t, o[Len(G) + 1] + 2, Encoded(r.form))

LEMMA PlanFrom ==
    ASSUME NEW r, NEW G, NEW o, Planned(Text(r), r, G, o), First(r) \in Seq(Chars), r.method # "PUT"
    PROVE  \E k : Plan(k, r)
  <1> DEFINE g == Len(G)
             t == Text(r)
             e == Encoded(r.form)
             f == First(r)
             c == g + 2
             ln == [j \in 1 .. c |-> IF j = 1 THEN f ELSE IF j = c THEN <<>> ELSE G[j - 1]]
             oo == [j \in 1 .. c + 1 |-> IF j = 1 THEN 0 ELSE IF j = c + 1 THEN o[g + 1] + 2 ELSE o[j - 1]]
             k == [n |-> c, line |-> ln, at |-> oo]
  <1>1. /\ G \in Seq(Seq(Chars)) /\ g \in Nat /\ \A i \in 1 .. g : G[i] \in Seq(Chars) /\ G[i] # <<>>
        /\ \A i, j \in 1 .. g : G[i] = CookieLine /\ G[j] = CookieLine => i = j
        /\ \A i, j \in 1 .. g : G[i] = FormLine /\ G[j] = LengthLine => i = g \/ j = g
    <2>1. \A X \in Seq(Seq(Chars)) : \A i \in 1 .. Len(X) : X[i] \in Seq(Chars)
      OBVIOUS
    <2> QED
      BY <2>1 DEF Planned, Heads
  <1>2. /\ o \in [1 .. g + 1 -> Nat]
        /\ TakenLine(t, 0, f, o[1])
        /\ \A j \in 1 .. g : TakenLine(t, o[j], G[j], o[j + 1])
        /\ TakenLine(t, o[g + 1], <<>>, o[g + 1] + 2)
    BY DEF Planned
  <1>3. HeadsOf(Among(CookieLine, G), Among(FormLine, G), Among(LengthLine, G), r)
    BY DEF Planned
  <1>4. Among(FormLine, G) => EndsWith(t, o[g + 1] + 2, e)
    BY DEF Planned
  <1>5. k.n = c /\ k.line = ln /\ k.at = oo /\ c \in Nat /\ c >= 2 /\ c = g + 2
    BY <1>1
  <1> HIDE DEF g, t, e, f, k, c
  <1>6. \A j \in 2 .. c : j # c => j - 1 \in 1 .. g /\ j # 1
    BY <1>1, <1>5
  <1>7. /\ ln[1] = f /\ ln[c] = <<>> /\ \A j \in 2 .. c : j # c => ln[j] = G[j - 1]
        /\ ln \in [1 .. c -> Seq(Chars)]
    <2>1. \A j \in 1 .. c : ln[j] = IF j = 1 THEN f ELSE IF j = c THEN <<>> ELSE G[j - 1]
      OBVIOUS
    <2>2. \A j \in 1 .. c : j = 1 \/ j = c \/ (j \in 2 .. c /\ j # c /\ j # 1)
      BY <1>5
    <2>3. 1 \in 1 .. c /\ c \in 1 .. c /\ c # 1 /\ \A j \in 2 .. c : j \in 1 .. c /\ j # 1
      BY <1>5
    <2>4. ln[1] = f /\ ln[c] = <<>> /\ \A j \in 2 .. c : j # c => ln[j] = G[j - 1]
      <3> HIDE DEF ln
      <3> QED
        BY <2>1, <2>3
    <2>5. f \in Seq(Chars) /\ <<>> \in Seq(Chars)
      BY DEF f
    <2>6. \A j \in 1 .. c : ln[j] \in Seq(Chars)
      <3> HIDE DEF ln
      <3> QED
        BY <1>1, <1>6, <2>2, <2>4, <2>5
    <2> QED
      BY <2>4, <2>6
  <1>8. /\ oo \in [1 .. c + 1 -> Nat] /\ oo[1] = 0 /\ oo[c + 1] = o[g + 1] + 2
        /\ \A j \in 2 .. c : oo[j] = o[j - 1]
    <2>1. \A j \in 1 .. c + 1 : oo[j] = IF j = 1 THEN 0 ELSE IF j = c + 1 THEN o[g + 1] + 2 ELSE o[j - 1]
      OBVIOUS
    <2>2. \A j \in 1 .. c + 1 : j = 1 \/ j = c + 1 \/ (j \in 2 .. c /\ j # c + 1 /\ j # 1 /\ j - 1 \in 1 .. g + 1)
      BY <1>1, <1>5
    <2>3. /\ 1 \in 1 .. c + 1 /\ c + 1 \in 1 .. c + 1 /\ c + 1 # 1 /\ g + 1 \in 1 .. g + 1
          /\ \A j \in 2 .. c : j \in 1 .. c + 1 /\ j # 1 /\ j # c + 1
      BY <1>1, <1>5
    <2>4. oo[1] = 0 /\ oo[c + 1] = o[g + 1] + 2 /\ \A j \in 2 .. c : oo[j] = o[j - 1]
      <3> HIDE DEF oo
      <3> QED
        BY <2>1, <2>3
    <2>5. \A j \in 1 .. c + 1 : oo[j] \in Nat
      <3> HIDE DEF oo
      <3>1. o[g + 1] + 2 \in Nat /\ \A i \in 1 .. g + 1 : o[i] \in Nat
        BY <1>2, <2>3
      <3> QED
        BY <2>2, <2>4, <3>1
    <2> QED
      BY <2>4, <2>5
  <1> HIDE DEF ln, oo
  <1>9. ASSUME NEW j \in 1 .. c
        PROVE  TakenLine(t, oo[j], ln[j], oo[j + 1])
    <2>1. CASE j = 1
      <3>1. 2 \in 2 .. c /\ oo[2] = o[1] /\ 1 + 1 = 2
        <4>1. 2 \in 2 .. c /\ 2 - 1 = 1
          BY <1>5
        <4> QED
          BY <1>8, <4>1
      <3> QED
        BY <1>2, <1>7, <1>8, <2>1, <3>1
    <2>2. CASE j = c
      <3>1. c \in 2 .. c /\ c - 1 = g + 1
        BY <1>1, <1>5
      <3>2. oo[c] = o[g + 1]
        BY <1>8, <3>1
      <3> QED
        BY <1>2, <1>7, <1>8, <2>2, <3>2
    <2>3. CASE j # 1 /\ j # c
      <3>1. j \in 2 .. c /\ j + 1 \in 2 .. c /\ (j + 1) - 1 = j /\ j - 1 \in 1 .. g /\ (j - 1) + 1 = j
        BY <1>1, <1>5, <2>3
      <3>2. oo[j] = o[j - 1] /\ oo[j + 1] = o[j] /\ ln[j] = G[j - 1]
        BY <1>7, <1>8, <2>3, <3>1
      <3>3. TakenLine(t, o[j - 1], G[j - 1], o[j])
        BY <1>2, <3>1
      <3> QED
        BY <3>2, <3>3
    <2> QED
      BY <2>1, <2>2, <2>3
  <1>10. \A j \in 2 .. c : ln[j] = <<>> <=> j = c
    BY <1>1, <1>6, <1>7
  <1>11. ASSUME NEW i \in 2 .. c, NEW j \in 2 .. c, ln[i] = CookieLine, ln[j] = CookieLine
         PROVE  i = j
    <2>1. i # c /\ j # c
      BY <1>7, <1>11, LinesAre DEF Word
    <2>2. i - 1 \in 1 .. g /\ j - 1 \in 1 .. g /\ G[i - 1] = CookieLine /\ G[j - 1] = CookieLine
      BY <1>6, <1>7, <1>11, <2>1
    <2>3. i - 1 = j - 1
      BY <1>1, <2>2
    <2> QED
      BY <1>5, <2>3
  <1>12. ASSUME NEW j \in 1 .. c + 1, Had(k, j, FormLine), Had(k, j, LengthLine)
         PROVE  j >= c
    <2>1. PICK a \in 2 .. c : a < j /\ ln[a] = FormLine
      BY <1>5, <1>12 DEF Had
    <2>2. PICK b \in 2 .. c : b < j /\ ln[b] = LengthLine
      BY <1>5, <1>12 DEF Had
    <2>3. a # c /\ b # c
      BY <1>7, <2>1, <2>2, LinesAre DEF Word
    <2>4. a - 1 \in 1 .. g /\ b - 1 \in 1 .. g /\ G[a - 1] = FormLine /\ G[b - 1] = LengthLine
      BY <1>6, <1>7, <2>1, <2>2, <2>3
    <2>5. a - 1 = g \/ b - 1 = g
      BY <1>1, <2>4
    <2> QED
      BY <1>1, <1>5, <2>1, <2>2, <2>5
  <1>13. ASSUME NEW l \in HeaderLines
         PROVE  Had(k, c, l) <=> Among(l, G)
    <2>1. ASSUME Had(k, c, l)
          PROVE  Among(l, G)
      <3>1. PICK a \in 2 .. c : a < c /\ ln[a] = l
        BY <1>5, <2>1 DEF Had
      <3>2. a # c
        BY <1>5, <3>1
      <3>3. a - 1 \in 1 .. g /\ G[a - 1] = l
        BY <1>6, <1>7, <3>1, <3>2
      <3> QED
        BY <3>3 DEF Among, g
    <2>2. ASSUME Among(l, G)
          PROVE  Had(k, c, l)
      <3>1. PICK i \in 1 .. g : G[i] = l
        BY <2>2 DEF Among, g
      <3>2. i + 1 \in 2 .. c /\ i + 1 < c /\ i + 1 # c /\ (i + 1) - 1 = i
        BY <1>1, <1>5
      <3>3. ln[i + 1] = l
        BY <1>7, <3>1, <3>2
      <3> QED
        BY <1>5, <3>2, <3>3 DEF Had
    <2> QED
      BY <2>1, <2>2
  <1>14. /\ Had(k, c, FormLine) <=> Among(FormLine, G)
         /\ Had(k, c, LengthLine) <=> Among(LengthLine, G)
         /\ Had(k, c, CookieLine) <=> Among(CookieLine, G)
    BY <1>13 DEF HeaderLines
  <1>15. HeadsOf(Had(k, c, CookieLine), Had(k, c, FormLine), Had(k, c, LengthLine), r)
    BY <1>3, <1>14 DEF HeadsOf
  <1>16. Had(k, c, FormLine) /\ Had(k, c, LengthLine) => EndsWith(t, oo[c + 1], e)
    BY <1>4, <1>8, <1>14
  <1>17. Plan(k, r)
    <2>1. \A j \in 1 .. c : TakenLine(Text(r), oo[j], ln[j], oo[j + 1])
      BY <1>9 DEF t
    <2>2. \A i, j \in 2 .. c : ln[i] = CookieLine /\ ln[j] = CookieLine => i = j
      BY <1>11
    <2>3. \A j \in 1 .. c + 1 : Had(k, j, FormLine) /\ Had(k, j, LengthLine) => j >= c
      BY <1>12
    <2>4. Had(k, c, FormLine) /\ Had(k, c, LengthLine) => EndsWith(Text(r), oo[c + 1], Encoded(r.form))
      BY <1>16 DEF t, e
    <2>5. ln[1] = First(r) /\ c >= 1
      BY <1>5, <1>7 DEF f
    <2> QED
      BY <1>5, <1>7, <1>8, <1>10, <1>15, <2>1, <2>2, <2>3, <2>4, <2>5 DEF Plan
  <1> QED
    BY <1>17

LEMMA RequestIs ==
    ASSUME NEW r \in Requests
    PROVE  /\ r.method \in {"GET", "POST", "PUT"} /\ r.query \in {<<>>, Query}
           /\ \/ r.method = "POST" /\ r.headers \in Headers /\ r.form \in Forms
              \/ r.method \in {"GET", "PUT"} /\ r.headers \in {<<>>, <<Filler(2)>>} /\ r.form = <<>>
  <1>1. CASE r \in [method : {"POST"}, query : {<<>>, Query}, headers : Headers, form : Forms]
    BY <1>1
  <1>2. CASE r \in [method : {"GET", "PUT"}, query : {Query}, headers : {<<>>, <<Filler(2)>>}, form : {<<>>}]
    BY <1>2
  <1> QED
    BY <1>1, <1>2 DEF Requests

LEMMA SentForm ==
    ASSUME NEW r \in Requests
    PROVE  Encoded(r.form) \in Seq(Chars) /\ Len(Encoded(r.form)) \in Nat
  <1>1. CASE r.form \in Forms
    <2>1. PICK p \in {"1", "2"}, b \in Buttons : r.form = Form(p, b)
      BY <1>1 DEF Forms
    <2>2. Encoded(r.form) \in Seq(Chars)
      <3> DEFINE e == Encoded(Form(p, b))
      <3>1. FormText(e, p, b)
        BY FormIs
      <3> HIDE DEF e
      <3>2. \A x : FormText(x, p, b) => x \in Seq(Chars)
        BY ZenonT(20) DEF FormText
      <3>3. Encoded(r.form) = e
        BY <2>1 DEF e
      <3> QED
        BY <3>1, <3>2, <3>3
    <2> QED
      BY <2>2
  <1>2. CASE r.form = <<>>
    <2>1. <<>> \in Seq(Chars) /\ Len(<<>>) = 0
      OBVIOUS
    <2>2. Encoded(r.form) = <<>>
      BY <1>2, QueryIs
    <2> QED
      BY <2>1, <2>2
  <1> QED
    BY <1>1, <1>2, RequestIs

\* The headers of a request: short ones, or one that fills the buffer.
LEMMA SentHeaders ==
    ASSUME NEW r \in Requests
    PROVE  \/ /\ Heads(r.headers)
              /\ \A i \in 1 .. Len(r.headers) : Len(r.headers[i]) < LineMax
              /\ Among(FormLine, r.headers) => Among(LengthLine, r.headers)
              /\ r.method # "POST" => HasOf(r.headers, FALSE, FALSE, FALSE)
           \/ /\ r.headers \in {<<Filler(LineMax), FormLine, LengthLine>>,
                                <<Filler(LineMax + 1), FormLine, LengthLine>>}
              /\ r.method = "POST"
  <1> DEFINE H == r.headers
             Short1 == \A i \in 1 .. Len(H) : Len(H[i]) < LineMax
             One == /\ Heads(H) /\ Short1 /\ Among(FormLine, H) => Among(LengthLine, H)
                    /\ r.method # "POST" => HasOf(H, FALSE, FALSE, FALSE)
  <1>1. LineMax \in Nat /\ LineMax > 6 /\ LineMax - 1 \in Nat \ {0} /\ 2 \in Nat \ {0}
    BY RequestAssumption
  <1>2. CASE H \in {<<>>, <<Filler(2)>>}
    <2> DEFINE f == Filler(2)
    <2>1. Word(f) /\ Len(f) = 2 /\ f \notin HeaderLines
      BY <1>1, FillerIs
    <2> HIDE DEF f
    <2>2. Heads(H) /\ HasOf(H, FALSE, FALSE, FALSE)
      BY <1>2, <2>1, HeadsAre DEF f
    <2>3. Short1
      <3>1. CASE H = <<>>
        BY <3>1
      <3>2. CASE H = <<f>>
        <4>1. Len(H) = 1 /\ H[1] = f
          BY <3>2
        <4>2. Len(f) < LineMax
          BY <1>1, <2>1
        <4>3. \A i \in 1 .. Len(H) : i = 1
          BY <4>1
        <4> QED
          BY <4>1, <4>2, <4>3
      <3> QED
        BY <1>2, <3>1, <3>2 DEF f
    <2> QED
      BY <2>2, <2>3 DEF HasOf
  <1>3. CASE r.method = "POST" /\ H \in Headers
    <2>1. \/ H = <<FormLine, LengthLine>> \/ H = <<CookieLine, LengthLine, FormLine>> \/ H = <<LengthLine>>
          \/ \E n \in LineMax - 1 .. LineMax + 1 : H = <<Filler(n), FormLine, LengthLine>>
      BY <1>3 DEF Headers, FormLine, LengthLine, CookieLine
    <2>2. CASE H = <<FormLine, LengthLine>>
      <3>1. Heads(H) /\ HasOf(H, FALSE, TRUE, TRUE)
        BY <2>2, LinesAre, HeadsAre
      <3>2. Len(H) = 2 /\ H[1] = FormLine /\ H[2] = LengthLine
        BY <2>2
      <3>3. Short1
        <4>1. \A i \in 1 .. 2 : i = 1 \/ i = 2
          OBVIOUS
        <4>2. Len(H[1]) < LineMax /\ Len(H[2]) < LineMax
          BY <1>1, <3>2, LinesAre
        <4> HIDE DEF H
        <4> QED
          BY <3>2, <4>1, <4>2
      <3> QED
        BY <1>3, <3>1, <3>3 DEF HasOf
    <2>3. CASE H = <<CookieLine, LengthLine, FormLine>>
      <3>1. Heads(H) /\ HasOf(H, TRUE, TRUE, TRUE)
        BY <2>3, LinesAre, HeadsAre
      <3>2. Len(H) = 3 /\ H[1] = CookieLine /\ H[2] = LengthLine /\ H[3] = FormLine
        BY <2>3
      <3>3. Short1
        <4>1. \A i \in 1 .. 3 : i = 1 \/ i = 2 \/ i = 3
          OBVIOUS
        <4>2. Len(H[1]) < LineMax /\ Len(H[2]) < LineMax /\ Len(H[3]) < LineMax
          BY <1>1, <3>2, LinesAre
        <4> HIDE DEF H
        <4> QED
          BY <3>2, <4>1, <4>2
      <3> QED
        BY <1>3, <3>1, <3>3 DEF HasOf
    <2>4. CASE H = <<LengthLine>>
      <3>1. Heads(H) /\ HasOf(H, FALSE, FALSE, TRUE)
        BY <2>4, LinesAre, HeadsAre
      <3>2. Len(H) = 1 /\ H[1] = LengthLine
        BY <2>4
      <3>3. Short1
        <4>1. Len(H[1]) < LineMax
          BY <1>1, <3>2, LinesAre
        <4>2. \A i \in 1 .. Len(H) : i = 1
          BY <3>2
        <4> HIDE DEF H
        <4> QED
          BY <4>1, <4>2
      <3> QED
        BY <1>3, <3>1, <3>3 DEF HasOf
    <2>5. CASE \E n \in LineMax - 1 .. LineMax + 1 : H = <<Filler(n), FormLine, LengthLine>>
      <3>1. PICK n \in LineMax - 1 .. LineMax + 1 : H = <<Filler(n), FormLine, LengthLine>>
        BY <2>5
      <3>2. n = LineMax - 1 \/ n = LineMax \/ n = LineMax + 1
        BY <1>1
      <3>3. CASE n = LineMax - 1
        <4> DEFINE f == Filler(n)
        <4>1. Word(f) /\ Len(f) = LineMax - 1 /\ f \notin HeaderLines
          BY <1>1, <3>3, FillerIs
        <4> HIDE DEF f
        <4>2. H = <<f, FormLine, LengthLine>>
          BY <3>1 DEF f
        <4>3. Heads(H) /\ HasOf(H, FALSE, TRUE, TRUE)
          BY <4>1, <4>2, HeadsAre
        <4>4. Len(H) = 3 /\ H[1] = f /\ H[2] = FormLine /\ H[3] = LengthLine
          BY <4>2
        <4>5. Short1
          <5>1. \A i \in 1 .. 3 : i = 1 \/ i = 2 \/ i = 3
            OBVIOUS
          <5>2. Len(f) < LineMax /\ 1 < LineMax
            BY <1>1, <4>1
          <5> QED
            BY <4>4, <5>1, <5>2, LinesAre
        <4> QED
          BY <1>3, <4>3, <4>5 DEF HasOf
      <3> QED
        BY <1>3, <3>1, <3>2, <3>3
    <2> QED
      BY <2>1, <2>2, <2>3, <2>4, <2>5
  <1> QED
    BY <1>2, <1>3, RequestIs

LEMMA ToSetIs == \A G, l : G \in Seq(Seq(Chars)) => (l \in ToSet(G) <=> Among(l, G))
  <1> SUFFICES ASSUME NEW G \in Seq(Seq(Chars)), NEW l
               PROVE  l \in ToSet(G) <=> Among(l, G)
    OBVIOUS
  <1>1. DOMAIN G = 1 .. Len(G)
    OBVIOUS
  <1> QED
    BY <1>1 DEF ToSet, Among

LEMMA LineIsTaken ==
    ASSUME NEW t \in Seq(Toks), NEW o, NEW l \in Seq(Chars), NEW to, LineAt(t, o, l, to), Len(l) < LineMax
    PROVE  TakenLine(t, o, l, to)
  <1>1. Len(l) \in Nat /\ o \in Nat
    BY DEF LineAt, Laid
  <1>2. to \in Nat
    BY <1>1 DEF LineAt
  <1> QED
    BY <1>2 DEF LineAt, TakenLine

LEMMA PlanExists ==
    ASSUME NEW r \in Requests
    PROVE  \E k : Plan(k, r)
  <1> DEFINE f == First(r)
             H == r.headers
             e == Encoded(r.form)
             t == Text(r)
             m == Len(H)
  <1>1. LineMax \in Nat /\ LineMax > 6
    BY RequestAssumption
  <1>2. f \in Seq(Chars) /\ Len(f) \in Nat /\ Len(f) < LineMax
    <2>1. FirstText(f, r)
      BY RequestIs, FirstIs
    <2> HIDE DEF f
    <2>2. f \in Seq(Chars) /\ (Len(f) = 2 \/ Len(f) = 6)
      BY <2>1 DEF FirstText
    <2>3. Len(f) \in Nat /\ Len(f) < LineMax
      <3>1. \A x \in {2, 6} : x \in Nat /\ x < LineMax
        BY <1>1
      <3>2. Len(f) \in {2, 6}
        BY <2>2
      <3> QED
        BY <3>1, <3>2
    <2> QED
      BY <2>2, <2>3
  <1>3. e \in Seq(Chars) /\ Len(e) \in Nat
    BY SentForm
  <1>4. f \in Seq(Toks) /\ e \in Seq(Toks) /\ <<>> \in Seq(Chars) /\ Len(<<>>) = 0
    BY <1>2, <1>3, CharsAreToks
  <1>5. ASSUME H \in Seq(Seq(Chars))
        PROVE  \E o : Layout(t, f, H, e, o)
    <2>1. H \in Seq(Seq(Toks))
      BY <1>5, CharsAreToks, SeqMonotonic
    <2> QED
      BY <1>4, <2>1, TextIs
  <1>6. CASE /\ Heads(H) /\ \A i \in 1 .. Len(H) : Len(H[i]) < LineMax
             /\ Among(FormLine, H) => Among(LengthLine, H)
             /\ r.method # "POST" => HasOf(H, FALSE, FALSE, FALSE)
    <2>1. H \in Seq(Seq(Chars)) /\ m \in Nat /\ \A i \in 1 .. m : H[i] \in Seq(Chars)
      <3>1. \A X \in Seq(Seq(Chars)) : \A i \in 1 .. Len(X) : X[i] \in Seq(Chars)
        OBVIOUS
      <3> QED
        BY <1>6, <3>1 DEF Heads
    <2>2. PICK o : Layout(t, f, H, e, o)
      BY <1>5, <2>1
    <2> HIDE DEF f, H, e, t, m
    <2>3. /\ t \in Seq(Toks) /\ o \in [1 .. m + 1 -> Nat]
          /\ LineAt(t, 0, f, o[1])
          /\ \A j \in 1 .. m : LineAt(t, o[j], H[j], o[j + 1])
          /\ LineAt(t, o[m + 1], <<>>, o[m + 1] + 2)
          /\ EndsWith(t, o[m + 1] + 2, e)
      BY <2>2 DEF Layout, EndsWith, m
    <2>4. TakenLine(t, 0, f, o[1])
      BY <1>2, <2>3, LineIsTaken
    <2>5. \A j \in 1 .. m : TakenLine(t, o[j], H[j], o[j + 1])
      <3> TAKE j \in 1 .. m
      <3>1. LineAt(t, o[j], H[j], o[j + 1]) /\ Len(H[j]) < LineMax
        BY <1>6, <2>3 DEF m
      <3> QED
        BY <2>1, <2>3, <3>1, LineIsTaken
    <2>6. TakenLine(t, o[m + 1], <<>>, o[m + 1] + 2)
      <3>1. Len(<<>>) < LineMax
        BY <1>1, <1>4
      <3> QED
        BY <1>4, <2>3, <3>1, LineIsTaken
    <2>7. CookieLine \in ToSet(H) <=> Among(CookieLine, H)
      BY <2>1, ToSetIs
    <2>8. FormLine \in ToSet(H) <=> Among(FormLine, H)
      BY <2>1, ToSetIs
    <2>9. LengthLine \in ToSet(H) <=> Among(LengthLine, H)
      BY <2>1, ToSetIs
    <2>10. CASE r.method # "PUT"
      <3>1. HeadsOf(Among(CookieLine, H), Among(FormLine, H), Among(LengthLine, H), r)
        BY <1>6, <2>7, <2>8, <2>9 DEF HeadsOf, H
      <3>2. Planned(t, r, H, o)
        BY <1>6, <2>3, <2>4, <2>5, <2>6, <3>1 DEF Planned, f, e, m
      <3> QED
        BY <1>2, <2>10, <3>2, PlanFrom DEF t, f
    <2>11. CASE r.method = "PUT"
      <3> DEFINE k == [n |-> 1, line |-> [j \in 1 .. 1 |-> f], at |-> [j \in 1 .. 1 + 1 |-> IF j = 1 THEN 0 ELSE o[1]]]
      <3>1. k.n = 1 /\ k.line \in [1 .. 1 -> Seq(Chars)] /\ k.line[1] = f
        BY <1>2
      <3>2. k.at \in [1 .. 1 + 1 -> Nat] /\ k.at[1] = 0 /\ k.at[1 + 1] = o[1]
        <4>1. o[1] \in Nat
          BY <2>4 DEF TakenLine
        <4> QED
          BY <4>1
      <3> HIDE DEF k
      <3>3. \A j, l : ~Had(k, j, l)
        BY <3>1 DEF Had
      <3>4. HasOf(H, FALSE, FALSE, FALSE)
        BY <1>6, <2>11 DEF H
      <3>5. HeadsOf(Had(k, 1, CookieLine), Had(k, 1, FormLine), Had(k, 1, LengthLine), r)
        BY <2>7, <2>8, <3>3, <3>4 DEF HeadsOf, HasOf, H
      <3>6. \A j \in 1 .. 1 : TakenLine(t, k.at[j], k.line[j], k.at[j + 1])
        BY <2>4, <3>1, <3>2
      <3>7. \A i \in 2 .. 1 : FALSE
        OBVIOUS
      <3>8. Plan(k, r)
        BY <2>11, <3>1, <3>2, <3>3, <3>5, <3>6, <3>7 DEF Plan, t, f
      <3> QED
        BY <3>8
    <2> QED
      BY <2>10, <2>11
  <1>7. CASE /\ H \in {<<Filler(LineMax), FormLine, LengthLine>>, <<Filler(LineMax + 1), FormLine, LengthLine>>}
             /\ r.method = "POST"
    <2> DEFINE n == Len(H[1])
               g == Filler(LineMax)
               h == H[1]
    <2>1. PICK i \in {LineMax, LineMax + 1} : H = <<Filler(i), FormLine, LengthLine>>
      BY <1>7
    <2>2. Word(Filler(i)) /\ Len(Filler(i)) = i /\ Filler(i) \notin HeaderLines /\ \A x \in 1 .. i : Filler(i)[x] = "x"
      BY <1>1, FillerIs
    <2>3. Heads(H) /\ HasOf(H, FALSE, TRUE, TRUE)
      BY <2>1, <2>2, HeadsAre
    <2>4. /\ Len(H) = 3 /\ H[1] = Filler(i) /\ H[2] = FormLine /\ H[3] = LengthLine
          /\ m = 3
      BY <2>1
    <2>5. H \in Seq(Seq(Chars))
      BY <2>3 DEF Heads
    <2>6. PICK o : Layout(t, f, H, e, o)
      BY <1>5, <2>5
    <2>7. Word(g) /\ Len(g) = LineMax /\ g \notin HeaderLines /\ \A x \in 1 .. LineMax : g[x] = "x"
      BY <1>1, FillerIs
    <2> HIDE DEF f, H, e, t, m, g
    <2>8. /\ t \in Seq(Toks) /\ o \in [1 .. 4 -> Nat]
          /\ LineAt(t, 0, f, o[1])
          /\ \A j \in 1 .. 3 : LineAt(t, o[j], H[j], o[j + 1])
          /\ LineAt(t, o[4], <<>>, o[4] + 2)
          /\ EndsWith(t, o[4] + 2, e)
      BY <2>4, <2>6 DEF Layout, EndsWith
    <2>9. /\ LineAt(t, o[1], h, o[2]) /\ LineAt(t, o[2], FormLine, o[3]) /\ LineAt(t, o[3], LengthLine, o[4])
      <3>1. LineAt(t, o[1], H[1], o[1 + 1]) /\ LineAt(t, o[2], H[2], o[2 + 1]) /\ LineAt(t, o[3], H[3], o[3 + 1])
        BY <2>8
      <3> QED
        BY <2>4, <3>1
    <2>10. o[1] \in Nat /\ o[2] \in Nat /\ o[3] \in Nat /\ o[4] \in Nat /\ Len(t) \in Nat
      BY <2>8
    <2>11. TakenLine(t, 0, f, o[1])
      BY <1>2, <2>8, LineIsTaken
    <2>12. h = Filler(i) /\ Len(h) = i
      BY <2>2, <2>4
    <2>130. i \in Nat /\ i >= LineMax
      BY <1>1
    <2>13. /\ o[2] = (o[1] + i) + 2 /\ o[2] <= Len(t) /\ \A x \in 1 .. i : t[o[1] + x] = "x"
           /\ t[(o[1] + i) + 1] = "\r" /\ t[(o[1] + i) + 2] = "\n"
      <3>1. LineAt(t, o[1], h, o[2])
        BY <2>9
      <3> HIDE DEF h
      <3>2. o[2] = (o[1] + i) + 2 /\ o[2] <= Len(t) /\ t[(o[1] + i) + 1] = "\r" /\ t[(o[1] + i) + 2] = "\n"
        BY <2>12, <3>1 DEF LineAt
      <3>3. Laid(t, o[1], h)
        BY <3>1 DEF LineAt
      <3>4. \A x \in 1 .. i : t[o[1] + x] = h[x]
        BY <2>12, <3>3 DEF Laid
      <3>5. \A x \in 1 .. i : h[x] = "x"
        BY <2>2, <2>12
      <3> QED
        BY <3>2, <3>4, <3>5
    <2>14. TakenLine(t, o[1], g, o[1] + LineMax)
      <3>1. \A x \in 1 .. LineMax : x \in 1 .. i
        BY <1>1
      <3>2. o[1] + LineMax <= Len(t) /\ o[1] + LineMax \in Nat
        <4>1. o[2] = (o[1] + i) + 2 /\ o[2] <= Len(t)
          BY <2>13
        <4> QED
          BY <1>1, <2>10, <2>130, <4>1
      <3>3. Laid(t, o[1], g)
        BY <2>7, <2>10, <2>13, <3>1, <3>2 DEF Laid
      <3> QED
        BY <2>7, <3>2, <3>3 DEF TakenLine
    <2>15. CASE i = LineMax
      <3> DEFINE G == <<g>>
                 p == [j \in 1 .. 2 |-> IF j = 1 THEN o[1] ELSE o[1] + LineMax]
      <3>1. Heads(G) /\ HasOf(G, FALSE, FALSE, FALSE) /\ Len(G) = 1 /\ G[1] = g
        BY <2>7, HeadsAre
      <3>2. p \in [1 .. 2 -> Nat] /\ p[1] = o[1] /\ p[2] = o[1] + LineMax
        BY <1>1, <2>10
      <3> HIDE DEF G, p
      <3>3. TakenLine(t, p[2], <<>>, p[2] + 2)
        <4>1. Len(<<>>) = 0 /\ 0 < LineMax
          BY <1>1
        <4>2. p[2] \in Nat /\ p[2] + 2 <= Len(t) /\ p[2] + 2 \in Nat
          BY <1>1, <2>10, <2>13, <2>15, <3>2
        <4>3. p[2] + Len(<<>>) = p[2]
          BY <4>1, <4>2
        <4>4. t[(p[2] + Len(<<>>)) + 1] = "\r" /\ t[(p[2] + Len(<<>>)) + 2] = "\n"
          BY <2>13, <2>15, <3>2, <4>3
        <4>5. Laid(t, p[2], <<>>)
          <5>1. p[2] + Len(<<>>) <= Len(t)
            BY <2>10, <4>2, <4>3
          <5> QED
            BY <4>1, <4>2, <5>1 DEF Laid
        <4> QED
          BY <4>1, <4>2, <4>3, <4>4, <4>5 DEF TakenLine
      <3>4. ~Short(r)
        <4>1. h \in ToSet(H)
          <5>1. Among(h, H)
            BY <2>4 DEF Among
          <5> QED
            BY <2>5, <5>1, ToSetIs
        <4>2. ~(Len(h) < LineMax)
          BY <1>1, <2>12, <2>15
        <4> QED
          BY <4>1, <4>2 DEF Short, H
      <3>5. HeadsOf(Among(CookieLine, G), Among(FormLine, G), Among(LengthLine, G), r)
        BY <3>1, <3>4 DEF HasOf, HeadsOf
      <3>6. \A j \in 1 .. 1 : TakenLine(t, p[j], G[j], p[j + 1])
        BY <2>14, <3>1, <3>2
      <3>7. Planned(t, r, G, p)
        <4>1. TakenLine(t, 0, First(r), p[1])
          BY <2>11, <3>2 DEF f
        <4>2. p \in [1 .. Len(G) + 1 -> Nat] /\ Len(G) + 1 = 2
          BY <3>1, <3>2
        <4>3. ~Among(FormLine, G)
          BY <3>1 DEF HasOf
        <4> QED
          BY <3>1, <3>3, <3>5, <3>6, <4>1, <4>2, <4>3 DEF Planned
      <3> QED
        BY <1>2, <1>7, <3>7, PlanFrom DEF t, f
    <2>16. CASE i = LineMax + 1
      <3> DEFINE G == <<g, OtherLine, FormLine, LengthLine>>
                 p == [j \in 1 .. 5 |-> IF j = 1 THEN o[1] ELSE IF j = 2 THEN o[1] + LineMax ELSE o[j - 1]]
      <3>1. /\ Heads(G) /\ HasOf(G, FALSE, TRUE, TRUE) /\ Len(G) = 4
            /\ G[1] = g /\ G[2] = OtherLine /\ G[3] = FormLine /\ G[4] = LengthLine
        BY <2>7, HeadsAre
      <3>2. /\ p[1] = o[1] /\ p[2] = o[1] + LineMax
            /\ p[3] = o[2] /\ p[4] = o[3] /\ p[5] = o[4]
        OBVIOUS
      <3>3. p \in [1 .. 5 -> Nat]
        <4>1. \A j \in 1 .. 5 : j = 1 \/ j = 2 \/ j = 3 \/ j = 4 \/ j = 5
          OBVIOUS
        <4>2. p[1] \in Nat /\ p[2] \in Nat /\ p[3] \in Nat /\ p[4] \in Nat /\ p[5] \in Nat
          <5> HIDE DEF p
          <5> QED
            BY <1>1, <2>10, <3>2
        <4>3. \A j \in 1 .. 5 : p[j] \in Nat
          <5> HIDE DEF p
          <5> QED
            BY <4>1, <4>2
        <4> QED
          BY <4>3
      <3> HIDE DEF G, p
      <3>4. TakenLine(t, p[2], OtherLine, p[3])
        <4>1. o[2] = (p[2] + 1) + 2 /\ p[2] \in Nat /\ p[2] + 1 <= Len(t) /\ Len(OtherLine) = 1 /\ 1 < LineMax
          <5>1. o[2] = (o[1] + i) + 2 /\ o[2] <= Len(t) /\ p[2] = o[1] + LineMax
            BY <2>13, <3>2
          <5> DEFINE o1 == o[1]
                     o2 == o[2]
                     p2 == p[2]
                     z == Len(t)
          <5>3. /\ o2 = (o1 + i) + 2 /\ o2 <= z /\ p2 = o1 + LineMax /\ i = LineMax + 1
                /\ o1 \in Nat /\ o2 \in Nat /\ z \in Nat /\ LineMax \in Nat /\ LineMax > 6
            BY <1>1, <2>10, <2>16, <5>1
          <5> HIDE DEF o1, o2, p2, z
          <5>4. o2 = (p2 + 1) + 2 /\ p2 \in Nat /\ p2 + 1 <= z /\ 1 < LineMax
            BY <5>3
          <5>2. o[2] = (p[2] + 1) + 2 /\ p[2] \in Nat /\ p[2] + 1 <= Len(t) /\ 1 < LineMax
            BY <5>4 DEF o1, o2, p2, z
          <5> QED
            BY <5>2, LinesAre
        <4>2. t[p[2] + 1] = "x" /\ OtherLine[1] = "x"
          <5>1. LineMax + 1 \in 1 .. i /\ o[1] + (LineMax + 1) = p[2] + 1
            <6>1. p[2] = o[1] + LineMax
              BY <3>2
            <6> QED
              BY <1>1, <2>10, <2>16, <6>1
          <5> QED
            BY <2>13, <5>1 DEF OtherLine
        <4>3. Laid(t, p[2], OtherLine)
          BY <4>1, <4>2 DEF Laid
        <4>4. (o[1] + i) + 1 = (p[2] + 1) + 1 /\ (o[1] + i) + 2 = (p[2] + 1) + 2
          BY <1>1, <2>10, <2>16, <3>2
        <4>5. t[(p[2] + 1) + 1] = "\r" /\ t[(p[2] + 1) + 2] = "\n"
          BY <2>13, <4>4
        <4>6. p[3] = (p[2] + 1) + 2 /\ p[3] <= Len(t) /\ p[3] \in Nat
          BY <2>10, <2>13, <3>2, <4>1
        <4> QED
          BY <4>1, <4>3, <4>5, <4>6 DEF TakenLine
      <3>5. TakenLine(t, p[3], FormLine, p[4]) /\ TakenLine(t, p[4], LengthLine, p[5])
        <4>1. Len(FormLine) < LineMax /\ Len(LengthLine) < LineMax /\ FormLine \in Seq(Chars) /\ LengthLine \in Seq(Chars)
          BY <1>1, LinesAre DEF Word
        <4>2. TakenLine(t, o[2], FormLine, o[3])
          BY <2>8, <2>9, <4>1, LineIsTaken
        <4>3. TakenLine(t, o[3], LengthLine, o[4])
          BY <2>8, <2>9, <4>1, LineIsTaken
        <4> QED
          BY <3>2, <4>2, <4>3
      <3>6. TakenLine(t, p[5], <<>>, p[5] + 2)
        <4>1. Len(<<>>) < LineMax
          BY <1>1, <1>4
        <4>2. TakenLine(t, o[4], <<>>, o[4] + 2)
          BY <1>4, <2>8, <4>1, LineIsTaken
        <4> QED
          BY <3>2, <4>2
      <3>7. HeadsOf(Among(CookieLine, G), Among(FormLine, G), Among(LengthLine, G), r)
        <4>1. CookieLine \notin ToSet(H) /\ FormLine \in ToSet(H) /\ LengthLine \in ToSet(H)
          <5>1. CookieLine \in ToSet(H) <=> Among(CookieLine, H)
            BY <2>5, ToSetIs
          <5>2. FormLine \in ToSet(H) <=> Among(FormLine, H)
            BY <2>5, ToSetIs
          <5>3. LengthLine \in ToSet(H) <=> Among(LengthLine, H)
            BY <2>5, ToSetIs
          <5> QED
            BY <2>3, <5>1, <5>2, <5>3 DEF HasOf, H
        <4> QED
          BY <3>1, <4>1 DEF HasOf, HeadsOf, H
      <3>8. \A j \in 1 .. 4 : TakenLine(t, p[j], G[j], p[j + 1])
        <4>1. \A j \in 1 .. 4 : j = 1 \/ j = 2 \/ j = 3 \/ j = 4
          OBVIOUS
        <4>2. /\ TakenLine(t, p[1], G[1], p[1 + 1]) /\ TakenLine(t, p[2], G[2], p[2 + 1])
              /\ TakenLine(t, p[3], G[3], p[3 + 1]) /\ TakenLine(t, p[4], G[4], p[4 + 1])
          BY <2>14, <3>1, <3>2, <3>4, <3>5
        <4> QED
          BY <4>1, <4>2
      <3>9. Planned(t, r, G, p)
        <4>1. TakenLine(t, 0, First(r), p[1])
          BY <2>11, <3>2 DEF f
        <4>2. p \in [1 .. Len(G) + 1 -> Nat] /\ Len(G) + 1 = 5
          BY <3>1, <3>3
        <4>3. EndsWith(t, p[5] + 2, Encoded(r.form))
          BY <2>8, <3>2 DEF e
        <4> QED
          BY <3>1, <3>6, <3>7, <3>8, <4>1, <4>2, <4>3 DEF Planned
      <3> QED
        BY <1>2, <1>7, <3>9, PlanFrom DEF t, f
    <2> QED
      BY <2>15, <2>16
  <1> QED
    BY <1>6, <1>7, SentHeaders
-----------------------------------------------------------------------------
(* Reading a request: the invariant.                                       *)

LEMMA TextToks ==
    ASSUME NEW r \in Requests
    PROVE  Text(r) \in Seq(Toks)
  <1> DEFINE f == First(r)
             H == r.headers
             e == Encoded(r.form)
  <1>1. f \in Seq(Toks) /\ e \in Seq(Toks)
    <2>1. f \in Seq(Chars)
      BY RequestIs, FirstIs DEF FirstText
    <2> QED
      BY <2>1, SentForm, CharsAreToks
  <1>2. H \in Seq(Seq(Chars))
    <2>1. CASE Heads(H)
      BY <2>1 DEF Heads
    <2>2. CASE H \in {<<Filler(LineMax), FormLine, LengthLine>>, <<Filler(LineMax + 1), FormLine, LengthLine>>}
      <3>1. PICK i \in {LineMax, LineMax + 1} : H = <<Filler(i), FormLine, LengthLine>>
        BY <2>2
      <3>2. i \in Nat \ {0}
        BY RequestAssumption
      <3>3. Word(Filler(i)) /\ Filler(i) \notin HeaderLines
        BY <3>2, FillerIs
      <3> DEFINE G == <<Filler(i), FormLine, LengthLine>>
      <3>4. Heads(G)
        BY <3>3, HeadsAre
      <3> HIDE DEF G
      <3>5. G \in Seq(Seq(Chars))
        BY <3>4 DEF Heads
      <3>6. H = G
        BY <3>1 DEF G
      <3> QED
        BY <3>5, <3>6
    <2> QED
      BY <2>1, <2>2, SentHeaders
  <1>3. H \in Seq(Seq(Toks))
    BY <1>2, CharsAreToks, SeqMonotonic
  <1>4. PICK o : Layout(Text(r), f, H, e, o)
    BY <1>1, <1>3, TextIs
  <1> QED
    BY <1>4 DEF Layout

\* What has been understood of a request before the line j.
GotAt(k, r, j) ==
    IF j = 1 THEN Nothing
    ELSE [method |-> k.line[1][1], path |-> Tail(k.line[1]), form |-> Had(k, j, FormLine),
          length |-> IF Had(k, j, LengthLine) THEN Len(Encoded(r.form)) ELSE 0]

CookieVariables == AddVariable(<<>>, <<"W">>, <<"3">>)

VarsAt(k, j) == IF Had(k, j, CookieLine) THEN CookieVariables ELSE <<>>

\* The first p tokens of the text have been taken.
Rest(p) ==
    /\ p \in Nat /\ buf \in Seq(Toks) /\ wire \in Seq(Toks)
    /\ Laid(Text(sent), p, buf) /\ Laid(Text(sent), p + Len(buf), wire)
    /\ (p + Len(buf)) + Len(wire) = Len(Text(sent))

\* A part of the line j has been taken.
InLine(k, p, j) ==
    /\ ~late /\ j \in 1 .. k.n
    /\ phase = IF j = 1 THEN "first" ELSE "headers"
    /\ got = GotAt(k, sent, j) /\ variables = VarsAt(k, j) /\ body = <<>>
    /\ line \in Seq(Chars) /\ Len(line) < LineMax /\ Len(line) <= Len(k.line[j])
    /\ \A i \in 1 .. Len(line) : line[i] = k.line[j][i]
    /\ \/ p = k.at[j] + Len(line)
       \/ p = (k.at[j] + Len(line)) + 1 /\ Len(line) = Len(k.line[j])

\* Where the body that is read begins: on time, behind the empty line.
BodyAt(k, q) ==
    /\ q \in Nat /\ k.at[k.n] <= q /\ q <= k.at[k.n + 1]
    /\ body \in Seq(Toks) /\ Laid(Text(sent), q, body)
    /\ ~late => q = k.at[k.n + 1]

InBody(k, p, j, q) ==
    /\ phase = "body" /\ j \in k.n .. k.n + 1
    /\ ~late => j = k.n + 1
    /\ got = GotAt(k, sent, j) /\ variables = VarsAt(k, j) /\ WantsBody(got)
    /\ BodyAt(k, q) /\ p = q + Len(body) /\ Len(body) < got.length

\* The lines before j have been understood, and the body if there is one.
Understood(k, j) ==
    /\ j \in 1 .. k.n + 1
    /\ got = GotAt(k, sent, j)
    /\ ~late => j = k.n + 1 /\ sent.method # "PUT"
    /\ WantsBody(got) => /\ j >= k.n
                         /\ \E q : BodyAt(k, q) /\ (~late => Len(body) = got.length)

InStore(k, j) == phase = "store" /\ Understood(k, j) /\ variables = VarsAt(k, j)

InDone(k, j) == phase = "done" /\ Understood(k, j) /\ variables = Stored(VarsAt(k, j), got, body)

Begun(k) ==
    \/ \E p : Rest(p) /\ \E j : InLine(k, p, j)
    \/ \E p : Rest(p) /\ \E j, q : InBody(k, p, j, q)
    \/ \E j : InStore(k, j) \/ InDone(k, j)
    \/ phase = "refused"

RequestInv ==
    \/ /\ phase = "idle" /\ ~late /\ buf = <<>> /\ line = <<>>
       /\ got = Nothing /\ body = <<>> /\ variables = <<>>
    \/ sent \in Requests /\ \E k : Plan(k, sent) /\ Begun(k)

-----------------------------------------------------------------------------

LEMMA HadNext ==
    ASSUME NEW k, k.n \in Nat, k.n >= 1, NEW l
    PROVE  /\ ~Had(k, 1, l) /\ ~Had(k, 2, l)
           /\ \A j \in 2 .. k.n : Had(k, j + 1, l) <=> Had(k, j, l) \/ k.line[j] = l
  <1>1. \A i \in 2 .. k.n : ~(i < 1) /\ ~(i < 2)
    OBVIOUS
  <1>2. \A i, j \in 2 .. k.n : i < j + 1 <=> i < j \/ i = j
    OBVIOUS
  <1> QED
    BY <1>1, <1>2 DEF Had

LEMMA GotLength ==
    ASSUME NEW m, NEW p, NEW x, NEW y, NEW l, NEW g, g = [method |-> m, path |-> p, form |-> x, length |-> y]
    PROVE  [g EXCEPT !.length = l] = [method |-> m, path |-> p, form |-> x, length |-> l]
  OBVIOUS

WithForm(g) == [g EXCEPT !.form = TRUE]
WithLength(g, l) == [g EXCEPT !.length = l]
WithFirst(g, m, p) == [g EXCEPT !.method = m, !.path = p]

LEMMA GotFirst ==
    ASSUME NEW m, NEW p, NEW m1, NEW p1, NEW x, NEW y, NEW g,
           g = [method |-> m, path |-> p, form |-> x, length |-> y]
    PROVE  WithFirst(g, m1, p1) = [method |-> m1, path |-> p1, form |-> x, length |-> y]
  <1> DEFINE r == [method |-> m1, path |-> p1, form |-> x, length |-> y]
             D == {"method", "path", "form", "length"}
  <1>1. DOMAIN g = D
    OBVIOUS
  <1>2. [g EXCEPT !.method = m1, !.path = p1] = [i \in D |-> r[i]]
    <2>1. [g EXCEPT !.method = m1, !.path = p1]
             = [i \in D |-> IF i = "path" THEN p1 ELSE IF i = "method" THEN m1 ELSE g[i]]
      BY <1>1
    <2> QED
      BY <2>1
  <1>3. r = [i \in D |-> r[i]]
    OBVIOUS
  <1> QED
    BY <1>2, <1>3 DEF WithFirst

\* What the reader of headers makes of the line j.
LEMMA GotNext ==
    ASSUME NEW k, NEW r, k.n \in Nat, k.n >= 1, NEW j \in 2 .. k.n
    PROVE  /\ k.line[j] = FormLine => GotAt(k, r, j + 1) = WithForm(GotAt(k, r, j))
           /\ k.line[j] = LengthLine
                 => GotAt(k, r, j + 1) = WithLength(GotAt(k, r, j), Len(Encoded(r.form)))
           /\ k.line[j] # FormLine /\ k.line[j] # LengthLine => GotAt(k, r, j + 1) = GotAt(k, r, j)
  <1> DEFINE g == GotAt(k, r, j)
             h == GotAt(k, r, j + 1)
             len == Len(Encoded(r.form))
  <1>1. j # 1 /\ j + 1 # 1
    OBVIOUS
  <1>2. g = [method |-> k.line[1][1], path |-> Tail(k.line[1]), form |-> Had(k, j, FormLine),
             length |-> IF Had(k, j, LengthLine) THEN len ELSE 0]
    BY <1>1 DEF GotAt
  <1>3. h = [method |-> k.line[1][1], path |-> Tail(k.line[1]), form |-> Had(k, j + 1, FormLine),
             length |-> IF Had(k, j + 1, LengthLine) THEN len ELSE 0]
    BY <1>1 DEF GotAt
  <1> HIDE DEF len, g, h
  <1>4. Had(k, j + 1, FormLine) <=> Had(k, j, FormLine) \/ k.line[j] = FormLine
    BY HadNext
  <1>5. Had(k, j + 1, LengthLine) <=> Had(k, j, LengthLine) \/ k.line[j] = LengthLine
    BY HadNext
  <1>6. FormLine # LengthLine
    BY LinesAre
  <1>7. Had(k, j, FormLine) \in BOOLEAN /\ Had(k, j + 1, FormLine) \in BOOLEAN
    BY DEF Had
  <1> DEFINE a == Had(k, j, FormLine)
             b == Had(k, j + 1, FormLine)
             c == Had(k, j, LengthLine)
             d == Had(k, j + 1, LengthLine)
  <1> HIDE DEF a, b, c, d
  <1> DEFINE m == k.line[1][1]
             p == Tail(k.line[1])
             Got(x, y) == [method |-> m, path |-> p, form |-> x, length |-> y]
  <1>8. g = Got(a, IF c THEN len ELSE 0) /\ h = Got(b, IF d THEN len ELSE 0)
    BY <1>2, <1>3 DEF a, b, c, d
  <1>9. ASSUME k.line[j] = FormLine
        PROVE  h = [g EXCEPT !.form = TRUE]
    <2>1. b = TRUE /\ (d <=> c)
      BY <1>4, <1>5, <1>6, <1>7, <1>9 DEF a, b, c, d
    <2> DEFINE l == IF c THEN len ELSE 0
    <2>2. h = Got(b, l) /\ g = Got(a, l)
      BY <1>8, <2>1
    <2>3. b = TRUE
      BY <2>1
    <2> HIDE DEF l, m, p
    <2> DEFINE u == [g EXCEPT !.form = TRUE]
               D == {"method", "path", "form", "length"}
    <2>4. DOMAIN g = D /\ DOMAIN h = D
      BY <2>2
    <2>5. u["method"] = m /\ u["path"] = p /\ u["length"] = l
      BY <2>2
    <2>6. u["form"] = TRUE
      BY Zenon, <2>4
    <2>7. h["method"] = m /\ h["path"] = p /\ h["length"] = l
      BY <2>2
    <2>8. h["form"] = b
      BY <2>2
    <2>9. u = [i \in D |-> u[i]]
      BY <2>4
    <2>10. h = [i \in D |-> h[i]]
      BY <2>2, <2>4
    <2> HIDE DEF u
    <2>11. \A i \in D : u[i] = h[i]
      BY <2>3, <2>5, <2>6, <2>7, <2>8
    <2> HIDE DEF D
    <2>12. u = h
      BY <2>9, <2>10, <2>11
    <2> QED
      BY <2>12 DEF u
  <1>10. ASSUME k.line[j] = LengthLine
         PROVE  h = [g EXCEPT !.length = len]
    <2>1. b = a /\ d
      BY <1>4, <1>5, <1>6, <1>7, <1>10 DEF a, b, c, d
    <2> DEFINE l == IF c THEN len ELSE 0
    <2>2. h = Got(a, len) /\ g = Got(a, l)
      BY <1>8, <2>1
    <2> HIDE DEF l, m, p
    <2> QED
      BY <2>2, GotLength
  <1>11. ASSUME k.line[j] # FormLine, k.line[j] # LengthLine
         PROVE  h = g
    <2>1. b = a /\ (d <=> c)
      BY <1>4, <1>5, <1>7, <1>11 DEF a, b, c, d
    <2> QED
      BY <1>8, <2>1
  <1> QED
    BY <1>9, <1>10, <1>11 DEF g, h, len, WithForm, WithLength

LEMMA WantsAt ==
    ASSUME NEW k, NEW r, k.n \in Nat, k.n >= 1, NEW j \in 1 .. k.n + 1, WantsBody(GotAt(k, r, j))
    PROVE  /\ j # 1 /\ Had(k, j, FormLine) /\ Had(k, j, LengthLine)
           /\ GotAt(k, r, j).length = Len(Encoded(r.form))
  <1>1. j # 1
    <2>1. ~Nothing.form
      BY DEF Nothing
    <2> QED
      BY <2>1 DEF WantsBody, GotAt
  <1>2. GotAt(k, r, j).form = Had(k, j, FormLine)
    BY <1>1 DEF GotAt
  <1>3. GotAt(k, r, j).length = IF Had(k, j, LengthLine) THEN Len(Encoded(r.form)) ELSE 0
    BY <1>1 DEF GotAt
  <1>4. ~(0 > 0)
    OBVIOUS
  <1> QED
    BY <1>1, <1>2, <1>3, <1>4 DEF WantsBody

LEMMA VarsNext ==
    ASSUME NEW k, NEW r, Plan(k, r), NEW j \in 2 .. k.n
    PROVE  VarsAt(k, j + 1) = IF k.line[j] = CookieLine
                              THEN AddVariable(VarsAt(k, j), <<"W">>, <<"3">>) ELSE VarsAt(k, j)
  <1>1. /\ k.n \in Nat /\ k.n >= 1
        /\ \A a, b \in 2 .. k.n : k.line[a] = CookieLine /\ k.line[b] = CookieLine => a = b
    BY DEF Plan
  <1>2. Had(k, j + 1, CookieLine) <=> Had(k, j, CookieLine) \/ k.line[j] = CookieLine
    BY <1>1, HadNext
  <1>3. k.line[j] = CookieLine => ~Had(k, j, CookieLine)
    <2>1. \A i \in 2 .. k.n : i < j => i # j
      OBVIOUS
    <2> QED
      BY <1>1, <2>1 DEF Had
  <1> QED
    BY <1>2, <1>3 DEF VarsAt, CookieVariables

-----------------------------------------------------------------------------
(* Reading a request: the steps.                                           *)

LEMMA RestTaken ==
    ASSUME NEW p, sent \in Requests, Rest(p), buf # <<>>, buf' = Tail(buf), wire' = wire, sent' = sent
    PROVE  /\ Rest(p + 1)' /\ p + 1 <= Len(Text(sent)) /\ p \in Nat
           /\ Head(buf) = Text(sent)[p + 1] /\ Head(buf) \in Toks
  <1> DEFINE t == Text(sent)
             c == Head(buf)
             u == Tail(buf)
  <1>1. t \in Seq(Toks) /\ Len(t) \in Nat
    BY TextToks
  <1>2. p \in Nat /\ buf \in Seq(Toks) /\ wire \in Seq(Toks) /\ Len(buf) \in Nat /\ Len(wire) \in Nat
    BY DEF Rest
  <1>3. /\ p + Len(buf) <= Len(t) /\ \A i \in 1 .. Len(buf) : t[p + i] = buf[i]
        /\ Laid(t, p + Len(buf), wire) /\ (p + Len(buf)) + Len(wire) = Len(t)
    BY DEF Rest, Laid
  <1>4. /\ Len(buf) >= 1 /\ c = buf[1] /\ c \in Toks /\ u \in Seq(Toks) /\ Len(u) = Len(buf) - 1
        /\ \A i \in 1 .. Len(u) : u[i] = buf[i + 1]
    <2>1. c \in Toks /\ u \in Seq(Toks) /\ Len(u) = Len(buf) - 1 /\ \A i \in 1 .. Len(u) : u[i] = buf[i + 1]
      BY <1>2, HeadTailProperties
    <2>2. Len(buf) >= 1 /\ c = buf[1]
      BY <1>2
    <2> QED
      BY <2>1, <2>2
  <1> HIDE DEF t, c, u
  <1>5. c = t[p + 1]
    <2>1. 1 \in 1 .. Len(buf)
      BY <1>2, <1>4
    <2> QED
      BY <1>3, <1>4, <2>1
  <1>6. Laid(t, p + 1, u)
    <2>1. p + 1 \in Nat /\ (p + 1) + Len(u) <= Len(t)
      BY <1>2, <1>3, <1>4
    <2>2. \A i \in 1 .. Len(u) : i + 1 \in 1 .. Len(buf) /\ (p + 1) + i = p + (i + 1)
      BY <1>2, <1>4
    <2>3. \A i \in 1 .. Len(u) : t[(p + 1) + i] = u[i]
      BY <1>3, <1>4, <2>2
    <2> QED
      BY <2>1, <2>3 DEF Laid
  <1>7. (p + 1) + Len(u) = p + Len(buf)
    BY <1>2, <1>4
  <1>8. Laid(t, (p + 1) + Len(u), wire) /\ ((p + 1) + Len(u)) + Len(wire) = Len(t)
    BY <1>3, <1>7
  <1>9. p + 1 <= Len(t) /\ p + 1 \in Nat
    BY <1>1, <1>2, <1>3, <1>4
  <1>10. buf' = u /\ Text(sent') = t
    BY DEF u, t
  <1>11. Rest(p + 1)'
    BY <1>2, <1>4, <1>6, <1>8, <1>9, <1>10 DEF Rest
  <1> QED
    BY <1>2, <1>4, <1>5, <1>9, <1>11 DEF t, c

LEMMA RestRead ==
    ASSUME NEW p, NEW n \in Nat, sent \in Requests, Rest(p), buf = <<>>, n <= Len(wire),
           buf' = SubSeq(wire, 1, n), wire' = SubSeq(wire, n + 1, Len(wire)), sent' = sent
    PROVE  Rest(p)'
  <1> DEFINE t == Text(sent)
             a == SubSeq(wire, 1, n)
             b == SubSeq(wire, n + 1, Len(wire))
  <1>1. p \in Nat /\ wire \in Seq(Toks) /\ Len(wire) \in Nat /\ Len(buf) = 0
    BY DEF Rest
  <1>2. /\ p + Len(wire) = Len(t) /\ \A i \in 1 .. Len(wire) : t[p + i] = wire[i]
    <2>1. p + Len(buf) = p
      BY <1>1
    <2> QED
      BY <2>1 DEF Rest, Laid
  <1>3. \A i \in 1 .. Len(wire) : wire[i] \in Toks
    BY <1>1
  <1>4. a \in Seq(Toks) /\ Len(a) = n /\ \A i \in 1 .. n : a[i] = wire[i]
    <2>1. \A i \in 1 .. n : wire[i] \in Toks
      BY <1>1, <1>3
    <2>2. /\ a \in Seq(Toks) /\ Len(a) = IF 1 <= n THEN n - 1 + 1 ELSE 0
          /\ \A i \in 1 .. n - 1 + 1 : a[i] = wire[1 + i - 1]
      BY <2>1, SubSeqProperties
    <2>3. n - 1 + 1 = n /\ (IF 1 <= n THEN n - 1 + 1 ELSE 0) = n /\ \A i \in 1 .. n : 1 + i - 1 = i
      OBVIOUS
    <2> HIDE DEF a
    <2> QED
      BY <2>2, <2>3
  <1>5. b \in Seq(Toks) /\ Len(b) = Len(wire) - n /\ \A i \in 1 .. Len(wire) - n : b[i] = wire[n + i]
    <2>1. \A i \in n + 1 .. Len(wire) : wire[i] \in Toks
      BY <1>1, <1>3
    <2>2. /\ b \in Seq(Toks)
          /\ Len(b) = IF n + 1 <= Len(wire) THEN Len(wire) - (n + 1) + 1 ELSE 0
          /\ \A i \in 1 .. Len(wire) - (n + 1) + 1 : b[i] = wire[(n + 1) + i - 1]
      BY <1>1, <2>1, SubSeqProperties
    <2>3. /\ Len(wire) - (n + 1) + 1 = Len(wire) - n
          /\ (IF n + 1 <= Len(wire) THEN Len(wire) - (n + 1) + 1 ELSE 0) = Len(wire) - n
          /\ \A i \in 1 .. Len(wire) - n : (n + 1) + i - 1 = n + i
      BY <1>1
    <2> HIDE DEF b
    <2> QED
      BY <2>2, <2>3
  <1> HIDE DEF t, a, b
  <1>6. Laid(t, p, a)
    <2>1. p + Len(a) <= Len(t) /\ \A i \in 1 .. n : i \in 1 .. Len(wire)
      BY <1>1, <1>2, <1>4
    <2> QED
      BY <1>1, <1>2, <1>4, <2>1 DEF Laid
  <1>7. Laid(t, p + Len(a), b) /\ (p + Len(a)) + Len(b) = Len(t)
    <2>1. p + Len(a) \in Nat /\ (p + Len(a)) + Len(b) = Len(t)
      <3>1. p + Len(wire) = Len(t)
        BY <1>2
      <3>2. (p + n) + (Len(wire) - n) = p + Len(wire)
        BY <1>1
      <3>3. Len(a) = n /\ Len(b) = Len(wire) - n
        BY <1>4, <1>5
      <3>4. (p + Len(a)) + Len(b) = Len(t)
        BY <3>1, <3>2, <3>3
      <3>5. p + n \in Nat
        BY <1>1
      <3> QED
        BY <3>3, <3>4, <3>5
    <2>2. \A i \in 1 .. Len(b) : n + i \in 1 .. Len(wire) /\ (p + Len(a)) + i = p + (n + i)
      BY <1>1, <1>4, <1>5
    <2>3. \A i \in 1 .. Len(b) : t[(p + Len(a)) + i] = b[i]
      BY <1>2, <1>5, <2>2
    <2>4. (p + Len(a)) + Len(b) <= Len(t)
      BY <1>1, <1>4, <1>5, <2>1
    <2> QED
      BY <2>1, <2>3, <2>4 DEF Laid
  <1>8. buf' = a /\ wire' = b /\ Text(sent') = t
    BY DEF a, b, t
  <1> QED
    BY <1>1, <1>4, <1>5, <1>6, <1>7, <1>8 DEF Rest

LEMMA PlanTypes ==
    ASSUME NEW k, NEW r, Plan(k, r)
    PROVE  /\ k.n \in Nat /\ k.n >= 1 /\ k.line \in [1 .. k.n -> Seq(Chars)]
           /\ k.at \in [1 .. k.n + 1 -> Nat] /\ k.at[1] = 0
           /\ \A j \in 1 .. k.n : k.line[j] \in Seq(Chars) /\ Len(k.line[j]) \in Nat
           /\ \A j \in 1 .. k.n + 1 : k.at[j] \in Nat
  <1>1. /\ k.n \in Nat /\ k.n >= 1 /\ k.line \in [1 .. k.n -> Seq(Chars)]
        /\ k.at \in [1 .. k.n + 1 -> Nat] /\ k.at[1] = 0
    BY DEF Plan
  <1>2. \A j \in 1 .. k.n : k.line[j] \in Seq(Chars)
    BY <1>1
  <1>3. \A s \in Seq(Chars) : Len(s) \in Nat
    OBVIOUS
  <1> QED
    BY <1>1, <1>2, <1>3

LEMMA PlanTaken ==
    ASSUME NEW k, NEW r, Plan(k, r), NEW j \in 1 .. k.n
    PROVE  TakenLine(Text(r), k.at[j], k.line[j], k.at[j + 1])
  BY DEF Plan

LEMMA PlanEnds ==
    ASSUME NEW k, NEW r, Plan(k, r), NEW j \in 2 .. k.n
    PROVE  r.method # "PUT" /\ (k.line[j] = <<>> <=> j = k.n)
  <1>1. k.n # 1 /\ k.n \in Nat
    BY PlanTypes
  <1>2. r.method = "PUT" => k.n = 1
    BY DEF Plan
  <1>3. r.method # "PUT" => \A i \in 2 .. k.n : k.line[i] = <<>> <=> i = k.n
    BY DEF Plan
  <1> QED
    BY <1>1, <1>2, <1>3

LEMMA FirstPlanned ==
    ASSUME NEW k, NEW r, Plan(k, r), r \in Requests
    PROVE  k.line[1] # <<>> /\ k.line[1][1] = r.method
  <1>1. FirstText(First(r), r)
    BY RequestIs, FirstIs
  <1>4. k.line[1] = First(r)
    BY DEF Plan
  <1>5. Len(First(r)) # 0 /\ First(r)[1] = r.method
    BY <1>1 DEF FirstText
  <1>2. Len(k.line[1]) # 0
    BY <1>4, <1>5
  <1>3. Len(<<>>) = 0
    OBVIOUS
  <1> QED
    BY <1>2, <1>3, <1>4, <1>5

\* The line j begins.
LEMMA LineBegins ==
    ASSUME NEW k, Plan(k, sent), NEW j \in 1 .. k.n, sent' = sent, ~late', Rest(k.at[j])',
           phase' = IF j = 1 THEN "first" ELSE "headers",
           got' = GotAt(k, sent, j), variables' = VarsAt(k, j), body' = <<>>, line' = <<>>
    PROVE  Begun(k)'
  <1>1. k.at[j] \in Nat /\ k.line[j] \in Seq(Chars)
    <2>1. j \in 1 .. k.n + 1
      BY PlanTypes
    <2> QED
      BY <2>1, PlanTypes
  <1>2. /\ line' \in Seq(Chars) /\ Len(line') = 0 /\ 0 < LineMax /\ 0 <= Len(k.line[j])
        /\ \A i \in 1 .. Len(line') : FALSE
    <2>1. <<>> \in Seq(Chars) /\ Len(<<>>) = 0
      OBVIOUS
    <2>2. 0 <= Len(k.line[j]) /\ 0 < LineMax
      BY <1>1, RequestAssumption
    <2>3. \A i \in 1 .. 0 : FALSE
      OBVIOUS
    <2> QED
      BY <2>1, <2>2, <2>3
  <1>3. k.at[j] = k.at[j] + Len(line')
    BY <1>1, <1>2
  <1>4. InLine(k, k.at[j], j)'
    BY <1>2, <1>3 DEF InLine
  <1> QED
    BY <1>4 DEF Begun

LEMMA FirstLineEnds ==
    ASSUME NEW k, sent \in Requests, Plan(k, sent), sent' = sent, ~late', Rest(k.at[2])',
           got = Nothing, variables = <<>>, body' = <<>>, line' = <<>>, FirstLine(k.line[1])
    PROVE  Begun(k)'
  <1> DEFINE l == k.line[1]
  <1>1. l # <<>> /\ l[1] = sent.method
    BY FirstPlanned
  <1>2. sent.method \in {"GET", "POST", "PUT"}
    BY RequestIs
  <1>3. k.n \in Nat /\ k.n >= 1
    BY DEF Plan
  <1>4. CASE sent.method = "PUT"
    <2>1. phase' = "refused"
      BY <1>1, <1>4 DEF FirstLine
    <2> QED
      BY <2>1 DEF Begun
  <1>5. CASE sent.method # "PUT"
    <2>1. /\ got' = [got EXCEPT !.method = l[1], !.path = Tail(l)]
          /\ phase' = "headers" /\ variables' = variables
      BY <1>1, <1>2, <1>5 DEF FirstLine
    <2> DEFINE m == l[1]
               p == Tail(l)
    <2>2. got = [method |-> "", path |-> <<>>, form |-> FALSE, length |-> 0]
      BY DEF Nothing
    <2>3. got' = [method |-> m, path |-> p, form |-> FALSE, length |-> 0]
      <3> DEFINE no == FALSE
                 z == 0
                 none == ""
                 old == <<>>
      <3>1. got' = WithFirst(got, m, p)
        BY <2>1 DEF WithFirst
      <3>2. got = [method |-> none, path |-> old, form |-> no, length |-> z]
        BY <2>2
      <3> HIDE DEF m, p, no, z, none, old
      <3>3. got' = [method |-> m, path |-> p, form |-> no, length |-> z]
        BY <3>1, <3>2, GotFirst
      <3> QED
        BY <3>3 DEF no, z
    <2>4. ~Had(k, 2, FormLine)
      BY <1>3, HadNext
    <2>5. ~Had(k, 2, LengthLine)
      BY <1>3, HadNext
    <2>6. ~Had(k, 2, CookieLine)
      BY <1>3, HadNext
    <2>7. Had(k, 2, FormLine) = FALSE
      BY <2>4 DEF Had
    <2>8. GotAt(k, sent, 2) = [method |-> m, path |-> p, form |-> FALSE, length |-> 0]
      <3> DEFINE q == IF Had(k, 2, LengthLine) THEN Len(Encoded(sent.form)) ELSE 0
                 h == Had(k, 2, FormLine)
      <3>1. q = 0 /\ h = FALSE
        BY <2>5, <2>7
      <3>2. GotAt(k, sent, 2) = [method |-> m, path |-> p, form |-> h, length |-> q]
        BY DEF GotAt
      <3> HIDE DEF q, h, m, p
      <3> QED
        BY <3>1, <3>2
    <2>9. got' = GotAt(k, sent, 2)
      BY <2>3, <2>8
    <2>10. variables' = VarsAt(k, 2)
      BY <2>1, <2>6 DEF VarsAt
    <2>11. 2 \in 1 .. k.n
      BY <1>5 DEF Plan
    <2>12. phase' = IF 2 = 1 THEN "first" ELSE "headers"
      BY <2>1
    <2> QED
      BY <2>9, <2>10, <2>11, <2>12, LineBegins
  <1> QED
    BY <1>4, <1>5

LEMMA HeaderEnds ==
    ASSUME NEW k, sent \in Requests, Plan(k, sent), NEW j \in 2 .. k.n, sent' = sent, late' = late, ~late,
           Rest(k.at[j + 1])', got = GotAt(k, sent, j), variables = VarsAt(k, j), body' = <<>>, line' = <<>>,
           Header(k.line[j])
    PROVE  Begun(k)'
  <1> DEFINE l == k.line[j]
  <1>1. k.n \in Nat /\ k.n >= 1 /\ j \in 1 .. k.n /\ j + 1 # 1 /\ j # 1
    <2>1. k.n \in Nat /\ k.n >= 1
      BY PlanTypes
    <2> QED
      BY <2>1
  <1>2. sent.method # "PUT" /\ (l = <<>> <=> j = k.n)
    BY PlanEnds
  <1>8. /\ l = FormLine => GotAt(k, sent, j + 1) = WithForm(GotAt(k, sent, j))
        /\ l = LengthLine
              => GotAt(k, sent, j + 1) = WithLength(GotAt(k, sent, j), Len(Encoded(sent.form)))
        /\ l # FormLine /\ l # LengthLine => GotAt(k, sent, j + 1) = GotAt(k, sent, j)
    BY <1>1, GotNext
  <1>3. got' = GotAt(k, sent, j + 1)
    <2>1. got' = CASE l = FormLine -> WithForm(got)
                   [] l = LengthLine -> WithLength(got, Len(Encoded(sent.form)))
                   [] OTHER -> got
      BY DEF Header, FormLine, LengthLine, WithForm, WithLength
    <2>2. FormLine # LengthLine
      BY LinesAre
    <2>3. CASE l = FormLine
      BY <1>8, <2>1, <2>2, <2>3
    <2>4. CASE l = LengthLine
      BY <1>8, <2>1, <2>2, <2>4
    <2>5. CASE l # FormLine /\ l # LengthLine
      BY <1>8, <2>1, <2>5
    <2> QED
      BY <2>3, <2>4, <2>5
  <1>4. variables' = VarsAt(k, j + 1)
    BY VarsNext DEF Header, CookieLine
  <1>5. phase' = IF l # <<>> THEN "headers" ELSE IF WantsBody(got) THEN "body" ELSE "store"
    BY DEF Header
  <1>6. CASE l # <<>>
    <2>1. j + 1 \in 1 .. k.n
      BY <1>1, <1>2, <1>6
    <2>2. phase' = IF j + 1 = 1 THEN "first" ELSE "headers"
      BY <1>1, <1>5, <1>6
    <2> QED
      BY <1>3, <1>4, <2>1, <2>2, LineBegins
  <1>7. CASE l = <<>>
    <2>1. j = k.n /\ j + 1 \in 1 .. k.n + 1 /\ j + 1 \in k.n .. k.n + 1
      BY <1>1, <1>2, <1>7
    <2>2. got' = got
      <3>1. l # FormLine /\ l # LengthLine
        BY <1>7, LinesAre DEF Word
      <3> QED
        BY <1>3, <1>8, <3>1
    <2>3. BodyAt(k, k.at[k.n + 1])'
      <3>1. /\ k.at[k.n + 1] \in Nat /\ k.at[k.n] \in Nat
            /\ TakenLine(Text(sent), k.at[k.n], <<>>, k.at[k.n + 1])
        <4>1. TakenLine(Text(sent), k.at[j], k.line[j], k.at[j + 1])
          BY <1>1, PlanTaken
        <4>2. k.n \in 1 .. k.n + 1 /\ k.n + 1 \in 1 .. k.n + 1
          BY <1>1
        <4>3. k.at[k.n + 1] \in Nat /\ k.at[k.n] \in Nat
          BY <4>2, PlanTypes
        <4> QED
          BY <1>7, <2>1, <4>1, <4>3
      <3>2. Len(<<>>) = 0 /\ LineMax \in Nat
        BY RequestAssumption
      <3>3. k.at[k.n] <= k.at[k.n + 1]
        BY <3>1, <3>2 DEF TakenLine
      <3>4. body' \in Seq(Toks) /\ Len(body') = 0
        OBVIOUS
      <3>5. Laid(Text(sent), k.at[k.n + 1], body')
        <4>1. k.at[k.n + 1] <= Len(Text(sent))
          BY <3>1 DEF TakenLine
        <4>2. k.at[k.n + 1] + Len(body') = k.at[k.n + 1]
          BY <3>1, <3>4
        <4>3. \A i \in 1 .. Len(body') : FALSE
          BY <3>4
        <4> QED
          BY <3>1, <4>1, <4>2, <4>3 DEF Laid
      <3>6. k.at[k.n + 1] <= k.at[k.n + 1]
        BY <3>1
      <3> QED
        BY <3>1, <3>3, <3>4, <3>5, <3>6 DEF BodyAt
    <2>4. CASE WantsBody(got)
      <3>1. phase' = "body" /\ WantsBody(got')
        BY <1>5, <1>7, <2>2, <2>4
      <3>2. Len(body') < got'.length
        <4>3. j \in 1 .. k.n + 1 /\ WantsBody(GotAt(k, sent, j))
          BY <1>1, <2>4
        <4>4. GotAt(k, sent, j).length = Len(Encoded(sent.form))
          BY <1>1, <4>3, WantsAt
        <4>1. Len(body') = 0 /\ got.length > 0 /\ got.length = Len(Encoded(sent.form))
          BY <2>4, <4>4 DEF WantsBody
        <4>2. Len(Encoded(sent.form)) \in Nat
          BY SentForm
        <4> QED
          BY <2>2, <4>1, <4>2
      <3>3. k.at[k.n + 1] = k.at[k.n + 1] + Len(body')
        <4>1. k.at[k.n + 1] \in Nat /\ Len(body') = 0
          BY <2>3 DEF BodyAt
        <4> QED
          BY <4>1
      <3>4. InBody(k, k.at[k.n + 1], j + 1, k.at[k.n + 1])'
        BY <1>3, <1>4, <2>1, <2>3, <3>1, <3>2, <3>3 DEF InBody
      <3> QED
        BY <2>1, <3>4 DEF Begun
    <2>5. CASE ~WantsBody(got)
      <3>1. phase' = "store" /\ ~WantsBody(got')
        BY <1>5, <1>7, <2>2, <2>5
      <3>2. Understood(k, j + 1)'
        BY <1>2, <1>3, <2>1, <3>1 DEF Understood
      <3> QED
        BY <1>4, <3>1, <3>2 DEF Begun, InStore
    <2> QED
      BY <2>4, <2>5
  <1> QED
    BY <1>6, <1>7

LEMMA LineEnded ==
    ASSUME NEW k, sent \in Requests, Plan(k, sent), NEW j \in 1 .. k.n, sent' = sent, late' = late, ~late,
           phase = IF j = 1 THEN "first" ELSE "headers", Rest(k.at[j + 1])',
           got = GotAt(k, sent, j), variables = VarsAt(k, j), body' = <<>>, line' = <<>>,
           LineEnds(k.line[j])
    PROVE  Begun(k)'
  <1>1. k.n \in Nat /\ k.n >= 1
    BY PlanTypes
  <1>2. CASE j = 1
    <2>1. ~Had(k, 1, CookieLine)
      BY <1>1, HadNext
    <2>2. got = Nothing /\ variables = <<>>
      BY <1>2, <2>1 DEF GotAt, VarsAt
    <2>3. FirstLine(k.line[1])
      BY <1>2 DEF LineEnds
    <2>4. Rest(k.at[2])'
      BY <1>2
    <2> QED
      BY <2>2, <2>3, <2>4, FirstLineEnds
  <1>3. CASE j # 1
    <2>1. j \in 2 .. k.n
      BY <1>3
    <2>2. Header(k.line[j])
      BY <1>3 DEF LineEnds
    <2> QED
      BY <2>1, <2>2, HeaderEnds
  <1> QED
    BY <1>2, <1>3

LEMMA AppendText ==
    ASSUME NEW T, NEW s \in Seq(T), NEW c \in T
    PROVE  /\ Append(s, c) \in Seq(T) /\ Len(Append(s, c)) = Len(s) + 1
           /\ Append(s, c)[Len(s) + 1] = c /\ \A i \in 1 .. Len(s) : Append(s, c)[i] = s[i]
  OBVIOUS

LEMMA CharsAreNoEnds == \A c \in Chars : c # "\r" /\ c # "\n"
  BY DEF Chars

LEMMA LineStep ==
    ASSUME NEW k, NEW p, NEW j, sent \in Requests, Plan(k, sent), Rest(p), InLine(k, p, j), ReadChar
    PROVE  Begun(k)'
  <1> DEFINE l == k.line[j]
             o == k.at[j]
             to == k.at[j + 1]
             t == Text(sent)
             c == Head(buf)
             m == Append(line, c)
  <1>1. /\ ~late /\ j \in 1 .. k.n /\ phase = IF j = 1 THEN "first" ELSE "headers"
        /\ got = GotAt(k, sent, j) /\ variables = VarsAt(k, j) /\ body = <<>>
    BY DEF InLine
  <1>2. /\ line \in Seq(Chars) /\ Len(line) < LineMax /\ Len(line) <= Len(l) /\ Len(line) \in Nat
        /\ \A i \in 1 .. Len(line) : line[i] = l[i]
    BY DEF InLine
  <1>3. p = o + Len(line) \/ (p = (o + Len(line)) + 1 /\ Len(line) = Len(l))
    BY DEF InLine
  <1>4. /\ buf # <<>> /\ buf' = Tail(buf) /\ sent' = sent /\ wire' = wire /\ late' = late
        /\ ReadLine(c)
    BY <1>1 DEF ReadChar
  <1>5. Rest(p + 1)' /\ p + 1 <= Len(t) /\ p \in Nat /\ c = t[p + 1] /\ c \in Toks
    BY <1>4, RestTaken
  <1>6. /\ l \in Seq(Chars) /\ Len(l) \in Nat /\ o \in Nat /\ LineMax \in Nat
        /\ \A i \in 1 .. Len(l) : l[i] \in Chars
    <2>1. k.n \in Nat /\ j \in 1 .. k.n + 1
      BY <1>1, PlanTypes
    <2>2. l \in Seq(Chars) /\ Len(l) \in Nat /\ o \in Nat
      BY <1>1, <2>1, PlanTypes
    <2> QED
      BY <2>2, RequestAssumption
  <1>7. TakenLine(t, o, l, to)
    BY <1>1, PlanTaken
  <1> HIDE DEF l, o, to, t, c
  <1>8. CASE p = o + Len(line) /\ Len(line) < Len(l)
    <2>1. /\ Len(line) + 1 \in 1 .. Len(l) /\ o + (Len(line) + 1) = p + 1
      BY <1>2, <1>6, <1>8
    <2>2. c = l[Len(line) + 1]
      <3>1. \A i \in 1 .. Len(l) : t[o + i] = l[i]
        BY <1>7 DEF TakenLine, Laid
      <3> QED
        BY <1>5, <2>1, <3>1
    <2>3. c \in Chars /\ c # "\r" /\ c # "\n"
      BY <1>6, <2>1, <2>2, CharsAreNoEnds
    <2>4. /\ m \in Seq(Chars) /\ Len(m) = Len(line) + 1 /\ m[Len(line) + 1] = c
          /\ \A i \in 1 .. Len(line) : m[i] = line[i]
      BY <1>2, <2>3, AppendText
    <2>5. IF Len(m) = LineMax THEN line' = <<>> /\ LineEnds(m) /\ body' = body
                              ELSE line' = m /\ UNCHANGED <<phase, got, body, variables>>
      BY <1>4, <2>3 DEF ReadLine
    <2> HIDE DEF m
    <2>6. \A i \in 1 .. Len(m) : m[i] = l[i]
      <3>1. \A i \in 1 .. Len(m) : i \in 1 .. Len(line) \/ i = Len(line) + 1
        BY <1>2, <2>4
      <3> QED
        BY <1>2, <2>2, <2>4, <3>1
    <2>7. CASE Len(m) = LineMax
      <3>1. Len(l) = LineMax /\ to = o + LineMax
        <4>1. Len(l) < LineMax \/ (Len(l) = LineMax /\ to = o + LineMax)
          BY <1>7 DEF TakenLine
        <4> QED
          BY <1>2, <1>6, <1>8, <2>4, <2>7, <4>1
      <3>2. m = l
        BY <1>6, <2>4, <2>6, <2>7, <3>1, SeqEqual
      <3>3. p + 1 = to
        BY <1>2, <1>6, <1>8, <2>4, <2>7, <3>1
      <3>4. Rest(to)'
        BY <1>5, <3>3
      <3> QED
        BY <1>1, <1>4, <2>5, <2>7, <3>2, <3>4, LineEnded DEF l, to
    <2>8. CASE Len(m) # LineMax
      <3>1. line' = m /\ UNCHANGED <<phase, got, body, variables>>
        BY <2>5, <2>8
      <3>2. Len(m) < LineMax /\ Len(m) <= Len(l) /\ p + 1 = o + Len(m)
        BY <1>2, <1>6, <1>8, <2>4, <2>8
      <3>3. InLine(k, p + 1, j)'
        BY <1>1, <1>4, <2>4, <2>6, <3>1, <3>2 DEF InLine, l, o
      <3> QED
        BY <1>5, <3>3 DEF Begun
    <2> QED
      BY <2>7, <2>8
  <1>9. CASE Len(line) = Len(l)
    <2>1. line = l
      BY <1>2, <1>6, <1>9, SeqEqual
    <2>2. /\ to = (o + Len(l)) + 2 /\ t[(o + Len(l)) + 1] = "\r" /\ t[(o + Len(l)) + 2] = "\n"
      <3>1. Len(l) # LineMax
        BY <1>2, <1>6, <1>9
      <3> QED
        BY <1>7, <3>1 DEF TakenLine
    <2>3. CASE p = o + Len(line)
      <3>1. c = "\r"
        BY <1>5, <1>9, <2>2, <2>3
      <3>2. UNCHANGED <<phase, line, got, body, variables>>
        BY <1>4, <3>1 DEF ReadLine, output
      <3>3. InLine(k, p + 1, j)'
        <4>1. p + 1 = (o + Len(line)) + 1
          BY <2>3
        <4> QED
          BY <1>1, <1>2, <1>4, <1>9, <3>2, <4>1 DEF InLine, l, o
      <3> QED
        BY <1>5, <3>3 DEF Begun
    <2>4. CASE p = (o + Len(line)) + 1
      <3>1. p + 1 = (o + Len(l)) + 2
        BY <1>6, <1>9, <2>4
      <3>2. c = "\n"
        BY <1>5, <2>2, <3>1
      <3>3. line' = <<>> /\ LineEnds(line) /\ body' = body
        BY <1>4, <3>2 DEF ReadLine
      <3>4. Rest(to)'
        BY <1>5, <2>2, <3>1
      <3> QED
        BY <1>1, <1>4, <2>1, <3>3, <3>4, LineEnded DEF l, to
    <2> QED
      BY <1>3, <2>3, <2>4
  <1>10. Len(line) < Len(l) \/ Len(line) = Len(l)
    BY <1>2, <1>6
  <1> QED
    BY <1>3, <1>8, <1>9, <1>10

\* Once the form's headers are there, the empty line changes nothing.
LEMMA HadLast ==
    ASSUME NEW k, NEW r, Plan(k, r), NEW j \in k.n .. k.n + 1, NEW l \in HeaderLines
    PROVE  Had(k, j, l) <=> Had(k, k.n, l)
  <1>1. k.n \in Nat /\ k.n >= 1
    BY PlanTypes
  <1>2. CASE j = k.n
    BY <1>2
  <1>3. CASE j = k.n + 1
    <2>1. CASE k.n = 1
      <3>1. ~Had(k, 1, l)
        BY <1>1, HadNext
      <3>2. ~Had(k, 2, l)
        BY <1>1, HadNext
      <3>3. j = 2
        BY <1>3, <2>1
      <3> QED
        BY <2>1, <3>1, <3>2, <3>3
    <2>2. CASE k.n # 1
      <3>1. k.n \in 2 .. k.n
        BY <1>1, <2>2
      <3>2. k.line[k.n] # l
        BY <3>1, PlanEnds, LinesAre
      <3>3. Had(k, k.n + 1, l) <=> Had(k, k.n, l) \/ k.line[k.n] = l
        BY <1>1, <3>1, HadNext
      <3> QED
        BY <1>3, <3>2, <3>3
    <2> QED
      BY <2>1, <2>2
  <1>4. j = k.n \/ j = k.n + 1
    BY <1>1
  <1> QED
    BY <1>2, <1>3, <1>4

\* A form is read only from where its headers have ended.
LEMMA WantsLate ==
    ASSUME NEW k, NEW r, Plan(k, r), NEW j \in 1 .. k.n + 1, WantsBody(GotAt(k, r, j))
    PROVE  /\ j \in k.n .. k.n + 1 /\ r.method # "PUT"
           /\ Had(k, k.n, FormLine) /\ Had(k, k.n, LengthLine)
           /\ GotAt(k, r, j).length = Len(Encoded(r.form))
           /\ EndsWith(Text(r), k.at[k.n + 1], Encoded(r.form))
  <1>1. k.n \in Nat /\ k.n >= 1
    BY PlanTypes
  <1>2. /\ j # 1 /\ Had(k, j, FormLine) /\ Had(k, j, LengthLine)
        /\ GotAt(k, r, j).length = Len(Encoded(r.form))
    BY <1>1, WantsAt
  <1>3. j \in k.n .. k.n + 1
    <2>1. \A i \in 1 .. k.n + 1 : Had(k, i, FormLine) /\ Had(k, i, LengthLine) => i >= k.n
      BY DEF Plan
    <2>2. j >= k.n
      BY <1>2, <2>1
    <2> QED
      BY <1>1, <2>2
  <1>4. Had(k, k.n, FormLine) /\ Had(k, k.n, LengthLine)
    <2>1. FormLine \in HeaderLines /\ LengthLine \in HeaderLines
      BY DEF HeaderLines
    <2> QED
      BY <1>2, <1>3, <2>1, HadLast
  <1>5. r.method # "PUT"
    <2>1. PICK i \in 2 .. k.n : k.line[i] = FormLine
      BY <1>2 DEF Had
    <2> QED
      BY PlanEnds
  <1>6. EndsWith(Text(r), k.at[k.n + 1], Encoded(r.form))
    BY <1>4 DEF Plan
  <1> QED
    BY <1>2, <1>3, <1>4, <1>5, <1>6

LEMMA BodyStep ==
    ASSUME NEW k, NEW p, NEW j, NEW q, sent \in Requests, Plan(k, sent), Rest(p), InBody(k, p, j, q), ReadChar
    PROVE  Begun(k)'
  <1> DEFINE t == Text(sent)
             c == Head(buf)
             n == k.n
             m == Append(body, c)
  <1>1. /\ phase = "body" /\ j \in n .. n + 1 /\ (~late => j = n + 1)
        /\ got = GotAt(k, sent, j) /\ variables = VarsAt(k, j) /\ WantsBody(got)
        /\ p = q + Len(body) /\ Len(body) < got.length
    BY DEF InBody
  <1>2. /\ q \in Nat /\ k.at[n] <= q /\ q <= k.at[n + 1]
        /\ body \in Seq(Toks) /\ Laid(t, q, body) /\ (~late => q = k.at[n + 1])
    BY DEF InBody, BodyAt
  <1>3. /\ buf # <<>> /\ buf' = Tail(buf) /\ sent' = sent /\ wire' = wire /\ late' = late
        /\ ReadBuf(c)
    BY <1>1 DEF ReadChar
  <1>4. Rest(p + 1)' /\ p + 1 <= Len(t) /\ p \in Nat /\ c = t[p + 1] /\ c \in Toks
    BY <1>3, RestTaken
  <1>5. n \in Nat /\ n >= 1 /\ j \in 1 .. n + 1
    <2>1. n \in Nat /\ n >= 1
      BY PlanTypes
    <2> QED
      BY <1>1, <2>1
  <1>6. /\ m \in Seq(Toks) /\ Len(m) = Len(body) + 1 /\ m[Len(body) + 1] = c /\ Len(body) \in Nat
        /\ \A i \in 1 .. Len(body) : m[i] = body[i]
    <2>1. Len(body) \in Nat
      BY <1>2
    <2> QED
      BY <1>2, <1>4, <2>1, AppendText
  <1>7. /\ body' = m /\ got' = got /\ variables' = variables
        /\ phase' = IF Len(m) = got.length THEN "store" ELSE "body"
    BY <1>3 DEF ReadBuf
  <1>8. /\ sent.method # "PUT" /\ got.length = Len(Encoded(sent.form)) /\ got.length \in Nat
    <2>1. WantsBody(GotAt(k, sent, j))
      BY <1>1
    <2>2. sent.method # "PUT" /\ GotAt(k, sent, j).length = Len(Encoded(sent.form))
      BY <1>5, <2>1, WantsLate
    <2> QED
      BY <1>1, <2>2, SentForm
  <1> HIDE DEF t, c, m
  <1>9. Laid(t, q, m)
    <2>1. Laid(t, q, body) /\ q \in Nat
      BY <1>2
    <2>2. \A i \in 1 .. Len(m) : i \in 1 .. Len(body) \/ (i = Len(body) + 1 /\ q + i = p + 1)
      BY <1>1, <1>6, <2>1
    <2>3. \A i \in 1 .. Len(body) : t[q + i] = body[i]
      BY <2>1 DEF Laid
    <2>4. \A i \in 1 .. Len(m) : t[q + i] = m[i]
      BY <1>4, <1>6, <2>2, <2>3
    <2>5. q + Len(m) <= Len(t)
      BY <1>1, <1>4, <1>6, <2>1
    <2> QED
      BY <2>1, <2>4, <2>5 DEF Laid
  <1>10. BodyAt(k, q)'
    <2>1. Text(sent') = t
      BY <1>3 DEF t
    <2> QED
      BY <1>2, <1>3, <1>6, <1>7, <1>9, <2>1 DEF BodyAt
  <1>11. CASE Len(m) = got.length
    <2>1. phase' = "store"
      BY <1>7, <1>11
    <2>2. j >= n /\ Len(m) = got.length
      BY <1>1, <1>5, <1>11
    <2>3. Understood(k, j)'
      BY <1>1, <1>3, <1>5, <1>7, <1>8, <1>10, <2>2 DEF Understood
    <2> QED
      BY <1>1, <1>3, <1>7, <2>1, <2>3 DEF Begun, InStore
  <1>12. CASE Len(m) # got.length
    <2>1. phase' = "body" /\ Len(m) < got.length /\ p + 1 = q + Len(m)
      BY <1>1, <1>2, <1>6, <1>7, <1>8, <1>12
    <2>2. InBody(k, p + 1, j, q)'
      BY <1>1, <1>3, <1>7, <1>10, <2>1 DEF InBody
    <2> QED
      BY <1>4, <2>2 DEF Begun
  <1> QED
    BY <1>11, <1>12

\* A read that fails while a line is read is early: its end is still to come.
LEMMA LineFails ==
    ASSUME NEW k, NEW p, NEW j, sent \in Requests, Plan(k, sent), Rest(p), InLine(k, p, j), ReadFails
    PROVE  Begun(k)'
  <1> DEFINE l == k.line[j]
             o == k.at[j]
             to == k.at[j + 1]
             t == Text(sent)
             n == k.n
  <1>1. /\ j \in 1 .. n /\ phase = IF j = 1 THEN "first" ELSE "headers"
        /\ got = GotAt(k, sent, j) /\ variables = VarsAt(k, j) /\ body = <<>>
        /\ Len(line) < LineMax /\ Len(line) <= Len(l) /\ line \in Seq(Chars)
    BY DEF InLine
  <1>2. p = o + Len(line) \/ (p = (o + Len(line)) + 1 /\ Len(line) = Len(l))
    BY DEF InLine
  <1>3. /\ buf = <<>> /\ buf' = buf /\ wire' = wire /\ sent' = sent
        /\ late' = (late \/ broken' \/ wire # <<>>)
        /\ line' = <<>> /\ got' = got /\ body' = body /\ variables' = variables
        /\ phase' = IF WantsBody(got) /\ ~broken' THEN "body" ELSE "store"
    BY <1>1 DEF ReadFails, NoMore
  <1>4. /\ n \in Nat /\ n >= 1 /\ j \in 1 .. n + 1
        /\ Len(l) \in Nat /\ o \in Nat /\ to \in Nat /\ LineMax \in Nat /\ Len(line) \in Nat
    <2>1. n \in Nat /\ n >= 1
      BY PlanTypes
    <2>2. j \in 1 .. n + 1 /\ j + 1 \in 1 .. n + 1
      BY <1>1, <2>1
    <2>3. Len(line) \in Nat
      BY <1>1
    <2> QED
      BY <1>1, <2>1, <2>2, <2>3, PlanTypes, RequestAssumption
  <1>5. TakenLine(t, o, l, to)
    BY <1>1, PlanTaken
  <1>6. p \in Nat /\ (p + Len(buf)) + Len(wire) = Len(t) /\ wire \in Seq(Toks) /\ Len(buf) = 0
    BY <1>3 DEF Rest
  <1> HIDE DEF l, o, to, t, n
  <1>7. p < to /\ to <= Len(t) /\ p <= o + Len(l) + 1
    <2>1. \/ Len(l) < LineMax /\ to = (o + Len(l)) + 2
          \/ Len(l) = LineMax /\ to = o + LineMax
      BY <1>5 DEF TakenLine
    <2>2. to <= Len(t)
      BY <1>5 DEF TakenLine
    <2> QED
      BY <1>1, <1>2, <1>4, <2>1, <2>2
  <1>8. late'
    <2>1. wire # <<>>
      <3>1. Len(t) # p
        <4>1. t \in Seq(Toks)
          BY TextToks DEF t
        <4>2. Len(t) \in Nat
          BY <4>1
        <4> QED
          BY <1>4, <1>6, <1>7, <4>2
      <3>2. Len(wire) # 0
        BY <1>6, <3>1
      <3>3. Len(<<>>) = 0
        OBVIOUS
      <3> QED
        BY <3>2, <3>3
    <2> QED
      BY <1>3, <2>1
  <1>9. Rest(p)'
    BY <1>3 DEF Rest
  <1>10. ASSUME WantsBody(got)
         PROVE  j = n /\ BodyAt(k, p)' /\ 0 < got.length
    <2>1. WantsBody(GotAt(k, sent, j))
      BY <1>1, <1>10
    <2>2. j \in n .. n + 1 /\ sent.method # "PUT"
      BY <1>4, <2>1, WantsLate DEF n
    <2>3. j = n
      BY <1>1, <1>4, <2>2
    <2>4. j \in 2 .. n
      <3>1. j # 1
        BY <1>4, <2>1, WantsAt DEF n
      <3> QED
        BY <1>1, <1>4, <3>1
    <2>5. l = <<>>
      BY <2>3, <2>4, PlanEnds DEF l, n
    <2>6. Len(l) = 0 /\ Len(line) = 0
      <3>1. Len(<<>>) = 0
        OBVIOUS
      <3>2. Len(l) = 0
        BY <2>5, <3>1
      <3> QED
        BY <1>1, <1>4, <3>2
    <2>7. k.at[n] <= p /\ p <= k.at[n + 1]
      <3>1. o <= p /\ p <= to
        BY <1>2, <1>4, <1>6, <1>7, <2>6
      <3> QED
        BY <2>3, <3>1 DEF o, to
    <2>8. body' \in Seq(Toks) /\ Len(body') = 0
      <3>1. <<>> \in Seq(Toks) /\ Len(<<>>) = 0
        OBVIOUS
      <3> QED
        BY <1>1, <1>3, <3>1
    <2>9. Laid(t, p, body')
      <3>1. p + Len(body') <= Len(t)
        BY <1>6, <1>7, <2>8, <1>4, TextToks DEF t
      <3>2. \A i \in 1 .. Len(body') : FALSE
        BY <2>8
      <3> QED
        BY <1>6, <3>1, <3>2 DEF Laid
    <2>10. BodyAt(k, p)'
      BY <1>3, <1>6, <1>8, <2>7, <2>8, <2>9 DEF BodyAt, t, n
    <2> QED
      BY <1>10, <2>3, <2>10, SentForm DEF WantsBody
  <1>11. CASE WantsBody(got) /\ ~broken'
    <2>1. phase' = "body" /\ j \in n .. n + 1 /\ j = n
      BY <1>3, <1>4, <1>10, <1>11
    <2>2. BodyAt(k, p)' /\ got.length > 0
      BY <1>10, <1>11 DEF WantsBody
    <2>3. Len(body') = 0 /\ p = p + 0
      <3>1. Len(<<>>) = 0
        OBVIOUS
      <3> QED
        BY <1>1, <1>3, <1>6, <3>1
    <2>4. p = p + Len(body') /\ Len(body') < got'.length
      <3>1. 0 < got.length
        BY <1>10, <1>11
      <3> QED
        BY <1>3, <2>3, <3>1
    <2>5. InBody(k, p, j, p)'
      BY <1>1, <1>3, <1>8, <1>11, <2>1, <2>2, <2>4 DEF InBody, n
    <2> QED
      BY <1>9, <2>5 DEF Begun
  <1>12. CASE ~(WantsBody(got) /\ ~broken')
    <2>1. phase' = "store"
      BY <1>3, <1>12
    <2>2. WantsBody(got') => j >= n /\ BodyAt(k, p)'
      <3>1. n >= n
        BY <1>4
      <3> QED
        BY <1>3, <1>10, <3>1
    <2>3. Understood(k, j)'
      BY <1>1, <1>3, <1>4, <1>8, <2>2 DEF Understood, n
    <2> QED
      BY <1>1, <1>3, <2>1, <2>3 DEF Begun, InStore
  <1> QED
    BY <1>11, <1>12

LEMMA BodyFails ==
    ASSUME NEW k, NEW p, NEW j, NEW q, sent \in Requests, Plan(k, sent), Rest(p), InBody(k, p, j, q), ReadFails
    PROVE  Begun(k)'
  <1> DEFINE t == Text(sent)
             n == k.n
             e == Encoded(sent.form)
  <1>1. /\ phase = "body" /\ j \in n .. n + 1 /\ (~late => j = n + 1)
        /\ got = GotAt(k, sent, j) /\ variables = VarsAt(k, j) /\ WantsBody(got)
        /\ p = q + Len(body) /\ Len(body) < got.length
    BY DEF InBody
  <1>2. BodyAt(k, q)
    BY DEF InBody
  <1>3. /\ buf = <<>> /\ buf' = buf /\ wire' = wire /\ sent' = sent
        /\ late' = (late \/ broken' \/ wire # <<>>)
        /\ got' = got /\ body' = body /\ variables' = variables /\ phase' = "store"
    BY <1>1 DEF ReadFails, NoMore
  <1>4. n \in Nat /\ n >= 1 /\ j \in 1 .. n + 1 /\ j >= n /\ k.at[n + 1] \in Nat
    <2>1. n \in Nat /\ n >= 1
      BY PlanTypes
    <2>2. n + 1 \in 1 .. n + 1 /\ j \in 1 .. n + 1 /\ j >= n
      BY <1>1, <2>1
    <2>3. k.at[n + 1] \in Nat
      BY <2>2, PlanTypes
    <2> QED
      BY <2>1, <2>2, <2>3
  <1>5. got.length = Len(e) /\ EndsWith(t, k.at[n + 1], e) /\ Len(e) \in Nat
    <2>1. WantsBody(GotAt(k, sent, j))
      BY <1>1
    <2>2. GotAt(k, sent, j).length = Len(e) /\ EndsWith(t, k.at[n + 1], e)
      BY <1>4, <2>1, WantsLate
    <2> QED
      BY <1>1, <2>2, SentForm
  <1>6. p \in Nat /\ (p + Len(buf)) + Len(wire) = Len(t) /\ wire \in Seq(Toks) /\ Len(buf) = 0
    BY <1>3 DEF Rest
  <1> HIDE DEF t, n, e
  <1>7. late'
    <2> SUFFICES ASSUME ~late, wire = <<>>
                 PROVE  FALSE
      BY <1>3
    <2>1. q = k.at[n + 1]
      BY <1>2 DEF BodyAt, n
    <2>2. Len(t) = k.at[n + 1] + Len(e)
      BY <1>5 DEF EndsWith
    <2>3. Len(wire) = 0 /\ Len(t) = p
      <3>1. Len(wire) = 0
        OBVIOUS
      <3>2. (p + 0) + 0 = p
        BY <1>6
      <3> QED
        BY <1>6, <3>1, <3>2
    <2>4. Len(body) \in Nat
      BY <1>2 DEF BodyAt
    <2> QED
      BY <1>1, <1>4, <1>5, <2>1, <2>2, <2>3, <2>4
  <1>8. BodyAt(k, q)'
    BY <1>2, <1>3, <1>7 DEF BodyAt
  <1>9. Understood(k, j)'
    BY <1>1, <1>3, <1>4, <1>7, <1>8 DEF Understood, n
  <1> QED
    BY <1>1, <1>3, <1>9 DEF Begun, InStore

LEMMA SendsStep ==
    ASSUME NEW r \in Requests, phase = "idle", ~late, buf = <<>>, line = <<>>, got = Nothing, body = <<>>,
           variables = <<>>, Sends(r)
    PROVE  RequestInv'
  <1>1. PICK k : Plan(k, r)
    BY PlanExists
  <1>2. /\ phase' = "first" /\ sent' = r /\ wire' = Text(r)
        /\ buf' = buf /\ late' = late /\ line' = line /\ got' = got /\ body' = body /\ variables' = variables
    BY DEF Sends, output
  <1>3. k.n \in Nat /\ k.n >= 1 /\ k.at[1] = 0
    BY <1>1, PlanTypes
  <1>4. ~Had(k, 1, CookieLine)
    BY <1>3, HadNext
  <1> DEFINE t == Text(r)
  <1>5. t \in Seq(Toks) /\ Len(t) \in Nat
    <2>1. t \in Seq(Toks)
      BY TextToks
    <2> HIDE DEF t
    <2> QED
      BY <2>1
  <1>6. buf' \in Seq(Toks) /\ Len(buf') = 0
    <2>1. <<>> \in Seq(Toks) /\ Len(<<>>) = 0
      OBVIOUS
    <2> QED
      BY <1>2, <2>1
  <1>7. wire' = t /\ Text(sent') = t
    BY <1>2
  <1> HIDE DEF t
  <1>8. Rest(0)'
    <2>1. Laid(t, 0, buf')
      <3>1. 0 + Len(buf') <= Len(t) /\ \A i \in 1 .. Len(buf') : FALSE
        BY <1>5, <1>6
      <3> QED
        BY <3>1 DEF Laid
    <2>2. Laid(t, 0, t)
      BY <1>5, LaidWhole
    <2>3. 0 + Len(buf') = 0 /\ (0 + Len(buf')) + Len(t) = Len(t)
      BY <1>5, <1>6
    <2> QED
      BY <1>5, <1>6, <1>7, <2>1, <2>2, <2>3 DEF Rest
  <1>9. 1 \in 1 .. k.n
    BY <1>3
  <1>10. GotAt(k, r, 1) = Nothing /\ VarsAt(k, 1) = <<>>
    BY <1>4 DEF GotAt, VarsAt
  <1>11. InLine(k, 0, 1)'
    <2>1. k.line[1] \in Seq(Chars) /\ Len(k.line[1]) \in Nat
      BY <1>1, <1>9, PlanTypes
    <2>2. line' \in Seq(Chars) /\ Len(line') = 0
      <3>1. <<>> \in Seq(Chars) /\ Len(<<>>) = 0
        OBVIOUS
      <3> QED
        BY <1>2, <3>1
    <2>3. 0 < LineMax /\ 0 <= Len(k.line[1]) /\ \A i \in 1 .. 0 : FALSE
      BY <2>1, RequestAssumption
    <2>4. 0 = k.at[1] + Len(line')
      BY <1>3, <2>2
    <2> QED
      BY <1>2, <1>9, <1>10, <2>2, <2>3, <2>4 DEF InLine
  <1>12. Begun(k)'
    BY <1>8, <1>11 DEF Begun
  <1> QED
    BY <1>1, <1>2, <1>12 DEF RequestInv

\* Nothing but the buffer and the wire is in a new state.
LEMMA BegunReads ==
    ASSUME NEW k, NEW m \in Nat, sent \in Requests, Begun(k), m <= Len(wire), Read(m)
    PROVE  Begun(k)'
  <1>1. /\ buf = <<>> /\ buf' = SubSeq(wire, 1, m) /\ wire' = SubSeq(wire, m + 1, Len(wire))
        /\ sent' = sent /\ late' = late /\ phase' = phase
        /\ line' = line /\ got' = got /\ body' = body /\ variables' = variables
        /\ phase \in {"first", "headers", "body"}
    BY DEF Read, output, Reading
  <1>2. \A p : Rest(p) => Rest(p)'
    <2> TAKE p
    <2> QED
      BY <1>1, RestRead
  <1>3. \A p, j : InLine(k, p, j) => InLine(k, p, j)'
    BY <1>1 DEF InLine
  <1>4. \A p, j, q : InBody(k, p, j, q) => InBody(k, p, j, q)'
    BY <1>1 DEF InBody, BodyAt
  <1>5. ~(\E j : InStore(k, j) \/ InDone(k, j)) /\ phase # "refused"
    BY <1>1 DEF InStore, InDone
  <1> QED
    BY <1>2, <1>3, <1>4, <1>5 DEF Begun

LEMMA StoreStep ==
    ASSUME NEW k, Begun(k), Store
    PROVE  Begun(k)'
  <1>1. /\ phase = "store" /\ phase' = "done" /\ variables' = Stored(variables, got, body)
        /\ sent' = sent /\ late' = late /\ line' = line /\ got' = got /\ body' = body
    BY DEF Store, input
  <1>2. PICK j : InStore(k, j)
    <2>1. \A p, j : ~InLine(k, p, j)
      BY <1>1 DEF InLine
    <2>2. \A p, j, q : ~InBody(k, p, j, q)
      BY <1>1 DEF InBody
    <2>3. \A j : ~InDone(k, j)
      BY <1>1 DEF InDone
    <2> QED
      BY <1>1, <2>1, <2>2, <2>3 DEF Begun
  <1>3. Understood(k, j)'
    BY <1>1, <1>2 DEF InStore, Understood, BodyAt
  <1>4. variables' = Stored(VarsAt(k, j), got', body')
    BY <1>1, <1>2 DEF InStore
  <1> QED
    BY <1>1, <1>3, <1>4 DEF Begun, InDone

LEMMA BegunStep ==
    ASSUME NEW k, sent \in Requests, Plan(k, sent), Begun(k), ReadFails \/ ReadChar
    PROVE  Begun(k)'
  <1>1. phase \in {"first", "headers", "body"}
    BY DEF ReadFails, ReadChar, Reading
  <1>2. CASE \E p : Rest(p) /\ \E j : InLine(k, p, j)
    <2>1. PICK p, j : Rest(p) /\ InLine(k, p, j)
      BY <1>2
    <2> QED
      BY <2>1, LineStep, LineFails
  <1>3. CASE \E p : Rest(p) /\ \E j, q : InBody(k, p, j, q)
    <2>1. PICK p, j, q : Rest(p) /\ InBody(k, p, j, q)
      BY <1>3
    <2> QED
      BY <2>1, BodyStep, BodyFails
  <1>4. ~(\E j : InStore(k, j) \/ InDone(k, j)) /\ phase # "refused"
    BY <1>1 DEF InStore, InDone
  <1> QED
    BY <1>2, <1>3, <1>4 DEF Begun

LEMMA RequestStep == RequestInv /\ [RequestNext]_requestVars => RequestInv'
  <1> SUFFICES ASSUME RequestInv, [RequestNext]_requestVars
               PROVE  RequestInv'
    OBVIOUS
  <1>1. ASSUME NEW r \in Requests, Sends(r)
        PROVE  RequestInv'
    <2>1. phase = "idle"
      BY <1>1 DEF Sends
    <2>2. \A k : ~Begun(k)
      <3> TAKE k
      <3>1. \A p, j : ~InLine(k, p, j)
        BY <2>1 DEF InLine
      <3>2. \A p, j, q : ~InBody(k, p, j, q)
        BY <2>1 DEF InBody
      <3>3. \A j : ~InStore(k, j) /\ ~InDone(k, j)
        BY <2>1 DEF InStore, InDone
      <3> QED
        BY <2>1, <3>1, <3>2, <3>3 DEF Begun
    <2>3. ~late /\ buf = <<>> /\ line = <<>> /\ got = Nothing /\ body = <<>> /\ variables = <<>>
      BY <2>2 DEF RequestInv
    <2> QED
      BY <1>1, <2>1, <2>3, SendsStep
  <1>2. ASSUME phase # "idle"
        PROVE  sent \in Requests /\ \E k : Plan(k, sent) /\ Begun(k)
    BY <1>2 DEF RequestInv
  <1>3. ASSUME NEW m \in 1 .. ReadMax, m <= Len(wire), Read(m)
        PROVE  RequestInv'
    <2>1. phase # "idle" /\ sent' = sent /\ m \in Nat
      BY <1>3 DEF Read, Reading
    <2>2. PICK k : Plan(k, sent) /\ Begun(k)
      BY <1>2, <2>1
    <2>3. Begun(k)'
      BY <1>2, <1>3, <2>1, <2>2, BegunReads
    <2> QED
      BY <1>2, <2>1, <2>2, <2>3 DEF RequestInv
  <1>4. ASSUME ReadFails \/ ReadChar
        PROVE  RequestInv'
    <2>1. phase # "idle" /\ sent' = sent
      BY <1>4 DEF ReadFails, ReadChar, Reading
    <2>2. PICK k : Plan(k, sent) /\ Begun(k)
      BY <1>2, <2>1
    <2>3. Begun(k)'
      BY <1>2, <1>4, <2>1, <2>2, BegunStep
    <2> QED
      BY <1>2, <2>1, <2>2, <2>3 DEF RequestInv
  <1>5. ASSUME Store
        PROVE  RequestInv'
    <2>1. phase # "idle" /\ sent' = sent
      BY <1>5 DEF Store, input
    <2>2. PICK k : Plan(k, sent) /\ Begun(k)
      BY <1>2, <2>1
    <2>3. Begun(k)'
      BY <1>5, <2>2, StoreStep
    <2> QED
      BY <1>2, <2>1, <2>2, <2>3 DEF RequestInv
  <1>6. CASE UNCHANGED requestVars
    <2>1. /\ sent' = sent /\ wire' = wire /\ buf' = buf /\ late' = late /\ phase' = phase
          /\ line' = line /\ got' = got /\ body' = body /\ variables' = variables
      BY <1>6 DEF requestVars, input, output
    <2>2. \A k : Begun(k) => Begun(k)'
      <3> SUFFICES ASSUME NEW k, Begun(k)
                   PROVE  Begun(k)'
        OBVIOUS
      <3>1. \A p : Rest(p) => Rest(p)'
        BY <2>1 DEF Rest
      <3>2. \A p, j : InLine(k, p, j) => InLine(k, p, j)'
        BY <2>1 DEF InLine
      <3>3. \A p, j, q : InBody(k, p, j, q) => InBody(k, p, j, q)'
        BY <2>1 DEF InBody, BodyAt
      <3>4. \A j : Understood(k, j) => Understood(k, j)'
        BY <2>1 DEF Understood, BodyAt
      <3>5. \A j : (InStore(k, j) => InStore(k, j)') /\ (InDone(k, j) => InDone(k, j)')
        BY <2>1, <3>4 DEF InStore, InDone
      <3> QED
        BY <2>1, <3>1, <3>2, <3>3, <3>5 DEF Begun
    <2> QED
      BY <2>1, <2>2 DEF RequestInv
  <1> QED
    BY <1>1, <1>3, <1>4, <1>5, <1>6 DEF RequestNext

\* Every state of a request is one of a plan: the lines the reader takes from
\* the text that was sent, whole or cut, and behind them the body.
THEOREM RequestInvariant == RequestSpec => []RequestInv
  <1>1. RequestInit => RequestInv
    BY DEF RequestInit, RequestInv
  <1> QED
    BY <1>1, RequestStep, PTL DEF RequestSpec

-----------------------------------------------------------------------------
(* What is made of the text of a form.                                     *)

\* The variables whose names and values are texts of T.
VariablesOf(T) == Seq([name : Seq(T), values : Seq(Seq(T)) \ {<<>>}])

\* The variable k is the oldest of the name n.
Oldest(vs, n, k) ==
    k \in DOMAIN vs /\ vs[k].name = n /\ \A i \in DOMAIN vs : vs[i].name = n => k <= i

LEMMA OldestIs ==
    ASSUME NEW T, NEW vs \in VariablesOf(T), NEW n
    PROVE  /\ \A k : Oldest(vs, n, k) => ValueIn(vs, n) = <<Head(vs[k].values)>>
           /\ (\E i \in DOMAIN vs : vs[i].name = n) => \E k : Oldest(vs, n, k)
           /\ (~\E i \in DOMAIN vs : vs[i].name = n) => ValueIn(vs, n) = <<>>
  <1> DEFINE S == {i \in DOMAIN vs : vs[i].name = n}
  <1>1. DOMAIN vs = 1 .. Len(vs) /\ DOMAIN vs \subseteq Nat
    BY DEF VariablesOf
  <1>2. ASSUME NEW k, Oldest(vs, n, k)
        PROVE  ValueIn(vs, n) = <<Head(vs[k].values)>>
    <2>1. k \in S /\ \A i \in S : k <= i
      BY <1>2 DEF Oldest
    <2>2. Min(S) \in S /\ \A i \in S : Min(S) <= i
      <3> HIDE DEF S
      <3> QED
        BY <2>1 DEF Min
    <2>3. Min(S) = k
      <3>1. k \in Nat /\ Min(S) \in Nat /\ k <= Min(S) /\ Min(S) <= k
        <4>1. S \subseteq Nat
          BY <1>1
        <4> HIDE DEF S
        <4> QED
          BY <2>1, <2>2, <4>1
      <3> HIDE DEF S
      <3> QED
        BY <3>1
    <2> QED
      BY <2>1, <2>3 DEF ValueIn
  <1>3. ASSUME \E i \in DOMAIN vs : vs[i].name = n
        PROVE  \E k : Oldest(vs, n, k)
    <2>1. S \subseteq Nat /\ S # {}
      BY <1>1, <1>3
    <2>2. PICK k \in S : \A i \in S : k <= i
      <3> HIDE DEF S
      <3> QED
        BY <2>1, Lowest
    <2> QED
      BY <2>2 DEF Oldest
  <1>4. ASSUME ~\E i \in DOMAIN vs : vs[i].name = n
        PROVE  ValueIn(vs, n) = <<>>
    <2>1. S = {}
      BY <1>4
    <2> QED
      BY <2>1 DEF ValueIn
  <1> QED
    BY <1>2, <1>3, <1>4

\* The first value of a name stays the one it has.
LEMMA VariableIs ==
    ASSUME NEW T, NEW vs \in VariablesOf(T), NEW n \in Seq(T), NEW v \in Seq(T)
    PROVE  /\ AddVariable(vs, n, v) \in VariablesOf(T)
           /\ \A m : ValueIn(AddVariable(vs, n, v), m)
                        = IF m = n /\ ValueIn(vs, n) = <<>> THEN <<v>> ELSE ValueIn(vs, m)
  <1> DEFINE R == [name : Seq(T), values : Seq(Seq(T)) \ {<<>>}]
             ws == AddVariable(vs, n, v)
  <1>1. vs \in Seq(R) /\ Len(vs) \in Nat /\ DOMAIN vs = 1 .. Len(vs) /\ \A i \in DOMAIN vs : vs[i] \in R
    <2>1. vs \in Seq(R)
      BY DEF VariablesOf
    <2> HIDE DEF R
    <2> QED
      BY <2>1
  <1>2. CASE \E i \in DOMAIN vs : vs[i].name = n
    <2> DEFINE more(i) == [vs[i] EXCEPT !.values = Append(@, v)]
               new(i) == IF vs[i].name = n THEN more(i) ELSE vs[i]
    <2>1. \A i \in DOMAIN vs : more(i) \in R /\ more(i).name = vs[i].name /\ Head(more(i).values) = Head(vs[i].values)
      <3> SUFFICES ASSUME NEW i \in DOMAIN vs
                   PROVE  /\ more(i) \in R /\ more(i).name = vs[i].name
                          /\ Head(more(i).values) = Head(vs[i].values)
        OBVIOUS
      <3> DEFINE r == vs[i]
                 s == r.values
                 t == Append(s, v)
      <3>1. r \in R
        BY <1>1
      <3>2. s \in Seq(Seq(T)) /\ s # <<>> /\ r.name \in Seq(T)
        BY <3>1
      <3>3. t \in Seq(Seq(T)) /\ t # <<>> /\ Head(t) = Head(s)
        <4> HIDE DEF s, r
        <4>1. Len(s) \in Nat \ {0}
          BY <3>2
        <4>2. t \in Seq(Seq(T)) /\ Len(t) = Len(s) + 1 /\ t[1] = s[1]
          BY <3>2, <4>1
        <4> QED
          BY <4>1, <4>2
      <3>4. [r EXCEPT !.values = t] \in R /\ [r EXCEPT !.values = t].name = r.name
            /\ [r EXCEPT !.values = t].values = t
        <4> HIDE DEF t, r
        <4> QED
          BY <3>1, <3>3
      <3> QED
        BY <3>3, <3>4
    <2>2. \A i \in DOMAIN vs : new(i) \in R /\ new(i).name = vs[i].name /\ Head(new(i).values) = Head(vs[i].values)
      <3> HIDE DEF more
      <3> QED
        BY <1>1, <2>1
    <2>3. ws = [i \in DOMAIN vs |-> new(i)]
      BY <1>2 DEF AddVariable
    <2> HIDE DEF new, ws
    <2>4. ws \in Seq(R) /\ DOMAIN ws = DOMAIN vs /\ \A i \in DOMAIN vs : ws[i] = new(i)
      <3>1. ws \in [1 .. Len(vs) -> R]
        BY <1>1, <2>2, <2>3
      <3>2. ws \in Seq(R)
        BY <1>1, <3>1, SeqIs
      <3> QED
        BY <2>3, <3>2
    <2>5. ws \in VariablesOf(T)
      BY <2>4 DEF VariablesOf
    <2>6. ASSUME NEW m
          PROVE  ValueIn(ws, m) = ValueIn(vs, m)
      <3>1. CASE \E i \in DOMAIN vs : vs[i].name = m
        <4>1. PICK k : Oldest(vs, m, k)
          BY <3>1, OldestIs
        <4>2. Oldest(ws, m, k)
          BY <2>2, <2>4, <4>1 DEF Oldest
        <4>3. k \in DOMAIN vs
          BY <4>1 DEF Oldest
        <4>4. ValueIn(ws, m) = <<Head(ws[k].values)>>
          BY <2>5, <4>2, OldestIs
        <4>5. ValueIn(vs, m) = <<Head(vs[k].values)>>
          BY <4>1, OldestIs
        <4> QED
          BY <2>2, <2>4, <4>3, <4>4, <4>5
      <3>2. CASE ~\E i \in DOMAIN vs : vs[i].name = m
        <4>1. ~\E i \in DOMAIN ws : ws[i].name = m
          BY <2>2, <2>4, <3>2
        <4> QED
          BY <2>5, <3>2, <4>1, OldestIs
      <3> QED
        BY <3>1, <3>2
    <2>7. ValueIn(vs, n) # <<>>
      <3>1. PICK k : Oldest(vs, n, k)
        BY <1>2, OldestIs
      <3>2. ValueIn(vs, n) = <<Head(vs[k].values)>>
        BY <3>1, OldestIs
      <3> QED
        BY <3>2
    <2> QED
      BY <2>5, <2>6, <2>7 DEF ws
  <1>3. CASE ~\E i \in DOMAIN vs : vs[i].name = n
    <2> DEFINE e == [name |-> n, values |-> <<v>>]
               l == Len(vs)
    <2>1. e \in R /\ e.name = n /\ Head(e.values) = v
      <3>1. <<v>> \in Seq(Seq(T)) /\ <<v>> # <<>> /\ Head(<<v>>) = v
        OBVIOUS
      <3> QED
        BY <3>1
    <2>2. ws = Append(vs, e)
      BY <1>3 DEF AddVariable
    <2> HIDE DEF e, R
    <2>3. /\ ws \in Seq(R) /\ Len(ws) = l + 1 /\ DOMAIN ws = 1 .. l + 1
          /\ ws[l + 1] = e /\ \A i \in 1 .. l : ws[i] = vs[i]
      BY <1>1, <2>1, <2>2
    <2> HIDE DEF ws
    <2>4. ws \in VariablesOf(T)
      BY <2>3 DEF VariablesOf, R
    <2>5. 1 .. l + 1 = (1 .. l) \cup {l + 1} /\ \A i \in 1 .. l : i <= l + 1 /\ i # l + 1
      BY <1>1
    <2>6. ASSUME NEW m
          PROVE  ValueIn(ws, m) = IF m = n THEN <<v>> ELSE ValueIn(vs, m)
      <3>1. CASE m = n
        <4>1. Oldest(ws, m, l + 1)
          <5>1. l + 1 \in DOMAIN ws /\ ws[l + 1].name = m
            BY <2>1, <2>3, <2>5, <3>1
          <5>2. ASSUME NEW i \in DOMAIN ws, ws[i].name = m
                PROVE  l + 1 <= i
            <6>1. i \notin 1 .. l
              BY <1>1, <1>3, <2>3, <3>1, <5>2
            <6> QED
              BY <1>1, <2>3, <2>5, <6>1
          <5> QED
            BY <5>1, <5>2 DEF Oldest
        <4>2. ValueIn(ws, m) = <<Head(ws[l + 1].values)>>
          BY <2>4, <4>1, OldestIs
        <4> QED
          BY <2>1, <2>3, <3>1, <4>2
      <3>2. CASE m # n /\ \E i \in DOMAIN vs : vs[i].name = m
        <4>1. PICK k : Oldest(vs, m, k)
          BY <3>2, OldestIs
        <4>2. k \in 1 .. l /\ vs[k].name = m /\ \A i \in 1 .. l : vs[i].name = m => k <= i
          BY <1>1, <4>1 DEF Oldest
        <4>3. Oldest(ws, m, k)
          <5>1. k \in DOMAIN ws /\ ws[k].name = m
            BY <2>3, <2>5, <4>2
          <5>2. ASSUME NEW i \in DOMAIN ws, ws[i].name = m
                PROVE  k <= i
            BY <2>3, <2>5, <4>2, <5>2
          <5> QED
            BY <5>1, <5>2 DEF Oldest
        <4>4. ValueIn(ws, m) = <<Head(ws[k].values)>>
          BY <2>4, <4>3, OldestIs
        <4>5. ValueIn(vs, m) = <<Head(vs[k].values)>>
          BY <4>1, OldestIs
        <4> QED
          BY <2>3, <3>2, <4>2, <4>4, <4>5
      <3>3. CASE m # n /\ ~\E i \in DOMAIN vs : vs[i].name = m
        <4>1. ~\E i \in DOMAIN ws : ws[i].name = m
          BY <1>1, <2>1, <2>3, <2>5, <3>3
        <4> QED
          BY <2>4, <3>3, <4>1, OldestIs
      <3> QED
        BY <3>1, <3>2, <3>3
    <2>7. ValueIn(vs, n) = <<>>
      BY <1>3, OldestIs
    <2> QED
      BY <2>4, <2>6, <2>7 DEF ws
  <1> QED
    BY <1>2, <1>3

\* w are the variables vs with another value v of n: it counts if n had none.
Gained(w, T, vs, n, v) ==
    /\ w \in VariablesOf(T)
    /\ \A m : ValueIn(w, m) = IF m = n /\ ValueIn(vs, n) = <<>> THEN <<v>> ELSE ValueIn(vs, m)

LEMMA GainedIs ==
    ASSUME NEW T, NEW vs \in VariablesOf(T), NEW n \in Seq(T), NEW v \in Seq(T)
    PROVE  Gained(AddVariable(vs, n, v), T, vs, n, v)
  BY VariableIs DEF Gained

-----------------------------------------------------------------------------

\* Where _httpd_storeData is in the text.
PiecesOf(T) == [vars : VariablesOf(T), name : Seq(T), value : Seq(T), valued : BOOLEAN]

Blank == " "

\* The piece a, once an "=" was there or not.
Valued(a, vs, n, v) == a.vars = vs /\ a.name = n /\ a.value = v /\ a.valued

NoValue(a, vs, n) == a.vars = vs /\ a.name = n /\ a.value = <<>> /\ ~a.valued

LEMMA UnescapeIs ==
    ASSUME NEW T, Blank \in T, NEW v \in Seq(T)
    PROVE  /\ Unescape(v) \in Seq(T) /\ Len(Unescape(v)) = Len(v)
           /\ \A i \in 1 .. Len(v) : Unescape(v)[i] = IF v[i] = "+" THEN " " ELSE v[i]
  <1> DEFINE u(i) == IF v[i] = "+" THEN " " ELSE v[i]
             w == Unescape(v)
  <1>1. DOMAIN v = 1 .. Len(v) /\ Len(v) \in Nat /\ \A i \in 1 .. Len(v) : v[i] \in T
    OBVIOUS
  <1>5. \A i \in 1 .. Len(v) : u(i) \in T
    BY <1>1 DEF Blank
  <1>2. w = [i \in 1 .. Len(v) |-> u(i)]
    BY <1>1 DEF Unescape
  <1> HIDE DEF u, w
  <1>3. w \in [1 .. Len(v) -> T] /\ \A i \in 1 .. Len(v) : w[i] = u(i)
    BY <1>2, <1>5
  <1>4. w \in Seq(T) /\ Len(w) = Len(v)
    BY <1>1, <1>3, SeqIs
  <1> QED
    BY <1>3, <1>4 DEF u, w

LEMMA PieceBegins ==
    ASSUME NEW T, NEW vs \in VariablesOf(T)
    PROVE  Piece(vs) \in PiecesOf(T) /\ NoValue(Piece(vs), vs, <<>>)
  <1>1. <<>> \in Seq(T)
    OBVIOUS
  <1>2. Piece(vs) \in PiecesOf(T)
    BY <1>1 DEF Piece, PiecesOf
  <1>3. Piece(vs).vars = vs /\ Piece(vs).name = <<>> /\ Piece(vs).value = <<>>
    BY DEF Piece
  <1>4. ~Piece(vs).valued
    BY DEF Piece
  <1> QED
    BY <1>2, <1>3, <1>4 DEF NoValue

LEMMA PieceEndsIn ==
    ASSUME NEW T, Blank \in T, NEW a \in PiecesOf(T)
    PROVE  PieceEnds(a) \in VariablesOf(T)
  <1>1. a.vars \in VariablesOf(T) /\ a.name \in Seq(T) /\ a.value \in Seq(T)
    BY DEF PiecesOf
  <1>2. Unescape(a.value) \in Seq(T)
    BY <1>1, UnescapeIs
  <1> QED
    BY <1>1, <1>2, VariableIs DEF PieceEnds

LEMMA StoreCharIs ==
    ASSUME NEW T, Blank \in T, NEW a \in PiecesOf(T), NEW c \in T
    PROVE  /\ StoreChar(a, c) \in PiecesOf(T)
           /\ c = "=" => Valued(StoreChar(a, c), a.vars, a.name, <<>>)
           /\ c = "&" => StoreChar(a, c) = Piece(PieceEnds(a))
           /\ c \notin {"=", "&"} /\ a.valued
                 => Valued(StoreChar(a, c), a.vars, a.name, Append(a.value, c))
           /\ c \notin {"=", "&"} /\ ~a.valued /\ a.value = <<>>
                 => NoValue(StoreChar(a, c), a.vars, Append(a.name, c))
  <1> DEFINE s == StoreChar(a, c)
             e == [a EXCEPT !.value = <<>>, !.valued = TRUE]
             v == [a EXCEPT !.value = Append(@, c)]
             n == [a EXCEPT !.name = Append(@, c)]
  <1>1. /\ a.vars \in VariablesOf(T) /\ a.name \in Seq(T) /\ a.value \in Seq(T)
        /\ DOMAIN a = {"vars", "name", "value", "valued"}
    BY DEF PiecesOf
  <1>2. a.valued \in BOOLEAN
    BY DEF PiecesOf
  <1>3. <<>> \in Seq(T) /\ Append(a.value, c) \in Seq(T) /\ Append(a.name, c) \in Seq(T)
    BY <1>1
  <1>4. e \in PiecesOf(T) /\ Valued(e, a.vars, a.name, <<>>)
    <2>1. e \in PiecesOf(T)
      BY <1>3 DEF PiecesOf
    <2>2. e.vars = a.vars /\ e.name = a.name /\ e.value = <<>>
      BY <1>1
    <2>3. e.valued
      BY Zenon, <1>1
    <2> QED
      BY <2>1, <2>2, <2>3 DEF Valued
  <1>5. v \in PiecesOf(T) /\ v.vars = a.vars /\ v.name = a.name /\ v.value = Append(a.value, c)
    BY <1>1, <1>3 DEF PiecesOf
  <1>6. n \in PiecesOf(T) /\ n.vars = a.vars /\ n.name = Append(a.name, c) /\ n.value = a.value
    BY <1>1, <1>3 DEF PiecesOf
  <1>7. v.valued = a.valued /\ n.valued = a.valued
    BY Zenon, <1>1
  <1>8. Piece(PieceEnds(a)) \in PiecesOf(T)
    BY PieceEndsIn, PieceBegins
  <1>9. /\ c = "=" => s = e
        /\ c = "&" => s = Piece(PieceEnds(a))
        /\ c \notin {"=", "&"} /\ a.valued => s = v
        /\ c \notin {"=", "&"} /\ ~a.valued => s = n
    <2> HIDE DEF e, v, n
    <2>1. s = CASE c = "=" -> e
                [] c = "&" -> Piece(PieceEnds(a))
                [] c \notin {"=", "&"} /\ a.valued -> v
                [] OTHER -> n
      BY DEF StoreChar, e, v, n
    <2> HIDE DEF s
    <2> QED
      BY <2>1
  <1> HIDE DEF s, e, v, n
  <1>10. s \in PiecesOf(T)
    BY <1>4, <1>5, <1>6, <1>8, <1>9
  <1>11. c \notin {"=", "&"} /\ a.valued => Valued(s, a.vars, a.name, Append(a.value, c))
    BY <1>5, <1>7, <1>9 DEF Valued
  <1>12. c \notin {"=", "&"} /\ ~a.valued /\ a.value = <<>> => NoValue(s, a.vars, Append(a.name, c))
    BY <1>6, <1>7, <1>9 DEF NoValue
  <1>13. c = "=" => Valued(s, a.vars, a.name, <<>>)
    BY <1>4, <1>9
  <1>14. c = "&" => s = Piece(PieceEnds(a))
    BY <1>9
  <1> QED
    BY <1>10, <1>11, <1>12, <1>13, <1>14 DEF s

\* The pieces there are after each character of a text.
Stepwise(h, vs, text) ==
    /\ h[0] = Piece(vs)
    /\ \A k \in 1 .. Len(text) : h[k] = StoreChar(h[k - 1], text[k])

LEMMA StoreDataIs ==
    ASSUME NEW T, Blank \in T, NEW vs \in VariablesOf(T), NEW text \in Seq(T)
    PROVE  \E h : /\ Stepwise(h, vs, text) /\ StoreData(vs, text) = PieceEnds(h[Len(text)])
                  /\ \A k \in 0 .. Len(text) : h[k] \in PiecesOf(T)
  <1> DEFINE n == Len(text)
             P == PiecesOf(T)
             b == Piece(vs)
             g == [i \in 1 .. n |-> [a \in P |-> StoreChar(a, text[i])]]
             Loop(f) == f = [s \in SUBSET (1 .. n) |->
                                 IF s = {} THEN b ELSE StoreChar(f[s \ {Max(s)}], text[Max(s)])]
             iter == CHOOSE f : Loop(f)
  <1>1. n \in Nat /\ DOMAIN text = 1 .. n /\ \A i \in 1 .. n : text[i] \in T
    OBVIOUS
  <1>2. b \in P
    BY PieceBegins
  <1>3. \A a \in P, i \in 1 .. n : StoreChar(a, text[i]) \in P
    BY <1>1, StoreCharIs
  <1> HIDE DEF P, n
  <1>4. \A i \in 1 .. n : \A a \in P : g[i][a] = StoreChar(a, text[i]) /\ g[i][a] \in P
    BY <1>3
  <1> HIDE DEF g
  <1>5. StoreData(vs, text) = PieceEnds(iter[1 .. n])
    BY <1>1 DEF StoreData, FoldLeft, MapThenFoldSet
  <1> HIDE DEF b
  <1>6. \E f : Loop(f)
    <2>1. Steps(g, n, P)
      BY <1>4 DEF Steps
    <2>2. PICK f \in [SUBSET (1 .. n) -> P] : Folded(f, n, b, g)
      BY <1>1, <1>2, <2>1, FoldExists
    <2>3. \A s \in SUBSET (1 .. n) : f[s] = IF s = {} THEN b ELSE g[Max(s)][f[s \ {Max(s)}]]
      BY <2>2 DEF Folded
    <2>4. ASSUME NEW s \in SUBSET (1 .. n), s # {}
          PROVE  f[s] = StoreChar(f[s \ {Max(s)}], text[Max(s)])
      <3>1. Max(s) \in 1 .. n
        BY <1>1, <2>4, MaxIs
      <3>2. s \ {Max(s)} \in SUBSET (1 .. n)
        OBVIOUS
      <3>3. f[s \ {Max(s)}] \in P
        BY <2>2, <3>2
      <3> QED
        BY <1>4, <2>3, <2>4, <3>1, <3>3
    <2>5. \A s \in SUBSET (1 .. n) :
              f[s] = IF s = {} THEN b ELSE StoreChar(f[s \ {Max(s)}], text[Max(s)])
      BY <2>3, <2>4
    <2>6. f = [s \in SUBSET (1 .. n) |-> f[s]]
      BY <2>2
    <2>7. Loop(f)
      BY <2>5, <2>6
    <2> QED
      BY <2>7
  <1>7. Loop(iter)
    BY <1>6
  <1> HIDE DEF iter
  <1>8. \A s \in SUBSET (1 .. n) :
            iter[s] = IF s = {} THEN b ELSE StoreChar(iter[s \ {Max(s)}], text[Max(s)])
    BY <1>7
  <1> DEFINE h == [k \in 0 .. n |-> iter[1 .. k]]
  <1>9. h[0] = b
    <2>1. 0 \in 0 .. n /\ 1 .. 0 = {} /\ 1 .. 0 \in SUBSET (1 .. n)
      BY <1>1
    <2> QED
      BY <1>8, <2>1
  <1>10. ASSUME NEW k \in 1 .. n
         PROVE  h[k] = StoreChar(h[k - 1], text[k])
    <2>1. /\ k \in 0 .. n /\ k - 1 \in 0 .. n /\ 1 .. k \in SUBSET (1 .. n) /\ k \in 1 .. k
          /\ (1 .. k) \ {k} = 1 .. k - 1
      BY <1>1
    <2>2. Max(1 .. k) = k
      <3>1. Max(1 .. k) \in 1 .. k /\ \A x \in 1 .. k : x <= Max(1 .. k)
        BY <1>1, <2>1, MaxIs
      <3>2. k <= Max(1 .. k)
        BY <2>1, <3>1
      <3> QED
        BY <3>1, <3>2
    <2>3. iter[1 .. k] = StoreChar(iter[1 .. k - 1], text[k])
      BY <1>8, <2>1, <2>2
    <2> QED
      BY <2>1, <2>3
  <1>11. n \in 0 .. n /\ h[n] = iter[1 .. n]
    BY <1>1
  <1> HIDE DEF h
  <1> DEFINE S == {k \in Nat : k <= n => h[k] \in P}
  <1>12. 0 \in S
    BY <1>2, <1>9
  <1>13. ASSUME NEW k \in Nat, k \in S
         PROVE  k + 1 \in S
    <2> SUFFICES ASSUME k + 1 <= n
                 PROVE  h[k + 1] \in P
      OBVIOUS
    <2>1. k <= n /\ k + 1 \in 1 .. n /\ (k + 1) - 1 = k
      BY <1>1
    <2>2. h[k + 1] = StoreChar(h[k], text[k + 1])
      BY <1>10, <2>1
    <2> QED
      BY <1>3, <1>13, <2>1, <2>2
  <1>14. Nat \subseteq S
    <2> HIDE DEF S
    <2> QED
      BY <1>12, <1>13, Induction
  <1>15. \A k \in 0 .. n : h[k] \in P
    BY <1>1, <1>14
  <1>16. Stepwise(h, vs, text)
    BY <1>9, <1>10 DEF Stepwise, n, b
  <1> QED
    BY <1>5, <1>11, <1>15, <1>16 DEF n, P

LEMMA StoreDataIn ==
    ASSUME NEW T, Blank \in T, NEW vs \in VariablesOf(T), NEW text \in Seq(T)
    PROVE  StoreData(vs, text) \in VariablesOf(T)
  <1>1. PICK h : /\ StoreData(vs, text) = PieceEnds(h[Len(text)])
                 /\ \A k \in 0 .. Len(text) : h[k] \in PiecesOf(T)
    BY StoreDataIs
  <1>2. Len(text) \in 0 .. Len(text)
    OBVIOUS
  <1> QED
    BY <1>1, <1>2, PieceEndsIn

-----------------------------------------------------------------------------
(* The form of the page.                                                   *)

NameW == <<"W">>
NameP == <<"P">>
NameSubmit == <<"Submit">>
NameCfg == <<"cfg">>

FieldNames == {NameW, NameP, NameSubmit, NameCfg}

LEMMA NamesAre ==
    /\ \A n \in FieldNames : n \in Seq(Chars) /\ n \in Seq(Toks) /\ Len(n) = 1
    /\ NameW # NameP /\ NameW # NameSubmit /\ NameW # NameCfg
    /\ NameP # NameSubmit /\ NameP # NameCfg /\ NameSubmit # NameCfg
  <1>1. "W" \in Chars /\ "P" \in Chars /\ "Submit" \in Chars /\ "cfg" \in Chars
    BY DEF Chars
  <1>2. \A c \in Chars : <<c>> \in Seq(Chars) /\ Len(<<c>>) = 1
    OBVIOUS
  <1>3. \A n \in FieldNames : n \in Seq(Chars) /\ Len(n) = 1
    <2>1. NameW \in Seq(Chars) /\ Len(NameW) = 1
      BY <1>1, <1>2 DEF NameW
    <2>2. NameP \in Seq(Chars) /\ Len(NameP) = 1
      BY <1>1, <1>2 DEF NameP
    <2>3. NameSubmit \in Seq(Chars) /\ Len(NameSubmit) = 1
      BY <1>1, <1>2 DEF NameSubmit
    <2>4. NameCfg \in Seq(Chars) /\ Len(NameCfg) = 1
      BY <1>1, <1>2 DEF NameCfg
    <2> QED
      BY <2>1, <2>2, <2>3, <2>4 DEF FieldNames
  <1>4. NameW # NameP /\ NameW # NameSubmit /\ NameW # NameCfg
    BY DEF NameW, NameP, NameSubmit, NameCfg
  <1>5. NameP # NameSubmit /\ NameP # NameCfg /\ NameSubmit # NameCfg
    BY DEF NameP, NameSubmit, NameCfg
  <1> QED
    BY <1>3, <1>4, <1>5, CharsAreToks

LEMMA BlankIs == Blank \in Chars /\ Blank \in Toks
  BY CharsAreToks DEF Blank, Chars

\* The pieces of a text are as they are typed.
Pieces(h, vs, text) ==
    /\ text \in Seq(Toks) /\ Stepwise(h, vs, text)
    /\ \A k \in 0 .. Len(text) : h[k] \in PiecesOf(Toks)

LEMMA PieceNext ==
    ASSUME NEW h, NEW vs, NEW text, Pieces(h, vs, text), NEW k \in Nat, k + 1 <= Len(text), NEW c, c = text[k + 1],
           NEW ws, NEW n, NEW v
    PROVE  /\ c = "=" /\ NoValue(h[k], ws, n) => Valued(h[k + 1], ws, n, <<>>)
           /\ c = "&" /\ Valued(h[k], ws, n, v) => NoValue(h[k + 1], AddVariable(ws, n, Unescape(v)), <<>>)
           /\ c \notin {"=", "&"} /\ NoValue(h[k], ws, n) => NoValue(h[k + 1], ws, Append(n, c))
           /\ c \notin {"=", "&"} /\ Valued(h[k], ws, n, v) => Valued(h[k + 1], ws, n, Append(v, c))
  <1> DEFINE a == h[k]
             s == StoreChar(a, c)
  <1>1. Len(text) \in Nat /\ k \in 0 .. Len(text) /\ k + 1 \in 1 .. Len(text) /\ (k + 1) - 1 = k
    <2>1. Len(text) \in Nat
      BY DEF Pieces
    <2> QED
      BY <2>1
  <1>2. a \in PiecesOf(Toks) /\ c \in Toks /\ h[k + 1] = s
    BY <1>1 DEF Pieces, Stepwise
  <1> HIDE DEF a, s
  <1>3. /\ c = "=" => Valued(s, a.vars, a.name, <<>>)
        /\ c = "&" => s = Piece(PieceEnds(a))
        /\ c \notin {"=", "&"} /\ a.valued => Valued(s, a.vars, a.name, Append(a.value, c))
        /\ c \notin {"=", "&"} /\ ~a.valued /\ a.value = <<>> => NoValue(s, a.vars, Append(a.name, c))
    BY <1>2, BlankIs, StoreCharIs DEF s
  <1>4. PieceEnds(a) = AddVariable(a.vars, a.name, Unescape(a.value)) /\ PieceEnds(a) \in VariablesOf(Toks)
    BY <1>2, BlankIs, PieceEndsIn DEF PieceEnds
  <1>5. NoValue(Piece(PieceEnds(a)), PieceEnds(a), <<>>)
    BY <1>4, PieceBegins
  <1>6. c = "=" /\ NoValue(a, ws, n) => Valued(s, ws, n, <<>>)
    BY <1>3 DEF NoValue
  <1>7. c = "&" /\ Valued(a, ws, n, v) => NoValue(s, AddVariable(ws, n, Unescape(v)), <<>>)
    BY <1>3, <1>4, <1>5 DEF Valued
  <1>8. c \notin {"=", "&"} /\ NoValue(a, ws, n) => NoValue(s, ws, Append(n, c))
    BY <1>3 DEF NoValue
  <1>9. c \notin {"=", "&"} /\ Valued(a, ws, n, v) => Valued(s, ws, n, Append(v, c))
    BY <1>3 DEF Valued
  <1> QED
    BY <1>2, <1>6, <1>7, <1>8, <1>9 DEF a

\* Behind its first o characters a text is one value.
OneValue(text, o) == \A i \in o + 1 .. Len(text) : text[i] \notin {"=", "&"}

ValueGrows(h, text, ws, n, o) ==
    \A k \in o .. Len(text) : \E v \in Seq(Toks) :
        /\ Valued(h[k], ws, n, v) /\ Len(v) = k - o /\ \A i \in 1 .. Len(v) : v[i] = text[o + i]

LEMMA LastValue ==
    ASSUME NEW h, NEW vs, NEW text, Pieces(h, vs, text), NEW ws, NEW n, NEW o \in Nat, Valued(h[o], ws, n, <<>>),
           OneValue(text, o)
    PROVE  ValueGrows(h, text, ws, n, o)
  <1> DEFINE l == Len(text)
             Has(v, m) == /\ Valued(h[o + m], ws, n, v) /\ Len(v) = m
                          /\ \A i \in 1 .. m : v[i] = text[o + i]
             S == {m \in Nat : o + m <= l => \E v \in Seq(Toks) : Has(v, m)}
  <1>1. l \in Nat /\ \A i \in 1 .. l : text[i] \in Toks
    BY DEF Pieces
  <1>2. 0 \in S
    <2>1. o + 0 = o /\ <<>> \in Seq(Toks) /\ Len(<<>>) = 0
      OBVIOUS
    <2>2. Valued(h[o + 0], ws, n, <<>>)
      BY <2>1
    <2>3. \A i \in 1 .. 0 : <<>>[i] = text[o + i]
      OBVIOUS
    <2>4. Has(<<>>, 0)
      BY <2>1, <2>2, <2>3
    <2> HIDE DEF Has
    <2> QED
      BY <2>1, <2>4
  <1>3. ASSUME NEW m \in Nat, m \in S
        PROVE  m + 1 \in S
    <2> SUFFICES ASSUME o + (m + 1) <= l
                 PROVE  \E v \in Seq(Toks) : Has(v, m + 1)
      OBVIOUS
    <2>1. /\ o + m <= l /\ (o + m) + 1 <= l /\ o + (m + 1) = (o + m) + 1 /\ o + m \in Nat
          /\ (o + m) + 1 \in 1 .. l /\ (o + m) + 1 \in o + 1 .. l
      BY <1>1
    <2>2. PICK v \in Seq(Toks) : Has(v, m)
      BY <1>3, <2>1
    <2> DEFINE c == text[(o + m) + 1]
               w == Append(v, c)
    <2>3. c \in Toks /\ c \notin {"=", "&"}
      BY <1>1, <2>1 DEF OneValue
    <2> HIDE DEF c
    <2>4. Valued(h[(o + m) + 1], ws, n, w)
      <3>1. Valued(h[o + m], ws, n, v)
        BY <2>2
      <3>2. (o + m) + 1 <= Len(text)
        BY <2>1
      <3>3. c = text[(o + m) + 1]
        BY DEF c
      <3> QED
        BY <2>1, <2>3, <3>1, <3>2, <3>3, PieceNext
    <2>5. w \in Seq(Toks) /\ Len(w) = m + 1 /\ w[m + 1] = c /\ \A i \in 1 .. m : w[i] = v[i]
      <3>1. Len(v) = m
        BY <2>2
      <3> QED
        BY <2>2, <2>3, <3>1, AppendText
    <2>6. \A i \in 1 .. m + 1 : w[i] = text[o + i]
      <3> TAKE i \in 1 .. m + 1
      <3>1. CASE i \in 1 .. m
        BY <2>2, <2>5, <3>1
      <3>2. CASE i = m + 1
        <4>1. w[i] = c
          BY <2>5, <3>2
        <4>2. o + i = (o + m) + 1
          BY <2>1, <3>2
        <4> QED
          BY <4>1, <4>2 DEF c
      <3>3. i \in 1 .. m \/ i = m + 1
        OBVIOUS
      <3> HIDE DEF w
      <3> QED
        BY <3>1, <3>2, <3>3
    <2> HIDE DEF w
    <2> QED
      BY <2>1, <2>4, <2>5, <2>6
  <1>4. Nat \subseteq S
    <2> HIDE DEF S
    <2> QED
      BY <1>2, <1>3, Induction
  <1> SUFFICES ASSUME NEW k \in o .. l
               PROVE  \E v \in Seq(Toks) :
                          /\ Valued(h[k], ws, n, v) /\ Len(v) = k - o /\ \A i \in 1 .. Len(v) : v[i] = text[o + i]
    BY DEF ValueGrows
  <1>5. k - o \in Nat /\ o + (k - o) = k /\ o + (k - o) <= l
    BY <1>1
  <1>6. PICK v \in Seq(Toks) : Has(v, k - o)
    BY <1>4, <1>5
  <1> QED
    BY <1>5, <1>6

\* A form is read from a text, whose first d characters are an end of line.
FormFrom(text, d, p, b) ==
    /\ d \in 0 .. 2 /\ text \in Seq(Toks)
    /\ \A i \in 1 .. d : i <= Len(text) => text[i] \in {"\r", "\n"}
    /\ \A i \in 1 .. 10 + Len(b) : d + i <= Len(text) => text[d + i] = Encoded(Form(p, b))[i]

LEMMA EndIsRead ==
    ASSUME NEW h, NEW vs \in VariablesOf(Toks), NEW text, Pieces(h, vs, text), NEW d \in 0 .. 2,
           NEW p, NEW b, FormFrom(text, d, p, b), d <= Len(text)
    PROVE  \E e \in Seq(Toks) : Len(e) = d /\ NoValue(h[d], vs, e)
  <1> DEFINE l == Len(text)
  <1>1. l \in Nat /\ \A i \in 1 .. l : text[i] \in Toks
    BY DEF Pieces
  <1>2. NoValue(h[0], vs, <<>>)
    BY PieceBegins DEF Pieces, Stepwise
  <1>3. ASSUME NEW k \in 0 .. 1, k + 1 <= d, NEW e \in Seq(Toks), NoValue(h[k], vs, e), Len(e) = k
        PROVE  \E f \in Seq(Toks) : Len(f) = k + 1 /\ NoValue(h[k + 1], vs, f)
    <2> DEFINE c == text[k + 1]
               f == Append(e, c)
    <2>1. k \in Nat /\ k + 1 \in 1 .. d /\ k + 1 <= l /\ k + 1 \in 1 .. l
      BY <1>1, <1>3
    <2>2. c \in {"\r", "\n"}
      BY <2>1 DEF FormFrom
    <2>3. c \notin {"=", "&"} /\ c \in Toks
      BY <1>1, <2>1, <2>2
    <2> HIDE DEF c
    <2>4. NoValue(h[k + 1], vs, f)
      BY <1>3, <2>1, <2>3, PieceNext DEF c
    <2>5. f \in Seq(Toks) /\ Len(f) = k + 1
      BY <1>3, <2>3, AppendText
    <2> QED
      BY <2>4, <2>5
  <1>4. <<>> \in Seq(Toks) /\ Len(<<>>) = 0
    OBVIOUS
  <1>5. CASE d = 0
    BY <1>2, <1>4, <1>5
  <1>6. ASSUME d >= 1
        PROVE  \E f \in Seq(Toks) : Len(f) = 1 /\ NoValue(h[1], vs, f)
    <2>1. 0 \in 0 .. 1 /\ 0 + 1 <= d /\ 0 + 1 = 1
      BY <1>6
    <2>2. \E f \in Seq(Toks) : Len(f) = 0 + 1 /\ NoValue(h[0 + 1], vs, f)
      BY <1>2, <1>3, <1>4, <2>1
    <2> QED
      BY <2>1, <2>2
  <1>7. CASE d = 1
    BY <1>6, <1>7
  <1>8. CASE d = 2
    <2>1. 1 \in 0 .. 1 /\ 1 + 1 <= d /\ 1 + 1 = 2
      BY <1>8
    <2>2. PICK e \in Seq(Toks) : Len(e) = 1 /\ NoValue(h[1], vs, e)
      BY <1>6, <1>8
    <2>3. \E f \in Seq(Toks) : Len(f) = 1 + 1 /\ NoValue(h[1 + 1], vs, f)
      BY <1>3, <2>1, <2>2
    <2> QED
      BY <1>8, <2>1, <2>3
  <1> QED
    BY <1>5, <1>7, <1>8

LEMMA UnescapeOne ==
    ASSUME NEW c \in Toks, c # "+"
    PROVE  Unescape(<<c>>) = <<c>>
  <1> DEFINE v == <<c>>
  <1>1. v \in Seq(Toks) /\ Len(v) = 1 /\ v[1] = c
    OBVIOUS
  <1> HIDE DEF v
  <1>2. /\ Unescape(v) \in Seq(Toks) /\ Len(Unescape(v)) = 1
        /\ \A i \in 1 .. 1 : Unescape(v)[i] = IF v[i] = "+" THEN " " ELSE v[i]
    BY <1>1, BlankIs, UnescapeIs
  <1>3. \A i \in 1 .. 1 : i = 1
    OBVIOUS
  <1>4. \A i \in 1 .. 1 : Unescape(v)[i] = v[i]
    BY <1>1, <1>2, <1>3
  <1>5. Unescape(v) = v
    BY <1>1, <1>2, <1>4, SeqEqual
  <1> QED
    BY <1>5 DEF v

LEMMA AppendFirst == \A c : Append(<<>>, c) = <<c>>
  OBVIOUS

LEMMA ButtonChars == \A b \in Buttons : b \in Seq(Toks) /\ \A i \in 1 .. Len(b) : b[i] \notin {"+", "=", "&"}
  <1>1. \A b \in Buttons : b \in Seq(Toks)
    BY ButtonsAre, CharsAreToks
  <1>2. \A i \in 1 .. Len(<<"Save">>) : <<"Save">>[i] \notin {"+", "=", "&"}
    <2>1. Len(<<"Save">>) = 1 /\ <<"Save">>[1] = "Save" /\ \A i \in 1 .. 1 : i = 1
      OBVIOUS
    <2> QED
      BY <2>1
  <1>3. \A i \in 1 .. Len(<<"Save", " ", "Reboot">>) : <<"Save", " ", "Reboot">>[i] \notin {"+", "=", "&"}
    <2> DEFINE b == <<"Save", " ", "Reboot">>
    <2>1. Len(b) = 3 /\ b[1] = "Save" /\ b[2] = " " /\ b[3] = "Reboot"
      OBVIOUS
    <2>2. \A i \in 1 .. 3 : i \in {1, 2, 3}
      OBVIOUS
    <2> HIDE DEF b
    <2>3. \A i \in 1 .. Len(b) : b[i] \notin {"+", "=", "&"}
      BY <2>1, <2>2
    <2> QED
      BY <2>3 DEF b
  <1> QED
    BY <1>1, <1>2, <1>3 DEF Buttons

\* The variables a form adds, of which the first name may be spoilt.
Added(vs, n, p, u) ==
    AddVariable(AddVariable(AddVariable(vs, n, <<"1">>), NameP, <<p>>), NameSubmit, u)

LEMMA PostedIs ==
    ASSUME NEW vs \in VariablesOf(Toks), NEW text, NEW d, NEW p \in {"1", "2"}, NEW b \in Buttons,
           FormFrom(text, d, p, b), d + 9 <= Len(text), Len(text) <= (d + 10) + Len(b)
    PROVE  \E n, u \in Seq(Toks) :
              /\ Len(n) = d + 1 /\ (d = 0 => n = NameW)
              /\ StoreData(vs, text) = Added(vs, n, p, u)
              /\ Len(text) = (d + 10) + Len(b) => u = b
  <1> DEFINE l == Len(text)
             m == Len(b)
             f == Encoded(Form(p, b))
  <1>1. text \in Seq(Toks) /\ d \in 0 .. 2
    BY DEF FormFrom
  <1>2. l \in Nat /\ m \in Nat /\ b \in Seq(Toks)
    BY <1>1, ButtonChars
  <1>3. PICK h : Stepwise(h, vs, text) /\ StoreData(vs, text) = PieceEnds(h[l]) /\ \A k \in 0 .. l : h[k] \in PiecesOf(Toks)
    BY <1>1, BlankIs, StoreDataIs
  <1>4. Pieces(h, vs, text)
    BY <1>1, <1>3 DEF Pieces
  <1>5. FormText(f, p, b)
    BY FormIs
  <1>6. /\ \A i \in 1 .. 10 + m : d + i <= l => text[d + i] = f[i]
        /\ \A i \in 1 .. 9 : i \in 1 .. 10 + m /\ d + i <= l
        /\ d \in Nat /\ d <= l
    BY <1>1, <1>2 DEF FormFrom
  <1>7. /\ f[1] = "W" /\ f[2] = "=" /\ f[3] = "1" /\ f[4] = "&"
        /\ f[5] = "P" /\ f[6] = "=" /\ f[7] = p /\ f[8] = "&"
        /\ f[9] = "Submit" /\ f[10] = "="
        /\ \A i \in 1 .. Len(b) : f[10 + i] = IF b[i] = " " THEN "+" ELSE b[i]
    BY <1>5 DEF FormText
  <1> HIDE DEF f
  <1>8. /\ text[d + 1] = "W" /\ text[d + 2] = "=" /\ text[d + 3] = "1" /\ text[d + 4] = "&"
        /\ text[d + 5] = "P" /\ text[d + 6] = "=" /\ text[d + 7] = p /\ text[d + 8] = "&"
        /\ text[d + 9] = "Submit"
    <2>1. \A i \in 1 .. 9 : text[d + i] = f[i]
      BY <1>6
    <2>2. \A i \in {1, 2, 3, 4, 5, 6, 7, 8, 9} : i \in 1 .. 9
      OBVIOUS
    <2>3. \A i \in {1, 2, 3, 4, 5, 6, 7, 8, 9} : text[d + i] = f[i]
      BY <2>1, <2>2
    <2> QED
      BY <1>7, <2>3
  <1>9. PICK e \in Seq(Toks) : Len(e) = d /\ NoValue(h[d], vs, e)
    BY <1>1, <1>4, <1>6, EndIsRead
  <1> DEFINE n == Append(e, "W")
             v1 == AddVariable(vs, n, <<"1">>)
             v2 == AddVariable(v1, NameP, <<p>>)
  <1>10. /\ "W" \in Toks /\ "P" \in Toks /\ "1" \in Toks /\ p \in Toks /\ "Submit" \in Toks
         /\ p # "+" /\ p # "=" /\ p # "&"
    BY CharsAreToks DEF Chars
  <1>11. n \in Seq(Toks) /\ Len(n) = d + 1 /\ (d = 0 => n = NameW)
    <2> DEFINE c == "W"
    <2>1. c \in Toks
      BY <1>10
    <2> HIDE DEF c
    <2>2. Append(e, c) \in Seq(Toks) /\ Len(Append(e, c)) = d + 1
      BY <1>9, <2>1, AppendText
    <2>3. d = 0 => e = <<>>
      BY <1>9
    <2>4. d = 0 => Append(e, c) = <<c>>
      BY <2>3, AppendFirst
    <2> QED
      BY <2>2, <2>4 DEF c, NameW
  <1>12. /\ d \in Nat /\ d + 1 \in Nat /\ d + 2 \in Nat /\ d + 3 \in Nat /\ d + 4 \in Nat
         /\ d + 5 \in Nat /\ d + 6 \in Nat /\ d + 7 \in Nat /\ d + 8 \in Nat
         /\ (d + 1) + 1 = d + 2 /\ (d + 2) + 1 = d + 3 /\ (d + 3) + 1 = d + 4 /\ (d + 4) + 1 = d + 5
         /\ (d + 5) + 1 = d + 6 /\ (d + 6) + 1 = d + 7 /\ (d + 7) + 1 = d + 8 /\ (d + 8) + 1 = d + 9
         /\ d + 1 <= l /\ d + 2 <= l /\ d + 3 <= l /\ d + 4 <= l /\ d + 5 <= l /\ d + 6 <= l /\ d + 7 <= l
         /\ d + 8 <= l /\ d + 9 <= l
    BY <1>1, <1>2
  <1> DEFINE NextOf(k, c) ==
          \A ws, x, v :
           /\ c = "=" /\ NoValue(h[k], ws, x) => Valued(h[k + 1], ws, x, <<>>)
           /\ c = "&" /\ Valued(h[k], ws, x, v) => NoValue(h[k + 1], AddVariable(ws, x, Unescape(v)), <<>>)
           /\ c \notin {"=", "&"} /\ NoValue(h[k], ws, x) => NoValue(h[k + 1], ws, Append(x, c))
           /\ c \notin {"=", "&"} /\ Valued(h[k], ws, x, v) => Valued(h[k + 1], ws, x, Append(v, c))
  <1>13. \A k \in Nat : k + 1 <= l => NextOf(k, text[k + 1])
    BY <1>4, PieceNext
  <1> HIDE DEF n, v1, v2, l
  <1>14. NoValue(h[d + 1], vs, n)
    <2>1. NextOf(d, "W")
      BY <1>8, <1>12, <1>13
    <2> QED
      BY <1>9, <2>1 DEF n
  <1>15. Valued(h[d + 2], vs, n, <<>>)
    <2>1. NextOf(d + 1, "=")
      BY <1>8, <1>12, <1>13
    <2> QED
      BY <1>12, <1>14, <2>1
  <1>16. Valued(h[d + 3], vs, n, <<"1">>)
    <2>1. NextOf(d + 2, "1")
      BY <1>8, <1>12, <1>13
    <2>2. Valued(h[d + 3], vs, n, Append(<<>>, "1"))
      BY <1>12, <1>15, <2>1
    <2> QED
      BY <2>2, AppendFirst
  <1>17. NoValue(h[d + 4], v1, <<>>)
    <2>1. NextOf(d + 3, "&")
      BY <1>8, <1>12, <1>13
    <2>2. NoValue(h[d + 4], AddVariable(vs, n, Unescape(<<"1">>)), <<>>)
      BY <1>12, <1>16, <2>1
    <2>3. Unescape(<<"1">>) = <<"1">>
      BY <1>10, UnescapeOne
    <2> QED
      BY <2>2, <2>3 DEF v1
  <1>18. NoValue(h[d + 5], v1, NameP)
    <2>1. NextOf(d + 4, "P")
      BY <1>8, <1>12, <1>13
    <2>2. NoValue(h[d + 5], v1, Append(<<>>, "P"))
      BY <1>12, <1>17, <2>1
    <2> QED
      BY <2>2, AppendFirst DEF NameP
  <1>19. Valued(h[d + 6], v1, NameP, <<>>)
    <2>1. NextOf(d + 5, "=")
      BY <1>8, <1>12, <1>13
    <2> QED
      BY <1>12, <1>18, <2>1
  <1>20. Valued(h[d + 7], v1, NameP, <<p>>)
    <2>1. NextOf(d + 6, p)
      BY <1>8, <1>12, <1>13
    <2>2. Valued(h[d + 7], v1, NameP, Append(<<>>, p))
      BY <1>10, <1>12, <1>19, <2>1
    <2> QED
      BY <2>2, AppendFirst
  <1>21. NoValue(h[d + 8], v2, <<>>)
    <2>1. NextOf(d + 7, "&")
      BY <1>8, <1>12, <1>13
    <2>2. NoValue(h[d + 8], AddVariable(v1, NameP, Unescape(<<p>>)), <<>>)
      BY <1>12, <1>20, <2>1
    <2>3. Unescape(<<p>>) = <<p>>
      BY <1>10, UnescapeOne
    <2> QED
      BY <2>2, <2>3 DEF v2
  <1>22. NoValue(h[d + 9], v2, NameSubmit)
    <2>1. NextOf(d + 8, "Submit")
      BY <1>8, <1>12, <1>13
    <2>2. NoValue(h[d + 9], v2, Append(<<>>, "Submit"))
      BY <1>12, <1>21, <2>1
    <2> QED
      BY <2>2, AppendFirst DEF NameSubmit
  <1>23. \A a, v : (Valued(a, v2, NameSubmit, v) \/ (NoValue(a, v2, NameSubmit) /\ v = <<>>))
                      => PieceEnds(a) = Added(vs, n, p, Unescape(v))
    BY DEF Valued, NoValue, PieceEnds, Added, v1, v2
  <1>24. CASE l = d + 9
    <2>1. StoreData(vs, text) = Added(vs, n, p, Unescape(<<>>))
      BY <1>3, <1>22, <1>23, <1>24
    <2>2. <<>> \in Seq(Toks)
      OBVIOUS
    <2>3. Unescape(<<>>) \in Seq(Toks)
      BY <2>2, BlankIs, UnescapeIs
    <2>4. l # (d + 10) + Len(b)
      BY <1>2, <1>12, <1>24
    <2> QED
      BY <1>11, <2>1, <2>3, <2>4 DEF l
  <1>25. CASE l # d + 9
    <2> DEFINE o == d + 10
    <2>1. o \in Nat /\ o <= l /\ (d + 9) + 1 = o /\ d + 9 \in Nat /\ (d + 9) + 1 <= l /\ l <= o + m
      BY <1>1, <1>2, <1>12, <1>25 DEF l
    <2>2. 10 \in 1 .. 10 + m /\ d + 10 = o
      BY <1>2
    <2>3. text[o] = "="
      BY <1>6, <1>7, <2>1, <2>2 DEF l
    <2> HIDE DEF o
    <2>4. Valued(h[o], v2, NameSubmit, <<>>)
      <3>1. NextOf(d + 9, "=")
        BY <1>13, <2>1, <2>3
      <3> QED
        BY <1>22, <2>1, <3>1
    <2>5. \A i \in 1 .. m : o + i <= l => text[o + i] = IF b[i] = " " THEN "+" ELSE b[i]
      <3> SUFFICES ASSUME NEW i \in 1 .. m, o + i <= l
                   PROVE  text[o + i] = IF b[i] = " " THEN "+" ELSE b[i]
        OBVIOUS
      <3>1. 10 + i \in 1 .. 10 + m /\ d + (10 + i) = o + i
        BY <1>2, <1>12, <2>2
      <3>2. text[o + i] = f[10 + i]
        BY <1>6, <3>1 DEF l
      <3> QED
        BY <1>7, <3>2
    <2>6. \A i \in 1 .. m : b[i] \notin {"+", "=", "&"}
      BY ButtonChars
    <2>7. OneValue(text, o)
      <3> SUFFICES ASSUME NEW i \in o + 1 .. l
                   PROVE  text[i] \notin {"=", "&"}
        BY DEF l, OneValue
      <3>1. i - o \in 1 .. m /\ o + (i - o) = i /\ o + (i - o) <= l
        BY <1>2, <2>1 DEF l
      <3>2. text[i] = IF b[i - o] = " " THEN "+" ELSE b[i - o]
        BY <2>5, <3>1
      <3> QED
        BY <2>6, <3>1, <3>2
    <2>8. PICK v \in Seq(Toks) : /\ Valued(h[l], v2, NameSubmit, v) /\ Len(v) = l - o
                                 /\ \A i \in 1 .. Len(v) : v[i] = text[o + i]
      <3>1. ValueGrows(h, text, v2, NameSubmit, o)
        BY <1>4, <2>1, <2>4, <2>7, LastValue
      <3>2. l \in o .. l
        BY <1>2, <2>1 DEF l
      <3> QED
        BY <3>1, <3>2 DEF l, ValueGrows
    <2> DEFINE u == Unescape(v)
    <2>9. /\ u \in Seq(Toks) /\ Len(u) = l - o
          /\ \A i \in 1 .. l - o : u[i] = IF v[i] = "+" THEN " " ELSE v[i]
      BY <2>8, BlankIs, UnescapeIs
    <2>10. StoreData(vs, text) = Added(vs, n, p, u)
      BY <1>3, <1>23, <2>8 DEF l
    <2>11. ASSUME l = o + m
           PROVE  u = b
      <3>1. l - o = m /\ \A i \in 1 .. m : o + i <= l
        BY <1>2, <2>1, <2>11 DEF l
      <3>2. \A i \in 1 .. m : u[i] = b[i]
        <4> TAKE i \in 1 .. m
        <4>1. v[i] = IF b[i] = " " THEN "+" ELSE b[i]
          BY <2>5, <2>8, <3>1
        <4>2. u[i] = IF v[i] = "+" THEN " " ELSE v[i]
          BY <2>9, <3>1
        <4>3. b[i] # "+"
          BY <2>6
        <4> QED
          BY <4>1, <4>2, <4>3
      <3>3. Len(u) = m
        BY <2>9, <3>1
      <3> HIDE DEF u
      <3> QED
        BY <1>2, <2>9, <3>2, <3>3, SeqEqual
    <2> HIDE DEF u
    <2> QED
      BY <1>11, <2>2, <2>9, <2>10, <2>11 DEF l
  <1> QED
    BY <1>24, <1>25

LEMMA NoSuchName ==
    ASSUME NEW T, NEW ws \in VariablesOf(T), NEW n, n \notin Seq(T)
    PROVE  ValueIn(ws, n) = <<>>
  <1>1. \A i \in DOMAIN ws : ws[i].name \in Seq(T)
    <2> DEFINE R == [name : Seq(T), values : Seq(Seq(T)) \ {<<>>}]
    <2>1. ws \in Seq(R) /\ \A r \in R : r.name \in Seq(T)
      BY DEF VariablesOf
    <2> HIDE DEF R
    <2>2. \A i \in DOMAIN ws : ws[i] \in R
      BY <2>1
    <2> QED
      BY <2>1, <2>2
  <1> QED
    BY <1>1, OldestIs

LEMMA NoVariables == \A T, n : <<>> \in VariablesOf(T) /\ ValueIn(<<>>, n) = <<>>
  <1> TAKE T, n
  <1>1. <<>> \in VariablesOf(T) /\ DOMAIN <<>> = {}
    BY DEF VariablesOf
  <1> QED
    BY <1>1, OldestIs

LEMMA TextOf ==
    ASSUME NEW T, NEW U, NEW s \in Seq(U), \A i \in 1 .. Len(s) : s[i] \in T
    PROVE  s \in Seq(T)
  <1>1. Len(s) \in Nat /\ s \in [1 .. Len(s) -> T]
    OBVIOUS
  <1> QED
    BY <1>1, SeqIs

\* The texts before the form's button.
Early == Toks \ {"Submit"}

LEMMA EarlyIs ==
    /\ Blank \in Early /\ Early \subseteq Toks /\ Seq(Early) \subseteq Seq(Toks)
    /\ NameW \in Seq(Early) /\ <<"3">> \in Seq(Early) /\ NameSubmit \notin Seq(Early)
  <1>1. " " \in Toks /\ "W" \in Toks /\ "3" \in Toks
    BY CharsAreToks DEF Chars
  <1>2. Blank \in Early /\ "W" \in Early /\ "3" \in Early
    BY <1>1 DEF Early, Blank
  <1>3. Early \subseteq Toks
    BY DEF Early
  <1>4. Seq(Early) \subseteq Seq(Toks)
    BY <1>3, SeqMonotonic
  <1>5. \A c \in Early : <<c>> \in Seq(Early)
    OBVIOUS
  <1>6. NameW \in Seq(Early) /\ <<"3">> \in Seq(Early)
    BY <1>2, <1>5 DEF NameW
  <1>7. \A s \in Seq(Early) : Len(s) = 1 => s[1] \in Early
    OBVIOUS
  <1>8. Len(NameSubmit) = 1 /\ NameSubmit[1] = "Submit" /\ "Submit" \notin Early
    BY DEF NameSubmit, Early
  <1> QED
    BY <1>2, <1>3, <1>4, <1>6, <1>7, <1>8

\* The variables of the cookie, if there was one.
FromCookie(vs, cookie) ==
    /\ vs \in VariablesOf(Toks) /\ vs \in VariablesOf(Early)
    /\ ValueIn(vs, NameW) = IF cookie THEN << <<"3">> >> ELSE <<>>
    /\ \A n \in FieldNames \ {NameW} : ValueIn(vs, n) = <<>>

LEMMA CookieIs ==
    ASSUME NEW k, NEW j
    PROVE  FromCookie(VarsAt(k, j), Had(k, j, CookieLine))
  <1> DEFINE t == <<"3">>
  <1>1. \A T : t \in Seq(T) /\ NameW \in Seq(T) =>
            /\ CookieVariables \in VariablesOf(T)
            /\ \A m : ValueIn(CookieVariables, m) = IF m = NameW THEN <<t>> ELSE <<>>
    <2> HIDE DEF t
    <2> SUFFICES ASSUME NEW T, t \in Seq(T), NameW \in Seq(T)
                 PROVE  /\ AddVariable(<<>>, NameW, t) \in VariablesOf(T)
                        /\ \A m : ValueIn(AddVariable(<<>>, NameW, t), m) = IF m = NameW THEN <<t>> ELSE <<>>
      BY DEF CookieVariables, NameW, t
    <2>1. <<>> \in VariablesOf(T) /\ \A n : ValueIn(<<>>, n) = <<>>
      BY NoVariables
    <2>2. /\ AddVariable(<<>>, NameW, t) \in VariablesOf(T)
          /\ \A m : ValueIn(AddVariable(<<>>, NameW, t), m)
                       = IF m = NameW /\ ValueIn(<<>>, NameW) = <<>> THEN <<t>> ELSE ValueIn(<<>>, m)
      BY <2>1, VariableIs
    <2> QED
      BY <2>1, <2>2
  <1>2. t \in Seq(Early) /\ NameW \in Seq(Early) /\ t \in Seq(Toks) /\ NameW \in Seq(Toks)
    BY EarlyIs
  <1> HIDE DEF t
  <1>3. CASE Had(k, j, CookieLine)
    <2>1. VarsAt(k, j) = CookieVariables
      BY <1>3 DEF VarsAt
    <2> QED
      BY <1>1, <1>2, <1>3, <2>1, NamesAre DEF FromCookie, FieldNames, t
  <1>4. CASE ~Had(k, j, CookieLine)
    <2>1. VarsAt(k, j) = <<>>
      BY <1>4 DEF VarsAt
    <2> QED
      BY <1>4, <2>1, NoVariables DEF FromCookie
  <1> QED
    BY <1>3, <1>4

\* What is made of the body of a form, whose beginning may be an end of line.
OfForm(ws, cookie, d, p) ==
    /\ ws \in VariablesOf(Toks)
    /\ ValueIn(ws, NameSubmit) # <<>>
          => /\ ValueIn(ws, NameW) = IF cookie THEN << <<"3">> >> ELSE IF d = 0 THEN << <<"1">> >> ELSE <<>>
             /\ ValueIn(ws, NameP) = << <<p>> >> /\ ValueIn(ws, NameCfg) = <<>>

LEMMA FormIsStored ==
    ASSUME NEW vs, NEW cookie, FromCookie(vs, cookie), NEW text, NEW d, NEW p \in {"1", "2"}, NEW b \in Buttons,
           FormFrom(text, d, p, b), Len(text) <= (d + 10) + Len(b)
    PROVE  /\ OfForm(StoreData(vs, text), cookie, d, p)
           /\ Len(text) = (d + 10) + Len(b) => ValueIn(StoreData(vs, text), NameSubmit) = <<b>>
  <1> DEFINE ws == StoreData(vs, text)
  <1>1. text \in Seq(Toks) /\ d \in 0 .. 2 /\ Len(text) \in Nat /\ Len(b) \in Nat
    <2>1. text \in Seq(Toks) /\ d \in 0 .. 2 /\ b \in Seq(Toks)
      BY ButtonChars DEF FormFrom
    <2> QED
      BY <2>1
  <1>2. /\ vs \in VariablesOf(Toks) /\ vs \in VariablesOf(Early)
        /\ ValueIn(vs, NameW) = IF cookie THEN << <<"3">> >> ELSE <<>>
        /\ ValueIn(vs, NameP) = <<>> /\ ValueIn(vs, NameSubmit) = <<>> /\ ValueIn(vs, NameCfg) = <<>>
    BY NamesAre DEF FromCookie, FieldNames
  <1>3. ws \in VariablesOf(Toks)
    BY <1>1, <1>2, BlankIs, StoreDataIn
  <1>4. CASE Len(text) <= d + 8
    <2>1. \A i \in 1 .. Len(text) : text[i] \in Early
      <3> SUFFICES ASSUME NEW i \in 1 .. Len(text)
                   PROVE  text[i] \in Early
        OBVIOUS
      <3>1. text[i] \in Toks
        BY <1>1
      <3>2. CASE i <= d
        <4>1. i \in 1 .. d /\ i <= Len(text)
          BY <1>1, <3>2
        <4>2. text[i] \in {"\r", "\n"}
          BY <4>1 DEF FormFrom
        <4> QED
          BY <3>1, <4>2 DEF Early
      <3>3. CASE ~(i <= d)
        <4> DEFINE f == Encoded(Form(p, b))
        <4>1. /\ i - d \in 1 .. 8 /\ i - d \in 1 .. 10 + Len(b) /\ d + (i - d) = i /\ i <= Len(text)
          BY <1>1, <1>4, <3>3
        <4>2. text[i] = f[i - d]
          BY <4>1 DEF FormFrom
        <4>3. /\ f[1] = "W" /\ f[2] = "=" /\ f[3] = "1" /\ f[4] = "&"
              /\ f[5] = "P" /\ f[6] = "=" /\ f[7] = p /\ f[8] = "&"
          <5>1. FormText(f, p, b)
            BY FormIs
          <5> HIDE DEF f
          <5> QED
            BY <5>1 DEF FormText
        <4>4. \A a \in 1 .. 8 : a \in {1, 2, 3, 4, 5, 6, 7, 8}
          OBVIOUS
        <4> HIDE DEF f
        <4>5. \A a \in {1, 2, 3, 4, 5, 6, 7, 8} : f[a] # "Submit"
          BY <4>3
        <4>6. text[i] # "Submit"
          BY <4>1, <4>2, <4>4, <4>5
        <4> QED
          BY <3>1, <4>6 DEF Early
      <3> QED
        BY <3>2, <3>3
    <2>2. text \in Seq(Early)
      BY <1>1, <2>1, TextOf
    <2>3. ws \in VariablesOf(Early)
      BY <1>2, <2>2, EarlyIs, StoreDataIn
    <2>4. ValueIn(ws, NameSubmit) = <<>>
      BY <2>3, EarlyIs, NoSuchName
    <2>5. Len(text) # (d + 10) + Len(b)
      BY <1>1, <1>4
    <2> QED
      BY <1>3, <2>4, <2>5 DEF OfForm
  <1>5. CASE ~(Len(text) <= d + 8)
    <2>1. d + 9 <= Len(text)
      BY <1>1, <1>5
    <2>2. PICK n, u \in Seq(Toks) :
              /\ Len(n) = d + 1 /\ (d = 0 => n = NameW)
              /\ ws = Added(vs, n, p, u)
              /\ Len(text) = (d + 10) + Len(b) => u = b
      BY <1>2, <2>1, PostedIs
    <2> DEFINE one == <<"1">>
               q == <<p>>
               v1 == AddVariable(vs, n, one)
               v2 == AddVariable(v1, NameP, q)
               v3 == AddVariable(v2, NameSubmit, u)
    <2>3. one \in Seq(Toks) /\ q \in Seq(Toks)
      <3>1. "1" \in Toks /\ p \in Toks
        BY CharsAreToks DEF Chars
      <3> QED
        BY <3>1
    <2>4. NameP \in Seq(Toks) /\ NameSubmit \in Seq(Toks) /\ Len(NameP) = 1 /\ Len(NameSubmit) = 1 /\ Len(NameCfg) = 1 /\ Len(NameW) = 1
      BY NamesAre DEF FieldNames
    <2> HIDE DEF one, q, ws
    <2>5. v1 \in VariablesOf(Toks) /\ \A m : ValueIn(v1, m) = IF m = n /\ ValueIn(vs, n) = <<>> THEN <<one>> ELSE ValueIn(vs, m)
      <3>1. Gained(v1, Toks, vs, n, one)
        BY <1>2, <2>2, <2>3, GainedIs
      <3> HIDE DEF v1
      <3> QED
        BY <3>1 DEF Gained
    <2> HIDE DEF v1
    <2>6. v2 \in VariablesOf(Toks) /\ \A m : ValueIn(v2, m) = IF m = NameP /\ ValueIn(v1, NameP) = <<>> THEN <<q>> ELSE ValueIn(v1, m)
      <3>1. Gained(v2, Toks, v1, NameP, q)
        BY <2>3, <2>4, <2>5, GainedIs
      <3> HIDE DEF v2
      <3> QED
        BY <3>1 DEF Gained
    <2> HIDE DEF v2
    <2>7. v3 \in VariablesOf(Toks) /\ \A m : ValueIn(v3, m) = IF m = NameSubmit /\ ValueIn(v2, NameSubmit) = <<>> THEN <<u>> ELSE ValueIn(v2, m)
      <3>1. Gained(v3, Toks, v2, NameSubmit, u)
        BY <2>2, <2>4, <2>6, GainedIs
      <3> HIDE DEF v3
      <3> QED
        BY <3>1 DEF Gained
    <2>8. ws = v3
      BY <2>2 DEF Added, v1, v2, one, q
    <2> HIDE DEF v3
    <2>9. d # 0 => n # NameW /\ n # NameP /\ n # NameSubmit /\ n # NameCfg
      <3>1. d # 0 => Len(n) # 1
        BY <1>1, <2>2
      <3> QED
        BY <2>4, <3>1
    <2>10. n # NameP /\ n # NameSubmit /\ n # NameCfg /\ (n = NameW <=> d = 0)
      BY <2>2, <2>9, NamesAre
    <2>11. ValueIn(v1, NameP) = <<>> /\ ValueIn(v1, NameSubmit) = <<>> /\ ValueIn(v1, NameCfg) = <<>>
      BY <1>2, <2>5, <2>10
    <2>12. ValueIn(v1, NameW) = IF cookie THEN << <<"3">> >> ELSE IF d = 0 THEN <<one>> ELSE <<>>
      <3>1. << <<"3">> >> # <<>>
        OBVIOUS
      <3> DEFINE three == << <<"3">> >>
      <3>2. three # <<>>
        BY <3>1
      <3> HIDE DEF three
      <3>3. ValueIn(vs, NameW) = IF cookie THEN three ELSE <<>>
        BY <1>2 DEF three
      <3>4. ValueIn(v1, NameW) = IF cookie THEN three ELSE IF d = 0 THEN <<one>> ELSE <<>>
        BY <2>5, <2>10, <3>2, <3>3
      <3> QED
        BY <3>4 DEF three
    <2>13. ValueIn(ws, NameP) = <<q>> /\ ValueIn(ws, NameSubmit) = <<u>> /\ ValueIn(ws, NameCfg) = <<>>
      BY <2>6, <2>7, <2>8, <2>11, NamesAre
    <2>14. ValueIn(ws, NameW) = ValueIn(v1, NameW)
      BY <2>6, <2>7, <2>8, NamesAre
    <2> QED
      BY <1>3, <2>2, <2>12, <2>13, <2>14 DEF OfForm, one, q, ws
  <1> QED
    BY <1>4, <1>5

\* What the path gives: the address of the page asks for the form's fields.
LEMMA QueryIsStored ==
    ASSUME NEW vs \in VariablesOf(Toks), NEW text \in Seq(Toks),
           Len(text) = 3, text[1] = "cfg", text[2] = "=", text[3] = "write"
    PROVE  StoreData(vs, text) = AddVariable(vs, NameCfg, <<"write">>)
  <1>1. PICK h : Stepwise(h, vs, text) /\ StoreData(vs, text) = PieceEnds(h[Len(text)])
                 /\ \A k \in 0 .. Len(text) : h[k] \in PiecesOf(Toks)
    BY BlankIs, StoreDataIs
  <1>2. Pieces(h, vs, text)
    BY <1>1 DEF Pieces
  <1>3. NoValue(h[0], vs, <<>>)
    BY <1>1, PieceBegins DEF Stepwise
  <1>4. "write" \in Toks /\ "cfg" \in Toks
    BY CharsAreToks DEF Chars
  <1>5. NoValue(h[1], vs, NameCfg)
    <2>1. NoValue(h[0 + 1], vs, Append(<<>>, "cfg"))
      <3>1. 0 \in Nat /\ 0 + 1 <= Len(text) /\ text[0 + 1] = "cfg" /\ "cfg" \notin {"=", "&"}
        OBVIOUS
      <3> QED
        BY <1>2, <1>3, <3>1, PieceNext
    <2> QED
      BY <2>1, AppendFirst DEF NameCfg
  <1>6. Valued(h[2], vs, NameCfg, <<>>)
    <2>1. 1 \in Nat /\ 1 + 1 <= Len(text) /\ text[1 + 1] = "=" /\ 1 + 1 = 2
      OBVIOUS
    <2>2. Valued(h[1 + 1], vs, NameCfg, <<>>)
      BY <1>2, <1>5, <2>1, PieceNext
    <2> QED
      BY <2>1, <2>2
  <1>7. Valued(h[3], vs, NameCfg, <<"write">>)
    <2>1. 2 \in Nat /\ 2 + 1 <= Len(text) /\ text[2 + 1] = "write" /\ 2 + 1 = 3 /\ "write" \notin {"=", "&"}
      OBVIOUS
    <2>2. Valued(h[2 + 1], vs, NameCfg, Append(<<>>, "write"))
      BY <1>2, <1>6, <2>1, PieceNext
    <2> QED
      BY <2>1, <2>2, AppendFirst
  <1>8. Unescape(<<"write">>) = <<"write">>
    BY <1>4, UnescapeOne
  <1> QED
    BY <1>1, <1>7, <1>8 DEF Valued, PieceEnds

Posted(vs, g, text) == IF WantsBody(g) THEN StoreData(vs, text) ELSE vs

LEMMA StoredIs ==
    ASSUME NEW r \in Requests, NEW vs, NEW g, NEW text, Posted(vs, g, text) \in VariablesOf(Toks),
           g.path = Tail(First(r))
    PROVE  Stored(vs, g, text) = IF r.query = <<>> THEN Posted(vs, g, text)
                                 ELSE AddVariable(Posted(vs, g, text), NameCfg, <<"write">>)
  <1> DEFINE f == First(r)
             s == g.path
             P == Positions(s, "?")
             ws == Posted(vs, g, text)
  <1>1. FirstText(f, r)
    BY RequestIs, FirstIs
  <1>2. Stored(vs, g, text) = IF P = {} THEN ws ELSE StoreData(ws, SubSeq(s, Min(P) + 1, Len(s)))
    BY DEF Stored, Posted
  <1>3. P = {i \in DOMAIN s : s[i] = "?"}
    BY DEF Positions
  <1> HIDE DEF f, P
  <1>4. /\ f \in Seq(Toks) /\ f[2] = "/" /\ Len(f) = IF r.query = <<>> THEN 2 ELSE 6
        /\ r.query # <<>> => f[3] = "?" /\ f[4] = "cfg" /\ f[5] = "=" /\ f[6] = "write"
    BY <1>1, CharsAreToks DEF FirstText
  <1>5. s = Tail(f) /\ f # <<>> /\ Len(f) \in Nat
    BY <1>4 DEF f
  <1> HIDE DEF s, ws
  <1>6. s \in Seq(Toks) /\ Len(s) = Len(f) - 1 /\ DOMAIN s = 1 .. Len(s) /\ \A i \in 1 .. Len(s) : s[i] = f[i + 1]
    BY <1>4, <1>5
  <1>7. CASE r.query = <<>>
    <2>1. Len(s) = 1
      BY <1>4, <1>6, <1>7
    <2>2. \A i \in 1 .. 1 : i = 1 /\ i + 1 = 2
      OBVIOUS
    <2>3. \A i \in DOMAIN s : s[i] = "/"
      BY <1>4, <1>6, <2>1, <2>2
    <2>4. P = {}
      BY <1>3, <2>3
    <2> QED
      BY <1>2, <1>7, <2>4 DEF ws
  <1>8. CASE r.query # <<>>
    <2>1. Len(s) = 5
      BY <1>4, <1>6, <1>8
    <2>2. /\ s[1] = "/" /\ s[2] = "?" /\ s[3] = "cfg" /\ s[4] = "=" /\ s[5] = "write"
      <3>1. \A i \in 1 .. 5 : s[i] = f[i + 1]
        BY <1>6, <2>1
      <3>2. 1 \in 1 .. 5 /\ 2 \in 1 .. 5 /\ 3 \in 1 .. 5 /\ 4 \in 1 .. 5 /\ 5 \in 1 .. 5
        OBVIOUS
      <3>3. s[1] = f[1 + 1] /\ s[2] = f[2 + 1] /\ s[3] = f[3 + 1] /\ s[4] = f[4 + 1] /\ s[5] = f[5 + 1]
        BY <3>1, <3>2
      <3>4. 1 + 1 = 2 /\ 2 + 1 = 3 /\ 3 + 1 = 4 /\ 4 + 1 = 5 /\ 5 + 1 = 6
        OBVIOUS
      <3> QED
        BY <1>4, <1>8, <3>3, <3>4
    <2>3. DOMAIN s = {1, 2, 3, 4, 5}
      <3>1. 1 .. 5 = {1, 2, 3, 4, 5}
        OBVIOUS
      <3>2. DOMAIN s = 1 .. 5
        BY <1>6, <2>1
      <3> QED
        BY <3>1, <3>2
    <2>4. P = {2}
      BY <1>3, <2>2, <2>3
    <2>5. Min(P) = 2
      BY <2>4 DEF Min
    <2> DEFINE t == SubSeq(s, 3, 5)
    <2>6. Stored(vs, g, text) = StoreData(ws, t)
      BY <1>2, <2>1, <2>4, <2>5
    <2>7. t \in Seq(Toks) /\ Len(t) = 3 /\ t[1] = s[3] /\ t[2] = s[4] /\ t[3] = s[5]
      <3>1. s \in Seq(Toks)
        BY <1>6
      <3>2. t \in Seq(Toks) /\ Len(t) = 3
        <4>1. \A i \in 3 .. 5 : s[i] \in Toks
          <5>1. \A i \in 1 .. Len(s) : s[i] \in Toks
            BY <3>1
          <5>2. \A i \in 3 .. 5 : i \in 1 .. 5
            OBVIOUS
          <5> QED
            BY <2>1, <5>1, <5>2
        <4>2. 3 \in Int /\ 5 \in Int /\ 3 <= 5 /\ (5 - 3) + 1 = 3
          OBVIOUS
        <4> QED
          BY <4>1, <4>2, SubSeqProperties
      <3>3. t[1] = s[3] /\ t[2] = s[4] /\ t[3] = s[5]
        BY <2>1, <3>1
      <3> QED
        BY <3>2, <3>3
    <2> HIDE DEF t
    <2>8. t[1] = "cfg" /\ t[2] = "=" /\ t[3] = "write"
      BY <2>2, <2>7
    <2>9. ws \in VariablesOf(Toks)
      BY DEF ws
    <2>10. StoreData(ws, t) = AddVariable(ws, NameCfg, <<"write">>)
      BY <2>7, <2>8, <2>9, QueryIsStored
    <2> QED
      BY <1>8, <2>6, <2>10 DEF ws
  <1> QED
    BY <1>7, <1>8

\* The values after the path.
LEMMA ValuesStored ==
    ASSUME NEW r \in Requests, NEW vs, NEW g, NEW text, Posted(vs, g, text) \in VariablesOf(Toks),
           g.path = Tail(First(r))
    PROVE  /\ \A n \in FieldNames \ {NameCfg} :
                  ValueIn(Stored(vs, g, text), n) = ValueIn(Posted(vs, g, text), n)
           /\ ValueIn(Posted(vs, g, text), NameCfg) = <<>>
                 => ValueIn(Stored(vs, g, text), NameCfg) = IF r.query = <<>> THEN <<>> ELSE << <<"write">> >>
  <1> DEFINE ws == Posted(vs, g, text)
             v == <<"write">>
  <1>1. Stored(vs, g, text) = IF r.query = <<>> THEN ws ELSE AddVariable(ws, NameCfg, v)
    BY StoredIs
  <1>2. v \in Seq(Toks) /\ NameCfg \in Seq(Toks)
    <2>1. "write" \in Toks
      BY CharsAreToks DEF Chars
    <2>2. NameCfg \in Seq(Toks)
      BY NamesAre DEF FieldNames
    <2> QED
      BY <2>1, <2>2
  <1>3. ws \in VariablesOf(Toks)
    OBVIOUS
  <1> HIDE DEF ws, v
  <1>4. \A m : ValueIn(AddVariable(ws, NameCfg, v), m)
                  = IF m = NameCfg /\ ValueIn(ws, NameCfg) = <<>> THEN <<v>> ELSE ValueIn(ws, m)
    BY <1>2, <1>3, VariableIs
  <1>5. \A n \in FieldNames \ {NameCfg} : ValueIn(Stored(vs, g, text), n) = ValueIn(ws, n)
    BY <1>1, <1>4
  <1>6. ValueIn(ws, NameCfg) = <<>> => ValueIn(Stored(vs, g, text), NameCfg) = IF r.query = <<>> THEN <<>> ELSE <<v>>
    BY <1>1, <1>4
  <1> QED
    BY <1>5, <1>6 DEF ws, v

LEMMA BodyIs ==
    ASSUME NEW k, NEW j \in 1 .. k.n + 1, NEW q, sent \in Requests, Plan(k, sent),
           got = GotAt(k, sent, j), WantsBody(got), BodyAt(k, q)
    PROVE  \E d, p, b : /\ p \in {"1", "2"} /\ b \in Buttons /\ sent.form = Form(p, b)
                        /\ FormFrom(body, d, p, b) /\ Len(body) <= (d + 10) + Len(b)
                        /\ q = k.at[k.n + 1] => d = 0
  <1> DEFINE t == Text(sent)
             e == Encoded(sent.form)
             n == k.n
             o == k.at[k.n + 1]
             l == Len(body)
  <1>1. n \in Nat /\ n >= 1
    BY PlanTypes
  <1>2. /\ j \in n .. n + 1 /\ sent.method # "PUT" /\ got.length = Len(e) /\ EndsWith(t, o, e)
    BY WantsLate
  <1>3. got.length > 0
    BY DEF WantsBody
  <1>4. PICK p \in {"1", "2"}, b \in Buttons : sent.form = Form(p, b)
    <2>1. sent.form # <<>>
      <3>1. Len(<<>>) = 0 /\ ~(0 > 0)
        OBVIOUS
      <3> QED
        BY <1>2, <1>3, <3>1, QueryIs
    <2>2. sent.form \in Forms
      BY <2>1, RequestIs
    <2> QED
      BY <2>2 DEF Forms
  <1>5. FormText(e, p, b)
    BY <1>4, FormIs
  <1>6. e \in Seq(Chars) /\ Len(e) = 10 + Len(b) /\ Len(b) \in Nat
    <2>1. b \in Seq(Toks)
      BY ButtonChars
    <2> QED
      <3>1. Len(b) \in Nat
        BY <2>1
      <3>2. e \in Seq(Chars) /\ Len(e) = 10 + Len(b)
        <4> HIDE DEF e
        <4> QED
          BY <1>5 DEF FormText
      <3> QED
        BY <3>1, <3>2
  <1>7. /\ q \in Nat /\ k.at[n] <= q /\ q <= o /\ body \in Seq(Toks)
        /\ q + l <= Len(t) /\ \A i \in 1 .. l : t[q + i] = body[i]
    BY DEF BodyAt, Laid
  <1>8. o \in Nat /\ Len(t) = o + Len(e) /\ \A i \in 1 .. Len(e) : t[o + i] = e[i]
    BY <1>2 DEF EndsWith, Laid
  <1>9. TakenLine(t, k.at[n], <<>>, o)
    <2>1. n >= 2 /\ \A i \in 2 .. n : k.line[i] = <<>> <=> i = n
      BY <1>2 DEF Plan
    <2>2. n \in 2 .. n /\ n \in 1 .. n
      BY <1>1, <2>1
    <2>3. k.line[n] = <<>>
      BY <2>1, <2>2
    <2>4. TakenLine(t, k.at[n], k.line[n], k.at[n + 1])
      BY <2>2 DEF Plan
    <2> QED
      BY <2>3, <2>4
  <1>10. /\ o = k.at[n] + 2 /\ k.at[n] \in Nat
         /\ t[k.at[n] + 1] = "\r" /\ t[k.at[n] + 2] = "\n"
    <2> DEFINE a == k.at[n]
    <2>1. Len(<<>>) = 0 /\ LineMax \in Nat /\ LineMax > 6
      BY RequestAssumption
    <2>2. a \in Nat
      BY <1>9 DEF TakenLine, Laid
    <2>3. /\ o = (a + 0) + 2 /\ t[(a + 0) + 1] = "\r" /\ t[(a + 0) + 2] = "\n"
      BY <1>9, <2>1 DEF TakenLine
    <2>4. a + 0 = a
      BY <2>2
    <2> QED
      BY <2>2, <2>3, <2>4
  <1> DEFINE d == o - q
             a == k.at[n]
  <1> HIDE DEF t, e, o, n, l
  <1>11. d \in 0 .. 2 /\ q + d = o /\ l \in Nat
    <2>1. l \in Nat
      BY <1>7 DEF l
    <2>2. a \in Nat /\ q \in Nat /\ o = a + 2 /\ a <= q /\ q <= o /\ o \in Nat
      BY <1>7, <1>8, <1>10
    <2> HIDE DEF a
    <2>3. d \in 0 .. 2 /\ q + d = o
      BY <2>2
    <2> QED
      BY <2>1, <2>3
  <1>12. \A i \in 1 .. d : i <= l => body[i] \in {"\r", "\n"}
    <2> SUFFICES ASSUME NEW i \in 1 .. d, i <= l
                 PROVE  body[i] \in {"\r", "\n"}
      OBVIOUS
    <2>1. i \in 1 .. l /\ q + i \in {a + 1, a + 2}
      <3>1. a \in Nat /\ q \in Nat /\ o = a + 2 /\ a <= q /\ q <= o /\ o \in Nat /\ l \in Nat
        BY <1>7, <1>8, <1>10, <1>11
      <3>2. i \in Nat /\ 1 <= i /\ i <= o - q
        BY <3>1
      <3> HIDE DEF a
      <3>3. q + i = a + 1 \/ q + i = a + 2
        BY <3>1, <3>2
      <3>4. i \in 1 .. l
        BY <3>1, <3>2
      <3> QED
        BY <3>3, <3>4
    <2>2. body[i] = t[q + i]
      BY <1>7, <2>1
    <2>3. t[q + i] = "\r" \/ t[q + i] = "\n"
      BY <1>10, <2>1
    <2> QED
      BY <2>2, <2>3
  <1>13. \A i \in 1 .. 10 + Len(b) : d + i <= l => body[d + i] = e[i]
    <2> SUFFICES ASSUME NEW i \in 1 .. 10 + Len(b), d + i <= l
                 PROVE  body[d + i] = e[i]
      OBVIOUS
    <2>1. d + i \in 1 .. l /\ q + (d + i) = o + i /\ i \in 1 .. Len(e)
      BY <1>6, <1>7, <1>8, <1>11
    <2>2. body[d + i] = t[o + i]
      BY <1>7, <2>1
    <2> QED
      BY <1>8, <2>1, <2>2
  <1>14. l <= (d + 10) + Len(b)
    BY <1>6, <1>7, <1>8, <1>11
  <1>15. FormFrom(body, d, p, b)
    <2> HIDE DEF d
    <2> QED
      BY <1>4, <1>7, <1>11, <1>12, <1>13 DEF FormFrom, l, e
  <1>16. q = o => d = 0
    BY <1>8
  <1> HIDE DEF d
  <1> QED
    BY <1>4, <1>14, <1>15, <1>16 DEF l, o, n

-----------------------------------------------------------------------------
(* What was sent.                                                          *)

\* The first of the fields of a name.
FirstOf(s, n) ==
    LET S == {i \in DOMAIN s : s[i][1] = n}
    IN  IF S = {} THEN <<>> ELSE <<s[Min(S)][2]>>

FirstAt(s, n, k) ==
    k \in 1 .. Len(s) /\ s[k][1] = n /\ \A i \in 1 .. Len(s) : s[i][1] = n => k <= i

LEMMA FirstOfIs ==
    ASSUME NEW U, NEW s \in Seq(U), NEW n
    PROVE  /\ \A k : FirstAt(s, n, k) => FirstOf(s, n) = <<s[k][2]>>
           /\ (\E i \in 1 .. Len(s) : s[i][1] = n) => \E k : FirstAt(s, n, k)
           /\ (~\E i \in 1 .. Len(s) : s[i][1] = n) => FirstOf(s, n) = <<>>
  <1> DEFINE S == {i \in DOMAIN s : s[i][1] = n}
  <1>1. DOMAIN s = 1 .. Len(s) /\ S \subseteq Nat
    OBVIOUS
  <1>2. S = {i \in 1 .. Len(s) : s[i][1] = n}
    BY <1>1
  <1>3. FirstOf(s, n) = IF S = {} THEN <<>> ELSE <<s[Min(S)][2]>>
    BY DEF FirstOf
  <1> HIDE DEF S
  <1>4. ASSUME NEW k, FirstAt(s, n, k)
        PROVE  FirstOf(s, n) = <<s[k][2]>>
    <2>1. k \in S /\ \A i \in S : k <= i
      BY <1>2, <1>4 DEF FirstAt
    <2>2. Min(S) \in S /\ \A i \in S : Min(S) <= i
      BY <2>1 DEF Min
    <2>3. k \in Nat /\ Min(S) \in Nat /\ k <= Min(S) /\ Min(S) <= k
      BY <1>1, <2>1, <2>2
    <2>4. Min(S) = k
      BY <2>3
    <2> QED
      BY <1>3, <2>1, <2>4
  <1>5. ASSUME \E i \in 1 .. Len(s) : s[i][1] = n
        PROVE  \E k : FirstAt(s, n, k)
    <2>1. S # {}
      BY <1>2, <1>5
    <2>2. PICK k \in S : \A i \in S : k <= i
      BY <1>1, <2>1, Lowest
    <2> QED
      BY <1>2, <2>2 DEF FirstAt
  <1>6. ASSUME ~\E i \in 1 .. Len(s) : s[i][1] = n
        PROVE  FirstOf(s, n) = <<>>
    <2>1. S = {}
      BY <1>2, <1>6
    <2> QED
      BY <1>3, <2>1
  <1> QED
    BY <1>4, <1>5, <1>6

LEMMA FirstOfBoth ==
    ASSUME NEW U, NEW s \in Seq(U), NEW t \in Seq(U), NEW n
    PROVE  FirstOf(s \o t, n) = IF FirstOf(s, n) = <<>> THEN FirstOf(t, n) ELSE FirstOf(s, n)
  <1> DEFINE w == s \o t
             l == Len(s)
             m == Len(t)
  <1>1. l \in Nat /\ m \in Nat
    OBVIOUS
  <1>2. Glued(w, U, s, t)
    BY ConcatIs
  <1>3. /\ w \in Seq(U) /\ Len(w) = l + m
        /\ \A i \in 1 .. l : w[i] = s[i]
        /\ \A i \in 1 .. m : w[l + i] = t[i]
    BY <1>2 DEF Glued
  <1> HIDE DEF w, l, m
  <1>4. \A i \in 1 .. Len(w) : i \in 1 .. l \/ (i - l \in 1 .. m /\ l + (i - l) = i)
    BY <1>1, <1>3
  <1>5. CASE \E i \in 1 .. l : s[i][1] = n
    <2>9. PICK k : FirstAt(s, n, k)
      BY <1>5, FirstOfIs DEF l
    <2>1. k \in 1 .. l /\ s[k][1] = n /\ \A i \in 1 .. l : s[i][1] = n => k <= i
      BY <2>9 DEF l, FirstAt
    <2>2. FirstOf(s, n) = <<s[k][2]>>
      BY <2>9, FirstOfIs
    <2>3. k \in 1 .. Len(w) /\ w[k][1] = n /\ w[k] = s[k]
      BY <1>1, <1>3, <2>1
    <2>4. ASSUME NEW i \in 1 .. Len(w), w[i][1] = n
          PROVE  k <= i
      <3>1. CASE i \in 1 .. l
        BY <1>3, <2>1, <2>4, <3>1
      <3>2. CASE i \notin 1 .. l
        <4>1. k \in Nat /\ k <= l /\ i \in Nat /\ l < i
          BY <1>1, <1>3, <2>1, <3>2
        <4> QED
          BY <1>1, <4>1
      <3> QED
        BY <3>1, <3>2
    <2>5. FirstOf(w, n) = <<w[k][2]>>
      <3>1. FirstAt(w, n, k)
        BY <2>3, <2>4 DEF FirstAt
      <3> QED
        BY <1>3, <3>1, FirstOfIs
    <2> QED
      BY <2>2, <2>3, <2>5 DEF w
  <1>6. CASE ~\E i \in 1 .. l : s[i][1] = n
    <2>1. FirstOf(s, n) = <<>>
      BY <1>6, FirstOfIs DEF l
    <2>2. CASE \E i \in 1 .. m : t[i][1] = n
      <3>9. PICK k : FirstAt(t, n, k)
        BY <2>2, FirstOfIs DEF m
      <3>1. k \in 1 .. m /\ t[k][1] = n /\ \A i \in 1 .. m : t[i][1] = n => k <= i
        BY <3>9 DEF m, FirstAt
      <3>2. FirstOf(t, n) = <<t[k][2]>>
        BY <3>9, FirstOfIs
      <3>3. l + k \in 1 .. Len(w) /\ w[l + k][1] = n /\ w[l + k] = t[k]
        BY <1>1, <1>3, <3>1
      <3>4. ASSUME NEW i \in 1 .. Len(w), w[i][1] = n
            PROVE  l + k <= i
        <4>1. i \notin 1 .. l
          BY <1>3, <1>6, <3>4
        <4>2. i - l \in 1 .. m /\ l + (i - l) = i
          BY <1>4, <4>1
        <4>3. w[l + (i - l)] = t[i - l]
          BY <1>3, <4>2
        <4>4. k <= i - l
          BY <3>1, <3>4, <4>2, <4>3
        <4>5. k \in Nat /\ i \in Nat
          BY <3>1
        <4> QED
          BY <1>1, <4>4, <4>5
      <3>5. FirstOf(w, n) = <<w[l + k][2]>>
        <4>1. FirstAt(w, n, l + k)
          BY <3>3, <3>4 DEF FirstAt
        <4> QED
          BY <1>3, <4>1, FirstOfIs
      <3> QED
        BY <2>1, <3>2, <3>3, <3>5 DEF w
    <2>3. CASE ~\E i \in 1 .. m : t[i][1] = n
      <3>1. FirstOf(t, n) = <<>>
        BY <2>3, FirstOfIs DEF m
      <3>2. ~\E i \in 1 .. Len(w) : w[i][1] = n
        <4> SUFFICES ASSUME NEW i \in 1 .. Len(w), w[i][1] = n
                     PROVE  FALSE
          OBVIOUS
        <4>1. CASE i \in 1 .. l
          BY <1>3, <1>6, <4>1
        <4>2. CASE i \notin 1 .. l
          <5>1. i - l \in 1 .. m /\ l + (i - l) = i
            BY <1>4, <4>2
          <5>2. w[l + (i - l)] = t[i - l]
            BY <1>3, <5>1
          <5> QED
            BY <2>3, <5>1, <5>2
        <4> QED
          BY <4>1, <4>2
      <3>3. FirstOf(w, n) = <<>>
        BY <1>3, <3>2, FirstOfIs
      <3> QED
        BY <2>1, <3>1, <3>3 DEF w
    <2> QED
      BY <2>2, <2>3
  <1> QED
    BY <1>5, <1>6

LEMMA FirstOfOne ==
    ASSUME NEW x, NEW n
    PROVE  FirstOf(<<x>>, n) = IF x[1] = n THEN <<x[2]>> ELSE <<>>
  <1> DEFINE s == <<x>>
  <1>1. s \in Seq({x}) /\ Len(s) = 1 /\ s[1] = x
    OBVIOUS
  <1>2. \A i \in 1 .. 1 : i = 1
    OBVIOUS
  <1>3. 1 \in 1 .. 1 /\ 1 <= 1
    OBVIOUS
  <1> HIDE DEF s
  <1>4. CASE x[1] = n
    <2>1. FirstAt(s, n, 1)
      BY <1>1, <1>2, <1>3, <1>4 DEF FirstAt
    <2>2. FirstOf(s, n) = <<s[1][2]>>
      BY <1>1, <2>1, FirstOfIs
    <2> QED
      BY <1>1, <1>4, <2>2 DEF s
  <1>5. CASE x[1] # n
    <2>1. ~\E i \in 1 .. Len(s) : s[i][1] = n
      BY <1>1, <1>2, <1>5
    <2> QED
      BY <1>1, <1>5, <2>1, FirstOfIs DEF s
  <1> QED
    BY <1>4, <1>5

LEMMA FirstOfNone == \A n : FirstOf(<<>>, n) = <<>>
  <1> TAKE n
  <1>1. <<>> \in Seq({}) /\ Len(<<>>) = 0 /\ \A i \in 1 .. 0 : FALSE
    OBVIOUS
  <1>2. ~\E i \in 1 .. Len(<<>>) : <<>>[i][1] = n
    BY <1>1
  <1> QED
    BY <1>1, <1>2, FirstOfIs

LEMMA ThreeTogether ==
    ASSUME NEW U, NEW x \in U, NEW y \in U, NEW z \in U
    PROVE  <<x, y, z>> = (<<x>> \o <<y>>) \o <<z>> /\ <<x>> \o <<y>> \in Seq(U)
  <1> DEFINE a == <<x>>
             c == <<z>>
             d == <<y>>
             e == <<x, y>>
             f == <<x, y, z>>
  <1>1. a \in Seq(U) /\ Len(a) = 1 /\ a[1] = x
    OBVIOUS
  <1>2. d \in Seq(U) /\ Len(d) = 1 /\ d[1] = y
    OBVIOUS
  <1>3. c \in Seq(U) /\ Len(c) = 1 /\ c[1] = z
    OBVIOUS
  <1>4. e \in Seq(U) /\ Len(e) = 2 /\ e[1] = x /\ e[2] = y
    OBVIOUS
  <1>5. f \in Seq(U) /\ Len(f) = 3 /\ f[1] = x /\ f[2] = y /\ f[3] = z
    OBVIOUS
  <1> HIDE DEF a, c, d, e, f
  <1>6. \A i \in 1 .. 1 : i = 1
    OBVIOUS
  <1>7. 1 \in 1 .. 1 /\ 1 + 1 = 2 /\ 2 + 1 = 3
    OBVIOUS
  <1>8. \A i \in 1 .. 2 : i \in {1, 2}
    OBVIOUS
  <1>9. \A i \in 1 .. 3 : i \in {1, 2, 3}
    OBVIOUS
  <1>10. 1 \in 1 .. 2 /\ 2 \in 1 .. 2
    OBVIOUS
  <1>11. a \o d = e
    <2> DEFINE w == a \o d
    <2>1. Glued(w, U, a, d)
      BY <1>1, <1>2, ConcatIs
    <2> HIDE DEF w
    <2>2. w \in Seq(U) /\ Len(w) = 1 + 1 /\ (\A i \in 1 .. 1 : w[i] = a[i]) /\ (\A i \in 1 .. 1 : w[1 + i] = d[i])
      BY <1>1, <1>2, <2>1 DEF Glued
    <2>3. w[1] = x /\ w[1 + 1] = y
      BY <1>1, <1>2, <1>7, <2>2
    <2>4. \A i \in 1 .. 2 : w[i] = e[i]
      BY <1>4, <1>7, <1>8, <2>3
    <2>5. Len(w) = Len(e)
      BY <1>4, <1>7, <2>2
    <2> QED
      BY <1>4, <2>2, <2>4, <2>5, SeqEqual DEF w
  <1>12. e \o c = f
    <2> DEFINE w == e \o c
    <2>1. Glued(w, U, e, c)
      BY <1>3, <1>4, ConcatIs
    <2> HIDE DEF w
    <2>2. w \in Seq(U) /\ Len(w) = 2 + 1 /\ (\A i \in 1 .. 2 : w[i] = e[i]) /\ (\A i \in 1 .. 1 : w[2 + i] = c[i])
      BY <1>3, <1>4, <2>1 DEF Glued
    <2>3. w[1] = x /\ w[2] = y /\ w[2 + 1] = z
      BY <1>3, <1>4, <1>7, <1>10, <2>2
    <2>4. \A i \in 1 .. 3 : w[i] = f[i]
      BY <1>5, <1>7, <1>9, <2>3
    <2>5. Len(w) = Len(f)
      BY <1>5, <1>7, <2>2
    <2> QED
      BY <1>5, <2>2, <2>4, <2>5, SeqEqual DEF w
  <1> QED
    BY <1>4, <1>11, <1>12 DEF a, c, d, e, f

\* The fields of a form.
LEMMA FormHas ==
    ASSUME NEW p, NEW b
    PROVE  /\ FirstOf(Form(p, b), "W") = << <<"1">> >> /\ FirstOf(Form(p, b), "P") = << <<p>> >>
           /\ FirstOf(Form(p, b), "Submit") = <<b>> /\ FirstOf(Form(p, b), "cfg") = <<>>
  <1> DEFINE x == <<"W", <<"1">>>>
             y == <<"P", <<p>>>>
             z == <<"Submit", b>>
             U == {x, y, z}
             xy == <<x>> \o <<y>>
  <1>1. Form(p, b) = <<x, y, z>>
    BY DEF Form
  <1>2. x[1] = "W" /\ y[1] = "P" /\ z[1] = "Submit"
    OBVIOUS
  <1>3. x[2] = <<"1">> /\ y[2] = <<p>> /\ z[2] = b
    OBVIOUS
  <1>4. <<"1">> \in {<<"1">>} /\ "W" # "P" /\ "W" # "Submit" /\ "W" # "cfg" /\ "P" # "Submit" /\ "P" # "cfg" /\ "Submit" # "cfg"
    OBVIOUS
  <1> HIDE DEF x, y, z
  <1>5. <<x, y, z>> = xy \o <<z>> /\ xy \in Seq(U) /\ <<x>> \in Seq(U) /\ <<y>> \in Seq(U) /\ <<z>> \in Seq(U)
    <2>1. x \in U /\ y \in U /\ z \in U
      OBVIOUS
    <2> HIDE DEF U
    <2> QED
      BY <2>1, ThreeTogether
  <1> HIDE DEF U, xy
  <1>6. \A n : FirstOf(Form(p, b), n) = IF FirstOf(xy, n) = <<>> THEN FirstOf(<<z>>, n) ELSE FirstOf(xy, n)
    <2> TAKE n
    <2> DEFINE zz == <<z>>
    <2>1. xy \in Seq(U) /\ zz \in Seq(U) /\ Form(p, b) = xy \o zz
      BY <1>1, <1>5
    <2> HIDE DEF zz
    <2>2. FirstOf(xy \o zz, n) = IF FirstOf(xy, n) = <<>> THEN FirstOf(zz, n) ELSE FirstOf(xy, n)
      BY <2>1, FirstOfBoth
    <2> QED
      BY <2>1, <2>2 DEF zz
  <1>7. \A n : FirstOf(xy, n) = IF FirstOf(<<x>>, n) = <<>> THEN FirstOf(<<y>>, n) ELSE FirstOf(<<x>>, n)
    BY <1>5, FirstOfBoth DEF xy
  <1>8. \A n : /\ FirstOf(<<x>>, n) = IF x[1] = n THEN <<x[2]>> ELSE <<>>
               /\ FirstOf(<<y>>, n) = IF y[1] = n THEN <<y[2]>> ELSE <<>>
               /\ FirstOf(<<z>>, n) = IF z[1] = n THEN <<z[2]>> ELSE <<>>
    BY FirstOfOne
  <1>9. \A v : <<v>> # <<>>
    OBVIOUS
  <1> DEFINE g(n) == IF x[1] = n THEN <<x[2]>> ELSE IF y[1] = n THEN <<y[2]>> ELSE IF z[1] = n THEN <<z[2]>> ELSE <<>>
  <1>10. \A n : FirstOf(Form(p, b), n) = g(n)
    <2> TAKE n
    <2>1. <<x[2]>> # <<>> /\ <<y[2]>> # <<>>
      BY <1>9
    <2>2. FirstOf(Form(p, b), n) = IF FirstOf(xy, n) = <<>> THEN FirstOf(<<z>>, n) ELSE FirstOf(xy, n)
      BY <1>6
    <2>3. FirstOf(xy, n) = IF FirstOf(<<x>>, n) = <<>> THEN FirstOf(<<y>>, n) ELSE FirstOf(<<x>>, n)
      BY <1>7
    <2>4. /\ FirstOf(<<x>>, n) = IF x[1] = n THEN <<x[2]>> ELSE <<>>
          /\ FirstOf(<<y>>, n) = IF y[1] = n THEN <<y[2]>> ELSE <<>>
          /\ FirstOf(<<z>>, n) = IF z[1] = n THEN <<z[2]>> ELSE <<>>
      BY <1>8
    <2> QED
      BY <2>1, <2>2, <2>3, <2>4
  <1>11. g("W") = <<x[2]>> /\ g("P") = <<y[2]>> /\ g("Submit") = <<z[2]>> /\ g("cfg") = <<>>
    BY <1>2, <1>4
  <1> HIDE DEF g
  <1> QED
    BY <1>3, <1>10, <1>11

LEMMA QueryHas ==
    /\ FirstOf(Query, "cfg") = << <<"write">> >>
    /\ \A n \in {"W", "P", "Submit"} : FirstOf(Query, n) = <<>>
  <1> DEFINE x == <<"cfg", <<"write">>>>
  <1>1. Query = <<x>>
    BY DEF Query
  <1>2. x[1] = "cfg" /\ x[2] = <<"write">>
    OBVIOUS
  <1> HIDE DEF x
  <1>3. \A n : FirstOf(Query, n) = IF x[1] = n THEN <<x[2]>> ELSE <<>>
    BY <1>1, FirstOfOne
  <1> QED
    BY <1>2, <1>3

LEMMA CookieHas ==
    /\ FirstOf(<< <<"W", <<"3">>>> >>, "W") = << <<"3">> >>
    /\ \A n \in {"P", "Submit", "cfg"} : FirstOf(<< <<"W", <<"3">>>> >>, n) = <<>>
  <1> DEFINE x == <<"W", <<"3">>>>
  <1>1. x[1] = "W" /\ x[2] = <<"3">>
    OBVIOUS
  <1> HIDE DEF x
  <1>2. \A n : FirstOf(<<x>>, n) = IF x[1] = n THEN <<x[2]>> ELSE <<>>
    BY FirstOfOne
  <1>3. /\ FirstOf(<<x>>, "W") = << <<"3">> >>
        /\ \A n \in {"P", "Submit", "cfg"} : FirstOf(<<x>>, n) = <<>>
    BY <1>1, <1>2
  <1> QED
    BY <1>3 DEF x

LEMMA ExpectedIs ==
    ASSUME NEW p, NEW b, sent.query \in {<<>>, Query}, FormLine \in ToSet(sent.headers) => sent.form = Form(p, b)
    PROVE  /\ Expected("W") = IF CookieLine \in ToSet(sent.headers) THEN << <<"3">> >>
                              ELSE IF FormLine \in ToSet(sent.headers) THEN << <<"1">> >> ELSE <<>>
           /\ Expected("P") = IF FormLine \in ToSet(sent.headers) THEN << <<p>> >> ELSE <<>>
           /\ Expected("Submit") = IF FormLine \in ToSet(sent.headers) THEN <<b>> ELSE <<>>
           /\ Expected("cfg") = IF sent.query = <<>> THEN <<>> ELSE << <<"write">> >>
  <1> DEFINE c == CookieLine \in ToSet(sent.headers)
             f == FormLine \in ToSet(sent.headers)
             x == <<"W", <<"3">>>>
             s == IF c THEN <<x>> ELSE <<>>
             t == IF f THEN Form(p, b) ELSE <<>>
             q == sent.query
             xw == <<"W", <<"1">>>>
             xp == <<"P", <<p>>>>
             xs == <<"Submit", b>>
             xc == <<"cfg", <<"write">>>>
             U == {x, xw, xp, xs, xc}
  <1>1. \A n : Expected(n) = FirstOf((s \o t) \o q, n)
    <2> DEFINE hasOne(g) == <<g>> \in ToSet(sent.headers)
               all == (IF hasOne("cookie") THEN << <<"W", <<"3">>>> >> ELSE <<>>)
                        \o (IF hasOne("form") THEN sent.form ELSE <<>>) \o sent.query
    <2>1. all = (s \o t) \o q
      <3>1. (IF hasOne("cookie") THEN << <<"W", <<"3">>>> >> ELSE <<>>) = s
        BY DEF CookieLine
      <3>2. (IF hasOne("form") THEN sent.form ELSE <<>>) = t
        BY DEF FormLine
      <3> QED
        BY <3>1, <3>2
    <2>2. \A n : Expected(n) = FirstOf(all, n)
      BY DEF Expected, FirstOf
    <2> HIDE DEF all
    <2> QED
      BY <2>1, <2>2
  <1>2. s \in Seq(U)
    OBVIOUS
  <1>3. t \in Seq(U)
    <2>1. Form(p, b) = <<xw, xp, xs>>
      BY DEF Form
    <2> HIDE DEF x, xw, xp, xs, xc
    <2>2. <<xw, xp, xs>> \in Seq(U)
      OBVIOUS
    <2>3. <<>> \in Seq(U)
      OBVIOUS
    <2> HIDE DEF U
    <2> QED
      BY <2>1, <2>2, <2>3
  <1>4. q \in Seq(U)
    <2>1. Query = <<xc>>
      BY DEF Query
    <2> HIDE DEF x, xw, xp, xs, xc
    <2>2. <<xc>> \in Seq(U) /\ <<>> \in Seq(U)
      OBVIOUS
    <2> HIDE DEF U
    <2> QED
      BY <2>1, <2>2
  <1>5. /\ \A n : FirstOf(s, n) = IF c THEN FirstOf(<<x>>, n) ELSE <<>>
        /\ \A n : FirstOf(t, n) = IF f THEN FirstOf(Form(p, b), n) ELSE <<>>
    BY FirstOfNone
  <1>6. \A n : FirstOf(q, n) = IF q = <<>> THEN <<>> ELSE FirstOf(Query, n)
    BY FirstOfNone
  <1> HIDE DEF s, t, q, U
  <1>7. s \o t \in Seq(U)
    BY <1>2, <1>3
  <1>8. \A n : Expected(n) = IF FirstOf(s, n) # <<>> THEN FirstOf(s, n)
                             ELSE IF FirstOf(t, n) # <<>> THEN FirstOf(t, n) ELSE FirstOf(q, n)
    <2> TAKE n
    <2>1. FirstOf((s \o t) \o q, n) = IF FirstOf(s \o t, n) = <<>> THEN FirstOf(q, n) ELSE FirstOf(s \o t, n)
      BY <1>4, <1>7, FirstOfBoth
    <2>2. FirstOf(s \o t, n) = IF FirstOf(s, n) = <<>> THEN FirstOf(t, n) ELSE FirstOf(s, n)
      BY <1>2, <1>3, FirstOfBoth
    <2> QED
      BY <1>1, <2>1, <2>2
  <1>9. \A v : <<v>> # <<>>
    OBVIOUS
  <1> DEFINE one == << <<"1">> >>
             three == << <<"3">> >>
             write == << <<"write">> >>
             pp == << <<p>> >>
             bb == <<b>>
  <1>10. one # <<>> /\ three # <<>> /\ pp # <<>> /\ bb # <<>>
    BY <1>9
  <1>11. /\ FirstOf(<<x>>, "W") = three /\ FirstOf(<<x>>, "P") = <<>>
         /\ FirstOf(<<x>>, "Submit") = <<>> /\ FirstOf(<<x>>, "cfg") = <<>>
    BY CookieHas
  <1>12. /\ FirstOf(Form(p, b), "W") = one /\ FirstOf(Form(p, b), "P") = pp
         /\ FirstOf(Form(p, b), "Submit") = bb /\ FirstOf(Form(p, b), "cfg") = <<>>
    BY FormHas
  <1>13. /\ FirstOf(Query, "W") = <<>> /\ FirstOf(Query, "P") = <<>>
         /\ FirstOf(Query, "Submit") = <<>> /\ FirstOf(Query, "cfg") = write
    BY QueryHas
  <1> HIDE DEF one, three, write, pp, bb, c, f, x
  <1>14. Expected("W") = IF c THEN three ELSE IF f THEN one ELSE <<>>
    BY <1>5, <1>6, <1>8, <1>10, <1>11, <1>12, <1>13
  <1>15. Expected("P") = IF f THEN pp ELSE <<>>
    BY <1>5, <1>6, <1>8, <1>10, <1>11, <1>12, <1>13
  <1>16. Expected("Submit") = IF f THEN bb ELSE <<>>
    BY <1>5, <1>6, <1>8, <1>10, <1>11, <1>12, <1>13
  <1>17. Expected("cfg") = IF q = <<>> THEN <<>> ELSE write
    BY <1>5, <1>6, <1>8, <1>10, <1>11, <1>12, <1>13
  <1> QED
    BY <1>14, <1>15, <1>16, <1>17 DEF one, three, write, pp, bb, c, f, q

-----------------------------------------------------------------------------

\* A request that is done is as it was understood.
LEMMA DoneIs ==
    ASSUME RequestInv, phase = "done"
    PROVE  sent \in Requests /\ \E k, j : Plan(k, sent) /\ InDone(k, j)
  <1>1. sent \in Requests
    BY DEF RequestInv
  <1>2. PICK k : Plan(k, sent) /\ Begun(k)
    BY DEF RequestInv
  <1>3. ~(\E p : Rest(p) /\ \E j : InLine(k, p, j))
    BY DEF InLine
  <1>4. ~(\E p : Rest(p) /\ \E j, q : InBody(k, p, j, q))
    BY DEF InBody
  <1>5. ~(\E j : InStore(k, j))
    BY DEF InStore
  <1>6. \E j : InDone(k, j)
    BY <1>2, <1>3, <1>4, <1>5 DEF Begun
  <1> QED
    BY <1>1, <1>2, <1>6

\* A form has its type, and its text is not empty.
LEMMA FormIsSent ==
    ASSUME sent \in Requests, FormLine \in ToSet(sent.headers)
    PROVE  /\ \E p \in {"1", "2"}, b \in Buttons : sent.form = Form(p, b)
           /\ Len(Encoded(sent.form)) \in Nat /\ Len(Encoded(sent.form)) > 0
  <1>1. sent.method = "POST"
    <2> SUFFICES ASSUME sent.method # "POST"
                 PROVE  FALSE
      OBVIOUS
    <2>1. Heads(sent.headers) /\ HasOf(sent.headers, FALSE, FALSE, FALSE)
      BY SentHeaders
    <2>2. sent.headers \in Seq(Seq(Chars)) /\ ~Among(FormLine, sent.headers)
      BY <2>1 DEF Heads, HasOf
    <2> QED
      BY <2>2, ToSetIs
  <1>2. sent.form \in Forms
    BY <1>1, RequestIs
  <1>3. PICK p \in {"1", "2"}, b \in Buttons : sent.form = Form(p, b)
    BY <1>2 DEF Forms
  <1>4. FormText(Encoded(sent.form), p, b)
    BY <1>3, FormIs
  <1>5. Len(b) \in Nat
    <2>1. b \in Seq(Toks)
      BY ButtonChars
    <2> QED
      BY <2>1
  <1>6. Len(Encoded(sent.form)) = 10 + Len(b)
    BY <1>4 DEF FormText
  <1> QED
    BY <1>3, <1>5, <1>6

\* The values of a request that is done.
LEMMA DoneValues ==
    ASSUME NEW k, NEW j, sent \in Requests, Plan(k, sent), InDone(k, j)
    PROVE  LET w == Had(k, j, CookieLine)
               ws == Posted(VarsAt(k, j), got, body)
           IN  /\ j # 1 => /\ \A n \in FieldNames \ {NameCfg} : ValueIn(variables, n) = ValueIn(ws, n)
                           /\ ValueIn(ws, NameCfg) = <<>> => ValueIn(variables, NameCfg)
                                 = IF sent.query = <<>> THEN <<>> ELSE << <<"write">> >>
               /\ j = 1 => ValueIn(variables, NameSubmit) = <<>>
               /\ FromCookie(VarsAt(k, j), w)
  <1> DEFINE vs == VarsAt(k, j)
             w == Had(k, j, CookieLine)
             ws == Posted(vs, got, body)
  <1>1. /\ j \in 1 .. k.n + 1 /\ got = GotAt(k, sent, j) /\ variables = Stored(vs, got, body)
        /\ WantsBody(got) => \E q : BodyAt(k, q)
    BY DEF InDone, Understood
  <1>2. FromCookie(vs, w)
    BY CookieIs
  <1>3. ws \in VariablesOf(Toks)
    <2>1. vs \in VariablesOf(Toks)
      BY <1>2 DEF FromCookie
    <2>2. WantsBody(got) => body \in Seq(Toks)
      BY <1>1 DEF BodyAt
    <2> QED
      BY <2>1, <2>2, BlankIs, StoreDataIn DEF Posted
  <1>4. CASE j # 1
    <2>1. got.path = Tail(First(sent))
      <3>1. got.path = Tail(k.line[1])
        BY <1>1, <1>4 DEF GotAt
      <3>2. k.line[1] = First(sent)
        BY DEF Plan
      <3> QED
        BY <3>1, <3>2
    <2> HIDE DEF vs
    <2>2. /\ \A n \in FieldNames \ {NameCfg} : ValueIn(Stored(vs, got, body), n) = ValueIn(ws, n)
          /\ ValueIn(ws, NameCfg) = <<>>
                => ValueIn(Stored(vs, got, body), NameCfg) = IF sent.query = <<>> THEN <<>> ELSE << <<"write">> >>
      BY <1>3, <2>1, ValuesStored
    <2> HIDE DEF ws
    <2>3. /\ \A n \in FieldNames \ {NameCfg} : ValueIn(variables, n) = ValueIn(ws, n)
          /\ ValueIn(ws, NameCfg) = <<>>
                => ValueIn(variables, NameCfg) = IF sent.query = <<>> THEN <<>> ELSE << <<"write">> >>
      BY <1>1, <2>2
    <2> QED
      BY <1>2, <1>4, <2>3 DEF vs, ws
  <1>5. CASE j = 1
    <2>1. got = Nothing
      BY <1>1, <1>5 DEF GotAt
    <2>2. ~WantsBody(got)
      BY <2>1 DEF WantsBody, Nothing
    <2>3. got.path = <<>>
      BY <2>1 DEF Nothing
    <2>4. Positions(got.path, "?") = {}
      BY <2>3 DEF Positions
    <2>5. variables = vs
      BY <1>1, <2>2, <2>4 DEF Stored
    <2>6. ValueIn(vs, NameSubmit) = <<>>
      BY <1>2, NamesAre DEF FromCookie, FieldNames
    <2> QED
      BY <1>2, <1>5, <2>5, <2>6
  <1> QED
    BY <1>4, <1>5

\* The headers that were understood.
LEMMA HeadersUnderstood ==
    ASSUME NEW k, Plan(k, sent), NEW j \in k.n .. k.n + 1
    PROVE  HeadsOf(Had(k, j, CookieLine), Had(k, j, FormLine), Had(k, j, LengthLine), sent)
  <1>1. HeadsOf(Had(k, k.n, CookieLine), Had(k, k.n, FormLine), Had(k, k.n, LengthLine), sent)
    BY DEF Plan
  <1>2. CookieLine \in HeaderLines /\ FormLine \in HeaderLines /\ LengthLine \in HeaderLines
    BY DEF HeaderLines
  <1>3. /\ Had(k, j, CookieLine) <=> Had(k, k.n, CookieLine)
        /\ Had(k, j, FormLine) <=> Had(k, k.n, FormLine)
        /\ Had(k, j, LengthLine) <=> Had(k, k.n, LengthLine)
    BY <1>2, HadLast
  <1> QED
    BY <1>1, <1>3 DEF HeadsOf

LEMMA RequestIsSeen ==
    ASSUME RequestInv
    PROVE  SeesWhatWasSent
  <1> SUFFICES ASSUME phase = "done", ~late, Short(sent)
               PROVE  \A n \in {"W", "P", "Submit", "cfg"} : Value(<<n>>) = Expected(n)
    BY DEF SeesWhatWasSent, Short
  <1>1. sent \in Requests
    BY DoneIs
  <1>2. PICK k, j : Plan(k, sent) /\ InDone(k, j)
    BY DoneIs
  <1>3. k.n \in Nat /\ k.n >= 1
    BY <1>2, PlanTypes
  <1>4. /\ j = k.n + 1 /\ got = GotAt(k, sent, j)
        /\ WantsBody(got) => \E q : BodyAt(k, q) /\ Len(body) = got.length
    BY <1>2 DEF InDone, Understood
  <1>5. j \in k.n .. k.n + 1 /\ j \in 1 .. k.n + 1 /\ j # 1
    BY <1>3, <1>4
  <1> DEFINE vs == VarsAt(k, j)
             w == Had(k, j, CookieLine)
             f == Had(k, j, FormLine)
             c == CookieLine \in ToSet(sent.headers)
             t == FormLine \in ToSet(sent.headers)
             ws == Posted(vs, got, body)
  <1>6. FromCookie(vs, w)
    BY <1>1, <1>2, DoneValues
  <1>7. /\ \A n \in FieldNames \ {NameCfg} : ValueIn(variables, n) = ValueIn(ws, n)
        /\ ValueIn(ws, NameCfg) = <<>>
              => ValueIn(variables, NameCfg) = IF sent.query = <<>> THEN <<>> ELSE << <<"write">> >>
    BY <1>1, <1>2, <1>5, DoneValues
  <1>8. (w <=> c) /\ (f <=> t) /\ (t => Had(k, j, LengthLine))
    BY <1>2, <1>5, HeadersUnderstood DEF HeadsOf
  <1>9. got.form = f /\ got.length = IF Had(k, j, LengthLine) THEN Len(Encoded(sent.form)) ELSE 0
    BY <1>4, <1>5 DEF GotAt
  <1>10. WantsBody(got) <=> t
    <2>1. t => Len(Encoded(sent.form)) > 0
      BY <1>1, FormIsSent
    <2>2. WantsBody(got) => f
      BY <1>9 DEF WantsBody
    <2>3. t => WantsBody(got)
      BY <1>8, <1>9, <2>1 DEF WantsBody
    <2> QED
      BY <1>8, <2>2, <2>3
  <1>11. sent.query \in {<<>>, Query}
    BY <1>1, RequestIs
  <1> DEFINE one == << <<"1">> >>
             three == << <<"3">> >>
             write == << <<"write">> >>
  <1>12. \A n \in {"W", "P", "Submit", "cfg"} : Value(<<n>>) = ValueIn(variables, <<n>>)
    BY DEF Value
  <1>13. CASE ~t
    <2>1. ws = vs
      BY <1>10, <1>13 DEF Posted
    <2>2. /\ ValueIn(vs, NameW) = IF c THEN three ELSE <<>>
          /\ ValueIn(vs, NameP) = <<>> /\ ValueIn(vs, NameSubmit) = <<>> /\ ValueIn(vs, NameCfg) = <<>>
      BY <1>6, <1>8, NamesAre DEF FromCookie, FieldNames
    <2> HIDE DEF c, t, ws, vs
    <2>3. /\ ValueIn(variables, NameW) = IF c THEN three ELSE <<>>
          /\ ValueIn(variables, NameP) = <<>> /\ ValueIn(variables, NameSubmit) = <<>>
          /\ ValueIn(variables, NameCfg) = IF sent.query = <<>> THEN <<>> ELSE write
      BY <1>7, <2>1, <2>2, NamesAre DEF FieldNames
    <2>4. /\ Expected("W") = IF c THEN three ELSE <<>>
          /\ Expected("P") = <<>> /\ Expected("Submit") = <<>>
          /\ Expected("cfg") = IF sent.query = <<>> THEN <<>> ELSE write
      <3>1. FormLine \in ToSet(sent.headers) => sent.form = Form("1", <<>>)
        BY <1>13 DEF t
      <3>2. FormLine \notin ToSet(sent.headers)
        BY <1>13 DEF t
      <3> QED
        BY <1>11, <3>1, <3>2, ExpectedIs DEF c
    <2> HIDE DEF three, write
    <2> QED
      BY <1>12, <2>3, <2>4 DEF NameW, NameP, NameSubmit, NameCfg
  <1>14. CASE t
    <2>1. PICK q : BodyAt(k, q) /\ Len(body) = got.length
      BY <1>4, <1>10, <1>14
    <2>2. q = k.at[k.n + 1]
      BY <2>1 DEF BodyAt
    <2>3. WantsBody(got)
      BY <1>10, <1>14
    <2>4. PICK d, p, b : /\ p \in {"1", "2"} /\ b \in Buttons /\ sent.form = Form(p, b)
                         /\ FormFrom(body, d, p, b) /\ Len(body) <= (d + 10) + Len(b)
                         /\ q = k.at[k.n + 1] => d = 0
      BY <1>1, <1>2, <1>4, <1>5, <2>1, <2>3, BodyIs
    <2>5. d = 0
      BY <2>2, <2>4
    <2>6. Len(body) = (d + 10) + Len(b)
      <3>1. FormText(Encoded(sent.form), p, b)
        BY <2>4, FormIs
      <3>2. Len(Encoded(sent.form)) = 10 + Len(b)
        BY <3>1 DEF FormText
      <3>3. got.length = Len(Encoded(sent.form))
        BY <1>8, <1>9, <1>14
      <3>4. Len(b) \in Nat
        <4>1. b \in Seq(Toks)
          BY <2>4, ButtonChars
        <4> QED
          BY <4>1
      <3>5. (d + 10) + Len(b) = 10 + Len(b)
        BY <2>5, <3>4
      <3> QED
        BY <2>1, <3>2, <3>3, <3>5
    <2>7. ws = StoreData(vs, body)
      BY <2>3 DEF Posted
    <2>8. OfForm(ws, w, d, p) /\ ValueIn(ws, NameSubmit) = <<b>>
      BY <1>6, <2>4, <2>6, <2>7, FormIsStored
    <2>9. <<b>> # <<>>
      OBVIOUS
    <2>10. /\ ValueIn(ws, NameW) = IF c THEN three ELSE one
           /\ ValueIn(ws, NameP) = << <<p>> >> /\ ValueIn(ws, NameCfg) = <<>>
      BY <1>8, <2>5, <2>8, <2>9 DEF OfForm
    <2>11. /\ Expected("W") = IF c THEN three ELSE one
           /\ Expected("P") = << <<p>> >> /\ Expected("Submit") = <<b>>
           /\ Expected("cfg") = IF sent.query = <<>> THEN <<>> ELSE write
      <3>1. FormLine \in ToSet(sent.headers) => sent.form = Form(p, b)
        BY <2>4
      <3>2. FormLine \in ToSet(sent.headers)
        BY <1>14
      <3> QED
        BY <1>11, <3>1, <3>2, ExpectedIs
    <2> DEFINE pp == << <<p>> >>
               bb == <<b>>
    <2> HIDE DEF c, t, ws, vs, pp, bb, one, three
    <2>12. /\ ValueIn(variables, NameW) = IF c THEN three ELSE one
           /\ ValueIn(variables, NameP) = pp /\ ValueIn(variables, NameSubmit) = bb
           /\ ValueIn(variables, NameCfg) = IF sent.query = <<>> THEN <<>> ELSE write
      BY <1>7, <2>8, <2>10, NamesAre DEF FieldNames, pp, bb
    <2>13. /\ Expected("W") = IF c THEN three ELSE one
           /\ Expected("P") = pp /\ Expected("Submit") = bb
           /\ Expected("cfg") = IF sent.query = <<>> THEN <<>> ELSE write
      BY <2>11 DEF pp, bb
    <2> HIDE DEF write
    <2> QED
      BY <1>12, <2>12, <2>13 DEF NameW, NameP, NameSubmit, NameCfg
  <1> QED
    BY <1>13, <1>14

LEMMA SavedOnlyWhole ==
    ASSUME RequestInv
    PROVE  SavedIsWhole
  <1> SUFFICES ASSUME Saves
               PROVE  \A n \in {"W", "P", "cfg"} : Value(<<n>>) = Expected(n)
    BY DEF SavedIsWhole
  <1> DEFINE one == << <<"1">> >>
             three == << <<"3">> >>
             write == << <<"write">> >>
  <1>1. /\ phase = "done" /\ ValueIn(variables, NameCfg) = write
        /\ ValueIn(variables, NameSubmit) # <<>> /\ ValueIn(variables, NameW) # <<>>
    <2>1. << <<"Save">> >> # <<>> /\ << <<"Save", " ", "Reboot">> >> # <<>>
      OBVIOUS
    <2> QED
      BY <2>1 DEF Saves, Value, NameCfg, NameSubmit, NameW
  <1>2. sent \in Requests
    BY <1>1, DoneIs
  <1>3. PICK k, j : Plan(k, sent) /\ InDone(k, j)
    BY <1>1, DoneIs
  <1>4. /\ j \in 1 .. k.n + 1 /\ got = GotAt(k, sent, j)
        /\ WantsBody(got) => \E q : BodyAt(k, q)
    BY <1>3 DEF InDone, Understood
  <1> DEFINE vs == VarsAt(k, j)
             w == Had(k, j, CookieLine)
             c == CookieLine \in ToSet(sent.headers)
             ws == Posted(vs, got, body)
  <1>5. j # 1
    BY <1>1, <1>2, <1>3, DoneValues
  <1>6. FromCookie(vs, w)
    BY <1>2, <1>3, DoneValues
  <1>7. /\ \A n \in FieldNames \ {NameCfg} : ValueIn(variables, n) = ValueIn(ws, n)
        /\ ValueIn(ws, NameCfg) = <<>>
              => ValueIn(variables, NameCfg) = IF sent.query = <<>> THEN <<>> ELSE << <<"write">> >>
    BY <1>2, <1>3, <1>5, DoneValues
  <1>8. ValueIn(ws, NameSubmit) # <<>> /\ ValueIn(ws, NameW) # <<>>
    BY <1>1, <1>7, NamesAre DEF FieldNames
  <1>9. WantsBody(got)
    <2> SUFFICES ASSUME ~WantsBody(got)
                 PROVE  FALSE
      OBVIOUS
    <2>1. ws = vs
      BY DEF Posted
    <2>2. ValueIn(vs, NameSubmit) = <<>>
      BY <1>6, NamesAre DEF FromCookie, FieldNames
    <2> QED
      BY <1>8, <2>1, <2>2
  <1>10. PICK q : BodyAt(k, q)
    BY <1>4, <1>9
  <1>11. PICK d, p, b : /\ p \in {"1", "2"} /\ b \in Buttons /\ sent.form = Form(p, b)
                        /\ FormFrom(body, d, p, b) /\ Len(body) <= (d + 10) + Len(b)
    BY <1>2, <1>3, <1>4, <1>9, <1>10, BodyIs
  <1>12. /\ j \in k.n .. k.n + 1 /\ Had(k, k.n, FormLine)
    BY <1>3, <1>4, <1>9, WantsLate
  <1>13. FormLine \in ToSet(sent.headers) /\ (w <=> c)
    <2>1. HeadsOf(w, Had(k, j, FormLine), Had(k, j, LengthLine), sent)
      BY <1>3, <1>12, HeadersUnderstood
    <2>2. FormLine \in HeaderLines
      BY DEF HeaderLines
    <2>3. Had(k, j, FormLine)
      BY <1>3, <1>12, <2>2, HadLast
    <2> QED
      BY <2>1, <2>3 DEF HeadsOf
  <1>14. OfForm(ws, w, d, p)
    <2>1. ws = StoreData(vs, body)
      BY <1>9 DEF Posted
    <2> QED
      BY <1>6, <1>11, <2>1, FormIsStored
  <1> DEFINE pp == << <<p>> >>
  <1>15. /\ ValueIn(ws, NameW) = IF w THEN three ELSE IF d = 0 THEN one ELSE <<>>
         /\ ValueIn(ws, NameP) = pp /\ ValueIn(ws, NameCfg) = <<>>
    BY <1>8, <1>14 DEF OfForm
  <1>16. /\ Expected("W") = IF c THEN three ELSE one
         /\ Expected("P") = pp
         /\ Expected("cfg") = IF sent.query = <<>> THEN <<>> ELSE write
    <2>1. sent.query \in {<<>>, Query}
      BY <1>2, RequestIs
    <2>2. FormLine \in ToSet(sent.headers) => sent.form = Form(p, b)
      BY <1>11
    <2> QED
      BY <1>13, <2>1, <2>2, ExpectedIs
  <1>17. write # <<>>
    OBVIOUS
  <1>18. ValueIn(variables, NameCfg) = IF sent.query = <<>> THEN <<>> ELSE write
    BY <1>7, <1>15
  <1> HIDE DEF one, three, write, pp, ws, vs, w, c
  <1>19. ValueIn(variables, NameW) = Expected("W")
    <2>1. ValueIn(variables, NameW) = ValueIn(ws, NameW)
      BY <1>7, NamesAre DEF FieldNames
    <2> QED
      BY <1>8, <1>13, <1>15, <1>16, <2>1
  <1>20. ValueIn(variables, NameP) = Expected("P")
    <2>1. ValueIn(variables, NameP) = ValueIn(ws, NameP)
      BY <1>7, NamesAre DEF FieldNames
    <2> QED
      BY <1>15, <1>16, <2>1
  <1>21. ValueIn(variables, NameCfg) = Expected("cfg")
    BY <1>16, <1>18
  <1>22. \A n \in {"W", "P", "cfg"} : Value(<<n>>) = ValueIn(variables, <<n>>)
    BY DEF Value
  <1> QED
    BY <1>19, <1>20, <1>21, <1>22 DEF NameW, NameP, NameCfg

\* A request whose text came in time and whose lines fit the buffer is seen as
\* it was sent, however it is cut into pieces (httpdReadRequest).
THEOREM WhatWasSentIsSeen == RequestSpec => []SeesWhatWasSent
  BY RequestInvariant, RequestIsSeen, PTL

\* What show_radmclient_list saves is what was sent, whenever reading ended.
THEOREM FormIsSavedWhole == RequestSpec => []SavedIsWhole
  BY RequestInvariant, SavedOnlyWhole, PTL
=============================================================================
