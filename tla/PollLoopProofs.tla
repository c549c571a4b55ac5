---------------------------- MODULE PollLoopProofs ----------------------------
(***************************************************************************)
(* Proofs about PollLoop, for every set of sockets, contexts, callbacks    *)
(* and events and every array size: the invariants that make the           *)
(* compaction safe, and that the array implements SockSet.                 *)
(***************************************************************************)
EXTENDS PollLoop, FiniteSetTheorems, TLAPS

-----------------------------------------------------------------------------
(* The inductive invariant.                                                *)

\* A slot with a socket has a context and a callback of the program.
SlotOK == \A j \in Index : mem[j].fd # Nil =>
              mem[j].ctxt \in Objects /\ mem[j].cb \in Callbacks

\* The first loop of pfd_defragment has passed live slots only and a hole
\* is still ahead of it.
FindOK == pc = "find" =>
              /\ i \in 0 .. count
              /\ \A j \in 0 .. i - 1 : mem[j].fd # Nil
              /\ \E h \in i .. count - 1 : mem[h].fd = Nil

\* The second loop writes behind the slot it reads; what it wrote is live.
CopyOK == pc = "copy" =>
              /\ i \in 0 .. count
              /\ p < i
              /\ \A j \in 0 .. p - 1 : mem[j].fd # Nil

\* The slot of the running callback stays inside the array, and is one of
\* the events counted.
CallOK == /\ pc = "call" => i < count /\ nevents > 0
          /\ pc = "call" <=> cur # Nil
          /\ pc \in {"dispatch", "call"} => i \in 0 .. count

IInv == TypeOK /\ SlotOK /\ FindOK /\ CopyOK /\ CallOK /\ DefragFlag /\ UniqueRegistration

\* What unregistering leaves of a slot is a slot.
LEMMA EmptiedSlot ==
  ASSUME NEW s \in Slot
  PROVE  Emptied(s) \in Slot /\ Emptied(s).fd = Nil
  BY DEF Slot, Emptied

LEMMA InitInv == Init => IInv
<1> SUFFICES ASSUME Init
             PROVE  IInv
  OBVIOUS
<1>1. mem \in [Index -> Slot] /\ \A j \in Index : mem[j].fd = Nil
  BY DEF Init, Slot, Index
<1>2. TypeOK
  <2>1. /\ count = 0 /\ defrag = FALSE /\ pc = "setup" /\ half = 1 /\ i = 0 /\ p = 0
        /\ nevents = 0 /\ cur = Nil /\ fresh = {} /\ quit = FALSE
    BY DEF Init
  <2>2. count \in 0 .. PfdMax /\ i \in 0 .. PfdMax /\ p \in 0 .. PfdMax /\ nevents \in Nat
    BY <2>1, PfdMaxAssumption
  <2>3. defrag \in BOOLEAN /\ quit \in BOOLEAN /\ half \in {1, 2} /\ pc \in PC
    BY <2>1 DEF PC
  <2> QED
    BY <1>1, <2>1, <2>2, <2>3 DEF TypeOK
<1>3. SlotOK /\ FindOK /\ CopyOK /\ CallOK
  BY <1>1 DEF Init, SlotOK, FindOK, CopyOK, CallOK
<1>4. Held = {} /\ InUse = {}
  BY DEF Init, Held, InUse
<1>5. DefragFlag /\ UniqueRegistration
  BY <1>4 DEF Init, DefragFlag, Holes, UniqueRegistration, Live
<1> QED
  BY <1>2, <1>3, <1>5 DEF IInv

LEMMA RegisterAgainInv ==
  ASSUME IInv, NEW k \in Key, NEW e \in SUBSET Requestable, RegisterAgain(k, e)
  PROVE  IInv'
<1> USE NilAssumption, PfdMaxAssumption DEF IInv
<1>1. TypeOK'
  <2>1. PICK j \in Match(k) : mem' = [mem EXCEPT ![j].events = e]
    BY DEF RegisterAgain
  <2>2. j \in Index
    BY DEF Match, InUse, Index, TypeOK
  <2>3. [mem[j] EXCEPT !.events = e] \in Slot
    BY <2>2 DEF TypeOK, Slot
  <2>4. mem' \in [Index -> Slot]
    BY <2>1, <2>2, <2>3 DEF TypeOK
  <2> QED
    BY <2>4 DEF TypeOK, RegisterAgain, control
<1>2. SlotOK'
  BY DEF RegisterAgain, SlotOK
<1>3. FindOK'
  BY DEF RegisterAgain, control, FindOK
<1>4. CopyOK'
  BY DEF RegisterAgain, control, CopyOK
<1>5. CallOK'
  BY DEF RegisterAgain, control, CallOK
<1>6. DefragFlag'
  BY DEF RegisterAgain, InProgram, DefragFlag, Holes, InUse
<1>7. UniqueRegistration'
  BY DEF RegisterAgain, control, UniqueRegistration, Live, Held, InUse, KeyOf
<1> QED
  BY <1>1, <1>2, <1>3, <1>4, <1>5, <1>6, <1>7

LEMMA RegisterNewInv ==
  ASSUME IInv, NEW k \in Key, NEW e \in SUBSET Requestable, RegisterNew(k, e)
  PROVE  IInv'
<1> USE NilAssumption, PfdMaxAssumption DEF IInv
<1>1. TypeOK'
  BY DEF RegisterNew, control, TypeOK, Index, Slot, Key
<1>2. SlotOK'
  BY DEF RegisterNew, SlotOK, Key
<1>3. FindOK'
  BY DEF RegisterNew, control, TypeOK, FindOK
<1>4. CopyOK'
  BY DEF RegisterNew, control, TypeOK, CopyOK
<1>5. CallOK'
  BY DEF RegisterNew, control, TypeOK, CallOK
<1>6. DefragFlag'
  <2>1. \A j \in InUse : mem'[j] = mem[j]
    BY DEF InUse, RegisterNew
  <2>2. /\ InUse' = InUse \cup {count}
        /\ count \in Index
        /\ mem'[count].fd # Nil
    BY DEF TypeOK, Index, InUse, RegisterNew, Key
  <2>3. Holes' = Holes
    BY <2>1, <2>2 DEF Holes
  <2> QED
    BY <2>3 DEF DefragFlag, RegisterNew, InProgram
<1>7. UniqueRegistration'
  <2>1. \A j \in InUse : mem'[j] = mem[j]
    BY DEF InUse, RegisterNew
  <2>2. /\ Held = InUse
        /\ Held' = InUse \cup {count}
        /\ count \in Index
        /\ KeyOf(mem'[count]) = k
    BY DEF TypeOK, Index, InUse, Held, RegisterNew, Key, KeyOf, control, InProgram
  <2>3. \A j \in InUse : mem[j].fd # Nil => KeyOf(mem[j]) # k
    BY DEF RegisterNew, Match
  <2> QED
    BY <2>1, <2>2, <2>3 DEF UniqueRegistration, Live, KeyOf
<1> QED
  BY <1>1, <1>2, <1>3, <1>4, <1>5, <1>6, <1>7

LEMMA UnregisterInv ==
  ASSUME IInv, NEW k \in Key, Unregister(k)
  PROVE  IInv'
<1> USE NilAssumption, PfdMaxAssumption DEF IInv
<1>0. PICK j \in InUse : mem' = [mem EXCEPT ![j] = Emptied(mem[j])]
  BY DEF Unregister, Match
<1>a. /\ j \in Index
      /\ mem'[j].fd = Nil
      /\ \A h \in Index : h # j => mem'[h] = mem[h]
      /\ UNCHANGED <<count, control>>
      /\ InProgram
  BY <1>0, EmptiedSlot DEF TypeOK, InUse, Index, Unregister
<1>1. TypeOK'
  <2>1. Emptied(mem[j]) \in Slot
    BY <1>a, EmptiedSlot DEF TypeOK
  <2>2. mem' \in [Index -> Slot]
    BY <1>0, <1>a, <2>1 DEF TypeOK
  <2> QED
    BY <2>2 DEF TypeOK, Unregister, control
<1>2. SlotOK'
  BY <1>a DEF SlotOK
<1>3. FindOK'
  BY DEF Unregister, control, InProgram, FindOK
<1>4. CopyOK'
  BY DEF Unregister, control, InProgram, CopyOK
<1>5. CallOK'
  BY DEF Unregister, control, CallOK
<1>6. DefragFlag'
  BY <1>a DEF DefragFlag, Holes, InUse, Unregister
<1>7. UniqueRegistration'
  <2>1. Held = InUse /\ Held' = InUse /\ InUse \subseteq Index
    BY <1>a DEF Held, InUse, control, InProgram, TypeOK, Index
  <2> QED
    BY <1>a, <2>1 DEF UniqueRegistration, Live
<1> QED
  BY <1>1, <1>2, <1>3, <1>4, <1>5, <1>6, <1>7

LEMMA UnregisterObjectInv ==
  ASSUME IInv, NEW o \in Objects, UnregisterObject(o)
  PROVE  IInv'
<1> USE NilAssumption, PfdMaxAssumption DEF IInv
<1>1. TypeOK'
  <2>1. \A j \in Index : Emptied(mem[j]) \in Slot
    BY EmptiedSlot DEF TypeOK
  <2>2. mem' \in [Index -> Slot]
    BY <2>1 DEF TypeOK, UnregisterObject
  <2> QED
    BY <2>2 DEF TypeOK, UnregisterObject, control
<1>2. SlotOK'
  <2>1. \A j \in Index : \/ mem'[j] = mem[j]
                        \/ mem'[j].fd = Nil
    BY EmptiedSlot DEF TypeOK, UnregisterObject
  <2> QED
    BY <2>1 DEF SlotOK
<1>3. FindOK'
  BY DEF UnregisterObject, control, InProgram, FindOK
<1>4. CopyOK'
  BY DEF UnregisterObject, control, InProgram, CopyOK
<1>5. CallOK'
  BY DEF UnregisterObject, control, CallOK
<1>6. DefragFlag'
  <2>1. PICK j \in InUse : mem[j].ctxt = o
    BY DEF UnregisterObject
  <2>2. j \in Index
    BY <2>1 DEF InUse, Index, TypeOK
  <2>3. mem'[j] = Emptied(mem[j])
    BY <2>1, <2>2 DEF UnregisterObject
  <2>4. mem'[j].fd = Nil
    BY <2>2, <2>3, EmptiedSlot DEF TypeOK
  <2> QED
    BY <2>1, <2>4 DEF DefragFlag, Holes, InUse, UnregisterObject
<1>7. UniqueRegistration'
  <2>1. \A j \in InUse : \/ mem'[j] = mem[j]
                        \/ mem'[j].fd = Nil
    BY EmptiedSlot DEF TypeOK, Index, InUse, UnregisterObject
  <2>2. Held = InUse /\ Held' = InUse
    BY DEF Held, InUse, UnregisterObject, control, InProgram
  <2> QED
    BY <2>1, <2>2 DEF UniqueRegistration, Live
<1> QED
  BY <1>1, <1>2, <1>3, <1>4, <1>5, <1>6, <1>7

LEMMA DefragTestInv ==
  ASSUME IInv, DefragTest
  PROVE  IInv'
<1> USE NilAssumption, PfdMaxAssumption DEF IInv
<1>1. TypeOK'
  BY DEF DefragTest, registry, TypeOK, PC
<1>2. SlotOK'
  BY DEF DefragTest, registry, SlotOK
<1>3. FindOK'
  BY DEF DefragTest, registry, TypeOK, FindOK, DefragFlag, Holes, InUse
<1>4. CopyOK'
  BY DEF DefragTest, CopyOK
<1>5. CallOK'
  BY DEF DefragTest, CallOK
<1>6. DefragFlag'
  BY DEF DefragTest, registry, DefragFlag, Holes, InUse
<1>7. UniqueRegistration'
  BY DEF DefragTest, registry, UniqueRegistration, Live, Held, InUse
<1> QED
  BY <1>1, <1>2, <1>3, <1>4, <1>5, <1>6, <1>7

LEMMA DefragFindInv ==
  ASSUME IInv, DefragFind
  PROVE  IInv'
<1> USE NilAssumption, PfdMaxAssumption DEF IInv
<1>1. TypeOK'
  BY DEF DefragFind, registry, TypeOK, PC
<1>2. SlotOK'
  BY DEF DefragFind, registry, SlotOK
<1>3. FindOK'
  BY DEF DefragFind, registry, TypeOK, FindOK
<1>4. CopyOK'
  BY DEF DefragFind, registry, TypeOK, CopyOK, FindOK
<1>5. CallOK'
  BY DEF DefragFind, CallOK
<1>6. DefragFlag'
  BY DEF DefragFind, DefragFlag
<1>7. UniqueRegistration'
  BY DEF DefragFind, registry, TypeOK, UniqueRegistration, Live, Held, InUse, FindOK
<1> QED
  BY <1>1, <1>2, <1>3, <1>4, <1>5, <1>6, <1>7

LEMMA DefragCopyInv ==
  ASSUME IInv, DefragCopy
  PROVE  IInv'
<1> USE NilAssumption, PfdMaxAssumption DEF IInv
<1>0. /\ i \in 0 .. count - 1
      /\ p \in 0 .. i - 1
      /\ i \in Index /\ p \in Index
  BY DEF TypeOK, CopyOK, Index, DefragCopy
<1>1. TypeOK'
  <2>1. mem' \in [Index -> Slot]
    BY <1>0 DEF TypeOK, DefragCopy
  <2> QED
    BY <1>0, <2>1 DEF TypeOK, DefragCopy, Index
<1>2. SlotOK'
  BY <1>0 DEF TypeOK, SlotOK, DefragCopy
<1>3. FindOK'
  BY DEF DefragCopy, FindOK
<1>4. CopyOK'
  BY DEF DefragCopy, TypeOK, CopyOK, FindOK, Index
<1>5. CallOK'
  BY DEF DefragCopy, CallOK
<1>6. DefragFlag'
  BY DEF DefragCopy, DefragFlag
<1>7. UniqueRegistration'
  <2>1. CASE mem[i].fd = Nil
    <3>1. mem' = mem /\ Held' = Held \ {i}
      BY <1>0, <2>1 DEF DefragCopy, Held, TypeOK
    <3> QED
      BY <3>1 DEF UniqueRegistration, Live
  <2>2. CASE mem[i].fd # Nil
    <3> DEFINE from(j) == IF j = p THEN i ELSE j
    <3>1. \A j \in Held' : from(j) \in Held /\ mem'[j] = mem[from(j)]
      BY <1>0, <2>2 DEF DefragCopy, Held, TypeOK, Index
    <3>2. \A j, h \in Held' : from(j) = from(h) => j = h
      BY <1>0, <2>2 DEF DefragCopy, Held
    <3> HIDE DEF from
    <3> QED
      BY <3>1, <3>2 DEF UniqueRegistration, Live
  <2> QED
    BY <2>1, <2>2
<1> QED
  BY <1>1, <1>2, <1>3, <1>4, <1>5, <1>6, <1>7

LEMMA DefragDoneInv ==
  ASSUME IInv, DefragDone
  PROVE  IInv'
<1> USE NilAssumption, PfdMaxAssumption DEF IInv
<1>1. TypeOK'
  <2>1. p \in 0 .. PfdMax
    BY DEF TypeOK
  <2>2. 0 \in 0 .. PfdMax
    OBVIOUS
  <2> QED
    BY <2>1, <2>2 DEF TypeOK, DefragDone, PC
<1>2. SlotOK'
  BY DEF DefragDone, SlotOK
<1>3. FindOK'
  BY DEF DefragDone, FindOK
<1>4. CopyOK'
  BY DEF DefragDone, CopyOK
<1>5. CallOK'
  BY DEF DefragDone, CallOK
<1>6. DefragFlag'
  BY DEF DefragDone, DefragFlag, Holes, InUse, CopyOK
<1>7. UniqueRegistration'
  BY DEF DefragDone, UniqueRegistration, Live, Held, InUse
<1> QED
  BY <1>1, <1>2, <1>3, <1>4, <1>5, <1>6, <1>7

LEMMA PollInv ==
  ASSUME IInv, Poll
  PROVE  IInv'
<1> USE NilAssumption, PfdMaxAssumption DEF IInv
<1>0. PICK r \in [InUse -> SUBSET Event] :
         /\ \A j \in InUse : r[j] \in Returnable(mem[j])
         /\ mem' = [j \in Index |-> IF j \in InUse THEN [mem[j] EXCEPT !.revents = r[j]]
                                                   ELSE mem[j]]
         /\ fresh' = {j \in InUse : r[j] # {}}
         /\ nevents' = Cardinality({j \in InUse : r[j] # {}})
  BY DEF Poll
<1>a. InUse \subseteq Index
  BY DEF InUse, Index, TypeOK
<1>b. \A j \in Index : /\ mem'[j].fd = mem[j].fd
                       /\ mem'[j].ctxt = mem[j].ctxt
                       /\ mem'[j].cb = mem[j].cb
                       /\ mem'[j] \in Slot
  <2> SUFFICES ASSUME NEW j \in Index
               PROVE  /\ mem'[j].fd = mem[j].fd /\ mem'[j].ctxt = mem[j].ctxt
                      /\ mem'[j].cb = mem[j].cb /\ mem'[j] \in Slot
    OBVIOUS
  <2>1. mem[j] \in Slot
    BY DEF TypeOK
  <2>2. mem'[j] = IF j \in InUse THEN [mem[j] EXCEPT !.revents = r[j]] ELSE mem[j]
    BY <1>0
  <2> QED
    BY <2>1, <2>2 DEF Slot
<1>c. nevents' \in Nat
  <2>1. IsFiniteSet(InUse)
    <3>1. 0 \in Int /\ count - 1 \in Int
      BY DEF TypeOK
    <3> QED
      BY <3>1, FS_Interval DEF InUse
  <2>2. IsFiniteSet({j \in InUse : r[j] # {}})
    BY <2>1, FS_Subset
  <2> QED
    BY <1>0, <2>2, FS_CardinalityType
<1>d. /\ UNCHANGED <<count, defrag, p, cur, quit>>
      /\ i' = 0
      /\ pc = "poll"
      /\ pc' \in {"dispatch", "stopped", "timers", "defrag"}
      /\ half' \in {1, 2}
  BY DEF Poll, EndOfPass, TypeOK
<1>1. TypeOK'
  <2>1. mem' \in [Index -> Slot]
    BY <1>0, <1>b
  <2>2. fresh' \subseteq Index
    BY <1>0, <1>a
  <2> QED
    BY <1>c, <1>d, <2>1, <2>2 DEF TypeOK, PC
<1>2. SlotOK'
  BY <1>b DEF SlotOK
<1>3. FindOK'
  BY <1>d DEF FindOK
<1>4. CopyOK'
  BY <1>d DEF CopyOK
<1>5. CallOK'
  BY <1>d DEF CallOK, TypeOK
<1>6. DefragFlag'
  <2>1. Holes' = Holes
    BY <1>a, <1>b, <1>d DEF Holes, InUse
  <2> QED
    BY <1>d, <2>1 DEF DefragFlag
<1>7. UniqueRegistration'
  <2>1. Held' = InUse /\ Held = InUse
    BY <1>d DEF Held, InUse
  <2> QED
    BY <1>a, <1>b, <2>1 DEF UniqueRegistration, Live, KeyOf
<1> QED
  BY <1>1, <1>2, <1>3, <1>4, <1>5, <1>6, <1>7

\* Steps that leave the array alone and stay out of pfd_defragment.
LEMMA ControlInv ==
  ASSUME IInv, UNCHANGED registry, pc \notin {"find", "copy"}, pc' \notin {"find", "copy"},
         TypeOK', CallOK'
  PROVE  IInv'
<1>1. SlotOK' /\ FindOK' /\ CopyOK'
  BY DEF IInv, SlotOK, FindOK, CopyOK, registry
<1>2. InUse' = InUse /\ Live' = Live
  BY DEF InUse, Live, Held, registry
<1>3. DefragFlag' /\ UniqueRegistration'
  BY <1>2 DEF IInv, DefragFlag, Holes, UniqueRegistration, registry
<1> QED
  BY <1>1, <1>3 DEF IInv

LEMMA DispatchCallInv ==
  ASSUME IInv, DispatchCall
  PROVE  IInv'
<1>1. i \in Index
  BY PfdMaxAssumption DEF IInv, TypeOK, Index, DispatchCall
<1>2. KeyOf(mem[i]) \in Key
  BY <1>1 DEF DispatchCall, Reported, IInv, SlotOK, TypeOK, Slot, KeyOf, Key
<1>3. cur' \in Key /\ cur' # Nil
  BY <1>2, NilAssumption DEF DispatchCall, Key
<1>4. TypeOK'
  BY <1>3 DEF DispatchCall, registry, IInv, TypeOK, PC
<1>5. CallOK'
  BY <1>3 DEF DispatchCall, registry, IInv, CallOK
<1> QED
  BY <1>4, <1>5, ControlInv DEF DispatchCall

LEMMA StartInv ==
  ASSUME IInv, Start
  PROVE  IInv'
<1>1. TypeOK'
  BY PfdMaxAssumption DEF Start, registry, IInv, TypeOK, PC
<1>2. CallOK'
  BY DEF Start, IInv, CallOK
<1> QED
  BY <1>1, <1>2, ControlInv DEF Start

LEMMA DispatchSkipInv ==
  ASSUME IInv, DispatchSkip
  PROVE  IInv'
<1>1. TypeOK'
  BY PfdMaxAssumption DEF DispatchSkip, registry, IInv, TypeOK
<1>2. CallOK'
  BY DEF DispatchSkip, registry, IInv, TypeOK, CallOK
<1> QED
  BY <1>1, <1>2, ControlInv DEF DispatchSkip

LEMMA DispatchEndInv ==
  ASSUME IInv, DispatchEnd
  PROVE  IInv'
<1>1. TypeOK'
  BY PfdMaxAssumption DEF DispatchEnd, EndOfPass, registry, IInv, TypeOK, PC
<1>2. CallOK'
  BY DEF DispatchEnd, EndOfPass, IInv, CallOK
<1> QED
  BY <1>1, <1>2, ControlInv DEF DispatchEnd, EndOfPass

LEMMA PollFailsInv ==
  ASSUME IInv, PollFails
  PROVE  IInv'
<1>1. TypeOK'
  BY PfdMaxAssumption DEF PollFails, EndOfPass, registry, IInv, TypeOK, PC
<1>2. CallOK'
  BY DEF PollFails, EndOfPass, IInv, CallOK
<1> QED
  BY <1>1, <1>2, ControlInv DEF PollFails, EndOfPass

LEMMA TimersDoneInv ==
  ASSUME IInv, TimersDone
  PROVE  IInv'
<1>1. TypeOK'
  BY PfdMaxAssumption DEF TimersDone, registry, IInv, TypeOK, PC
<1>2. CallOK'
  BY DEF TimersDone, IInv, CallOK
<1> QED
  BY <1>1, <1>2, ControlInv DEF TimersDone

\* app_quit may strike anywhere; it only sets its flag.
LEMMA AppQuitInv ==
  ASSUME IInv, UNCHANGED <<mem, count, defrag, pc, half, i, p, nevents, cur, fresh>>,
         quit' \in BOOLEAN
  PROVE  IInv'
<1>1. InUse' = InUse /\ Live' = Live
  BY DEF InUse, Live, Held
<1>2. TypeOK' /\ SlotOK' /\ FindOK' /\ CopyOK' /\ CallOK'
  BY DEF IInv, TypeOK, SlotOK, FindOK, CopyOK, CallOK
<1>3. DefragFlag' /\ UniqueRegistration'
  BY <1>1 DEF IInv, DefragFlag, Holes, UniqueRegistration
<1> QED
  BY <1>2, <1>3 DEF IInv

LEMMA CallReturnInv ==
  ASSUME IInv, CallReturn
  PROVE  IInv'
<1> USE NilAssumption, PfdMaxAssumption DEF IInv
<1>1. TypeOK'
  <2>1. i \in Index /\ i + 1 \in 0 .. PfdMax
    BY DEF CallReturn, CallOK, TypeOK, Index
  <2>2. [mem[i] EXCEPT !.revents = {}] \in Slot
    BY <2>1 DEF TypeOK, Slot
  <2>3. mem' \in [Index -> Slot]
    BY <2>1, <2>2 DEF TypeOK, CallReturn
  <2>4. nevents' \in Nat
    BY DEF CallReturn, CallOK, TypeOK
  <2> QED
    BY <2>1, <2>3, <2>4 DEF TypeOK, CallReturn, PC
<1>2. SlotOK'
  BY DEF CallReturn, SlotOK
<1>3. FindOK'
  BY DEF CallReturn, FindOK
<1>4. CopyOK'
  BY DEF CallReturn, CopyOK
<1>5. CallOK'
  BY DEF CallReturn, TypeOK, CallOK
<1>6. DefragFlag'
  BY DEF CallReturn, DefragFlag, Holes, InUse
<1>7. UniqueRegistration'
  BY DEF CallReturn, UniqueRegistration, Live, Held, InUse, KeyOf
<1> QED
  BY <1>1, <1>2, <1>3, <1>4, <1>5, <1>6, <1>7

LEMMA NextInv == IInv /\ [Next]_vars => IInv'
<1> SUFFICES ASSUME IInv, [Next]_vars
             PROVE  IInv'
  OBVIOUS
<1>1. CASE Program
  BY <1>1, RegisterAgainInv, RegisterNewInv, UnregisterInv, UnregisterObjectInv DEF Program
<1>2. CASE Loop
  BY <1>2, StartInv, DefragTestInv, DefragFindInv, DefragCopyInv, DefragDoneInv,
     PollInv, PollFailsInv, DispatchSkipInv, DispatchCallInv, CallReturnInv,
     DispatchEndInv, TimersDoneInv DEF Loop
<1>3. CASE AppQuit
  BY <1>3, AppQuitInv DEF AppQuit, registry
<1>4. CASE UNCHANGED vars
  BY <1>4, AppQuitInv DEF vars, IInv, TypeOK
<1> QED
  BY <1>1, <1>2, <1>3, <1>4 DEF Next, Stopped

\* In every reachable state the array, the flag and the indices of the loops of
\* app.c fit together as IInv says.
THEOREM Invariance == Spec => []IInv
<1>1. Init => IInv
  BY InitInv
<1>2. IInv /\ [Next]_vars => IInv'
  BY NextInv
<1> QED
  BY <1>1, <1>2, PTL DEF Spec

\* The types of the registry and of the loop's variables.
THEOREM TypeCorrect == Spec => []TypeOK
<1>1. IInv => TypeOK
  BY DEF IInv
<1> QED
  BY <1>1, Invariance, PTL

\* register_sock and unregister_sock leave at most one slot for a triple,
\* through every compaction.
THEOREM RegistrationsUnique == Spec => []UniqueRegistration
<1>1. IInv => UniqueRegistration
  BY DEF IInv
<1> QED
  BY <1>1, Invariance, PTL

\* pfd_defragment runs only on arrays that have a hole.
THEOREM DefragOnlyWithHoles == Spec => []DefragFlag
<1>1. IInv => DefragFlag
  BY DEF IInv
<1> QED
  BY <1>1, Invariance, PTL

-----------------------------------------------------------------------------
(* The registry as a set.                                                  *)

Unique(m, L) == \A j, h \in L : KeyOf(m[j]) = KeyOf(m[h]) => j = h

\* The view is the function that agrees with the slots.
LEMMA ViewAt ==
  ASSUME NEW m, NEW L, Unique(m, L)
  PROVE  /\ DOMAIN View(m, L) = {KeyOf(m[j]) : j \in L}
         /\ \A j \in L : View(m, L)[KeyOf(m[j])] = m[j].events
  BY DEF View, Unique

\* Two arrays that hold the same triples with the same events, wherever they
\* hold them, have the same view.
LEMMA ViewSame ==
  ASSUME NEW m, NEW L, NEW n, NEW K, Unique(m, L), Unique(n, K),
         \A j \in L : \E h \in K : KeyOf(n[h]) = KeyOf(m[j]) /\ n[h].events = m[j].events,
         \A h \in K : \E j \in L : KeyOf(n[h]) = KeyOf(m[j]) /\ n[h].events = m[j].events
  PROVE  View(m, L) = View(n, K)
<1> DEFINE at(k) == m[CHOOSE j \in L : KeyOf(m[j]) = k].events
           bt(k) == n[CHOOSE h \in K : KeyOf(n[h]) = k].events
<1>1. {KeyOf(m[j]) : j \in L} = {KeyOf(n[h]) : h \in K}
  OBVIOUS
<1>2. \A k \in {KeyOf(m[j]) : j \in L} : at(k) = bt(k)
  BY DEF Unique
<1>3. /\ View(m, L) = [k \in {KeyOf(m[j]) : j \in L} |-> at(k)]
      /\ View(n, K) = [k \in {KeyOf(n[h]) : h \in K} |-> bt(k)]
  BY DEF View
<1> HIDE DEF at, bt
<1> QED
  BY <1>1, <1>2, <1>3

\* The invariant, before and after a step, in the terms of the view.
LEMMA UniqueView == IInv => Unique(mem, Live)
  BY DEF IInv, UniqueRegistration, Unique

LEMMA UniqueViewNext == IInv' => Unique(mem', Live')
  BY DEF IInv, UniqueRegistration, Unique

LEMMA LiveIndex == IInv => Live \subseteq Index /\ InUse \subseteq Index
<1> SUFFICES ASSUME IInv PROVE Live \subseteq Index /\ InUse \subseteq Index
  OBVIOUS
<1>1. InUse \subseteq Index
  BY PfdMaxAssumption DEF IInv, TypeOK, InUse, Index
<1>2. pc = "copy" => Held \subseteq Index
  BY PfdMaxAssumption DEF IInv, TypeOK, Held, Index
<1> QED
  BY <1>1, <1>2 DEF Live, Held

\* A function with the triples and the events of the next array is its view.
LEMMA NextViewIs ==
  ASSUME IInv', NEW f, f = [q \in DOMAIN f |-> f[q]],
         DOMAIN f = {KeyOf(mem'[h]) : h \in Live'},
         \A h \in Live' : f[KeyOf(mem'[h])] = mem'[h].events
  PROVE  AbstractEvents' = f
<1>1. /\ DOMAIN AbstractEvents' = {KeyOf(mem'[h]) : h \in Live'}
      /\ \A h \in Live' : AbstractEvents'[KeyOf(mem'[h])] = mem'[h].events
  BY UniqueViewNext, ViewAt DEF AbstractEvents
<1>2. AbstractEvents' = [q \in DOMAIN AbstractEvents' |-> AbstractEvents'[q]]
  BY DEF AbstractEvents, View
<1> QED
  BY <1>1, <1>2

\* The triple of a live slot.
LEMMA LiveKey == IInv => \A j \in Live : KeyOf(mem[j]) \in Key
  BY LiveIndex DEF IInv, TypeOK, SlotOK, Slot, Live, KeyOf, Key

\* A step that leaves the array and its part in use alone keeps the view.
LEMMA SameSlots ==
  ASSUME IInv, IInv', Live' = Live,
         \A j \in Live : KeyOf(mem'[j]) = KeyOf(mem[j]) /\ mem'[j].events = mem[j].events
  PROVE  AbstractEvents' = AbstractEvents
<1>1. View(mem, Live) = View(mem', Live')
  BY UniqueView, UniqueViewNext, ViewSame
<1> QED
  BY <1>1 DEF AbstractEvents

\* A step that keeps the view and what runs is one of the loop, or enters or
\* leaves program code.
LEMMA QuietStep ==
  ASSUME AbstractEvents' = AbstractEvents, cur' = cur,
         InProgram => InProgram' \/ cur = Nil
  PROVE  [Registry!Next]_(Registry!vars)
<1>1. CASE InProgram <=> InProgram'
  BY <1>1 DEF Registry!vars, InProgram
<1>2. CASE ~InProgram /\ InProgram'
  BY <1>2 DEF Registry!Next, Registry!Enter, InProgram
<1>3. CASE InProgram /\ ~InProgram'
  BY <1>3 DEF Registry!Next, Registry!Leave, InProgram
<1> QED
  BY <1>1, <1>2, <1>3

LEMMA RegisterAgainRefines ==
  ASSUME IInv, IInv', NEW k \in Key, NEW e \in SUBSET Requestable, RegisterAgain(k, e)
  PROVE  Registry!Register(k, e)
<1>1. PICK j \in Match(k) : mem' = [mem EXCEPT ![j].events = e]
  BY DEF RegisterAgain
<1>2. /\ Held = InUse /\ Held' = InUse
      /\ cur' = cur /\ InProgram /\ InProgram'
  BY DEF RegisterAgain, control, InProgram, Held, InUse
<1>3. /\ j \in Live /\ j \in Index
      /\ KeyOf(mem[j]) = k
  BY <1>2, LiveIndex DEF Match, Live
<1>4. \A h \in Index : /\ KeyOf(mem'[h]) = KeyOf(mem[h])
                       /\ mem'[h].fd = mem[h].fd
                       /\ mem'[h].events = IF h = j THEN e ELSE mem[h].events
  BY <1>1, <1>3 DEF IInv, TypeOK, KeyOf
<1>5. Live' = Live
  BY <1>2, <1>4, LiveIndex DEF Live
<1> DEFINE new == [q \in DOMAIN AbstractEvents \cup {k} |->
                      IF q = k THEN e ELSE AbstractEvents[q]]
<1>6. /\ DOMAIN AbstractEvents = {KeyOf(mem[h]) : h \in Live}
      /\ \A h \in Live : AbstractEvents[KeyOf(mem[h])] = mem[h].events
  BY UniqueView, ViewAt DEF AbstractEvents
<1>7. DOMAIN new = {KeyOf(mem'[h]) : h \in Live'}
  BY <1>3, <1>4, <1>5, <1>6, LiveIndex
<1>8. \A h \in Live' : new[KeyOf(mem'[h])] = mem'[h].events
  BY <1>3, <1>4, <1>5, <1>6, LiveIndex, UniqueView DEF Unique
<1>9. AbstractEvents' = new
  BY <1>7, <1>8, NextViewIs
<1> QED
  BY <1>2, <1>9 DEF Registry!Register, Registry!Registered, InProgram

LEMMA RegisterNewRefines ==
  ASSUME IInv, IInv', NEW k \in Key, NEW e \in SUBSET Requestable, RegisterNew(k, e)
  PROVE  Registry!Register(k, e)
<1>1. /\ Held = InUse /\ Held' = InUse \cup {count}
      /\ cur' = cur /\ InProgram /\ InProgram'
      /\ count \in Index /\ count \notin InUse
  BY DEF RegisterNew, control, InProgram, Held, InUse, IInv, TypeOK
<1>2. /\ \A h \in InUse : mem'[h] = mem[h]
      /\ mem'[count].fd # Nil
      /\ KeyOf(mem'[count]) = k
      /\ mem'[count].events = e
  BY <1>1, NilAssumption DEF RegisterNew, IInv, TypeOK, KeyOf, Key
<1>3. Live' = Live \cup {count}
  BY <1>1, <1>2 DEF Live
<1>4. \A h \in Live : KeyOf(mem[h]) # k
  BY <1>1 DEF RegisterNew, Match, Live
<1> DEFINE new == [q \in DOMAIN AbstractEvents \cup {k} |->
                      IF q = k THEN e ELSE AbstractEvents[q]]
<1>5. /\ DOMAIN AbstractEvents = {KeyOf(mem[h]) : h \in Live}
      /\ \A h \in Live : AbstractEvents[KeyOf(mem[h])] = mem[h].events
  BY UniqueView, ViewAt DEF AbstractEvents
<1>6. \A h \in Live : mem'[h] = mem[h]
  BY <1>1, <1>2 DEF Live
<1>7. DOMAIN new = {KeyOf(mem'[h]) : h \in Live'}
  BY <1>2, <1>3, <1>5, <1>6
<1>8. \A h \in Live' : new[KeyOf(mem'[h])] = mem'[h].events
  BY <1>2, <1>3, <1>4, <1>5, <1>6
<1>9. AbstractEvents' = new
  BY <1>7, <1>8, NextViewIs
<1> QED
  BY <1>1, <1>9 DEF Registry!Register, Registry!Registered, InProgram

\* Emptying slots takes their triples, and no others, out of the view.
LEMMA EmptyingRefines ==
  ASSUME IInv, IInv', NEW ks, NEW gone \in SUBSET Live,
         \A j \in Live : j \in gone <=> KeyOf(mem[j]) \in ks,
         Live' = Live \ gone,
         \A j \in Live \ gone : mem'[j] = mem[j],
         cur' = cur, InProgram, InProgram'
  PROVE  Registry!Unregister(ks)
<1> DEFINE new == [q \in DOMAIN AbstractEvents \ ks |-> AbstractEvents[q]]
<1>1. /\ DOMAIN AbstractEvents = {KeyOf(mem[h]) : h \in Live}
      /\ \A h \in Live : AbstractEvents[KeyOf(mem[h])] = mem[h].events
  BY UniqueView, ViewAt DEF AbstractEvents
<1>2. DOMAIN new = {KeyOf(mem'[h]) : h \in Live'}
  BY <1>1
<1>3. \A h \in Live' : new[KeyOf(mem'[h])] = mem'[h].events
  BY <1>1
<1>4. AbstractEvents' = new
  BY <1>2, <1>3, NextViewIs
<1> QED
  BY <1>4 DEF Registry!Unregister, Registry!Registered, InProgram

LEMMA UnregisterRefines ==
  ASSUME IInv, IInv', NEW k \in Key, Unregister(k)
  PROVE  Registry!Unregister({k})
<1>1. PICK j \in Match(k) : mem' = [mem EXCEPT ![j] = Emptied(mem[j])]
  BY DEF Unregister
<1>2. /\ Held = InUse /\ Held' = InUse
      /\ cur' = cur /\ InProgram /\ InProgram'
  BY DEF Unregister, control, InProgram, Held, InUse
<1>3. j \in Live /\ j \in Index /\ KeyOf(mem[j]) = k
  BY <1>2, LiveIndex DEF Match, Live
<1>4. mem'[j].fd = Nil /\ \A h \in Index : h # j => mem'[h] = mem[h]
  BY <1>1, <1>3, EmptiedSlot DEF IInv, TypeOK
<1>5. Live' = Live \ {j}
  BY <1>2, <1>4, LiveIndex DEF Live
<1>6. \A h \in Live : h \in {j} <=> KeyOf(mem[h]) \in {k}
  BY <1>3, UniqueView DEF Unique
<1> QED
  BY <1>2, <1>3, <1>4, <1>5, <1>6, LiveIndex, EmptyingRefines

LEMMA UnregisterObjectRefines ==
  ASSUME IInv, IInv', NEW o \in Objects, UnregisterObject(o)
  PROVE  Registry!Unregister({q \in Key : q.ctxt = o})
<1> DEFINE gone == {j \in Live : mem[j].ctxt = o}
<1>1. /\ Held = InUse /\ Held' = InUse
      /\ cur' = cur /\ InProgram /\ InProgram'
  BY DEF UnregisterObject, control, InProgram, Held, InUse
<1>2. \A j \in InUse : IF mem[j].ctxt = o THEN mem'[j].fd = Nil ELSE mem'[j] = mem[j]
  BY LiveIndex, EmptiedSlot DEF UnregisterObject, IInv, TypeOK
<1>3. Live' = Live \ gone
  BY <1>1, <1>2 DEF Live
<1>4. \A j \in Live : j \in gone <=> KeyOf(mem[j]) \in {q \in Key : q.ctxt = o}
  BY LiveKey DEF KeyOf
<1>5. \A j \in Live \ gone : mem'[j] = mem[j]
  BY <1>1, <1>2 DEF Live
<1> HIDE DEF gone
<1>6. gone \in SUBSET Live
  BY DEF gone
<1> QED
  BY <1>1, <1>3, <1>4, <1>5, <1>6, EmptyingRefines

\* pfd_defragment at work: moving a slot down moves its registration.
LEMMA DefragCopyRefines ==
  ASSUME IInv, IInv', DefragCopy
  PROVE  [Registry!Next]_(Registry!vars)
<1>1. /\ i \in 0 .. count - 1 /\ p \in 0 .. i - 1
      /\ i \in Index /\ p \in Index
      /\ Held = (0 .. p - 1) \cup (i .. count - 1)
      /\ cur' = cur
  <2>1. pc = "copy" /\ cur' = cur /\ i < count
    BY DEF DefragCopy
  <2>2. i \in 0 .. count - 1 /\ p \in 0 .. i - 1 /\ count \in 0 .. PfdMax
    BY <2>1 DEF IInv, TypeOK, CopyOK
  <2> QED
    BY <2>1, <2>2, PfdMaxAssumption DEF Index, Held
<1>2. CASE mem[i].fd = Nil
  <2>1. mem' = mem /\ Held' = Held \ {i}
    BY <1>1, <1>2 DEF DefragCopy, Held
  <2>2. Live' = Live
    BY <1>2, <2>1 DEF Live
  <2> QED
    BY <1>1, <2>2, SameSlots, <2>1, QuietStep DEF DefragCopy, InProgram
<1>3. CASE mem[i].fd # Nil
  <2>1. /\ Held' = (Held \ {i}) \cup {p}
        /\ \A j \in Index : mem'[j] = IF j = p THEN mem[i] ELSE mem[j]
    BY <1>1, <1>3 DEF DefragCopy, Held, IInv, TypeOK
  <2>2. p \notin Held /\ i \in Held
    BY <1>1
  <2>3. Live' = (Live \ {i}) \cup {p} /\ i \in Live
    <3>1. \A j \in Held : j \in Index /\ j # p
      BY <1>1, <2>2, PfdMaxAssumption DEF Index, IInv, TypeOK
    <3>2. \A j \in Held \ {i} : mem'[j] = mem[j]
      BY <2>1, <3>1
    <3>3. mem'[p] = mem[i]
      BY <1>1, <2>1
    <3> QED
      BY <1>3, <2>1, <2>2, <3>2, <3>3 DEF Live
  <2>4. \A j \in Live : \E h \in Live' :
            KeyOf(mem'[h]) = KeyOf(mem[j]) /\ mem'[h].events = mem[j].events
    <3> SUFFICES ASSUME NEW j \in Live
                 PROVE  \E h \in Live' : mem'[h] = mem[j]
      OBVIOUS
    <3>1. CASE j = i
      BY <1>1, <2>1, <2>3, <3>1
    <3>2. CASE j # i
      BY <1>1, <2>1, <2>2, <2>3, <3>2, LiveIndex DEF Live
    <3> QED
      BY <3>1, <3>2
  <2>5. \A h \in Live' : \E j \in Live :
            KeyOf(mem'[h]) = KeyOf(mem[j]) /\ mem'[h].events = mem[j].events
    <3> SUFFICES ASSUME NEW h \in Live'
                 PROVE  \E j \in Live : mem'[h] = mem[j]
      OBVIOUS
    <3>1. CASE h = p
      BY <1>1, <2>1, <2>3, <3>1
    <3>2. CASE h # p
      BY <1>1, <2>1, <2>3, <3>2, LiveIndex
    <3> QED
      BY <3>1, <3>2
  <2>6. View(mem, Live) = View(mem', Live')
    BY <2>4, <2>5, UniqueView, UniqueViewNext, ViewSame
  <2> QED
    BY <1>1, <2>6, QuietStep DEF AbstractEvents, DefragCopy, InProgram
<1> QED
  BY <1>2, <1>3

\* Finding the first hole, and ending, change no registration.
LEMMA DefragFindRefines ==
  ASSUME IInv, IInv', DefragFind
  PROVE  [Registry!Next]_(Registry!vars)
<1>1. mem' = mem /\ count' = count /\ cur' = cur /\ Held = InUse
  BY DEF DefragFind, registry, Held
<1>2. Live' = Live
  <2>1. CASE pc' = "find"
    BY <1>1, <2>1 DEF Live, Held, InUse
  <2>2. CASE pc' = "copy"
    <3>1. i < count /\ mem[i].fd = Nil /\ p' = i /\ i' = i + 1 /\ i \in 0 .. count
      BY <2>2 DEF DefragFind, IInv, FindOK, TypeOK
    <3>2. Held' = InUse \ {i}
      BY <1>1, <2>2, <3>1 DEF Held, InUse, IInv, TypeOK
    <3> QED
      BY <1>1, <3>1, <3>2 DEF Live
  <2> QED
    BY <2>1, <2>2 DEF DefragFind
<1> QED
  BY <1>1, <1>2, SameSlots, QuietStep DEF DefragFind, InProgram

LEMMA DefragDoneRefines ==
  ASSUME IInv, IInv', DefragDone
  PROVE  [Registry!Next]_(Registry!vars)
<1>1. Held' = Held
  BY DEF DefragDone, Held, InUse, IInv, TypeOK
<1>2. mem' = mem /\ cur' = cur
  BY DEF DefragDone
<1>3. Live' = Live
  BY <1>1, <1>2 DEF Live
<1> QED
  BY <1>2, <1>3, SameSlots, QuietStep DEF DefragDone, InProgram

LEMMA PollRefines ==
  ASSUME IInv, IInv', Poll
  PROVE  [Registry!Next]_(Registry!vars)
<1>1. \A j \in Index : /\ mem'[j].fd = mem[j].fd
                       /\ mem'[j].ctxt = mem[j].ctxt
                       /\ mem'[j].cb = mem[j].cb
                       /\ mem'[j].events = mem[j].events
  BY DEF Poll
<1>2. /\ pc = "poll" /\ pc' # "copy" /\ count' = count
      /\ cur' = cur
  BY DEF Poll, EndOfPass
<1>3. Live' = Live
  BY <1>1, <1>2, LiveIndex DEF Live, Held, InUse
<1> QED
  BY <1>1, <1>2, <1>3, LiveIndex, SameSlots, QuietStep DEF KeyOf, InProgram

LEMMA CallReturnRefines ==
  ASSUME IInv, IInv', CallReturn
  PROVE  Registry!Return
<1>1. \A j \in Index : /\ mem'[j].fd = mem[j].fd
                       /\ mem'[j].ctxt = mem[j].ctxt
                       /\ mem'[j].cb = mem[j].cb
                       /\ mem'[j].events = mem[j].events
  BY DEF CallReturn
<1>2. /\ pc = "call" /\ pc' # "copy" /\ count' = count
      /\ cur # Nil /\ cur' = Nil
  BY DEF CallReturn, IInv, CallOK
<1>3. Live' = Live
  BY <1>1, <1>2, LiveIndex DEF Live, Held, InUse
<1>4. AbstractEvents' = AbstractEvents
  BY <1>1, <1>3, LiveIndex, SameSlots DEF KeyOf
<1> QED
  BY <1>2, <1>4 DEF Registry!Return, CallReturn, InProgram

\* A dispatch calls what is registered, and nothing else runs then.
LEMMA DispatchCallRefines ==
  ASSUME IInv, IInv', DispatchCall
  PROVE  \E k \in Key : Registry!Call(k)
<1>1. /\ i \in InUse /\ Held = InUse /\ mem[i].fd # Nil
      /\ cur = Nil /\ cur' = KeyOf(mem[i])
      /\ mem' = mem /\ Held' = Held
  BY DEF DispatchCall, Reported, IInv, TypeOK, CallOK, InUse, Held, registry
<1>2. i \in Live /\ Live' = Live
  BY <1>1 DEF Live
<1>3. KeyOf(mem[i]) \in Key
  BY <1>2, LiveKey
<1>4. KeyOf(mem[i]) \in DOMAIN AbstractEvents
  <2>1. DOMAIN View(mem, Live) = {KeyOf(mem[j]) : j \in Live}
    BY UniqueView, ViewAt
  <2> QED
    BY <1>2, <2>1 DEF AbstractEvents
<1>5. AbstractEvents' = AbstractEvents
  BY <1>1, <1>2, SameSlots
<1>6. ~InProgram /\ InProgram'
  BY DEF DispatchCall, InProgram
<1> QED
  BY <1>1, <1>3, <1>4, <1>5, <1>6 DEF Registry!Call, Registry!Registered, InProgram

\* The other steps touch neither the array nor what runs.
LEMMA ControlRefines ==
  ASSUME IInv, IInv', mem' = mem, count' = count, cur' = cur,
         pc # "copy", pc' # "copy", InProgram => InProgram' \/ cur = Nil
  PROVE  [Registry!Next]_(Registry!vars)
<1>1. Live' = Live
  BY DEF Live, Held, InUse
<1> QED
  BY <1>1, SameSlots, QuietStep

LEMMA StutterRefines ==
  ASSUME IInv, IInv', UNCHANGED <<mem, count, pc, i, p, cur>>
  PROVE  [Registry!Next]_(Registry!vars)
<1>1. Live' = Live
  BY DEF Live, Held, InUse
<1> QED
  BY <1>1, SameSlots, QuietStep DEF InProgram

LEMMA NextRefines == IInv /\ IInv' /\ [Next]_vars => [Registry!Next]_(Registry!vars)
<1> SUFFICES ASSUME IInv, IInv', [Next]_vars
             PROVE  [Registry!Next]_(Registry!vars)
  OBVIOUS
<1>1. CASE Program
  <2>1. ASSUME NEW k \in Key, NEW e \in SUBSET Requestable \ {{}},
               RegisterAgain(k, e) \/ RegisterNew(k, e)
        PROVE  Registry!Next
    BY <2>1, RegisterAgainRefines, RegisterNewRefines DEF Registry!Next, Registry!Key, Key
  <2>2. ASSUME NEW k \in Key, Unregister(k)
        PROVE  Registry!Next
    BY <2>2, UnregisterRefines DEF Registry!Next, Registry!Key, Key
  <2>3. ASSUME NEW o \in Objects, UnregisterObject(o)
        PROVE  Registry!Next
    BY <2>3, UnregisterObjectRefines DEF Registry!Next, Registry!Key, Key
  <2> QED
    BY <1>1, <2>1, <2>2, <2>3 DEF Program
<1>2. CASE DefragFind \/ DefragCopy \/ DefragDone \/ Poll
  BY <1>2, DefragFindRefines, DefragCopyRefines, DefragDoneRefines, PollRefines
<1>3. CASE DispatchCall
  BY <1>3, DispatchCallRefines DEF Registry!Next, Registry!Key, Key
<1>4. CASE CallReturn
  BY <1>4, CallReturnRefines DEF Registry!Next
<1>5. CASE Start \/ DefragTest \/ PollFails \/ DispatchSkip \/ DispatchEnd \/ TimersDone
  <2>1. mem' = mem /\ count' = count /\ cur' = cur /\ pc # "copy" /\ pc' # "copy"
    BY <1>5 DEF Start, DefragTest, PollFails, DispatchSkip, DispatchEnd, TimersDone,
                EndOfPass, registry
  <2>2. InProgram => cur = Nil
    BY <1>5 DEF Start, DefragTest, PollFails, DispatchSkip, DispatchEnd, TimersDone,
                InProgram, IInv, CallOK
  <2> QED
    BY <2>1, <2>2, ControlRefines
<1>6. CASE AppQuit \/ UNCHANGED vars
  <2>1. UNCHANGED <<mem, count, pc, i, p, cur>>
    BY <1>6 DEF AppQuit, registry, vars
  <2> QED
    BY <2>1, StutterRefines
<1> QED
  BY <1>1, <1>2, <1>3, <1>4, <1>5, <1>6 DEF Next, Loop, Stopped

LEMMA InitRefines == Init => Registry!Init
<1> SUFFICES ASSUME Init
             PROVE  Registry!Init
  OBVIOUS
<1>1. Live = {}
  BY DEF Init, Live, Held, InUse
<1> QED
  BY <1>1 DEF Init, Registry!Init, AbstractEvents, View, InProgram

\* The array, its compaction and the dispatch pass implement the set of
\* registrations that the rest of the program relies on.
THEOREM Refinement == Spec => ImplementsSockSet
<1>1. Init => Registry!Init
  BY InitRefines
<1>2. IInv /\ IInv' /\ [Next]_vars => [Registry!Next]_(Registry!vars)
  BY NextRefines
<1> QED
  BY <1>1, <1>2, Invariance, PTL DEF Spec, ImplementsSockSet, Registry!Spec


-----------------------------------------------------------------------------
(* What poll reported is called.                                           *)

\* The next slot the pass looks at.
Place == IF pc = "call" THEN i + 1 ELSE i

Ahead == {j \in fresh : j >= Place}

\* The slots that were reported and are not called yet still say so, and those
\* the pass has gone by were unregistered.  A slot that a callback filled may
\* say so too, of the socket that had it before, but lies behind all of them;
\* it can use up the count of events only when none of them is left.
PassOK ==
    pc \in {"dispatch", "call"} =>
        /\ fresh \subseteq InUse
        /\ \A j \in fresh : mem[j].revents # {} /\ (j < Place => mem[j].fd = Nil)
        /\ pc = "call" => i \notin fresh
        /\ \A j \in InUse : j >= Place /\ mem[j].revents # {} /\ j \notin fresh
                                => \A h \in fresh : h < j
        /\ Cardinality(Ahead) <= IF pc = "call" THEN nevents - 1 ELSE nevents

LEMMA Reach ==
  ASSUME IInv
  PROVE  /\ count \in Nat /\ i \in Nat /\ nevents \in Nat /\ InUse \subseteq Index
         /\ IsFiniteSet(InUse) /\ \A j \in InUse : j \in Nat /\ j < count
<1>1. count \in Nat /\ i \in Nat /\ nevents \in Nat /\ count <= PfdMax
  BY PfdMaxAssumption DEF IInv, TypeOK
<1>2. IsFiniteSet(0 .. count - 1)
  BY <1>1, FS_Interval
<1> QED
  BY <1>1, <1>2, PfdMaxAssumption DEF InUse, Index

\* The operations on the registry, which callbacks use while the pass is under
\* way, empty slots and add one at the end, but change no slot's report.
Edits ==
    /\ UNCHANGED control
    /\ count' \in {count, count + 1}
    /\ \A j \in InUse : /\ mem'[j].revents = mem[j].revents
                        /\ mem[j].fd = Nil => mem'[j].fd = Nil

LEMMA ProgramEdits == ASSUME IInv, Program PROVE Edits
<1>1. InUse \subseteq Index /\ count \in Nat
  BY Reach
<1>2. mem \in [Index -> Slot]
  BY DEF IInv, TypeOK
<1>3. \A j \in Index : Emptied(mem[j]).revents = mem[j].revents /\ Emptied(mem[j]).fd = Nil
  BY DEF Emptied
<1>4. ASSUME NEW k \in Key, NEW e \in SUBSET Requestable, RegisterAgain(k, e)
      PROVE  Edits
  BY <1>1, <1>2, <1>4 DEF Edits, RegisterAgain, Match, Slot
<1>5. ASSUME NEW k \in Key, NEW e \in SUBSET Requestable, RegisterNew(k, e)
      PROVE  Edits
  BY <1>1, <1>2, <1>5 DEF Edits, RegisterNew, InUse
<1>6. ASSUME NEW k \in Key, Unregister(k)
      PROVE  Edits
  <2>1. PICK h \in InUse : mem' = [mem EXCEPT ![h] = Emptied(mem[h])]
    BY <1>6 DEF Unregister, Match
  <2>2. \A j \in InUse : mem'[j] = IF j = h THEN Emptied(mem[h]) ELSE mem[j]
    BY <1>1, <1>2, <2>1
  <2> QED
    BY <1>1, <1>3, <1>6, <2>2 DEF Edits, Unregister
<1>7. ASSUME NEW o \in Objects, UnregisterObject(o)
      PROVE  Edits
  <2>1. \A j \in InUse : mem'[j] = Emptied(mem[j]) \/ mem'[j] = mem[j]
    BY <1>1, <1>7 DEF UnregisterObject
  <2> QED
    BY <1>1, <1>3, <1>7, <2>1 DEF Edits, UnregisterObject
<1> QED
  BY <1>4, <1>5, <1>6, <1>7 DEF Program

LEMMA EditsPass ==
  ASSUME IInv, PassOK, Edits
  PROVE  PassOK'
<1> SUFFICES ASSUME pc' \in {"dispatch", "call"}
             PROVE  PassOK'
  BY DEF PassOK
<1>1. pc' = pc /\ i' = i /\ nevents' = nevents /\ fresh' = fresh /\ Place' = Place
  BY DEF Edits, control, Place
<1>2. /\ fresh \subseteq InUse
      /\ \A j \in fresh : mem[j].revents # {} /\ (j < Place => mem[j].fd = Nil)
      /\ pc = "call" => i \notin fresh
      /\ \A j \in InUse : j >= Place /\ mem[j].revents # {} /\ j \notin fresh
                              => \A h \in fresh : h < j
      /\ Cardinality(Ahead) <= IF pc = "call" THEN nevents - 1 ELSE nevents
  BY <1>1 DEF PassOK
<1>3. count \in Nat /\ InUse' \subseteq InUse \cup {count} /\ InUse \subseteq InUse'
  BY Reach DEF Edits, InUse
<1>4. \A h \in fresh : h < count
  BY <1>2, Reach
<1>5. \A j \in InUse' : j >= Place /\ mem'[j].revents # {} /\ j \notin fresh
                              => \A h \in fresh : h < j
  BY <1>2, <1>3, <1>4 DEF Edits
<1>6. \A j \in fresh : mem'[j].revents # {} /\ (j < Place => mem'[j].fd = Nil)
  BY <1>2 DEF Edits
<1>7. Ahead' = Ahead
  BY <1>1 DEF Ahead
<1> QED
  BY <1>1, <1>2, <1>3, <1>5, <1>6, <1>7 DEF PassOK

LEMMA PollPass ==
  ASSUME IInv, Poll
  PROVE  PassOK'
<1>1. PICK r \in [InUse -> SUBSET Event] :
          /\ mem' = [j \in Index |-> IF j \in InUse THEN [mem[j] EXCEPT !.revents = r[j]]
                                                    ELSE mem[j]]
          /\ fresh' = {j \in InUse : r[j] # {}}
          /\ nevents' = Cardinality({j \in InUse : r[j] # {}})
  BY DEF Poll
<1>2. InUse \subseteq Index /\ InUse' = InUse /\ mem \in [Index -> Slot]
  BY Reach DEF Poll, InUse, IInv, TypeOK
<1>3. \A j \in InUse : mem'[j].revents = r[j]
  BY <1>1, <1>2 DEF Slot
<1>4. pc' # "call" /\ i' = 0
  BY DEF Poll, EndOfPass
<1>5. Place' = 0
  BY <1>4 DEF Place
<1>6. Ahead' = fresh'
  BY <1>1, <1>5, Reach DEF Ahead
<1>7. Cardinality(fresh') = nevents' /\ nevents' \in Nat
  <2>1. IsFiniteSet(fresh')
    BY <1>1, Reach, FS_Subset
  <2> QED
    BY <1>1, <2>1, FS_CardinalityType
<1>8. \A j \in fresh' : mem'[j].revents # {} /\ ~(j < 0)
  BY <1>1, <1>3, Reach
<1>9. \A j \in InUse : mem'[j].revents # {} => j \in fresh'
  BY <1>1, <1>3
<1> QED
  BY <1>1, <1>2, <1>4, <1>5, <1>6, <1>7, <1>8, <1>9 DEF PassOK

\* The slots ahead when the pass has moved on by one.
LEMMA AheadMoves ==
  ASSUME IInv, PassOK, pc \in {"dispatch", "call"}
  PROVE  /\ IsFiniteSet(Ahead) /\ Cardinality(Ahead) \in Nat
         /\ \A S : S \subseteq Ahead =>
                IsFiniteSet(S) /\ Cardinality(S) \in Nat /\ Cardinality(S) <= Cardinality(Ahead)
         /\ \A j \in Ahead : Cardinality(Ahead \ {j}) = Cardinality(Ahead) - 1
<1>1. Ahead \subseteq InUse
  BY DEF PassOK, Ahead
<1>2. IsFiniteSet(Ahead)
  BY <1>1, Reach, FS_Subset
<1> QED
  BY <1>2, FS_Subset, FS_CardinalityType, FS_RemoveElement

LEMMA SkipPass == ASSUME IInv, PassOK, DispatchSkip PROVE PassOK'
<1>1. /\ pc = "dispatch" /\ pc' = pc /\ i' = i + 1 /\ nevents' = nevents
      /\ fresh' = fresh /\ mem' = mem /\ count' = count /\ ~Reported(mem[i])
  BY DEF DispatchSkip, registry
<1>2. Place = i /\ Place' = i + 1 /\ i \in Nat /\ InUse' = InUse
  BY <1>1, Reach DEF Place, InUse
<1>3. /\ fresh \subseteq InUse
      /\ \A j \in fresh : mem[j].revents # {} /\ (j < i => mem[j].fd = Nil)
      /\ \A j \in InUse : j >= i /\ mem[j].revents # {} /\ j \notin fresh
                              => \A h \in fresh : h < j
      /\ Cardinality(Ahead) <= nevents
  BY <1>1, <1>2 DEF PassOK
<1>4. \A j \in InUse : j \in Nat
  BY Reach
<1>5. \A j \in fresh : j < i + 1 => mem[j].fd = Nil
  BY <1>1, <1>2, <1>3, <1>4 DEF Reported
<1>6. \A j \in InUse : j >= i + 1 => j >= i
  BY <1>2, <1>4
<1>7. Cardinality(Ahead') <= nevents
  <2>1. Ahead' \subseteq Ahead
    BY <1>1, <1>2, <1>3, <1>6 DEF Ahead
  <2> QED
    BY <1>1, <1>3, <2>1, AheadMoves, Reach
<1> QED
  BY <1>1, <1>2, <1>3, <1>5, <1>6, <1>7 DEF PassOK

LEMMA CallPass == ASSUME IInv, PassOK, DispatchCall PROVE PassOK'
<1>1. /\ pc = "dispatch" /\ pc' = "call" /\ i' = i /\ nevents' = nevents /\ i < count
      /\ fresh' = fresh \ {i} /\ mem' = mem /\ count' = count /\ Reported(mem[i]) /\ nevents > 0
  BY DEF DispatchCall, registry
<1>2. Place = i /\ Place' = i + 1 /\ i \in Nat /\ InUse' = InUse /\ i \in InUse
  BY <1>1, Reach DEF Place, InUse
<1>3. /\ fresh \subseteq InUse
      /\ \A j \in fresh : mem[j].revents # {} /\ (j < i => mem[j].fd = Nil)
      /\ \A j \in InUse : j >= i /\ mem[j].revents # {} /\ j \notin fresh
                              => \A h \in fresh : h < j
      /\ Cardinality(Ahead) <= nevents
  BY <1>1, <1>2 DEF PassOK
<1>4. \A j \in InUse : j \in Nat
  BY Reach
<1>5. \A j \in fresh' : j \in fresh /\ (j < i + 1 => mem[j].fd = Nil)
  <2> SUFFICES ASSUME NEW j \in fresh'
               PROVE  j \in fresh /\ (j < i + 1 => mem[j].fd = Nil)
    OBVIOUS
  <2>1. j \in fresh /\ j # i
    BY <1>1
  <2>2. j \in Nat /\ (j < i => mem[j].fd = Nil)
    BY <1>3, <1>4, <2>1
  <2>3. j < i + 1 => j < i
    BY <1>2, <2>1, <2>2
  <2> QED
    BY <2>1, <2>2, <2>3
<1>6. \A j \in InUse : j >= i + 1 => j >= i /\ j # i
  BY <1>2, <1>4
<1>7. Cardinality(Ahead') <= nevents - 1
  <2>1. Ahead' \subseteq Ahead /\ i \notin Ahead'
    BY <1>1, <1>2, <1>3, <1>6 DEF Ahead
  <2>2. nevents \in Nat
    BY Reach
  <2>3. CASE i \in fresh
    <3>1. i \in Ahead
      BY <1>2, <2>3 DEF Ahead
    <3>2. Ahead' = Ahead \ {i}
      <4>1. \A j \in Ahead : j # i => j \in Ahead'
        BY <1>1, <1>2, <1>3, <1>4 DEF Ahead
      <4> QED
        BY <2>1, <4>1
    <3> QED
      BY <1>1, <1>3, <2>2, <3>1, <3>2, AheadMoves
  <2>4. CASE i \notin fresh
    <3>1. \A h \in fresh : h < i
      BY <1>1, <1>2, <1>3, <2>4 DEF Reported
    <3>2. Ahead' = {}
      <4> SUFFICES ASSUME NEW h \in Ahead'
                   PROVE  FALSE
        OBVIOUS
      <4>1. h \in fresh /\ h >= i
        BY <1>2, <2>1 DEF Ahead
      <4>2. h \in Nat /\ h < i
        BY <1>3, <1>4, <3>1, <4>1
      <4> QED
        BY <1>2, <4>1, <4>2
    <3>3. Cardinality({}) = 0
      BY FS_EmptySet
    <3> QED
      BY <1>1, <2>2, <3>2, <3>3
  <2> QED
    BY <2>3, <2>4
<1>8. \A j \in InUse : j >= i + 1 /\ mem[j].revents # {} /\ j \notin fresh'
                          => \A h \in fresh' : h < j
  BY <1>1, <1>3, <1>5, <1>6
<1> QED
  BY <1>1, <1>2, <1>3, <1>5, <1>7, <1>8 DEF PassOK

LEMMA ReturnPass == ASSUME IInv, PassOK, CallReturn PROVE PassOK'
<1>1. /\ pc = "call" /\ pc' = "dispatch" /\ i' = i + 1 /\ nevents' = nevents - 1
      /\ fresh' = fresh /\ mem' = [mem EXCEPT ![i].revents = {}] /\ count' = count
  BY DEF CallReturn
<1>2. Place = i + 1 /\ Place' = i + 1 /\ InUse' = InUse
  BY <1>1 DEF Place, InUse
<1>3. /\ fresh \subseteq InUse
      /\ \A j \in fresh : mem[j].revents # {} /\ (j < i + 1 => mem[j].fd = Nil)
      /\ i \notin fresh
      /\ \A j \in InUse : j >= i + 1 /\ mem[j].revents # {} /\ j \notin fresh
                              => \A h \in fresh : h < j
      /\ Cardinality(Ahead) <= nevents - 1
  BY <1>1, <1>2 DEF PassOK
<1>4. \A j \in InUse : j \in Nat /\ j \in Index
  BY Reach
<1>5. i \in Nat /\ mem \in [Index -> Slot]
  BY Reach DEF IInv, TypeOK
<1>6. \A j \in InUse : j # i => mem'[j] = mem[j]
  BY <1>1, <1>4, <1>5
<1>7. \A j \in InUse : j >= i + 1 => j # i
  BY <1>4, <1>5
<1>8. Ahead' = Ahead
  BY <1>1, <1>2 DEF Ahead
<1> QED
  BY <1>1, <1>2, <1>3, <1>6, <1>7, <1>8 DEF PassOK

LEMMA PassInductive == ASSUME IInv, PassOK, [Next]_vars PROVE PassOK'
<1>1. CASE Program
  BY <1>1, ProgramEdits, EditsPass
<1>2. CASE Poll
  BY <1>2, PollPass
<1>3. CASE DispatchSkip
  BY <1>3, SkipPass
<1>4. CASE DispatchCall
  BY <1>4, CallPass
<1>5. CASE CallReturn
  BY <1>5, ReturnPass
<1>6. CASE Start \/ DefragTest \/ DefragFind \/ DefragCopy \/ DefragDone
           \/ PollFails \/ DispatchEnd \/ TimersDone
  <2>1. pc' \notin {"dispatch", "call"}
    BY <1>6 DEF Start, DefragTest, DefragFind, DefragCopy, DefragDone, PollFails, DispatchEnd,
                TimersDone, EndOfPass
  <2> QED
    BY <2>1 DEF PassOK
<1>7. CASE AppQuit \/ Stopped \/ UNCHANGED vars
  <2>1. /\ pc' = pc /\ i' = i /\ nevents' = nevents /\ fresh' = fresh /\ mem' = mem
        /\ count' = count
    BY <1>7 DEF AppQuit, Stopped, vars, registry
  <2> QED
    BY <2>1 DEF PassOK, Place, Ahead, InUse
<1> QED
  BY <1>1, <1>2, <1>3, <1>4, <1>5, <1>6, <1>7 DEF Next, Loop

\* When the pass of dispatch_sock_events ends, at the end of the array or with
\* its count of events used up, every slot poll reported was called or was
\* unregistered, whatever the callbacks did to the array meanwhile.
THEOREM NoneLost == Spec => NoEventLost
<1>1. Init => PassOK
  BY DEF Init, PassOK
<1>2. Spec => []PassOK
  BY <1>1, Invariance, PassInductive, PTL DEF Spec
<1>3. ASSUME IInv, PassOK, Next, pc = "dispatch", pc' \notin {"dispatch", "call"}
      PROVE  \A j \in fresh : mem[j].fd = Nil
  <2>1. DispatchEnd
    BY <1>3 DEF Next, Program, Loop, RegisterAgain, RegisterNew, Unregister, UnregisterObject,
                InProgram, Start, DefragTest, DefragFind, DefragCopy, DefragDone, Poll, PollFails,
                DispatchSkip, DispatchCall, CallReturn, TimersDone, AppQuit, Stopped, vars
  <2>2. Place = i /\ i \in Nat /\ nevents \in Nat /\ (i >= count \/ nevents = 0)
    BY <1>3, <2>1, Reach DEF Place, DispatchEnd
  <2>3. fresh \subseteq InUse /\ \A j \in fresh : j < i => mem[j].fd = Nil
    BY <1>3, <2>2 DEF PassOK
  <2>4. \A j \in fresh : j \in Nat /\ j < count /\ count \in Nat
    <3>1. count \in Nat /\ \A j \in InUse : j \in Nat /\ j < count
      BY <1>3, Reach
    <3> QED
      BY <2>3, <3>1
  <2>5. CASE i >= count
    BY <2>2, <2>3, <2>4, <2>5
  <2>6. CASE nevents = 0
    <3>1. IsFiniteSet(Ahead) /\ Cardinality(Ahead) = 0
      BY <1>3, <2>6, AheadMoves DEF PassOK
    <3>2. Ahead = {}
      BY <3>1, FS_EmptySet
    <3> QED
      BY <2>2, <2>3, <2>4, <3>2 DEF Ahead
  <2> QED
    BY <2>2, <2>5, <2>6
<1>4. IInv /\ PassOK /\ [Next]_vars =>
          [pc = "dispatch" /\ pc' \notin {"dispatch", "call"}
               => \A j \in fresh : mem[j].fd = Nil]_vars
  BY <1>3
<1> QED
  BY <1>2, <1>4, Invariance, PTL DEF Spec, NoEventLost

=============================================================================

