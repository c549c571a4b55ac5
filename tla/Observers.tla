------------------------------- MODULE Observers -------------------------------
(***************************************************************************)
(* utils/cobject.c and utils/observer.c: objects that own objects, each    *)
(* with a signal, and slots by which an object observes a signal.  The     *)
(* callbacks of an emission connect and disconnect slots, make objects and *)
(* release them, while the emission stands on one of the slots.            *)
(*                                                                         *)
(* One signal for each object, and one emission at a time.  Not modelled:  *)
(* failures of malloc, constructors and destructors of classes, and a slot *)
(* that is connected twice.                                                *)
(***************************************************************************)
EXTENDS Lists, SequencesExt, FiniteSetsExt

CONSTANTS Objects, Slots, NoObject

ASSUME NoObjectAssumption == NoObject \notin Objects

VARIABLES owner,    \* of each object that exists; its own when it has none
          holder,   \* of each slot, the object it observes for
          signal,   \* of each object, the slots of its signal
          emitting, \* the object whose signal is being emitted
          pos,      \* the slot its emission stands on
          called,   \* history: the slots this emission has called since they were connected
          left      \* the emission stands on a slot that left its list

observerVars == <<owner, holder, signal, emitting, pos, called, left>>

existing == {o \in Objects : owner[o] # NoObject}
free == {s \in Slots : holder[s] = NoObject}

-----------------------------------------------------------------------------

ObserverInit ==
    /\ owner = [o \in Objects |-> NoObject] /\ holder = [s \in Slots |-> NoObject]
    /\ signal = [o \in Objects |-> <<>>]
    /\ emitting = NoObject /\ pos = 0 /\ called = <<>> /\ left = FALSE

\* __cobj_new.
New(o, p) ==
    /\ o \notin existing /\ p \in existing \cup {o}
    /\ owner' = [owner EXCEPT ![o] = p]
    /\ UNCHANGED <<holder, signal, emitting, pos, called, left>>

\* __cobj_signal_connect, __signal_connect.
Connect(o, s, by) ==
    /\ o \in existing /\ by \in existing /\ s \in free
    /\ holder' = [holder EXCEPT ![s] = by]
    /\ signal' = [signal EXCEPT ![o] = Append(@, s)]
    /\ called' = Only(called, Slots \ {s})
    /\ UNCHANGED <<owner, emitting, pos, left>>

\* The slots gone leave every signal; an emission that stands on one of them
\* finds that its next is itself, or memory that was freed.
Disconnected(gone) ==
    /\ signal' = [o \in Objects |-> Only(signal[o], Slots \ gone)]
    /\ left' = (left \/ (emitting # NoObject /\ pos \in gone))

\* __slot_disconnect: its object still has it.
Disconnect(s) ==
    /\ s \notin free
    /\ Disconnected({s})
    /\ UNCHANGED <<owner, holder, emitting, pos, called>>

\* o and what it owns.
Family(o) ==
    LET step[k \in 0..Cardinality(Objects)] ==
            IF k = 0 THEN {o} ELSE step[k - 1] \cup {p \in existing : owner[p] \in step[k - 1]}
    IN  step[Cardinality(Objects)]

HeldBy(O) == {s \in Slots : holder[s] \in O}

Dies(O) ==
    /\ owner' = [p \in Objects |-> IF p \in O THEN NoObject ELSE owner[p]]
    /\ holder' = [s \in Slots |-> IF holder[s] \in O THEN NoObject ELSE holder[s]]

\* Mutant: the slots are freed and stay where they are connected.
BadReleaseObject(o) ==
    /\ o \in existing
    /\ Dies(Family(o))
    /\ Disconnected(UNION {ToSet(signal[p]) : p \in Family(o)})
    /\ UNCHANGED <<emitting, pos, called>>

\* cobj_release, __cobj_del, __cobj_detach: first the children, then the
\* slots of the object, then those which observe its signal.
ReleaseObject(o) ==
    /\ o \in existing
    /\ Dies(Family(o))
    /\ Disconnected(HeldBy(Family(o)) \cup UNION {ToSet(signal[p]) : p \in Family(o)})
    /\ UNCHANGED <<emitting, pos, called>>

-----------------------------------------------------------------------------
(* __signal_emit.                                                          *)

Call(s) == pos' = s /\ called' = Append(called, s) /\ UNCHANGED <<owner, holder, signal, left>>

Emit(o) ==
    /\ emitting = NoObject /\ o \in existing /\ signal[o] # <<>>
    /\ emitting' = o
    /\ Call(signal[o][1])

\* The callback returns and the next slot is called.
EmitNext ==
    /\ emitting # NoObject /\ ~left
    /\ LET slots == signal[emitting]
           i == CHOOSE j \in DOMAIN slots : slots[j] = pos
       IN  IF i < Len(slots) THEN Call(slots[i + 1]) /\ UNCHANGED emitting
           ELSE /\ emitting' = NoObject /\ pos' = 0 /\ called' = <<>>
                /\ UNCHANGED <<owner, holder, signal, left>>

ObserverNext ==
    \/ /\ ~left
       /\ \E o \in Objects : \/ ReleaseObject(o) \/ Emit(o)
                             \/ \E p \in Objects : New(o, p) \/ \E s \in Slots : Connect(o, s, p)
    \/ \E s \in Slots : ~left /\ Disconnect(s)
    \/ EmitNext

ObserverSpec == ObserverInit /\ [][ObserverNext]_observerVars

-----------------------------------------------------------------------------

\* No signal has a slot of an object that is gone, whoever is released and in
\* whatever callback; and an emission which has not lost its place has called
\* the slots of its signal up to that place, each once, and none behind it:
\* also when slots before it leave, and slots are connected, meanwhile.
SlotsCalled ==
    /\ \A o \in Objects : ToSet(signal[o]) \cap free = {} /\ IsInjective(signal[o])
                          /\ o \notin existing => signal[o] = <<>>
    /\ emitting # NoObject /\ ~left =>
           LET slots == signal[emitting]
               P == {i \in DOMAIN slots : slots[i] = pos}
           IN  /\ P # {} /\ emitting \in existing
               /\ \A i \in DOMAIN slots :
                      Cardinality({k \in DOMAIN called : called[k] = slots[i]})
                          = IF i <= Max(P) THEN 1 ELSE 0
=============================================================================
