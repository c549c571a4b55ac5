------------------------------- MODULE PollLoop -------------------------------
(***************************************************************************)
(* The poll registry and the main loop of utils/app.c, which every socket  *)
(* of radmcli and radmsrvd goes through: register_sock, unregister_sock    *)
(* and unregister_object edit an array of slots while a dispatch pass      *)
(* walks over it, and pfd_defragment compacts the array between passes.    *)
(*                                                                         *)
(* pfd_list and pfd_call_backs are one array of slots, "mem".  The memory  *)
(* behind pfd_count keeps what the last use of a slot left there, and      *)
(* memory that was never used holds any revents, since register_sock does  *)
(* not set that field.  The loops of pfd_defragment and of                 *)
(* dispatch_sock_events advance one slot per step.  pfd_defrag is only     *)
(* ever tested against zero and is a Boolean here.                         *)
(*                                                                         *)
(* Not modelled: app_loop_type 1 (no program selects it), a failing        *)
(* realloc, revents bits that dispatch_sock_events does not look at, and   *)
(* the thousand timer checks app_run makes when its loop has ended.        *)
(***************************************************************************)
EXTENDS Integers, FiniteSets

CONSTANTS Socks,       \* the file descriptors
          Objects,     \* the contexts handed to the callbacks
          Callbacks,   \* the callback functions
          Requestable, \* the events a registration may ask for
          Err,         \* what poll may return without being asked
          Nil,         \* fd -1, and the content of a slot never used
          PfdMax       \* bound on the slots in use at a time

ASSUME NilAssumption == Nil \notin Socks \cup Objects \cup Callbacks
                                   \cup [fd : Socks, ctxt : Objects, cb : Callbacks]
ASSUME PfdMaxAssumption == PfdMax \in Nat \ {0}

VARIABLES mem,     \* pfd_list and pfd_call_backs
          count,   \* pfd_count
          defrag,  \* pfd_defrag # 0
          pc,      \* where app_run is
          half,    \* 1: the poll before the timers; 2: the poll after them
          i, p,    \* the loop variables of the array loops
          nevents, \* the argument of dispatch_sock_events
          cur,     \* the registration whose callback runs
          fresh,   \* history: the slots the last poll reported, not called yet
          quit     \* quit_flag # 0

vars == <<mem, count, defrag, pc, half, i, p, nevents, cur, fresh, quit>>

-----------------------------------------------------------------------------
(* Slots and registrations.                                                *)

Key == [fd : Socks, ctxt : Objects, cb : Callbacks]

Index == 0 .. PfdMax - 1

Event == Requestable \cup {Err}

Slot == [fd : Socks \cup {Nil}, ctxt : Objects \cup {Nil}, cb : Callbacks \cup {Nil},
         events : SUBSET Requestable, revents : SUBSET Event]

PC == {"setup", "defrag", "find", "copy", "poll", "dispatch", "call", "timers", "stopped"}

KeyOf(s) == [fd |-> s.fd, ctxt |-> s.ctxt, cb |-> s.cb]

\* What unregister_sock leaves of a slot: no socket, no events waited for.
Emptied(s) == [fd |-> Nil, ctxt |-> s.ctxt, cb |-> s.cb, events |-> {}, revents |-> s.revents]

InUse == 0 .. count - 1

\* The slots that hold registrations.  While pfd_defragment copies, those
\* between p and i have been moved down or were holes.
Held == IF pc = "copy" THEN (0 .. p - 1) \cup (i .. count - 1) ELSE InUse

Live == {j \in Held : mem[j].fd # Nil}

\* find_registered_sock: the slots in use that match the three arguments.
Match(k) == {j \in InUse : mem[j].fd # Nil /\ KeyOf(mem[j]) = k}

Holes == {j \in InUse : mem[j].fd = Nil}

Init ==
    /\ \E garbage \in [Index -> SUBSET Event] :
           mem = [j \in Index |-> [fd |-> Nil, ctxt |-> Nil, cb |-> Nil,
                                   events |-> {}, revents |-> garbage[j]]]
    /\ count = 0
    /\ defrag = FALSE
    /\ pc = "setup"
    /\ half = 1
    /\ i = 0 /\ p = 0
    /\ nevents = 0
    /\ cur = Nil
    /\ fresh = {}
    /\ quit = FALSE

-----------------------------------------------------------------------------
(* The registry operations, called by main before the loop starts, by the  *)
(* socket callbacks and by the timer callbacks.                            *)

\* Mutants, named Bad..., stand before the action they replace; the mutants
\* of PROJECT.json use them to show that the properties can fail.

\* Where program code runs that may call them.
InProgram == pc \in {"setup", "call", "timers"}

registry == <<mem, count, defrag>>
control  == <<pc, half, i, p, nevents, cur, fresh, quit>>

RegisterAgain(k, e) ==
    /\ InProgram
    /\ \E j \in Match(k) : mem' = [mem EXCEPT ![j].events = e]
    /\ UNCHANGED <<count, defrag, control>>

\* Mutant: appends without looking for the registration.
BadRegisterNew(k, e) ==
    /\ InProgram
    /\ count < PfdMax
    /\ mem' = [mem EXCEPT ![count] = [fd |-> k.fd, ctxt |-> k.ctxt, cb |-> k.cb,
                                      events |-> e, revents |-> mem[count].revents]]
    /\ count' = count + 1
    /\ UNCHANGED <<defrag, control>>

RegisterNew(k, e) ==
    /\ InProgram
    /\ Match(k) = {}
    /\ count < PfdMax
    /\ mem' = [mem EXCEPT ![count] = [fd |-> k.fd, ctxt |-> k.ctxt, cb |-> k.cb,
                                      events |-> e, revents |-> mem[count].revents]]
    /\ count' = count + 1
    /\ UNCHANGED <<defrag, control>>

\* The first match; no other exists (UniqueRegistration).
Unregister(k) ==
    /\ InProgram
    /\ \E j \in Match(k) :
           /\ \A h \in Match(k) : j <= h
           /\ mem' = [mem EXCEPT ![j] = Emptied(mem[j])]
    /\ defrag' = TRUE
    /\ UNCHANGED <<count, control>>

UnregisterObject(o) ==
    /\ InProgram
    /\ \E j \in InUse : mem[j].ctxt = o
    /\ mem' = [j \in Index |-> IF j \in InUse /\ mem[j].ctxt = o
                               THEN Emptied(mem[j])
                               ELSE mem[j]]
    /\ defrag' = TRUE
    /\ UNCHANGED <<count, control>>

-----------------------------------------------------------------------------
(* pfd_defragment: two loops over the array, one slot per step.            *)

Start ==
    /\ pc = "setup"
    /\ pc' = "defrag"
    /\ UNCHANGED <<registry, half, i, p, nevents, cur, fresh, quit>>

\* Mutant: compacts without looking at pfd_defrag.
BadDefragTest ==
    /\ pc = "defrag"
    /\ pc' = "find"
    /\ i' = 0 /\ p' = 0
    /\ UNCHANGED <<registry, half, nevents, cur, fresh, quit>>

DefragTest ==
    /\ pc = "defrag"
    /\ pc' = IF defrag THEN "find" ELSE "poll"
    /\ i' = 0 /\ p' = 0
    /\ UNCHANGED <<registry, half, nevents, cur, fresh, quit>>

\* The first loop: up to the first hole, which becomes p.
DefragFind ==
    /\ pc = "find"
    /\ \/ /\ i < count
          /\ mem[i].fd # Nil
          /\ i' = i + 1
          /\ UNCHANGED <<p, pc>>
       \/ /\ i < count
          /\ mem[i].fd = Nil
          /\ p' = i
          /\ i' = i + 1
          /\ pc' = "copy"
       \/ /\ i >= count
          /\ pc' = "copy"
          /\ UNCHANGED <<i, p>>
    /\ UNCHANGED <<registry, half, nevents, cur, fresh, quit>>

\* The second loop: live slots move down to p.
DefragCopy ==
    /\ pc = "copy"
    /\ i < count
    /\ i' = i + 1
    /\ IF mem[i].fd # Nil
       THEN /\ mem' = [mem EXCEPT ![p] = mem[i]]
            /\ p' = p + 1
       ELSE UNCHANGED <<mem, p>>
    /\ UNCHANGED <<count, defrag, pc, half, nevents, cur, fresh, quit>>

DefragDone ==
    /\ pc = "copy"
    /\ i >= count
    /\ defrag' = FALSE
    /\ count' = p
    /\ i' = 0 /\ p' = 0
    /\ pc' = "poll"
    /\ UNCHANGED <<mem, half, nevents, cur, fresh, quit>>

-----------------------------------------------------------------------------
(* app_run and dispatch_sock_events.                                       *)

\* What app_run does after a poll and the dispatch of its events: the
\* first poll of a round is followed by the timers, the second one by the
\* next round; both look at quit_flag.
EndOfPass ==
    IF quit THEN pc' = "stopped" /\ half' = half
    ELSE IF half = 1 THEN pc' = "timers" /\ half' = half
    ELSE pc' = "defrag" /\ half' = 1

\* What poll may return for a slot.
Returnable(s) == IF s.fd = Nil THEN {{}} ELSE SUBSET (s.events \cup {Err})

Poll ==
    /\ pc = "poll"
    /\ \E r \in [InUse -> SUBSET Event] :
           /\ \A j \in InUse : r[j] \in Returnable(mem[j])
           /\ mem' = [j \in Index |-> IF j \in InUse THEN [mem[j] EXCEPT !.revents = r[j]]
                                                     ELSE mem[j]]
           /\ fresh' = {j \in InUse : r[j] # {}}
           /\ nevents' = Cardinality({j \in InUse : r[j] # {}})
    /\ i' = 0
    /\ IF nevents' > 0 THEN pc' = "dispatch" /\ half' = half ELSE EndOfPass
    /\ UNCHANGED <<count, defrag, p, cur, quit>>

\* poll returned -1.  EINTR and EAGAIN start the round again; any other
\* error is logged, and the round goes on with nothing dispatched.
PollFails ==
    /\ pc = "poll"
    /\ \/ EndOfPass
       \/ /\ pc' = IF quit THEN "stopped" ELSE "defrag"
          /\ half' = 1
    /\ UNCHANGED <<registry, i, p, nevents, cur, fresh, quit>>

Reported(s) == s.revents # {} /\ s.fd # Nil

\* Mutant: every slot visited counts as an event.
BadDispatchCount ==
    /\ pc = "dispatch"
    /\ i < count /\ nevents > 0
    /\ ~Reported(mem[i])
    /\ i' = i + 1
    /\ nevents' = nevents - 1
    /\ UNCHANGED <<registry, pc, half, p, cur, fresh, quit>>

\* Mutant: the slot of an unregistered socket is not stepped over.
BadDispatchSkip ==
    /\ pc = "dispatch"
    /\ i < count /\ nevents > 0
    /\ mem[i].revents = {}
    /\ i' = i + 1
    /\ UNCHANGED <<registry, pc, half, p, nevents, cur, fresh, quit>>

DispatchSkip ==
    /\ pc = "dispatch"
    /\ i < count /\ nevents > 0
    /\ ~Reported(mem[i])
    /\ i' = i + 1
    /\ UNCHANGED <<registry, pc, half, p, nevents, cur, fresh, quit>>

DispatchCall ==
    /\ pc = "dispatch"
    /\ i < count /\ nevents > 0
    /\ Reported(mem[i])
    /\ cur' = KeyOf(mem[i])
    /\ pc' = "call"
    /\ fresh' = fresh \ {i}
    /\ UNCHANGED <<registry, half, i, p, nevents, quit>>

\* The callback returns; the slot may have been unregistered meanwhile.
CallReturn ==
    /\ pc = "call"
    /\ mem' = [mem EXCEPT ![i].revents = {}]
    /\ nevents' = nevents - 1
    /\ i' = i + 1
    /\ cur' = Nil
    /\ pc' = "dispatch"
    /\ UNCHANGED <<count, defrag, half, p, fresh, quit>>

DispatchEnd ==
    /\ pc = "dispatch"
    /\ i >= count \/ nevents = 0
    /\ EndOfPass
    /\ i' = 0
    /\ nevents' = 0
    /\ fresh' = {}
    /\ UNCHANGED <<registry, p, cur, quit>>

\* timer_check_timeout has run the callbacks that are due.
TimersDone ==
    /\ pc = "timers"
    /\ pc' = IF quit THEN "stopped" ELSE "defrag"
    /\ half' = IF quit THEN half ELSE 2
    /\ UNCHANGED <<registry, i, p, nevents, cur, fresh, quit>>

\* app_quit, called by the termination signals at any time.
AppQuit ==
    /\ pc # "stopped"
    /\ ~quit
    /\ quit' = TRUE
    /\ UNCHANGED <<registry, pc, half, i, p, nevents, cur, fresh>>

\* app_run has returned.
Stopped ==
    /\ pc = "stopped"
    /\ UNCHANGED vars

-----------------------------------------------------------------------------

Program ==
    \/ \E k \in Key, e \in SUBSET Requestable \ {{}} :
           RegisterAgain(k, e) \/ RegisterNew(k, e)
    \/ \E k \in Key : Unregister(k)
    \/ \E o \in Objects : UnregisterObject(o)

Loop ==
    \/ Start \/ DefragTest \/ DefragFind \/ DefragCopy \/ DefragDone
    \/ Poll \/ PollFails
    \/ DispatchSkip \/ DispatchCall \/ CallReturn \/ DispatchEnd
    \/ TimersDone

Next == Program \/ Loop \/ AppQuit \/ Stopped

Spec == Init /\ [][Next]_vars

\* The loop never waits for anything but its callbacks, which return.
FairSpec == Spec /\ WF_vars(Loop)

-----------------------------------------------------------------------------
(* Properties.                                                             *)

TypeOK ==
    /\ mem \in [Index -> Slot]
    /\ count \in 0 .. PfdMax
    /\ defrag \in BOOLEAN
    /\ pc \in PC
    /\ half \in {1, 2}
    /\ i \in 0 .. PfdMax
    /\ p \in 0 .. PfdMax
    /\ nevents \in Nat
    /\ cur \in Key \cup {Nil}
    /\ fresh \subseteq Index
    /\ quit \in BOOLEAN

\* A registration has one slot: unregister_sock stops at the first match, so
\* a second one would be called after its context was freed.
UniqueRegistration ==
    \A j, h \in Live : KeyOf(mem[j]) = KeyOf(mem[h]) => j = h

\* pfd_defrag is set exactly while the array has a hole.  pfd_defragment
\* depends on it: run on an array without one it would set pfd_count to 0
\* and drop every registration.
DefragFlag ==
    pc \notin {"find", "copy"} => (defrag <=> Holes # {})

\* The registry as its users see it.
View(m, L) ==
    [k \in {KeyOf(m[j]) : j \in L} |-> m[CHOOSE j \in L : KeyOf(m[j]) = k].events]

AbstractEvents == View(mem, Live)

Registry == INSTANCE SockSet WITH events <- AbstractEvents, inside <- InProgram

\* The array implements the set: the compaction loses, doubles or changes
\* no registration at any step, an unregistered triple is gone at once, and
\* a callback starts only for a triple registered at that moment.
ImplementsSockSet == Registry!Spec

\* Every slot poll reported is called in the pass or was unregistered during
\* it: neither the count of events nor the callbacks that change the array
\* under the loop make the pass skip one.
NoEventLost ==
    [][pc = "dispatch" /\ pc' \notin {"dispatch", "call"}
           => \A j \in fresh : mem[j].fd = Nil]_vars

\* A callback is called for events that poll returned in this pass for its
\* registration.
OnlyReturnedEvents == [][pc = "dispatch" /\ pc' = "call" => i \in fresh]_vars

\* As long as the callbacks return, the loop gets back to poll, whatever
\* they register or unregister, until the program is asked to stop.
LoopProgresses == []<>(pc \in {"poll", "stopped"})
=============================================================================
