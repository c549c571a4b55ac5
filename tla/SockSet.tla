------------------------------- MODULE SockSet -------------------------------
(***************************************************************************)
(* What the poll registry of utils/app.c promises to the rest of the       *)
(* program: a set of registrations (socket, context, callback), at most    *)
(* one per triple, each with the events it waits for.  Only program code   *)
(* changes it: what runs at start-up, in the timers, or in the callback of *)
(* a triple that was registered when the callback started.  PollLoop, the  *)
(* array with its holes, its compaction and its dispatch pass, implements  *)
(* this module.                                                            *)
(***************************************************************************)
CONSTANTS Socks,       \* the file descriptors
          Objects,     \* the contexts handed to the callbacks
          Callbacks,   \* the callback functions
          Requestable, \* the events a registration may ask for
          Nil          \* no registration

VARIABLES events,      \* the registrations: events waited for, by triple
          cur,         \* the triple whose callback runs, Nil outside one
          inside       \* program code runs, and not the loop

vars == <<events, cur, inside>>

Key == [fd : Socks, ctxt : Objects, cb : Callbacks]

Registered == DOMAIN events

Init == /\ events = [k \in {} |-> {}]
        /\ cur = Nil
        /\ inside = TRUE

Register(k, e) ==
    /\ inside
    /\ events' = [q \in Registered \cup {k} |-> IF q = k THEN e ELSE events[q]]
    /\ UNCHANGED <<cur, inside>>

Unregister(ks) ==
    /\ inside
    /\ events' = [q \in Registered \ ks |-> events[q]]
    /\ UNCHANGED <<cur, inside>>

Call(k) == /\ ~inside
           /\ k \in Registered
           /\ cur' = k
           /\ inside' = TRUE
           /\ UNCHANGED events

Return == /\ cur # Nil
          /\ cur' = Nil
          /\ inside' = FALSE
          /\ UNCHANGED events

\* The timers start.
Enter == /\ ~inside
         /\ inside' = TRUE
         /\ UNCHANGED <<events, cur>>

\* The start-up or the timers end.
Leave == /\ inside
         /\ cur = Nil
         /\ inside' = FALSE
         /\ UNCHANGED <<events, cur>>

Next == \/ \E k \in Key, e \in SUBSET Requestable : Register(k, e)
        \/ \E ks \in SUBSET Key : Unregister(ks)
        \/ \E k \in Key : Call(k)
        \/ Return
        \/ Enter
        \/ Leave

Spec == Init /\ [][Next]_vars
=============================================================================
