------------------------------ MODULE EventLoop ------------------------------
(***************************************************************************)
(* utils/event.c with its one source of events, utils/fdsel.c: a table of  *)
(* descriptors for poll, and callbacks which add, change and delete events *)
(* while the events of the same pass wait for theirs.                      *)
(*                                                                         *)
(* An event is its memory: deleted it may be made anew.  Indices of the    *)
(* table count from 1, and an id of 0 stands for -1.  What an event asks   *)
(* for (EVP_EVENTS) and what poll found of it are one flag: ready or not.  *)
(*                                                                         *)
(* Not modelled: a second source, failures of malloc, and a timeout set    *)
(* anew while it runs, which links the event twice.                        *)
(***************************************************************************)
EXTENDS Lists, SequencesExt, FiniteSetsExt

CONSTANTS Events, Priority, \* of each event, smaller numbers first
          FdSize            \* how many descriptors the table holds

ASSUME PriorityAssumption == Priority \in [Events -> Nat] /\ FdSize \in Nat

VARIABLES live,    \* the events that exist
          id,      \* of each, its index in the table
          table,   \* pollfds and fdevents, as [event, ready]
          timed,   \* the timeout list
          pending, \* loop->pending
          turn,    \* "start", "dispatch", "exec", "callback", "endless" or "exited"
          exits,   \* loop->exit_status is set
          owed     \* history: found ready in this pass, neither run nor deleted since

eventVars == <<live, id, table, timed, pending, turn, exits, owed>>

-----------------------------------------------------------------------------

EventInit ==
    /\ live = {} /\ timed = {} /\ owed = {}
    /\ id = [e \in Events |-> 0]
    /\ table = <<>> /\ pending = <<>>
    /\ turn = "start" /\ exits = FALSE

\* The program acts before it calls event_loop, and in callbacks.
Program == turn \in {"start", "callback"}

\* event_loop_new_event, fdevent_new.
NewEvent(e) ==
    /\ Program /\ e \notin live
    /\ live' = live \cup {e}
    /\ UNCHANGED <<id, table, timed, pending, turn, exits, owed>>

\* event_add with a callback and a descriptor; with or without a timeout.
AddEvent(e, timeout) ==
    /\ Program /\ e \in live /\ id[e] = 0 /\ Len(table) < FdSize
    /\ id' = [id EXCEPT ![e] = Len(table) + 1]
    /\ table' = Append(table, [event |-> e, ready |-> FALSE])
    /\ timed' = IF timeout THEN timed \cup {e} ELSE timed
    /\ UNCHANGED <<live, pending, turn, exits, owed>>

\* Mutant: the event that moved keeps its old index.
BadRemoveEvent(e) ==
    IF id[e] = 0 THEN UNCHANGED <<id, table>>
    ELSE /\ table' = Front([table EXCEPT ![id[e]] = table[Len(table)]])
         /\ id' = [id EXCEPT ![e] = 0]

\* remove_event: the last descriptor takes the place of the one that leaves.
RemoveEvent(e) ==
    LET last == table[Len(table)]
        moved == [table EXCEPT ![id[e]] = last]
    IN  IF id[e] = 0 THEN UNCHANGED <<id, table>>
        ELSE /\ table' = Front(moved)
             /\ id' = [id EXCEPT ![last.event] = id[e], ![e] = 0]

\* event_del, fdevent_del.
DeleteEvent(e) ==
    /\ Program /\ e \in live
    /\ IF id[e] > 0 /\ (id[e] > Len(table) \/ (id[e] <= Len(table) /\ table[id[e]].event # e))
       THEN UNCHANGED eventVars
       ELSE /\ RemoveEvent(e)
            /\ live' = live \ {e}
            /\ timed' = timed \ {e}
            /\ pending' = Only(pending, Events \ {e})
            /\ owed' = owed \ {e}
            /\ UNCHANGED <<turn, exits>>

-----------------------------------------------------------------------------
(* The loop.                                                               *)

\* event_schedule: before the first of the pending ones with a larger number.
Schedule(waiting, e) ==
    LET others == Only(waiting, Events \ {e})
        later == {i \in DOMAIN others : Priority[others[i]] > Priority[e]}
    IN  InsertAt(others, IF later = {} THEN Len(others) + 1 ELSE Min(later), e)

\* fdevent_dispatch: whoever is ready waits for its turn and no longer for
\* its timeout.  A timeout that has expired is scheduled and stays first in
\* the list: the loop over expired timeouts does not end.
Dispatch ==
    LET found == {t.event : t \in {r \in ToSet(table) : r.ready}}
        scheduled[i \in 0..Len(table)] ==
            IF i = 0 THEN pending
            ELSE IF table[i].ready THEN Schedule(scheduled[i - 1], table[i].event)
            ELSE scheduled[i - 1]
    IN  /\ turn \in {"start", "dispatch"}
        /\ pending' = scheduled[Len(table)]
        /\ timed' = timed \ found
        /\ owed' = found
        /\ turn' \in {"exec"} \cup (IF timed' = {} THEN {} ELSE {"endless"})
        /\ UNCHANGED <<live, id, table, exits>>

\* fdevent_exec of the first one: its callback begins.
Exec ==
    /\ turn = "exec" /\ pending # <<>>
    /\ owed' = owed \ {Head(pending)}
    /\ pending' = Tail(pending)
    /\ turn' = "callback"
    /\ UNCHANGED <<live, id, table, timed, exits>>

\* The callback returns, perhaps after event_loop_exit.
CallbackReturns ==
    /\ turn = "callback"
    /\ exits' \in {exits, TRUE}
    /\ turn' = "exec"
    /\ UNCHANGED <<live, id, table, timed, pending, owed>>

\* fdevent_wait: poll says of every descriptor whether it is ready.
Poll ==
    /\ turn = "exec" /\ pending = <<>>
    /\ \E happened \in [DOMAIN table -> BOOLEAN] :
           table' = [i \in DOMAIN table |-> [table[i] EXCEPT !.ready = happened[i]]]
    /\ turn' = IF exits THEN "exited" ELSE "dispatch"
    /\ UNCHANGED <<live, id, timed, pending, exits, owed>>

EventNext ==
    \/ \E e \in Events : \/ NewEvent(e) \/ DeleteEvent(e)
                         \/ \E timeout \in BOOLEAN : AddEvent(e, timeout)
    \/ Dispatch \/ Exec \/ CallbackReturns \/ Poll

EventSpec == EventInit /\ [][EventNext]_eventVars

-----------------------------------------------------------------------------

\* What a pass of the loop found ready is run in that pass, once, the smaller
\* numbers first, and nothing else is, whatever callbacks add, change and
\* delete in between; and every event finds itself in the table.
ReadyRuns ==
    /\ ToSet(pending) = owed /\ owed \subseteq live /\ IsInjective(pending)
    /\ \A i, j \in DOMAIN pending : i < j => Priority[pending[i]] <= Priority[pending[j]]
    /\ {t.event : t \in ToSet(table)} = {e \in live : id[e] > 0}
    /\ \A i \in DOMAIN table : id[table[i].event] = i
=============================================================================
