------------------------------ MODULE Scheduler ------------------------------
(***************************************************************************)
(* utils/scheduler.c: tasks that the event loop runs one by one, each from *)
(* a timer without interval (Timers), which is on as long as there is      *)
(* something to run.  A task may add and delete tasks, itself included.    *)
(*                                                                         *)
(* A task is a function with its context.  Not modelled: failures of       *)
(* malloc, and scheduler_release.                                          *)
(***************************************************************************)
EXTENDS Lists, SequencesExt, FiniteSetsExt

CONSTANTS Ctxts, Funs, Priorities

VARIABLES tasks,   \* schd->entries
          ticking, \* schd->timer is started
          inTask,  \* a task runs, called by scheduler_callback
          due      \* history: the tasks added, and neither run nor deleted since

schedulerVars == <<tasks, ticking, inTask, due>>

Tasks == Ctxts \X Funs

-----------------------------------------------------------------------------

SchedulerInit == tasks = <<>> /\ ticking = FALSE /\ inTask = FALSE /\ due = {}

\* Where the task is; it has one entry at most.
At(t) == {i \in DOMAIN tasks : tasks[i].task = t}

Without(t) == IF At(t) = {} THEN tasks ELSE RemoveAt(tasks, Min(At(t)))

\* Where a task goes: to the front when its number is smaller than that of the
\* first, else before the first of the others with a smaller number.
Place(s, p) ==
    LET after == {i \in 2..Len(s) : p > s[i].prior}
    IN  IF s = <<>> \/ (s # <<>> /\ p < s[1].prior) THEN 1
        ELSE IF after = {} THEN Len(s) + 1 ELSE Min(after)

\* scheduler_add_task: only an empty list needs its timer started.
AddTask(t, p) ==
    LET rest == Without(t)
    IN  /\ tasks' = InsertAt(rest, Place(rest, p), [task |-> t, prior |-> p])
        /\ ticking' = (ticking \/ rest = <<>>)
        /\ due' = due \cup {t}
        /\ UNCHANGED inTask

\* scheduler_delete_task leaves the timer alone, for scheduler_callback.
DeleteTask(t) ==
    /\ tasks' = Without(t)
    /\ due' = due \ {t}
    /\ UNCHANGED <<ticking, inTask>>

\* scheduler_delete_all, which app_release_object calls for its object.
DeleteAll(c) ==
    /\ tasks' = Only(tasks, {e \in ToSet(tasks) : e.task[1] # c})
    /\ due' = {t \in due : t[1] # c}
    /\ UNCHANGED <<ticking, inTask>>

\* The timer: scheduler_callback up to the call of the task.
Callback ==
    /\ ticking /\ ~inTask
    /\ IF tasks = <<>>
       THEN ticking' = FALSE /\ UNCHANGED <<tasks, inTask, due>>
       ELSE /\ tasks' = Tail(tasks)
            /\ due' = due \ {Head(tasks).task}
            /\ inTask' = TRUE
            /\ UNCHANGED ticking

\* Mutant: the timer is stopped when the last task was taken out.
BadReturn ==
    /\ inTask
    /\ inTask' = FALSE
    /\ ticking' = (Len(tasks) > 1)
    /\ UNCHANGED <<tasks, due>>

\* The task returns, and may have added some.
Return ==
    /\ inTask
    /\ inTask' = FALSE
    /\ ticking' = (ticking /\ tasks # <<>>)
    /\ UNCHANGED <<tasks, due>>

SchedulerNext ==
    \/ \E t \in Tasks : DeleteTask(t) \/ \E p \in Priorities : AddTask(t, p)
    \/ \E c \in Ctxts : DeleteAll(c)
    \/ Callback \/ Return

SchedulerSpec == SchedulerInit /\ [][SchedulerNext]_schedulerVars

-----------------------------------------------------------------------------

\* A task that was added and not deleted is in the list exactly once, deleted
\* ones are not, and the timer that will run them is on, whatever tasks add
\* and delete while they run.
TasksRun ==
    /\ \A t \in Tasks : Cardinality(At(t)) = IF t \in due THEN 1 ELSE 0
    /\ tasks # <<>> => ticking
=============================================================================
