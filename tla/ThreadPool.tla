----------------------------- MODULE ThreadPool -----------------------------
(***************************************************************************)
(* The thread pool that runs the handlers (include/server/ThreadPool.hpp): *)
(* a queue of tasks under queue_mutex, and workers that wait on a          *)
(* condition variable. What a task does is left to the module that extends *)
(* this one; a packaged_task keeps what it throws. The predicate of the    *)
(* wait is evaluated, and a task taken, without letting go of the mutex.   *)
(***************************************************************************)
EXTENDS Naturals, Sequences, FiniteSets

CONSTANTS
    Workers,
    MaxTasks \* bound on the tasks enqueued

ASSUME TaskAssumption == MaxTasks \in Nat

\* Tasks are named in the order in which they are enqueued.
Tasks == 1..MaxTasks
NoTask == 0

VARIABLES
    tasks,    \* tasks
    worker,   \* worker[w]: "check" the predicate, "wait", "run" or "exited"
    running,  \* running[w]: the task w runs, or NoTask
    toNotify, \* enqueue has let go of the mutex and not yet called notify_one
    stop,     \* stop
    enqueued, \* ghost: how many tasks were enqueued
    started   \* ghost: the tasks workers took, in order

poolVars == <<tasks, worker, running, toNotify, stop, enqueued, started>>

ThreadPoolInit ==
    /\ tasks = <<>> /\ worker = [w \in Workers |-> "check"]
    /\ running = [w \in Workers |-> NoTask]
    /\ toNotify = FALSE /\ stop = FALSE /\ enqueued = 0 /\ started = <<>>

\* enqueue, by the reactor: the only thread that calls it.
Enqueue ==
    /\ ~toNotify /\ ~stop /\ enqueued < MaxTasks
    /\ enqueued' = enqueued + 1 /\ tasks' = Append(tasks, enqueued')
    /\ toNotify' = TRUE
    /\ UNCHANGED <<worker, running, stop, started>>

\* Bug: the notification is left out.
NotifyNobody == toNotify /\ toNotify' = FALSE /\ UNCHANGED <<worker, tasks, running, stop, enqueued, started>>

\* notify_one wakes one of those that wait, if there is one.
NotifyOne ==
    /\ toNotify /\ toNotify' = FALSE
    /\ LET waiting == {w \in Workers : worker[w] = "wait"} IN
           IF waiting = {} THEN UNCHANGED worker
           ELSE \E w \in waiting : worker' = [worker EXCEPT ![w] = "check"]
    /\ UNCHANGED <<tasks, running, stop, enqueued, started>>

\* Bug: the newest task is taken first.
TakeNewest(w) ==
    /\ worker[w] = "check" /\ tasks # <<>>
    /\ worker' = [worker EXCEPT ![w] = "run"]
    /\ running' = [running EXCEPT ![w] = tasks[Len(tasks)]]
    /\ tasks' = SubSeq(tasks, 1, Len(tasks) - 1)
    /\ started' = Append(started, tasks[Len(tasks)])
    /\ UNCHANGED <<toNotify, stop, enqueued>>

TakeTask(w) ==
    /\ worker[w] = "check" /\ tasks # <<>>
    /\ worker' = [worker EXCEPT ![w] = "run"]
    /\ running' = [running EXCEPT ![w] = Head(tasks)]
    /\ tasks' = Tail(tasks) /\ started' = Append(started, Head(tasks))
    /\ UNCHANGED <<toNotify, stop, enqueued>>

\* Bug: wait without a predicate.
WaitUnasked(w) ==
    /\ worker[w] = "check"
    /\ worker' = [worker EXCEPT ![w] = "wait"]
    /\ UNCHANGED <<tasks, running, toNotify, stop, enqueued, started>>

WaitForTask(w) ==
    /\ worker[w] = "check" /\ tasks = <<>>
    /\ worker' = [worker EXCEPT ![w] = IF stop THEN "exited" ELSE "wait"]
    /\ UNCHANGED <<tasks, running, toNotify, stop, enqueued, started>>

EndTask(w) ==
    /\ worker[w] = "run"
    /\ worker' = [worker EXCEPT ![w] = "check"]
    /\ running' = [running EXCEPT ![w] = NoTask]
    /\ UNCHANGED <<tasks, toNotify, stop, enqueued, started>>

\* The destructor: nothing is enqueued any more, and all that wait are woken. It
\* joins the workers.
Stop ==
    /\ ~stop /\ ~toNotify /\ stop' = TRUE
    /\ worker' = [w \in Workers |-> IF worker[w] = "wait" THEN "check" ELSE worker[w]]
    /\ UNCHANGED <<tasks, running, toNotify, enqueued, started>>

ThreadPoolTypeOK ==
    /\ tasks \in Seq(Tasks) /\ enqueued \in 0..MaxTasks /\ started \in Seq(Tasks)
    /\ worker \in [Workers -> {"check", "wait", "run", "exited"}]
    /\ running \in [Workers -> Tasks \cup {NoTask}]
    /\ toNotify \in BOOLEAN /\ stop \in BOOLEAN
=============================================================================
