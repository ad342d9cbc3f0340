------------------------------ MODULE Backend -------------------------------
(***************************************************************************)
(* The thread pool and the connection pool at work: the reactor enqueues   *)
(* requests, a worker's task asks the connection pool for a connection,    *)
(* uses it and gives it back, or ends without one. The other threads that  *)
(* ask it too (the reactor when it closes a connection, the retransmission *)
(* and the save thread) are Others. Once retransmitLoop has given a message *)
(* up it holds _pendingMutex for ever (module ReliablePush): a task that   *)
(* needs it never ends.                                                    *)
(***************************************************************************)
EXTENDS ThreadPool, ConnectionPool

CONSTANTS
    Others,
    Locking \* tasks of oneChat, recvAck and of the handlers that lock _connMutex,
            \* which a blocked oneChat holds

ASSUME UsersAssumption == Users = Workers \cup Others /\ Workers \cap Others = {}
ASSUME WorkersAssumption == Workers # {}
ASSUME LockingAssumption == Locking \subseteq Tasks

VARIABLE gaveUp \* retransmitLoop holds _pendingMutex and does not come on

vars == <<poolVars, linkVars, gaveUp>>

Init == ThreadPoolInit /\ ConnectionPoolInit /\ gaveUp = FALSE

Submit == ~crashed /\ Enqueue /\ UNCHANGED <<linkVars, gaveUp>>

Notify == ~crashed /\ NotifyOne /\ UNCHANGED <<linkVars, gaveUp>>
Pick(w) == ~crashed /\ (TakeTask(w) \/ WaitForTask(w)) /\ UNCHANGED <<linkVars, gaveUp>>
Shutdown == ~crashed /\ Stop /\ UNCHANGED <<linkVars, gaveUp>>

Busy(t) == t \in Workers => worker[t] = "run"

Ask(t) == Busy(t) /\ GetConnection(t) /\ UNCHANGED <<poolVars, gaveUp>>
AskAgain(t) == (GetAgain(t) \/ TimesOut(t)) /\ UNCHANGED <<poolVars, gaveUp>>
Return(t) == GiveBack(t) /\ UNCHANGED <<poolVars, gaveUp>>

\* oneChat and recvAck ask for no connection.
AskedEnough(t) ==
    \/ user[t] \in {"back", "refused"}
    \/ t \in Workers /\ user[t] = "idle" /\ running[t] \in Locking

\* w has to lock a mutex that is not let go any more.
Hangs(w) == gaveUp /\ running[w] \in Locking

\* A task ends with what it got; another thread goes on.
Finish(t) ==
    /\ ~crashed /\ AskedEnough(t)
    /\ t \in Workers => ~Hangs(t)
    /\ user' = [user EXCEPT ![t] = "idle"]
    /\ IF t \in Workers THEN EndTask(t) ELSE UNCHANGED poolVars
    /\ UNCHANGED <<pool, link, producer, aliveTime, clock, crashed, gaveUp>>

\* The last resend of some message was not acknowledged.
GiveUpHangs == ~crashed /\ ~gaveUp /\ gaveUp' = TRUE /\ UNCHANGED <<poolVars, linkVars>>

MaintainPool == (Maintain \/ Scan \/ Tick) /\ UNCHANGED <<poolVars, gaveUp>>

Next ==
    \/ Submit \/ Notify \/ Shutdown \/ MaintainPool \/ GiveUpHangs
    \/ \E w \in Workers : Pick(w)
    \/ \E t \in Users : Ask(t) \/ AskAgain(t) \/ Return(t) \/ Finish(t)

\* Threads run, a wait_for ends, and a connection is given back. Nothing says that
\* a thread that waits for a connection ever finds one.
Fairness ==
    /\ WF_vars(Notify) /\ WF_vars(Maintain /\ UNCHANGED <<poolVars, gaveUp>>)
    /\ \A w \in Workers : WF_vars(Pick(w))
    /\ \A t \in Users :
         WF_vars(Ask(t)) /\ WF_vars(AskAgain(t)) /\ WF_vars(Return(t)) /\ WF_vars(Finish(t))

Spec == Init /\ [][Next]_vars /\ Fairness

----------------------------------------------------------------------------
(* Properties.                                                              *)

TypeOK == ThreadPoolTypeOK /\ ConnectionPoolTypeOK /\ gaveUp \in BOOLEAN

\* Requests are started in the order in which the reactor read them, each once:
\* none is lost between the queue and the workers, also while the pool stops.
StartedInOrder == started \o tasks = [i \in 1..enqueued |-> i]

\* No wake-up is lost: a task waits with every worker asleep only while enqueue is
\* between the push and its notify_one, and never behind workers that have left.
WakeUpIsDue ==
    tasks # <<>> /\ ~toNotify => \E w \in Workers : worker[w] \in {"check", "run"}

\* t waits for ever while connections come and go: others are faster each time.
Overtaken(t) ==
    /\ <>[](user[t] \in {"wait", "woken"})
    /\ []<>(connectionQueue # <<>>) /\ []<>(connectionQueue = <<>>)

\* Every request comes to an end, though the producer may spin at MaxSize and a
\* returned connection is announced to nobody, unless other threads take each
\* connection before the worker that waits for one. After a give-up the
\* requests that need _pendingMutex do not end, the others do while a worker is left.
Done(k) ==
    /\ \E i \in 1..Len(started) : started[i] = k
    /\ \A w \in Workers : running[w] # k
RequestsEnd ==
    \/ \E w \in Workers : Overtaken(w)
    \/ \A k \in Tasks :
         k <= enqueued ~> \/ Done(k) \/ crashed
                          \/ gaveUp /\ k \in Locking
                          \/ \A w \in Workers : Hangs(w)
=============================================================================
