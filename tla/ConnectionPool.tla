--------------------------- MODULE ConnectionPool ---------------------------
(***************************************************************************)
(* The pool of MySQL connections (src/db/ConnectionPool.cpp): threads take *)
(* a connection and give it back, a producer makes one when the queue is   *)
(* empty, a scanner deletes idle ones. All of it runs under queueMutex_,   *)
(* which the two waits on cv_ let go, so what a thread does between two    *)
(* waits is one step here. notify_all wakes the producer and every waiter. *)
(***************************************************************************)
EXTENDS Naturals, Sequences, FiniteSets

CONSTANTS
    Users,   \* the threads that call getConnection
    Links,   \* the connections there may be
    InitSize, MaxSize,
    MaxIdle, \* maxIdleTime_, in ticks of the clock
    MaxTime, \* bound on the clock
    NoLink

ASSUME SizeAssumption ==
    /\ InitSize \in Nat /\ MaxSize \in Nat /\ InitSize <= MaxSize
    /\ IsFiniteSet(Links) /\ Cardinality(Links) >= MaxSize
ASSUME LinkAssumption == NoLink \notin Links
ASSUME TimeAssumption == MaxIdle \in Nat /\ MaxTime \in Nat

VARIABLES
    connectionQueue, \* connectionQueue_
    connectionCnt,   \* connectionCnt_
    user,            \* user[t]: "idle", "wait", "woken", "hold", "back" or "refused"
    link,            \* link[t]: the connection t holds, or NoLink
    producer,        \* "run" or "wait"
    aliveTime,       \* aliveTime[c]: the clock when c was last put on the queue
    clock,
    crashed          \* front() was called on the empty queue

pool == <<connectionQueue, connectionCnt>>
linkVars == <<pool, user, link, producer, aliveTime, clock, crashed>>

Queued == {connectionQueue[i] : i \in 1..Len(connectionQueue)}
Holders == {t \in Users : user[t] = "hold"}
Held == {link[t] : t \in Holders}

\* The constructor has made InitSize connections and started the two threads.
ConnectionPoolInit ==
    /\ connectionQueue \in [1..InitSize -> Links]
    /\ \A i, j \in 1..InitSize : i # j => connectionQueue[i] # connectionQueue[j]
    /\ connectionCnt = InitSize
    /\ user = [t \in Users |-> "idle"] /\ link = [t \in Users |-> NoLink]
    /\ producer = "run" /\ aliveTime = [c \in Links |-> 0] /\ clock = 0 /\ crashed = FALSE

\* notify_all, by t: those that wait are to take the mutex again.
Woken(t, to) ==
    user' = [u \in Users |-> IF u = t THEN to ELSE IF user[u] = "wait" THEN "woken" ELSE user[u]]

----------------------------------------------------------------------------
(* getConnection.                                                           *)

AtQueue(t, from) == ~crashed /\ user[t] \in from

\* A free connection is taken, and all that wait are told.
Take(t, from) ==
    /\ AtQueue(t, from) /\ connectionQueue # <<>>
    /\ link' = [link EXCEPT ![t] = Head(connectionQueue)]
    /\ connectionQueue' = Tail(connectionQueue)
    /\ Woken(t, "hold") /\ producer' = "run"
    /\ UNCHANGED <<connectionCnt, aliveTime, clock, crashed>>

\* No connection is free: the producer is woken if it may make one. Then wait_for.
Await(t, from) ==
    /\ AtQueue(t, from) /\ connectionQueue = <<>>
    /\ IF connectionCnt < MaxSize THEN Woken(t, "wait") /\ producer' = "run"
       ELSE user' = [user EXCEPT ![t] = "wait"] /\ UNCHANGED producer
    /\ UNCHANGED <<pool, link, aliveTime, clock, crashed>>

GetConnection(t) == Take(t, {"idle"}) \/ Await(t, {"idle"})
GetAgain(t) == Take(t, {"woken"}) \/ Await(t, {"woken"})

\* wait_for times out: nullptr, unless a connection has come meanwhile.
GiveUp(t) ==
    /\ AtQueue(t, {"wait"}) /\ connectionQueue = <<>>
    /\ user' = [user EXCEPT ![t] = "refused"]
    /\ UNCHANGED <<pool, link, producer, aliveTime, clock, crashed>>

TimesOut(t) == GiveUp(t) \/ Take(t, {"wait"})

Refreshed(c) == aliveTime' = [aliveTime EXCEPT ![c] = clock]

\* The deleter of the shared_ptr: back on the queue, and nobody is notified.
GiveBack(t) ==
    /\ AtQueue(t, {"hold"})
    /\ connectionQueue' = Append(connectionQueue, link[t])
    /\ Refreshed(link[t])
    /\ link' = [link EXCEPT ![t] = NoLink]
    /\ user' = [user EXCEPT ![t] = "back"]
    /\ UNCHANGED <<connectionCnt, producer, clock, crashed>>

----------------------------------------------------------------------------
(* The two threads of the pool.                                             *)

ProducerWaits ==
    /\ ~crashed /\ producer = "run" /\ connectionQueue # <<>>
    /\ producer' = "wait"
    /\ UNCHANGED <<pool, user, link, aliveTime, clock, crashed>>

MayProduce == connectionCnt < MaxSize

\* With MaxSize connections in use there is nothing to make: the waiters are
\* notified for nothing, and the producer tries again at once.
Produce ==
    /\ ~crashed /\ producer = "run" /\ connectionQueue = <<>>
    /\ IF MayProduce
       THEN /\ \E c \in Links \ (Queued \cup Held) :
                  connectionQueue' = <<c>> /\ aliveTime' = [aliveTime EXCEPT ![c] = clock]
            /\ connectionCnt' = connectionCnt + 1
       ELSE UNCHANGED <<pool, aliveTime>>
    /\ user' = [u \in Users |-> IF user[u] = "wait" THEN "woken" ELSE user[u]]
    /\ UNCHANGED <<link, producer, clock, crashed>>

Expired(c) == clock - aliveTime[c] >= MaxIdle

\* Bug: the last InitSize connections are not spared.
SpareOneLess(n) == n >= InitSize

TooMany(n) == n > InitSize

\* The scanner deletes from the front what has been idle for too long while there
\* are more than InitSize. front() of an empty queue is undefined: it is taken to
\* end the process, what else could follow is not of interest.
Scan ==
    /\ ~crashed
    /\ \E n \in 0..Len(connectionQueue) :
         LET left == SubSeq(connectionQueue, n + 1, Len(connectionQueue)) IN
           /\ \A i \in 1..n :
                  Expired(connectionQueue[i]) /\ TooMany(connectionCnt - i + 1)
           /\ left # <<>> /\ TooMany(connectionCnt - n) => ~Expired(Head(left))
           /\ crashed' = (TooMany(connectionCnt - n) /\ left = <<>>)
           /\ connectionQueue' = left
           /\ connectionCnt' = connectionCnt - n
    /\ UNCHANGED <<user, link, producer, aliveTime, clock>>

Tick ==
    /\ ~crashed /\ clock < MaxTime /\ clock' = clock + 1
    /\ UNCHANGED <<pool, user, link, producer, aliveTime, crashed>>

Maintain == ProducerWaits \/ Produce

----------------------------------------------------------------------------
(* Properties.                                                              *)

ConnectionPoolTypeOK ==
    /\ connectionQueue \in Seq(Links) /\ connectionCnt \in Nat
    /\ user \in [Users -> {"idle", "wait", "woken", "hold", "back", "refused"}]
    /\ link \in [Users -> Links \cup {NoLink}]
    /\ producer \in {"run", "wait"}
    /\ aliveTime \in [Links -> Nat] /\ clock \in Nat /\ crashed \in BOOLEAN

\* A connection is on the queue once, or with one thread: no two threads ever
\* talk on the same MYSQL handle.
OneHolder ==
    /\ \A t \in Users : link[t] # NoLink <=> user[t] = "hold"
    /\ \A t, u \in Holders : link[t] = link[u] => t = u
    /\ Held \cap Queued = {}
    /\ \A i, j \in 1..Len(connectionQueue) : connectionQueue[i] = connectionQueue[j] => i = j

\* connectionCnt_ counts the connections there are: none leaks when a thread gives
\* up, and the bounds of mysql.conf hold whatever producer and scanner do.
CountIsRight ==
    /\ connectionCnt = Len(connectionQueue) + Cardinality(Holders)
    /\ connectionCnt \in InitSize..MaxSize

\* The scanner looks at an empty queue, which nothing in the code excludes, only
\* when more than InitSize threads hold a connection: with at least as many
\* initial connections as threads it cannot.
ScanNeedsIdle == crashed => Cardinality(Holders) > InitSize
=============================================================================
