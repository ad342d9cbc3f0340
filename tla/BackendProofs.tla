---------------------------- MODULE BackendProofs ----------------------------
(***************************************************************************)
(* Proofs about Backend for any number of workers, tasks and connections   *)
(* and any bounds of the pool: type correctness, that requests start in    *)
(* their order, that no wake-up is lost, and that each MySQL connection    *)
(* has one holder at most and is counted. A step of Backend is a step of   *)
(* the thread pool, of the connection pool, or of both, so each invariant  *)
(* is proved from the steps of its own half.                               *)
(***************************************************************************)
EXTENDS Backend, FiniteSetTheorems, SequenceTheorems, TLAPS

WorkersStep ==
    \/ Enqueue \/ NotifyOne \/ Stop \/ UNCHANGED poolVars
    \/ \E w \in Workers : TakeTask(w) \/ WaitForTask(w) \/ EndTask(w)

Asking == {"idle", "wait", "woken"}

\* Finish, as the connection pool sees it.
Leave(t) ==
    /\ ~crashed /\ user[t] \in {"idle", "back", "refused"}
    /\ user' = [user EXCEPT ![t] = "idle"]
    /\ UNCHANGED <<pool, link, producer, aliveTime, clock, crashed>>

UserStep(t) ==
    \/ \E from \in SUBSET Asking : Take(t, from) \/ Await(t, from)
    \/ GiveUp(t) \/ GiveBack(t) \/ Leave(t)

LinksStep ==
    \/ \E t \in Users : UserStep(t)
    \/ ProducerWaits \/ Produce \/ Scan \/ Tick \/ UNCHANGED linkVars

LEMMA StepIsTwo == [Next]_vars => WorkersStep /\ LinksStep
<1>. USE DEF WorkersStep, LinksStep
<1>1. ASSUME Submit \/ Notify \/ Shutdown PROVE WorkersStep /\ LinksStep
  BY <1>1 DEF Submit, Notify, Shutdown
<1>2. ASSUME MaintainPool PROVE WorkersStep /\ LinksStep
  BY <1>2 DEF MaintainPool, Maintain
<1>3. ASSUME NEW w \in Workers, Pick(w) PROVE WorkersStep /\ LinksStep
  BY <1>3 DEF Pick
<1>4. ASSUME NEW t \in Users, Ask(t) \/ AskAgain(t) \/ Return(t) PROVE WorkersStep /\ LinksStep
  <2>1. UserStep(t)
    BY <1>4 DEF Ask, AskAgain, Return, GetConnection, GetAgain, TimesOut, UserStep, Asking
  <2>. QED BY <1>4, <2>1 DEF Ask, AskAgain, Return
<1>5. ASSUME NEW t \in Users, Finish(t) PROVE WorkersStep /\ LinksStep
  <2>1. UserStep(t)
    BY <1>5 DEF Finish, AskedEnough, UserStep, Leave
  <2>2. WorkersStep
    BY <1>5 DEF Finish
  <2>. QED BY <2>1, <2>2
<1>6. CASE GiveUpHangs \/ UNCHANGED vars
  BY <1>6 DEF GiveUpHangs, vars
<1>. QED BY <1>1, <1>2, <1>3, <1>4, <1>5, <1>6 DEF Next

\* gaveUp is set once.
LEMMA GaveUpNext == gaveUp \in BOOLEAN /\ [Next]_vars => gaveUp' \in BOOLEAN
BY DEF Next, vars, Submit, Notify, Pick, Shutdown, Ask, AskAgain, Return, Finish, GiveUpHangs,
       MaintainPool

-----------------------------------------------------------------------------
(* The thread pool.                                                         *)

LEMMA WorkersTypeInit == Init => ThreadPoolTypeOK
<1>1. <<>> \in Seq(Tasks) /\ 0 \in 0..MaxTasks
  BY EmptySeq, TaskAssumption
<1>. QED BY <1>1 DEF Init, ThreadPoolInit, ThreadPoolTypeOK

LEMMA WorkersTypeNext == ThreadPoolTypeOK /\ WorkersStep => ThreadPoolTypeOK'
<1>. SUFFICES ASSUME ThreadPoolTypeOK, WorkersStep PROVE ThreadPoolTypeOK'
  OBVIOUS
<1>. USE DEF ThreadPoolTypeOK
<1>1. CASE Enqueue
  <2>1. enqueued' \in Tasks /\ enqueued' \in 0..MaxTasks
    BY <1>1, TaskAssumption DEF Enqueue, Tasks
  <2>. QED BY <1>1, <2>1, AppendProperties DEF Enqueue
<1>2. CASE NotifyOne
  BY <1>2 DEF NotifyOne
<1>3. CASE Stop
  BY <1>3 DEF Stop
<1>4. ASSUME NEW w \in Workers, TakeTask(w) PROVE ThreadPoolTypeOK'
  <2>1. Head(tasks) \in Tasks /\ Tail(tasks) \in Seq(Tasks)
    BY <1>4, HeadTailProperties DEF TakeTask
  <2>. QED BY <1>4, <2>1, AppendProperties DEF TakeTask
<1>5. ASSUME NEW w \in Workers, WaitForTask(w) PROVE ThreadPoolTypeOK'
  BY <1>5 DEF WaitForTask
<1>6. ASSUME NEW w \in Workers, EndTask(w) PROVE ThreadPoolTypeOK'
  BY <1>6 DEF EndTask, NoTask
<1>7. CASE UNCHANGED poolVars
  BY <1>7 DEF poolVars
<1>. QED BY <1>1, <1>2, <1>3, <1>4, <1>5, <1>6, <1>7 DEF WorkersStep

LEMMA ConcatMoves ==
    \A s, t, u \in Seq(Tasks) : (s \o t) \o u = s \o (t \o u)
BY ConcatAssociative

\* A task goes from the one queue to the end of the other.
LEMMA OrderNext == ThreadPoolTypeOK /\ StartedInOrder /\ WorkersStep => StartedInOrder'
<1>. SUFFICES ASSUME ThreadPoolTypeOK, StartedInOrder, WorkersStep PROVE StartedInOrder'
  OBVIOUS
<1>. USE DEF StartedInOrder, ThreadPoolTypeOK
<1>1. CASE Enqueue
  <2>1. enqueued \in Nat /\ enqueued' = enqueued + 1 /\ enqueued' \in Tasks
    BY <1>1, TaskAssumption DEF Enqueue, Tasks
  <2>2. <<enqueued'>> \in Seq(Tasks)
    BY <2>1
  <2>3. started' \o tasks' = (started \o tasks) \o <<enqueued'>>
    <3>1. tasks' = tasks \o <<enqueued'>>
      BY <1>1, <2>1, AppendIsConcat DEF Enqueue
    <3>2. started' \o tasks' = started \o (tasks \o <<enqueued'>>)
      BY <1>1, <3>1 DEF Enqueue
    <3>3. (started \o tasks) \o <<enqueued'>> = started \o (tasks \o <<enqueued'>>)
      BY <2>2, ConcatMoves
    <3>. QED BY <3>2, <3>3
  <2>. DEFINE old == [i \in 1..enqueued |-> i]
              new == [i \in 1..enqueued' |-> i]
  <2>4. /\ started \o tasks = old /\ old \in Seq(Tasks) /\ Len(old) = enqueued
    <3>1. started \o tasks = old
      OBVIOUS
    <3>2. old \in Seq(Tasks)
      <4>1. started \o tasks \in Seq(Tasks)
        BY ConcatProperties
      <4>. HIDE DEF old
      <4>. QED BY <3>1, <4>1
    <3>3. Len(old) = enqueued
      BY <2>1, <3>2, LenProperties
    <3>. QED BY <3>1, <3>2, <3>3
  <2>5. new \in Seq(Tasks) /\ Len(new) = enqueued'
    <3>1. new \in [1..enqueued' -> Tasks] /\ enqueued' \in Nat
      BY <2>1, TaskAssumption DEF Tasks
    <3>. QED BY <3>1
  <2>6. (old \o <<enqueued'>>) = new
    <3>1. /\ old \o <<enqueued'>> \in Seq(Tasks)
          /\ Len(old \o <<enqueued'>>) = enqueued'
          /\ \A i \in 1..enqueued' : (old \o <<enqueued'>>)[i]
                                       = IF i <= enqueued THEN old[i] ELSE <<enqueued'>>[i - enqueued]
      BY <2>1, <2>2, <2>4, ConcatProperties
    <3>2. \A i \in 1..enqueued' : (old \o <<enqueued'>>)[i] = new[i]
      BY <2>1, <3>1
    <3>. HIDE DEF old, new
    <3>. QED BY <2>5, <3>1, <3>2, SeqEqual
  <2>. QED BY <2>3, <2>4, <2>6
<1>2. ASSUME NEW w \in Workers, TakeTask(w) PROVE StartedInOrder'
  <2>1. /\ Head(tasks) \in Tasks /\ Tail(tasks) \in Seq(Tasks) /\ <<Head(tasks)>> \in Seq(Tasks)
    BY <1>2, HeadTailProperties DEF TakeTask
  <2>2. tasks = <<Head(tasks)>> \o Tail(tasks)
    BY <1>2 DEF TakeTask
  <2>3. started' \o tasks' = started \o (<<Head(tasks)>> \o Tail(tasks))
    BY <1>2, <2>1, AppendIsConcat, ConcatAssociative DEF TakeTask
  <2>. QED BY <1>2, <2>2, <2>3 DEF TakeTask
<1>3. CASE NotifyOne \/ Stop \/ UNCHANGED poolVars
             \/ \E w \in Workers : WaitForTask(w) \/ EndTask(w)
  BY <1>3 DEF NotifyOne, Stop, poolVars, WaitForTask, EndTask
<1>. QED BY <1>1, <1>2, <1>3 DEF WorkersStep

\* What keeps WakeUpIsDue: workers leave, and wait no more, only after the stop.
Wakeful ==
    /\ stop => ~toNotify /\ \A w \in Workers : worker[w] # "wait"
    /\ (\E w \in Workers : worker[w] = "exited") => stop /\ tasks = <<>>
    /\ WakeUpIsDue

LEMMA WakefulNext == ThreadPoolTypeOK /\ Wakeful /\ WorkersStep => Wakeful'
<1>. SUFFICES ASSUME ThreadPoolTypeOK, Wakeful, WorkersStep PROVE Wakeful'
  OBVIOUS
<1>. USE DEF Wakeful, WakeUpIsDue
<1>1. CASE Enqueue
  BY <1>1 DEF Enqueue
<1>2. CASE NotifyOne
  <2>1. tasks' # <<>> => \E w \in Workers : worker'[w] \in {"check", "run"}
    BY <1>2, WorkersAssumption DEF NotifyOne, ThreadPoolTypeOK
  <2>2. ~stop
    BY <1>2 DEF NotifyOne
  <2>3. \A w \in Workers : worker'[w] = "exited" => worker[w] = "exited"
    BY <1>2 DEF NotifyOne, ThreadPoolTypeOK
  <2>. QED BY <1>2, <2>1, <2>2, <2>3 DEF NotifyOne
<1>3. CASE Stop
  BY <1>3 DEF Stop, ThreadPoolTypeOK
<1>4. ASSUME NEW w \in Workers, TakeTask(w) PROVE Wakeful'
  BY <1>4 DEF TakeTask, ThreadPoolTypeOK
<1>5. ASSUME NEW w \in Workers, WaitForTask(w) PROVE Wakeful'
  BY <1>5 DEF WaitForTask, ThreadPoolTypeOK
<1>6. ASSUME NEW w \in Workers, EndTask(w) PROVE Wakeful'
  BY <1>6 DEF EndTask, ThreadPoolTypeOK
<1>7. CASE UNCHANGED poolVars
  BY <1>7 DEF poolVars
<1>. QED BY <1>1, <1>2, <1>3, <1>4, <1>5, <1>6, <1>7 DEF WorkersStep
-----------------------------------------------------------------------------
(* The connection pool.                                                     *)

LEMMA LinksTypeInit == Init => ConnectionPoolTypeOK
<1>. SUFFICES ASSUME ConnectionPoolInit PROVE ConnectionPoolTypeOK
  BY DEF Init
<1>1. connectionQueue \in Seq(Links)
  BY SizeAssumption DEF ConnectionPoolInit
<1>. QED BY <1>1, SizeAssumption DEF ConnectionPoolInit, ConnectionPoolTypeOK

\* The scanner takes the n oldest, as long as there are more than InitSize.
LEMMA ScanFacts ==
    ASSUME ConnectionPoolTypeOK, Scan
    PROVE  \E n \in 0..Len(connectionQueue) :
              /\ connectionQueue' \in Seq(Links)
              /\ Len(connectionQueue') = Len(connectionQueue) - n
              /\ \A i \in 1..Len(connectionQueue') :
                    i + n \in 1..Len(connectionQueue) /\ connectionQueue'[i] = connectionQueue[i + n]
              /\ connectionCnt' = connectionCnt - n
              /\ n > 0 => connectionCnt - n + 1 > InitSize
              /\ crashed' => connectionCnt' > InitSize /\ connectionQueue' = <<>>
              /\ crashed' \in BOOLEAN
<1>1. PICK n \in 0..Len(connectionQueue) :
        LET left == SubSeq(connectionQueue, n + 1, Len(connectionQueue)) IN
          /\ \A i \in 1..n :
                Expired(connectionQueue[i]) /\ TooMany(connectionCnt - i + 1)
          /\ crashed' = (TooMany(connectionCnt - n) /\ left = <<>>)
          /\ connectionQueue' = left
          /\ connectionCnt' = connectionCnt - n
  BY DEF Scan
<1>2. connectionQueue \in Seq(Links) /\ Len(connectionQueue) \in Nat /\ n \in Nat
  BY LenProperties DEF ConnectionPoolTypeOK
<1>3. /\ connectionQueue' \in Seq(Links)
      /\ Len(connectionQueue') = Len(connectionQueue) - n
      /\ \A i \in 1..Len(connectionQueue') : connectionQueue'[i] = connectionQueue[i + n]
  <2>1. \A i \in (n + 1)..Len(connectionQueue) : connectionQueue[i] \in Links
    BY <1>2, ElementOfSeq
  <2>. QED BY <1>1, <1>2, <2>1, SubSeqProperties
<1>4. n > 0 => connectionCnt - n + 1 > InitSize
  BY <1>1, <1>2 DEF TooMany
<1>5. crashed' => connectionCnt' > InitSize /\ connectionQueue' = <<>>
  BY <1>1 DEF TooMany
<1>6. crashed' \in BOOLEAN
  BY <1>1
<1>7. \A i \in 1..Len(connectionQueue') : i + n \in 1..Len(connectionQueue)
  BY <1>2, <1>3
<1>8. connectionCnt' = connectionCnt - n
  BY <1>1
<1>. WITNESS n \in 0..Len(connectionQueue)
<1>. QED BY <1>3, <1>4, <1>5, <1>6, <1>7, <1>8

LEMMA LinksTypeNext ==
    ConnectionPoolTypeOK /\ OneHolder /\ LinksStep => ConnectionPoolTypeOK'
<1>. SUFFICES ASSUME ConnectionPoolTypeOK, OneHolder, LinksStep PROVE ConnectionPoolTypeOK'
  OBVIOUS
<1>. USE DEF ConnectionPoolTypeOK
<1>1. ASSUME NEW t \in Users, NEW from \in SUBSET Asking, Take(t, from)
      PROVE  ConnectionPoolTypeOK'
  <2>1. Head(connectionQueue) \in Links /\ Tail(connectionQueue) \in Seq(Links)
    BY <1>1, HeadTailProperties DEF Take
  <2>. QED BY <1>1, <2>1 DEF Take, Woken
<1>2. ASSUME NEW t \in Users, NEW from \in SUBSET Asking, Await(t, from)
      PROVE  ConnectionPoolTypeOK'
  BY <1>2 DEF Await, Woken, pool
<1>3. ASSUME NEW t \in Users, GiveUp(t) PROVE ConnectionPoolTypeOK'
  BY <1>3 DEF GiveUp, pool
<1>4. ASSUME NEW t \in Users, GiveBack(t) PROVE ConnectionPoolTypeOK'
  <2>1. link[t] \in Links
    BY <1>4 DEF GiveBack, AtQueue, OneHolder
  <2>2. connectionQueue' \in Seq(Links)
    BY <1>4, <2>1, AppendProperties DEF GiveBack
  <2>. QED BY <1>4, <2>1, <2>2 DEF GiveBack, Refreshed
<1>5. ASSUME NEW t \in Users, Leave(t) PROVE ConnectionPoolTypeOK'
  BY <1>5 DEF Leave, pool
<1>6. CASE ProducerWaits
  BY <1>6 DEF ProducerWaits, pool
<1>7. CASE Produce
  <2>1. CASE MayProduce
    <3>1. PICK c \in Links : connectionQueue' = <<c>> /\ aliveTime' = [aliveTime EXCEPT ![c] = clock]
      BY <1>7, <2>1 DEF Produce
    <3>2. connectionQueue' \in Seq(Links) /\ connectionCnt' \in Nat
      BY <1>7, <2>1, <3>1 DEF Produce
    <3>. QED BY <1>7, <3>1, <3>2 DEF Produce
  <2>2. CASE ~MayProduce
    BY <1>7, <2>2 DEF Produce, pool
  <2>. QED BY <2>1, <2>2
<1>8. CASE Scan
  <2>1. connectionQueue' \in Seq(Links) /\ crashed' \in BOOLEAN
    BY <1>8, ScanFacts
  <2>2. connectionCnt' \in Nat
    BY <1>8, ScanFacts, SizeAssumption
  <2>. QED BY <1>8, <2>1, <2>2 DEF Scan
<1>9. CASE Tick
  BY <1>9 DEF Tick, pool
<1>10. CASE UNCHANGED linkVars
  BY <1>10 DEF linkVars, pool
<1>. QED BY <1>1, <1>2, <1>3, <1>4, <1>5, <1>6, <1>7, <1>8, <1>9, <1>10 DEF LinksStep, UserStep

\* OneHolder, thread by thread and place by place.
Exclusive ==
    /\ \A t \in Users : link[t] # NoLink <=> user[t] = "hold"
    /\ \A t, u \in Users :
          user[t] = "hold" /\ user[u] = "hold" /\ link[t] = link[u] => t = u
    /\ \A t \in Users, i \in 1..Len(connectionQueue) :
          user[t] = "hold" => link[t] # connectionQueue[i]
    /\ \A i, j \in 1..Len(connectionQueue) : connectionQueue[i] = connectionQueue[j] => i = j

LEMMA ExclusiveIsOneHolder == Exclusive <=> OneHolder
<1>1. ASSUME Exclusive PROVE OneHolder
  <2>1. \A t, u \in Holders : link[t] = link[u] => t = u
    BY <1>1 DEF Exclusive, Holders
  <2>2. Held \cap Queued = {}
    BY <1>1 DEF Exclusive, Held, Holders, Queued
  <2>. QED BY <1>1, <2>1, <2>2 DEF Exclusive, OneHolder
<1>2. ASSUME OneHolder PROVE Exclusive
  <2>1. \A t, u \in Users :
           user[t] = "hold" /\ user[u] = "hold" /\ link[t] = link[u] => t = u
    BY <1>2 DEF OneHolder, Holders
  <2>2. \A t \in Users, i \in 1..Len(connectionQueue) :
           user[t] = "hold" => link[t] # connectionQueue[i]
    <3>1. ASSUME NEW t \in Users, NEW i \in 1..Len(connectionQueue), user[t] = "hold"
          PROVE  link[t] \in Held /\ connectionQueue[i] \in Queued
      BY <3>1 DEF Held, Holders, Queued
    <3>. QED BY <1>2, <3>1 DEF OneHolder
  <2>. QED BY <1>2, <2>1, <2>2 DEF Exclusive, OneHolder
<1>. QED BY <1>1, <1>2

LEMMA ExclusiveNext == ConnectionPoolTypeOK /\ Exclusive /\ LinksStep => Exclusive'
<1>. SUFFICES ASSUME ConnectionPoolTypeOK, Exclusive, LinksStep PROVE Exclusive'
  OBVIOUS
<1>. DEFINE q == connectionQueue
<1>0. q \in Seq(Links) /\ Len(q) \in Nat /\ \A i \in 1..Len(q) : q[i] \in Links
  BY LenProperties, ElementOfSeq DEF ConnectionPoolTypeOK
<1>1. ASSUME NEW t \in Users, NEW from \in SUBSET Asking, Take(t, from) PROVE Exclusive'
  <2>1. /\ q # <<>> /\ Len(q) > 0 /\ Head(q) = q[1] /\ q[1] \in Links
        /\ link' = [link EXCEPT ![t] = q[1]] /\ user[t] # "hold"
    BY <1>0, <1>1, EmptySeq DEF Take, AtQueue, Asking
  <2>2. /\ Len(q') = Len(q) - 1
        /\ \A i \in 1..Len(q') : i + 1 \in 1..Len(q) /\ q'[i] = q[i + 1] /\ i + 1 # 1
    BY <1>0, <1>1, <2>1, HeadTailProperties DEF Take
  <2>3. \A u \in Users : user'[u] = "hold" <=> u = t \/ user[u] = "hold"
    BY <1>1 DEF Take, Woken, ConnectionPoolTypeOK
  <2>4. \A u \in Users : link'[u] = IF u = t THEN q[1] ELSE link[u]
    BY <2>1 DEF ConnectionPoolTypeOK
  <2>. HIDE DEF q
  <2>5. \A u \in Users : link'[u] # NoLink <=> user'[u] = "hold"
    BY <2>1, <2>3, <2>4, LinkAssumption DEF Exclusive
  <2>6. \A u, v \in Users :
           user'[u] = "hold" /\ user'[v] = "hold" /\ link'[u] = link'[v] => u = v
    BY <1>0, <2>1, <2>3, <2>4 DEF Exclusive, q
  <2>7. \A u \in Users, i \in 1..Len(q') : user'[u] = "hold" => link'[u] # q'[i]
    <3>1. ASSUME NEW u \in Users, NEW i \in 1..Len(q'), user'[u] = "hold" PROVE link'[u] # q'[i]
      <4>1. i + 1 \in 1..Len(q) /\ q'[i] = q[i + 1] /\ i + 1 # 1 /\ 1 \in 1..Len(q)
        BY <1>0, <2>1, <2>2
      <4>2. CASE u = t
        BY <2>4, <4>1, <4>2 DEF Exclusive, q
      <4>3. CASE u # t
        BY <2>3, <2>4, <3>1, <4>1, <4>3 DEF Exclusive, q
      <4>. QED BY <4>2, <4>3
    <3>. QED BY <3>1
  <2>8. \A i, j \in 1..Len(q') : q'[i] = q'[j] => i = j
    <3>1. ASSUME NEW i \in 1..Len(q'), NEW j \in 1..Len(q'), q'[i] = q'[j] PROVE i = j
      <4>1. i + 1 = j + 1
        BY <2>2, <3>1 DEF Exclusive, q
      <4>. QED BY <1>0, <2>2, <4>1
    <3>. QED BY <3>1
  <2>. QED BY <2>5, <2>6, <2>7, <2>8 DEF Exclusive, q
<1>2. ASSUME NEW t \in Users,
             GiveUp(t) \/ Leave(t) \/ \E from \in SUBSET Asking : Await(t, from)
      PROVE  Exclusive'
  <2>1. \A u \in Users : user'[u] = "hold" <=> user[u] = "hold"
    BY <1>2 DEF GiveUp, Leave, Await, AtQueue, Asking, Woken, ConnectionPoolTypeOK
  <2>2. UNCHANGED <<link, connectionQueue>>
    BY <1>2 DEF GiveUp, Leave, Await, pool
  <2>. QED BY <2>1, <2>2 DEF Exclusive
<1>3. ASSUME NEW t \in Users, GiveBack(t) PROVE Exclusive'
  <2>1. user[t] = "hold" /\ link[t] \in Links
    BY <1>3 DEF GiveBack, AtQueue, Exclusive, ConnectionPoolTypeOK
  <2>2. /\ Len(q') = Len(q) + 1 /\ q'[Len(q) + 1] = link[t]
        /\ \A i \in 1..Len(q) : q'[i] = q[i]
    BY <1>0, <1>3, <2>1, AppendProperties DEF GiveBack
  <2>3. \A u \in Users : /\ user'[u] = "hold" <=> u # t /\ user[u] = "hold"
                         /\ link'[u] = IF u = t THEN NoLink ELSE link[u]
    BY <1>3 DEF GiveBack, ConnectionPoolTypeOK
  <2>4. \A i \in 1..Len(q') : i \in 1..Len(q) \/ i = Len(q) + 1
    BY <1>0, <2>2
  <2>. HIDE DEF q
  <2>5. \A i, j \in 1..Len(q') : q'[i] = q'[j] => i = j
    BY <2>1, <2>2, <2>4 DEF Exclusive, q
  <2>6. \A u \in Users, i \in 1..Len(q') : user'[u] = "hold" => link'[u] # q'[i]
    BY <2>1, <2>2, <2>3, <2>4 DEF Exclusive, q
  <2>. QED BY <2>1, <2>3, <2>5, <2>6 DEF Exclusive, q
<1>4. CASE Produce
  <2>1. \A u \in Users : user'[u] = "hold" <=> user[u] = "hold"
    BY <1>4 DEF Produce, ConnectionPoolTypeOK
  <2>2. CASE MayProduce
    <3>1. PICK c \in Links \ (Queued \cup Held) : q' = <<c>>
      BY <1>4, <2>2 DEF Produce
    <3>2. \A u \in Users : user[u] = "hold" => link[u] # c
      BY <3>1 DEF Held, Holders
    <3>. QED BY <1>4, <2>1, <3>1, <3>2 DEF Produce, Exclusive
  <2>3. CASE ~MayProduce
    BY <1>4, <2>1, <2>3 DEF Produce, Exclusive, pool
  <2>. QED BY <2>2, <2>3
<1>5. CASE Scan
  <2>1. PICK n \in 0..Len(q) :
          \A i \in 1..Len(q') : i + n \in 1..Len(q) /\ q'[i] = q[i + n]
    BY <1>5, ScanFacts
  <2>2. UNCHANGED <<user, link>>
    BY <1>5 DEF Scan
  <2>3. n \in Nat /\ \A i \in 1..Len(q') : i \in Nat
    BY <1>0
  <2>. HIDE DEF q
  <2>4. \A i, j \in 1..Len(q') : q'[i] = q'[j] => i = j
    <3>1. ASSUME NEW i \in 1..Len(q'), NEW j \in 1..Len(q'), q'[i] = q'[j] PROVE i = j
      <4>1. i + n = j + n
        BY <2>1, <3>1 DEF Exclusive, q
      <4>. QED BY <2>3, <4>1
    <3>. QED BY <3>1
  <2>. QED BY <2>1, <2>2, <2>4 DEF Exclusive, q
<1>6. CASE ProducerWaits \/ Tick \/ UNCHANGED linkVars
  BY <1>6 DEF ProducerWaits, Tick, linkVars, pool, Exclusive
<1>. QED BY <1>1, <1>2, <1>3, <1>4, <1>5, <1>6 DEF LinksStep, UserStep

\* What the pool counts, and why the scanner needs so many holders to fall.
Counting == IsFiniteSet(Holders) /\ CountIsRight /\ ScanNeedsIdle

LEMMA CountingNext == ConnectionPoolTypeOK /\ Exclusive /\ Counting /\ LinksStep => Counting'
<1>. SUFFICES ASSUME ConnectionPoolTypeOK, Exclusive, Counting, LinksStep PROVE Counting'
  OBVIOUS
<1>. DEFINE q == connectionQueue
            held == Cardinality(Holders)
<1>0. /\ q \in Seq(Links) /\ Len(q) \in Nat /\ held \in Nat /\ connectionCnt \in Nat
      /\ InitSize \in Nat /\ MaxSize \in Nat
      /\ connectionCnt = Len(q) + held /\ connectionCnt \in InitSize..MaxSize
      /\ IsFiniteSet(Holders) /\ (crashed => held > InitSize)
  BY LenProperties, FS_CardinalityType, SizeAssumption
     DEF ConnectionPoolTypeOK, Counting, CountIsRight, ScanNeedsIdle
<1>1. ASSUME NEW t \in Users, NEW from \in SUBSET Asking, Take(t, from) PROVE Counting'
  <2>1. t \notin Holders /\ Holders' = Holders \cup {t}
    BY <1>1 DEF Take, AtQueue, Asking, Woken, Holders, ConnectionPoolTypeOK
  <2>2. IsFiniteSet(Holders') /\ Cardinality(Holders') = held + 1
    BY <1>0, <2>1, FS_AddElement
  <2>3. Len(q') = Len(q) - 1
    BY <1>0, <1>1, HeadTailProperties DEF Take
  <2>. QED BY <1>0, <1>1, <2>2, <2>3 DEF Take, AtQueue, Counting, CountIsRight, ScanNeedsIdle
<1>2. ASSUME NEW t \in Users, GiveBack(t) PROVE Counting'
  <2>1. t \in Holders /\ Holders' = Holders \ {t}
    BY <1>2 DEF GiveBack, AtQueue, Holders, ConnectionPoolTypeOK
  <2>2. IsFiniteSet(Holders') /\ Cardinality(Holders') = held - 1
    BY <1>0, <2>1, FS_RemoveElement
  <2>3. link[t] \in Links
    BY <2>1 DEF Holders, Exclusive, ConnectionPoolTypeOK
  <2>4. Len(q') = Len(q) + 1
    BY <1>0, <1>2, <2>3, AppendProperties DEF GiveBack
  <2>. QED BY <1>0, <1>2, <2>2, <2>4 DEF GiveBack, AtQueue, Counting, CountIsRight, ScanNeedsIdle
<1>3. ASSUME NEW t \in Users,
             GiveUp(t) \/ Leave(t) \/ \E from \in SUBSET Asking : Await(t, from)
      PROVE  Counting'
  <2>1. Holders' = Holders
    BY <1>3 DEF GiveUp, Leave, Await, AtQueue, Asking, Woken, Holders, ConnectionPoolTypeOK
  <2>2. UNCHANGED <<connectionQueue, connectionCnt, crashed>>
    BY <1>3 DEF GiveUp, Leave, Await, pool
  <2>. QED BY <2>1, <2>2 DEF Counting, CountIsRight, ScanNeedsIdle
<1>4. CASE Produce
  <2>1. Holders' = Holders /\ crashed' = crashed
    BY <1>4 DEF Produce, Holders, ConnectionPoolTypeOK
  <2>2. CASE MayProduce
    <3>1. Len(q') = 1 /\ Len(q) = 0 /\ connectionCnt' = connectionCnt + 1
      BY <1>4, <2>2, EmptySeq DEF Produce
    <3>2. connectionCnt < MaxSize
      BY <2>2 DEF MayProduce
    <3>. QED BY <1>0, <2>1, <3>1, <3>2 DEF Counting, CountIsRight, ScanNeedsIdle
  <2>3. CASE ~MayProduce
    <3>1. UNCHANGED <<connectionQueue, connectionCnt, crashed>>
      BY <1>4, <2>3 DEF Produce, pool
    <3>. QED BY <2>1, <3>1 DEF Counting, CountIsRight, ScanNeedsIdle
  <2>. QED BY <2>2, <2>3
<1>5. CASE Scan
  <2>1. Holders' = Holders
    BY <1>5 DEF Scan, Holders
  <2>2. PICK n \in 0..Len(q) :
          /\ Len(q') = Len(q) - n /\ connectionCnt' = connectionCnt - n
          /\ n > 0 => connectionCnt - n + 1 > InitSize
          /\ crashed' => connectionCnt' > InitSize /\ q' = <<>>
    BY <1>5, ScanFacts
  <2>3. CountIsRight'
    BY <1>0, <2>1, <2>2 DEF CountIsRight
  <2>4. ScanNeedsIdle'
    BY <1>0, <2>1, <2>2, EmptySeq DEF ScanNeedsIdle
  <2>. QED BY <1>0, <2>1, <2>3, <2>4 DEF Counting
<1>6. CASE ProducerWaits \/ Tick \/ UNCHANGED linkVars
  <2>1. Holders' = Holders /\ UNCHANGED <<connectionQueue, connectionCnt, crashed>>
    BY <1>6 DEF ProducerWaits, Tick, linkVars, pool, Holders
  <2>. QED BY <2>1 DEF Counting, CountIsRight, ScanNeedsIdle
<1>. QED BY <1>1, <1>2, <1>3, <1>4, <1>5, <1>6 DEF LinksStep, UserStep

-----------------------------------------------------------------------------
(* The theorems.                                                            *)

IInv == TypeOK /\ StartedInOrder /\ Wakeful /\ Exclusive /\ Counting

LEMMA IInvInit == Init => IInv
<1>. SUFFICES ASSUME Init PROVE IInv
  OBVIOUS
<1>1. TypeOK
  BY WorkersTypeInit, LinksTypeInit DEF TypeOK, Init
<1>2. StartedInOrder
  <2>1. started \o tasks = <<>> /\ enqueued = 0
    BY DEF Init, ThreadPoolInit
  <2>2. [i \in 1..0 |-> i] = <<>>
    OBVIOUS
  <2>. QED BY <2>1, <2>2 DEF StartedInOrder
<1>3. Wakeful
  BY DEF Init, ThreadPoolInit, Wakeful, WakeUpIsDue
<1>4. Exclusive
  <2>1. Len(connectionQueue) = InitSize
    BY SizeAssumption DEF Init, ConnectionPoolInit
  <2>. QED BY <2>1 DEF Init, ConnectionPoolInit, Exclusive
<1>5. Counting
  <2>1. Len(connectionQueue) = InitSize /\ connectionCnt = InitSize /\ crashed = FALSE
    BY SizeAssumption DEF Init, ConnectionPoolInit
  <2>2. Holders = {}
    BY DEF Init, ConnectionPoolInit, Holders
  <2>. QED BY <2>1, <2>2, FS_EmptySet, SizeAssumption DEF Counting, CountIsRight, ScanNeedsIdle
<1>. QED BY <1>1, <1>2, <1>3, <1>4, <1>5 DEF IInv

LEMMA IInvNext == IInv /\ [Next]_vars => IInv'
<1>. SUFFICES ASSUME IInv, [Next]_vars PROVE IInv'
  OBVIOUS
<1>0. WorkersStep /\ LinksStep
  BY StepIsTwo
<1>1. ThreadPoolTypeOK' /\ StartedInOrder' /\ Wakeful'
  BY <1>0, WorkersTypeNext, OrderNext, WakefulNext DEF IInv, TypeOK
<1>2. ConnectionPoolTypeOK' /\ Exclusive' /\ Counting'
  BY <1>0, LinksTypeNext, ExclusiveNext, CountingNext, ExclusiveIsOneHolder DEF IInv, TypeOK
<1>3. (gaveUp \in BOOLEAN)'
  BY GaveUpNext DEF IInv, TypeOK
<1>. QED BY <1>1, <1>2, <1>3 DEF IInv, TypeOK

LEMMA IInvAlways == Spec => []IInv
BY IInvInit, IInvNext, PTL DEF Spec

\* Types of both pools: threads, tasks, connections and clocks.
THEOREM TypeCorrect == Spec => []TypeOK
<1>1. IInv => TypeOK
  BY DEF IInv
<1>. QED BY <1>1, IInvAlways, PTL

\* ThreadPool: requests are started in the order of the reactor, each once, for
\* any number of workers and whenever the pool stops.
THEOREM StartedInOrderAlways == Spec => []StartedInOrder
<1>1. IInv => StartedInOrder
  BY DEF IInv
<1>. QED BY <1>1, IInvAlways, PTL

\* ThreadPool: with a task on the queue and no notification to come, some worker
\* is awake.
THEOREM WakeUpIsDueAlways == Spec => []WakeUpIsDue
<1>1. IInv => WakeUpIsDue
  BY DEF IInv, Wakeful
<1>. QED BY <1>1, IInvAlways, PTL

\* ConnectionPool: no connection is with two threads, or with one and on the
\* queue, and none is there twice.
THEOREM OneHolderAlways == Spec => []OneHolder
<1>1. IInv => OneHolder
  BY ExclusiveIsOneHolder DEF IInv
<1>. QED BY <1>1, IInvAlways, PTL

\* ConnectionPool: connectionCnt_ counts the connections and keeps its bounds.
THEOREM CountIsRightAlways == Spec => []CountIsRight
<1>1. IInv => CountIsRight
  BY DEF IInv, Counting
<1>. QED BY <1>1, IInvAlways, PTL

\* scannerConnectionTask: the front of an empty queue is looked at only when more
\* than InitSize threads hold a connection.
THEOREM ScanNeedsIdleAlways == Spec => []ScanNeedsIdle
<1>1. IInv => ScanNeedsIdle
  BY DEF IInv, Counting
<1>. QED BY <1>1, IInvAlways, PTL
=============================================================================
