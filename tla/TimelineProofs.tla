--------------------------- MODULE TimelineProofs ---------------------------
(***************************************************************************)
(* Proofs about Timeline for every set of users and messages and every     *)
(* bound: type correctness; that a timeline always holds the newest        *)
(* messages, and that the hit rule of syncMessages therefore covers every  *)
(* unread message whenever no handler is between its ZADD and its trim;    *)
(* that an acknowledged message is held or accounted for; that MySQL       *)
(* refuses a batch only for a cause; and that a sync key skips nothing     *)
(* while the messages of its user come in order.                           *)
(***************************************************************************)
EXTENDS Timeline, FiniteSetTheorems, SequenceTheorems, TLAPS

\* Tasks, their ids and receivers are what their names say.
LEMMA TaskFacts ==
    ASSUME NEW t \in Tasks
    PROVE  Msg(t) \in Msgs /\ Rcv(t) \in Users /\ At(t) \in Nodes /\ At(t) = On[Msg(t)]
BY ToAssumption DEF Tasks, Msg, Rcv, At

\* The two halves of the queue in backgroundSaveThread are queues.
LEMMA TakeFacts ==
    ASSUME NEW q \in Seq(Msgs)
    PROVE  Taken(q) \in Seq(Msgs) /\ Left(q) \in Seq(Msgs)
<1>1. Len(q) \in Nat /\ BatchMax \in Nat \ {0}
  BY BoundsAssumption, LenProperties
<1>2. Taken(q) \in Seq(Msgs)
  BY <1>1, SubSeqProperties DEF Taken
<1>3. Len(Taken(q)) \in Nat
  BY <1>2, LenProperties
<1>4. Left(q) \in Seq(Msgs)
  BY <1>1, <1>3, SubSeqProperties DEF Left
<1>. QED BY <1>2, <1>4

LEMMA SeqIdsFacts ==
    ASSUME NEW q \in Seq(Msgs)
    PROVE  SeqIds(q) \subseteq Msgs
BY ElementOfSeq, LenProperties DEF SeqIds

\* A finite non-empty set of naturals has a largest element: a smallest subset
\* without one would stay without one when an element is removed.
LEMMA LargestExists ==
    ASSUME NEW S \in SUBSET Nat, IsFiniteSet(S), S # {}
    PROVE  \E k \in S : \A m \in S : m <= k
<1>. DEFINE HasMax(X) == \E k \in X : \A m \in X : m <= k
            T == {X \in SUBSET S : X # {} /\ ~HasMax(X)}
<1>. SUFFICES ASSUME T # {} PROVE FALSE
  OBVIOUS
<1>1. T \subseteq FiniteSubsetsOf(S)
  BY FS_FiniteSubsetsOfFinite
<1>2. IsWellFoundedOn(StrictSubsetOrdering(S), FiniteSubsetsOf(S))
  BY FS_StrictSubsetOrderingWellFounded
<1>3. PICK X \in T : \A Y \in T : ~(<<Y, X>> \in StrictSubsetOrdering(S))
  BY <1>1, <1>2, WFMin
<1>4. X \in SUBSET S /\ X # {} /\ ~HasMax(X)
  OBVIOUS
<1>5. PICK x \in X : TRUE
  BY <1>4
<1>6. X \ {x} \notin T
  <2>1. <<X \ {x}, X>> \in StrictSubsetOrdering(S)
    BY <1>4, <1>5 DEF StrictSubsetOrdering
  <2>. QED BY <2>1, <1>3
<1>7. CASE X \ {x} = {}
  <2>1. X = {x} /\ x \in Nat
    BY <1>4, <1>5, <1>7
  <2>2. HasMax(X)
    BY <2>1
  <2>. QED BY <2>2, <1>4
<1>8. CASE X \ {x} # {}
  <2>1. HasMax(X \ {x})
    BY <1>4, <1>6, <1>8
  <2>2. PICK k \in X \ {x} : \A m \in X \ {x} : m <= k
    BY <2>1
  <2>3. x \in Nat /\ k \in Nat /\ X \subseteq Nat
    BY <1>4, <1>5
  <2>4. CASE x <= k
    BY <2>2, <2>3, <2>4, <1>4
  <2>5. CASE k < x
    <3>1. \A m \in X : m <= x
      BY <2>2, <2>3, <2>5
    <3>. QED BY <3>1, <1>4, <1>5
  <2>. QED BY <2>3, <2>4, <2>5
<1>. QED BY <1>7, <1>8

\* Ids are naturals, and 0 is none.
LEMMA IdFacts ==
    /\ \A i \in Ids \cup {0} : i \in Nat
    /\ \A m \in Msgs : MsgId[m] \in Ids /\ MsgId[m] \in Nat /\ MsgId[m] # 0
BY MsgsAssumption DEF Ids

\* new_sync_key is the old key or an id of the answer, and the largest of them.
LEMMA KeyFacts ==
    ASSUME NEW key \in Ids \cup {0}, NEW answer \in SUBSET Msgs
    PROVE  /\ NewSyncKey(key, answer) \in Ids \cup {0}
           /\ NewSyncKey(key, answer) = key \/ \E m \in answer : NewSyncKey(key, answer) = MsgId[m]
           /\ key <= NewSyncKey(key, answer)
           /\ \A m \in answer : MsgId[m] <= NewSyncKey(key, answer)
<1>. DEFINE ids == {MsgId[m] : m \in answer}
            S == ids \cup {key}
<1>1. S \subseteq Nat /\ IsFiniteSet(S) /\ S # {} /\ S \subseteq Ids \cup {0}
  <2>1. IsFiniteSet(answer)
    BY MsgsAssumption, FS_Subset
  <2>2. IsFiniteSet(ids)
    <3>. DEFINE f == [m \in answer |-> MsgId[m]]
    <3>1. f \in Surjection(answer, ids)
      BY DEF Surjection
    <3>. QED BY <2>1, <3>1, FS_Surjection
  <2>. QED BY <2>2, FS_AddElement, IdFacts
<1>2. \E k \in S : \A i \in S : i <= k
  <2>. HIDE DEF S
  <2>. QED BY <1>1, LargestExists
<1>3. NewSyncKey(key, answer) = CHOOSE k \in S : \A i \in S : i <= k
  BY DEF NewSyncKey
<1>4. NewSyncKey(key, answer) \in S /\ \A i \in S : i <= NewSyncKey(key, answer)
  <2>. HIDE DEF S
  <2>. QED BY <1>2, <1>3
<1>. QED BY <1>1, <1>4
-----------------------------------------------------------------------------
LEMMA TypeInit == Init => TypeOK
BY EmptySeq, BoundsAssumption DEF Init, TypeOK, IdleSync, Syncs, SyncPCs, HandlerPCs, Tasks

\* One step per action of Next.
LEMMA TypeNext == TypeOK /\ [Next]_vars => TypeOK'
<1>. SUFFICES ASSUME TypeOK, [Next]_vars PROVE TypeOK'
  OBVIOUS
<1>. USE DEF TypeOK
<1>1. ASSUME NEW t \in Tasks, Accept(t) PROVE TypeOK'
  BY <1>1 DEF Accept, HandlerPCs, saverVars, cacheVars, syncVars
<1>2. ASSUME NEW t \in Tasks, Enqueue(t) PROVE TypeOK'
  <2>1. saveQueue' \in [Nodes -> Seq(Msgs)]
    <3>1. Append(saveQueue[At(t)], Msg(t)) \in Seq(Msgs)
      BY TaskFacts, AppendProperties
    <3>. QED BY <1>2, <3>1 DEF Enqueue
  <2>2. disturbed' \in [Users -> BOOLEAN]
    BY <1>2, TaskFacts DEF Enqueue, Late
  <2>3. pc' \in [Tasks -> HandlerPCs] /\ entered' \in [Users -> SUBSET Msgs]
    BY <1>2, TaskFacts DEF Enqueue, HandlerPCs
  <2>. QED BY <1>2, <2>1, <2>2, <2>3 DEF Enqueue, cacheVars, syncVars
<1>3. ASSUME NEW t \in Tasks, CacheAdd(t) PROVE TypeOK'
  <2>1. disturbed' \in [Users -> BOOLEAN]
    BY <1>3, TaskFacts DEF CacheAdd, Late
  <2>2. /\ pc' \in [Tasks -> HandlerPCs]
        /\ cache' \in [Users -> SUBSET Msgs] /\ stored' \in [Users -> SUBSET Msgs]
    BY <1>3, TaskFacts DEF CacheAdd, HandlerPCs
  <2>. QED BY <1>3, <2>1, <2>2 DEF CacheAdd, saverVars, syncVars
<1>4. ASSUME NEW t \in Tasks, CacheTrim(t) PROVE TypeOK'
  <2>1. PICK keep \in SUBSET cache[Rcv(t)] :
          /\ cache' = [cache EXCEPT ![Rcv(t)] = keep]
          /\ disturbed' = [disturbed EXCEPT ![Rcv(t)] = @ \/ TrimsUnderSync(Rcv(t), keep)]
    BY <1>4 DEF CacheTrim
  <2>2. disturbed' \in [Users -> BOOLEAN]
    BY <2>1, TaskFacts DEF TrimsUnderSync
  <2>3. pc' \in [Tasks -> HandlerPCs] /\ cache' \in [Users -> SUBSET Msgs]
    BY <1>4, <2>1, TaskFacts DEF CacheTrim, HandlerPCs
  <2>. QED BY <1>4, <2>2, <2>3 DEF CacheTrim, saverVars, syncVars
<1>5. ASSUME NEW n \in Nodes, SaveTake(n) PROVE TypeOK'
  <2>1. Taken(saveQueue[n]) \in Seq(Msgs) /\ Left(saveQueue[n]) \in Seq(Msgs)
    BY TakeFacts
  <2>2. saveQueue' \in [Nodes -> Seq(Msgs)] /\ batch' \in [Nodes -> Seq(Msgs)]
    BY <1>5, <2>1 DEF SaveTake
  <2>. QED BY <1>5, <2>2 DEF SaveTake, cacheVars, syncVars
<1>6. ASSUME NEW n \in Nodes, NEW works \in BOOLEAN, SaveBatch(n, works),
             dbFailures' \in 0..MaxDbFailures
      PROVE  TypeOK'
  <2>1. batch' \in [Nodes -> Seq(Msgs)]
    BY <1>6, EmptySeq DEF SaveBatch
  <2>2. history' \subseteq Msgs /\ refused' \subseteq Msgs
    <3>1. SeqIds(batch[n]) \subseteq Msgs
      BY SeqIdsFacts
    <3>. QED BY <1>6, <3>1 DEF SaveBatch
  <2>3. disturbed' \in [Users -> BOOLEAN]
    BY <1>6 DEF SaveBatch, Overtakes
  <2>. QED BY <1>6, <2>1, <2>2, <2>3 DEF SaveBatch, cacheVars, syncVars
<1>7. ASSUME NEW n \in Nodes, SaveInsert(n) PROVE TypeOK'
  BY <1>6, <1>7 DEF SaveInsert
<1>8. ASSUME NEW n \in Nodes, SaveFails(n) PROVE TypeOK'
  <2>1. dbFailures' \in 0..MaxDbFailures
    BY <1>8, BoundsAssumption DEF SaveFails
  <2>. QED BY <1>6, <1>8, <2>1 DEF SaveFails
<1>9. ASSUME NEW u \in Users, SyncMin(u) PROVE TypeOK'
  <2>1. sync' \in [Users -> Syncs]
    BY <1>9 DEF SyncMin, Syncs, SyncPCs
  <2>2. disturbed' \in [Users -> BOOLEAN]
    BY <1>9 DEF SyncMin, Misread
  <2>. QED BY <1>9, <2>1, <2>2 DEF SyncMin, saverVars, cacheVars
<1>10. ASSUME NEW u \in Users, NEW ids \in SUBSET Msgs, Answer(u, ids),
              dbFailures' \in 0..MaxDbFailures
       PROVE  TypeOK'
  <2>1. sync' \in [Users -> Syncs]
    BY <1>10 DEF Answer, Syncs, SyncPCs
  <2>. QED BY <1>10, <2>1 DEF Answer, saverVars, cacheVars
<1>11. ASSUME NEW u \in Users, SyncRange(u) PROVE TypeOK'
  <2>1. AfterScore(cache[u], sync[u].key) \in SUBSET Msgs
    BY DEF AfterScore
  <2>. QED BY <1>10, <1>11, <2>1 DEF SyncRange
<1>12. ASSUME NEW u \in Users, SyncQuery(u) PROVE TypeOK'
  <2>1. After({m \in history : To[m] = u}, sync[u].key) \in SUBSET Msgs
    BY DEF After
  <2>. QED BY <1>10, <1>12, <2>1 DEF SyncQuery
<1>13. ASSUME NEW u \in Users, SyncQueryFails(u) PROVE TypeOK'
  <2>1. dbFailures' \in 0..MaxDbFailures
    BY <1>13, BoundsAssumption DEF SyncQueryFails
  <2>. QED BY <1>10, <1>13, <2>1 DEF SyncQueryFails
<1>14. ASSUME NEW u \in Users, SyncReply(u) PROVE TypeOK'
  <2>1. sync[u].key \in Ids \cup {0} /\ sync[u].answer \in SUBSET Msgs
    BY DEF Syncs
  <2>2. lastSyncKey' \in [Users -> Ids \cup {0}]
    BY <1>14, <2>1, KeyFacts DEF SyncReply
  <2>3. sync' \in [Users -> Syncs]
    BY <1>14 DEF SyncReply, IdleSync, Syncs, SyncPCs
  <2>4. received' \in [Users -> SUBSET Msgs]
    BY <1>14, <2>1 DEF SyncReply
  <2>. QED BY <1>14, <2>2, <2>3, <2>4 DEF SyncReply, saverVars, cacheVars
<1>15. ASSUME NEW u \in Users, SyncDropped(u) PROVE TypeOK'
  <2>1. sync' \in [Users -> Syncs]
    BY <1>15 DEF SyncDropped, IdleSync, Syncs, SyncPCs
  <2>. QED BY <1>15, <2>1 DEF SyncDropped, saverVars, cacheVars
<1>16. ASSUME NEW n \in Nodes, Crash(n) PROVE TypeOK'
  <2>1. lost' \subseteq Msgs
    <3>1. {Msg(t) : t \in {x \in Tasks : pc[x] = "acked" /\ At(x) = n}} \subseteq Msgs
      BY TaskFacts
    <3>2. Waiting(n) \subseteq Msgs
      BY SeqIdsFacts DEF Waiting
    <3>. QED BY <1>16, <3>1, <3>2 DEF Crash, InMemory
  <2>2. pc' \in [Tasks -> HandlerPCs]
    BY <1>16 DEF Crash, HandlerPCs
  <2>3. sync' \in [Users -> Syncs]
    <3>1. IdleSync \in Syncs
      BY DEF IdleSync, Syncs, SyncPCs
    <3>. QED BY <1>16, <3>1 DEF Crash
  <2>4. saveQueue' \in [Nodes -> Seq(Msgs)] /\ batch' \in [Nodes -> Seq(Msgs)]
    BY <1>16, EmptySeq DEF Crash
  <2>5. crashes' \in 0..MaxCrashes
    BY <1>16, BoundsAssumption DEF Crash
  <2>. QED BY <1>16, <2>1, <2>2, <2>3, <2>4, <2>5 DEF Crash, cacheVars
<1>17. CASE UNCHANGED vars
  BY <1>17 DEF vars, saverVars, cacheVars, syncVars
<1>. QED
  BY <1>1, <1>2, <1>3, <1>4, <1>5, <1>7, <1>8, <1>9, <1>11, <1>12, <1>13, <1>14, <1>15,
     <1>16, <1>17 DEF Next

\* Type correctness of every reachable state.
THEOREM TypeCorrect == Spec => []TypeOK
BY TypeInit, TypeNext, PTL DEF Spec
-----------------------------------------------------------------------------
\* What CacheHoldsNewest says of one timeline.
Newest(c, st) == \A x \in st \ c : Cardinality(NotOlder(c, x)) >= CacheCap

\* Scores are naturals.
LEMMA ScoreFacts ==
    /\ \A i \in Ids \cup {0} : Score[i] \in Nat
    /\ \A m \in Msgs : Rank(m) \in Nat
BY ScoreAssumption, IdFacts DEF Rank

\* A timeline is finite.
LEMMA CacheFinite ==
    ASSUME NEW c \in SUBSET Msgs
    PROVE  /\ IsFiniteSet(c) /\ Cardinality(c) \in Nat
           /\ \A x : /\ NotOlder(c, x) \subseteq c /\ IsFiniteSet(NotOlder(c, x))
                     /\ Cardinality(NotOlder(c, x)) \in Nat
<1>1. IsFiniteSet(c)
  BY FS_Subset, MsgsAssumption
<1>2. \A x : NotOlder(c, x) \in SUBSET c
  BY DEF NotOlder
<1>3. \A x : IsFiniteSet(NotOlder(c, x))
  BY <1>1, <1>2, FS_Subset
<1>. QED BY <1>1, <1>2, <1>3, FS_CardinalityType

\* Adding an id to a timeline and to what it ever held keeps it the newest.
LEMMA AddKeepsNewest ==
    ASSUME NEW c \in SUBSET Msgs, NEW st \in SUBSET Msgs, NEW m \in Msgs, Newest(c, st)
    PROVE  Newest(c \cup {m}, st \cup {m})
<1>. SUFFICES ASSUME NEW x \in (st \cup {m}) \ (c \cup {m})
              PROVE  Cardinality(NotOlder(c \cup {m}, x)) >= CacheCap
  BY DEF Newest
<1>1. x \in st \ c /\ Cardinality(NotOlder(c, x)) >= CacheCap
  BY DEF Newest
<1>2. NotOlder(c, x) \in SUBSET NotOlder(c \cup {m}, x)
  BY DEF NotOlder
<1>3. c \cup {m} \in SUBSET Msgs
  OBVIOUS
<1>4. /\ IsFiniteSet(NotOlder(c \cup {m}, x))
      /\ Cardinality(NotOlder(c \cup {m}, x)) \in Nat /\ Cardinality(NotOlder(c, x)) \in Nat
  BY <1>3, CacheFinite
<1>5. Cardinality(NotOlder(c, x)) <= Cardinality(NotOlder(c \cup {m}, x))
  BY <1>2, <1>4, FS_Subset
<1>. QED BY <1>1, <1>4, <1>5, BoundsAssumption

\* A trim keeps a timeline the newest: every id it drops has the CacheCap kept
\* ones above it, and an id that was gone before is below all that are kept, or
\* fewer than CacheCap ids would have been above it.
LEMMA TrimKeepsNewest ==
    ASSUME NEW c \in SUBSET Msgs, NEW st \in SUBSET Msgs, NEW keep \in SUBSET c,
           Newest(c, st), IsTrim(c, keep)
    PROVE  Newest(keep, st)
<1>1. CASE Cardinality(c) <= CacheCap
  BY <1>1 DEF IsTrim
<1>2. CASE ~(Cardinality(c) <= CacheCap)
  <2>1. Cardinality(keep) = CacheCap /\ \A k \in keep, d \in c \ keep : Rank(d) <= Rank(k)
    BY <1>2 DEF IsTrim
  <2>2. keep \in SUBSET Msgs /\ IsFiniteSet(keep)
    BY CacheFinite
  <2>. SUFFICES ASSUME NEW x \in st \ keep
                PROVE  Cardinality(NotOlder(keep, x)) >= CacheCap
    BY DEF Newest
  <2>3. SUFFICES NotOlder(keep, x) = keep
    BY <2>1, BoundsAssumption
  <2>4. CASE x \in c
    BY <2>1, <2>4 DEF NotOlder
  <2>5. CASE x \notin c
    <3>. SUFFICES ASSUME NEW a \in keep, ~(Rank(a) >= Rank(x)) PROVE FALSE
      BY DEF NotOlder
    <3>1. Rank(a) < Rank(x) /\ Rank(a) \in Nat /\ Rank(x) \in Nat
      BY ScoreFacts
    <3>2. \A d \in c \ keep : Rank(d) < Rank(x)
      BY <2>1, <3>1, ScoreFacts
    <3>3. NotOlder(c, x) \in SUBSET (keep \ {a})
      <4>. SUFFICES ASSUME NEW y \in c, Rank(y) >= Rank(x) PROVE y \in keep /\ y # a
        BY DEF NotOlder
      <4>1. Rank(y) \in Nat
        BY ScoreFacts
      <4>. QED BY <3>1, <3>2, <4>1
    <3>4. IsFiniteSet(keep \ {a}) /\ Cardinality(keep \ {a}) = CacheCap - 1
      BY <2>1, <2>2, FS_RemoveElement
    <3>5. Cardinality(NotOlder(c, x)) <= CacheCap - 1
      BY <3>3, <3>4, FS_Subset
    <3>6. Cardinality(NotOlder(c, x)) >= CacheCap /\ Cardinality(NotOlder(c, x)) \in Nat
      BY <2>5, CacheFinite DEF Newest
    <3>. QED BY <3>5, <3>6, BoundsAssumption
  <2>. QED BY <2>4, <2>5
<1>. QED BY <1>1, <1>2

LEMMA NewestInit == Init => CacheHoldsNewest
BY DEF Init, CacheHoldsNewest

\* Only the two Redis commands of oneChat touch a timeline.
LEMMA NewestNext == TypeOK /\ CacheHoldsNewest /\ [Next]_vars => CacheHoldsNewest'
<1>. SUFFICES ASSUME TypeOK, CacheHoldsNewest, [Next]_vars PROVE CacheHoldsNewest'
  OBVIOUS
<1>1. \A u \in Users : Newest(cache[u], stored[u])
  BY DEF CacheHoldsNewest, Newest
<1>2. cache \in [Users -> SUBSET Msgs] /\ stored \in [Users -> SUBSET Msgs]
  BY DEF TypeOK
<1>3. SUFFICES ASSUME NEW u \in Users PROVE Newest(cache'[u], stored'[u])
  BY DEF CacheHoldsNewest, Newest, NotOlder
<1>4. ASSUME UNCHANGED cacheVars PROVE Newest(cache'[u], stored'[u])
  BY <1>1, <1>4 DEF cacheVars
<1>5. ASSUME NEW t \in Tasks, CacheAdd(t) PROVE Newest(cache'[u], stored'[u])
  <2>1. CASE u = Rcv(t)
    <3>1. cache'[u] = cache[u] \cup {Msg(t)} /\ stored'[u] = stored[u] \cup {Msg(t)}
      BY <1>2, <1>5, <2>1 DEF CacheAdd
    <3>. QED BY <1>1, <1>2, <3>1, AddKeepsNewest, TaskFacts
  <2>2. CASE u # Rcv(t)
    BY <1>1, <1>2, <1>5, <2>2 DEF CacheAdd
  <2>. QED BY <2>1, <2>2
<1>6. ASSUME NEW t \in Tasks, CacheTrim(t) PROVE Newest(cache'[u], stored'[u])
  <2>1. PICK keep \in SUBSET cache[Rcv(t)] :
          IsTrim(cache[Rcv(t)], keep) /\ cache' = [cache EXCEPT ![Rcv(t)] = keep]
    BY <1>6 DEF CacheTrim
  <2>2. stored' = stored
    BY <1>6 DEF CacheTrim
  <2>3. CASE u = Rcv(t)
    <3>1. cache'[u] = keep /\ IsTrim(cache[u], keep) /\ keep \in SUBSET cache[u]
      BY <1>2, <2>1, <2>3
    <3>. QED BY <1>1, <1>2, <2>2, <3>1, TrimKeepsNewest
  <2>4. CASE u # Rcv(t)
    BY <1>1, <1>2, <2>1, <2>2, <2>4
  <2>. QED BY <2>3, <2>4
<1>7. CASE \E t \in Tasks : Accept(t) \/ Enqueue(t)
  BY <1>4, <1>7 DEF Accept, Enqueue
<1>8. CASE \E n \in Nodes : SaveTake(n) \/ SaveInsert(n) \/ SaveFails(n) \/ Crash(n)
  BY <1>4, <1>8 DEF SaveTake, SaveInsert, SaveFails, SaveBatch, Crash
<1>9. CASE \E w \in Users : \/ SyncMin(w) \/ SyncRange(w) \/ SyncQuery(w)
                            \/ SyncQueryFails(w) \/ SyncReply(w) \/ SyncDropped(w)
  BY <1>4, <1>9
  DEF SyncMin, SyncRange, SyncQuery, SyncQueryFails, Answer, SyncReply, SyncDropped
<1>10. CASE UNCHANGED vars
  BY <1>4, <1>10 DEF vars
<1>. QED
  BY <1>5, <1>6, <1>7, <1>8, <1>9, <1>10 DEF Next

\* For any capacity, any messages and any interleaving, a timeline holds the
\* newest of the messages ever put in it.
THEOREM TimelineHoldsNewest == Spec => []CacheHoldsNewest
BY TypeInit, TypeNext, NewestInit, NewestNext, PTL DEF Spec

\* No key is a hit but by the least member, and the key of a new client is none.
LEMMA HitFacts ==
    ASSUME NEW u \in Users, cache[u] \in SUBSET Msgs, NEW key \in Ids \cup {0}, Hit(u, key)
    PROVE  /\ key # 0
           /\ ~Misread(u, key) =>
                 \E m \in cache[u] : Score[key] >= Rank(m)
                                     /\ \A other \in cache[u] : Rank(m) <= Rank(other)
<1>1. PICK m \in cache[u] : /\ \A other \in cache[u] : Rank(m) <= Rank(other)
                            /\ key >= Read[MsgId[m]]
  BY DEF Hit, Least
<1>2. Read[MsgId[m]] \in Nat \ {0} /\ Rank(m) \in Nat /\ Score[key] \in Nat
  BY ReadAssumption, IdFacts, ScoreFacts
<1>3. key # 0
  BY <1>1, <1>2
<1>4. ASSUME ~Misread(u, key) PROVE Score[key] >= Rank(m)
  <2>1. ~(Score[key] < Rank(m))
    BY <1>1, <1>4 DEF Misread, Least
  <2>. QED BY <1>2, <2>1
<1>. QED BY <1>1, <1>3, <1>4

\* The hit rule follows: what is gone has CacheCap messages in the timeline that
\* are not older, which are then all of it, so a key at or above the smallest
\* score is not below it.
LEMMA NewestMakesHitsCover == TypeOK /\ CacheHoldsNewest => HitCoversUnread
<1>. SUFFICES ASSUME TypeOK, CacheHoldsNewest,
                     NEW u \in Users, Cardinality(cache[u]) <= CacheCap,
                     NEW key \in Ids \cup {0}, Hit(u, key)
              PROVE  key # 0 /\ (Misread(u, key) \/ Covered(u, key))
  BY DEF HitCoversUnread
<1>1. cache[u] \in SUBSET Msgs /\ stored[u] \in SUBSET Msgs
  BY DEF TypeOK
<1>2. key # 0
  BY <1>1, HitFacts
<1>. SUFFICES ASSUME ~Misread(u, key), NEW m \in AfterScore(stored[u], key), m \notin cache[u]
              PROVE  FALSE
  BY <1>2 DEF Covered
<1>3. m \in stored[u] \ cache[u] /\ Rank(m) > Score[key]
  BY DEF AfterScore
<1>4. Rank(m) \in Nat /\ Score[key] \in Nat
  BY <1>1, <1>3, ScoreFacts
<1>5. /\ IsFiniteSet(cache[u])
      /\ Cardinality(cache[u]) \in Nat /\ Cardinality(NotOlder(cache[u], m)) \in Nat
      /\ NotOlder(cache[u], m) \in SUBSET cache[u]
  BY <1>1, CacheFinite
<1>6. Cardinality(NotOlder(cache[u], m)) >= CacheCap
  BY <1>3 DEF CacheHoldsNewest
<1>7. Cardinality(NotOlder(cache[u], m)) <= Cardinality(cache[u])
  BY <1>5, FS_Subset
<1>8. Cardinality(NotOlder(cache[u], m)) = Cardinality(cache[u])
  BY <1>5, <1>6, <1>7, BoundsAssumption
<1>9. NotOlder(cache[u], m) = cache[u]
  BY <1>5, <1>8, FS_Subset
<1>10. PICK least \in cache[u] : Score[key] >= Rank(least)
  BY <1>1, HitFacts
<1>11. Rank(least) >= Rank(m) /\ Rank(least) \in Nat
  BY <1>1, <1>9, <1>10, ScoreFacts DEF NotOlder
<1>. QED BY <1>3, <1>4, <1>10, <1>11

\* The rule of syncMessages is right in every reachable state where no handler
\* is between its ZADD and its trim and the minimum is read as it is.
THEOREM HitsCoverUnread == Spec => []HitCoversUnread
BY TypeCorrect, TimelineHoldsNewest, NewestMakesHitsCover, PTL
-----------------------------------------------------------------------------
\* What backgroundSaveThread takes and what it leaves are the two parts of the
\* queue, in its order.
LEMMA SplitFacts ==
    ASSUME NEW q \in Seq(Msgs)
    PROVE  LET n == Len(Taken(q)) IN
           /\ n \in 0..Len(q) /\ Len(q) \in Nat /\ Len(Left(q)) = Len(q) - n
           /\ \A i \in 1..n : Taken(q)[i] = q[i]
           /\ \A i \in 1..(Len(q) - n) : Left(q)[i] = q[n + i]
<1>. DEFINE n == IF Len(q) < BatchMax THEN Len(q) ELSE BatchMax
<1>1. Len(q) \in Nat /\ n \in 0..Len(q)
  BY BoundsAssumption, LenProperties
<1>2. Len(Taken(q)) = n /\ \A i \in 1..n : Taken(q)[i] = q[i]
  BY <1>1, SubSeqProperties DEF Taken
<1>3. Left(q) = SubSeq(q, n + 1, Len(q))
  BY <1>2 DEF Left
<1>4. Len(Left(q)) = Len(q) - n /\ \A i \in 1..(Len(q) - n) : Left(q)[i] = q[n + i]
  <2>1. \A i \in 1..(Len(q) - n) : (n + 1) + i - 1 = n + i
    BY <1>1
  <2>. QED BY <1>1, <1>3, <2>1, SubSeqProperties
<1>. QED BY <1>1, <1>2, <1>4

\* SeqIds in terms of positions.
LEMMA InSeqIds ==
    ASSUME NEW q \in Seq(Msgs), NEW m
    PROVE  m \in SeqIds(q) <=> \E i \in 1..Len(q) : q[i] = m
BY LenProperties DEF SeqIds

LEMMA SplitIds ==
    ASSUME NEW q \in Seq(Msgs)
    PROVE  SeqIds(q) = SeqIds(Taken(q)) \cup SeqIds(Left(q))
<1>. DEFINE n == Len(Taken(q))
<1>1. /\ n \in 0..Len(q) /\ Len(q) \in Nat /\ Len(Left(q)) = Len(q) - n
      /\ \A i \in 1..n : Taken(q)[i] = q[i]
      /\ \A i \in 1..(Len(q) - n) : Left(q)[i] = q[n + i]
  BY SplitFacts
<1>2. Taken(q) \in Seq(Msgs) /\ Left(q) \in Seq(Msgs)
  BY TakeFacts
<1>3. ASSUME NEW m \in SeqIds(q) PROVE m \in SeqIds(Taken(q)) \cup SeqIds(Left(q))
  <2>1. PICK i \in 1..Len(q) : q[i] = m
    BY InSeqIds
  <2>2. CASE i <= n
    BY <1>1, <1>2, <2>1, <2>2, InSeqIds
  <2>3. CASE i > n
    <3>1. i - n \in 1..(Len(q) - n) /\ n + (i - n) = i
      BY <1>1, <2>3
    <3>. QED BY <1>1, <1>2, <2>1, <3>1, InSeqIds
  <2>. QED BY <1>1, <2>2, <2>3
<1>4. SeqIds(Taken(q)) \subseteq SeqIds(q)
  <2>. SUFFICES ASSUME NEW m \in SeqIds(Taken(q)) PROVE m \in SeqIds(q)
    OBVIOUS
  <2>1. PICK i \in 1..n : Taken(q)[i] = m
    BY <1>2, InSeqIds
  <2>. QED BY <1>1, <2>1, InSeqIds
<1>5. SeqIds(Left(q)) \subseteq SeqIds(q)
  <2>. SUFFICES ASSUME NEW m \in SeqIds(Left(q)) PROVE m \in SeqIds(q)
    OBVIOUS
  <2>1. PICK i \in 1..(Len(q) - n) : Left(q)[i] = m
    BY <1>1, <1>2, InSeqIds
  <2>2. n + i \in 1..Len(q) /\ q[n + i] = m
    BY <1>1, <2>1
  <2>. QED BY <2>2, InSeqIds
<1>. QED BY <1>3, <1>4, <1>5

LEMMA AppendIds ==
    ASSUME NEW q \in Seq(Msgs), NEW m \in Msgs
    PROVE  /\ SeqIds(Append(q, m)) = SeqIds(q) \cup {m}
           /\ Append(q, m) \in Seq(Msgs) /\ Len(q) \in Nat
           /\ Len(Append(q, m)) = Len(q) + 1 /\ Append(q, m)[Len(q) + 1] = m
           /\ \A i \in 1..Len(q) : Append(q, m)[i] = q[i]
<1>1. /\ Append(q, m) \in Seq(Msgs) /\ Len(q) \in Nat
      /\ Len(Append(q, m)) = Len(q) + 1 /\ Append(q, m)[Len(q) + 1] = m
      /\ \A i \in 1..Len(q) : Append(q, m)[i] = q[i]
  BY AppendProperties, LenProperties
<1>2. ASSUME NEW x PROVE x \in SeqIds(Append(q, m)) <=> x \in SeqIds(q) \cup {m}
  <2>1. x \in SeqIds(Append(q, m)) <=> \E i \in 1..(Len(q) + 1) : Append(q, m)[i] = x
    BY <1>1, InSeqIds
  <2>2. x \in SeqIds(q) <=> \E i \in 1..Len(q) : q[i] = x
    BY InSeqIds
  <2>3. 1..(Len(q) + 1) = 1..Len(q) \cup {Len(q) + 1}
    BY <1>1
  <2>. QED BY <1>1, <2>1, <2>2, <2>3
<1>. QED BY <1>1, <1>2

LEMMA NoIds == SeqIds(<<>>) = {}
BY DEF SeqIds

-----------------------------------------------------------------------------
LEMMA HeldInit == Init => AckedIsHeld
BY DEF Init, AckedIsHeld

\* Each step of a message's way is taken from where the step before left it.
LEMMA HeldNext == TypeOK /\ AckedIsHeld /\ [Next]_vars => AckedIsHeld'
<1>. SUFFICES ASSUME TypeOK, AckedIsHeld, [Next]_vars PROVE AckedIsHeld'
  OBVIOUS
<1>1. /\ pc \in [Tasks -> HandlerPCs] /\ acked \subseteq Tasks
      /\ saveQueue \in [Nodes -> Seq(Msgs)] /\ batch \in [Nodes -> Seq(Msgs)]
  BY DEF TypeOK
<1>. DEFINE In(m) == m \in history \cup refused \cup lost
            Handled(m) == \E t \in Tasks : pc[t] = "acked" /\ Msg(t) = m
            Waits(m) == \E n \in Nodes : m \in SeqIds(saveQueue[n]) \cup SeqIds(batch[n])
            There(m) == In(m) \/ Handled(m) \/ Waits(m)
<1>2. /\ AckedIsHeld <=> \A t \in acked : There(Msg(t))
      /\ AckedIsHeld' <=> \A t \in acked' : There(Msg(t))'
  BY TaskFacts DEF AckedIsHeld, Held, InMemory, Waiting
<1>3. \A t \in acked : There(Msg(t))
  BY <1>2
<1>4. ASSUME NEW t \in Tasks, Accept(t) PROVE AckedIsHeld'
  <2>1. \A x \in Tasks : pc[x] = "acked" \/ x = t => pc'[x] = "acked"
    BY <1>1, <1>4 DEF Accept
  <2>2. acked' = acked \cup {t} /\ UNCHANGED <<saveQueue, batch, history, refused, lost>>
    BY <1>4 DEF Accept, saverVars
  <2>3. There(Msg(t))' /\ \A m : There(m) => There(m)'
    BY <2>1, <2>2
  <2>. QED BY <1>2, <1>3, <2>2, <2>3
<1>5. ASSUME NEW t \in Tasks, Enqueue(t) PROVE AckedIsHeld'
  <2>1. \A x \in Tasks : pc[x] = "acked" => pc'[x] = "acked" \/ x = t
    BY <1>1, <1>5 DEF Enqueue
  <2>2. /\ UNCHANGED <<acked, batch, history, refused, lost>>
        /\ saveQueue' = [saveQueue EXCEPT ![At(t)] = Append(@, Msg(t))]
        /\ At(t) \in Nodes /\ Msg(t) \in Msgs
    BY <1>5, TaskFacts DEF Enqueue
  <2>3. SeqIds(saveQueue'[At(t)]) = SeqIds(saveQueue[At(t)]) \cup {Msg(t)}
    BY <1>1, <2>2, AppendIds
  <2>4. \A n \in Nodes \ {At(t)} : saveQueue'[n] = saveQueue[n]
    BY <1>1, <2>2
  <2>5. Waits(Msg(t))' /\ \A m : Waits(m) => Waits(m)'
    BY <2>2, <2>3, <2>4
  <2>6. \A m : There(m) => There(m)'
    BY <2>1, <2>2, <2>5
  <2>. QED BY <1>2, <1>3, <2>2, <2>6
<1>6. ASSUME NEW t \in Tasks, CacheAdd(t) \/ CacheTrim(t) PROVE AckedIsHeld'
  <2>1. \A x \in Tasks : pc[x] = "acked" => pc'[x] = "acked"
    BY <1>1, <1>6 DEF CacheAdd, CacheTrim
  <2>2. UNCHANGED <<acked, saveQueue, batch, history, refused, lost>>
    BY <1>6 DEF CacheAdd, CacheTrim, saverVars
  <2>3. \A m : There(m) => There(m)'
    BY <2>1, <2>2
  <2>. QED BY <1>2, <1>3, <2>2, <2>3
<1>7. ASSUME NEW n \in Nodes, SaveTake(n) PROVE AckedIsHeld'
  <2>1. SeqIds(saveQueue[n]) = SeqIds(saveQueue'[n]) \cup SeqIds(batch'[n]) /\ SeqIds(batch[n]) = {}
    BY <1>1, <1>7, SplitIds, NoIds DEF SaveTake
  <2>2. /\ UNCHANGED <<pc, acked, history, refused, lost>>
        /\ \A o \in Nodes \ {n} : saveQueue'[o] = saveQueue[o] /\ batch'[o] = batch[o]
    BY <1>1, <1>7 DEF SaveTake
  <2>3. \A m : There(m) => There(m)'
    BY <2>1, <2>2
  <2>. QED BY <1>2, <1>3, <2>2, <2>3
<1>8. ASSUME NEW n \in Nodes, SaveInsert(n) \/ SaveFails(n) PROVE AckedIsHeld'
  <2>1. /\ SeqIds(batch[n]) \cup history \cup refused \subseteq history' \cup refused'
        /\ UNCHANGED <<pc, acked, saveQueue, lost>>
        /\ \A o \in Nodes \ {n} : batch'[o] = batch[o]
    BY <1>1, <1>8 DEF SaveInsert, SaveFails, SaveBatch
  <2>2. \A m : There(m) => There(m)'
    BY <2>1
  <2>. QED BY <1>2, <1>3, <2>1, <2>2
<1>9. CASE \E w \in Users : \/ SyncMin(w) \/ SyncRange(w) \/ SyncQuery(w)
                            \/ SyncQueryFails(w) \/ SyncReply(w) \/ SyncDropped(w)
  BY <1>2, <1>3, <1>9
  DEF SyncMin, SyncRange, SyncQuery, SyncQueryFails, Answer, SyncReply, SyncDropped, saverVars
<1>10. ASSUME NEW n \in Nodes, Crash(n) PROVE AckedIsHeld'
  <2>1. /\ InMemory(n) \cup lost \subseteq lost' /\ UNCHANGED <<acked, history, refused>>
        /\ \A o \in Nodes \ {n} : saveQueue'[o] = saveQueue[o] /\ batch'[o] = batch[o]
        /\ \A x \in Tasks : At(x) # n => pc'[x] = pc[x]
    BY <1>1, <1>10 DEF Crash
  <2>2. ASSUME NEW m, There(m) PROVE There(m)'
    <3>1. CASE In(m)
      BY <2>1, <3>1
    <3>2. ASSUME NEW x \in Tasks, pc[x] = "acked", Msg(x) = m PROVE There(m)'
      BY <2>1, <3>2 DEF InMemory
    <3>3. ASSUME NEW o \in Nodes, m \in SeqIds(saveQueue[o]) \cup SeqIds(batch[o]) PROVE There(m)'
      BY <2>1, <3>3 DEF InMemory, Waiting
    <3>. QED BY <2>2, <3>1, <3>2, <3>3
  <2>. QED BY <1>2, <1>3, <2>1, <2>2
<1>11. CASE UNCHANGED vars
  BY <1>2, <1>3, <1>11 DEF vars, saverVars
<1>. QED
  BY <1>4, <1>5, <1>6, <1>7, <1>8, <1>9, <1>10, <1>11 DEF Next

\* Wherever the process dies and however the batches fall: an acknowledged message
\* is somewhere, or MySQL refused it, or memory lost it (chatservice.cpp:438-447).
THEOREM AckedIsHeldAlways == Spec => []AckedIsHeld
BY TypeInit, TypeNext, HeldInit, HeldNext, PTL DEF Spec
-----------------------------------------------------------------------------
\* Why MySQL takes every batch when no two acknowledged messages have one id: each
\* is at one place of the way to MessageHistory, once.
OnItsWay == history \cup UNION {Waiting(n) : n \in Nodes}
Doubled == \E s, t \in acked : s # t /\ MsgId[Msg(s)] = MsgId[Msg(t)]
Once(q) == \A i, j \in 1..Len(q) : q[i] = q[j] => i = j
Handled(m) == \E t \in acked : Msg(t) = m /\ pc[t] \notin {"unsent", "acked"}

Singles ==
    /\ \A t \in Tasks : pc[t] \notin {"unsent", "dead"} => t \in acked
    /\ \A m \in history : Handled(m)
    /\ \A n \in Nodes : \A m \in Waiting(n) : Handled(m) /\ On[m] = n
    /\ ~Doubled => \A n \in Nodes :
         /\ Once(saveQueue[n]) /\ Once(batch[n])
         /\ SeqIds(saveQueue[n]) \cap SeqIds(batch[n]) = {}
         /\ Waiting(n) \cap history = {}

Caused == Singles /\ RefusalHasCause

\* Two handlers of one message are two acknowledged tasks of one id.
LEMMA TwoCopies ==
    ASSUME NEW m, Handled(m), NEW t \in acked, Msg(t) = m, pc[t] = "acked"
    PROVE  Doubled
BY DEF Handled, Doubled

\* A queue without repetitions is split into two without a common id.
LEMMA SplitOnce ==
    ASSUME NEW q \in Seq(Msgs), Once(q)
    PROVE  Once(Taken(q)) /\ Once(Left(q)) /\ SeqIds(Taken(q)) \cap SeqIds(Left(q)) = {}
<1>. DEFINE n == Len(Taken(q))
<1>1. /\ n \in 0..Len(q) /\ Len(q) \in Nat /\ Len(Left(q)) = Len(q) - n
      /\ \A i \in 1..n : Taken(q)[i] = q[i]
      /\ \A i \in 1..(Len(q) - n) : Left(q)[i] = q[n + i]
  BY SplitFacts
<1>2. \A i \in 1..n : i \in 1..Len(q)
  BY <1>1
<1>3. \A i \in 1..(Len(q) - n) : n + i \in (n + 1)..Len(q) /\ n + i \in 1..Len(q)
  BY <1>1
<1>4. Once(Taken(q))
  BY <1>1, <1>2 DEF Once
<1>5. Once(Left(q))
  <2>. SUFFICES ASSUME NEW i \in 1..(Len(q) - n), NEW j \in 1..(Len(q) - n),
                       Left(q)[i] = Left(q)[j]
                PROVE  i = j
    BY <1>1 DEF Once
  <2>1. q[n + i] = q[n + j]
    BY <1>1
  <2>2. n + i = n + j
    BY <1>3, <2>1 DEF Once
  <2>. QED BY <1>1, <2>2
<1>6. ASSUME NEW m \in SeqIds(Taken(q)), m \in SeqIds(Left(q)) PROVE FALSE
  <2>1. PICK i \in 1..n : Taken(q)[i] = m
    BY TakeFacts, InSeqIds
  <2>2. PICK j \in 1..(Len(q) - n) : Left(q)[j] = m
    BY <1>1, <1>6, TakeFacts, InSeqIds
  <2>3. i = n + j
    BY <1>1, <1>2, <1>3, <2>1, <2>2 DEF Once
  <2>. QED BY <1>1, <2>3
<1>. QED BY <1>4, <1>5, <1>6

LEMMA CausedInit == Init => Caused
<1>. SUFFICES ASSUME Init PROVE Caused
  OBVIOUS
<1>1. \A n \in Nodes : saveQueue[n] = <<>> /\ batch[n] = <<>> /\ Waiting(n) = {}
  BY NoIds DEF Init, Waiting
<1>2. \A n \in Nodes : Once(saveQueue[n]) /\ Once(batch[n]) /\ SeqIds(batch[n]) = {}
  BY <1>1, NoIds DEF Once
<1>. QED BY <1>1, <1>2 DEF Init, Caused, Singles, RefusalHasCause

\* Singles under a step that leaves the way of the messages alone.
LEMMA SinglesKept ==
    ASSUME TypeOK, Singles, UNCHANGED <<saveQueue, batch, history>>,
           acked \subseteq acked', acked' \subseteq Tasks,
           \A x \in Tasks : pc[x] \notin {"unsent", "acked"} => pc'[x] \notin {"unsent", "acked"},
           \A x \in Tasks : pc'[x] \notin {"unsent", "dead"} => x \in acked'
    PROVE  Singles'
<1>1. acked \subseteq Tasks
  BY DEF TypeOK
<1>2. Doubled => Doubled'
  BY DEF Doubled
<1>3. \A n : Waiting(n)' = Waiting(n)
  BY DEF Waiting
<1>4. \A m : Handled(m) => Handled(m)'
  BY <1>1 DEF Handled
<1>. QED BY <1>2, <1>3, <1>4 DEF Singles, Once

LEMMA SinglesNext == TypeOK /\ Singles /\ [Next]_vars => Singles'
<1>. SUFFICES ASSUME TypeOK, Singles, [Next]_vars PROVE Singles'
  OBVIOUS
<1>1. /\ pc \in [Tasks -> HandlerPCs] /\ acked \subseteq Tasks /\ history \subseteq Msgs
      /\ saveQueue \in [Nodes -> Seq(Msgs)] /\ batch \in [Nodes -> Seq(Msgs)]
  BY DEF TypeOK
<1>2. ASSUME NEW t \in Tasks, Accept(t) \/ CacheAdd(t) \/ CacheTrim(t) PROVE Singles'
  <2>1. acked \subseteq acked' /\ acked' \subseteq Tasks /\ UNCHANGED <<saveQueue, batch, history>>
    BY <1>1, <1>2 DEF Accept, CacheAdd, CacheTrim, saverVars
  <2>2. pc' = [pc EXCEPT ![t] = pc'[t]] /\ pc'[t] \in {"acked", "added", "done"}
    BY <1>1, <1>2 DEF Accept, CacheAdd, CacheTrim
  <2>3. t \in acked' /\ (pc[t] \notin {"unsent", "acked"} => pc'[t] \notin {"unsent", "acked"})
    BY <1>1, <1>2 DEF Accept, CacheAdd, CacheTrim, Singles
  <2>4. \A x \in Tasks : pc[x] \notin {"unsent", "acked"} => pc'[x] \notin {"unsent", "acked"}
    BY <1>1, <2>2, <2>3
  <2>5. \A x \in Tasks : pc'[x] \notin {"unsent", "dead"} => x \in acked'
    BY <1>1, <2>1, <2>2, <2>3 DEF Singles
  <2>. QED BY <2>1, <2>4, <2>5, SinglesKept
<1>3. ASSUME NEW t \in Tasks, Enqueue(t) PROVE Singles'
  <2>. DEFINE q == saveQueue[At(t)]
              r == saveQueue'[At(t)]
  <2>1. /\ pc[t] = "acked" /\ pc' = [pc EXCEPT ![t] = "queued"] /\ t \in acked
        /\ UNCHANGED <<acked, batch, history>>
        /\ saveQueue' = [saveQueue EXCEPT ![At(t)] = Append(@, Msg(t))]
        /\ Msg(t) \in Msgs /\ At(t) \in Nodes /\ On[Msg(t)] = At(t)
    BY <1>3, TaskFacts DEF Enqueue, Singles
  <2>2. /\ SeqIds(r) = SeqIds(q) \cup {Msg(t)} /\ Len(q) \in Nat /\ Len(r) = Len(q) + 1
        /\ r[Len(q) + 1] = Msg(t) /\ \A i \in 1..Len(q) : r[i] = q[i]
        /\ q \in Seq(Msgs)
    BY <1>1, <2>1, AppendIds
  <2>3. \A n \in Nodes \ {At(t)} : saveQueue'[n] = saveQueue[n]
    BY <1>1, <2>1
  <2>4. \A x \in Tasks : pc'[x] \notin {"unsent", "dead"} => x \in acked'
    BY <1>1, <2>1 DEF Singles
  <2>5. Handled(Msg(t))' /\ \A m : Handled(m) => Handled(m)'
    <3>1. \A x \in Tasks : pc[x] \notin {"unsent", "acked"} => pc'[x] \notin {"unsent", "acked"}
      BY <1>1, <2>1
    <3>2. pc'[t] \notin {"unsent", "acked"}
      BY <1>1, <2>1
    <3>. QED BY <1>1, <2>1, <3>1, <3>2 DEF Handled
  <2>6. \A n \in Nodes : Waiting(n)' = IF n = At(t) THEN Waiting(n) \cup {Msg(t)} ELSE Waiting(n)
    BY <2>1, <2>2, <2>3 DEF Waiting
  <2>7. \A n \in Nodes : \A m \in Waiting(n)' : Handled(m)' /\ On[m] = n
    BY <2>1, <2>5, <2>6 DEF Singles
  <2>8. \A m \in history' : Handled(m)'
    BY <2>1, <2>5 DEF Singles
  <2>9. ASSUME ~Doubled', NEW n \in Nodes
        PROVE  /\ Once(saveQueue'[n]) /\ Once(batch'[n])
               /\ SeqIds(saveQueue'[n]) \cap SeqIds(batch'[n]) = {}
               /\ Waiting(n)' \cap history' = {}
    <3>1. ~Doubled
      BY <2>1, <2>9 DEF Doubled
    <3>2. ~Handled(Msg(t))
      BY <2>1, <3>1, TwoCopies
    <3>3. Msg(t) \notin history /\ \A o \in Nodes : Msg(t) \notin Waiting(o)
      BY <3>2 DEF Singles
    <3>4. /\ Once(saveQueue[n]) /\ Once(batch[n])
          /\ SeqIds(saveQueue[n]) \cap SeqIds(batch[n]) = {} /\ Waiting(n) \cap history = {}
      BY <3>1 DEF Singles
    <3>5. CASE n # At(t)
      BY <2>1, <2>3, <2>6, <3>4, <3>5
    <3>6. CASE n = At(t)
      <4>1. \A i \in 1..Len(q) : q[i] # Msg(t)
        BY <2>1, <2>2, <3>3, InSeqIds DEF Waiting
      <4>2. Once(r)
        <5>. SUFFICES ASSUME NEW i \in 1..(Len(q) + 1), NEW j \in 1..(Len(q) + 1), r[i] = r[j]
                      PROVE  i = j
          BY <2>2 DEF Once
        <5>1. i \in 1..Len(q) \/ i = Len(q) + 1
          BY <2>2
        <5>2. j \in 1..Len(q) \/ j = Len(q) + 1
          BY <2>2
        <5>. QED BY <2>2, <3>4, <3>6, <4>1, <5>1, <5>2 DEF Once
      <4>3. SeqIds(r) \cap SeqIds(batch[n]) = {}
        BY <2>1, <2>2, <3>3, <3>4, <3>6 DEF Waiting
      <4>. QED BY <2>1, <2>6, <3>3, <3>4, <3>6, <4>2, <4>3
    <3>. QED BY <3>5, <3>6
  <2>. QED BY <2>4, <2>7, <2>8, <2>9 DEF Singles
<1>4. ASSUME NEW n \in Nodes, SaveTake(n) PROVE Singles'
  <2>1. /\ batch[n] = <<>> /\ batch' = [batch EXCEPT ![n] = Taken(saveQueue[n])]
        /\ saveQueue' = [saveQueue EXCEPT ![n] = Left(saveQueue[n])]
        /\ UNCHANGED <<pc, acked, history>>
    BY <1>4 DEF SaveTake
  <2>2. /\ SeqIds(saveQueue[n]) = SeqIds(saveQueue'[n]) \cup SeqIds(batch'[n])
        /\ SeqIds(batch[n]) = {}
    BY <1>1, <2>1, SplitIds, NoIds
  <2>3. \A o \in Nodes \ {n} : saveQueue'[o] = saveQueue[o] /\ batch'[o] = batch[o]
    BY <1>1, <2>1
  <2>4. \A o \in Nodes : Waiting(o)' = Waiting(o)
    BY <2>2, <2>3 DEF Waiting
  <2>5. (Doubled' <=> Doubled) /\ \A m : Handled(m)' <=> Handled(m)
    BY <2>1 DEF Doubled, Handled
  <2>6. ASSUME ~Doubled
        PROVE  /\ Once(saveQueue'[n]) /\ Once(batch'[n])
               /\ SeqIds(saveQueue'[n]) \cap SeqIds(batch'[n]) = {}
    <3>1. Once(saveQueue[n])
      BY <2>6 DEF Singles
    <3>. QED BY <1>1, <2>1, <3>1, SplitOnce
  <2>. QED BY <2>1, <2>3, <2>4, <2>5, <2>6 DEF Singles
<1>5. ASSUME NEW n \in Nodes, SaveInsert(n) \/ SaveFails(n) PROVE Singles'
  <2>1. /\ batch' = [batch EXCEPT ![n] = <<>>] /\ UNCHANGED <<pc, acked, saveQueue>>
        /\ history' = history \/ history' = history \cup SeqIds(batch[n])
    BY <1>5 DEF SaveInsert, SaveFails, SaveBatch
  <2>2. /\ SeqIds(batch'[n]) = {} /\ Once(batch'[n])
        /\ \A o \in Nodes \ {n} : batch'[o] = batch[o]
    BY <1>1, <2>1, NoIds DEF Once
  <2>3. \A o \in Nodes : Waiting(o)' \subseteq Waiting(o)
    BY <2>1, <2>2 DEF Waiting
  <2>4. (Doubled' <=> Doubled) /\ \A m : Handled(m)' <=> Handled(m)
    BY <2>1 DEF Doubled, Handled
  <2>5. SeqIds(batch[n]) \subseteq Waiting(n)
    BY DEF Waiting
  <2>6. \A m \in history' : Handled(m)'
    BY <2>1, <2>4, <2>5 DEF Singles
  <2>7. ASSUME ~Doubled, NEW o \in Nodes PROVE Waiting(o)' \cap history' = {}
    <3>1. Waiting(o) \cap history = {} /\ SeqIds(saveQueue[n]) \cap SeqIds(batch[n]) = {}
      BY <2>7 DEF Singles
    <3>2. CASE o = n
      BY <2>1, <2>2, <3>1, <3>2 DEF Waiting
    <3>3. CASE o # n
      <4>1. Waiting(o)' \cap SeqIds(batch[n]) = {}
        BY <2>3, <2>5, <3>3 DEF Singles
      <4>. QED BY <2>1, <2>3, <3>1, <4>1
    <3>. QED BY <3>2, <3>3
  <2>. QED BY <2>1, <2>2, <2>3, <2>4, <2>6, <2>7 DEF Singles
<1>6. CASE \E w \in Users : \/ SyncMin(w) \/ SyncRange(w) \/ SyncQuery(w)
                            \/ SyncQueryFails(w) \/ SyncReply(w) \/ SyncDropped(w)
  <2>1. UNCHANGED <<pc, acked, saveQueue, batch, history>>
    BY <1>6
    DEF SyncMin, SyncRange, SyncQuery, SyncQueryFails, Answer, SyncReply, SyncDropped, saverVars
  <2>. QED BY <1>1, <2>1, SinglesKept DEF Singles
<1>7. ASSUME NEW n \in Nodes, Crash(n) PROVE Singles'
  <2>1. /\ saveQueue' = [saveQueue EXCEPT ![n] = <<>>] /\ batch' = [batch EXCEPT ![n] = <<>>]
        /\ UNCHANGED <<acked, history>>
    BY <1>7 DEF Crash
  <2>2. /\ Waiting(n)' = {} /\ Once(saveQueue'[n]) /\ Once(batch'[n])
        /\ SeqIds(saveQueue'[n]) = {}
        /\ \A o \in Nodes \ {n} : saveQueue'[o] = saveQueue[o] /\ batch'[o] = batch[o]
        /\ \A o \in Nodes \ {n} : Waiting(o)' = Waiting(o)
    BY <1>1, <2>1, NoIds DEF Once, Waiting
  <2>3. \A t \in Tasks : pc'[t] = pc[t] \/ (pc'[t] = "dead" /\ At(t) = n)
    BY <1>7 DEF Crash
  <2>4. \A t \in Tasks : pc'[t] \notin {"unsent", "dead"} => t \in acked'
    BY <2>1, <2>3 DEF Singles
  <2>5. (Doubled' <=> Doubled) /\ \A m : Handled(m) => Handled(m)'
    BY <1>1, <2>1, <2>3 DEF Doubled, Handled
  <2>. QED BY <2>1, <2>2, <2>4, <2>5 DEF Singles
<1>8. CASE UNCHANGED vars
  <2>1. UNCHANGED <<pc, acked, saveQueue, batch, history>>
    BY <1>8 DEF vars, saverVars
  <2>. QED BY <1>1, <2>1, SinglesKept DEF Singles
<1>. QED BY <1>2, <1>3, <1>4, <1>5, <1>6, <1>7, <1>8 DEF Next

\* A batch without repetitions and without rows of the table, all of whose ids have
\* one task, is refused only for a long message.
LEMMA WhyRefused ==
    ASSUME TypeOK, Singles, ~Doubled, NEW n \in Nodes, ~Insertable(batch[n])
    PROVE  \E t \in acked : Msg(t) \in LongMsgs
<1>1. batch[n] \in Seq(Msgs) /\ DOMAIN batch[n] = 1..Len(batch[n])
  BY LenProperties DEF TypeOK
<1>2. Once(batch[n]) /\ SeqIds(batch[n]) \cap history = {}
  BY DEF Singles, Waiting
<1>3. \A i \in DOMAIN batch[n] : batch[n][i] \in Waiting(n)
  BY DEF Waiting, SeqIds
\* One task for each id.
<1>4. \A m, k : Handled(m) /\ Handled(k) /\ MsgId[m] = MsgId[k] => m = k
  BY DEF Handled, Doubled
<1>5. \A i, j \in DOMAIN batch[n] : MsgId[batch[n][i]] = MsgId[batch[n][j]] => i = j
  BY <1>1, <1>2, <1>3, <1>4 DEF Singles, Once
<1>6. \A i \in DOMAIN batch[n] : \A m \in history : MsgId[m] # MsgId[batch[n][i]]
  BY <1>2, <1>3, <1>4 DEF Singles, SeqIds
<1>7. PICK m \in SeqIds(batch[n]) : m \in LongMsgs
  BY <1>5, <1>6 DEF Insertable
<1>8. Handled(m)
  BY <1>7 DEF Singles, Waiting
<1>. QED BY <1>7, <1>8 DEF Handled

\* A batch that MySQL refuses has two equal ids, one that is in the table, or a
\* message that is too long, or the call failed.
LEMMA CauseNext == TypeOK /\ Caused /\ [Next]_vars => RefusalHasCause'
<1>. SUFFICES ASSUME TypeOK, Caused, [Next]_vars PROVE RefusalHasCause'
  OBVIOUS
<1>. DEFINE Cause == \/ Doubled
                     \/ \E t \in acked : Msg(t) \in LongMsgs
                     \/ dbFailures > 0
<1>1. RefusalHasCause <=> (refused # {} => Cause)
  BY DEF RefusalHasCause, Doubled
<1>2. RefusalHasCause' <=> (refused' # {} => Cause')
  BY DEF RefusalHasCause, Doubled
<1>3. dbFailures \in Nat
  BY BoundsAssumption DEF TypeOK
<1>4. ASSUME acked \subseteq acked', refused' = refused, dbFailures' \in {dbFailures, dbFailures + 1}
      PROVE  RefusalHasCause'
  <2>1. Cause => Cause'
    BY <1>3, <1>4 DEF Doubled
  <2>. QED BY <1>1, <1>2, <1>4, <2>1 DEF Caused
<1>5. CASE \E t \in Tasks : Accept(t) \/ Enqueue(t) \/ CacheAdd(t) \/ CacheTrim(t)
  BY <1>4, <1>5 DEF Accept, Enqueue, CacheAdd, CacheTrim, saverVars
<1>6. CASE \E n \in Nodes : SaveTake(n) \/ Crash(n)
  BY <1>4, <1>6 DEF SaveTake, Crash
<1>7. ASSUME NEW n \in Nodes, SaveFails(n) PROVE RefusalHasCause'
  BY <1>2, <1>3, <1>7 DEF SaveFails
<1>8. ASSUME NEW n \in Nodes, SaveInsert(n) PROVE RefusalHasCause'
  <2>1. acked' = acked /\ dbFailures' = dbFailures
    BY <1>8 DEF SaveInsert, SaveBatch
  <2>2. Cause' <=> Cause
    BY <2>1 DEF Doubled
  <2>3. CASE Insertable(batch[n])
    BY <1>4, <1>8, <2>1, <2>3 DEF SaveInsert, SaveBatch
  <2>4. CASE ~Insertable(batch[n])
    BY <1>2, <2>2, <2>4, WhyRefused DEF Caused
  <2>. QED BY <2>3, <2>4
<1>9. CASE \E w \in Users : \/ SyncMin(w) \/ SyncRange(w) \/ SyncQuery(w)
                            \/ SyncQueryFails(w) \/ SyncReply(w) \/ SyncDropped(w)
  BY <1>4, <1>9
  DEF SyncMin, SyncRange, SyncQuery, SyncQueryFails, Answer, SyncReply, SyncDropped, saverVars
<1>10. CASE UNCHANGED vars
  BY <1>4, <1>10 DEF vars, saverVars
<1>. QED BY <1>5, <1>6, <1>7, <1>8, <1>9, <1>10 DEF Next

\* However many handlers, nodes, batches and crashes there are: MySQL never refuses
\* a batch of messages that fit and have ids of their own (messagehistorymodel.cpp:34-61).
THEOREM RefusalHasCauseAlways == Spec => []RefusalHasCause
<1>1. Init => Caused
  BY CausedInit
<1>2. TypeOK /\ Caused /\ [Next]_vars => Caused'
  BY SinglesNext, CauseNext DEF Caused
<1>3. Caused => RefusalHasCause
  BY DEF Caused
<1>. QED BY <1>1, <1>2, <1>3, TypeInit, TypeNext, PTL DEF Spec
-----------------------------------------------------------------------------
(* Why a sync key skips nothing. While the messages of a user come in order:   *)
(* they come to MySQL in the order of their ids (Queued), their scores differ  *)
(* and the timeline holds the largest of them (Ranked), and so every answer is *)
(* complete up to its largest id (Syncing).                                    *)

Settled == history \cup refused \cup lost

\* Whatever the order: a message stored for u was entered for u before, and what
\* was entered is on its way on the node of its sender, or settled.
Entries ==
    /\ \A u \in Users : stored[u] \subseteq entered[u] /\ cache[u] \subseteq stored[u]
    /\ \A t \in Tasks : pc[t] = "queued" => Msg(t) \in entered[Rcv(t)]
    /\ \A m \in history : m \in entered[To[m]]
    /\ \A n \in Nodes : \A m \in Waiting(n) : m \in entered[To[m]] /\ On[m] = n
    /\ \A u \in Users : \A m \in entered[u] : To[m] = u /\ m \in Waiting(On[m]) \cup Settled

\* What is before m on the way of one node to MySQL is not after k.
InLine(q, b, m, k) ==
    /\ k \in SeqIds(b) => m \in SeqIds(b) \cup Settled
    /\ \A j \in 1..Len(q) : q[j] = k =>
          m \in SeqIds(b) \cup Settled \/ \E i \in 1..j : q[i] = m

\* A message comes to MySQL when no older one of its user is still to come.
Queued(u) ==
    \A m, k \in entered[u] : MsgId[m] < MsgId[k] =>
        /\ k \in history => m \in Settled
        /\ On[m] = On[k] => InLine(saveQueue[On[k]], batch[On[k]], m, k)

Ranked(u) ==
    /\ \A a, b \in entered[u] : Rank(a) = Rank(b) => a = b
    /\ \A x \in stored[u] \ cache[u], c \in cache[u] : Rank(x) < Rank(c)

\* A key k covers what was entered (ent) and stored (st) if each message up to it
\* was given to the client or is gone, or will be late when it is stored.
Covers(ent, st, gone, k, given) ==
    /\ k = 0 \/ \E m \in ent : k = MsgId[m]
    /\ \A m \in ent : MsgId[m] <= k =>
          m \in given \cup gone \/ (m \notin st /\ \E o \in st : o # m /\ Rank(o) >= Rank(m))

Gone == refused \cup lost

Syncing(u) ==
    /\ Covers(entered[u], stored[u], Gone, lastSyncKey[u], received[u])
    /\ sync[u].pc # "idle" => sync[u].key = lastSyncKey[u]
    /\ sync[u].pc = "range" => \A x \in stored[u] \ cache[u] : Rank(x) <= Score[sync[u].key]
    /\ sync[u].pc = "reply" =>
          Covers(entered[u], stored[u], Gone,
                 NewSyncKey(sync[u].key, sync[u].answer), received[u] \cup sync[u].answer)

InOrder == Entries /\ \A u \in Users : ~disturbed[u] => Queued(u) /\ Ranked(u) /\ Syncing(u)

\* A message that is not late has the largest score and the largest id.
LEMMA NotLate ==
    ASSUME NEW m \in Msgs, NEW S \in SUBSET Msgs, ~Late(m, S)
    PROVE  \A o \in S \ {m} : Rank(o) < Rank(m) /\ MsgId[o] < MsgId[m]
<1>. SUFFICES ASSUME NEW o \in S \ {m} PROVE Rank(o) < Rank(m) /\ MsgId[o] < MsgId[m]
  OBVIOUS
<1>1. Rank(o) \in Nat /\ Rank(m) \in Nat
  BY ScoreFacts
<1>2. Rank(o) < Rank(m)
  BY <1>1 DEF Late
<1>3. MsgId[o] \in Ids /\ MsgId[o] \in Nat /\ MsgId[m] \in Ids /\ MsgId[m] \in Nat
  BY IdFacts
<1>4. ~(MsgId[m] <= MsgId[o])
  BY <1>1, <1>2, <1>3, ScoreAssumption DEF Rank
<1>. QED BY <1>2, <1>3, <1>4

LEMMA InOrderInit == Init => InOrder
<1>. SUFFICES ASSUME Init PROVE InOrder
  OBVIOUS
<1>1. history = {} /\ \A n \in Nodes : Waiting(n) = {}
  BY NoIds DEF Init, Waiting
<1>2. Entries
  BY <1>1 DEF Init, Entries
<1>3. ASSUME NEW u \in Users PROVE Queued(u) /\ Ranked(u) /\ Syncing(u)
  BY DEF Init, Queued, Ranked, Syncing, Covers, IdleSync
<1>. QED BY <1>2, <1>3 DEF InOrder

LEMMA EntriesNext == TypeOK /\ Entries /\ [Next]_vars => Entries'
<1>. SUFFICES ASSUME TypeOK, Entries, [Next]_vars PROVE Entries'
  OBVIOUS
<1>1. /\ pc \in [Tasks -> HandlerPCs]
      /\ saveQueue \in [Nodes -> Seq(Msgs)] /\ batch \in [Nodes -> Seq(Msgs)]
      /\ cache \in [Users -> SUBSET Msgs] /\ stored \in [Users -> SUBSET Msgs]
      /\ entered \in [Users -> SUBSET Msgs]
  BY DEF TypeOK
<1>2. ASSUME UNCHANGED <<saveQueue, batch, history, refused, lost, cache, stored, entered>>,
             \A t \in Tasks : pc'[t] = "queued" => pc[t] = "queued"
      PROVE  Entries'
  BY <1>2 DEF Entries, Waiting, Settled
\* A step of the save thread of n, or its crash.
<1>3. ASSUME NEW n \in Nodes, UNCHANGED <<cache, stored, entered>>,
             \A t \in Tasks : pc'[t] = "queued" => pc[t] = "queued",
             \A o \in Nodes \ {n} : Waiting(o)' = Waiting(o),
             Waiting(n)' \subseteq Waiting(n), history' \subseteq history \cup Waiting(n),
             Waiting(n) \subseteq Waiting(n)' \cup Settled', Settled \subseteq Settled'
      PROVE  Entries'
  <2>1. \A o \in Nodes : /\ Waiting(o)' \subseteq Waiting(o)
                         /\ Waiting(o) \cup Settled \subseteq Waiting(o)' \cup Settled'
    BY <1>3
  <2>2. \A m \in Msgs : On[m] \in Nodes
    BY ToAssumption
  <2>3. \A u \in Users : \A m \in entered'[u] : To[m] = u /\ m \in Waiting(On[m])' \cup Settled'
    BY <1>1, <1>3, <2>1, <2>2 DEF Entries
  <2>. QED BY <1>3, <2>1, <2>3 DEF Entries
<1>4. ASSUME NEW t \in Tasks, Accept(t) PROVE Entries'
  BY <1>1, <1>2, <1>4 DEF Accept, saverVars, cacheVars
<1>5. ASSUME NEW t \in Tasks, Enqueue(t) PROVE Entries'
  <2>1. /\ saveQueue' = [saveQueue EXCEPT ![At(t)] = Append(@, Msg(t))]
        /\ Msg(t) \in Msgs /\ Rcv(t) \in Users /\ At(t) \in Nodes /\ At(t) = On[Msg(t)]
        /\ UNCHANGED <<batch, history, refused, lost, cache, stored>>
        /\ pc' = [pc EXCEPT ![t] = "queued"]
        /\ entered' = [entered EXCEPT ![Rcv(t)] = @ \cup {Msg(t)}]
    BY <1>5, TaskFacts DEF Enqueue, cacheVars
  <2>2. SeqIds(saveQueue'[At(t)]) = SeqIds(saveQueue[At(t)]) \cup {Msg(t)}
    BY <1>1, <2>1, AppendIds
  <2>3. /\ Waiting(At(t))' = Waiting(At(t)) \cup {Msg(t)}
        /\ \A n \in Nodes \ {At(t)} : Waiting(n)' = Waiting(n)
    BY <1>1, <2>1, <2>2 DEF Waiting
  <2>4. To[Msg(t)] = Rcv(t) /\ Settled' = Settled
    BY <2>1 DEF Rcv, Settled
  <2>5. \A u \in Users : entered'[u] = IF u = Rcv(t) THEN entered[u] \cup {Msg(t)} ELSE entered[u]
    BY <1>1, <2>1
  <2>6. \A m \in Msgs : To[m] \in Users /\ On[m] \in Nodes
    BY ToAssumption
  <2>7. \A m \in Msgs : m \in entered[To[m]] => m \in entered'[To[m]]
    BY <2>5, <2>6
  <2>8. history \subseteq Msgs /\ \A n \in Nodes : Waiting(n) \subseteq Msgs
    BY <1>1, SeqIdsFacts DEF TypeOK, Waiting
  <2>9. Msg(t) \in entered'[To[Msg(t)]]
    <3>1. entered'[Rcv(t)] = entered[Rcv(t)] \cup {Msg(t)}
      BY <1>1, <2>1
    <3>. QED BY <2>4, <3>1
  <2>10. \A m \in history' : m \in entered'[To[m]]
    BY <2>1, <2>7, <2>8 DEF Entries
  <2>11. \A n \in Nodes : \A m \in Waiting(n)' : m \in entered'[To[m]] /\ On[m] = n
    BY <2>1, <2>3, <2>7, <2>8, <2>9 DEF Entries
  <2>12. \A x \in Tasks : pc'[x] = "queued" => Msg(x) \in entered'[Rcv(x)]
    BY <1>1, <2>1, <2>5, TaskFacts DEF Entries
  <2>13. \A u \in Users : \A m \in entered'[u] : To[m] = u /\ m \in Waiting(On[m])' \cup Settled'
    <3>1. \A n \in Nodes : Waiting(n) \subseteq Waiting(n)'
      BY <2>3
    <3>. QED BY <1>1, <2>1, <2>3, <2>4, <2>5, <2>6, <3>1 DEF Entries
  <2>. QED BY <2>1, <2>5, <2>10, <2>11, <2>12, <2>13 DEF Entries
<1>6. ASSUME NEW t \in Tasks, CacheAdd(t) PROVE Entries'
  <2>1. /\ Msg(t) \in entered[Rcv(t)] /\ Rcv(t) \in Users
        /\ UNCHANGED <<saveQueue, batch, history, refused, lost, entered>>
        /\ cache' = [cache EXCEPT ![Rcv(t)] = @ \cup {Msg(t)}]
        /\ stored' = [stored EXCEPT ![Rcv(t)] = @ \cup {Msg(t)}]
        /\ pc' = [pc EXCEPT ![t] = "added"]
    BY <1>6, TaskFacts DEF CacheAdd, saverVars, Entries
  <2>2. \A u \in Users : stored'[u] \subseteq entered'[u] /\ cache'[u] \subseteq stored'[u]
    BY <1>1, <2>1 DEF Entries
  <2>3. \A x \in Tasks : pc'[x] = "queued" => Msg(x) \in entered'[Rcv(x)]
    BY <1>1, <2>1 DEF Entries
  <2>4. (\A n : Waiting(n)' = Waiting(n)) /\ Settled' = Settled
    BY <2>1 DEF Waiting, Settled
  <2>. QED BY <2>1, <2>2, <2>3, <2>4 DEF Entries
<1>7. ASSUME NEW t \in Tasks, CacheTrim(t) PROVE Entries'
  <2>1. PICK keep \in SUBSET cache[Rcv(t)] : cache' = [cache EXCEPT ![Rcv(t)] = keep]
    BY <1>7 DEF CacheTrim
  <2>2. /\ UNCHANGED <<saveQueue, batch, history, refused, lost, entered, stored>>
        /\ pc' = [pc EXCEPT ![t] = "done"]
    BY <1>7 DEF CacheTrim, saverVars
  <2>3. \A u \in Users : stored'[u] \subseteq entered'[u] /\ cache'[u] \subseteq stored'[u]
    BY <1>1, <2>1, <2>2 DEF Entries
  <2>4. \A x \in Tasks : pc'[x] = "queued" => Msg(x) \in entered'[Rcv(x)]
    BY <1>1, <2>2 DEF Entries
  <2>5. (\A n : Waiting(n)' = Waiting(n)) /\ Settled' = Settled
    BY <2>2 DEF Waiting, Settled
  <2>. QED BY <2>2, <2>3, <2>4, <2>5 DEF Entries
<1>8. ASSUME NEW n \in Nodes, SaveTake(n) PROVE Entries'
  <2>1. /\ SeqIds(saveQueue[n]) = SeqIds(saveQueue'[n]) \cup SeqIds(batch'[n])
        /\ SeqIds(batch[n]) = {}
    BY <1>1, <1>8, SplitIds, NoIds DEF SaveTake
  <2>2. /\ UNCHANGED <<pc, history, refused, lost, cache, stored, entered>>
        /\ \A o \in Nodes \ {n} : saveQueue'[o] = saveQueue[o] /\ batch'[o] = batch[o]
    BY <1>1, <1>8 DEF SaveTake, cacheVars
  <2>3. (\A o \in Nodes : Waiting(o)' = Waiting(o)) /\ Settled' = Settled
    BY <2>1, <2>2 DEF Waiting, Settled
  <2>. QED BY <1>3, <2>2, <2>3
<1>9. ASSUME NEW n \in Nodes, SaveInsert(n) \/ SaveFails(n) PROVE Entries'
  <2>1. /\ batch' = [batch EXCEPT ![n] = <<>>]
        /\ UNCHANGED <<pc, saveQueue, lost, cache, stored, entered>>
        /\ history' \subseteq history \cup SeqIds(batch[n])
        /\ history' \cup refused' = history \cup refused \cup SeqIds(batch[n])
    BY <1>9 DEF SaveInsert, SaveFails, SaveBatch, cacheVars
  <2>2. SeqIds(batch'[n]) = {} /\ \A o \in Nodes \ {n} : batch'[o] = batch[o]
    BY <1>1, <2>1, NoIds
  <2>3. /\ \A o \in Nodes \ {n} : Waiting(o)' = Waiting(o)
        /\ Waiting(n)' \subseteq Waiting(n) /\ SeqIds(batch[n]) \subseteq Waiting(n)
        /\ Waiting(n) \subseteq Waiting(n)' \cup Settled' /\ Settled \subseteq Settled'
    BY <2>1, <2>2 DEF Waiting, Settled
  <2>. QED BY <1>3, <2>1, <2>3
<1>10. CASE \E w \in Users : \/ SyncMin(w) \/ SyncRange(w) \/ SyncQuery(w)
                             \/ SyncQueryFails(w) \/ SyncReply(w) \/ SyncDropped(w)
  BY <1>2, <1>10
  DEF SyncMin, SyncRange, SyncQuery, SyncQueryFails, Answer, SyncReply, SyncDropped,
      saverVars, cacheVars
<1>11. ASSUME NEW n \in Nodes, Crash(n) PROVE Entries'
  <2>1. /\ saveQueue' = [saveQueue EXCEPT ![n] = <<>>] /\ batch' = [batch EXCEPT ![n] = <<>>]
        /\ UNCHANGED <<history, refused, cache, stored, entered>>
        /\ lost \cup Waiting(n) \subseteq lost'
        /\ \A t \in Tasks : pc'[t] = pc[t] \/ pc'[t] = "dead"
    BY <1>11 DEF Crash, InMemory, cacheVars
  <2>2. /\ Waiting(n)' = {}
        /\ \A o \in Nodes \ {n} : Waiting(o)' = Waiting(o)
        /\ Waiting(n) \subseteq Settled' /\ Settled \subseteq Settled'
    BY <1>1, <2>1, NoIds DEF Waiting, Settled
  <2>. QED BY <1>3, <2>1, <2>2
<1>12. CASE UNCHANGED vars
  BY <1>2, <1>12 DEF vars, saverVars, cacheVars
<1>. QED
  BY <1>4, <1>5, <1>6, <1>7, <1>8, <1>9, <1>10, <1>11, <1>12 DEF Next

\* The marks of what came late or was trimmed are never taken back.
LEMMA StaysDisturbed ==
    ASSUME TypeOK, [Next]_vars, NEW u \in Users, ~disturbed'[u]
    PROVE  ~disturbed[u]
<1>1. disturbed \in [Users -> BOOLEAN]
  BY DEF TypeOK
<1>2. ASSUME NEW t \in Tasks, Enqueue(t) \/ CacheAdd(t) PROVE ~disturbed[u]
  BY <1>1, <1>2, TaskFacts DEF Enqueue, CacheAdd
<1>3. ASSUME NEW t \in Tasks, CacheTrim(t) PROVE ~disturbed[u]
  <2>1. PICK keep \in SUBSET cache[Rcv(t)] :
          disturbed' = [disturbed EXCEPT ![Rcv(t)] = @ \/ TrimsUnderSync(Rcv(t), keep)]
    BY <1>3 DEF CacheTrim
  <2>. QED BY <1>1, <2>1, TaskFacts
<1>4. CASE \E t \in Tasks : Accept(t)
  BY <1>4 DEF Accept
<1>5. CASE UNCHANGED vars \/ \E n \in Nodes : SaveTake(n) \/ Crash(n)
  BY <1>5 DEF SaveTake, Crash, vars
<1>6. ASSUME NEW n \in Nodes, SaveInsert(n) \/ SaveFails(n) PROVE ~disturbed[u]
  BY <1>6 DEF SaveInsert, SaveFails, SaveBatch
<1>7. ASSUME NEW w \in Users, SyncMin(w) PROVE ~disturbed[u]
  BY <1>1, <1>7 DEF SyncMin
<1>8. CASE \E w \in Users : \/ SyncRange(w) \/ SyncQuery(w)
                            \/ SyncQueryFails(w) \/ SyncReply(w) \/ SyncDropped(w)
  BY <1>8 DEF SyncRange, SyncQuery, SyncQueryFails, Answer, SyncReply, SyncDropped
<1>. QED BY <1>2, <1>3, <1>4, <1>5, <1>6, <1>7, <1>8 DEF Next

\* A message that is entered or stored while its user stays undisturbed is larger
\* than those before it.
LEMMA EnteredLast ==
    ASSUME TypeOK, NEW t \in Tasks, Enqueue(t), ~disturbed'[Rcv(t)]
    PROVE  \A o \in entered[Rcv(t)] \ {Msg(t)} : Rank(o) < Rank(Msg(t)) /\ MsgId[o] < MsgId[Msg(t)]
<1>1. ~Late(Msg(t), entered[Rcv(t)])
  BY TaskFacts DEF Enqueue, TypeOK
<1>2. entered[Rcv(t)] \in SUBSET Msgs
  BY TaskFacts DEF TypeOK
<1>. QED BY <1>1, <1>2, TaskFacts, NotLate

LEMMA StoredLast ==
    ASSUME TypeOK, NEW t \in Tasks, CacheAdd(t), ~disturbed'[Rcv(t)]
    PROVE  \A o \in stored[Rcv(t)] \ {Msg(t)} : Rank(o) < Rank(Msg(t)) /\ MsgId[o] < MsgId[Msg(t)]
<1>1. ~Late(Msg(t), stored[Rcv(t)])
  BY TaskFacts DEF CacheAdd, TypeOK
<1>2. stored[Rcv(t)] \in SUBSET Msgs
  BY TaskFacts DEF TypeOK
<1>. QED BY <1>1, <1>2, TaskFacts, NotLate

\* A queue to which a message joins keeps its order, if nothing that waits in it or
\* joins it should come after the newcomer.
LEMMA LineAppended ==
    ASSUME NEW q \in Seq(Msgs), NEW b, NEW x \in Msgs, NEW m, NEW k, m # x,
           k \in SeqIds(q) \cup SeqIds(b) => InLine(q, b, m, k),
           m \in SeqIds(q) \cup SeqIds(b) \cup Settled
    PROVE  InLine(Append(q, x), b, m, k)
<1>. DEFINE n == Len(q)
            r == Append(q, x)
<1>1. /\ Len(q) \in Nat /\ Len(r) = n + 1 /\ r[n + 1] = x
      /\ \A i \in 1..n : r[i] = q[i]
  BY AppendIds
<1>2. ASSUME NEW j \in 1..(n + 1), r[j] = k
      PROVE  m \in SeqIds(b) \cup Settled \/ \E i \in 1..j : r[i] = m
  <2>1. CASE j \in 1..n
    <3>1. q[j] = k /\ k \in SeqIds(q)
      BY <1>1, <1>2, <2>1, InSeqIds
    <3>2. m \in SeqIds(b) \cup Settled \/ \E i \in 1..j : q[i] = m
      BY <2>1, <3>1 DEF InLine
    <3>3. \A i \in 1..j : i \in 1..n
      BY <1>1, <2>1
    <3>. QED BY <1>1, <3>2, <3>3
  <2>2. CASE j = n + 1
    <3>1. m \in SeqIds(q) => \E i \in 1..n : r[i] = m
      BY <1>1, InSeqIds
    <3>2. \A i \in 1..n : i \in 1..j
      BY <1>1, <2>2
    <3>. QED BY <3>1, <3>2
  <2>. QED BY <1>1, <2>1, <2>2
<1>. HIDE DEF r
<1>. QED BY <1>1, <1>2 DEF InLine, r

\* Taking the next batch from a queue keeps the order of both.
LEMMA LineTaken ==
    ASSUME NEW q \in Seq(Msgs), NEW m, NEW k, InLine(q, <<>>, m, k)
    PROVE  InLine(Left(q), Taken(q), m, k)
<1>. DEFINE n == Len(Taken(q))
<1>1. /\ n \in 0..Len(q) /\ Len(q) \in Nat /\ Len(Left(q)) = Len(q) - n
      /\ \A i \in 1..n : Taken(q)[i] = q[i]
      /\ \A i \in 1..(Len(q) - n) : Left(q)[i] = q[n + i]
      /\ Taken(q) \in Seq(Msgs)
  BY SplitFacts, TakeFacts
<1>2. \A j \in 1..Len(q) : q[j] = k => m \in Settled \/ \E i \in 1..j : q[i] = m
  BY NoIds DEF InLine
<1>3. \A i \in 1..n : i \in 1..Len(q) /\ q[i] \in SeqIds(Taken(q))
  <2>1. \A i \in 1..n : i \in 1..Len(q)
    BY <1>1
  <2>. QED BY <1>1, <2>1, InSeqIds
<1>4. ASSUME k \in SeqIds(Taken(q)) PROVE m \in SeqIds(Taken(q)) \cup Settled
  <2>1. PICK j \in 1..n : q[j] = k
    BY <1>1, <1>4, InSeqIds
  <2>2. m \in Settled \/ \E i \in 1..j : q[i] = m
    BY <1>2, <1>3, <2>1
  <2>3. \A i \in 1..j : i \in 1..n
    BY <1>1, <2>1
  <2>. QED BY <1>3, <2>2, <2>3
<1>5. ASSUME NEW j \in 1..(Len(q) - n), Left(q)[j] = k
      PROVE  m \in SeqIds(Taken(q)) \cup Settled \/ \E i \in 1..j : Left(q)[i] = m
  <2>1. q[n + j] = k /\ n + j \in 1..Len(q)
    <3>1. n + j \in 1..Len(q)
      BY <1>1
    <3>2. Left(q)[j] = q[n + j]
      BY <1>1
    <3>. QED BY <1>5, <3>1, <3>2
  <2>2. ASSUME NEW i \in 1..(n + j), q[i] = m
        PROVE  m \in SeqIds(Taken(q)) \/ \E h \in 1..j : Left(q)[h] = m
    <3>1. CASE i <= n
      BY <1>1, <1>3, <2>2, <3>1
    <3>2. CASE i > n
      <4>1. i - n \in 1..j /\ n + (i - n) = i /\ i - n \in 1..(Len(q) - n)
        BY <1>1, <3>2
      <4>. QED BY <1>1, <2>2, <4>1
    <3>. QED BY <1>1, <3>1, <3>2
  <2>. QED BY <1>2, <2>1, <2>2
<1>. QED BY <1>1, <1>4, <1>5 DEF InLine

LEMMA QueuedNext ==
    ASSUME TypeOK, Entries, [Next]_vars, NEW u \in Users, ~disturbed'[u], Queued(u)
    PROVE  Queued(u)'
<1>1. /\ saveQueue \in [Nodes -> Seq(Msgs)] /\ batch \in [Nodes -> Seq(Msgs)]
      /\ entered \in [Users -> SUBSET Msgs]
      /\ \A m \in Msgs : On[m] \in Nodes
  BY ToAssumption DEF TypeOK
<1>2. ASSUME UNCHANGED <<saveQueue, batch, history, refused, lost, entered>> PROVE Queued(u)'
  BY <1>2 DEF Queued, InLine, Settled
<1>3. CASE \E t \in Tasks : Accept(t) \/ CacheAdd(t) \/ CacheTrim(t)
  BY <1>2, <1>3 DEF Accept, CacheAdd, CacheTrim, saverVars
<1>4. ASSUME NEW t \in Tasks, Enqueue(t) PROVE Queued(u)'
  <2>1. /\ saveQueue' = [saveQueue EXCEPT ![At(t)] = Append(@, Msg(t))]
        /\ Msg(t) \in Msgs /\ Rcv(t) \in Users /\ At(t) \in Nodes /\ At(t) = On[Msg(t)]
        /\ UNCHANGED <<batch, history, refused, lost>>
        /\ entered' = [entered EXCEPT ![Rcv(t)] = @ \cup {Msg(t)}]
    BY <1>4, TaskFacts DEF Enqueue
  <2>2. /\ saveQueue'[At(t)] = Append(saveQueue[At(t)], Msg(t))
        /\ \A n \in Nodes \ {At(t)} : saveQueue'[n] = saveQueue[n]
        /\ Settled' = Settled
    BY <1>1, <2>1 DEF Settled
  <2>3. SUFFICES ASSUME NEW m \in entered'[u], NEW k \in entered'[u], MsgId[m] < MsgId[k]
                 PROVE  /\ k \in history => m \in Settled
                        /\ On[m] = On[k] => InLine(saveQueue'[On[k]], batch[On[k]], m, k)
    BY <2>1, <2>2 DEF Queued, InLine
  <2>4. m \in entered[u] /\ m \in Msgs /\ k \in Msgs /\ (u = Rcv(t) => m # Msg(t))
    <3>1. CASE u # Rcv(t)
      BY <1>1, <2>1, <3>1
    <3>2. CASE u = Rcv(t)
      <4>1. entered'[u] = entered[u] \cup {Msg(t)}
        BY <1>1, <2>1, <3>2
      <4>2. m \in Msgs /\ k \in Msgs /\ MsgId[m] \in Nat /\ MsgId[k] \in Nat
        BY <1>1, <2>1, <4>1, IdFacts
      <4>3. ASSUME m = Msg(t) PROVE FALSE
        <5>1. k \in entered[u] \ {Msg(t)}
          BY <2>3, <4>1, <4>2, <4>3
        <5>2. MsgId[k] < MsgId[m]
          BY <1>4, <3>2, <4>3, <5>1, EnteredLast
        <5>. QED BY <2>3, <4>2, <5>2
      <4>. QED BY <3>2, <4>1, <4>2, <4>3
    <3>. QED BY <3>1, <3>2
  <2>5. k \in entered[u] \/ (u = Rcv(t) /\ k = Msg(t))
    BY <1>1, <2>1
  <2>6. To[k] = u /\ To[m] = u
    BY <2>4, <2>5 DEF Entries, Rcv, Msg
  <2>7. k \in history => m \in Settled
    BY <2>3, <2>4, <2>6 DEF Queued, Entries
  <2>8. ASSUME On[m] = On[k] PROVE InLine(saveQueue'[On[k]], batch[On[k]], m, k)
    <3>1. On[k] \in Nodes
      BY <1>1, <2>4
    <3>2. k \in Waiting(On[k]) => InLine(saveQueue[On[k]], batch[On[k]], m, k)
      BY <2>3, <2>4, <2>6, <2>8, <3>1 DEF Queued, Entries
    <3>3. m \in Waiting(On[k]) \cup Settled
      BY <2>4, <2>8 DEF Entries
    <3>4. CASE On[k] # At(t)
      <4>1. saveQueue'[On[k]] = saveQueue[On[k]]
        BY <2>2, <3>1, <3>4
      <4>2. k \notin Waiting(On[k]) => InLine(saveQueue[On[k]], batch[On[k]], m, k)
        <5>. SUFFICES ASSUME k \notin Waiting(On[k])
                      PROVE  InLine(saveQueue[On[k]], batch[On[k]], m, k)
          OBVIOUS
        <5>1. saveQueue[On[k]] \in Seq(Msgs)
          BY <1>1, <3>1
        <5>2. \A j \in 1..Len(saveQueue[On[k]]) : saveQueue[On[k]][j] # k
          BY <5>1, InSeqIds DEF Waiting
        <5>. QED BY <5>2 DEF InLine, Waiting
      <4>. QED BY <3>2, <4>1, <4>2
    <3>5. CASE On[k] = At(t)
      <4>1. m # Msg(t)
        <5>1. m = Msg(t) => u = Rcv(t)
          BY <2>6 DEF Rcv
        <5>. QED BY <2>4, <5>1
      <4>2. saveQueue[On[k]] \in Seq(Msgs)
        BY <1>1, <3>1
      <4>3. k \in SeqIds(saveQueue[On[k]]) \cup SeqIds(batch[On[k]]) =>
              InLine(saveQueue[On[k]], batch[On[k]], m, k)
        BY <3>2 DEF Waiting
      <4>4. m \in SeqIds(saveQueue[On[k]]) \cup SeqIds(batch[On[k]]) \cup Settled
        BY <3>3 DEF Waiting
      <4>5. InLine(Append(saveQueue[On[k]], Msg(t)), batch[On[k]], m, k)
        BY <2>1, <4>1, <4>2, <4>3, <4>4, LineAppended
      <4>. QED BY <2>2, <3>5, <4>5
    <3>. QED BY <3>4, <3>5
  <2>. QED BY <2>7, <2>8
<1>5. ASSUME NEW n \in Nodes, SaveTake(n) PROVE Queued(u)'
  <2>1. /\ batch[n] = <<>> /\ batch' = [batch EXCEPT ![n] = Taken(saveQueue[n])]
        /\ saveQueue' = [saveQueue EXCEPT ![n] = Left(saveQueue[n])]
        /\ UNCHANGED <<history, refused, lost, entered>>
    BY <1>5 DEF SaveTake
  <2>2. /\ batch'[n] = Taken(saveQueue[n]) /\ saveQueue'[n] = Left(saveQueue[n])
        /\ \A o \in Nodes \ {n} : batch'[o] = batch[o] /\ saveQueue'[o] = saveQueue[o]
        /\ Settled' = Settled
    BY <1>1, <2>1 DEF Settled
  <2>3. SUFFICES ASSUME NEW m \in entered[u], NEW k \in entered[u], MsgId[m] < MsgId[k]
                 PROVE  /\ k \in history => m \in Settled
                        /\ On[m] = On[k] => InLine(saveQueue'[On[k]], batch'[On[k]], m, k)
    BY <2>1, <2>2 DEF Queued, InLine
  <2>4. k \in history => m \in Settled
    BY <2>3 DEF Queued
  <2>5. ASSUME On[m] = On[k] PROVE InLine(saveQueue'[On[k]], batch'[On[k]], m, k)
    <3>1. On[k] \in Nodes /\ InLine(saveQueue[On[k]], batch[On[k]], m, k)
      BY <1>1, <2>3, <2>5 DEF Queued
    <3>2. CASE On[k] # n
      <4>1. On[k] \in Nodes \ {n}
        BY <3>1, <3>2
      <4>2. batch'[On[k]] = batch[On[k]] /\ saveQueue'[On[k]] = saveQueue[On[k]]
        BY <2>2, <4>1
      <4>. QED BY <3>1, <4>2
    <3>3. CASE On[k] = n
      <4>1. saveQueue[n] \in Seq(Msgs)
        BY <1>1
      <4>2. InLine(saveQueue[n], <<>>, m, k)
        BY <2>1, <3>1, <3>3
      <4>3. InLine(Left(saveQueue[n]), Taken(saveQueue[n]), m, k)
        BY <4>1, <4>2, LineTaken
      <4>. QED BY <2>2, <3>3, <4>3
    <3>. QED BY <3>2, <3>3
  <2>. QED BY <2>4, <2>5
<1>6. ASSUME NEW n \in Nodes, SaveInsert(n) \/ SaveFails(n) PROVE Queued(u)'
  <2>1. /\ batch' = [batch EXCEPT ![n] = <<>>] /\ UNCHANGED <<saveQueue, lost, entered>>
        /\ \/ history' = history /\ refused' = refused \cup SeqIds(batch[n])
           \/ /\ history' = history \cup SeqIds(batch[n]) /\ refused' = refused
              /\ disturbed' = [w \in Users |-> disturbed[w] \/ Overtakes(n, w)]
    BY <1>6 DEF SaveInsert, SaveFails, SaveBatch
  <2>2. /\ SeqIds(batch'[n]) = {} /\ \A o \in Nodes \ {n} : batch'[o] = batch[o]
        /\ Settled' = Settled \cup SeqIds(batch[n])
    BY <1>1, <2>1, NoIds DEF Settled
  <2>3. SUFFICES ASSUME NEW m \in entered[u], NEW k \in entered[u], MsgId[m] < MsgId[k]
                 PROVE  /\ k \in history' => m \in Settled'
                        /\ On[m] = On[k] => InLine(saveQueue[On[k]], batch[On[k]], m, k)'
    BY <2>1 DEF Queued, InLine
  <2>4. /\ k \in history => m \in Settled
        /\ On[m] = On[k] => InLine(saveQueue[On[k]], batch[On[k]], m, k)
    BY <2>3 DEF Queued
  <2>5. On[m] = On[k] => InLine(saveQueue[On[k]], batch[On[k]], m, k)'
    BY <1>1, <2>1, <2>2, <2>4 DEF InLine
  <2>6. ASSUME k \in history', k \notin history PROVE m \in Settled'
    <3>1. k \in SeqIds(batch[n]) /\ ~Overtakes(n, u) /\ On[k] = n
      BY <2>1, <2>6 DEF Entries, Waiting
    <3>2. CASE On[m] = n
      BY <2>2, <2>4, <3>1, <3>2 DEF InLine
    <3>3. CASE On[m] # n
      <4>1. To[m] = u /\ To[k] = u /\ m \in Waiting(On[m]) \cup Settled /\ On[m] \in Nodes
        BY <1>1 DEF Entries
      <4>2. m \notin Waiting(On[m])
        BY <2>3, <3>1, <3>3, <4>1 DEF Overtakes
      <4>. QED BY <2>2, <4>1, <4>2
    <3>. QED BY <3>2, <3>3
  <2>. QED BY <2>2, <2>4, <2>5, <2>6
<1>7. CASE \E w \in Users : \/ SyncMin(w) \/ SyncRange(w) \/ SyncQuery(w)
                            \/ SyncQueryFails(w) \/ SyncReply(w) \/ SyncDropped(w)
  BY <1>2, <1>7
  DEF SyncMin, SyncRange, SyncQuery, SyncQueryFails, Answer, SyncReply, SyncDropped, saverVars
<1>8. ASSUME NEW n \in Nodes, Crash(n) PROVE Queued(u)'
  <2>1. /\ saveQueue' = [saveQueue EXCEPT ![n] = <<>>] /\ batch' = [batch EXCEPT ![n] = <<>>]
        /\ lost \subseteq lost' /\ UNCHANGED <<history, refused, entered>>
    BY <1>8 DEF Crash
  <2>2. /\ Len(saveQueue'[n]) = 0 /\ SeqIds(batch'[n]) = {} /\ Settled \subseteq Settled'
        /\ \A o \in Nodes \ {n} : batch'[o] = batch[o] /\ saveQueue'[o] = saveQueue[o]
    BY <1>1, <2>1, NoIds DEF Settled
  <2>3. 1..Len(saveQueue'[n]) = {}
    BY <2>2
  <2>4. SUFFICES ASSUME NEW m \in entered[u], NEW k \in entered[u], MsgId[m] < MsgId[k]
                 PROVE  /\ k \in history => m \in Settled'
                        /\ On[m] = On[k] => InLine(saveQueue[On[k]], batch[On[k]], m, k)'
    BY <2>1 DEF Queued, InLine
  <2>5. /\ k \in history => m \in Settled
        /\ On[m] = On[k] => InLine(saveQueue[On[k]], batch[On[k]], m, k)
    BY <2>4 DEF Queued
  <2>6. CASE On[k] = n
    BY <2>2, <2>3, <2>5, <2>6 DEF InLine
  <2>7. CASE On[k] # n
    <3>1. On[k] \in Nodes \ {n}
      BY <1>1, <2>4, <2>7
    <3>. QED BY <2>2, <2>5, <3>1 DEF InLine
  <2>. QED BY <2>2, <2>5, <2>6, <2>7
<1>9. CASE UNCHANGED vars
  BY <1>2, <1>9 DEF vars, saverVars
<1>. QED BY <1>3, <1>4, <1>5, <1>6, <1>7, <1>8, <1>9 DEF Next

LEMMA RankedNext ==
    ASSUME TypeOK, Entries, [Next]_vars, NEW u \in Users, ~disturbed'[u], Ranked(u)
    PROVE  Ranked(u)'
<1>1. /\ cache \in [Users -> SUBSET Msgs] /\ stored \in [Users -> SUBSET Msgs]
      /\ entered \in [Users -> SUBSET Msgs]
      /\ stored[u] \subseteq entered[u] /\ cache[u] \subseteq stored[u]
  BY DEF TypeOK, Entries
<1>2. ASSUME cache'[u] = cache[u], stored'[u] = stored[u], entered'[u] = entered[u] PROVE Ranked(u)'
  BY <1>2 DEF Ranked
<1>3. ASSUME NEW t \in Tasks, Enqueue(t) PROVE Ranked(u)'
  <2>1. /\ UNCHANGED <<cache, stored>> /\ Msg(t) \in Msgs /\ Rcv(t) \in Users
        /\ entered' = [entered EXCEPT ![Rcv(t)] = @ \cup {Msg(t)}]
    BY <1>3, TaskFacts DEF Enqueue, cacheVars
  <2>2. CASE u # Rcv(t)
    BY <1>1, <1>2, <2>1, <2>2
  <2>3. CASE u = Rcv(t)
    <3>1. entered'[u] = entered[u] \cup {Msg(t)}
      BY <1>1, <2>1, <2>3
    <3>2. \A o \in entered[u] \ {Msg(t)} : Rank(o) < Rank(Msg(t))
      BY <1>3, <2>3, EnteredLast
    <3>3. \A o \in entered[u] \cup {Msg(t)} : Rank(o) \in Nat
      BY <1>1, <2>1, ScoreFacts
    <3>4. \A a, b \in entered'[u] : Rank(a) = Rank(b) => a = b
      BY <3>1, <3>2, <3>3 DEF Ranked
    <3>. QED BY <2>1, <3>4 DEF Ranked
  <2>. QED BY <2>2, <2>3
<1>4. ASSUME NEW t \in Tasks, CacheAdd(t) PROVE Ranked(u)'
  <2>1. /\ UNCHANGED entered /\ Msg(t) \in Msgs /\ Rcv(t) \in Users
        /\ cache' = [cache EXCEPT ![Rcv(t)] = @ \cup {Msg(t)}]
        /\ stored' = [stored EXCEPT ![Rcv(t)] = @ \cup {Msg(t)}]
    BY <1>4, TaskFacts DEF CacheAdd
  <2>2. CASE u # Rcv(t)
    BY <1>1, <1>2, <2>1, <2>2
  <2>3. CASE u = Rcv(t)
    <3>1. cache'[u] = cache[u] \cup {Msg(t)} /\ stored'[u] = stored[u] \cup {Msg(t)}
      BY <1>1, <2>1, <2>3
    <3>2. \A o \in stored[u] \ {Msg(t)} : Rank(o) < Rank(Msg(t))
      BY <1>4, <2>3, StoredLast
    <3>3. \A x \in stored'[u] \ cache'[u], c \in cache'[u] : Rank(x) < Rank(c)
      BY <3>1, <3>2 DEF Ranked
    <3>. QED BY <2>1, <3>3 DEF Ranked
  <2>. QED BY <2>2, <2>3
<1>5. ASSUME NEW t \in Tasks, CacheTrim(t) PROVE Ranked(u)'
  <2>1. PICK keep \in SUBSET cache[Rcv(t)] :
          IsTrim(cache[Rcv(t)], keep) /\ cache' = [cache EXCEPT ![Rcv(t)] = keep]
    BY <1>5 DEF CacheTrim
  <2>2. UNCHANGED <<entered, stored>> /\ Rcv(t) \in Users
    BY <1>5, TaskFacts DEF CacheTrim
  <2>3. CASE u # Rcv(t)
    BY <1>1, <1>2, <2>1, <2>2, <2>3
  <2>4. CASE u = Rcv(t)
    <3>1. cache'[u] = keep /\ keep \subseteq cache[u] /\ IsTrim(cache[u], keep)
      BY <1>1, <2>1, <2>4
    <3>2. \A c \in keep, d \in cache[u] \ keep : Rank(d) <= Rank(c)
      BY <3>1 DEF IsTrim
    <3>3. \A c \in keep, d \in cache[u] \ keep : Rank(d) < Rank(c)
      <4>. SUFFICES ASSUME NEW c \in keep, NEW d \in cache[u] \ keep PROVE Rank(d) < Rank(c)
        OBVIOUS
      <4>1. Rank(d) <= Rank(c) /\ Rank(d) # Rank(c)
        BY <1>1, <3>1, <3>2 DEF Ranked
      <4>2. Rank(c) \in Nat /\ Rank(d) \in Nat
        BY <1>1, <3>1, ScoreFacts
      <4>. QED BY <4>1, <4>2
    <3>4. \A x \in stored[u] \ keep, c \in keep : Rank(x) < Rank(c)
      BY <3>1, <3>3 DEF Ranked
    <3>. QED BY <2>2, <3>1, <3>4 DEF Ranked
  <2>. QED BY <2>3, <2>4
<1>6. CASE \E t \in Tasks : Accept(t)
  BY <1>2, <1>6 DEF Accept, cacheVars
<1>7. CASE UNCHANGED vars \/ \E n \in Nodes : SaveTake(n) \/ SaveInsert(n) \/ SaveFails(n) \/ Crash(n)
  BY <1>2, <1>7 DEF SaveTake, SaveInsert, SaveFails, SaveBatch, Crash, cacheVars, vars
<1>8. CASE \E w \in Users : \/ SyncMin(w) \/ SyncRange(w) \/ SyncQuery(w)
                            \/ SyncQueryFails(w) \/ SyncReply(w) \/ SyncDropped(w)
  BY <1>2, <1>8
  DEF SyncMin, SyncRange, SyncQuery, SyncQueryFails, Answer, SyncReply, SyncDropped, cacheVars
<1>. QED BY <1>3, <1>4, <1>5, <1>6, <1>7, <1>8 DEF Next

\* A key that covers goes on covering: what comes later with a smaller id or score
\* disturbs the user.
LEMMA CoversNext ==
    ASSUME TypeOK, Entries, [Next]_vars, NEW u \in Users, ~disturbed'[u],
           NEW k \in Ids \cup {0}, NEW given,
           Covers(entered[u], stored[u], Gone, k, given)
    PROVE  Covers(entered'[u], stored'[u], Gone', k, given)
<1>1. /\ entered \in [Users -> SUBSET Msgs] /\ stored \in [Users -> SUBSET Msgs]
      /\ stored[u] \subseteq entered[u]
  BY DEF TypeOK, Entries
<1>2. ASSUME entered'[u] = entered[u], stored'[u] = stored[u], Gone \subseteq Gone'
      PROVE  Covers(entered'[u], stored'[u], Gone', k, given)
  BY <1>2 DEF Covers
<1>3. ASSUME NEW t \in Tasks, Enqueue(t)
      PROVE  Covers(entered'[u], stored'[u], Gone', k, given)
  <2>1. /\ UNCHANGED <<stored, refused, lost>> /\ Msg(t) \in Msgs /\ Rcv(t) \in Users
        /\ entered' = [entered EXCEPT ![Rcv(t)] = @ \cup {Msg(t)}]
    BY <1>3, TaskFacts DEF Enqueue, cacheVars
  <2>2. CASE u # Rcv(t)
    BY <1>1, <1>2, <2>1, <2>2 DEF Gone
  <2>3. CASE u = Rcv(t)
    <3>1. entered'[u] = entered[u] \cup {Msg(t)} /\ stored'[u] = stored[u] /\ Gone' = Gone
      BY <1>1, <2>1, <2>3 DEF Gone
    <3>2. Msg(t) \notin entered[u] => ~(MsgId[Msg(t)] <= k)
      <4>1. \A o \in entered[u] \ {Msg(t)} : MsgId[o] < MsgId[Msg(t)]
        BY <1>3, <2>3, EnteredLast
      <4>2. k \in Nat /\ MsgId[Msg(t)] \in Nat \ {0}
        BY <2>1, IdFacts
      <4>3. k = 0 \/ \E o \in entered[u] : k = MsgId[o]
        BY DEF Covers
      <4>. QED BY <4>1, <4>2, <4>3
    <3>. QED BY <3>1, <3>2 DEF Covers
  <2>. QED BY <2>2, <2>3
<1>4. ASSUME NEW t \in Tasks, CacheAdd(t)
      PROVE  Covers(entered'[u], stored'[u], Gone', k, given)
  <2>1. /\ UNCHANGED <<entered, refused, lost>> /\ Msg(t) \in Msgs /\ Rcv(t) \in Users
        /\ stored' = [stored EXCEPT ![Rcv(t)] = @ \cup {Msg(t)}]
    BY <1>4, TaskFacts DEF CacheAdd, saverVars
  <2>2. CASE u # Rcv(t)
    BY <1>1, <1>2, <2>1, <2>2 DEF Gone
  <2>3. CASE u = Rcv(t)
    <3>1. stored'[u] = stored[u] \cup {Msg(t)} /\ entered'[u] = entered[u] /\ Gone' = Gone
      BY <1>1, <2>1, <2>3 DEF Gone
    <3>2. \A o \in stored[u] \ {Msg(t)} : ~(Rank(o) >= Rank(Msg(t)))
      <4>1. \A o \in stored[u] \ {Msg(t)} : Rank(o) < Rank(Msg(t))
        BY <1>4, <2>3, StoredLast
      <4>2. Rank(Msg(t)) \in Nat /\ \A o \in stored[u] : Rank(o) \in Nat
        BY <1>1, <2>1, ScoreFacts
      <4>. QED BY <4>1, <4>2
    <3>. QED BY <3>1, <3>2 DEF Covers
  <2>. QED BY <2>2, <2>3
<1>5. CASE \E t \in Tasks : Accept(t) \/ CacheTrim(t)
  BY <1>2, <1>5 DEF Accept, CacheTrim, saverVars, cacheVars, Gone
<1>6. CASE UNCHANGED vars \/ \E n \in Nodes : SaveTake(n) \/ SaveInsert(n) \/ SaveFails(n) \/ Crash(n)
  BY <1>2, <1>6
  DEF SaveTake, SaveInsert, SaveFails, SaveBatch, Crash, cacheVars, saverVars, vars, Gone
<1>7. CASE \E w \in Users : \/ SyncMin(w) \/ SyncRange(w) \/ SyncQuery(w)
                            \/ SyncQueryFails(w) \/ SyncReply(w) \/ SyncDropped(w)
  BY <1>2, <1>7
  DEF SyncMin, SyncRange, SyncQuery, SyncQueryFails, Answer, SyncReply, SyncDropped,
      saverVars, cacheVars, Gone
<1>. QED BY <1>3, <1>4, <1>5, <1>6, <1>7 DEF Next

\* A message above a key that covers has a larger score.
LEMMA ScoreAbove ==
    ASSUME TypeOK, NEW u \in Users, Ranked(u), NEW m \in entered[u], m \in Msgs,
           NEW key \in Ids \cup {0}, key = 0 \/ \E o \in entered[u] : key = MsgId[o],
           key < MsgId[m]
    PROVE  Rank(m) > Score[key] /\ Rank(m) \in Nat /\ Score[key] \in Nat
<1>1. Rank(m) \in Nat /\ Score[key] \in Nat
  BY ScoreFacts
<1>2. MsgId[m] \in Ids /\ MsgId[m] \in Nat /\ key \in Nat
  BY IdFacts
<1>3. Rank(m) >= Score[key]
  BY <1>2, ScoreAssumption DEF Rank
<1>4. CASE key = 0
  BY <1>2, <1>4, ScoreAssumption DEF Rank
<1>5. CASE key # 0
  <2>1. PICK o \in entered[u] : key = MsgId[o]
    BY <1>5
  <2>2. o # m /\ Rank(o) = Score[key]
    BY <1>2, <2>1 DEF Rank
  <2>3. Rank(o) # Rank(m)
    BY <2>2 DEF Ranked
  <2>. QED BY <1>1, <1>3, <2>2, <2>3
<1>. QED BY <1>1, <1>4, <1>5

\* The timeline's answer is complete up to its largest id.
LEMMA RangeCovers ==
    ASSUME TypeOK, Entries, NEW u \in Users, Ranked(u), Syncing(u), sync[u].pc = "range",
           NEW answer, answer = AfterScore(cache[u], sync[u].key)
    PROVE  Covers(entered[u], stored[u], Gone,
                  NewSyncKey(sync[u].key, answer), received[u] \cup answer)
<1>. DEFINE key == sync[u].key
            K == NewSyncKey(key, answer)
<1>1. /\ entered[u] \in SUBSET Msgs /\ cache[u] \subseteq stored[u] /\ stored[u] \subseteq entered[u]
      /\ key \in Ids \cup {0} /\ answer \in SUBSET Msgs /\ answer \subseteq cache[u]
  BY DEF TypeOK, Entries, Syncs, AfterScore
<1>2. /\ Covers(entered[u], stored[u], Gone, key, received[u])
      /\ \A x \in stored[u] \ cache[u] : Rank(x) <= Score[key]
  BY DEF Syncing
<1>3. K \in Ids \cup {0} /\ (K = key \/ \E x \in answer : K = MsgId[x])
  BY <1>1, KeyFacts
<1>4. /\ key = 0 \/ \E o \in entered[u] : key = MsgId[o]
      /\ K = 0 \/ \E o \in entered[u] : K = MsgId[o]
  BY <1>1, <1>2, <1>3 DEF Covers
<1>5. ASSUME NEW m \in entered[u], MsgId[m] <= K
      PROVE  \/ m \in received[u] \cup answer \cup Gone
             \/ m \notin stored[u] /\ \E o \in stored[u] : o # m /\ Rank(o) >= Rank(m)
  <2>1. MsgId[m] \in Ids /\ MsgId[m] \in Nat \ {0} /\ key \in Nat /\ K \in Nat /\ m \in Msgs
    BY <1>1, <1>3, IdFacts
  <2>2. CASE MsgId[m] <= key
    BY <1>2, <2>2 DEF Covers
  <2>3. CASE key < MsgId[m]
    <3>1. PICK x \in answer : K = MsgId[x]
      BY <1>3, <1>5, <2>1, <2>3
    <3>2. Rank(m) > Score[key] /\ Rank(m) \in Nat /\ Score[key] \in Nat
      BY <1>1, <1>4, <2>1, <2>3, ScoreAbove
    <3>3. CASE m \in stored[u]
      <4>1. m \in cache[u]
        BY <1>2, <3>2, <3>3
      <4>. QED BY <3>2, <4>1 DEF AfterScore
    <3>4. CASE m \notin stored[u]
      <4>1. x \in stored[u] /\ x # m /\ MsgId[x] \in Ids
        BY <1>1, <3>1, <3>4, IdFacts
      <4>2. Rank(x) >= Rank(m)
        BY <1>5, <2>1, <3>1, <4>1, ScoreAssumption DEF Rank
      <4>. QED BY <3>4, <4>1, <4>2
    <3>. QED BY <3>3, <3>4
  <2>. QED BY <2>1, <2>2, <2>3
<1>. QED BY <1>4, <1>5 DEF Covers

\* So is MySQL's: what is behind its largest id was saved, refused or lost before.
LEMMA QueryCovers ==
    ASSUME TypeOK, Entries, NEW u \in Users, Queued(u), Ranked(u), Syncing(u),
           sync[u].pc = "query",
           NEW answer, answer = After({m \in history : To[m] = u}, sync[u].key)
    PROVE  Covers(entered[u], stored[u], Gone,
                  NewSyncKey(sync[u].key, answer), received[u] \cup answer)
<1>. DEFINE key == sync[u].key
            K == NewSyncKey(key, answer)
<1>1. /\ entered[u] \in SUBSET Msgs /\ history \subseteq Msgs /\ key \in Ids \cup {0}
      /\ answer \in SUBSET Msgs /\ answer = {m \in history : To[m] = u /\ MsgId[m] > key}
  BY DEF TypeOK, Syncs, After
<1>2. Covers(entered[u], stored[u], Gone, key, received[u])
  BY DEF Syncing
<1>3. K \in Ids \cup {0} /\ (K = key \/ \E x \in answer : K = MsgId[x])
  BY <1>1, KeyFacts
<1>4. answer \subseteq entered[u]
  BY <1>1 DEF Entries
<1>5. ASSUME NEW m \in entered[u], MsgId[m] <= K
      PROVE  \/ m \in received[u] \cup answer \cup Gone
             \/ m \notin stored[u] /\ \E o \in stored[u] : o # m /\ Rank(o) >= Rank(m)
  <2>1. MsgId[m] \in Nat \ {0} /\ key \in Nat /\ K \in Nat /\ To[m] = u
    BY <1>1, <1>3, IdFacts DEF Entries
  <2>2. CASE MsgId[m] <= key
    BY <1>2, <2>2 DEF Covers
  <2>3. CASE key < MsgId[m]
    <3>1. PICK x \in answer : K = MsgId[x]
      BY <1>3, <1>5, <2>1, <2>3
    <3>2. x \in history /\ x \in entered[u]
      BY <1>1, <1>4
    <3>3. MsgId[m] = MsgId[x] => m = x
      BY <3>2 DEF Ranked, Rank
    <3>4. MsgId[m] < MsgId[x] => m \in Settled
      BY <3>2 DEF Queued
    <3>5. m = x \/ m \in Settled
      BY <1>5, <2>1, <3>1, <3>3, <3>4
    <3>6. m \in history => m \in answer
      BY <1>1, <2>1, <2>3
    <3>. QED BY <3>5, <3>6 DEF Settled, Gone
  <2>. QED BY <2>1, <2>2, <2>3
<1>6. K = 0 \/ \E o \in entered[u] : K = MsgId[o]
  BY <1>2, <1>3, <1>4 DEF Covers
<1>. QED BY <1>5, <1>6 DEF Covers

LEMMA SyncingNext ==
    ASSUME TypeOK, Entries, [Next]_vars, NEW u \in Users, ~disturbed'[u],
           Queued(u), Ranked(u), Syncing(u)
    PROVE  Syncing(u)'
<1>1. /\ sync \in [Users -> Syncs] /\ lastSyncKey \in [Users -> Ids \cup {0}]
      /\ cache \in [Users -> SUBSET Msgs] /\ stored \in [Users -> SUBSET Msgs]
      /\ received \in [Users -> SUBSET Msgs]
      /\ sync[u].key \in Ids \cup {0} /\ sync[u].answer \in SUBSET Msgs
  BY DEF TypeOK, Syncs
<1>2. Covers(entered'[u], stored'[u], Gone', lastSyncKey[u], received[u])
  BY <1>1, CoversNext DEF Syncing
<1>3. sync[u].pc = "reply" =>
        Covers(entered'[u], stored'[u], Gone',
               NewSyncKey(sync[u].key, sync[u].answer), received[u] \cup sync[u].answer)
  BY <1>1, KeyFacts, CoversNext DEF Syncing
\* The sync of u stays where it is, and the timeline loses nothing under it.
<1>4. ASSUME sync'[u] = sync[u], lastSyncKey'[u] = lastSyncKey[u], received'[u] = received[u],
             sync[u].pc = "range" => stored'[u] \ cache'[u] \subseteq stored[u] \ cache[u]
      PROVE  Syncing(u)'
  BY <1>2, <1>3, <1>4 DEF Syncing
<1>5. ASSUME sync'[u] = IdleSync, lastSyncKey'[u] = lastSyncKey[u], received'[u] = received[u]
      PROVE  Syncing(u)'
  BY <1>2, <1>5 DEF Syncing, IdleSync
<1>6. ASSUME NEW t \in Tasks, Accept(t) \/ Enqueue(t) PROVE Syncing(u)'
  BY <1>4, <1>6 DEF Accept, Enqueue, cacheVars, syncVars
<1>7. ASSUME NEW t \in Tasks, CacheAdd(t) PROVE Syncing(u)'
  <2>1. UNCHANGED <<sync, lastSyncKey, received>>
    BY <1>7 DEF CacheAdd, syncVars
  <2>2. /\ cache' = [cache EXCEPT ![Rcv(t)] = @ \cup {Msg(t)}]
        /\ stored' = [stored EXCEPT ![Rcv(t)] = @ \cup {Msg(t)}]
    BY <1>7 DEF CacheAdd
  <2>3. stored'[u] \ cache'[u] \subseteq stored[u] \ cache[u]
    BY <1>1, <2>2
  <2>. QED BY <1>4, <2>1, <2>3
<1>8. ASSUME NEW t \in Tasks, CacheTrim(t) PROVE Syncing(u)'
  <2>1. PICK keep \in SUBSET cache[Rcv(t)] :
          /\ cache' = [cache EXCEPT ![Rcv(t)] = keep]
          /\ disturbed' = [disturbed EXCEPT ![Rcv(t)] = @ \/ TrimsUnderSync(Rcv(t), keep)]
    BY <1>8 DEF CacheTrim
  <2>2. UNCHANGED <<sync, lastSyncKey, received, stored>> /\ Rcv(t) \in Users
    BY <1>8, TaskFacts DEF CacheTrim, syncVars
  <2>3. ASSUME sync[u].pc = "range" PROVE cache'[u] = cache[u]
    <3>1. CASE u # Rcv(t)
      BY <1>1, <2>1, <3>1
    <3>2. CASE u = Rcv(t)
      <4>1. ~TrimsUnderSync(u, keep)
        BY <2>1, <2>2, <3>2 DEF TypeOK
      <4>2. keep = cache[u]
        BY <2>3, <4>1 DEF TrimsUnderSync
      <4>. QED BY <1>1, <2>1, <3>2, <4>2
    <3>. QED BY <3>1, <3>2
  <2>. QED BY <1>4, <2>2, <2>3
<1>9. CASE UNCHANGED vars \/ \E n \in Nodes : SaveTake(n) \/ SaveInsert(n) \/ SaveFails(n)
  BY <1>4, <1>9 DEF SaveTake, SaveInsert, SaveFails, SaveBatch, cacheVars, syncVars, vars
<1>10. ASSUME NEW n \in Nodes, Crash(n) PROVE Syncing(u)'
  <2>1. UNCHANGED <<cache, stored, lastSyncKey, received>>
    BY <1>10 DEF Crash, cacheVars
  <2>2. sync'[u] = sync[u] \/ sync'[u] = IdleSync
    BY <1>10 DEF Crash
  <2>. QED BY <1>4, <1>5, <2>1, <2>2
<1>11. ASSUME NEW w \in Users, w # u,
              \/ SyncMin(w) \/ SyncRange(w) \/ SyncQuery(w)
              \/ SyncQueryFails(w) \/ SyncReply(w) \/ SyncDropped(w)
       PROVE  Syncing(u)'
  <2>1. UNCHANGED <<cache, stored>>
    BY <1>11
    DEF SyncMin, SyncRange, SyncQuery, SyncQueryFails, Answer, SyncReply, SyncDropped, cacheVars
  <2>2. sync'[u] = sync[u] /\ lastSyncKey'[u] = lastSyncKey[u] /\ received'[u] = received[u]
    BY <1>1, <1>11
    DEF SyncMin, SyncRange, SyncQuery, SyncQueryFails, Answer, SyncReply, SyncDropped
  <2>. QED BY <1>4, <2>1, <2>2
<1>12. CASE SyncMin(u)
  <2>1. /\ UNCHANGED <<cache, stored, lastSyncKey, received>>
        /\ sync'[u] = [pc |-> IF Hit(u, lastSyncKey[u]) THEN "range" ELSE "query",
                       key |-> lastSyncKey[u], answer |-> {}]
    BY <1>1, <1>12 DEF SyncMin, cacheVars
  <2>2. ASSUME Hit(u, lastSyncKey[u]), NEW x \in stored[u] \ cache[u]
        PROVE  Rank(x) <= Score[lastSyncKey[u]]
    <3>1. ~Misread(u, lastSyncKey[u]) /\ lastSyncKey[u] \in Ids \cup {0}
      BY <1>1, <1>12 DEF SyncMin, TypeOK
    <3>2. PICK least \in cache[u] : Score[lastSyncKey[u]] >= Rank(least)
      BY <1>1, <2>2, <3>1, HitFacts
    <3>3. Rank(x) < Rank(least)
      BY <3>2 DEF Ranked
    <3>4. Score[lastSyncKey[u]] \in Nat /\ Rank(least) \in Nat /\ Rank(x) \in Nat
      BY <1>1, <3>1, <3>2, ScoreFacts
    <3>. QED BY <3>2, <3>3, <3>4
  <2>. QED BY <1>2, <2>1, <2>2 DEF Syncing
<1>13. ASSUME NEW answer, Answer(u, answer),
              Covers(entered[u], stored[u], Gone,
                     NewSyncKey(sync[u].key, answer), received[u] \cup answer),
              sync[u].pc # "idle"
       PROVE  Syncing(u)'
  <2>1. /\ UNCHANGED <<entered, stored, refused, lost, lastSyncKey, received>>
        /\ sync'[u] = [pc |-> "reply", key |-> sync[u].key, answer |-> answer]
    BY <1>1, <1>13 DEF Answer, saverVars, cacheVars
  <2>2. sync[u].key = lastSyncKey[u]
    BY <1>13 DEF Syncing
  <2>3. Gone' = Gone
    BY <2>1 DEF Gone
  <2>. QED BY <1>2, <1>13, <2>1, <2>2, <2>3 DEF Syncing
<1>14. CASE SyncRange(u)
  BY <1>13, <1>14, RangeCovers DEF SyncRange
<1>15. CASE SyncQuery(u)
  BY <1>13, <1>15, QueryCovers DEF SyncQuery
<1>16. CASE SyncQueryFails(u)
  <2>1. Answer(u, {}) /\ sync[u].pc = "query" /\ sync[u].key = lastSyncKey[u]
    BY <1>16 DEF SyncQueryFails, Syncing
  <2>2. NewSyncKey(sync[u].key, {}) = lastSyncKey[u]
    BY <1>1, <2>1, KeyFacts
  <2>3. Covers(entered[u], stored[u], Gone, lastSyncKey[u], received[u] \cup {})
    BY DEF Syncing, Covers
  <2>. QED BY <1>13, <2>1, <2>2, <2>3
<1>17. CASE SyncReply(u)
  <2>1. /\ sync[u].pc = "reply" /\ sync'[u] = IdleSync
        /\ received'[u] = received[u] \cup sync[u].answer
        /\ lastSyncKey'[u] = NewSyncKey(sync[u].key, sync[u].answer)
    BY <1>1, <1>17 DEF SyncReply
  <2>. QED BY <1>3, <2>1 DEF Syncing, IdleSync
<1>18. CASE SyncDropped(u)
  BY <1>1, <1>5, <1>18 DEF SyncDropped
<1>. QED
  BY <1>6, <1>7, <1>8, <1>9, <1>10, <1>11, <1>12, <1>14, <1>15, <1>16, <1>17, <1>18 DEF Next

LEMMA InOrderNext == TypeOK /\ InOrder /\ [Next]_vars => InOrder'
<1>. SUFFICES ASSUME TypeOK, InOrder, [Next]_vars PROVE InOrder'
  OBVIOUS
<1>1. Entries /\ Entries'
  BY EntriesNext DEF InOrder
<1>2. ASSUME NEW u \in Users, ~disturbed'[u] PROVE (Queued(u) /\ Ranked(u) /\ Syncing(u))'
  <2>1. Queued(u) /\ Ranked(u) /\ Syncing(u)
    BY <1>2, StaysDisturbed DEF InOrder
  <2>. QED BY <1>1, <1>2, <2>1, QueuedNext, RankedNext, SyncingNext
<1>. QED BY <1>1, <1>2 DEF InOrder

\* For any capacity, batches, nodes, crashes and database failures: a sync key never
\* passes a stored message that the client was not given, unless messages of the user
\* came or were saved out of order, a minimum was misread or a trim came between two
\* reads (chatservice.cpp, syncMessages).
THEOREM SyncKeyCoversAlways == Spec => []SyncKeyCovers
<1>1. TypeOK /\ InOrder => SyncKeyCovers
  <2>. SUFFICES ASSUME TypeOK, InOrder, NEW u \in Users, ~disturbed[u],
                       NEW m \in stored[u] \ (received[u] \cup refused \cup lost),
                       ~(MsgId[m] > lastSyncKey[u])
                PROVE  FALSE
    BY DEF SyncKeyCovers
  <2>1. m \in entered[u] /\ Covers(entered[u], stored[u], Gone, lastSyncKey[u], received[u])
    BY DEF InOrder, Entries, Syncing
  <2>2. MsgId[m] \in Nat /\ lastSyncKey[u] \in Nat
    BY <2>1, IdFacts DEF TypeOK
  <2>. QED BY <2>1, <2>2 DEF Covers, Gone
<1>. QED BY <1>1, InOrderInit, InOrderNext, TypeInit, TypeNext, PTL DEF Spec
=============================================================================
