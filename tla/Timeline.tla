------------------------------ MODULE Timeline ------------------------------
(***************************************************************************)
(* The life of a chat message inside ChatServer, and how an offline user   *)
(* gets it back: ChatService::oneChat acknowledges the message, puts it on *)
(* the save queue and in the Redis timeline of its receiver;               *)
(* backgroundSaveThread moves the queue to MySQL in batches; syncMessages  *)
(* answers a client's SYNC_REQ from the timeline or from MySQL; the client *)
(* keeps the largest id it was given as its next sync key.                 *)
(*                                                                         *)
(* Redis and MySQL are separate services that survive a server crash.      *)
(* Pushing the message to an online receiver is module ReliablePush.       *)
(***************************************************************************)
EXTENDS Integers, Sequences, FiniteSets

CONSTANTS
    Users,          \* the receivers
    Nodes,          \* the ChatServer processes, each with a save queue of its own
    Msgs,           \* the messages
    MsgId,          \* MsgId[m]: msg_id of m, given by its sender and unique only there
    Score,          \* Score[i]: the double that Redis keeps for the id i
    Read,           \* Read[i]: what atoll makes of Score[i] as Redis prints it
    To,             \* To[m]: the receiver of m
    On,             \* On[m]: the node the sender of m is connected to
    Resent,         \* messages whose sender retransmits them once
    LongMsgs,       \* messages whose hex content does not fit the content column
    CacheCap,       \* entries kept in a timeline (100 in the code)
    BatchMax,       \* messages saved in one INSERT (100 in the code)
    MaxCrashes,     \* bound on crashes and restarts of nodes
    MaxDbFailures   \* bound on MySQL calls that fail

Ids == {MsgId[m] : m \in Msgs}

ASSUME MsgsAssumption == IsFiniteSet(Msgs) /\ MsgId \in [Msgs -> Nat \ {0}]
\* Doubles round monotonically, and only 0 becomes 0.
ASSUME ScoreAssumption ==
    /\ Score \in [Ids \cup {0} -> Nat] /\ \A i \in Ids : Score[i] > Score[0]
    /\ \A i, j \in Ids \cup {0} : i <= j => Score[i] <= Score[j]
\* A printed score begins with a digit that is not 0. Redis up to 7.0 prints %.17g,
\* which has an exponent from 1e17 on: atoll reads the first digit. Later versions
\* print the shortest digits that give the double, and zeros.
ASSUME ReadAssumption == Read \in [Ids -> Nat \ {0}]
ASSUME ToAssumption == To \in [Msgs -> Users] /\ On \in [Msgs -> Nodes]
ASSUME ResentAssumption == Resent \subseteq Msgs /\ LongMsgs \subseteq Msgs
ASSUME BoundsAssumption ==
    /\ CacheCap \in Nat \ {0} /\ BatchMax \in Nat \ {0}
    /\ MaxCrashes \in Nat /\ MaxDbFailures \in Nat

\* A task is one run of the oneChat handler: a message and which copy of it.
Tasks == {t \in Msgs \X {1, 2} : t[2] = 2 => t[1] \in Resent}
Msg(t) == t[1]
Rcv(t) == To[Msg(t)]
At(t) == On[Msg(t)]

\* The score of m in its timeline.
Rank(m) == Score[MsgId[m]]

VARIABLES
    pc,          \* pc[t]: how far the handler of task t has come
    acked,       \* ghost: tasks whose sender was told the server has the message
    saveQueue,   \* saveQueue[n]: _saveMsgQueue of node n
    batch,       \* batch[n]: msgs, the local vector of its backgroundSaveThread
    history,     \* the rows of table MessageHistory
    cache,       \* cache[u]: the members of Redis ZSET user:timeline:u
    sync,        \* sync[u]: the SYNC_REQ of u in progress
    lastSyncKey, \* lastSyncKey_ of u's client, kept in its QSettings
    received,    \* received[u]: messages u's client was given by syncs
    crashes, dbFailures,
    entered,     \* ghost: entered[u], messages ever put on a save queue for u
    stored,      \* ghost: stored[u], messages ever added to the timeline of u
    refused,     \* ghost: the messages of the batches MySQL refused
    lost,        \* ghost: acknowledged messages that only a crashed node's memory held
    disturbed    \* ghost: disturbed[u], see Late, TrimsUnderSync, Misread and Overtakes

saverVars == <<saveQueue, batch, history, refused, lost>>
syncVars == <<sync, lastSyncKey, received>>
cacheVars == <<cache, stored>>
vars == <<pc, acked, saverVars, cacheVars, syncVars, entered, disturbed,
          crashes, dbFailures>>

IdleSync == [pc |-> "idle", key |-> 0, answer |-> {}]
SeqIds(q) == {q[i] : i \in DOMAIN q}

Init ==
    /\ pc = [t \in Tasks |-> "unsent"]
    /\ acked = {}
    /\ saveQueue = [n \in Nodes |-> <<>>] /\ batch = [n \in Nodes |-> <<>>]
    /\ history = {}
    /\ cache = [u \in Users |-> {}]
    /\ sync = [u \in Users |-> IdleSync]
    /\ lastSyncKey = [u \in Users |-> 0]
    /\ received = [u \in Users |-> {}]
    /\ crashes = 0 /\ dbFailures = 0
    /\ entered = [u \in Users |-> {}] /\ stored = [u \in Users |-> {}]
    /\ refused = {} /\ lost = {}
    /\ disturbed = [u \in Users |-> FALSE]

----------------------------------------------------------------------------
(* oneChat. The pool runs the handlers of several messages at once, so the  *)
(* steps of different tasks interleave.                                     *)

\* m reaches a store of its receiver after one with a larger id, or one that Redis
\* cannot tell from it.
Late(m, ms) == \E other \in ms \ {m} : Rank(other) >= Rank(m)

\* MSG_SEND_ACK is sent before anything is stored.
Accept(t) ==
    /\ pc[t] = "unsent"
    /\ pc' = [pc EXCEPT ![t] = "acked"]
    /\ acked' = acked \cup {t}
    /\ UNCHANGED <<saverVars, cacheVars, syncVars, entered, disturbed, crashes, dbFailures>>

\* _saveMsgQueue.push under _queueMutex, on the node that runs the handler.
Enqueue(t) ==
    /\ pc[t] = "acked"
    /\ pc' = [pc EXCEPT ![t] = "queued"]
    /\ saveQueue' = [saveQueue EXCEPT ![At(t)] = Append(@, Msg(t))]
    /\ entered' = [entered EXCEPT ![Rcv(t)] = @ \cup {Msg(t)}]
    /\ disturbed' = [disturbed EXCEPT ![Rcv(t)] = @ \/ Late(Msg(t), entered[Rcv(t)])]
    /\ UNCHANGED <<acked, batch, history, refused, lost, cacheVars, syncVars, crashes, dbFailures>>

\* ZADD: a message added again is the same member of the set.
CacheAdd(t) ==
    /\ pc[t] = "queued"
    /\ pc' = [pc EXCEPT ![t] = "added"]
    /\ cache' = [cache EXCEPT ![Rcv(t)] = @ \cup {Msg(t)}]
    /\ stored' = [stored EXCEPT ![Rcv(t)] = @ \cup {Msg(t)}]
    /\ disturbed' = [disturbed EXCEPT ![Rcv(t)] = @ \/ Late(Msg(t), stored[Rcv(t)])]
    /\ UNCHANGED <<acked, saverVars, syncVars, entered, crashes, dbFailures>>

\* Bug: the rank range counted from the wrong end drops the newest entries.
TrimDropsNewest(S, keep) ==
    IF Cardinality(S) <= CacheCap
    THEN keep = S
    ELSE /\ Cardinality(keep) = CacheCap
         /\ \A k \in keep, d \in S \ keep : Rank(d) >= Rank(k)

\* ZREMRANGEBYRANK key 0 -(CacheCap+1): the CacheCap largest scores stay; which
\* of equal scores go depends on the bytes of the members.
IsTrim(S, keep) ==
    IF Cardinality(S) <= CacheCap
    THEN keep = S
    ELSE /\ Cardinality(keep) = CacheCap
         /\ \A k \in keep, d \in S \ keep : Rank(d) <= Rank(k)

\* Entries leave the timeline of u between the two reads of its sync.
TrimsUnderSync(u, keep) == keep # cache[u] /\ sync[u].pc = "range"

CacheTrim(t) ==
    /\ pc[t] = "added"
    /\ pc' = [pc EXCEPT ![t] = "done"]
    /\ \E keep \in SUBSET cache[Rcv(t)] :
          /\ IsTrim(cache[Rcv(t)], keep)
          /\ cache' = [cache EXCEPT ![Rcv(t)] = keep]
          /\ disturbed' = [disturbed EXCEPT ![Rcv(t)] = @ \/ TrimsUnderSync(Rcv(t), keep)]
    /\ UNCHANGED <<acked, stored, saverVars, syncVars, entered, crashes, dbFailures>>

----------------------------------------------------------------------------
(* backgroundSaveThread.                                                    *)

Taken(q) == SubSeq(q, 1, IF Len(q) < BatchMax THEN Len(q) ELSE BatchMax)

\* Bugs: one message too many leaves the queue; none does.
LeftSkipsOne(q) == SubSeq(q, Len(Taken(q)) + 2, Len(q))
LeftKeepsAll(q) == q

Left(q) == SubSeq(q, Len(Taken(q)) + 1, Len(q))

\* Bug: the thread waits for a full batch.
ReadyWhenFull(q) == Len(q) >= BatchMax

\* The condition the thread waits for, once a second at least.
Ready(q) == q # <<>>

Waiting(n) == SeqIds(saveQueue[n]) \cup SeqIds(batch[n])

SaveTake(n) ==
    /\ batch[n] = <<>> /\ Ready(saveQueue[n])
    /\ batch' = [batch EXCEPT ![n] = Taken(saveQueue[n])]
    /\ saveQueue' = [saveQueue EXCEPT ![n] = Left(saveQueue[n])]
    /\ UNCHANGED <<pc, acked, history, refused, lost, cacheVars, syncVars,
                   entered, disturbed, crashes, dbFailures>>

\* One multi-row INSERT: MySQL takes every row or none. msg_id is the primary
\* key and content has a length.
Insertable(rows) ==
    /\ \A i, j \in DOMAIN rows : MsgId[rows[i]] = MsgId[rows[j]] => i = j
    /\ \A i \in DOMAIN rows : \A m \in history : MsgId[m] # MsgId[rows[i]]
    /\ SeqIds(rows) \cap LongMsgs = {}

\* n saves a message for u while an older one waits on another node.
Overtakes(n, u) ==
    \E k \in SeqIds(batch[n]) : \E other \in Nodes \ {n} : \E m \in Waiting(other) :
        To[k] = u /\ To[m] = u /\ MsgId[m] < MsgId[k]

\* insertBatch and the end of the loop body: a failure is only logged.
SaveBatch(n, works) ==
    /\ batch[n] # <<>>
    /\ batch' = [batch EXCEPT ![n] = <<>>]
    /\ IF works /\ Insertable(batch[n])
       THEN /\ history' = history \cup SeqIds(batch[n])
            /\ disturbed' = [u \in Users |-> disturbed[u] \/ Overtakes(n, u)]
            /\ UNCHANGED refused
       ELSE /\ refused' = refused \cup SeqIds(batch[n])
            /\ UNCHANGED <<history, disturbed>>
    /\ UNCHANGED <<pc, acked, saveQueue, lost, cacheVars, syncVars, entered, crashes>>

SaveInsert(n) == SaveBatch(n, TRUE) /\ UNCHANGED dbFailures

SaveFails(n) ==
    /\ dbFailures < MaxDbFailures
    /\ dbFailures' = dbFailures + 1
    /\ SaveBatch(n, FALSE)

----------------------------------------------------------------------------
(* syncMessages, and the client around it.                                  *)

\* Bug: any cached entry counts as a hit.
HitIfCached(u, key) == cache[u] # {}

\* zminscore's ZRANGE 0 0: a member with the smallest score.
Least(u) == {m \in cache[u] : \A other \in cache[u] : Rank(m) <= Rank(other)}

\* min_score != -1 && last_sync_key >= min_score, where min_score is what atoll
\* reads of the smallest score.
Hit(u, key) == \E m \in Least(u) : key >= Read[MsgId[m]]

\* The printed score is read as a number that keys below the score reach.
Misread(u, key) == \E m \in Least(u) : key >= Read[MsgId[m]] /\ Score[key] < Rank(m)

\* The client logs in, reads its stored key and sends SYNC_REQ; the handler
\* reads zminscore and branches on it.
SyncMin(u) ==
    /\ sync[u].pc = "idle"
    /\ sync' = [sync EXCEPT ![u] =
                   [pc |-> IF Hit(u, lastSyncKey[u]) THEN "range" ELSE "query",
                    key |-> lastSyncKey[u], answer |-> {}]]
    /\ disturbed' = [disturbed EXCEPT ![u] = @ \/ Misread(u, lastSyncKey[u])]
    /\ UNCHANGED <<pc, acked, saverVars, cacheVars, lastSyncKey, received,
                   entered, crashes, dbFailures>>

\* Bug: off by one at the exclusive bound.
AfterNext(ms, key) == {m \in ms : MsgId[m] > key + 1}

\* Both reads leave the key itself out: MySQL by the id, ZRANGEBYSCORE by the
\* score.
After(ms, key) == {m \in ms : MsgId[m] > key}
AfterScore(ms, key) == {m \in ms : Rank(m) > Score[key]}

Answer(u, ms) ==
    /\ sync' = [sync EXCEPT ![u] = [pc |-> "reply", key |-> @.key, answer |-> ms]]
    /\ UNCHANGED <<pc, acked, saverVars, cacheVars, lastSyncKey, received,
                   entered, disturbed, crashes>>

\* zrangebyscore, a second command.
SyncRange(u) ==
    /\ sync[u].pc = "range"
    /\ Answer(u, AfterScore(cache[u], sync[u].key))
    /\ UNCHANGED dbFailures

\* MessageHistoryModel::query.
SyncQuery(u) ==
    /\ sync[u].pc = "query"
    /\ Answer(u, After({m \in history : To[m] = u}, sync[u].key))
    /\ UNCHANGED dbFailures

\* Without a connection or a result set the query returns no row.
SyncQueryFails(u) ==
    /\ sync[u].pc = "query"
    /\ dbFailures < MaxDbFailures
    /\ dbFailures' = dbFailures + 1
    /\ Answer(u, {})

\* new_sync_key, and what the client makes of it.
NewSyncKey(key, answer) ==
    LET keys == {MsgId[m] : m \in answer} \cup {key} IN
    CHOOSE k \in keys : \A i \in keys : i <= k

SyncReply(u) ==
    /\ sync[u].pc = "reply"
    /\ received' = [received EXCEPT ![u] = @ \cup sync[u].answer]
    /\ lastSyncKey' = [lastSyncKey EXCEPT ![u] = NewSyncKey(sync[u].key, sync[u].answer)]
    /\ sync' = [sync EXCEPT ![u] = IdleSync]
    /\ UNCHANGED <<pc, acked, saverVars, cacheVars, entered, disturbed, crashes, dbFailures>>

\* The connection closes before the answer arrives.
SyncDropped(u) ==
    /\ sync[u].pc # "idle"
    /\ sync' = [sync EXCEPT ![u] = IdleSync]
    /\ UNCHANGED <<pc, acked, saverVars, cacheVars, lastSyncKey, received,
                   entered, disturbed, crashes, dbFailures>>

----------------------------------------------------------------------------
\* The acknowledged messages that only the memory of n holds.
InMemory(n) ==
    {Msg(t) : t \in {x \in Tasks : pc[x] = "acked" /\ At(x) = n}} \cup Waiting(n)

\* A node dies and is restarted. The connections to it break: its handlers stop
\* where they are, no sender retransmits across the break, and the syncs of the
\* users that were connected to it are over.
Crash(n) ==
    /\ crashes < MaxCrashes
    /\ crashes' = crashes + 1
    /\ pc' = [t \in Tasks |->
                 IF At(t) # n \/ pc[t] = "done"
                    \/ \A s \in Tasks : Msg(s) = Msg(t) => pc[s] = "unsent"
                 THEN pc[t] ELSE "dead"]
    /\ lost' = lost \cup InMemory(n)
    /\ saveQueue' = [saveQueue EXCEPT ![n] = <<>>]
    /\ batch' = [batch EXCEPT ![n] = <<>>]
    /\ \E users \in SUBSET Users :
          sync' = [u \in Users |-> IF u \in users THEN IdleSync ELSE sync[u]]
    /\ UNCHANGED <<acked, history, refused, cacheVars, lastSyncKey, received,
                   entered, disturbed, dbFailures>>

Next ==
    \/ \E t \in Tasks : Accept(t) \/ Enqueue(t) \/ CacheAdd(t) \/ CacheTrim(t)
    \/ \E n \in Nodes : SaveTake(n) \/ SaveInsert(n) \/ SaveFails(n) \/ Crash(n)
    \/ \E u \in Users :
          \/ SyncMin(u) \/ SyncRange(u) \/ SyncQuery(u) \/ SyncQueryFails(u)
          \/ SyncReply(u) \/ SyncDropped(u)

\* A worker thread that runs a handler goes on with it. The save thread of a node
\* loops for ever and waits at most a second for its queue.
Fairness ==
    /\ \A t \in Tasks :
          WF_vars(Enqueue(t)) /\ WF_vars(CacheAdd(t)) /\ WF_vars(CacheTrim(t))
    /\ \A n \in Nodes : WF_vars(SaveTake(n)) /\ WF_vars(SaveInsert(n))

Spec == Init /\ [][Next]_vars /\ Fairness

----------------------------------------------------------------------------
HandlerPCs == {"unsent", "acked", "queued", "added", "done", "dead"}
SyncPCs == {"idle", "range", "query", "reply"}
Syncs == [pc : SyncPCs, key : Ids \cup {0}, answer : SUBSET Msgs]

\* Every variable has its type: handlers are at a known step, queues and batches
\* hold messages, a timeline holds only messages added to it.
TypeOK ==
    /\ pc \in [Tasks -> HandlerPCs]
    /\ acked \subseteq Tasks
    /\ saveQueue \in [Nodes -> Seq(Msgs)] /\ batch \in [Nodes -> Seq(Msgs)]
    /\ history \subseteq Msgs
    /\ cache \in [Users -> SUBSET Msgs]
    /\ sync \in [Users -> Syncs]
    /\ lastSyncKey \in [Users -> Ids \cup {0}]
    /\ received \in [Users -> SUBSET Msgs]
    /\ crashes \in 0..MaxCrashes /\ dbFailures \in 0..MaxDbFailures
    /\ entered \in [Users -> SUBSET Msgs]
    /\ stored \in [Users -> SUBSET Msgs]
    /\ refused \subseteq Msgs /\ lost \subseteq Msgs
    /\ disturbed \in [Users -> BOOLEAN]

NotOlder(S, x) == {y \in S : Rank(y) >= Rank(x)}

\* However the ZADDs and ZREMRANGEBYRANKs of concurrent handlers interleave, a
\* message that is gone from a timeline has at least CacheCap messages in it whose
\* scores are not smaller: the timeline always holds the newest messages, as far as
\* Redis can tell them apart (chatservice.cpp, oneChat).
CacheHoldsNewest ==
    \A u \in Users : \A x \in stored[u] \ cache[u] :
        Cardinality(NotOlder(cache[u], x)) >= CacheCap

Covered(u, key) == AfterScore(stored[u], key) \subseteq cache[u]

\* The rule by which syncMessages answers from the cache is right whenever no
\* handler is between its ZADD and its trim and the printed minimum is not misread:
\* a key that passes the test leaves nothing that ZRANGEBYSCORE would return outside
\* the cache, and a new client's 0 passes no test.
HitCoversUnread ==
    \A u \in Users : Cardinality(cache[u]) <= CacheCap =>
        \A key \in Ids \cup {0} :
            Hit(u, key) => key # 0 /\ (Misread(u, key) \/ Covered(u, key))

\* If the messages of a user were stored in the order of their ids, on one node or
\* on several, no two of them have the same score, no trim came between the two reads
\* of a sync and no minimum was misread, the client's sync key is behind every stored
\* message the client was not given, MySQL's refusals and crashes apart: no later
\* sync can miss it (syncMessages, ImClient::handleMessage).
SyncKeyCovers ==
    \A u \in Users : ~disturbed[u] =>
        \A m \in stored[u] \ (received[u] \cup refused \cup lost) : MsgId[m] > lastSyncKey[u]

Held == history \cup UNION {InMemory(n) : n \in Nodes}

\* An acknowledged message is in a handler that will enqueue it, in a queue, in a
\* batch or in MySQL, unless its batch was refused or its node crashed.
AckedIsHeld ==
    \A t \in acked : Msg(t) \in Held \cup refused \cup lost

\* MySQL refuses a batch only if two acknowledged messages have one id (one is the
\* other's retransmission, or two senders gave it in one millisecond), a message was
\* too long, or the database failed: concurrent handlers, nodes and batches alone
\* never conflict.
RefusalHasCause ==
    refused # {} =>
        \/ \E s, t \in acked : s # t /\ MsgId[Msg(s)] = MsgId[Msg(t)]
        \/ \E t \in acked : Msg(t) \in LongMsgs
        \/ dbFailures > 0

\* A message on a save queue is saved in the end, unless its batch is refused or
\* its node crashes (backgroundSaveThread).
QueuedIsSettled ==
    \A n \in Nodes : \A m \in Msgs :
        m \in SeqIds(saveQueue[n]) ~> m \in history \cup refused \cup lost

\* README.md: at-least-once delivery. A message the sender was told the server
\* has is saved in the end if no server crashes.
AckedIsSaved ==
    \A t \in Tasks : (t \in acked) ~> (Msg(t) \in history \/ crashes > 0 \/ dbFailures > 0)
=============================================================================
