---------------------------- MODULE ReliablePush ----------------------------
(***************************************************************************)
(* Pushing a message to an online receiver until it is acknowledged: the   *)
(* end of ChatService::oneChat, handleRedisSubscribeMessage, recvAck,      *)
(* retransmitLoop and clientCloseException, with the two mutexes they      *)
(* share, _connMutex and _pendingMutex.                                    *)
(*                                                                         *)
(* The threads are the pool's workers and the Redis observer (one push     *)
(* each), the reactor (closing one connection at a time) and the           *)
(* retransmission thread. A mutex is shown as held only where its holder   *)
(* can be overtaken: a critical section that neither blocks nor sends is   *)
(* one step. The login steps themselves interleave in module Session.      *)
(***************************************************************************)
EXTENDS Integers, FiniteSets

CONSTANTS
    Users, Conns, Msgs,
    Owner,        \* Owner[c]: the user who logs in on connection c
    To,           \* To[m]: the receiver of m
    MsgId,        \* MsgId[m]: msg_id of m, given by its sender and unique only there
    Resent,       \* messages whose sender retransmits them once
    Remote,       \* messages that reach this server through the Redis channel
    LongMsgs,     \* messages whose hex content does not fit OfflineMessage.message
    MaxRetry,     \* resends before giving up (3 in the code)
    MaxSkips,     \* passes that may find an entry younger than its timeout
    MaxDbFailures, \* bound on the steps in which MySQL fails
    NoConn, NoMsg, NoId, Free

Ids == {MsgId[m] : m \in Msgs}

ASSUME OwnerAssumption == Owner \in [Conns -> Users] /\ To \in [Msgs -> Users]
ASSUME MsgSetsAssumption ==
    Resent \subseteq Msgs /\ Remote \subseteq Msgs /\ LongMsgs \subseteq Msgs
ASSUME LimitsAssumption == MaxRetry \in Nat /\ MaxSkips \in Nat /\ MaxDbFailures \in Nat

\* A thread that pushes a message: which message, and which copy of its sender's.
Pushes == {p \in Msgs \X {1, 2} : p[2] = 2 => p[1] \in Resent}
Msg(p) == p[1]
Rcv(p) == To[Msg(p)]

ASSUME NamesAssumption ==
    /\ NoConn \notin Conns /\ NoMsg \notin Msgs /\ NoId \notin Ids
    /\ Free # "retx" /\ Free \notin Pushes

VARIABLES
    connMap,      \* connMap[u]: the connection of u in _userConnMap, or NoConn
    online,       \* online[u]: u's row in table User says "online"
    link,         \* link[c]: "unused", "up", or "down" once closed_ is set
    close,        \* close[c]: how far the reactor is with closing c
    push,         \* push[p]: how far the thread that pushes p is
    pending,      \* pending[i]: the entry of msg_id i in _pendingRecvAckMap
    connMutex,    \* the push that holds _connMutex, or Free
    pendingMutex, \* "retx" while the retransmission thread holds it, or Free
    retx,         \* where the retransmission thread is
    scan,         \* the entries its pass has still to visit
    giveUp,       \* the id it gives up, or NoId
    wire,         \* wire[c]: copies sent on c that the client has not read
    acks,         \* copies acknowledged, the recvAck task not yet run
    offline,      \* messages in table OfflineMessage
    dbFailures,
    serverUp,     \* FALSE: an exception left a thread that is not the pool's
    delivered,    \* ghost: messages a client has read
    forwarded,    \* ghost: messages sent to a connection by a push
    refused,      \* ghost: messages whose INSERT into OfflineMessage failed
    thrown        \* ghost: messages whose push ended in an exception

mutexes == <<connMutex, pendingMutex>>
retxVars == <<retx, scan, giveUp>>
tables == <<offline, refused, dbFailures>>
net == <<wire, acks, delivered>>
ghosts == <<forwarded, thrown>>
vars == <<connMap, link, close, push, pending, mutexes, retxVars, online, tables, net,
          ghosts, serverUp>>

NoEntry == [msg |-> NoMsg, conn |-> NoConn, copy |-> 0, retry |-> 0, skips |-> 0]
IsPending(i) == pending[i].conn # NoConn
PendingIds == {i \in Ids : IsPending(i)}
IsPendingMsg(m) == IsPending(MsgId[m]) /\ pending[MsgId[m]].msg = m

Init ==
    /\ connMap = [u \in Users |-> NoConn] /\ online = [u \in Users |-> FALSE]
    /\ link = [c \in Conns |-> "unused"]
    /\ close = [c \in Conns |-> "no"]
    /\ push = [p \in Pushes |-> "todo"]
    /\ pending = [i \in Ids |-> NoEntry]
    /\ connMutex = Free /\ pendingMutex = Free
    /\ retx = "sleep" /\ scan = {} /\ giveUp = NoId
    /\ wire = [c \in Conns |-> {}] /\ acks = {}
    /\ offline = {} /\ refused = {} /\ dbFailures = 0
    /\ delivered = {} /\ forwarded = {} /\ thrown = {} /\ serverUp = TRUE

\* TcpConnection::send: nothing is sent once closed_ is set.
Sent(c, copy) == [wire EXCEPT ![c] = IF link[c] = "up" THEN @ \cup {copy} ELSE @]

\* Bug: nothing is stored.
StoresNothing(ms) == UNCHANGED tables

\* OfflineMsgModel::insert, one statement for each of ms: a payload above 250 bytes
\* does not fit the column in hex, and any statement may fail with MySQL. Nobody
\* looks at the result.
Stores(ms) ==
    \E failed \in SUBSET ms :
        /\ ms \cap LongMsgs \subseteq failed
        /\ offline' = offline \cup (ms \ failed)
        /\ refused' = refused \cup failed
        /\ IF failed \subseteq LongMsgs THEN UNCHANGED dbFailures
           ELSE dbFailures < MaxDbFailures /\ dbFailures' = dbFailures + 1

----------------------------------------------------------------------------
(* The clients.                                                             *)

\* A client connects and logs in: refused while its row says "online".
Login(c) ==
    /\ link[c] = "unused" /\ ~online[Owner[c]]
    /\ connMutex = Free
    /\ connMap' = [connMap EXCEPT ![Owner[c]] = IF @ = NoConn THEN c ELSE @]
    /\ online' = [online EXCEPT ![Owner[c]] = TRUE]
    /\ link' = [link EXCEPT ![c] = "up"]
    /\ UNCHANGED <<close, push, pending, mutexes, retxVars, tables, net, ghosts, serverUp>>

\* A client reads a copy and answers MSG_RECV_ACK, duplicate or not.
ClientRecv(c, copy) ==
    /\ link[c] = "up" /\ copy \in wire[c]
    /\ wire' = [wire EXCEPT ![c] = @ \ {copy}]
    /\ delivered' = delivered \cup {copy[1]}
    /\ acks' = acks \cup {copy}
    /\ UNCHANGED <<connMap, link, close, push, pending, mutexes, retxVars, online, tables,
                   ghosts, serverUp>>

----------------------------------------------------------------------------
(* The pushes.                                                              *)

\* Under _connMutex the receiver is found and the message sent to it: whole, or in
\* part while the socket's buffer is full.
PushSend(p) ==
    /\ push[p] = "todo" /\ connMutex = Free /\ connMap[Rcv(p)] # NoConn
    /\ connMutex' = p
    /\ forwarded' = forwarded \cup {Msg(p)}
    /\ \/ /\ push' = [push EXCEPT ![p] = "sent"]
          /\ wire' = Sent(connMap[Rcv(p)], <<Msg(p), p[2], 0>>)
       \/ /\ link[connMap[Rcv(p)]] = "up"
          /\ push' = [push EXCEPT ![p] = "full"]
          /\ UNCHANGED wire
    /\ UNCHANGED <<connMap, link, close, pending, pendingMutex, retxVars, online, tables,
                   acks, delivered, thrown, serverUp>>

\* A local receiver that is not found is looked up elsewhere (the message is in the
\* timeline); one whose message came over the channel gets it stored offline.
PushStore(p) ==
    /\ push[p] = "todo" /\ connMutex = Free /\ connMap[Rcv(p)] = NoConn
    /\ push' = [push EXCEPT ![p] = "done"]
    /\ Stores({Msg(p)} \cap Remote)
    /\ UNCHANGED <<connMap, link, close, pending, mutexes, retxVars, online, net, ghosts, serverUp>>

\* The end of send: EPOLLOUT is asked for, and the rest will follow.
PushArm(p) ==
    /\ push[p] = "full"
    /\ push' = [push EXCEPT ![p] = "sent"]
    /\ wire' = Sent(connMap[Rcv(p)], <<Msg(p), p[2], 0>>)
    /\ UNCHANGED <<connMap, link, close, pending, mutexes, retxVars, online, tables,
                   acks, delivered, ghosts, serverUp>>

Down == /\ serverUp' = FALSE
        /\ UNCHANGED <<connMap, link, close, push, pending, mutexes, retxVars, online, tables,
                       net, ghosts>>

\* The reactor has taken the descriptor out of epoll since send looked at closed_:
\* updateChannel throws. A worker's exception ends in the task's future, and
\* the message is not recorded; the Redis observer's ends the process.
PushThrows(p) ==
    /\ push[p] = "full" /\ link[connMap[Rcv(p)]] = "down"
    /\ IF Msg(p) \in Remote THEN Down
       ELSE /\ push' = [push EXCEPT ![p] = "done"]
            /\ connMutex' = Free
            /\ thrown' = thrown \cup {Msg(p)}
            /\ UNCHANGED <<connMap, link, close, pending, pendingMutex, retxVars, online, tables,
                           net, forwarded, serverUp>>

\* _pendingRecvAckMap.insert leaves an entry that is there alone.
Recorded(p) ==
    IF IsPending(MsgId[Msg(p)]) THEN pending
    ELSE [pending EXCEPT ![MsgId[Msg(p)]] =
            [msg |-> Msg(p), conn |-> connMap[Rcv(p)], copy |-> p[2], retry |-> 0, skips |-> 0]]

\* Still under _connMutex, the message is recorded under _pendingMutex.
PushRecord(p) ==
    /\ push[p] = "sent" /\ pendingMutex = Free
    /\ pending' = Recorded(p)
    /\ push' = [push EXCEPT ![p] = "done"]
    /\ connMutex' = Free
    /\ UNCHANGED <<connMap, link, close, pendingMutex, retxVars, online, tables, net,
                   ghosts, serverUp>>

\* recvAck erases the entry, if there is one.
RecvAck(copy) ==
    /\ copy \in acks /\ pendingMutex = Free
    /\ acks' = acks \ {copy}
    /\ pending' = [pending EXCEPT ![MsgId[copy[1]]] = NoEntry]
    /\ UNCHANGED <<connMap, link, close, push, mutexes, retxVars, online, tables, wire,
                   delivered, ghosts, serverUp>>

----------------------------------------------------------------------------
(* clientCloseException on the reactor thread.                              *)

ReactorFree == \A c \in Conns : close[c] \in {"no", "done"}

\* The reactor reads the end of the stream: closed_ is set, what was on its way
\* to the client is lost.
Disconnect(c) ==
    /\ link[c] = "up" /\ ReactorFree
    /\ link' = [link EXCEPT ![c] = "down"]
    /\ close' = [close EXCEPT ![c] = "erase"]
    /\ wire' = [wire EXCEPT ![c] = {}]
    /\ UNCHANGED <<connMap, push, pending, mutexes, retxVars, online, tables, acks, delivered,
                   ghosts, serverUp>>

Erased(c) == [u \in Users |-> IF connMap[u] = c THEN NoConn ELSE connMap[u]]

\* The user of c, if c is registered, is taken out of _userConnMap.
CloseErase(c) ==
    /\ close[c] = "erase" /\ connMutex = Free
    /\ connMap' = Erased(c)
    /\ close' = [close EXCEPT ![c] = IF connMap' = connMap THEN "done" ELSE "offline"]
    /\ UNCHANGED <<link, push, pending, mutexes, retxVars, online, tables, net, ghosts, serverUp>>

\* updateState("offline"), unsubscribe, hdel and the broadcast to friends.
CloseOffline(c) ==
    /\ close[c] = "offline"
    /\ online' = [online EXCEPT ![Owner[c]] = FALSE]
    /\ close' = [close EXCEPT ![c] = "sweep"]
    /\ UNCHANGED <<connMap, link, push, pending, mutexes, retxVars, tables, net, ghosts, serverUp>>

\* Bug: the entries the user sent are taken for those sent to the user.
SweptOthers(u) == {i \in PendingIds : To[pending[i].msg] # u}

\* What the sweep takes: every entry for the user, whatever its connection.
Swept(u) == {i \in PendingIds : To[pending[i].msg] = u}

CloseSweep(c) ==
    /\ close[c] = "sweep" /\ pendingMutex = Free
    /\ Stores({pending[i].msg : i \in Swept(Owner[c])})
    /\ pending' = [i \in Ids |-> IF i \in Swept(Owner[c]) THEN NoEntry ELSE pending[i]]
    /\ close' = [close EXCEPT ![c] = "done"]
    /\ UNCHANGED <<connMap, link, push, mutexes, retxVars, online, net, ghosts, serverUp>>

----------------------------------------------------------------------------
(* retransmitLoop: one pass every 2 seconds, under _pendingMutex.           *)

RetxLock ==
    /\ retx = "sleep" /\ pendingMutex = Free
    /\ pendingMutex' = "retx"
    /\ retx' = "scan" /\ scan' = PendingIds
    /\ UNCHANGED <<connMap, link, close, push, pending, connMutex, giveUp, online, tables, net,
                   ghosts, serverUp>>

MayRetry(i) == pending[i].retry < MaxRetry

\* Bug: resends are not counted.
SentUncounted(entry) == [entry EXCEPT !.skips = 0]

\* retryCount++ and a new lastSendTime.
SentAgain(entry) ==
    [msg |-> entry.msg, conn |-> entry.conn, copy |-> entry.copy,
     retry |-> entry.retry + 1, skips |-> 0]

\* An entry younger than 3 seconds: only so many passes fit into that time.
RetxYoung(i) ==
    /\ retx = "scan" /\ i \in scan
    /\ pending[i].skips < MaxSkips
    /\ pending' = [pending EXCEPT ![i].skips = @ + 1]
    /\ scan' = scan \ {i}
    /\ UNCHANGED <<connMap, link, close, push, mutexes, retx, giveUp, online, tables, net,
                   ghosts, serverUp>>

RetxResend(i) ==
    /\ retx = "scan" /\ i \in scan
    /\ MayRetry(i)
    /\ pending' = [pending EXCEPT ![i] = SentAgain(@)]
    /\ wire' = Sent(pending[i].conn, <<pending[i].msg, pending[i].copy, pending[i].retry + 1>>)
    /\ scan' = scan \ {i}
    /\ UNCHANGED <<connMap, link, close, push, mutexes, retx, giveUp, online, tables, acks,
                   delivered, ghosts, serverUp>>

\* The reactor takes the connection out of epoll in the middle of that send: nothing
\* catches what this thread throws.
RetxThrows(i) ==
    /\ retx = "scan" /\ i \in scan
    /\ MayRetry(i) /\ link[pending[i].conn] = "up" /\ ReactorFree
    /\ Down

\* The last resend was not acknowledged: the message is stored offline, and
\* clientCloseException is called with _pendingMutex still held.
RetxGiveUp(i) ==
    /\ retx = "scan" /\ i \in scan
    /\ ~MayRetry(i)
    /\ Stores({pending[i].msg})
    /\ retx' = "erase" /\ giveUp' = i
    /\ UNCHANGED <<connMap, link, close, push, pending, mutexes, scan, online, net, ghosts, serverUp>>

LostConn == pending[giveUp].conn

RetxErase ==
    /\ retx = "erase" /\ connMutex = Free
    /\ connMap' = Erased(LostConn)
    /\ retx' = IF connMap' = connMap THEN "shut" ELSE "offline"
    /\ UNCHANGED <<link, close, push, pending, mutexes, scan, giveUp, online, tables, net,
                   ghosts, serverUp>>

\* After this clientCloseException locks _pendingMutex, which this thread holds
\* and which is not recursive: there is no step out of "sweep".
RetxOffline ==
    /\ retx = "offline"
    /\ online' = [online EXCEPT ![Owner[LostConn]] = FALSE]
    /\ retx' = "sweep"
    /\ UNCHANGED <<connMap, link, close, push, pending, mutexes, scan, giveUp, tables, net,
                   ghosts, serverUp>>

\* conn->shutdown() (whose close callback finds nothing registered any more),
\* then the entry is erased.
RetxShut ==
    /\ retx = "shut"
    /\ link' = [link EXCEPT ![LostConn] = "down"]
    /\ wire' = [wire EXCEPT ![LostConn] = {}]
    /\ pending' = [pending EXCEPT ![giveUp] = NoEntry]
    /\ scan' = scan \ {giveUp}
    /\ retx' = "scan" /\ giveUp' = NoId
    /\ UNCHANGED <<connMap, close, push, mutexes, online, tables, acks, delivered, ghosts, serverUp>>

RetxUnlock ==
    /\ retx = "scan" /\ scan = {}
    /\ retx' = "sleep" /\ pendingMutex' = Free
    /\ UNCHANGED <<connMap, link, close, push, pending, connMutex, scan, giveUp, online, tables,
                   net, ghosts, serverUp>>

----------------------------------------------------------------------------
\* A started thread goes on, and one that waits for a mutex gets it if it is
\* free again and again: the retransmission thread sleeps 2 seconds between two
\* passes. Clients, networks and logins owe nothing.
ArmSome == \E p \in Pushes : PushArm(p) \/ PushThrows(p)
RecordSome == \E p \in Pushes : PushRecord(p)
AckSome == \E copy \in acks : RecvAck(copy)
EraseSome == \E c \in Conns : CloseErase(c)
SweepSome == \E c \in Conns : CloseSweep(c)
CloseSome == \E c \in Conns : CloseOffline(c)
VisitSome == \E i \in Ids : RetxYoung(i) \/ RetxResend(i) \/ RetxThrows(i) \/ RetxGiveUp(i)
RetxGoesOn == RetxLock \/ VisitSome \/ RetxOffline \/ RetxShut \/ RetxUnlock

Fairness ==
    /\ WF_vars(serverUp /\ ArmSome)
    /\ SF_vars(serverUp /\ RecordSome) /\ SF_vars(serverUp /\ AckSome)
    /\ SF_vars(serverUp /\ EraseSome) /\ SF_vars(serverUp /\ SweepSome)
    /\ WF_vars(serverUp /\ CloseSome)
    /\ SF_vars(serverUp /\ RetxErase) /\ WF_vars(serverUp /\ RetxGoesOn)

Next ==
    /\ serverUp
    /\ \/ \E c \in Conns :
             \/ Login(c) \/ Disconnect(c)
             \/ CloseErase(c) \/ CloseOffline(c) \/ CloseSweep(c)
             \/ \E copy \in wire[c] : ClientRecv(c, copy)
       \/ \E p \in Pushes :
             PushSend(p) \/ PushStore(p) \/ PushArm(p) \/ PushThrows(p) \/ PushRecord(p)
       \/ \E copy \in acks : RecvAck(copy)
       \/ RetxLock \/ RetxUnlock \/ RetxErase \/ RetxOffline \/ RetxShut
       \/ \E i \in Ids : RetxYoung(i) \/ RetxResend(i) \/ RetxThrows(i) \/ RetxGiveUp(i)

Spec == Init /\ [][Next]_vars /\ Fairness

----------------------------------------------------------------------------
Copies == Msgs \X {0, 1, 2} \X (0..MaxRetry)
RetxPCs == {"sleep", "scan", "erase", "offline", "sweep", "shut"}
Entries == [msg : Msgs, conn : Conns, copy : {1, 2}, retry : 0..MaxRetry, skips : 0..MaxSkips]

\* Every variable has its type: threads are at a known step, entries name a
\* connection and stay within the retry limit, mutexes have a possible holder.
TypeOK ==
    /\ connMap \in [Users -> Conns \cup {NoConn}] /\ online \in [Users -> BOOLEAN]
    /\ link \in [Conns -> {"unused", "up", "down"}]
    /\ close \in [Conns -> {"no", "erase", "offline", "sweep", "done"}]
    /\ push \in [Pushes -> {"todo", "full", "sent", "done"}]
    /\ pending \in [Ids -> Entries \cup {NoEntry}]
    /\ connMutex \in Pushes \cup {Free} /\ pendingMutex \in {"retx", Free}
    /\ retx \in RetxPCs /\ scan \subseteq Ids /\ giveUp \in Ids \cup {NoId}
    /\ wire \in [Conns -> SUBSET Copies] /\ acks \subseteq Copies
    /\ offline \subseteq Msgs /\ refused \subseteq Msgs /\ dbFailures \in 0..MaxDbFailures
    /\ delivered \subseteq Msgs /\ forwarded \subseteq Msgs /\ thrown \subseteq Msgs
    /\ serverUp \in BOOLEAN

\* The retransmission thread is in the middle of closing connection c.
RetxCloses(c) == retx \in {"offline", "sweep"} /\ LostConn = c

\* A message waits for an acknowledgement only while its connection is the
\* registered one of its receiver, or while a thread that took that connection
\* out of _userConnMap has still to sweep the receiver's entries: no entry is
\* left behind to be resent on a dead connection (oneChat, clientCloseException).
NoOrphan ==
    \A i \in PendingIds :
        LET c == pending[i].conn IN
        \/ connMap[To[pending[i].msg]] = c
        \/ close[c] \in {"offline", "sweep"}
        \/ RetxCloses(c)

\* Another message with the id of m was sent to a connection: two senders gave one
\* id in one millisecond, and the pending map has room for one of the two.
ShareId(m) == \E other \in forwarded \ {m} : MsgId[other] = MsgId[m]

\* A message sent to its receiver's connection is in the pending map, in the
\* offline table, read by the client, or about to be recorded, as long as the
\* process runs, unless MySQL refused it, its send threw or its id is another one's
\* too: acknowledgement, sweep and retransmission drop nothing else in silence.
NothingDropped ==
    serverUp =>
        \A m \in forwarded \ (refused \cup thrown) :
            \/ IsPendingMsg(m) \/ m \in offline \/ m \in delivered \/ ShareId(m)
            \/ \E p \in Pushes : Msg(p) = m /\ push[p] \in {"full", "sent"}

\* An entry is settled in the end, unless the retransmission thread is giving
\* up some message or an exception ends the process: no other interleaving of the
\* threads leaves it there.
PendingIsSettled ==
    \A i \in Ids : IsPending(i) ~> ~IsPending(i) \/ retx \notin {"sleep", "scan"} \/ ~serverUp

\* chatservice.cpp, retransmitLoop: at the retry limit the peer is taken for
\* dead, its message stored offline and its connection forced to close. The
\* thread comes through that branch and goes on with its pass.
GiveUpCloses == retx = "erase" ~> retx = "scan" \/ ~serverUp
=============================================================================
