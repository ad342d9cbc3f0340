------------------------------ MODULE Reactor ------------------------------
(***************************************************************************)
(* The reactor of a ChatServer (src/server/ChatServer.cpp): one thread     *)
(* polls epoll, accepts connections and reads them; the heartbeat thread   *)
(* shuts down the idle ones by the number of their descriptor. It is       *)
(* closed with the last shared_ptr to its TcpConnection, which a worker's  *)
(* task, _userConnMap or _pendingRecvAckMap may hold, and its number is    *)
(* given out again at once. retransmitLoop may give a message up and hang   *)
(* with _pendingMutex (module ReliablePush), and the reactor after it.      *)
(* What is read and written is left to module Connection.                  *)
(***************************************************************************)
EXTENDS Naturals, FiniteSets

CONSTANTS
    Conns,   \* the connections clients make; each is made once
    Senders, \* bound: those of them on which a client sends anything
    Leavers, \* bound: those whose client may go without a word
    Fds,     \* the numbers the server has for the descriptors of connections
    MaxTasks, \* bound on the tasks at work for one connection
    Listener, None

ASSUME FdsAssumption == Fds \subseteq Nat /\ Listener \notin Fds
ASSUME NamesAssumption == None \notin Conns
ASSUME BoundsAssumption == MaxTasks \in Nat /\ Senders \cup Leavers \subseteq Conns

VARIABLES
    peer,        \* peer[c]: "new", "up", "closed" or "silent": gone without a word
    unread,      \* unread[c]: bytes of c have arrived and were not read
    backlog,     \* connections the kernel has accepted and the server has not
    edge,        \* the descriptors with an event epoll has not reported
    owner,       \* owner[f]: the socket f stands for, or None
    watched,     \* the epoll set
    connections, \* connections_
    shut,        \* open connections shutdown(2) was called on
    idle,        \* connections with now - getAliveTime() > 30
    rpc,         \* where the reactor is
    cur,         \* the connection the reactor is at, or None
    batch,       \* the events poll returned that are still to be handled
    tasks,       \* tasks[c]: the tasks that hold c
    kept,        \* the connections _userConnMap holds
    pended,      \* the connections entries of _pendingRecvAckMap hold
    gaveUp,      \* retransmitLoop holds _pendingMutex and does not come on
    toShut,      \* timeout_fds
    told,        \* told[c]: how often clientCloseException was called for c
    missed,      \* ghost: an accept failed, and epoll reported no client since
    spared,      \* ghost: connections that were not idle when it was filled
    late         \* ghost: connections a task registered after their close

world == <<peer, unread>>
kernel == <<backlog, edge, owner, watched>>
loop == <<rpc, cur, batch>>
service == <<tasks, kept, told, pended, gaveUp>>
check == <<toShut, spared>>
vars == <<world, kernel, connections, shut, idle, loop, service, check, missed, late>>

Init ==
    /\ peer = [c \in Conns |-> "new"] /\ unread = [c \in Conns |-> FALSE]
    /\ backlog = {} /\ edge = {} /\ owner = [f \in Fds |-> None] /\ watched = {}
    /\ connections = [f \in Fds |-> None] /\ shut = {} /\ idle = {}
    /\ rpc = "loop" /\ cur = None /\ batch = {}
    /\ tasks = [c \in Conns |-> 0] /\ kept = {} /\ told = [c \in Conns |-> 0]
    /\ pended = {} /\ gaveUp = FALSE
    /\ toShut = {} /\ spared = {} /\ missed = FALSE /\ late = {}

Mapped(c) == \E f \in Fds : connections[f] = c
FdsOf(c) == {f \in Fds : owner[f] = c}
FreeFds == {f \in Fds : owner[f] = None}
Lowest(f) == f \in FreeFds /\ \A g \in FreeFds : f <= g

\* An edge is noted for a descriptor in the epoll set.
EdgeOf(c) == FdsOf(c) \cap watched

Referenced(c) == Mapped(c) \/ cur = c \/ tasks[c] > 0 \/ c \in kept \cup pended

\* Who keeps c, and its descriptor open, once this step is done.
Held(c) == Referenced(c)

\* The last shared_ptr to c goes: ~Socket closes the descriptor, which leaves the
\* epoll set with that; what was unread is lost.
CloseUnlessHeld(c) ==
    IF Held(c)' THEN UNCHANGED <<world, owner, watched, edge, shut>>
    ELSE /\ peer' = [peer EXCEPT ![c] = "closed"] /\ unread' = [unread EXCEPT ![c] = FALSE]
         /\ shut' = shut \ {c}
         /\ owner' = [f \in Fds |-> IF owner[f] = c THEN None ELSE owner[f]]
         /\ watched' = watched \ FdsOf(c) /\ edge' = edge \ FdsOf(c)

----------------------------------------------------------------------------
(* Clients.                                                                 *)

Connect(c) ==
    /\ peer[c] = "new" /\ peer' = [peer EXCEPT ![c] = "up"]
    /\ backlog' = backlog \cup {c} /\ edge' = edge \cup {Listener}
    /\ UNCHANGED <<unread, owner, watched, connections, shut, idle, loop, service, check, missed,
                   late>>

\* The client may still send on its connection.
Linked(c) == peer[c] = "up" /\ c \notin shut /\ (c \in backlog \/ FdsOf(c) # {})

Send(c) ==
    /\ c \in Senders /\ Linked(c) /\ ~unread[c]
    /\ unread' = [unread EXCEPT ![c] = TRUE]
    /\ edge' = edge \cup EdgeOf(c)
    /\ UNCHANGED <<peer, backlog, owner, watched, connections, shut, idle, loop, service, check,
                   missed, late>>

Hang(c) ==
    /\ Linked(c) /\ peer' = [peer EXCEPT ![c] = "closed"]
    /\ edge' = edge \cup EdgeOf(c)
    /\ UNCHANGED <<unread, backlog, owner, watched, connections, shut, idle, loop, service, check,
                   missed, late>>

Vanish(c) ==
    /\ c \in Leavers /\ Linked(c) /\ peer' = [peer EXCEPT ![c] = "silent"]
    /\ UNCHANGED <<unread, kernel, connections, shut, idle, loop, service, check, missed, late>>

\* Half a minute passes in which nothing of c is read.
GrowIdle(c) ==
    /\ Mapped(c) /\ c \notin idle /\ idle' = idle \cup {c}
    /\ UNCHANGED <<world, kernel, connections, shut, loop, service, check, missed, late>>

----------------------------------------------------------------------------
(* start: poll, then one event after the other.                             *)

Poll ==
    /\ rpc = "loop" /\ batch = {} /\ edge # {}
    /\ batch' = edge /\ edge' = {}
    /\ UNCHANGED <<world, backlog, owner, watched, connections, shut, idle, rpc, cur, service,
                   check, missed, late>>

OnListener ==
    /\ rpc = "loop" /\ Listener \in batch
    /\ batch' = batch \ {Listener} /\ rpc' = "accept" /\ missed' = FALSE
    /\ UNCHANGED <<world, kernel, connections, shut, idle, cur, service, check, late>>

\* An event of another descriptor. One that connections_ does not have is closed,
\* whoever it belongs to.
OnEvent(f) ==
    /\ rpc = "loop" /\ f \in batch /\ f # Listener
    /\ batch' = batch \ {f}
    /\ IF connections[f] = None
       THEN /\ owner' = [owner EXCEPT ![f] = None]
            /\ watched' = watched \ {f} /\ edge' = edge \ {f}
            /\ UNCHANGED <<rpc, cur>>
       ELSE /\ cur' = connections[f] /\ rpc' = "read"
            /\ UNCHANGED <<owner, watched, edge>>
    /\ UNCHANGED <<world, backlog, connections, shut, idle, service, check, missed, late>>

----------------------------------------------------------------------------
(* handleNewConnection: until there is nothing to accept, or accept fails.  *)

\* What has arrived by now makes an event.
Readable(c) == unread[c] \/ peer[c] = "closed" \/ c \in shut

\* The connection is put into connections_, then its descriptor into the epoll set.
Accept(c) ==
    /\ rpc = "accept" /\ c \in backlog
    /\ \E f \in Fds :
         /\ Lowest(f)
         /\ owner' = [owner EXCEPT ![f] = c]
         /\ connections' = [connections EXCEPT ![f] = c]
         /\ watched' = watched \cup {f}
         /\ edge' = IF Readable(c) THEN edge \cup {f} ELSE edge
    /\ backlog' = backlog \ {c}
    /\ UNCHANGED <<world, shut, idle, loop, service, check, missed, late>>

\* Bug: one connection for each event.
AcceptsOne == rpc = "accept"

AcceptsAll == rpc = "accept" /\ backlog = {}

\* EAGAIN: there is nobody left.
AcceptDone ==
    /\ AcceptsAll
    /\ rpc' = "loop"
    /\ UNCHANGED <<world, kernel, connections, shut, idle, cur, batch, service, check, missed,
                   late>>

\* Any other error, as EMFILE: the loop is left, and those who wait stay where they
\* are.
AcceptFails ==
    /\ rpc = "accept" /\ backlog # {}
    /\ rpc' = "loop" /\ missed' = TRUE
    /\ UNCHANGED <<world, kernel, connections, shut, idle, cur, batch, service, check, late>>

----------------------------------------------------------------------------
(* onRead of cur, until there is nothing to read or the connection ends.    *)

\* A packet is handed to a task, which holds the connection from then on.
ReadPacket ==
    /\ rpc = "read" /\ unread[cur]
    /\ unread' = [unread EXCEPT ![cur] = FALSE]
    /\ idle' = idle \ {cur}
    /\ tasks' = IF tasks[cur] < MaxTasks THEN [tasks EXCEPT ![cur] = @ + 1] ELSE tasks
    /\ UNCHANGED <<peer, kernel, connections, shut, loop, kept, told, pended, gaveUp, check, missed,
                   late>>

\* Bug: the descriptor stays in the epoll set.
ReadEndWatched ==
    /\ rpc = "read" /\ Readable(cur)
    /\ rpc' = "close"
    /\ UNCHANGED <<world, kernel, connections, shut, idle, cur, batch, service, check, missed, late>>

\* The end of what the client sends, or bytes that are no packet:
\* updateChannel(fd, EPOLL_CTL_DEL), then closeCallback_.
ReadEnd ==
    /\ rpc = "read" /\ Readable(cur)
    /\ rpc' = "close"
    /\ watched' = watched \ FdsOf(cur) /\ edge' = edge \ FdsOf(cur)
    /\ UNCHANGED <<world, backlog, owner, connections, shut, idle, cur, batch, service, check,
                   missed, late>>

ReadNothing ==
    /\ rpc = "read" /\ ~Readable(cur)
    /\ rpc' = "loop" /\ cur' = None
    /\ UNCHANGED <<world, kernel, connections, shut, idle, batch, service, check, missed, late>>

\* Bug: the entry stays.
NotErased(c) == connections

Erased(c) == [f \in Fds |-> IF f \in FdsOf(c) THEN None ELSE connections[f]]

\* Bug: clientCloseException leaves its entry.
NotForgotten(c) == kept

Forgotten(c) == kept \ {c}

\* What the sweep of clientCloseException leaves: it looks for the user's entries,
\* so it is not made for a connection that is not registered.
Swept(c) == IF c \in kept THEN pended \ {c} ELSE pended

\* handleClientDisconnect, which calls clientCloseException, and the reactor lets go
\* of the connection. After a give-up the sweep waits for _pendingMutex for ever,
\* if not the look for the user already: a push that waits has _connMutex.
Disconnect(c) ==
    /\ rpc = "close" /\ cur = c
    /\ connections' = Erased(c) /\ idle' = idle \ {c}
    /\ told' = [told EXCEPT ![c] = @ + 1]
    /\ \/ /\ gaveUp => c \notin kept
          /\ rpc' = "loop" /\ cur' = None
          /\ kept' = Forgotten(c) /\ pended' = Swept(c)
       \/ /\ gaveUp /\ rpc' = "stuck"
          /\ kept' \in {kept, Forgotten(c)}
          /\ UNCHANGED <<cur, pended>>
    /\ UNCHANGED <<backlog, batch, tasks, gaveUp, check, missed, late>>
    /\ CloseUnlessHeld(c)

----------------------------------------------------------------------------
(* Workers and the heartbeat thread.                                        *)

\* A task ends; a login's may have put the connection into _userConnMap.
EndTask(c) ==
    /\ tasks[c] > 0 /\ tasks' = [tasks EXCEPT ![c] = @ - 1]
    /\ \/ UNCHANGED <<kept, late>>
       \/ /\ kept' = kept \cup {c}
          /\ late' = IF told[c] > 0 THEN late \cup {c} ELSE late
    /\ UNCHANGED <<backlog, connections, idle, loop, told, pended, gaveUp, check, missed>>
    /\ CloseUnlessHeld(c)

\* A push to c, and the acknowledgement of all there were.
Push(c) ==
    /\ c \in kept \ pended /\ ~gaveUp /\ pended' = pended \cup {c}
    /\ UNCHANGED <<world, kernel, connections, shut, idle, loop, tasks, kept, told, gaveUp, check,
                   missed, late>>

Acknowledge(c) ==
    /\ c \in pended /\ ~gaveUp /\ pended' = pended \ {c}
    /\ UNCHANGED <<backlog, connections, idle, loop, tasks, kept, told, gaveUp, check, missed, late>>
    /\ CloseUnlessHeld(c)

\* retransmitLoop gives up a push to c, which is still registered: its
\* clientCloseException takes c out of _userConnMap and ends in no sweep.
GiveUp(c) ==
    /\ c \in pended \cap kept /\ ~gaveUp /\ gaveUp' = TRUE
    /\ kept' = kept \ {c}
    /\ UNCHANGED <<world, kernel, connections, shut, idle, loop, tasks, told, pended, check, missed,
                   late>>

\* Bug: no look at the time.
AnyTime(c) == TRUE

TimedOut(c) == c \in idle

\* checkConnectionTask: the descriptors are collected under connMutex_ ...
Collect ==
    LET found == {f \in Fds : connections[f] \in Conns /\ TimedOut(connections[f])} IN
    /\ toShut = {} /\ found # {} /\ toShut' = found
    /\ spared' = {c \in Conns \ idle : Mapped(c)}
    /\ UNCHANGED <<world, kernel, connections, shut, idle, loop, service, missed, late>>

\* Bug: SHUT_WR, which a client that is gone never answers.
ShutDownWrite(f) ==
    /\ f \in toShut /\ toShut' = toShut \ {f}
    /\ spared' = IF toShut' = {} THEN {} ELSE spared
    /\ UNCHANGED <<world, kernel, connections, shut, idle, loop, service, missed, late>>

\* ... and shut down one by one without it.
ShutDown(f) ==
    /\ f \in toShut /\ toShut' = toShut \ {f}
    /\ spared' = IF toShut' = {} THEN {} ELSE spared
    /\ shut' = shut \cup ({owner[f]} \cap Conns)
    /\ edge' = edge \cup ({f} \cap watched)
    /\ UNCHANGED <<world, backlog, owner, watched, connections, idle, loop, service, missed, late>>

----------------------------------------------------------------------------
ClientStep == \E c \in Conns : Connect(c) \/ Send(c) \/ Hang(c) \/ Vanish(c) \/ GrowIdle(c)
AcceptStep == AcceptDone \/ AcceptFails \/ \E c \in Conns : Accept(c)
ReadStep == ReadPacket \/ ReadEnd \/ ReadNothing \/ \E c \in Conns : Disconnect(c)
LoopStep ==
    \/ Poll \/ OnListener \/ AcceptStep \/ ReadStep
    \/ \E f \in Fds : OnEvent(f)
CheckStep == Collect \/ \E f \in Fds : ShutDown(f)

ServiceStep == \E c \in Conns : EndTask(c) \/ Push(c) \/ Acknowledge(c) \/ GiveUp(c)

Next == ClientStep \/ LoopStep \/ CheckStep \/ ServiceStep

\* The two threads run, tasks end while no message was given up, and time passes for
\* a client that is gone. No client sends faster than onRead reads for ever.
Fairness ==
    /\ WF_vars(LoopStep) /\ SF_vars(ReadNothing) /\ WF_vars(CheckStep)
    /\ \A c \in Senders : WF_vars(~gaveUp /\ EndTask(c))
    /\ \A c \in Leavers : WF_vars(peer[c] = "silent" /\ GrowIdle(c))

Spec == Init /\ [][Next]_vars /\ Fairness

----------------------------------------------------------------------------
(* Properties.                                                              *)

TypeOK ==
    /\ peer \in [Conns -> {"new", "up", "closed", "silent"}]
    /\ unread \in [Conns -> BOOLEAN]
    /\ backlog \subseteq Conns /\ edge \subseteq Fds \cup {Listener}
    /\ owner \in [Fds -> Conns \cup {None}] /\ watched \subseteq Fds
    /\ connections \in [Fds -> Conns \cup {None}]
    /\ shut \subseteq Conns /\ idle \subseteq Conns
    /\ rpc \in {"loop", "accept", "read", "close", "stuck"}
    /\ cur \in Conns \cup {None} /\ batch \subseteq Fds \cup {Listener}
    /\ tasks \in [Conns -> 0..MaxTasks] /\ kept \subseteq Conns /\ told \in [Conns -> Nat]
    /\ pended \subseteq Conns /\ gaveUp \in BOOLEAN
    /\ toShut \subseteq Fds /\ missed \in BOOLEAN
    /\ spared \subseteq Conns /\ late \subseteq Conns

\* An event of a batch finds its connection, though earlier events of the batch
\* close connections and accept others: the branch that closes an unknown
\* descriptor (ChatServer.cpp:62) never runs.
NoStranger == \A f \in batch \ {Listener} : connections[f] # None

\* The service hears of the end of every connection that is gone from
\* connections_, and of each once (handleClientDisconnect).
ClosedIsTold ==
    \A c \in Conns :
        told[c] = IF peer[c] = "new" \/ c \in backlog \/ Mapped(c) THEN 0 ELSE 1

\* A client waits to be accepted only while epoll is about to say so, unless an
\* accept failed. After that it waits for the next client (ChatServer.cpp:87-101).
BacklogIsSeen ==
    backlog # {} => rpc = "accept" \/ Listener \in edge \cup batch \/ missed

\* The heartbeat thread shuts down no connection that was there and had spoken when
\* it looked: the numbers it collected stand for the idle ones, or for connections
\* that have come since and were given the number (ChatServer.cpp:157-169).
ShutWasIdle == [][(shut' \ shut) \cap spared = {}]_vars

\* A client that went without a word is noticed, unless the reactor hangs after a
\* give-up: half-open connections do not stay otherwise (checkConnectionTask; the
\* edge its shutdown makes is not lost).
SilentIsDropped ==
    \A c \in Leavers : (peer[c] = "silent" /\ Mapped(c)) ~> told[c] = 1 \/ rpc = "stuck"

\* The descriptor of a connection that ended is closed, unless a login that was
\* under way put the connection into _userConnMap after clientCloseException had
\* looked there, or a message was given up and the pending map, the reactor or a
\* task that hangs as well keeps the connection.
EndedIsClosed ==
    \A c \in Conns :
        told[c] = 1 ~> \/ FdsOf(c) = {} \/ c \in late
                       \/ gaveUp /\ (c \in pended \cup kept \/ cur = c \/ tasks[c] > 0)
=============================================================================
