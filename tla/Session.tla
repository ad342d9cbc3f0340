------------------------------ MODULE Session ------------------------------
(***************************************************************************)
(* Logging in and going offline on several ChatServer nodes that share one *)
(* MySQL and one Redis: ChatService::login, clientCloseException, the      *)
(* constructor's resetState and setHostInfo's cleanNodeRoutes. What a user *)
(* is to the others is spread over four places, written one after another: *)
(* table User, _userConnMap, the Redis channels and the hash user:route.   *)
(*                                                                         *)
(* A login runs on a worker of the pool, a close on the node's one reactor *)
(* thread; every call to MySQL or Redis is a step.                         *)
(***************************************************************************)
EXTENDS Integers, FiniteSets

CONSTANTS
    Users, Conns, Nodes,
    Owner,      \* Owner[c]: the user who logs in on connection c
    NodeOf,     \* NodeOf[c]: the node that accepts c
    MaxCrashes, \* bound on crashes of nodes
    NoConn, NoNode

ASSUME FunctionsAssumption == Owner \in [Conns -> Users] /\ NodeOf \in [Conns -> Nodes]
ASSUME NamesAssumption == NoConn \notin Conns /\ NoNode \notin Nodes
ASSUME CrashAssumption == MaxCrashes \in Nat

VARIABLES
    node,      \* node[n]: "up", "down", or how far its start is
    stale,     \* stale[n]: the fields cleanNodeRoutes is to delete
    link,      \* link[c]: "unused", "up" or "down"
    login,     \* login[c]: how far the login task of c is
    close,     \* close[c]: how far clientCloseException is with c
    connMap,   \* connMap[n][u]: u's connection in _userConnMap of n, or NoConn
    row,       \* row[u]: the state in u's row of table User
    route,     \* route[u]: u's node in user:route, or NoNode
    subs,      \* subs[u]: the nodes subscribed to u's channel
    told,      \* told[u]: what friends who stay online heard of u last
    disturbed, \* ghost: users with an overlap of steps as described below
    missed,    \* ghost: users whose session ended in a crash, unannounced
    crashes

procs == <<node, stale, crashes>>
stored == <<row, route, subs, told>>
ghosts == <<disturbed, missed>>
vars == <<procs, link, login, close, connMap, stored, ghosts>>

Init ==
    /\ node = [n \in Nodes |-> "up"] /\ stale = [n \in Nodes |-> {}] /\ crashes = 0
    /\ link = [c \in Conns |-> "unused"]
    /\ login = [c \in Conns |-> "none"] /\ close = [c \in Conns |-> "none"]
    /\ connMap = [n \in Nodes |-> [u \in Users |-> NoConn]]
    /\ row = [u \in Users |-> "offline"] /\ route = [u \in Users |-> NoNode]
    /\ subs = [u \in Users |-> {}] /\ told = [u \in Users |-> "offline"]
    /\ disturbed = {} /\ missed = {}

LoginPCs == {"insert", "subscribe", "route", "online", "tell"}
ClosePCs == {"offline", "unsubscribe", "route", "tell"}

\* A login that was let in, or a close that found its user, is under way.
Entering(c) == login[c] \in LoginPCs
Leaving(c) == close[c] \in ClosePCs
ConnsOf(u) == {c \in Conns : Owner[c] = u}
Registered(c) == connMap[NodeOf[c]][Owner[c]] = c
InSession(u) == \E c \in ConnsOf(u) : Registered(c) \/ Entering(c)
ReactorIdle(n) == \A c \in Conns : NodeOf[c] = n => close[c] \in {"none", "done"}

----------------------------------------------------------------------------
(* login.                                                                   *)

\* The reactor accepts c and hands its LOGIN_MSG to the thread pool.
Connect(c) ==
    /\ link[c] = "unused" /\ node[NodeOf[c]] = "up" /\ ReactorIdle(NodeOf[c])
    /\ link' = [link EXCEPT ![c] = "up"]
    /\ login' = [login EXCEPT ![c] = "query"]
    /\ UNCHANGED <<procs, close, connMap, stored, ghosts>>

\* A wrong password, or a user whose row says "online".
LoginRefused(c) ==
    /\ login[c] = "query"
    /\ login' = [login EXCEPT ![c] = "refused"]
    /\ UNCHANGED <<procs, link, close, connMap, stored, ghosts>>

\* UserModel::query. The user is disturbed if this login overlaps another one,
\* a session or a close, or if the connection is already gone.
LoginQuery(c) ==
    /\ login[c] = "query" /\ row[Owner[c]] = "offline"
    /\ login' = [login EXCEPT ![c] = "insert"]
    /\ disturbed' =
         IF \/ link[c] = "down" \/ InSession(Owner[c])
            \/ \E d \in ConnsOf(Owner[c]) : Leaving(d)
         THEN disturbed \cup {Owner[c]} ELSE disturbed
    /\ UNCHANGED <<procs, link, close, connMap, stored, missed>>

\* _userConnMap.insert leaves an entry that is there alone.
LoginInsert(c) ==
    /\ login[c] = "insert"
    /\ connMap' = [connMap EXCEPT ![NodeOf[c]][Owner[c]] = IF @ = NoConn THEN c ELSE @]
    /\ login' = [login EXCEPT ![c] = "subscribe"]
    /\ UNCHANGED <<procs, link, close, stored, ghosts>>

LoginSubscribe(c) ==
    /\ login[c] = "subscribe"
    /\ subs' = [subs EXCEPT ![Owner[c]] = @ \cup {NodeOf[c]}]
    /\ login' = [login EXCEPT ![c] = "route"]
    /\ UNCHANGED <<procs, link, close, connMap, row, route, told, ghosts>>

LoginRoute(c) ==
    /\ login[c] = "route"
    /\ route' = [route EXCEPT ![Owner[c]] = NodeOf[c]]
    /\ login' = [login EXCEPT ![c] = "online"]
    /\ UNCHANGED <<procs, link, close, connMap, row, subs, told, ghosts>>

LoginOnline(c) ==
    /\ login[c] = "online"
    /\ row' = [row EXCEPT ![Owner[c]] = "online"]
    /\ login' = [login EXCEPT ![c] = "tell"]
    /\ UNCHANGED <<procs, link, close, connMap, route, subs, told, ghosts>>

\* Bug: it is the user's own route that is looked up, not the friend's.
TellIfRouted(u, s) == IF route[u] = NoNode THEN told ELSE [told EXCEPT ![u] = s]

\* Friends with a route get the notification. Redis delivers in order.
Tell(u, s) == [told EXCEPT ![u] = s]

\* The friends are told, then LOGIN_MSG_ACK is sent.
LoginTell(c) ==
    /\ login[c] = "tell"
    /\ told' = Tell(Owner[c], "online")
    /\ missed' = missed \ {Owner[c]}
    /\ login' = [login EXCEPT ![c] = "done"]
    /\ UNCHANGED <<procs, link, close, connMap, row, route, subs, disturbed>>

----------------------------------------------------------------------------
(* clientCloseException, on the reactor thread of the node.                 *)

\* The client goes away or is timed out. Its user is disturbed if the login of
\* the same connection is still under way.
Disconnect(c) ==
    /\ link[c] = "up" /\ ReactorIdle(NodeOf[c])
    /\ link' = [link EXCEPT ![c] = "down"]
    /\ close' = [close EXCEPT ![c] = "erase"]
    /\ disturbed' = IF Entering(c) THEN disturbed \cup {Owner[c]} ELSE disturbed
    /\ UNCHANGED <<procs, login, connMap, stored, missed>>

\* Bug: the entry is looked for by the user's id.
FoundByUser(c) == connMap[NodeOf[c]][Owner[c]] # NoConn

\* The loop over _userConnMap looks for the connection.
Found(c) == Registered(c)

CloseErase(c) ==
    /\ close[c] = "erase" /\ Found(c)
    /\ connMap' = [connMap EXCEPT ![NodeOf[c]][Owner[c]] = NoConn]
    /\ close' = [close EXCEPT ![c] = "offline"]
    /\ UNCHANGED <<procs, link, login, stored, ghosts>>

\* Nobody is registered with this connection.
CloseStranger(c) ==
    /\ close[c] = "erase" /\ ~Found(c)
    /\ close' = [close EXCEPT ![c] = "done"]
    /\ UNCHANGED <<procs, link, login, connMap, stored, ghosts>>

CloseOffline(c) ==
    /\ close[c] = "offline"
    /\ row' = [row EXCEPT ![Owner[c]] = "offline"]
    /\ close' = [close EXCEPT ![c] = "unsubscribe"]
    /\ UNCHANGED <<procs, link, login, connMap, route, subs, told, ghosts>>

CloseUnsubscribe(c) ==
    /\ close[c] = "unsubscribe"
    /\ subs' = [subs EXCEPT ![Owner[c]] = @ \ {NodeOf[c]}]
    /\ close' = [close EXCEPT ![c] = "route"]
    /\ UNCHANGED <<procs, link, login, connMap, row, route, told, ghosts>>

\* Bug: the route is written again and not deleted.
RouteKept(u) == route

RouteDeleted(u) == [route EXCEPT ![u] = NoNode]

\* hdel, whichever node the field names.
CloseRoute(c) ==
    /\ close[c] = "route"
    /\ route' = RouteDeleted(Owner[c])
    /\ close' = [close EXCEPT ![c] = "tell"]
    /\ UNCHANGED <<procs, link, login, connMap, row, subs, told, ghosts>>

\* The friends are told. The sweep of the pending messages that follows is part
\* of module ReliablePush.
CloseTell(c) ==
    /\ close[c] = "tell"
    /\ told' = Tell(Owner[c], "offline")
    /\ missed' = missed \ {Owner[c]}
    /\ close' = [close EXCEPT ![c] = "done"]
    /\ UNCHANGED <<procs, link, login, connMap, row, route, subs, disturbed>>

----------------------------------------------------------------------------
(* A node dies and is started again.                                        *)

On(n, c) == NodeOf[c] = n

\* Everything in memory is gone, subscriptions with it.
Crash(n) ==
    /\ node[n] = "up" /\ crashes < MaxCrashes
    /\ crashes' = crashes + 1
    /\ node' = [node EXCEPT ![n] = "down"]
    /\ connMap' = [connMap EXCEPT ![n] = [u \in Users |-> NoConn]]
    /\ subs' = [u \in Users |-> subs[u] \ {n}]
    /\ link' = [c \in Conns |-> IF On(n, c) /\ link[c] = "up" THEN "down" ELSE link[c]]
    /\ login' = [c \in Conns |->
                    IF On(n, c) /\ (login[c] = "query" \/ Entering(c)) THEN "done" ELSE login[c]]
    /\ close' = [c \in Conns |-> IF On(n, c) /\ close[c] # "none" THEN "done" ELSE close[c]]
    /\ missed' = missed \cup
         {Owner[c] : c \in {d \in Conns : On(n, d) /\ (Registered(d) \/ Entering(d) \/ Leaving(d))}}
    /\ UNCHANGED <<stale, row, route, told, disturbed>>

\* resetState: every user, whatever node the user is on.
RowsReset == [u \in Users |-> "offline"]

\* The constructor of ChatService.
BootReset(n) ==
    /\ node[n] = "down"
    /\ node' = [node EXCEPT ![n] = "read"]
    /\ row' = RowsReset
    /\ disturbed' = disturbed \cup {u \in Users : InSession(u)}
    /\ UNCHANGED <<stale, crashes, link, login, close, connMap, route, subs, told, missed>>

StaleFields(n) == {u \in Users : route[u] = n}

\* cleanNodeRoutes: HGETALL ...
BootRead(n) ==
    /\ node[n] = "read"
    /\ node' = [node EXCEPT ![n] = "clean"]
    /\ stale' = [stale EXCEPT ![n] = StaleFields(n)]
    /\ UNCHANGED <<crashes, link, login, close, connMap, stored, ghosts>>

\* ... and an HDEL for each field, by then perhaps another node's.
BootDelete(n, u) ==
    /\ node[n] = "clean" /\ u \in stale[n]
    /\ stale' = [stale EXCEPT ![n] = @ \ {u}]
    /\ route' = [route EXCEPT ![u] = NoNode]
    /\ disturbed' = IF route[u] = n THEN disturbed ELSE disturbed \cup {u}
    /\ UNCHANGED <<node, crashes, link, login, close, connMap, row, subs, told, missed>>

BootUp(n) ==
    /\ node[n] = "clean" /\ stale[n] = {}
    /\ node' = [node EXCEPT ![n] = "up"]
    /\ UNCHANGED <<stale, crashes, link, login, close, connMap, stored, ghosts>>

----------------------------------------------------------------------------
LoginStep(c) ==
    \/ LoginRefused(c) \/ LoginQuery(c) \/ LoginInsert(c) \/ LoginSubscribe(c)
    \/ LoginRoute(c) \/ LoginOnline(c) \/ LoginTell(c)

CloseStep(c) ==
    \/ CloseErase(c) \/ CloseStranger(c) \/ CloseOffline(c)
    \/ CloseUnsubscribe(c) \/ CloseRoute(c) \/ CloseTell(c)

BootStep(n) == BootReset(n) \/ BootRead(n) \/ BootUp(n) \/ \E u \in Users : BootDelete(n, u)

Next ==
    \/ \E c \in Conns : Connect(c) \/ Disconnect(c) \/ LoginStep(c) \/ CloseStep(c)
    \/ \E n \in Nodes : Crash(n) \/ BootStep(n)

Spec == Init /\ [][Next]_vars

----------------------------------------------------------------------------
\* Every variable has its type.
TypeOK ==
    /\ node \in [Nodes -> {"up", "down", "read", "clean"}]
    /\ stale \in [Nodes -> SUBSET Users]
    /\ link \in [Conns -> {"unused", "up", "down"}]
    /\ login \in [Conns -> LoginPCs \cup {"none", "query", "refused", "done"}]
    /\ close \in [Conns -> ClosePCs \cup {"none", "erase", "done"}]
    /\ connMap \in [Nodes -> [Users -> Conns \cup {NoConn}]]
    /\ row \in [Users -> {"online", "offline"}] /\ route \in [Users -> Nodes \cup {NoNode}]
    /\ subs \in [Users -> SUBSET Nodes] /\ told \in [Users -> {"online", "offline"}]
    /\ disturbed \subseteq Users /\ missed \subseteq Users /\ crashes \in 0..MaxCrashes

\* Nothing is under way for u on any node.
Settled(u) ==
    /\ \A n \in Nodes : node[n] = "up"
    /\ \A c \in ConnsOf(u) : close[c] \in {"none", "done"} /\ ~Entering(c)

Sessions(u) == {c \in ConnsOf(u) : Registered(c)}
LoggedIn(u) == {c \in ConnsOf(u) : link[c] = "up" /\ login[c] = "done"}

\* Once the steps are over, the four places agree on a user whose logins and
\* closes did not overlap: one connection, registered where the route and the
\* subscription say, and a row "online"; or nothing at all, and the user can log
\* in again. Refused logins, logins on another node and crashes with their
\* restart leave it so (login, clientCloseException, resetState, cleanNodeRoutes).
PlacesAgree ==
    \A u \in Users : Settled(u) /\ u \notin disturbed =>
        /\ Sessions(u) = LoggedIn(u)
        /\ \/ row[u] = "offline" /\ Sessions(u) = {} /\ route[u] = NoNode /\ subs[u] = {}
           \/ /\ row[u] = "online"
              /\ \E c \in Conns :
                    Sessions(u) = {c} /\ route[u] = NodeOf[c] /\ subs[u] = {NodeOf[c]}

\* What friends were told last is then true, except of a user whose last session
\* ended in a crash, which nobody announces (README.md:93).
FriendsTold ==
    \A u \in Users : Settled(u) /\ u \notin disturbed \cup missed => told[u] = row[u]

\* The end of a connection that was refused its login logs nobody off, whatever
\* else is going on (clientCloseException finds its user by the connection).
RefusedIsHarmless == \A c \in Conns : login[c] = "refused" => ~Leaving(c)
=============================================================================
