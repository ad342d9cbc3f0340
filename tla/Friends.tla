------------------------------ MODULE Friends ------------------------------
(***************************************************************************)
(* Friend requests, friendships and what a user's window shows of them:    *)
(* ChatService::sendApply and processApply, the friends and requests that  *)
(* login and clientCloseException handle, FriendModel, FriendRequestModel, *)
(* the notifications APY, BND and NTF on their way through Redis, and the  *)
(* slots of ChatWidget. Requests run as tasks of several workers, and each *)
(* call to MySQL or Redis is a step. How logins of one user overlap is     *)
(* left to module Session: here a user logs in again after the last close. *)
(***************************************************************************)
EXTENDS Naturals, Sequences, FiniteSets

CONSTANTS
    Users,
    Jobs,       \* bound: the requests that clients make
    MaxInputs,  \* bound on requests and logins together
    MaxFailures \* bound on updates that MySQL refuses

ASSUME BoundsAssumption == MaxInputs \in Nat /\ MaxFailures \in Nat

VARIABLES
    request,    \* table FriendRequest: request[id] is a row
    friend,     \* table Friend
    friendSet,  \* the sets user:friends:<id> in Redis
    route,      \* the users in user:route
    phase,      \* phase[u]: "off", "on", or how far u's login or close is
    logins,     \* logins[u]: which of u's connections this is
    snapshot,   \* snapshot[u]: what u's login has put in LOGIN_MSG_ACK
    farewell,   \* farewell[u]: the friends that u's close is to tell
    chan,       \* chan[u]: what was published to u and not yet delivered
    inbox,      \* inbox[u]: what was sent on u's connection and not yet read
    shown,      \* shown[u]: u has a ChatWidget, after LOGIN_MSG_ACK
    list,       \* list[u][v]: the state of v in friendsMap_, or "none"
    applies,    \* applies[u]: the ids in pendingApplies_
    job,        \* job[j]: a task of the thread pool, or NoJob
    failures,
    raced,      \* ghost: pairs with two requests at once
    twice,      \* ghost: ids that were answered more than once
    repeated,   \* ghost: ids that were announced more than once
    broken,     \* ghost: a row of a friendship was refused
    outdated    \* ghost: outdated[u]: whom, or "requests", u's window may have wrong

tables == <<request, friend, friendSet>>
logging == <<phase, logins, snapshot, farewell>>
window == <<shown, list, applies>>
ghosts == <<raced, twice, repeated, broken>>
vars == <<tables, route, logging, chan, inbox, window, job, failures, ghosts, outdated>>

NoJob == [op |-> "none", at |-> "done"]
NoList == [v \in Users |-> "none"]
NoSnapshot == [friends |-> {}, list |-> NoList, applies |-> {}]
FriendsOf(u) == {v \in Users : <<u, v>> \in friend}
StateOf(v) == IF v \in route THEN "online" ELSE "offline"
PendingTo(u) == {i \in 1..Len(request) : request[i].to = u /\ request[i].status = "pending"}

Inputs ==
    Cardinality({p \in Users \X (1..MaxInputs) : p[2] <= logins[p[1]]})
        + Cardinality({j \in Jobs : job[j] # NoJob})

\* The table may hold a request from earlier.
Tables ==
    {<<>>} \cup {<<[from |-> p[1], to |-> p[2], status |-> "pending"]>> :
                     p \in {q \in Users \X Users : q[1] # q[2]}}

Init ==
    /\ request \in Tables /\ friend = {} /\ friendSet = [u \in Users |-> {}] /\ route = {}
    /\ phase = [u \in Users |-> "off"] /\ logins = [u \in Users |-> 0]
    /\ snapshot = [u \in Users |-> NoSnapshot] /\ farewell = [u \in Users |-> {}]
    /\ chan = [u \in Users |-> <<>>] /\ inbox = [u \in Users |-> <<>>]
    /\ shown = [u \in Users |-> FALSE] /\ list = [u \in Users |-> NoList]
    /\ applies = [u \in Users |-> {}]
    /\ job = [j \in Jobs |-> NoJob] /\ failures = 0
    /\ raced = {} /\ twice = {} /\ repeated = {} /\ broken = FALSE
    /\ outdated = [u \in Users |-> {}]

----------------------------------------------------------------------------
(* Redis.                                                                   *)

Subscribed == {u \in Users : phase[u] \notin {"off", "part", "tellOff"}}
Connected(u) == phase[u] \notin {"off", "unroute", "part", "tellOff"}

\* publish(u, m) to each u of us. Nobody hears what goes to a channel without
\* subscribers.
Published(us, m) ==
    [u \in Users |-> IF u \in us \cap Subscribed THEN Append(chan[u], m) ELSE chan[u]]

\* What u's window gets wrong once m is sent now: LOGIN_MSG_ACK, or the answer of
\* a task, follows m with something that was looked up before.
Overtaken(u, m) ==
    LET answers == {j \in Jobs : /\ job[j].op = "answer" /\ job[j].to = u
                                 /\ job[j].at \in {"again", "publish", "respond"}}
    IN CASE m.kind = "status" /\ phase[u] \in {"applies", "tellOn", "ack"} -> {m.uid}
         [] m.kind = "status" /\ \E j \in answers : job[j].from = m.uid -> {m.uid}
         [] m.kind = "bound" /\ phase[u] \in {"states", "applies", "tellOn", "ack"} -> {m.uid}
         [] m.kind = "apply" /\ phase[u] \in {"tellOn", "ack"} -> {"requests"}
         [] OTHER -> {}

\* handleRedisSubscribeMessage: to the connection of u, if there is one.
Deliver(u) ==
    /\ chan[u] # <<>> /\ chan' = [chan EXCEPT ![u] = Tail(@)]
    /\ inbox' = IF Connected(u) THEN [inbox EXCEPT ![u] = Append(@, Head(chan[u]))] ELSE inbox
    /\ outdated' = [outdated EXCEPT ![u] = @ \cup Overtaken(u, Head(chan[u]))]
    /\ UNCHANGED <<tables, route, logging, window, job, failures, ghosts>>

----------------------------------------------------------------------------
(* login: the connection is in _userConnMap, the channel subscribed and the *)
(* route written before anything is looked up.                              *)

\* A client is not back before Redis has emptied the channel of the last connection.
Login(u) ==
    /\ phase[u] = "off" /\ Inputs < MaxInputs /\ chan[u] = <<>>
    /\ phase' = [phase EXCEPT ![u] = "friends"]
    /\ logins' = [logins EXCEPT ![u] = @ + 1]
    /\ route' = route \cup {u} /\ outdated' = [outdated EXCEPT ![u] = {}]
    /\ UNCHANGED <<tables, snapshot, farewell, chan, inbox, window, job, failures, ghosts>>

\* FriendModel::query, and the friends go to Redis.
LoginFriends(u) ==
    /\ phase[u] = "friends" /\ phase' = [phase EXCEPT ![u] = "states"]
    /\ snapshot' = [snapshot EXCEPT ![u].friends = FriendsOf(u)]
    /\ friendSet' = [friendSet EXCEPT ![u] = @ \cup FriendsOf(u)]
    /\ UNCHANGED <<request, friend, route, logins, farewell, chan, inbox, window, job, failures,
                   ghosts, outdated>>

LoginStates(u) ==
    /\ phase[u] = "states" /\ phase' = [phase EXCEPT ![u] = "applies"]
    /\ snapshot' = [snapshot EXCEPT ![u].list =
           [v \in Users |-> IF v \in snapshot[u].friends THEN StateOf(v) ELSE "none"]]
    /\ UNCHANGED <<tables, route, logins, farewell, chan, inbox, window, job, failures, ghosts,
                   outdated>>

\* The ids of which u is still to get a notification.
Announcing(u) ==
    {job[j].id : j \in {i \in Jobs : /\ job[i].op = "apply" /\ job[i].to = u
                                     /\ job[i].at \in {"look", "publish"}}}
    \cup {chan[u][k].id : k \in {i \in DOMAIN chan[u] : chan[u][i].kind = "apply"}}

\* FriendRequestModel::queryPending.
LoginApplies(u) ==
    /\ phase[u] = "applies" /\ phase' = [phase EXCEPT ![u] = "tellOn"]
    /\ snapshot' = [snapshot EXCEPT ![u].applies = PendingTo(u)]
    /\ repeated' = repeated \cup (PendingTo(u) \cap Announcing(u))
    /\ UNCHANGED <<tables, route, logins, farewell, chan, inbox, window, job, failures, raced,
                   twice, broken, outdated>>

LoginTell(u) ==
    /\ phase[u] = "tellOn" /\ phase' = [phase EXCEPT ![u] = "ack"]
    /\ chan' = Published(snapshot[u].friends \cap route,
                         [kind |-> "status", uid |-> u, state |-> "online"])
    /\ UNCHANGED <<tables, route, logins, snapshot, farewell, inbox, window, job, failures,
                   ghosts, outdated>>

LoginAck(u) ==
    /\ phase[u] = "ack" /\ phase' = [phase EXCEPT ![u] = "on"]
    /\ inbox' = [inbox EXCEPT ![u] = Append(@, [kind |-> "login", list |-> snapshot[u].list,
                                                applies |-> snapshot[u].applies])]
    /\ snapshot' = [snapshot EXCEPT ![u] = NoSnapshot]
    /\ UNCHANGED <<tables, route, logins, farewell, chan, window, job, failures, ghosts, outdated>>

----------------------------------------------------------------------------
(* The client closes its connection, and clientCloseException.              *)

Close(u) ==
    /\ phase[u] = "on" /\ phase' = [phase EXCEPT ![u] = "unroute"]
    /\ inbox' = [inbox EXCEPT ![u] = <<>>]
    /\ shown' = [shown EXCEPT ![u] = FALSE] /\ list' = [list EXCEPT ![u] = NoList]
    /\ applies' = [applies EXCEPT ![u] = {}]
    /\ UNCHANGED <<tables, route, logins, snapshot, farewell, chan, job, failures, ghosts,
                   outdated>>

CloseRoute(u) ==
    /\ phase[u] = "unroute" /\ phase' = [phase EXCEPT ![u] = "part"]
    /\ route' = route \ {u}
    /\ UNCHANGED <<tables, logins, snapshot, farewell, chan, inbox, window, job, failures,
                   ghosts, outdated>>

CloseFriends(u) ==
    /\ phase[u] = "part" /\ phase' = [phase EXCEPT ![u] = "tellOff"]
    /\ farewell' = [farewell EXCEPT ![u] = FriendsOf(u)]
    /\ UNCHANGED <<tables, route, logins, snapshot, chan, inbox, window, job, failures, ghosts,
                   outdated>>

\* Bug: the state of the login's notification.
ParticularsOfLogin(u) == [kind |-> "status", uid |-> u, state |-> "online"]

Particulars(u) == [kind |-> "status", uid |-> u, state |-> "offline"]

CloseTell(u) ==
    /\ phase[u] = "tellOff" /\ phase' = [phase EXCEPT ![u] = "off"]
    /\ chan' = Published(farewell[u] \cap route, Particulars(u))
    /\ farewell' = [farewell EXCEPT ![u] = {}]
    /\ UNCHANGED <<tables, route, logins, snapshot, inbox, window, job, failures, ghosts,
                   outdated>>

----------------------------------------------------------------------------
(* Clients make requests; each becomes a task.                              *)

Active(j) == job[j].at # "done"

Submit(u, j, new) ==
    /\ shown[u] /\ job[j] = NoJob /\ Inputs < MaxInputs
    /\ job' = [job EXCEPT ![j] = new]

ClientApply(u, v, j) ==
    /\ u # v
    /\ Submit(u, j, [op |-> "apply", at |-> "check", from |-> u, to |-> v, id |-> 0])
    /\ UNCHANGED <<tables, route, logging, chan, inbox, window, failures, ghosts, outdated>>

\* The buttons are disabled until the answer is there, but only in this dialog: it
\* may be closed and opened again.
ClientAnswer(u, id, yes, j) ==
    /\ id \in applies[u]
    /\ Submit(u, j, [op |-> "answer", at |-> "update", from |-> request[id].from, to |-> u,
                     id |-> id, yes |-> yes, conn |-> logins[u], state |-> "none"])
    /\ twice' = IF \E i \in Jobs : job[i].op = "answer" /\ job[i].id = id
                THEN twice \cup {id} ELSE twice
    /\ UNCHANGED <<tables, route, logging, chan, inbox, window, failures, raced, repeated, broken,
                   outdated>>

----------------------------------------------------------------------------
(* sendApply. What ADD_FRIEND_RESP says is left out.                        *)

At(j, op, at) == job[j].op = op /\ job[j].at = at
Goes(j, at) == job' = [job EXCEPT ![j].at = at]
Refused == failures < MaxFailures /\ failures' = failures + 1

ApplyCheck(j) ==
    /\ At(j, "apply", "check")
    /\ Goes(j, IF job[j].to \in friendSet[job[j].from] THEN "done" ELSE "select")
    /\ UNCHANGED <<tables, route, logging, chan, inbox, window, failures, ghosts, outdated>>

Open(from, to) ==
    {i \in 1..Len(request) :
        request[i].from = from /\ request[i].to = to /\ request[i].status = "pending"}

\* Bug: requests of the other direction are found.
FoundReversed(j) == Open(job[j].to, job[j].from)

Found(j) == Open(job[j].from, job[j].to)

\* FriendRequestModel::insert: the first pending row of the pair ...
ApplySelect(j) ==
    /\ At(j, "apply", "select")
    /\ IF Found(j) = {} THEN Goes(j, "insert") /\ UNCHANGED repeated
       ELSE \E i \in Found(j) :
              /\ \A k \in Found(j) : i <= k
              /\ job' = [job EXCEPT ![j].at = "look", ![j].id = i]
              /\ repeated' = repeated \cup {i}
    /\ raced' = IF \E k \in Jobs \ {j} : /\ At(k, "apply", "insert")
                                         /\ job[k].from = job[j].from /\ job[k].to = job[j].to
                THEN raced \cup {<<job[j].from, job[j].to>>} ELSE raced
    /\ UNCHANGED <<tables, route, logging, chan, inbox, window, failures, twice, broken, outdated>>

\* ... or a new one.
ApplyInsert(j) ==
    /\ At(j, "apply", "insert")
    /\ \/ /\ request' = Append(request, [from |-> job[j].from, to |-> job[j].to,
                                         status |-> "pending"])
          /\ job' = [job EXCEPT ![j].at = "look", ![j].id = Len(request')]
          /\ UNCHANGED failures
       \/ Refused /\ Goes(j, "done") /\ UNCHANGED request
    /\ UNCHANGED <<friend, friendSet, route, logging, chan, inbox, window, ghosts, outdated>>

ApplyLook(j) ==
    /\ At(j, "apply", "look")
    /\ Goes(j, IF job[j].to \in route THEN "publish" ELSE "done")
    /\ UNCHANGED <<tables, route, logging, chan, inbox, window, failures, ghosts, outdated>>

ApplyPublish(j) ==
    /\ At(j, "apply", "publish") /\ Goes(j, "done")
    /\ chan' = Published({job[j].to}, [kind |-> "apply", id |-> job[j].id])
    /\ UNCHANGED <<tables, route, logging, inbox, window, failures, ghosts, outdated>>

----------------------------------------------------------------------------
(* processApply.                                                            *)

NewStatus(j) == IF job[j].yes THEN "accepted" ELSE "rejected"

\* updateStatus, whatever the row says. A refused update ends the task; the client
\* leaves the request where it is.
AnswerUpdate(j) ==
    /\ At(j, "answer", "update")
    /\ \/ /\ request' = [request EXCEPT ![job[j].id].status = NewStatus(j)]
          /\ Goes(j, IF job[j].yes THEN "bind" ELSE "respond") /\ UNCHANGED failures
       \/ Refused /\ Goes(j, "done") /\ UNCHANGED request
    /\ UNCHANGED <<friend, friendSet, route, logging, chan, inbox, window, ghosts, outdated>>

\* Bug: the second row is the first one again.
SecondRowAgain(j) == <<job[j].from, job[j].to>>

SecondRow(j) == <<job[j].to, job[j].from>>

\* One row of the friendship; that MySQL refuses it is not noticed.
Bind(j, at, row, next) ==
    /\ At(j, "answer", at) /\ Goes(j, next)
    /\ \/ friend' = friend \cup {row} /\ UNCHANGED <<failures, broken>>
       \/ Refused /\ broken' = TRUE /\ UNCHANGED friend
    /\ UNCHANGED <<request, friendSet, route, logging, chan, inbox, window, raced, twice, repeated,
                   outdated>>

\* FriendModel::insert.
AnswerBind(j) ==
    \/ Bind(j, "bind", <<job[j].from, job[j].to>>, "bindBack")
    \/ Bind(j, "bindBack", SecondRow(j), "state")

\* SADD for both, and the state of the new friend for the answer ...
AnswerState(j) ==
    /\ At(j, "answer", "state")
    /\ friendSet' = [friendSet EXCEPT ![job[j].from] = @ \cup {job[j].to},
                                      ![job[j].to] = @ \cup {job[j].from}]
    /\ job' = [job EXCEPT ![j].at = "again", ![j].state = StateOf(job[j].from)]
    /\ UNCHANGED <<request, friend, route, logging, chan, inbox, window, failures, ghosts,
                   outdated>>

\* ... and the route again.
AnswerLook(j) ==
    /\ At(j, "answer", "again")
    /\ Goes(j, IF job[j].from \in route THEN "publish" ELSE "respond")
    /\ UNCHANGED <<tables, route, logging, chan, inbox, window, failures, ghosts, outdated>>

\* The one who answers is said to be online ("certainly", chatservice.cpp:666),
\* who may have left by now.
AnswerPublish(j) ==
    /\ At(j, "answer", "publish") /\ Goes(j, "respond")
    /\ chan' = Published({job[j].from}, [kind |-> "bound", uid |-> job[j].to])
    /\ outdated' = IF job[j].to \in route THEN outdated
                   ELSE [outdated EXCEPT ![job[j].from] = @ \cup {job[j].to}]
    /\ UNCHANGED <<tables, route, logging, inbox, window, failures, ghosts>>

\* PROCESS_FRIEND_RESP, on the connection the request came on. Who has logged in on
\* another one since does not hear of it.
AnswerRespond(j) ==
    /\ At(j, "answer", "respond") /\ Goes(j, "done")
    /\ LET u == job[j].to
           m == [kind |-> "answer", id |-> job[j].id, yes |-> job[j].yes, uid |-> job[j].from,
                 state |-> job[j].state]
       IN IF Connected(u) /\ logins[u] = job[j].conn
          THEN inbox' = [inbox EXCEPT ![u] = Append(@, m)] /\ UNCHANGED outdated
          ELSE /\ outdated' = [outdated EXCEPT ![u] = @ \cup {"requests", m.uid}]
               /\ UNCHANGED inbox
    /\ UNCHANGED <<tables, route, logging, chan, window, failures, ghosts>>

----------------------------------------------------------------------------
(* The slots of ChatWidget. Before LOGIN_MSG_ACK there is no ChatWidget.    *)

Show(u, v, state) == list' = [list EXCEPT ![u][v] = state]

\* Bug: only an accepted request is removed.
LeftIfAccepted(u, m) == IF m.yes THEN applies[u] \ {m.id} ELSE applies[u]

LeftAfter(u, m) == applies[u] \ {m.id}

SocialDataLoaded(u, m) ==
    /\ shown' = [shown EXCEPT ![u] = TRUE]
    /\ list' = [list EXCEPT ![u] = m.list] /\ applies' = [applies EXCEPT ![u] = m.applies]

FriendRequestReceived(u, m) ==
    applies' = [applies EXCEPT ![u] = @ \cup {m.id}] /\ UNCHANGED <<shown, list>>

ProcessFriendResult(u, m) ==
    /\ applies' = [applies EXCEPT ![u] = LeftAfter(u, m)]
    /\ IF m.yes THEN Show(u, m.uid, m.state) ELSE UNCHANGED list
    /\ UNCHANGED shown

FriendBindSuccess(u, m) == Show(u, m.uid, "online") /\ UNCHANGED <<shown, applies>>

FriendStatusChanged(u, m) ==
    /\ IF list[u][m.uid] = "none" THEN UNCHANGED list ELSE Show(u, m.uid, m.state)
    /\ UNCHANGED <<shown, applies>>

ClientRead(u) ==
    /\ inbox[u] # <<>> /\ inbox' = [inbox EXCEPT ![u] = Tail(@)]
    /\ LET m == Head(inbox[u]) IN
         CASE m.kind = "login" -> SocialDataLoaded(u, m)
           [] m.kind = "apply" /\ shown[u] -> FriendRequestReceived(u, m)
           [] m.kind = "answer" /\ shown[u] -> ProcessFriendResult(u, m)
           [] m.kind = "bound" /\ shown[u] -> FriendBindSuccess(u, m)
           [] m.kind = "status" /\ shown[u] -> FriendStatusChanged(u, m)
           [] OTHER -> UNCHANGED window
    /\ UNCHANGED <<tables, route, logging, chan, job, failures, ghosts, outdated>>

----------------------------------------------------------------------------
LoginStep(u) ==
    \/ Login(u) \/ LoginFriends(u) \/ LoginStates(u) \/ LoginApplies(u) \/ LoginTell(u)
    \/ LoginAck(u)
CloseStep(u) == Close(u) \/ CloseRoute(u) \/ CloseFriends(u) \/ CloseTell(u)
ClientRequest(u, j) ==
    \/ \E v \in Users : ClientApply(u, v, j)
    \/ \E id \in applies[u], yes \in BOOLEAN : ClientAnswer(u, id, yes, j)
ApplyStep(j) == ApplyCheck(j) \/ ApplySelect(j) \/ ApplyInsert(j) \/ ApplyLook(j) \/ ApplyPublish(j)
AnswerStep(j) ==
    \/ AnswerUpdate(j) \/ AnswerBind(j) \/ AnswerState(j) \/ AnswerLook(j)
    \/ AnswerPublish(j) \/ AnswerRespond(j)

Next ==
    \/ \E u \in Users : Deliver(u) \/ LoginStep(u) \/ CloseStep(u) \/ ClientRead(u)
    \/ \E u \in Users, j \in Jobs : ClientRequest(u, j)
    \/ \E j \in Jobs : ApplyStep(j) \/ AnswerStep(j)

Spec == Init /\ [][Next]_vars

----------------------------------------------------------------------------
(* Properties.                                                              *)

States == {"none", "online", "offline"}
Ids == 1..Len(request)

Rows == [from : Users, to : Users, status : {"pending", "accepted", "rejected"}]
Phases == {"off", "friends", "states", "applies", "tellOn", "ack", "on", "unroute", "part",
           "tellOff"}
Snapshots == [friends : SUBSET Users, list : [Users -> States], applies : SUBSET Ids]
Notifications ==
    [kind : {"apply"}, id : Ids] \cup [kind : {"bound"}, uid : Users]
        \cup [kind : {"status"}, uid : Users, state : States]
Messages ==
    Notifications \cup [kind : {"login"}, list : [Users -> States], applies : SUBSET Ids]
        \cup [kind : {"answer"}, id : Ids, yes : BOOLEAN, uid : Users, state : States]
Applications ==
    [op : {"apply"}, at : {"check", "select", "insert", "done"}, from : Users, to : Users,
     id : {0} \cup Ids]
        \cup [op : {"apply"}, at : {"look", "publish"}, from : Users, to : Users, id : Ids]
Answers ==
    [op : {"answer"},
     at : {"update", "bind", "bindBack", "state", "again", "publish", "respond", "done"},
     from : Users, to : Users, id : Ids, yes : BOOLEAN, conn : Nat, state : States]

\* An id, wherever it is, is that of a row.
TypeOK ==
    /\ request \in Seq(Rows)
    /\ friend \subseteq Users \X Users /\ friendSet \in [Users -> SUBSET Users]
    /\ route \subseteq Users
    /\ phase \in [Users -> Phases]
    /\ logins \in [Users -> Nat]
    /\ snapshot \in [Users -> Snapshots]
    /\ farewell \in [Users -> SUBSET Users] /\ shown \in [Users -> BOOLEAN]
    /\ chan \in [Users -> Seq(Notifications)] /\ inbox \in [Users -> Seq(Messages)]
    /\ list \in [Users -> [Users -> States]] /\ applies \in [Users -> SUBSET Ids]
    /\ job \in [Jobs -> {NoJob} \cup Applications \cup Answers]
    /\ failures \in 0..MaxFailures /\ raced \subseteq Users \X Users
    /\ twice \subseteq Ids /\ repeated \subseteq Ids /\ broken \in BOOLEAN
    /\ outdated \in [Users -> SUBSET (Users \cup {"requests"})]

\* A pair has one open request, however often the button is pressed, unless two
\* tasks for it overlapped ("no insertion twice", friendrequestmodel.cpp:20).
OnePending ==
    \A u, v \in Users : <<u, v>> \notin raced => Cardinality(Open(u, v)) <= 1

Binding(id) == \E j \in Jobs : job[j].op = "answer" /\ job[j].id = id /\ Active(j)

\* A friendship exists in both directions and in both caches once a request was
\* accepted, and only then: unless MySQL refused one of the rows, whose result
\* nobody looks at (friendmodel.cpp:17), or one request was answered both ways.
FriendsAsAnswered ==
    ~broken =>
        /\ \A id \in 1..Len(request) :
             request[id].status = "accepted" /\ ~Binding(id) =>
                LET u == request[id].from v == request[id].to IN
                  /\ {<<u, v>>, <<v, u>>} \subseteq friend
                  /\ u \in friendSet[v] /\ v \in friendSet[u]
        /\ \A u, v \in Users :
             /\ v \in friendSet[u] => <<u, v>> \in friend
             /\ <<u, v>> \in friend =>
                  \E id \in 1..Len(request) :
                     /\ {request[id].from, request[id].to} = {u, v}
                     /\ request[id].status = "accepted" \/ id \in twice

\* Nothing is under way that concerns u.
Quiet(u) ==
    /\ shown[u] /\ phase[u] = "on" /\ chan[u] = <<>> /\ inbox[u] = <<>>
    /\ \A j \in Jobs : ~Active(j)
    /\ \A v \in Users : phase[v] \in {"on", "off"}

\* Every open request is in the window of the user it is for, also one that is
\* made while that user logs in, except where LOGIN_MSG_ACK came after the
\* notification. What the window has beyond that was announced more than once.
AppliesShown ==
    \A u \in Users : Quiet(u) /\ "requests" \notin outdated[u] =>
        /\ PendingTo(u) \subseteq applies[u]
        /\ applies[u] \ PendingTo(u) \subseteq repeated

\* The window shows the friends there are with the state they are in, however
\* logins, closes and acceptances cross; except where a message with what had been
\* looked up before came after the notification of the change, or the one who
\* accepted was gone (hget and query against publish, in sendApply, processApply,
\* login and clientCloseException).
FriendsShown ==
    \A u, v \in Users : Quiet(u) /\ v \notin outdated[u] /\ ~broken =>
        list[u][v] = IF <<u, v>> \in friend THEN StateOf(v) ELSE "none"
=============================================================================
