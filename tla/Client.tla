------------------------------- MODULE Client -------------------------------
(***************************************************************************)
(* The client process: ImClient over its QTcpSocket, with what LoginWidget *)
(* and ChatWidget make of its signals. Qt calls one slot at a time, but a  *)
(* message box opened in a slot of onReadyRead runs a loop of its own: the *)
(* timers and the end of the connection are handled while onReadyRead has  *)
(* still to go on, and nothing is read. A write that fails closes the      *)
(* socket at once: onDisconnected runs inside sendPacket.                  *)
(*                                                                         *)
(* The server is what a client sees of it: it takes over or refuses each   *)
(* copy of a message, answers a sync and, from the moment the user is in   *)
(* _userConnMap, pushes what arrives for the user, repeating itself.       *)
(* Arriving messages are numbered in the order of their ids.               *)
(***************************************************************************)
EXTENDS Naturals, Sequences, FiniteSets, SequencesExt

CONSTANTS
    Sends,       \* numbers: the messages the user sends
    LastArrival, \* bound: messages 1..LastArrival arrive for the user
    Window,      \* ids that the client remembers (1000 in the code)
    MaxRetry,    \* resends before giving up (3 in the code)
    MaxSkips,    \* passes that may find an entry younger than 3 seconds
    MaxInputs    \* bound on what happens to the client: see Input

ASSUME LimitsAssumption ==
    /\ Sends \subseteq Nat /\ IsFiniteSet(Sends) /\ {LastArrival, MaxRetry, MaxSkips, MaxInputs} \subseteq Nat
    /\ Window \in Nat \ {0} /\ LastArrival > 0

VARIABLES
    socket,         \* "off", "connecting", "on", or "leaving": to close once connected
    known,          \* myUid_ is the user's uid, and not -1
    pendingPackets, \* pendingPackets_
    pendingSend,    \* pendingSend[m]: m's entry in pendingSendAckMap_, or NoEntry
    window,         \* recvMsgWindow_
    lastSyncKey,    \* lastSyncKey_
    saved,          \* the key in QSettings
    readBuffer,     \* packets read and not yet handled
    box,            \* the message box that holds up onReadyRead, or "none"
    chat,           \* there is a ChatWidget
    bubble,         \* bubble[m]: the status that it shows for m, or "none"
    up, down,       \* packets on their way to the server and to the client
    served,         \* _userConnMap has the user with this connection
    due,            \* logins registered there and not yet answered
    arrived,        \* messages 1..arrived are in the timeline
    inputs,         \* how much has happened to the client
    ended,          \* the process has crashed
    accepted,       \* ghost: messages of which the server took over a copy
    refused,        \* ghost: messages of which it refused a copy
    cut,            \* ghost: messages whose connection broke
    missed,         \* ghost: messages whose bubble came after their failure
    spent,          \* ghost: messages that were sent
    named,          \* those whose from_id is the user's uid and not -1
    unmade,         \* ghost: a connection was not made
    shown,          \* ghost: shown[p]: how often p was shown, in any ChatWidget
    unseen,         \* ghost: messages that came when there was no ChatWidget
    evicted         \* ghost: ids that have left the window

link == <<socket, known, up, down, served, due>>
sending == <<pendingPackets, pendingSend, bubble>>
receiving == <<window, lastSyncKey, saved, shown, unseen, evicted>>
server == <<arrived, accepted, refused>>
control == <<readBuffer, box, chat, ended>>
sendGhosts == <<cut, missed, spent, named, unmade>>
vars == <<link, sending, receiving, server, inputs, control, sendGhosts>>

Arrivals == 1..LastArrival
NoEntry == [on |-> FALSE, retry |-> 0, skips |-> 0]
NewEntry == [on |-> TRUE, retry |-> 0, skips |-> 0]
Ids(entries) == {m \in Sends : entries[m].on}

Init ==
    /\ socket = "off" /\ known = FALSE /\ up = <<>> /\ down = <<>> /\ served = FALSE
    /\ due = 0
    /\ pendingPackets = <<>> /\ pendingSend = [m \in Sends |-> NoEntry]
    /\ bubble = [m \in Sends |-> "none"]
    /\ window = <<>> /\ lastSyncKey = 0 /\ saved = 0
    /\ shown = [p \in Arrivals |-> 0] /\ unseen = {} /\ evicted = {}
    /\ arrived \in 0..(LastArrival - 1) /\ inputs = 0 /\ accepted = {} /\ refused = {}
    /\ readBuffer = <<>> /\ box = "none" /\ chat = FALSE /\ ended = FALSE
    /\ cut = {} /\ missed = {} /\ spent = {} /\ named = {} /\ unmade = FALSE

\* The event loop, or that of the box, is free for the next event. A box leaves
\* the user nothing else to press.
Free == ~ended /\ (readBuffer = <<>> \/ box # "none")
Usable == Free /\ box = "none"

\* A press of a button other than a box's, a failure, an arrival, a push, or an
\* answer with a box.
Input == inputs < MaxInputs /\ inputs' = inputs + 1

Login == [kind |-> "login"]
Sync(uid, key) == [kind |-> "sync", uid |-> uid, key |-> key]
Chat(m) == [kind |-> "chat", id |-> m]
Receipt == [kind |-> "recvack"]

----------------------------------------------------------------------------
(* sendPacket and onDisconnected.                                           *)

\* The packets are written, or kept for a connection to come.
SendPackets(packets) ==
    /\ IF socket = "on"
       THEN up' = up \o packets /\ UNCHANGED <<socket, pendingPackets>>
       ELSE /\ pendingPackets' = pendingPackets \o packets
            /\ socket' = IF socket = "off" THEN "connecting" ELSE socket
            /\ UNCHANGED up
    /\ UNCHANGED <<known, down, served, due, cut>>

\* Bug: the entries are dropped in silence.
ToldNothing(entries) == bubble

\* oneChatSendAck(m, false): nobody hears it without a bubble for m.
Told(entries) ==
    [m \in Sends |-> IF m \in Ids(entries) /\ bubble[m] # "none" THEN "failed" ELSE bubble[m]]

\* onDisconnected, with entries in pendingSendAckMap_. readBuffer_ stays.
Disconnected(entries) ==
    /\ socket' = "off" /\ known' = FALSE /\ served' = FALSE /\ due' = 0
    /\ up' = <<>> /\ down' = <<>>
    /\ pendingSend' = [m \in Sends |-> NoEntry]
    /\ cut' = cut \cup Ids(entries) \cup {m \in Sends : bubble[m] = "failed"}

\* A write fails.
SendFails(entries) == socket = "on" /\ Disconnected(entries) /\ UNCHANGED pendingPackets

----------------------------------------------------------------------------
(* The connection.                                                          *)

\* onConnected: the timers start, and pendingPackets_ is written.
Connect ==
    /\ socket = "connecting" /\ Free /\ socket' = "on"
    /\ up' = pendingPackets /\ pendingPackets' = <<>>
    /\ UNCHANGED <<known, down, served, due, pendingSend, bubble, receiving, server, inputs,
                   control, sendGhosts>>

\* disconnectFromHost came before the connection: it is made, what was kept is
\* written, and it is closed.
ConnectAndLeave ==
    /\ socket = "leaving" /\ Free
    /\ pendingPackets' = <<>> /\ Disconnected(pendingSend) /\ bubble' = Told(pendingSend)
    /\ \E taken \in SUBSET {m \in named : Chat(m) \in ToSet(pendingPackets)} :
          /\ accepted' = accepted \cup taken
          /\ refused' = refused \cup {m \in Sends \ taken : Chat(m) \in ToSet(pendingPackets)}
    /\ UNCHANGED <<receiving, arrived, inputs, control, missed, spent, named, unmade>>

\* Nothing but networkError: no timer runs, the map and the packets stay.
ConnectFails ==
    /\ socket \in {"connecting", "leaving"} /\ Free /\ Input
    /\ socket' = "off" /\ unmade' = TRUE
    /\ UNCHANGED <<known, up, down, served, due, sending, receiving, server, control,
                   cut, missed, spent, named>>

ConnectionBreaks ==
    /\ socket = "on" /\ Free /\ Input
    /\ Disconnected(pendingSend) /\ bubble' = Told(pendingSend)
    /\ UNCHANGED <<pendingPackets, receiving, server, control, missed, spent, named, unmade>>

----------------------------------------------------------------------------
(* The user.                                                                *)

\* LoginWidget, and ImClient::login.
PressLogin ==
    /\ Usable /\ ~chat /\ Input
    /\ \/ SendPackets(<<Login>>) /\ UNCHANGED <<pendingSend, bubble>>
       \/ SendFails(pendingSend) /\ bubble' = Told(pendingSend)
    /\ UNCHANGED <<receiving, server, control, missed, spent, named, unmade>>

\* on_btn_send_clicked and sendOneChat: the bubble is made after sendPacket and
\* misses what happens in there.
PressSend(m) ==
    /\ Usable /\ chat /\ m \notin spent /\ Input /\ spent' = spent \cup {m}
    /\ named' = IF known THEN named \cup {m} ELSE named
    /\ \E entries \in {[pendingSend EXCEPT ![m] = NewEntry]} :
          \/ /\ SendPackets(<<Chat(m)>>) /\ pendingSend' = entries
             /\ bubble' = [bubble EXCEPT ![m] = "sending"] /\ UNCHANGED missed
          \/ /\ SendFails(entries)
             /\ bubble' = [Told(entries) EXCEPT ![m] = "sending"] /\ missed' = missed \cup {m}
    /\ UNCHANGED <<receiving, server, control, unmade>>

\* The ChatWidget is closed and deleted, then ImClient::logout: pendingPackets_ and
\* the window stay as they are, and the map if there is no connection.
Logout ==
    /\ Usable /\ chat /\ chat' = FALSE /\ lastSyncKey' = 0
    /\ bubble' = [m \in Sends |-> "none"]
    /\ IF socket = "on" THEN Disconnected(pendingSend)
       ELSE /\ socket' = IF socket = "connecting" THEN "leaving" ELSE socket
            /\ known' = FALSE /\ UNCHANGED <<up, down, served, due, pendingSend, cut>>
    /\ UNCHANGED <<pendingPackets, window, saved, shown, unseen, evicted, server, inputs, readBuffer,
                   box, ended, missed, spent, named, unmade>>

----------------------------------------------------------------------------
(* checkRetransmit, every 2 seconds while there is a connection.            *)

\* The entries of at least 3 seconds.
Due(ids) ==
    /\ ids \subseteq Ids(pendingSend)
    /\ \A m \in Ids(pendingSend) \ ids : pendingSend[m].skips < MaxSkips

MayRetry(m) == pendingSend[m].retry < MaxRetry

Again(ids) == {m \in ids : MayRetry(m)}

\* The map after the pass.
Checked(ids) ==
    [m \in Sends |->
        IF m \in Again(ids) THEN [on |-> TRUE, retry |-> pendingSend[m].retry + 1, skips |-> 0]
        ELSE IF m \in ids THEN NoEntry
        ELSE IF m \in Ids(pendingSend) THEN [pendingSend[m] EXCEPT !.skips = @ + 1]
        ELSE NoEntry]

\* Bug: the entry is erased before anybody is told.
GivenUpSilently(ids) == bubble

GivenUp(ids) ==
    [m \in Sends |-> IF m \in ids \ Again(ids) /\ bubble[m] # "none" THEN "failed" ELSE bubble[m]]

\* A QMap is gone through in the order of its keys.
InOrder(ids) ==
    {order \in [1..Cardinality(ids) -> ids] : \A i, j \in DOMAIN order : i < j => order[i] < order[j]}

CheckRetransmit(ids) ==
    /\ socket = "on" /\ Free /\ Ids(pendingSend) # {} /\ Due(ids)
    /\ \E order \in InOrder(Again(ids)) : up' = up \o [i \in DOMAIN order |-> Chat(order[i])]
    /\ pendingSend' = Checked(ids) /\ bubble' = GivenUp(ids)
    /\ UNCHANGED <<socket, known, down, served, due, pendingPackets, receiving, server, inputs, control,
                   sendGhosts>>

\* A write of the pass fails: onDisconnected clears the map that the loop goes
\* through, which then uses an iterator to a freed node (imclient.cpp:404). The
\* process crashes, or goes on if it is lucky.
CheckRetransmitFails ==
    /\ \E ids \in SUBSET Ids(pendingSend) : Due(ids) /\ Again(ids) # {}
    /\ Free /\ SendFails(pendingSend) /\ Input /\ bubble' = Told(pendingSend)
    /\ ended' \in BOOLEAN
    /\ UNCHANGED <<receiving, server, readBuffer, box, chat, missed, spent, named, unmade>>

----------------------------------------------------------------------------
(* onReadyRead and handleMessage.                                           *)

\* One call reads what there is.
ReadyRead ==
    /\ socket = "on" /\ Usable
    /\ down # <<>> /\ readBuffer' = down /\ down' = <<>>
    /\ UNCHANGED <<socket, known, up, served, due, sending, receiving, server, inputs, box, chat, ended,
                   sendGhosts>>

\* The head of readBuffer_ is taken off and handled.
Handles(kind) ==
    /\ ~ended /\ box = "none" /\ readBuffer # <<>> /\ Head(readBuffer).kind = kind
    /\ readBuffer' = Tail(readBuffer)

\* recvMsgWindow_.
Remembered(w, p) == IF Len(w) = Window THEN Append(Tail(w), p) ELSE Append(w, p)

\* oneChatReceived: nobody hears it without a ChatWidget.
Emit(p) ==
    IF chat THEN shown' = [shown EXCEPT ![p] = @ + 1] /\ UNCHANGED unseen
    ELSE unseen' = unseen \cup {p} /\ UNCHANGED shown

\* Bug: nobody looks at the window.
ShowAlways(p) ==
    /\ Emit(p) /\ window' = Remembered(window, p)
    /\ evicted' = evicted \cup (ToSet(window) \ ToSet(window'))

\* A message that is not in the window is remembered there, and shown.
Show(p) ==
    IF Contains(window, p) THEN UNCHANGED <<window, shown, unseen, evicted>>
    ELSE /\ Emit(p) /\ window' = Remembered(window, p)
         /\ evicted' = evicted \cup (ToSet(window) \ ToSet(window'))

\* LOGIN_MSG_ACK: the stored key is read; "login successful" is a box, and so is a
\* refusal.
HandleLogin ==
    /\ Handles("login")
    /\ IF Head(readBuffer).ok THEN known' = TRUE /\ lastSyncKey' = saved /\ box' = "login"
       ELSE box' = "note" /\ UNCHANGED <<known, lastSyncKey>>
    /\ UNCHANGED <<socket, up, down, served, due, sending, window, saved, shown, unseen, evicted,
                   server, inputs, chat, ended, sendGhosts>>

Acked(m) == [pendingSend EXCEPT ![m] = NoEntry]

\* Bug: an answer counts only while its message is waited for.
MarkedIfWaiting(m, ok) ==
    IF ~pendingSend[m].on \/ bubble[m] = "none" THEN bubble
    ELSE [bubble EXCEPT ![m] = IF ok THEN "success" ELSE "failed"]

\* onOneChatSendAck(m, ok).
Marked(m, ok) ==
    IF bubble[m] = "none" THEN bubble
    ELSE [bubble EXCEPT ![m] = IF ok THEN "success" ELSE "failed"]

\* MSG_SEND_ACK, also one for a message that was given up.
HandleAck ==
    /\ Handles("ack")
    /\ \E m \in {Head(readBuffer).id} :
          pendingSend' = Acked(m) /\ bubble' = Marked(m, Head(readBuffer).ok)
    /\ UNCHANGED <<link, pendingPackets, receiving, server, inputs, box, chat, ended, sendGhosts>>

\* ONE_CHAT_MSG, acknowledged first: that may have to wait for a connection.
HandlePush ==
    /\ Handles("push") /\ Show(Head(readBuffer).id)
    /\ \/ SendPackets(<<Receipt>>) /\ UNCHANGED <<pendingSend, bubble, inputs>>
       \/ SendFails(pendingSend) /\ Input /\ bubble' = Told(pendingSend)
    /\ UNCHANGED <<lastSyncKey, saved, server, box, chat, ended, missed, spent, named, unmade>>

\* SYNC_RESP: its messages, one at a time. No other slot runs in between.
HandleSynced ==
    /\ ~ended /\ box = "none" /\ readBuffer # <<>> /\ Head(readBuffer).kind = "synced"
    /\ Head(readBuffer).ids # <<>> /\ Show(Head(Head(readBuffer).ids))
    /\ readBuffer' = <<[Head(readBuffer) EXCEPT !.ids = Tail(@)]>> \o Tail(readBuffer)
    /\ UNCHANGED <<link, sending, lastSyncKey, saved, server, inputs, box, chat, ended, sendGhosts>>

\* Then its key, which is stored only if it grows. myUid_ is -1 by now if the
\* connection broke under a box: the key is then stored for nobody.
HandleSync ==
    /\ Handles("synced") /\ Head(readBuffer).ids = <<>>
    /\ LET key == Head(readBuffer).key
       IN /\ lastSyncKey' = IF key > lastSyncKey THEN key ELSE lastSyncKey
          /\ saved' = IF key > lastSyncKey /\ known THEN key ELSE saved
    /\ UNCHANGED <<link, sending, window, shown, unseen, evicted, server, inputs, box, chat, ended,
                   sendGhosts>>

\* ADD_FRIEND_RESP: its text is put in a box if there is a ChatWidget.
HandleNote ==
    /\ Handles("note") /\ box' = IF chat THEN "note" ELSE box
    /\ UNCHANGED <<link, sending, receiving, server, inputs, chat, ended, sendGhosts>>

\* The user closes the box and onReadyRead goes on: after the one of a login there
\* is a ChatWidget, and a sync starts whatever has become of the connection.
CloseBox ==
    /\ box # "none" /\ ~ended /\ box' = "none"
    /\ IF box = "note" THEN UNCHANGED <<chat, link, sending, cut, inputs>>
       ELSE /\ chat' = TRUE
            /\ \/ /\ SendPackets(<<Sync(known, lastSyncKey)>>)
                  /\ UNCHANGED <<pendingSend, bubble, inputs>>
               \/ SendFails(pendingSend) /\ Input /\ bubble' = Told(pendingSend)
    /\ UNCHANGED <<receiving, server, readBuffer, ended, missed, spent, named, unmade>>

----------------------------------------------------------------------------
(* The server.                                                              *)

\* Bug: off by one at the exclusive bound.
MissingAfterNext(key) == [i \in 1..(arrived - key - 1) |-> key + 1 + i]

Missing(key) == [i \in 1..(arrived - key) |-> key + i]

Reply(packet) == down' = Append(down, packet)

\* A login of a user that is not online registers the connection at once; all that
\* is between that and the answer is left to other steps.
ReadLogin ==
    \/ Reply([kind |-> "login", ok |-> FALSE]) /\ UNCHANGED <<served, due>>
    \/ (served => due > 0) /\ served' = TRUE /\ due' = due + 1 /\ UNCHANGED down

\* A message is refused if its two users are not friends, or Redis does not say that
\* they are; uid -1 has no friends.
ReadChat(m) ==
    /\ \/ /\ m \in named /\ accepted' = accepted \cup {m} /\ UNCHANGED refused
          /\ Reply([kind |-> "ack", id |-> m, ok |-> TRUE])
       \/ /\ refused' = refused \cup {m} /\ UNCHANGED accepted
          /\ Reply([kind |-> "ack", id |-> m, ok |-> FALSE])

ReadSync(packet) ==
    IF packet.uid
    THEN Reply([kind |-> "synced", ids |-> Missing(packet.key),
                key |-> IF arrived > packet.key THEN arrived ELSE packet.key])
    ELSE Reply([kind |-> "synced", ids |-> <<>>, key |-> packet.key])

ServerReads ==
    /\ socket = "on" /\ up # <<>> /\ up' = Tail(up)
    /\ CASE Head(up).kind = "login" -> ReadLogin /\ UNCHANGED <<accepted, refused>>
         [] Head(up).kind = "chat" -> ReadChat(Head(up).id) /\ UNCHANGED <<served, due>>
         [] Head(up).kind = "sync" ->
              ReadSync(Head(up)) /\ UNCHANGED <<served, due, accepted, refused>>
         [] Head(up).kind = "recvack" -> UNCHANGED <<down, served, due, accepted, refused>>
    /\ UNCHANGED <<socket, known, sending, receiving, arrived, inputs, control, sendGhosts>>

\* LOGIN_MSG_ACK, at the end of a login.
ServerLogsIn ==
    /\ socket = "on" /\ due > 0 /\ due' = due - 1
    /\ Reply([kind |-> "login", ok |-> TRUE])
    /\ UNCHANGED <<socket, known, up, served, sending, receiving, server, inputs, control, sendGhosts>>

Arrive ==
    /\ arrived < LastArrival /\ arrived' = arrived + 1 /\ Input
    /\ UNCHANGED <<link, sending, receiving, accepted, refused, control, sendGhosts>>

\* A copy of a message is pushed: the first one, or a retransmission.
ServerPushes(p) ==
    /\ socket = "on" /\ served /\ p <= arrived /\ Input
    /\ Reply([kind |-> "push", id |-> p])
    /\ UNCHANGED <<socket, known, up, served, due, sending, receiving, server, control, sendGhosts>>

ServerNotes ==
    /\ socket = "on" /\ served /\ Input /\ Reply([kind |-> "note"])
    /\ UNCHANGED <<socket, known, up, served, due, sending, receiving, server, control, sendGhosts>>

----------------------------------------------------------------------------
Connection == Connect \/ ConnectAndLeave \/ ConnectFails \/ ConnectionBreaks
User == PressLogin \/ (\E m \in Sends : PressSend(m)) \/ Logout \/ CloseBox
CheckSome == \E ids \in SUBSET Ids(pendingSend) : CheckRetransmit(ids)
Handle == HandleLogin \/ HandleAck \/ HandlePush \/ HandleSynced \/ HandleSync \/ HandleNote
Server ==
    \/ ServerReads \/ ServerLogsIn \/ Arrive \/ ServerNotes
    \/ \E p \in Arrivals : ServerPushes(p)

Next ==
    \/ Connection \/ User \/ CheckSome \/ CheckRetransmitFails \/ ReadyRead \/ Handle \/ Server

\* A connection is made or not, the timer fires while it is there, and the loop of
\* onReadyRead goes on. Users and servers owe nothing.
Fairness ==
    WF_vars(Connect \/ ConnectAndLeave) /\ WF_vars(CheckSome) /\ WF_vars(Handle)

Spec == Init /\ [][Next]_vars /\ Fairness

----------------------------------------------------------------------------
(* Properties.                                                              *)

Packets ==
    {Login, Receipt} \cup {Chat(m) : m \in Sends}
        \cup {Sync(u, k) : u \in BOOLEAN, k \in 0..LastArrival}

\* Every variable has its type: what is kept or on its way to the server is a
\* packet of the protocol, the window holds so many ids and no id twice.
TypeOK ==
    /\ socket \in {"off", "connecting", "on", "leaving"} /\ known \in BOOLEAN
    /\ pendingPackets \in Seq(Packets) /\ up \in Seq(Packets)
    /\ served \in BOOLEAN /\ due \in Nat
    /\ pendingSend \in [Sends -> [on : BOOLEAN, retry : 0..MaxRetry, skips : 0..MaxSkips]]
    /\ bubble \in [Sends -> {"none", "sending", "success", "failed"}]
    /\ window \in Seq(Arrivals) /\ Len(window) <= Window /\ IsInjective(window)
    /\ lastSyncKey \in 0..LastArrival /\ saved \in 0..LastArrival
    /\ box \in {"none", "login", "note"} /\ chat \in BOOLEAN /\ ended \in BOOLEAN
    /\ arrived \in 0..LastArrival /\ inputs \in 0..MaxInputs
    /\ accepted \subseteq Sends /\ refused \subseteq Sends /\ cut \subseteq Sends /\ missed \subseteq Sends
    /\ spent \subseteq Sends /\ named \subseteq Sends /\ unmade \in BOOLEAN
    /\ unseen \subseteq Arrivals /\ evicted \subseteq Arrivals

\* A message shown as being sent is one that ImClient still has to hear about,
\* except if the connection broke inside the very call that sent it: no end of a
\* connection, timeout or box leaves such a bubble behind.
SendingIsPending ==
    \A m \in Sends : bubble[m] = "sending" => m \in Ids(pendingSend) \cup missed

\* It is settled in the end, also while a box holds up onReadyRead, unless the
\* connection for it could not be made: then no timer runs (imclient.cpp:371).
SendingIsSettled ==
    \A m \in Sends :
        bubble[m] = "sending" ~> bubble[m] # "sending" \/ m \in missed \/ unmade \/ ended

\* Nothing is under way between client and server.
Quiet ==
    /\ socket = "on" /\ up = <<>> /\ down = <<>> /\ readBuffer = <<>> /\ box = "none"
    /\ pendingPackets = <<>>

\* Once all answers are in, a bubble says "failed" only if the connection broke
\* since the message was sent or the server refused a copy of it, and "success" only
\* if the server took one over: a timeout that came while a box was open is put
\* right by the late answer.
BubbleIsRight ==
    Quiet => \A m \in Sends :
        /\ bubble[m] = "failed" => m \in cut \cup refused
        /\ bubble[m] = "success" => m \in accepted

\* A message is shown once however often it is pushed and synced, and over all
\* logins of the process, unless its id has left the window in between.
ShownOnce == \A p \in Arrivals : shown[p] > 1 => p \in evicted

\* The stored key passes no message that was never shown, whatever breaks between
\* the answer and QSettings, except one that came when there was no ChatWidget: its
\* id is in the window and no sync shows it any more.
KeyIsShown == \A p \in Arrivals : p <= saved => shown[p] > 0 \/ p \in unseen
=============================================================================
