----------------------------- MODULE Connection -----------------------------
(***************************************************************************)
(* One connection between a ChatServer and an ImClient: TcpConnection's    *)
(* send, onWrite and onRead, the write and read events of Epoll (edge-     *)
(* triggered), the kernel's buffers, and the client's onReadyRead, which   *)
(* cuts the bytes into packets as onRead does on the server.               *)
(*                                                                         *)
(* Several threads send on one connection: workers of the thread pool, and *)
(* the retransmission and Redis threads, where nothing catches what        *)
(* Epoll::updateChannel throws. The reactor reads, flushes and closes. A   *)
(* packet is a row of cells; the first HeaderLen cells are its length, the *)
(* next one its message id. TcpConnection::shutdown is left out: its only  *)
(* call (ReliablePush) finds closed_ set.                                  *)
(***************************************************************************)
EXTENDS Buffer, Integers, FiniteSets

CONSTANTS
    Threads,    \* the threads that call send
    Background, \* those of them that are not workers of the pool
    Packets,
    Loads,      \* what the threads send and the client sends, as todo and ask
    Size,       \* Size[p]: the cells of p
    TooLong,    \* packets whose length the receiver refuses
    HeaderLen,
    SockCap,    \* bound on the cells in the kernel's send buffer
    BufferSize, \* initialSize of the Buffer
    Extra,      \* the cells of extrabuf
    Reactor, Nobody

ASSUME ThreadsAssumption ==
    /\ Background \subseteq Threads
    /\ Reactor \notin Threads /\ Nobody \notin Threads \cup {Reactor}
ASSUME PacketsAssumption ==
    /\ TooLong \subseteq Packets
    /\ HeaderLen \in Nat \ {0} /\ SockCap \in Nat \ {0}
    /\ Size \in [Packets -> Nat] /\ \A p \in Packets : Size[p] > HeaderLen
ASSUME LoadsAssumption == Loads \subseteq [todo : [Threads -> Seq(Packets)], ask : Seq(Packets)]
ASSUME BufferAssumption == BufferSize \in Nat /\ Extra \in Nat \ {0}

VARIABLES
    pc,                \* pc[t]: where sender t is
    todo,              \* todo[t]: the packets t still has to send
    rest,              \* rest[t]: the cells of its packet that t has not written
    lock,              \* who holds sendMutex_
    writeBuffer,       \* writeBuffer_
    writeEventEnabled, \* writeEventEnabled_
    closed,            \* closed_
    registered,        \* the descriptor is in the epoll set
    interestOut,       \* ... with EPOLLOUT
    ready,             \* epoll has a write event to report
    noSpace,           \* a write found the kernel's buffer full (SOCK_NOSPACE)
    hup,               \* epoll has EPOLLRDHUP, EPOLLHUP or EPOLLERR to report
    inEdge,            \* epoll has a read event to report
    link,              \* "up", "shut" by the server, or "gone"
    out,               \* cells in the server's kernel or under way
    readBuffer,        \* the client's readBuffer_
    received,          \* the packets the client has handled
    reading,           \* the client is in the loop of onReadyRead
    accepted,          \* ghost: the packets that passed send's check of closed_
    rpc,               \* where the reactor is
    outToo,            \* the event it is at also says EPOLLOUT
    ask,               \* the packets the client still has to send
    wire,              \* cells from the client under way
    arrived,           \* ... in the server's kernel
    buf,               \* the server's readBuffer_
    handled,           \* the packets given to their handler
    asked,             \* ghost: the packets the client wrote to its socket
    serverUp           \* FALSE: an exception left a background thread

sends == <<pc, todo, rest>>
queue == <<lock, writeBuffer, writeEventEnabled>>
interest == <<registered, interestOut>>
edges == <<ready, noSpace, hup, inEdge>>
client == <<readBuffer, received, reading>>
reactor == <<rpc, outToo>>
inbound == <<ask, wire, arrived, buf, handled, asked>>
afar == <<closed, link, client, inbound>> \* what neither send nor onWrite touches
vars == <<sends, queue, closed, interest, edges, link, out, client, accepted, reactor, inbound,
          serverUp>>

Cells == [pkt : Packets, no : Nat]
CellsOf(p) == [i \in 1..Size[p] |-> [pkt |-> p, no |-> i]]
Drop(s, n) == SubSeq(s, n + 1, Len(s))
Take(s, n) == SubSeq(s, 1, n)
Least(i, j) == IF i < j THEN i ELSE j

\* The length field is read from cells that are one, or it is nonsense.
Sensible(b) == \A i \in 1..HeaderLen : b[i] = [pkt |-> b[1].pkt, no |-> i]
Refused(b) == ~Sensible(b) \/ b[1].pkt \in TooLong

\* Both loops ask for the header, then for the packet it announces.
HeaderIn(b) == Len(b) >= HeaderLen
WholeIn(b) == HeaderIn(b) /\ Len(b) >= Size[b[1].pkt]

\* The packet that cells cut off as one stand for.
Unpack(b) == IF b = CellsOf(b[1].pkt) THEN b[1].pkt ELSE Junk

Init ==
    /\ \E load \in Loads : todo = load.todo /\ ask = load.ask
    /\ pc = [t \in Threads |-> "idle"] /\ rest = [t \in Threads |-> <<>>]
    /\ lock = Nobody /\ writeBuffer = <<>> /\ writeEventEnabled = FALSE
    /\ closed = FALSE /\ registered = TRUE /\ interestOut = FALSE
    /\ ready = FALSE /\ noSpace = FALSE /\ hup = FALSE /\ inEdge = FALSE
    /\ link = "up" /\ out = <<>> /\ readBuffer = <<>> /\ received = <<>> /\ accepted = <<>>
    /\ reading = FALSE
    /\ rpc = "idle" /\ outToo = FALSE
    /\ wire = <<>> /\ arrived = <<>> /\ buf = NewBuffer(BufferSize)
    /\ handled = <<>> /\ asked = <<>> /\ serverUp = TRUE

----------------------------------------------------------------------------
(* write(2) and epoll_ctl(2).                                               *)

Room == SockCap - Len(out)

\* n cells of s leave. What is written to a client that is gone is lost.
Written(s, n) ==
    /\ out' = IF link = "gone" THEN out ELSE out \o Take(s, n)
    /\ UNCHANGED edges

CanWrite(n) == link \in {"up", "gone"} /\ n <= Room
WouldBlock == link \in {"up", "gone"} /\ Room = 0
WriteFails == link \in {"shut", "gone"}
MissSpace == noSpace' = TRUE /\ UNCHANGED <<ready, hup, inEdge>>

\* Bug: the condition that holds already when MOD comes makes no event.
AskForOutLater == interestOut' = TRUE /\ UNCHANGED <<registered, edges>>

\* EPOLL_CTL_MOD with EPOLLOUT reports at once what is writable already.
AskForOut ==
    interestOut' = TRUE /\ ready' = (Room > 0) /\ UNCHANGED <<registered, noSpace, hup, inEdge>>

----------------------------------------------------------------------------
(* send, in any thread, all of it under sendMutex_.                         *)

Begin(t) == serverUp /\ pc[t] = "idle" /\ lock = Nobody /\ todo[t] # <<>>
Done(t) == pc' = [pc EXCEPT ![t] = "idle"] /\ lock' = Nobody
NextPacket(t) == todo' = [todo EXCEPT ![t] = Tail(@)]

SendOnClosed(t) ==
    /\ Begin(t) /\ closed
    /\ NextPacket(t)
    /\ UNCHANGED <<pc, rest, queue, interest, edges, out, accepted, reactor, serverUp,
                   afar>>

\* Bug: a packet overtakes what is waiting.
InFront(p) == CellsOf(p) \o writeBuffer

\* What is waiting already goes first: the packet is queued behind it.
Behind(p) == writeBuffer \o CellsOf(p)

SendQueued(t) ==
    /\ Begin(t) /\ ~closed /\ writeBuffer # <<>>
    /\ writeBuffer' = Behind(Head(todo[t]))
    /\ accepted' = Append(accepted, Head(todo[t]))
    /\ NextPacket(t)
    /\ pc' = [pc EXCEPT ![t] = IF writeEventEnabled THEN "idle" ELSE "arm"]
    /\ lock' = IF writeEventEnabled THEN Nobody ELSE t
    /\ UNCHANGED <<rest, writeEventEnabled, interest, edges, out, reactor, serverUp, afar>>

SendBegin(t) ==
    /\ Begin(t) /\ ~closed /\ writeBuffer = <<>>
    /\ rest' = [rest EXCEPT ![t] = CellsOf(Head(todo[t]))]
    /\ accepted' = Append(accepted, Head(todo[t]))
    /\ NextPacket(t)
    /\ pc' = [pc EXCEPT ![t] = "write"] /\ lock' = t
    /\ UNCHANGED <<writeBuffer, writeEventEnabled, interest, edges, out, reactor,
                   serverUp, afar>>

\* One write of the loop; the last one ends the call.
SendWrite(t) ==
    /\ serverUp /\ pc[t] = "write"
    /\ \E n \in 1..Len(rest[t]) :
           /\ CanWrite(n) /\ Written(rest[t], n)
           /\ rest' = [rest EXCEPT ![t] = Drop(@, n)]
           /\ IF n = Len(rest[t]) THEN Done(t) ELSE UNCHANGED <<pc, lock>>
    /\ UNCHANGED <<todo, writeBuffer, writeEventEnabled, interest, accepted, reactor,
                   serverUp, afar>>

\* An error other than EAGAIN drops what is left of the packet.
SendError(t) ==
    /\ serverUp /\ pc[t] = "write" /\ WriteFails
    /\ rest' = [rest EXCEPT ![t] = <<>>]
    /\ Done(t)
    /\ UNCHANGED <<todo, writeBuffer, writeEventEnabled, interest, edges, out, accepted,
                   reactor, serverUp, afar>>

\* EAGAIN: what is left of the packet is queued.
SendBlocked(t) ==
    /\ serverUp /\ pc[t] = "write" /\ WouldBlock /\ MissSpace
    /\ writeBuffer' = writeBuffer \o rest[t]
    /\ rest' = [rest EXCEPT ![t] = <<>>]
    /\ IF writeEventEnabled THEN Done(t)
       ELSE pc' = [pc EXCEPT ![t] = "arm"] /\ UNCHANGED lock
    /\ UNCHANGED <<todo, writeEventEnabled, interest, out, accepted, reactor, serverUp,
                   afar>>

SendArm(t) ==
    /\ serverUp /\ pc[t] = "arm" /\ registered
    /\ AskForOut /\ writeEventEnabled' = TRUE
    /\ Done(t)
    /\ UNCHANGED <<todo, rest, writeBuffer, out, accepted, reactor, serverUp, afar>>

\* The reactor has removed the descriptor: updateChannel throws. The task of a
\* worker keeps the exception; out of any other thread it ends the server.
SendArmThrows(t) ==
    /\ serverUp /\ pc[t] = "arm" /\ ~registered
    /\ Done(t)
    /\ serverUp' = (t \notin Background)
    /\ UNCHANGED <<todo, rest, writeBuffer, writeEventEnabled, interest, edges, out,
                   accepted, reactor, afar>>

----------------------------------------------------------------------------
(* The reactor takes an event and calls onRead, onWrite or both.            *)

\* An event that says EPOLLRDHUP goes to onRead alone.
Poll ==
    /\ serverUp /\ rpc = "idle" /\ registered
    /\ hup \/ inEdge \/ (ready /\ interestOut)
    /\ rpc' = IF hup \/ inEdge THEN "read" ELSE "lock"
    /\ outToo' = (~hup /\ ready /\ interestOut)
    /\ ready' = FALSE /\ inEdge' = FALSE
    /\ UNCHANGED <<sends, queue, interest, noSpace, hup, out, accepted, serverUp, afar>>

\* onWrite waits for sendMutex_.
WriteBegin ==
    /\ serverUp /\ rpc = "lock" /\ lock = Nobody
    /\ lock' = Reactor /\ rpc' = "write"
    /\ UNCHANGED <<sends, writeBuffer, writeEventEnabled, interest, edges, out, accepted,
                   outToo, serverUp, afar>>

FlushWrite ==
    /\ serverUp /\ rpc = "write"
    /\ \E n \in 1..Len(writeBuffer) :
           /\ CanWrite(n) /\ Written(writeBuffer, n)
           /\ writeBuffer' = Drop(writeBuffer, n)
    /\ UNCHANGED <<sends, lock, writeEventEnabled, interest, accepted, reactor, serverUp,
                   afar>>

\* EAGAIN waits for the next EPOLLOUT; any other error leaves the buffer alone.
FlushStops ==
    /\ serverUp /\ rpc = "write" /\ writeBuffer # <<>>
    /\ (WouldBlock /\ MissSpace) \/ (WriteFails /\ UNCHANGED edges)
    /\ rpc' = "idle" /\ lock' = Nobody
    /\ UNCHANGED <<sends, writeBuffer, writeEventEnabled, interest, out, accepted, outToo,
                   serverUp, afar>>

\* Only this thread removes the descriptor, so the MOD finds it.
FlushDone ==
    /\ serverUp /\ rpc = "write" /\ writeBuffer = <<>>
    /\ rpc' = "idle" /\ lock' = Nobody
    /\ writeEventEnabled' = FALSE /\ interestOut' = FALSE /\ ready' = FALSE
    /\ UNCHANGED <<sends, writeBuffer, registered, noSpace, hup, inEdge, out, accepted,
                   outToo, serverUp, afar>>

----------------------------------------------------------------------------
(* onRead.                                                                  *)

Reading(to) ==
    /\ serverUp /\ rpc' = to
    /\ UNCHANGED <<sends, queue, interest, edges, out, client, accepted, outToo, ask,
                   wire, asked, serverUp>>

\* readFd takes what is there, as far as it has room for it.
ReadSome ==
    /\ rpc = "read" /\ arrived # <<>> /\ Reading("frames")
    /\ LET n == Least(Len(arrived), ReadRoom(buf, Extra)) IN
           buf' = ReadFd(buf, Take(arrived, n)) /\ arrived' = Drop(arrived, n)
    /\ UNCHANGED <<closed, link, handled>>

AfterRead == IF outToo THEN "lock" ELSE "idle"

ReadEmpty ==
    /\ rpc = "read" /\ arrived = <<>> /\ link = "up" /\ Reading(AfterRead)
    /\ UNCHANGED <<closed, link, arrived, buf, handled>>

\* Bug: the connection is closed without saying so to send.
ReadEndUnmarked ==
    /\ rpc = "read" /\ arrived = <<>> /\ link # "up" /\ Reading("del")
    /\ UNCHANGED <<closed, link, arrived, buf, handled>>

\* End of file or an error: closed_ is set before the descriptor is removed.
ReadEnd ==
    /\ rpc = "read" /\ arrived = <<>> /\ link # "up" /\ Reading("del")
    /\ closed' = TRUE
    /\ UNCHANGED <<link, arrived, buf, handled>>

Here == Contents(buf)
HeaderRead == HeaderIn(Here)
WholeRead == WholeIn(Here)

\* Length, message id and body are retrieved one after the other.
HandlePacket ==
    /\ rpc = "frames" /\ WholeRead /\ ~Refused(Here) /\ Reading("frames")
    /\ LET n == Size[Here[1].pkt] IN
           /\ buf' = Retrieve(Retrieve(Retrieve(buf, HeaderLen), 1), n - HeaderLen - 1)
           /\ handled' = Append(handled, Unpack(Take(Here, n)))
    /\ UNCHANGED <<closed, link, arrived>>

\* Bug: it leaves the loop with one read, as a level-triggered server may.
AwaitEvent ==
    /\ rpc = "frames" /\ ~WholeRead /\ (HeaderRead => ~Refused(Here)) /\ Reading(AfterRead)
    /\ UNCHANGED <<closed, link, arrived, buf, handled>>

\* Too little for a packet: read on.
AwaitMore ==
    /\ rpc = "frames" /\ ~WholeRead /\ (HeaderRead => ~Refused(Here)) /\ Reading("read")
    /\ UNCHANGED <<closed, link, arrived, buf, handled>>

RefusePacket ==
    /\ rpc = "frames" /\ HeaderRead /\ Refused(Here) /\ Reading("del")
    /\ closed' = TRUE
    /\ UNCHANGED <<link, arrived, buf, handled>>

\* EPOLL_CTL_DEL, without sendMutex_, and the close callback.
CloseDel ==
    /\ serverUp /\ rpc = "del"
    /\ registered' = FALSE /\ interestOut' = FALSE /\ ready' = FALSE /\ rpc' = "closed"
    /\ UNCHANGED <<sends, queue, noSpace, hup, inEdge, out, accepted, outToo, serverUp,
                   afar>>

\* The last reference goes, and with it the socket: what was sent still arrives.
CloseFd ==
    /\ serverUp /\ rpc = "closed" /\ link = "up" /\ \A t \in Threads : pc[t] = "idle"
    /\ link' = "shut" /\ wire' = <<>>
    /\ UNCHANGED <<sends, queue, closed, interest, edges, out, client, accepted, reactor,
                   ask, arrived, buf, handled, asked, serverUp>>

\* checkConnectionTask: shutdown(fd, SHUT_RDWR).
IdleShut ==
    /\ serverUp /\ link = "up" /\ registered
    /\ link' = "shut" /\ hup' = TRUE /\ wire' = <<>>
    /\ UNCHANGED <<sends, queue, closed, interest, ready, noSpace, inEdge, out, client,
                   accepted, reactor, ask, arrived, buf, handled, asked, serverUp>>

----------------------------------------------------------------------------
(* The client and the network.                                              *)

ClientSend ==
    /\ link = "up" /\ ask # <<>>
    /\ wire' = wire \o CellsOf(Head(ask))
    /\ asked' = Append(asked, Head(ask)) /\ ask' = Tail(ask)
    /\ UNCHANGED <<sends, queue, closed, interest, edges, link, out, client, accepted,
                   reactor, arrived, buf, handled, serverUp>>

\* A segment reaches the server.
Arrive ==
    /\ link = "up" /\ wire # <<>>
    /\ \E n \in 1..Len(wire) : arrived' = arrived \o Take(wire, n) /\ wire' = Drop(wire, n)
    /\ inEdge' = TRUE
    /\ UNCHANGED <<sends, queue, closed, interest, ready, noSpace, hup, link, out, client,
                   accepted, reactor, ask, buf, handled, asked, serverUp>>

\* The client closes, and some of what it sent arrives; or it resets, and none does.
ClientGone ==
    /\ link = "up"
    /\ link' = "gone" /\ hup' = TRUE /\ out' = <<>> /\ wire' = <<>> /\ reading' = FALSE
    /\ arrived' \in {arrived \o wire, arrived, <<>>}
    /\ UNCHANGED <<sends, queue, closed, interest, ready, noSpace, inEdge, readBuffer, received,
                   accepted, reactor, ask, buf, handled, asked, serverUp>>

\* A segment reaches the client, which starts onReadyRead. Space in the kernel's
\* buffer is an edge if a write missed it.
ClientRead ==
    /\ ~reading /\ link \in {"up", "shut"} /\ reading' = TRUE
    /\ \E n \in 1..Len(out) : readBuffer' = readBuffer \o Take(out, n) /\ out' = Drop(out, n)
    /\ ready' = (ready \/ (noSpace /\ interestOut))
    /\ noSpace' = FALSE
    /\ UNCHANGED <<sends, queue, closed, interest, hup, inEdge, link, received, accepted, reactor,
                   inbound, serverUp>>

\* The loop of onReadyRead: a packet is cut off and handled, ...
ClientHandle ==
    /\ reading /\ WholeIn(readBuffer) /\ ~Refused(readBuffer)
    /\ LET n == Size[readBuffer[1].pkt] IN
           /\ received' = Append(received, Unpack(Take(readBuffer, n)))
           /\ readBuffer' = Drop(readBuffer, n)
    /\ UNCHANGED <<sends, queue, closed, interest, edges, link, out, reading, accepted, reactor,
                   inbound, serverUp>>

\* ... what is left is too little for one, ...
ClientAwait ==
    /\ reading /\ ~WholeIn(readBuffer) /\ (HeaderIn(readBuffer) => ~Refused(readBuffer))
    /\ reading' = FALSE
    /\ UNCHANGED <<sends, queue, closed, interest, edges, link, out, readBuffer, received, accepted,
                   reactor, inbound, serverUp>>

\* ... or it has a length that is refused: the client disconnects.
ClientRefuse ==
    /\ reading /\ HeaderIn(readBuffer) /\ Refused(readBuffer)
    /\ reading' = FALSE /\ readBuffer' = <<>>
    /\ link' = "gone" /\ hup' = TRUE /\ out' = <<>> /\ wire' = <<>>
    /\ UNCHANGED <<sends, queue, closed, interest, ready, noSpace, inEdge, received, accepted,
                   reactor, ask, arrived, buf, handled, asked, serverUp>>

Sender(t) ==
    \/ SendOnClosed(t) \/ SendQueued(t) \/ SendBegin(t) \/ SendWrite(t)
    \/ SendError(t) \/ SendBlocked(t) \/ SendArm(t) \/ SendArmThrows(t)

OnWrite == WriteBegin \/ FlushWrite \/ FlushStops \/ FlushDone
OnRead == ReadSome \/ ReadEmpty \/ ReadEnd \/ HandlePacket \/ AwaitMore \/ RefusePacket
ReactorStep == Poll \/ OnWrite \/ OnRead \/ CloseDel
OnReadyRead == ClientRead \/ ClientHandle \/ ClientAwait \/ ClientRefuse

Next ==
    \/ \E t \in Threads : Sender(t)
    \/ ReactorStep \/ CloseFd \/ IdleShut
    \/ ClientSend \/ Arrive \/ ClientGone \/ OnReadyRead

\* Threads run on, the mutex does not starve the reactor, and the network
\* delivers while the link is up.
Fairness ==
    /\ \A t \in Threads : WF_vars(Sender(t))
    /\ WF_vars(ReactorStep) /\ SF_vars(WriteBegin)
    /\ WF_vars(OnReadyRead) /\ WF_vars(Arrive)

Spec == Init /\ [][Next]_vars /\ Fairness

----------------------------------------------------------------------------
(* Properties.                                                              *)

TypeOK ==
    /\ pc \in [Threads -> {"idle", "write", "arm"}]
    /\ todo \in [Threads -> Seq(Packets)] /\ rest \in [Threads -> Seq(Cells)]
    /\ rpc \in {"idle", "lock", "write", "read", "frames", "del", "closed"}
    /\ lock \in Threads \cup {Reactor, Nobody} /\ writeBuffer \in Seq(Cells)
    /\ {writeEventEnabled, closed, registered, interestOut, ready, noSpace, hup, inEdge, outToo,
        reading, serverUp} \subseteq BOOLEAN
    /\ link \in {"up", "shut", "gone"}
    /\ out \in Seq(Cells) /\ Len(out) <= SockCap
    /\ readBuffer \in Seq(Cells) /\ received \in Seq(Packets) /\ accepted \in Seq(Packets)
    /\ IsBuffer(buf, Cells \cup {Junk}) /\ {wire, arrived, Contents(buf)} \subseteq Seq(Cells)
    /\ {ask, handled, asked} \subseteq Seq(Packets)

\* The reactor is on its way to onWrite.
WillFlush == rpc = "lock" \/ (outToo /\ rpc \in {"read", "frames"})

\* While a connection works and no call is in progress, what waits in
\* writeBuffer_ has its wake-up: epoll is asked for EPOLLOUT and has the event,
\* or will have it when the kernel's buffer drains, or the reactor is acting on
\* it. The write event is asked for only then, and writeEventEnabled_ says what
\* epoll knows.
FlushIsDue ==
    lock = Nobody /\ link = "up" /\ ~closed =>
        /\ writeEventEnabled = interestOut
        /\ interestOut <=> writeBuffer # <<>>
        /\ interestOut => ready \/ noSpace \/ WillFlush

\* The exception of a removal that came before the change of interest ends the
\* server only out of a background thread that was still in send when the
\* reactor had closed the connection, never out of a worker or the reactor.
FallsOnlyInRace ==
    [][serverUp /\ ~serverUp' => /\ closed /\ ~registered /\ writeBuffer # <<>>
                                 /\ \E t \in Background : pc[t] = "arm" /\ lock = t]_vars

\* The client sees the packets whole, in the order in which send took them, none
\* twice, however the kernel cuts the writes and the segments.
PipeOut == INSTANCE PacketPipe WITH
    delivered <- received,
    open <- link = "up" /\ ~closed /\ serverUp
SendIsPipe == PipeOut!Spec

\* The same of onRead and Buffer for what the client sends: edge-triggered events
\* and the moves inside the buffer double, reorder or mix up nothing.
PipeIn == INSTANCE PacketPipe WITH
    accepted <- asked,
    delivered <- handled,
    open <- link = "up" /\ ~closed /\ serverUp
ReadIsPipe == PipeIn!Spec

\* Unless the connection goes down, both sides see all of the packets: what is
\* left in writeBuffer_ is flushed, and the loop until EAGAIN leaves nothing in
\* the kernel.
PacketsArrive == PipeOut!Arrives /\ PipeIn!Arrives
=============================================================================
