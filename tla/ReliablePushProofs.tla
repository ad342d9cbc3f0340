------------------------- MODULE ReliablePushProofs -------------------------
(***************************************************************************)
(* Proofs about ReliablePush for any number of users, connections, pushes  *)
(* and retries: no pending entry is left on an unregistered connection     *)
(* without a thread that will sweep it, and no forwarded message is        *)
(* dropped in silence. Both rest on one inductive invariant, IInv.         *)
(***************************************************************************)
EXTENDS ReliablePush, TLAPS

\* Who holds the mutexes: a push between its send and its record holds
\* _connMutex and has seen its receiver registered; the retransmission thread
\* holds _pendingMutex throughout its pass.
Sending(p) == push[p] \in {"full", "sent"}

MutexHeld ==
    /\ \A p \in Pushes : Sending(p) => connMutex = p /\ connMap[Rcv(p)] # NoConn
    /\ pendingMutex = Free => retx = "sleep"

\* Connections belong to their users, and an entry stands under its message's id.
ConnsOwned ==
    /\ \A u \in Users : connMap[u] # NoConn => Owner[connMap[u]] = u
    /\ \A i \in PendingIds :
          Owner[pending[i].conn] = To[pending[i].msg] /\ MsgId[pending[i].msg] = i

\* The message being given up is still in the map, and its offline copy was tried.
GivesUpPending ==
    retx \in {"erase", "offline", "sweep", "shut"} =>
        giveUp \in PendingIds /\ pending[giveUp].msg \in offline \cup refused

\* Clients read what was sent to a connection and acknowledge what they have read.
OnlyForwarded ==
    /\ \A copy \in acks : copy[1] \in delivered
    /\ \A c \in Conns : \A copy \in wire[c] : copy[1] \in forwarded
    /\ delivered \subseteq forwarded
    /\ \A i \in PendingIds : pending[i].msg \in forwarded
    /\ \A p \in Pushes : Sending(p) => Msg(p) \in forwarded

\* The entries a pass has still to visit stay in the map while it runs.
ScanPending == scan \subseteq PendingIds /\ (retx = "sleep" => scan = {})

IInv ==
    /\ TypeOK /\ MutexHeld /\ ConnsOwned /\ GivesUpPending /\ OnlyForwarded /\ ScanPending
    /\ NoOrphan /\ NothingDropped

-----------------------------------------------------------------------------
LEMMA PushFacts ==
    ASSUME NEW p \in Pushes
    PROVE  /\ Msg(p) \in Msgs /\ Rcv(p) \in Users /\ p[2] \in {1, 2} /\ Rcv(p) = To[Msg(p)]
           /\ MsgId[Msg(p)] \in Ids
BY OwnerAssumption DEF Pushes, Msg, Rcv, Ids

\* An entry that is there is a whole one.
LEMMA EntryFacts ==
    ASSUME TypeOK
    PROVE  /\ \A i \in Ids : IsPending(i) <=> pending[i] \in Entries
           /\ \A i \in PendingIds : /\ pending[i] \in Entries /\ pending[i].conn \in Conns
                                     /\ pending[i].msg \in Msgs /\ To[pending[i].msg] \in Users
BY OwnerAssumption, NamesAssumption DEF TypeOK, Entries, NoEntry, IsPending, PendingIds

\* Sending adds at most the copy that is sent.
LEMMA SentFacts ==
    ASSUME wire \in [Conns -> SUBSET Copies], NEW c, NEW copy \in Copies
    PROVE  /\ Sent(c, copy) \in [Conns -> SUBSET Copies]
           /\ \A d \in Conns : Sent(c, copy)[d] \subseteq wire[d] \cup {copy}
BY DEF Sent

\* Each INSERT of a message is done or refused.
LEMMA StoresFacts ==
    ASSUME TypeOK, NEW ms \in SUBSET Msgs, Stores(ms)
    PROVE  /\ offline \subseteq offline' /\ refused \subseteq refused'
           /\ ms \subseteq offline' \cup refused'
           /\ offline' \subseteq Msgs /\ refused' \subseteq Msgs /\ dbFailures' \in 0..MaxDbFailures
<1>1. PICK failed \in SUBSET ms :
        /\ offline' = offline \cup (ms \ failed) /\ refused' = refused \cup failed
        /\ dbFailures' = dbFailures \/ (dbFailures < MaxDbFailures /\ dbFailures' = dbFailures + 1)
  BY DEF Stores
<1>. QED BY <1>1, LimitsAssumption DEF TypeOK

LEMMA TypeInit == Init => TypeOK
BY LimitsAssumption, NamesAssumption
DEF Init, TypeOK, RetxPCs, Copies

\* One step per action of Next.
LEMMA TypeNext == TypeOK /\ MutexHeld /\ ScanPending /\ [Next]_vars => TypeOK'
<1>. SUFFICES ASSUME TypeOK, MutexHeld, ScanPending, [Next]_vars PROVE TypeOK'
  OBVIOUS
<1>. USE DEF TypeOK, mutexes, retxVars, tables, net, ghosts
<1>1. ASSUME NEW c \in Conns, Login(c) PROVE TypeOK'
  BY <1>1, OwnerAssumption DEF Login
<1>2. ASSUME NEW c \in Conns, Disconnect(c) PROVE TypeOK'
  BY <1>2 DEF Disconnect
<1>3. ASSUME NEW c \in Conns, CloseErase(c) PROVE TypeOK'
  BY <1>3 DEF CloseErase, Erased
<1>4. ASSUME NEW c \in Conns, CloseOffline(c) PROVE TypeOK'
  BY <1>4 DEF CloseOffline
<1>5. ASSUME NEW c \in Conns, CloseSweep(c) PROVE TypeOK'
  <2>1. {pending[i].msg : i \in Swept(Owner[c])} \in SUBSET Msgs
    BY EntryFacts DEF Swept
  <2>2. pending' \in [Ids -> Entries \cup {NoEntry}]
    BY <1>5 DEF CloseSweep
  <2>3. Stores({pending[i].msg : i \in Swept(Owner[c])})
    BY <1>5 DEF CloseSweep
  <2>4. offline' \subseteq Msgs /\ refused' \subseteq Msgs /\ dbFailures' \in 0..MaxDbFailures
    BY <2>1, <2>3, StoresFacts
  <2>. QED BY <1>5, <2>2, <2>4 DEF CloseSweep
<1>6. ASSUME NEW c \in Conns, NEW copy \in wire[c], ClientRecv(c, copy) PROVE TypeOK'
  <2>1. copy \in Copies /\ copy[1] \in Msgs
    BY DEF Copies
  <2>. QED BY <1>6, <2>1 DEF ClientRecv
<1>7. ASSUME NEW p \in Pushes, PushSend(p) \/ PushStore(p) \/ PushArm(p) \/ PushThrows(p)
      PROVE  TypeOK'
  <2>1. <<Msg(p), p[2], 0>> \in Copies
    BY PushFacts, LimitsAssumption DEF Copies
  <2>2. CASE PushSend(p)
    <3>1. wire' \in [Conns -> SUBSET Copies]
      BY <2>1, <2>2, SentFacts DEF PushSend
    <3>2. push' \in [Pushes -> {"todo", "full", "sent", "done"}] /\ forwarded' \subseteq Msgs
      BY <2>2, PushFacts DEF PushSend
    <3>3. connMutex' \in Pushes \cup {Free}
      BY <2>2 DEF PushSend
    <3>. QED BY <2>2, <3>1, <3>2, <3>3 DEF PushSend
  <2>3. CASE PushStore(p)
    <3>1. {Msg(p)} \cap Remote \in SUBSET Msgs /\ Stores({Msg(p)} \cap Remote)
      BY <2>3, MsgSetsAssumption DEF PushStore
    <3>2. offline' \subseteq Msgs /\ refused' \subseteq Msgs /\ dbFailures' \in 0..MaxDbFailures
      BY <3>1, StoresFacts
    <3>. QED BY <2>3, <3>2 DEF PushStore
  <2>4. CASE PushArm(p)
    <3>1. wire' \in [Conns -> SUBSET Copies]
      BY <2>1, <2>4, SentFacts DEF PushArm
    <3>. QED BY <2>4, <3>1 DEF PushArm
  <2>5. CASE PushThrows(p)
    <3>1. CASE Msg(p) \in Remote
      <4>1. Down
        BY <2>5, <3>1 DEF PushThrows
      <4>. QED BY <4>1 DEF Down
    <3>2. CASE Msg(p) \notin Remote
      <4>1. /\ push' = [push EXCEPT ![p] = "done"] /\ connMutex' = Free
            /\ thrown' = thrown \cup {Msg(p)}
            /\ UNCHANGED <<connMap, link, close, pending, pendingMutex, retxVars, online, tables,
                           net, forwarded, serverUp>>
        BY <2>5, <3>2 DEF PushThrows
      <4>. QED BY <4>1, PushFacts
    <3>. QED BY <3>1, <3>2
  <2>. QED BY <1>7, <2>2, <2>3, <2>4, <2>5
<1>8. ASSUME NEW p \in Pushes, PushRecord(p), MutexHeld PROVE TypeOK'
  <2>1. connMap[Rcv(p)] \in Conns
    BY <1>8, PushFacts DEF PushRecord, MutexHeld, Sending
  <2>2. [msg |-> Msg(p), conn |-> connMap[Rcv(p)], copy |-> p[2], retry |-> 0, skips |-> 0]
          \in Entries
    BY <2>1, PushFacts, LimitsAssumption DEF Entries
  <2>3. pending' \in [Ids -> Entries \cup {NoEntry}]
    BY <1>8, <2>2 DEF PushRecord, Recorded
  <2>. QED BY <1>8, <2>3 DEF PushRecord
<1>9. ASSUME NEW copy \in acks, RecvAck(copy) PROVE TypeOK'
  BY <1>9 DEF RecvAck
<1>10. CASE RetxLock
  BY <1>10 DEF RetxLock, RetxPCs, PendingIds
<1>11. CASE RetxUnlock
  BY <1>11 DEF RetxUnlock, RetxPCs
<1>12. CASE RetxErase
  BY <1>12 DEF RetxErase, RetxPCs, Erased
<1>13. CASE RetxOffline
  BY <1>13 DEF RetxOffline, RetxPCs
<1>14. CASE RetxShut
  BY <1>14 DEF RetxShut, RetxPCs
<1>15. ASSUME NEW i \in Ids, RetxYoung(i) PROVE TypeOK'
  <2>0. i \in PendingIds /\ pending[i] \in Entries
    BY <1>15, EntryFacts DEF RetxYoung, ScanPending
  <2>1. [pending[i] EXCEPT !.skips = @ + 1] \in Entries
    BY <1>15, <2>0, LimitsAssumption DEF RetxYoung, Entries
  <2>2. pending' = [pending EXCEPT ![i] = [pending[i] EXCEPT !.skips = @ + 1]]
    BY <1>15 DEF RetxYoung
  <2>. QED BY <1>15, <2>1, <2>2 DEF RetxYoung
<1>16. ASSUME NEW i \in Ids, RetxResend(i) PROVE TypeOK'
  <2>1. pending[i] \in Entries /\ pending[i].retry + 1 \in 0..MaxRetry
    BY <1>16, EntryFacts, LimitsAssumption DEF RetxResend, MayRetry, Entries, ScanPending
  <2>2. SentAgain(pending[i]) \in Entries
    BY <2>1, LimitsAssumption DEF SentAgain, Entries
  <2>3. wire' \in [Conns -> SUBSET Copies]
    <3>1. <<pending[i].msg, pending[i].copy, pending[i].retry + 1>> \in Copies
      BY <2>1 DEF Copies, Entries
    <3>. QED BY <1>16, <3>1, SentFacts DEF RetxResend
  <2>. QED BY <1>16, <2>2, <2>3 DEF RetxResend
<1>17. ASSUME NEW i \in Ids, RetxGiveUp(i) PROVE TypeOK'
  <2>1. {pending[i].msg} \in SUBSET Msgs /\ Stores({pending[i].msg})
    BY <1>17, EntryFacts DEF RetxGiveUp, ScanPending
  <2>2. offline' \subseteq Msgs /\ refused' \subseteq Msgs /\ dbFailures' \in 0..MaxDbFailures
    BY <2>1, StoresFacts
  <2>. QED BY <1>17, <2>2 DEF RetxGiveUp, RetxPCs
<1>18. CASE UNCHANGED vars
  BY <1>18 DEF vars
<1>19. ASSUME NEW i \in Ids, RetxThrows(i) PROVE TypeOK'
  BY <1>19 DEF RetxThrows, Down
<1>. QED
  BY <1>1, <1>2, <1>3, <1>4, <1>5, <1>6, <1>7, <1>8, <1>9, <1>10, <1>11, <1>12, <1>13,
     <1>14, <1>15, <1>16, <1>17, <1>18, <1>19 DEF Next

-----------------------------------------------------------------------------
LEMMA IInvInit == Init => IInv
<1>. SUFFICES ASSUME Init PROVE IInv
  OBVIOUS
<1>1. TypeOK
  BY TypeInit
<1>2. PendingIds = {}
  BY DEF Init, PendingIds, IsPending, NoEntry
<1>. QED
  BY <1>1, <1>2 DEF Init, IInv, MutexHeld, Sending, ConnsOwned, GivesUpPending, OnlyForwarded,
                    ScanPending, NoOrphan, NothingDropped

\* While the retransmission thread sleeps, it closes nothing and gives nothing up.
LEMMA AsleepFacts ==
    ASSUME MutexHeld, pendingMutex = Free
    PROVE  retx = "sleep" /\ \A c : ~RetxCloses(c)
BY DEF MutexHeld, RetxCloses

\* A step that leaves the threads, the maps and the tables alone, or only adds to
\* what was read, keeps IInv.
LEMMA QuietStep ==
    ASSUME IInv, TypeOK', serverUp' => serverUp,
           UNCHANGED <<connMap, close, push, pending, connMutex, pendingMutex, retx, scan, giveUp,
                       offline, refused, forwarded, thrown>>,
           delivered \subseteq delivered', delivered' \subseteq forwarded,
           \A c \in Conns : wire'[c] \subseteq wire[c],
           \A copy \in acks' : copy[1] \in delivered'
    PROVE  IInv'
<1>. USE DEF IInv, PendingIds, IsPending
<1>1. MutexHeld' /\ ConnsOwned'
  BY DEF MutexHeld, Sending, ConnsOwned
<1>2. GivesUpPending' /\ ScanPending' /\ OnlyForwarded'
  BY DEF GivesUpPending, OnlyForwarded, Sending, ScanPending
<1>3. NoOrphan'
  BY DEF NoOrphan, RetxCloses, LostConn
<1>4. NothingDropped'
  BY DEF NothingDropped, IsPendingMsg, ShareId
<1>. QED BY <1>1, <1>2, <1>3, <1>4

\* A step keeps NothingDropped that sends no new message and takes none from where
\* it was safe.
LEMMA NotDropped ==
    ASSUME TypeOK, NothingDropped, serverUp, forwarded' = forwarded, refused \subseteq refused',
           thrown \subseteq thrown', offline \subseteq offline', delivered \subseteq delivered',
           \A m \in forwarded \ (refused' \cup thrown') :
              IsPendingMsg(m) =>
                 IsPendingMsg(m)' \/ m \in offline' \/ m \in delivered' \/ ShareId(m),
           \A p \in Pushes : push[p] \in {"full", "sent"} =>
              \/ push'[p] \in {"full", "sent"}
              \/ IsPendingMsg(Msg(p))' \/ Msg(p) \in offline' \/ Msg(p) \in delivered'
              \/ ShareId(Msg(p)) \/ Msg(p) \in thrown'
    PROVE  NothingDropped'
<1>. SUFFICES ASSUME NEW m \in forwarded, m \notin refused', m \notin thrown'
              PROVE  \/ IsPendingMsg(m)' \/ m \in offline' \/ m \in delivered' \/ ShareId(m)'
                     \/ \E p \in Pushes : Msg(p) = m /\ push'[p] \in {"full", "sent"}
  BY DEF NothingDropped
<1>1. ShareId(m)' <=> ShareId(m)
  BY DEF ShareId
<1>2. \/ IsPendingMsg(m) \/ m \in offline \/ m \in delivered \/ ShareId(m)
      \/ \E p \in Pushes : Msg(p) = m /\ push[p] \in {"full", "sent"}
  BY DEF NothingDropped
<1>. QED BY <1>1, <1>2

LEMMA IInvNext == IInv /\ [Next]_vars => IInv'
<1>. SUFFICES ASSUME IInv, [Next]_vars PROVE IInv'
  OBVIOUS
<1>0. TypeOK /\ TypeOK'
  BY TypeNext DEF IInv
<1>00. CASE UNCHANGED vars
  BY <1>0, <1>00, QuietStep DEF vars, mutexes, retxVars, tables, net, ghosts, IInv, OnlyForwarded
<1>. SUFFICES ASSUME Next PROVE IInv'
  BY <1>00
<1>01. serverUp
  BY DEF Next
<1>. USE DEF IInv, mutexes, retxVars, tables, net, ghosts
<1>1. ASSUME NEW c \in Conns, Login(c) PROVE IInv'
  <2>1. \A u \in Users : connMap'[u] = connMap[u] \/ (connMap[u] = NoConn /\ connMap'[u] = c /\ Owner[c] = u)
    BY <1>0, <1>1, OwnerAssumption DEF Login, TypeOK
  <2>2. MutexHeld'
    BY <1>1, <2>1, PushFacts, NamesAssumption DEF Login, MutexHeld, Sending
  <2>3. ConnsOwned' /\ GivesUpPending' /\ OnlyForwarded' /\ ScanPending'
    BY <1>1, <2>1 DEF Login, ConnsOwned, GivesUpPending, OnlyForwarded, Sending, ScanPending, PendingIds, IsPending
  <2>4. NoOrphan'
    <3>1. \A i \in PendingIds : pending[i].conn # NoConn /\ To[pending[i].msg] \in Users
      BY <1>0, EntryFacts DEF PendingIds, IsPending
    <3>. QED BY <1>1, <2>1, <3>1 DEF Login, NoOrphan, RetxCloses, LostConn, PendingIds, IsPending
  <2>5. NothingDropped'
    BY <1>0, <1>01, <1>1, NotDropped DEF Login, IsPendingMsg, IsPending
  <2>. QED BY <1>0, <2>2, <2>3, <2>4, <2>5
<1>2. ASSUME NEW c \in Conns, Disconnect(c) PROVE IInv'
  <2>1. \A d \in Conns : close[d] \notin {"offline", "sweep"}
    BY <1>2 DEF Disconnect, ReactorFree
  <2>2. MutexHeld' /\ ConnsOwned' /\ GivesUpPending' /\ ScanPending'
    BY <1>2 DEF Disconnect, MutexHeld, Sending, ConnsOwned, GivesUpPending, ScanPending, PendingIds, IsPending
  <2>3. OnlyForwarded'
    BY <1>0, <1>2 DEF Disconnect, OnlyForwarded, Sending, PendingIds, IsPending, TypeOK
  <2>4. NoOrphan'
    <3>1. \A i \in PendingIds : pending[i].conn \in Conns
      BY <1>0, EntryFacts
    <3>. QED BY <1>2, <2>1, <3>1 DEF Disconnect, NoOrphan, RetxCloses, LostConn, PendingIds, IsPending
  <2>5. NothingDropped'
    BY <1>0, <1>01, <1>2, NotDropped DEF Disconnect, IsPendingMsg, IsPending
  <2>. QED BY <1>0, <2>2, <2>3, <2>4, <2>5
<1>3. ASSUME NEW c \in Conns, CloseErase(c) PROVE IInv'
  <2>1. /\ \A u \in Users : connMap'[u] = IF connMap[u] = c THEN NoConn ELSE connMap[u]
        /\ connMutex = Free
    BY <1>3 DEF CloseErase, Erased
  <2>2. MutexHeld'
    BY <1>3, <2>1, NamesAssumption DEF CloseErase, MutexHeld, Sending
  <2>3. ConnsOwned' /\ GivesUpPending' /\ OnlyForwarded' /\ ScanPending'
    BY <1>3, <2>1 DEF CloseErase, ConnsOwned, GivesUpPending, OnlyForwarded, Sending, ScanPending, PendingIds, IsPending
  <2>4. NoOrphan'
    <3>. SUFFICES ASSUME NEW i \in PendingIds, NEW d, d = pending[i].conn
                  PROVE  connMap'[To[pending[i].msg]] = d \/ close'[d] \in {"offline", "sweep"} \/ RetxCloses(d)
      BY <1>3 DEF CloseErase, NoOrphan, RetxCloses, LostConn, PendingIds, IsPending
    <3>. DEFINE u == To[pending[i].msg]
    <3>0. u \in Users /\ d \in Conns
      BY <1>0, EntryFacts
    <3>1. CASE connMap[u] = d /\ d = c
      <4>1. connMap' # connMap
        BY <2>1, <3>0, <3>1, NamesAssumption
      <4>2. close'[c] = "offline"
        BY <1>0, <1>3, <4>1 DEF CloseErase, TypeOK
      <4>. QED BY <3>1, <4>2
    <3>2. CASE connMap[u] = d /\ d # c
      BY <2>1, <3>0, <3>2
    <3>3. CASE close[d] \in {"offline", "sweep"}
      <4>1. d # c
        BY <1>3, <3>3 DEF CloseErase
      <4>2. close'[d] = close[d]
        BY <1>0, <1>3, <4>1 DEF CloseErase, TypeOK
      <4>. QED BY <3>3, <4>2
    <3>. QED BY <3>1, <3>2, <3>3 DEF NoOrphan
  <2>5. NothingDropped'
    BY <1>0, <1>01, <1>3, NotDropped DEF CloseErase, IsPendingMsg, IsPending
  <2>. QED BY <1>0, <2>2, <2>3, <2>4, <2>5
<1>4. ASSUME NEW c \in Conns, CloseOffline(c) PROVE IInv'
  <2>1. \A d \in Conns : close[d] \in {"offline", "sweep"} => close'[d] \in {"offline", "sweep"}
    BY <1>0, <1>4 DEF CloseOffline, TypeOK
  <2>2. MutexHeld' /\ ConnsOwned' /\ GivesUpPending' /\ OnlyForwarded' /\ ScanPending'
    BY <1>4 DEF CloseOffline, MutexHeld, Sending, ConnsOwned, GivesUpPending, OnlyForwarded, ScanPending, PendingIds, IsPending
  <2>3. NoOrphan'
    <3>1. \A i \in PendingIds : pending[i].conn \in Conns
      BY <1>0, EntryFacts
    <3>. QED BY <1>4, <2>1, <3>1 DEF CloseOffline, NoOrphan, RetxCloses, LostConn, PendingIds, IsPending
  <2>4. NothingDropped'
    BY <1>0, <1>01, <1>4, NotDropped DEF CloseOffline, IsPendingMsg, IsPending
  <2>. QED BY <1>0, <2>2, <2>3, <2>4
<1>5. ASSUME NEW c \in Conns, CloseSweep(c) PROVE IInv'
  <2>. DEFINE ms == {pending[i].msg : i \in Swept(Owner[c])}
  <2>0. ms \in SUBSET Msgs /\ Stores(ms)
    BY <1>0, <1>5, EntryFacts DEF CloseSweep, Swept
  <2>1. /\ retx = "sleep" /\ retx' = "sleep"
        /\ \A i \in Ids : \/ pending'[i] = pending[i] /\ i \notin Swept(Owner[c])
                          \/ pending'[i] = NoEntry /\ i \in Swept(Owner[c])
        /\ UNCHANGED <<connMap, push, connMutex, pendingMutex, scan, giveUp, wire, acks,
                       delivered, forwarded, thrown>>
    BY <1>5, AsleepFacts DEF CloseSweep
  <2>2. \A i \in PendingIds' : i \in PendingIds /\ pending'[i] = pending[i] /\ i \notin Swept(Owner[c])
    BY <2>1 DEF PendingIds, IsPending, NoEntry
  <2>3. offline \subseteq offline' /\ refused \subseteq refused' /\ ms \subseteq offline' \cup refused'
    BY <1>0, <2>0, StoresFacts
  <2>4. MutexHeld' /\ GivesUpPending' /\ OnlyForwarded' /\ ScanPending' /\ ConnsOwned'
    BY <2>1, <2>2 DEF MutexHeld, Sending, GivesUpPending, OnlyForwarded, ScanPending, ConnsOwned
  <2>5. NothingDropped'
    <3>1. ASSUME NEW m \in forwarded, m \notin refused', IsPendingMsg(m)
          PROVE  IsPendingMsg(m)' \/ m \in offline'
      <4>1. MsgId[m] \in PendingIds /\ pending[MsgId[m]].msg = m
        BY <1>0, <3>1 DEF IsPendingMsg, PendingIds, Ids, TypeOK
      <4>2. CASE MsgId[m] \in Swept(Owner[c])
        BY <2>3, <3>1, <4>1, <4>2
      <4>3. CASE MsgId[m] \notin Swept(Owner[c])
        BY <2>1, <3>1, <4>1, <4>3 DEF IsPendingMsg, IsPending, PendingIds
      <4>. QED BY <4>2, <4>3
    <3>. QED BY <1>0, <1>01, <2>1, <2>3, <3>1, NotDropped
  <2>6. NoOrphan'
    <3>. SUFFICES ASSUME NEW i \in PendingIds', NEW d, d = pending'[i].conn
                  PROVE  connMap'[To[pending'[i].msg]] = d \/ close'[d] \in {"offline", "sweep"}
      BY DEF NoOrphan
    <3>1. i \in PendingIds /\ i \notin Swept(Owner[c]) /\ pending'[i] = pending[i]
      BY <2>2
    <3>2. d # c
      BY <3>1 DEF ConnsOwned, Swept
    <3>3. d \in Conns
      BY <1>0, <3>1, EntryFacts
    <3>4. close'[d] = close[d] /\ connMap' = connMap
      BY <1>0, <1>5, <3>2, <3>3 DEF CloseSweep, TypeOK
    <3>. QED BY <2>1, <3>1, <3>4 DEF NoOrphan, RetxCloses
  <2>. QED BY <1>0, <2>4, <2>5, <2>6
<1>6. ASSUME NEW c \in Conns, NEW copy \in wire[c], ClientRecv(c, copy) PROVE IInv'
  <2>1. \A k \in acks' : k[1] \in delivered'
    BY <1>6 DEF ClientRecv, OnlyForwarded
  <2>2. delivered \subseteq delivered' /\ delivered' \subseteq forwarded
    BY <1>6 DEF ClientRecv, OnlyForwarded
  <2>3. \A d \in Conns : wire'[d] \subseteq wire[d]
    BY <1>0, <1>6 DEF ClientRecv, TypeOK
  <2>4. /\ UNCHANGED <<connMap, close, push, pending, connMutex, pendingMutex, retx, scan, giveUp,
                       offline, refused, forwarded, thrown>>
        /\ serverUp' = serverUp
    BY <1>6 DEF ClientRecv
  <2>. QED BY <1>0, <2>1, <2>2, <2>3, <2>4, QuietStep
<1>7. ASSUME NEW p \in Pushes, PushSend(p) PROVE IInv'
  <2>1. /\ UNCHANGED <<connMap, close, pending, pendingMutex, retx, scan, giveUp, acks, delivered,
                       offline, refused, thrown>>
        /\ connMutex = Free /\ connMutex' = p /\ connMap[Rcv(p)] # NoConn
        /\ \A q \in Pushes : q # p => push'[q] = push[q]
        /\ push'[p] \in {"full", "sent"} /\ forwarded' = forwarded \cup {Msg(p)}
    BY <1>0, <1>7 DEF PushSend, TypeOK
  <2>2. MutexHeld'
    BY <2>1, NamesAssumption DEF MutexHeld, Sending
  <2>3. ConnsOwned' /\ GivesUpPending' /\ ScanPending'
    BY <2>1 DEF ConnsOwned, GivesUpPending, ScanPending, PendingIds, IsPending
  <2>4. OnlyForwarded'
    <3>1. <<Msg(p), p[2], 0>> \in Copies
      BY PushFacts, LimitsAssumption DEF Copies
    <3>2. \A d \in Conns : wire'[d] \subseteq wire[d] \cup {<<Msg(p), p[2], 0>>}
      BY <1>0, <1>7, <3>1, SentFacts DEF PushSend, TypeOK
    <3>3. \A d \in Conns : \A copy \in wire'[d] : copy[1] \in forwarded'
      BY <2>1, <3>2 DEF OnlyForwarded
    <3>. QED BY <2>1, <3>3 DEF OnlyForwarded, Sending, PendingIds, IsPending
  <2>5. NoOrphan'
    BY <2>1 DEF NoOrphan, RetxCloses, LostConn, PendingIds, IsPending
  <2>6. NothingDropped'
    BY <1>01, <2>1 DEF NothingDropped, IsPendingMsg, IsPending, ShareId
  <2>. QED BY <1>0, <2>2, <2>3, <2>4, <2>5, <2>6
<1>8. ASSUME NEW p \in Pushes, PushStore(p) PROVE IInv'
  <2>1. /\ UNCHANGED <<connMap, close, pending, connMutex, pendingMutex, retx, scan, giveUp, acks,
                       wire, delivered, forwarded, thrown>>
        /\ push[p] = "todo" /\ push'[p] = "done" /\ \A q \in Pushes : q # p => push'[q] = push[q]
    BY <1>0, <1>8 DEF PushStore, TypeOK
  <2>2. offline \subseteq offline' /\ refused \subseteq refused'
    <3>1. {Msg(p)} \cap Remote \in SUBSET Msgs /\ Stores({Msg(p)} \cap Remote)
      BY <1>8, MsgSetsAssumption DEF PushStore
    <3>. QED BY <1>0, <3>1, StoresFacts
  <2>3. MutexHeld' /\ ConnsOwned' /\ GivesUpPending' /\ OnlyForwarded' /\ ScanPending'
    BY <2>1, <2>2
    DEF MutexHeld, Sending, ConnsOwned, GivesUpPending, OnlyForwarded, ScanPending, PendingIds, IsPending
  <2>4. NoOrphan'
    BY <2>1 DEF NoOrphan, RetxCloses, LostConn, PendingIds, IsPending
  <2>5. NothingDropped'
    BY <1>0, <1>01, <2>1, <2>2, NotDropped DEF IsPendingMsg, IsPending
  <2>. QED BY <1>0, <2>3, <2>4, <2>5
<1>9. ASSUME NEW p \in Pushes, PushArm(p) PROVE IInv'
  <2>1. /\ UNCHANGED <<connMap, close, pending, connMutex, pendingMutex, retx, scan, giveUp, acks,
                       offline, refused, delivered, forwarded, thrown>>
        /\ push[p] = "full" /\ push'[p] = "sent" /\ \A q \in Pushes : q # p => push'[q] = push[q]
    BY <1>0, <1>9 DEF PushArm, TypeOK
  <2>2. \A d \in Conns : \A copy \in wire'[d] : copy[1] \in forwarded'
    <3>1. <<Msg(p), p[2], 0>> \in Copies
      BY PushFacts, LimitsAssumption DEF Copies
    <3>2. \A d \in Conns : wire'[d] \subseteq wire[d] \cup {<<Msg(p), p[2], 0>>}
      BY <1>0, <1>9, <3>1, SentFacts DEF PushArm, TypeOK
    <3>3. Msg(p) \in forwarded
      BY <2>1 DEF OnlyForwarded, Sending
    <3>. QED BY <2>1, <3>2, <3>3 DEF OnlyForwarded
  <2>3. MutexHeld' /\ ConnsOwned' /\ GivesUpPending' /\ OnlyForwarded' /\ ScanPending'
    BY <2>1, <2>2
    DEF MutexHeld, Sending, ConnsOwned, GivesUpPending, OnlyForwarded, ScanPending, PendingIds, IsPending
  <2>4. NoOrphan'
    BY <2>1 DEF NoOrphan, RetxCloses, LostConn, PendingIds, IsPending
  <2>5. NothingDropped'
    BY <1>0, <1>01, <2>1, NotDropped DEF IsPendingMsg, IsPending
  <2>. QED BY <1>0, <2>3, <2>4, <2>5
<1>10. ASSUME Down PROVE IInv'
  BY <1>0, <1>10, QuietStep DEF Down, OnlyForwarded
<1>11. ASSUME NEW p \in Pushes, PushThrows(p) PROVE IInv'
  <2>. SUFFICES ASSUME ~Down PROVE IInv'
    BY <1>10
  <2>1. /\ UNCHANGED <<connMap, close, pending, pendingMutex, retx, scan, giveUp, acks, wire,
                       offline, refused, delivered, forwarded>>
        /\ push[p] = "full" /\ push'[p] = "done" /\ \A q \in Pushes : q # p => push'[q] = push[q]
        /\ connMutex' = Free /\ thrown' = thrown \cup {Msg(p)}
    BY <1>0, <1>11 DEF PushThrows, TypeOK
  <2>2. connMutex = p
    BY <2>1 DEF MutexHeld, Sending
  <2>3. MutexHeld' /\ ConnsOwned' /\ GivesUpPending' /\ OnlyForwarded' /\ ScanPending'
    BY <2>1, <2>2
    DEF MutexHeld, Sending, ConnsOwned, GivesUpPending, OnlyForwarded, ScanPending, PendingIds, IsPending
  <2>4. NoOrphan'
    BY <2>1 DEF NoOrphan, RetxCloses, LostConn, PendingIds, IsPending
  <2>5. NothingDropped'
    BY <1>0, <1>01, <2>1, NotDropped DEF IsPendingMsg, IsPending
  <2>. QED BY <1>0, <2>3, <2>4, <2>5
<1>12. ASSUME NEW p \in Pushes, PushRecord(p) PROVE IInv'
  <2>. DEFINE k == MsgId[Msg(p)]
  <2>1. /\ retx = "sleep" /\ retx' = "sleep" /\ connMutex = p /\ connMutex' = Free
        /\ connMap[Rcv(p)] # NoConn /\ Rcv(p) = To[Msg(p)] /\ Msg(p) \in Msgs /\ Rcv(p) \in Users
        /\ k \in Ids /\ Msg(p) \in forwarded
        /\ UNCHANGED <<connMap, close, pendingMutex, scan, giveUp, acks, wire, offline, refused,
                       delivered, forwarded, thrown>>
    BY <1>12, AsleepFacts, PushFacts DEF PushRecord, MutexHeld, OnlyForwarded, Sending
  <2>2. /\ \A i \in Ids : i # k \/ IsPending(k) => pending'[i] = pending[i]
        /\ ~IsPending(k) => pending'[k].conn = connMap[Rcv(p)] /\ pending'[k].msg = Msg(p)
    BY <1>0, <1>12, <2>1 DEF PushRecord, Recorded, TypeOK
  <2>3. /\ IsPending(k)'
        /\ \A i \in PendingIds' :
             \/ i \in PendingIds /\ pending'[i] = pending[i]
             \/ i = k /\ pending'[k].conn = connMap[Rcv(p)] /\ pending'[k].msg = Msg(p)
        /\ \A i \in PendingIds : i \in PendingIds' /\ pending'[i] = pending[i]
    <3>1. CASE IsPending(k)
      BY <2>1, <2>2, <3>1 DEF PendingIds, IsPending
    <3>2. CASE ~IsPending(k)
      <4>1. connMap[Rcv(p)] = pending'[k].conn /\ pending'[k].conn # NoConn /\ IsPending(k)'
        BY <2>1, <2>2, <3>2 DEF IsPending
      <4>. QED BY <2>1, <2>2, <3>2, <4>1 DEF PendingIds, IsPending
    <3>. QED BY <3>1, <3>2
  <2>4. \A q \in Pushes : push'[q] = IF q = p THEN "done" ELSE push[q]
    BY <1>0, <1>12 DEF PushRecord, TypeOK
  <2>5. MutexHeld'
    BY <1>12, <2>1, <2>4 DEF PushRecord, MutexHeld, Sending
  <2>6. ConnsOwned'
    BY <1>12, <2>1, <2>3 DEF PushRecord, ConnsOwned
  <2>7. GivesUpPending' /\ OnlyForwarded' /\ ScanPending'
    BY <2>1, <2>3, <2>4 DEF GivesUpPending, OnlyForwarded, Sending, ScanPending
  <2>8. NoOrphan'
    BY <2>1, <2>3 DEF NoOrphan, RetxCloses
  <2>9. NothingDropped'
    <3>1. \A m \in forwarded : IsPendingMsg(m) => IsPendingMsg(m)'
      <4>. SUFFICES ASSUME NEW m \in forwarded, IsPendingMsg(m) PROVE IsPendingMsg(m)'
        OBVIOUS
      <4>1. MsgId[m] \in PendingIds
        BY <1>0 DEF IsPendingMsg, PendingIds, Ids, TypeOK
      <4>. QED BY <2>3, <4>1 DEF IsPendingMsg, PendingIds
    <3>2. CASE ~IsPending(k)
      <4>1. IsPendingMsg(Msg(p))'
        BY <2>2, <2>3, <3>2 DEF IsPendingMsg
      <4>. QED BY <1>0, <1>01, <2>1, <2>4, <3>1, <4>1, NotDropped
    <3>3. CASE IsPending(k)
      <4>1. /\ k \in PendingIds /\ pending[k].msg \in forwarded /\ MsgId[pending[k].msg] = k
            /\ pending'[k] = pending[k]
        BY <2>1, <2>2, <3>3 DEF PendingIds, OnlyForwarded, ConnsOwned
      <4>2. pending[k].msg = Msg(p) \/ ShareId(Msg(p))
        BY <4>1 DEF ShareId
      <4>3. IsPendingMsg(Msg(p))' \/ ShareId(Msg(p))
        BY <2>3, <4>1, <4>2 DEF IsPendingMsg
      <4>. QED BY <1>0, <1>01, <2>1, <2>4, <3>1, <4>3, NotDropped
    <3>. QED BY <3>2, <3>3
  <2>. QED BY <1>0, <2>5, <2>6, <2>7, <2>8, <2>9
<1>13. ASSUME NEW copy \in acks, RecvAck(copy) PROVE IInv'
  <2>1. /\ retx = "sleep" /\ retx' = "sleep"
        /\ copy[1] \in Msgs /\ copy[1] \in delivered /\ copy[1] \in forwarded /\ acks' \subseteq acks
        /\ \A i \in Ids : pending'[i] = IF i = MsgId[copy[1]] THEN NoEntry ELSE pending[i]
        /\ UNCHANGED <<connMap, close, push, connMutex, pendingMutex, scan, giveUp, wire, offline,
                       refused, delivered, forwarded, thrown>>
    BY <1>0, <1>13, AsleepFacts DEF RecvAck, TypeOK, Copies, OnlyForwarded
  <2>2. \A i \in PendingIds' : i \in PendingIds /\ pending'[i] = pending[i]
    BY <2>1 DEF PendingIds, IsPending, NoEntry
  <2>3. MutexHeld' /\ ConnsOwned' /\ GivesUpPending' /\ OnlyForwarded' /\ ScanPending'
    BY <2>1, <2>2 DEF MutexHeld, Sending, ConnsOwned, GivesUpPending, OnlyForwarded, ScanPending
  <2>4. NoOrphan'
    BY <2>1, <2>2 DEF NoOrphan, RetxCloses
  <2>5. NothingDropped'
    <3>1. ASSUME NEW m \in forwarded, IsPendingMsg(m)
          PROVE  IsPendingMsg(m)' \/ m \in delivered' \/ ShareId(m)
      <4>1. MsgId[m] \in Ids
        BY <1>0 DEF Ids, TypeOK
      <4>2. CASE MsgId[m] # MsgId[copy[1]]
        BY <2>1, <3>1, <4>1, <4>2 DEF IsPendingMsg, IsPending
      <4>3. CASE MsgId[m] = MsgId[copy[1]]
        BY <2>1, <4>3 DEF ShareId
      <4>. QED BY <4>2, <4>3
    <3>. QED BY <1>0, <1>01, <2>1, <3>1, NotDropped
  <2>. QED BY <1>0, <2>3, <2>4, <2>5
<1>14. CASE RetxLock
  <2>1. /\ UNCHANGED <<connMap, close, push, pending, connMutex, giveUp, acks, wire, offline, refused,
                       delivered, forwarded, thrown>>
        /\ retx = "sleep" /\ retx' = "scan" /\ pendingMutex' = "retx" /\ scan' = PendingIds
    BY <1>14 DEF RetxLock
  <2>2. MutexHeld' /\ ConnsOwned' /\ GivesUpPending' /\ OnlyForwarded' /\ ScanPending'
    BY <2>1, NamesAssumption
    DEF MutexHeld, Sending, ConnsOwned, GivesUpPending, OnlyForwarded, ScanPending, PendingIds, IsPending
  <2>3. NoOrphan'
    BY <2>1 DEF NoOrphan, RetxCloses, PendingIds, IsPending
  <2>4. NothingDropped'
    BY <1>0, <1>01, <2>1, NotDropped DEF IsPendingMsg, IsPending
  <2>. QED BY <1>0, <2>2, <2>3, <2>4
<1>15. CASE RetxUnlock
  <2>1. /\ UNCHANGED <<connMap, close, push, pending, connMutex, giveUp, acks, wire, offline, refused,
                       delivered, forwarded, thrown>>
        /\ retx = "scan" /\ retx' = "sleep" /\ scan = {} /\ scan' = scan
    BY <1>15 DEF RetxUnlock
  <2>2. MutexHeld' /\ ConnsOwned' /\ GivesUpPending' /\ OnlyForwarded' /\ ScanPending'
    BY <2>1
    DEF MutexHeld, Sending, ConnsOwned, GivesUpPending, OnlyForwarded, ScanPending, PendingIds, IsPending
  <2>3. NoOrphan'
    BY <2>1 DEF NoOrphan, RetxCloses, PendingIds, IsPending
  <2>4. NothingDropped'
    BY <1>0, <1>01, <2>1, NotDropped DEF IsPendingMsg, IsPending
  <2>. QED BY <1>0, <2>2, <2>3, <2>4
<1>16. CASE RetxErase
  <2>1. /\ UNCHANGED <<close, push, pending, connMutex, pendingMutex, scan, giveUp, acks, wire, offline,
                       refused, delivered, forwarded, thrown>>
        /\ retx = "erase" /\ retx' = (IF connMap' = connMap THEN "shut" ELSE "offline")
        /\ connMutex = Free
        /\ \A u \in Users : connMap'[u] = IF connMap[u] = LostConn THEN NoConn ELSE connMap[u]
    BY <1>16 DEF RetxErase, Erased
  <2>2. MutexHeld' /\ ConnsOwned' /\ GivesUpPending' /\ OnlyForwarded' /\ ScanPending'
    BY <2>1, NamesAssumption
    DEF MutexHeld, Sending, ConnsOwned, GivesUpPending, OnlyForwarded, ScanPending, PendingIds, IsPending
  <2>3. NoOrphan'
    <3>. SUFFICES ASSUME NEW i \in PendingIds, NEW d, d = pending[i].conn
                  PROVE  \/ connMap'[To[pending[i].msg]] = d \/ close[d] \in {"offline", "sweep"}
                         \/ retx' = "offline" /\ LostConn = d
      BY <2>1 DEF NoOrphan, RetxCloses, LostConn, PendingIds, IsPending
    <3>1. To[pending[i].msg] \in Users /\ d # NoConn
      BY <1>0, EntryFacts DEF PendingIds, IsPending
    <3>2. connMap[To[pending[i].msg]] = d \/ close[d] \in {"offline", "sweep"}
      BY <2>1 DEF NoOrphan, RetxCloses
    <3>. QED BY <2>1, <3>1, <3>2
  <2>4. NothingDropped'
    BY <1>0, <1>01, <1>16, <2>1, NotDropped DEF IsPendingMsg, IsPending
  <2>. QED BY <1>0, <2>2, <2>3, <2>4
<1>17. CASE RetxOffline
  <2>1. /\ UNCHANGED <<connMap, close, push, pending, connMutex, pendingMutex, scan, giveUp, acks, wire,
                       offline, refused, delivered, forwarded, thrown>>
        /\ retx = "offline" /\ retx' = "sweep"
    BY <1>17 DEF RetxOffline
  <2>2. MutexHeld' /\ ConnsOwned' /\ GivesUpPending' /\ OnlyForwarded' /\ ScanPending'
    BY <2>1
    DEF MutexHeld, Sending, ConnsOwned, GivesUpPending, OnlyForwarded, ScanPending, PendingIds, IsPending
  <2>3. NoOrphan'
    BY <2>1 DEF NoOrphan, RetxCloses, LostConn, PendingIds, IsPending
  <2>4. NothingDropped'
    BY <1>0, <1>01, <2>1, NotDropped DEF IsPendingMsg, IsPending
  <2>. QED BY <1>0, <2>2, <2>3, <2>4
<1>18. CASE RetxShut
  <2>1. /\ UNCHANGED <<connMap, close, push, connMutex, pendingMutex, acks, offline, refused, delivered,
                       forwarded, thrown>>
        /\ retx = "shut" /\ retx' = "scan" /\ giveUp \in PendingIds
        /\ pending[giveUp].msg \in offline \cup refused /\ scan' = scan \ {giveUp}
    BY <1>18 DEF RetxShut, GivesUpPending
  <2>2. \A i \in Ids : pending'[i] = IF i = giveUp THEN NoEntry ELSE pending[i]
    BY <1>0, <1>18 DEF RetxShut, TypeOK
  <2>3. \A i \in PendingIds' : i \in PendingIds /\ pending'[i] = pending[i]
    BY <2>2 DEF PendingIds, IsPending, NoEntry
  <2>4. \A i \in PendingIds : i # giveUp => i \in PendingIds' /\ pending'[i] = pending[i]
    BY <2>2 DEF PendingIds, IsPending
  <2>5. MutexHeld' /\ ConnsOwned' /\ GivesUpPending' /\ ScanPending'
    BY <2>1, <2>3, <2>4 DEF MutexHeld, Sending, ConnsOwned, GivesUpPending, ScanPending
  <2>6. OnlyForwarded'
    <3>1. \A c \in Conns : wire'[c] \subseteq wire[c]
      BY <1>0, <1>18 DEF RetxShut, TypeOK
    <3>. QED BY <2>1, <2>3, <3>1 DEF OnlyForwarded, Sending
  <2>7. NoOrphan'
    BY <2>1, <2>3 DEF NoOrphan, RetxCloses
  <2>8. NothingDropped'
    <3>1. ASSUME NEW m \in forwarded, m \notin refused, IsPendingMsg(m)
          PROVE  IsPendingMsg(m)' \/ m \in offline
      <4>1. MsgId[m] \in PendingIds /\ pending[MsgId[m]].msg = m
        BY <1>0, <3>1 DEF IsPendingMsg, PendingIds, Ids, TypeOK
      <4>2. CASE MsgId[m] = giveUp
        BY <2>1, <3>1, <4>1, <4>2
      <4>3. CASE MsgId[m] # giveUp
        BY <2>4, <4>1, <4>3 DEF IsPendingMsg, PendingIds
      <4>. QED BY <4>2, <4>3
    <3>. QED BY <1>0, <1>01, <2>1, <3>1, NotDropped
  <2>. QED BY <1>0, <2>5, <2>6, <2>7, <2>8
<1>19. ASSUME NEW i \in Ids, RetxYoung(i) \/ RetxResend(i) PROVE IInv'
  <2>1. /\ UNCHANGED <<connMap, close, push, connMutex, pendingMutex, retx, giveUp, acks, offline,
                       refused, delivered, forwarded, thrown>>
        /\ retx = "scan" /\ scan' \subseteq scan /\ i \in PendingIds
    BY <1>19 DEF RetxYoung, RetxResend, ScanPending
  <2>2. \A k \in Ids : pending'[k].conn = pending[k].conn /\ pending'[k].msg = pending[k].msg
    <3>1. pending[i] \in Entries
      BY <1>0, <2>1, EntryFacts
    <3>. QED BY <1>0, <1>19, <3>1 DEF RetxYoung, RetxResend, SentAgain, TypeOK, Entries
  <2>3. PendingIds' = PendingIds
    BY <2>2 DEF PendingIds, IsPending
  <2>4. MutexHeld' /\ ConnsOwned' /\ GivesUpPending' /\ ScanPending'
    BY <2>1, <2>2, <2>3 DEF MutexHeld, Sending, ConnsOwned, GivesUpPending, ScanPending, PendingIds
  <2>5. OnlyForwarded'
    <3>1. \A c \in Conns : \A copy \in wire'[c] : copy[1] \in forwarded
      <4>1. CASE RetxYoung(i)
        BY <4>1 DEF RetxYoung, OnlyForwarded
      <4>2. CASE RetxResend(i)
        <5>. DEFINE copy == <<pending[i].msg, pending[i].copy, pending[i].retry + 1>>
        <5>1. copy \in Copies /\ copy[1] \in forwarded
          BY <1>0, <2>1, <4>2, EntryFacts, LimitsAssumption
          DEF RetxResend, MayRetry, Entries, Copies, OnlyForwarded
        <5>2. wire' = Sent(pending[i].conn, copy)
          BY <4>2 DEF RetxResend
        <5>3. \A c \in Conns : wire'[c] \subseteq wire[c] \cup {copy}
          <6>. HIDE DEF copy
          <6>. QED BY <1>0, <5>1, <5>2, SentFacts DEF TypeOK
        <5>. HIDE DEF copy
        <5>. QED BY <5>1, <5>3 DEF OnlyForwarded
      <4>. QED BY <1>19, <4>1, <4>2
    <3>. QED BY <2>1, <2>2, <2>3, <3>1 DEF OnlyForwarded, Sending, PendingIds
  <2>6. NoOrphan'
    BY <2>1, <2>2, <2>3 DEF NoOrphan, RetxCloses, PendingIds
  <2>7. NothingDropped'
    <3>1. \A m \in forwarded : IsPendingMsg(m) => IsPendingMsg(m)'
      BY <1>0, <2>2 DEF IsPendingMsg, IsPending, Ids, TypeOK
    <3>. QED BY <1>0, <1>01, <2>1, <3>1, NotDropped
  <2>. QED BY <1>0, <2>4, <2>5, <2>6, <2>7
<1>20. ASSUME NEW i \in Ids, RetxThrows(i) PROVE IInv'
  BY <1>10, <1>20 DEF RetxThrows
<1>21. ASSUME NEW i \in Ids, RetxGiveUp(i) PROVE IInv'
  <2>1. /\ UNCHANGED <<connMap, close, push, pending, connMutex, pendingMutex, scan, acks, wire,
                       delivered, forwarded, thrown>>
        /\ retx = "scan" /\ retx' = "erase" /\ giveUp' = i /\ i \in PendingIds
    BY <1>21 DEF RetxGiveUp, ScanPending
  <2>2. /\ offline \subseteq offline' /\ refused \subseteq refused'
        /\ pending[i].msg \in offline' \cup refused'
    <3>1. {pending[i].msg} \in SUBSET Msgs /\ Stores({pending[i].msg})
      BY <1>0, <1>21, <2>1, EntryFacts DEF RetxGiveUp
    <3>. QED BY <1>0, <3>1, StoresFacts
  <2>3. MutexHeld' /\ ConnsOwned' /\ GivesUpPending' /\ OnlyForwarded' /\ ScanPending'
    BY <2>1, <2>2
    DEF MutexHeld, Sending, ConnsOwned, GivesUpPending, OnlyForwarded, ScanPending, PendingIds, IsPending
  <2>4. NoOrphan'
    BY <2>1 DEF NoOrphan, RetxCloses, PendingIds, IsPending
  <2>5. NothingDropped'
    BY <1>0, <1>01, <2>1, <2>2, NotDropped DEF IsPendingMsg, IsPending
  <2>. QED BY <1>0, <2>3, <2>4, <2>5
<1>. QED
  BY <1>1, <1>2, <1>3, <1>4, <1>5, <1>6, <1>7, <1>8, <1>9, <1>11, <1>12, <1>13, <1>14, <1>15,
     <1>16, <1>17, <1>18, <1>19, <1>20, <1>21 DEF Next

\* Every variable has its type in every reachable state.
THEOREM TypeCorrect == Spec => []TypeOK
<1>1. IInv => TypeOK
  BY DEF IInv
<1>. QED BY <1>1, IInvInit, IInvNext, PTL DEF Spec

\* No interleaving of pushes, acknowledgements, closes and retransmissions
\* leaves a pending entry on a connection that nobody will sweep.
THEOREM NoOrphanAlways == Spec => []NoOrphan
<1>1. IInv => NoOrphan
  BY DEF IInv
<1>. QED BY <1>1, IInvInit, IInvNext, PTL DEF Spec

\* While the process runs, no forwarded message leaves the pending map without having
\* been read or given to MySQL, and none misses the map but by an exception or by an
\* id that two senders gave.
THEOREM NothingDroppedAlways == Spec => []NothingDropped
<1>1. IInv => NothingDropped
  BY DEF IInv
<1>. QED BY <1>1, IInvInit, IInvNext, PTL DEF Spec
=============================================================================
