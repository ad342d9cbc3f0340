---------------------------- MODULE ReactorProofs ----------------------------
(***************************************************************************)
(* Proofs about Reactor for any connections, descriptors and senders:      *)
(* every event finds its connection, the service hears of each end once,   *)
(* a waiting client is about to be seen, and the heartbeat thread shuts    *)
(* down nobody who had spoken when it looked, although descriptors are     *)
(* closed by workers and given out again between any two steps.            *)
(***************************************************************************)
EXTENDS Reactor, TLAPS

\* A descriptor in connections_ is that of its connection; no connection has two;
\* who has one, or a task, was accepted.
Accepted(c) == c \notin backlog /\ peer[c] # "new"

Owners ==
    /\ \A f \in Fds : connections[f] # None => owner[f] = connections[f]
    /\ \A f, g \in Fds : owner[f] # None /\ owner[f] = owner[g] => f = g
    /\ \A f \in Fds : owner[f] # None => Accepted(owner[f])
    /\ \A c \in Conns : tasks[c] > 0 => Accepted(c)
    /\ \A c \in backlog : peer[c] # "new"

\* The epoll set holds only descriptors that connections_ has; the connection the
\* reactor is at has no other event in the batch.
Watches ==
    /\ \A f \in watched : connections[f] # None
    /\ edge \subseteq watched \cup {Listener}
    /\ NoStranger
    /\ rpc \in {"read", "close"} => cur \in Conns /\ Mapped(cur) /\ FdsOf(cur) \cap batch = {}
    /\ rpc \in {"loop", "accept"} => cur = None
    /\ rpc = "close" => FdsOf(cur) \cap watched = {}

\* No number the heartbeat thread collected stands for a connection it spared.
Spared ==
    /\ \A f \in toShut : owner[f] \notin spared
    /\ \A c \in spared : Accepted(c)

\* Whoever is registered, or waits for an acknowledgement, was accepted.
Registered == \A c \in kept \cup pended : Accepted(c)

Inv == TypeOK /\ Owners /\ Watches /\ ClosedIsTold /\ BacklogIsSeen /\ Spared /\ Registered

LEMMA NamesDiffer == None \notin Conns /\ Listener \notin Fds /\ MaxTasks \in Nat /\ 0 \in 0..MaxTasks
BY NamesAssumption, FdsAssumption, BoundsAssumption

LEMMA InvInit == Init => Inv
<1>. SUFFICES ASSUME Init PROVE Inv
  OBVIOUS
<1>1. TypeOK
  BY NamesDiffer DEF Init, TypeOK
<1>2. \A c \in Conns : ~(tasks[c] > 0) /\ ~Mapped(c)
  BY NamesDiffer DEF Init, Mapped
<1>3. Owners
  BY <1>2 DEF Init, Owners
<1>4. Watches
  BY DEF Init, Watches, NoStranger
<1>5. ClosedIsTold /\ BacklogIsSeen /\ Spared /\ Registered
  BY <1>2 DEF Init, ClosedIsTold, BacklogIsSeen, Spared, Registered
<1>. QED BY <1>1, <1>3, <1>4, <1>5 DEF Inv

\* The connections of connections_ are accepted and not yet told of.
LEMMA MappedFacts ==
    ASSUME Inv, NEW c \in Conns, Mapped(c)
    PROVE  Accepted(c) /\ told[c] = 0 /\ \A f \in Fds : connections[f] = c <=> owner[f] = c
<1>1. PICK f \in Fds : connections[f] = c /\ owner[f] = c
  BY NamesDiffer DEF Mapped, Inv, Owners
<1>2. \A g \in Fds : owner[g] = c => g = f
  BY <1>1, NamesDiffer DEF Inv, Owners
<1>3. \A g \in Fds : connections[g] = c => owner[g] = c
  BY NamesDiffer DEF Inv, Owners
<1>. QED BY <1>1, <1>2, <1>3, NamesDiffer DEF Inv, Owners, ClosedIsTold

\* What the end of the last reference does.
LEMMA CloseFacts ==
    ASSUME TypeOK, Owners, edge \subseteq watched \cup {Listener}, NEW c \in Conns, CloseUnlessHeld(c)
    PROVE  /\ owner' \in [Fds -> Conns \cup {None}]
           /\ peer' \in [Conns -> {"new", "up", "closed", "silent"}]
           /\ unread' \in [Conns -> BOOLEAN] /\ shut' \subseteq shut
           /\ watched' \subseteq watched /\ edge' \subseteq edge
           /\ edge' \subseteq watched' \cup {Listener} /\ (Listener \in edge => Listener \in edge')
           /\ \A f \in Fds : owner'[f] = owner[f] \/ (owner'[f] = None /\ owner[f] = c /\ ~Mapped(c)')
           /\ \A d \in Conns : peer'[d] = peer[d] \/ (d = c /\ peer'[d] = "closed")
<1>1. CASE Held(c)'
  <2>1. UNCHANGED <<world, owner, watched, edge, shut>>
    BY <1>1 DEF CloseUnlessHeld
  <2>. QED BY <2>1 DEF world, TypeOK
<1>2. CASE ~Held(c)'
  <2>1. /\ peer' = [peer EXCEPT ![c] = "closed"] /\ unread' = [unread EXCEPT ![c] = FALSE]
        /\ shut' = shut \ {c}
        /\ owner' = [f \in Fds |-> IF owner[f] = c THEN None ELSE owner[f]]
        /\ watched' = watched \ FdsOf(c) /\ edge' = edge \ FdsOf(c)
    BY <1>2 DEF CloseUnlessHeld
  <2>2. ~Mapped(c)'
    BY <1>2 DEF Held, Referenced
  <2>3. FdsOf(c) \subseteq Fds
    BY DEF FdsOf
  <2>4. /\ owner' \in [Fds -> Conns \cup {None}]
        /\ peer' \in [Conns -> {"new", "up", "closed", "silent"}]
        /\ unread' \in [Conns -> BOOLEAN]
    BY <2>1 DEF TypeOK
  <2>. QED BY <2>1, <2>2, <2>3, <2>4, NamesDiffer DEF TypeOK
<1>. QED BY <1>1, <1>2

-----------------------------------------------------------------------------
(* Every step keeps the invariant.                                          *)

LEMMA ClientKeeps == ASSUME Inv, ClientStep PROVE Inv'
<1>. USE DEF world, kernel, loop, service, check
<1>0. TypeOK /\ Owners /\ Watches /\ ClosedIsTold /\ BacklogIsSeen /\ Spared /\ Registered
  BY DEF Inv
<1>1. ASSUME NEW c \in Conns, Connect(c) PROVE Inv'
  <2>1. /\ peer[c] = "new" /\ peer' = [peer EXCEPT ![c] = "up"]
        /\ backlog' = backlog \cup {c} /\ edge' = edge \cup {Listener}
        /\ UNCHANGED <<unread, owner, watched, connections, shut, idle, rpc, cur, batch, tasks,
                       kept, told, pended, gaveUp, toShut, spared, missed, late>>
    BY <1>1 DEF Connect
  <2>2. TypeOK'
    BY <1>0, <2>1 DEF TypeOK
  <2>3. \A d \in Conns : d # c => (Accepted(d)' <=> Accepted(d))
    BY <1>0, <2>1 DEF Accepted, TypeOK
  <2>4. ~Accepted(c) /\ peer'[c] = "up"
    BY <1>0, <2>1 DEF Accepted, TypeOK
  <2>5. Owners'
    <3>1. \A f \in Fds : owner[f] # None => owner[f] \in Conns
      BY <1>0 DEF TypeOK
    <3>2. \A d \in backlog' : peer'[d] # "new"
      BY <1>0, <2>1, <2>4 DEF Owners, TypeOK
    <3>. QED BY <1>0, <2>1, <2>3, <2>4, <3>1, <3>2 DEF Owners
  <2>6. Watches' /\ BacklogIsSeen'
    BY <1>0, <2>1 DEF Watches, NoStranger, Mapped, FdsOf, BacklogIsSeen
  <2>7. ClosedIsTold'
    BY <1>0, <2>1 DEF ClosedIsTold, Mapped, TypeOK
  <2>8. Spared'
    BY <1>0, <2>1, <2>3, <2>4 DEF Spared, TypeOK
  <2>9. Registered'
    BY <1>0, <2>1, <2>3, <2>4 DEF Registered, TypeOK
  <2>. QED BY <2>2, <2>5, <2>6, <2>7, <2>8, <2>9 DEF Inv
<1>2. ASSUME NEW c \in Conns, Send(c) \/ Hang(c) \/ Vanish(c) PROVE Inv'
  <2>1. /\ peer[c] = "up" /\ \/ peer' = peer
                             \/ \E s \in {"closed", "silent"} : peer' = [peer EXCEPT ![c] = s]
        /\ edge \subseteq edge' /\ edge' \subseteq edge \cup watched
        /\ unread' = unread \/ unread' = [unread EXCEPT ![c] = TRUE]
        /\ UNCHANGED <<backlog, owner, watched, connections, shut, idle, rpc, cur, batch, tasks,
                       kept, told, pended, gaveUp, toShut, spared, missed, late>>
    BY <1>2 DEF Send, Hang, Vanish, Linked, EdgeOf
  <2>2. \A d \in Conns : peer'[d] = "new" <=> peer[d] = "new"
    BY <1>0, <2>1 DEF TypeOK
  <2>3. TypeOK'
    BY <1>0, <2>1 DEF TypeOK
  <2>4. Owners'
    BY <1>0, <2>1, <2>2 DEF Owners, Accepted, TypeOK
  <2>5. Watches' /\ BacklogIsSeen'
    BY <1>0, <2>1 DEF Watches, NoStranger, Mapped, FdsOf, BacklogIsSeen
  <2>6. ClosedIsTold'
    BY <1>0, <2>1, <2>2 DEF ClosedIsTold, Mapped
  <2>7. Spared' /\ Registered'
    BY <1>0, <2>1, <2>2 DEF Spared, Registered, Accepted, TypeOK
  <2>. QED BY <2>3, <2>4, <2>5, <2>6, <2>7 DEF Inv
<1>3. ASSUME NEW c \in Conns, GrowIdle(c) PROVE Inv'
  BY <1>0, <1>3 DEF GrowIdle, Inv, TypeOK, Owners, Accepted, Watches, NoStranger, Mapped, FdsOf,
        ClosedIsTold, BacklogIsSeen, Spared, Registered
<1>. QED BY <1>1, <1>2, <1>3 DEF ClientStep

LEMMA LoopKeeps ==
    ASSUME Inv, Poll \/ OnListener \/ (\E f \in Fds : OnEvent(f)) \/ AcceptStep
    PROVE  Inv'
<1>. USE DEF world, kernel, loop, service, check
<1>0. TypeOK /\ Owners /\ Watches /\ ClosedIsTold /\ BacklogIsSeen /\ Spared /\ Registered
  BY DEF Inv
<1>1. CASE Poll
  <2>1. /\ rpc = "loop" /\ batch' = edge /\ edge' = {}
        /\ UNCHANGED <<peer, unread, backlog, owner, watched, connections, shut, idle, rpc, cur,
                       tasks, kept, told, pended, gaveUp, toShut, spared, missed, late>>
    BY <1>1 DEF Poll
  <2>2. TypeOK' /\ Owners'
    BY <1>0, <2>1 DEF TypeOK, Owners, Accepted
  <2>3. Watches'
    BY <1>0, <2>1 DEF Watches, NoStranger
  <2>4. ClosedIsTold' /\ BacklogIsSeen' /\ Spared' /\ Registered'
    BY <1>0, <1>1, <2>1
       DEF Poll, ClosedIsTold, Mapped, BacklogIsSeen, Spared, Registered, Accepted
  <2>. QED BY <2>2, <2>3, <2>4 DEF Inv
<1>2. CASE OnListener \/ AcceptDone \/ AcceptFails
  <2>1. /\ rpc \in {"loop", "accept"} /\ rpc' \in {"loop", "accept"} /\ batch' \subseteq batch
        /\ missed' \in BOOLEAN
        /\ UNCHANGED <<peer, unread, backlog, edge, owner, watched, connections, shut, idle, cur,
                       tasks, kept, told, pended, gaveUp, toShut, spared, late>>
    BY <1>0, <1>2 DEF OnListener, AcceptDone, AcceptsAll, AcceptFails, TypeOK
  <2>2. TypeOK' /\ Owners'
    BY <1>0, <2>1 DEF TypeOK, Owners, Accepted
  <2>3. Watches'
    BY <1>0, <2>1 DEF Watches, NoStranger
  <2>4. ClosedIsTold' /\ Spared' /\ Registered'
    BY <1>0, <2>1 DEF ClosedIsTold, Mapped, Spared, Registered, Accepted
  <2>5. BacklogIsSeen'
    BY <1>0, <1>2 DEF OnListener, AcceptDone, AcceptsAll, AcceptFails, BacklogIsSeen
  <2>. QED BY <2>2, <2>3, <2>4, <2>5 DEF Inv
<1>3. ASSUME NEW f \in Fds, OnEvent(f) PROVE Inv'
  <2>1. connections[f] \in Conns /\ owner[f] = connections[f] /\ f # Listener
    BY <1>0, <1>3, NamesDiffer DEF OnEvent, Watches, NoStranger, TypeOK, Owners
  <2>2. /\ rpc = "loop" /\ batch' = batch \ {f} /\ cur' = connections[f] /\ rpc' = "read"
        /\ UNCHANGED <<peer, unread, backlog, edge, owner, watched, connections, shut, idle, tasks,
                       kept, told, pended, gaveUp, toShut, spared, missed, late>>
    BY <1>3, <2>1, NamesDiffer DEF OnEvent
  <2>3. TypeOK' /\ Owners'
    BY <1>0, <2>1, <2>2 DEF TypeOK, Owners, Accepted
  <2>4. Mapped(cur)' /\ (FdsOf(cur) \cap batch)' = {}
    <3>1. \A g \in Fds : owner[g] = owner[f] => g = f
      BY <1>0, <2>1, NamesDiffer DEF Owners
    <3>. QED BY <2>1, <2>2, <3>1 DEF Mapped, FdsOf
  <2>5. Watches'
    BY <1>0, <2>1, <2>2, <2>4 DEF Watches, NoStranger
  <2>6. ClosedIsTold'
    BY <1>0, <2>2 DEF ClosedIsTold, Mapped
  <2>7. BacklogIsSeen' /\ Spared' /\ Registered'
    BY <1>0, <2>1, <2>2 DEF BacklogIsSeen, Spared, Registered, Accepted
  <2>. QED BY <2>3, <2>5, <2>6, <2>7 DEF Inv
<1>4. ASSUME NEW c \in Conns, Accept(c) PROVE Inv'
  <2>1. PICK f \in Fds :
            /\ Lowest(f)
            /\ owner' = [owner EXCEPT ![f] = c]
            /\ connections' = [connections EXCEPT ![f] = c]
            /\ watched' = watched \cup {f}
            /\ edge' = IF Readable(c) THEN edge \cup {f} ELSE edge
    BY <1>4 DEF Accept
  <2>2. /\ rpc = "accept" /\ c \in backlog /\ backlog' = backlog \ {c}
        /\ UNCHANGED <<peer, unread, shut, idle, rpc, cur, batch, tasks, kept, told, pended, gaveUp,
                       toShut, spared, missed, late>>
    BY <1>4 DEF Accept
  <2>3. owner[f] = None /\ connections[f] = None /\ c # None
    BY <1>0, <2>1, NamesDiffer DEF Lowest, FreeFds, Owners, TypeOK
  <2>4. \A g \in Fds : owner[g] # c
    BY <1>0, <2>2, NamesDiffer DEF Owners, Accepted
  <2>5. TypeOK'
    BY <1>0, <2>1, <2>2 DEF TypeOK
  <2>6. /\ owner'[f] = c /\ connections'[f] = c
        /\ \A g \in Fds \ {f} : owner'[g] = owner[g] /\ connections'[g] = connections[g]
        /\ edge' \subseteq edge \cup {f} /\ edge \subseteq edge'
    BY <1>0, <2>1 DEF TypeOK
  <2>7. \A d \in Conns : Accepted(d)' <=> Accepted(d) \/ d = c
    BY <1>0, <2>2 DEF Owners, Accepted
  <2>8. Owners'
    <3>1. \A g \in Fds : connections'[g] # None => owner'[g] = connections'[g]
      BY <1>0, <2>6 DEF Owners
    <3>2. \A g, h \in Fds : owner'[g] # None /\ owner'[g] = owner'[h] => g = h
      BY <1>0, <2>4, <2>6 DEF Owners
    <3>3. \A g \in Fds : owner'[g] # None => Accepted(owner[g])' \/ owner'[g] = c
      BY <1>0, <2>6, <2>7 DEF Owners, TypeOK
    <3>4. \A g \in Fds : owner'[g] # None => owner'[g] \notin backlog' /\ peer'[owner'[g]] # "new"
      BY <1>0, <2>2, <2>6 DEF Owners, Accepted
    <3>5. \A d \in Conns : tasks'[d] > 0 => Accepted(d)'
      BY <1>0, <2>2, <2>7 DEF Owners
    <3>6. \A d \in backlog' : peer'[d] # "new"
      BY <1>0, <2>2 DEF Owners
    <3>. QED BY <3>1, <3>2, <3>4, <3>5, <3>6 DEF Owners, Accepted
  <2>9. Watches'
    <3>1. \A g \in watched' : connections'[g] # None
      BY <1>0, <2>1, <2>3, <2>6 DEF Watches, TypeOK
    <3>2. edge' \subseteq watched' \cup {Listener}
      BY <1>0, <2>1, <2>6 DEF Watches
    <3>3. NoStranger'
      BY <1>0, <2>2, <2>3, <2>6 DEF Watches, NoStranger, TypeOK
    <3>. QED BY <1>0, <2>2, <3>1, <3>2, <3>3 DEF Watches
  <2>10. ClosedIsTold'
    <3>1. \A d \in Conns : Mapped(d)' <=> Mapped(d) \/ d = c
      BY <2>3, <2>6, NamesDiffer DEF Mapped
    <3>2. peer[c] # "new" /\ told[c] = 0
      BY <1>0, <2>2 DEF ClosedIsTold, Owners
    <3>. QED BY <1>0, <2>2, <3>1, <3>2 DEF ClosedIsTold
  <2>11. BacklogIsSeen'
    BY <2>2 DEF BacklogIsSeen
  <2>12. Spared'
    <3>1. c \notin spared
      BY <1>0, <2>2 DEF Spared, Accepted
    <3>2. \A g \in toShut : g \in Fds
      BY <1>0 DEF TypeOK
    <3>3. \A d \in spared : d \in Conns
      BY <1>0 DEF TypeOK
    <3>. QED BY <1>0, <2>2, <2>6, <2>7, <3>1, <3>2, <3>3 DEF Spared
  <2>13. Registered'
    BY <1>0, <2>2, <2>7 DEF Registered, TypeOK
  <2>. QED BY <2>5, <2>8, <2>9, <2>10, <2>11, <2>12, <2>13 DEF Inv
<1>. QED BY <1>1, <1>2, <1>3, <1>4 DEF AcceptStep

LEMMA ReadKeeps == ASSUME Inv, ReadPacket \/ ReadEnd \/ ReadNothing PROVE Inv'
<1>. USE DEF world, kernel, loop, service, check
<1>0. TypeOK /\ Owners /\ Watches /\ ClosedIsTold /\ BacklogIsSeen /\ Spared /\ Registered
  BY DEF Inv
<1>. SUFFICES ASSUME rpc = "read" PROVE Inv'
  BY DEF ReadPacket, ReadEnd, ReadNothing
<1>1. cur \in Conns /\ Mapped(cur) /\ Accepted(cur)
  BY <1>0, MappedFacts DEF Watches
<1>2. CASE ReadPacket
  <2>1. /\ unread' = [unread EXCEPT ![cur] = FALSE] /\ idle' = idle \ {cur}
        /\ tasks' = IF tasks[cur] < MaxTasks THEN [tasks EXCEPT ![cur] = @ + 1] ELSE tasks
        /\ UNCHANGED <<peer, backlog, edge, owner, watched, connections, shut, rpc, cur, batch,
                       kept, told, pended, gaveUp, toShut, spared, missed, late>>
    BY <1>2 DEF ReadPacket
  <2>2. /\ tasks' \in [Conns -> 0..MaxTasks]
        /\ \A d \in Conns \ {cur} : tasks'[d] = tasks[d]
    BY <1>0, <1>1, <2>1, NamesDiffer DEF TypeOK
  <2>3. TypeOK'
    BY <1>0, <2>1, <2>2 DEF TypeOK
  <2>4. Owners'
    BY <1>0, <1>1, <2>1, <2>2 DEF Owners, Accepted
  <2>5. Watches' /\ ClosedIsTold' /\ BacklogIsSeen' /\ Spared' /\ Registered'
    BY <1>0, <2>1 DEF Watches, NoStranger, Mapped, FdsOf, ClosedIsTold, BacklogIsSeen, Spared,
          Registered, Accepted
  <2>. QED BY <2>3, <2>4, <2>5 DEF Inv
<1>3. CASE ReadEnd
  <2>1. /\ rpc' = "close" /\ watched' = watched \ FdsOf(cur) /\ edge' = edge \ FdsOf(cur)
        /\ UNCHANGED <<peer, unread, backlog, owner, connections, shut, idle, cur, batch, tasks,
                       kept, told, pended, gaveUp, toShut, spared, missed, late>>
    BY <1>3 DEF ReadEnd
  <2>2. Listener \in edge => Listener \in edge'
    BY <2>1, NamesDiffer DEF FdsOf
  <2>3. TypeOK' /\ Owners'
    BY <1>0, <2>1 DEF TypeOK, Owners, Accepted
  <2>4. Watches'
    BY <1>0, <1>1, <2>1 DEF Watches, NoStranger, Mapped, FdsOf
  <2>5. ClosedIsTold' /\ BacklogIsSeen' /\ Spared' /\ Registered'
    BY <1>0, <2>1, <2>2 DEF ClosedIsTold, Mapped, BacklogIsSeen, Spared, Registered, Accepted
  <2>. QED BY <2>3, <2>4, <2>5 DEF Inv
<1>4. CASE ReadNothing
  <2>1. /\ rpc' = "loop" /\ cur' = None
        /\ UNCHANGED <<peer, unread, backlog, edge, owner, watched, connections, shut, idle, batch,
                       tasks, kept, told, pended, gaveUp, toShut, spared, missed, late>>
    BY <1>4 DEF ReadNothing
  <2>2. TypeOK' /\ Owners' /\ Watches'
    BY <1>0, <2>1 DEF TypeOK, Owners, Accepted, Watches, NoStranger
  <2>3. ClosedIsTold' /\ BacklogIsSeen' /\ Spared' /\ Registered'
    BY <1>0, <2>1 DEF ClosedIsTold, Mapped, BacklogIsSeen, Spared, Registered, Accepted
  <2>. QED BY <2>2, <2>3 DEF Inv
<1>. QED BY <1>2, <1>3, <1>4

LEMMA DisconnectKeeps == ASSUME Inv, NEW c \in Conns, Disconnect(c) PROVE Inv'
<1>. USE DEF world, kernel, loop, service, check
<1>0. TypeOK /\ Owners /\ Watches /\ ClosedIsTold /\ BacklogIsSeen /\ Spared /\ Registered
  BY DEF Inv
<1>1. /\ rpc = "close" /\ cur = c
      /\ \/ rpc' = "loop" /\ cur' = None
         \/ rpc' = "stuck" /\ cur' = c
      /\ connections' = Erased(c) /\ idle' = idle \ {c} /\ told' = [told EXCEPT ![c] = @ + 1]
      /\ kept' \subseteq kept /\ pended' \subseteq pended /\ CloseUnlessHeld(c)
      /\ UNCHANGED <<backlog, batch, tasks, gaveUp, toShut, spared, missed, late>>
  BY DEF Disconnect, Forgotten, Swept
<1>2. Mapped(c) /\ Accepted(c) /\ told[c] = 0 /\ FdsOf(c) \cap batch = {} /\ FdsOf(c) \cap watched = {}
  BY <1>0, <1>1, MappedFacts DEF Watches
<1>3. /\ owner' \in [Fds -> Conns \cup {None}]
      /\ peer' \in [Conns -> {"new", "up", "closed", "silent"}]
      /\ unread' \in [Conns -> BOOLEAN] /\ shut' \subseteq shut
      /\ watched' \subseteq watched /\ edge' \subseteq edge
      /\ edge' \subseteq watched' \cup {Listener} /\ (Listener \in edge => Listener \in edge')
      /\ \A f \in Fds : owner'[f] = owner[f] \/ (owner'[f] = None /\ owner[f] = c /\ ~Mapped(c)')
      /\ \A d \in Conns : peer'[d] = peer[d] \/ (d = c /\ peer'[d] = "closed")
  BY <1>0, <1>1, CloseFacts DEF Watches
<1>4. \A f \in Fds : connections'[f] = IF owner[f] = c THEN None ELSE connections[f]
  BY <1>1 DEF Erased, FdsOf
<1>5. TypeOK'
  <2>1. connections' \in [Fds -> Conns \cup {None}]
    BY <1>0, <1>1 DEF Erased, TypeOK
  <2>2. told' \in [Conns -> Nat]
    BY <1>0, <1>1 DEF TypeOK
  <2>3. watched' \subseteq Fds /\ edge' \subseteq Fds \cup {Listener} /\ shut' \subseteq Conns
    BY <1>0, <1>3 DEF TypeOK
  <2>. QED BY <1>0, <1>1, <1>3, <2>1, <2>2, <2>3 DEF TypeOK
<1>6. \A d \in Conns : peer'[d] = "new" <=> peer[d] = "new"
  BY <1>2, <1>3 DEF Accepted
<1>7. Owners'
  <2>1. \A f \in Fds : connections'[f] # None => owner'[f] = connections'[f]
    BY <1>0, <1>3, <1>4 DEF Owners
  <2>2. \A f \in Fds : owner'[f] # None => owner'[f] = owner[f]
    BY <1>3
  <2>3. \A f, g \in Fds : owner'[f] # None /\ owner'[f] = owner'[g] => f = g
    BY <1>0, <2>2 DEF Owners
  <2>4. \A f \in Fds : owner'[f] # None => owner'[f] \in Conns
    BY <1>3
  <2>5. \A f \in Fds : owner'[f] # None => owner'[f] \notin backlog' /\ peer'[owner'[f]] # "new"
    BY <1>0, <1>1, <1>6, <2>2, <2>4 DEF Owners, Accepted
  <2>6. \A d \in Conns : tasks'[d] > 0 => d \notin backlog' /\ peer'[d] # "new"
    BY <1>0, <1>1, <1>6 DEF Owners, Accepted
  <2>7. \A d \in backlog' : peer'[d] # "new"
    BY <1>0, <1>1, <1>6 DEF Owners, TypeOK
  <2>. QED BY <2>1, <2>3, <2>5, <2>6, <2>7 DEF Owners, Accepted
<1>8. Watches'
  <2>1. \A f \in watched' : connections'[f] # None
    BY <1>0, <1>2, <1>3, <1>4 DEF Watches, FdsOf, TypeOK
  <2>2. NoStranger'
    BY <1>0, <1>1, <1>2, <1>4 DEF Watches, NoStranger, FdsOf, TypeOK
  <2>. QED BY <1>1, <1>3, <2>1, <2>2 DEF Watches
<1>9. ClosedIsTold'
  <2>1. ~Mapped(c)'
    BY <1>0, <1>4, NamesDiffer DEF Mapped, Owners
  <2>2. \A d \in Conns \ {c} : Mapped(d)' <=> Mapped(d)
    <3>1. ASSUME NEW d \in Conns \ {c}, Mapped(d) PROVE Mapped(d)'
      <4>1. PICK f \in Fds : connections[f] = d
        BY <3>1 DEF Mapped
      <4>2. owner[f] = d
        BY <1>0, <4>1, NamesDiffer DEF Owners
      <4>. QED BY <1>4, <4>1, <4>2 DEF Mapped
    <3>2. ASSUME NEW d \in Conns \ {c}, Mapped(d)' PROVE Mapped(d)
      BY <1>4, <3>2, NamesDiffer DEF Mapped
    <3>. QED BY <3>1, <3>2
  <2>3. told'[c] = 1 /\ \A d \in Conns \ {c} : told'[d] = told[d]
    BY <1>0, <1>1, <1>2 DEF TypeOK
  <2>4. c \notin backlog /\ peer'[c] # "new"
    BY <1>2, <1>6 DEF Accepted
  <2>. QED BY <1>0, <1>1, <1>6, <2>1, <2>2, <2>3, <2>4, NamesDiffer DEF ClosedIsTold
<1>10. BacklogIsSeen'
  BY <1>0, <1>1, <1>3 DEF BacklogIsSeen
<1>11. Spared'
  <2>1. \A f \in toShut : owner'[f] = owner[f] \/ owner'[f] = None
    BY <1>0, <1>3 DEF TypeOK
  <2>2. None \notin spared /\ spared \subseteq Conns
    BY <1>0, NamesDiffer DEF TypeOK
  <2>. QED BY <1>0, <1>1, <1>6, <2>1, <2>2 DEF Spared, Accepted
<1>12. Registered'
  BY <1>0, <1>1, <1>6 DEF Registered, Accepted, TypeOK
<1>. QED BY <1>5, <1>7, <1>8, <1>9, <1>10, <1>11, <1>12 DEF Inv

\* The steps that may let the last reference to a connection go.
LEMMA ReleaseKeeps == ASSUME Inv, NEW c \in Conns, EndTask(c) \/ Acknowledge(c) PROVE Inv'
<1>. USE DEF world, kernel, loop, service, check
<1>0. TypeOK /\ Owners /\ Watches /\ ClosedIsTold /\ BacklogIsSeen /\ Spared /\ Registered
  BY DEF Inv
<1>1. /\ \/ tasks[c] > 0 /\ tasks' = [tasks EXCEPT ![c] = @ - 1]
         \/ c \in pended /\ tasks' = tasks
      /\ CloseUnlessHeld(c)
      /\ kept' \subseteq kept \cup {c} /\ late' \subseteq late \cup {c} /\ pended' \subseteq pended
      /\ UNCHANGED <<backlog, connections, idle, rpc, cur, batch, told, gaveUp, toShut, spared, missed>>
  BY DEF EndTask, Acknowledge
<1>2. /\ owner' \in [Fds -> Conns \cup {None}]
      /\ peer' \in [Conns -> {"new", "up", "closed", "silent"}]
      /\ unread' \in [Conns -> BOOLEAN] /\ shut' \subseteq shut
      /\ watched' \subseteq watched /\ edge' \subseteq edge
      /\ edge' \subseteq watched' \cup {Listener} /\ (Listener \in edge => Listener \in edge')
      /\ \A f \in Fds : owner'[f] = owner[f] \/ (owner'[f] = None /\ owner[f] = c /\ ~Mapped(c)')
      /\ \A d \in Conns : peer'[d] = peer[d] \/ (d = c /\ peer'[d] = "closed")
  BY <1>0, <1>1, CloseFacts DEF Watches
<1>3. Accepted(c) /\ \A d \in Conns : peer'[d] = "new" <=> peer[d] = "new"
  BY <1>0, <1>1, <1>2 DEF Owners, Registered, Accepted
<1>4. \A d \in Conns : (Mapped(d)' <=> Mapped(d)) /\ (tasks'[d] > 0 => tasks[d] > 0)
  BY <1>0, <1>1 DEF Mapped, TypeOK
<1>5. TypeOK'
  <2>1. tasks' \in [Conns -> 0..MaxTasks]
    BY <1>0, <1>1, NamesDiffer DEF TypeOK
  <2>2. watched' \subseteq Fds /\ edge' \subseteq Fds \cup {Listener} /\ shut' \subseteq Conns
    BY <1>0, <1>2 DEF TypeOK
  <2>. QED BY <1>0, <1>1, <1>2, <2>1, <2>2 DEF TypeOK
<1>6. Owners'
  <2>1. \A f \in Fds : connections'[f] # None => owner'[f] = connections'[f]
    BY <1>0, <1>1, <1>2, <1>4, NamesDiffer DEF Owners, Mapped
  <2>2. \A f \in Fds : owner'[f] # None => owner'[f] = owner[f] /\ owner'[f] \in Conns
    BY <1>2
  <2>3. \A f, g \in Fds : owner'[f] # None /\ owner'[f] = owner'[g] => f = g
    BY <1>0, <2>2 DEF Owners
  <2>4. \A f \in Fds : owner'[f] # None => owner'[f] \notin backlog' /\ peer'[owner'[f]] # "new"
    BY <1>0, <1>1, <1>3, <2>2 DEF Owners, Accepted
  <2>5. \A d \in Conns : tasks'[d] > 0 => d \notin backlog' /\ peer'[d] # "new"
    BY <1>0, <1>1, <1>3, <1>4 DEF Owners, Accepted
  <2>6. \A d \in backlog' : peer'[d] # "new"
    BY <1>0, <1>1, <1>3 DEF Owners, TypeOK
  <2>. QED BY <2>1, <2>3, <2>4, <2>5, <2>6 DEF Owners, Accepted
<1>7. Watches'
  <2>1. FdsOf(cur)' \subseteq FdsOf(cur) \/ cur = None
    BY <1>0, <1>1, <1>2, NamesDiffer DEF FdsOf, Watches, TypeOK
  <2>2. (\A f \in watched' : connections'[f] # None) /\ NoStranger'
    BY <1>0, <1>1, <1>2 DEF Watches, NoStranger
  <2>3. rpc \in {"read", "close"} => Mapped(cur)' /\ cur # None
    BY <1>0, <1>1, <1>4, NamesDiffer DEF Watches
  <2>. QED BY <1>0, <1>1, <1>2, <2>1, <2>2, <2>3 DEF Watches
<1>8. ClosedIsTold' /\ BacklogIsSeen'
  BY <1>0, <1>1, <1>2, <1>3, <1>4 DEF ClosedIsTold, BacklogIsSeen
<1>9. Spared'
  <2>1. \A f \in toShut : owner'[f] = owner[f] \/ owner'[f] = None
    BY <1>0, <1>2 DEF TypeOK
  <2>2. None \notin spared /\ spared \subseteq Conns
    BY <1>0, NamesDiffer DEF TypeOK
  <2>. QED BY <1>0, <1>1, <1>3, <2>1, <2>2 DEF Spared, Accepted
<1>10. Registered'
  BY <1>0, <1>1, <1>3 DEF Registered, Accepted, TypeOK
<1>. QED BY <1>5, <1>6, <1>7, <1>8, <1>9, <1>10 DEF Inv

LEMMA ServiceKeeps == ASSUME Inv, ServiceStep PROVE Inv'
<1>1. ASSUME NEW c \in Conns, Push(c) \/ GiveUp(c) PROVE Inv'
  <2>1. /\ kept' \subseteq kept /\ pended' \subseteq pended \cup kept /\ gaveUp' \in BOOLEAN
        /\ UNCHANGED <<peer, unread, backlog, edge, owner, watched, connections, shut, idle, rpc,
                       cur, batch, tasks, told, toShut, spared, missed, late>>
    BY <1>1 DEF Push, GiveUp, world, kernel, loop, check, Inv, TypeOK
  <2>2. TypeOK' /\ Owners'
    BY <2>1 DEF Inv, TypeOK, Owners, Accepted
  <2>3. Watches' /\ ClosedIsTold' /\ BacklogIsSeen' /\ Spared' /\ Registered'
    BY <2>1 DEF Inv, Watches, NoStranger, Mapped, FdsOf, ClosedIsTold, BacklogIsSeen, Spared,
          Registered, Accepted
  <2>. QED BY <2>2, <2>3 DEF Inv
<1>. QED BY <1>1, ReleaseKeeps DEF ServiceStep

LEMMA CheckKeeps == ASSUME Inv, CheckStep PROVE Inv'
<1>. USE DEF world, kernel, loop, service, check
<1>0. TypeOK /\ Owners /\ Watches /\ ClosedIsTold /\ BacklogIsSeen /\ Spared /\ Registered
  BY DEF Inv
<1>1. CASE Collect
  <2>1. /\ toShut' = {f \in Fds : connections[f] \in Conns /\ TimedOut(connections[f])}
        /\ spared' = {c \in Conns \ idle : Mapped(c)}
        /\ UNCHANGED <<peer, unread, backlog, edge, owner, watched, connections, shut, idle, rpc,
                       cur, batch, tasks, kept, told, pended, gaveUp, missed, late>>
    BY <1>1 DEF Collect
  <2>2. TypeOK' /\ Owners' /\ Watches' /\ ClosedIsTold' /\ BacklogIsSeen' /\ Registered'
    BY <1>0, <2>1 DEF TypeOK, Owners, Accepted, Watches, NoStranger, Mapped, FdsOf, ClosedIsTold,
          BacklogIsSeen, Registered
  <2>3. \A f \in toShut' : owner[f] \in idle
    BY <1>0, <2>1, NamesDiffer DEF Owners, TimedOut
  <2>4. \A c \in spared' : Accepted(c)
    BY <2>1, MappedFacts
  <2>5. Spared'
    BY <2>1, <2>3, <2>4 DEF Spared, Accepted
  <2>. QED BY <2>2, <2>5 DEF Inv
<1>2. ASSUME NEW f \in Fds, ShutDown(f) PROVE Inv'
  <2>1. /\ toShut' = toShut \ {f} /\ spared' \subseteq spared
        /\ shut' = shut \cup ({owner[f]} \cap Conns) /\ edge' = edge \cup ({f} \cap watched)
        /\ UNCHANGED <<peer, unread, backlog, owner, watched, connections, idle, rpc, cur, batch,
                       tasks, kept, told, pended, gaveUp, missed, late>>
    BY <1>2 DEF ShutDown
  <2>2. TypeOK' /\ Owners'
    BY <1>0, <2>1 DEF TypeOK, Owners, Accepted
  <2>3. Watches' /\ ClosedIsTold' /\ BacklogIsSeen'
    BY <1>0, <2>1 DEF Watches, NoStranger, Mapped, FdsOf, ClosedIsTold, BacklogIsSeen
  <2>4. Spared' /\ Registered'
    BY <1>0, <2>1 DEF Spared, Registered, Accepted
  <2>. QED BY <2>2, <2>3, <2>4 DEF Inv
<1>. QED BY <1>1, <1>2 DEF CheckStep

LEMMA InvNext == Inv /\ [Next]_vars => Inv'
<1>. SUFFICES ASSUME Inv, [Next]_vars PROVE Inv'
  OBVIOUS
<1>1. CASE UNCHANGED vars
  BY <1>1 DEF vars, world, kernel, loop, service, check, Inv, TypeOK, Owners, Accepted, Watches,
        NoStranger, Mapped, FdsOf, ClosedIsTold, BacklogIsSeen, Spared, Registered
<1>2. CASE Next
  BY <1>2, ClientKeeps, LoopKeeps, ReadKeeps, DisconnectKeeps, ServiceKeeps, CheckKeeps
     DEF Next, LoopStep, ReadStep
<1>. QED BY <1>1, <1>2

-----------------------------------------------------------------------------
(* The theorems.                                                            *)

\* Every variable of the reactor keeps its type.
THEOREM TypeCorrect == Spec => []TypeOK
<1>1. Inv => TypeOK
  BY DEF Inv
<1>. QED BY <1>1, InvInit, InvNext, PTL DEF Spec

\* Every event finds its connection, for any number of connections and descriptors,
\* however late a worker closes one: ChatServer.cpp:51-75.
THEOREM NoStrangerAlways == Spec => []NoStranger
<1>1. Inv => NoStranger
  BY DEF Inv, Watches
<1>. QED BY <1>1, InvInit, InvNext, PTL DEF Spec

\* The service hears of the end of each connection, once: handleClientDisconnect.
THEOREM ClosedIsToldAlways == Spec => []ClosedIsTold
<1>1. Inv => ClosedIsTold
  BY DEF Inv
<1>. QED BY <1>1, InvInit, InvNext, PTL DEF Spec

\* A client waits unseen only after an accept that failed: ChatServer.cpp:87-101.
THEOREM BacklogIsSeenAlways == Spec => []BacklogIsSeen
<1>1. Inv => BacklogIsSeen
  BY DEF Inv
<1>. QED BY <1>1, InvInit, InvNext, PTL DEF Spec

\* No reuse of a descriptor makes the heartbeat thread shut down a connection that
\* had spoken when it looked: ChatServer.cpp:157-169.
THEOREM ShutWasIdleAlways == Spec => ShutWasIdle
<1>1. ASSUME Inv, [Next]_vars PROVE [(shut' \ shut) \cap spared = {}]_vars
  <2>1. CASE UNCHANGED vars
    BY <2>1
  <2>2. ASSUME NEW f \in Fds, ShutDown(f) PROVE (shut' \ shut) \cap spared = {}
    BY <1>1, <2>2 DEF ShutDown, Inv, Spared
  <2>3. ASSUME shut' \subseteq shut PROVE (shut' \ shut) \cap spared = {}
    BY <2>3
  <2>4. CASE ClientStep \/ Collect
    BY <2>3, <2>4 DEF ClientStep, Connect, Send, Hang, Vanish, GrowIdle, Collect
  <2>5. CASE Poll \/ OnListener \/ AcceptStep \/ (\E f \in Fds : OnEvent(f))
    BY <2>3, <2>5 DEF Poll, OnListener, AcceptStep, AcceptDone, AcceptFails, Accept, OnEvent
  <2>6. CASE ReadPacket \/ ReadEnd \/ ReadNothing
    BY <2>3, <2>6 DEF ReadPacket, ReadEnd, ReadNothing
  <2>7. ASSUME NEW c \in Conns, Disconnect(c) \/ EndTask(c) \/ Acknowledge(c)
        PROVE  shut' \subseteq shut
    BY <1>1, <2>7, CloseFacts DEF Disconnect, EndTask, Acknowledge, Inv, Watches
  <2>8. ASSUME NEW c \in Conns, Push(c) \/ GiveUp(c) PROVE shut' \subseteq shut
    BY <2>8 DEF Push, GiveUp
  <2>9. CASE ServiceStep
    BY <2>3, <2>7, <2>8, <2>9 DEF ServiceStep
  <2>. QED
    BY <1>1, <2>1, <2>2, <2>3, <2>4, <2>5, <2>6, <2>7, <2>9 DEF Next, LoopStep, ReadStep, CheckStep
<1>. QED BY <1>1, InvInit, InvNext, PTL DEF Spec, ShutWasIdle
=============================================================================
