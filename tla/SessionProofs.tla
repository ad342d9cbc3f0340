--------------------------- MODULE SessionProofs ---------------------------
(***************************************************************************)
(* Proofs for module Session, for any users, connections and nodes and any *)
(* number of crashes: its types, that the end of a refused connection logs *)
(* nobody off, that the four places agree on a user once nothing is under  *)
(* way, and that friends were told the truth.                              *)
(***************************************************************************)
EXTENDS Session, TLAPS

LEMMA TypeInit == Init => TypeOK
BY FunctionsAssumption, NamesAssumption, CrashAssumption DEF Init, TypeOK

LEMMA LoginType == TypeOK /\ (\E c \in Conns : LoginStep(c)) => TypeOK'
<1>. SUFFICES ASSUME TypeOK, NEW c \in Conns, LoginStep(c) PROVE TypeOK'
  OBVIOUS
<1>. USE FunctionsAssumption DEF procs, stored, ghosts
<1>0. Owner[c] \in Users /\ NodeOf[c] \in Nodes
  OBVIOUS
<1>1. CASE LoginRefused(c)
  BY <1>1 DEF LoginRefused, TypeOK
<1>2. CASE LoginQuery(c)
  BY <1>0, <1>2 DEF LoginQuery, TypeOK, LoginPCs
<1>3. CASE LoginInsert(c)
  BY <1>0, <1>3 DEF LoginInsert, TypeOK, LoginPCs
<1>4. CASE LoginSubscribe(c)
  BY <1>0, <1>4 DEF LoginSubscribe, TypeOK, LoginPCs
<1>5. CASE LoginRoute(c)
  BY <1>0, <1>5 DEF LoginRoute, TypeOK, LoginPCs
<1>6. CASE LoginOnline(c)
  BY <1>0, <1>6 DEF LoginOnline, TypeOK, LoginPCs
<1>7. CASE LoginTell(c)
  BY <1>0, <1>7 DEF LoginTell, Tell, TypeOK
<1>. QED BY <1>1, <1>2, <1>3, <1>4, <1>5, <1>6, <1>7 DEF LoginStep

LEMMA CloseType == TypeOK /\ (\E c \in Conns : CloseStep(c)) => TypeOK'
<1>. SUFFICES ASSUME TypeOK, NEW c \in Conns, CloseStep(c) PROVE TypeOK'
  OBVIOUS
<1>. USE FunctionsAssumption DEF procs, stored, ghosts
<1>0. Owner[c] \in Users /\ NodeOf[c] \in Nodes
  OBVIOUS
<1>1. CASE CloseErase(c)
  BY <1>0, <1>1 DEF CloseErase, TypeOK, ClosePCs
<1>2. CASE CloseStranger(c)
  BY <1>2 DEF CloseStranger, TypeOK
<1>3. CASE CloseOffline(c)
  BY <1>0, <1>3 DEF CloseOffline, TypeOK, ClosePCs
<1>4. CASE CloseUnsubscribe(c)
  BY <1>0, <1>4 DEF CloseUnsubscribe, TypeOK, ClosePCs
<1>5. CASE CloseRoute(c)
  BY <1>0, <1>5 DEF CloseRoute, RouteDeleted, TypeOK, ClosePCs
<1>6. CASE CloseTell(c)
  BY <1>0, <1>6 DEF CloseTell, Tell, TypeOK
<1>. QED BY <1>1, <1>2, <1>3, <1>4, <1>5, <1>6 DEF CloseStep

LEMMA NodeType == TypeOK /\ (\E n \in Nodes : Crash(n) \/ BootStep(n)) => TypeOK'
<1>. SUFFICES ASSUME TypeOK, NEW n \in Nodes, Crash(n) \/ BootStep(n) PROVE TypeOK'
  OBVIOUS
<1>. USE FunctionsAssumption DEF procs, stored, ghosts
<1>1. CASE Crash(n)
  <2>1. crashes' \in 0..MaxCrashes /\ node' \in [Nodes -> {"up", "down", "read", "clean"}]
    BY <1>1, CrashAssumption DEF Crash, TypeOK
  <2>2. connMap' \in [Nodes -> [Users -> Conns \cup {NoConn}]]
    BY <1>1 DEF Crash, TypeOK
  <2>3. subs' \in [Users -> SUBSET Nodes] /\ missed' \subseteq Users
    BY <1>1 DEF Crash, TypeOK
  <2>4. link' \in [Conns -> {"unused", "up", "down"}]
    BY <1>1 DEF Crash, TypeOK
  <2>5. login' \in [Conns -> LoginPCs \cup {"none", "query", "refused", "done"}]
    BY <1>1 DEF Crash, TypeOK
  <2>6. close' \in [Conns -> ClosePCs \cup {"none", "erase", "done"}]
    BY <1>1 DEF Crash, TypeOK
  <2>. QED BY <1>1, <2>1, <2>2, <2>3, <2>4, <2>5, <2>6 DEF Crash, TypeOK
<1>2. CASE BootReset(n)
  BY <1>2 DEF BootReset, RowsReset, TypeOK
<1>3. CASE BootRead(n)
  BY <1>3 DEF BootRead, StaleFields, TypeOK
<1>4. CASE \E u \in Users : BootDelete(n, u)
  BY <1>4 DEF BootDelete, TypeOK
<1>5. CASE BootUp(n)
  BY <1>5 DEF BootUp, TypeOK
<1>. QED BY <1>1, <1>2, <1>3, <1>4, <1>5 DEF BootStep

LEMMA TypeNext == TypeOK /\ [Next]_vars => TypeOK'
<1>. SUFFICES ASSUME TypeOK, [Next]_vars PROVE TypeOK'
  OBVIOUS
<1>1. ASSUME NEW c \in Conns, Connect(c) PROVE TypeOK'
  BY <1>1 DEF Connect, TypeOK, procs, stored, ghosts
<1>2. ASSUME NEW c \in Conns, Disconnect(c) PROVE TypeOK'
  BY <1>2, FunctionsAssumption DEF Disconnect, TypeOK, procs, stored
<1>3. CASE UNCHANGED vars
  BY <1>3 DEF vars, procs, stored, ghosts, TypeOK
<1>. QED BY <1>1, <1>2, <1>3, LoginType, CloseType, NodeType DEF Next

\* Every variable has its type in every reachable state.
THEOREM TypeCorrect == Spec => []TypeOK
BY TypeInit, TypeNext, PTL DEF Spec

-----------------------------------------------------------------------------
(* The invariant: what holds of every connection ...                         *)

\* Let in: past the test of the user's row.
LetIn(c) == login[c] \notin {"none", "query", "refused"}

\* Only a connection that was let in is registered, or logs its user off; one
\* that is not there yet has no login; all of it needs a node that is up.
ConnInv(c) ==
    /\ Registered(c) \/ Leaving(c) => LetIn(c)
    /\ link[c] = "unused" => login[c] = "none" /\ close[c] = "none"
    /\ link[c] = "up" => close[c] = "none" /\ node[NodeOf[c]] = "up"
    /\ login[c] = "query" \/ Registered(c) \/ Entering(c) \/ Leaving(c) => node[NodeOf[c]] = "up"

\* A user is registered with a connection of that user and that node.
MapInv ==
    \A n \in Nodes, u \in Users :
        connMap[n][u] # NoConn => NodeOf[connMap[n][u]] = n /\ Owner[connMap[n][u]] = u

(* ... and of a user whose steps did not overlap. At most one connection of  *)
(* the user is busy, and how far it is says what each place holds.           *)
Busy(c) == Registered(c) \/ Entering(c) \/ Leaving(c)
InChat(c) == Registered(c) /\ login[c] = "done"

Subscribed(c) ==
    login[c] \in {"route", "online", "tell"} \/ InChat(c) \/ close[c] \in {"offline", "unsubscribe"}
Routed(c) ==
    \/ login[c] \in {"online", "tell"} \/ InChat(c)
    \/ close[c] \in {"offline", "unsubscribe", "route"}
Online(c) == login[c] = "tell" \/ InChat(c)
Announced(c) == InChat(c) \/ Leaving(c)

\* A field of n that its start will delete: n is down, has yet to read the hash,
\* or read the field and has yet to delete it.
LeftBehind(n, u) == node[n] \in {"down", "read"} \/ (node[n] = "clean" /\ u \in stale[n])

OneAtATime(u) == \A c, d \in ConnsOf(u) : Busy(c) /\ Busy(d) => c = d

EntryInv(u) ==
    \A c \in ConnsOf(u) :
        /\ Entering(c) => link[c] = "up"
        /\ Registered(c) => link[c] = "up" \/ close[c] = "erase"
        /\ Entering(c) /\ login[c] # "insert" => Registered(c)
        /\ login[c] = "done" /\ link[c] = "up" => Registered(c)

RowInv(u) ==
    /\ \A c \in ConnsOf(u) : Online(c) => row[u] = "online"
    /\ row[u] = "online" =>
        (\E c \in ConnsOf(u) : Online(c) \/ close[c] = "offline") \/ \E n \in Nodes : node[n] = "down"

RouteInv(u) ==
    /\ \A c \in ConnsOf(u) : Routed(c) => route[u] = NodeOf[c]
    /\ route[u] # NoNode => LeftBehind(route[u], u) \/ \E c \in ConnsOf(u) : Routed(c)

SubsInv(u) ==
    /\ \A c \in ConnsOf(u) : Subscribed(c) => subs[u] = {NodeOf[c]}
    /\ subs[u] # {} => \E c \in ConnsOf(u) : Subscribed(c)

ToldInv(u) == u \notin missed => (told[u] = "online" <=> \E c \in ConnsOf(u) : Announced(c))

UserInv(u) ==
    /\ OneAtATime(u) /\ EntryInv(u)
    /\ RowInv(u) /\ RouteInv(u) /\ SubsInv(u) /\ ToldInv(u)

ConnsInv == TypeOK /\ MapInv /\ \A c \in Conns : ConnInv(c)
IInv == ConnsInv /\ \A u \in Users : u \notin disturbed => UserInv(u)

LEMMA ConnsInvInit == Init => ConnsInv
<1>. SUFFICES ASSUME Init PROVE MapInv /\ \A c \in Conns : ConnInv(c)
  BY TypeInit DEF ConnsInv
<1>1. MapInv
  BY DEF Init, MapInv
<1>2. ASSUME NEW c \in Conns PROVE ConnInv(c)
  BY FunctionsAssumption, NamesAssumption
     DEF Init, ConnInv, Registered, Leaving, ClosePCs, Entering, LoginPCs
<1>. QED BY <1>1, <1>2

LEMMA MapNext == ConnsInv /\ [Next]_vars => MapInv'
<1>. SUFFICES ASSUME ConnsInv, [Next]_vars PROVE MapInv'
  OBVIOUS
<1>0. TypeOK /\ MapInv
  BY DEF ConnsInv
<1>. USE <1>0, FunctionsAssumption, NamesAssumption
<1>1. CASE \E c \in Conns : LoginInsert(c)
  BY <1>1 DEF LoginInsert, MapInv, TypeOK
<1>2. CASE \E c \in Conns : CloseErase(c)
  BY <1>2 DEF CloseErase, MapInv, TypeOK
<1>3. CASE \E n \in Nodes : Crash(n)
  BY <1>3 DEF Crash, MapInv, TypeOK
<1>4. CASE UNCHANGED connMap
  BY <1>4 DEF MapInv
<1>. QED
  BY <1>1, <1>2, <1>3, <1>4
     DEF Next, LoginStep, CloseStep, BootStep, Connect, Disconnect, LoginRefused, LoginQuery,
         LoginSubscribe, LoginRoute, LoginOnline, LoginTell, CloseStranger, CloseOffline,
         CloseUnsubscribe, CloseRoute, CloseTell, BootReset, BootRead, BootDelete, BootUp, vars

LEMMA ConnsInvNext == ConnsInv /\ [Next]_vars => ConnsInv'
<1>. SUFFICES ASSUME ConnsInv, [Next]_vars, NEW c \in Conns PROVE ConnInv(c)'
  BY TypeNext, MapNext DEF ConnsInv
<1>. USE FunctionsAssumption DEF ConnsInv, ConnInv, Registered, Entering, Leaving, LetIn
<1>0. TypeOK /\ Owner[c] \in Users /\ NodeOf[c] \in Nodes /\ c # NoConn /\ ConnInv(c)
  BY NamesAssumption
<1>. USE <1>0
<1>1. ASSUME NEW d \in Conns, LoginStep(d) PROVE ConnInv(c)'
  <2>1. Owner[d] \in Users /\ NodeOf[d] \in Nodes
    OBVIOUS
  <2>2. CASE LoginInsert(d)
    <3>1. CASE d = c
      BY <2>2, <3>1 DEF LoginInsert, LoginPCs, procs, TypeOK
    <3>2. CASE d # c
      <4>1. Registered(c)' => Registered(c)
        BY <2>1, <2>2, <3>2 DEF LoginInsert, TypeOK
      <4>2. UNCHANGED <<login[c], close[c], link[c], node>>
        BY <2>2, <3>2 DEF LoginInsert, procs, TypeOK
      <4>. QED BY <4>1, <4>2
    <3>. QED BY <3>1, <3>2
  <2>3. CASE LoginRefused(d) \/ LoginQuery(d)
    <3>1. UNCHANGED <<connMap, close, link, node>>
      BY <2>3 DEF LoginRefused, LoginQuery, procs, stored
    <3>2. /\ login[c] \in LoginPCs \cup {"done"} => login'[c] = login[c]
          /\ login[c] = "none" => login'[c] = "none"
      BY <2>3 DEF LoginRefused, LoginQuery, LoginPCs, TypeOK
    <3>3. LetIn(c) => LetIn(c)'
      BY <3>2 DEF LoginPCs, TypeOK
    <3>4. /\ Entering(c)' => Entering(c) \/ login[c] = "query"
          /\ login'[c] = "query" => login[c] = "query"
      BY <2>3 DEF LoginRefused, LoginQuery, TypeOK
    <3>. QED BY <3>1, <3>2, <3>3, <3>4
  <2>4. CASE LoginSubscribe(d) \/ LoginRoute(d) \/ LoginOnline(d) \/ LoginTell(d)
    BY <2>4 DEF LoginSubscribe, LoginRoute, LoginOnline, LoginTell, LoginPCs, procs, TypeOK
  <2>. QED BY <1>1, <2>2, <2>3, <2>4 DEF LoginStep
<1>2. ASSUME NEW d \in Conns, CloseStep(d) PROVE ConnInv(c)'
  <2>1. Owner[d] \in Users /\ NodeOf[d] \in Nodes
    OBVIOUS
  <2>0. close[d] # "none" /\ close'[d] # "none" /\ (close'[c] = close[c] \/ d = c)
    BY <1>2 DEF CloseStep, CloseErase, CloseStranger, CloseOffline, CloseUnsubscribe, CloseRoute,
                CloseTell, TypeOK
  <2>2. CASE CloseErase(d)
    <3>1. Registered(c)' => Registered(c)
      BY <2>1, <2>2 DEF CloseErase, TypeOK
    <3>2. Leaving(c)' => Leaving(c) \/ Registered(c)
      BY <2>2 DEF CloseErase, Found, TypeOK, ClosePCs
    <3>3. login' = login /\ link' = link /\ node' = node
      BY <2>2 DEF CloseErase, procs
    <3>. QED BY <2>0, <3>1, <3>2, <3>3
  <2>3. CASE \/ CloseStranger(d) \/ CloseOffline(d) \/ CloseUnsubscribe(d)
             \/ CloseRoute(d) \/ CloseTell(d)
    <3>1. connMap' = connMap /\ login' = login /\ link' = link /\ node' = node
      BY <2>3 DEF CloseStranger, CloseOffline, CloseUnsubscribe, CloseRoute, CloseTell, procs
    <3>2. Leaving(c)' => Leaving(c)
      BY <2>3 DEF CloseStranger, CloseOffline, CloseUnsubscribe, CloseRoute, CloseTell,
                  TypeOK, ClosePCs
    <3>. QED BY <2>0, <3>1, <3>2
  <2>. QED BY <1>2, <2>2, <2>3 DEF CloseStep
<1>3. ASSUME NEW n \in Nodes, Crash(n) PROVE ConnInv(c)'
  <2>1. Registered(c)' => Registered(c) /\ NodeOf[c] # n
    BY <1>3 DEF Crash, TypeOK
  <2>2. Leaving(c)' => Leaving(c) /\ NodeOf[c] # n
    BY <1>3 DEF Crash, On, TypeOK, ClosePCs
  <2>3. LetIn(c) => LetIn(c)'
    BY <1>3 DEF Crash, TypeOK
  <2>4. /\ link'[c] = "unused" => link[c] = "unused"
        /\ link'[c] = "up" => link[c] = "up" /\ NodeOf[c] # n
    BY <1>3 DEF Crash, On, TypeOK
  <2>5. /\ login[c] = "none" => login'[c] = "none"
        /\ close[c] = "none" => close'[c] = "none"
    BY <1>3 DEF Crash, LoginPCs, TypeOK
  <2>6. /\ Entering(c)' => Entering(c) /\ NodeOf[c] # n
        /\ login'[c] = "query" => login[c] = "query" /\ NodeOf[c] # n
    BY <1>3 DEF Crash, On, LoginPCs, TypeOK
  <2>7. NodeOf[c] # n => node'[NodeOf[c]] = node[NodeOf[c]]
    BY <1>3 DEF Crash, TypeOK
  <2>. QED BY <2>1, <2>2, <2>3, <2>4, <2>5, <2>6, <2>7
<1>4. ASSUME NEW n \in Nodes, BootStep(n) PROVE ConnInv(c)'
  <2>1. UNCHANGED <<connMap, login, close, link>>
    BY <1>4 DEF BootStep, BootReset, BootRead, BootDelete, BootUp
  <2>2. node[NodeOf[c]] = "up" => node'[NodeOf[c]] = "up"
    BY <1>4 DEF BootStep, BootReset, BootRead, BootDelete, BootUp, TypeOK
  <2>. QED BY <2>1, <2>2
<1>5. ASSUME NEW d \in Conns, Connect(d) PROVE ConnInv(c)'
  <2>1. connMap' = connMap /\ close' = close /\ node' = node
    BY <1>5 DEF Connect, stored, procs
  <2>2. CASE d = c
    <3>1. ~LetIn(c) /\ link[c] = "unused" /\ link'[c] = "up" /\ login'[c] = "query" /\ node[NodeOf[c]] = "up"
      BY <1>5, <2>2 DEF Connect, TypeOK
    <3>. QED BY <2>1, <3>1 DEF LoginPCs
  <2>3. CASE d # c
    <3>1. UNCHANGED <<link[c], login[c]>>
      BY <1>5, <2>3 DEF Connect, TypeOK
    <3>. QED BY <2>1, <3>1
  <2>. QED BY <2>2, <2>3
<1>6. ASSUME NEW d \in Conns, Disconnect(d) PROVE ConnInv(c)'
  BY <1>6 DEF Disconnect, procs, TypeOK, ClosePCs
<1>7. CASE UNCHANGED vars
  BY <1>7 DEF vars, procs
<1>. QED BY <1>1, <1>2, <1>3, <1>4, <1>5, <1>6, <1>7 DEF Next

\* For any number of users, connections and nodes, and whatever is under way:
\* the end of a refused connection logs nobody off.
THEOREM RefusedIsHarmlessAlways == Spec => []RefusedIsHarmless
<1>1. ConnsInv => RefusedIsHarmless
  BY DEF ConnsInv, ConnInv, LetIn, RefusedIsHarmless
<1>. QED BY <1>1, ConnsInvInit, ConnsInvNext, PTL DEF Spec
-----------------------------------------------------------------------------
(* A step that does not concern a connection, or a user.                     *)
SameConn(c) == UNCHANGED <<link[c], login[c], close[c], Registered(c)>>
SameUser(u) == UNCHANGED <<row[u], route[u], subs[u], told[u], u \in missed>>

LEMMA SamePhase ==
  ASSUME NEW c \in Conns, SameConn(c)
  PROVE  /\ Busy(c)' <=> Busy(c)
         /\ Entering(c)' <=> Entering(c)
         /\ InChat(c)' <=> InChat(c)
         /\ Subscribed(c)' <=> Subscribed(c)
         /\ Routed(c)' <=> Routed(c)
         /\ Online(c)' <=> Online(c)
         /\ Announced(c)' <=> Announced(c)
BY DEF SameConn, Busy, Entering, Leaving, InChat, Subscribed, Routed, Online, Announced

\* What is busy shows in its phase only.
LEMMA PhaseIsBusy ==
  ASSUME NEW c \in Conns
  PROVE  Subscribed(c) \/ Routed(c) \/ Online(c) \/ Announced(c) \/ close[c] = "offline" => Busy(c)
BY DEF Subscribed, Routed, Online, Announced, InChat, Busy, Entering, Leaving, LoginPCs, ClosePCs

LEMMA Untouched ==
  ASSUME NEW u \in Users, UserInv(u), SameUser(u), \A c \in ConnsOf(u) : SameConn(c),
         UNCHANGED <<node, stale>>
  PROVE  UserInv(u)'
<1>1. \A c \in ConnsOf(u) : c \in Conns
  BY DEF ConnsOf
<1>2. ConnsOf(u)' = ConnsOf(u)
  BY DEF ConnsOf
<1>3. OneAtATime(u)'
  BY <1>1, <1>2, SamePhase DEF UserInv, OneAtATime
<1>4. EntryInv(u)'
  BY <1>1, <1>2, SamePhase DEF UserInv, EntryInv, SameConn
<1>5. RowInv(u)'
  BY <1>1, <1>2, SamePhase DEF UserInv, RowInv, SameConn, SameUser
<1>6. RouteInv(u)'
  BY <1>1, <1>2, SamePhase DEF UserInv, RouteInv, SameUser, LeftBehind
<1>7. SubsInv(u)'
  BY <1>1, <1>2, SamePhase DEF UserInv, SubsInv, SameUser
<1>8. ToldInv(u)'
  BY <1>1, <1>2, SamePhase DEF UserInv, ToldInv, SameUser
<1>. QED BY <1>3, <1>4, <1>5, <1>6, <1>7, <1>8 DEF UserInv

\* What a step of one connection leaves alone.
LEMMA OwnStep ==
  ASSUME TypeOK, NEW c \in Conns, Connect(c) \/ Disconnect(c) \/ LoginStep(c) \/ CloseStep(c)
  PROVE  /\ \A d \in Conns \ {c} : SameConn(d)
         /\ \A u \in Users \ {Owner[c]} : SameUser(u)
         /\ UNCHANGED <<node, stale>>
<1>. USE FunctionsAssumption, NamesAssumption DEF procs, stored, ghosts
<1>0. Owner[c] \in Users /\ NodeOf[c] \in Nodes
  OBVIOUS
<1>1. UNCHANGED <<node, stale>>
  BY DEF Connect, Disconnect, LoginStep, CloseStep, LoginRefused, LoginQuery, LoginInsert,
         LoginSubscribe, LoginRoute, LoginOnline, LoginTell, CloseErase, CloseStranger, CloseOffline,
         CloseUnsubscribe, CloseRoute, CloseTell
<1>2. ASSUME NEW d \in Conns \ {c} PROVE SameConn(d)
  <2>1. UNCHANGED <<link[d], login[d], close[d]>>
    BY DEF Connect, Disconnect, LoginStep, CloseStep, LoginRefused, LoginQuery, LoginInsert,
         LoginSubscribe, LoginRoute, LoginOnline, LoginTell, CloseErase, CloseStranger, CloseOffline,
         CloseUnsubscribe, CloseRoute, CloseTell, TypeOK
  <2>2. CASE LoginInsert(c) \/ CloseErase(c)
    <3>. DEFINE place == connMap[NodeOf[d]][Owner[d]]
    <3>1. NodeOf[d] \in Nodes /\ Owner[d] \in Users /\ d # NoConn /\ d # c
      OBVIOUS
    <3>2. ASSUME LoginInsert(c) PROVE Registered(d)' <=> Registered(d)
      <4>1. place' = place \/ (place = NoConn /\ place' = c)
        BY <1>0, <3>1, <3>2 DEF LoginInsert, TypeOK
      <4>. QED BY <3>1, <4>1 DEF Registered
    <3>3. ASSUME CloseErase(c) PROVE Registered(d)' <=> Registered(d)
      <4>1. place' = place \/ (place = c /\ place' = NoConn)
        BY <1>0, <3>1, <3>3 DEF CloseErase, Found, Registered, TypeOK
      <4>. QED BY <3>1, <4>1 DEF Registered
    <3>4. Registered(d)' <=> Registered(d)
      BY <2>2, <3>2, <3>3
    <3>. QED BY <2>1, <3>4 DEF SameConn, Registered
  <2>3. CASE UNCHANGED connMap
    BY <2>1, <2>3 DEF SameConn, Registered
  <2>. QED BY <2>2, <2>3 DEF Connect, Disconnect, LoginStep, CloseStep, LoginRefused, LoginQuery,
         LoginSubscribe, LoginRoute, LoginOnline, LoginTell, CloseStranger, CloseOffline,
         CloseUnsubscribe, CloseRoute, CloseTell
<1>3. ASSUME NEW u \in Users \ {Owner[c]} PROVE SameUser(u)
  <2>1. UNCHANGED <<row[u], route[u], subs[u]>>
    BY <1>0 DEF Connect, Disconnect, LoginStep, CloseStep, LoginRefused, LoginQuery, LoginInsert,
         LoginSubscribe, LoginRoute, LoginOnline, LoginTell, CloseErase, CloseStranger, CloseOffline,
         CloseUnsubscribe, CloseRoute, RouteDeleted, CloseTell, TypeOK
  <2>2. UNCHANGED told[u] /\ (u \in missed' <=> u \in missed)
    BY <1>0 DEF Connect, Disconnect, LoginStep, CloseStep, LoginRefused, LoginQuery, LoginInsert,
         LoginSubscribe, LoginRoute, LoginOnline, LoginTell, CloseErase, CloseStranger, CloseOffline,
         CloseUnsubscribe, CloseRoute, Tell, CloseTell, TypeOK
  <2>. QED BY <2>1, <2>2 DEF SameUser
<1>. QED BY <1>1, <1>2, <1>3
-----------------------------------------------------------------------------
(* The invariant of a user when no other connection of the user is busy: a   *)
(* statement about one connection and the user's places.                     *)
OthersIdle(c) ==
    \A d \in ConnsOf(Owner[c]) : d # c => ~Busy(d) /\ ~(login[d] = "done" /\ link[d] = "up")

OnlyConn(c) ==
    LET u == Owner[c] IN
    /\ Entering(c) => link[c] = "up"
    /\ Registered(c) => link[c] = "up" \/ close[c] = "erase"
    /\ Entering(c) /\ login[c] # "insert" => Registered(c)
    /\ login[c] = "done" /\ link[c] = "up" => Registered(c)
    /\ Online(c) => row[u] = "online"
    /\ row[u] = "online" => Online(c) \/ close[c] = "offline" \/ \E n \in Nodes : node[n] = "down"
    /\ Routed(c) => route[u] = NodeOf[c]
    /\ route[u] # NoNode => LeftBehind(route[u], u) \/ Routed(c)
    /\ Subscribed(c) => subs[u] = {NodeOf[c]}
    /\ subs[u] # {} => Subscribed(c)
    /\ u \notin missed => (told[u] = "online" <=> Announced(c))

LEMMA ToOnlyConn ==
  ASSUME NEW c \in Conns, UserInv(Owner[c]), OthersIdle(c)
  PROVE  OnlyConn(c)
<1>. DEFINE u == Owner[c]
<1>1. c \in ConnsOf(u) /\ \A d \in ConnsOf(u) : d \in Conns
  BY DEF ConnsOf
<1>2. \A d \in ConnsOf(u) :
         Subscribed(d) \/ Routed(d) \/ Online(d) \/ Announced(d) \/ close[d] = "offline" => d = c
  BY <1>1, PhaseIsBusy DEF OthersIdle
<1>3. EntryInv(u) /\ RowInv(u) /\ RouteInv(u) /\ SubsInv(u) /\ ToldInv(u)
  BY DEF UserInv
<1>4. row[u] = "online" => Online(c) \/ close[c] = "offline" \/ \E n \in Nodes : node[n] = "down"
  BY <1>1, <1>2, <1>3 DEF RowInv
<1>5. route[u] # NoNode => LeftBehind(route[u], u) \/ Routed(c)
  BY <1>1, <1>2, <1>3 DEF RouteInv
<1>6. subs[u] # {} => Subscribed(c)
  BY <1>1, <1>2, <1>3 DEF SubsInv
<1>7. u \notin missed => (told[u] = "online" <=> Announced(c))
  BY <1>1, <1>2, <1>3 DEF ToldInv
<1>8. /\ Online(c) => row[u] = "online"
      /\ Routed(c) => route[u] = NodeOf[c]
      /\ Subscribed(c) => subs[u] = {NodeOf[c]}
  BY <1>1, <1>3 DEF RowInv, RouteInv, SubsInv
<1>9. /\ Entering(c) => link[c] = "up"
      /\ Registered(c) => link[c] = "up" \/ close[c] = "erase"
      /\ Entering(c) /\ login[c] # "insert" => Registered(c)
      /\ login[c] = "done" /\ link[c] = "up" => Registered(c)
  BY <1>1, <1>3 DEF EntryInv
<1>. QED BY <1>4, <1>5, <1>6, <1>7, <1>8, <1>9 DEF OnlyConn

LEMMA FromOnlyConn == \A c \in Conns : OnlyConn(c) /\ OthersIdle(c) => UserInv(Owner[c])
<1>. SUFFICES ASSUME NEW c \in Conns, OnlyConn(c), OthersIdle(c) PROVE UserInv(Owner[c])
  OBVIOUS
<1>. DEFINE u == Owner[c]
<1>1. c \in ConnsOf(u) /\ \A d \in ConnsOf(u) : d \in Conns
  BY DEF ConnsOf
<1>2. \A d \in ConnsOf(u) :
         /\ Subscribed(d) \/ Routed(d) \/ Online(d) \/ Announced(d) \/ close[d] = "offline" => d = c
         /\ Entering(d) \/ Registered(d) => d = c
  BY <1>1, PhaseIsBusy DEF OthersIdle, Busy
<1>3. OneAtATime(u)
  BY DEF OneAtATime, OthersIdle
<1>4. EntryInv(u)
  BY <1>1, <1>2 DEF EntryInv, OnlyConn, OthersIdle
<1>5. RowInv(u)
  BY <1>1, <1>2 DEF RowInv, OnlyConn
<1>6. RouteInv(u)
  BY <1>1, <1>2 DEF RouteInv, OnlyConn
<1>7. SubsInv(u)
  BY <1>1, <1>2 DEF SubsInv, OnlyConn
<1>8. ToldInv(u)
  BY <1>1, <1>2 DEF ToldInv, OnlyConn
<1>. QED BY <1>3, <1>4, <1>5, <1>6, <1>7, <1>8 DEF UserInv

LEMMA FromOnlyConnNext == (\A c \in Conns : OnlyConn(c) /\ OthersIdle(c) => UserInv(Owner[c]))'
BY FromOnlyConn, PTL

\* A step of c, the only connection of its user that is busy.
LEMMA OnlyStep ==
  ASSUME NEW c \in Conns, OthersIdle(c), OnlyConn(c)', \A d \in Conns \ {c} : SameConn(d)
  PROVE  UserInv(Owner[c])'
<1>1. OthersIdle(c)'
  BY SamePhase DEF OthersIdle, ConnsOf, SameConn
<1>. QED BY <1>1, FromOnlyConnNext

\* A step of c that neither finds nor leaves it busy.
LEMMA IdleStep ==
  ASSUME NEW c \in Conns, UserInv(Owner[c]), ~Busy(c), ~Busy(c)', SameUser(Owner[c]),
         login'[c] # "done" \/ link'[c] # "up",
         \A d \in Conns \ {c} : SameConn(d), UNCHANGED <<node, stale>>
  PROVE  UserInv(Owner[c])'
<1>. DEFINE u == Owner[c]
<1>1. ConnsOf(u)' = ConnsOf(u) /\ \A d \in ConnsOf(u) : d \in Conns
  BY DEF ConnsOf
<1>2. ~Entering(c)' /\ ~Registered(c)'
  BY DEF Busy
<1>3. ~(Subscribed(c) \/ Routed(c) \/ Online(c) \/ Announced(c) \/ close[c] = "offline")
  BY PhaseIsBusy
<1>4. ~(Subscribed(c) \/ Routed(c) \/ Online(c) \/ Announced(c) \/ close[c] = "offline")'
  BY DEF Subscribed, Routed, Online, Announced, InChat, Busy, Entering, Leaving, LoginPCs, ClosePCs
<1>5. \A d \in ConnsOf(u) :
         /\ Busy(d)' <=> Busy(d)
         /\ Subscribed(d)' <=> Subscribed(d)
         /\ Routed(d)' <=> Routed(d)
         /\ Online(d)' <=> Online(d)
         /\ Announced(d)' <=> Announced(d)
         /\ close'[d] = "offline" <=> close[d] = "offline"
  BY <1>1, <1>3, <1>4, SamePhase DEF SameConn
<1>6. OneAtATime(u)'
  BY <1>1, <1>5 DEF UserInv, OneAtATime
<1>7. EntryInv(u)'
  BY <1>1, <1>2, SamePhase DEF UserInv, EntryInv, SameConn
<1>8. RowInv(u)'
  BY <1>1, <1>5 DEF UserInv, RowInv, SameUser
<1>9. RouteInv(u)'
  BY <1>1, <1>5 DEF UserInv, RouteInv, SameUser, LeftBehind
<1>10. SubsInv(u)'
  BY <1>1, <1>5 DEF UserInv, SubsInv, SameUser
<1>11. ToldInv(u)'
  BY <1>1, <1>5 DEF UserInv, ToldInv, SameUser
<1>. QED BY <1>6, <1>7, <1>8, <1>9, <1>10, <1>11 DEF UserInv
LEMMA BusyAlone ==
  ASSUME NEW c \in Conns, UserInv(Owner[c]), Busy(c)
  PROVE  OthersIdle(c) /\ OnlyConn(c)
<1>1. OthersIdle(c)
  BY DEF UserInv, OneAtATime, EntryInv, OthersIdle, ConnsOf, Busy
<1>. QED BY <1>1, ToOnlyConn

-----------------------------------------------------------------------------
(* A step of one connection, for its user.                                   *)
LEMMA LoginUser ==
  ASSUME ConnsInv, NEW c \in Conns, LoginStep(c), Owner[c] \notin disturbed', UserInv(Owner[c])
  PROVE  UserInv(Owner[c])'
<1>. DEFINE u == Owner[c]
<1>. USE FunctionsAssumption, NamesAssumption
<1>0. TypeOK /\ MapInv /\ ConnInv(c) /\ u \in Users /\ NodeOf[c] \in Nodes /\ c # NoConn
  BY DEF ConnsInv
<1>1. \A d \in Conns \ {c} : SameConn(d)
  BY <1>0, OwnStep
<1>2. UNCHANGED <<node, stale>>
  BY <1>0, OwnStep
<1>3. CASE LoginRefused(c)
  <2>1. ~Busy(c) /\ ~Busy(c)'
    BY <1>0, <1>3 DEF LoginRefused, Busy, ConnInv, LetIn, Entering, LoginPCs, Leaving, Registered, TypeOK
  <2>2. SameUser(u)
    BY <1>3 DEF LoginRefused, SameUser, stored, ghosts
  <2>3. login'[c] # "done"
    BY <1>0, <1>3 DEF LoginRefused, TypeOK
  <2>. QED BY <1>1, <1>2, <2>1, <2>2, <2>3, IdleStep
<1>4. CASE LoginQuery(c)
  <2>1. link[c] # "down" /\ ~InSession(u) /\ \A d \in ConnsOf(u) : ~Leaving(d)
    BY <1>4 DEF LoginQuery
  <2>2. \A d \in ConnsOf(u) : ~Busy(d)
    BY <2>1 DEF InSession, Busy
  <2>3. OthersIdle(c) /\ OnlyConn(c)
    BY <2>2, ToOnlyConn DEF OthersIdle, UserInv, EntryInv, Busy
  <2>4. ~Busy(c) /\ link[c] = "up" /\ close[c] = "none"
    BY <1>0, <1>4, <2>1, <2>2 DEF ConnsOf, ConnInv, LoginQuery, TypeOK
  <2>5. /\ login'[c] = "insert" /\ row[u] = "offline"
        /\ UNCHANGED <<link, close, connMap, row, route, subs, told, missed>>
    BY <1>0, <1>4 DEF LoginQuery, TypeOK, stored
  <2>6. OnlyConn(c)'
    BY <1>2, <2>3, <2>4, <2>5
       DEF OnlyConn, Busy, Registered, Entering, LoginPCs, Leaving, ClosePCs, InChat,
           Subscribed, Routed, Online, Announced, LeftBehind
  <2>. QED BY <1>1, <2>3, <2>6, OnlyStep
<1>5. ASSUME LoginInsert(c) \/ LoginSubscribe(c) \/ LoginRoute(c) \/ LoginOnline(c) \/ LoginTell(c)
      PROVE  OthersIdle(c) /\ OnlyConn(c) /\ ~Leaving(c) /\ link[c] = "up"
  <2>1. Entering(c)
    BY <1>5 DEF LoginInsert, LoginSubscribe, LoginRoute, LoginOnline, LoginTell, Entering, LoginPCs
  <2>2. OthersIdle(c) /\ OnlyConn(c)
    BY <2>1, BusyAlone DEF Busy
  <2>. QED BY <1>0, <2>1, <2>2 DEF OnlyConn, ConnInv, Leaving, ClosePCs
<1>. USE DEF OnlyConn, Registered, Entering, LoginPCs, Leaving, ClosePCs, InChat,
             Subscribed, Routed, Online, Announced, LeftBehind
<1>6. CASE LoginInsert(c)
  <2>1. connMap[NodeOf[c]][u] = NoConn \/ Registered(c)
    <3>. DEFINE d == connMap[NodeOf[c]][u]
    <3>1. CASE d # NoConn
      <4>1. d \in Conns /\ NodeOf[d] = NodeOf[c] /\ Owner[d] = u
        BY <1>0, <3>1 DEF MapInv, TypeOK
      <4>2. Busy(d) /\ d \in ConnsOf(u)
        BY <4>1 DEF Busy, ConnsOf
      <4>. QED BY <4>2, <1>5, <1>6 DEF OthersIdle
    <3>. QED BY <3>1
  <2>2. Registered(c)' /\ login[c] = "insert" /\ login'[c] = "subscribe"
    BY <1>0, <1>6, <2>1 DEF LoginInsert, TypeOK
  <2>3. OnlyConn(c)'
    BY <1>2, <1>5, <1>6, <2>2 DEF LoginInsert, stored, ghosts
  <2>. QED BY <1>1, <1>5, <1>6, <2>3, OnlyStep
<1>7. CASE LoginSubscribe(c)
  <2>1. login[c] = "subscribe" /\ login'[c] = "route" /\ subs'[u] = subs[u] \cup {NodeOf[c]}
    BY <1>0, <1>7 DEF LoginSubscribe, TypeOK
  <2>2. UNCHANGED <<link, close, connMap, row, route, told, missed>>
    BY <1>7 DEF LoginSubscribe, ghosts
  <2>3. subs'[u] = {NodeOf[c]}
    BY <1>5, <1>7, <2>1
  <2>4. OnlyConn(c)'
    BY <1>2, <1>5, <1>7, <2>1, <2>2, <2>3
  <2>. QED BY <1>1, <1>5, <1>7, <2>4, OnlyStep
<1>8. CASE LoginRoute(c)
  <2>1. login[c] = "route" /\ login'[c] = "online" /\ route'[u] = NodeOf[c]
    BY <1>0, <1>8 DEF LoginRoute, TypeOK
  <2>2. UNCHANGED <<link, close, connMap, row, subs, told, missed>>
    BY <1>8 DEF LoginRoute, ghosts
  <2>3. OnlyConn(c)'
    BY <1>2, <1>5, <1>8, <2>1, <2>2
  <2>. QED BY <1>1, <1>5, <1>8, <2>3, OnlyStep
<1>9. CASE LoginOnline(c)
  <2>1. login[c] = "online" /\ login'[c] = "tell" /\ row'[u] = "online"
    BY <1>0, <1>9 DEF LoginOnline, TypeOK
  <2>2. UNCHANGED <<link, close, connMap, route, subs, told, missed>>
    BY <1>9 DEF LoginOnline, ghosts
  <2>3. OnlyConn(c)'
    BY <1>2, <1>5, <1>9, <2>1, <2>2
  <2>. QED BY <1>1, <1>5, <1>9, <2>3, OnlyStep
<1>10. CASE LoginTell(c)
  <2>1. login[c] = "tell" /\ login'[c] = "done" /\ told'[u] = "online"
    BY <1>0, <1>10 DEF LoginTell, Tell, TypeOK
  <2>2. UNCHANGED <<link, close, connMap, row, route, subs>>
    BY <1>10 DEF LoginTell
  <2>3. OnlyConn(c)'
    BY <1>2, <1>5, <1>10, <2>1, <2>2
  <2>. QED BY <1>1, <1>5, <1>10, <2>3, OnlyStep
<1>. QED BY <1>3, <1>4, <1>6, <1>7, <1>8, <1>9, <1>10 DEF LoginStep
LEMMA CloseUser ==
  ASSUME ConnsInv, NEW c \in Conns, CloseStep(c), Owner[c] \notin disturbed', UserInv(Owner[c])
  PROVE  UserInv(Owner[c])'
<1>. DEFINE u == Owner[c]
<1>. USE FunctionsAssumption, NamesAssumption
<1>0. TypeOK /\ ConnInv(c) /\ u \in Users /\ NodeOf[c] \in Nodes /\ c # NoConn
  BY DEF ConnsInv
<1>1. \A d \in Conns \ {c} : SameConn(d)
  BY <1>0, OwnStep
<1>2. UNCHANGED <<node, stale>>
  BY <1>0, OwnStep
<1>3. link[c] = "down"
  BY <1>0 DEF CloseStep, CloseErase, CloseStranger, CloseOffline, CloseUnsubscribe, CloseRoute,
              CloseTell, ConnInv, TypeOK
<1>4. CASE CloseStranger(c)
  <2>1. close[c] = "erase" /\ close'[c] = "done" /\ UNCHANGED <<link, login, connMap>>
    BY <1>0, <1>4 DEF CloseStranger, TypeOK
  <2>2. ~Registered(c) /\ ~Registered(c)' /\ SameUser(u)
    BY <1>4 DEF CloseStranger, Found, Registered, SameUser, stored, ghosts
  <2>3. ~Entering(c)
    BY <1>0, <1>3 DEF UserInv, EntryInv, ConnsOf
  <2>4. ~Busy(c) /\ ~Busy(c)'
    BY <2>1, <2>2, <2>3 DEF Busy, Leaving, ClosePCs, Entering
  <2>. QED BY <1>1, <1>2, <1>3, <2>1, <2>2, <2>4, IdleStep
<1>. USE DEF Registered, Entering, LoginPCs, Leaving, ClosePCs
<1>5. ASSUME ~CloseStranger(c)
      PROVE  OthersIdle(c) /\ OnlyConn(c) /\ login[c] = "done"
  <2>1. Busy(c)
    BY <1>5 DEF CloseStep, CloseErase, CloseOffline, CloseUnsubscribe, CloseRoute, CloseTell, Found,
                Busy
  <2>2. OthersIdle(c) /\ OnlyConn(c)
    BY <2>1, BusyAlone
  <2>3. login[c] \notin LoginPCs
    BY <1>3, <2>2 DEF OnlyConn
  <2>. QED BY <1>0, <2>1, <2>2, <2>3 DEF ConnInv, LetIn, Busy, TypeOK
<1>. USE DEF OnlyConn, InChat, Subscribed, Routed, Online, Announced, LeftBehind
<1>6. CASE CloseErase(c)
  <2>1. /\ close[c] = "erase" /\ close'[c] = "offline" /\ InChat(c) /\ ~Registered(c)'
        /\ UNCHANGED <<link, login, row, route, subs, told, missed>>
    BY <1>0, <1>5, <1>6 DEF CloseErase, CloseStranger, Found, TypeOK, stored, ghosts
  <2>2. OnlyConn(c)'
    BY <1>2, <1>3, <1>5, <1>6, <2>1 DEF CloseErase, CloseStranger
  <2>. QED BY <1>1, <1>5, <1>6, <2>2, OnlyStep DEF CloseErase, CloseStranger
<1>7. CASE CloseOffline(c)
  <2>1. /\ close[c] = "offline" /\ close'[c] = "unsubscribe" /\ row'[u] = "offline"
        /\ UNCHANGED <<link, login, connMap, route, subs, told, missed>>
    BY <1>0, <1>7 DEF CloseOffline, TypeOK, ghosts
  <2>2. ~CloseStranger(c)
    BY <2>1 DEF CloseStranger
  <2>3. OnlyConn(c)'
    BY <1>2, <1>3, <1>5, <2>1, <2>2
  <2>. QED BY <1>1, <1>5, <2>2, <2>3, OnlyStep
<1>8. CASE CloseUnsubscribe(c)
  <2>1. /\ close[c] = "unsubscribe" /\ close'[c] = "route" /\ subs'[u] = subs[u] \ {NodeOf[c]}
        /\ UNCHANGED <<link, login, connMap, row, route, told, missed>>
    BY <1>0, <1>8 DEF CloseUnsubscribe, TypeOK, ghosts
  <2>2. ~CloseStranger(c)
    BY <2>1 DEF CloseStranger
  <2>3. subs'[u] = {}
    BY <1>5, <2>1, <2>2
  <2>4. OnlyConn(c)'
    BY <1>2, <1>3, <1>5, <2>1, <2>2, <2>3
  <2>. QED BY <1>1, <1>5, <2>2, <2>4, OnlyStep
<1>9. CASE CloseRoute(c)
  <2>1. /\ close[c] = "route" /\ close'[c] = "tell" /\ route'[u] = NoNode
        /\ UNCHANGED <<link, login, connMap, row, subs, told, missed>>
    BY <1>0, <1>9 DEF CloseRoute, RouteDeleted, TypeOK, ghosts
  <2>2. ~CloseStranger(c)
    BY <2>1 DEF CloseStranger
  <2>3. OnlyConn(c)'
    BY <1>2, <1>3, <1>5, <2>1, <2>2
  <2>. QED BY <1>1, <1>5, <2>2, <2>3, OnlyStep
<1>10. CASE CloseTell(c)
  <2>1. /\ close[c] = "tell" /\ close'[c] = "done" /\ told'[u] = "offline"
        /\ UNCHANGED <<link, login, connMap, row, route, subs>>
    BY <1>0, <1>10 DEF CloseTell, Tell, TypeOK
  <2>2. ~CloseStranger(c)
    BY <2>1 DEF CloseStranger
  <2>3. ~InChat(c)
    BY <1>3, <1>5, <2>1, <2>2
  <2>4. OnlyConn(c)'
    BY <1>2, <1>3, <1>5, <2>1, <2>2, <2>3
  <2>. QED BY <1>1, <1>5, <2>2, <2>4, OnlyStep
<1>. QED BY <1>4, <1>6, <1>7, <1>8, <1>9, <1>10 DEF CloseStep

LEMMA LinkUser ==
  ASSUME ConnsInv, NEW c \in Conns, Connect(c) \/ Disconnect(c), Owner[c] \notin disturbed',
         UserInv(Owner[c])
  PROVE  UserInv(Owner[c])'
<1>. DEFINE u == Owner[c]
<1>. USE FunctionsAssumption, NamesAssumption
<1>0. TypeOK /\ ConnInv(c) /\ u \in Users /\ NodeOf[c] \in Nodes /\ c # NoConn
  BY DEF ConnsInv
<1>1. \A d \in Conns \ {c} : SameConn(d)
  BY <1>0, OwnStep
<1>2. UNCHANGED <<node, stale>>
  BY <1>0, OwnStep
<1>3. SameUser(u)
  BY DEF Connect, Disconnect, SameUser, stored, ghosts
<1>4. connMap' = connMap
  BY DEF Connect, Disconnect
<1>. USE DEF Registered, Entering, LoginPCs, Leaving, ClosePCs
<1>5. CASE Connect(c)
  <2>1. login[c] = "none" /\ close[c] = "none" /\ login'[c] = "query" /\ close' = close
    BY <1>0, <1>5 DEF Connect, ConnInv, TypeOK
  <2>2. ~Busy(c) /\ ~Busy(c)'
    BY <1>0, <1>4, <2>1 DEF ConnInv, LetIn, Busy
  <2>. QED BY <1>1, <1>2, <1>3, <2>1, <2>2, IdleStep
<1>6. CASE Disconnect(c)
  <2>1. /\ link[c] = "up" /\ close[c] = "none" /\ link'[c] = "down" /\ close'[c] = "erase"
        /\ login' = login
    BY <1>0, <1>6 DEF Disconnect, ConnInv, TypeOK
  <2>2. CASE Busy(c)
    <3>1. OthersIdle(c) /\ OnlyConn(c)
      BY <2>2, BusyAlone
    <3>2. ~Entering(c)
      BY <1>6 DEF Disconnect
    <3>3. OnlyConn(c)'
      BY <1>2, <1>3, <1>4, <2>1, <3>1, <3>2
         DEF OnlyConn, InChat, Subscribed, Routed, Online, Announced, LeftBehind, SameUser
    <3>. QED BY <1>1, <3>1, <3>3, OnlyStep
  <2>3. CASE ~Busy(c)
    <3>1. ~Busy(c)'
      BY <1>4, <2>1, <2>3 DEF Busy
    <3>. QED BY <1>1, <1>2, <1>3, <2>1, <2>3, <3>1, IdleStep
  <2>. QED BY <2>2, <2>3
<1>. QED BY <1>5, <1>6

-----------------------------------------------------------------------------
(* A step of a node, for any user.                                           *)
LEMMA CrashUser ==
  ASSUME ConnsInv, NEW n \in Nodes, Crash(n), NEW u \in Users, UserInv(u)
  PROVE  UserInv(u)'
<1>. USE FunctionsAssumption, NamesAssumption
<1>0. TypeOK /\ ConnsOf(u)' = ConnsOf(u)
      /\ \A c \in ConnsOf(u) : c \in Conns /\ Owner[c] = u /\ NodeOf[c] \in Nodes
  BY DEF ConnsInv, ConnsOf
<1>1. ASSUME NEW c \in Conns, NodeOf[c] # n
      PROVE  SameConn(c)
  <2>1. UNCHANGED <<link[c], login[c], close[c]>>
    BY <1>0, <1>1 DEF Crash, On, TypeOK
  <2>2. Registered(c)' <=> Registered(c)
    BY <1>0, <1>1 DEF Crash, Registered, TypeOK
  <2>. QED BY <2>1, <2>2 DEF SameConn, Registered
<1>2. ASSUME NEW c \in Conns, NodeOf[c] = n
      PROVE  ~Busy(c)' /\ link'[c] # "up" /\ ~InChat(c)' /\ close'[c] # "erase"
  <2>1. ~Registered(c)'
    BY <1>0, <1>2 DEF Crash, Registered, TypeOK
  <2>2. ~Entering(c)' /\ ~Leaving(c)' /\ link'[c] # "up" /\ close'[c] # "erase"
    BY <1>0, <1>2 DEF Crash, Entering, LoginPCs, Leaving, ClosePCs, On, TypeOK
  <2>. QED BY <2>1, <2>2 DEF Busy, InChat
<1>3. \A c \in ConnsOf(u) :
        /\ Busy(c)' <=> Busy(c) /\ NodeOf[c] # n
        /\ Entering(c)' <=> Entering(c) /\ NodeOf[c] # n
        /\ Registered(c)' <=> Registered(c) /\ NodeOf[c] # n
        /\ Subscribed(c)' <=> Subscribed(c) /\ NodeOf[c] # n
        /\ Routed(c)' <=> Routed(c) /\ NodeOf[c] # n
        /\ Online(c)' <=> Online(c) /\ NodeOf[c] # n
        /\ Announced(c)' <=> Announced(c) /\ NodeOf[c] # n
  <2>1. ASSUME NEW c \in Conns, ~Busy(c)'
        PROVE  ~(Subscribed(c) \/ Routed(c) \/ Online(c) \/ Announced(c))' /\ ~Entering(c)' /\ ~Registered(c)'
    BY <2>1 DEF Subscribed, Routed, Online, Announced, InChat, Busy, Entering, Leaving, LoginPCs, ClosePCs
  <2>2. ASSUME NEW c \in ConnsOf(u), NodeOf[c] = n PROVE ~Busy(c)'
    BY <1>0, <1>2, <2>2
  <2>3. ASSUME NEW c \in ConnsOf(u), NodeOf[c] # n PROVE SameConn(c)
    BY <1>0, <1>1, <2>3
  <2>. QED BY <1>0, <2>1, <2>2, <2>3, SamePhase DEF SameConn
<1>4. \A m \in Nodes : LeftBehind(m, u) => LeftBehind(m, u)'
  BY <1>0 DEF Crash, LeftBehind, TypeOK
<1>5. node'[n] = "down" /\ row' = row /\ route' = route /\ told' = told /\ subs'[u] = subs[u] \ {n}
  BY <1>0 DEF Crash, TypeOK
<1>6. OneAtATime(u)'
  BY <1>0, <1>3 DEF UserInv, OneAtATime
<1>7. EntryInv(u)'
  BY <1>0, <1>1, <1>2, <1>3 DEF UserInv, EntryInv, SameConn
<1>8. RowInv(u)'
  BY <1>0, <1>3, <1>5 DEF UserInv, RowInv
<1>9. RouteInv(u)'
  <2>1. \A c \in ConnsOf(u) : Routed(c)' => route'[u] = NodeOf[c]
    BY <1>0, <1>3, <1>5 DEF UserInv, RouteInv
  <2>2. ASSUME route'[u] # NoNode PROVE LeftBehind(route[u], u)' \/ \E c \in ConnsOf(u) : Routed(c)'
    <3>1. route[u] \in Nodes
      BY <1>0, <1>5, <2>2 DEF TypeOK
    <3>2. CASE LeftBehind(route[u], u)
      BY <1>4, <1>5, <3>1, <3>2 DEF LeftBehind
    <3>3. CASE \E c \in ConnsOf(u) : Routed(c)
      BY <1>0, <1>3, <1>5, <3>3 DEF LeftBehind, UserInv, RouteInv
    <3>. QED BY <1>5, <2>2, <3>2, <3>3 DEF UserInv, RouteInv
  <2>. QED BY <1>0, <2>1, <2>2 DEF RouteInv
<1>10. SubsInv(u)'
  BY <1>0, <1>3, <1>5 DEF UserInv, SubsInv
<1>11. ToldInv(u)'
  <2>1. u \notin missed' => u \notin missed /\ \A c \in ConnsOf(u) : Busy(c) => NodeOf[c] # n
    BY <1>0 DEF Crash, On, Busy
  <2>. QED BY <1>0, <1>3, <1>5, <2>1, PhaseIsBusy DEF UserInv, ToldInv
<1>. QED BY <1>6, <1>7, <1>8, <1>9, <1>10, <1>11 DEF UserInv

LEMMA BootUser ==
  ASSUME ConnsInv, NEW n \in Nodes, BootStep(n), NEW u \in Users, u \notin disturbed', UserInv(u)
  PROVE  UserInv(u)'
<1>. USE FunctionsAssumption, NamesAssumption
<1>0. TypeOK /\ ConnsOf(u)' = ConnsOf(u)
      /\ \A c \in ConnsOf(u) : c \in Conns /\ Owner[c] = u /\ NodeOf[c] \in Nodes /\ ConnInv(c)
  BY DEF ConnsInv, ConnsOf
<1>1. \A c \in ConnsOf(u) : SameConn(c)
  BY DEF BootStep, BootReset, BootRead, BootDelete, BootUp, SameConn, Registered
<1>2. UNCHANGED <<subs, told, missed>>
  BY DEF BootStep, BootReset, BootRead, BootDelete, BootUp, stored, ghosts
<1>3. OneAtATime(u)' /\ EntryInv(u)' /\ SubsInv(u)' /\ ToldInv(u)'
  BY <1>0, <1>1, <1>2, SamePhase DEF UserInv, OneAtATime, EntryInv, SubsInv, ToldInv, SameConn
<1>4. CASE BootReset(n)
  <2>1. row'[u] = "offline" /\ ~InSession(u) /\ route' = route
    BY <1>4 DEF BootReset, RowsReset
  <2>2. \A c \in ConnsOf(u) : ~Online(c)
    BY <2>1 DEF InSession, Online, InChat, Entering, LoginPCs
  <2>3. RowInv(u)'
    BY <1>0, <1>1, <2>1, <2>2, SamePhase DEF RowInv
  <2>4. \A m \in Nodes : LeftBehind(m, u) => LeftBehind(m, u)'
    BY <1>0, <1>4 DEF BootReset, LeftBehind, TypeOK
  <2>5. route[u] # NoNode => route[u] \in Nodes
    BY <1>0 DEF TypeOK
  <2>6. RouteInv(u)'
    BY <1>0, <1>1, <2>1, <2>4, <2>5, SamePhase DEF UserInv, RouteInv, LeftBehind
  <2>. QED BY <1>3, <2>3, <2>6 DEF UserInv
<1>5. ASSUME BootRead(n) \/ BootUp(n) \/ \E v \in Users : BootDelete(n, v) PROVE RowInv(u)'
  <2>1. row' = row /\ \A m \in Nodes : node[m] = "down" => node'[m] = "down"
    BY <1>0, <1>5 DEF BootRead, BootUp, BootDelete, TypeOK, stored
  <2>. QED BY <1>0, <1>1, <2>1, SamePhase DEF UserInv, RowInv, SameConn
<1>6. CASE BootRead(n)
  <2>1. \A m \in Nodes : LeftBehind(m, u) /\ route[u] = m => LeftBehind(m, u)'
    BY <1>0, <1>6 DEF BootRead, StaleFields, LeftBehind, TypeOK
  <2>2. route' = route /\ (route[u] # NoNode => route[u] \in Nodes)
    BY <1>0, <1>6 DEF BootRead, stored, TypeOK
  <2>3. RouteInv(u)'
    BY <1>0, <1>1, <2>1, <2>2, SamePhase DEF UserInv, RouteInv, LeftBehind
  <2>. QED BY <1>3, <1>5, <1>6, <2>3 DEF UserInv
<1>7. CASE BootUp(n)
  <2>1. \A m \in Nodes : LeftBehind(m, u) => LeftBehind(m, u)'
    BY <1>0, <1>7 DEF BootUp, LeftBehind, TypeOK
  <2>2. route' = route /\ (route[u] # NoNode => route[u] \in Nodes)
    BY <1>0, <1>7 DEF BootUp, stored, TypeOK
  <2>3. RouteInv(u)'
    BY <1>0, <1>1, <2>1, <2>2, SamePhase DEF UserInv, RouteInv, LeftBehind
  <2>. QED BY <1>3, <1>5, <1>7, <2>3 DEF UserInv
<1>8. ASSUME NEW v \in Users, BootDelete(n, v) PROVE UserInv(u)'
  <2>1. CASE v = u
    <3>1. route[u] = n /\ route'[u] = NoNode /\ node[n] = "clean"
      BY <1>0, <1>8, <2>1 DEF BootDelete, TypeOK
    <3>2. \A c \in ConnsOf(u) : Routed(c) => route[u] = NodeOf[c] /\ node[NodeOf[c]] = "up"
      BY <1>0, PhaseIsBusy DEF UserInv, RouteInv, ConnInv, Busy
    <3>3. RouteInv(u)'
      BY <1>0, <1>1, <3>1, <3>2, SamePhase DEF RouteInv
    <3>. QED BY <1>3, <1>5, <1>8, <3>3 DEF UserInv
  <2>2. CASE v # u
    <3>1. \A m \in Nodes : LeftBehind(m, u) => LeftBehind(m, u)'
      BY <1>0, <1>8, <2>2 DEF BootDelete, LeftBehind, TypeOK
    <3>2. route'[u] = route[u] /\ (route[u] # NoNode => route[u] \in Nodes)
      BY <1>0, <1>8, <2>2 DEF BootDelete, TypeOK
    <3>3. RouteInv(u)'
      BY <1>0, <1>1, <3>1, <3>2, SamePhase DEF UserInv, RouteInv, LeftBehind
    <3>. QED BY <1>3, <1>5, <1>8, <3>3 DEF UserInv
  <2>. QED BY <2>1, <2>2
<1>. QED BY <1>4, <1>6, <1>7, <1>8 DEF BootStep

-----------------------------------------------------------------------------
LEMMA IInvInit == Init => IInv
<1>. SUFFICES ASSUME Init, NEW u \in Users PROVE UserInv(u)
  BY ConnsInvInit DEF IInv
<1>1. \A c \in ConnsOf(u) : c \in Conns /\ Owner[c] = u /\ NodeOf[c] \in Nodes /\ c # NoConn
  BY FunctionsAssumption, NamesAssumption DEF ConnsOf
<1>2. \A c \in ConnsOf(u) : /\ login[c] = "none" /\ close[c] = "none" /\ link[c] = "unused"
                            /\ ~Registered(c)
  BY <1>1 DEF Init, Registered
<1>3. \A c \in ConnsOf(u) : ~Busy(c) /\ ~Entering(c) /\ ~Subscribed(c) /\ ~Routed(c) /\ ~Online(c)
                            /\ ~Announced(c)
  BY <1>2 DEF Busy, Entering, Leaving, LoginPCs, ClosePCs, Subscribed, Routed, Online, Announced, InChat
<1>4. row[u] = "offline" /\ route[u] = NoNode /\ subs[u] = {} /\ told[u] = "offline"
  BY DEF Init
<1>. QED BY <1>2, <1>3, <1>4
         DEF UserInv, OneAtATime, EntryInv, RowInv, RouteInv, SubsInv, ToldInv

LEMMA IInvNext == IInv /\ [Next]_vars => IInv'
<1>. SUFFICES ASSUME IInv, [Next]_vars, NEW u \in Users, u \notin disturbed' PROVE UserInv(u)'
  BY ConnsInvNext DEF IInv
<1>1. disturbed \subseteq disturbed'
  BY DEF Next, vars, ghosts, LoginStep, CloseStep, BootStep, Connect, Disconnect, LoginRefused,
         LoginQuery, LoginInsert, LoginSubscribe, LoginRoute, LoginOnline, LoginTell, CloseErase,
         CloseStranger, CloseOffline, CloseUnsubscribe, CloseRoute, CloseTell, Crash, BootReset,
         BootRead, BootDelete, BootUp
<1>2. ConnsInv /\ TypeOK /\ UserInv(u)
  BY <1>1 DEF IInv, ConnsInv
<1>3. ASSUME NEW c \in Conns, Connect(c) \/ Disconnect(c) \/ LoginStep(c) \/ CloseStep(c)
      PROVE  UserInv(u)'
  <2>1. CASE Owner[c] = u
    BY <1>2, <1>3, <2>1, LoginUser, CloseUser, LinkUser
  <2>2. CASE Owner[c] # u
    <3>1. SameUser(u) /\ (\A d \in ConnsOf(u) : SameConn(d)) /\ UNCHANGED <<node, stale>>
      BY <1>2, <1>3, <2>2, OwnStep DEF ConnsOf
    <3>. QED BY <1>2, <3>1, Untouched
  <2>. QED BY <2>1, <2>2
<1>4. ASSUME NEW n \in Nodes, Crash(n) \/ BootStep(n) PROVE UserInv(u)'
  BY <1>2, <1>4, CrashUser, BootUser
<1>5. CASE UNCHANGED vars
  <2>1. SameUser(u) /\ (\A d \in ConnsOf(u) : SameConn(d)) /\ UNCHANGED <<node, stale>>
    BY <1>5 DEF vars, procs, stored, ghosts, SameUser, SameConn, Registered
  <2>. QED BY <1>2, <2>1, Untouched
<1>. QED BY <1>3, <1>4, <1>5 DEF Next

LEMMA SettledUser ==
  ASSUME IInv, NEW u \in Users, Settled(u), u \notin disturbed
  PROVE  /\ UserInv(u)
         /\ \A n \in Nodes : ~LeftBehind(n, u) /\ node[n] # "down"
         /\ \A c \in ConnsOf(u) :
              /\ Registered(c) <=> c \in LoggedIn(u)
              /\ Registered(c) <=> Busy(c)
              /\ Registered(c) => Online(c) /\ Routed(c) /\ Subscribed(c) /\ Announced(c)
<1>1. UserInv(u) /\ TypeOK
  BY DEF IInv, ConnsInv
<1>2. \A n \in Nodes : ~LeftBehind(n, u) /\ node[n] # "down"
  BY DEF Settled, LeftBehind
<1>3. ASSUME NEW c \in ConnsOf(u)
      PROVE  /\ Registered(c) <=> c \in LoggedIn(u)
             /\ Registered(c) <=> Busy(c)
             /\ Registered(c) => InChat(c)
  <2>1. c \in Conns /\ close[c] \in {"none", "done"} /\ ~Entering(c) /\ ConnInv(c)
    BY DEF Settled, ConnsOf, IInv, ConnsInv
  <2>2. Registered(c) => login[c] = "done"
    BY <1>1, <2>1 DEF ConnInv, LetIn, Entering, TypeOK
  <2>3. Registered(c) => link[c] = "up"
    BY <1>1, <2>1 DEF UserInv, EntryInv
  <2>4. login[c] = "done" /\ link[c] = "up" => Registered(c)
    BY <1>1 DEF UserInv, EntryInv
  <2>5. Busy(c) => Registered(c)
    BY <2>1 DEF Busy, Leaving, ClosePCs
  <2>. QED BY <2>2, <2>3, <2>4, <2>5 DEF LoggedIn, Busy, InChat
<1>. QED BY <1>1, <1>2, <1>3 DEF Online, Routed, Subscribed, Announced

\* For any number of users, connections and nodes and any number of crashes: once
\* the steps are over, table User, _userConnMap, the subscription and the route
\* agree on every user whose logins and closes did not overlap (login,
\* clientCloseException, resetState, cleanNodeRoutes).
THEOREM PlacesAgreeAlways == Spec => []PlacesAgree
<1>1. IInv => PlacesAgree
  <2>. SUFFICES ASSUME IInv, NEW u \in Users, Settled(u), u \notin disturbed
                PROVE  /\ Sessions(u) = LoggedIn(u)
                       /\ \/ row[u] = "offline" /\ Sessions(u) = {} /\ route[u] = NoNode /\ subs[u] = {}
                          \/ /\ row[u] = "online"
                             /\ \E c \in Conns : Sessions(u) = {c} /\ route[u] = NodeOf[c]
                                                 /\ subs[u] = {NodeOf[c]}
    BY DEF PlacesAgree
  <2>0. TypeOK
    BY DEF IInv, ConnsInv
  <2>1. Sessions(u) = LoggedIn(u)
    BY SettledUser DEF Sessions, LoggedIn
  <2>2. CASE \E c \in ConnsOf(u) : Registered(c)
    <3>1. PICK c \in ConnsOf(u) : Registered(c)
      BY <2>2
    <3>2. \A d \in ConnsOf(u) : Registered(d) => d = c
      BY <3>1, SettledUser DEF UserInv, OneAtATime
    <3>3. Sessions(u) = {c} /\ c \in Conns
      BY <3>1, <3>2 DEF Sessions, ConnsOf
    <3>4. row[u] = "online" /\ route[u] = NodeOf[c] /\ subs[u] = {NodeOf[c]}
      BY <3>1, SettledUser DEF UserInv, RowInv, RouteInv, SubsInv
    <3>. QED BY <2>1, <3>3, <3>4
  <2>3. CASE \A c \in ConnsOf(u) : ~Registered(c)
    <3>1. \A c \in ConnsOf(u) :
             ~Online(c) /\ close[c] # "offline" /\ ~Routed(c) /\ ~Subscribed(c)
      BY <2>3, SettledUser, PhaseIsBusy DEF ConnsOf
    <3>2. row[u] = "offline" /\ route[u] = NoNode /\ subs[u] = {}
      BY <2>0, <3>1, SettledUser DEF UserInv, RowInv, RouteInv, SubsInv, TypeOK
    <3>. QED BY <2>1, <2>3, <3>2 DEF Sessions
  <2>. QED BY <2>2, <2>3
<1>. QED BY <1>1, IInvInit, IInvNext, PTL DEF Spec

\* Under the same conditions, and unless a crash ended the last session, what
\* friends were told last of the user is what table User says (the notifications
\* of login and clientCloseException).
THEOREM FriendsToldAlways == Spec => []FriendsTold
<1>1. IInv => FriendsTold
  <2>. SUFFICES ASSUME IInv, NEW u \in Users, Settled(u), u \notin disturbed \cup missed
                PROVE  told[u] = row[u]
    BY DEF FriendsTold
  <2>0. TypeOK
    BY DEF IInv, ConnsInv
  <2>1. \A c \in ConnsOf(u) : (Announced(c) <=> Online(c)) /\ close[c] # "offline"
    BY SettledUser, PhaseIsBusy DEF ConnsOf, Settled
  <2>2. row[u] = "online" <=> \E c \in ConnsOf(u) : Online(c)
    BY <2>1, SettledUser DEF UserInv, RowInv
  <2>3. told[u] = "online" <=> \E c \in ConnsOf(u) : Online(c)
    BY <2>1, SettledUser DEF UserInv, ToldInv
  <2>. QED BY <2>0, <2>2, <2>3 DEF TypeOK
<1>. QED BY <1>1, IInvInit, IInvNext, PTL DEF Spec
=============================================================================
