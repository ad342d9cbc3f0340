---------------------------- MODULE FriendsProofs ----------------------------
(***************************************************************************)
(* Proofs about Friends for any users and any number of tasks, failures    *)
(* and inputs: type correctness, that a pair has one open request, that a  *)
(* friendship is what was answered, and that a window shows the open       *)
(* requests to its user and no others, and the friends with their state.   *)
(***************************************************************************)
EXTENDS Friends, SequenceTheorems, FiniteSetTheorems, TLAPS

-----------------------------------------------------------------------------
(* Types. *)

ApplyAts == {"check", "select", "insert", "look", "publish", "done"}
AnswerAts == {"update", "bind", "bindBack", "state", "again", "publish", "respond", "done"}

LEMMA Kinds ==
    ASSUME TypeOK, NEW j \in Jobs
    PROVE  /\ job[j].op \in {"none", "apply", "answer"}
           /\ job[j].op = "none" => job[j] = NoJob
           /\ job[j].op = "apply" => job[j] \in Applications
           /\ job[j].op = "answer" => job[j] \in Answers
BY DEF TypeOK, Applications, Answers, NoJob

LEMMA ApplicationFacts ==
    ASSUME NEW t \in Applications
    PROVE  /\ t.op = "apply" /\ t.at \in ApplyAts /\ t.from \in Users /\ t.to \in Users
           /\ t.id \in {0} \cup Ids /\ (t.at \in {"look", "publish"} => t.id \in Ids)
           /\ \A at \in ApplyAts : (at \in {"look", "publish"} => t.id \in Ids) =>
                /\ [t EXCEPT !.at = at] \in Applications
                /\ [t EXCEPT !.at = at].op = "apply" /\ [t EXCEPT !.at = at].at = at
                /\ [t EXCEPT !.at = at].from = t.from /\ [t EXCEPT !.at = at].to = t.to
                /\ [t EXCEPT !.at = at].id = t.id
BY DEF Applications, ApplyAts

LEMMA AnswerFacts ==
    ASSUME NEW t \in Answers
    PROVE  /\ t.op = "answer" /\ t.at \in AnswerAts /\ t.from \in Users /\ t.to \in Users
           /\ t.id \in Ids /\ t.yes \in BOOLEAN /\ t.conn \in Nat /\ t.state \in States
           /\ \A at \in AnswerAts :
                /\ [t EXCEPT !.at = at] \in Answers
                /\ [t EXCEPT !.at = at].op = "answer" /\ [t EXCEPT !.at = at].at = at
                /\ [t EXCEPT !.at = at].from = t.from /\ [t EXCEPT !.at = at].to = t.to
                /\ [t EXCEPT !.at = at].id = t.id /\ [t EXCEPT !.at = at].yes = t.yes
                /\ [t EXCEPT !.at = at].conn = t.conn /\ [t EXCEPT !.at = at].state = t.state
BY DEF Answers, AnswerAts

\* Only job j changes.
Others(j) == \A i \in Jobs \ {j} : job'[i] = job[i]
SameTask(j) == /\ job'[j].op = job[j].op /\ job'[j].from = job[j].from /\ job'[j].to = job[j].to
SameAnswer(j) == SameTask(j) /\ job'[j].id = job[j].id /\ job'[j].yes = job[j].yes /\ job'[j].conn = job[j].conn

LEMMA ApplyGoes ==
    ASSUME TypeOK, NEW j \in Jobs, job[j].op = "apply", NEW at \in ApplyAts, Goes(j, at),
           at \in {"look", "publish"} => job[j].id \in Ids
    PROVE  /\ job' \in [Jobs -> {NoJob} \cup Applications \cup Answers]
           /\ job'[j] \in Applications
           /\ Others(j) /\ SameTask(j) /\ job'[j].id = job[j].id /\ job'[j].at = at
<1>. DEFINE t == [job[j] EXCEPT !.at = at]
<1>1. job[j] \in Applications
  BY Kinds
<1>2. /\ t \in Applications /\ t.op = job[j].op /\ t.from = job[j].from /\ t.to = job[j].to
      /\ t.id = job[j].id /\ t.at = at
  BY <1>1, ApplicationFacts
<1>3. job' = [job EXCEPT ![j] = t] /\ job \in [Jobs -> {NoJob} \cup Applications \cup Answers]
  BY DEF Goes, TypeOK
<1>. HIDE DEF t
<1>. QED BY <1>2, <1>3 DEF Others, SameTask

LEMMA AnswerGoes ==
    ASSUME TypeOK, NEW j \in Jobs, job[j].op = "answer", NEW at \in AnswerAts, Goes(j, at)
    PROVE  /\ job' \in [Jobs -> {NoJob} \cup Applications \cup Answers]
           /\ job'[j] \in Answers
           /\ Others(j) /\ SameAnswer(j) /\ job'[j].at = at /\ job'[j].state = job[j].state
<1>. DEFINE t == [job[j] EXCEPT !.at = at]
<1>1. job[j] \in Answers
  BY Kinds
<1>2. /\ t \in Answers /\ t.op = job[j].op /\ t.from = job[j].from /\ t.to = job[j].to
      /\ t.id = job[j].id /\ t.at = at /\ t.yes = job[j].yes /\ t.conn = job[j].conn
      /\ t.state = job[j].state
  BY <1>1, AnswerFacts
<1>3. job' = [job EXCEPT ![j] = t] /\ job \in [Jobs -> {NoJob} \cup Applications \cup Answers]
  BY DEF Goes, TypeOK
<1>. HIDE DEF t
<1>. QED BY <1>2, <1>3 DEF Others, SameAnswer, SameTask

LEMMA SameIds ==
    Ids' = Ids =>
        /\ Notifications' = Notifications /\ Messages' = Messages
        /\ Applications' = Applications /\ Answers' = Answers /\ Snapshots' = Snapshots
<1>. SUFFICES ASSUME Ids' = Ids
              PROVE  /\ Notifications' = Notifications /\ Messages' = Messages
                     /\ Applications' = Applications /\ Answers' = Answers
                     /\ Snapshots' = Snapshots
  OBVIOUS
<1>1. Notifications' = Notifications
  BY DEF Notifications
<1>. QED BY <1>1 DEF Messages, Applications, Answers, Snapshots

LEMMA SameSets ==
    UNCHANGED request =>
        /\ Ids' = Ids /\ Notifications' = Notifications /\ Messages' = Messages
        /\ Applications' = Applications /\ Answers' = Answers /\ Snapshots' = Snapshots
<1>1. UNCHANGED request => Ids' = Ids
  BY DEF Ids
<1>. QED BY <1>1, SameIds

LEMMA MoreIds ==
    ASSUME Ids \subseteq Ids'
    PROVE  /\ Notifications \subseteq Notifications' /\ Messages \subseteq Messages'
           /\ Applications \subseteq Applications' /\ Answers \subseteq Answers'
           /\ Snapshots \subseteq Snapshots'
<1>1. Notifications \subseteq Notifications'
  BY DEF Notifications
<1>2. Messages \subseteq Messages'
  BY <1>1 DEF Messages
<1>3. Applications \subseteq Applications'
  BY DEF Applications
<1>4. Answers \subseteq Answers'
  BY DEF Answers
<1>5. Snapshots \subseteq Snapshots'
  BY DEF Snapshots
<1>. QED BY <1>1, <1>2, <1>3, <1>4, <1>5

LEMMA MoreElements ==
    ASSUME NEW S, NEW T, S \subseteq T
    PROVE  Seq(S) \subseteq Seq(T)
<1>. SUFFICES ASSUME NEW s \in Seq(S) PROVE s \in Seq(T)
  OBVIOUS
<1>1. s \in [1..Len(s) -> S] /\ Len(s) \in Nat
  BY LenProperties
<1>. QED BY <1>1, SeqDef

LEMMA NoneTyped ==
    /\ NoJob.op = "none" /\ NoJob.at = "done"
    /\ NoList \in [Users -> States]
    /\ NoSnapshot = [friends |-> {}, list |-> NoList, applies |-> {}]
    /\ NoSnapshot \in Snapshots
    /\ NoSnapshot.friends = {} /\ NoSnapshot.list = NoList /\ NoSnapshot.applies = {}
BY DEF NoJob, NoSnapshot, NoList, States, Snapshots

LEMMA SnapshotFacts ==
    ASSUME NEW s \in Snapshots
    PROVE  /\ s.friends \in SUBSET Users /\ s.list \in [Users -> States] /\ s.applies \in SUBSET Ids
           /\ \A x \in SUBSET Users :
                /\ [s EXCEPT !.friends = x] \in Snapshots /\ [s EXCEPT !.friends = x].friends = x
                /\ [s EXCEPT !.friends = x].list = s.list /\ [s EXCEPT !.friends = x].applies = s.applies
           /\ \A x \in [Users -> States] :
                /\ [s EXCEPT !.list = x] \in Snapshots /\ [s EXCEPT !.list = x].list = x
                /\ [s EXCEPT !.list = x].friends = s.friends /\ [s EXCEPT !.list = x].applies = s.applies
           /\ \A x \in SUBSET Ids :
                /\ [s EXCEPT !.applies = x] \in Snapshots /\ [s EXCEPT !.applies = x].applies = x
                /\ [s EXCEPT !.applies = x].friends = s.friends /\ [s EXCEPT !.applies = x].list = s.list
BY DEF Snapshots

\* The messages that are sent.
LEMMA Sent ==
    /\ \A id \in Ids : [kind |-> "apply", id |-> id] \in Notifications
    /\ \A u \in Users : [kind |-> "bound", uid |-> u] \in Notifications
    /\ \A u \in Users, s \in States : [kind |-> "status", uid |-> u, state |-> s] \in Notifications
    /\ Notifications \subseteq Messages
    /\ \A l \in [Users -> States], a \in SUBSET Ids :
          [kind |-> "login", list |-> l, applies |-> a] \in Messages
    /\ \A id \in Ids, yes \in BOOLEAN, u \in Users, s \in States :
          [kind |-> "answer", id |-> id, yes |-> yes, uid |-> u, state |-> s] \in Messages
BY DEF Notifications, Messages

LEMMA Received ==
    ASSUME NEW m \in Messages
    PROVE  /\ m.kind \in {"apply", "bound", "status", "login", "answer"}
           /\ m.kind = "apply" => m.id \in Ids
           /\ m.kind = "bound" => m.uid \in Users
           /\ m.kind = "status" => m.uid \in Users /\ m.state \in States
           /\ m.kind = "login" => m.list \in [Users -> States] /\ m.applies \in SUBSET Ids
           /\ m.kind = "answer" => /\ m.id \in Ids /\ m.yes \in BOOLEAN /\ m.uid \in Users
                                   /\ m.state \in States
           /\ m \in Notifications <=> m.kind \in {"apply", "bound", "status"}
BY DEF Notifications, Messages

LEMMA PublishedTyped ==
    ASSUME TypeOK, NEW us, NEW m \in Notifications
    PROVE  /\ Published(us, m) \in [Users -> Seq(Notifications)]
           /\ \A u \in Users : Published(us, m)[u] =
                 IF u \in us \cap Subscribed THEN Append(chan[u], m) ELSE chan[u]
BY DEF TypeOK, Published

LEMMA TablesTyped == Tables \subseteq Seq(Rows)
<1>. SUFFICES ASSUME NEW t \in Tables PROVE t \in Seq(Rows)
  OBVIOUS
<1>1. CASE t = <<>>
  BY <1>1
<1>2. ASSUME NEW p \in Users \X Users, t = <<[from |-> p[1], to |-> p[2], status |-> "pending"]>>
      PROVE  t \in Seq(Rows)
  <2>1. [from |-> p[1], to |-> p[2], status |-> "pending"] \in Rows
    BY DEF Rows
  <2>. QED BY <1>2, <2>1
<1>. QED BY <1>1, <1>2 DEF Tables

LEMMA InitTyped == Init => TypeOK
<1>. SUFFICES ASSUME Init PROVE TypeOK
  OBVIOUS
<1>1. request \in Seq(Rows)
  BY TablesTyped DEF Init
<1>2. chan \in [Users -> Seq(Notifications)] /\ inbox \in [Users -> Seq(Messages)]
  BY DEF Init
<1>3. snapshot \in [Users -> Snapshots] /\ list \in [Users -> [Users -> States]]
  BY NoneTyped DEF Init
<1>4. phase \in [Users -> Phases] /\ job \in [Jobs -> {NoJob} \cup Applications \cup Answers]
  BY DEF Init, Phases
<1>5. failures \in 0..MaxFailures /\ logins \in [Users -> Nat]
  BY BoundsAssumption DEF Init
<1>6. /\ farewell \in [Users -> SUBSET Users] /\ applies \in [Users -> SUBSET Ids]
      /\ friendSet \in [Users -> SUBSET Users]
      /\ outdated \in [Users -> SUBSET (Users \cup {"requests"})]
      /\ shown \in [Users -> BOOLEAN] /\ friend \subseteq Users \X Users /\ route \subseteq Users
  BY DEF Init
<1>7. raced \subseteq Users \X Users /\ twice \subseteq Ids /\ repeated \subseteq Ids /\ broken \in BOOLEAN
  BY DEF Init
<1>. QED BY <1>1, <1>2, <1>3, <1>4, <1>5, <1>6, <1>7 DEF TypeOK

LEMMA TypedMail ==
    ASSUME TypeOK, NEW u \in Users
    PROVE  /\ chan[u] \in Seq(Notifications) /\ inbox[u] \in Seq(Messages)
           /\ chan[u] # <<>> => Head(chan[u]) \in Notifications /\ Tail(chan[u]) \in Seq(Notifications)
           /\ inbox[u] # <<>> => Head(inbox[u]) \in Messages /\ Tail(inbox[u]) \in Seq(Messages)
           /\ \A m \in Notifications : Append(chan[u], m) \in Seq(Notifications)
           /\ \A m \in Messages : Append(inbox[u], m) \in Seq(Messages)
<1>1. chan[u] \in Seq(Notifications) /\ inbox[u] \in Seq(Messages)
  BY DEF TypeOK
<1>. QED BY <1>1, HeadTailProperties, AppendProperties

LEMMA StateTyped == \A v : StateOf(v) \in {"online", "offline"} /\ StateOf(v) \in States
BY DEF StateOf, States

LEMMA DeliverTyped == ASSUME TypeOK, NEW u \in Users, Deliver(u) PROVE TypeOK'
<1>1. /\ UNCHANGED <<tables, route, logging, window, job, failures, ghosts>>
      /\ chan[u] # <<>> /\ chan' = [chan EXCEPT ![u] = Tail(@)]
      /\ inbox' = IF Connected(u) THEN [inbox EXCEPT ![u] = Append(@, Head(chan[u]))] ELSE inbox
      /\ outdated' = [outdated EXCEPT ![u] = @ \cup Overtaken(u, Head(chan[u]))]
  BY DEF Deliver
<1>2. /\ Tail(chan[u]) \in Seq(Notifications) /\ Head(chan[u]) \in Messages
      /\ Append(inbox[u], Head(chan[u])) \in Seq(Messages)
  BY <1>1, TypedMail, Sent
<1>3. chan' \in [Users -> Seq(Notifications)] /\ inbox' \in [Users -> Seq(Messages)]
  BY <1>1, <1>2 DEF TypeOK
<1>4. Overtaken(u, Head(chan[u])) \subseteq Users \cup {"requests"}
  BY <1>1, TypedMail, Received, Sent DEF Overtaken
<1>5. outdated' \in [Users -> SUBSET (Users \cup {"requests"})]
  BY <1>1, <1>4 DEF TypeOK
<1>. QED BY <1>1, <1>3, <1>5, SameSets DEF TypeOK, tables, logging, window, ghosts

LEMMA SnapshotTyped ==
    ASSUME TypeOK, NEW u \in Users
    PROVE  /\ snapshot[u] \in Snapshots
           /\ \A x \in SUBSET Users : [snapshot EXCEPT ![u].friends = x] \in [Users -> Snapshots]
           /\ \A x \in [Users -> States] : [snapshot EXCEPT ![u].list = x] \in [Users -> Snapshots]
           /\ \A x \in SUBSET Ids : [snapshot EXCEPT ![u].applies = x] \in [Users -> Snapshots]
<1>1. snapshot \in [Users -> Snapshots] /\ snapshot[u] \in Snapshots
  BY DEF TypeOK
<1>. QED BY <1>1, SnapshotFacts

LEMMA LoginTyped == ASSUME TypeOK, NEW u \in Users, LoginStep(u) PROVE TypeOK'
<1>. USE DEF tables, logging, window, ghosts
<1>1. CASE Login(u)
  BY <1>1, SameSets DEF Login, TypeOK, Phases
<1>2. CASE LoginFriends(u)
  <2>1. FriendsOf(u) \in SUBSET Users
    BY DEF FriendsOf
  <2>2. snapshot' \in [Users -> Snapshots]
    BY <1>2, <2>1, SnapshotTyped DEF LoginFriends
  <2>. QED BY <1>2, <2>1, <2>2, SameSets DEF LoginFriends, TypeOK, Phases
<1>3. CASE LoginStates(u)
  <2>1. [v \in Users |-> IF v \in snapshot[u].friends THEN StateOf(v) ELSE "none"] \in [Users -> States]
    BY StateTyped DEF States
  <2>2. snapshot' \in [Users -> Snapshots]
    BY <1>3, <2>1, SnapshotTyped DEF LoginStates
  <2>. QED BY <1>3, <2>2, SameSets DEF LoginStates, TypeOK, Phases
<1>4. CASE LoginApplies(u)
  <2>1. PendingTo(u) \in SUBSET Ids
    BY DEF PendingTo, Ids
  <2>2. snapshot' \in [Users -> Snapshots]
    BY <1>4, <2>1, SnapshotTyped DEF LoginApplies
  <2>. QED BY <1>4, <2>1, <2>2, SameSets DEF LoginApplies, TypeOK, Phases
<1>5. CASE LoginTell(u)
  <2>1. [kind |-> "status", uid |-> u, state |-> "online"] \in Notifications
    BY Sent DEF States
  <2>2. chan' \in [Users -> Seq(Notifications)]
    BY <1>5, <2>1, PublishedTyped DEF LoginTell
  <2>. QED BY <1>5, <2>2, SameSets DEF LoginTell, TypeOK, Phases
<1>6. CASE LoginAck(u)
  <2>1. [kind |-> "login", list |-> snapshot[u].list, applies |-> snapshot[u].applies] \in Messages
    BY Sent, SnapshotTyped, SnapshotFacts
  <2>2. inbox' \in [Users -> Seq(Messages)]
    BY <1>6, <2>1, TypedMail DEF LoginAck, TypeOK
  <2>. QED BY <1>6, <2>2, SameSets, NoneTyped DEF LoginAck, TypeOK, Phases
<1>. QED BY <1>1, <1>2, <1>3, <1>4, <1>5, <1>6 DEF LoginStep

LEMMA CloseTyped == ASSUME TypeOK, NEW u \in Users, CloseStep(u) PROVE TypeOK'
<1>. USE DEF tables, logging, window, ghosts
<1>1. CASE Close(u)
  <2>1. phase' \in [Users -> Phases] /\ inbox' \in [Users -> Seq(Messages)]
    BY <1>1 DEF Close, TypeOK, Phases
  <2>2. /\ shown' \in [Users -> BOOLEAN] /\ list' \in [Users -> [Users -> States]]
        /\ applies' \in [Users -> SUBSET Ids]
    BY <1>1, NoneTyped DEF Close, TypeOK
  <2>. QED BY <1>1, <2>1, <2>2, SameSets DEF Close, TypeOK
<1>2. CASE CloseRoute(u)
  BY <1>2, SameSets DEF CloseRoute, TypeOK, Phases
<1>3. CASE CloseFriends(u)
  <2>1. FriendsOf(u) \in SUBSET Users
    BY DEF FriendsOf
  <2>. QED BY <1>3, <2>1, SameSets DEF CloseFriends, TypeOK, Phases
<1>4. CASE CloseTell(u)
  <2>1. Particulars(u) \in Notifications
    BY Sent DEF States, Particulars
  <2>2. chan' \in [Users -> Seq(Notifications)]
    BY <1>4, <2>1, PublishedTyped DEF CloseTell
  <2>. QED BY <1>4, <2>2, SameSets DEF CloseTell, TypeOK, Phases
<1>. QED BY <1>1, <1>2, <1>3, <1>4 DEF CloseStep

\* A step of a task that writes no request.
LEMMA RequestTyped == ASSUME TypeOK, NEW u \in Users, NEW j \in Jobs, ClientRequest(u, j) PROVE TypeOK'
<1>. USE DEF tables, logging, window, ghosts
<1>1. ASSUME NEW v \in Users, ClientApply(u, v, j) PROVE TypeOK'
  <2>1. [op |-> "apply", at |-> "check", from |-> u, to |-> v, id |-> 0] \in Applications
    BY DEF Applications
  <2>2. job' \in [Jobs -> {NoJob} \cup Applications \cup Answers]
    BY <1>1, <2>1 DEF ClientApply, Submit, TypeOK
  <2>. QED BY <1>1, <2>2, SameSets DEF ClientApply, TypeOK
<1>2. ASSUME NEW id \in applies[u], NEW yes \in BOOLEAN, ClientAnswer(u, id, yes, j) PROVE TypeOK'
  <2>1. id \in Ids /\ request[id] \in Rows /\ logins[u] \in Nat
    BY DEF TypeOK, Ids
  <2>2. [op |-> "answer", at |-> "update", from |-> request[id].from, to |-> u,
         id |-> id, yes |-> yes, conn |-> logins[u], state |-> "none"] \in Answers
    BY <2>1 DEF Answers, Rows, States
  <2>3. job' \in [Jobs -> {NoJob} \cup Applications \cup Answers]
    BY <1>2, <2>2 DEF ClientAnswer, Submit, TypeOK
  <2>. QED BY <1>2, <2>1, <2>3, SameSets DEF ClientAnswer, TypeOK
<1>. QED BY <1>1, <1>2 DEF ClientRequest

LEMMA FailureTyped == TypeOK /\ Refused => failures' \in 0..MaxFailures
BY BoundsAssumption DEF TypeOK, Refused

LEMMA OpenIds == \A u, v : Open(u, v) \subseteq Ids
BY DEF Open, Ids

LEMMA ApplyTyped == ASSUME TypeOK, NEW j \in Jobs, ApplyStep(j) PROVE TypeOK'
<1>. USE DEF tables, logging, window, ghosts
<1>0. job[j].op = "apply" /\ job[j] \in Applications
  <2>1. job[j].op = "apply"
    BY DEF ApplyStep, ApplyCheck, ApplySelect, ApplyInsert, ApplyLook, ApplyPublish, At
  <2>. QED BY <2>1, Kinds
<1>1. CASE ApplyCheck(j)
  <2>1. job' \in [Jobs -> {NoJob} \cup Applications \cup Answers]
    BY <1>0, <1>1, ApplyGoes DEF ApplyCheck, ApplyAts
  <2>. QED BY <1>1, <2>1, SameSets DEF ApplyCheck, TypeOK
<1>2. CASE ApplySelect(j)
  <2>1. raced' \subseteq Users \X Users
    BY <1>0, <1>2, ApplicationFacts DEF ApplySelect, TypeOK
  <2>2. CASE Found(j) = {}
    <3>1. job' \in [Jobs -> {NoJob} \cup Applications \cup Answers]
      BY <1>0, <1>2, <2>2, ApplyGoes DEF ApplySelect, ApplyAts
    <3>. QED BY <1>2, <2>1, <2>2, <3>1, SameSets DEF ApplySelect, TypeOK
  <2>3. ASSUME NEW i \in Found(j), job' = [job EXCEPT ![j].at = "look", ![j].id = i],
               repeated' = repeated \cup {i}
        PROVE  TypeOK'
    <3>1. i \in Ids
      BY OpenIds DEF Found
    <3>2. [job[j] EXCEPT !.at = "look", !.id = i] \in Applications
      BY <1>0, <3>1 DEF Applications
    <3>3. job' \in [Jobs -> {NoJob} \cup Applications \cup Answers]
      BY <2>3, <3>2 DEF TypeOK
    <3>. QED BY <1>2, <2>1, <2>3, <3>1, <3>3, SameSets DEF ApplySelect, TypeOK
  <2>. QED BY <1>2, <2>2, <2>3 DEF ApplySelect
<1>3. CASE ApplyInsert(j)
  <2>0. Len(request) \in Nat /\ request \in Seq(Rows)
    BY LenProperties DEF TypeOK
  <2>1. CASE Refused /\ Goes(j, "done") /\ UNCHANGED request
    <3>1. job' \in [Jobs -> {NoJob} \cup Applications \cup Answers]
      BY <1>0, <2>1, ApplyGoes DEF ApplyAts
    <3>. QED BY <1>3, <2>1, <3>1, SameSets, FailureTyped DEF ApplyInsert, TypeOK
  <2>2. CASE /\ request' = Append(request, [from |-> job[j].from, to |-> job[j].to,
                                            status |-> "pending"])
             /\ job' = [job EXCEPT ![j].at = "look", ![j].id = Len(request')]
             /\ UNCHANGED failures
    <3>1. [from |-> job[j].from, to |-> job[j].to, status |-> "pending"] \in Rows
      BY <1>0, ApplicationFacts DEF Rows
    <3>2. request' \in Seq(Rows) /\ Len(request') = Len(request) + 1
      BY <2>0, <2>2, <3>1, AppendProperties
    <3>3. Ids \subseteq Ids' /\ Len(request') \in Ids'
      BY <2>0, <3>2 DEF Ids
    <3>4. /\ Notifications \subseteq Notifications' /\ Messages \subseteq Messages'
          /\ Applications \subseteq Applications' /\ Answers \subseteq Answers'
          /\ Snapshots \subseteq Snapshots'
          /\ Seq(Notifications) \subseteq Seq(Notifications') /\ Seq(Messages) \subseteq Seq(Messages')
      BY <3>3, MoreIds, MoreElements
    <3>5. [job[j] EXCEPT !.at = "look", !.id = Len(request')] \in Applications'
      BY <1>0, <3>3 DEF Applications
    <3>6. job' \in [Jobs -> {NoJob} \cup Applications' \cup Answers']
      BY <2>2, <3>4, <3>5 DEF TypeOK
    <3>7. /\ chan' \in [Users -> Seq(Notifications')] /\ inbox' \in [Users -> Seq(Messages')]
          /\ snapshot' \in [Users -> Snapshots']
      BY <1>3, <3>4 DEF ApplyInsert, TypeOK
    <3>8. applies' \in [Users -> SUBSET Ids'] /\ twice' \subseteq Ids' /\ repeated' \subseteq Ids'
      BY <1>3, <3>3 DEF ApplyInsert, TypeOK
    <3>. QED BY <1>3, <2>2, <3>2, <3>6, <3>7, <3>8 DEF ApplyInsert, TypeOK, Phases, States
  <2>. QED BY <1>3, <2>1, <2>2 DEF ApplyInsert
<1>4. CASE ApplyLook(j)
  <2>1. job' \in [Jobs -> {NoJob} \cup Applications \cup Answers]
    BY <1>0, <1>4, ApplyGoes, ApplicationFacts DEF ApplyLook, ApplyAts, At
  <2>. QED BY <1>4, <2>1, SameSets DEF ApplyLook, TypeOK
<1>5. CASE ApplyPublish(j)
  <2>1. job' \in [Jobs -> {NoJob} \cup Applications \cup Answers]
    BY <1>0, <1>5, ApplyGoes DEF ApplyPublish, ApplyAts
  <2>2. [kind |-> "apply", id |-> job[j].id] \in Notifications
    BY <1>0, <1>5, ApplicationFacts, Sent DEF ApplyPublish, At
  <2>3. chan' \in [Users -> Seq(Notifications)]
    BY <1>5, <2>2, PublishedTyped DEF ApplyPublish
  <2>. QED BY <1>5, <2>1, <2>3, SameSets DEF ApplyPublish, TypeOK
<1>. QED BY <1>1, <1>2, <1>3, <1>4, <1>5 DEF ApplyStep

LEMMA AnswerTyped == ASSUME TypeOK, NEW j \in Jobs, AnswerStep(j) PROVE TypeOK'
<1>. USE DEF tables, logging, window, ghosts
<1>. DEFINE Tasks == {NoJob} \cup Applications \cup Answers
<1>0. job[j].op = "answer" /\ job[j] \in Answers
  <2>1. job[j].op = "answer"
    BY DEF AnswerStep, AnswerUpdate, AnswerBind, Bind, AnswerState, AnswerLook, AnswerPublish,
           AnswerRespond, At
  <2>. QED BY <2>1, Kinds
<1>1. CASE AnswerUpdate(j)
  <2>1. CASE Refused /\ Goes(j, "done") /\ UNCHANGED request
    <3>1. job' \in [Jobs -> Tasks]
      BY <1>0, <2>1, AnswerGoes DEF AnswerAts
    <3>. QED BY <1>1, <2>1, <3>1, SameSets, FailureTyped DEF AnswerUpdate, TypeOK
  <2>2. CASE /\ request' = [request EXCEPT ![job[j].id].status = NewStatus(j)]
             /\ Goes(j, IF job[j].yes THEN "bind" ELSE "respond") /\ UNCHANGED failures
    <3>1. /\ request' \in Seq(Rows) /\ Ids' = Ids
      <4>1. request \in Seq(Rows) /\ job[j].id \in 1..Len(request)
        BY <1>0, AnswerFacts DEF TypeOK, Ids
      <4>2. request[job[j].id] \in Rows
        BY <4>1
      <4>3. [request[job[j].id] EXCEPT !.status = NewStatus(j)] \in Rows
        BY <4>2 DEF Rows, NewStatus
      <4>4. request' = [request EXCEPT ![job[j].id] = [request[job[j].id] EXCEPT !.status = NewStatus(j)]]
        BY <2>2
      <4>5. request' \in Seq(Rows) /\ Len(request') = Len(request)
        BY <4>1, <4>3, <4>4, ExceptSeq
      <4>. QED BY <4>5 DEF Ids
    <3>2. job' \in [Jobs -> Tasks]
      BY <1>0, <2>2, AnswerGoes DEF AnswerAts
    <3>. QED BY <1>1, <2>2, <3>1, <3>2, SameIds DEF AnswerUpdate, TypeOK
  <2>. QED BY <1>1, <2>1, <2>2 DEF AnswerUpdate
<1>2. ASSUME NEW at, NEW row \in Users \X Users, NEW next \in AnswerAts, Bind(j, at, row, next) PROVE TypeOK'
  <2>1. job' \in [Jobs -> Tasks]
    BY <1>0, <1>2, AnswerGoes DEF Bind
  <2>2. friend' \subseteq Users \X Users /\ broken' \in BOOLEAN /\ failures' \in 0..MaxFailures
    BY <1>2, FailureTyped DEF Bind, TypeOK
  <2>. QED BY <1>2, <2>1, <2>2, SameSets DEF Bind, TypeOK
<1>3. CASE AnswerBind(j)
  <2>1. <<job[j].from, job[j].to>> \in Users \X Users /\ SecondRow(j) \in Users \X Users
    BY <1>0, AnswerFacts DEF SecondRow
  <2>2. "bindBack" \in AnswerAts /\ "state" \in AnswerAts
    BY DEF AnswerAts
  <2>. QED BY <1>2, <1>3, <2>1, <2>2 DEF AnswerBind
<1>4. CASE AnswerState(j)
  <2>1. [job[j] EXCEPT !.at = "again", !.state = StateOf(job[j].from)] \in Answers
    BY <1>0, StateTyped DEF Answers
  <2>2. job' \in [Jobs -> Tasks]
    BY <1>4, <2>1 DEF AnswerState, TypeOK
  <2>3. friendSet' \in [Users -> SUBSET Users]
    <3>. DEFINE f == job[j].from
                t == job[j].to
    <3>1. f \in Users /\ t \in Users /\ friendSet \in [Users -> SUBSET Users]
      BY <1>0, AnswerFacts DEF TypeOK
    <3>2. friendSet' = [friendSet EXCEPT ![f] = @ \cup {t}, ![t] = @ \cup {f}]
      BY <1>4 DEF AnswerState
    <3>. HIDE DEF f, t
    <3>. QED BY <3>1, <3>2
  <2>. QED BY <1>4, <2>2, <2>3, SameSets DEF AnswerState, TypeOK
<1>5. CASE AnswerLook(j)
  <2>1. job' \in [Jobs -> Tasks]
    BY <1>0, <1>5, AnswerGoes DEF AnswerLook, AnswerAts
  <2>. QED BY <1>5, <2>1, SameSets DEF AnswerLook, TypeOK
<1>6. CASE AnswerPublish(j)
  <2>1. job' \in [Jobs -> Tasks]
    BY <1>0, <1>6, AnswerGoes DEF AnswerPublish, AnswerAts
  <2>2. job[j].to \in Users /\ job[j].from \in Users /\ [kind |-> "bound", uid |-> job[j].to] \in Notifications
    BY <1>0, AnswerFacts, Sent
  <2>3. chan' \in [Users -> Seq(Notifications)]
    BY <1>6, <2>2, PublishedTyped DEF AnswerPublish
  <2>4. outdated' \in [Users -> SUBSET (Users \cup {"requests"})]
    BY <1>6, <2>2 DEF AnswerPublish, TypeOK
  <2>. QED BY <1>6, <2>1, <2>3, <2>4, SameSets DEF AnswerPublish, TypeOK
<1>7. CASE AnswerRespond(j)
  <2>1. job' \in [Jobs -> Tasks]
    BY <1>0, <1>7, AnswerGoes DEF AnswerRespond, AnswerAts
  <2>. DEFINE m == [kind |-> "answer", id |-> job[j].id, yes |-> job[j].yes, uid |-> job[j].from,
                    state |-> job[j].state]
              u == job[j].to
  <2>2. m \in Messages /\ u \in Users /\ m.uid \in Users
    BY <1>0, AnswerFacts, Sent
  <2>3. \/ inbox' = [inbox EXCEPT ![u] = Append(@, m)] /\ UNCHANGED outdated
        \/ outdated' = [outdated EXCEPT ![u] = @ \cup {"requests", m.uid}] /\ UNCHANGED inbox
    BY <1>7 DEF AnswerRespond
  <2>. HIDE DEF m, u
  <2>4. /\ inbox' \in [Users -> Seq(Messages)]
        /\ outdated' \in [Users -> SUBSET (Users \cup {"requests"})]
    <3>1. Append(inbox[u], m) \in Seq(Messages)
      BY <2>2, TypedMail
    <3>2. CASE inbox' = [inbox EXCEPT ![u] = Append(@, m)] /\ UNCHANGED outdated
      BY <3>1, <3>2 DEF TypeOK
    <3>3. CASE outdated' = [outdated EXCEPT ![u] = @ \cup {"requests", m.uid}] /\ UNCHANGED inbox
      BY <2>2, <3>3 DEF TypeOK
    <3>. QED BY <2>3, <3>2, <3>3
  <2>. QED BY <1>7, <2>1, <2>4, SameSets DEF AnswerRespond, TypeOK
<1>. QED BY <1>1, <1>3, <1>4, <1>5, <1>6, <1>7 DEF AnswerStep

LEMMA ShowTyped ==
    ASSUME TypeOK, NEW u \in Users, NEW v \in Users, NEW s \in States, Show(u, v, s)
    PROVE  /\ list' \in [Users -> [Users -> States]] /\ list'[u][v] = s
           /\ \A w \in Users, x \in Users : w # u \/ x # v => list'[w][x] = list[w][x]
BY DEF Show, TypeOK

LEMMA ReadTyped == ASSUME TypeOK, NEW u \in Users, ClientRead(u) PROVE TypeOK'
<1>. DEFINE m == Head(inbox[u])
<1>1. m \in Messages /\ Tail(inbox[u]) \in Seq(Messages)
  BY TypedMail DEF ClientRead
<1>2. inbox' \in [Users -> Seq(Messages)]
  BY <1>1 DEF ClientRead, TypeOK
<1>3. /\ shown' \in [Users -> BOOLEAN] /\ list' \in [Users -> [Users -> States]]
      /\ applies' \in [Users -> SUBSET Ids]
  <2>1. \/ m.kind = "login" /\ SocialDataLoaded(u, m)
        \/ m.kind = "apply" /\ FriendRequestReceived(u, m)
        \/ m.kind = "answer" /\ ProcessFriendResult(u, m)
        \/ m.kind = "bound" /\ FriendBindSuccess(u, m)
        \/ m.kind = "status" /\ FriendStatusChanged(u, m)
        \/ UNCHANGED window
    BY <1>1, Received DEF ClientRead
  <2>. HIDE DEF m
  <2>2. CASE m.kind = "login" /\ SocialDataLoaded(u, m)
    BY <1>1, <2>2, Received DEF SocialDataLoaded, TypeOK
  <2>3. CASE m.kind = "apply" /\ FriendRequestReceived(u, m)
    BY <1>1, <2>3, Received DEF FriendRequestReceived, TypeOK
  <2>4. CASE m.kind = "answer" /\ ProcessFriendResult(u, m)
    BY <1>1, <2>4, Received, ShowTyped DEF ProcessFriendResult, LeftAfter, TypeOK
  <2>5. CASE m.kind = "bound" /\ FriendBindSuccess(u, m)
    BY <1>1, <2>5, Received, ShowTyped DEF FriendBindSuccess, TypeOK, States
  <2>6. CASE m.kind = "status" /\ FriendStatusChanged(u, m)
    BY <1>1, <2>6, Received, ShowTyped DEF FriendStatusChanged, TypeOK
  <2>7. CASE UNCHANGED window
    BY <2>7 DEF window, TypeOK
  <2>. QED BY <2>1, <2>2, <2>3, <2>4, <2>5, <2>6, <2>7
<1>. QED BY <1>2, <1>3, SameSets DEF ClientRead, TypeOK, tables, logging, ghosts

LEMMA TypeNext == TypeOK /\ [Next]_vars => TypeOK'
<1>. SUFFICES ASSUME TypeOK, [Next]_vars PROVE TypeOK'
  OBVIOUS
<1>1. CASE UNCHANGED vars
  BY <1>1, SameSets DEF vars, tables, logging, window, ghosts, TypeOK
<1>. QED BY <1>1, DeliverTyped, LoginTyped, CloseTyped, ReadTyped, RequestTyped, ApplyTyped, AnswerTyped
         DEF Next

-----------------------------------------------------------------------------
(* The steps that write a request, and one open request for a pair of users. *)

LEMMA Updated ==
    ASSUME TypeOK, NEW j \in Jobs, job[j].op = "answer",
           request' = [request EXCEPT ![job[j].id].status = NewStatus(j)]
    PROVE  /\ Len(request') = Len(request) /\ Ids' = Ids /\ job[j].id \in Ids
           /\ request'[job[j].id].status = NewStatus(j) /\ request'[job[j].id].status # "pending"
           /\ \A id \in Ids : /\ request'[id].from = request[id].from /\ request'[id].to = request[id].to
                              /\ id # job[j].id => request'[id] = request[id]
<1>. DEFINE i == job[j].id
            row == [request[i] EXCEPT !.status = NewStatus(j)]
<1>1. request \in Seq(Rows) /\ i \in 1..Len(request) /\ request[i] \in Rows
  <2>1. i \in Ids
    BY Kinds, AnswerFacts
  <2>. QED BY <2>1 DEF TypeOK, Ids
<1>2. /\ row \in Rows /\ row.from = request[i].from /\ row.to = request[i].to
      /\ row.status = NewStatus(j) /\ NewStatus(j) # "pending"
  BY <1>1 DEF Rows, NewStatus
<1>3. request' = [request EXCEPT ![i] = row]
  OBVIOUS
<1>. HIDE DEF row
<1>4. /\ Len(request') = Len(request)
      /\ \A k \in 1..Len(request) : request'[k] = IF k = i THEN row ELSE request[k]
  BY <1>1, <1>2, <1>3, ExceptSeq
<1>. QED BY <1>1, <1>2, <1>4 DEF Ids

LEMMA Appended ==
    ASSUME TypeOK, NEW row \in Rows, request' = Append(request, row)
    PROVE  /\ Len(request') = Len(request) + 1 /\ Len(request') \in Nat /\ Len(request') \notin Ids
           /\ Ids' = Ids \cup {Len(request')} /\ request'[Len(request')] = row
           /\ \A id \in Ids : request'[id] = request[id]
<1>1. request \in Seq(Rows) /\ Len(request) \in Nat
  BY LenProperties DEF TypeOK
<1>2. /\ Len(request') = Len(request) + 1 /\ request'[Len(request) + 1] = row
      /\ \A k \in 1..Len(request) : request'[k] = request[k]
  BY <1>1, AppendProperties
<1>. QED BY <1>1, <1>2 DEF Ids

LEMMA Named ==
    ASSUME TypeOK, NEW j \in Jobs, job[j].op = "apply", NEW id,
           job' = [job EXCEPT ![j].at = "look", ![j].id = id]
    PROVE  /\ Others(j) /\ SameTask(j) /\ job'[j].at = "look" /\ job'[j].id = id
<1>. DEFINE t == [job[j] EXCEPT !.at = "look", !.id = id]
<1>1. job[j] \in Applications
  BY Kinds
<1>2. t.op = job[j].op /\ t.from = job[j].from /\ t.to = job[j].to /\ t.at = "look" /\ t.id = id
  BY <1>1 DEF Applications
<1>3. job' = [job EXCEPT ![j] = t] /\ j \in DOMAIN job
  BY DEF TypeOK
<1>. HIDE DEF t
<1>. QED BY <1>2, <1>3 DEF Others, SameTask, TypeOK

LEMMA Applying == ASSUME NEW j \in Jobs, ApplyStep(j) PROVE job[j].op = "apply"
BY DEF ApplyStep, ApplyCheck, ApplySelect, ApplyInsert, ApplyLook, ApplyPublish, At

LEMMA AnsweringStep == ASSUME NEW j \in Jobs, AnswerStep(j) PROVE job[j].op = "answer"
BY DEF AnswerStep, AnswerUpdate, AnswerBind, Bind, AnswerState, AnswerLook, AnswerPublish,
       AnswerRespond, At

\* A step of an answer changes its own task, which goes on.
LEMMA AnswerOwn ==
    ASSUME TypeOK, NEW j \in Jobs, AnswerStep(j)
    PROVE  Others(j) /\ SameAnswer(j)
<1>1. job[j].op = "answer" /\ job[j] \in Answers
  BY AnsweringStep, Kinds
<1>2. CASE AnswerState(j)
  <2>. DEFINE t == [job[j] EXCEPT !.at = "again", !.state = StateOf(job[j].from)]
  <2>1. /\ t.op = job[j].op /\ t.from = job[j].from /\ t.to = job[j].to /\ t.id = job[j].id
        /\ t.yes = job[j].yes /\ t.conn = job[j].conn
    BY <1>1 DEF Answers
  <2>2. job' = [job EXCEPT ![j] = t]
    BY <1>2 DEF AnswerState
  <2>. HIDE DEF t
  <2>. QED BY <2>1, <2>2 DEF Others, SameAnswer, SameTask, TypeOK
<1>3. CASE \E at \in AnswerAts : Goes(j, at)
  BY <1>1, <1>3, AnswerGoes
<1>4. AnswerState(j) \/ \E at \in AnswerAts : Goes(j, at)
  BY DEF AnswerStep, AnswerUpdate, AnswerBind, Bind, AnswerLook, AnswerPublish, AnswerRespond,
       AnswerAts
<1>. QED BY <1>2, <1>3, <1>4

(* One open request of a pair. *)

\* The task j has found no open request of u to v and is about to insert one.
Inserting(j, u, v) == At(j, "apply", "insert") /\ job[j].from = u /\ job[j].to = v

\* As long as no two tasks for the pair overlapped: one request is open, and a task
\* that is about to insert one is alone and finds none open.
PairOpen(u, v) ==
    <<u, v>> \notin raced =>
        /\ \A i, k \in Open(u, v) : i = k
        /\ \A j \in Jobs : Inserting(j, u, v) =>
              /\ Open(u, v) = {}
              /\ \A i \in Jobs : Inserting(i, u, v) => i = j
PairsOpen == \A u, v \in Users : PairOpen(u, v)

LEMMA PairsInit == Init => PairsOpen
<1>. SUFFICES ASSUME Init, NEW u \in Users, NEW v \in Users PROVE PairOpen(u, v)
  BY DEF PairsOpen
<1>1. \A j \in Jobs : ~Inserting(j, u, v)
  BY NoneTyped DEF Init, Inserting, At
<1>2. Len(request) \in {0, 1}
  BY DEF Init, Tables
<1>. QED BY <1>1, <1>2 DEF PairOpen, Open

\* Steps that open nothing and bring no task to its insertion.
LEMMA NoOpening ==
    ASSUME PairsOpen, raced \subseteq raced',
           \A u, v \in Users : Open(u, v)' \subseteq Open(u, v),
           \A j \in Jobs, u, v \in Users : Inserting(j, u, v)' => Inserting(j, u, v)
    PROVE  PairsOpen'
BY DEF PairsOpen, PairOpen

LEMMA SameOpen == ASSUME UNCHANGED request PROVE \A u, v : Open(u, v)' = Open(u, v)
BY DEF Open

LEMMA SameJobs ==
    ASSUME UNCHANGED job
    PROVE  \A j \in Jobs, u, v \in Users : Inserting(j, u, v)' => Inserting(j, u, v)
BY DEF Inserting, At

LEMMA OwnJob ==
    ASSUME NEW j \in Jobs, Others(j), ~At(j, "apply", "insert")'
    PROVE  \A i \in Jobs, u, v \in Users : Inserting(i, u, v)' => Inserting(i, u, v)
BY DEF Inserting, At, Others

LEMMA PairsNext == TypeOK /\ PairsOpen /\ [Next]_vars => PairsOpen'
<1>. SUFFICES ASSUME TypeOK, PairsOpen, [Next]_vars PROVE PairsOpen'
  OBVIOUS
<1>. USE DEF tables, logging, window, ghosts
<1>1. CASE UNCHANGED <<request, job, raced>>
  BY <1>1, SameOpen, SameJobs, NoOpening
<1>2. ASSUME NEW u \in Users, NEW j \in Jobs, ClientRequest(u, j) PROVE PairsOpen'
  <2>1. UNCHANGED <<request, raced>>
    BY <1>2 DEF ClientRequest, ClientApply, ClientAnswer
  <2>2. Others(j) /\ ~At(j, "apply", "insert")'
    BY <1>2 DEF ClientRequest, ClientApply, ClientAnswer, Submit, Others, At, TypeOK
  <2>. QED BY <2>1, <2>2, SameOpen, OwnJob, NoOpening
<1>3. ASSUME NEW j \in Jobs, AnswerStep(j) PROVE PairsOpen'
  <2>1. job[j].op = "answer" /\ Others(j) /\ ~At(j, "apply", "insert")'
    BY <1>3, AnsweringStep, AnswerOwn DEF SameAnswer, SameTask, At
  <2>2. UNCHANGED raced
    BY <1>3 DEF AnswerStep, AnswerUpdate, AnswerBind, Bind, AnswerState, AnswerLook, AnswerPublish,
                AnswerRespond
  <2>3. \/ UNCHANGED request
        \/ request' = [request EXCEPT ![job[j].id].status = NewStatus(j)]
    BY <1>3 DEF AnswerStep, AnswerUpdate, AnswerBind, Bind, AnswerState, AnswerLook, AnswerPublish,
                AnswerRespond
  <2>4. \A u, v \in Users : Open(u, v)' \subseteq Open(u, v)
    <3>1. CASE UNCHANGED request
      BY <3>1, SameOpen
    <3>2. CASE request' = [request EXCEPT ![job[j].id].status = NewStatus(j)]
      <4>. SUFFICES ASSUME NEW u \in Users, NEW v \in Users, NEW i \in Open(u, v)' PROVE i \in Open(u, v)
        OBVIOUS
      <4>1. i \in Ids' /\ request'[i].from = u /\ request'[i].to = v /\ request'[i].status = "pending"
        BY DEF Open, Ids
      <4>2. /\ Ids' = Ids /\ request'[job[j].id].status # "pending"
            /\ \A id \in Ids : id # job[j].id => request'[id] = request[id]
        BY <2>1, <3>2, Updated
      <4>3. i \in Ids /\ request[i].from = u /\ request[i].to = v /\ request[i].status = "pending"
        BY <4>1, <4>2
      <4>. QED BY <4>3 DEF Open, Ids
    <3>. QED BY <2>3, <3>1, <3>2
  <2>. QED BY <2>1, <2>2, <2>4, OwnJob, NoOpening
<1>4. ASSUME NEW j \in Jobs, ApplyStep(j) PROVE PairsOpen'
  <2>0. job[j].op = "apply" /\ job[j] \in Applications
    BY <1>4, Applying, Kinds
  <2>1. CASE ApplyCheck(j) \/ ApplyLook(j) \/ ApplyPublish(j)
    <3>1. UNCHANGED <<request, raced>>
      BY <2>1 DEF ApplyCheck, ApplyLook, ApplyPublish
    <3>2. \E at \in ApplyAts \ {"insert", "look"} : Goes(j, at) /\ (at = "publish" => job[j].id \in Ids)
      <4>1. CASE ApplyCheck(j)
        BY <4>1 DEF ApplyCheck, ApplyAts
      <4>2. CASE ApplyLook(j)
        <5>1. job[j].id \in Ids
          BY <2>0, <4>2, ApplicationFacts DEF ApplyLook, At
        <5>. QED BY <4>2, <5>1 DEF ApplyLook, ApplyAts
      <4>3. CASE ApplyPublish(j)
        BY <4>3 DEF ApplyPublish, ApplyAts
      <4>. QED BY <2>1, <4>1, <4>2, <4>3
    <3>3. Others(j) /\ ~At(j, "apply", "insert")'
      BY <2>0, <3>2, ApplyGoes DEF At
    <3>. QED BY <3>1, <3>3, SameOpen, OwnJob, NoOpening
  <2>2. CASE ApplySelect(j)
    <3>. DEFINE f == job[j].from
                t == job[j].to
    <3>1. UNCHANGED request /\ raced \subseteq raced'
      BY <2>2 DEF ApplySelect
    <3>2. CASE Found(j) = {}
      <4>1. Others(j) /\ SameTask(j) /\ job'[j].at = "insert"
        BY <2>0, <2>2, <3>2, ApplyGoes DEF ApplySelect, ApplyAts
      <4>2. (\E k \in Jobs \ {j} : Inserting(k, f, t)) => <<f, t>> \in raced'
        BY <2>2 DEF ApplySelect, Inserting
      <4>3. ASSUME NEW u \in Users, NEW v \in Users, <<u, v>> \notin raced' PROVE PairOpen(u, v)'
        <5>1. <<u, v>> \notin raced /\ PairOpen(u, v) /\ Open(u, v)' = Open(u, v)
          BY <3>1, <4>3, SameOpen DEF PairsOpen
        <5>2. \A k \in Jobs \ {j} : Inserting(k, u, v)' <=> Inserting(k, u, v)
          BY <4>1 DEF Others, Inserting, At
        <5>3. CASE Inserting(j, u, v)'
          <6>1. u = f /\ v = t
            BY <4>1, <5>3 DEF Inserting, SameTask
          <6>2. Open(u, v)' = {} /\ \A k \in Jobs \ {j} : ~Inserting(k, u, v)'
            BY <3>2, <4>2, <4>3, <5>1, <5>2, <6>1 DEF Found
          <6>. QED BY <6>2 DEF PairOpen
        <5>4. CASE ~Inserting(j, u, v)'
          BY <5>1, <5>2, <5>4 DEF PairOpen
        <5>. QED BY <5>3, <5>4
      <4>. QED BY <4>3 DEF PairsOpen, PairOpen
    <3>3. ASSUME NEW id, job' = [job EXCEPT ![j].at = "look", ![j].id = id] PROVE PairsOpen'
      <4>1. Others(j) /\ ~At(j, "apply", "insert")'
        BY <2>0, <3>3, Named DEF At
      <4>. QED BY <3>1, <4>1, SameOpen, OwnJob, NoOpening
    <3>. QED BY <2>2, <3>2, <3>3 DEF ApplySelect
  <2>3. CASE ApplyInsert(j)
    <3>. DEFINE f == job[j].from
                t == job[j].to
                row == [from |-> f, to |-> t, status |-> "pending"]
    <3>0. row \in Rows /\ row.from = f /\ row.to = t /\ UNCHANGED raced /\ f \in Users /\ t \in Users
      BY <2>0, <2>3, ApplicationFacts DEF Rows, ApplyInsert
    <3>1. CASE Goes(j, "done") /\ UNCHANGED request
      <4>1. Others(j) /\ ~At(j, "apply", "insert")'
        BY <2>0, <3>1, ApplyGoes DEF ApplyAts, At
      <4>. QED BY <3>0, <3>1, <4>1, SameOpen, OwnJob, NoOpening
    <3>2. CASE request' = Append(request, row) /\ job' = [job EXCEPT ![j].at = "look", ![j].id = Len(request')]
      <4>1. Others(j) /\ ~At(j, "apply", "insert")'
        BY <2>0, <3>2, Named DEF At
      <4>. HIDE DEF row
      <4>2. /\ Len(request') = Len(request) + 1 /\ Len(request') \notin Ids
            /\ Ids' = Ids \cup {Len(request')} /\ request'[Len(request')] = row
            /\ \A id \in Ids : request'[id] = request[id]
        BY <3>0, <3>2, Appended
      <4>3. ASSUME NEW u \in Users, NEW v \in Users, <<u, v>> \notin raced PROVE PairOpen(u, v)'
        <5>1. PairOpen(u, v)
          BY DEF PairsOpen
        <5>2. CASE u = f /\ v = t
          <6>1. Inserting(j, u, v)
            BY <2>3, <5>2 DEF Inserting, ApplyInsert
          <6>2. Open(u, v) = {} /\ \A i \in Jobs : ~Inserting(i, u, v)'
            BY <4>1, <4>3, <5>1, <6>1, OwnJob DEF PairOpen, Inserting, Others, At
          <6>3. Open(u, v)' \subseteq {Len(request')}
            BY <4>2, <6>2 DEF Open, Ids
          <6>. QED BY <6>2, <6>3 DEF PairOpen
        <5>3. CASE ~(u = f /\ v = t)
          <6>1. Open(u, v)' \subseteq Open(u, v)
            BY <3>0, <4>2, <5>3 DEF Open, Ids
          <6>2. \A i \in Jobs : Inserting(i, u, v)' => Inserting(i, u, v)
            BY <4>1, OwnJob
          <6>. QED BY <4>3, <5>1, <6>1, <6>2 DEF PairOpen
        <5>. QED BY <5>2, <5>3
      <4>. QED BY <3>0, <4>3 DEF PairsOpen, PairOpen
    <3>. QED BY <2>3, <3>1, <3>2 DEF ApplyInsert
  <2>. QED BY <1>4, <2>1, <2>2, <2>3 DEF ApplyStep
<1>5. ASSUME NEW u \in Users, Deliver(u) \/ LoginStep(u) \/ CloseStep(u) \/ ClientRead(u)
      PROVE  UNCHANGED <<request, job, raced>>
  BY <1>5 DEF Deliver, LoginStep, Login, LoginFriends, LoginStates, LoginApplies, LoginTell,
       LoginAck,
              CloseStep, Close, CloseRoute, CloseFriends, CloseTell, ClientRead
<1>6. UNCHANGED vars => UNCHANGED <<request, job, raced>>
  BY DEF vars
<1>. QED BY <1>1, <1>2, <1>3, <1>4, <1>5, <1>6 DEF Next

LEMMA OpenPairs == TypeOK /\ PairsOpen => OnePending
<1>. SUFFICES ASSUME PairsOpen, NEW u \in Users, NEW v \in Users, <<u, v>> \notin raced
              PROVE  Cardinality(Open(u, v)) <= 1
  BY DEF OnePending
<1>1. \A i, k \in Open(u, v) : i = k
  BY DEF PairsOpen, PairOpen
<1>2. CASE Open(u, v) = {}
  BY <1>2, FS_EmptySet
<1>3. ASSUME NEW i \in Open(u, v) PROVE Cardinality(Open(u, v)) <= 1
  <2>1. Open(u, v) = {i}
    BY <1>1
  <2>. QED BY <2>1, FS_Singleton
<1>. QED BY <1>2, <1>3

-----------------------------------------------------------------------------
(* Sequences, and what is addressed to whom: a request, wherever it is
   announced, shown or being answered, is one to that user. *)

LEMMA AppendElements ==
    ASSUME NEW S, NEW s \in Seq(S), NEW x \in S
    PROVE  /\ Len(s) \in Nat /\ DOMAIN s = 1..Len(s) /\ \A k \in DOMAIN s : s[k] \in S
           /\ Append(s, x) \in Seq(S) /\ Len(Append(s, x)) = Len(s) + 1
           /\ DOMAIN Append(s, x) = DOMAIN s \cup {Len(s) + 1} /\ Len(s) + 1 \notin DOMAIN s
           /\ Append(s, x)[Len(s) + 1] = x
           /\ \A k \in DOMAIN s : Append(s, x)[k] = s[k]
<1>1. Len(s) \in Nat /\ DOMAIN s = 1..Len(s) /\ \A k \in DOMAIN s : s[k] \in S
  BY LenProperties, ElementOfSeq
<1>2. /\ Append(s, x) \in Seq(S) /\ Len(Append(s, x)) = Len(s) + 1
      /\ Append(s, x)[Len(s) + 1] = x /\ \A k \in 1..Len(s) : Append(s, x)[k] = s[k]
  BY AppendProperties
<1>3. DOMAIN Append(s, x) = 1..(Len(s) + 1)
  BY <1>2, LenProperties
<1>. QED BY <1>1, <1>2, <1>3

LEMMA TailElements ==
    ASSUME NEW S, NEW s \in Seq(S), s # <<>>
    PROVE  /\ Tail(s) \in Seq(S) /\ Len(s) \in Nat \ {0} /\ DOMAIN s = 1..Len(s)
           /\ Head(s) \in S /\ Head(s) = s[1] /\ 1 \in DOMAIN s
           /\ DOMAIN Tail(s) = 1..(Len(s) - 1)
           /\ \A k \in DOMAIN Tail(s) : k + 1 \in DOMAIN s /\ Tail(s)[k] = s[k + 1]
           /\ \A k \in DOMAIN s : k = 1 \/ k - 1 \in DOMAIN Tail(s)
<1>1. Len(s) \in Nat \ {0} /\ DOMAIN s = 1..Len(s)
  BY LenProperties, EmptySeq
<1>2. /\ Tail(s) \in Seq(S) /\ Len(Tail(s)) = Len(s) - 1 /\ Head(s) \in S
      /\ \A k \in 1..(Len(s) - 1) : Tail(s)[k] = s[k + 1]
  BY HeadTailProperties
<1>3. DOMAIN Tail(s) = 1..(Len(s) - 1)
  BY <1>2, LenProperties
<1>4. Head(s) = s[1]
  BY <1>1
<1>. QED BY <1>1, <1>2, <1>3, <1>4

(* The rows keep their pair, and an answer is never taken back to pending. *)
\* A row keeps its people, and no row goes.
RowsKeep ==
    /\ Ids \subseteq Ids'
    /\ \A id \in Ids : /\ request'[id].from = request[id].from /\ request'[id].to = request[id].to
                       /\ request[id].status # "pending" => request'[id].status # "pending"

LEMMA RowsKept == TypeOK /\ [Next]_vars => RowsKeep
<1>. SUFFICES ASSUME TypeOK, [Next]_vars PROVE RowsKeep
  OBVIOUS
<1>. USE DEF tables, logging, window, ghosts
<1>1. CASE UNCHANGED request
  BY <1>1 DEF RowsKeep, Ids
<1>2. ASSUME NEW j \in Jobs, ApplyInsert(j) PROVE RowsKeep
  <2>. DEFINE row == [from |-> job[j].from, to |-> job[j].to, status |-> "pending"]
  <2>1. row \in Rows
    BY <1>2, Kinds, ApplicationFacts DEF Rows, ApplyInsert, At
  <2>2. UNCHANGED request \/ request' = Append(request, row)
    BY <1>2 DEF ApplyInsert
  <2>. HIDE DEF row
  <2>3. CASE request' = Append(request, row)
    BY <2>1, <2>3, Appended DEF RowsKeep
  <2>. QED BY <1>1, <2>2, <2>3
<1>3. ASSUME NEW j \in Jobs, AnswerUpdate(j) PROVE RowsKeep
  <2>1. job[j].op = "answer"
    BY <1>3 DEF AnswerUpdate, At
  <2>2. CASE request' = [request EXCEPT ![job[j].id].status = NewStatus(j)]
    <3>1. /\ Ids' = Ids /\ request'[job[j].id].status # "pending"
          /\ \A id \in Ids : /\ request'[id].from = request[id].from /\ request'[id].to = request[id].to
                             /\ id # job[j].id => request'[id] = request[id]
      BY <2>1, <2>2, Updated
    <3>. QED BY <3>1 DEF RowsKeep
  <2>. QED BY <1>1, <1>3, <2>2 DEF AnswerUpdate
<1>4. ASSUME NEW u \in Users, Deliver(u) \/ LoginStep(u) \/ CloseStep(u) \/ ClientRead(u) PROVE RowsKeep
  BY <1>1, <1>4 DEF Deliver, LoginStep, Login, LoginFriends, LoginStates, LoginApplies, LoginTell,
       LoginAck,
              CloseStep, Close, CloseRoute, CloseFriends, CloseTell, ClientRead
<1>5. ASSUME NEW u \in Users, NEW j \in Jobs, ClientRequest(u, j) PROVE RowsKeep
  BY <1>1, <1>5 DEF ClientRequest, ClientApply, ClientAnswer
<1>6. ASSUME NEW j \in Jobs, ApplyStep(j) PROVE RowsKeep
  BY <1>1, <1>2, <1>6 DEF ApplyStep, ApplyCheck, ApplySelect, ApplyLook, ApplyPublish
<1>7. ASSUME NEW j \in Jobs, AnswerStep(j) PROVE RowsKeep
  BY <1>1, <1>3, <1>7 DEF AnswerStep, AnswerBind, Bind, AnswerState, AnswerLook, AnswerPublish,
       AnswerRespond
<1>. QED BY <1>1, <1>4, <1>5, <1>6, <1>7 DEF Next, vars

(* Every id is found where its row says. *)

\* m is for u.
\* What is announced or sent to u is a request to u.
Own(u, m) ==
    /\ m.kind = "apply" => request[m.id].to = u
    /\ m.kind = "login" => \A id \in m.applies : request[id].to = u
Mail(u) == /\ \A k \in DOMAIN chan[u] : Own(u, chan[u][k])
           /\ \A k \in DOMAIN inbox[u] : Own(u, inbox[u][k])
Mine(u) == \A id \in applies[u] \cup snapshot[u].applies : request[id].to = u
Tasked(j) ==
    /\ job[j].op = "apply" =>
         /\ job[j].from # job[j].to
         /\ job[j].at \in {"look", "publish"} => request[job[j].id].to = job[j].to
    /\ job[j].op = "answer" =>
         request[job[j].id].from = job[j].from /\ request[job[j].id].to = job[j].to
Addressed ==
    /\ \A id \in Ids : request[id].from # request[id].to
    /\ \A u \in Users : Mail(u) /\ Mine(u)
    /\ \A j \in Jobs : Tasked(j)

LEMMA AddressedInit == Init => Addressed
<1>. SUFFICES ASSUME Init PROVE Addressed
  OBVIOUS
<1>1. \A id \in Ids : request[id].from # request[id].to
  <2>1. request \in Tables
    BY DEF Init
  <2>2. CASE request = <<>>
    BY <2>2 DEF Ids
  <2>3. ASSUME NEW p \in Users \X Users, p[1] # p[2],
               request = <<[from |-> p[1], to |-> p[2], status |-> "pending"]>>
        PROVE  \A id \in Ids : request[id].from # request[id].to
    BY <2>3 DEF Ids
  <2>. QED BY <2>1, <2>2, <2>3 DEF Tables
<1>2. ASSUME NEW u \in Users PROVE Mail(u) /\ Mine(u)
  <2>1. chan[u] = <<>> /\ inbox[u] = <<>> /\ applies[u] = {} /\ snapshot[u].applies = {}
    BY NoneTyped DEF Init
  <2>. QED BY <2>1 DEF Mail, Mine
<1>3. \A j \in Jobs : Tasked(j)
  BY NoneTyped DEF Init, Tasked
<1>. QED BY <1>1, <1>2, <1>3 DEF Addressed

\* What is there after a step, looked up in the table before it.
MineOf(u) == \A id \in applies'[u] \cup snapshot'[u].applies : id \in Ids /\ request[id].to = u
MailOf(u) == /\ \A k \in DOMAIN chan'[u] : chan'[u][k] \in Messages /\ Own(u, chan'[u][k])
             /\ \A k \in DOMAIN inbox'[u] : inbox'[u][k] \in Messages /\ Own(u, inbox'[u][k])

LEMMA MineKept ==
    ASSUME RowsKeep, NEW u \in Users, MineOf(u), MailOf(u)
    PROVE  Mine(u)' /\ Mail(u)'
<1>1. Mine(u)'
  BY DEF RowsKeep, MineOf, Mine
<1>2. \A m \in Messages : Own(u, m) => Own(u, m)'
  <2>1. \A m \in Messages : /\ m.kind = "apply" => m.id \in Ids
                            /\ m.kind = "login" => m.applies \subseteq Ids
    BY Received
  <2>. QED BY <2>1 DEF RowsKeep, Own
<1>. QED BY <1>1, <1>2 DEF Mail, MailOf

LEMMA MailElements ==
    ASSUME TypeOK, NEW u \in Users
    PROVE  /\ \A k \in DOMAIN chan[u] : chan[u][k] \in Notifications /\ chan[u][k] \in Messages
           /\ \A k \in DOMAIN inbox[u] : inbox[u][k] \in Messages
<1>1. chan[u] \in Seq(Notifications) /\ inbox[u] \in Seq(Messages)
  BY TypedMail
<1>2. /\ DOMAIN chan[u] = 1..Len(chan[u]) /\ DOMAIN inbox[u] = 1..Len(inbox[u])
  BY <1>1, LenProperties
<1>. QED BY <1>1, <1>2, ElementOfSeq, Sent

\* Publishing to the users us.
LEMMA PublishedOwn ==
    ASSUME TypeOK, NEW u \in Users, Mail(u), NEW us, NEW m \in Notifications, u \in us => Own(u, m),
           chan' = Published(us, m)
    PROVE  \A k \in DOMAIN chan'[u] : chan'[u][k] \in Messages /\ Own(u, chan'[u][k])
<1>1. chan'[u] = chan[u] \/ (u \in us /\ chan'[u] = Append(chan[u], m))
  <2>1. chan'[u] = IF u \in us \cap Subscribed THEN Append(chan[u], m) ELSE chan[u]
    BY DEF Published
  <2>. QED BY <2>1
<1>2. CASE u \in us /\ chan'[u] = Append(chan[u], m)
  BY <1>2, AppendElements, TypedMail, MailElements, Sent DEF Mail
<1>. QED BY <1>1, <1>2, MailElements DEF Mail

LEMMA InboxOwn ==
    ASSUME TypeOK, NEW u \in Users, Mail(u), NEW m \in Messages, Own(u, m),
           inbox'[u] = Append(inbox[u], m)
    PROVE  \A k \in DOMAIN inbox'[u] : inbox'[u][k] \in Messages /\ Own(u, inbox'[u][k])
BY AppendElements, TypedMail, MailElements DEF Mail

LEMMA AddressedUsers ==
    ASSUME TypeOK, Addressed, [Next]_vars, NEW u \in Users
    PROVE  Mine(u)' /\ Mail(u)'
<1>. USE DEF tables, logging, window, ghosts
<1>0. Mine(u) /\ Mail(u) /\ applies[u] \subseteq Ids /\ snapshot[u].applies \subseteq Ids
  BY SnapshotTyped, SnapshotFacts DEF Addressed, TypeOK
<1>1. MineOf(u) /\ MailOf(u)
  <2>1. UNCHANGED <<applies, snapshot>> => MineOf(u)
    BY <1>0 DEF MineOf, Mine
  <2>2. chan'[u] = chan[u] => \A k \in DOMAIN chan'[u] : chan'[u][k] \in Messages /\ Own(u, chan'[u][k])
    BY <1>0, MailElements DEF Mail
  <2>3. inbox'[u] = inbox[u] => \A k \in DOMAIN inbox'[u] : inbox'[u][k] \in Messages /\ Own(u, inbox'[u][k])
    BY <1>0, MailElements DEF Mail
  <2>4. CASE UNCHANGED <<chan, inbox, applies, snapshot>>
    BY <2>1, <2>2, <2>3, <2>4 DEF MailOf
  <2>5. ASSUME NEW w \in Users, Deliver(w) PROVE MineOf(u) /\ MailOf(u)
    <3>1. UNCHANGED <<applies, snapshot>>
      BY <2>5 DEF Deliver
    <3>2. CASE w # u
      <4>1. chan'[u] = chan[u] /\ inbox'[u] = inbox[u]
        BY <2>5, <3>2 DEF Deliver, TypeOK
      <4>. QED BY <2>1, <2>2, <2>3, <3>1, <4>1 DEF MailOf
    <3>3. CASE w = u
      <4>1. chan[u] # <<>> /\ chan'[u] = Tail(chan[u])
        BY <2>5, <3>3 DEF Deliver, TypeOK
      <4>2. inbox'[u] = inbox[u] \/ inbox'[u] = Append(inbox[u], Head(chan[u]))
        BY <2>5, <3>3 DEF Deliver, TypeOK
      <4>3. /\ Head(chan[u]) \in Messages /\ Own(u, Head(chan[u]))
            /\ \A k \in DOMAIN chan'[u] : chan'[u][k] \in Messages /\ Own(u, chan'[u][k])
        BY <1>0, <4>1, TailElements, TypedMail, MailElements DEF Mail
      <4>4. \A k \in DOMAIN inbox'[u] : inbox'[u][k] \in Messages /\ Own(u, inbox'[u][k])
        BY <1>0, <2>3, <4>2, <4>3, InboxOwn
      <4>. QED BY <2>1, <3>1, <4>3, <4>4 DEF MailOf
    <3>. QED BY <3>2, <3>3
  <2>6. ASSUME NEW w \in Users, LoginStep(w) PROVE MineOf(u) /\ MailOf(u)
    <3>1. CASE Login(w)
      BY <2>4, <3>1 DEF Login
    <3>2. CASE LoginFriends(w) \/ LoginStates(w) \/ LoginApplies(w)
      <4>1. UNCHANGED <<applies, chan, inbox>>
        BY <3>2 DEF LoginFriends, LoginStates, LoginApplies
      <4>2. snapshot'[u].applies \subseteq snapshot[u].applies \cup PendingTo(u)
        <5>1. u # w => snapshot'[u] = snapshot[u]
          BY <3>2 DEF LoginFriends, LoginStates, LoginApplies, TypeOK
        <5>2. CASE LoginFriends(u) \/ LoginStates(u)
          <6>1. CASE LoginFriends(u)
            <7>. DEFINE x == [snapshot[u] EXCEPT !.friends = FriendsOf(u)]
            <7>1. snapshot' = [snapshot EXCEPT ![u] = x] /\ x.applies = snapshot[u].applies
              BY <6>1, SnapshotTyped DEF LoginFriends, Snapshots
            <7>. HIDE DEF x
            <7>. QED BY <7>1 DEF TypeOK
          <6>2. CASE LoginStates(u)
            <7>. DEFINE l == [v \in Users |-> IF v \in snapshot[u].friends THEN StateOf(v) ELSE "none"]
                        x == [snapshot[u] EXCEPT !.list = l]
            <7>1. snapshot' = [snapshot EXCEPT ![u] = x]
              BY <6>2 DEF LoginStates
            <7>. HIDE DEF l
            <7>2. x.applies = snapshot[u].applies
              BY SnapshotTyped DEF Snapshots
            <7>. HIDE DEF x
            <7>. QED BY <7>1, <7>2 DEF TypeOK
          <6>. QED BY <5>2, <6>1, <6>2
        <5>3. CASE LoginApplies(u)
          BY <5>3 DEF TypeOK, LoginApplies, Snapshots
        <5>. QED BY <3>2, <5>1, <5>2, <5>3
      <4>3. \A id \in PendingTo(u) : id \in Ids /\ request[id].to = u
        BY DEF PendingTo, Ids
      <4>. QED BY <1>0, <2>2, <2>3, <4>1, <4>2, <4>3 DEF MineOf, Mine, MailOf
    <3>3. CASE LoginTell(w)
      <4>1. [kind |-> "status", uid |-> w, state |-> "online"] \in Notifications
        BY Sent DEF States
      <4>2. \A k \in DOMAIN chan'[u] : chan'[u][k] \in Messages /\ Own(u, chan'[u][k])
        BY <1>0, <3>3, <4>1, PublishedOwn DEF LoginTell, Own
      <4>3. UNCHANGED <<applies, snapshot, inbox>>
        BY <3>3 DEF LoginTell
      <4>. QED BY <2>1, <2>3, <4>2, <4>3 DEF MailOf
    <3>4. CASE LoginAck(w)
      <4>. DEFINE m == [kind |-> "login", list |-> snapshot[w].list, applies |-> snapshot[w].applies]
      <4>1. m \in Messages
        BY Sent, SnapshotTyped, SnapshotFacts
      <4>2. UNCHANGED <<applies, chan>>
        BY <3>4 DEF LoginAck
      <4>3. snapshot'[u].applies \subseteq snapshot[u].applies
        BY <3>4, NoneTyped DEF LoginAck, TypeOK
      <4>4. inbox'[u] = inbox[u] \/ (w = u /\ inbox'[u] = Append(inbox[u], m))
        BY <3>4 DEF LoginAck, TypeOK
      <4>5. w = u => Own(u, m)
        BY <1>0 DEF Own, Mine
      <4>. HIDE DEF m
      <4>6. \A k \in DOMAIN inbox'[u] : inbox'[u][k] \in Messages /\ Own(u, inbox'[u][k])
        BY <1>0, <2>3, <4>1, <4>4, <4>5, InboxOwn
      <4>. QED BY <1>0, <2>2, <4>2, <4>3, <4>6 DEF MineOf, Mine, MailOf
    <3>. QED BY <2>6, <3>1, <3>2, <3>3, <3>4 DEF LoginStep
  <2>7. ASSUME NEW w \in Users, CloseStep(w) PROVE MineOf(u) /\ MailOf(u)
    <3>1. CASE Close(w)
      <4>1. UNCHANGED <<snapshot, chan>> /\ applies'[u] \subseteq applies[u]
            /\ (inbox'[u] = inbox[u] \/ inbox'[u] = <<>>)
        BY <3>1 DEF Close, TypeOK
      <4>2. \A k \in DOMAIN inbox'[u] : inbox'[u][k] \in Messages /\ Own(u, inbox'[u][k])
        BY <2>3, <4>1
      <4>. QED BY <1>0, <2>2, <4>1, <4>2 DEF MineOf, Mine, MailOf
    <3>2. CASE CloseRoute(w) \/ CloseFriends(w)
      BY <2>4, <3>2 DEF CloseRoute, CloseFriends
    <3>3. CASE CloseTell(w)
      <4>1. Particulars(w) \in Notifications /\ Own(u, Particulars(w))
        BY Sent DEF States, Particulars, Own
      <4>2. \A k \in DOMAIN chan'[u] : chan'[u][k] \in Messages /\ Own(u, chan'[u][k])
        BY <1>0, <3>3, <4>1, PublishedOwn DEF CloseTell
      <4>3. UNCHANGED <<applies, snapshot, inbox>>
        BY <3>3 DEF CloseTell
      <4>. QED BY <2>1, <2>3, <4>2, <4>3 DEF MailOf
    <3>. QED BY <2>7, <3>1, <3>2, <3>3 DEF CloseStep
  <2>8. ASSUME NEW w \in Users, ClientRead(w) PROVE MineOf(u) /\ MailOf(u)
    <3>1. UNCHANGED <<chan, snapshot>>
      BY <2>8 DEF ClientRead
    <3>2. CASE w # u
      <4>1. inbox'[u] = inbox[u] /\ applies'[u] = applies[u]
        BY <2>8, <3>2 DEF ClientRead, TypeOK, SocialDataLoaded, FriendRequestReceived,
           ProcessFriendResult, FriendBindSuccess, FriendStatusChanged
      <4>. QED BY <1>0, <2>2, <2>3, <3>1, <4>1 DEF MineOf, Mine, MailOf
    <3>3. CASE w = u
      <4>. DEFINE m == Head(inbox[u])
      <4>1. inbox[u] # <<>> /\ inbox'[u] = Tail(inbox[u])
        BY <2>8, <3>3 DEF ClientRead, TypeOK
      <4>2. /\ m \in Messages /\ Own(u, m)
            /\ \A k \in DOMAIN inbox'[u] : inbox'[u][k] \in Messages /\ Own(u, inbox'[u][k])
        BY <1>0, <4>1, TailElements, TypedMail, MailElements DEF Mail
      <4>3. \/ applies'[u] \subseteq applies[u]
            \/ m.kind = "login" /\ applies'[u] = m.applies
            \/ m.kind = "apply" /\ applies'[u] = applies[u] \cup {m.id}
        <5>1. \/ m.kind = "login" /\ SocialDataLoaded(u, m)
              \/ m.kind = "apply" /\ FriendRequestReceived(u, m)
              \/ m.kind = "answer" /\ ProcessFriendResult(u, m)
              \/ m.kind = "bound" /\ FriendBindSuccess(u, m)
              \/ m.kind = "status" /\ FriendStatusChanged(u, m)
              \/ UNCHANGED window
          BY <2>8, <3>3, <4>2, Received DEF ClientRead
        <5>. HIDE DEF m
        <5>. QED BY <5>1 DEF SocialDataLoaded, FriendRequestReceived, ProcessFriendResult, LeftAfter,
                             FriendBindSuccess, FriendStatusChanged, TypeOK
      <4>. HIDE DEF m
      <4>4. MineOf(u)
        BY <1>0, <3>1, <4>2, <4>3, Received DEF MineOf, Mine, Own
      <4>. QED BY <2>2, <3>1, <4>2, <4>4 DEF MailOf
    <3>. QED BY <3>2, <3>3
  <2>9. ASSUME NEW w \in Users, NEW j \in Jobs, ClientRequest(w, j) PROVE MineOf(u) /\ MailOf(u)
    BY <2>4, <2>9 DEF ClientRequest, ClientApply, ClientAnswer
  <2>10. ASSUME NEW j \in Jobs, ApplyStep(j) PROVE MineOf(u) /\ MailOf(u)
    <3>1. CASE ~ApplyPublish(j)
      BY <2>4, <2>10, <3>1 DEF ApplyStep, ApplyCheck, ApplySelect, ApplyInsert, ApplyLook
    <3>2. CASE ApplyPublish(j)
      <4>1. /\ job[j].op = "apply" /\ job[j] \in Applications /\ job[j].id \in Ids
            /\ request[job[j].id].to = job[j].to
        BY <3>2, Kinds, ApplicationFacts DEF ApplyPublish, At, Addressed, Tasked
      <4>. DEFINE m == [kind |-> "apply", id |-> job[j].id]
      <4>2. m \in Notifications /\ (u = job[j].to => Own(u, m))
        BY <4>1, Sent DEF Own
      <4>3. chan' = Published({job[j].to}, m)
        BY <3>2 DEF ApplyPublish
      <4>. HIDE DEF m
      <4>4. \A k \in DOMAIN chan'[u] : chan'[u][k] \in Messages /\ Own(u, chan'[u][k])
        BY <1>0, <4>2, <4>3, PublishedOwn
      <4>5. UNCHANGED <<applies, snapshot, inbox>>
        BY <3>2 DEF ApplyPublish
      <4>. QED BY <2>1, <2>3, <4>4, <4>5 DEF MailOf
    <3>. QED BY <3>1, <3>2
  <2>11. ASSUME NEW j \in Jobs, AnswerStep(j) PROVE MineOf(u) /\ MailOf(u)
    <3>0. job[j] \in Answers
      BY <2>11, AnsweringStep, Kinds
    <3>1. CASE AnswerUpdate(j) \/ AnswerBind(j) \/ AnswerState(j) \/ AnswerLook(j)
      BY <2>4, <3>1 DEF AnswerUpdate, AnswerBind, Bind, AnswerState, AnswerLook
    <3>2. CASE AnswerPublish(j)
      <4>1. [kind |-> "bound", uid |-> job[j].to] \in Notifications
        BY <3>0, AnswerFacts, Sent
      <4>2. \A k \in DOMAIN chan'[u] : chan'[u][k] \in Messages /\ Own(u, chan'[u][k])
        BY <1>0, <3>2, <4>1, PublishedOwn DEF AnswerPublish, Own
      <4>3. UNCHANGED <<applies, snapshot, inbox>>
        BY <3>2 DEF AnswerPublish
      <4>. QED BY <2>1, <2>3, <4>2, <4>3 DEF MailOf
    <3>3. CASE AnswerRespond(j)
      <4>. DEFINE m == [kind |-> "answer", id |-> job[j].id, yes |-> job[j].yes, uid |-> job[j].from,
                        state |-> job[j].state]
      <4>1. m \in Messages /\ Own(u, m)
        BY <3>0, AnswerFacts, Sent DEF Own
      <4>2. \/ inbox' = [inbox EXCEPT ![job[j].to] = Append(@, m)]
            \/ UNCHANGED inbox
        BY <3>3 DEF AnswerRespond
      <4>. HIDE DEF m
      <4>3. inbox'[u] = inbox[u] \/ inbox'[u] = Append(inbox[u], m)
        BY <4>2 DEF TypeOK
      <4>4. \A k \in DOMAIN inbox'[u] : inbox'[u][k] \in Messages /\ Own(u, inbox'[u][k])
        BY <1>0, <2>3, <4>1, <4>3, InboxOwn
      <4>5. UNCHANGED <<applies, snapshot, chan>>
        BY <3>3 DEF AnswerRespond
      <4>. QED BY <2>1, <2>2, <4>4, <4>5 DEF MailOf
    <3>. QED BY <2>11, <3>1, <3>2, <3>3 DEF AnswerStep
  <2>12. CASE UNCHANGED vars
    BY <2>4, <2>12 DEF vars
  <2>. QED BY <2>5, <2>6, <2>7, <2>8, <2>9, <2>10, <2>11, <2>12 DEF Next
<1>. QED BY <1>1, MineKept, RowsKept

LEMMA AddressedNext == TypeOK /\ Addressed /\ [Next]_vars => Addressed'
<1>. SUFFICES ASSUME TypeOK, Addressed, [Next]_vars PROVE Addressed'
  OBVIOUS
<1>. USE DEF tables, logging, window, ghosts
<1>0. RowsKeep
  BY RowsKept
<1>1. \A u \in Users : Mine(u)' /\ Mail(u)'
  BY AddressedUsers
<1>2. ASSUME NEW i \in Jobs, job'[i] = job[i] PROVE Tasked(i)'
  <2>1. Tasked(i)
    BY DEF Addressed
  <2>2. /\ job[i].op = "apply" /\ job[i].at \in {"look", "publish"} => job[i].id \in Ids
        /\ job[i].op = "answer" => job[i].id \in Ids
    BY Kinds, ApplicationFacts, AnswerFacts
  <2>. QED BY <1>0, <1>2, <2>1, <2>2 DEF Tasked, RowsKeep
<1>3. CASE UNCHANGED <<request, job>>
  BY <1>1, <1>3 DEF Addressed, Tasked, Ids
<1>4. ASSUME UNCHANGED request, NEW j \in Jobs, Others(j), Tasked(j)' PROVE Addressed'
  BY <1>1, <1>2, <1>4 DEF Addressed, Others, Ids
<1>5. ASSUME NEW u \in Users, NEW j \in Jobs, ClientRequest(u, j) PROVE Addressed'
  <2>1. ASSUME NEW v \in Users, ClientApply(u, v, j) PROVE Addressed'
    <3>1. UNCHANGED request /\ Others(j) /\ Tasked(j)'
      BY <2>1 DEF ClientApply, Submit, TypeOK, Others, Tasked
    <3>. QED BY <1>4, <3>1
  <2>2. ASSUME NEW id \in applies[u], NEW yes \in BOOLEAN, ClientAnswer(u, id, yes, j) PROVE Addressed'
    <3>1. request[id].to = u
      BY DEF Addressed, Mine
    <3>. DEFINE new == [op |-> "answer", at |-> "update", from |-> request[id].from, to |-> u,
                        id |-> id, yes |-> yes, conn |-> logins[u], state |-> "none"]
    <3>2. UNCHANGED request /\ job' = [job EXCEPT ![j] = new]
      BY <2>2 DEF ClientAnswer, Submit
    <3>3. new.op = "answer" /\ new.from = request[id].from /\ new.to = u /\ new.id = id
      OBVIOUS
    <3>. HIDE DEF new
    <3>4. Others(j) /\ job'[j] = new
      BY <3>2 DEF TypeOK, Others
    <3>5. Tasked(j)'
      BY <3>1, <3>2, <3>3, <3>4 DEF Tasked
    <3>. QED BY <1>4, <3>2, <3>4, <3>5
  <2>. QED BY <1>5, <2>1, <2>2 DEF ClientRequest
<1>6. ASSUME NEW j \in Jobs, ApplyStep(j) PROVE Addressed'
  <2>0. job[j].op = "apply" /\ job[j] \in Applications /\ Tasked(j)
    BY <1>6, Applying, Kinds DEF Addressed
  <2>1. CASE ApplyCheck(j) \/ ApplyLook(j) \/ ApplyPublish(j)
    <3>1. UNCHANGED request
      BY <2>1 DEF ApplyCheck, ApplyLook, ApplyPublish
    <3>2. \E at \in ApplyAts : /\ Goes(j, at)
                               /\ at \in {"look", "publish"} => job[j].id \in Ids
                               /\ at \in {"look", "publish"} => job[j].at = "look"
      <4>1. CASE ApplyCheck(j)
        BY <4>1 DEF ApplyCheck, ApplyAts
      <4>2. CASE ApplyLook(j)
        <5>1. job[j].id \in Ids
          BY <2>0, <4>2, ApplicationFacts DEF ApplyLook, At
        <5>. QED BY <4>2, <5>1 DEF ApplyLook, ApplyAts, At
      <4>3. CASE ApplyPublish(j)
        BY <4>3 DEF ApplyPublish, ApplyAts
      <4>. QED BY <2>1, <4>1, <4>2, <4>3
    <3>3. Others(j) /\ Tasked(j)'
      BY <2>0, <3>1, <3>2, ApplyGoes DEF Tasked, SameTask
    <3>. QED BY <1>4, <3>1, <3>3
  <2>2. CASE ApplySelect(j)
    <3>1. UNCHANGED request
      BY <2>2 DEF ApplySelect
    <3>2. CASE Found(j) = {}
      <4>1. Others(j) /\ Tasked(j)'
        BY <2>0, <2>2, <3>2, ApplyGoes DEF ApplySelect, ApplyAts, Tasked, SameTask
      <4>. QED BY <1>4, <3>1, <4>1
    <3>3. ASSUME NEW id \in Found(j), job' = [job EXCEPT ![j].at = "look", ![j].id = id] PROVE Addressed'
      <4>1. Others(j) /\ SameTask(j) /\ job'[j].at = "look" /\ job'[j].id = id
        BY <2>0, <3>3, Named
      <4>2. request[id].to = job[j].to
        BY DEF Found, Open
      <4>3. Tasked(j)'
        BY <2>0, <3>1, <4>1, <4>2 DEF Tasked, SameTask
      <4>. QED BY <1>4, <3>1, <4>1, <4>3
    <3>. QED BY <2>2, <3>2, <3>3 DEF ApplySelect
  <2>3. CASE ApplyInsert(j)
    <3>. DEFINE row == [from |-> job[j].from, to |-> job[j].to, status |-> "pending"]
    <3>0. row \in Rows /\ row.from = job[j].from /\ row.to = job[j].to
      BY <2>0, ApplicationFacts DEF Rows
    <3>1. CASE Goes(j, "done") /\ UNCHANGED request
      <4>1. Others(j) /\ Tasked(j)'
        BY <2>0, <3>1, ApplyGoes DEF ApplyAts, Tasked, SameTask
      <4>. QED BY <1>4, <3>1, <4>1
    <3>2. CASE request' = Append(request, row) /\ job' = [job EXCEPT ![j].at = "look", ![j].id = Len(request')]
      <4>1. Others(j) /\ SameTask(j) /\ job'[j].at = "look" /\ job'[j].id = Len(request')
        BY <2>0, <3>2, Named
      <4>. HIDE DEF row
      <4>2. /\ Ids' = Ids \cup {Len(request')} /\ request'[Len(request')] = row
            /\ \A id \in Ids : request'[id] = request[id]
        BY <3>0, <3>2, Appended
      <4>3. Tasked(j)'
        BY <2>0, <3>0, <4>1, <4>2 DEF Tasked, SameTask
      <4>4. \A i \in Jobs : Tasked(i)'
        BY <1>2, <4>1, <4>3 DEF Others
      <4>5. \A id \in Ids' : request'[id].from # request'[id].to
        BY <2>0, <3>0, <4>2 DEF Addressed, Tasked
      <4>. QED BY <1>1, <4>4, <4>5 DEF Addressed
    <3>. QED BY <2>3, <3>1, <3>2 DEF ApplyInsert
  <2>. QED BY <1>6, <2>1, <2>2, <2>3 DEF ApplyStep
<1>7. ASSUME NEW j \in Jobs, AnswerStep(j) PROVE Addressed'
  <2>1. job[j].op = "answer" /\ job[j].id \in Ids /\ Others(j) /\ SameAnswer(j) /\ Tasked(j)
    BY <1>7, AnsweringStep, AnswerOwn, Kinds, AnswerFacts DEF Addressed
  <2>2. Tasked(j)'
    BY <1>0, <2>1 DEF Tasked, SameAnswer, SameTask, RowsKeep
  <2>3. Ids' = Ids
    <3>1. CASE UNCHANGED request
      BY <3>1 DEF Ids
    <3>2. CASE AnswerUpdate(j)
      BY <2>1, <3>1, <3>2, Updated DEF AnswerUpdate
    <3>. QED BY <1>7, <3>1, <3>2 DEF AnswerStep, AnswerBind, Bind, AnswerState, AnswerLook, AnswerPublish,
                AnswerRespond
  <2>4. \A id \in Ids' : request'[id].from # request'[id].to
    BY <1>0, <2>3 DEF Addressed, RowsKeep
  <2>5. \A i \in Jobs : Tasked(i)'
    BY <1>2, <2>1, <2>2 DEF Others
  <2>. QED BY <1>1, <2>4, <2>5 DEF Addressed
<1>8. ASSUME NEW u \in Users, Deliver(u) \/ LoginStep(u) \/ CloseStep(u) \/ ClientRead(u)
      PROVE  UNCHANGED <<request, job>>
  BY <1>8 DEF Deliver, LoginStep, Login, LoginFriends, LoginStates, LoginApplies, LoginTell,
       LoginAck,
              CloseStep, Close, CloseRoute, CloseFriends, CloseTell, ClientRead
<1>9. UNCHANGED vars => UNCHANGED <<request, job>>
  BY DEF vars
<1>. QED BY <1>3, <1>5, <1>6, <1>7, <1>8, <1>9 DEF Next

-----------------------------------------------------------------------------
(* The answers: a request that an answer is at is one its user was asked, and
   it is answered with the status the task writes. *)

Answering(j, id) == job[j].op = "answer" /\ job[j].id = id

Wrote(j) == request' = [request EXCEPT ![job[j].id].status = NewStatus(j)]

\* How far the task of an answer is after a step of it.
LEMMA AnswerMoves ==
    ASSUME TypeOK, NEW j \in Jobs, AnswerStep(j)
    PROVE  /\ \/ /\ AnswerUpdate(j) /\ job[j].at = "update"
                 /\ \/ job'[j].at = "done" /\ UNCHANGED request
                    \/ /\ job'[j].at = IF job[j].yes THEN "bind" ELSE "respond"
                       /\ Wrote(j)
              \/ AnswerBind(j) /\ job[j].at = "bind" /\ job'[j].at = "bindBack"
              \/ AnswerBind(j) /\ job[j].at = "bindBack" /\ job'[j].at = "state"
              \/ /\ AnswerState(j) /\ job[j].at = "state" /\ job'[j].at = "again"
                 /\ job'[j].state = StateOf(job[j].from)
              \/ /\ AnswerLook(j) /\ job[j].at = "again"
                 /\ job'[j].at = IF job[j].from \in route THEN "publish" ELSE "respond"
              \/ AnswerPublish(j) /\ job[j].at = "publish" /\ job'[j].at = "respond"
              \/ AnswerRespond(j) /\ job[j].at = "respond" /\ job'[j].at = "done"
           /\ ~AnswerState(j) => job'[j].state = job[j].state
           /\ ~AnswerUpdate(j) => UNCHANGED request
<1>0. job[j].op = "answer" /\ job[j] \in Answers
  BY AnsweringStep, Kinds
<1>1. CASE AnswerUpdate(j)
  <2>1. CASE Goes(j, "done") /\ UNCHANGED request
    BY <1>0, <1>1, <2>1, AnswerGoes DEF AnswerAts, AnswerUpdate, At
  <2>2. CASE /\ request' = [request EXCEPT ![job[j].id].status = NewStatus(j)]
             /\ Goes(j, IF job[j].yes THEN "bind" ELSE "respond")
    <3>1. (IF job[j].yes THEN "bind" ELSE "respond") \in AnswerAts
      BY DEF AnswerAts
    <3>2. /\ job'[j].at = IF job[j].yes THEN "bind" ELSE "respond"
          /\ job'[j].state = job[j].state
      BY <1>0, <2>2, <3>1, AnswerGoes
    <3>3. job[j].at = "update"
      BY <1>1 DEF AnswerUpdate, At
    <3>. QED BY <1>1, <2>2, <3>2, <3>3 DEF Wrote
  <2>. QED BY <1>1, <2>1, <2>2 DEF AnswerUpdate
<1>2. CASE AnswerBind(j)
  <2>1. UNCHANGED request
    BY <1>2 DEF AnswerBind, Bind
  <2>2. CASE At(j, "answer", "bind") /\ Goes(j, "bindBack")
    BY <1>0, <1>2, <2>1, <2>2, AnswerGoes DEF AnswerAts, At
  <2>3. CASE At(j, "answer", "bindBack") /\ Goes(j, "state")
    BY <1>0, <1>2, <2>1, <2>3, AnswerGoes DEF AnswerAts, At
  <2>. QED BY <1>2, <2>2, <2>3 DEF AnswerBind, Bind
<1>3. CASE AnswerState(j)
  <2>1. job[j].at = "state" /\ UNCHANGED request
    BY <1>3 DEF AnswerState, At, tables
  <2>. DEFINE t == [job[j] EXCEPT !.at = "again", !.state = StateOf(job[j].from)]
  <2>2. t.at = "again" /\ t.state = StateOf(job[j].from)
    BY <1>0 DEF Answers
  <2>3. job' = [job EXCEPT ![j] = t]
    BY <1>3 DEF AnswerState
  <2>. HIDE DEF t
  <2>4. job'[j] = t
    BY <2>3 DEF TypeOK
  <2>. QED BY <1>3, <2>1, <2>2, <2>4
<1>4. CASE AnswerLook(j)
  <2>1. (IF job[j].from \in route THEN "publish" ELSE "respond") \in AnswerAts
    BY DEF AnswerAts
  <2>2. /\ job'[j].at = IF job[j].from \in route THEN "publish" ELSE "respond"
        /\ job'[j].state = job[j].state
    BY <1>0, <1>4, <2>1, AnswerGoes DEF AnswerLook
  <2>3. job[j].at = "again" /\ UNCHANGED request
    BY <1>4 DEF AnswerLook, At, tables
  <2>. QED BY <1>4, <2>2, <2>3
<1>5. CASE AnswerPublish(j)
  BY <1>0, <1>5, AnswerGoes DEF AnswerPublish, AnswerAts, At, tables
<1>6. CASE AnswerRespond(j)
  BY <1>0, <1>6, AnswerGoes DEF AnswerRespond, AnswerAts, At, tables
<1>. QED BY <1>1, <1>2, <1>3, <1>4, <1>5, <1>6 DEF AnswerStep

(* What the answers have done to their rows. *)

\* What a task that answers has done by then, and the row it is at.
AnswerFits(j) ==
    job[j].op = "answer" =>
        /\ job[j].at \in {"bind", "bindBack", "state", "again", "publish"} => job[j].yes
        /\ job[j].at \in {"bind", "bindBack", "state", "again", "publish", "respond"} =>
             /\ request[job[j].id].status # "pending"
             /\ job[j].yes => request[job[j].id].status = "accepted" \/ job[j].id \in twice
        /\ job[j].at \in {"again", "publish"} \/ (job[j].at = "respond" /\ job[j].yes) =>
             job[j].state # "none"
\* Two answers to one request make it one that was answered twice, and a request
\* is accepted by a task.
Answered ==
    /\ \A i, j \in Jobs : \A id \in Ids :
         Answering(i, id) /\ Answering(j, id) /\ i # j => id \in twice
    /\ \A id \in Ids : request[id].status = "accepted" =>
         \E j \in Jobs : Answering(j, id) /\ job[j].at # "update"
    /\ \A j \in Jobs : AnswerFits(j)

LEMMA AnsweredInit == Init => Answered
<1>. SUFFICES ASSUME Init PROVE Answered
  OBVIOUS
<1>1. \A j \in Jobs : job[j].op = "none"
  BY NoneTyped DEF Init
<1>2. \A id \in Ids : request[id].status # "accepted"
  BY DEF Init, Tables, Ids
<1>. QED BY <1>1, <1>2 DEF Answered, AnswerFits, Answering

\* The tasks that answer, and the status of the rows, are as before.
AnswersSame ==
    \A i \in Jobs : /\ job[i].op = "answer" => job'[i] = job[i]
                    /\ job'[i].op = "answer" => job[i].op = "answer"
StatusSame ==
    /\ \A id \in Ids : request'[id].status = request[id].status
    /\ \A id \in Ids' \ Ids : request'[id].status = "pending"

LEMMA NoAnswer ==
    ASSUME TypeOK, [Next]_vars,
           \A j \in Jobs : ~AnswerStep(j),
           \A u \in Users, j \in Jobs : \A id, yes : ~ClientAnswer(u, id, yes, j)
    PROVE  AnswersSame /\ StatusSame /\ UNCHANGED <<friend, twice, broken>>
<1>. USE DEF tables, logging, window, ghosts
<1>. DEFINE Goal == AnswersSame /\ StatusSame /\ UNCHANGED <<friend, twice, broken>>
<1>1. UNCHANGED <<request, job, friend, twice, broken>> => Goal
  BY DEF AnswersSame, StatusSame, Ids
<1>2. ASSUME NEW u \in Users, Deliver(u) \/ LoginStep(u) \/ CloseStep(u) \/ ClientRead(u) PROVE Goal
  <2>1. UNCHANGED <<request, job, friend, twice, broken>>
    BY <1>2 DEF Deliver, LoginStep, Login, LoginFriends, LoginStates, LoginApplies, LoginTell,
         LoginAck,
              CloseStep, Close, CloseRoute, CloseFriends, CloseTell, ClientRead
  <2>. QED BY <1>1, <2>1
<1>3. ASSUME NEW u \in Users, NEW v \in Users, NEW j \in Jobs, ClientApply(u, v, j) PROVE Goal
  <2>1. UNCHANGED <<request, friend, twice, broken>>
    BY <1>3 DEF ClientApply
  <2>2. job[j] = NoJob /\ Others(j) /\ job'[j].op = "apply"
    BY <1>3 DEF ClientApply, Submit, TypeOK, Others
  <2>3. AnswersSame
    BY <2>2, NoneTyped DEF AnswersSame, Others
  <2>. QED BY <2>1, <2>3 DEF StatusSame, Ids
<1>4. ASSUME NEW j \in Jobs, ApplyStep(j) PROVE Goal
  <2>0. job[j].op = "apply" /\ job[j] \in Applications
    BY <1>4, Applying, Kinds
  <2>1. UNCHANGED <<friend, twice, broken>>
    BY <1>4 DEF ApplyStep, ApplyCheck, ApplySelect, ApplyInsert, ApplyLook, ApplyPublish
  <2>2. StatusSame
    <3>1. CASE UNCHANGED request
      BY <3>1 DEF StatusSame, Ids
    <3>2. CASE ApplyInsert(j)
      <4>. DEFINE row == [from |-> job[j].from, to |-> job[j].to, status |-> "pending"]
      <4>1. row \in Rows /\ row.status = "pending"
        BY <2>0, ApplicationFacts DEF Rows
      <4>2. UNCHANGED request \/ request' = Append(request, row)
        BY <3>2 DEF ApplyInsert
      <4>. HIDE DEF row
      <4>3. CASE request' = Append(request, row)
        BY <4>1, <4>3, Appended DEF StatusSame
      <4>. QED BY <3>1, <4>2, <4>3
    <3>. QED BY <1>4, <3>1, <3>2 DEF ApplyStep, ApplyCheck, ApplySelect, ApplyLook, ApplyPublish
  <2>3. Others(j) /\ SameTask(j)
    <3>1. CASE ApplyCheck(j)
      BY <2>0, <3>1, ApplyGoes DEF ApplyCheck, ApplyAts
    <3>2. CASE ApplySelect(j)
      <4>1. CASE Found(j) = {}
        BY <2>0, <3>2, <4>1, ApplyGoes DEF ApplySelect, ApplyAts
      <4>2. CASE \E i \in Found(j) : job' = [job EXCEPT ![j].at = "look", ![j].id = i]
        BY <2>0, <4>2, Named
      <4>. QED BY <3>2, <4>1, <4>2 DEF ApplySelect
    <3>3. CASE ApplyInsert(j)
      BY <2>0, <3>3, Named, ApplyGoes DEF ApplyInsert, ApplyAts
    <3>4. CASE ApplyLook(j)
      <4>1. job[j].id \in Ids
        BY <2>0, <3>4, ApplicationFacts DEF ApplyLook, At
      <4>. QED BY <2>0, <3>4, <4>1, ApplyGoes DEF ApplyLook, ApplyAts
    <3>5. CASE ApplyPublish(j)
      BY <2>0, <3>5, ApplyGoes DEF ApplyPublish, ApplyAts
    <3>. QED BY <1>4, <3>1, <3>2, <3>3, <3>4, <3>5 DEF ApplyStep
  <2>4. AnswersSame
    BY <2>0, <2>3 DEF AnswersSame, Others, SameTask
  <2>. QED BY <2>1, <2>2, <2>4
<1>5. ASSUME NEW u \in Users, NEW j \in Jobs, ClientRequest(u, j) PROVE Goal
  <2>1. \A id \in applies[u], yes \in BOOLEAN : ~ClientAnswer(u, id, yes, j)
    OBVIOUS
  <2>. QED BY <1>3, <1>5, <2>1 DEF ClientRequest
<1>6. UNCHANGED vars => Goal
  BY <1>1 DEF vars
<1>. QED BY <1>2, <1>4, <1>5, <1>6 DEF Next

\* A new task that answers.
LEMMA Asked ==
    ASSUME TypeOK, NEW u \in Users, NEW id, NEW yes, NEW j \in Jobs, id \in applies[u],
           ClientAnswer(u, id, yes, j)
    PROVE  /\ job[j].op = "none" /\ Others(j) /\ UNCHANGED <<request, friend, friendSet, broken>>
           /\ job'[j].op = "answer" /\ job'[j].at = "update" /\ job'[j].id = id /\ job'[j].to = u
           /\ job'[j].from = request[id].from /\ job'[j].conn = logins[u] /\ job'[j].yes = yes
           /\ twice \subseteq twice' /\ shown[u] /\ id \in Ids
           /\ (\E i \in Jobs : Answering(i, id)) => id \in twice'
<1>. DEFINE new == [op |-> "answer", at |-> "update", from |-> request[id].from, to |-> u,
                    id |-> id, yes |-> yes, conn |-> logins[u], state |-> "none"]
<1>1. job[j] = NoJob /\ job' = [job EXCEPT ![j] = new] /\ shown[u]
  BY DEF ClientAnswer, Submit
<1>2. /\ new.op = "answer" /\ new.at = "update" /\ new.id = id /\ new.to = u
      /\ new.from = request[id].from /\ new.conn = logins[u] /\ new.yes = yes
  OBVIOUS
<1>. HIDE DEF new
<1>3. Others(j) /\ job'[j] = new
  BY <1>1 DEF TypeOK, Others
<1>4. UNCHANGED <<request, friend, friendSet, broken>> /\ twice \subseteq twice'
  BY DEF ClientAnswer, tables
<1>5. (\E i \in Jobs : Answering(i, id)) => id \in twice'
  BY DEF ClientAnswer, Answering
<1>6. id \in Ids
  BY DEF TypeOK
<1>. QED BY <1>1, <1>2, <1>3, <1>4, <1>5, <1>6, NoneTyped

LEMMA AnsweredNext == TypeOK /\ Answered /\ [Next]_vars => Answered'
<1>. SUFFICES ASSUME TypeOK, Answered, [Next]_vars PROVE Answered'
  OBVIOUS
<1>0. RowsKeep
  BY RowsKept
<1>01. \A i \in Jobs : job[i].op = "answer" => job[i].id \in Ids
  BY Kinds, AnswerFacts
<1>1. CASE AnswersSame /\ StatusSame /\ UNCHANGED twice
  <2>1. ASSUME NEW i \in Jobs, NEW k \in Jobs, NEW id \in Ids', Answering(i, id)', Answering(k, id)', i # k
        PROVE  id \in twice'
    BY <1>1, <1>01, <2>1 DEF Answered, Answering, AnswersSame
  <2>2. ASSUME NEW id \in Ids', request'[id].status = "accepted"
        PROVE  \E j \in Jobs : Answering(j, id)' /\ job'[j].at # "update"
    BY <1>1, <2>2 DEF Answered, Answering, AnswersSame, StatusSame
  <2>3. ASSUME NEW j \in Jobs PROVE AnswerFits(j)'
    <3>1. CASE job'[j].op = "answer"
      <4>1. job'[j] = job[j] /\ job[j].op = "answer" /\ job[j].id \in Ids
        BY <1>01, <1>1, <3>1 DEF AnswersSame
      <4>2. request'[job[j].id].status = request[job[j].id].status
        BY <1>1, <4>1 DEF StatusSame
      <4>. QED BY <1>1, <4>1, <4>2 DEF Answered, AnswerFits
    <3>. QED BY <3>1 DEF AnswerFits
  <2>. QED BY <2>1, <2>2, <2>3 DEF Answered
<1>2. ASSUME NEW u \in Users, NEW id, NEW yes, NEW j \in Jobs, id \in applies[u], ClientAnswer(u, id, yes, j)
      PROVE  Answered'
  <2>1. /\ job[j].op = "none" /\ Others(j) /\ UNCHANGED request
        /\ job'[j].op = "answer" /\ job'[j].at = "update" /\ job'[j].id = id
        /\ twice \subseteq twice' /\ ((\E i \in Jobs : Answering(i, id)) => id \in twice')
    BY <1>2, Asked
  <2>2. Ids' = Ids
    BY <2>1 DEF Ids
  <2>3. ASSUME NEW i \in Jobs, NEW k \in Jobs, NEW x \in Ids, Answering(i, x)', Answering(k, x)', i # k
        PROVE  x \in twice'
    BY <2>1, <2>3 DEF Answered, Answering, Others
  <2>4. ASSUME NEW x \in Ids, request[x].status = "accepted"
        PROVE  \E i \in Jobs : Answering(i, x)' /\ job'[i].at # "update"
    BY <2>1, <2>4 DEF Answered, Answering, Others
  <2>5. ASSUME NEW i \in Jobs PROVE AnswerFits(i)'
    BY <2>1 DEF Answered, AnswerFits, Others
  <2>. QED BY <2>1, <2>2, <2>3, <2>4, <2>5 DEF Answered
<1>3. ASSUME NEW j \in Jobs, AnswerStep(j) PROVE Answered'
  <2>0. job[j].op = "answer" /\ job[j].id \in Ids /\ Others(j) /\ SameAnswer(j) /\ AnswerFits(j)
    BY <1>01, <1>3, AnsweringStep, AnswerOwn DEF Answered
  <2>1. UNCHANGED twice
    BY <1>3 DEF AnswerStep, AnswerUpdate, AnswerBind, Bind, AnswerState, AnswerLook, AnswerPublish,
                AnswerRespond, ghosts
  <2>2. \A i \in Jobs : \A id : Answering(i, id)' <=> Answering(i, id)
    BY <2>0 DEF Answering, Others, SameAnswer, SameTask
  <2>3. Ids' = Ids
    <3>1. CASE UNCHANGED request
      BY <3>1 DEF Ids
    <3>2. CASE request' = [request EXCEPT ![job[j].id].status = NewStatus(j)]
      BY <2>0, <3>2, Updated
    <3>3. UNCHANGED request \/ request' = [request EXCEPT ![job[j].id].status = NewStatus(j)]
      BY <1>3 DEF AnswerStep, AnswerUpdate, AnswerBind, Bind, AnswerState, AnswerLook,
           AnswerPublish,
                  AnswerRespond, tables
    <3>. QED BY <3>1, <3>2, <3>3
  <2>4. ASSUME NEW i \in Jobs, NEW k \in Jobs, NEW x \in Ids, Answering(i, x)', Answering(k, x)', i # k
        PROVE  x \in twice'
    BY <2>1, <2>2, <2>4 DEF Answered
  <2>5. CASE ~AnswerUpdate(j)
    <3>1. UNCHANGED request
      BY <1>3, <2>5, AnswerMoves
    <3>2. job'[j].at # "update"
      BY <1>3, <2>5, AnswerMoves
    <3>3. ASSUME NEW x \in Ids, request'[x].status = "accepted"
          PROVE  \E i \in Jobs : Answering(i, x)' /\ job'[i].at # "update"
      <4>1. PICK i \in Jobs : Answering(i, x) /\ job[i].at # "update"
        BY <3>1, <3>3 DEF Answered
      <4>2. job'[i].at # "update"
        BY <2>0, <3>2, <4>1 DEF Others
      <4>. QED BY <2>2, <4>1, <4>2
    <3>4. AnswerFits(j)'
      <4>1. /\ job'[j].yes = job[j].yes /\ job'[j].id = job[j].id
            /\ job'[j].at \in {"bind", "bindBack", "state", "again", "publish", "respond"} =>
                 job[j].at \in {"bind", "bindBack", "state", "again", "publish"}
            /\ job'[j].at \in {"again", "publish", "respond"} /\ job[j].at # "state" =>
                 job[j].at \in {"again", "publish"} /\ job'[j].state = job[j].state
            /\ job'[j].at \in {"again", "publish", "respond"} /\ job[j].at = "state" =>
                 job'[j].state = StateOf(job[j].from)
        <5>1. /\ job'[j].yes = job[j].yes /\ job'[j].id = job[j].id
          BY <2>0 DEF SameAnswer
        <5>2. ~AnswerState(j) \/ job[j].at = "state"
          BY DEF AnswerState, At
        <5>. QED BY <1>3, <2>5, <5>1, <5>2, AnswerMoves
      <4>2. StateOf(job[j].from) # "none"
        BY StateTyped
      <4>. QED BY <2>0, <2>1, <3>1, <4>1, <4>2 DEF AnswerFits
    <3>5. ASSUME NEW i \in Jobs PROVE AnswerFits(i)'
      BY <2>0, <2>1, <3>1, <3>4 DEF Answered, AnswerFits, Others
    <3>. QED BY <2>3, <2>4, <3>3, <3>5 DEF Answered
  <2>6. CASE AnswerUpdate(j)
    <3>1. CASE job'[j].at = "done" /\ UNCHANGED request
      <4>1. ASSUME NEW x \in Ids, request'[x].status = "accepted"
            PROVE  \E i \in Jobs : Answering(i, x)' /\ job'[i].at # "update"
        <5>1. PICK i \in Jobs : Answering(i, x) /\ job[i].at # "update"
          BY <3>1, <4>1 DEF Answered
        <5>2. job'[i].at # "update"
          BY <2>0, <3>1, <5>1 DEF Others
        <5>. QED BY <2>2, <5>1, <5>2
      <4>2. ASSUME NEW i \in Jobs PROVE AnswerFits(i)'
        BY <2>0, <2>1, <3>1 DEF Answered, AnswerFits, Others
      <4>. QED BY <2>3, <2>4, <4>1, <4>2 DEF Answered
    <3>2. CASE /\ job'[j].at = IF job[j].yes THEN "bind" ELSE "respond"
               /\ Wrote(j)
      <4>1. /\ request'[job[j].id].status = NewStatus(j)
            /\ \A id \in Ids : id # job[j].id => request'[id] = request[id]
        BY <2>0, <3>2, Updated DEF Wrote
      <4>2. ASSUME NEW x \in Ids, request'[x].status = "accepted"
            PROVE  \E i \in Jobs : Answering(i, x)' /\ job'[i].at # "update"
        <5>1. CASE x = job[j].id
          BY <2>0, <2>2, <3>2, <5>1 DEF Answering
        <5>2. CASE x # job[j].id
          <6>1. PICK i \in Jobs : Answering(i, x) /\ job[i].at # "update"
            BY <4>1, <4>2, <5>2 DEF Answered
          <6>2. job'[i].at # "update"
            BY <2>0, <3>2, <6>1 DEF Others
          <6>. QED BY <2>2, <6>1, <6>2
        <5>. QED BY <5>1, <5>2
      <4>3. NewStatus(j) # "pending" /\ (job[j].yes => NewStatus(j) = "accepted")
        BY DEF NewStatus
      <4>4. AnswerFits(j)'
        BY <2>0, <3>2, <4>1, <4>3 DEF AnswerFits, SameAnswer
      <4>5. ASSUME NEW i \in Jobs, i # j PROVE AnswerFits(i)'
        <5>1. job'[i] = job[i] /\ AnswerFits(i)
          BY <2>0, <4>5 DEF Others, Answered
        <5>2. CASE job[i].op = "answer" /\ job[i].id = job[j].id
          <6>1. job[i].id \in twice
            BY <2>0, <4>5, <5>2 DEF Answered, Answering
          <6>. QED BY <2>1, <4>1, <4>3, <5>1, <5>2, <6>1 DEF AnswerFits
        <5>3. CASE job[i].op = "answer" /\ job[i].id # job[j].id
          <6>1. request'[job[i].id] = request[job[i].id]
            BY <1>01, <4>1, <5>3
          <6>. QED BY <2>1, <5>1, <6>1 DEF AnswerFits
        <5>. QED BY <5>1, <5>2, <5>3 DEF AnswerFits
      <4>. QED BY <2>3, <2>4, <4>2, <4>4, <4>5 DEF Answered
    <3>3. AnswerState(j) => job[j].at = "state"
      BY DEF AnswerState, At
    <3>4. job[j].at = "update"
      BY <2>6 DEF AnswerUpdate, At
    <3>. QED BY <1>3, <3>1, <3>2, <3>4, AnswerMoves
  <2>. QED BY <2>5, <2>6
<1>4. CASE /\ \A j \in Jobs : ~AnswerStep(j)
           /\ \A u \in Users, j \in Jobs : \A id, yes : ~(id \in applies[u] /\ ClientAnswer(u, id, yes, j))
  BY <1>1, <1>4, NoAnswer DEF ClientAnswer
<1>. QED BY <1>2, <1>3, <1>4

-----------------------------------------------------------------------------
(* What the answers have done to the friendships. *)

Both(u, v) == {<<u, v>>, <<v, u>>} \subseteq friend
\* The rows of friend that a task has inserted ...
Tied(j) ==
    job[j].op = "answer" =>
        /\ job[j].at = "bindBack" => <<job[j].from, job[j].to>> \in friend
        /\ job[j].at \in {"state", "again", "publish"} \/ (job[j].at = "respond" /\ job[j].yes) =>
             Both(job[j].from, job[j].to)
\* ... what an accepted request has led to, or its task still will ...
Settled(id) ==
    request[id].status = "accepted" =>
        \/ \E j \in Jobs : Answering(j, id) /\ job[j].at \in {"bind", "bindBack", "state"}
        \/ /\ Both(request[id].from, request[id].to)
           /\ request[id].from \in friendSet[request[id].to]
           /\ request[id].to \in friendSet[request[id].from]
\* ... and where a friendship came from.
HasRequest(u, v) ==
    \E id \in Ids : /\ {request[id].from, request[id].to} = {u, v}
                    /\ request[id].status = "accepted" \/ id \in twice
Backed(u, v) ==
    /\ v \in friendSet[u] => <<u, v>> \in friend
    /\ <<u, v>> \in friend =>
         /\ u # v /\ HasRequest(u, v)
         /\ <<v, u>> \notin friend => \E j \in Jobs : /\ At(j, "answer", "bindBack")
                                                      /\ job[j].from = u /\ job[j].to = v
Bonds ==
    ~broken => /\ \A j \in Jobs : Tied(j)
               /\ \A id \in Ids : Settled(id)
               /\ \A u, v \in Users : Backed(u, v)

LEMMA BondsInit == Init => Bonds
<1>. SUFFICES ASSUME Init PROVE Bonds
  OBVIOUS
<1>1. \A j \in Jobs : job[j].op = "none"
  BY NoneTyped DEF Init
<1>2. \A id \in Ids : request[id].status # "accepted"
  BY DEF Init, Tables, Ids
<1>3. friend = {} /\ \A u \in Users : friendSet[u] = {}
  BY DEF Init
<1>. QED BY <1>1, <1>2, <1>3 DEF Bonds, Tied, Settled, Backed

LEMMA RowPeople ==
    ASSUME TypeOK, NEW id \in Ids
    PROVE  request[id] \in Rows /\ request[id].from \in Users /\ request[id].to \in Users
<1>1. request \in Seq(Rows) /\ id \in 1..Len(request)
  BY DEF TypeOK, Ids
<1>2. request[id] \in Rows
  BY <1>1, ElementOfSeq
<1>. QED BY <1>2 DEF Rows

\* An accepted row has been answered or its id is in twice: this is kept.
LEMMA HasRequestKept ==
    ASSUME TypeOK, Answered, [Next]_vars, NEW u \in Users, NEW v \in Users, HasRequest(u, v)
    PROVE  HasRequest(u, v)'
<1>0. RowsKeep
  BY RowsKept
<1>1. PICK id \in Ids : /\ {request[id].from, request[id].to} = {u, v}
                        /\ request[id].status = "accepted" \/ id \in twice
  BY DEF HasRequest
<1>2. id \in Ids' /\ {request'[id].from, request'[id].to} = {u, v}
  BY <1>0, <1>1 DEF RowsKeep
<1>3. twice \subseteq twice'
  <2>1. CASE \A j \in Jobs : ~AnswerStep(j)
    <3>1. ASSUME NEW w \in Users, NEW j \in Jobs, NEW i \in applies[w], NEW yes, ClientAnswer(w, i, yes, j)
          PROVE  twice \subseteq twice'
      BY <3>1 DEF ClientAnswer
    <3>. QED BY <2>1, <3>1, NoAnswer DEF ClientAnswer
  <2>2. ASSUME NEW j \in Jobs, AnswerStep(j) PROVE twice \subseteq twice'
    BY <2>2 DEF AnswerStep, AnswerUpdate, AnswerBind, Bind, AnswerState, AnswerLook, AnswerPublish,
                AnswerRespond, ghosts
  <2>. QED BY <2>1, <2>2
<1>4. request'[id].status = "accepted" \/ id \in twice'
  <2>1. CASE id \in twice
    BY <1>3, <2>1
  <2>2. CASE request'[id].status = request[id].status
    BY <1>1, <1>3, <2>2
  <2>3. ASSUME NEW j \in Jobs, AnswerStep(j), id \notin twice PROVE request'[id].status = "accepted"
    <3>0. job[j].op = "answer" /\ job[j].id \in Ids
      BY <2>3, AnsweringStep, Kinds, AnswerFacts
    <3>1. CASE UNCHANGED request
      BY <1>1, <2>3, <3>1
    <3>2. CASE AnswerUpdate(j) /\ request' = [request EXCEPT ![job[j].id].status = NewStatus(j)]
      <4>1. CASE id = job[j].id
        <5>1. PICK i \in Jobs : Answering(i, id) /\ job[i].at # "update"
          BY <1>1, <2>3 DEF Answered
        <5>2. Answering(j, id) /\ i # j
          BY <3>0, <3>2, <4>1, <5>1 DEF AnswerUpdate, At, Answering
        <5>. QED BY <2>3, <5>1, <5>2 DEF Answered
      <4>2. CASE id # job[j].id
        <5>1. request'[id] = request[id]
          BY <3>0, <3>2, <4>2, Updated
        <5>. QED BY <1>1, <2>3, <5>1
      <4>. QED BY <4>1, <4>2
    <3>3. UNCHANGED request \/ (AnswerUpdate(j) /\ request' = [request EXCEPT ![job[j].id].status = NewStatus(j)])
      BY <2>3 DEF AnswerStep, AnswerUpdate, AnswerBind, Bind, AnswerState, AnswerLook,
           AnswerPublish,
                  AnswerRespond, tables
    <3>. QED BY <3>1, <3>2, <3>3
  <2>4. CASE \A j \in Jobs : ~AnswerStep(j)
    <3>1. ASSUME NEW w \in Users, NEW j \in Jobs, NEW i, NEW yes, ClientAnswer(w, i, yes, j)
          PROVE  UNCHANGED request
      BY <3>1 DEF ClientAnswer, tables
    <3>2. request'[id].status = request[id].status
      BY <2>4, <3>1, NoAnswer DEF StatusSame
    <3>. QED BY <2>2, <3>2
  <2>. QED BY <2>1, <2>3, <2>4
<1>. QED BY <1>2, <1>4 DEF HasRequest

\* The caches change at login and after both rows.
LEMMA SetsKept ==
    ASSUME TypeOK, [Next]_vars, \A j \in Jobs : ~AnswerStep(j), NEW u \in Users
    PROVE  friendSet[u] \subseteq friendSet'[u] /\ friendSet'[u] \subseteq friendSet[u] \cup FriendsOf(u)
<1>. USE DEF tables, logging, window, ghosts
<1>1. CASE UNCHANGED friendSet
  BY <1>1
<1>2. ASSUME NEW w \in Users, Deliver(w) \/ LoginStep(w) \/ CloseStep(w) \/ ClientRead(w)
      PROVE  friendSet[u] \subseteq friendSet'[u] /\ friendSet'[u] \subseteq friendSet[u] \cup FriendsOf(u)
  <2>1. CASE LoginFriends(w)
    BY <2>1 DEF LoginFriends, TypeOK
  <2>. QED BY <1>1, <1>2, <2>1 DEF Deliver, LoginStep, Login, LoginStates, LoginApplies, LoginTell, LoginAck,
              CloseStep, Close, CloseRoute, CloseFriends, CloseTell, ClientRead
<1>3. ASSUME NEW w \in Users, NEW j \in Jobs, ClientRequest(w, j) PROVE UNCHANGED friendSet
  BY <1>3 DEF ClientRequest, ClientApply, ClientAnswer
<1>4. ASSUME NEW j \in Jobs, ApplyStep(j) PROVE UNCHANGED friendSet
  BY <1>4 DEF ApplyStep, ApplyCheck, ApplySelect, ApplyInsert, ApplyLook, ApplyPublish
<1>5. UNCHANGED vars => UNCHANGED friendSet
  BY DEF vars
<1>. QED BY <1>1, <1>2, <1>3, <1>4, <1>5 DEF Next

\* Steps that write no friendship.
LEMMA BondsStay ==
    ASSUME TypeOK, Answered, Bonds, [Next]_vars, broken' = broken, UNCHANGED friend,
           \A u \in Users : /\ friendSet[u] \subseteq friendSet'[u]
                            /\ friendSet'[u] \subseteq friendSet[u] \cup FriendsOf(u),
           ~broken => \A j \in Jobs : Tied(j)',
           ~broken => \A id \in Ids' : request'[id].status = "accepted" =>
              \/ id \in Ids /\ request[id].status = "accepted"
              \/ \E j \in Jobs : Answering(j, id)' /\ job'[j].at \in {"bind", "bindBack", "state"},
           \A j \in Jobs : job[j].op = "answer" /\ job[j].at \in {"bind", "bindBack", "state"} =>
              job'[j] = job[j]
    PROVE  Bonds'
<1>. SUFFICES ASSUME ~broken PROVE Bonds'
  BY DEF Bonds
<1>0. RowsKeep
  BY RowsKept
<1>1. ASSUME NEW id \in Ids' PROVE Settled(id)'
  <2>1. CASE \E j \in Jobs : Answering(j, id)' /\ job'[j].at \in {"bind", "bindBack", "state"}
    BY <2>1 DEF Settled
  <2>2. CASE id \in Ids /\ request[id].status = "accepted"
    <3>1. Settled(id) /\ request'[id].from = request[id].from /\ request'[id].to = request[id].to
      BY <1>0, <2>2 DEF Bonds, RowsKeep
    <3>2. CASE \E j \in Jobs : Answering(j, id) /\ job[j].at \in {"bind", "bindBack", "state"}
      <4>1. PICK j \in Jobs : Answering(j, id) /\ job[j].at \in {"bind", "bindBack", "state"}
        BY <3>2
      <4>2. job'[j] = job[j]
        BY <4>1 DEF Answering
      <4>. QED BY <2>1, <4>1, <4>2 DEF Answering
    <3>3. CASE /\ Both(request[id].from, request[id].to)
               /\ request[id].from \in friendSet[request[id].to]
               /\ request[id].to \in friendSet[request[id].from]
      <4>1. request[id].from \in Users /\ request[id].to \in Users
        BY <2>2, RowPeople
      <4>. QED BY <3>1, <3>3, <4>1 DEF Settled, Both
    <3>. QED BY <2>2, <3>1, <3>2, <3>3 DEF Settled
  <2>. QED BY <2>1, <2>2 DEF Settled
<1>2. ASSUME NEW u \in Users, NEW v \in Users PROVE Backed(u, v)'
  <2>1. Backed(u, v)
    BY DEF Bonds
  <2>2. v \in friendSet'[u] => <<u, v>> \in friend'
    BY <2>1 DEF Backed, FriendsOf
  <2>3. ASSUME <<u, v>> \in friend, <<v, u>> \notin friend
        PROVE  \E j \in Jobs : At(j, "answer", "bindBack")' /\ job'[j].from = u /\ job'[j].to = v
    <3>1. PICK j \in Jobs : At(j, "answer", "bindBack") /\ job[j].from = u /\ job[j].to = v
      BY <2>1, <2>3 DEF Backed
    <3>2. job'[j] = job[j]
      BY <3>1 DEF At
    <3>. QED BY <3>1, <3>2 DEF At
  <2>. QED BY <2>1, <2>2, <2>3, HasRequestKept DEF Backed
<1>. QED BY <1>1, <1>2 DEF Bonds

\* Only the answer of j changes.
LEMMA TiedOthers ==
    ASSUME NEW i \in Jobs, Tied(i), job'[i] = job[i], friend \subseteq friend'
    PROVE  Tied(i)'
BY DEF Tied, Both

LEMMA BondsNext == TypeOK /\ Addressed /\ Answered /\ Bonds /\ [Next]_vars => Bonds'
<1>. SUFFICES ASSUME TypeOK, Addressed, Answered, Bonds, [Next]_vars PROVE Bonds'
  OBVIOUS
<1>0. RowsKeep
  BY RowsKept
<1>1. CASE /\ \A j \in Jobs : ~AnswerStep(j)
           /\ \A u \in Users, j \in Jobs : \A id, yes : ~(id \in applies[u] /\ ClientAnswer(u, id, yes, j))
  <2>1. AnswersSame /\ StatusSame /\ UNCHANGED <<friend, twice, broken>>
    BY <1>1, NoAnswer DEF ClientAnswer
  <2>2. \A u \in Users : /\ friendSet[u] \subseteq friendSet'[u]
                         /\ friendSet'[u] \subseteq friendSet[u] \cup FriendsOf(u)
    BY <1>1, SetsKept
  <2>3. ~broken => \A j \in Jobs : Tied(j)'
    <3>. SUFFICES ASSUME ~broken, NEW j \in Jobs PROVE Tied(j)'
      OBVIOUS
    <3>1. CASE job'[j].op = "answer"
      BY <2>1, <3>1, TiedOthers DEF AnswersSame, Bonds
    <3>. QED BY <3>1 DEF Tied
  <2>4. \A id \in Ids' : request'[id].status = "accepted" => id \in Ids /\ request[id].status = "accepted"
    BY <2>1 DEF StatusSame
  <2>5. \A j \in Jobs : job[j].op = "answer" => job'[j] = job[j]
    BY <2>1 DEF AnswersSame
  <2>. QED BY <2>1, <2>2, <2>3, <2>4, <2>5, BondsStay
<1>2. ASSUME NEW u \in Users, NEW id, NEW yes, NEW j \in Jobs, id \in applies[u], ClientAnswer(u, id, yes, j)
      PROVE  Bonds'
  <2>1. /\ job[j].op = "none" /\ Others(j) /\ UNCHANGED <<request, friend, friendSet, broken>>
        /\ job'[j].op = "answer" /\ job'[j].at = "update"
    BY <1>2, Asked
  <2>2. ~broken => \A i \in Jobs : Tied(i)'
    <3>. SUFFICES ASSUME ~broken, NEW i \in Jobs PROVE Tied(i)'
      OBVIOUS
    <3>1. CASE i = j
      BY <2>1, <3>1 DEF Tied
    <3>2. CASE i # j
      BY <2>1, <3>2, TiedOthers DEF Others, Bonds
    <3>. QED BY <3>1, <3>2
  <2>3. \A i \in Jobs : job[i].op = "answer" => job'[i] = job[i]
    BY <2>1 DEF Others
  <2>4. Ids' = Ids
    BY <2>1 DEF Ids
  <2>. QED BY <2>1, <2>2, <2>3, <2>4, BondsStay
<1>3. ASSUME NEW j \in Jobs, AnswerStep(j) PROVE Bonds'
  <2>. DEFINE f == job[j].from
              t == job[j].to
  <2>0. /\ job[j].op = "answer" /\ job[j].id \in Ids /\ Others(j) /\ SameAnswer(j) /\ AnswerFits(j)
        /\ Tasked(j) /\ f \in Users /\ t \in Users /\ f # t
    <3>1. job[j].op = "answer" /\ job[j].id \in Ids /\ f \in Users /\ t \in Users
      BY <1>3, AnsweringStep, Kinds, AnswerFacts
    <3>2. Tasked(j) /\ request[job[j].id].from # request[job[j].id].to
      BY <3>1 DEF Addressed
    <3>. QED BY <1>3, <3>1, <3>2, AnswerOwn DEF Answered, Tasked
  <2>01. /\ job'[j].op = "answer" /\ job'[j].from = f /\ job'[j].to = t /\ job'[j].id = job[j].id
         /\ job'[j].yes = job[j].yes
    BY <2>0 DEF SameAnswer, SameTask
  <2>02. ~broken => Tied(j) /\ \A i \in Jobs : Tied(i)
    BY DEF Bonds
  <2>1. CASE AnswerUpdate(j) \/ AnswerLook(j) \/ AnswerPublish(j) \/ AnswerRespond(j)
    <3>1. UNCHANGED <<friend, friendSet, broken>>
      BY <2>1 DEF AnswerUpdate, AnswerLook, AnswerPublish, AnswerRespond, tables, ghosts
    <3>2. /\ job[j].at \notin {"bind", "bindBack", "state"}
          /\ job'[j].at \notin {"bindBack", "state"}
          /\ job'[j].at \in {"again", "publish", "respond"} /\ job[j].yes => job[j].at \in {"again", "publish"}
      <4>1. job[j].at \in {"update", "again", "publish", "respond"}
        BY <2>1 DEF AnswerUpdate, AnswerLook, AnswerPublish, AnswerRespond, At
      <4>. QED BY <1>3, <4>1, AnswerMoves
    <3>3. ~broken => \A i \in Jobs : Tied(i)'
      <4>. SUFFICES ASSUME ~broken, NEW i \in Jobs PROVE Tied(i)'
        OBVIOUS
      <4>1. CASE i = j
        <5>1. /\ job'[j].at \in {"again", "publish"} => job[j].yes
          <6>1. job'[j].at \in {"again", "publish"} => job[j].at = "again"
            BY <1>3, <3>2, AnswerMoves
          <6>. QED BY <2>0, <6>1 DEF AnswerFits
        <5>. QED BY <2>0, <2>01, <2>02, <3>1, <3>2, <4>1, <5>1 DEF Tied, Both
      <4>2. CASE i # j
        BY <2>0, <2>02, <3>1, <4>2, TiedOthers DEF Others
      <4>. QED BY <4>1, <4>2
    <3>4. \A i \in Jobs : job[i].op = "answer" /\ job[i].at \in {"bind", "bindBack", "state"} => job'[i] = job[i]
      BY <2>0, <3>2 DEF Others
    <3>5. \A id \in Ids' : request'[id].status = "accepted" =>
              \/ id \in Ids /\ request[id].status = "accepted"
              \/ \E i \in Jobs : Answering(i, id)' /\ job'[i].at \in {"bind", "bindBack", "state"}
      <4>1. CASE UNCHANGED request
        BY <4>1 DEF Ids
      <4>2. CASE /\ job'[j].at = IF job[j].yes THEN "bind" ELSE "respond"
                 /\ Wrote(j)
        <5>1. /\ Ids' = Ids /\ request'[job[j].id].status = NewStatus(j)
              /\ \A id \in Ids : id # job[j].id => request'[id] = request[id]
          BY <2>0, <4>2, Updated DEF Wrote
        <5>2. NewStatus(j) = "accepted" => job[j].yes
          BY DEF NewStatus
        <5>. SUFFICES ASSUME NEW id \in Ids', request'[id].status = "accepted"
                      PROVE  \/ id \in Ids /\ request[id].status = "accepted"
                             \/ \E i \in Jobs : Answering(i, id)' /\ job'[i].at \in {"bind", "bindBack", "state"}
          OBVIOUS
        <5>3. CASE id = job[j].id
          <6>1. Answering(j, id)' /\ job'[j].at = "bind"
            BY <2>01, <4>2, <5>1, <5>2, <5>3 DEF Answering
          <6>. QED BY <6>1
        <5>4. CASE id # job[j].id
          BY <5>1, <5>4
        <5>. QED BY <5>3, <5>4
      <4>3. \/ UNCHANGED request
            \/ /\ job'[j].at = IF job[j].yes THEN "bind" ELSE "respond"
               /\ Wrote(j)
        <5>1. AnswerUpdate(j) => job[j].at = "update"
          BY DEF AnswerUpdate, At
        <5>. QED BY <1>3, <5>1, AnswerMoves
      <4>. QED BY <4>1, <4>2, <4>3
    <3>. QED BY <3>1, <3>3, <3>4, <3>5, BondsStay
  <2>2. CASE AnswerBind(j) \/ AnswerState(j)
    <3>. SUFFICES ASSUME ~broken' PROVE Bonds'
      BY DEF Bonds
    <3>1. ~broken /\ UNCHANGED request /\ Ids' = Ids
      BY <2>2 DEF AnswerBind, Bind, AnswerState, tables, ghosts, Ids
    <3>2. /\ friend \subseteq friend'
          /\ \A u \in Users : friendSet[u] \subseteq friendSet'[u]
      <4>1. CASE AnswerBind(j)
        BY <4>1 DEF AnswerBind, Bind
      <4>2. CASE AnswerState(j)
        <5>1. friend' = friend
          BY <4>2 DEF AnswerState
        <5>2. friendSet' = [friendSet EXCEPT ![f] = @ \cup {t}, ![t] = @ \cup {f}]
          BY <4>2 DEF AnswerState
        <5>. HIDE DEF f, t
        <5>. QED BY <2>0, <5>1, <5>2 DEF TypeOK
      <4>. QED BY <2>2, <4>1, <4>2
    <3>3. ASSUME Tied(j)',
                 (job'[j].at \in {"bindBack", "state"}) \/ (Both(f, t)' /\ f \in friendSet'[t] /\ t \in friendSet'[f]),
                 \A u, v \in Users : /\ v \in friendSet'[u] => <<u, v>> \in friend'
                                     /\ <<u, v>> \in friend' \ friend => {u, v} = {f, t},
                 \A u, v \in Users : <<u, v>> \in friend' /\ <<v, u>> \notin friend' =>
                    \E i \in Jobs : At(i, "answer", "bindBack")' /\ job'[i].from = u /\ job'[i].to = v
          PROVE  Bonds'
      <4>1. \A i \in Jobs : Tied(i)'
        BY <2>0, <2>02, <3>1, <3>2, <3>3, TiedOthers DEF Others
      <4>2. ASSUME NEW id \in Ids' PROVE Settled(id)'
        <5>. SUFFICES ASSUME request[id].status = "accepted" PROVE Settled(id)'
          BY <3>1 DEF Settled
        <5>1. Settled(id) /\ id \in Ids
          BY <3>1 DEF Bonds
        <5>2. ASSUME NEW i \in Jobs, i # j, Answering(i, id), job[i].at \in {"bind", "bindBack", "state"}
              PROVE  Settled(id)'
          BY <2>0, <5>2 DEF Others, Answering, Settled
        <5>3. CASE Answering(j, id)
          <6>1. Answering(j, id)' /\ request[id].from = f /\ request[id].to = t
            BY <2>0, <2>01, <5>3 DEF Answering, Tasked
          <6>2. CASE job'[j].at \in {"bindBack", "state"}
            <7>1. \E i \in Jobs : Answering(i, id)' /\ job'[i].at \in {"bind", "bindBack", "state"}
              BY <6>1, <6>2
            <7>. QED BY <7>1 DEF Settled
          <6>3. CASE Both(f, t)' /\ f \in friendSet'[t] /\ t \in friendSet'[f]
            <7>1. request'[id].from = f /\ request'[id].to = t
              BY <3>1, <6>1
            <7>2. (/\ Both(request[id].from, request[id].to)
                   /\ request[id].from \in friendSet[request[id].to]
                   /\ request[id].to \in friendSet[request[id].from])'
              BY <2>01, <6>3, <7>1 DEF Both
            <7>. QED BY <7>2 DEF Settled
          <6>. QED BY <3>3, <6>2, <6>3
        <5>4. CASE /\ Both(request[id].from, request[id].to)
                   /\ request[id].from \in friendSet[request[id].to]
                   /\ request[id].to \in friendSet[request[id].from]
          <6>1. request[id].from \in Users /\ request[id].to \in Users
            BY <5>1, RowPeople
          <6>. QED BY <3>1, <3>2, <5>4, <6>1 DEF Settled, Both
        <5>. QED BY <5>1, <5>2, <5>3, <5>4 DEF Settled
      <4>3. HasRequest(f, t) /\ HasRequest(t, f)
        <5>1. /\ {request[job[j].id].from, request[job[j].id].to} = {f, t}
              /\ request[job[j].id].status = "accepted" \/ job[j].id \in twice
          <6>1. job[j].at \in {"bind", "bindBack", "state"}
            BY <2>2 DEF AnswerBind, Bind, AnswerState, At
          <6>2. job[j].yes /\ (job[j].yes => request[job[j].id].status = "accepted" \/ job[j].id \in twice)
            BY <2>0, <6>1 DEF AnswerFits
          <6>. QED BY <2>0, <6>2 DEF Tasked
        <5>. QED BY <2>0, <5>1 DEF HasRequest
      <4>4. ASSUME NEW u \in Users, NEW v \in Users PROVE Backed(u, v)'
        <5>1. <<u, v>> \in friend => u # v /\ HasRequest(u, v)
          BY <3>1 DEF Bonds, Backed
        <5>2. <<u, v>> \in friend' \ friend => u # v /\ HasRequest(u, v)
          <6>1. <<u, v>> \in friend' \ friend => {u, v} = {f, t}
            BY <3>3
          <6>. HIDE DEF f, t
          <6>2. {u, v} = {f, t} => u # v /\ ((u = f /\ v = t) \/ (u = t /\ v = f))
            BY <2>0
          <6>. QED BY <4>3, <6>1, <6>2
        <5>3. HasRequest(u, v) => HasRequest(u, v)'
          BY HasRequestKept
        <5>. QED BY <3>3, <5>1, <5>2, <5>3 DEF Backed
      <4>. QED BY <4>1, <4>2, <4>4 DEF Bonds
    <3>4. \A u, v \in Users : v \in friendSet[u] => <<u, v>> \in friend
      BY <3>1 DEF Bonds, Backed
    <3>5. \A u, v \in Users : <<u, v>> \in friend /\ <<v, u>> \notin friend =>
             \E i \in Jobs : At(i, "answer", "bindBack") /\ job[i].from = u /\ job[i].to = v
      BY <3>1 DEF Bonds, Backed
    <3>6. CASE AnswerBind(j) /\ job[j].at = "bind" /\ job'[j].at = "bindBack"
      <4>1. friend' = friend \cup {<<f, t>>} /\ UNCHANGED friendSet
        BY <3>1, <3>6 DEF AnswerBind, Bind, At
      <4>2. Tied(j)'
        BY <2>01, <3>6, <4>1 DEF Tied
      <4>3. At(j, "answer", "bindBack")'
        BY <2>01, <3>6 DEF At
      <4>4. ASSUME NEW u \in Users, NEW v \in Users, <<u, v>> \in friend', <<v, u>> \notin friend'
            PROVE  \E i \in Jobs : At(i, "answer", "bindBack")' /\ job'[i].from = u /\ job'[i].to = v
        <5>1. CASE u = f /\ v = t
          BY <2>01, <4>3, <5>1
        <5>2. CASE <<u, v>> \in friend
          <6>1. PICK i \in Jobs : At(i, "answer", "bindBack") /\ job[i].from = u /\ job[i].to = v
            BY <3>2, <3>5, <4>4, <5>2
          <6>2. job'[i] = job[i]
            BY <2>0, <3>6, <6>1 DEF Others, At
          <6>. QED BY <6>1, <6>2 DEF At
        <5>. QED BY <4>1, <4>4, <5>1, <5>2
      <4>5. \A u, v \in Users : /\ v \in friendSet'[u] => <<u, v>> \in friend'
                                /\ <<u, v>> \in friend' \ friend => {u, v} = {f, t}
        BY <3>4, <4>1
      <4>. QED BY <3>3, <3>6, <4>2, <4>4, <4>5
    <3>7. CASE AnswerBind(j) /\ job[j].at = "bindBack" /\ job'[j].at = "state"
      <4>1. friend' = friend \cup {<<t, f>>} /\ UNCHANGED friendSet
        BY <3>1, <3>7 DEF AnswerBind, Bind, At, SecondRow
      <4>2. <<f, t>> \in friend
        BY <2>0, <2>02, <3>1, <3>7 DEF Tied
      <4>3. Tied(j)'
        BY <2>01, <3>7, <4>1, <4>2 DEF Tied, Both
      <4>4. ASSUME NEW u \in Users, NEW v \in Users, <<u, v>> \in friend', <<v, u>> \notin friend'
            PROVE  \E i \in Jobs : At(i, "answer", "bindBack")' /\ job'[i].from = u /\ job'[i].to = v
        <5>1. <<u, v>> \in friend /\ ~(u = f /\ v = t) /\ <<v, u>> \notin friend
          BY <4>1, <4>2, <4>4
        <5>2. PICK i \in Jobs : At(i, "answer", "bindBack") /\ job[i].from = u /\ job[i].to = v
          BY <3>5, <5>1
        <5>3. job'[i] = job[i]
          BY <2>0, <5>1, <5>2 DEF Others
        <5>. QED BY <5>2, <5>3 DEF At
      <4>5. \A u, v \in Users : /\ v \in friendSet'[u] => <<u, v>> \in friend'
                                /\ <<u, v>> \in friend' \ friend => {u, v} = {f, t}
        BY <3>4, <4>1
      <4>. QED BY <3>3, <3>7, <4>3, <4>4, <4>5
    <3>8. CASE AnswerState(j) /\ job[j].at = "state" /\ job'[j].at = "again"
      <4>1. friend' = friend /\ Both(f, t)
        BY <2>0, <2>02, <3>1, <3>8 DEF AnswerState, Tied
      <4>2. Tied(j)' /\ Both(f, t)'
        BY <2>01, <3>8, <4>1 DEF Tied, Both
      <4>3. friendSet' = [friendSet EXCEPT ![f] = @ \cup {t}, ![t] = @ \cup {f}]
        BY <3>8 DEF AnswerState
      <4>4. /\ f \in friendSet'[t] /\ t \in friendSet'[f]
            /\ \A u, v \in Users : v \in friendSet'[u] =>
                  v \in friendSet[u] \/ (u = f /\ v = t) \/ (u = t /\ v = f)
        <5>. HIDE DEF f, t
        <5>. QED BY <2>0, <4>3 DEF TypeOK
      <4>5. ASSUME NEW u \in Users, NEW v \in Users, <<u, v>> \in friend', <<v, u>> \notin friend'
            PROVE  \E i \in Jobs : At(i, "answer", "bindBack")' /\ job'[i].from = u /\ job'[i].to = v
        <5>1. PICK i \in Jobs : At(i, "answer", "bindBack") /\ job[i].from = u /\ job[i].to = v
          BY <3>5, <4>1, <4>5
        <5>2. job'[i] = job[i]
          BY <2>0, <3>8, <5>1 DEF Others, At
        <5>. QED BY <5>1, <5>2 DEF At
      <4>6. \A u, v \in Users : /\ v \in friendSet'[u] => <<u, v>> \in friend'
                                /\ <<u, v>> \in friend' \ friend => {u, v} = {f, t}
        BY <3>4, <4>1, <4>4 DEF Both
      <4>. QED BY <3>3, <4>2, <4>4, <4>5, <4>6
    <3>9. /\ AnswerBind(j) => job[j].at \in {"bind", "bindBack"}
          /\ AnswerState(j) => job[j].at = "state"
      BY DEF AnswerBind, Bind, AnswerState, At
    <3>. QED BY <1>3, <2>2, <3>6, <3>7, <3>8, <3>9, AnswerMoves
  <2>. QED BY <1>3, <2>1, <2>2 DEF AnswerStep
<1>. QED BY <1>1, <1>2, <1>3

LEMMA BondsAsAnswered == TypeOK /\ Bonds => FriendsAsAnswered
<1>. SUFFICES ASSUME TypeOK, Bonds, ~broken PROVE FriendsAsAnswered
  BY DEF FriendsAsAnswered
<1>1. ASSUME NEW id \in 1..Len(request), request[id].status = "accepted", ~Binding(id)
      PROVE  LET u == request[id].from v == request[id].to IN
               /\ {<<u, v>>, <<v, u>>} \subseteq friend
               /\ u \in friendSet[v] /\ v \in friendSet[u]
  <2>1. Settled(id)
    BY DEF Bonds, Ids
  <2>2. \A j \in Jobs : ~(Answering(j, id) /\ job[j].at \in {"bind", "bindBack", "state"})
    BY <1>1 DEF Binding, Active, Answering
  <2>. QED BY <1>1, <2>1, <2>2 DEF Settled, Both
<1>2. ASSUME NEW u \in Users, NEW v \in Users
      PROVE  /\ v \in friendSet[u] => <<u, v>> \in friend
             /\ <<u, v>> \in friend => HasRequest(u, v)
  BY DEF Bonds, Backed
<1>. QED BY <1>1, <1>2 DEF FriendsAsAnswered, HasRequest, Ids

-----------------------------------------------------------------------------
(* Where a user is: the route, the window and the inbox at each step of a
   login and a close. *)

(* What a step changes for the user u. *)

Still(u) ==
    /\ phase'[u] = phase[u] /\ logins'[u] = logins[u] /\ snapshot'[u] = snapshot[u]
    /\ farewell'[u] = farewell[u] /\ shown'[u] = shown[u] /\ list'[u] = list[u]
    /\ applies'[u] = applies[u] /\ (u \in route' <=> u \in route)

\* A login or close of another user.
LEMMA OtherUser ==
    ASSUME TypeOK, NEW u \in Users, NEW w \in Users \ {u}, LoginStep(w) \/ CloseStep(w)
    PROVE  /\ Still(u) /\ inbox'[u] = inbox[u] /\ outdated'[u] = outdated[u] /\ UNCHANGED <<job, friend, broken>>
           /\ chan'[u] = chan[u] \/ LoginTell(w) \/ CloseTell(w)
<1>. USE DEF tables, logging, window, ghosts
<1>1. CASE Login(w)
  BY <1>1 DEF Login, Still, TypeOK
<1>2. CASE LoginFriends(w)
  BY <1>2 DEF LoginFriends, Still, TypeOK
<1>3. CASE LoginStates(w)
  BY <1>3 DEF LoginStates, Still, TypeOK
<1>4. CASE LoginApplies(w)
  BY <1>4 DEF LoginApplies, Still, TypeOK
<1>5. CASE LoginTell(w)
  BY <1>5 DEF LoginTell, Still, TypeOK
<1>6. CASE LoginAck(w)
  BY <1>6 DEF LoginAck, Still, TypeOK
<1>7. CASE Close(w)
  BY <1>7 DEF Close, Still, TypeOK
<1>8. CASE CloseRoute(w)
  BY <1>8 DEF CloseRoute, Still, TypeOK
<1>9. CASE CloseFriends(w)
  BY <1>9 DEF CloseFriends, Still, TypeOK
<1>10. CASE CloseTell(w)
  BY <1>10 DEF CloseTell, Still, TypeOK
<1>. QED BY <1>1, <1>2, <1>3, <1>4, <1>5, <1>6, <1>7, <1>8, <1>9, <1>10 DEF LoginStep, CloseStep

LEMMA UserSteps ==
    ASSUME TypeOK, [Next]_vars, NEW u \in Users
    PROVE  \/ Deliver(u) \/ LoginStep(u) \/ CloseStep(u) \/ ClientRead(u)
           \/ \E j \in Jobs : AnswerRespond(j) /\ job[j].to = u
           \/ Still(u) /\ inbox'[u] = inbox[u] /\ chan'[u] = chan[u] /\ outdated'[u] = outdated[u]
           \/ /\ Still(u) /\ inbox'[u] = inbox[u]
              /\ \/ \E w \in Users \ {u} : LoginTell(w) \/ CloseTell(w)
                 \/ \E j \in Jobs : ApplyPublish(j) \/ AnswerPublish(j)
<1>. USE DEF tables, logging, window, ghosts
<1>. DEFINE Idle == Still(u) /\ inbox'[u] = inbox[u] /\ chan'[u] = chan[u] /\ outdated'[u] = outdated[u]
            Goal == \/ Deliver(u) \/ LoginStep(u) \/ CloseStep(u) \/ ClientRead(u)
                    \/ \E j \in Jobs : AnswerRespond(j) /\ job[j].to = u
                    \/ Idle
                    \/ /\ Still(u) /\ inbox'[u] = inbox[u]
                       /\ \/ \E w \in Users \ {u} : LoginTell(w) \/ CloseTell(w)
                          \/ \E j \in Jobs : ApplyPublish(j) \/ AnswerPublish(j)
<1>1. UNCHANGED <<logging, route, window, inbox, chan, outdated>> => Idle
  BY DEF Still
<1>2. UNCHANGED vars => Idle
  BY <1>1 DEF vars
<1>3. ASSUME NEW w \in Users \ {u}, Deliver(w) PROVE Idle
  BY <1>3 DEF Deliver, Still, TypeOK
<1>4. ASSUME NEW w \in Users \ {u}, LoginStep(w)
      PROVE  Idle \/ (LoginTell(w) /\ Still(u) /\ inbox'[u] = inbox[u])
  <2>1. ~CloseTell(w)
    BY <1>4 DEF LoginStep, Login, LoginFriends, LoginStates, LoginApplies, LoginTell, LoginAck, CloseTell
  <2>. QED BY <1>4, <2>1, OtherUser
<1>5. ASSUME NEW w \in Users \ {u}, CloseStep(w)
      PROVE  Idle \/ (CloseTell(w) /\ Still(u) /\ inbox'[u] = inbox[u])
  <2>1. ~LoginTell(w)
    BY <1>5 DEF CloseStep, Close, CloseRoute, CloseFriends, CloseTell, LoginTell
  <2>. QED BY <1>5, <2>1, OtherUser
<1>6. ASSUME NEW w \in Users \ {u}, ClientRead(w) PROVE Idle
  <2>1. /\ UNCHANGED <<tables, route, logging, chan, outdated>> /\ inbox' = [inbox EXCEPT ![w] = Tail(@)]
    BY <1>6 DEF ClientRead
  <2>2. /\ shown'[u] = shown[u] /\ list'[u] = list[u] /\ applies'[u] = applies[u]
    BY <1>6 DEF ClientRead, SocialDataLoaded, FriendRequestReceived, ProcessFriendResult,
         FriendBindSuccess,
                FriendStatusChanged, Show, TypeOK
  <2>. QED BY <2>1, <2>2 DEF Still, TypeOK
<1>7. ASSUME NEW w \in Users, NEW j \in Jobs, ClientRequest(w, j) PROVE Idle
  BY <1>1, <1>7 DEF ClientRequest, ClientApply, ClientAnswer
<1>8. ASSUME NEW j \in Jobs, ApplyStep(j) PROVE Goal
  <2>1. CASE ApplyPublish(j)
    BY <2>1 DEF ApplyPublish, Still
  <2>. QED BY <1>1, <1>8, <2>1 DEF ApplyStep, ApplyCheck, ApplySelect, ApplyInsert, ApplyLook
<1>9. ASSUME NEW j \in Jobs, AnswerStep(j) PROVE Goal
  <2>1. CASE AnswerPublish(j)
    BY <2>1 DEF AnswerPublish, Still
  <2>2. CASE AnswerRespond(j) /\ job[j].to # u
    <3>. DEFINE w == job[j].to
                m == [kind |-> "answer", id |-> job[j].id, yes |-> job[j].yes, uid |-> job[j].from,
                      state |-> job[j].state]
    <3>1. /\ UNCHANGED <<tables, route, logging, chan, window, failures, ghosts>>
          /\ \/ inbox' = [inbox EXCEPT ![w] = Append(@, m)] /\ UNCHANGED outdated
             \/ outdated' = [outdated EXCEPT ![w] = @ \cup {"requests", m.uid}] /\ UNCHANGED inbox
      BY <2>2 DEF AnswerRespond
    <3>2. w # u
      BY <2>2
    <3>. HIDE DEF m, w
    <3>. QED BY <3>1, <3>2 DEF Still, TypeOK
  <2>. QED BY <1>1, <1>9, <2>1, <2>2 DEF AnswerStep, AnswerUpdate, AnswerBind, Bind, AnswerState, AnswerLook
<1>. QED BY <1>2, <1>3, <1>4, <1>5, <1>6, <1>7, <1>8, <1>9 DEF Next

(* Where a user is. *)

Left == {"off", "unroute", "part", "tellOff"}
\* A user has a route from the login to the close, a window only while connected,
\* a snapshot only while logging in, at most one LOGIN_MSG_ACK on the way, which
\* opens the window, and answers only on a connection whose window was opened.
HereRoute(u) == u \in route <=> phase[u] \notin {"off", "part", "tellOff"}
HereWindow(u) == phase[u] # "on" => ~shown[u] /\ list[u] = NoList /\ applies[u] = {}
HereSnapshot(u) ==
    /\ phase[u] \in Left \cup {"friends", "on"} => snapshot[u] = NoSnapshot
    /\ phase[u] = "states" => snapshot[u].list = NoList
    /\ phase[u] \in {"states", "applies"} => snapshot[u].applies = {}
    /\ phase[u] = "off" => farewell[u] = {}
HereInbox(u) ==
    /\ phase[u] \in Left => inbox[u] = <<>>
    /\ \A k \in DOMAIN inbox[u] :
         /\ inbox[u][k].kind = "login" => phase[u] = "on" /\ ~shown[u]
         /\ \A l \in DOMAIN inbox[u] : inbox[u][k].kind = "login" /\ inbox[u][l].kind = "login" => k = l
         /\ inbox[u][k].kind = "answer" => shown[u]
    /\ phase[u] = "on" /\ ~shown[u] => \E k \in DOMAIN inbox[u] : inbox[u][k].kind = "login"
HereJob(j) ==
    job[j].op = "answer" => /\ job[j].conn <= logins[job[j].to]
                            /\ job[j].conn = logins[job[j].to] /\ phase[job[j].to] \notin Left =>
                                 shown[job[j].to]
Here == /\ \A u \in Users : HereRoute(u) /\ HereWindow(u) /\ HereSnapshot(u) /\ HereInbox(u)
        /\ \A j \in Jobs : HereJob(j)

LEMMA HereInit == Init => Here
<1>. SUFFICES ASSUME Init PROVE Here
  OBVIOUS
<1>1. ASSUME NEW u \in Users PROVE HereRoute(u) /\ HereWindow(u) /\ HereSnapshot(u) /\ HereInbox(u)
  BY NoneTyped DEF Init, HereRoute, HereWindow, HereSnapshot, HereInbox, Left
<1>2. ASSUME NEW j \in Jobs PROVE HereJob(j)
  BY NoneTyped DEF Init, HereJob
<1>. QED BY <1>1, <1>2 DEF Here

LEMMA WindowRead ==
    ASSUME TypeOK, NEW u \in Users, ClientRead(u)
    PROVE  /\ inbox[u] # <<>> /\ inbox'[u] = Tail(inbox[u]) /\ Head(inbox[u]) \in Messages
           /\ UNCHANGED <<tables, route, logging, chan, job, failures, ghosts, outdated>>
           /\ \/ Head(inbox[u]).kind = "login" /\ SocialDataLoaded(u, Head(inbox[u]))
              \/ Head(inbox[u]).kind = "apply" /\ shown[u] /\ FriendRequestReceived(u, Head(inbox[u]))
              \/ Head(inbox[u]).kind = "answer" /\ shown[u] /\ ProcessFriendResult(u, Head(inbox[u]))
              \/ Head(inbox[u]).kind = "bound" /\ shown[u] /\ FriendBindSuccess(u, Head(inbox[u]))
              \/ Head(inbox[u]).kind = "status" /\ shown[u] /\ FriendStatusChanged(u, Head(inbox[u]))
              \/ Head(inbox[u]).kind # "login" /\ ~shown[u] /\ UNCHANGED window
<1>1. inbox[u] # <<>> /\ Head(inbox[u]) \in Messages
  BY TypedMail DEF ClientRead
<1>2. inbox'[u] = Tail(inbox[u])
  BY DEF ClientRead, TypeOK
<1>. QED BY <1>1, <1>2, Received DEF ClientRead

LEMMA HereUsers ==
    ASSUME TypeOK, Here, [Next]_vars, NEW u \in Users
    PROVE  HereRoute(u)' /\ HereWindow(u)' /\ HereSnapshot(u)' /\ HereInbox(u)'
<1>. USE DEF tables, logging, window, ghosts
<1>. DEFINE Goal == HereRoute(u)' /\ HereWindow(u)' /\ HereSnapshot(u)' /\ HereInbox(u)'
<1>0. /\ HereRoute(u) /\ HereWindow(u) /\ HereSnapshot(u) /\ HereInbox(u)
      /\ inbox[u] \in Seq(Messages) /\ phase[u] \in Phases /\ shown[u] \in BOOLEAN
  BY DEF Here, TypeOK
<1>1. CASE Still(u) /\ inbox'[u] = inbox[u]
  BY <1>0, <1>1 DEF Still, HereRoute, HereWindow, HereSnapshot, HereInbox
\* A message that is no LOGIN_MSG_ACK is sent.
<1>2. ASSUME Still(u), NEW m \in Messages, m.kind # "login", m.kind = "answer" => shown[u],
             inbox'[u] = Append(inbox[u], m), phase[u] \notin Left
      PROVE  Goal
  <2>1. HereRoute(u)' /\ HereWindow(u)' /\ HereSnapshot(u)'
    BY <1>0, <1>2 DEF Still, HereRoute, HereWindow, HereSnapshot
  <2>2. HereInbox(u)'
    BY <1>0, <1>2, AppendElements DEF Still, HereInbox
  <2>. QED BY <2>1, <2>2
<1>3. CASE Deliver(u)
  <2>1. Still(u) /\ chan[u] # <<>>
    BY <1>3 DEF Deliver, Still
  <2>2. CASE Connected(u)
    <3>1. inbox'[u] = Append(inbox[u], Head(chan[u]))
      BY <1>3, <2>2 DEF Deliver, TypeOK
    <3>2. /\ Head(chan[u]) \in Messages /\ Head(chan[u]).kind # "login"
          /\ Head(chan[u]).kind # "answer"
      BY <2>1, TypedMail, Sent, Received
    <3>3. phase[u] \notin Left
      BY <2>2 DEF Connected, Left
    <3>. QED BY <1>2, <2>1, <3>1, <3>2, <3>3
  <2>3. CASE ~Connected(u)
    <3>1. inbox'[u] = inbox[u]
      BY <1>3, <2>3 DEF Deliver
    <3>. QED BY <1>1, <2>1, <3>1
  <2>. QED BY <2>2, <2>3
<1>4. CASE LoginStep(u)
  <2>1. CASE Login(u)
    <3>1. /\ phase[u] = "off" /\ phase'[u] = "friends" /\ u \in route' /\ inbox'[u] = inbox[u]
          /\ snapshot'[u] = snapshot[u] /\ farewell'[u] = farewell[u] /\ shown'[u] = shown[u]
          /\ list'[u] = list[u] /\ applies'[u] = applies[u]
      BY <2>1 DEF Login, TypeOK
    <3>. QED BY <1>0, <3>1 DEF HereRoute, HereWindow, HereSnapshot, HereInbox, Left
  <2>2. CASE LoginFriends(u) \/ LoginStates(u) \/ LoginApplies(u) \/ LoginTell(u)
    <3>1. /\ inbox'[u] = inbox[u] /\ farewell'[u] = farewell[u] /\ shown'[u] = shown[u]
          /\ list'[u] = list[u] /\ applies'[u] = applies[u] /\ route' = route
          /\ phase[u] \in {"friends", "states", "applies", "tellOn"}
          /\ phase'[u] \in {"states", "applies", "tellOn", "ack"}
      BY <2>2 DEF LoginFriends, LoginStates, LoginApplies, LoginTell, TypeOK
    <3>2. HereRoute(u)' /\ HereWindow(u)' /\ HereInbox(u)'
      BY <1>0, <3>1 DEF HereRoute, HereWindow, HereInbox, Left
    <3>3. HereSnapshot(u)'
      <4>1. CASE LoginFriends(u)
        <5>. DEFINE x == [snapshot[u] EXCEPT !.friends = FriendsOf(u)]
        <5>1. /\ phase[u] = "friends" /\ phase'[u] = "states"
              /\ snapshot' = [snapshot EXCEPT ![u] = x]
              /\ x.applies = snapshot[u].applies /\ x.list = snapshot[u].list
          BY <4>1, SnapshotTyped DEF LoginFriends, Snapshots, TypeOK
        <5>. HIDE DEF x
        <5>2. snapshot'[u] = x
          BY <5>1 DEF TypeOK
        <5>. QED BY <1>0, <5>1, <5>2, NoneTyped DEF HereSnapshot, Left
      <4>2. CASE LoginStates(u)
        <5>. DEFINE l == [v \in Users |-> IF v \in snapshot[u].friends THEN StateOf(v) ELSE "none"]
                    x == [snapshot[u] EXCEPT !.list = l]
        <5>1. /\ phase[u] = "states" /\ phase'[u] = "applies"
              /\ snapshot' = [snapshot EXCEPT ![u] = x]
          BY <4>2 DEF LoginStates, TypeOK
        <5>. HIDE DEF l
        <5>2. x.applies = snapshot[u].applies
          BY SnapshotTyped DEF Snapshots
        <5>. HIDE DEF x
        <5>3. snapshot'[u] = x
          BY <5>1 DEF TypeOK
        <5>. QED BY <1>0, <5>1, <5>2, <5>3 DEF HereSnapshot, Left
      <4>3. CASE LoginApplies(u) \/ LoginTell(u)
        <5>1. phase'[u] \in {"tellOn", "ack"}
          BY <4>3 DEF LoginApplies, LoginTell, TypeOK
        <5>. QED BY <5>1 DEF HereSnapshot, Left
      <4>. QED BY <2>2, <4>1, <4>2, <4>3
    <3>. QED BY <3>2, <3>3
  <2>3. CASE LoginAck(u)
    <3>. DEFINE m == [kind |-> "login", list |-> snapshot[u].list, applies |-> snapshot[u].applies]
    <3>1. /\ phase[u] = "ack" /\ phase'[u] = "on" /\ shown'[u] = shown[u] /\ route' = route
          /\ snapshot'[u] = NoSnapshot /\ inbox'[u] = Append(inbox[u], m)
          /\ list'[u] = list[u] /\ applies'[u] = applies[u]
      BY <2>3 DEF LoginAck, TypeOK
    <3>2. m \in Messages /\ m.kind = "login"
      BY Sent, SnapshotTyped, SnapshotFacts
    <3>. HIDE DEF m
    <3>3. HereInbox(u)'
      <4>1. ~shown[u] /\ \A k \in DOMAIN inbox[u] : inbox[u][k].kind \notin {"login", "answer"}
        BY <1>0, <3>1 DEF HereInbox, HereWindow
      <4>. QED BY <1>0, <3>1, <3>2, <4>1, AppendElements DEF HereInbox, Left
    <3>. QED BY <1>0, <3>1, <3>3 DEF HereRoute, HereWindow, HereSnapshot, Left
  <2>. QED BY <1>4, <2>1, <2>2, <2>3 DEF LoginStep
<1>5. CASE CloseStep(u)
  <2>1. CASE Close(u)
    <3>1. /\ phase[u] = "on" /\ phase'[u] = "unroute" /\ inbox'[u] = <<>> /\ ~shown'[u]
          /\ list'[u] = NoList /\ applies'[u] = {} /\ route' = route /\ snapshot'[u] = snapshot[u]
      BY <2>1 DEF Close, TypeOK
    <3>. QED BY <1>0, <3>1 DEF HereRoute, HereWindow, HereSnapshot, HereInbox, Left
  <2>2. CASE CloseRoute(u)
    <3>1. /\ phase[u] = "unroute" /\ phase'[u] = "part" /\ inbox'[u] = inbox[u] /\ shown'[u] = shown[u]
          /\ list'[u] = list[u] /\ applies'[u] = applies[u] /\ u \notin route' /\ snapshot'[u] = snapshot[u]
      BY <2>2 DEF CloseRoute, TypeOK
    <3>. QED BY <1>0, <3>1 DEF HereRoute, HereWindow, HereSnapshot, HereInbox, Left
  <2>3. CASE CloseFriends(u)
    <3>1. /\ phase[u] = "part" /\ phase'[u] = "tellOff" /\ inbox'[u] = inbox[u] /\ shown'[u] = shown[u]
          /\ list'[u] = list[u] /\ applies'[u] = applies[u] /\ route' = route /\ snapshot'[u] = snapshot[u]
      BY <2>3 DEF CloseFriends, TypeOK
    <3>. QED BY <1>0, <3>1 DEF HereRoute, HereWindow, HereSnapshot, HereInbox, Left
  <2>4. CASE CloseTell(u)
    <3>1. /\ phase[u] = "tellOff" /\ phase'[u] = "off" /\ inbox'[u] = inbox[u] /\ shown'[u] = shown[u]
          /\ list'[u] = list[u] /\ applies'[u] = applies[u] /\ route' = route /\ snapshot'[u] = snapshot[u]
          /\ farewell'[u] = {}
      BY <2>4 DEF CloseTell, TypeOK
    <3>. QED BY <1>0, <3>1 DEF HereRoute, HereWindow, HereSnapshot, HereInbox, Left
  <2>. QED BY <1>5, <2>1, <2>2, <2>3, <2>4 DEF CloseStep
<1>6. CASE ClientRead(u)
  <2>. DEFINE m == Head(inbox[u])
  <2>1. /\ inbox[u] # <<>> /\ inbox'[u] = Tail(inbox[u])
        /\ UNCHANGED <<tables, route, logging, chan, job, failures, ghosts, outdated>>
        /\ \/ m.kind = "login" /\ SocialDataLoaded(u, m)
           \/ m.kind = "apply" /\ shown[u] /\ FriendRequestReceived(u, m)
           \/ m.kind = "answer" /\ shown[u] /\ ProcessFriendResult(u, m)
           \/ m.kind = "bound" /\ shown[u] /\ FriendBindSuccess(u, m)
           \/ m.kind = "status" /\ shown[u] /\ FriendStatusChanged(u, m)
           \/ m.kind # "login" /\ ~shown[u] /\ UNCHANGED window
    BY <1>6, WindowRead
  <2>2. /\ m = inbox[u][1] /\ 1 \in DOMAIN inbox[u] /\ Len(inbox[u]) \in Nat \ {0}
        /\ DOMAIN inbox'[u] = 1..(Len(inbox[u]) - 1) /\ DOMAIN inbox[u] = 1..Len(inbox[u])
        /\ \A k \in DOMAIN inbox'[u] : k + 1 \in DOMAIN inbox[u] /\ inbox'[u][k] = inbox[u][k + 1]
        /\ \A k \in DOMAIN inbox[u] : k = 1 \/ k - 1 \in DOMAIN inbox'[u]
    BY <1>0, <2>1, TailElements
  <2>. HIDE DEF m
  <2>3. HereRoute(u)' /\ HereSnapshot(u)'
    BY <1>0, <2>1 DEF HereRoute, HereSnapshot
  <2>4. (phase[u] = "on" /\ phase' = phase) \/ (~shown[u] /\ m.kind # "login" /\ UNCHANGED <<window, phase>>)
    BY <1>0, <2>1, <2>2 DEF HereWindow, HereInbox
  <2>5. shown'[u] \in BOOLEAN /\ shown'[u] = (shown[u] \/ m.kind = "login")
    BY <1>0, <2>1 DEF SocialDataLoaded, FriendRequestReceived, ProcessFriendResult,
         FriendBindSuccess,
                FriendStatusChanged, TypeOK
  <2>6. HereWindow(u)'
    BY <1>0, <2>4 DEF HereWindow
  <2>7. HereInbox(u)'
    <3>1. phase'[u] \in Left => inbox'[u] = <<>>
      BY <1>0, <2>1 DEF HereInbox
    <3>2. ASSUME NEW k \in DOMAIN inbox'[u]
          PROVE  /\ inbox'[u][k].kind = "login" => phase'[u] = "on" /\ ~shown'[u]
                 /\ \A l \in DOMAIN inbox'[u] :
                       inbox'[u][k].kind = "login" /\ inbox'[u][l].kind = "login" => k = l
                 /\ inbox'[u][k].kind = "answer" => shown'[u]
      <4>1. k + 1 \in DOMAIN inbox[u] /\ inbox'[u][k] = inbox[u][k + 1] /\ k + 1 # 1
        BY <2>2
      <4>2. inbox[u][k + 1].kind = "login" => m.kind # "login"
        BY <1>0, <2>2, <4>1 DEF HereInbox
      <4>3. \A l \in DOMAIN inbox'[u] : inbox'[u][k].kind = "login" /\ inbox'[u][l].kind = "login" => k = l
        <5>. SUFFICES ASSUME NEW l \in DOMAIN inbox'[u], inbox'[u][k].kind = "login", inbox'[u][l].kind = "login"
                      PROVE  k = l
          OBVIOUS
        <5>1. l + 1 \in DOMAIN inbox[u] /\ inbox[u][l + 1].kind = "login" /\ inbox[u][k + 1].kind = "login"
          BY <2>2
        <5>2. k + 1 = l + 1
          BY <1>0, <4>1, <5>1 DEF HereInbox
        <5>. QED BY <2>2, <5>2
      <4>. QED BY <1>0, <2>1, <2>5, <4>1, <4>2, <4>3 DEF HereInbox
    <3>3. phase'[u] = "on" /\ ~shown'[u] => \E k \in DOMAIN inbox'[u] : inbox'[u][k].kind = "login"
      <4>. SUFFICES ASSUME phase'[u] = "on", ~shown'[u]
                    PROVE  \E k \in DOMAIN inbox'[u] : inbox'[u][k].kind = "login"
        OBVIOUS
      <4>1. PICK k \in DOMAIN inbox[u] : inbox[u][k].kind = "login"
        BY <1>0, <2>1, <2>5 DEF HereInbox
      <4>2. k # 1
        BY <2>2, <2>5, <4>1
      <4>3. k \in Nat /\ k - 1 \in DOMAIN inbox'[u]
        BY <2>2, <4>2
      <4>4. inbox'[u][k - 1] = inbox[u][(k - 1) + 1] /\ (k - 1) + 1 = k
        BY <2>2, <4>3
      <4>. QED BY <4>1, <4>3, <4>4
    <3>. QED BY <3>1, <3>2, <3>3 DEF HereInbox
  <2>. QED BY <2>3, <2>6, <2>7
<1>7. ASSUME NEW j \in Jobs, AnswerRespond(j), job[j].to = u PROVE Goal
  <2>. DEFINE m == [kind |-> "answer", id |-> job[j].id, yes |-> job[j].yes, uid |-> job[j].from,
                    state |-> job[j].state]
  <2>0. job[j].op = "answer" /\ m \in Messages /\ m.kind = "answer"
    BY <1>7, Kinds, AnswerFacts, Sent DEF AnswerRespond, At
  <2>1. Still(u) /\ (\/ Connected(u) /\ logins[u] = job[j].conn /\ inbox' = [inbox EXCEPT ![u] = Append(@, m)]
                     \/ UNCHANGED inbox)
    BY <1>7 DEF AnswerRespond, Still
  <2>. HIDE DEF m
  <2>2. CASE Connected(u) /\ logins[u] = job[j].conn /\ inbox' = [inbox EXCEPT ![u] = Append(@, m)]
    <3>1. shown[u] /\ phase[u] \notin Left
      BY <1>7, <2>0, <2>2 DEF Here, HereJob, Connected, Left
    <3>2. inbox'[u] = Append(inbox[u], m)
      BY <2>2 DEF TypeOK
    <3>. QED BY <1>2, <2>0, <2>1, <3>1, <3>2
  <2>. QED BY <1>1, <2>1, <2>2
<1>. QED BY <1>1, <1>3, <1>4, <1>5, <1>6, <1>7, UserSteps

LEMMA HereNext == TypeOK /\ Here /\ [Next]_vars => Here'
<1>. SUFFICES ASSUME TypeOK, Here, [Next]_vars PROVE Here'
  OBVIOUS
<1>. USE DEF tables, logging, window, ghosts
\* A window that is shown stays until the close.
<1>1. ASSUME NEW u \in Users
      PROVE  /\ logins[u] <= logins'[u] /\ logins[u] \in Nat /\ logins'[u] \in Nat
             /\ logins'[u] = logins[u] /\ phase'[u] \notin Left =>
                   phase[u] \notin Left /\ (shown[u] => shown'[u])
  <2>0. logins[u] \in Nat /\ shown[u] \in BOOLEAN
    BY DEF TypeOK
  <2>1. CASE Still(u)
    BY <2>0, <2>1 DEF Still
  <2>2. CASE Deliver(u)
    BY <2>0, <2>2 DEF Deliver
  <2>3. CASE Login(u)
    <3>1. logins'[u] = logins[u] + 1
      BY <2>3 DEF Login, TypeOK
    <3>. QED BY <2>0, <3>1
  <2>4. CASE LoginStep(u) /\ ~Login(u)
    <3>1. UNCHANGED <<logins, shown>> /\ phase[u] \notin Left
      BY <2>4 DEF LoginStep, LoginFriends, LoginStates, LoginApplies, LoginTell, LoginAck, Left
    <3>. QED BY <2>0, <3>1
  <2>5. CASE CloseStep(u)
    <3>1. UNCHANGED logins /\ phase'[u] \in Left
      BY <2>5 DEF CloseStep, Close, CloseRoute, CloseFriends, CloseTell, Left, TypeOK
    <3>. QED BY <2>0, <3>1
  <2>6. CASE ClientRead(u)
    <3>1. UNCHANGED <<logins, phase>>
      BY <2>6 DEF ClientRead
    <3>2. shown[u] => shown'[u]
      <4>1. shown' = [shown EXCEPT ![u] = TRUE] \/ shown' = shown
        BY <2>6, WindowRead DEF SocialDataLoaded, FriendRequestReceived, ProcessFriendResult,
                                FriendBindSuccess, FriendStatusChanged, window
      <4>. QED BY <2>0, <4>1 DEF TypeOK
    <3>. QED BY <2>0, <3>1, <3>2
  <2>7. CASE \E j \in Jobs : AnswerRespond(j) /\ job[j].to = u
    BY <2>0, <2>7 DEF AnswerRespond
  <2>. QED BY <2>1, <2>2, <2>3, <2>4, <2>5, <2>6, <2>7, UserSteps
<1>2. ASSUME NEW j \in Jobs, HereJob(j), job'[j].op = "answer" => /\ job[j].op = "answer"
                                                                  /\ job'[j].to = job[j].to
                                                                  /\ job'[j].conn = job[j].conn
      PROVE  HereJob(j)'
  <2>. SUFFICES ASSUME job'[j].op = "answer" PROVE HereJob(j)'
    BY DEF HereJob
  <2>1. job[j].to \in Users /\ job[j].conn \in Nat
    BY <1>2, Kinds, AnswerFacts
  <2>2. /\ logins[job[j].to] <= logins'[job[j].to] /\ logins[job[j].to] \in Nat /\ logins'[job[j].to] \in Nat
        /\ logins'[job[j].to] = logins[job[j].to] /\ phase'[job[j].to] \notin Left =>
              phase[job[j].to] \notin Left /\ (shown[job[j].to] => shown'[job[j].to])
    BY <1>1, <2>1
  <2>3. job'[j].to = job[j].to /\ job'[j].conn = job[j].conn
    BY <1>2
  <2>4. /\ job[j].conn <= logins[job[j].to]
        /\ job[j].conn = logins[job[j].to] /\ phase[job[j].to] \notin Left => shown[job[j].to]
    BY <1>2 DEF HereJob
  <2>5. job[j].conn <= logins'[job[j].to]
    BY <2>1, <2>2, <2>4
  <2>6. job[j].conn = logins'[job[j].to] => logins'[job[j].to] = logins[job[j].to]
    BY <2>1, <2>2, <2>4
  <2>. QED BY <2>2, <2>3, <2>4, <2>5, <2>6 DEF HereJob
<1>3. CASE \A i \in Jobs : job'[i].op = "answer" => job[i].op = "answer" /\ job'[i].to = job[i].to /\ job'[i].conn = job[i].conn
  BY <1>2, <1>3, HereUsers DEF Here
<1>4. ASSUME NEW u \in Users, NEW id, NEW yes, NEW j \in Jobs, id \in applies[u], ClientAnswer(u, id, yes, j)
      PROVE  Here'
  <2>1. Others(j) /\ job'[j].op = "answer" /\ job'[j].to = u /\ job'[j].conn = logins[u] /\ shown[u]
    BY <1>4, Asked
  <2>2. UNCHANGED <<logins, shown, phase>> /\ logins[u] \in Nat
    BY <1>4 DEF ClientAnswer, TypeOK
  <2>3. HereJob(j)'
    BY <2>1, <2>2 DEF HereJob
  <2>4. \A i \in Jobs \ {j} : HereJob(i)'
    BY <1>2, <2>1 DEF Others, Here
  <2>. QED BY <2>3, <2>4, HereUsers DEF Here
<1>5. ASSUME NEW j \in Jobs, AnswerStep(j) PROVE Here'
  <2>1. Others(j) /\ SameAnswer(j)
    BY <1>5, AnswerOwn
  <2>. QED BY <1>3, <2>1 DEF Others, SameAnswer, SameTask
<1>6. CASE /\ \A j \in Jobs : ~AnswerStep(j)
           /\ \A u \in Users, j \in Jobs : \A id, yes : ~(id \in applies[u] /\ ClientAnswer(u, id, yes, j))
  <2>1. AnswersSame
    BY <1>6, NoAnswer DEF ClientAnswer
  <2>. QED BY <1>3, <2>1 DEF AnswersSame
<1>. QED BY <1>4, <1>5, <1>6

-----------------------------------------------------------------------------
(* Messages in a sequence that are in the set M and that are read by a window: *)
(* one that is there already, or the one that an earlier LOGIN_MSG_ACK opens.  *)

Logins == [kind : {"login"}, list : [Users -> States], applies : SUBSET Nat]
Holding(id) == {m \in Logins : id \in m.applies}
Announced(id) == {[kind |-> "apply", id |-> id]}
AnswersTo(id) == [kind : {"answer"}, id : {id}, yes : BOOLEAN, uid : Users, state : States]

LEMMA MessageSets ==
    ASSUME NEW m \in Messages
    PROVE  /\ m \in Logins <=> m.kind = "login"
           /\ \A id : /\ m \in Holding(id) <=> m.kind = "login" /\ id \in m.applies
                      /\ m \in Announced(id) <=> m.kind = "apply" /\ m.id = id
                      /\ m \in AnswersTo(id) <=> m.kind = "answer" /\ m.id = id
<1>1. m \in Logins <=> m.kind = "login"
  BY DEF Messages, Notifications, Logins, Ids
<1>2. ASSUME NEW id PROVE m \in Holding(id) <=> m.kind = "login" /\ id \in m.applies
  BY <1>1 DEF Holding
<1>3. ASSUME NEW id PROVE m \in Announced(id) <=> m.kind = "apply" /\ m.id = id
  BY DEF Messages, Notifications, Announced
<1>4. ASSUME NEW id PROVE m \in AnswersTo(id) <=> m.kind = "answer" /\ m.id = id
  BY DEF Messages, Notifications, AnswersTo
<1>. QED BY <1>1, <1>2, <1>3, <1>4

LiveAt(s, sh, k) == sh \/ \E l \in DOMAIN s : l < k /\ s[l] \in Logins
HasLive(s, sh, M) == \E k \in DOMAIN s : s[k] \in M /\ LiveAt(s, sh, k)
TwoLive(s, sh, M) ==
    \E k, i \in DOMAIN s : k # i /\ s[k] \in M /\ s[i] \in M /\ LiveAt(s, sh, k) /\ LiveAt(s, sh, i)

LEMMA LiveAppend ==
    ASSUME NEW S, NEW s \in Seq(S), NEW m \in S, NEW sh \in BOOLEAN, NEW M
    PROVE  LET t == Append(s, m)
               live == sh \/ HasLive(s, TRUE, Logins) IN
           /\ HasLive(t, sh, M) <=> HasLive(s, sh, M) \/ (m \in M /\ live)
           /\ TwoLive(t, sh, M) <=> TwoLive(s, sh, M) \/ (m \in M /\ live /\ HasLive(s, sh, M))
<1>. DEFINE t == Append(s, m)
            live == sh \/ HasLive(s, TRUE, Logins)
            n == Len(s) + 1
<1>1. /\ Len(s) \in Nat /\ DOMAIN s = 1..Len(s) /\ DOMAIN t = DOMAIN s \cup {n} /\ n \notin DOMAIN s
      /\ t[n] = m /\ \A k \in DOMAIN s : t[k] = s[k]
  BY AppendElements
<1>. HIDE DEF t, n
<1>2. \A k \in DOMAIN s : k < n /\ ~(n < k)
  BY <1>1 DEF n
<1>3. \A k \in DOMAIN s : LiveAt(t, sh, k) <=> LiveAt(s, sh, k)
  BY <1>1, <1>2 DEF LiveAt
<1>4. LiveAt(t, sh, n) <=> live
  <2>1. n \in Nat /\ ~(n < n)
    BY <1>1 DEF n
  <2>. QED BY <1>1, <1>2, <2>1 DEF LiveAt, HasLive
<1>5. HasLive(t, sh, M) <=> HasLive(s, sh, M) \/ (m \in M /\ live)
  BY <1>1, <1>3, <1>4 DEF HasLive
<1>6. TwoLive(t, sh, M) <=> TwoLive(s, sh, M) \/ (m \in M /\ live /\ HasLive(s, sh, M))
  BY <1>1, <1>3, <1>4 DEF TwoLive, HasLive
<1>. QED BY <1>5, <1>6 DEF t

LEMMA LiveTail ==
    ASSUME NEW S, NEW s \in Seq(S), s # <<>>, NEW sh \in BOOLEAN, NEW M
    PROVE  LET m == Head(s)
               after == sh \/ Head(s) \in Logins IN
           /\ HasLive(s, sh, M) <=> (sh /\ m \in M) \/ HasLive(Tail(s), after, M)
           /\ TwoLive(s, sh, M) <=> \/ TwoLive(Tail(s), after, M)
                                    \/ sh /\ m \in M /\ HasLive(Tail(s), after, M)
<1>. DEFINE t == Tail(s)
            m == Head(s)
            after == sh \/ m \in Logins
<1>1. /\ Len(s) \in Nat \ {0} /\ DOMAIN s = 1..Len(s) /\ DOMAIN t = 1..(Len(s) - 1) /\ m = s[1]
      /\ 1 \in DOMAIN s
      /\ \A k \in DOMAIN t : k + 1 \in DOMAIN s /\ t[k] = s[k + 1]
      /\ \A k \in DOMAIN s : k = 1 \/ k - 1 \in DOMAIN t
  BY TailElements
<1>. HIDE DEF t, m
<1>2. \A k \in DOMAIN s \ {1} : k \in Nat /\ k - 1 \in DOMAIN t /\ t[k - 1] = s[k] /\ (k - 1) + 1 = k /\ 1 < k
  <2>. SUFFICES ASSUME NEW k \in DOMAIN s \ {1}
                PROVE  k \in Nat /\ k - 1 \in DOMAIN t /\ t[k - 1] = s[k] /\ (k - 1) + 1 = k /\ 1 < k
    OBVIOUS
  <2>1. k \in Nat /\ k - 1 \in DOMAIN t /\ (k - 1) + 1 = k /\ 1 < k
    BY <1>1
  <2>2. t[k - 1] = s[(k - 1) + 1]
    BY <1>1, <2>1
  <2>. QED BY <2>1, <2>2
<1>3. ASSUME NEW k \in DOMAIN t PROVE LiveAt(t, after, k) <=> LiveAt(s, sh, k + 1)
  <2>1. k \in Nat /\ k + 1 \in DOMAIN s /\ 1 < k + 1
    BY <1>1
  <2>2. ASSUME NEW l \in DOMAIN t, l < k, t[l] \in Logins PROVE LiveAt(s, sh, k + 1)
    <3>1. l + 1 \in DOMAIN s /\ l + 1 < k + 1 /\ s[l + 1] \in Logins
      BY <1>1, <2>2
    <3>. QED BY <3>1 DEF LiveAt
  <2>3. ASSUME NEW l \in DOMAIN s, l < k + 1, s[l] \in Logins PROVE LiveAt(t, after, k)
    <3>1. CASE l = 1
      BY <1>1, <2>3, <3>1 DEF LiveAt
    <3>2. CASE l # 1
      <4>1. l - 1 \in DOMAIN t /\ t[l - 1] \in Logins /\ l \in Nat
        BY <1>2, <2>3, <3>2
      <4>2. l - 1 < k
        BY <2>1, <2>3, <4>1
      <4>. QED BY <4>1, <4>2 DEF LiveAt
    <3>. QED BY <3>1, <3>2
  <2>4. m \in Logins => LiveAt(s, sh, k + 1)
    BY <1>1, <2>1 DEF LiveAt
  <2>5. sh => LiveAt(s, sh, k + 1) /\ LiveAt(t, after, k)
    BY DEF LiveAt
  <2>6. LiveAt(t, after, k) => LiveAt(s, sh, k + 1)
    BY <2>2, <2>4, <2>5 DEF LiveAt
  <2>7. LiveAt(s, sh, k + 1) => LiveAt(t, after, k)
    BY <2>3, <2>5 DEF LiveAt
  <2>. QED BY <2>6, <2>7
<1>4. LiveAt(s, sh, 1) <=> sh
  BY <1>1 DEF LiveAt
<1>5. \A k \in DOMAIN s \ {1} : LiveAt(s, sh, k) <=> LiveAt(t, after, k - 1)
  <2>. SUFFICES ASSUME NEW k \in DOMAIN s \ {1} PROVE LiveAt(s, sh, k) <=> LiveAt(t, after, k - 1)
    OBVIOUS
  <2>1. k - 1 \in DOMAIN t /\ (k - 1) + 1 = k
    BY <1>2
  <2>2. LiveAt(t, after, k - 1) <=> LiveAt(s, sh, (k - 1) + 1)
    BY <1>3, <2>1
  <2>. QED BY <2>1, <2>2
<1>. HIDE DEF after
<1>6. HasLive(s, sh, M) <=> (sh /\ m \in M) \/ HasLive(t, after, M)
  <2>1. ASSUME NEW k \in DOMAIN s, s[k] \in M, LiveAt(s, sh, k) PROVE (sh /\ m \in M) \/ HasLive(t, after, M)
    <3>1. CASE k = 1
      BY <1>1, <1>4, <2>1, <3>1
    <3>2. CASE k # 1
      <4>1. k - 1 \in DOMAIN t /\ t[k - 1] \in M /\ LiveAt(t, after, k - 1)
        BY <1>2, <1>5, <2>1, <3>2
      <4>. QED BY <4>1 DEF HasLive
    <3>. QED BY <3>1, <3>2
  <2>2. ASSUME NEW k \in DOMAIN t, t[k] \in M, LiveAt(t, after, k) PROVE HasLive(s, sh, M)
    BY <1>1, <1>3, <2>2 DEF HasLive
  <2>3. sh /\ m \in M => HasLive(s, sh, M)
    BY <1>1, <1>4 DEF HasLive
  <2>. QED BY <2>1, <2>2, <2>3 DEF HasLive
<1>7. TwoLive(s, sh, M) <=> TwoLive(t, after, M) \/ (sh /\ m \in M /\ HasLive(t, after, M))
  <2>1. ASSUME NEW k \in DOMAIN s, NEW i \in DOMAIN s, k # i, s[k] \in M, s[i] \in M,
               LiveAt(s, sh, k), LiveAt(s, sh, i)
        PROVE  TwoLive(t, after, M) \/ (sh /\ m \in M /\ HasLive(t, after, M))
    <3>1. ASSUME NEW x \in DOMAIN s, s[x] \in M, LiveAt(s, sh, x), x # 1
          PROVE  x - 1 \in DOMAIN t /\ t[x - 1] \in M /\ LiveAt(t, after, x - 1)
      BY <1>2, <1>5, <3>1
    <3>2. ASSUME NEW x \in DOMAIN s, s[x] \in M, LiveAt(s, sh, x), x # 1 PROVE HasLive(t, after, M)
      BY <3>1, <3>2 DEF HasLive
    <3>3. CASE k = 1 \/ i = 1
      BY <1>1, <1>4, <2>1, <3>2, <3>3
    <3>4. CASE k # 1 /\ i # 1
      <4>1. k - 1 # i - 1
        BY <1>2, <2>1, <3>4
      <4>. QED BY <2>1, <3>1, <3>4, <4>1 DEF TwoLive
    <3>. QED BY <3>3, <3>4
  <2>2. ASSUME NEW k \in DOMAIN t, NEW i \in DOMAIN t, k # i, t[k] \in M, t[i] \in M,
               LiveAt(t, after, k), LiveAt(t, after, i)
        PROVE  TwoLive(s, sh, M)
    <3>1. k \in Nat /\ i \in Nat /\ k + 1 # i + 1
      BY <1>1, <2>2
    <3>2. /\ k + 1 \in DOMAIN s /\ i + 1 \in DOMAIN s /\ s[k + 1] \in M /\ s[i + 1] \in M
          /\ LiveAt(s, sh, k + 1) /\ LiveAt(s, sh, i + 1)
      BY <1>1, <1>3, <2>2
    <3>. QED BY <3>1, <3>2 DEF TwoLive
  <2>3. ASSUME sh, m \in M, NEW k \in DOMAIN t, t[k] \in M, LiveAt(t, after, k) PROVE TwoLive(s, sh, M)
    <3>1. k \in Nat /\ k + 1 # 1
      BY <1>1, <2>3
    <3>2. k + 1 \in DOMAIN s /\ s[k + 1] \in M /\ LiveAt(s, sh, k + 1)
      BY <1>1, <1>3, <2>3
    <3>. QED BY <1>1, <1>4, <2>3, <3>1, <3>2 DEF TwoLive
  <2>. QED BY <2>1, <2>2, <2>3 DEF TwoLive, HasLive
<1>. QED BY <1>6, <1>7 DEF t, m, after

LEMMA LiveNone == \A sh, M : ~HasLive(<<>>, sh, M) /\ ~TwoLive(<<>>, sh, M)
BY DEF HasLive, TwoLive

LEMMA LoginInMail ==
    ASSUME TypeOK, NEW u \in Users
    PROVE  HasLive(inbox[u], TRUE, Logins) <=> \E k \in DOMAIN inbox[u] : inbox[u][k].kind = "login"
BY MailElements, MessageSets DEF HasLive, LiveAt

-----------------------------------------------------------------------------
(* The notification of the request id, on its way to the window of u. *)

JobTok(j, id) == job[j].op = "apply" /\ job[j].at \in {"look", "publish"} /\ job[j].id = id
AtWork(id) == \E j \in Jobs : JobTok(j, id)
TwoAtWork(id) == \E i, j \in Jobs : i # j /\ JobTok(i, id) /\ JobTok(j, id)
Held(u, id) ==
    \/ shown[u] /\ id \in applies[u]
    \/ HasLive(inbox[u], TRUE, Holding(id))
    \/ phase[u] \in {"tellOn", "ack"} /\ id \in snapshot[u].applies
InChan(u, id) == HasLive(chan[u], TRUE, Announced(id))
InMail(u, id) == HasLive(inbox[u], shown[u], Announced(id))
TwoInChan(u, id) == TwoLive(chan[u], TRUE, Announced(id))
TwoInMail(u, id) == TwoLive(inbox[u], shown[u], Announced(id))
Under(u, id) == AtWork(id) \/ InChan(u, id) \/ InMail(u, id)
Reached(u, id) == Under(u, id) \/ Held(u, id)
Single(u, id) ==
    /\ ~TwoAtWork(id) /\ ~TwoInChan(u, id) /\ ~TwoInMail(u, id)
    /\ ~(AtWork(id) /\ InChan(u, id)) /\ ~(AtWork(id) /\ InMail(u, id)) /\ ~(AtWork(id) /\ Held(u, id))
    /\ ~(InChan(u, id) /\ InMail(u, id)) /\ ~(InChan(u, id) /\ Held(u, id)) /\ ~(InMail(u, id) /\ Held(u, id))

\* Membership after a step, in terms of the sequences after it.
LEMMA LivePrimed ==
    ASSUME NEW u, NEW id
    PROVE  /\ InChan(u, id)' <=> HasLive(chan'[u], TRUE, Announced(id))
           /\ TwoInChan(u, id)' <=> TwoLive(chan'[u], TRUE, Announced(id))
           /\ InMail(u, id)' <=> HasLive(inbox'[u], shown'[u], Announced(id))
           /\ TwoInMail(u, id)' <=> TwoLive(inbox'[u], shown'[u], Announced(id))
           /\ Held(u, id)' <=> \/ shown'[u] /\ id \in applies'[u]
                               \/ HasLive(inbox'[u], TRUE, Holding(id))
                               \/ phase'[u] \in {"tellOn", "ack"} /\ id \in snapshot'[u].applies
BY DEF InChan, TwoInChan, InMail, TwoInMail, Held, HasLive, TwoLive, LiveAt, Announced, Holding,
     Logins, States

LEMMA ChanSent ==
    ASSUME TypeOK, NEW u \in Users, NEW us, NEW m \in Notifications, chan' = Published(us, m)
    PROVE  chan'[u] = IF u \in us /\ u \in Subscribed THEN Append(chan[u], m) ELSE chan[u]
BY DEF Published

LEMMA ChanAppended ==
    ASSUME TypeOK, NEW u \in Users, NEW m \in Notifications, chan'[u] = Append(chan[u], m), NEW id
    PROVE  /\ InChan(u, id)' <=> InChan(u, id) \/ m \in Announced(id)
           /\ TwoInChan(u, id)' <=> TwoInChan(u, id) \/ (m \in Announced(id) /\ InChan(u, id))
<1>. DEFINE t == Append(chan[u], m)
            M == Announced(id)
<1>1. chan[u] \in Seq(Notifications)
  BY DEF TypeOK
<1>2. /\ HasLive(t, TRUE, M) <=> HasLive(chan[u], TRUE, M) \/ m \in M
      /\ TwoLive(t, TRUE, M) <=> TwoLive(chan[u], TRUE, M) \/ (m \in M /\ HasLive(chan[u], TRUE, M))
  <2>. HIDE DEF M
  <2>. QED BY <1>1, LiveAppend
<1>3. chan'[u] = t
  OBVIOUS
<1>. HIDE DEF t
<1>. QED BY <1>2, <1>3, LivePrimed DEF InChan, TwoInChan

LEMMA ChanSame ==
    ASSUME NEW u, chan'[u] = chan[u], NEW id
    PROVE  (InChan(u, id)' <=> InChan(u, id)) /\ (TwoInChan(u, id)' <=> TwoInChan(u, id))
BY LivePrimed DEF InChan, TwoInChan

LEMMA JobTokens ==
    ASSUME TypeOK, Addressed, Here, [Next]_vars, NEW id \in Ids
    PROVE  \/ \A i \in Jobs : JobTok(i, id)' <=> JobTok(i, id)
           \/ id \in repeated' /\ \A i \in Jobs : JobTok(i, id) => JobTok(i, id)'
           \/ \E j \in Jobs :
                /\ (ApplyLook(j) /\ job[j].to \notin route) \/ ApplyPublish(j)
                /\ JobTok(j, id) /\ ~JobTok(j, id)' /\ request[id].to = job[j].to
                /\ \A i \in Jobs \ {j} : JobTok(i, id)' <=> JobTok(i, id)
<1>. USE DEF tables, logging, window, ghosts
<1>. DEFINE Goal == \/ \A i \in Jobs : JobTok(i, id)' <=> JobTok(i, id)
                    \/ id \in repeated' /\ \A i \in Jobs : JobTok(i, id) => JobTok(i, id)'
                    \/ \E j \in Jobs :
                         /\ (ApplyLook(j) /\ job[j].to \notin route) \/ ApplyPublish(j)
                         /\ JobTok(j, id) /\ ~JobTok(j, id)' /\ request[id].to = job[j].to
                         /\ \A i \in Jobs \ {j} : JobTok(i, id)' <=> JobTok(i, id)
<1>1. CASE UNCHANGED job
  BY <1>1 DEF JobTok
<1>2. ASSUME NEW j \in Jobs, Others(j), ~JobTok(j, id), ~JobTok(j, id)' PROVE Goal
  BY <1>2 DEF Others, JobTok
<1>3. ASSUME NEW u \in Users, NEW j \in Jobs, ClientRequest(u, j) PROVE Goal
  <2>1. ASSUME NEW v \in Users, ClientApply(u, v, j) PROVE Goal
    <3>1. Others(j) /\ job[j] = NoJob /\ job'[j].at = "check"
      BY <2>1 DEF ClientApply, Submit, TypeOK, Others
    <3>. QED BY <1>2, <3>1, NoneTyped DEF JobTok
  <2>2. ASSUME NEW x \in applies[u], NEW yes \in BOOLEAN, ClientAnswer(u, x, yes, j) PROVE Goal
    <3>1. Others(j) /\ job[j].op = "none" /\ job'[j].op = "answer"
      BY <2>2, Asked
    <3>. QED BY <1>2, <3>1 DEF JobTok
  <2>. QED BY <1>3, <2>1, <2>2 DEF ClientRequest
<1>4. ASSUME NEW j \in Jobs, AnswerStep(j) PROVE Goal
  <2>1. Others(j) /\ job[j].op = "answer" /\ job'[j].op = "answer"
    BY <1>4, AnsweringStep, AnswerOwn DEF SameAnswer, SameTask
  <2>. QED BY <1>2, <2>1 DEF JobTok
<1>5. ASSUME NEW j \in Jobs, ApplyStep(j) PROVE Goal
  <2>0. job[j].op = "apply" /\ job[j] \in Applications /\ Tasked(j)
    BY <1>5, Applying, Kinds DEF Addressed
  <2>1. CASE ApplyCheck(j)
    <3>1. job[j].at = "check" /\ Others(j) /\ job'[j].at \in {"done", "select"}
      BY <2>0, <2>1, ApplyGoes DEF ApplyCheck, ApplyAts, At
    <3>. QED BY <1>2, <3>1 DEF JobTok
  <2>2. CASE ApplySelect(j)
    <3>0. job[j].at = "select"
      BY <2>2 DEF ApplySelect, At
    <3>1. CASE Found(j) = {}
      <4>1. Others(j) /\ job'[j].at = "insert"
        BY <2>0, <2>2, <3>1, ApplyGoes DEF ApplySelect, ApplyAts
      <4>. QED BY <1>2, <3>0, <4>1 DEF JobTok
    <3>2. ASSUME NEW x \in Found(j), job' = [job EXCEPT ![j].at = "look", ![j].id = x],
                 repeated' = repeated \cup {x}
          PROVE  Goal
      <4>1. Others(j) /\ job'[j].id = x
        BY <2>0, <3>2, Named
      <4>2. CASE x = id
        <5>1. \A i \in Jobs : JobTok(i, id) => JobTok(i, id)'
          BY <3>0, <4>1 DEF Others, JobTok
        <5>. QED BY <3>2, <4>2, <5>1
      <4>3. CASE x # id
        BY <1>2, <3>0, <4>1, <4>3 DEF JobTok
      <4>. QED BY <4>2, <4>3
    <3>. QED BY <2>2, <3>1, <3>2 DEF ApplySelect
  <2>3. CASE ApplyInsert(j)
    <3>0. job[j].at = "insert"
      BY <2>3 DEF ApplyInsert, At
    <3>. DEFINE row == [from |-> job[j].from, to |-> job[j].to, status |-> "pending"]
    <3>1. CASE Goes(j, "done")
      <4>1. Others(j) /\ job'[j].at = "done"
        BY <2>0, <3>1, ApplyGoes DEF ApplyAts
      <4>. QED BY <1>2, <3>0, <4>1 DEF JobTok
    <3>2. CASE request' = Append(request, row) /\ job' = [job EXCEPT ![j].at = "look", ![j].id = Len(request')]
      <4>1. Others(j) /\ job'[j].id = Len(request')
        BY <2>0, <3>2, Named
      <4>2. row \in Rows
        BY <2>0, ApplicationFacts DEF Rows
      <4>. HIDE DEF row
      <4>3. Len(request') \notin Ids
        BY <3>2, <4>2, Appended
      <4>. QED BY <1>2, <3>0, <4>1, <4>3 DEF JobTok
    <3>. QED BY <2>3, <3>1, <3>2 DEF ApplyInsert
  <2>4. CASE ApplyLook(j)
    <3>0. job[j].at = "look" /\ job[j].id \in Ids
      BY <2>0, <2>4, ApplicationFacts DEF ApplyLook, At
    <3>1. /\ Others(j) /\ job'[j].id = job[j].id /\ job'[j].op = "apply"
          /\ job'[j].at = IF job[j].to \in route THEN "publish" ELSE "done"
      <4>1. (IF job[j].to \in route THEN "publish" ELSE "done") \in ApplyAts
        BY DEF ApplyAts
      <4>2. Goes(j, IF job[j].to \in route THEN "publish" ELSE "done")
        BY <2>4 DEF ApplyLook
      <4>. QED BY <2>0, <3>0, <4>1, <4>2, ApplyGoes DEF SameTask
    <3>2. CASE job[j].to \in route
      <4>1. job'[j].at = "publish"
        BY <3>1, <3>2
      <4>. QED BY <2>0, <3>0, <3>1, <4>1 DEF Others, JobTok
    <3>3. CASE job[j].to \notin route /\ job[j].id = id
      <4>1. JobTok(j, id) /\ ~JobTok(j, id)' /\ request[id].to = job[j].to
        BY <2>0, <3>0, <3>1, <3>3 DEF JobTok, Tasked
      <4>. QED BY <2>4, <3>1, <3>3, <4>1 DEF Others, JobTok
    <3>4. CASE job[j].id # id
      BY <1>2, <3>1, <3>4 DEF JobTok
    <3>. QED BY <3>2, <3>3, <3>4
  <2>5. CASE ApplyPublish(j)
    <3>0. job[j].at = "publish" /\ Others(j) /\ job'[j].at = "done" /\ job'[j].id = job[j].id
      BY <2>0, <2>5, ApplyGoes DEF ApplyPublish, At, ApplyAts
    <3>1. CASE job[j].id = id
      <4>1. JobTok(j, id) /\ ~JobTok(j, id)' /\ request[id].to = job[j].to
        BY <2>0, <3>0, <3>1 DEF JobTok, Tasked
      <4>. QED BY <2>5, <3>0, <4>1 DEF Others, JobTok
    <3>2. CASE job[j].id # id
      BY <1>2, <3>0, <3>2 DEF JobTok
    <3>. QED BY <3>1, <3>2
  <2>. QED BY <1>5, <2>1, <2>2, <2>3, <2>4, <2>5 DEF ApplyStep
<1>6. ASSUME NEW u \in Users, Deliver(u) \/ LoginStep(u) \/ CloseStep(u) \/ ClientRead(u)
      PROVE  UNCHANGED job
  BY <1>6 DEF Deliver, LoginStep, Login, LoginFriends, LoginStates, LoginApplies, LoginTell,
       LoginAck,
              CloseStep, Close, CloseRoute, CloseFriends, CloseTell, ClientRead
<1>7. UNCHANGED vars => UNCHANGED job
  BY DEF vars
<1>. QED BY <1>1, <1>3, <1>4, <1>5, <1>6, <1>7 DEF Next

\* Nothing of id reaches the channel of u except from the task that announces it.
LEMMA ChanTokens ==
    ASSUME TypeOK, Addressed, [Next]_vars, NEW u \in Users, NEW id \in Ids, request[id].to = u,
           \/ \E w \in Users \ {u} : LoginTell(w) \/ CloseTell(w)
           \/ \E j \in Jobs : ApplyPublish(j) \/ AnswerPublish(j)
    PROVE  \/ /\ InChan(u, id)' <=> InChan(u, id)
              /\ TwoInChan(u, id)' <=> TwoInChan(u, id)
              /\ \A j \in Jobs : ~(ApplyPublish(j) /\ JobTok(j, id) /\ u \in Subscribed)
           \/ \E j \in Jobs :
                /\ ApplyPublish(j) /\ JobTok(j, id) /\ InChan(u, id)'
                /\ TwoInChan(u, id)' =>
                      TwoInChan(u, id) \/ InChan(u, id)
<1>. DEFINE Goal == \/ /\ InChan(u, id)' <=> InChan(u, id)
                       /\ TwoInChan(u, id)' <=> TwoInChan(u, id)
                       /\ \A j \in Jobs : ~(ApplyPublish(j) /\ JobTok(j, id) /\ u \in Subscribed)
                    \/ \E j \in Jobs :
                         /\ ApplyPublish(j) /\ JobTok(j, id) /\ InChan(u, id)'
                         /\ TwoInChan(u, id)' =>
                               TwoInChan(u, id) \/ InChan(u, id)
<1>0. chan[u] \in Seq(Notifications) /\ chan \in [Users -> Seq(Notifications)]
  BY DEF TypeOK
<1>1. ASSUME NEW us, NEW m \in Notifications, m.kind # "apply", chan' = Published(us, m)
      PROVE  /\ InChan(u, id)' <=> InChan(u, id)
             /\ TwoInChan(u, id)' <=> TwoInChan(u, id)
  <2>1. chan'[u] = chan[u] \/ chan'[u] = Append(chan[u], m)
    BY <1>1, ChanSent
  <2>2. m \notin Announced(id)
    BY <1>1, MessageSets, Sent
  <2>. QED BY <2>1, <2>2, ChanAppended, ChanSame
<1>2. ASSUME NEW w \in Users \ {u}, LoginTell(w) \/ CloseTell(w) PROVE Goal
  <2>1. \A j \in Jobs : ~(ApplyPublish(j) /\ JobTok(j, id))
    <3>1. UNCHANGED job
      BY <1>2 DEF LoginTell, CloseTell
    <3>. SUFFICES ASSUME NEW j \in Jobs, ApplyPublish(j) PROVE FALSE
      OBVIOUS
    <3>2. job[j].at = "publish" /\ job'[j].at = "done"
      BY Kinds, ApplyGoes DEF ApplyPublish, At, ApplyAts
    <3>. QED BY <3>1, <3>2
  <2>2. CASE LoginTell(w)
    <3>1. [kind |-> "status", uid |-> w, state |-> "online"] \in Notifications
      BY Sent DEF States
    <3>. QED BY <1>1, <2>1, <2>2, <3>1 DEF LoginTell
  <2>3. CASE CloseTell(w)
    <3>1. Particulars(w) \in Notifications /\ Particulars(w).kind # "apply"
      BY Sent DEF States, Particulars
    <3>. QED BY <1>1, <2>1, <2>3, <3>1 DEF CloseTell
  <2>. QED BY <1>2, <2>2, <2>3
<1>3. ASSUME NEW j \in Jobs, AnswerPublish(j) PROVE Goal
  <2>0. job[j].op = "answer" /\ job[j] \in Answers /\ Others(j) /\ SameAnswer(j)
    BY <1>3, AnsweringStep, AnswerOwn, Kinds DEF AnswerStep
  <2>1. \A i \in Jobs : ~(ApplyPublish(i) /\ JobTok(i, id))
    <3>. SUFFICES ASSUME NEW i \in Jobs, ApplyPublish(i) PROVE FALSE
      OBVIOUS
    <3>1. job[i].op = "apply" /\ job[i].at = "publish" /\ job'[i].at = "done"
      BY Kinds, ApplyGoes DEF ApplyPublish, At, ApplyAts
    <3>. QED BY <2>0, <3>1 DEF Others
  <2>2. [kind |-> "bound", uid |-> job[j].to] \in Notifications
    BY <2>0, AnswerFacts, Sent
  <2>. QED BY <1>1, <1>3, <2>1, <2>2 DEF AnswerPublish
<1>4. ASSUME NEW j \in Jobs, ApplyPublish(j) PROVE Goal
  <2>0. /\ job[j].op = "apply" /\ job[j] \in Applications /\ job[j].at = "publish" /\ job[j].id \in Ids
        /\ Tasked(j) /\ Others(j) /\ job'[j].at = "done"
    <3>1. job[j].op = "apply" /\ job[j] \in Applications /\ job[j].at = "publish"
      BY <1>4, Kinds DEF ApplyPublish, At
    <3>. QED BY <1>4, <3>1, ApplicationFacts, ApplyGoes DEF ApplyPublish, Addressed, ApplyAts
  <2>. DEFINE m == [kind |-> "apply", id |-> job[j].id]
  <2>1. m \in Notifications /\ m.kind = "apply" /\ m.id = job[j].id /\ chan' = Published({job[j].to}, m)
    BY <1>4, <2>0, Sent DEF ApplyPublish
  <2>. HIDE DEF m
  <2>2. m \in Announced(id) <=> job[j].id = id
    BY <2>1, MessageSets, Sent
  <2>3. chan'[u] = IF job[j].to = u /\ u \in Subscribed THEN Append(chan[u], m) ELSE chan[u]
    BY <2>1, ChanSent
  <2>4. \A i \in Jobs : ApplyPublish(i) => i = j
    <3>. SUFFICES ASSUME NEW i \in Jobs, ApplyPublish(i) PROVE i = j
      OBVIOUS
    <3>1. job[i].at = "publish" /\ job'[i].at = "done"
      BY Kinds, ApplyGoes DEF ApplyPublish, At, ApplyAts
    <3>. QED BY <2>0, <3>1 DEF Others
  <2>5. CASE job[j].id = id /\ u \in Subscribed
    <3>1. chan'[u] = Append(chan[u], m) /\ JobTok(j, id)
      BY <2>0, <2>3, <2>5 DEF Tasked, JobTok
    <3>2. /\ InChan(u, id)'
          /\ TwoInChan(u, id)' =>
                      TwoInChan(u, id) \/ InChan(u, id)
      BY <2>1, <2>2, <2>5, <3>1, ChanAppended
    <3>. QED BY <1>4, <3>1, <3>2
  <2>6. CASE ~(job[j].id = id /\ u \in Subscribed)
    <3>1. /\ InChan(u, id)' <=> InChan(u, id)
          /\ TwoInChan(u, id)' <=> TwoInChan(u, id)
      <4>1. CASE chan'[u] = chan[u]
        BY <4>1, ChanSame
      <4>2. CASE chan'[u] = Append(chan[u], m) /\ m \notin Announced(id)
        BY <2>1, <4>2, ChanAppended
      <4>. QED BY <2>2, <2>3, <2>6, <4>1, <4>2
    <3>. QED BY <2>4, <2>6, <3>1 DEF JobTok
  <2>. QED BY <2>5, <2>6
<1>. QED BY <1>2, <1>3, <1>4

-----------------------------------------------------------------------------
(* Every open request has its notification on its way, once. *)

Awake == {"tellOn", "ack", "on"}
AnswerMail(u) ==
    \A k \in DOMAIN inbox[u] : inbox[u][k].kind = "answer" =>
        request[inbox[u][k].id].status # "pending"
AnswerSent(u, id) == \E k \in DOMAIN inbox[u] : inbox[u][k].kind = "answer" /\ inbox[u][k].id = id
AnswerNear(id) == \E j \in Jobs : Answering(j, id) /\ job[j].at \notin {"update", "done"}
AnswerMade(id) == \E j \in Jobs : Answering(j, id)
\* An open request to a user who is here is in the window or on its way to it ...
Reach(u, id) ==
    /\ request[id].to = u /\ request[id].status = "pending"
    /\ phase[u] \in Awake /\ "requests" \notin outdated[u]
    => Reached(u, id)
\* ... in one place only unless it was announced twice; one that is being answered
\* is not announced again, and one that was answered is in the window only as long
\* as the answer is on its way.
Once(u, id) ==
    request[id].to = u /\ id \notin repeated =>
        /\ Single(u, id)
        /\ AnswerMade(id) => ~Under(u, id)
        /\ request[id].status # "pending" /\ "requests" \notin outdated[u] /\ Held(u, id) =>
              AnswerNear(id) \/ AnswerSent(u, id)
Announcements ==
    /\ \A id \in Ids : request[id].status # "pending" => AnswerMade(id)
    /\ \A u \in Users : AnswerMail(u)
    /\ \A u \in Users, id \in Ids : Reach(u, id) /\ Once(u, id)

LEMMA InboxAppended ==
    ASSUME TypeOK, NEW u \in Users, NEW m \in Messages, inbox'[u] = Append(inbox[u], m),
           shown'[u] = shown[u], NEW id
    PROVE  LET live == shown[u] \/ HasLive(inbox[u], TRUE, Logins) IN
           /\ InMail(u, id)' <=> InMail(u, id) \/ (m \in Announced(id) /\ live)
           /\ TwoInMail(u, id)' <=> TwoInMail(u, id) \/ (m \in Announced(id) /\ live /\ InMail(u, id))
           /\ HasLive(inbox'[u], TRUE, Holding(id)) <=>
                 HasLive(inbox[u], TRUE, Holding(id)) \/ m \in Holding(id)
<1>. DEFINE t == Append(inbox[u], m)
            M == Announced(id)
            H == Holding(id)
            sh == shown[u]
            live == sh \/ HasLive(inbox[u], TRUE, Logins)
<1>1. inbox[u] \in Seq(Messages) /\ sh \in BOOLEAN
  BY DEF TypeOK
<1>2. /\ HasLive(t, sh, M) <=> HasLive(inbox[u], sh, M) \/ (m \in M /\ live)
      /\ TwoLive(t, sh, M) <=> TwoLive(inbox[u], sh, M) \/ (m \in M /\ live /\ HasLive(inbox[u], sh, M))
      /\ HasLive(t, TRUE, H) <=> HasLive(inbox[u], TRUE, H) \/ m \in H
  <2>. HIDE DEF M, H, sh
  <2>1. /\ HasLive(t, sh, M) <=> HasLive(inbox[u], sh, M) \/ (m \in M /\ live)
        /\ TwoLive(t, sh, M) <=> TwoLive(inbox[u], sh, M) \/ (m \in M /\ live /\ HasLive(inbox[u], sh, M))
    BY <1>1, LiveAppend
  <2>2. HasLive(t, TRUE, H) <=> HasLive(inbox[u], TRUE, H) \/ m \in H
    BY <1>1, LiveAppend
  <2>. QED BY <2>1, <2>2
<1>3. inbox'[u] = t /\ shown'[u] = sh
  OBVIOUS
<1>. HIDE DEF t
<1>. QED BY <1>2, <1>3, LivePrimed DEF InMail, TwoInMail

LEMMA InboxRead ==
    ASSUME TypeOK, NEW u \in Users, inbox[u] # <<>>, inbox'[u] = Tail(inbox[u]), NEW id,
           shown'[u] = (shown[u] \/ Head(inbox[u]) \in Logins)
    PROVE  LET m == Head(inbox[u]) IN
           /\ InMail(u, id) <=> (shown[u] /\ m \in Announced(id)) \/ InMail(u, id)'
           /\ TwoInMail(u, id) <=> TwoInMail(u, id)' \/ (shown[u] /\ m \in Announced(id) /\ InMail(u, id)')
           /\ HasLive(inbox[u], TRUE, Holding(id)) <=>
                 m \in Holding(id) \/ HasLive(inbox'[u], TRUE, Holding(id))
<1>. DEFINE t == Tail(inbox[u])
            m == Head(inbox[u])
            M == Announced(id)
            H == Holding(id)
            sh == shown[u]
            after == sh \/ m \in Logins
<1>1. inbox[u] \in Seq(Messages) /\ sh \in BOOLEAN
  BY DEF TypeOK
<1>2. /\ HasLive(inbox[u], sh, M) <=> (sh /\ m \in M) \/ HasLive(t, after, M)
      /\ TwoLive(inbox[u], sh, M) <=> TwoLive(t, after, M) \/ (sh /\ m \in M /\ HasLive(t, after, M))
  <2>. HIDE DEF M, sh
  <2>. QED BY <1>1, LiveTail
<1>3. HasLive(inbox[u], TRUE, H) <=> m \in H \/ HasLive(t, TRUE, H)
  <2>. HIDE DEF H
  <2>1. HasLive(inbox[u], TRUE, H) <=> (TRUE /\ m \in H) \/ HasLive(t, TRUE \/ m \in Logins, H)
    BY <1>1, LiveTail
  <2>2. (TRUE \/ m \in Logins) = TRUE
    OBVIOUS
  <2>. QED BY <2>1, <2>2
<1>4. inbox'[u] = t /\ shown'[u] = after
  OBVIOUS
<1>. HIDE DEF t, after
<1>. QED BY <1>2, <1>3, <1>4, LivePrimed DEF InMail, TwoInMail

LEMMA ChanTaken ==
    ASSUME TypeOK, NEW u \in Users, chan[u] # <<>>, chan'[u] = Tail(chan[u]), NEW id
    PROVE  LET m == Head(chan[u]) IN
           /\ InChan(u, id) <=> m \in Announced(id) \/ InChan(u, id)'
           /\ TwoInChan(u, id) <=> TwoInChan(u, id)' \/ (m \in Announced(id) /\ InChan(u, id)')
<1>. DEFINE t == Tail(chan[u])
            m == Head(chan[u])
            M == Announced(id)
<1>1. chan[u] \in Seq(Notifications)
  BY DEF TypeOK
<1>2. (TRUE \/ m \in Logins) = TRUE
  OBVIOUS
<1>3. /\ HasLive(chan[u], TRUE, M) <=> m \in M \/ HasLive(t, TRUE, M)
      /\ TwoLive(chan[u], TRUE, M) <=> TwoLive(t, TRUE, M) \/ (m \in M /\ HasLive(t, TRUE, M))
  <2>. HIDE DEF M
  <2>1. /\ HasLive(chan[u], TRUE, M) <=> (TRUE /\ m \in M) \/ HasLive(t, TRUE \/ m \in Logins, M)
        /\ TwoLive(chan[u], TRUE, M) <=> \/ TwoLive(t, TRUE \/ m \in Logins, M)
                                         \/ TRUE /\ m \in M /\ HasLive(t, TRUE \/ m \in Logins, M)
    BY <1>1, LiveTail
  <2>. QED BY <1>2, <2>1
<1>4. chan'[u] = t
  OBVIOUS
<1>. HIDE DEF t
<1>. QED BY <1>3, <1>4, LivePrimed DEF InChan, TwoInChan

LEMMA WorkTokens ==
    ASSUME TypeOK, Addressed, Here, [Next]_vars, NEW id \in Ids
    PROVE  /\ id \notin repeated' => (AtWork(id)' => AtWork(id)) /\ (TwoAtWork(id)' => TwoAtWork(id))
           /\ \/ AtWork(id) => AtWork(id)'
              \/ \E j \in Jobs : /\ (ApplyLook(j) /\ job[j].to \notin route) \/ ApplyPublish(j)
                                 /\ JobTok(j, id) /\ request[id].to = job[j].to
           /\ \A j \in Jobs : ApplyPublish(j) /\ JobTok(j, id) /\ ~TwoAtWork(id) => ~AtWork(id)'
<1>. DEFINE A == \A i \in Jobs : JobTok(i, id)' <=> JobTok(i, id)
            B == id \in repeated' /\ \A i \in Jobs : JobTok(i, id) => JobTok(i, id)'
            C(j) == /\ (ApplyLook(j) /\ job[j].to \notin route) \/ ApplyPublish(j)
                    /\ JobTok(j, id) /\ ~JobTok(j, id)' /\ request[id].to = job[j].to
                    /\ \A i \in Jobs \ {j} : JobTok(i, id)' <=> JobTok(i, id)
<1>1. A \/ B \/ \E j \in Jobs : C(j)
  BY JobTokens
<1>2. ASSUME NEW j \in Jobs, ApplyPublish(j), JobTok(j, id) PROVE C(j)
  <2>1. ~JobTok(j, id)'
    <3>1. job'[j].at = "done"
      BY <1>2, Kinds, ApplyGoes DEF ApplyPublish, At, ApplyAts
    <3>. QED BY <3>1 DEF JobTok
  <2>2. ~A /\ ~B
    BY <1>2, <2>1
  <2>3. PICK i \in Jobs : C(i)
    BY <1>1, <2>2
  <2>. QED BY <1>2, <2>1, <2>3
<1>3. A => (AtWork(id)' <=> AtWork(id)) /\ (TwoAtWork(id)' <=> TwoAtWork(id))
  BY DEF AtWork, TwoAtWork
<1>4. B => (AtWork(id) => AtWork(id)')
  BY DEF AtWork
<1>5. ASSUME NEW j \in Jobs, C(j)
      PROVE  /\ AtWork(id) /\ (TwoAtWork(id)' => TwoAtWork(id)) /\ (~TwoAtWork(id) => ~AtWork(id)')
  BY <1>5 DEF AtWork, TwoAtWork
<1>. HIDE DEF A
<1>6. id \notin repeated' => (AtWork(id)' => AtWork(id)) /\ (TwoAtWork(id)' => TwoAtWork(id))
  BY <1>1, <1>3, <1>5
<1>. QED BY <1>1, <1>2, <1>3, <1>4, <1>5, <1>6

-----------------------------------------------------------------------------
(* What each step does to the notification of one request. *)

\* The step leaves one notification where there was one, and makes none appear; the
\* window gains only what was announced or open; and it loses no open request.
Keeps(u, id) == id \notin repeated' /\ Single(u, id) => Single(u, id)' /\ (Under(u, id)' => Under(u, id))
Gains(u, id) == Held(u, id)' => Held(u, id) \/ InMail(u, id) \/ request[id].status = "pending"
Loses(u, id) ==
    /\ phase'[u] \in Awake /\ "requests" \notin outdated'[u] /\ request[id].status = "pending"
    /\ phase[u] \in Awake /\ "requests" \notin outdated[u] => Reached(u, id)
    => Reached(u, id)'

LEMMA WorkReaches ==
    ASSUME TypeOK, Addressed, Here, [Next]_vars, NEW u \in Users, NEW id \in Ids, request[id].to = u,
           AtWork(id), phase[u] \in Awake
    PROVE  AtWork(id)' \/ InChan(u, id)'
<1>. SUFFICES ASSUME ~AtWork(id)' PROVE InChan(u, id)'
  OBVIOUS
<1>1. PICK j \in Jobs : /\ (ApplyLook(j) /\ job[j].to \notin route) \/ ApplyPublish(j)
                        /\ JobTok(j, id) /\ u = job[j].to
  BY WorkTokens
<1>2. u \in route /\ u \in Subscribed
  BY DEF Here, HereRoute, Awake, Subscribed
<1>. DEFINE m == [kind |-> "apply", id |-> job[j].id]
<1>3. chan' = Published({job[j].to}, m) /\ m.kind = "apply" /\ m.id = id /\ m \in Notifications
  BY <1>1, <1>2, Sent DEF ApplyPublish, JobTok
<1>. HIDE DEF m
<1>4. chan'[u] = Append(chan[u], m)
  BY <1>1, <1>2, <1>3, ChanSent
<1>5. m \in Announced(id)
  BY <1>3, MessageSets, Sent
<1>. QED BY <1>3, <1>4, <1>5, ChanAppended

LEMMA SameTokens ==
    ASSUME NEW u, shown'[u] = shown[u], inbox'[u] = inbox[u], NEW id
    PROVE  /\ InMail(u, id)' <=> InMail(u, id)
           /\ TwoInMail(u, id)' <=> TwoInMail(u, id)
           /\ HasLive(inbox'[u], TRUE, Holding(id)) <=> HasLive(inbox[u], TRUE, Holding(id))
BY LivePrimed DEF InMail, TwoInMail

\* A message that is no notification of a request, and no LOGIN_MSG_ACK, moves nothing.
LEMMA OtherMail ==
    ASSUME TypeOK, NEW u \in Users, NEW m \in Messages, m.kind \notin {"apply", "login"},
           inbox'[u] = Append(inbox[u], m), Still(u), NEW id
    PROVE  /\ InMail(u, id)' <=> InMail(u, id)
           /\ TwoInMail(u, id)' <=> TwoInMail(u, id)
           /\ Held(u, id)' <=> Held(u, id)
<1>1. m \notin Announced(id) /\ m \notin Holding(id)
  BY MessageSets
<1>2. shown'[u] = shown[u]
  BY DEF Still
<1>. QED BY <1>1, <1>2, InboxAppended, LivePrimed DEF Held, Still

LEMMA TokenStep ==
    ASSUME TypeOK, Addressed, Here, [Next]_vars, NEW u \in Users, NEW id \in Ids, request[id].to = u,
           AnswerMail(u)
    PROVE  Keeps(u, id) /\ Gains(u, id) /\ Loses(u, id)
<1>. USE DEF tables, logging, window, ghosts
<1>. DEFINE Goal == Keeps(u, id) /\ Gains(u, id) /\ Loses(u, id)
            open == request[id].status = "pending"
<1>0. /\ id \notin repeated' => (AtWork(id)' => AtWork(id)) /\ (TwoAtWork(id)' => TwoAtWork(id))
      /\ AtWork(id) /\ phase[u] \in Awake => AtWork(id)' \/ InChan(u, id)'
      /\ phase[u] \in Phases
  BY WorkTokens, WorkReaches DEF TypeOK
<1>1. ASSUME InChan(u, id)' => InChan(u, id), TwoInChan(u, id)' => TwoInChan(u, id),
             InMail(u, id)' => InMail(u, id), TwoInMail(u, id)' => TwoInMail(u, id),
             Held(u, id)' => Held(u, id)
      PROVE  Keeps(u, id) /\ Gains(u, id)
  BY <1>0, <1>1 DEF Keeps, Gains, Single, Under
<1>2. ASSUME phase'[u] \in Awake => phase[u] \in Awake,
             "requests" \notin outdated'[u] => "requests" \notin outdated[u],
             "requests" \notin outdated'[u] /\ open /\ (InChan(u, id) \/ InMail(u, id) \/ Held(u, id)) => Reached(u, id)'
      PROVE  Loses(u, id)
  BY <1>0, <1>2 DEF Loses, Reached, Under
<1>3. ASSUME InChan(u, id)' <=> InChan(u, id), TwoInChan(u, id)' <=> TwoInChan(u, id),
             InMail(u, id)' <=> InMail(u, id), TwoInMail(u, id)' <=> TwoInMail(u, id),
             Held(u, id)' <=> Held(u, id), phase'[u] \in Awake => phase[u] \in Awake,
             "requests" \notin outdated'[u] => "requests" \notin outdated[u]
      PROVE  Goal
  BY <1>1, <1>2, <1>3 DEF Reached, Under
<1>4. CASE Still(u) /\ inbox'[u] = inbox[u] /\ chan'[u] = chan[u] /\ outdated'[u] = outdated[u]
  <2>1. Held(u, id)' <=> Held(u, id)
    BY <1>4, SameTokens, LivePrimed DEF Held, Still
  <2>2. phase'[u] = phase[u] /\ shown'[u] = shown[u]
    BY <1>4 DEF Still
  <2>. QED BY <1>3, <1>4, <2>1, <2>2, SameTokens, ChanSame
<1>5. CASE /\ Still(u) /\ inbox'[u] = inbox[u]
           /\ \/ \E w \in Users \ {u} : LoginTell(w) \/ CloseTell(w)
              \/ \E j \in Jobs : ApplyPublish(j) \/ AnswerPublish(j)
  <2>1. /\ Held(u, id)' <=> Held(u, id)
        /\ InMail(u, id)' <=> InMail(u, id)
        /\ TwoInMail(u, id)' <=> TwoInMail(u, id)
    BY <1>5, SameTokens, LivePrimed DEF Held, Still
  <2>2. phase'[u] = phase[u] /\ ("requests" \notin outdated'[u] => "requests" \notin outdated[u])
    <3>1. \/ outdated' = outdated
          \/ \E j \in Jobs : outdated' = [outdated EXCEPT ![job[j].from] = @ \cup {job[j].to}]
      BY <1>5 DEF LoginTell, CloseTell, ApplyPublish, AnswerPublish
    <3>. QED BY <1>5, <3>1 DEF Still, TypeOK
  <2>3. CASE (InChan(u, id)' <=> InChan(u, id)) /\ (TwoInChan(u, id)' <=> TwoInChan(u, id))
    BY <1>3, <2>1, <2>2, <2>3
  <2>4. ASSUME NEW j \in Jobs, ApplyPublish(j), JobTok(j, id), InChan(u, id)',
               TwoInChan(u, id)' => TwoInChan(u, id) \/ InChan(u, id)
        PROVE  Goal
    <3>1. AtWork(id) /\ (~TwoAtWork(id) => ~AtWork(id)')
      BY <2>4, WorkTokens DEF AtWork
    <3>2. Keeps(u, id)
      BY <1>0, <2>1, <2>4, <3>1 DEF Keeps, Single, Under
    <3>3. Gains(u, id)
      BY <2>1 DEF Gains
    <3>4. Loses(u, id)
      BY <2>4 DEF Loses, Reached, Under
    <3>. QED BY <3>2, <3>3, <3>4
  <2>. QED BY <1>5, <2>3, <2>4, ChanTokens
<1>6. CASE Deliver(u)
  <2>. DEFINE m == Head(chan[u])
  <2>1. /\ chan[u] # <<>> /\ chan'[u] = Tail(chan[u]) /\ Still(u)
        /\ inbox'[u] = IF Connected(u) THEN Append(inbox[u], m) ELSE inbox[u]
        /\ outdated'[u] = outdated[u] \cup Overtaken(u, m)
        /\ UNCHANGED job
    BY <1>6 DEF Deliver, Still, TypeOK
  <2>2. /\ InChan(u, id) <=> m \in Announced(id) \/ InChan(u, id)'
        /\ TwoInChan(u, id) <=> TwoInChan(u, id)' \/ (m \in Announced(id) /\ InChan(u, id)')
    BY <2>1, ChanTaken
  <2>3. m \in Messages /\ (m \in Announced(id) <=> m.kind = "apply" /\ m.id = id) /\ m \notin Holding(id)
    <3>1. m \in Notifications /\ m \in Messages
      BY <2>1, TypedMail, Sent
    <3>. HIDE DEF m
    <3>2. m.kind # "login"
      BY <3>1 DEF Notifications
    <3>. QED BY <3>1, <3>2, MessageSets
  <2>4. m.kind = "apply" /\ phase[u] \in {"tellOn", "ack"} => "requests" \in Overtaken(u, m)
    BY DEF Overtaken
  <2>. HIDE DEF m
  <2>. DEFINE live == Connected(u) /\ (shown[u] \/ HasLive(inbox[u], TRUE, Logins))
  <2>5. shown'[u] = shown[u]
    BY <2>1 DEF Still
  <2>6. /\ InMail(u, id)' <=> InMail(u, id) \/ (m \in Announced(id) /\ live)
        /\ TwoInMail(u, id)' <=> TwoInMail(u, id) \/ (m \in Announced(id) /\ live /\ InMail(u, id))
        /\ HasLive(inbox'[u], TRUE, Holding(id)) <=> HasLive(inbox[u], TRUE, Holding(id))
    <3>1. CASE Connected(u)
      <4>1. inbox'[u] = Append(inbox[u], m)
        BY <2>1, <3>1
      <4>. QED BY <2>3, <2>5, <3>1, <4>1, InboxAppended
    <3>2. CASE ~Connected(u)
      <4>1. inbox'[u] = inbox[u]
        BY <2>1, <3>2
      <4>. QED BY <2>5, <3>2, <4>1, SameTokens
    <3>. QED BY <3>1, <3>2
  <2>7. Held(u, id)' <=> Held(u, id)
    BY <2>1, <2>6, LivePrimed DEF Held, Still
  <2>8. phase[u] = "on" => live
    <3>1. shown[u] \in BOOLEAN
      BY DEF TypeOK
    <3>2. phase[u] = "on" /\ ~shown[u] => HasLive(inbox[u], TRUE, Logins)
      BY LoginInMail DEF Here, HereInbox
    <3>. QED BY <3>1, <3>2 DEF Connected
  <2>9. phase'[u] = phase[u] /\ AtWork(id)' = AtWork(id) /\ TwoAtWork(id)' = TwoAtWork(id)
    BY <2>1 DEF Still, AtWork, TwoAtWork, JobTok
  <2>. HIDE DEF live
  <2>10. Keeps(u, id)
    BY <2>2, <2>6, <2>7, <2>9 DEF Keeps, Single, Under
  <2>11. Gains(u, id)
    BY <2>7 DEF Gains
  <2>12. Loses(u, id)
    <3>1. CASE m \in Announced(id) /\ phase[u] \in {"tellOn", "ack"}
      BY <2>1, <2>3, <2>4, <3>1 DEF Loses
    <3>2. CASE m \notin Announced(id) \/ live
      BY <2>1, <2>2, <2>6, <2>7, <2>9, <3>2 DEF Loses, Reached, Under
    <3>3. CASE phase[u] \notin Awake
      BY <2>9, <3>3 DEF Loses
    <3>. QED BY <2>8, <3>1, <3>2, <3>3 DEF Awake
  <2>. QED BY <2>10, <2>11, <2>12
<1>7. CASE LoginStep(u)
  <2>1. CASE Login(u) \/ LoginFriends(u) \/ LoginStates(u)
    <3>1. /\ inbox'[u] = inbox[u] /\ chan'[u] = chan[u] /\ shown'[u] = shown[u] /\ applies'[u] = applies[u]
          /\ phase[u] \in {"off", "friends", "states"} /\ phase'[u] \in {"friends", "states", "applies"}
      BY <2>1 DEF Login, LoginFriends, LoginStates, TypeOK
    <3>2. Held(u, id)' <=> Held(u, id)
      BY <3>1, SameTokens, LivePrimed DEF Held
    <3>3. Keeps(u, id) /\ Gains(u, id)
      BY <1>1, <3>1, <3>2, SameTokens, ChanSame
    <3>4. Loses(u, id)
      BY <3>1 DEF Loses, Awake
    <3>. QED BY <3>3, <3>4
  <2>2. CASE LoginApplies(u)
    <3>1. /\ inbox'[u] = inbox[u] /\ chan'[u] = chan[u] /\ shown'[u] = shown[u] /\ applies'[u] = applies[u]
          /\ phase[u] = "applies" /\ phase'[u] = "tellOn" /\ snapshot'[u].applies = PendingTo(u)
          /\ repeated' = repeated \cup (PendingTo(u) \cap Announcing(u))
      <4>1. /\ PendingTo(u) \in SUBSET Ids
        BY DEF PendingTo, Ids
      <4>2. snapshot'[u] = [snapshot[u] EXCEPT !.applies = PendingTo(u)] /\ snapshot[u] \in Snapshots
        BY <2>2 DEF LoginApplies, TypeOK
      <4>3. snapshot'[u].applies = PendingTo(u)
        BY <4>2 DEF Snapshots
      <4>. QED BY <2>2, <4>3 DEF LoginApplies, TypeOK
    <3>2. ~shown[u] /\ ~HasLive(inbox[u], TRUE, Logins)
      BY <3>1, LoginInMail DEF Here, HereWindow, HereInbox
    <3>3. ~InMail(u, id) /\ ~TwoInMail(u, id)
      BY <3>2 DEF InMail, TwoInMail, HasLive, TwoLive, LiveAt
    <3>4. ~HasLive(inbox[u], TRUE, Holding(id))
      BY <3>2 DEF HasLive, Holding, LiveAt
    <3>5. Held(u, id)' <=> id \in PendingTo(u)
      BY <3>1, <3>2, <3>4, LivePrimed
    <3>6. id \in PendingTo(u) <=> request[id].status = "pending"
      BY DEF PendingTo, Ids
    <3>7. AtWork(id) \/ InChan(u, id) => id \in Announcing(u)
      <4>1. ASSUME NEW j \in Jobs, JobTok(j, id) PROVE id \in Announcing(u)
        <5>1. job[j].to = u /\ job[j].id = id /\ job[j].op = "apply" /\ job[j].at \in {"look", "publish"}
          BY <4>1 DEF JobTok, Addressed, Tasked
        <5>. QED BY <5>1 DEF Announcing
      <4>2. ASSUME NEW k \in DOMAIN chan[u], chan[u][k] \in Announced(id) PROVE id \in Announcing(u)
        <5>1. chan[u][k].kind = "apply" /\ chan[u][k].id = id
          BY <4>2 DEF Announced
        <5>. QED BY <5>1 DEF Announcing
      <4>. QED BY <4>1, <4>2 DEF AtWork, InChan, HasLive
    <3>8. /\ InMail(u, id)' <=> InMail(u, id)
          /\ TwoInMail(u, id)' <=> TwoInMail(u, id)
          /\ InChan(u, id)' <=> InChan(u, id)
          /\ TwoInChan(u, id)' <=> TwoInChan(u, id)
      BY <3>1, SameTokens, ChanSame
    <3>9. Keeps(u, id)
      BY <1>0, <3>1, <3>3, <3>5, <3>7, <3>8 DEF Keeps, Single, Under
    <3>10. Gains(u, id) /\ Loses(u, id)
      BY <3>5, <3>6 DEF Gains, Loses, Reached
    <3>. QED BY <3>9, <3>10
  <2>3. CASE LoginTell(u)
    <3>. DEFINE m == [kind |-> "status", uid |-> u, state |-> "online"]
    <3>1. /\ inbox'[u] = inbox[u] /\ shown'[u] = shown[u] /\ applies'[u] = applies[u]
          /\ snapshot'[u] = snapshot[u] /\ phase[u] = "tellOn" /\ phase'[u] = "ack"
          /\ outdated' = outdated /\ chan' = Published(snapshot[u].friends \cap route, m)
      BY <2>3 DEF LoginTell, TypeOK
    <3>2. m \in Notifications /\ m.kind # "apply"
      BY Sent DEF States
    <3>. HIDE DEF m
    <3>3. chan'[u] = chan[u] \/ chan'[u] = Append(chan[u], m)
      BY <3>1, <3>2, ChanSent
    <3>4. m \notin Announced(id)
      BY <3>2, MessageSets, Sent
    <3>5. (InChan(u, id)' <=> InChan(u, id)) /\ (TwoInChan(u, id)' <=> TwoInChan(u, id))
      BY <3>2, <3>3, <3>4, ChanSame, ChanAppended
    <3>6. Held(u, id)' <=> Held(u, id)
      BY <3>1, SameTokens, LivePrimed DEF Held
    <3>. QED BY <1>3, <3>1, <3>5, <3>6, SameTokens DEF Awake
  <2>4. CASE LoginAck(u)
    <3>. DEFINE m == [kind |-> "login", list |-> snapshot[u].list, applies |-> snapshot[u].applies]
    <3>1. /\ phase[u] = "ack" /\ phase'[u] = "on" /\ shown'[u] = shown[u] /\ applies'[u] = applies[u]
          /\ chan'[u] = chan[u] /\ inbox'[u] = Append(inbox[u], m) /\ outdated' = outdated
      BY <2>4 DEF LoginAck, TypeOK
    <3>2. m \in Messages /\ m.kind = "login" /\ m.applies = snapshot[u].applies
      BY Sent, SnapshotTyped, SnapshotFacts
    <3>. HIDE DEF m
    <3>3. m \notin Announced(id) /\ (m \in Holding(id) <=> id \in snapshot[u].applies)
      BY <3>2, MessageSets
    <3>4. /\ InMail(u, id)' <=> InMail(u, id)
          /\ TwoInMail(u, id)' <=> TwoInMail(u, id)
          /\ HasLive(inbox'[u], TRUE, Holding(id)) <=>
                HasLive(inbox[u], TRUE, Holding(id)) \/ id \in snapshot[u].applies
      BY <3>1, <3>2, <3>3, InboxAppended
    <3>5. Held(u, id)' <=> Held(u, id)
      BY <3>1, <3>4, LivePrimed DEF Held
    <3>. QED BY <1>3, <3>1, <3>4, <3>5, ChanSame DEF Awake
  <2>. QED BY <1>7, <2>1, <2>2, <2>3, <2>4 DEF LoginStep
<1>8. CASE CloseStep(u)
  <2>1. phase'[u] \in Left /\ phase'[u] \notin Awake
    BY <1>8 DEF CloseStep, Close, CloseRoute, CloseFriends, CloseTell, Left, Awake, TypeOK
  <2>2. Loses(u, id)
    BY <2>1 DEF Loses
  <2>3. chan'[u] = chan[u]
    <3>1. CASE CloseTell(u)
      BY <3>1 DEF CloseTell, Published, Subscribed, TypeOK
    <3>. QED BY <1>8, <3>1 DEF CloseStep, Close, CloseRoute, CloseFriends
  <2>4. CASE Close(u)
    <3>1. inbox'[u] = <<>> /\ applies'[u] = {} /\ phase'[u] = "unroute"
      BY <2>4 DEF Close, TypeOK
    <3>2. ~InMail(u, id)' /\ ~TwoInMail(u, id)' /\ ~Held(u, id)'
      <4>1. \A M : ~HasLive(inbox'[u], shown'[u], M) /\ ~TwoLive(inbox'[u], shown'[u], M) /\ ~HasLive(inbox'[u], TRUE, M)
        BY <3>1, LiveNone
      <4>. QED BY <3>1, <4>1, LivePrimed
    <3>. QED BY <1>1, <2>2, <2>3, <3>2, ChanSame
  <2>5. CASE CloseRoute(u) \/ CloseFriends(u) \/ CloseTell(u)
    <3>1. inbox'[u] = inbox[u] /\ applies'[u] = applies[u] /\ shown'[u] = shown[u]
      BY <2>5 DEF CloseRoute, CloseFriends, CloseTell, TypeOK
    <3>2. Held(u, id)' => Held(u, id)
      BY <2>1, <3>1, SameTokens, LivePrimed DEF Held, Left
    <3>. QED BY <1>1, <2>2, <2>3, <3>1, <3>2, ChanSame, SameTokens
  <2>. QED BY <1>8, <2>4, <2>5 DEF CloseStep
<1>9. CASE ClientRead(u)
  <2>. DEFINE m == Head(inbox[u])
  <2>1. /\ inbox[u] # <<>> /\ inbox'[u] = Tail(inbox[u]) /\ m \in Messages
        /\ UNCHANGED <<tables, route, logging, chan, job, failures, ghosts, outdated>>
        /\ \/ m.kind = "login" /\ SocialDataLoaded(u, m)
           \/ m.kind = "apply" /\ shown[u] /\ FriendRequestReceived(u, m)
           \/ m.kind = "answer" /\ shown[u] /\ ProcessFriendResult(u, m)
           \/ m.kind = "bound" /\ shown[u] /\ FriendBindSuccess(u, m)
           \/ m.kind = "status" /\ shown[u] /\ FriendStatusChanged(u, m)
           \/ m.kind # "login" /\ ~shown[u] /\ UNCHANGED window
    BY <1>9, WindowRead
  <2>2. 1 \in DOMAIN inbox[u] /\ m = inbox[u][1]
    BY <2>1, TypedMail, TailElements
  <2>3. /\ m \in Logins <=> m.kind = "login"
        /\ m \in Holding(id) <=> m.kind = "login" /\ id \in m.applies
        /\ m \in Announced(id) <=> m.kind = "apply" /\ m.id = id
    BY <2>1, MessageSets
  <2>4. m.kind = "login" => phase[u] = "on" /\ ~shown[u] /\ ~HasLive(inbox'[u], TRUE, Holding(id))
    <3>. SUFFICES ASSUME m.kind = "login" PROVE phase[u] = "on" /\ ~shown[u] /\ ~HasLive(inbox'[u], TRUE, Holding(id))
      OBVIOUS
    <3>1. /\ phase[u] = "on" /\ ~shown[u]
          /\ \A k \in DOMAIN inbox[u] : inbox[u][k].kind = "login" => k = 1
      BY <2>2 DEF Here, HereInbox
    <3>2. \A k \in DOMAIN inbox'[u] : k + 1 \in DOMAIN inbox[u] /\ k + 1 # 1 /\ inbox'[u][k] = inbox[u][k + 1]
      BY <2>1, TypedMail, TailElements
    <3>3. \A k \in DOMAIN inbox'[u] : inbox'[u][k].kind # "login"
      BY <3>1, <3>2
    <3>. QED BY <3>1, <3>3 DEF HasLive, Holding, Logins
  <2>5. m.kind = "answer" /\ m.id = id => request[id].status # "pending"
    BY <2>2 DEF AnswerMail
  <2>6. shown'[u] \in BOOLEAN /\ shown'[u] = (shown[u] \/ m.kind = "login")
    BY <2>1 DEF SocialDataLoaded, FriendRequestReceived, ProcessFriendResult, FriendBindSuccess,
                FriendStatusChanged, TypeOK
  <2>7. applies'[u] = CASE m.kind = "login" -> m.applies
                        [] m.kind = "apply" /\ shown[u] -> applies[u] \cup {m.id}
                        [] m.kind = "answer" /\ shown[u] -> applies[u] \ {m.id}
                        [] OTHER -> applies[u]
    BY <2>1 DEF SocialDataLoaded, FriendRequestReceived, ProcessFriendResult, FriendBindSuccess,
                FriendStatusChanged, LeftAfter, TypeOK
  <2>8. /\ InMail(u, id) <=> (shown[u] /\ m \in Announced(id)) \/ InMail(u, id)'
        /\ TwoInMail(u, id) <=> TwoInMail(u, id)' \/ (shown[u] /\ m \in Announced(id) /\ InMail(u, id)')
        /\ HasLive(inbox[u], TRUE, Holding(id)) <=> m \in Holding(id) \/ HasLive(inbox'[u], TRUE, Holding(id))
    <3>1. shown'[u] = (shown[u] \/ m \in Logins)
      BY <2>3, <2>6
    <3>. QED BY <2>1, <3>1, InboxRead
  <2>9. (InChan(u, id)' <=> InChan(u, id)) /\ (TwoInChan(u, id)' <=> TwoInChan(u, id))
    BY <2>1, ChanSame
  <2>10. AtWork(id)' = AtWork(id) /\ TwoAtWork(id)' = TwoAtWork(id) /\ phase' = phase /\ snapshot' = snapshot
    BY <2>1 DEF AtWork, TwoAtWork, JobTok
  <2>11. shown[u] \in BOOLEAN
    BY DEF TypeOK
  <2>. HIDE DEF m
  <2>12. m.kind \notin {"apply", "answer"} \/ m.id # id \/ ~shown[u] => (Held(u, id)' <=> Held(u, id))
    <3>1. CASE m.kind = "login"
      <4>1. Held(u, id)' <=> id \in m.applies
        BY <2>4, <2>6, <2>7, <2>10, <3>1, LivePrimed
      <4>2. Held(u, id) <=> id \in m.applies
        BY <2>3, <2>4, <2>8, <3>1 DEF Held
      <4>. QED BY <4>1, <4>2
    <3>2. ASSUME m.kind # "login", m.kind \notin {"apply", "answer"} \/ m.id # id \/ ~shown[u]
          PROVE  Held(u, id)' <=> Held(u, id)
      <4>1. id \in applies'[u] <=> id \in applies[u]
        BY <2>7, <3>2
      <4>2. shown'[u] = shown[u] /\ (HasLive(inbox'[u], TRUE, Holding(id)) <=> HasLive(inbox[u], TRUE, Holding(id)))
        BY <2>3, <2>6, <2>8, <2>11, <3>2
      <4>. QED BY <2>10, <4>1, <4>2, LivePrimed DEF Held
    <3>. QED BY <3>1, <3>2
  <2>13. CASE m.kind \notin {"apply", "answer"} \/ m.id # id \/ ~shown[u]
    BY <1>3, <2>1, <2>3, <2>8, <2>9, <2>10, <2>12, <2>13
  <2>14. CASE m.kind = "apply" /\ m.id = id /\ shown[u]
    <3>1. Held(u, id)'
      BY <2>6, <2>7, <2>14, LivePrimed
    <3>2. Keeps(u, id)
      BY <2>3, <2>8, <2>9, <2>10, <2>14 DEF Keeps, Single, Under
    <3>3. Gains(u, id) /\ Loses(u, id)
      BY <2>3, <2>8, <2>14, <3>1 DEF Gains, Loses, Reached
    <3>. QED BY <3>2, <3>3
  <2>15. CASE m.kind = "answer" /\ m.id = id /\ shown[u]
    <3>1. Held(u, id)' => Held(u, id)
      BY <2>6, <2>7, <2>8, <2>10, <2>15, LivePrimed DEF Held
    <3>2. Loses(u, id)
      BY <2>5, <2>15 DEF Loses
    <3>. QED BY <1>1, <2>8, <2>9, <3>1, <3>2
  <2>. QED BY <2>13, <2>14, <2>15
<1>10. ASSUME NEW j \in Jobs, AnswerRespond(j), job[j].to = u PROVE Goal
  <2>. DEFINE m == [kind |-> "answer", id |-> job[j].id, yes |-> job[j].yes, uid |-> job[j].from,
                    state |-> job[j].state]
  <2>1. m \in Messages /\ m.kind = "answer"
    BY <1>10, Kinds, AnswerFacts, Sent DEF AnswerRespond, At
  <2>2. Still(u) /\ chan'[u] = chan[u] /\ (inbox' = [inbox EXCEPT ![u] = Append(@, m)] \/ UNCHANGED inbox)
    BY <1>10 DEF AnswerRespond, Still
  <2>3. outdated' = outdated \/ outdated' = [outdated EXCEPT ![u] = @ \cup {"requests", job[j].from}]
    BY <1>10 DEF AnswerRespond
  <2>. HIDE DEF m
  <2>4. ("requests" \notin outdated'[u] => "requests" \notin outdated[u]) /\ phase'[u] = phase[u]
    BY <2>2, <2>3 DEF Still, TypeOK
  <2>5. CASE inbox' = [inbox EXCEPT ![u] = Append(@, m)]
    <3>1. inbox'[u] = Append(inbox[u], m)
      BY <2>5 DEF TypeOK
    <3>. QED BY <1>3, <2>1, <2>2, <2>4, <3>1, OtherMail, ChanSame
  <2>6. CASE UNCHANGED inbox
    <3>1. shown'[u] = shown[u] /\ inbox'[u] = inbox[u]
      BY <2>2, <2>6 DEF Still
    <3>2. Held(u, id)' <=> Held(u, id)
      BY <2>2, <3>1, SameTokens, LivePrimed DEF Held, Still
    <3>. QED BY <1>3, <2>2, <2>4, <3>1, <3>2, SameTokens, ChanSame
  <2>. QED BY <2>2, <2>5, <2>6
<1>. QED BY <1>4, <1>5, <1>6, <1>7, <1>8, <1>9, <1>10, UserSteps

-----------------------------------------------------------------------------
(* An answered request is in a window only as long as its answer is on its way. *)

LEMMA GhostsGrow ==
    ASSUME TypeOK, [Next]_vars, NEW u \in Users
    PROVE  repeated \subseteq repeated' /\ (Login(u) \/ outdated[u] \subseteq outdated'[u])
<1>. USE DEF tables, logging, window, ghosts
<1>. DEFINE Goal == repeated \subseteq repeated' /\ (Login(u) \/ outdated[u] \subseteq outdated'[u])
<1>1. UNCHANGED <<repeated, outdated>> => Goal
  OBVIOUS
<1>2. ASSUME NEW w \in Users, Deliver(w) \/ LoginStep(w) \/ CloseStep(w) \/ ClientRead(w) PROVE Goal
  <2>1. repeated \subseteq repeated'
    BY <1>2 DEF Deliver, LoginStep, Login, LoginFriends, LoginStates, LoginApplies, LoginTell,
         LoginAck,
                CloseStep, Close, CloseRoute, CloseFriends, CloseTell, ClientRead
  <2>2. CASE Login(w)
    <3>1. w = u \/ outdated'[u] = outdated[u]
      BY <2>2 DEF Login, TypeOK
    <3>. QED BY <2>1, <2>2, <3>1
  <2>3. CASE Deliver(w)
    <3>1. outdated' = [outdated EXCEPT ![w] = @ \cup Overtaken(w, Head(chan[w]))]
      BY <2>3 DEF Deliver
    <3>. QED BY <2>1, <3>1 DEF TypeOK
  <2>4. CASE ~Login(w) /\ ~Deliver(w)
    BY <1>2, <2>1, <2>4 DEF LoginStep, LoginFriends, LoginStates, LoginApplies, LoginTell, LoginAck,
                CloseStep, Close, CloseRoute, CloseFriends, CloseTell, ClientRead
  <2>. QED BY <2>2, <2>3, <2>4
<1>3. ASSUME NEW w \in Users, NEW j \in Jobs, ClientRequest(w, j) PROVE Goal
  BY <1>1, <1>3 DEF ClientRequest, ClientApply, ClientAnswer
<1>4. ASSUME NEW j \in Jobs, ApplyStep(j) PROVE Goal
  BY <1>4 DEF ApplyStep, ApplyCheck, ApplySelect, ApplyInsert, ApplyLook, ApplyPublish
<1>5. ASSUME NEW j \in Jobs, AnswerStep(j) PROVE Goal
  <2>1. repeated' = repeated
    BY <1>5 DEF AnswerStep, AnswerUpdate, AnswerBind, Bind, AnswerState, AnswerLook,
         AnswerPublish, AnswerRespond
  <2>2. \/ outdated' = outdated
        \/ \E w, x : outdated' = [outdated EXCEPT ![w] = @ \cup x]
    BY <1>5 DEF AnswerStep, AnswerUpdate, AnswerBind, Bind, AnswerState, AnswerLook,
         AnswerPublish, AnswerRespond
  <2>. QED BY <2>1, <2>2 DEF TypeOK
<1>. QED BY <1>1, <1>2, <1>3, <1>4, <1>5 DEF Next, vars

LEMMA NewRow ==
    ASSUME TypeOK, [Next]_vars, NEW id \in Ids', id \notin Ids
    PROVE  \E j \in Jobs :
              /\ ApplyInsert(j) /\ job[j].op = "apply" /\ Others(j)
              /\ job'[j].op = "apply" /\ job'[j].at = "look" /\ job'[j].id = id
              /\ request'[id].status = "pending" /\ request'[id].to = job[j].to
<1>. USE DEF tables, logging, window, ghosts
<1>1. ~UNCHANGED request
  BY DEF Ids
<1>2. ASSUME NEW j \in Jobs, ApplyInsert(j)
      PROVE  /\ job[j].op = "apply" /\ Others(j)
             /\ job'[j].op = "apply" /\ job'[j].at = "look" /\ job'[j].id = id
             /\ request'[id].status = "pending" /\ request'[id].to = job[j].to
  <2>. DEFINE row == [from |-> job[j].from, to |-> job[j].to, status |-> "pending"]
  <2>1. row \in Rows /\ row.status = "pending" /\ row.to = job[j].to /\ job[j].op = "apply"
    BY <1>2, Kinds, ApplicationFacts DEF Rows, ApplyInsert, At
  <2>2. request' = Append(request, row) /\ job' = [job EXCEPT ![j].at = "look", ![j].id = Len(request')]
    BY <1>1, <1>2 DEF ApplyInsert
  <2>. HIDE DEF row
  <2>3. Others(j) /\ SameTask(j) /\ job'[j].at = "look" /\ job'[j].id = Len(request')
    BY <2>1, <2>2, Named
  <2>4. id = Len(request') /\ request'[id] = row
    BY <2>1, <2>2, Appended
  <2>. QED BY <2>1, <2>3, <2>4 DEF SameTask
<1>3. ASSUME NEW j \in Jobs, AnswerUpdate(j) PROVE FALSE
  <2>1. job[j].op = "answer"
    BY <1>3 DEF AnswerUpdate, At
  <2>2. request' = [request EXCEPT ![job[j].id].status = NewStatus(j)]
    BY <1>1, <1>3 DEF AnswerUpdate
  <2>. QED BY <2>1, <2>2, Updated
<1>4. ASSUME NEW u \in Users, Deliver(u) \/ LoginStep(u) \/ CloseStep(u) \/ ClientRead(u) PROVE FALSE
  BY <1>1, <1>4 DEF Deliver, LoginStep, Login, LoginFriends, LoginStates, LoginApplies, LoginTell,
       LoginAck,
              CloseStep, Close, CloseRoute, CloseFriends, CloseTell, ClientRead
<1>5. ASSUME NEW u \in Users, NEW j \in Jobs, ClientRequest(u, j) PROVE FALSE
  BY <1>1, <1>5 DEF ClientRequest, ClientApply, ClientAnswer
<1>6. ASSUME NEW j \in Jobs, ApplyStep(j) PROVE ApplyInsert(j)
  BY <1>1, <1>6 DEF ApplyStep, ApplyCheck, ApplySelect, ApplyLook, ApplyPublish
<1>7. ASSUME NEW j \in Jobs, AnswerStep(j) PROVE FALSE
  BY <1>1, <1>3, <1>7 DEF AnswerStep, AnswerBind, Bind, AnswerState, AnswerLook, AnswerPublish,
       AnswerRespond
<1>. QED BY <1>1, <1>2, <1>4, <1>5, <1>6, <1>7 DEF Next, vars

\* A new request is with its task and nowhere else.
LEMMA NewToken ==
    ASSUME TypeOK, [Next]_vars, NEW id \in Ids', id \notin Ids, NEW u \in Users
    PROVE  AtWork(id)' /\ Single(u, id)' /\ ~AnswerMade(id)' /\ request'[id].status = "pending"
<1>. USE DEF tables, logging, window, ghosts
<1>1. PICK j \in Jobs :
              /\ ApplyInsert(j) /\ job[j].op = "apply" /\ Others(j)
              /\ job'[j].op = "apply" /\ job'[j].at = "look" /\ job'[j].id = id
              /\ request'[id].status = "pending" /\ request'[id].to = job[j].to
  BY NewRow
<1>2. AtWork(id)'
  BY <1>1 DEF AtWork, JobTok
<1>3. \A i \in Jobs \ {j} : ~JobTok(i, id)'
  <2>. SUFFICES ASSUME NEW i \in Jobs \ {j}, JobTok(i, id)' PROVE FALSE
    OBVIOUS
  <2>1. job[i].op = "apply" /\ job[i].at \in {"look", "publish"} /\ job[i].id = id
    BY <1>1 DEF JobTok, Others
  <2>. QED BY <2>1, Kinds, ApplicationFacts
<1>4. ~TwoAtWork(id)'
  BY <1>3 DEF TwoAtWork
<1>5. UNCHANGED <<chan, inbox, shown, applies, phase, snapshot>>
  BY <1>1 DEF ApplyInsert
<1>6. \A m \in Messages : m \notin Announced(id) /\ m \notin Holding(id)
  BY MessageSets, Received
<1>7. ~InChan(u, id)' /\ ~TwoInChan(u, id)' /\ ~InMail(u, id)' /\ ~TwoInMail(u, id)'
  <2>1. /\ \A k \in DOMAIN chan'[u] : chan'[u][k] \notin Announced(id)
        /\ \A k \in DOMAIN inbox'[u] : inbox'[u][k] \notin Announced(id)
    BY <1>5, <1>6, MailElements
  <2>. QED BY <2>1, LivePrimed DEF HasLive, TwoLive
<1>8. ~Held(u, id)'
  <2>1. \A k \in DOMAIN inbox'[u] : inbox'[u][k] \notin Holding(id)
    BY <1>5, <1>6, MailElements
  <2>2. id \notin applies'[u] /\ id \notin snapshot'[u].applies
    BY <1>5, SnapshotTyped, SnapshotFacts DEF TypeOK
  <2>. QED BY <2>1, <2>2, LivePrimed DEF HasLive
<1>9. ~AnswerMade(id)'
  <2>. SUFFICES ASSUME NEW i \in Jobs, job'[i].op = "answer", job'[i].id = id PROVE FALSE
    BY DEF AnswerMade, Answering
  <2>1. job[i] = job'[i]
    BY <1>1 DEF Others
  <2>. QED BY <2>1, Kinds, AnswerFacts
<1>. QED BY <1>1, <1>2, <1>4, <1>7, <1>8, <1>9 DEF Single

\* The answers that are sent, and those that are read.
LEMMA AnswersInMail ==
    ASSUME TypeOK, [Next]_vars, NEW u \in Users
    PROVE  /\ \A k \in DOMAIN inbox'[u] : inbox'[u][k].kind = "answer" =>
                 \/ \E l \in DOMAIN inbox[u] : inbox[u][l] = inbox'[u][k]
                 \/ \E j \in Jobs : AnswerRespond(j) /\ job[j].to = u /\ inbox'[u][k].id = job[j].id
           /\ \A id : AnswerSent(u, id) =>
                 \/ AnswerSent(u, id)' \/ Close(u)
                 \/ ClientRead(u) /\ Head(inbox[u]).kind = "answer" /\ Head(inbox[u]).id = id
<1>. USE DEF tables, logging, window, ghosts
<1>. DEFINE Old == \A k \in DOMAIN inbox'[u] : inbox'[u][k].kind = "answer" =>
                 \/ \E l \in DOMAIN inbox[u] : inbox[u][l] = inbox'[u][k]
                 \/ \E j \in Jobs : AnswerRespond(j) /\ job[j].to = u /\ inbox'[u][k].id = job[j].id
            Stay == \A id : AnswerSent(u, id) =>
                 \/ AnswerSent(u, id)' \/ Close(u)
                 \/ ClientRead(u) /\ Head(inbox[u]).kind = "answer" /\ Head(inbox[u]).id = id
<1>0. inbox[u] \in Seq(Messages)
  BY DEF TypeOK
<1>1. CASE inbox'[u] = inbox[u]
  BY <1>1 DEF AnswerSent
<1>2. ASSUME NEW m \in Messages, inbox'[u] = Append(inbox[u], m),
             m.kind = "answer" => \E j \in Jobs : AnswerRespond(j) /\ job[j].to = u /\ m.id = job[j].id
      PROVE  Old /\ Stay
  <2>1. Old
    BY <1>0, <1>2, AppendElements
  <2>2. Stay
    BY <1>0, <1>2, AppendElements DEF AnswerSent
  <2>. QED BY <2>1, <2>2
<1>3. CASE Deliver(u)
  <2>1. inbox'[u] = inbox[u] \/ inbox'[u] = Append(inbox[u], Head(chan[u]))
    BY <1>3 DEF Deliver, TypeOK
  <2>2. Head(chan[u]) \in Notifications /\ Head(chan[u]) \in Messages
    BY <1>3, TypedMail, Sent DEF Deliver
  <2>3. Head(chan[u]).kind # "answer"
    BY <2>2 DEF Notifications
  <2>. QED BY <1>1, <1>2, <2>1, <2>2, <2>3
<1>4. CASE LoginStep(u)
  <2>1. CASE LoginAck(u)
    <3>. DEFINE m == [kind |-> "login", list |-> snapshot[u].list, applies |-> snapshot[u].applies]
    <3>1. inbox'[u] = Append(inbox[u], m)
      BY <2>1 DEF LoginAck, TypeOK
    <3>2. m \in Messages /\ m.kind = "login"
      BY Sent, SnapshotTyped, SnapshotFacts
    <3>. HIDE DEF m
    <3>. QED BY <1>2, <3>1, <3>2
  <2>. QED BY <1>1, <1>4, <2>1 DEF LoginStep, Login, LoginFriends, LoginStates, LoginApplies, LoginTell
<1>5. CASE CloseStep(u)
  <2>1. CASE Close(u)
    <3>1. inbox'[u] = <<>>
      BY <2>1 DEF Close, TypeOK
    <3>. QED BY <2>1, <3>1
  <2>. QED BY <1>1, <1>5, <2>1 DEF CloseStep, CloseRoute, CloseFriends, CloseTell
<1>6. CASE ClientRead(u)
  <2>1. /\ inbox[u] # <<>> /\ inbox'[u] = Tail(inbox[u])
    BY <1>6 DEF ClientRead, TypeOK
  <2>2. /\ Head(inbox[u]) = inbox[u][1] /\ Len(inbox[u]) \in Nat \ {0} /\ DOMAIN inbox[u] = 1..Len(inbox[u])
        /\ \A k \in DOMAIN inbox'[u] : k + 1 \in DOMAIN inbox[u] /\ inbox'[u][k] = inbox[u][k + 1]
        /\ \A k \in DOMAIN inbox[u] : k = 1 \/ k - 1 \in DOMAIN inbox'[u]
    BY <1>0, <2>1, TailElements
  <2>3. Old
    BY <2>2
  <2>4. Stay
    <3>. SUFFICES ASSUME NEW id, NEW k \in DOMAIN inbox[u], inbox[u][k].kind = "answer", inbox[u][k].id = id, k # 1
                  PROVE  AnswerSent(u, id)'
      BY <1>6, <2>2 DEF AnswerSent
    <3>1. k \in Nat /\ k - 1 \in DOMAIN inbox'[u] /\ (k - 1) + 1 = k
      BY <2>2
    <3>2. inbox'[u][k - 1] = inbox[u][k]
      BY <2>2, <3>1
    <3>. QED BY <3>1, <3>2 DEF AnswerSent
  <2>. QED BY <2>3, <2>4
<1>7. ASSUME NEW j \in Jobs, AnswerRespond(j), job[j].to = u PROVE Old /\ Stay
  <2>. DEFINE m == [kind |-> "answer", id |-> job[j].id, yes |-> job[j].yes, uid |-> job[j].from,
                    state |-> job[j].state]
  <2>1. m \in Messages /\ m.id = job[j].id
    BY <1>7, Kinds, AnswerFacts, Sent DEF AnswerRespond, At
  <2>2. inbox' = [inbox EXCEPT ![u] = Append(@, m)] \/ UNCHANGED inbox
    BY <1>7 DEF AnswerRespond
  <2>. HIDE DEF m
  <2>3. CASE inbox' = [inbox EXCEPT ![u] = Append(@, m)]
    <3>1. inbox'[u] = Append(inbox[u], m)
      BY <2>3 DEF TypeOK
    <3>. QED BY <1>2, <1>7, <2>1, <3>1
  <2>. QED BY <1>1, <2>2, <2>3
<1>. QED BY <1>1, <1>3, <1>4, <1>5, <1>6, <1>7, UserSteps

\* The three ways a step treats the answers and the rows.
LEMMA AnswerWays ==
    ASSUME TypeOK, [Next]_vars
    PROVE  \/ AnswersSame /\ StatusSame
           \/ \E u \in Users, j \in Jobs : \E id, yes : id \in applies[u] /\ ClientAnswer(u, id, yes, j)
           \/ \E j \in Jobs : AnswerStep(j)
BY NoAnswer DEF ClientAnswer

LEMMA HeldAwake ==
    ASSUME Here', NEW u \in Users, NEW id, Held(u, id)'
    PROVE  phase'[u] \in Awake
<1>1. HereWindow(u)' /\ HereInbox(u)'
  BY DEF Here
<1>2. HasLive(inbox'[u], TRUE, Holding(id)) => \E k \in DOMAIN inbox'[u] : inbox'[u][k].kind = "login"
  BY DEF HasLive, Holding, Logins
<1>. QED BY <1>1, <1>2, LivePrimed DEF HereWindow, HereInbox, Awake

LEMMA AnnouncementsInit == Init => Announcements
<1>. SUFFICES ASSUME Init PROVE Announcements
  OBVIOUS
<1>1. \A u \in Users : phase[u] = "off" /\ inbox[u] = <<>> /\ chan[u] = <<>> /\ ~shown[u]
  BY DEF Init
<1>2. \A j \in Jobs : job[j].op = "none"
  BY NoneTyped DEF Init
<1>3. ASSUME NEW id \in Ids PROVE request[id].status = "pending"
  BY DEF Init, Tables, Ids
<1>4. ASSUME NEW u \in Users, NEW id \in Ids PROVE Reach(u, id) /\ Once(u, id)
  <2>1. ~AtWork(id) /\ ~TwoAtWork(id) /\ ~AnswerMade(id)
    BY <1>2 DEF AtWork, TwoAtWork, JobTok, AnswerMade, Answering
  <2>2. /\ \A sh, M : ~HasLive(inbox[u], sh, M) /\ ~TwoLive(inbox[u], sh, M)
        /\ \A sh, M : ~HasLive(chan[u], sh, M) /\ ~TwoLive(chan[u], sh, M)
    BY <1>1, LiveNone
  <2>3. Single(u, id) /\ ~Held(u, id)
    BY <1>1, <2>1, <2>2 DEF Single, InChan, InMail, TwoInChan, TwoInMail, Held
  <2>. QED BY <1>1, <2>1, <2>3 DEF Reach, Once, Awake
<1>. QED BY <1>1, <1>3, <1>4 DEF Announcements, AnswerMail

\* An answer leaves the tasks as a message, or the window is known to be behind.
LEMMA AnswersStay ==
    ASSUME TypeOK, Addressed, [Next]_vars, NEW u \in Users, NEW id \in Ids, request[id].to = u
    PROVE  /\ AnswerMade(id) => AnswerMade(id)'
           /\ AnswerNear(id) => \/ AnswerNear(id)' \/ AnswerSent(u, id)'
                                \/ "requests" \in outdated'[u]
           /\ request[id].status = "pending" /\ request'[id].status # "pending" =>
                AnswerMade(id)' /\ AnswerNear(id)'
<1>. USE DEF tables, logging, window, ghosts
<1>1. CASE AnswersSame /\ StatusSame
  BY <1>1 DEF AnswersSame, StatusSame, AnswerMade, AnswerNear, Answering
<1>2. ASSUME NEW w \in Users, NEW j \in Jobs, NEW x, NEW yes, x \in applies[w], ClientAnswer(w, x, yes, j)
      PROVE  /\ AnswerMade(id) => AnswerMade(id)'
             /\ AnswerNear(id) => AnswerNear(id)'
             /\ UNCHANGED request
  <2>1. job[j].op = "none" /\ Others(j) /\ UNCHANGED request
    BY <1>2, Asked
  <2>. QED BY <2>1 DEF Others, AnswerMade, AnswerNear, Answering
<1>3. ASSUME NEW j \in Jobs, AnswerStep(j)
      PROVE  /\ AnswerMade(id) => AnswerMade(id)'
             /\ AnswerNear(id) => \/ AnswerNear(id)' \/ AnswerSent(u, id)'
                                  \/ "requests" \in outdated'[u]
             /\ request[id].status = "pending" /\ request'[id].status # "pending" =>
                  AnswerMade(id)' /\ AnswerNear(id)'
  <2>0. job[j].op = "answer" /\ job[j] \in Answers /\ Others(j) /\ SameAnswer(j)
    BY <1>3, AnsweringStep, AnswerOwn, Kinds
  <2>1. \A i \in Jobs : Answering(i, id)' <=> Answering(i, id)
    BY <2>0 DEF Answering, Others, SameAnswer, SameTask
  <2>2. AnswerMade(id) => AnswerMade(id)'
    BY <2>1 DEF AnswerMade
  <2>3. CASE AnswerRespond(j) /\ job[j].id = id
    <3>. DEFINE m == [kind |-> "answer", id |-> job[j].id, yes |-> job[j].yes, uid |-> job[j].from,
                      state |-> job[j].state]
    <3>1. u = job[j].to
      BY <2>0, <2>3, AnswerFacts DEF Addressed, Tasked
    <3>2. UNCHANGED request /\ (\/ inbox' = [inbox EXCEPT ![u] = Append(@, m)]
                                \/ outdated' = [outdated EXCEPT ![u] = @ \cup {"requests", job[j].from}])
      BY <2>3, <3>1 DEF AnswerRespond
    <3>3. m \in Messages /\ m.kind = "answer" /\ m.id = id
      BY <2>0, <2>3, AnswerFacts, Sent
    <3>. HIDE DEF m
    <3>4. CASE inbox' = [inbox EXCEPT ![u] = Append(@, m)]
      <4>1. inbox'[u] = Append(inbox[u], m) /\ inbox[u] \in Seq(Messages)
        BY <3>1, <3>4 DEF TypeOK
      <4>2. AnswerSent(u, id)'
        BY <3>3, <4>1, AppendElements DEF AnswerSent
      <4>. QED BY <2>2, <3>2, <4>2
    <3>5. CASE outdated' = [outdated EXCEPT ![u] = @ \cup {"requests", job[j].from}]
      <4>1. "requests" \in outdated'[u]
        BY <3>1, <3>5 DEF TypeOK
      <4>. QED BY <2>2, <3>2, <4>1
    <3>. QED BY <3>2, <3>4, <3>5
  <2>4. CASE ~(AnswerRespond(j) /\ job[j].id = id)
    <3>1. AnswerNear(id) => AnswerNear(id)'
      <4>. SUFFICES ASSUME NEW i \in Jobs, Answering(i, id), job[i].at \notin {"update", "done"}
                    PROVE  AnswerNear(id)'
        BY DEF AnswerNear
      <4>1. i = j => job'[j].at \notin {"update", "done"}
        BY <1>3, <2>4, AnswerMoves DEF Answering
      <4>2. job'[i].at \notin {"update", "done"}
        BY <2>0, <4>1 DEF Others
      <4>. QED BY <2>1, <4>2 DEF AnswerNear
    <3>2. ASSUME request[id].status = "pending", request'[id].status # "pending"
          PROVE  AnswerMade(id)' /\ AnswerNear(id)'
      <4>1. Wrote(j) /\ job'[j].at \in {"bind", "respond"}
        <5>1. AnswerUpdate(j) /\ job[j].at = "update"
          BY <1>3, <3>2, AnswerMoves DEF AnswerUpdate, At
        <5>. QED BY <1>3, <3>2, <5>1, AnswerMoves
      <4>2. job[j].id = id
        BY <2>0, <3>2, <4>1, Updated DEF Wrote
      <4>. QED BY <2>0, <2>1, <4>1, <4>2 DEF AnswerMade, AnswerNear, Answering
    <3>. QED BY <2>2, <3>1, <3>2
  <2>. QED BY <2>3, <2>4
<1>. QED BY <1>1, <1>2, <1>3, AnswerWays

\* A request is answered from the window that holds it.
LEMMA AnsweredHeld ==
    ASSUME TypeOK, Addressed, [Next]_vars, NEW u \in Users, NEW id \in Ids, request[id].to = u,
           AnswerMade(id)'
    PROVE  AnswerMade(id) \/ Held(u, id)
<1>. USE DEF tables, logging, window, ghosts
<1>1. CASE AnswersSame /\ StatusSame
  BY <1>1 DEF AnswersSame, AnswerMade, Answering
<1>2. ASSUME NEW w \in Users, NEW j \in Jobs, NEW x, NEW yes, x \in applies[w], ClientAnswer(w, x, yes, j)
      PROVE  AnswerMade(id) \/ Held(u, id)
  <2>1. Others(j) /\ job'[j].id = x /\ shown[w]
    BY <1>2, Asked
  <2>2. CASE x = id
    <3>1. w = u
      BY <1>2, <2>2 DEF Addressed, Mine
    <3>. QED BY <1>2, <2>1, <2>2, <3>1 DEF Held
  <2>3. CASE x # id
    BY <2>1, <2>3 DEF AnswerMade, Answering, Others
  <2>. QED BY <2>2, <2>3
<1>3. ASSUME NEW j \in Jobs, AnswerStep(j) PROVE AnswerMade(id)
  BY <1>3, AnsweringStep, AnswerOwn DEF AnswerMade, Answering, Others, SameAnswer, SameTask
<1>. QED BY <1>1, <1>2, <1>3, AnswerWays

LEMMA AnnouncementsNext ==
    TypeOK /\ Addressed /\ Answered /\ Here /\ Announcements /\ [Next]_vars => Announcements'
<1>. SUFFICES ASSUME TypeOK, Addressed, Answered, Here, Announcements, [Next]_vars PROVE Announcements'
  OBVIOUS
<1>. USE DEF tables, logging, window, ghosts
<1>0. RowsKeep /\ TypeOK' /\ Here'
  BY RowsKept, TypeNext, HereNext
<1>1. ASSUME NEW id \in Ids', request'[id].status # "pending" PROVE AnswerMade(id)'
  <2>1. CASE id \in Ids
    <3>1. request[id].to \in Users
      <4>1. request[id] \in Rows
        BY <2>1 DEF TypeOK, Ids
      <4>. QED BY <4>1 DEF Rows
    <3>. QED BY <1>1, <2>1, <3>1, AnswersStay DEF Announcements
  <2>2. CASE id \notin Ids
    BY <1>1, <2>2, NewRow
  <2>. QED BY <2>1, <2>2
<1>2. ASSUME NEW u \in Users PROVE AnswerMail(u)'
  <2>. SUFFICES ASSUME NEW k \in DOMAIN inbox'[u], inbox'[u][k].kind = "answer"
                PROVE  request'[inbox'[u][k].id].status # "pending"
    BY DEF AnswerMail
  <2>1. ASSUME NEW l \in DOMAIN inbox[u], inbox[u][l] = inbox'[u][k]
        PROVE  inbox'[u][k].id \in Ids /\ request[inbox'[u][k].id].status # "pending"
    BY <2>1, MailElements, Received DEF Announcements, AnswerMail
  <2>2. ASSUME NEW j \in Jobs, AnswerRespond(j), inbox'[u][k].id = job[j].id
        PROVE  inbox'[u][k].id \in Ids /\ request[inbox'[u][k].id].status # "pending"
    BY <2>2, Kinds, AnswerFacts DEF AnswerRespond, At, Answered, AnswerFits
  <2>3. inbox'[u][k].id \in Ids /\ request[inbox'[u][k].id].status # "pending"
    BY <2>1, <2>2, AnswersInMail
  <2>. QED BY <1>0, <2>3 DEF RowsKeep
<1>3. ASSUME NEW u \in Users, NEW id \in Ids', id \notin Ids PROVE Reach(u, id)' /\ Once(u, id)'
  BY <1>3, NewToken DEF Reach, Reached, Under, Once
<1>4. ASSUME NEW u \in Users, NEW id \in Ids PROVE Reach(u, id)' /\ Once(u, id)'
  <2>0. id \in Ids' /\ request'[id].to = request[id].to
    BY <1>0 DEF RowsKeep
  <2>1. CASE request[id].to # u
    BY <2>0, <2>1 DEF Reach, Once
  <2>2. CASE request[id].to = u
    <3>0. Reach(u, id) /\ Once(u, id) /\ AnswerMail(u)
      BY DEF Announcements
    <3>1. Keeps(u, id) /\ Gains(u, id) /\ Loses(u, id)
      BY <2>2, <3>0, TokenStep
    <3>2. Reach(u, id)'
      <4>1. request'[id].status = "pending" => request[id].status = "pending"
        BY <1>0 DEF RowsKeep
      <4>. QED BY <2>2, <3>0, <3>1, <4>1 DEF Reach, Loses
    <3>3. Once(u, id)'
      <4>. SUFFICES ASSUME id \notin repeated'
                    PROVE  /\ Single(u, id)'
                           /\ AnswerMade(id)' => ~Under(u, id)'
                           /\ request'[id].status # "pending" /\ "requests" \notin outdated'[u] /\ Held(u, id)' =>
                                 AnswerNear(id)' \/ AnswerSent(u, id)'
        BY DEF Once
      <4>1. id \notin repeated
        BY GhostsGrow
      <4>2. /\ Single(u, id) /\ (AnswerMade(id) => ~Under(u, id))
            /\ request[id].status # "pending" /\ "requests" \notin outdated[u] /\ Held(u, id) =>
                  AnswerNear(id) \/ AnswerSent(u, id)
        BY <2>2, <3>0, <4>1 DEF Once
      <4>3. Single(u, id)' /\ (Under(u, id)' => Under(u, id))
        BY <3>1, <4>2 DEF Keeps
      <4>4. AnswerMade(id)' => ~Under(u, id)'
        <5>1. AnswerMade(id)' => AnswerMade(id) \/ Held(u, id)
          BY <2>2, AnsweredHeld
        <5>2. Held(u, id) => ~Under(u, id)
          BY <4>2 DEF Single, Under
        <5>. QED BY <4>2, <4>3, <5>1, <5>2
      <4>5. ASSUME request'[id].status # "pending", "requests" \notin outdated'[u], Held(u, id)'
            PROVE  AnswerNear(id)' \/ AnswerSent(u, id)'
        <5>1. CASE request[id].status = "pending"
          BY <2>2, <4>5, <5>1, AnswersStay
        <5>2. CASE request[id].status # "pending"
          <6>1. phase'[u] \in Awake
            BY <1>0, <4>5, HeldAwake
          <6>2. "requests" \notin outdated[u]
            <7>1. ~Login(u)
              BY <6>1 DEF Login, Awake, TypeOK
            <7>. QED BY <4>5, <7>1, GhostsGrow
          <6>3. Held(u, id)
            <7>1. AnswerMade(id)
              BY <5>2 DEF Announcements
            <7>2. ~InMail(u, id)
              BY <4>2, <7>1 DEF Under
            <7>. QED BY <3>1, <4>5, <5>2, <7>2 DEF Gains
          <6>4. AnswerNear(id) \/ AnswerSent(u, id)
            BY <4>2, <5>2, <6>2, <6>3
          <6>5. CASE AnswerNear(id)
            BY <2>2, <4>5, <6>5, AnswersStay
          <6>6. CASE AnswerSent(u, id)
            <7>1. ~Close(u)
              BY <6>1 DEF Close, Awake, TypeOK
            <7>2. ~(ClientRead(u) /\ Head(inbox[u]).kind = "answer" /\ Head(inbox[u]).id = id)
              <8>. SUFFICES ASSUME ClientRead(u), Head(inbox[u]).kind = "answer", Head(inbox[u]).id = id
                            PROVE  ~Held(u, id)'
                BY <4>5
              <8>1. /\ inbox[u] # <<>> /\ Head(inbox[u]) \in Messages
                    /\ UNCHANGED phase
                    /\ \/ shown[u] /\ ProcessFriendResult(u, Head(inbox[u]))
                       \/ ~shown[u] /\ UNCHANGED window
                BY WindowRead
              <8>2. shown[u]
                <9>1. 1 \in DOMAIN inbox[u] /\ Head(inbox[u]) = inbox[u][1]
                  BY <8>1, TypedMail, TailElements
                <9>. QED BY <9>1 DEF Here, HereInbox
              <8>3. id \notin applies'[u] /\ shown'[u]
                BY <8>1, <8>2 DEF ProcessFriendResult, LeftAfter, TypeOK
              <8>4. phase'[u] = "on"
                BY <8>1, <8>2 DEF Here, HereWindow
              <8>5. ~HasLive(inbox'[u], TRUE, Holding(id))
                <9>1. \A k \in DOMAIN inbox'[u] : inbox'[u][k].kind # "login"
                  BY <1>0, <8>3 DEF Here, HereInbox
                <9>. QED BY <9>1 DEF HasLive, Holding, Logins
              <8>. QED BY <8>3, <8>4, <8>5, LivePrimed
            <7>. QED BY <6>6, <7>1, <7>2, AnswersInMail
          <6>. QED BY <6>4, <6>5, <6>6
        <5>. QED BY <5>1, <5>2
      <4>. QED BY <4>3, <4>4, <4>5
    <3>. QED BY <3>2, <3>3
  <2>. QED BY <2>1, <2>2
<1>. QED BY <1>1, <1>2, <1>3, <1>4 DEF Announcements

LEMMA AnnouncedShown == TypeOK /\ Addressed /\ Announcements => AppliesShown
<1>. SUFFICES ASSUME TypeOK, Addressed, Announcements, NEW u \in Users, Quiet(u), "requests" \notin outdated[u]
              PROVE  PendingTo(u) \subseteq applies[u] /\ applies[u] \ PendingTo(u) \subseteq repeated
  BY DEF AppliesShown
<1>1. /\ shown[u] /\ phase[u] = "on" /\ chan[u] = <<>> /\ inbox[u] = <<>>
      /\ \A j \in Jobs : job[j].at = "done"
  BY DEF Quiet, Active
<1>2. /\ \A sh, M : ~HasLive(inbox[u], sh, M)
      /\ \A sh, M : ~HasLive(chan[u], sh, M)
  BY <1>1, LiveNone
<1>3. \A id : ~Under(u, id) /\ ~AnswerNear(id) /\ ~AnswerSent(u, id)
  <2>1. \A id : ~AtWork(id) /\ ~AnswerNear(id)
    BY <1>1 DEF AtWork, JobTok, AnswerNear
  <2>2. \A id : ~InChan(u, id) /\ ~InMail(u, id)
    BY <1>2 DEF InChan, InMail
  <2>3. \A id : ~AnswerSent(u, id)
    BY <1>1 DEF AnswerSent
  <2>. QED BY <2>1, <2>2, <2>3 DEF Under
<1>4. \A id : Held(u, id) <=> id \in applies[u]
  BY <1>1, <1>2 DEF Held
<1>5. ASSUME NEW id \in PendingTo(u) PROVE id \in applies[u]
  <2>1. id \in Ids /\ request[id].to = u /\ request[id].status = "pending"
    BY DEF PendingTo, Ids
  <2>2. Reached(u, id)
    BY <1>1, <2>1 DEF Announcements, Reach, Awake
  <2>. QED BY <1>3, <1>4, <2>2 DEF Reached
<1>6. ASSUME NEW id \in applies[u], id \notin PendingTo(u), id \notin repeated PROVE FALSE
  <2>1. id \in Ids /\ request[id].to = u
    BY DEF TypeOK, Addressed, Mine
  <2>2. request[id].status # "pending"
    BY <1>6, <2>1 DEF PendingTo, Ids
  <2>. QED BY <1>3, <1>4, <1>6, <2>1, <2>2 DEF Announcements, Once
<1>. QED BY <1>5, <1>6

-----------------------------------------------------------------------------
(* What is said of a user v on the way to a window, and what reading it does to
   the state of v there. The last that is said counts. *)

\* The messages that say what v is, by kind.
Statuses(v) == [kind : {"status"}, uid : {v}, state : States]
Bounds(v) == [kind : {"bound"}, uid : {v}]
Accepts(v) ==
    {m \in [kind : {"answer"}, id : Nat, yes : BOOLEAN, uid : {v}, state : States] : m.yes}
\* What puts v in the list.
Setters(v) == Bounds(v) \cup Accepts(v)
Says(v) == Statuses(v) \cup Setters(v)
\* The lists that have v, what the window takes the state of v from, and that state.
Listing(v) == {m \in Logins : m.list[v] # "none"}
Counts(v) == Says(v) \cup Logins
Value(m, v) == IF m.kind = "login" THEN m.list[v] ELSE IF m.kind = "bound" THEN "online" ELSE m.state

LEMMA ListSets ==
    ASSUME NEW m \in Messages, NEW v \in Users
    PROVE  /\ m \in Statuses(v) <=> m.kind = "status" /\ m.uid = v
           /\ m \in Bounds(v) <=> m.kind = "bound" /\ m.uid = v
           /\ m \in Accepts(v) <=> m.kind = "answer" /\ m.uid = v /\ m.yes
           /\ m \in Logins <=> m.kind = "login"
           /\ m \in Listing(v) <=> m.kind = "login" /\ m.list[v] # "none"
<1>1. m \in Statuses(v) <=> m.kind = "status" /\ m.uid = v
  BY DEF Messages, Notifications, Statuses
<1>2. m \in Bounds(v) <=> m.kind = "bound" /\ m.uid = v
  BY DEF Messages, Notifications, Bounds
<1>3. m \in Accepts(v) <=> m.kind = "answer" /\ m.uid = v /\ m.yes
  <2>1. m \in [kind : {"answer"}, id : Nat, yes : BOOLEAN, uid : {v}, state : States] <=>
          m.kind = "answer" /\ m.uid = v
    BY DEF Messages, Notifications, Ids
  <2>. QED BY <2>1 DEF Accepts
<1>4. m \in Logins <=> m.kind = "login"
  BY MessageSets
<1>5. m \in Listing(v) <=> m.kind = "login" /\ m.list[v] # "none"
  BY <1>4 DEF Listing
<1>. QED BY <1>1, <1>2, <1>3, <1>4, <1>5

\* What reading the next message does to the state of v in the list.
LEMMA ListRead ==
    ASSUME TypeOK, NEW u \in Users, NEW v \in Users, ClientRead(u)
    PROVE  LET m == Head(inbox[u]) IN
           /\ m \in Logins => shown'[u] /\ list'[u][v] = m.list[v]
           /\ m \notin Logins => shown'[u] = shown[u]
           /\ shown[u] /\ m \in Bounds(v) => list'[u][v] = "online"
           /\ shown[u] /\ m \in Accepts(v) => list'[u][v] = m.state
           /\ shown[u] /\ m \in Statuses(v) =>
                list'[u][v] = IF list[u][v] = "none" THEN "none" ELSE m.state
           /\ m \notin Logins /\ (~shown[u] \/ m \notin Says(v)) => list'[u][v] = list[u][v]
<1>. DEFINE m == Head(inbox[u])
            Claim == /\ m \in Logins => shown'[u] /\ list'[u][v] = m.list[v]
                     /\ m \notin Logins => shown'[u] = shown[u]
                     /\ shown[u] /\ m \in Bounds(v) => list'[u][v] = "online"
                     /\ shown[u] /\ m \in Accepts(v) => list'[u][v] = m.state
                     /\ shown[u] /\ m \in Statuses(v) =>
                          list'[u][v] = IF list[u][v] = "none" THEN "none" ELSE m.state
                     /\ m \notin Logins /\ (~shown[u] \/ m \notin Says(v)) => list'[u][v] = list[u][v]
<1>. SUFFICES Claim
  OBVIOUS
<1>1. /\ m \in Messages
      /\ \/ m.kind = "login" /\ SocialDataLoaded(u, m)
         \/ m.kind = "apply" /\ shown[u] /\ FriendRequestReceived(u, m)
         \/ m.kind = "answer" /\ shown[u] /\ ProcessFriendResult(u, m)
         \/ m.kind = "bound" /\ shown[u] /\ FriendBindSuccess(u, m)
         \/ m.kind = "status" /\ shown[u] /\ FriendStatusChanged(u, m)
         \/ m.kind # "login" /\ ~shown[u] /\ UNCHANGED window
  BY WindowRead
<1>2. list[u] \in [Users -> States] /\ list \in [Users -> [Users -> States]] /\ shown \in [Users -> BOOLEAN]
  BY DEF TypeOK
<1>. HIDE DEF m
<1>3. \A w, s : Show(u, w, s) => list'[u][v] = IF w = v THEN s ELSE list[u][v]
  BY <1>2 DEF Show
<1>4. CASE m.kind = "login" /\ SocialDataLoaded(u, m)
  BY <1>1, <1>2, <1>4, ListSets DEF SocialDataLoaded
<1>5. CASE m.kind = "apply" /\ shown[u] /\ FriendRequestReceived(u, m)
  BY <1>1, <1>5, ListSets DEF FriendRequestReceived
<1>6. CASE m.kind = "answer" /\ shown[u] /\ ProcessFriendResult(u, m)
  <2>1. shown' = shown /\ list'[u][v] = IF m.yes /\ m.uid = v THEN m.state ELSE list[u][v]
    BY <1>1, <1>3, <1>6, Received DEF ProcessFriendResult
  <2>. QED BY <1>1, <1>6, <2>1, ListSets DEF Says, Setters
<1>7. CASE m.kind = "bound" /\ shown[u] /\ FriendBindSuccess(u, m)
  <2>1. shown' = shown /\ list'[u][v] = IF m.uid = v THEN "online" ELSE list[u][v]
    BY <1>3, <1>7 DEF FriendBindSuccess
  <2>. QED BY <1>1, <1>7, <2>1, ListSets DEF Says, Setters
<1>8. CASE m.kind = "status" /\ shown[u] /\ FriendStatusChanged(u, m)
  <2>1. shown' = shown /\ \/ list[u][m.uid] = "none" /\ list' = list
                          \/ /\ list[u][m.uid] # "none"
                             /\ list'[u][v] = IF m.uid = v THEN m.state ELSE list[u][v]
    BY <1>3, <1>8 DEF FriendStatusChanged
  <2>. QED BY <1>1, <1>8, <2>1, ListSets DEF Says, Setters
<1>9. CASE m.kind # "login" /\ ~shown[u] /\ UNCHANGED window
  BY <1>1, <1>9, ListSets DEF window
<1>. QED BY <1>1, <1>4, <1>5, <1>6, <1>7, <1>8, <1>9

\* The last of s that is in M, if there is one, is in G.
LastIn(s, M, G) ==
    \A k \in DOMAIN s : s[k] \in M /\ (\A l \in DOMAIN s : k < l => s[l] \notin M) => s[k] \in G

LEMMA LastAppend ==
    ASSUME NEW S, NEW s \in Seq(S), NEW m \in S, NEW M, NEW G
    PROVE  LastIn(Append(s, m), M, G) <=> IF m \in M THEN m \in G ELSE LastIn(s, M, G)
<1>. DEFINE t == Append(s, m)
            n == Len(s) + 1
<1>1. /\ Len(s) \in Nat /\ DOMAIN s = 1..Len(s) /\ DOMAIN t = DOMAIN s \cup {n} /\ n \notin DOMAIN s
      /\ t[n] = m /\ \A k \in DOMAIN s : t[k] = s[k]
  BY AppendElements
<1>. HIDE DEF t, n
<1>2. n \in Nat /\ \A k \in DOMAIN s : k < n /\ ~(n < k)
  BY <1>1 DEF n
<1>3. ~(n < n)
  BY <1>2
<1>4. CASE m \in M
  BY <1>1, <1>2, <1>3, <1>4 DEF LastIn, t
<1>5. CASE m \notin M
  <2>1. \A k \in DOMAIN s : (\A l \in DOMAIN t : k < l => t[l] \notin M) <=>
                            (\A l \in DOMAIN s : k < l => s[l] \notin M)
    BY <1>1, <1>5
  <2>. QED BY <1>1, <1>5, <2>1 DEF LastIn, t
<1>. QED BY <1>4, <1>5

LEMMA LastTail ==
    ASSUME NEW S, NEW s \in Seq(S), s # <<>>, NEW M, NEW G
    PROVE  /\ HasLive(Tail(s), TRUE, M) => (LastIn(s, M, G) <=> LastIn(Tail(s), M, G))
           /\ ~HasLive(Tail(s), TRUE, M) => /\ LastIn(s, M, G) <=> (Head(s) \in M => Head(s) \in G)
                                            /\ LastIn(Tail(s), M, G)
<1>. DEFINE t == Tail(s)
            m == Head(s)
<1>1. /\ Len(s) \in Nat \ {0} /\ DOMAIN s = 1..Len(s) /\ DOMAIN t = 1..(Len(s) - 1) /\ m = s[1]
      /\ 1 \in DOMAIN s
      /\ \A k \in DOMAIN t : k + 1 \in DOMAIN s /\ t[k] = s[k + 1]
      /\ \A k \in DOMAIN s : k = 1 \/ k - 1 \in DOMAIN t
  BY TailElements
<1>. HIDE DEF t, m
<1>2. \A k \in DOMAIN s \ {1} : k \in Nat /\ k - 1 \in DOMAIN t /\ (k - 1) + 1 = k /\ 1 < k
  BY <1>1
<1>3. \A k \in DOMAIN s \ {1} : t[k - 1] = s[k]
  <2>. SUFFICES ASSUME NEW k \in DOMAIN s \ {1} PROVE t[k - 1] = s[k]
    OBVIOUS
  <2>1. t[k - 1] = s[(k - 1) + 1] /\ (k - 1) + 1 = k
    BY <1>1, <1>2
  <2>. QED BY <2>1
<1>4. \A k \in DOMAIN t : k \in Nat /\ 1 < k + 1 /\ k + 1 # 1
  BY <1>1
<1>5. \A k, l \in DOMAIN t : k < l <=> k + 1 < l + 1
  BY <1>1
<1>6. \A k, l \in DOMAIN s \ {1} : k < l <=> k - 1 < l - 1
  BY <1>1
<1>7. HasLive(t, TRUE, M) <=> \E k \in DOMAIN t : t[k] \in M
  BY DEF HasLive, LiveAt
\* The last one of the tail is the last one.
<1>8. ASSUME NEW k \in DOMAIN t
      PROVE  (\A l \in DOMAIN t : k < l => t[l] \notin M) <=>
             (\A l \in DOMAIN s : k + 1 < l => s[l] \notin M)
  <2>1. ASSUME NEW l \in DOMAIN s, k + 1 < l PROVE l - 1 \in DOMAIN t /\ k < l - 1 /\ t[l - 1] = s[l]
    BY <1>1, <1>2, <1>3, <1>4, <2>1
  <2>2. ASSUME NEW l \in DOMAIN t, k < l PROVE l + 1 \in DOMAIN s /\ k + 1 < l + 1 /\ t[l] = s[l + 1]
    BY <1>1, <1>5, <2>2
  <2>3. ASSUME \A l \in DOMAIN t : k < l => t[l] \notin M, NEW l \in DOMAIN s, k + 1 < l PROVE s[l] \notin M
    BY <2>1, <2>3
  <2>4. ASSUME \A l \in DOMAIN s : k + 1 < l => s[l] \notin M, NEW l \in DOMAIN t, k < l PROVE t[l] \notin M
    BY <2>2, <2>4
  <2>. QED BY <2>3, <2>4
<1>9. CASE \E k \in DOMAIN t : t[k] \in M
  <2>1. \E l \in DOMAIN s : 1 < l /\ s[l] \in M
    BY <1>1, <1>4, <1>9
  <2>2. ASSUME LastIn(s, M, G) PROVE LastIn(t, M, G)
    <3>. SUFFICES ASSUME NEW k \in DOMAIN t, t[k] \in M, \A l \in DOMAIN t : k < l => t[l] \notin M
                  PROVE  t[k] \in G
      BY DEF LastIn
    <3>1. k + 1 \in DOMAIN s /\ s[k + 1] = t[k] /\ \A l \in DOMAIN s : k + 1 < l => s[l] \notin M
      BY <1>1, <1>8
    <3>. QED BY <2>2, <3>1 DEF LastIn
  <2>3. ASSUME LastIn(t, M, G) PROVE LastIn(s, M, G)
    <3>. SUFFICES ASSUME NEW k \in DOMAIN s, s[k] \in M, \A l \in DOMAIN s : k < l => s[l] \notin M
                  PROVE  s[k] \in G
      BY DEF LastIn
    <3>1. k # 1
      BY <2>1
    <3>2. k - 1 \in DOMAIN t /\ t[k - 1] = s[k] /\ (k - 1) + 1 = k
      BY <1>2, <1>3, <3>1
    <3>3. \A l \in DOMAIN t : k - 1 < l => t[l] \notin M
      BY <1>8, <3>2
    <3>. QED BY <2>3, <3>2, <3>3 DEF LastIn
  <2>. QED BY <1>7, <1>9, <2>2, <2>3 DEF t
<1>10. CASE ~ \E k \in DOMAIN t : t[k] \in M
  <2>1. \A l \in DOMAIN s : l # 1 => s[l] \notin M
    BY <1>2, <1>3, <1>10
  <2>2. \A l \in DOMAIN s : 1 < l => l # 1
    BY <1>1
  <2>3. LastIn(s, M, G) <=> (m \in M => m \in G)
    BY <1>1, <2>1, <2>2 DEF LastIn
  <2>4. LastIn(t, M, G)
    BY <1>10 DEF LastIn
  <2>. QED BY <1>7, <1>10, <2>3, <2>4 DEF t, m
<1>. QED BY <1>9, <1>10

LEMMA LastMore ==
    ASSUME NEW s, NEW M, NEW G, NEW H, LastIn(s, M, G), G \subseteq H
    PROVE  LastIn(s, M, H)
BY DEF LastIn

LEMMA LastNone == ASSUME NEW s, NEW M, NEW G, ~HasLive(s, TRUE, M) PROVE LastIn(s, M, G)
BY DEF LastIn, HasLive, LiveAt

LEMMA LastTaken ==
    ASSUME NEW S, NEW s \in Seq(S), s # <<>>, NEW h, h = Head(s), NEW t, t = Tail(s), NEW M, NEW G
    PROVE  /\ HasLive(t, TRUE, M) => (LastIn(s, M, G) <=> LastIn(t, M, G))
           /\ ~HasLive(t, TRUE, M) => LastIn(t, M, G) /\ (LastIn(s, M, G) <=> (h \in M => h \in G))
BY LastTail

LEMMA SeqMono == ASSUME NEW S, NEW R, S \subseteq R, NEW s \in Seq(S) PROVE s \in Seq(R)
<1>1. Len(s) \in Nat /\ s \in [1..Len(s) -> R]
  BY LenProperties, ElementOfSeq
<1>. QED BY <1>1

\* A task that answers is a new one, or goes on by its own step.
LEMMA TaskMoves ==
    ASSUME TypeOK, [Next]_vars, NEW i \in Jobs
    PROVE  /\ job[i].op = "answer" => job'[i] = job[i] \/ AnswerStep(i)
           /\ job'[i].op = "answer" => \/ job'[i] = job[i]
                                       \/ job[i].op = "answer" /\ AnswerStep(i)
                                       \/ job[i].op # "answer" /\ job'[i].at = "update"
<1>1. CASE /\ \A j \in Jobs : ~AnswerStep(j)
           /\ \A u \in Users, j \in Jobs : \A id, yes : ~(id \in applies[u] /\ ClientAnswer(u, id, yes, j))
  <2>1. AnswersSame
    BY <1>1, NoAnswer DEF ClientAnswer
  <2>. QED BY <2>1 DEF AnswersSame
<1>2. ASSUME NEW u \in Users, NEW id, NEW yes, NEW j \in Jobs, id \in applies[u], ClientAnswer(u, id, yes, j)
      PROVE  /\ job[i].op = "answer" => job'[i] = job[i] \/ AnswerStep(i)
             /\ job'[i].op = "answer" => \/ job'[i] = job[i]
                                         \/ job[i].op = "answer" /\ AnswerStep(i)
                                         \/ job[i].op # "answer" /\ job'[i].at = "update"
  <2>1. job[j].op = "none" /\ Others(j) /\ job'[j].op = "answer" /\ job'[j].at = "update"
    BY <1>2, Asked
  <2>. QED BY <2>1 DEF Others
<1>3. ASSUME NEW j \in Jobs, AnswerStep(j)
      PROVE  /\ job[i].op = "answer" => job'[i] = job[i] \/ AnswerStep(i)
             /\ job'[i].op = "answer" => \/ job'[i] = job[i]
                                         \/ job[i].op = "answer" /\ AnswerStep(i)
                                         \/ job[i].op # "answer" /\ job'[i].at = "update"
  BY <1>3, AnswerOwn, AnsweringStep DEF Others
<1>. QED BY <1>1, <1>2, <1>3

\* Friendships are only made, and by a task that answers.
LEMMA FriendsGrow ==
    ASSUME TypeOK, [Next]_vars
    PROVE  /\ friend \subseteq friend' /\ (~broken' => ~broken)
           /\ \A u, v \in Users : <<u, v>> \in friend' =>
                \/ <<u, v>> \in friend
                \/ \E j \in Jobs : /\ AnswerStep(j) /\ job[j].from = u /\ job[j].to = v
                                   /\ job[j].at = "bind" /\ job'[j].at = "bindBack"
                \/ \E j \in Jobs : /\ AnswerStep(j) /\ job[j].to = u /\ job[j].from = v
                                   /\ job[j].at = "bindBack" /\ job'[j].at = "state"
<1>1. CASE UNCHANGED <<friend, broken>>
  BY <1>1
<1>2. ASSUME NEW j \in Jobs, AnswerBind(j) PROVE friend \subseteq friend' /\ (~broken' => ~broken)
  BY <1>2 DEF AnswerBind, Bind
<1>3. ASSUME NEW j \in Jobs, AnswerBind(j), NEW u \in Users, NEW v \in Users, <<u, v>> \in friend', <<u, v>> \notin friend
      PROVE  \/ /\ AnswerStep(j) /\ job[j].from = u /\ job[j].to = v
                /\ job[j].at = "bind" /\ job'[j].at = "bindBack"
             \/ /\ AnswerStep(j) /\ job[j].to = u /\ job[j].from = v
                /\ job[j].at = "bindBack" /\ job'[j].at = "state"
  <2>0. AnswerStep(j) /\ job[j].op = "answer"
    BY <1>3 DEF AnswerStep, AnswerBind, Bind, At
  <2>1. CASE Bind(j, "bind", <<job[j].from, job[j].to>>, "bindBack")
    <3>1. job[j].at = "bind" /\ Goes(j, "bindBack") /\ <<u, v>> = <<job[j].from, job[j].to>>
      BY <1>3, <2>1 DEF Bind, At
    <3>. QED BY <2>0, <3>1, AnswerGoes DEF AnswerAts
  <2>2. CASE Bind(j, "bindBack", SecondRow(j), "state")
    <3>1. job[j].at = "bindBack" /\ Goes(j, "state") /\ <<u, v>> = <<job[j].to, job[j].from>>
      BY <1>3, <2>2 DEF Bind, At, SecondRow
    <3>. QED BY <2>0, <3>1, AnswerGoes DEF AnswerAts
  <2>. QED BY <1>3, <2>1, <2>2 DEF AnswerBind
<1>4. ASSUME NEW j \in Jobs, AnswerStep(j) PROVE AnswerBind(j) \/ UNCHANGED <<friend, broken>>
  BY <1>4 DEF AnswerStep, AnswerUpdate, AnswerState, AnswerLook, AnswerPublish, AnswerRespond, tables, ghosts
<1>5. CASE /\ \A j \in Jobs : ~AnswerStep(j)
           /\ \A u \in Users, j \in Jobs : \A id, yes : ~(id \in applies[u] /\ ClientAnswer(u, id, yes, j))
  BY <1>1, <1>5, NoAnswer DEF ClientAnswer
<1>6. ASSUME NEW u \in Users, NEW id, NEW yes, NEW j \in Jobs, id \in applies[u], ClientAnswer(u, id, yes, j)
      PROVE  UNCHANGED <<friend, broken>>
  BY <1>6, Asked
<1>. QED BY <1>1, <1>2, <1>3, <1>4, <1>5, <1>6

\* What is published to u.
StatusFrom(w, s) == [kind |-> "status", uid |-> w, state |-> s]
LEMMA ToldTo ==
    ASSUME TypeOK, NEW u \in Users, NEW w \in Users, LoginTell(w) \/ CloseTell(w)
    PROVE  LET m == StatusFrom(w, IF LoginTell(w) THEN "online" ELSE "offline") IN
           /\ m \in Notifications /\ m.kind = "status" /\ m.uid = w
           /\ m.state = IF LoginTell(w) THEN "online" ELSE "offline"
           /\ \/ chan'[u] = chan[u]
              \/ /\ chan'[u] = Append(chan[u], m)
                 /\ IF LoginTell(w) THEN u \in snapshot[w].friends ELSE u \in farewell[w]
           /\ (IF LoginTell(w) THEN u \in snapshot[w].friends ELSE u \in farewell[w]) =>
                 u \notin route \/ u \notin Subscribed \/ chan'[u] = Append(chan[u], m)
<1>. DEFINE s == IF LoginTell(w) THEN "online" ELSE "offline"
            m == StatusFrom(w, s)
            us == (IF LoginTell(w) THEN snapshot[w].friends ELSE farewell[w]) \cap route
<1>1. m \in Notifications /\ m.kind = "status" /\ m.uid = w /\ m.state = s
  BY Sent DEF StatusFrom, States
<1>2. chan' = Published(us, m)
  BY DEF LoginTell, CloseTell, Particulars, StatusFrom
<1>3. u \in us <=> u \in route /\ IF LoginTell(w) THEN u \in snapshot[w].friends ELSE u \in farewell[w]
  OBVIOUS
<1>. HIDE DEF m, us
<1>4. chan'[u] = IF u \in us /\ u \in Subscribed THEN Append(chan[u], m) ELSE chan[u]
  BY <1>1, <1>2, ChanSent
<1>. QED BY <1>1, <1>3, <1>4 DEF m

LEMMA BoundTo ==
    ASSUME TypeOK, NEW u \in Users, NEW j \in Jobs, AnswerPublish(j)
    PROVE  LET m == [kind |-> "bound", uid |-> job[j].to] IN
           /\ m \in Notifications /\ m.kind = "bound" /\ m.uid = job[j].to /\ job[j].to \in Users
           /\ chan'[u] = IF u = job[j].from /\ u \in Subscribed THEN Append(chan[u], m) ELSE chan[u]
<1>. DEFINE m == [kind |-> "bound", uid |-> job[j].to]
<1>1. job[j].to \in Users
  BY AnswerFacts, Kinds DEF AnswerPublish, At
<1>2. m \in Notifications /\ m.kind = "bound" /\ m.uid = job[j].to
  BY <1>1, Sent
<1>3. chan' = Published({job[j].from}, m)
  BY DEF AnswerPublish
<1>. HIDE DEF m
<1>4. chan'[u] = IF u \in {job[j].from} /\ u \in Subscribed THEN Append(chan[u], m) ELSE chan[u]
  BY <1>2, <1>3, ChanSent
<1>. QED BY <1>1, <1>2, <1>4 DEF m

LEMMA AnnouncedTo ==
    ASSUME TypeOK, NEW u \in Users, NEW j \in Jobs, ApplyPublish(j)
    PROVE  \/ chan'[u] = chan[u]
           \/ \E m \in Notifications : m.kind = "apply" /\ chan'[u] = Append(chan[u], m)
<1>. DEFINE m == [kind |-> "apply", id |-> job[j].id]
<1>1. m \in Notifications /\ m.kind = "apply"
  BY ApplicationFacts, Kinds, Sent DEF ApplyPublish, At
<1>2. chan' = Published({job[j].to}, m)
  BY DEF ApplyPublish
<1>. HIDE DEF m
<1>. QED BY <1>1, <1>2, ChanSent

\* What is answered to u.
LEMMA AnsweredTo ==
    ASSUME TypeOK, Here, NEW j \in Jobs, NEW u \in Users, AnswerRespond(j), job[j].to = u
    PROVE  LET m == [kind |-> "answer", id |-> job[j].id, yes |-> job[j].yes, uid |-> job[j].from,
                     state |-> job[j].state] IN
           /\ Still(u) /\ chan' = chan /\ job[j].op = "answer" /\ job[j].at = "respond"
           /\ m \in Messages /\ m.kind = "answer" /\ m.uid = job[j].from /\ m.state = job[j].state
           /\ m.yes <=> job[j].yes
           /\ \/ inbox'[u] = Append(inbox[u], m) /\ shown[u] /\ phase[u] \notin Left /\ logins[u] = job[j].conn
                 /\ outdated' = outdated
              \/ inbox'[u] = inbox[u] /\ outdated'[u] = outdated[u] \cup {"requests", job[j].from}
                 /\ outdated[u] \subseteq outdated'[u]
<1>. DEFINE m == [kind |-> "answer", id |-> job[j].id, yes |-> job[j].yes, uid |-> job[j].from,
                  state |-> job[j].state]
<1>1. job[j].op = "answer" /\ job[j].at = "respond" /\ chan' = chan /\ Still(u)
  BY DEF AnswerRespond, At, Still, logging, window
<1>2. m \in Messages /\ m.kind = "answer" /\ m.uid = job[j].from /\ m.state = job[j].state /\ m.yes = job[j].yes
  BY <1>1, Kinds, AnswerFacts, Sent
<1>3. \/ Connected(u) /\ logins[u] = job[j].conn /\ inbox' = [inbox EXCEPT ![u] = Append(@, m)] /\ outdated' = outdated
      \/ outdated' = [outdated EXCEPT ![u] = @ \cup {"requests", m.uid}] /\ UNCHANGED inbox
  BY DEF AnswerRespond
<1>. HIDE DEF m
<1>4. CASE Connected(u) /\ logins[u] = job[j].conn /\ inbox' = [inbox EXCEPT ![u] = Append(@, m)] /\ outdated' = outdated
  <2>1. shown[u] /\ phase[u] \notin Left
    BY <1>1, <1>4 DEF Here, HereJob, Connected, Left
  <2>2. inbox'[u] = Append(inbox[u], m)
    BY <1>4 DEF TypeOK
  <2>. QED BY <1>1, <1>2, <1>4, <2>1, <2>2 DEF m
<1>5. CASE outdated' = [outdated EXCEPT ![u] = @ \cup {"requests", m.uid}] /\ UNCHANGED inbox
  <2>1. outdated'[u] = outdated[u] \cup {"requests", job[j].from}
    BY <1>2, <1>5 DEF TypeOK
  <2>. QED BY <1>1, <1>2, <1>5, <2>1 DEF m
<1>. QED BY <1>3, <1>4, <1>5

-----------------------------------------------------------------------------
(* Only who was made a friend, in at least one direction, is mentioned to a window. *)

\* The friendship in one direction at least, and where v is mentioned to u.
Linked(u, v) == <<u, v>> \in friend \/ <<v, u>> \in friend
Mentioned(u, v) ==
    \/ v \in snapshot[u].friends \/ snapshot[u].list[v] # "none" \/ v \in farewell[u]
    \/ list[u][v] # "none" \/ HasLive(chan[u], TRUE, Says(v))
    \/ HasLive(inbox[u], TRUE, Says(v) \cup Listing(v))
\* Nobody is told that a friend is in no state.
Blank(v) == {m \in Statuses(v) \cup Accepts(v) : m.state = "none"}
Known(u, v) ==
    /\ ~broken /\ Mentioned(u, v) => Linked(u, v)
    /\ ~HasLive(chan[u], TRUE, Blank(v)) /\ ~HasLive(inbox[u], TRUE, Blank(v))
AllKnown == \A u, v \in Users : Known(u, v)

LEMMA HasAppend ==
    ASSUME NEW S, NEW s \in Seq(S), NEW m \in S, NEW M
    PROVE  HasLive(Append(s, m), TRUE, M) <=> HasLive(s, TRUE, M) \/ m \in M
BY LiveAppend

LEMMA HasTail ==
    ASSUME NEW S, NEW s \in Seq(S), s # <<>>, NEW h, h = Head(s), NEW t, t = Tail(s), NEW M
    PROVE  HasLive(s, TRUE, M) <=> h \in M \/ HasLive(t, TRUE, M)
BY LiveTail

LEMMA ListPrimed ==
    ASSUME NEW u, NEW v
    PROVE  /\ Mentioned(u, v)' <=>
                \/ v \in snapshot'[u].friends \/ snapshot'[u].list[v] # "none" \/ v \in farewell'[u]
                \/ list'[u][v] # "none" \/ HasLive(chan'[u], TRUE, Says(v))
                \/ HasLive(inbox'[u], TRUE, Says(v) \cup Listing(v))
           /\ Known(u, v)' <=>
                /\ ~broken' /\ Mentioned(u, v)' => Linked(u, v)'
                /\ ~HasLive(chan'[u], TRUE, Blank(v)) /\ ~HasLive(inbox'[u], TRUE, Blank(v))
BY DEF Mentioned, Known, HasLive, LiveAt, Says, Setters, Statuses, Bounds, Accepts, Listing, Logins, Blank, States

LEMMA KnownInit == Init => AllKnown
<1>. SUFFICES ASSUME Init, NEW u \in Users, NEW v \in Users PROVE Known(u, v)
  BY DEF AllKnown
<1>1. chan[u] = <<>> /\ inbox[u] = <<>>
  BY DEF Init
<1>2. \A M : ~HasLive(chan[u], TRUE, M) /\ ~HasLive(inbox[u], TRUE, M)
  BY <1>1, LiveNone
<1>3. snapshot[u].friends = {} /\ snapshot[u].list[v] = "none" /\ farewell[u] = {} /\ list[u][v] = "none"
  BY DEF Init, NoSnapshot, NoList
<1>. QED BY <1>2, <1>3 DEF Known, Mentioned

LEMMA KnownNext == TypeOK /\ Answered /\ Bonds /\ Here /\ AllKnown /\ [Next]_vars => AllKnown'
<1>. SUFFICES ASSUME TypeOK, Answered, Bonds, Here, AllKnown, [Next]_vars, NEW u \in Users, NEW v \in Users
              PROVE  Known(u, v)'
  BY DEF AllKnown
<1>. USE DEF tables, logging, window, ghosts
<1>. DEFINE Base == /\ snapshot'[u].friends \subseteq snapshot[u].friends \cup FriendsOf(u)
                    /\ snapshot'[u].list[v] # "none" => v \in snapshot[u].friends \/ snapshot[u].list[v] # "none"
                    /\ farewell'[u] \subseteq farewell[u] \cup FriendsOf(u)
            Base2 == list'[u][v] # "none" => Mentioned(u, v)
            ChanOk == /\ HasLive(chan'[u], TRUE, Says(v)) => broken \/ HasLive(chan[u], TRUE, Says(v)) \/ Linked(u, v)
                      /\ ~HasLive(chan'[u], TRUE, Blank(v))
            MailOk == /\ HasLive(inbox'[u], TRUE, Says(v) \cup Listing(v)) => broken \/ Mentioned(u, v) \/ Linked(u, v)
                      /\ ~HasLive(inbox'[u], TRUE, Blank(v))
<1>1. /\ ~broken' => ~broken
      /\ Linked(u, v) => Linked(u, v)'
      /\ \A w \in FriendsOf(u) : Linked(u, w)
  BY FriendsGrow DEF Linked, FriendsOf
<1>2. /\ ~broken /\ Mentioned(u, v) => Linked(u, v)
      /\ ~HasLive(chan[u], TRUE, Blank(v)) /\ ~HasLive(inbox[u], TRUE, Blank(v))
      /\ chan[u] \in Seq(Notifications) /\ inbox[u] \in Seq(Messages) /\ Notifications \subseteq Messages
  BY Sent DEF AllKnown, Known, TypeOK
<1>3. ASSUME Base, Base2, ChanOk, MailOk PROVE Known(u, v)'
  <2>1. ~broken' /\ Mentioned(u, v)' => Linked(u, v)'
    <3>1. Mentioned(u, v)' => broken \/ Mentioned(u, v) \/ Linked(u, v)
      BY <1>1, <1>3, ListPrimed DEF Mentioned
    <3>. QED BY <1>1, <1>2, <3>1
  <2>. QED BY <1>3, <2>1, ListPrimed
<1>4. chan'[u] = chan[u] => ChanOk
  BY <1>2
<1>5. inbox'[u] = inbox[u] => MailOk
  BY <1>2 DEF Mentioned
<1>6. Still(u) => Base /\ Base2
  BY DEF Still, Mentioned
<1>7. ASSUME NEW m \in Notifications, chan'[u] = Append(chan[u], m), m \in Says(v) => broken \/ Linked(u, v),
             m \notin Blank(v)
      PROVE  ChanOk
  BY <1>2, <1>7, HasAppend
<1>8. ASSUME NEW m \in Messages, inbox'[u] = Append(inbox[u], m),
             m \in Says(v) \cup Listing(v) => broken \/ Mentioned(u, v) \/ Linked(u, v), m \notin Blank(v)
      PROVE  MailOk
  <2>. DEFINE MM == Says(v) \cup Listing(v)
  <2>1. HasLive(inbox'[u], TRUE, MM) <=> HasLive(inbox[u], TRUE, MM) \/ m \in MM
    <3>. HIDE DEF MM
    <3>. QED BY <1>2, <1>8, HasAppend
  <2>2. ~HasLive(inbox'[u], TRUE, Blank(v))
    BY <1>2, <1>8, HasAppend
  <2>. QED BY <1>8, <2>1, <2>2 DEF Mentioned
\* A notification of w, also of u itself.
<1>9. ASSUME NEW w \in Users, LoginTell(w) \/ CloseTell(w) PROVE ChanOk
  <2>. DEFINE m == StatusFrom(w, IF LoginTell(w) THEN "online" ELSE "offline")
  <2>1. /\ m \in Notifications /\ m.kind = "status" /\ m.uid = w /\ m.state # "none"
        /\ \/ chan'[u] = chan[u]
           \/ chan'[u] = Append(chan[u], m) /\ (u \in snapshot[w].friends \/ u \in farewell[w])
    BY <1>9, ToldTo
  <2>. HIDE DEF m
  <2>2. u \in snapshot[w].friends \/ u \in farewell[w] => broken \/ Linked(w, u)
    BY DEF AllKnown, Known, Mentioned
  <2>3. m \in Says(v) => w = v
    BY <1>2, <2>1, ListSets DEF Says, Setters
  <2>4. m \notin Blank(v)
    BY <2>1 DEF Blank
  <2>. QED BY <1>4, <1>7, <2>1, <2>2, <2>3, <2>4 DEF Linked
<1>10. CASE Still(u) /\ inbox'[u] = inbox[u] /\ chan'[u] = chan[u]
  BY <1>3, <1>4, <1>5, <1>6, <1>10
<1>11. CASE /\ Still(u) /\ inbox'[u] = inbox[u]
            /\ \/ \E w \in Users \ {u} : LoginTell(w) \/ CloseTell(w)
               \/ \E j \in Jobs : ApplyPublish(j) \/ AnswerPublish(j)
  <2>1. ASSUME NEW j \in Jobs, ApplyPublish(j) PROVE ChanOk
    <3>1. CASE chan'[u] = chan[u]
      BY <1>4, <3>1
    <3>2. ASSUME NEW m \in Notifications, m.kind = "apply", chan'[u] = Append(chan[u], m) PROVE ChanOk
      <4>1. m \notin Says(v) /\ m \notin Blank(v)
        BY <1>2, <3>2, ListSets DEF Says, Setters, Blank
      <4>. QED BY <1>7, <3>2, <4>1
    <3>. QED BY <2>1, <3>1, <3>2, AnnouncedTo
  <2>2. ASSUME NEW j \in Jobs, AnswerPublish(j) PROVE ChanOk
    <3>. DEFINE m == [kind |-> "bound", uid |-> job[j].to]
    <3>1. /\ m \in Notifications /\ m.kind = "bound" /\ m.uid = job[j].to
          /\ chan'[u] = IF u = job[j].from /\ u \in Subscribed THEN Append(chan[u], m) ELSE chan[u]
      BY <2>2, BoundTo
    <3>. HIDE DEF m
    <3>2. m \notin Blank(v) /\ (m \in Says(v) => job[j].to = v)
      BY <1>2, <3>1, ListSets DEF Says, Setters, Blank
    <3>3. broken \/ Both(job[j].from, job[j].to)
      BY <2>2 DEF Bonds, Tied, AnswerPublish, At
    <3>. QED BY <1>4, <1>7, <3>1, <3>2, <3>3 DEF Both, Linked
  <2>. QED BY <1>3, <1>5, <1>6, <1>9, <1>11, <2>1, <2>2
<1>12. CASE Deliver(u)
  <2>. DEFINE m == Head(chan[u])
  <2>1. /\ chan[u] # <<>> /\ chan'[u] = Tail(chan[u]) /\ Still(u)
        /\ inbox'[u] = IF Connected(u) THEN Append(inbox[u], m) ELSE inbox[u]
    BY <1>12 DEF Deliver, Still, TypeOK
  <2>2. m \in Notifications /\ m \in Messages
    BY <1>2, <2>1, TypedMail
  <2>3. /\ HasLive(chan[u], TRUE, Says(v)) <=> m \in Says(v) \/ HasLive(chan'[u], TRUE, Says(v))
        /\ HasLive(chan[u], TRUE, Blank(v)) <=> m \in Blank(v) \/ HasLive(chan'[u], TRUE, Blank(v))
    <3>0. m = Head(chan[u])
      OBVIOUS
    <3>1. \A M : HasLive(chan[u], TRUE, M) <=> m \in M \/ HasLive(chan'[u], TRUE, M)
      <4>. HIDE DEF m
      <4>. QED BY <1>2, <2>1, <3>0, HasTail
    <3>. QED BY <3>1
  <2>. HIDE DEF m
  <2>4. m \notin Listing(v)
    BY <2>2, ListSets, Received
  <2>5. m \in Says(v) \cup Listing(v) => Mentioned(u, v)
    BY <2>3, <2>4 DEF Mentioned
  <2>6. MailOk
    BY <1>2, <1>5, <1>8, <2>1, <2>2, <2>3, <2>5
  <2>. QED BY <1>2, <1>3, <1>6, <2>1, <2>3, <2>6
<1>13. CASE LoginStep(u)
  <2>1. CASE Login(u)
    BY <1>3, <1>4, <1>5, <2>1 DEF Login, Mentioned
  <2>2. CASE LoginFriends(u)
    <3>1. /\ UNCHANGED <<farewell, chan, inbox, list>>
          /\ snapshot'[u] = [snapshot[u] EXCEPT !.friends = FriendsOf(u)]
      BY <2>2 DEF LoginFriends, TypeOK
    <3>2. snapshot'[u].friends = FriendsOf(u) /\ snapshot'[u].list = snapshot[u].list
      BY <3>1, SnapshotTyped, SnapshotFacts DEF Snapshots
    <3>. QED BY <1>3, <1>4, <1>5, <3>1, <3>2 DEF Mentioned
  <2>3. CASE LoginStates(u)
    <3>. DEFINE l == [w \in Users |-> IF w \in snapshot[u].friends THEN StateOf(w) ELSE "none"]
    <3>1. /\ UNCHANGED <<farewell, chan, inbox, list>>
          /\ snapshot'[u] = [snapshot[u] EXCEPT !.list = l]
      BY <2>3 DEF LoginStates, TypeOK
    <3>2. l[v] # "none" => v \in snapshot[u].friends
      OBVIOUS
    <3>. HIDE DEF l
    <3>3. snapshot'[u].friends = snapshot[u].friends /\ snapshot'[u].list = l
      BY <3>1, SnapshotTyped DEF Snapshots
    <3>. QED BY <1>3, <1>4, <1>5, <3>1, <3>2, <3>3 DEF Mentioned
  <2>4. CASE LoginApplies(u)
    <3>1. /\ UNCHANGED <<farewell, chan, inbox, list>>
          /\ snapshot'[u] = [snapshot[u] EXCEPT !.applies = PendingTo(u)]
      BY <2>4 DEF LoginApplies, TypeOK
    <3>2. snapshot'[u].friends = snapshot[u].friends /\ snapshot'[u].list = snapshot[u].list
      BY <3>1, SnapshotTyped DEF Snapshots
    <3>. QED BY <1>3, <1>4, <1>5, <3>1, <3>2 DEF Mentioned
  <2>5. CASE LoginTell(u)
    <3>1. UNCHANGED <<snapshot, farewell, inbox, list>>
      BY <2>5 DEF LoginTell
    <3>. QED BY <1>3, <1>5, <1>9, <2>5, <3>1 DEF Mentioned
  <2>6. CASE LoginAck(u)
    <3>. DEFINE m == [kind |-> "login", list |-> snapshot[u].list, applies |-> snapshot[u].applies]
    <3>1. /\ UNCHANGED <<farewell, chan, list>> /\ snapshot'[u] = NoSnapshot
          /\ inbox'[u] = Append(inbox[u], m)
      BY <2>6 DEF LoginAck, TypeOK
    <3>2. m \in Messages /\ m.kind = "login" /\ m.list = snapshot[u].list
      BY Sent, SnapshotTyped, SnapshotFacts
    <3>. HIDE DEF m
    <3>3. /\ m \in Listing(v) => snapshot[u].list[v] # "none"
          /\ m \notin Says(v) /\ m \notin Blank(v)
      BY <3>2, ListSets DEF Says, Setters, Blank
    <3>4. MailOk
      BY <1>8, <3>1, <3>2, <3>3 DEF Mentioned
    <3>5. snapshot'[u].friends = {} /\ snapshot'[u].list[v] = "none"
      BY <3>1 DEF NoSnapshot, NoList
    <3>6. Base /\ Base2
      BY <3>1, <3>5 DEF Mentioned
    <3>. QED BY <1>3, <1>4, <3>1, <3>4, <3>6
  <2>. QED BY <1>13, <2>1, <2>2, <2>3, <2>4, <2>5, <2>6 DEF LoginStep
<1>14. CASE CloseStep(u)
  <2>1. CASE Close(u)
    <3>1. /\ UNCHANGED <<snapshot, farewell, chan>> /\ inbox'[u] = <<>> /\ list'[u] = NoList
      BY <2>1 DEF Close, TypeOK
    <3>2. list'[u][v] = "none"
      BY <3>1 DEF NoList
    <3>3. MailOk
      BY <3>1, LiveNone
    <3>. QED BY <1>3, <1>4, <3>1, <3>2, <3>3
  <2>2. CASE CloseRoute(u)
    BY <1>3, <1>4, <1>5, <2>2 DEF CloseRoute, Mentioned
  <2>3. CASE CloseFriends(u)
    <3>1. UNCHANGED <<snapshot, chan, inbox, list>> /\ farewell'[u] = FriendsOf(u)
      BY <2>3 DEF CloseFriends, TypeOK
    <3>. QED BY <1>3, <1>4, <1>5, <3>1 DEF Mentioned
  <2>4. CASE CloseTell(u)
    <3>1. UNCHANGED <<snapshot, inbox, list>> /\ farewell'[u] = {}
      BY <2>4 DEF CloseTell, TypeOK
    <3>. QED BY <1>3, <1>5, <1>9, <2>4, <3>1 DEF Mentioned
  <2>. QED BY <1>14, <2>1, <2>2, <2>3, <2>4 DEF CloseStep
<1>15. CASE ClientRead(u)
  <2>. DEFINE m == Head(inbox[u])
              MM == Says(v) \cup Listing(v)
  <2>1. /\ inbox[u] # <<>> /\ inbox'[u] = Tail(inbox[u]) /\ m \in Messages
        /\ UNCHANGED <<snapshot, farewell, chan>>
    BY <1>15, WindowRead
  <2>2. /\ HasLive(inbox[u], TRUE, MM) <=> m \in MM \/ HasLive(inbox'[u], TRUE, MM)
        /\ HasLive(inbox[u], TRUE, Blank(v)) <=> m \in Blank(v) \/ HasLive(inbox'[u], TRUE, Blank(v))
    <3>. HIDE DEF MM
    <3>0. m = Head(inbox[u])
      OBVIOUS
    <3>1. \A M : HasLive(inbox[u], TRUE, M) <=> m \in M \/ HasLive(inbox'[u], TRUE, M)
      <4>. HIDE DEF m
      <4>. QED BY <1>2, <2>1, <3>0, HasTail
    <3>. QED BY <3>1
  <2>3. list'[u][v] # "none" => list[u][v] # "none" \/ m \in MM
    <3>1. /\ m \in Logins => shown'[u] /\ list'[u][v] = m.list[v]
          /\ m \notin Logins /\ m \notin Says(v) => list'[u][v] = list[u][v]
      BY <1>15, ListRead
    <3>. QED BY <3>1 DEF Listing
  <2>. HIDE DEF m
  <2>4. MailOk /\ Base2
    BY <1>2, <2>2, <2>3 DEF Mentioned
  <2>. QED BY <1>3, <1>4, <2>1, <2>4
<1>16. ASSUME NEW j \in Jobs, AnswerRespond(j), job[j].to = u PROVE Known(u, v)'
  <2>. DEFINE m == [kind |-> "answer", id |-> job[j].id, yes |-> job[j].yes, uid |-> job[j].from,
                    state |-> job[j].state]
  <2>1. /\ Still(u) /\ chan' = chan /\ job[j].op = "answer" /\ job[j].at = "respond"
        /\ m \in Messages /\ m.kind = "answer" /\ m.uid = job[j].from /\ m.state = job[j].state
        /\ m.yes <=> job[j].yes
        /\ inbox'[u] = Append(inbox[u], m) \/ inbox'[u] = inbox[u]
    BY <1>16, AnsweredTo
  <2>. HIDE DEF m
  <2>2. m.yes => m.state # "none" /\ (broken \/ Both(job[j].from, job[j].to))
    BY <2>1 DEF Answered, AnswerFits, Bonds, Tied
  <2>3. /\ m \in Says(v) \cup Listing(v) => m.uid = v /\ m.yes
        /\ m \in Blank(v) => m.yes /\ m.state = "none"
    BY <2>1, ListSets DEF Says, Setters, Blank
  <2>4. MailOk
    BY <1>5, <1>8, <1>16, <2>1, <2>2, <2>3 DEF Both, Linked
  <2>. QED BY <1>3, <1>4, <1>6, <2>1, <2>4
<1>. QED BY <1>10, <1>11, <1>12, <1>13, <1>14, <1>15, <1>16, UserSteps

-----------------------------------------------------------------------------
(* A friend is in the list, or what will put it there is under way. *)

\* The tasks that will say to u that v is a friend now: to the one who asked, and to
\* the one who accepted.
WillBind(u, v) ==
    \E j \in Jobs : /\ job[j].op = "answer" /\ job[j].from = u /\ job[j].to = v
                    /\ job[j].at \in {"bindBack", "state", "again", "publish"}
WillAnswer(u, v) ==
    \E j \in Jobs : /\ job[j].op = "answer" /\ job[j].from = v /\ job[j].to = u /\ job[j].yes
                    /\ job[j].at \in {"state", "again", "publish", "respond"}
Making(u, v) == WillBind(u, v) \/ WillAnswer(u, v) \/ HasLive(chan[u], TRUE, Bounds(v))
\* v is in the list, or is once the inbox is read; and how far a login has v.
Listed(u, v) ==
    \/ shown[u] /\ list[u][v] # "none"
    \/ HasLive(inbox[u], TRUE, Listing(v))
    \/ HasLive(inbox[u], shown[u], Setters(v))
Noted(u, v) ==
    \/ phase[u] = "friends"
    \/ phase[u] = "states" /\ v \in snapshot[u].friends
    \/ phase[u] \in {"applies", "tellOn", "ack"} /\ snapshot[u].list[v] # "none"
    \/ phase[u] = "on" /\ Listed(u, v)
Made(u, v) ==
    ~broken /\ v \notin outdated[u] /\ <<u, v>> \in friend /\ phase[u] \notin Left =>
        Making(u, v) \/ Noted(u, v)
AllMade == \A u, v \in Users : Made(u, v)

LEMMA LiveMore ==
    ASSUME NEW S, NEW s \in Seq(S), NEW m \in S, NEW sh, NEW M, NEW t, t = Append(s, m)
    PROVE  /\ HasLive(s, sh, M) => HasLive(t, sh, M)
           /\ m \in M /\ (sh \/ HasLive(s, TRUE, Logins)) => HasLive(t, sh, M)
<1>. DEFINE n == Len(s) + 1
<1>1. /\ DOMAIN s = 1..Len(s) /\ DOMAIN t = DOMAIN s \cup {n} /\ Len(s) \in Nat
      /\ t[n] = m /\ \A k \in DOMAIN s : t[k] = s[k]
  BY AppendElements
<1>2. \A k \in DOMAIN s : k < n
  BY <1>1
<1>. HIDE DEF n
<1>3. \A k \in DOMAIN s : LiveAt(s, sh, k) => LiveAt(t, sh, k)
  BY <1>1 DEF LiveAt
<1>4. HasLive(s, sh, M) => HasLive(t, sh, M)
  BY <1>1, <1>3 DEF HasLive
<1>5. sh \/ HasLive(s, TRUE, Logins) => LiveAt(t, sh, n)
  BY <1>1, <1>2 DEF LiveAt, HasLive
<1>. QED BY <1>1, <1>4, <1>5 DEF HasLive

LEMMA LiveLess ==
    ASSUME NEW S, NEW s \in Seq(S), s # <<>>, NEW sh \in BOOLEAN, NEW M
    PROVE  HasLive(s, sh, M) => \/ sh /\ Head(s) \in M
                                \/ HasLive(Tail(s), sh \/ Head(s) \in Logins, M)
BY LiveTail

LEMMA MadePrimed ==
    ASSUME NEW u, NEW v
    PROVE  /\ Listed(u, v)' <=>
                \/ shown'[u] /\ list'[u][v] # "none"
                \/ HasLive(inbox'[u], TRUE, Listing(v))
                \/ HasLive(inbox'[u], shown'[u], Setters(v))
           /\ Noted(u, v)' <=>
                \/ phase'[u] = "friends"
                \/ phase'[u] = "states" /\ v \in snapshot'[u].friends
                \/ phase'[u] \in {"applies", "tellOn", "ack"} /\ snapshot'[u].list[v] # "none"
                \/ phase'[u] = "on" /\ Listed(u, v)'
           /\ Making(u, v)' <=>
                WillBind(u, v)' \/ WillAnswer(u, v)' \/ HasLive(chan'[u], TRUE, Bounds(v))
BY DEF Listed, Noted, Making, HasLive, LiveAt, Setters, Bounds, Accepts, Listing, Logins, States

\* The window may be wrong about the same as before, until the next login.
LEMMA OutdatedGrows ==
    ASSUME TypeOK, [Next]_vars, NEW u \in Users, ~Login(u)
    PROVE  outdated[u] \subseteq outdated'[u]
<1>. USE DEF tables, logging, window, ghosts
<1>1. CASE Deliver(u)
  BY <1>1 DEF Deliver, TypeOK
<1>2. CASE LoginStep(u)
  BY <1>2 DEF LoginStep, LoginFriends, LoginStates, LoginApplies, LoginTell, LoginAck
<1>3. CASE CloseStep(u)
  BY <1>3 DEF CloseStep, Close, CloseRoute, CloseFriends, CloseTell
<1>4. CASE ClientRead(u)
  BY <1>4 DEF ClientRead
<1>5. ASSUME NEW j \in Jobs, AnswerRespond(j) PROVE outdated[u] \subseteq outdated'[u]
  <2>. DEFINE w == job[j].to
              ns == {"requests", job[j].from}
  <2>1. outdated' = outdated \/ outdated' = [outdated EXCEPT ![w] = @ \cup ns]
    BY <1>5 DEF AnswerRespond
  <2>. HIDE DEF w, ns
  <2>. QED BY <2>1 DEF TypeOK
<1>6. ASSUME NEW w \in Users, LoginTell(w) \/ CloseTell(w) PROVE outdated[u] \subseteq outdated'[u]
  BY <1>6 DEF LoginTell, CloseTell
<1>7. ASSUME NEW j \in Jobs, ApplyPublish(j) PROVE outdated[u] \subseteq outdated'[u]
  BY <1>7 DEF ApplyPublish
<1>8. ASSUME NEW j \in Jobs, AnswerPublish(j) PROVE outdated[u] \subseteq outdated'[u]
  BY <1>8 DEF AnswerPublish, TypeOK
<1>. QED BY <1>1, <1>2, <1>3, <1>4, <1>5, <1>6, <1>7, <1>8, UserSteps

LEMMA MadeInit == Init => AllMade
BY DEF Init, AllMade, Made

\* A task that will publish to u the friendship it has made.
LEMMA BindReaches ==
    ASSUME TypeOK, Answered, Here, [Next]_vars, NEW u \in Users, NEW v \in Users, phase[u] \notin Left,
           WillBind(u, v)
    PROVE  WillBind(u, v)' \/ HasLive(chan'[u], TRUE, Bounds(v))
<1>1. PICK j \in Jobs : /\ job[j].op = "answer" /\ job[j].from = u /\ job[j].to = v
                        /\ job[j].at \in {"bindBack", "state", "again", "publish"}
  BY DEF WillBind
<1>2. u \in route /\ u \in Subscribed
  BY DEF Here, HereRoute, Left, Subscribed
<1>3. CASE job'[j] = job[j]
  BY <1>1, <1>3 DEF WillBind
<1>4. CASE AnswerStep(j)
  <2>1. job'[j].op = "answer" /\ job'[j].from = u /\ job'[j].to = v
    BY <1>1, <1>4, AnswerOwn DEF SameAnswer, SameTask
  <2>2. CASE AnswerPublish(j)
    <3>. DEFINE m == [kind |-> "bound", uid |-> job[j].to]
    <3>1. /\ m \in Notifications /\ m.kind = "bound" /\ m.uid = v
          /\ chan'[u] = Append(chan[u], m)
      BY <1>1, <1>2, <2>2, BoundTo
    <3>. HIDE DEF m
    <3>2. m \in Bounds(v)
      BY <3>1, ListSets, Sent
    <3>. QED BY <3>1, <3>2, TypedMail, LiveMore
  <2>3. CASE ~AnswerPublish(j)
    <3>1. job'[j].at \in {"state", "again", "publish"}
      BY <1>1, <1>2, <1>4, <2>3, AnswerMoves
    <3>. QED BY <2>1, <3>1 DEF WillBind
  <2>. QED BY <2>2, <2>3
<1>5. job'[j] = job[j] \/ AnswerStep(j)
  BY <1>1, TaskMoves
<1>. QED BY <1>3, <1>4, <1>5

\* A task that will answer u.
LEMMA AnswerReaches ==
    ASSUME TypeOK, Answered, Here, [Next]_vars, NEW u \in Users, NEW v \in Users, phase[u] \notin Left,
           WillAnswer(u, v)
    PROVE  WillAnswer(u, v)' \/ v \in outdated'[u] \/ Noted(u, v)'
<1>1. PICK j \in Jobs : /\ job[j].op = "answer" /\ job[j].from = v /\ job[j].to = u /\ job[j].yes
                        /\ job[j].at \in {"state", "again", "publish", "respond"}
  BY DEF WillAnswer
<1>2. CASE job'[j] = job[j]
  BY <1>1, <1>2 DEF WillAnswer
<1>3. CASE AnswerStep(j)
  <2>1. job'[j].op = "answer" /\ job'[j].from = v /\ job'[j].to = u /\ job'[j].yes
    BY <1>1, <1>3, AnswerOwn DEF SameAnswer, SameTask
  <2>2. CASE AnswerRespond(j)
    <3>. DEFINE m == [kind |-> "answer", id |-> job[j].id, yes |-> job[j].yes, uid |-> job[j].from,
                      state |-> job[j].state]
    <3>1. /\ Still(u) /\ m \in Messages /\ m.kind = "answer" /\ m.uid = v /\ m.yes
          /\ \/ inbox'[u] = Append(inbox[u], m) /\ shown[u]
             \/ v \in outdated'[u]
      <4>1. /\ Still(u) /\ m \in Messages /\ m.kind = "answer" /\ m.uid = job[j].from /\ (m.yes <=> job[j].yes)
            /\ \/ inbox'[u] = Append(inbox[u], m) /\ shown[u]
               \/ outdated'[u] = outdated[u] \cup {"requests", job[j].from}
        BY <1>1, <2>2, AnsweredTo
      <4>. HIDE DEF m
      <4>. QED BY <1>1, <4>1
    <3>. HIDE DEF m
    <3>2. CASE inbox'[u] = Append(inbox[u], m) /\ shown[u]
      <4>1. m \in Setters(v)
        BY <3>1, ListSets DEF Setters
      <4>2. HasLive(inbox'[u], shown[u], Setters(v))
        BY <3>1, <3>2, <4>1, TypedMail, LiveMore
      <4>3. phase[u] = "on"
        BY <3>2 DEF Here, HereWindow
      <4>. QED BY <3>1, <4>2, <4>3, MadePrimed DEF Still
    <3>. QED BY <3>1, <3>2
  <2>3. CASE ~AnswerRespond(j)
    <3>1. job'[j].at \in {"again", "publish", "respond"}
      BY <1>1, <1>3, <2>3, AnswerMoves
    <3>. QED BY <2>1, <3>1 DEF WillAnswer
  <2>. QED BY <2>2, <2>3
<1>. QED BY <1>1, <1>2, <1>3, TaskMoves

LEMMA DeliverTo ==
    ASSUME TypeOK, NEW u \in Users, Deliver(u)
    PROVE  LET m == Head(chan[u]) IN
           /\ chan[u] # <<>> /\ chan'[u] = Tail(chan[u]) /\ Still(u)
           /\ inbox'[u] = IF Connected(u) THEN Append(inbox[u], m) ELSE inbox[u]
           /\ outdated'[u] = outdated[u] \cup Overtaken(u, m)
           /\ m \in Notifications /\ m \in Messages
           /\ \A M : HasLive(chan[u], TRUE, M) <=> m \in M \/ HasLive(chan'[u], TRUE, M)
<1>. DEFINE m == Head(chan[u])
<1>1. /\ chan[u] # <<>> /\ chan'[u] = Tail(chan[u]) /\ Still(u)
      /\ inbox'[u] = IF Connected(u) THEN Append(inbox[u], m) ELSE inbox[u]
      /\ outdated'[u] = outdated[u] \cup Overtaken(u, m)
  BY DEF Deliver, Still, TypeOK, logging, window
<1>2. m \in Notifications /\ m \in Messages
  BY <1>1, TypedMail, Sent
<1>3. m = Head(chan[u])
  OBVIOUS
<1>4. \A M : HasLive(chan[u], TRUE, M) <=> m \in M \/ HasLive(chan'[u], TRUE, M)
  <2>. HIDE DEF m
  <2>. QED BY <1>1, <1>3, TypedMail, HasTail
<1>. QED BY <1>1, <1>2, <1>4

\* A user is only connected again by a login.
LEMMA StaysIn ==
    ASSUME TypeOK, [Next]_vars, NEW u \in Users, ~Login(u), phase'[u] \notin Left
    PROVE  phase[u] \notin Left /\ logins'[u] = logins[u] /\ ~CloseStep(u)
<1>. USE DEF logging
<1>1. CASE Still(u)
  BY <1>1 DEF Still, CloseStep, Close, CloseRoute, CloseFriends, CloseTell, TypeOK, Left
<1>2. CASE LoginStep(u)
  BY <1>2 DEF LoginStep, LoginFriends, LoginStates, LoginApplies, LoginTell, LoginAck, Left,
              CloseStep, Close, CloseRoute, CloseFriends, CloseTell
<1>3. CASE CloseStep(u)
  BY <1>3 DEF CloseStep, Close, CloseRoute, CloseFriends, CloseTell, Left, TypeOK
<1>4. ASSUME UNCHANGED <<phase, logins>> PROVE phase[u] \notin Left /\ logins'[u] = logins[u] /\ ~CloseStep(u)
  BY <1>4 DEF CloseStep, Close, CloseRoute, CloseFriends, CloseTell, Left, TypeOK
<1>5. CASE ClientRead(u)
  BY <1>4, <1>5, WindowRead
<1>6. CASE Deliver(u)
  BY <1>1, <1>6, DeliverTo
<1>7. CASE \E j \in Jobs : AnswerRespond(j) /\ job[j].to = u
  BY <1>4, <1>7 DEF AnswerRespond
<1>. QED BY <1>1, <1>2, <1>3, <1>5, <1>6, <1>7, UserSteps

LEMMA BoundReaches ==
    ASSUME TypeOK, Here, [Next]_vars, NEW u \in Users, NEW v \in Users, phase[u] \notin Left,
           HasLive(chan[u], TRUE, Bounds(v))
    PROVE  HasLive(chan'[u], TRUE, Bounds(v)) \/ v \in outdated'[u] \/ Noted(u, v)'
<1>1. chan[u] \in Seq(Notifications) /\ inbox[u] \in Seq(Messages) /\ phase[u] \in Phases /\ shown[u] \in BOOLEAN
  BY DEF TypeOK
<1>2. ASSUME NEW m \in Notifications, chan'[u] = Append(chan[u], m) PROVE HasLive(chan'[u], TRUE, Bounds(v))
  BY <1>1, <1>2, LiveMore
<1>3. CASE Deliver(u)
  <2>. DEFINE m == Head(chan[u])
  <2>1. /\ Still(u) /\ outdated'[u] = outdated[u] \cup Overtaken(u, m) /\ m \in Messages
        /\ inbox'[u] = IF Connected(u) THEN Append(inbox[u], m) ELSE inbox[u]
        /\ m \in Bounds(v) \/ HasLive(chan'[u], TRUE, Bounds(v))
    BY <1>3, DeliverTo
  <2>. HIDE DEF m
  <2>. SUFFICES ASSUME m \in Bounds(v) PROVE v \in outdated'[u] \/ Noted(u, v)'
    BY <2>1
  <2>2. m.kind = "bound" /\ m.uid = v /\ m \in Setters(v)
    BY <2>1, ListSets DEF Setters
  <2>3. CASE phase[u] \in {"states", "applies", "tellOn", "ack"}
    BY <2>1, <2>2, <2>3 DEF Overtaken
  <2>4. CASE phase[u] = "friends"
    BY <2>1, <2>4, MadePrimed DEF Still
  <2>5. CASE phase[u] = "on"
    <3>1. shown[u] \/ HasLive(inbox[u], TRUE, Logins)
      BY <2>5, LoginInMail DEF Here, HereInbox
    <3>2. inbox'[u] = Append(inbox[u], m)
      BY <2>1, <2>5 DEF Connected
    <3>3. HasLive(inbox'[u], shown[u], Setters(v))
      BY <1>1, <2>1, <2>2, <3>1, <3>2, LiveMore
    <3>. QED BY <2>1, <2>5, <3>3, MadePrimed DEF Still
  <2>. QED BY <1>1, <2>3, <2>4, <2>5 DEF Phases, Left
<1>4. ASSUME NEW w \in Users, LoginTell(w) \/ CloseTell(w) PROVE HasLive(chan'[u], TRUE, Bounds(v))
  <2>. DEFINE m == StatusFrom(w, IF LoginTell(w) THEN "online" ELSE "offline")
  <2>1. m \in Notifications /\ (chan'[u] = chan[u] \/ chan'[u] = Append(chan[u], m))
    BY <1>4, ToldTo
  <2>. HIDE DEF m
  <2>. QED BY <1>2, <2>1
<1>5. ASSUME NEW j \in Jobs, AnswerPublish(j) PROVE HasLive(chan'[u], TRUE, Bounds(v))
  <2>. DEFINE m == [kind |-> "bound", uid |-> job[j].to]
  <2>1. m \in Notifications /\ (chan'[u] = chan[u] \/ chan'[u] = Append(chan[u], m))
    BY <1>5, BoundTo
  <2>. HIDE DEF m
  <2>. QED BY <1>2, <2>1
<1>6. ASSUME NEW j \in Jobs, ApplyPublish(j) PROVE HasLive(chan'[u], TRUE, Bounds(v))
  BY <1>2, <1>6, AnnouncedTo
<1>7. CASE chan'[u] = chan[u]
  BY <1>7
<1>8. CASE LoginStep(u) \/ CloseStep(u) \/ ClientRead(u) \/ \E j \in Jobs : AnswerRespond(j)
  <2>1. \/ UNCHANGED chan \/ LoginTell(u) \/ CloseTell(u)
    BY <1>8 DEF LoginStep, Login, LoginFriends, LoginStates, LoginApplies, LoginAck, CloseStep, Close,
                CloseRoute, CloseFriends, ClientRead, AnswerRespond
  <2>. QED BY <1>4, <2>1
<1>. QED BY <1>3, <1>4, <1>5, <1>6, <1>7, <1>8, UserSteps

LEMMA NotedStays ==
    ASSUME TypeOK, Here, AllKnown, [Next]_vars, NEW u \in Users, NEW v \in Users, <<u, v>> \in friend,
           Noted(u, v), phase'[u] \notin Left
    PROVE  Noted(u, v)'
<1>. USE DEF tables, logging, window, ghosts
<1>1. /\ inbox[u] \in Seq(Messages) /\ phase[u] \in Phases /\ shown[u] \in BOOLEAN
      /\ phase \in [Users -> Phases]
  BY DEF TypeOK
<1>2. CASE Still(u) /\ inbox'[u] = inbox[u]
  BY <1>2, MadePrimed DEF Noted, Listed, Still
<1>3. ASSUME Still(u), NEW m \in Messages, inbox'[u] = Append(inbox[u], m) PROVE Noted(u, v)'
  <2>1. Listed(u, v) => Listed(u, v)'
    <3>1. /\ HasLive(inbox[u], TRUE, Listing(v)) => HasLive(inbox'[u], TRUE, Listing(v))
          /\ HasLive(inbox[u], shown[u], Setters(v)) => HasLive(inbox'[u], shown[u], Setters(v))
      BY <1>1, <1>3, LiveMore
    <3>. QED BY <1>3, <3>1, MadePrimed DEF Listed, Still
  <2>. QED BY <1>3, <2>1, MadePrimed DEF Noted, Still
<1>4. CASE Deliver(u)
  <2>. DEFINE m == Head(chan[u])
  <2>1. Still(u) /\ m \in Messages /\ (inbox'[u] = Append(inbox[u], m) \/ inbox'[u] = inbox[u])
    BY <1>4, DeliverTo
  <2>. HIDE DEF m
  <2>. QED BY <1>2, <1>3, <2>1
<1>5. CASE LoginStep(u)
  <2>1. CASE Login(u)
    <3>1. phase'[u] = "friends"
      BY <1>1, <2>1 DEF Login
    <3>. QED BY <3>1, MadePrimed
  <2>2. CASE LoginFriends(u)
    <3>1. snapshot'[u] = [snapshot[u] EXCEPT !.friends = FriendsOf(u)] /\ phase'[u] = "states"
      BY <1>1, <2>2 DEF LoginFriends, TypeOK
    <3>2. v \in snapshot'[u].friends
      BY <3>1, SnapshotTyped DEF Snapshots, FriendsOf
    <3>. QED BY <3>1, <3>2, MadePrimed
  <2>3. CASE LoginStates(u)
    <3>. DEFINE l == [w \in Users |-> IF w \in snapshot[u].friends THEN StateOf(w) ELSE "none"]
    <3>1. snapshot'[u] = [snapshot[u] EXCEPT !.list = l] /\ phase'[u] = "applies" /\ phase[u] = "states"
      BY <1>1, <2>3 DEF LoginStates, TypeOK
    <3>2. v \in snapshot[u].friends => l[v] # "none"
      BY DEF StateOf
    <3>. HIDE DEF l
    <3>3. snapshot'[u].list = l
      BY <3>1, SnapshotTyped DEF Snapshots
    <3>. QED BY <3>1, <3>2, <3>3, MadePrimed DEF Noted
  <2>4. CASE LoginApplies(u)
    <3>1. /\ snapshot'[u] = [snapshot[u] EXCEPT !.applies = PendingTo(u)]
          /\ phase'[u] = "tellOn" /\ phase[u] = "applies"
      BY <1>1, <2>4 DEF LoginApplies, TypeOK
    <3>2. snapshot'[u].list = snapshot[u].list
      BY <3>1, SnapshotTyped DEF Snapshots
    <3>. QED BY <3>1, <3>2, MadePrimed DEF Noted
  <2>5. CASE LoginTell(u)
    <3>1. UNCHANGED snapshot /\ phase'[u] = "ack" /\ phase[u] = "tellOn"
      BY <1>1, <2>5 DEF LoginTell
    <3>. QED BY <3>1, MadePrimed DEF Noted
  <2>6. CASE LoginAck(u)
    <3>. DEFINE m == [kind |-> "login", list |-> snapshot[u].list, applies |-> snapshot[u].applies]
    <3>1. phase'[u] = "on" /\ phase[u] = "ack" /\ inbox'[u] = Append(inbox[u], m)
      BY <1>1, <2>6 DEF LoginAck, TypeOK
    <3>2. m \in Messages /\ m.kind = "login" /\ m.list = snapshot[u].list
      BY Sent, SnapshotTyped, SnapshotFacts
    <3>. HIDE DEF m
    <3>3. m \in Listing(v)
      BY <3>1, <3>2, ListSets DEF Noted
    <3>4. HasLive(inbox'[u], TRUE, Listing(v))
      BY <1>1, <3>1, <3>2, <3>3, LiveMore
    <3>. QED BY <3>1, <3>4, MadePrimed
  <2>. QED BY <1>5, <2>1, <2>2, <2>3, <2>4, <2>5, <2>6 DEF LoginStep
<1>6. CASE CloseStep(u)
  <2>1. phase'[u] \in Left
    BY <1>6, <1>1 DEF CloseStep, Close, CloseRoute, CloseFriends, CloseTell, Left
  <2>. QED BY <2>1
<1>7. CASE ClientRead(u)
  <2>. DEFINE m == Head(inbox[u])
              after == shown[u] \/ m \in Logins
  <2>1. /\ inbox[u] # <<>> /\ inbox'[u] = Tail(inbox[u]) /\ m \in Messages
        /\ UNCHANGED <<phase, snapshot>>
    BY <1>7, WindowRead
  <2>2. /\ m \in Logins => shown'[u] /\ list'[u][v] = m.list[v]
        /\ m \notin Logins => shown'[u] = shown[u]
        /\ shown[u] /\ m \in Bounds(v) => list'[u][v] = "online"
        /\ shown[u] /\ m \in Accepts(v) => list'[u][v] = m.state
        /\ shown[u] /\ m \in Statuses(v) =>
             list'[u][v] = IF list[u][v] = "none" THEN "none" ELSE m.state
        /\ m \notin Logins /\ (~shown[u] \/ m \notin Says(v)) => list'[u][v] = list[u][v]
    BY <1>7, ListRead
  <2>3. \A M : HasLive(inbox[u], TRUE, M) <=> m \in M \/ HasLive(inbox'[u], TRUE, M)
    <3>1. m = Head(inbox[u])
      OBVIOUS
    <3>. HIDE DEF m
    <3>. QED BY <1>1, <2>1, <3>1, HasTail
  <2>4. HasLive(inbox[u], shown[u], Setters(v)) =>
          (shown[u] /\ m \in Setters(v)) \/ HasLive(inbox'[u], after, Setters(v))
    BY <1>1, <2>1, LiveLess
  <2>5. m \notin Blank(v)
    <3>1. ~HasLive(inbox[u], TRUE, Blank(v))
      BY DEF AllKnown, Known
    <3>. QED BY <2>3, <3>1
  <2>6. m \in Logins => ~shown[u]
    <3>1. m = inbox[u][1] /\ 1 \in DOMAIN inbox[u]
      BY <1>1, <2>1, TailElements
    <3>2. m.kind = "login" => ~shown[u]
      BY <3>1 DEF Here, HereInbox
    <3>. QED BY <2>1, <3>2, ListSets
  <2>. HIDE DEF m
  <2>7. (shown'[u] <=> after) /\ shown'[u] \in BOOLEAN /\ after \in BOOLEAN
    BY <1>1, <2>2
  <2>8. shown[u] /\ m \in Setters(v) => list'[u][v] # "none"
    BY <2>2, <2>5 DEF Setters, Blank
  <2>9. shown[u] /\ list[u][v] # "none" => list'[u][v] # "none"
    BY <2>2, <2>5, <2>6, <2>8 DEF Says, Blank
  <2>10. m \in Listing(v) => shown'[u] /\ list'[u][v] # "none"
    BY <2>2 DEF Listing
  <2>11. shown[u] => shown'[u]
    BY <2>7
  <2>12. HasLive(inbox'[u], after, Setters(v)) => HasLive(inbox'[u], shown'[u], Setters(v))
    BY <2>7 DEF HasLive, LiveAt
  <2>13. Listed(u, v) => Listed(u, v)'
    <3>1. Listed(u, v) => \/ shown[u] /\ list[u][v] # "none"
                          \/ m \in Listing(v) \/ HasLive(inbox'[u], TRUE, Listing(v))
                          \/ shown[u] /\ m \in Setters(v)
                          \/ HasLive(inbox'[u], shown'[u], Setters(v))
      BY <2>3, <2>4, <2>12 DEF Listed
    <3>. QED BY <2>8, <2>9, <2>10, <2>11, <3>1, MadePrimed
  <2>. QED BY <2>1, <2>13, MadePrimed DEF Noted
<1>8. ASSUME NEW j \in Jobs, AnswerRespond(j), job[j].to = u PROVE Noted(u, v)'
  <2>. DEFINE m == [kind |-> "answer", id |-> job[j].id, yes |-> job[j].yes, uid |-> job[j].from,
                    state |-> job[j].state]
  <2>1. Still(u) /\ m \in Messages /\ (inbox'[u] = Append(inbox[u], m) \/ inbox'[u] = inbox[u])
    BY <1>8, AnsweredTo
  <2>. HIDE DEF m
  <2>. QED BY <1>2, <1>3, <2>1
<1>. QED BY <1>2, <1>4, <1>5, <1>6, <1>7, <1>8, UserSteps

LEMMA MadeNext == TypeOK /\ Answered /\ Here /\ AllKnown /\ AllMade /\ [Next]_vars => AllMade'
<1>. SUFFICES ASSUME TypeOK, Answered, Here, AllKnown, AllMade, [Next]_vars, NEW u \in Users, NEW v \in Users,
                     ~broken', v \notin outdated'[u], <<u, v>> \in friend', phase'[u] \notin Left
              PROVE  Making(u, v)' \/ Noted(u, v)'
  BY DEF AllMade, Made
<1>1. CASE Login(u)
  <2>1. phase'[u] = "friends"
    BY <1>1 DEF Login, TypeOK
  <2>. QED BY <2>1, MadePrimed
<1>2. CASE <<u, v>> \notin friend
  <2>1. ASSUME NEW j \in Jobs, AnswerStep(j), job[j].from = u, job[j].to = v, job'[j].at = "bindBack"
        PROVE  WillBind(u, v)'
    <3>1. job'[j].op = "answer" /\ job'[j].from = u /\ job'[j].to = v
      BY <2>1, AnswerOwn, AnsweringStep DEF SameAnswer, SameTask
    <3>. QED BY <2>1, <3>1 DEF WillBind
  <2>2. ASSUME NEW j \in Jobs, AnswerStep(j), job[j].from = v, job[j].to = u, job[j].at = "bindBack",
               job'[j].at = "state"
        PROVE  WillAnswer(u, v)'
    <3>1. job'[j].op = "answer" /\ job'[j].from = v /\ job'[j].to = u /\ job'[j].yes = job[j].yes
      BY <2>2, AnswerOwn, AnsweringStep DEF SameAnswer, SameTask
    <3>2. job[j].yes
      BY <2>2, AnsweringStep DEF Answered, AnswerFits
    <3>. QED BY <2>2, <3>1, <3>2 DEF WillAnswer
  <2>3. \/ \E j \in Jobs : /\ AnswerStep(j) /\ job[j].from = u /\ job[j].to = v
                            /\ job[j].at = "bind" /\ job'[j].at = "bindBack"
        \/ \E j \in Jobs : /\ AnswerStep(j) /\ job[j].to = u /\ job[j].from = v
                            /\ job[j].at = "bindBack" /\ job'[j].at = "state"
    BY <1>2, FriendsGrow
  <2>4. WillBind(u, v)' \/ WillAnswer(u, v)'
    BY <2>1, <2>2, <2>3
  <2>. QED BY <2>4, MadePrimed
<1>3. CASE <<u, v>> \in friend /\ ~Login(u)
  <2>1. ~broken /\ v \notin outdated[u]
    BY <1>3, FriendsGrow, OutdatedGrows
  <2>2. phase[u] \notin Left
    BY <1>3, StaysIn
  <2>3. Making(u, v) \/ Noted(u, v)
    BY <1>3, <2>1, <2>2 DEF AllMade, Made
  <2>4. WillBind(u, v) => Making(u, v)'
    BY <2>2, BindReaches, MadePrimed
  <2>5. WillAnswer(u, v) => Making(u, v)' \/ Noted(u, v)'
    BY <2>2, AnswerReaches, MadePrimed
  <2>6. HasLive(chan[u], TRUE, Bounds(v)) => Making(u, v)' \/ Noted(u, v)'
    BY <2>2, BoundReaches, MadePrimed
  <2>7. Noted(u, v) => Noted(u, v)'
    BY <1>3, NotedStays
  <2>. QED BY <2>3, <2>4, <2>5, <2>6, <2>7 DEF Making
<1>. QED BY <1>1, <1>2, <1>3

-----------------------------------------------------------------------------
(* The state that a window will show last is the one the friend is in, or the
   friend will tell. *)

\* v will send its state to u.
WillTell(u, v) ==
    \/ phase[v] \in {"friends", "part"} /\ <<v, u>> \in friend
    \/ phase[v] \in {"states", "applies", "tellOn"} /\ u \in snapshot[v].friends
    \/ phase[v] = "tellOff" /\ u \in farewell[v]
\* The states of v that are true or will be corrected, and those that may be shown:
\* also none, which a status does not change, and any that bound will replace.
Fresh(u, v) == {s \in States : s = StateOf(v) \/ WillTell(u, v)}
Fine(u, v) == {s \in States : s = "none" \/ s \in Fresh(u, v) \/ WillBind(u, v)}
Welcome(v, F) == {m \in Counts(v) : Value(m, v) \in F}
\* c, i: the channel and the inbox of a user in phase p, whose login has found v in
\* the state s, and whose window shows v in the state x. What says last is in F.
Agrees(c, i, p, s, x, v, F) ==
    /\ LastIn(c, Says(v), Welcome(v, F))
    /\ \/ HasLive(c, TRUE, Says(v))
       \/ /\ p = "on" => LastIn(i, Counts(v), Welcome(v, F))
          /\ p = "on" /\ ~HasLive(i, TRUE, Counts(v)) => x \in F
          /\ p \in {"applies", "tellOn", "ack"} => s \in F
\* The task j will answer u with the state of v it has looked up.
Settling(u, v, j) ==
    /\ job[j].op = "answer" /\ job[j].from = v /\ job[j].to = u /\ job[j].yes
    /\ job[j].at \in {"again", "publish", "respond"} /\ job[j].conn = logins[u]
TaskRight(u, v) ==
    \A j \in Jobs : Settling(u, v, j) =>
        job[j].state \in Fresh(u, v) \/ HasLive(chan[u], TRUE, Statuses(v))
WindowRight(u, v) ==
    Agrees(chan[u], inbox[u], phase[u], snapshot[u].list[v], list[u][v], v, Fine(u, v))
Right(u, v) ==
    ~broken /\ v \notin outdated[u] /\ phase[u] \notin Left => WindowRight(u, v) /\ TaskRight(u, v)
AllRight == \A u \in Users : \A v \in Users \ {u} : Right(u, v)

LEMMA WelcomeIn ==
    ASSUME NEW m, NEW v, NEW F
    PROVE  m \in Welcome(v, F) <=> m \in Counts(v) /\ Value(m, v) \in F
BY DEF Welcome

LEMMA AgreesMore ==
    ASSUME NEW c, NEW i, NEW p, NEW s, NEW x, NEW v, NEW F, NEW H, F \subseteq H, Agrees(c, i, p, s, x, v, F)
    PROVE  Agrees(c, i, p, s, x, v, H)
<1>1. Welcome(v, F) \subseteq Welcome(v, H)
  BY DEF Welcome
<1>2. \A q, M : LastIn(q, M, Welcome(v, F)) => LastIn(q, M, Welcome(v, H))
  BY <1>1, LastMore
<1>. QED BY <1>2 DEF Agrees

\* Nothing says anything.
LEMMA AgreesNone ==
    ASSUME TypeOK, NEW u \in Users, NEW v \in Users, NEW F, "none" \in F, ~Mentioned(u, v)
    PROVE  Agrees(chan[u], inbox[u], phase[u], snapshot[u].list[v], list[u][v], v, F)
<1>1. LastIn(chan[u], Says(v), Welcome(v, F))
  BY LastNone DEF Mentioned
<1>2. ASSUME NEW k \in DOMAIN inbox[u], inbox[u][k] \in Counts(v) PROVE inbox[u][k] \in Welcome(v, F)
  <2>1. inbox[u][k] \notin Says(v) \cup Listing(v)
    <3>. DEFINE MM == Says(v) \cup Listing(v)
    <3>1. ~HasLive(inbox[u], TRUE, MM)
      BY DEF Mentioned
    <3>. HIDE DEF MM
    <3>2. inbox[u][k] \notin MM
      BY <3>1 DEF HasLive, LiveAt
    <3>. QED BY <3>2 DEF MM
  <2>. DEFINE m == inbox[u][k]
  <2>2. m \in Messages /\ m \in Logins /\ m.kind = "login"
    BY <1>2, <2>1, MailElements, ListSets DEF Counts
  <2>3. m.list[v] = "none"
    BY <2>1, <2>2 DEF Listing
  <2>4. Value(m, v) = "none"
    BY <2>2, <2>3 DEF Value
  <2>. HIDE DEF m
  <2>5. m \in Welcome(v, F)
    BY <2>2, <2>4, WelcomeIn DEF Counts
  <2>. QED BY <2>5 DEF m
<1>3. LastIn(inbox[u], Counts(v), Welcome(v, F))
  BY <1>2 DEF LastIn
<1>. QED BY <1>1, <1>3 DEF Agrees, Mentioned

LEMMA AgreesOther ==
    ASSUME NEW S, NEW c \in Seq(S), NEW m \in S, NEW i, NEW p, NEW s, NEW x, NEW v, NEW F,
           Agrees(c, i, p, s, x, v, F), m \notin Says(v), NEW t, t = Append(c, m)
    PROVE  Agrees(t, i, p, s, x, v, F)
<1>1. HasLive(t, TRUE, Says(v)) <=> HasLive(c, TRUE, Says(v))
  BY HasAppend
<1>2. LastIn(t, Says(v), Welcome(v, F)) <=> LastIn(c, Says(v), Welcome(v, F))
  BY LastAppend
<1>. QED BY <1>1, <1>2 DEF Agrees

LEMMA AgreesSaid ==
    ASSUME NEW S, NEW c \in Seq(S), NEW m \in S, NEW i, NEW p, NEW s, NEW x, NEW v, NEW F,
           m \in Says(v), Value(m, v) \in F, NEW t, t = Append(c, m)
    PROVE  Agrees(t, i, p, s, x, v, F)
<1>1. HasLive(t, TRUE, Says(v))
  BY HasAppend
<1>2. m \in Welcome(v, F)
  BY WelcomeIn DEF Counts
<1>3. LastIn(t, Says(v), Welcome(v, F))
  BY <1>2, LastAppend
<1>. QED BY <1>1, <1>3 DEF Agrees

\* The next notification is delivered.
LEMMA AgreesMoved ==
    ASSUME NEW S, NEW R, NEW c \in Seq(S), c # <<>>, NEW m \in R, m = Head(c), NEW t, t = Tail(c),
           NEW i \in Seq(R), NEW p, NEW s, NEW x, NEW v, NEW F, Agrees(c, i, p, s, x, v, F), m \notin Logins,
           p \notin {"applies", "tellOn", "ack"} \/ m \notin Says(v), NEW n, n = Append(i, m)
    PROVE  Agrees(t, n, p, s, x, v, F)
<1>. DEFINE G == Welcome(v, F)
            M == Says(v)
            C == Counts(v)
<1>1. m \in C <=> m \in M
  BY DEF Counts
<1>. HIDE DEF G, M, C
<1>2. /\ LastIn(c, M, G)
      /\ \/ HasLive(c, TRUE, M)
         \/ /\ p = "on" => LastIn(i, C, G)
            /\ p = "on" /\ ~HasLive(i, TRUE, C) => x \in F
            /\ p \in {"applies", "tellOn", "ack"} => s \in F
  BY DEF Agrees, G, M, C
<1>3. HasLive(c, TRUE, M) <=> m \in M \/ HasLive(t, TRUE, M)
  BY HasTail
<1>4. /\ HasLive(t, TRUE, M) => LastIn(t, M, G)
      /\ ~HasLive(t, TRUE, M) => LastIn(t, M, G) /\ (m \in M => m \in G)
  BY <1>2, LastTail
<1>5. /\ HasLive(n, TRUE, C) <=> HasLive(i, TRUE, C) \/ m \in C
      /\ LastIn(n, C, G) <=> IF m \in C THEN m \in G ELSE LastIn(i, C, G)
  BY HasAppend, LastAppend
<1>6. p \notin {"applies", "tellOn", "ack"} \/ m \notin M
  BY DEF M
<1>7. CASE HasLive(t, TRUE, M)
  BY <1>4, <1>7 DEF Agrees, G, M, C
<1>8. CASE ~HasLive(t, TRUE, M) /\ m \in M
  BY <1>1, <1>4, <1>5, <1>6, <1>8 DEF Agrees, G, M, C
<1>9. CASE ~HasLive(t, TRUE, M) /\ m \notin M
  BY <1>1, <1>2, <1>3, <1>4, <1>5, <1>9 DEF Agrees, G, M, C
<1>. QED BY <1>7, <1>8, <1>9

\* The server writes to the connection.
LEMMA AgreesWritten ==
    ASSUME NEW R, NEW c, NEW i \in Seq(R), NEW m \in R, NEW p, NEW q, NEW s, NEW r, NEW x, NEW v, NEW F,
           Agrees(c, i, p, s, x, v, F), NEW n, n = Append(i, m),
           \/ p = q /\ r = s /\ m \notin Counts(v)
           \/ q = "on" /\ m \in Counts(v) /\ (HasLive(c, TRUE, Says(v)) \/ Value(m, v) \in F)
    PROVE  Agrees(c, n, q, r, x, v, F)
<1>. DEFINE G == Welcome(v, F)
            M == Says(v)
            C == Counts(v)
<1>1. /\ HasLive(n, TRUE, C) <=> HasLive(i, TRUE, C) \/ m \in C
      /\ LastIn(n, C, G) <=> IF m \in C THEN m \in G ELSE LastIn(i, C, G)
  <2>. HIDE DEF G, C
  <2>. QED BY HasAppend, LastAppend
<1>2. CASE p = q /\ r = s /\ m \notin C
  BY <1>1, <1>2 DEF Agrees
<1>3. CASE q = "on" /\ m \in C /\ (HasLive(c, TRUE, M) \/ Value(m, v) \in F)
  <2>1. HasLive(c, TRUE, M) \/ m \in G
    BY <1>3, WelcomeIn
  <2>. QED BY <1>1, <1>3, <2>1 DEF Agrees
<1>. QED BY <1>2, <1>3

LEMMA RightPrimed ==
    ASSUME NEW u, NEW v
    PROVE  /\ WindowRight(u, v)' <=>
                Agrees(chan'[u], inbox'[u], phase'[u], snapshot'[u].list[v], list'[u][v], v, Fine(u, v)')
           /\ TaskRight(u, v)' <=>
                \A j \in Jobs : Settling(u, v, j)' =>
                    job'[j].state \in Fresh(u, v)' \/ HasLive(chan'[u], TRUE, Statuses(v))
<1>1. WindowRight(u, v)' <=>
        Agrees(chan'[u], inbox'[u], phase'[u], snapshot'[u].list[v], list'[u][v], v, Fine(u, v)')
  BY DEF WindowRight, Agrees, LastIn, HasLive, LiveAt, Welcome, Counts, Value, Says, Setters, Statuses, Bounds,
         Accepts, Logins, States
<1>2. TaskRight(u, v)' <=>
        \A j \in Jobs : Settling(u, v, j)' =>
            job'[j].state \in Fresh(u, v)' \/ HasLive(chan'[u], TRUE, Statuses(v))
  BY DEF TaskRight, HasLive, LiveAt, Statuses, Logins, States
<1>. QED BY <1>1, <1>2

\* A task that publishes the friendship to u does so before it is gone.
LEMMA BindStays ==
    ASSUME TypeOK, Here, [Next]_vars, NEW u \in Users, NEW v \in Users, phase[u] \notin Left,
           WillBind(u, v), \A j \in Jobs : ~(AnswerPublish(j) /\ job[j].from = u /\ job[j].to = v)
    PROVE  WillBind(u, v)'
<1>1. PICK j \in Jobs : /\ job[j].op = "answer" /\ job[j].from = u /\ job[j].to = v
                        /\ job[j].at \in {"bindBack", "state", "again", "publish"}
  BY DEF WillBind
<1>2. u \in route
  BY DEF Here, HereRoute, Left
<1>3. CASE job'[j] = job[j]
  BY <1>1, <1>3 DEF WillBind
<1>4. CASE AnswerStep(j)
  <2>1. job'[j].op = "answer" /\ job'[j].from = u /\ job'[j].to = v
    BY <1>1, <1>4, AnswerOwn DEF SameAnswer, SameTask
  <2>2. job'[j].at \in {"state", "again", "publish"}
    BY <1>1, <1>2, <1>4, AnswerMoves
  <2>. QED BY <2>1, <2>2 DEF WillBind
<1>5. job'[j] = job[j] \/ AnswerStep(j)
  BY <1>1, TaskMoves
<1>. QED BY <1>3, <1>4, <1>5

LEMMA FreshStays ==
    ASSUME NEW u \in Users, NEW v \in Users, Still(v), friend \subseteq friend'
    PROVE  Fresh(u, v) \subseteq Fresh(u, v)'
<1>1. WillTell(u, v) => WillTell(u, v)'
  BY DEF WillTell, Still
<1>2. StateOf(v)' = StateOf(v)
  BY DEF StateOf, Still
<1>. QED BY <1>1, <1>2 DEF Fresh, States

LEMMA FineStays ==
    ASSUME NEW u, NEW v, Fresh(u, v) \subseteq Fresh(u, v)', WillBind(u, v) => WillBind(u, v)'
    PROVE  Fine(u, v) \subseteq Fine(u, v)'
BY DEF Fine, States

LEMMA FreshIn ==
    ASSUME NEW u, NEW v
    PROVE  /\ StateOf(v) \in Fresh(u, v) /\ Fresh(u, v) \subseteq Fine(u, v) /\ "none" \in Fine(u, v)
           /\ StateOf(v)' \in Fresh(u, v)' /\ Fresh(u, v)' \subseteq Fine(u, v)' /\ "none" \in Fine(u, v)'
           /\ WillTell(u, v)' => States \subseteq Fresh(u, v)'
           /\ WillBind(u, v)' => States \subseteq Fine(u, v)'
<1>1. StateOf(v) \in States /\ StateOf(v)' \in States /\ "none" \in States
  BY DEF StateOf, States
<1>2. StateOf(v)' \in Fresh(u, v)'
  BY <1>1 DEF Fresh, States, StateOf
<1>3. Fresh(u, v)' \subseteq Fine(u, v)' /\ "none" \in Fine(u, v)'
  BY <1>1 DEF Fresh, Fine, States
<1>4. WillTell(u, v)' => States \subseteq Fresh(u, v)'
  BY DEF Fresh, States
<1>5. WillBind(u, v)' => States \subseteq Fine(u, v)'
  BY DEF Fine, States
<1>. QED BY <1>1, <1>2, <1>3, <1>4, <1>5 DEF Fresh, Fine

\* The tasks that will answer with the state of v.
LEMMA TaskStays ==
    ASSUME TypeOK, [Next]_vars, NEW u \in Users, NEW v \in Users, logins'[u] = logins[u],
           \A j \in Jobs : Settling(u, v, j) =>
              job[j].state \in Fresh(u, v)' \/ HasLive(chan'[u], TRUE, Statuses(v))
    PROVE  TaskRight(u, v)'
<1>. SUFFICES ASSUME NEW j \in Jobs, Settling(u, v, j)'
              PROVE  job'[j].state \in Fresh(u, v)' \/ HasLive(chan'[u], TRUE, Statuses(v))
  BY RightPrimed
<1>1. /\ job'[j].op = "answer" /\ job'[j].from = v /\ job'[j].to = u /\ job'[j].yes
      /\ job'[j].at \in {"again", "publish", "respond"} /\ job'[j].conn = logins[u]
  BY DEF Settling
<1>2. CASE job'[j] = job[j]
  BY <1>1, <1>2 DEF Settling
<1>3. CASE job[j].op = "answer" /\ AnswerStep(j)
  <2>1. job[j].from = v /\ job[j].to = u /\ job[j].yes = job'[j].yes /\ job[j].conn = job'[j].conn
    BY <1>1, <1>3, AnswerOwn DEF SameAnswer, SameTask
  <2>2. CASE AnswerState(j)
    <3>1. route' = route /\ job'[j].state = StateOf(v)
      BY <1>3, <2>1, <2>2, AnswerMoves DEF AnswerState, At
    <3>2. StateOf(v)' = StateOf(v)
      BY <3>1 DEF StateOf
    <3>. QED BY <3>1, <3>2, FreshIn
  <2>3. CASE ~AnswerState(j)
    <3>1. job'[j].state = job[j].state
      BY <1>3, <2>3, AnswerMoves
    <3>2. job[j].at \in {"again", "publish", "respond"}
      BY <1>1, <1>3, <2>1, <2>3, AnswerMoves
    <3>3. Settling(u, v, j)
      BY <1>1, <1>3, <2>1, <3>2 DEF Settling
    <3>. QED BY <3>1, <3>3
  <2>. QED BY <2>2, <2>3
<1>4. job'[j].at # "update"
  BY <1>1
<1>. QED BY <1>1, <1>2, <1>3, <1>4, TaskMoves

LEMMA FreshSame ==
    ASSUME NEW u, NEW v, route' = route, WillTell(u, v) => WillTell(u, v)'
    PROVE  Fresh(u, v) \subseteq Fresh(u, v)'
<1>1. StateOf(v)' = StateOf(v)
  BY DEF StateOf
<1>. QED BY <1>1 DEF Fresh, States

\* v tells its friends its state: u is told, or need not be.
LEMMA ToldState ==
    ASSUME TypeOK, Here, NEW u \in Users, NEW v \in Users \ {u}, phase[u] \notin Left, LoginTell(v) \/ CloseTell(v)
    PROVE  \/ chan'[u] = chan[u] /\ Fresh(u, v) \subseteq Fresh(u, v)'
           \/ \E m \in Notifications :
                 m \in Statuses(v) /\ m.state = StateOf(v)' /\ chan'[u] = Append(chan[u], m)
<1>. USE DEF tables, logging, window, ghosts
<1>. DEFINE m == StatusFrom(v, IF LoginTell(v) THEN "online" ELSE "offline")
            told == IF LoginTell(v) THEN u \in snapshot[v].friends ELSE u \in farewell[v]
<1>1. /\ LoginTell(v) => phase[v] = "tellOn"
      /\ CloseTell(v) => phase[v] = "tellOff"
      /\ route' = route
  BY DEF LoginTell, CloseTell
<1>2. /\ m \in Notifications /\ m.kind = "status" /\ m.uid = v
      /\ m.state = IF LoginTell(v) THEN "online" ELSE "offline"
      /\ chan'[u] = chan[u] \/ chan'[u] = Append(chan[u], m)
      /\ told => u \notin route \/ u \notin Subscribed \/ chan'[u] = Append(chan[u], m)
  BY ToldTo
<1>. HIDE DEF m
<1>3. u \in route /\ u \in Subscribed
  BY DEF Here, HereRoute, Left, Subscribed
<1>4. m.state = StateOf(v)'
  BY <1>1, <1>2 DEF StateOf, Here, HereRoute
<1>5. WillTell(u, v) => told
  BY <1>1 DEF WillTell
<1>6. m \in Statuses(v)
  BY <1>2, ListSets, Sent
<1>. HIDE DEF told
<1>. QED BY <1>1, <1>2, <1>3, <1>4, <1>5, <1>6, FreshSame

\* Otherwise what has been found out about v is so still, or u will be told.
LEMMA FreshLost ==
    ASSUME TypeOK, [Next]_vars, NEW u \in Users, NEW v \in Users \ {u}, ~LoginTell(v), ~CloseTell(v)
    PROVE  \/ Fresh(u, v) \subseteq Fresh(u, v)'
           \/ (Login(v) \/ CloseRoute(v)) /\ (<<v, u>> \in friend => WillTell(u, v)')
<1>. USE DEF tables, logging, window, ghosts
<1>. DEFINE Goal == Fresh(u, v) \subseteq Fresh(u, v)'
<1>0. friend \subseteq friend'
  BY FriendsGrow
<1>1. CASE Still(v)
  BY <1>0, <1>1, FreshStays
<1>2. CASE Login(v) \/ CloseRoute(v)
  <2>1. phase'[v] \in {"friends", "part"} /\ friend' = friend
    BY <1>2 DEF Login, CloseRoute, TypeOK
  <2>2. <<v, u>> \in friend => WillTell(u, v)'
    BY <2>1 DEF WillTell
  <2>. QED BY <1>2, <2>2
<1>3. ASSUME route' = route, WillTell(u, v) => WillTell(u, v)' PROVE Goal
  BY <1>3, FreshSame
<1>4. CASE LoginFriends(v)
  <2>1. snapshot'[v] = [snapshot[v] EXCEPT !.friends = FriendsOf(v)] /\ phase'[v] = "states" /\ phase[v] = "friends"
    BY <1>4 DEF LoginFriends, TypeOK
  <2>2. snapshot'[v].friends = FriendsOf(v)
    BY <2>1, SnapshotTyped DEF Snapshots
  <2>3. WillTell(u, v) => WillTell(u, v)'
    BY <2>1, <2>2 DEF WillTell, FriendsOf
  <2>. QED BY <1>3, <1>4, <2>3 DEF LoginFriends
<1>5. CASE LoginStates(v) \/ LoginApplies(v)
  <2>. DEFINE l == [w \in Users |-> IF w \in snapshot[v].friends THEN StateOf(w) ELSE "none"]
              a == PendingTo(v)
  <2>1. /\ \/ snapshot'[v] = [snapshot[v] EXCEPT !.list = l]
           \/ snapshot'[v] = [snapshot[v] EXCEPT !.applies = a]
        /\ phase'[v] \in {"applies", "tellOn"} /\ phase[v] \in {"states", "applies"} /\ route' = route
    <3>1. CASE LoginStates(v)
      BY <3>1 DEF LoginStates, TypeOK
    <3>2. CASE LoginApplies(v)
      BY <3>2 DEF LoginApplies, TypeOK
    <3>. QED BY <1>5, <3>1, <3>2
  <2>. HIDE DEF l, a
  <2>2. snapshot'[v].friends = snapshot[v].friends
    BY <2>1, SnapshotTyped DEF Snapshots
  <2>3. WillTell(u, v) => WillTell(u, v)'
    BY <2>1, <2>2 DEF WillTell
  <2>. QED BY <1>3, <2>1, <2>3
<1>7. CASE LoginAck(v) \/ Close(v)
  <2>1. route' = route /\ phase[v] \in {"ack", "on"}
    BY <1>7 DEF LoginAck, Close
  <2>2. ~WillTell(u, v)
    BY <2>1 DEF WillTell
  <2>. QED BY <1>3, <2>1, <2>2
<1>8. CASE CloseFriends(v)
  <2>1. /\ farewell'[v] = FriendsOf(v) /\ phase'[v] = "tellOff" /\ phase[v] = "part" /\ route' = route
        /\ friend' = friend
    BY <1>8 DEF CloseFriends, TypeOK
  <2>2. WillTell(u, v) => WillTell(u, v)'
    BY <2>1 DEF WillTell, FriendsOf
  <2>. QED BY <1>3, <2>1, <2>2
<1>9. CASE Deliver(v)
  BY <1>1, <1>9, DeliverTo
<1>10. CASE ClientRead(v)
  <2>1. UNCHANGED <<phase, snapshot, farewell, route, friend>>
    BY <1>10, WindowRead
  <2>2. WillTell(u, v) => WillTell(u, v)'
    BY <2>1 DEF WillTell
  <2>. QED BY <1>3, <2>1, <2>2
<1>11. CASE \E j \in Jobs : AnswerRespond(j) /\ job[j].to = v
  <2>1. UNCHANGED <<phase, snapshot, farewell, route, friend>>
    BY <1>11 DEF AnswerRespond
  <2>2. WillTell(u, v) => WillTell(u, v)'
    BY <2>1 DEF WillTell
  <2>. QED BY <1>3, <2>1, <2>2
<1>. QED BY <1>1, <1>2, <1>4, <1>5, <1>7, <1>8, <1>9, <1>10, <1>11, UserSteps DEF LoginStep, CloseStep

\* The client reads the next message.
LEMMA AgreesRead ==
    ASSUME TypeOK, Here, NEW u \in Users, NEW v \in Users, ClientRead(u), NEW F, "none" \in F, NEW c, NEW s,
           Agrees(c, inbox[u], phase[u], s, list[u][v], v, F)
    PROVE  Agrees(c, inbox'[u], phase[u], s, list'[u][v], v, F)
<1>. DEFINE m == Head(inbox[u])
            G == Welcome(v, F)
            C == Counts(v)
<1>1. /\ inbox[u] # <<>> /\ inbox'[u] = Tail(inbox[u]) /\ m \in Messages
      /\ inbox[u] \in Seq(Messages) /\ shown[u] \in BOOLEAN
  BY WindowRead DEF TypeOK
<1>2. /\ m \in Logins => shown'[u] /\ list'[u][v] = m.list[v]
      /\ m \notin Logins => shown'[u] = shown[u]
      /\ shown[u] /\ m \in Bounds(v) => list'[u][v] = "online"
      /\ shown[u] /\ m \in Accepts(v) => list'[u][v] = m.state
      /\ shown[u] /\ m \in Statuses(v) =>
           list'[u][v] = IF list[u][v] = "none" THEN "none" ELSE m.state
      /\ m \notin Logins /\ (~shown[u] \/ m \notin Says(v)) => list'[u][v] = list[u][v]
  BY ListRead
<1>3. m = Head(inbox[u])
  OBVIOUS
<1>4. /\ HasLive(inbox[u], TRUE, C) <=> m \in C \/ HasLive(inbox'[u], TRUE, C)
      /\ HasLive(inbox[u], TRUE, Logins) <=> m \in Logins \/ HasLive(inbox'[u], TRUE, Logins)
      /\ HasLive(inbox'[u], TRUE, C) => (LastIn(inbox[u], C, G) <=> LastIn(inbox'[u], C, G))
      /\ ~HasLive(inbox'[u], TRUE, C) => /\ LastIn(inbox[u], C, G) <=> (m \in C => m \in G)
                                         /\ LastIn(inbox'[u], C, G)
  <2>1. /\ HasLive(inbox'[u], TRUE, C) => (LastIn(inbox[u], C, G) <=> LastIn(inbox'[u], C, G))
        /\ ~HasLive(inbox'[u], TRUE, C) => /\ LastIn(inbox[u], C, G) <=> (m \in C => m \in G)
                                           /\ LastIn(inbox'[u], C, G)
    <3>. DEFINE s1 == inbox[u]
                t1 == inbox'[u]
    <3>1. s1 \in Seq(Messages) /\ s1 # <<>> /\ m = Head(s1) /\ t1 = Tail(s1)
      BY <1>1
    <3>. HIDE DEF C, G, m, s1, t1
    <3>2. /\ HasLive(t1, TRUE, C) => (LastIn(s1, C, G) <=> LastIn(t1, C, G))
          /\ ~HasLive(t1, TRUE, C) => LastIn(t1, C, G) /\ (LastIn(s1, C, G) <=> (m \in C => m \in G))
      BY <3>1, LastTaken
    <3>. QED BY <3>2 DEF s1, t1
  <2>2. \A M : HasLive(inbox[u], TRUE, M) <=> m \in M \/ HasLive(inbox'[u], TRUE, M)
    <3>. HIDE DEF m
    <3>. QED BY <1>1, <1>3, HasTail
  <2>. QED BY <2>1, <2>2
<1>5. m \in Logins => m \in C
  BY DEF Counts
<1>6. phase[u] = "on" => shown[u] \/ HasLive(inbox[u], TRUE, Logins)
  BY LoginInMail DEF Here, HereInbox
<1>7. HasLive(inbox'[u], TRUE, Logins) => HasLive(inbox'[u], TRUE, C)
  BY DEF Counts, HasLive
<1>8. m \in C <=> m \in Says(v) \/ m \in Logins
  BY DEF Counts
<1>9. m \in G => Value(m, v) \in F
  BY WelcomeIn
<1>10. /\ m \in Logins => Value(m, v) = m.list[v]
       /\ m \in Bounds(v) => Value(m, v) = "online"
       /\ m \in Accepts(v) \/ m \in Statuses(v) => Value(m, v) = m.state
  <2>. HIDE DEF m
  <2>. QED BY <1>1, ListSets DEF Value
<1>11. m \in Says(v) <=> m \in Statuses(v) \/ m \in Bounds(v) \/ m \in Accepts(v)
  BY DEF Says, Setters
<1>. HIDE DEF m, G, C
<1>12. ASSUME phase[u] = "on", ~HasLive(inbox'[u], TRUE, C), LastIn(inbox[u], C, G),
              ~HasLive(inbox[u], TRUE, C) => list[u][v] \in F
       PROVE  list'[u][v] \in F
  <2>1. CASE m \notin C
    BY <1>2, <1>4, <1>8, <1>12, <2>1
  <2>2. CASE m \in C
    <3>1. Value(m, v) \in F
      BY <1>4, <1>9, <1>12, <2>2
    <3>2. m \notin Logins => shown[u]
      BY <1>4, <1>6, <1>7, <1>12
    <3>3. CASE m \in Logins
      BY <1>2, <1>10, <3>1, <3>3
    <3>4. CASE m \in Says(v) /\ shown[u]
      BY <1>2, <1>10, <1>11, <3>1, <3>4
    <3>. QED BY <1>8, <2>2, <3>2, <3>3, <3>4
  <2>. QED BY <2>1, <2>2
<1>13. Agrees(c, inbox[u], phase[u], s, list[u][v], v, F)
  OBVIOUS
<1>. QED BY <1>4, <1>12, <1>13 DEF Agrees, G, C

LEMMA RightInit == Init => AllRight
BY DEF Init, AllRight, Right, Left

LEMMA RightNext == TypeOK /\ Bonds /\ Here /\ AllKnown /\ AllRight /\ [Next]_vars => AllRight'
<1>. SUFFICES ASSUME TypeOK, Bonds, Here, AllKnown, AllRight, [Next]_vars, NEW u \in Users, NEW v \in Users \ {u},
                     ~broken', v \notin outdated'[u], phase'[u] \notin Left
              PROVE  WindowRight(u, v)' /\ TaskRight(u, v)'
  BY DEF AllRight, Right
<1>. USE DEF tables, logging, window, ghosts
<1>. DEFINE F == Fine(u, v)
            G == Fine(u, v)'
            Goal == Agrees(chan'[u], inbox'[u], phase'[u], snapshot'[u].list[v], list'[u][v], v, G)
            Task == TaskRight(u, v)'
<1>. HIDE DEF F, G, Goal, Task
<1>0. Goal /\ Task => WindowRight(u, v)' /\ TaskRight(u, v)'
  BY RightPrimed DEF Goal, G, Task
\* A login starts from nothing.
<1>1. CASE Login(u)
  <2>1. /\ chan' = chan /\ chan[u] = <<>> /\ phase'[u] = "friends" /\ logins'[u] = logins[u] + 1 /\ job' = job
        /\ logins[u] \in Nat
    BY <1>1 DEF Login, TypeOK
  <2>2. Goal
    <3>1. chan'[u] = <<>>
      BY <2>1
    <3>2. ~HasLive(chan'[u], TRUE, Says(v))
      BY <3>1, LiveNone
    <3>. QED BY <2>1, <3>2, LastNone DEF Goal, Agrees
  <2>3. ASSUME NEW j \in Jobs PROVE ~Settling(u, v, j)'
    <3>1. job[j].op = "answer" /\ job[j].to = u => job[j].conn \in Nat /\ job[j].conn <= logins[u]
      BY Kinds, AnswerFacts DEF Here, HereJob
    <3>. QED BY <2>1, <3>1 DEF Settling
  <2>4. Task
    BY <2>3, RightPrimed DEF Task
  <2>. QED BY <1>0, <2>2, <2>4
<1>2. CASE ~Login(u)
  <2>1. /\ phase[u] \notin Left /\ logins'[u] = logins[u] /\ ~CloseStep(u) /\ ~broken /\ v \notin outdated[u]
        /\ friend \subseteq friend'
    BY <1>2, StaysIn, FriendsGrow, OutdatedGrows
  <2>2. WindowRight(u, v) /\ TaskRight(u, v)
    BY <2>1 DEF AllRight, Right
  <2>3. Agrees(chan[u], inbox[u], phase[u], snapshot[u].list[v], list[u][v], v, F)
    BY <2>2 DEF WindowRight, F
  <2>4. \A j \in Jobs : Settling(u, v, j) =>
           job[j].state \in Fresh(u, v) \/ HasLive(chan[u], TRUE, Statuses(v))
    BY <2>2 DEF TaskRight
  <2>5. /\ chan[u] \in Seq(Notifications) /\ inbox[u] \in Seq(Messages) /\ Notifications \subseteq Messages
        /\ "none" \in F /\ "none" \in G
        /\ \A j \in Jobs : Settling(u, v, j) => job[j].state \in States
    <3>1. \A j \in Jobs : Settling(u, v, j) => job[j].state \in States
      BY Kinds, AnswerFacts DEF Settling
    <3>. QED BY <3>1, Sent, FreshIn DEF TypeOK, F, G
  <2>6. ASSUME \A j \in Jobs : Settling(u, v, j) =>
                  job[j].state \in Fresh(u, v)' \/ HasLive(chan'[u], TRUE, Statuses(v))
        PROVE  Task
    BY <2>1, <2>6, TaskStays DEF Task
  <2>7. u \in route /\ u \in Subscribed
    BY <2>1 DEF Here, HereRoute, Left, Subscribed
  <2>8. ASSUME NEW m \in Notifications, chan'[u] = Append(chan[u], m), NEW M, HasLive(chan[u], TRUE, M)
        PROVE  HasLive(chan'[u], TRUE, M)
    BY <2>5, <2>8, LiveMore
  <2>9. ASSUME F \subseteq G, NEW c, NEW i, NEW p, NEW s, NEW x, Agrees(c, i, p, s, x, v, F)
        PROVE  Agrees(c, i, p, s, x, v, G)
    BY <2>9, AgreesMore
\* u is told of v.
  <2>10. ASSUME Still(u), inbox'[u] = inbox[u], NEW m \in Notifications, chan'[u] = Append(chan[u], m),
                m \in Says(v), Value(m, v) = StateOf(v)'
         PROVE  Goal
    <3>1. Value(m, v) \in G
      BY <2>10, FreshIn DEF G
    <3>2. Agrees(chan'[u], inbox[u], phase[u], snapshot[u].list[v], list[u][v], v, G)
      BY <2>5, <2>10, <3>1, AgreesSaid
    <3>. QED BY <2>10, <3>2 DEF Goal, Still
  <2>11. CASE LoginTell(v) \/ CloseTell(v)
    <3>1. Still(u) /\ inbox'[u] = inbox[u] /\ UNCHANGED <<job, friend, broken>>
      BY <2>11, OtherUser DEF LoginStep, CloseStep
    <3>2. CASE chan'[u] = chan[u] /\ Fresh(u, v) \subseteq Fresh(u, v)'
      <4>1. WillBind(u, v) => WillBind(u, v)'
        BY <3>1 DEF WillBind
      <4>2. F \subseteq G
        BY <3>2, <4>1, FineStays DEF F, G
      <4>3. Goal
        BY <2>3, <2>9, <3>1, <3>2, <4>2 DEF Goal, Still
      <4>4. Task
        BY <2>4, <2>6, <3>2
      <4>. QED BY <1>0, <4>3, <4>4
    <3>3. ASSUME NEW m \in Notifications, m \in Statuses(v), m.state = StateOf(v)', chan'[u] = Append(chan[u], m)
          PROVE  Goal /\ Task
      <4>1. m \in Says(v) /\ Value(m, v) = StateOf(v)'
        BY <3>3 DEF Says, Statuses, Value
      <4>2. HasLive(chan'[u], TRUE, Statuses(v))
        BY <2>5, <3>3, LiveMore
      <4>. QED BY <2>6, <2>10, <3>1, <3>3, <4>1, <4>2
    <3>. QED BY <1>0, <2>1, <2>11, <3>2, <3>3, ToldState
\* v comes or goes, and will tell u, if u is a friend.
  <2>12. CASE (Login(v) \/ CloseRoute(v)) /\ (<<v, u>> \in friend => WillTell(u, v)')
    <3>1. Still(u) /\ inbox'[u] = inbox[u] /\ UNCHANGED <<job, friend, broken>>
      BY <2>12, OtherUser DEF LoginStep, CloseStep
    <3>2. chan' = chan
      BY <2>12 DEF Login, CloseRoute
    <3>3. ASSUME States \subseteq G PROVE Goal
      <4>1. F \subseteq G
        BY <3>3 DEF F, Fine
      <4>. QED BY <2>3, <2>9, <3>1, <3>2, <4>1 DEF Goal, Still
    <3>4. CASE ~Linked(u, v)
      <4>1. ~Mentioned(u, v)
        BY <2>1, <3>4 DEF AllKnown, Known
      <4>2. Agrees(chan[u], inbox[u], phase[u], snapshot[u].list[v], list[u][v], v, G)
        BY <2>5, <4>1, AgreesNone
      <4>3. Goal
        BY <3>1, <3>2, <4>2 DEF Goal, Still
      <4>4. \A j \in Jobs : ~Settling(u, v, j)
        BY <2>1, <3>4 DEF Bonds, Tied, Both, Linked, Settling
      <4>5. Task
        BY <2>6, <4>4
      <4>. QED BY <1>0, <4>3, <4>5
    <3>5. CASE <<v, u>> \in friend
      <4>1. States \subseteq Fresh(u, v)' /\ States \subseteq G
        BY <2>12, <3>5, FreshIn DEF G
      <4>2. Task
        BY <2>5, <2>6, <4>1
      <4>. QED BY <1>0, <3>3, <4>1, <4>2
    <3>6. CASE <<u, v>> \in friend /\ <<v, u>> \notin friend
      <4>1. WillBind(u, v)
        BY <2>1, <3>6 DEF Bonds, Backed, WillBind, At
      <4>2. WillBind(u, v)'
        BY <3>1, <4>1 DEF WillBind
      <4>3. States \subseteq G
        BY <4>2, FreshIn DEF G
      <4>4. \A j \in Jobs : ~Settling(u, v, j)
        BY <2>1, <3>6 DEF Bonds, Tied, Both, Settling
      <4>5. Task
        BY <2>6, <4>4
      <4>. QED BY <1>0, <3>3, <4>3, <4>5
    <3>. QED BY <3>4, <3>5, <3>6 DEF Linked
  <2>. SUFFICES ASSUME ~LoginTell(v), ~CloseTell(v), Fresh(u, v) \subseteq Fresh(u, v)'
                PROVE  Goal /\ Task
    BY <1>0, <2>11, <2>12, FreshLost
  <2>13. ASSUME HasLive(chan[u], TRUE, Statuses(v)) => HasLive(chan'[u], TRUE, Statuses(v)) PROVE Task
    BY <2>4, <2>6, <2>13
\* u is told that v has accepted.
  <2>14. ASSUME NEW j \in Jobs, AnswerPublish(j), job[j].from = u, job[j].to = v PROVE Goal /\ Task
    <3>. DEFINE m == [kind |-> "bound", uid |-> job[j].to]
    <3>1. /\ m \in Notifications /\ m.kind = "bound" /\ m.uid = v /\ chan'[u] = Append(chan[u], m)
      BY <2>7, <2>14, BoundTo
    <3>. HIDE DEF m
    <3>2. Still(u) /\ inbox'[u] = inbox[u] /\ route' = route
      BY <2>14 DEF AnswerPublish, Still
    <3>3. v \in route
      <4>1. outdated' = IF v \in route THEN outdated ELSE [outdated EXCEPT ![u] = @ \cup {v}]
        BY <2>14 DEF AnswerPublish
      <4>. QED BY <4>1 DEF TypeOK
    <3>4. m \in Says(v) /\ Value(m, v) = StateOf(v)'
      <4>1. m \in Bounds(v)
        BY <2>5, <3>1, ListSets
      <4>. QED BY <3>1, <3>2, <3>3, <4>1 DEF Says, Setters, Value, StateOf
    <3>. QED BY <2>8, <2>10, <2>13, <3>1, <3>2, <3>4
  <2>. SUFFICES ASSUME \A j \in Jobs : ~(AnswerPublish(j) /\ job[j].from = u /\ job[j].to = v)
                PROVE  Goal /\ Task
    BY <2>14
  <2>15. F \subseteq G
    <3>1. WillBind(u, v) => WillBind(u, v)'
      BY <2>1, BindStays
    <3>. QED BY <3>1, FineStays DEF F, G
  <2>16. Agrees(chan[u], inbox[u], phase[u], snapshot[u].list[v], list[u][v], v, G)
    BY <2>3, <2>9, <2>15
  <2>17. CASE Still(u) /\ inbox'[u] = inbox[u] /\ chan'[u] = chan[u]
    <3>1. Goal
      BY <2>16, <2>17 DEF Goal, Still
    <3>. QED BY <2>13, <2>17, <3>1
\* Something else is published to u.
  <2>18. ASSUME Still(u), inbox'[u] = inbox[u], NEW m \in Notifications, chan'[u] = Append(chan[u], m),
                m \notin Says(v)
         PROVE  Goal /\ Task
    <3>1. Agrees(chan'[u], inbox[u], phase[u], snapshot[u].list[v], list[u][v], v, G)
      BY <2>5, <2>16, <2>18, AgreesOther
    <3>2. Goal
      BY <2>18, <3>1 DEF Goal, Still
    <3>. QED BY <2>8, <2>13, <2>18, <3>2
  <2>19. ASSUME Still(u), inbox'[u] = inbox[u], NEW w \in Users \ {v}, LoginTell(w) \/ CloseTell(w) PROVE Goal /\ Task
    <3>. DEFINE m == StatusFrom(w, IF LoginTell(w) THEN "online" ELSE "offline")
    <3>1. m \in Notifications /\ m.uid = w /\ (chan'[u] = chan[u] \/ chan'[u] = Append(chan[u], m))
      BY <2>19, ToldTo
    <3>. HIDE DEF m
    <3>2. m \notin Says(v)
      BY <2>5, <3>1, ListSets DEF Says, Setters
    <3>. QED BY <2>17, <2>18, <2>19, <3>1, <3>2
  <2>20. CASE /\ Still(u) /\ inbox'[u] = inbox[u]
              /\ \/ \E w \in Users \ {u} : LoginTell(w) \/ CloseTell(w)
                 \/ \E j \in Jobs : ApplyPublish(j) \/ AnswerPublish(j)
    <3>1. ASSUME NEW j \in Jobs, ApplyPublish(j) PROVE Goal /\ Task
      <4>1. CASE chan'[u] = chan[u]
        BY <2>17, <2>20, <4>1
      <4>2. ASSUME NEW m \in Notifications, m.kind = "apply", chan'[u] = Append(chan[u], m) PROVE Goal /\ Task
        <5>1. m \notin Says(v)
          BY <2>5, <4>2, ListSets DEF Says, Setters
        <5>. QED BY <2>18, <2>20, <4>2, <5>1
      <4>. QED BY <3>1, <4>1, <4>2, AnnouncedTo
    <3>2. ASSUME NEW j \in Jobs, AnswerPublish(j) PROVE Goal /\ Task
      <4>. DEFINE m == [kind |-> "bound", uid |-> job[j].to]
      <4>1. /\ m \in Notifications /\ m.kind = "bound" /\ m.uid = job[j].to
            /\ chan'[u] = IF u = job[j].from /\ u \in Subscribed THEN Append(chan[u], m) ELSE chan[u]
        BY <3>2, BoundTo
      <4>. HIDE DEF m
      <4>2. job[j].from = u => job[j].to # v
        BY <3>2
      <4>3. job[j].to # v => m \notin Says(v)
        BY <2>5, <4>1, ListSets DEF Says, Setters
      <4>. QED BY <2>17, <2>18, <2>20, <4>1, <4>2, <4>3
    <3>. QED BY <2>19, <2>20, <3>1, <3>2
  <2>21. CASE Deliver(u)
    <3>. DEFINE m == Head(chan[u])
    <3>1. /\ chan[u] # <<>> /\ chan'[u] = Tail(chan[u]) /\ Still(u)
          /\ inbox'[u] = IF Connected(u) THEN Append(inbox[u], m) ELSE inbox[u]
          /\ outdated'[u] = outdated[u] \cup Overtaken(u, m)
          /\ m \in Notifications /\ m \in Messages
          /\ HasLive(chan[u], TRUE, Statuses(v)) <=> m \in Statuses(v) \/ HasLive(chan'[u], TRUE, Statuses(v))
      BY <2>21, DeliverTo
    <3>2. m = Head(chan[u])
      OBVIOUS
    <3>. HIDE DEF m
    <3>3. Connected(u)
      BY <2>1 DEF Connected, Left
    <3>4. /\ m \in Says(v) => m.uid = v /\ m.kind \in {"status", "bound"}
          /\ m \in Statuses(v) => m.uid = v /\ m.kind = "status"
          /\ m \notin Logins
      BY <3>1, ListSets, Received DEF Says, Setters
    <3>5. v \notin Overtaken(u, m)
      BY <3>1
    <3>6. phase[u] \notin {"applies", "tellOn", "ack"} \/ m \notin Says(v)
      BY <3>4, <3>5 DEF Overtaken
    <3>7. Agrees(chan'[u], inbox'[u], phase[u], snapshot[u].list[v], list[u][v], v, G)
      <4>. DEFINE c == chan[u]
                  t == chan'[u]
                  i == inbox[u]
                  n == inbox'[u]
                  p == phase[u]
                  s == snapshot[u].list[v]
                  x == list[u][v]
      <4>1. /\ c \in Seq(Messages) /\ c # <<>> /\ m = Head(c) /\ t = Tail(c) /\ i \in Seq(Messages)
            /\ n = Append(i, m)
        <5>1. c \in Seq(Messages)
          BY <2>5, SeqMono
        <5>. QED BY <2>5, <3>1, <3>2, <3>3, <5>1
      <4>2. Agrees(c, i, p, s, x, v, G) /\ (p \notin {"applies", "tellOn", "ack"} \/ m \notin Says(v))
        BY <2>16, <3>6
      <4>. HIDE DEF c, t, i, n, p, s, x
      <4>3. Agrees(t, n, p, s, x, v, G)
        BY <3>1, <3>4, <4>1, <4>2, AgreesMoved
      <4>. QED BY <4>3 DEF t, n, p, s, x
    <3>8. Goal
      BY <3>1, <3>7 DEF Goal, Still
    <3>9. ASSUME NEW j \in Jobs, Settling(u, v, j) PROVE m \notin Statuses(v)
      BY <3>4, <3>5, <3>9 DEF Overtaken, Settling
    <3>10. Task
      BY <2>4, <2>6, <3>1, <3>9
    <3>. QED BY <3>8, <3>10
  <2>22. CASE LoginStep(u)
    <3>1. /\ UNCHANGED <<list, job>>
          /\ HasLive(chan[u], TRUE, Statuses(v)) => HasLive(chan'[u], TRUE, Statuses(v))
      <4>1. UNCHANGED chan \/ LoginTell(u)
        BY <1>2, <2>22 DEF LoginStep, LoginFriends, LoginStates, LoginApplies, LoginAck
      <4>2. UNCHANGED <<list, job>>
        BY <1>2, <2>22 DEF LoginStep, LoginFriends, LoginStates, LoginApplies, LoginTell, LoginAck
      <4>3. CASE LoginTell(u)
        <5>. DEFINE m == StatusFrom(u, IF LoginTell(u) THEN "online" ELSE "offline")
        <5>1. m \in Notifications /\ (chan'[u] = chan[u] \/ chan'[u] = Append(chan[u], m))
          BY <4>3, ToldTo
        <5>. HIDE DEF m
        <5>. QED BY <2>8, <4>2, <5>1
      <4>. QED BY <4>1, <4>2, <4>3
    <3>2. Task
      BY <2>13, <3>1
    <3>3. CASE LoginFriends(u)
      <4>1. phase'[u] = "states" /\ UNCHANGED <<chan, inbox>>
        BY <3>3 DEF LoginFriends, TypeOK
      <4>. QED BY <2>16, <3>1, <3>2, <4>1 DEF Goal, Agrees
    <3>4. CASE LoginStates(u)
      <4>. DEFINE l == [w \in Users |-> IF w \in snapshot[u].friends THEN StateOf(w) ELSE "none"]
      <4>1. /\ snapshot'[u] = [snapshot[u] EXCEPT !.list = l] /\ phase'[u] = "applies" /\ UNCHANGED <<chan, inbox, route>>
        BY <3>4 DEF LoginStates, TypeOK
      <4>2. l[v] \in {"none", StateOf(v)}
        OBVIOUS
      <4>. HIDE DEF l
      <4>3. snapshot'[u].list = l
        BY <4>1, SnapshotTyped DEF Snapshots
      <4>4. StateOf(v)' = StateOf(v)
        BY <4>1 DEF StateOf
      <4>5. l[v] \in G
        BY <2>5, <4>2, <4>4, FreshIn DEF G
      <4>. QED BY <2>16, <3>1, <3>2, <4>1, <4>3, <4>5 DEF Goal, Agrees
    <3>5. CASE LoginApplies(u)
      <4>1. /\ snapshot'[u] = [snapshot[u] EXCEPT !.applies = PendingTo(u)] /\ UNCHANGED <<chan, inbox>>
            /\ phase'[u] = "tellOn" /\ phase[u] = "applies"
        BY <3>5 DEF LoginApplies, TypeOK
      <4>2. snapshot'[u].list = snapshot[u].list
        BY <4>1, SnapshotTyped DEF Snapshots
      <4>. QED BY <2>16, <3>1, <3>2, <4>1, <4>2 DEF Goal, Agrees
    <3>6. CASE LoginTell(u)
      <4>. DEFINE m == StatusFrom(u, IF LoginTell(u) THEN "online" ELSE "offline")
      <4>1. m \in Notifications /\ m.uid = u /\ (chan'[u] = chan[u] \/ chan'[u] = Append(chan[u], m))
        BY <3>6, ToldTo
      <4>2. UNCHANGED <<snapshot, inbox>> /\ phase'[u] = "ack" /\ phase[u] = "tellOn"
        BY <3>6 DEF LoginTell, TypeOK
      <4>. HIDE DEF m
      <4>3. m \notin Says(v)
        BY <2>5, <4>1, ListSets DEF Says, Setters
      <4>4. Agrees(chan'[u], inbox[u], phase[u], snapshot[u].list[v], list[u][v], v, G)
        <5>1. CASE chan'[u] = chan[u]
          BY <2>16, <5>1
        <5>2. CASE chan'[u] = Append(chan[u], m)
          BY <2>5, <2>16, <4>1, <4>3, <5>2, AgreesOther
        <5>. QED BY <4>1, <5>1, <5>2
      <4>. QED BY <3>1, <3>2, <4>2, <4>4 DEF Goal, Agrees
    <3>7. CASE LoginAck(u)
      <4>. DEFINE m == [kind |-> "login", list |-> snapshot[u].list, applies |-> snapshot[u].applies]
      <4>1. phase'[u] = "on" /\ phase[u] = "ack" /\ inbox'[u] = Append(inbox[u], m) /\ chan' = chan
        BY <3>7 DEF LoginAck, TypeOK
      <4>2. m \in Messages /\ m.kind = "login" /\ m.list = snapshot[u].list
        BY Sent, SnapshotTyped, SnapshotFacts
      <4>. HIDE DEF m
      <4>3. m \in Counts(v) /\ Value(m, v) = snapshot[u].list[v]
        BY <4>2, ListSets DEF Counts, Value
      <4>4. HasLive(chan[u], TRUE, Says(v)) \/ Value(m, v) \in G
        BY <2>16, <4>1, <4>3 DEF Agrees
      <4>. DEFINE r == snapshot'[u].list[v]
      <4>. HIDE DEF r
      <4>5. Agrees(chan[u], inbox'[u], "on", r, list[u][v], v, G)
        BY <2>5, <2>16, <4>1, <4>2, <4>3, <4>4, AgreesWritten
      <4>. QED BY <3>1, <3>2, <4>1, <4>5 DEF Goal, r
    <3>. QED BY <1>2, <2>22, <3>3, <3>4, <3>5, <3>6, <3>7 DEF LoginStep
  <2>23. CASE ClientRead(u)
    <3>1. UNCHANGED <<phase, snapshot, chan, job>>
      BY <2>23, WindowRead
    <3>2. Agrees(chan[u], inbox'[u], phase[u], snapshot[u].list[v], list'[u][v], v, G)
      BY <2>5, <2>16, <2>23, AgreesRead
    <3>3. Goal
      BY <3>1, <3>2 DEF Goal
    <3>. QED BY <2>13, <3>1, <3>3
  <2>24. ASSUME NEW j \in Jobs, AnswerRespond(j), job[j].to = u PROVE Goal /\ Task
    <3>. DEFINE m == [kind |-> "answer", id |-> job[j].id, yes |-> job[j].yes, uid |-> job[j].from,
                      state |-> job[j].state]
    <3>1. /\ Still(u) /\ chan' = chan /\ job[j].op = "answer" /\ job[j].at = "respond"
          /\ m \in Messages /\ m.kind = "answer" /\ m.uid = job[j].from /\ m.state = job[j].state
          /\ m.yes <=> job[j].yes
          /\ \/ inbox'[u] = Append(inbox[u], m) /\ shown[u] /\ logins[u] = job[j].conn
             \/ inbox'[u] = inbox[u]
      BY <2>24, AnsweredTo
    <3>. HIDE DEF m
    <3>2. CASE inbox'[u] = inbox[u]
      BY <2>17, <3>1, <3>2
    <3>3. CASE inbox'[u] = Append(inbox[u], m) /\ shown[u] /\ logins[u] = job[j].conn
      <4>1. phase[u] = "on"
        BY <3>3 DEF Here, HereWindow
      <4>2. m \in Counts(v) => m \in Accepts(v) /\ m.uid = v /\ m.yes /\ Value(m, v) = m.state
        BY <3>1, ListSets DEF Counts, Says, Setters, Value
      <4>3. m \in Counts(v) => HasLive(chan[u], TRUE, Says(v)) \/ Value(m, v) \in G
        <5>. SUFFICES ASSUME m \in Counts(v) PROVE HasLive(chan[u], TRUE, Says(v)) \/ Value(m, v) \in G
          OBVIOUS
        <5>1. Settling(u, v, j)
          BY <2>24, <3>1, <3>3, <4>2 DEF Settling
        <5>2. job[j].state \in Fresh(u, v) \/ HasLive(chan[u], TRUE, Statuses(v))
          BY <2>4, <5>1
        <5>3. HasLive(chan[u], TRUE, Statuses(v)) => HasLive(chan[u], TRUE, Says(v))
          BY DEF HasLive, Says
        <5>. QED BY <3>1, <4>2, <5>2, <5>3, FreshIn DEF G
      <4>4. Agrees(chan[u], inbox'[u], phase[u], snapshot[u].list[v], list[u][v], v, G)
        <5>. DEFINE i == inbox[u]
                    n == inbox'[u]
                    p == phase[u]
                    s == snapshot[u].list[v]
                    x == list[u][v]
        <5>1. /\ Agrees(chan[u], i, p, s, x, v, G) /\ i \in Seq(Messages) /\ m \in Messages
              /\ n = Append(i, m) /\ p = "on"
          BY <2>5, <2>16, <3>1, <3>3, <4>1
        <5>. HIDE DEF i, n, p, s, x
        <5>2. ASSUME m \in Counts(v) PROVE Agrees(chan[u], n, p, s, x, v, G)
          BY <4>3, <5>1, <5>2, AgreesWritten
        <5>3. ASSUME m \notin Counts(v) PROVE Agrees(chan[u], n, p, s, x, v, G)
          BY <5>1, <5>3, AgreesWritten
        <5>4. Agrees(chan[u], n, p, s, x, v, G)
          BY <5>2, <5>3
        <5>. QED BY <5>4 DEF n, p, s, x
      <4>5. Goal
        BY <3>1, <4>4 DEF Goal, Still
      <4>. QED BY <2>13, <3>1, <4>5
    <3>. QED BY <3>1, <3>2, <3>3
  <2>. QED BY <2>1, <2>17, <2>20, <2>21, <2>22, <2>23, <2>24, UserSteps
<1>. QED BY <1>1, <1>2

\* Once nothing is under way, only what is in the window is left of it all.
LEMMA RightShown == TypeOK /\ Bonds /\ AllKnown /\ AllMade /\ AllRight => FriendsShown
<1>. SUFFICES ASSUME TypeOK, Bonds, AllKnown, AllMade, AllRight, NEW u \in Users, NEW v \in Users,
                     Quiet(u), v \notin outdated[u], ~broken
              PROVE  list[u][v] = IF <<u, v>> \in friend THEN StateOf(v) ELSE "none"
  BY DEF FriendsShown
<1>1. /\ phase[u] = "on" /\ chan[u] = <<>> /\ inbox[u] = <<>> /\ phase[v] \in {"on", "off"}
      /\ phase[u] \notin Left /\ \A j \in Jobs : job[j].at = "done"
  BY DEF Quiet, Active, Left
<1>2. \A M : ~HasLive(chan[u], TRUE, M) /\ ~HasLive(inbox[u], TRUE, M) /\ ~HasLive(inbox[u], shown[u], M)
  BY <1>1, LiveNone
<1>3. ~WillBind(u, v) /\ ~WillAnswer(u, v) /\ ~WillTell(u, v)
  BY <1>1 DEF WillBind, WillAnswer, WillTell
<1>4. CASE <<u, v>> \in friend
  <2>1. u # v
    BY <1>4 DEF Bonds, Backed
  <2>2. list[u][v] # "none"
    <3>1. Noted(u, v)
      BY <1>1, <1>2, <1>3, <1>4 DEF AllMade, Made, Making
    <3>. QED BY <1>1, <1>2, <3>1 DEF Noted, Listed
  <2>3. list[u][v] \in Fine(u, v)
    <3>1. WindowRight(u, v)
      BY <1>1, <2>1 DEF AllRight, Right
    <3>. QED BY <1>1, <1>2, <3>1 DEF WindowRight, Agrees
  <2>. QED BY <1>3, <1>4, <2>2, <2>3 DEF Fine, Fresh
<1>5. CASE <<u, v>> \notin friend
  <2>1. list[u][v] # "none" => <<v, u>> \in friend
    BY <1>5 DEF AllKnown, Known, Mentioned, Linked
  <2>2. <<v, u>> \notin friend
    BY <1>1, <1>5 DEF Bonds, Backed, At
  <2>. QED BY <1>5, <2>1, <2>2
<1>. QED BY <1>4, <1>5

-----------------------------------------------------------------------------
(* The theorems. *)

\* Whatever is stored, sent or shown has its type, and an id is that of a row.
THEOREM TypeCorrect == Spec => []TypeOK
<1>. QED BY InitTyped, TypeNext, PTL DEF Spec

\* A pair has one open request, however often the button is pressed and however the
\* tasks interleave, unless two tasks for it overlapped (friendrequestmodel.cpp:20).
THEOREM OnePendingAlways == Spec => []OnePending
<1>. DEFINE Inv == TypeOK /\ PairsOpen
<1>1. Inv => OnePending
  BY OpenPairs
<1>2. Init => Inv
  BY InitTyped, PairsInit
<1>3. Inv /\ [Next]_vars => Inv'
  BY TypeNext, PairsNext
<1>. QED BY <1>1, <1>2, <1>3, PTL DEF Spec

\* A friendship exists in both directions and in both caches once a request was
\* accepted, and only then, unless MySQL refused a row (friendmodel.cpp:17) or the
\* request was answered both ways.
THEOREM FriendsAsAnsweredAlways == Spec => []FriendsAsAnswered
<1>. DEFINE Inv == TypeOK /\ Addressed /\ Answered /\ Bonds
<1>1. Inv => FriendsAsAnswered
  BY BondsAsAnswered
<1>2. Init => Inv
  BY InitTyped, AddressedInit, AnsweredInit, BondsInit
<1>3. Inv /\ [Next]_vars => Inv'
  BY TypeNext, AddressedNext, AnsweredNext, BondsNext
<1>. QED BY <1>1, <1>2, <1>3, PTL DEF Spec

\* The window of a user shows every open request once nothing is under way, also one
\* made while that user logged in, and beyond those only what was announced twice.
THEOREM AppliesShownAlways == Spec => []AppliesShown
<1>. DEFINE Inv == TypeOK /\ Addressed /\ Answered /\ Here /\ Announcements
<1>1. Inv => AppliesShown
  BY AnnouncedShown
<1>2. Init => Inv
  BY InitTyped, AddressedInit, AnsweredInit, HereInit, AnnouncementsInit
<1>3. Inv /\ [Next]_vars => Inv'
  BY TypeNext, AddressedNext, AnsweredNext, HereNext, AnnouncementsNext
<1>. QED BY <1>1, <1>2, <1>3, PTL DEF Spec

\* Once nothing is under way, the window of a user shows the friends there are with
\* the state they are in, however logins, closes and acceptances crossed, except
\* where a message with what had been looked up before came after the notification.
THEOREM FriendsShownAlways == Spec => []FriendsShown
<1>. DEFINE Inv == TypeOK /\ Addressed /\ Answered /\ Bonds /\ Here /\ AllKnown /\ AllMade /\ AllRight
<1>1. Inv => FriendsShown
  BY RightShown
<1>2. Init => Inv
  BY InitTyped, AddressedInit, AnsweredInit, BondsInit, HereInit, KnownInit, MadeInit, RightInit
<1>3. Inv /\ [Next]_vars => Inv'
  BY TypeNext, AddressedNext, AnsweredNext, BondsNext, HereNext, KnownNext, MadeNext, RightNext
<1>. QED BY <1>1, <1>2, <1>3, PTL DEF Spec
=============================================================================
