---------------------------- MODULE ClientProofs ----------------------------
(***************************************************************************)
(* Proofs about Client for any messages, any window and any limits: type   *)
(* correctness, that a message being sent is waited for, that the status   *)
(* of a message is right once all answers are in, that a message is shown  *)
(* once while its id is remembered, and that the stored key passes no      *)
(* message that was not shown, except one that came when there was no      *)
(* ChatWidget. Then, for Snowflake: that the ids of a                      *)
(* client increase and none is given twice. At the end, for Protocol: that *)
(* the two sides write the same bytes and read them alike, that every      *)
(* message comes through as it was meant, and so does every id.            *)
(***************************************************************************)
EXTENDS Client, Protocol, FiniteSetTheorems, SequenceTheorems, TLAPS

\* What the server says.
Ack(m, ok) == [kind |-> "ack", id |-> m, ok |-> ok]
LoginAck(ok) == [kind |-> "login", ok |-> ok]
Push(p) == [kind |-> "push", id |-> p]
Synced(ids, key) == [kind |-> "synced", ids |-> ids, key |-> key]
Replies ==
    {LoginAck(ok) : ok \in BOOLEAN} \cup {[kind |-> "note"]}
        \cup {Ack(m, ok) : m \in Sends, ok \in BOOLEAN} \cup {Push(p) : p \in Arrivals}
        \cup {Synced(ids, key) : ids \in Seq(Arrivals), key \in 0..LastArrival}

Entries == [on : BOOLEAN, retry : 0..MaxRetry, skips : 0..MaxSkips]

Typed ==
    /\ TypeOK
    /\ down \in Seq(Replies) /\ readBuffer \in Seq(Replies) /\ shown \in [Arrivals -> Nat]

LEMMA LimitFacts ==
    /\ LastArrival \in Nat /\ MaxRetry \in Nat /\ MaxSkips \in Nat /\ MaxInputs \in Nat
    /\ Window \in Nat \ {0} /\ LastArrival > 0 /\ Sends \subseteq Nat
BY LimitsAssumption

LEMMA EntryFacts ==
    /\ NoEntry \in Entries /\ NoEntry.on = FALSE /\ NewEntry \in Entries /\ NewEntry.on = TRUE
<1>1. 0 \in 0..MaxRetry /\ 0 \in 0..MaxSkips
  BY LimitFacts
<1>2. NoEntry \in Entries /\ NoEntry.on = FALSE
  BY <1>1 DEF NoEntry, Entries
<1>3. NewEntry \in Entries /\ NewEntry.on = TRUE
  BY <1>1 DEF NewEntry, Entries
<1>. QED BY <1>2, <1>3

LEMMA PacketFacts ==
    /\ Login \in Packets /\ Receipt \in Packets
    /\ \A m \in Sends : Chat(m) \in Packets
    /\ \A u \in BOOLEAN, k \in 0..LastArrival : Sync(u, k) \in Packets
    /\ \A r \in Packets :
          \/ r = Login \/ r = Receipt \/ \E m \in Sends : r = Chat(m)
          \/ \E u \in BOOLEAN, k \in 0..LastArrival : r = Sync(u, k)
BY DEF Packets

LEMMA ReplyFacts ==
    /\ [kind |-> "note"] \in Replies /\ \A ok \in BOOLEAN : LoginAck(ok) \in Replies
    /\ \A m \in Sends, ok \in BOOLEAN : Ack(m, ok) \in Replies
    /\ \A p \in Arrivals : Push(p) \in Replies
    /\ \A ids \in Seq(Arrivals), key \in 0..LastArrival : Synced(ids, key) \in Replies
<1>1. [kind |-> "note"] \in Replies /\ \A ok \in BOOLEAN : LoginAck(ok) \in Replies
  BY DEF Replies
<1>2. \A m \in Sends, ok \in BOOLEAN : Ack(m, ok) \in Replies
  BY DEF Replies
<1>3. \A p \in Arrivals : Push(p) \in Replies
  BY DEF Replies
<1>4. \A ids \in Seq(Arrivals), key \in 0..LastArrival : Synced(ids, key) \in Replies
  BY DEF Replies
<1>. QED BY <1>1, <1>2, <1>3, <1>4

LEMMA ReplyKinds ==
    ASSUME NEW r \in Replies
    PROVE  /\ r.kind = "ack" => r.id \in Sends /\ r.ok \in BOOLEAN /\ r = Ack(r.id, r.ok)
           /\ r.kind = "push" => r.id \in Arrivals
           /\ r.kind = "synced" =>
                 r.ids \in Seq(Arrivals) /\ r.key \in 0..LastArrival /\ r = Synced(r.ids, r.key)
<1>1. CASE r = [kind |-> "note"]
  BY <1>1
<1>6. ASSUME NEW ok \in BOOLEAN, r = LoginAck(ok) PROVE r.kind = "login"
  BY <1>6 DEF LoginAck
<1>2. ASSUME NEW m \in Sends, NEW ok \in BOOLEAN, r = Ack(m, ok)
      PROVE  r.kind = "ack" /\ r.id = m /\ r.ok = ok
  BY <1>2 DEF Ack
<1>3. ASSUME NEW p \in Arrivals, r = Push(p)
      PROVE  r.kind = "push" /\ r.id = p
  BY <1>3 DEF Push
<1>4. ASSUME NEW ids \in Seq(Arrivals), NEW key \in 0..LastArrival, r = Synced(ids, key)
      PROVE  r.kind = "synced" /\ r.ids = ids /\ r.key = key
  BY <1>4 DEF Synced
<1>5. \/ r = [kind |-> "note"] \/ \E ok \in BOOLEAN : r = LoginAck(ok)
      \/ \E m \in Sends, ok \in BOOLEAN : r = Ack(m, ok)
      \/ \E p \in Arrivals : r = Push(p)
      \/ \E ids \in Seq(Arrivals), key \in 0..LastArrival : r = Synced(ids, key)
  BY DEF Replies
<1>. QED BY <1>1, <1>2, <1>3, <1>4, <1>5, <1>6

\* ToSet and the operators on sequences.
LEMMA SetOfAppend ==
    ASSUME NEW T, NEW s \in Seq(T), NEW e \in T
    PROVE  Append(s, e) \in Seq(T) /\ ToSet(Append(s, e)) = ToSet(s) \cup {e}
<1>1. /\ Append(s, e) \in Seq(T) /\ Len(Append(s, e)) = Len(s) + 1
      /\ Append(s, e)[Len(s) + 1] = e /\ \A i \in 1..Len(s) : Append(s, e)[i] = s[i]
  BY AppendProperties
<1>2. /\ DOMAIN s = 1..Len(s) /\ Len(s) \in Nat
      /\ DOMAIN Append(s, e) = 1..(Len(s) + 1)
  BY <1>1, LenProperties
<1>. QED BY <1>1, <1>2 DEF ToSet

LEMMA SetOfConcat ==
    ASSUME NEW T, NEW s \in Seq(T), NEW t \in Seq(T)
    PROVE  s \o t \in Seq(T) /\ ToSet(s \o t) = ToSet(s) \cup ToSet(t)
<1>1. /\ s \o t \in Seq(T) /\ Len(s \o t) = Len(s) + Len(t)
      /\ \A i \in 1..(Len(s) + Len(t)) :
            (s \o t)[i] = IF i <= Len(s) THEN s[i] ELSE t[i - Len(s)]
  BY ConcatProperties
<1>2. /\ DOMAIN s = 1..Len(s) /\ Len(s) \in Nat /\ DOMAIN t = 1..Len(t) /\ Len(t) \in Nat
      /\ DOMAIN (s \o t) = 1..(Len(s) + Len(t))
  BY <1>1, LenProperties
<1>3. \A i \in 1..Len(t) : i + Len(s) \in 1..(Len(s) + Len(t)) /\ (s \o t)[i + Len(s)] = t[i]
  BY <1>1, <1>2
<1>4. ToSet(s) \cup ToSet(t) \subseteq ToSet(s \o t)
  <2>1. \A i \in 1..Len(s) : i \in 1..(Len(s) + Len(t)) /\ (s \o t)[i] = s[i]
    BY <1>1, <1>2
  <2>2. ToSet(s) \subseteq ToSet(s \o t)
    BY <1>2, <2>1 DEF ToSet
  <2>3. ToSet(t) \subseteq ToSet(s \o t)
    BY <1>2, <1>3 DEF ToSet
  <2>. QED BY <2>2, <2>3
<1>5. ToSet(s \o t) \subseteq ToSet(s) \cup ToSet(t)
  <2>1. ASSUME NEW i \in 1..(Len(s) + Len(t)) PROVE (s \o t)[i] \in ToSet(s) \cup ToSet(t)
    <3>1. CASE i <= Len(s)
      BY <1>1, <1>2, <3>1 DEF ToSet
    <3>2. CASE ~(i <= Len(s))
      <4>1. i - Len(s) \in 1..Len(t)
        BY <1>2, <3>2
      <4>. QED BY <1>1, <1>2, <3>2, <4>1 DEF ToSet
    <3>. QED BY <3>1, <3>2
  <2>. QED BY <1>2, <2>1 DEF ToSet
<1>. QED BY <1>1, <1>4, <1>5

LEMMA SetOfTail ==
    ASSUME NEW T, NEW s \in Seq(T), s # <<>>
    PROVE  /\ Head(s) \in T /\ Tail(s) \in Seq(T)
           /\ ToSet(s) = {Head(s)} \cup ToSet(Tail(s))
<1>1. <<Head(s)>> \in Seq(T) /\ Tail(s) \in Seq(T) /\ Head(s) \in T
  BY HeadTailProperties
<1>2. s = <<Head(s)>> \o Tail(s)
  OBVIOUS
<1>3. ToSet(<<Head(s)>>) = {Head(s)}
  BY DEF ToSet
<1>4. ToSet(<<Head(s)>> \o Tail(s)) = ToSet(<<Head(s)>>) \cup ToSet(Tail(s))
  BY <1>1, SetOfConcat
<1>. QED BY <1>1, <1>2, <1>3, <1>4

LEMMA SetOfEmpty == ToSet(<<>>) = {}
BY DEF ToSet

LEMMA SetOfOne ==
    ASSUME NEW T, NEW s \in Seq(T), NEW e \in T
    PROVE  ToSet(s \o <<e>>) = ToSet(s) \cup {e} /\ ToSet(<<e>> \o s) = ToSet(s) \cup {e}
<1>. DEFINE one == <<e>>
<1>1. one \in Seq(T) /\ ToSet(one) = {e}
  BY DEF ToSet
<1>. HIDE DEF one
<1>2. ToSet(s \o one) = ToSet(s) \cup {e} /\ ToSet(one \o s) = ToSet(s) \cup {e}
  BY <1>1, SetOfConcat
<1>. QED BY <1>2 DEF one

LEMMA SetInside ==
    ASSUME NEW T, NEW s \in Seq(T)
    PROVE  ToSet(s) \subseteq T
BY LenProperties, ElementOfSeq DEF ToSet

-----------------------------------------------------------------------------
(* Types.                                                                   *)

LEMMA TypedInit == Init => Typed
<1>. SUFFICES ASSUME Init PROVE Typed
  OBVIOUS
<1>1. /\ <<>> \in Seq(Packets) /\ <<>> \in Seq(Replies) /\ <<>> \in Seq(Arrivals)
      /\ Len(<<>>) = 0 /\ IsInjective(<<>>)
  BY EmptySeq DEF IsInjective
<1>2. pendingSend \in [Sends -> Entries] /\ arrived \in 0..LastArrival
  BY EntryFacts, LimitFacts DEF Init
<1>3. /\ lastSyncKey \in 0..LastArrival /\ saved \in 0..LastArrival /\ inputs \in 0..MaxInputs
      /\ Len(window) <= Window
  BY <1>1, LimitFacts DEF Init
<1>4. /\ bubble \in [Sends -> {"none", "sending", "success", "failed"}]
      /\ shown \in [Arrivals -> Nat]
  BY DEF Init
<1>5. /\ known \in BOOLEAN /\ served \in BOOLEAN /\ due \in Nat /\ chat \in BOOLEAN /\ ended \in BOOLEAN
      /\ unmade \in BOOLEAN
  BY DEF Init
<1>6. /\ socket \in {"off", "connecting", "on", "leaving"} /\ box \in {"none", "login", "note"}
      /\ accepted \subseteq Sends /\ refused \subseteq Sends /\ cut \subseteq Sends
      /\ missed \subseteq Sends /\ spent \subseteq Sends /\ named \subseteq Sends
      /\ unseen \subseteq Arrivals /\ evicted \subseteq Arrivals
      /\ pendingPackets = <<>> /\ up = <<>> /\ down = <<>> /\ readBuffer = <<>> /\ window = <<>>
  BY DEF Init
<1>. QED BY <1>1, <1>2, <1>3, <1>4, <1>5, <1>6 DEF Typed, TypeOK, Entries

\* What sendPacket and onDisconnected leave of the types.
LinkTyped ==
    /\ socket \in {"off", "connecting", "on", "leaving"} /\ known \in BOOLEAN
    /\ pendingPackets \in Seq(Packets) /\ up \in Seq(Packets) /\ served \in BOOLEAN
    /\ due \in Nat /\ down \in Seq(Replies) /\ cut \subseteq Sends

\* The other parts of the types.
Statuses == {"none", "sending", "success", "failed"}
SendingTyped == pendingSend \in [Sends -> Entries] /\ bubble \in [Sends -> Statuses]
ReceivingTyped ==
    /\ window \in Seq(Arrivals) /\ Len(window) <= Window /\ IsInjective(window)
    /\ lastSyncKey \in 0..LastArrival /\ saved \in 0..LastArrival
    /\ unseen \subseteq Arrivals /\ evicted \subseteq Arrivals /\ shown \in [Arrivals -> Nat]
RestTyped ==
    /\ readBuffer \in Seq(Replies) /\ box \in {"none", "login", "note"}
    /\ chat \in BOOLEAN /\ ended \in BOOLEAN
    /\ arrived \in 0..LastArrival /\ inputs \in 0..MaxInputs
    /\ accepted \subseteq Sends /\ refused \subseteq Sends
    /\ missed \subseteq Sends /\ spent \subseteq Sends /\ named \subseteq Sends
    /\ unmade \in BOOLEAN

LEMMA TypedParts ==
    /\ Typed <=> LinkTyped /\ SendingTyped /\ ReceivingTyped /\ RestTyped
    /\ Typed' <=> LinkTyped' /\ SendingTyped' /\ ReceivingTyped' /\ RestTyped'
BY DEF Typed, TypeOK, LinkTyped, SendingTyped, ReceivingTyped, RestTyped, Entries, Statuses

LEMMA SendPacketsTyped ==
    ASSUME Typed, NEW r \in Packets, SendPackets(<<r>>)
    PROVE  LinkTyped'
<1>1. <<r>> \in Seq(Packets)
  OBVIOUS
<1>2. up \o <<r>> \in Seq(Packets) /\ pendingPackets \o <<r>> \in Seq(Packets)
  BY <1>1, ConcatProperties DEF Typed, TypeOK
<1>. QED BY <1>2 DEF SendPackets, Typed, TypeOK, LinkTyped

LEMMA DisconnectedTyped ==
    ASSUME Typed, NEW entries, Disconnected(entries), pendingPackets' \in Seq(Packets)
    PROVE  LinkTyped' /\ pendingSend' \in [Sends -> Entries]
<1>1. <<>> \in Seq(Packets) /\ <<>> \in Seq(Replies)
  BY EmptySeq
<1>2. cut' \subseteq Sends
  BY DEF Disconnected, Ids, Typed, TypeOK
<1>. QED BY <1>1, <1>2, EntryFacts DEF Disconnected, LinkTyped

LEMMA ToldTyped ==
    ASSUME Typed, NEW entries
    PROVE  Told(entries) \in [Sends -> Statuses]
BY DEF Told, Typed, TypeOK, Statuses

\* The window after a message.
LEMMA RememberedFacts ==
    ASSUME NEW w \in Seq(Arrivals), Len(w) <= Window, IsInjective(w),
           NEW p \in Arrivals, ~Contains(w, p)
    PROVE  /\ Remembered(w, p) \in Seq(Arrivals) /\ Len(Remembered(w, p)) <= Window
           /\ IsInjective(Remembered(w, p)) /\ p \in ToSet(Remembered(w, p))
           /\ ToSet(Remembered(w, p)) \subseteq ToSet(w) \cup {p}
<1>0. /\ Len(w) \in Nat /\ DOMAIN w = 1..Len(w) /\ \A i \in 1..Len(w) : w[i] # p
      /\ \A i, j \in 1..Len(w) : w[i] = w[j] => i = j
  BY LenProperties DEF Contains, IsInjective
<1>1. ASSUME NEW v \in Seq(Arrivals), Len(v) < Window,
             \A i \in 1..Len(v) : v[i] # p,
             \A i, j \in 1..Len(v) : v[i] = v[j] => i = j,
             ToSet(v) \subseteq ToSet(w), Remembered(w, p) = Append(v, p)
      PROVE  /\ Remembered(w, p) \in Seq(Arrivals) /\ Len(Remembered(w, p)) <= Window
             /\ IsInjective(Remembered(w, p)) /\ p \in ToSet(Remembered(w, p))
             /\ ToSet(Remembered(w, p)) \subseteq ToSet(w) \cup {p}
  <2>. DEFINE n == Append(v, p)
  <2>1. /\ n \in Seq(Arrivals) /\ Len(n) = Len(v) + 1 /\ n[Len(v) + 1] = p
        /\ \A i \in 1..Len(v) : n[i] = v[i]
    BY AppendProperties
  <2>2. Len(v) \in Nat /\ DOMAIN n = 1..(Len(v) + 1)
    BY <2>1, LenProperties
  <2>3. ToSet(n) = ToSet(v) \cup {p}
    BY SetOfAppend
  <2>. HIDE DEF n
  <2>4. \A i \in 1..(Len(v) + 1) : i \in 1..Len(v) \/ i = Len(v) + 1
    BY <2>2
  <2>5. IsInjective(n)
    BY <1>1, <2>1, <2>2, <2>4 DEF IsInjective
  <2>6. Len(n) <= Window
    BY <1>1, <2>1, <2>2, LimitFacts
  <2>. QED BY <1>1, <2>1, <2>3, <2>5, <2>6 DEF n
<1>2. CASE Len(w) = Window
  <2>1. w # <<>>
    BY <1>2, EmptySeq, LimitFacts
  <2>2. /\ Tail(w) \in Seq(Arrivals) /\ Len(Tail(w)) = Len(w) - 1
        /\ \A i \in 1..Len(Tail(w)) : Tail(w)[i] = w[i + 1]
    BY <2>1, HeadTailProperties
  <2>3. Len(Tail(w)) < Window /\ \A i \in 1..Len(Tail(w)) : i + 1 \in 1..Len(w) /\ i \in Nat
    BY <1>0, <1>2, <2>2, LimitFacts
  <2>4. \A i, j \in 1..Len(Tail(w)) : Tail(w)[i] = Tail(w)[j] => i = j
    <3>1. ASSUME NEW i \in 1..Len(Tail(w)), NEW j \in 1..Len(Tail(w)), Tail(w)[i] = Tail(w)[j]
          PROVE  i = j
      <4>1. i + 1 = j + 1
        BY <1>0, <2>2, <2>3, <3>1
      <4>. QED BY <2>3, <4>1
    <3>. QED BY <3>1
  <2>5. ToSet(Tail(w)) \subseteq ToSet(w)
    BY <2>1, SetOfTail
  <2>6. \A i \in 1..Len(Tail(w)) : Tail(w)[i] # p
    BY <1>0, <2>2, <2>3
  <2>7. Remembered(w, p) = Append(Tail(w), p)
    BY <1>2 DEF Remembered
  <2>. QED BY <1>1, <2>2, <2>3, <2>4, <2>5, <2>6, <2>7
<1>3. CASE Len(w) # Window
  <2>1. Len(w) < Window
    <3>1. \A a, b \in Nat : a <= b /\ a # b => a < b
      OBVIOUS
    <3>. QED BY <1>0, <1>3, <3>1, LimitFacts, Zenon
  <2>2. Remembered(w, p) = Append(w, p)
    BY <1>3 DEF Remembered
  <2>. QED BY <1>0, <1>1, <2>1, <2>2
<1>. QED BY <1>2, <1>3

\* What a message makes of the window and of what was shown.
LEMMA ShowFacts ==
    ASSUME Typed, NEW p \in Arrivals, Show(p)
    PROVE  /\ window' \in Seq(Arrivals) /\ Len(window') <= Window /\ IsInjective(window')
           /\ unseen' \subseteq Arrivals /\ evicted' \subseteq Arrivals
           /\ shown' \in [Arrivals -> Nat] /\ p \in ToSet(window')
           /\ ToSet(window') \subseteq ToSet(window) \cup {p}
           /\ evicted' = evicted \cup (ToSet(window) \ ToSet(window'))
           /\ \/ p \in ToSet(window) /\ shown' = shown /\ unseen' = unseen
              \/ p \notin ToSet(window) /\ shown' = [shown EXCEPT ![p] = @ + 1] /\ unseen' = unseen
              \/ p \notin ToSet(window) /\ shown' = shown /\ unseen' = unseen \cup {p}
<1>0. /\ window \in Seq(Arrivals) /\ Len(window) <= Window /\ IsInjective(window)
      /\ unseen \subseteq Arrivals /\ evicted \subseteq Arrivals /\ shown \in [Arrivals -> Nat]
      /\ Contains(window, p) <=> p \in ToSet(window)
  BY LenProperties DEF Typed, TypeOK, Contains, ToSet
<1>1. CASE Contains(window, p)
  BY <1>0, <1>1 DEF Show
<1>2. CASE ~Contains(window, p)
  <2>1. /\ window' = Remembered(window, p)
        /\ evicted' = evicted \cup (ToSet(window) \ ToSet(window'))
        /\ \/ shown' = [shown EXCEPT ![p] = @ + 1] /\ unseen' = unseen
           \/ shown' = shown /\ unseen' = unseen \cup {p}
    BY <1>2 DEF Show, Emit
  <2>2. /\ window' \in Seq(Arrivals) /\ Len(window') <= Window /\ IsInjective(window')
        /\ p \in ToSet(window') /\ ToSet(window') \subseteq ToSet(window) \cup {p}
    BY <1>0, <1>2, <2>1, RememberedFacts
  <2>3. ToSet(window) \subseteq Arrivals
    BY <1>0, SetInside
  <2>. QED BY <1>0, <1>2, <2>1, <2>2, <2>3
<1>. QED BY <1>1, <1>2

\* An answer to a sync without its first message.
Shorter(r) == [r EXCEPT !.ids = Tail(@)]

LEMMA ShorterFacts ==
    ASSUME NEW r, NEW ids, NEW key, r = Synced(ids, key)
    PROVE  Shorter(r) = Synced(Tail(ids), key)
<1>1. \A u : [[kind |-> "synced", ids |-> ids, key |-> key] EXCEPT !.ids = u]
               = [kind |-> "synced", ids |-> u, key |-> key]
  OBVIOUS
<1>2. r = [kind |-> "synced", ids |-> ids, key |-> key] /\ r.ids = ids
  BY DEF Synced
<1>. QED BY <1>1, <1>2 DEF Synced, Shorter

LEMMA HandlesTyped ==
    ASSUME Typed, NEW kind, Handles(kind)
    PROVE  /\ readBuffer' \in Seq(Replies) /\ Head(readBuffer) \in Replies
           /\ readBuffer # <<>> /\ readBuffer' = Tail(readBuffer) /\ Head(readBuffer).kind = kind
BY SetOfTail DEF Handles, Typed

LEMMA FailsTyped ==
    ASSUME Typed, NEW entries, SendFails(entries), bubble' = Told(entries)
    PROVE  LinkTyped' /\ SendingTyped'
<1>1. pendingPackets' \in Seq(Packets) /\ Disconnected(entries)
  BY DEF SendFails, Typed, TypeOK
<1>2. LinkTyped' /\ pendingSend' \in [Sends -> Entries]
  BY <1>1, DisconnectedTyped
<1>3. bubble' \in [Sends -> Statuses]
  BY ToldTyped
<1>. QED BY <1>2, <1>3 DEF SendingTyped

LEMMA InputTyped == Typed /\ Input => inputs' \in 0..MaxInputs
BY LimitFacts DEF Input, Typed, TypeOK

\* What the server answers to each packet.
LEMMA MissingFacts ==
    ASSUME Typed, NEW key \in 0..LastArrival
    PROVE  /\ Missing(key) \in Seq(Arrivals)
           /\ \A p \in Arrivals : key < p /\ p <= arrived => p \in ToSet(Missing(key))
<1>0. arrived \in 0..LastArrival /\ arrived \in Nat /\ key \in Nat /\ LastArrival \in Nat
  BY LimitFacts DEF Typed, TypeOK
<1>1. CASE key <= arrived
  <2>1. arrived - key \in Nat
    BY <1>0, <1>1
  <2>2. \A i \in 1..(arrived - key) : key + i \in Arrivals
    BY <1>0, <1>1 DEF Arrivals
  <2>3. Missing(key) \in [1..(arrived - key) -> Arrivals]
    BY <2>2 DEF Missing
  <2>4. Missing(key) \in Seq(Arrivals)
    BY <2>1, <2>3, SeqDef
  <2>5. ASSUME NEW p \in Arrivals, key < p, p <= arrived PROVE p \in ToSet(Missing(key))
    <3>1. p - key \in 1..(arrived - key) /\ key + (p - key) = p
      BY <1>0, <2>5 DEF Arrivals
    <3>2. DOMAIN Missing(key) = 1..(arrived - key) /\ Missing(key)[p - key] = p
      BY <3>1 DEF Missing
    <3>. QED BY <3>1, <3>2 DEF ToSet
  <2>. QED BY <2>4, <2>5
<1>2. CASE ~(key <= arrived)
  <2>1. 1..(arrived - key) = {}
    BY <1>0, <1>2
  <2>2. Missing(key) \in [1..0 -> Arrivals]
    BY <1>0, <2>1 DEF Missing
  <2>3. Missing(key) \in Seq(Arrivals)
    BY <2>2, SeqDef
  <2>4. \A p \in Arrivals : ~(key < p /\ p <= arrived)
    BY <1>0, <1>2 DEF Arrivals
  <2>. QED BY <2>3, <2>4
<1>. QED BY <1>1, <1>2

\* What becomes of a message that the server reads.
Took(m, ok) ==
    /\ accepted' = IF ok THEN accepted \cup {m} ELSE accepted
    /\ refused' = IF ok THEN refused ELSE refused \cup {m}
TookNone == accepted' = accepted /\ refused' = refused

ServerTyped ==
    /\ served \in BOOLEAN /\ due \in Nat /\ down \in Seq(Replies)
    /\ accepted \subseteq Sends /\ refused \subseteq Sends

LEMMA ServerReadsFacts ==
    ASSUME Typed, ServerReads
    PROVE  /\ up # <<>> /\ Head(up) \in Packets /\ up' = Tail(up) /\ ServerTyped'
           /\ \/ /\ Head(up) = Login /\ TookNone
                 /\ down' = down \/ down' = Append(down, LoginAck(FALSE))
              \/ Head(up) = Receipt /\ TookNone /\ down' = down
              \/ \E m \in Sends, ok \in BOOLEAN :
                    Head(up) = Chat(m) /\ down' = Append(down, Ack(m, ok)) /\ Took(m, ok)
              \/ \E u \in BOOLEAN, k \in 0..LastArrival, ids \in Seq(Arrivals),
                    n \in 0..LastArrival :
                    /\ Head(up) = Sync(u, k) /\ down' = Append(down, Synced(ids, n)) /\ TookNone
                    /\ \A p \in Arrivals : p <= n => p <= k \/ p \in ToSet(ids)
<1>0. up # <<>> /\ Head(up) \in Packets /\ up' = Tail(up) /\ ServerTyped
  BY SetOfTail DEF ServerReads, Typed, TypeOK, ServerTyped
<1>1. ASSUME Head(up) = Login
      PROVE  /\ TookNone /\ ServerTyped'
             /\ down' = down \/ down' = Append(down, LoginAck(FALSE))
  <2>1. Head(up).kind = "login"
    BY <1>1 DEF Login
  <2>2. ReadLogin /\ TookNone
    BY <2>1 DEF ServerReads, TookNone
  <2>3. CASE down' = Append(down, LoginAck(FALSE)) /\ served' = served /\ due' = due
    BY <1>0, <2>2, <2>3, ReplyFacts, SetOfAppend DEF ServerTyped, TookNone
  <2>4. CASE down' = down /\ served' = TRUE /\ due' = due + 1
    BY <1>0, <2>2, <2>4 DEF ServerTyped, TookNone
  <2>. QED BY <2>2, <2>3, <2>4 DEF ReadLogin, Reply, LoginAck
<1>7. ASSUME Head(up) = Receipt PROVE TookNone /\ ServerTyped' /\ down' = down
  <2>1. Head(up).kind = "recvack"
    BY <1>7 DEF Receipt
  <2>. QED BY <1>0, <2>1 DEF ServerReads, TookNone, ServerTyped
<1>2. ASSUME NEW m \in Sends, Head(up) = Chat(m)
      PROVE  /\ ServerTyped'
             /\ \E ok \in BOOLEAN : down' = Append(down, Ack(m, ok)) /\ Took(m, ok)
  <2>1. Head(up).kind = "chat" /\ Head(up).id = m
    BY <1>2 DEF Chat
  <2>2. ReadChat(m) /\ served' = served /\ due' = due
    BY <2>1 DEF ServerReads
  <2>3. PICK ok \in BOOLEAN : down' = Append(down, Ack(m, ok)) /\ Took(m, ok)
    BY <2>2 DEF ReadChat, Reply, Ack, Took
  <2>4. accepted' \subseteq Sends /\ refused' \subseteq Sends
    BY <1>0, <2>3 DEF Took, ServerTyped
  <2>5. Ack(m, ok) \in Replies
    BY ReplyFacts
  <2>6. down' \in Seq(Replies)
    BY <1>0, <2>3, <2>5, SetOfAppend DEF ServerTyped
  <2>. QED BY <1>0, <2>2, <2>3, <2>4, <2>6 DEF ServerTyped
<1>3. ASSUME NEW u \in BOOLEAN, NEW k \in 0..LastArrival, Head(up) = Sync(u, k)
      PROVE  \E ids \in Seq(Arrivals), n \in 0..LastArrival :
                /\ down' = Append(down, Synced(ids, n)) /\ TookNone
                /\ served' = served /\ due' = due
                /\ \A p \in Arrivals : p <= n => p <= k \/ p \in ToSet(ids)
  <2>1. Head(up).kind = "sync" /\ Head(up).uid = u /\ Head(up).key = k
    BY <1>3 DEF Sync
  <2>. DEFINE n == IF arrived > k THEN arrived ELSE k
  <2>2. /\ served' = served /\ due' = due /\ TookNone
        /\ IF u THEN down' = Append(down, Synced(Missing(k), n))
                ELSE down' = Append(down, Synced(<<>>, k))
    BY <2>1 DEF ServerReads, ReadSync, Reply, Synced, TookNone
  <2>3. arrived \in 0..LastArrival /\ LastArrival \in Nat
    BY LimitFacts DEF Typed, TypeOK
  <2>4. /\ n \in 0..LastArrival /\ Missing(k) \in Seq(Arrivals)
        /\ \A p \in Arrivals : p <= n => p <= k \/ p \in ToSet(Missing(k))
    <3>1. /\ Missing(k) \in Seq(Arrivals)
          /\ \A p \in Arrivals : k < p /\ p <= arrived => p \in ToSet(Missing(k))
      BY MissingFacts
    <3>2. n \in 0..LastArrival
      BY <2>3
    <3>3. \A p \in Arrivals : p <= n => p <= k \/ (k < p /\ p <= arrived)
      BY <2>3 DEF Arrivals
    <3>. QED BY <3>1, <3>2, <3>3
  <2>5. <<>> \in Seq(Arrivals) /\ \A p \in Arrivals : p <= k => p <= k \/ p \in ToSet(<<>>)
    BY EmptySeq
  <2>. HIDE DEF n
  <2>6. CASE u = TRUE
    BY <2>2, <2>4, <2>6
  <2>7. CASE u = FALSE
    BY <2>2, <2>5, <2>7
  <2>. QED BY <2>6, <2>7
<1>4. ASSUME NEW u \in BOOLEAN, NEW k \in 0..LastArrival, Head(up) = Sync(u, k)
      PROVE  /\ ServerTyped'
             /\ \E ids \in Seq(Arrivals), n \in 0..LastArrival :
                    /\ down' = Append(down, Synced(ids, n)) /\ TookNone
                    /\ \A p \in Arrivals : p <= n => p <= k \/ p \in ToSet(ids)
  <2>1. PICK ids \in Seq(Arrivals), n \in 0..LastArrival :
            /\ down' = Append(down, Synced(ids, n)) /\ TookNone
            /\ served' = served /\ due' = due
            /\ \A p \in Arrivals : p <= n => p <= k \/ p \in ToSet(ids)
    BY <1>3, <1>4
  <2>2. Synced(ids, n) \in Replies
    BY ReplyFacts
  <2>3. down' \in Seq(Replies)
    BY <1>0, <2>1, <2>2, SetOfAppend DEF ServerTyped
  <2>. QED BY <1>0, <2>1, <2>3 DEF ServerTyped, TookNone
<1>5. CASE \E m \in Sends : Head(up) = Chat(m)
  BY <1>0, <1>2, <1>5
<1>6. CASE \E u \in BOOLEAN, k \in 0..LastArrival : Head(up) = Sync(u, k)
  <2>1. PICK u \in BOOLEAN, k \in 0..LastArrival : Head(up) = Sync(u, k)
    BY <1>6
  <2>2. PICK ids \in Seq(Arrivals), n \in 0..LastArrival :
            /\ down' = Append(down, Synced(ids, n)) /\ TookNone
            /\ \A p \in Arrivals : p <= n => p <= k \/ p \in ToSet(ids)
    BY <1>4, <2>1
  <2>3. ServerTyped'
    BY <1>4, <2>1
  <2>. QED BY <1>0, <2>1, <2>2, <2>3
<1>8. CASE Head(up) = Login
  BY <1>0, <1>1, <1>8
<1>9. CASE Head(up) = Receipt
  BY <1>0, <1>7, <1>9
<1>. QED BY <1>0, <1>5, <1>6, <1>8, <1>9, PacketFacts

LEMMA TypedNext == Typed /\ [Next]_vars => Typed'
<1>. SUFFICES ASSUME Typed, [Next]_vars PROVE Typed'
  OBVIOUS
<1>0. LinkTyped /\ SendingTyped /\ ReceivingTyped /\ RestTyped
  BY TypedParts
<1>00. <<>> \in Seq(Packets) /\ <<>> \in Seq(Replies)
  BY EmptySeq
<1>q. ASSUME LinkTyped', SendingTyped', ReceivingTyped', RestTyped' PROVE Typed'
  BY <1>q, TypedParts
<1>. USE DEF vars, link, sending, receiving, server, control, sendGhosts
<1>1. CASE Connect
  <2>1. LinkTyped'
    BY <1>0, <1>00, <1>1 DEF Connect, LinkTyped
  <2>2. SendingTyped' /\ ReceivingTyped' /\ RestTyped'
    BY <1>0, <1>1 DEF Connect, SendingTyped, ReceivingTyped, RestTyped
  <2>. QED BY <1>q, <2>1, <2>2
<1>2. CASE ConnectAndLeave
  <2>1. LinkTyped' /\ pendingSend' \in [Sends -> Entries]
    BY <1>00, <1>2, DisconnectedTyped DEF ConnectAndLeave
  <2>2. SendingTyped'
    BY <1>2, <2>1, ToldTyped DEF ConnectAndLeave, SendingTyped
  <2>3. accepted' \subseteq Sends /\ refused' \subseteq Sends
    BY <1>0, <1>2 DEF ConnectAndLeave, RestTyped
  <2>4. ReceivingTyped' /\ RestTyped'
    BY <1>0, <1>2, <2>3 DEF ConnectAndLeave, ReceivingTyped, RestTyped
  <2>. QED BY <1>q, <2>1, <2>2, <2>4
<1>3. CASE ConnectFails
  <2>1. LinkTyped' /\ SendingTyped' /\ ReceivingTyped'
    BY <1>0, <1>3 DEF ConnectFails, LinkTyped, SendingTyped, ReceivingTyped
  <2>2. RestTyped'
    BY <1>0, <1>3, InputTyped DEF ConnectFails, RestTyped
  <2>. QED BY <1>q, <2>1, <2>2
<1>4. CASE ConnectionBreaks
  <2>1. LinkTyped' /\ pendingSend' \in [Sends -> Entries]
    BY <1>0, <1>4, DisconnectedTyped DEF ConnectionBreaks, LinkTyped
  <2>2. SendingTyped'
    BY <1>4, <2>1, ToldTyped DEF ConnectionBreaks, SendingTyped
  <2>3. ReceivingTyped' /\ RestTyped'
    BY <1>0, <1>4, InputTyped DEF ConnectionBreaks, ReceivingTyped, RestTyped
  <2>. QED BY <1>q, <2>1, <2>2, <2>3
<1>5. CASE PressLogin
  <2>1. ASSUME SendPackets(<<Login>>), UNCHANGED <<pendingSend, bubble>>
        PROVE  LinkTyped' /\ SendingTyped'
    BY <1>0, <2>1, PacketFacts, SendPacketsTyped DEF SendingTyped
  <2>2. ASSUME SendFails(pendingSend), bubble' = Told(pendingSend)
        PROVE  LinkTyped' /\ SendingTyped'
    BY <2>2, FailsTyped
  <2>3. LinkTyped' /\ SendingTyped'
    BY <1>5, <2>1, <2>2 DEF PressLogin
  <2>4. ReceivingTyped' /\ RestTyped'
    BY <1>0, <1>5, InputTyped DEF PressLogin, ReceivingTyped, RestTyped
  <2>. QED BY <1>q, <2>3, <2>4
<1>6. ASSUME NEW m \in Sends, PressSend(m) PROVE Typed'
  <2>. DEFINE entries == [pendingSend EXCEPT ![m] = NewEntry]
  <2>1. ASSUME SendPackets(<<Chat(m)>>), pendingSend' = entries,
               bubble' = [bubble EXCEPT ![m] = "sending"], UNCHANGED missed
        PROVE  LinkTyped' /\ SendingTyped' /\ missed' \subseteq Sends
    <3>1. SendingTyped'
      BY <1>0, <2>1, EntryFacts DEF SendingTyped, Statuses
    <3>. QED BY <1>0, <2>1, <3>1, PacketFacts, SendPacketsTyped DEF RestTyped
  <2>2. ASSUME SendFails(entries), bubble' = [Told(entries) EXCEPT ![m] = "sending"],
               missed' = missed \cup {m}
        PROVE  LinkTyped' /\ SendingTyped' /\ missed' \subseteq Sends
    <3>. HIDE DEF entries
    <3>1. Disconnected(entries) /\ pendingPackets' \in Seq(Packets)
      BY <1>0, <2>2 DEF SendFails, LinkTyped
    <3>2. LinkTyped' /\ pendingSend' \in [Sends -> Entries]
      BY <3>1, DisconnectedTyped
    <3>3. Told(entries) \in [Sends -> Statuses]
      BY ToldTyped
    <3>4. bubble' \in [Sends -> Statuses]
      BY <2>2, <3>3 DEF Statuses
    <3>. QED BY <1>0, <2>2, <3>2, <3>4 DEF SendingTyped, RestTyped
  <2>3. LinkTyped' /\ SendingTyped' /\ missed' \subseteq Sends
    BY <1>6, <2>1, <2>2 DEF PressSend
  <2>4. ReceivingTyped' /\ RestTyped'
    BY <1>0, <1>6, <2>3, InputTyped DEF PressSend, ReceivingTyped, RestTyped
  <2>. QED BY <1>q, <2>3, <2>4
<1>7. CASE Logout
  <2>1. ASSUME socket = "on" PROVE LinkTyped' /\ pendingSend' \in [Sends -> Entries]
    BY <1>0, <1>7, <2>1, DisconnectedTyped DEF Logout, LinkTyped
  <2>2. ASSUME socket # "on" PROVE LinkTyped' /\ pendingSend' \in [Sends -> Entries]
    BY <1>0, <1>7, <2>2 DEF Logout, LinkTyped, SendingTyped
  <2>3. bubble' \in [Sends -> Statuses]
    BY <1>7 DEF Logout, Statuses
  <2>4. ReceivingTyped' /\ RestTyped'
    <3>1. 0 \in 0..LastArrival
      BY LimitFacts
    <3>. QED BY <1>0, <1>7, <3>1 DEF Logout, ReceivingTyped, RestTyped
  <2>. QED BY <1>q, <2>1, <2>2, <2>3, <2>4 DEF SendingTyped
<1>8. CASE CloseBox
  <2>1. Sync(known, lastSyncKey) \in Packets
    BY <1>0, PacketFacts DEF LinkTyped, ReceivingTyped
  <2>. DEFINE Goal == LinkTyped' /\ SendingTyped' /\ chat' \in BOOLEAN /\ inputs' \in 0..MaxInputs
  <2>2. ASSUME UNCHANGED <<chat, link, sending, cut, inputs>> PROVE Goal
    BY <1>0, <2>2 DEF LinkTyped, SendingTyped, RestTyped
  <2>3. ASSUME chat' = TRUE, SendPackets(<<Sync(known, lastSyncKey)>>),
               UNCHANGED <<pendingSend, bubble, inputs>>
        PROVE  Goal
    BY <1>0, <2>1, <2>3, SendPacketsTyped DEF SendingTyped, RestTyped
  <2>4. ASSUME chat' = TRUE, SendFails(pendingSend), Input, bubble' = Told(pendingSend)
        PROVE  Goal
    BY <1>0, <2>4, FailsTyped, InputTyped
  <2>5. LinkTyped' /\ SendingTyped' /\ chat' \in BOOLEAN /\ inputs' \in 0..MaxInputs
    BY <1>0, <1>8, <2>2, <2>3, <2>4 DEF CloseBox, RestTyped
  <2>6. ReceivingTyped' /\ RestTyped'
    BY <1>0, <1>8, <2>5 DEF CloseBox, ReceivingTyped, RestTyped
  <2>. QED BY <1>q, <2>5, <2>6
<1>9. ASSUME NEW ids \in SUBSET Ids(pendingSend), CheckRetransmit(ids) PROVE Typed'
  <2>1. PICK order \in InOrder(Again(ids)) :
            up' = up \o [i \in DOMAIN order |-> Chat(order[i])]
    BY <1>9 DEF CheckRetransmit
  <2>2. ids \subseteq Sends /\ IsFiniteSet(Again(ids)) /\ Again(ids) \subseteq Sends
    <3>1. ids \subseteq Sends /\ Again(ids) \subseteq Sends
      BY DEF Ids, Again
    <3>. QED BY <3>1, LimitsAssumption, FS_Subset
  <2>3. [i \in DOMAIN order |-> Chat(order[i])] \in Seq(Packets)
    <3>1. Cardinality(Again(ids)) \in Nat
      BY <2>2, FS_CardinalityType
    <3>2. order \in [1..Cardinality(Again(ids)) -> Again(ids)]
      BY <2>1 DEF InOrder
    <3>3. [i \in DOMAIN order |-> Chat(order[i])] \in [1..Cardinality(Again(ids)) -> Packets]
      BY <2>2, <3>2, PacketFacts
    <3>. QED BY <3>1, <3>3, SeqDef
  <2>4. LinkTyped'
    <3>1. up' \in Seq(Packets)
      BY <1>0, <2>1, <2>3, ConcatProperties DEF LinkTyped
    <3>. QED BY <1>0, <1>9, <3>1 DEF CheckRetransmit, LinkTyped
  <2>5. pendingSend' \in [Sends -> Entries]
    <3>1. ASSUME NEW m \in Sends
          PROVE  Checked(ids)[m] \in Entries
      <4>0. /\ pendingSend[m] \in Entries /\ pendingSend[m].skips \in 0..MaxSkips
            /\ pendingSend[m].retry \in 0..MaxRetry
        BY <1>0 DEF SendingTyped, Entries
      <4>1. CASE m \in Again(ids)
        <5>1. pendingSend[m].retry < MaxRetry
          BY <4>1 DEF Again, MayRetry
        <5>2. pendingSend[m].retry + 1 \in 0..MaxRetry /\ 0 \in 0..MaxSkips
          BY <4>0, <5>1, LimitFacts
        <5>3. Checked(ids)[m] = [on |-> TRUE, retry |-> pendingSend[m].retry + 1, skips |-> 0]
          BY <4>1 DEF Checked
        <5>. QED BY <5>2, <5>3 DEF Entries
      <4>2. CASE m \notin ids /\ m \in Ids(pendingSend)
        <5>1. pendingSend[m].skips < MaxSkips
          BY <1>9, <4>2 DEF CheckRetransmit, Due
        <5>2. pendingSend[m].skips + 1 \in 0..MaxSkips
          BY <4>0, <5>1, LimitFacts
        <5>3. m \notin Again(ids)
          BY <4>2 DEF Again
        <5>4. Checked(ids)[m] = [pendingSend[m] EXCEPT !.skips = @ + 1]
          BY <4>2, <5>3 DEF Checked
        <5>. QED BY <4>0, <5>2, <5>4 DEF Entries
      <4>3. CASE m \notin Again(ids) /\ (m \in ids \/ m \notin Ids(pendingSend))
        <5>1. Checked(ids)[m] = NoEntry
          BY <4>3 DEF Checked
        <5>. QED BY <5>1, EntryFacts
      <4>. QED BY <4>1, <4>2, <4>3
    <3>2. Checked(ids) = [m \in Sends |-> Checked(ids)[m]]
      BY DEF Checked
    <3>. QED BY <1>9, <3>1, <3>2 DEF CheckRetransmit
  <2>6. SendingTyped'
    <3>1. GivenUp(ids) \in [Sends -> Statuses]
      BY <1>0 DEF GivenUp, SendingTyped, Statuses
    <3>. QED BY <1>9, <2>5, <3>1 DEF CheckRetransmit, SendingTyped
  <2>7. ReceivingTyped' /\ RestTyped'
    BY <1>0, <1>9 DEF CheckRetransmit, ReceivingTyped, RestTyped
  <2>. QED BY <1>q, <2>4, <2>6, <2>7
<1>10. CASE CheckRetransmitFails
  <2>1. LinkTyped' /\ SendingTyped'
    BY <1>10, FailsTyped DEF CheckRetransmitFails
  <2>2. ReceivingTyped' /\ RestTyped'
    BY <1>0, <1>10, InputTyped DEF CheckRetransmitFails, ReceivingTyped, RestTyped
  <2>. QED BY <1>q, <2>1, <2>2
<1>11. CASE ReadyRead
  BY <1>0, <1>00, <1>11, <1>q DEF ReadyRead, LinkTyped, SendingTyped, ReceivingTyped, RestTyped
<1>12. CASE HandleLogin
  <2>1. readBuffer' \in Seq(Replies)
    BY <1>12, HandlesTyped DEF HandleLogin
  <2>2. LinkTyped' /\ SendingTyped' /\ ReceivingTyped' /\ RestTyped'
    BY <1>0, <1>12, <2>1 DEF HandleLogin, LinkTyped, SendingTyped, ReceivingTyped, RestTyped
  <2>. QED BY <1>q, <2>2
<1>13. CASE HandleAck
  <2>1. /\ readBuffer' \in Seq(Replies) /\ Head(readBuffer) \in Replies
        /\ Head(readBuffer).kind = "ack"
    BY <1>13, HandlesTyped DEF HandleAck
  <2>2. PICK m \in Sends, ok \in BOOLEAN : pendingSend' = Acked(m) /\ bubble' = Marked(m, ok)
    BY <1>13, <2>1, ReplyKinds DEF HandleAck
  <2>3. Acked(m) \in [Sends -> Entries] /\ Marked(m, ok) \in [Sends -> Statuses]
    BY <1>0, EntryFacts DEF Acked, Marked, SendingTyped, Statuses
  <2>4. LinkTyped' /\ ReceivingTyped' /\ RestTyped'
    BY <1>0, <1>13, <2>1 DEF HandleAck, LinkTyped, ReceivingTyped, RestTyped
  <2>. QED BY <1>q, <2>2, <2>3, <2>4 DEF SendingTyped
<1>14. CASE HandlePush
  <2>1. /\ readBuffer' \in Seq(Replies) /\ Head(readBuffer) \in Replies
        /\ Head(readBuffer).kind = "push"
    BY <1>14, HandlesTyped DEF HandlePush
  <2>2. Head(readBuffer).id \in Arrivals
    BY <2>1, ReplyKinds
  <2>3. Show(Head(readBuffer).id) /\ lastSyncKey' = lastSyncKey /\ saved' = saved
    BY <1>14 DEF HandlePush
  <2>4. ReceivingTyped'
    BY <1>0, <2>2, <2>3, ShowFacts DEF ReceivingTyped
  <2>5. LinkTyped' /\ SendingTyped' /\ inputs' \in 0..MaxInputs
    <3>1. CASE SendPackets(<<Receipt>>) /\ UNCHANGED <<pendingSend, bubble, inputs>>
      BY <1>0, <3>1, PacketFacts, SendPacketsTyped DEF SendingTyped, RestTyped
    <3>2. CASE SendFails(pendingSend) /\ Input /\ bubble' = Told(pendingSend)
      BY <3>2, FailsTyped, InputTyped
    <3>. QED BY <1>14, <3>1, <3>2 DEF HandlePush
  <2>6. RestTyped'
    BY <1>0, <1>14, <2>1, <2>5 DEF HandlePush, RestTyped
  <2>. QED BY <1>q, <2>4, <2>5, <2>6
<1>15. CASE HandleSynced
  <2>1. readBuffer # <<>> /\ Head(readBuffer) \in Replies /\ Tail(readBuffer) \in Seq(Replies)
    BY <1>0, <1>15, SetOfTail DEF HandleSynced, RestTyped
  <2>2. /\ Head(readBuffer).kind = "synced" /\ Head(readBuffer).ids # <<>>
        /\ Show(Head(Head(readBuffer).ids))
    BY <1>15 DEF HandleSynced
  <2>3. /\ Head(readBuffer).ids \in Seq(Arrivals) /\ Head(readBuffer).key \in 0..LastArrival
        /\ Head(readBuffer) = Synced(Head(readBuffer).ids, Head(readBuffer).key)
    BY <2>1, <2>2, ReplyKinds
  <2>4. /\ Head(Head(readBuffer).ids) \in Arrivals
        /\ Tail(Head(readBuffer).ids) \in Seq(Arrivals)
    BY <2>2, <2>3, SetOfTail
  <2>5. [Head(readBuffer) EXCEPT !.ids = Tail(@)]
            = Synced(Tail(Head(readBuffer).ids), Head(readBuffer).key)
    <3>1. Shorter(Head(readBuffer)) = Synced(Tail(Head(readBuffer).ids), Head(readBuffer).key)
      BY <2>3, ShorterFacts
    <3>. QED BY <3>1 DEF Shorter
  <2>6. [Head(readBuffer) EXCEPT !.ids = Tail(@)] \in Replies
    BY <2>3, <2>4, <2>5, ReplyFacts
  <2>7. readBuffer' \in Seq(Replies)
    <3>1. \A r \in Replies : <<r>> \o Tail(readBuffer) \in Seq(Replies)
      BY <2>1, ConcatProperties
    <3>. QED BY <1>15, <2>6, <3>1 DEF HandleSynced
  <2>8. ReceivingTyped'
    BY <1>0, <1>15, <2>2, <2>4, ShowFacts DEF HandleSynced, ReceivingTyped
  <2>9. LinkTyped' /\ SendingTyped' /\ RestTyped'
    BY <1>0, <1>15, <2>7 DEF HandleSynced, LinkTyped, SendingTyped, RestTyped
  <2>. QED BY <1>q, <2>8, <2>9
<1>16. CASE HandleSync
  <2>1. /\ readBuffer' \in Seq(Replies) /\ Head(readBuffer) \in Replies
        /\ Head(readBuffer).kind = "synced"
    BY <1>16, HandlesTyped DEF HandleSync
  <2>2. Head(readBuffer).key \in 0..LastArrival
    BY <2>1, ReplyKinds
  <2>3. ReceivingTyped'
    BY <1>0, <1>16, <2>2 DEF HandleSync, ReceivingTyped
  <2>4. LinkTyped' /\ SendingTyped' /\ RestTyped'
    BY <1>0, <1>16, <2>1 DEF HandleSync, LinkTyped, SendingTyped, RestTyped
  <2>. QED BY <1>q, <2>3, <2>4
<1>17. CASE HandleNote
  <2>1. readBuffer' \in Seq(Replies)
    BY <1>17, HandlesTyped DEF HandleNote
  <2>2. LinkTyped' /\ SendingTyped' /\ ReceivingTyped' /\ RestTyped'
    BY <1>0, <1>17, <2>1 DEF HandleNote, LinkTyped, SendingTyped, ReceivingTyped, RestTyped
  <2>. QED BY <1>q, <2>2
<1>18. CASE ServerReads
  <2>1. up # <<>> /\ Head(up) \in Packets /\ up' \in Seq(Packets)
    BY <1>0, <1>18, SetOfTail DEF ServerReads, LinkTyped
  <2>2. ServerTyped'
    BY <1>18, ServerReadsFacts
  <2>3. LinkTyped'
    BY <1>0, <1>18, <2>1, <2>2 DEF ServerReads, LinkTyped, ServerTyped
  <2>4. SendingTyped' /\ ReceivingTyped' /\ RestTyped'
    BY <1>0, <1>18, <2>2 DEF ServerReads, SendingTyped, ReceivingTyped, RestTyped, ServerTyped
  <2>. QED BY <1>q, <2>3, <2>4
<1>23. CASE ServerLogsIn
  <2>1. due' \in Nat
    BY <1>0, <1>23 DEF ServerLogsIn, LinkTyped
  <2>2. down' \in Seq(Replies)
    BY <1>0, <1>23, ReplyFacts, SetOfAppend DEF ServerLogsIn, Reply, LoginAck, LinkTyped
  <2>3. LinkTyped' /\ SendingTyped' /\ ReceivingTyped' /\ RestTyped'
    BY <1>0, <1>23, <2>1, <2>2
       DEF ServerLogsIn, LinkTyped, SendingTyped, ReceivingTyped, RestTyped
  <2>. QED BY <1>q, <2>3
<1>19. CASE Arrive
  <2>1. arrived' \in 0..LastArrival
    BY <1>0, <1>19, LimitFacts DEF Arrive, RestTyped
  <2>2. LinkTyped' /\ SendingTyped' /\ ReceivingTyped'
    BY <1>0, <1>19 DEF Arrive, LinkTyped, SendingTyped, ReceivingTyped
  <2>3. RestTyped'
    BY <1>0, <1>19, <2>1, InputTyped DEF Arrive, RestTyped
  <2>. QED BY <1>q, <2>2, <2>3
<1>20. ASSUME NEW p \in Arrivals, ServerPushes(p) PROVE Typed'
  <2>1. down' \in Seq(Replies)
    BY <1>0, <1>20, ReplyFacts, SetOfAppend DEF ServerPushes, Reply, Push, LinkTyped
  <2>2. LinkTyped' /\ SendingTyped' /\ ReceivingTyped'
    BY <1>0, <1>20, <2>1 DEF ServerPushes, LinkTyped, SendingTyped, ReceivingTyped
  <2>3. RestTyped'
    BY <1>0, <1>20, InputTyped DEF ServerPushes, RestTyped
  <2>. QED BY <1>q, <2>2, <2>3
<1>21. CASE ServerNotes
  <2>1. down' \in Seq(Replies)
    BY <1>0, <1>21, ReplyFacts, SetOfAppend DEF ServerNotes, Reply, LinkTyped
  <2>2. LinkTyped' /\ SendingTyped' /\ ReceivingTyped'
    BY <1>0, <1>21, <2>1 DEF ServerNotes, LinkTyped, SendingTyped, ReceivingTyped
  <2>3. RestTyped'
    BY <1>0, <1>21, InputTyped DEF ServerNotes, RestTyped
  <2>. QED BY <1>q, <2>2, <2>3
<1>22. CASE UNCHANGED vars
  BY <1>0, <1>22, <1>q DEF LinkTyped, SendingTyped, ReceivingTyped, RestTyped
<1>. QED
  BY <1>1, <1>2, <1>3, <1>4, <1>5, <1>6, <1>7, <1>8, <1>9, <1>10, <1>11, <1>12, <1>13, <1>14,
     <1>15, <1>16, <1>17, <1>18, <1>19, <1>20, <1>21, <1>22, <1>23
     DEF Next, Connection, User, CheckSome, Handle, Server

\* What every reachable state has the types of, for every value of the constants.
THEOREM TypeCorrect == Spec => []TypeOK
<1>1. Typed => TypeOK
  BY DEF Typed
<1>. QED BY <1>1, TypedInit, TypedNext, PTL DEF Spec

-----------------------------------------------------------------------------
(* A message being sent is waited for.                                      *)

\* Without a connection nothing is on its way.
Offline == socket # "on" => up = <<>> /\ down = <<>>

\* No entry is left of a message that succeeded or failed.
EntryIsOpen == \A m \in Ids(pendingSend) : bubble[m] \in {"none", "sending"}

Pending == SendingIsPending /\ missed \subseteq cut /\ EntryIsOpen /\ Offline

LEMMA PendingInit == Init => Pending
BY EntryFacts, Zenon DEF Init, Pending, SendingIsPending, EntryIsOpen, Offline, Ids

\* The end of a connection settles every bubble that has an entry.
LEMMA DisconnectedPending ==
    ASSUME Typed, Pending, NEW entries, Ids(pendingSend) \subseteq Ids(entries),
           Disconnected(entries), bubble' = Told(entries), UNCHANGED missed
    PROVE  /\ Pending'
           /\ \A m \in Sends : bubble'[m] \in {"sending", "failed"} => m \in cut'
           /\ \A m \in Sends : bubble'[m] = "success" => bubble[m] = "success"
<1>1. Ids(pendingSend') = {}
  BY EntryFacts DEF Disconnected, Ids
<1>2. cut \subseteq cut' /\ Ids(entries) \subseteq cut' /\ Offline'
  BY DEF Disconnected, Offline
<1>3. ASSUME NEW m \in Sends
      PROVE  /\ bubble'[m] = "sending" => bubble[m] = "sending" /\ m \notin Ids(entries)
             /\ bubble'[m] = "failed" => m \in Ids(entries) \/ bubble[m] = "failed"
             /\ bubble'[m] = "success" => bubble[m] = "success"
  BY DEF Told
<1>4. ASSUME NEW m \in Sends, bubble'[m] = "sending" PROVE m \in missed
  BY <1>3, <1>4 DEF Pending, SendingIsPending
<1>5. \A m \in Sends : bubble'[m] = "failed" => m \in cut'
  BY <1>2, <1>3 DEF Disconnected
<1>6. EntryIsOpen'
  BY <1>1 DEF EntryIsOpen
<1>7. SendingIsPending' /\ missed' \subseteq cut'
  BY <1>2, <1>4 DEF Pending, SendingIsPending
<1>. QED BY <1>2, <1>3, <1>4, <1>5, <1>6, <1>7 DEF Pending

\* The parts of Pending that are about the entries, and sendPacket.
LEMMA SamePending ==
    ASSUME Pending, UNCHANGED <<pendingSend, bubble, missed, cut>>, Offline'
    PROVE  Pending'
BY DEF Pending, SendingIsPending, EntryIsOpen, Ids

LEMMA SendPacketsOffline ==
    ASSUME Pending, NEW packets, SendPackets(packets)
    PROVE  Offline' /\ cut' = cut
BY DEF Pending, Offline, SendPackets

LEMMA FailsPending ==
    ASSUME Typed, Pending, SendFails(pendingSend), bubble' = Told(pendingSend), UNCHANGED missed
    PROVE  /\ Pending'
           /\ \A m \in Sends : bubble'[m] \in {"sending", "failed"} => m \in cut'
           /\ \A m \in Sends : bubble'[m] = "success" => bubble[m] = "success"
BY DisconnectedPending DEF SendFails

LEMMA CheckedFacts ==
    ASSUME NEW ids \in SUBSET Ids(pendingSend), CheckRetransmit(ids), NEW m \in Sends
    PROVE  IF m \in ids \ Again(ids)
           THEN m \notin Ids(pendingSend)' /\ bubble'[m] \in {"none", "failed"}
           ELSE (m \in Ids(pendingSend)' <=> m \in Ids(pendingSend)) /\ bubble'[m] = bubble[m]
<1>0. /\ pendingSend' = Checked(ids) /\ bubble' = GivenUp(ids) /\ Again(ids) \subseteq ids
      /\ m \in Ids(pendingSend) => pendingSend[m].on
  BY DEF CheckRetransmit, Again, Ids
<1>1. m \in Ids(pendingSend)' <=> Checked(ids)[m].on
  BY <1>0 DEF Ids
<1>2. CASE m \in ids \ Again(ids)
  <2>1. Checked(ids)[m] = NoEntry
    BY <1>2 DEF Checked
  <2>2. bubble'[m] \in {"none", "failed"}
    BY <1>0, <1>2 DEF GivenUp
  <2>. QED BY <1>1, <1>2, <2>1, <2>2, EntryFacts
<1>3. CASE m \notin ids \ Again(ids)
  <2>1. bubble'[m] = bubble[m]
    BY <1>0, <1>3 DEF GivenUp
  <2>2. CASE m \in Again(ids)
    BY <1>0, <1>1, <1>3, <2>1, <2>2 DEF Checked
  <2>3. CASE m \notin ids /\ m \in Ids(pendingSend)
    <3>1. Checked(ids)[m] = [pendingSend[m] EXCEPT !.skips = @ + 1]
      BY <1>0, <2>3 DEF Checked
    <3>2. Checked(ids)[m].on = pendingSend[m].on
      BY <3>1
    <3>. QED BY <1>0, <1>1, <1>3, <2>1, <2>3, <3>2
  <2>4. CASE m \notin Ids(pendingSend)
    <3>1. Checked(ids)[m] = NoEntry
      BY <1>0, <2>4 DEF Checked
    <3>. QED BY <1>1, <1>3, <2>1, <2>4, <3>1, EntryFacts
  <2>. QED BY <1>0, <1>3, <2>2, <2>3, <2>4
<1>. QED BY <1>2, <1>3

LEMMA PendingNext == Typed /\ Pending /\ [Next]_vars => Pending'
<1>. SUFFICES ASSUME Typed, Pending, [Next]_vars PROVE Pending'
  OBVIOUS
<1>0. Offline /\ missed \subseteq cut /\ pendingSend \in [Sends -> Entries]
      /\ bubble \in [Sends -> Statuses]
  BY TypedParts DEF Pending, SendingTyped
<1>. USE DEF vars, link, sending, receiving, server, control, sendGhosts
<1>1. CASE Connect \/ ConnectFails \/ ReadyRead \/ ServerReads \/ ServerLogsIn \/ Arrive
             \/ (\E p \in Arrivals : ServerPushes(p)) \/ ServerNotes \/ UNCHANGED vars
  <2>1. UNCHANGED <<pendingSend, bubble, missed, cut>>
    BY <1>1 DEF Connect, ConnectFails, ReadyRead, ServerReads, ServerLogsIn, Arrive,
          ServerPushes, ServerNotes
  <2>2. Offline'
    BY <1>0, <1>1 DEF Offline, Connect, ConnectFails, ReadyRead, ServerReads, ServerLogsIn,
          Arrive, ServerPushes, ServerNotes
  <2>. QED BY <2>1, <2>2, SamePending
<1>2. CASE ConnectAndLeave \/ ConnectionBreaks
  BY <1>2, DisconnectedPending DEF ConnectAndLeave, ConnectionBreaks
<1>3. CASE PressLogin
  <2>1. missed' = missed
    BY <1>3 DEF PressLogin
  <2>2. CASE SendPackets(<<Login>>) /\ UNCHANGED <<pendingSend, bubble>>
    BY <2>1, <2>2, SendPacketsOffline, SamePending
  <2>3. CASE SendFails(pendingSend) /\ bubble' = Told(pendingSend)
    BY <2>1, <2>3, FailsPending
  <2>. QED BY <1>3, <2>2, <2>3 DEF PressLogin
<1>4. ASSUME NEW m \in Sends, PressSend(m) PROVE Pending'
  <2>. DEFINE entries == [pendingSend EXCEPT ![m] = NewEntry]
  <2>0. Ids(entries) = Ids(pendingSend) \cup {m}
    BY <1>0, EntryFacts DEF Ids
  <2>1. CASE SendPackets(<<Chat(m)>>) /\ pendingSend' = entries
               /\ bubble' = [bubble EXCEPT ![m] = "sending"] /\ UNCHANGED missed
    <3>1. Offline' /\ cut' = cut
      BY <2>1, SendPacketsOffline
    <3>2. Ids(pendingSend') = Ids(pendingSend) \cup {m}
      BY <2>0, <2>1
    <3>3. bubble'[m] = "sending" /\ \A n \in Sends \ {m} : bubble'[n] = bubble[n]
      BY <1>0, <2>1
    <3>4. Ids(pendingSend) \subseteq Sends
      BY DEF Ids
    <3>5. EntryIsOpen'
      BY <3>2, <3>3, <3>4 DEF Pending, EntryIsOpen
    <3>6. SendingIsPending'
      BY <2>1, <3>2, <3>3 DEF Pending, SendingIsPending
    <3>. QED BY <1>0, <2>1, <3>1, <3>5, <3>6 DEF Pending
  <2>2. CASE SendFails(entries) /\ bubble' = [Told(entries) EXCEPT ![m] = "sending"]
               /\ missed' = missed \cup {m}
    <3>. HIDE DEF entries
    <3>1. Ids(pendingSend') = {} /\ Offline' /\ cut' = cut \cup Ids(entries) \cup {n \in Sends : bubble[n] = "failed"}
      BY <2>2, EntryFacts DEF SendFails, Disconnected, Ids, Offline
    <3>2. missed' \subseteq cut'
      BY <1>0, <2>0, <2>2, <3>1
    <3>3. \A n \in Sends \ {m} : bubble'[n] = "sending" => bubble[n] = "sending" /\ n \notin Ids(entries)
      BY <2>2 DEF Told
    <3>4. SendingIsPending'
      BY <2>0, <2>2, <3>3 DEF Pending, SendingIsPending
    <3>5. EntryIsOpen'
      BY <3>1 DEF EntryIsOpen
    <3>. QED BY <3>1, <3>2, <3>4, <3>5 DEF Pending
  <2>. QED BY <1>4, <2>1, <2>2 DEF PressSend
<1>5. CASE Logout
  <2>1. Offline' /\ missed' = missed /\ cut \subseteq cut' /\ \A m \in Sends : bubble'[m] = "none"
    BY <1>0, <1>5 DEF Logout, Offline, Disconnected
  <2>2. SendingIsPending' /\ EntryIsOpen'
    BY <2>1 DEF SendingIsPending, EntryIsOpen, Ids
  <2>. QED BY <1>0, <2>1, <2>2 DEF Pending
<1>6. CASE CloseBox
  <2>1. missed' = missed
    BY <1>6 DEF CloseBox
  <2>2. CASE UNCHANGED <<chat, link, sending, cut, inputs>>
    BY <1>0, <2>1, <2>2, SamePending DEF Offline
  <2>3. CASE SendPackets(<<Sync(known, lastSyncKey)>>) /\ UNCHANGED <<pendingSend, bubble, inputs>>
    BY <2>1, <2>3, SendPacketsOffline, SamePending
  <2>4. CASE SendFails(pendingSend) /\ bubble' = Told(pendingSend)
    BY <2>1, <2>4, FailsPending
  <2>. QED BY <1>6, <2>2, <2>3, <2>4 DEF CloseBox
<1>7. ASSUME NEW ids \in SUBSET Ids(pendingSend), CheckRetransmit(ids) PROVE Pending'
  <2>1. missed' = missed /\ cut' = cut /\ Offline'
    BY <1>0, <1>7 DEF CheckRetransmit, Offline
  <2>2. Ids(pendingSend)' \subseteq Sends
    BY DEF Ids
  <2>3. SendingIsPending'
    BY <1>7, <2>1, CheckedFacts DEF Pending, SendingIsPending
  <2>4. EntryIsOpen'
    BY <1>7, <2>2, CheckedFacts DEF Pending, EntryIsOpen
  <2>. QED BY <1>0, <2>1, <2>3, <2>4 DEF Pending
<1>8. CASE CheckRetransmitFails
  BY <1>8, FailsPending DEF CheckRetransmitFails
<1>9. CASE HandleAck
  <2>1. PICK m \in Sends, ok \in BOOLEAN : pendingSend' = Acked(m) /\ bubble' = Marked(m, ok)
    BY <1>9, HandlesTyped, ReplyKinds DEF HandleAck
  <2>2. Ids(pendingSend') = Ids(pendingSend) \ {m}
    BY <1>0, <2>1, EntryFacts DEF Acked, Ids
  <2>3. /\ bubble'[m] \in {"none", "success", "failed"}
        /\ \A n \in Sends \ {m} : bubble'[n] = bubble[n]
    BY <1>0, <2>1 DEF Marked
  <2>4. missed' = missed /\ cut' = cut /\ Offline'
    BY <1>0, <1>9 DEF HandleAck, Offline
  <2>5. SendingIsPending'
    BY <2>2, <2>3, <2>4 DEF Pending, SendingIsPending
  <2>6. EntryIsOpen'
    <3>1. Ids(pendingSend) \subseteq Sends
      BY DEF Ids
    <3>. QED BY <2>2, <2>3, <3>1 DEF Pending, EntryIsOpen
  <2>. QED BY <1>0, <2>4, <2>5, <2>6 DEF Pending
<1>10. CASE HandlePush
  <2>1. missed' = missed
    BY <1>10 DEF HandlePush
  <2>2. CASE SendPackets(<<Receipt>>) /\ UNCHANGED <<pendingSend, bubble>>
    BY <2>1, <2>2, SendPacketsOffline, SamePending
  <2>3. CASE SendFails(pendingSend) /\ bubble' = Told(pendingSend)
    BY <2>1, <2>3, FailsPending
  <2>. QED BY <1>10, <2>2, <2>3 DEF HandlePush
<1>11. CASE HandleLogin \/ HandleSynced \/ HandleSync \/ HandleNote
  <2>1. UNCHANGED <<socket, up, down, pendingSend, bubble, missed, cut>>
    BY <1>11 DEF HandleLogin, HandleSynced, HandleSync, HandleNote
  <2>. QED BY <1>0, <2>1, SamePending DEF Offline
<1>. QED
  BY <1>1, <1>2, <1>3, <1>4, <1>5, <1>6, <1>7, <1>8, <1>9, <1>10, <1>11
     DEF Next, Connection, User, CheckSome, Handle, Server

\* A bubble that says "sending" always has an entry that will settle it, whatever
\* breaks, times out or holds up onReadyRead: imclient.cpp:378-415.
THEOREM SendingIsPendingAlways == Spec => []SendingIsPending
<1>1. Pending => SendingIsPending
  BY DEF Pending
<1>. QED BY <1>1, TypedInit, TypedNext, PendingInit, PendingNext, PTL DEF Spec

-----------------------------------------------------------------------------
(* The status of a message when all answers are in.                         *)

\* What is under way to the server and to the client.
Out == ToSet(up) \cup ToSet(pendingPackets)
In == ToSet(down) \cup ToSet(readBuffer)

\* A message that is not settled, was not refused and whose connection did not break
\* is still on its way, or its answer is.
Waiting ==
    \A m \in Sends :
        bubble[m] \in {"sending", "failed"} =>
            m \in cut \cup refused \/ Chat(m) \in Out \/ \E ok \in BOOLEAN : Ack(m, ok) \in In

\* Answers are the server's.
Accepted ==
    \A m \in Sends :
        /\ Ack(m, TRUE) \in In \/ bubble[m] = "success" => m \in accepted
        /\ Ack(m, FALSE) \in In => m \in refused

Answered == Waiting /\ Accepted

LEMMA KindsDiffer ==
    /\ \A m, n \in Sends : Chat(m) = Chat(n) => m = n
    /\ \A m, n \in Sends, a, b \in BOOLEAN : Ack(m, a) = Ack(n, b) => m = n /\ a = b
    /\ \A m \in Sends : Chat(m).kind = "chat" /\ \A ok \in BOOLEAN : Ack(m, ok).kind = "ack"
    /\ \A ok : LoginAck(ok).kind = "login"
    /\ Login.kind = "login" /\ Receipt.kind = "recvack" /\ \A u, k : Sync(u, k).kind = "sync"
    /\ \A ids, k : Synced(ids, k).kind = "synced"
    /\ \A p \in Arrivals : Push(p).kind = "push"
BY DEF Chat, Ack, Login, Receipt, LoginAck, Sync, Synced, Push

LEMMA SendPacketsSets ==
    ASSUME Typed, NEW r \in Packets, SendPackets(<<r>>)
    PROVE  Out' = Out \cup {r} /\ down' = down
<1>1. up \in Seq(Packets) /\ pendingPackets \in Seq(Packets)
  BY DEF Typed, TypeOK
<1>2. ToSet(up \o <<r>>) = ToSet(up) \cup {r}
  BY <1>1, SetOfOne
<1>3. ToSet(pendingPackets \o <<r>>) = ToSet(pendingPackets) \cup {r}
  BY <1>1, SetOfOne
<1>. QED BY <1>2, <1>3 DEF SendPackets, Out

LEMMA DisconnectedSets ==
    ASSUME NEW entries, Disconnected(entries), pendingPackets' \in {pendingPackets, <<>>},
           ToSet(readBuffer') \subseteq ToSet(readBuffer)
    PROVE  Out' \subseteq Out /\ In' \subseteq In
BY SetOfEmpty DEF Disconnected, Out, In

LEMMA FailsSets ==
    ASSUME NEW entries, SendFails(entries), ToSet(readBuffer') \subseteq ToSet(readBuffer)
    PROVE  Out' \subseteq Out /\ In' \subseteq In
BY DisconnectedSets DEF SendFails

LEMMA HandlesSets ==
    ASSUME Typed, NEW kind, Handles(kind)
    PROVE  ToSet(readBuffer) = {Head(readBuffer)} \cup ToSet(readBuffer')
BY SetOfTail DEF Handles, Typed

\* The message of a synced answer that is shown leaves the other answers alone.
LEMMA SyncedSets ==
    ASSUME Typed, HandleSynced
    PROVE  \E ids \in Seq(Arrivals), k \in 0..LastArrival :
              /\ ids # <<>> /\ Head(ids) \in Arrivals /\ Tail(ids) \in Seq(Arrivals)
              /\ ToSet(readBuffer) = {Synced(ids, k)} \cup ToSet(Tail(readBuffer))
              /\ ToSet(readBuffer') = {Synced(Tail(ids), k)} \cup ToSet(Tail(readBuffer))
              /\ ToSet(ids) = {Head(ids)} \cup ToSet(Tail(ids))
              /\ Show(Head(ids))
<1>1. readBuffer # <<>> /\ readBuffer \in Seq(Replies)
  BY DEF HandleSynced, Typed
<1>2. /\ Head(readBuffer) \in Replies /\ Tail(readBuffer) \in Seq(Replies)
      /\ ToSet(readBuffer) = {Head(readBuffer)} \cup ToSet(Tail(readBuffer))
  BY <1>1, SetOfTail
<1>. DEFINE ids == Head(readBuffer).ids  k == Head(readBuffer).key
<1>3. ids \in Seq(Arrivals) /\ k \in 0..LastArrival /\ Head(readBuffer) = Synced(ids, k)
  BY <1>2, ReplyKinds DEF HandleSynced
<1>4. ids # <<>> /\ Show(Head(ids)) /\ readBuffer' = <<Shorter(Head(readBuffer))>> \o Tail(readBuffer)
  BY DEF HandleSynced, Shorter
<1>5. Shorter(Head(readBuffer)) = Synced(Tail(ids), k)
  BY <1>3, ShorterFacts
<1>. HIDE DEF ids, k
<1>6. /\ Head(ids) \in Arrivals /\ Tail(ids) \in Seq(Arrivals)
      /\ ToSet(ids) = {Head(ids)} \cup ToSet(Tail(ids))
  BY <1>3, <1>4, SetOfTail
<1>7. Synced(Tail(ids), k) \in Replies /\ Synced(ids, k) \in Replies
  BY <1>3, <1>6, ReplyFacts
<1>8. ToSet(readBuffer') = {Synced(Tail(ids), k)} \cup ToSet(Tail(readBuffer))
  <2>. DEFINE rest == Tail(readBuffer)
  <2>1. rest \in Seq(Replies)
    BY <1>2
  <2>. HIDE DEF rest
  <2>2. \A r \in Replies : ToSet(<<r>> \o rest) = ToSet(rest) \cup {r}
    BY <2>1, SetOfOne
  <2>. QED BY <1>4, <1>5, <1>7, <2>2 DEF rest
<1>. QED BY <1>2, <1>3, <1>4, <1>6, <1>8

LEMMA ReplySets ==
    ASSUME Typed, NEW r \in Replies, Reply(r), UNCHANGED readBuffer
    PROVE  In' = In \cup {r}
<1>1. ToSet(down') = ToSet(down) \cup {r}
  BY SetOfAppend DEF Reply, Typed
<1>. QED BY <1>1 DEF In

\* What a pass of checkRetransmit puts on its way.
LEMMA RetransmitSets ==
    ASSUME Typed, NEW ids \in SUBSET Ids(pendingSend), CheckRetransmit(ids)
    PROVE  /\ Out \subseteq Out' /\ In' = In
           /\ \A r \in Out' : r \in Out \/ \E m \in Sends : r = Chat(m)
<1>. DEFINE Copies(order) == [i \in DOMAIN order |-> Chat(order[i])]
<1>1. PICK order \in InOrder(Again(ids)) : up' = up \o Copies(order)
  BY DEF CheckRetransmit
<1>2. Again(ids) \subseteq Sends /\ IsFiniteSet(Again(ids))
  <2>1. Again(ids) \subseteq Sends
    BY DEF Ids, Again
  <2>. QED BY <2>1, LimitsAssumption, FS_Subset
<1>3. order \in [1..Cardinality(Again(ids)) -> Again(ids)] /\ Cardinality(Again(ids)) \in Nat
  BY <1>1, <1>2, FS_CardinalityType DEF InOrder
<1>4. Copies(order) \in [1..Cardinality(Again(ids)) -> Packets]
  BY <1>2, <1>3, PacketFacts
<1>5. Copies(order) \in Seq(Packets)
  BY <1>3, <1>4, SeqDef
<1>6. \A r \in ToSet(Copies(order)) : \E m \in Sends : r = Chat(m)
  BY <1>2, <1>3 DEF ToSet
<1>. HIDE DEF Copies
<1>7. ToSet(up') = ToSet(up) \cup ToSet(Copies(order))
  BY <1>1, <1>5, SetOfConcat DEF Typed, TypeOK
<1>8. UNCHANGED <<down, readBuffer, pendingPackets>>
  BY DEF CheckRetransmit, link, sending, control
<1>. QED BY <1>6, <1>7, <1>8 DEF Out, In

LEMMA AnsweredInit == Init => Answered
<1>. SUFFICES ASSUME Init PROVE Answered
  OBVIOUS
<1>1. In = {} /\ \A m \in Sends : bubble[m] = "none"
  BY SetOfEmpty DEF Init, In
<1>. QED BY <1>1 DEF Answered, Waiting, Accepted

\* Nothing is lost: the general step, and that of an end of the connection.
LEMMA SameAnswered ==
    ASSUME Answered, UNCHANGED <<bubble, cut, accepted, refused>>, Out \subseteq Out',
           \A m \in Sends, ok \in BOOLEAN : Ack(m, ok) \in In' <=> Ack(m, ok) \in In
    PROVE  Answered'
BY DEF Answered, Waiting, Accepted

LEMMA DisconnectedAnswered ==
    ASSUME Answered, In' \subseteq In, accepted \subseteq accepted', refused \subseteq refused',
           \A m \in Sends : bubble'[m] \in {"sending", "failed"} => m \in cut',
           \A m \in Sends : bubble'[m] = "success" => bubble[m] = "success"
    PROVE  Answered'
BY DEF Answered, Waiting, Accepted

LEMMA FailsAnswered ==
    ASSUME Typed, Pending, Answered, SendFails(pendingSend), bubble' = Told(pendingSend),
           UNCHANGED <<missed, accepted, refused>>, ToSet(readBuffer') \subseteq ToSet(readBuffer)
    PROVE  Answered'
<1>1. In' \subseteq In
  BY FailsSets
<1>. QED BY <1>1, FailsPending, DisconnectedAnswered

LEMMA AnsweredNext == Typed /\ Pending /\ Answered /\ [Next]_vars => Answered'
<1>. SUFFICES ASSUME Typed, Pending, Answered, [Next]_vars PROVE Answered'
  OBVIOUS
<1>0. Offline /\ bubble \in [Sends -> Statuses]
  BY TypedParts DEF Pending, SendingTyped
<1>. USE DEF vars, link, sending, receiving, server, control, sendGhosts
<1>1. CASE Connect
  <2>1. UNCHANGED <<bubble, cut, accepted, refused, down, readBuffer>> /\ up = <<>>
    BY <1>0, <1>1 DEF Connect, Offline
  <2>2. Out' = Out /\ In' = In
    BY <1>1, <2>1, SetOfEmpty DEF Connect, Out, In
  <2>. QED BY <2>1, <2>2, SameAnswered
<1>2. CASE ConnectAndLeave \/ ConnectionBreaks
  <2>1. /\ Disconnected(pendingSend) /\ bubble' = Told(pendingSend) /\ UNCHANGED missed
        /\ accepted \subseteq accepted' /\ refused \subseteq refused' /\ readBuffer' = readBuffer
        /\ pendingPackets' \in {pendingPackets, <<>>}
    BY <1>2 DEF ConnectAndLeave, ConnectionBreaks
  <2>2. In' \subseteq In
    BY <2>1, DisconnectedSets
  <2>. QED BY <2>1, <2>2, DisconnectedPending, DisconnectedAnswered
<1>3. CASE ConnectFails \/ Arrive \/ UNCHANGED vars
  <2>1. UNCHANGED <<bubble, cut, accepted, refused, up, down, readBuffer, pendingPackets>>
    BY <1>3 DEF ConnectFails, Arrive
  <2>2. Out' = Out /\ In' = In
    BY <2>1 DEF Out, In
  <2>. QED BY <2>1, <2>2, SameAnswered
<1>4. CASE PressLogin
  <2>1. UNCHANGED <<missed, accepted, refused, readBuffer>>
    BY <1>4 DEF PressLogin
  <2>2. CASE SendPackets(<<Login>>) /\ UNCHANGED <<pendingSend, bubble>>
    <3>1. Out \subseteq Out' /\ In' = In /\ cut' = cut
      BY <2>1, <2>2, PacketFacts, SendPacketsSets, SendPacketsOffline DEF In
    <3>. QED BY <2>1, <2>2, <3>1, SameAnswered
  <2>3. CASE SendFails(pendingSend) /\ bubble' = Told(pendingSend)
    BY <2>1, <2>3, FailsAnswered
  <2>. QED BY <1>4, <2>2, <2>3 DEF PressLogin
<1>5. ASSUME NEW m \in Sends, PressSend(m) PROVE Answered'
  <2>. DEFINE entries == [pendingSend EXCEPT ![m] = NewEntry]
  <2>0. UNCHANGED <<accepted, refused, readBuffer>> /\ m \in Ids(entries)
    BY <1>5, TypedParts, EntryFacts DEF PressSend, Ids, SendingTyped
  <2>1. CASE SendPackets(<<Chat(m)>>) /\ pendingSend' = entries
               /\ bubble' = [bubble EXCEPT ![m] = "sending"] /\ UNCHANGED missed
    <3>1. Out' = Out \cup {Chat(m)} /\ In' = In /\ cut' = cut
      BY <2>0, <2>1, PacketFacts, SendPacketsSets, SendPacketsOffline DEF In
    <3>2. bubble'[m] = "sending" /\ \A n \in Sends \ {m} : bubble'[n] = bubble[n]
      BY <1>0, <2>1
    <3>. QED BY <2>0, <3>1, <3>2 DEF Answered, Waiting, Accepted
  <2>2. CASE SendFails(entries) /\ bubble' = [Told(entries) EXCEPT ![m] = "sending"]
               /\ missed' = missed \cup {m}
    <3>. HIDE DEF entries
    <3>1. In' \subseteq In
      BY <2>0, <2>2, FailsSets
    <3>2. m \in cut' /\ cut \subseteq cut' /\ \A n \in Sends : bubble[n] = "failed" => n \in cut'
      BY <2>0, <2>2 DEF SendFails, Disconnected
    <3>3. Ids(entries) \subseteq cut'
      BY <2>2 DEF SendFails, Disconnected
    <3>4. \A n \in Sends \ {m} :
              /\ bubble'[n] = "sending" => bubble[n] = "sending" /\ n \notin Ids(entries)
              /\ bubble'[n] = "failed" => bubble[n] = "failed" \/ n \in Ids(entries)
              /\ bubble'[n] = "success" => bubble[n] = "success"
      BY <2>2 DEF Told
    <3>5. \A n \in Sends \ {m} : n \in Ids(pendingSend) => n \in Ids(entries)
      BY TypedParts DEF Ids, SendingTyped, entries
    <3>6. \A n \in Sends \ {m} : bubble'[n] \in {"sending", "failed"} => n \in cut'
      BY <3>2, <3>3, <3>4, <3>5 DEF Pending, SendingIsPending
    <3>7. bubble'[m] # "success"
      BY <1>0, <2>2 DEF Told
    <3>. QED BY <2>0, <3>1, <3>2, <3>4, <3>6, <3>7, DisconnectedAnswered
  <2>. QED BY <1>5, <2>1, <2>2 DEF PressSend
<1>6. CASE Logout
  <2>1. UNCHANGED <<accepted, refused, readBuffer>> /\ \A m \in Sends : bubble'[m] = "none"
    BY <1>6 DEF Logout
  <2>2. In' \subseteq In
    BY <1>6, <2>1, SetOfEmpty DEF Logout, Disconnected, In
  <2>. QED BY <2>1, <2>2, DisconnectedAnswered
<1>7. CASE CloseBox
  <2>1. UNCHANGED <<missed, accepted, refused, readBuffer>>
    BY <1>7 DEF CloseBox
  <2>2. CASE UNCHANGED <<chat, link, sending, cut, inputs>>
    BY <2>1, <2>2, SameAnswered DEF Out, In
  <2>3. CASE SendPackets(<<Sync(known, lastSyncKey)>>) /\ UNCHANGED <<pendingSend, bubble, inputs>>
    <3>1. Sync(known, lastSyncKey) \in Packets
      BY PacketFacts DEF Typed, TypeOK
    <3>2. Out \subseteq Out' /\ In' = In /\ cut' = cut
      BY <2>1, <2>3, <3>1, SendPacketsSets, SendPacketsOffline DEF In
    <3>. QED BY <2>1, <2>3, <3>2, SameAnswered
  <2>4. CASE SendFails(pendingSend) /\ bubble' = Told(pendingSend)
    BY <2>1, <2>4, FailsAnswered
  <2>. QED BY <1>7, <2>2, <2>3, <2>4 DEF CloseBox
<1>8. ASSUME NEW ids \in SUBSET Ids(pendingSend), CheckRetransmit(ids) PROVE Answered'
  <2>1. accepted' = accepted /\ refused' = refused /\ cut' = cut
    BY <1>8 DEF CheckRetransmit
  <2>2. ids \subseteq Ids(pendingSend) /\ Ids(pendingSend) \subseteq Sends
    BY DEF Ids
  <2>3. ASSUME NEW m \in Sends
        PROVE  /\ bubble'[m] \in {"sending", "failed"} =>
                      bubble[m] \in {"sending", "failed"} \/ bubble'[m] = bubble[m]
               /\ bubble'[m] = "success" => bubble[m] = "success"
    <3>1. CASE m \in ids \ Again(ids)
      <4>1. bubble[m] \in {"none", "sending"}
        BY <2>2, <3>1 DEF Pending, EntryIsOpen
      <4>2. bubble[m] = "none" => bubble'[m] = "none"
        BY <1>8 DEF CheckRetransmit, GivenUp
      <4>3. bubble'[m] \in {"none", "failed"}
        BY <1>8, <3>1, CheckedFacts
      <4>. QED BY <4>1, <4>2, <4>3
    <3>2. CASE m \notin ids \ Again(ids)
      BY <1>8, <3>2, CheckedFacts
    <3>. QED BY <3>1, <3>2
  <2>4. Out \subseteq Out' /\ In' = In
    BY <1>8, RetransmitSets
  <2>. QED BY <2>1, <2>3, <2>4 DEF Answered, Waiting, Accepted
<1>9. CASE CheckRetransmitFails
  BY <1>9, FailsAnswered DEF CheckRetransmitFails
<1>10. CASE ReadyRead
  <2>1. readBuffer = <<>> /\ UNCHANGED <<bubble, cut, accepted, refused, up, pendingPackets>>
    BY <1>10 DEF ReadyRead, Usable, Free
  <2>2. Out' = Out /\ In' = In
    BY <1>10, <2>1, SetOfEmpty DEF ReadyRead, Out, In
  <2>. QED BY <2>1, <2>2, SameAnswered
<1>11. CASE HandleAck
  <2>1. /\ ToSet(readBuffer) = {Head(readBuffer)} \cup ToSet(readBuffer')
        /\ Head(readBuffer) \in Replies /\ Head(readBuffer).kind = "ack"
    BY <1>11, HandlesSets, HandlesTyped DEF HandleAck
  <2>2. PICK m \in Sends, ok \in BOOLEAN : Head(readBuffer) = Ack(m, ok) /\ bubble' = Marked(m, ok)
    BY <1>11, <2>1, ReplyKinds DEF HandleAck
  <2>3. UNCHANGED <<up, down, pendingPackets, cut, accepted, refused>>
    BY <1>11 DEF HandleAck
  <2>4. Out' = Out /\ In = In' \cup {Ack(m, ok)}
    BY <2>1, <2>2, <2>3 DEF Out, In
  <2>5. \A n \in Sends \ {m}, a \in BOOLEAN : Ack(n, a) \in In => Ack(n, a) \in In'
    BY <2>4, KindsDiffer
  <2>6. /\ bubble'[m] \in {"none", "success", "failed"} /\ (bubble'[m] = "success" => ok)
        /\ bubble'[m] = "failed" => ~ok
        /\ \A n \in Sends \ {m} : bubble'[n] = bubble[n]
    BY <1>0, <2>2 DEF Marked
  <2>7. (ok => m \in accepted) /\ (~ok => m \in refused)
    BY <2>4 DEF Answered, Accepted
  <2>8. Waiting'
    BY <2>3, <2>4, <2>5, <2>6, <2>7 DEF Answered, Waiting
  <2>9. Accepted'
    BY <2>3, <2>4, <2>6, <2>7 DEF Answered, Accepted
  <2>. QED BY <2>8, <2>9 DEF Answered
<1>12. CASE HandlePush
  <2>1. /\ ToSet(readBuffer) = {Head(readBuffer)} \cup ToSet(readBuffer')
        /\ Head(readBuffer).kind = "push" /\ UNCHANGED <<missed, accepted, refused>>
    BY <1>12, HandlesSets, HandlesTyped DEF HandlePush
  <2>2. CASE SendPackets(<<Receipt>>) /\ UNCHANGED <<pendingSend, bubble, inputs>>
    <3>1. Out \subseteq Out' /\ In = In' \cup {Head(readBuffer)} /\ cut' = cut
      BY <2>1, <2>2, PacketFacts, SendPacketsSets, SendPacketsOffline DEF In
    <3>2. \A m \in Sends, ok \in BOOLEAN : Ack(m, ok) # Head(readBuffer)
      BY <2>1, KindsDiffer
    <3>. QED BY <2>1, <2>2, <3>1, <3>2, SameAnswered
  <2>3. CASE SendFails(pendingSend) /\ bubble' = Told(pendingSend)
    BY <2>1, <2>3, FailsAnswered
  <2>. QED BY <1>12, <2>2, <2>3 DEF HandlePush
<1>13. CASE HandleSynced
  <2>1. UNCHANGED <<bubble, cut, accepted, refused, up, down, pendingPackets>>
    BY <1>13 DEF HandleSynced
  <2>2. PICK ids \in Seq(Arrivals), k \in 0..LastArrival :
            /\ ToSet(readBuffer) = {Synced(ids, k)} \cup ToSet(Tail(readBuffer))
            /\ ToSet(readBuffer') = {Synced(Tail(ids), k)} \cup ToSet(Tail(readBuffer))
    BY <1>13, SyncedSets
  <2>3. \A m \in Sends, ok \in BOOLEAN :
            Ack(m, ok) # Synced(ids, k) /\ Ack(m, ok) # Synced(Tail(ids), k)
    BY KindsDiffer
  <2>4. Out' = Out /\ \A m \in Sends, ok \in BOOLEAN : Ack(m, ok) \in In' <=> Ack(m, ok) \in In
    BY <2>1, <2>2, <2>3 DEF Out, In
  <2>. QED BY <2>1, <2>4, SameAnswered
<1>14. CASE HandleLogin \/ HandleSync \/ HandleNote
  <2>1. UNCHANGED <<bubble, cut, accepted, refused, up, down, pendingPackets>>
    BY <1>14 DEF HandleLogin, HandleSync, HandleNote
  <2>2. PICK kind \in {"login", "synced", "note"} : Handles(kind)
    BY <1>14 DEF HandleLogin, HandleSync, HandleNote
  <2>3. /\ ToSet(readBuffer) = {Head(readBuffer)} \cup ToSet(readBuffer')
        /\ Head(readBuffer).kind = kind
    BY <2>2, HandlesSets, HandlesTyped
  <2>4. \A m \in Sends, ok \in BOOLEAN : Ack(m, ok) # Head(readBuffer)
    BY <2>3, KindsDiffer
  <2>5. Out' = Out /\ \A m \in Sends, ok \in BOOLEAN : Ack(m, ok) \in In' <=> Ack(m, ok) \in In
    BY <2>1, <2>3, <2>4 DEF Out, In
  <2>. QED BY <2>1, <2>5, SameAnswered
<1>15. CASE ServerReads
  <2>1. UNCHANGED <<bubble, cut, pendingPackets, readBuffer>>
    BY <1>15 DEF ServerReads
  <2>2. up \in Seq(Packets) /\ up # <<>> /\ up' = Tail(up) /\ down \in Seq(Replies)
    BY <1>15 DEF ServerReads, Typed, TypeOK
  <2>3. ToSet(up) = {Head(up)} \cup ToSet(up')
    BY <2>2, SetOfTail
  <2>4. Out = Out' \cup {Head(up)} \/ Out = Out'
    BY <2>1, <2>3 DEF Out
  <2>5. \A r \in Replies : down' = Append(down, r) => In' = In \cup {r}
    BY <2>1, ReplySets DEF Reply
  <2>6. CASE TookNone /\ ~(\E m \in Sends : Head(up) = Chat(m)) /\ In \subseteq In'
               /\ \A m \in Sends, ok \in BOOLEAN : Ack(m, ok) \in In' => Ack(m, ok) \in In
    BY <2>1, <2>4, <2>6 DEF Answered, Waiting, Accepted, TookNone
  <2>7. CASE Head(up) \in {Login, Receipt} /\ TookNone
               /\ down' \in {down, Append(down, LoginAck(FALSE))}
    <3>1. \A m \in Sends : Head(up) # Chat(m)
      BY <2>7, KindsDiffer
    <3>2. down' = down => In' = In
      BY <2>1 DEF In
    <3>3. down' = Append(down, LoginAck(FALSE)) => In' = In \cup {LoginAck(FALSE)}
      BY <2>5, ReplyFacts
    <3>4. \A m \in Sends, ok \in BOOLEAN : Ack(m, ok) # LoginAck(FALSE)
      BY KindsDiffer
    <3>. QED BY <2>6, <2>7, <3>1, <3>2, <3>3, <3>4
  <2>9. CASE \E m \in Sends, ok \in BOOLEAN :
                 Head(up) = Chat(m) /\ down' = Append(down, Ack(m, ok)) /\ Took(m, ok)
    <3>1. PICK m \in Sends, ok \in BOOLEAN :
              Head(up) = Chat(m) /\ down' = Append(down, Ack(m, ok)) /\ Took(m, ok)
      BY <2>9
    <3>2. In' = In \cup {Ack(m, ok)}
      BY <2>5, <3>1, ReplyFacts
    <3>3. /\ \A n \in Sends \ {m} : Chat(n) # Chat(m)
          /\ \A n \in Sends, a \in BOOLEAN : Ack(n, a) = Ack(m, ok) => n = m /\ a = ok
      BY KindsDiffer
    <3>4. /\ accepted \subseteq accepted' /\ refused \subseteq refused'
          /\ ok => m \in accepted'
          /\ ~ok => m \in refused'
      BY <3>1 DEF Took
    <3>5. Waiting'
      BY <2>1, <2>4, <3>1, <3>2, <3>3, <3>4 DEF Answered, Waiting
    <3>6. Accepted'
      BY <2>1, <3>2, <3>3, <3>4 DEF Answered, Accepted
    <3>. QED BY <3>5, <3>6 DEF Answered
  <2>8. CASE \E u \in BOOLEAN, k \in 0..LastArrival, ids \in Seq(Arrivals), n \in 0..LastArrival :
                 Head(up) = Sync(u, k) /\ down' = Append(down, Synced(ids, n)) /\ TookNone
    <3>1. PICK u \in BOOLEAN, k \in 0..LastArrival, ids \in Seq(Arrivals), n \in 0..LastArrival :
                 Head(up) = Sync(u, k) /\ down' = Append(down, Synced(ids, n)) /\ TookNone
      BY <2>8
    <3>2. In' = In \cup {Synced(ids, n)}
      BY <2>5, <3>1, ReplyFacts
    <3>3. /\ \A m \in Sends : Chat(m) # Sync(u, k)
          /\ \A m \in Sends, ok \in BOOLEAN : Ack(m, ok) # Synced(ids, n)
      BY KindsDiffer
    <3>. QED BY <2>6, <3>1, <3>2, <3>3
  <2>. QED BY <1>15, <2>7, <2>8, <2>9, ServerReadsFacts
<1>16. CASE (\E p \in Arrivals : ServerPushes(p)) \/ ServerNotes \/ ServerLogsIn
  <2>1. UNCHANGED <<bubble, cut, accepted, refused, up, pendingPackets, readBuffer>>
    BY <1>16 DEF ServerPushes, ServerNotes, ServerLogsIn
  <2>2. PICK r \in Replies : r.kind \in {"push", "note", "login"} /\ Reply(r)
    <3>1. \A p \in Arrivals : Push(p) \in Replies /\ Push(p).kind = "push"
      BY ReplyFacts, KindsDiffer
    <3>2. [kind |-> "note"] \in Replies /\ [kind |-> "note"].kind = "note"
      BY ReplyFacts
    <3>3. ServerNotes => Reply([kind |-> "note"])
      BY DEF ServerNotes
    <3>4. \A p \in Arrivals : ServerPushes(p) => Reply(Push(p))
      BY DEF ServerPushes, Push
    <3>5. LoginAck(TRUE) \in Replies /\ LoginAck(TRUE).kind = "login"
      BY ReplyFacts, KindsDiffer
    <3>6. ServerLogsIn => Reply(LoginAck(TRUE))
      BY DEF ServerLogsIn, LoginAck
    <3>. QED BY <1>16, <3>1, <3>2, <3>3, <3>4, <3>5, <3>6
  <2>3. Out' = Out /\ In' = In \cup {r}
    BY <2>1, <2>2, ReplySets DEF Out
  <2>4. \A m \in Sends, ok \in BOOLEAN : Ack(m, ok) # r
    BY <2>2, KindsDiffer
  <2>. QED BY <2>1, <2>3, <2>4, SameAnswered
<1>. QED
  BY <1>1, <1>2, <1>3, <1>4, <1>5, <1>6, <1>7, <1>8, <1>9, <1>10, <1>11, <1>12, <1>13, <1>14,
     <1>15, <1>16
     DEF Next, Connection, User, CheckSome, Handle, Server

\* When all answers are in, "failed" is shown only for a message whose connection
\* broke or of which the server refused a copy, and "success" only for one of which
\* it took a copy over: imclient.cpp:225-232, 378-415, chatservice.cpp:400-438.
THEOREM BubbleIsRightAlways == Spec => []BubbleIsRight
<1>1. Answered => BubbleIsRight
  BY SetOfEmpty DEF Answered, Waiting, Accepted, BubbleIsRight, Quiet, Out, In
<1>. QED
  BY <1>1, TypedInit, TypedNext, PendingInit, PendingNext, AnsweredInit, AnsweredNext, PTL DEF Spec

-----------------------------------------------------------------------------
(* A message is shown once while its id is remembered.                      *)

Windowed ==
    /\ \A p \in ToSet(window) : shown[p] > 0 \/ p \in unseen
    /\ \A p \in Arrivals : shown[p] > 0 => p \in ToSet(window) \cup evicted
    /\ ShownOnce

LEMMA WindowedInit == Init => Windowed
<1>1. 0 \in Nat /\ ~(0 > 0) /\ ~(0 > 1)
  OBVIOUS
<1>. QED BY <1>1, SetOfEmpty DEF Init, Windowed, ShownOnce

\* Only an arriving message that is handled touches the window.
LEMMA ShowsOnly ==
    ASSUME Typed, [Next]_vars
    PROVE  UNCHANGED <<window, shown, unseen, evicted>> \/ \E p \in Arrivals : Show(p)
<1>. USE DEF vars, link, sending, receiving, server, control, sendGhosts
<1>1. CASE HandlePush
  <2>1. Head(readBuffer).id \in Arrivals
    BY <1>1, HandlesTyped, ReplyKinds DEF HandlePush
  <2>. QED BY <1>1, <2>1 DEF HandlePush
<1>2. CASE HandleSynced
  BY <1>2, SyncedSets
<1>3. CASE Connection \/ User \/ CheckSome \/ CheckRetransmitFails \/ ReadyRead
  BY <1>3 DEF Connection, Connect, ConnectAndLeave, ConnectFails, ConnectionBreaks, User,
        PressLogin, PressSend, Logout, CloseBox, CheckSome, CheckRetransmit,
        CheckRetransmitFails, ReadyRead
<1>4. CASE HandleLogin \/ HandleAck \/ HandleSync \/ HandleNote \/ Server \/ UNCHANGED vars
  BY <1>4 DEF HandleLogin, HandleAck, HandleSync, HandleNote, Server, ServerReads, ServerLogsIn,
        Arrive, ServerPushes, ServerNotes
<1>. QED BY <1>1, <1>2, <1>3, <1>4 DEF Next, Handle

LEMMA WindowedNext == Typed /\ Windowed /\ [Next]_vars => Windowed'
<1>. SUFFICES ASSUME Typed, Windowed, [Next]_vars PROVE Windowed'
  OBVIOUS
<1>1. CASE UNCHANGED <<window, shown, unseen, evicted>>
  BY <1>1 DEF Windowed, ShownOnce
<1>2. ASSUME NEW p \in Arrivals, Show(p) PROVE Windowed'
  <2>1. /\ p \in ToSet(window') /\ ToSet(window') \subseteq ToSet(window) \cup {p}
        /\ evicted' = evicted \cup (ToSet(window) \ ToSet(window'))
        /\ shown \in [Arrivals -> Nat] /\ ToSet(window) \subseteq Arrivals
    BY <1>2, ShowFacts, SetInside DEF Typed, TypeOK
  <2>2. CASE p \in ToSet(window) /\ shown' = shown /\ unseen' = unseen
    BY <2>1, <2>2 DEF Windowed, ShownOnce
  <2>4. CASE shown' = shown /\ unseen' = unseen \cup {p}
    BY <2>1, <2>4 DEF Windowed, ShownOnce
  <2>3. CASE p \notin ToSet(window) /\ shown' = [shown EXCEPT ![p] = @ + 1] /\ unseen' = unseen
    <3>1. shown'[p] > 0 /\ \A q \in Arrivals \ {p} : shown'[q] = shown[q]
      BY <2>1, <2>3
    <3>2. shown'[p] > 1 => shown[p] > 0
      BY <2>1, <2>3
    <3>3. shown[p] > 0 => p \in evicted
      BY <2>3 DEF Windowed
    <3>4. \A q \in ToSet(window') : shown'[q] > 0 \/ q \in unseen'
      BY <2>1, <2>3, <3>1 DEF Windowed
    <3>5. \A q \in Arrivals : shown'[q] > 0 => q \in ToSet(window') \cup evicted'
      BY <2>1, <3>1 DEF Windowed
    <3>6. ShownOnce'
      BY <2>1, <3>1, <3>2, <3>3 DEF Windowed, ShownOnce
    <3>. QED BY <3>4, <3>5, <3>6 DEF Windowed
  <2>. QED BY <1>2, <2>2, <2>3, <2>4, ShowFacts
<1>. QED BY <1>1, <1>2, ShowsOnly

\* However often a message is pushed and synced, and over all logins of the process,
\* it is shown once unless its id has left recvMsgWindow_: imclient.cpp:264-272, 342-349.
THEOREM ShownOnceAlways == Spec => []ShownOnce
<1>1. Windowed => ShownOnce
  BY DEF Windowed
<1>. QED BY <1>1, TypedInit, TypedNext, WindowedInit, WindowedNext, PTL DEF Spec

-----------------------------------------------------------------------------
(* The stored key passes no message that was not shown, except one that      *)
(* came when there was no ChatWidget.                                       *)

Seen(p) == shown[p] > 0 \/ p \in unseen

\* Each key, stored, asked for or answered, passes only messages that were handled or
\* that come with it.
Covered ==
    /\ \A p \in Arrivals : p <= lastSyncKey \/ p <= saved => Seen(p)
    /\ \A u \in BOOLEAN, k \in 0..LastArrival, p \in Arrivals :
          Sync(u, k) \in Out /\ p <= k => Seen(p)
    /\ \A ids \in Seq(Arrivals), k \in 0..LastArrival, p \in Arrivals :
          Synced(ids, k) \in In /\ p <= k => Seen(p) \/ p \in ToSet(ids)

LEMMA CoveredInit == Init => Covered
<1>. SUFFICES ASSUME Init PROVE Covered
  OBVIOUS
<1>1. Out = {} /\ In = {} /\ lastSyncKey = 0 /\ saved = 0
  BY SetOfEmpty DEF Init, Out, In
<1>2. \A p \in Arrivals : ~(p <= 0)
  BY LimitFacts DEF Arrivals
<1>. QED BY <1>1, <1>2 DEF Covered

LEMMA SeenStays == ASSUME Typed, [Next]_vars PROVE \A p \in Arrivals : Seen(p) => Seen(p)'
<1>1. CASE UNCHANGED <<window, shown, unseen, evicted>>
  BY <1>1 DEF Seen
<1>2. ASSUME NEW p \in Arrivals, Show(p) PROVE \A q \in Arrivals : Seen(q) => Seen(q)'
  <2>1. /\ shown \in [Arrivals -> Nat] /\ unseen \subseteq unseen'
        /\ shown' = shown \/ shown' = [shown EXCEPT ![p] = @ + 1]
    BY <1>2, ShowFacts DEF Typed
  <2>. QED BY <2>1 DEF Seen
<1>. QED BY <1>1, <1>2, ShowsOnly

\* The general step, and the one that touches no key.
LEMMA CoveredStep ==
    ASSUME Covered, \A p \in Arrivals : Seen(p) => Seen(p)',
           \A p \in Arrivals : p <= lastSyncKey' \/ p <= saved' => Seen(p)',
           \A u \in BOOLEAN, k \in 0..LastArrival :
               Sync(u, k) \in Out' => Sync(u, k) \in Out \/ k = lastSyncKey,
           \A ids \in Seq(Arrivals), k \in 0..LastArrival, p \in Arrivals :
               Synced(ids, k) \in In' /\ p <= k =>
                   Synced(ids, k) \in In \/ Seen(p)' \/ p \in ToSet(ids)
    PROVE  Covered'
BY DEF Covered

LEMMA SameKey ==
    ASSUME Covered, \A p \in Arrivals : Seen(p) => Seen(p)', UNCHANGED <<lastSyncKey, saved>>,
           \A u \in BOOLEAN, k \in 0..LastArrival :
               Sync(u, k) \in Out' => Sync(u, k) \in Out \/ k = lastSyncKey,
           \A ids \in Seq(Arrivals), k \in 0..LastArrival :
               Synced(ids, k) \in In' => Synced(ids, k) \in In
    PROVE  Covered'
BY DEF Covered

\* Packets of different kinds, and of one kind with different contents, differ.
LEMMA SyncsDiffer ==
    /\ \A u, k : /\ Sync(u, k) # Login /\ Sync(u, k) # Receipt
                 /\ \A m \in Sends : Sync(u, k) # Chat(m)
    /\ \A u, k, v, l : Sync(u, k) = Sync(v, l) => k = l
    /\ \A ids, k, other, l : Synced(ids, k) = Synced(other, l) => ids = other /\ k = l
    /\ \A ids, k : Synced(ids, k).kind = "synced"
<1>1. \A u, k : Sync(u, k).kind = "sync" /\ Sync(u, k).key = k
  BY DEF Sync
<1>2. Login.kind = "login" /\ Receipt.kind = "recvack" /\ \A m \in Sends : Chat(m).kind = "chat"
  BY DEF Login, Receipt, Chat
<1>3. \A ids, k : /\ Synced(ids, k).kind = "synced" /\ Synced(ids, k).ids = ids
                  /\ Synced(ids, k).key = k
  BY DEF Synced
<1>4. \A u, k : /\ Sync(u, k) # Login /\ Sync(u, k) # Receipt
                /\ \A m \in Sends : Sync(u, k) # Chat(m)
  BY <1>1, <1>2
<1>5. \A u, k, v, l : Sync(u, k) = Sync(v, l) => k = l
  BY <1>1
<1>6. \A ids, k, other, l : Synced(ids, k) = Synced(other, l) => ids = other /\ k = l
  BY <1>3
<1>. QED BY <1>3, <1>4, <1>5, <1>6

LEMMA CoveredNext == Typed /\ Pending /\ Windowed /\ Covered /\ [Next]_vars => Covered'
<1>. SUFFICES ASSUME Typed, Pending, Windowed, Covered, [Next]_vars PROVE Covered'
  OBVIOUS
<1>0. Offline /\ \A p \in Arrivals : Seen(p) => Seen(p)'
  BY SeenStays DEF Pending
<1>. USE DEF vars, link, sending, receiving, server, control, sendGhosts
<1>1. CASE Connect
  <2>1. UNCHANGED <<lastSyncKey, saved, down, readBuffer>> /\ up = <<>>
    BY <1>0, <1>1 DEF Connect, Offline
  <2>2. Out' = Out /\ In' = In
    BY <1>1, <2>1, SetOfEmpty DEF Connect, Out, In
  <2>. QED BY <1>0, <2>1, <2>2, SameKey
<1>2. CASE ConnectAndLeave \/ ConnectionBreaks \/ CheckRetransmitFails
  <2>1. /\ Disconnected(pendingSend) /\ readBuffer' = readBuffer /\ UNCHANGED <<lastSyncKey, saved>>
        /\ pendingPackets' \in {pendingPackets, <<>>}
    BY <1>2 DEF ConnectAndLeave, ConnectionBreaks, CheckRetransmitFails, SendFails
  <2>2. Out' \subseteq Out /\ In' \subseteq In
    BY <2>1, DisconnectedSets
  <2>. QED BY <1>0, <2>1, <2>2, SameKey
<1>3. CASE ConnectFails \/ Arrive \/ UNCHANGED vars
  <2>1. UNCHANGED <<lastSyncKey, saved, up, down, readBuffer, pendingPackets>>
    BY <1>3 DEF ConnectFails, Arrive
  <2>. QED BY <1>0, <2>1, SameKey DEF Out, In
<1>4. CASE PressLogin
  <2>1. UNCHANGED <<lastSyncKey, saved, readBuffer>>
    BY <1>4 DEF PressLogin
  <2>2. CASE SendPackets(<<Login>>)
    <3>1. Out' = Out \cup {Login} /\ In' = In
      BY <2>1, <2>2, PacketFacts, SendPacketsSets DEF In
    <3>. QED BY <1>0, <2>1, <3>1, SyncsDiffer, SameKey
  <2>3. CASE SendFails(pendingSend)
    BY <1>0, <2>1, <2>3, FailsSets, SameKey
  <2>. QED BY <1>4, <2>2, <2>3 DEF PressLogin
<1>5. ASSUME NEW m \in Sends, PressSend(m) PROVE Covered'
  <2>1. UNCHANGED <<lastSyncKey, saved, readBuffer>>
    BY <1>5 DEF PressSend
  <2>2. CASE SendPackets(<<Chat(m)>>)
    <3>1. Out' = Out \cup {Chat(m)} /\ In' = In
      BY <2>1, <2>2, PacketFacts, SendPacketsSets DEF In
    <3>. QED BY <1>0, <2>1, <3>1, SyncsDiffer, SameKey
  <2>3. CASE \E entries : SendFails(entries)
    BY <1>0, <2>1, <2>3, FailsSets, SameKey
  <2>. QED BY <1>5, <2>2, <2>3 DEF PressSend
<1>6. CASE Logout
  <2>1. UNCHANGED <<saved, readBuffer, pendingPackets>> /\ lastSyncKey' = 0
    BY <1>6 DEF Logout
  <2>2. Out' \subseteq Out /\ In' \subseteq In
    <3>1. CASE socket = "on"
      BY <1>6, <2>1, <3>1, DisconnectedSets DEF Logout
    <3>2. CASE socket # "on"
      BY <1>6, <2>1, <3>2 DEF Logout, Out, In
    <3>. QED BY <3>1, <3>2
  <2>3. \A p \in Arrivals : ~(p <= 0)
    BY LimitFacts DEF Arrivals
  <2>4. \A p \in Arrivals : p <= lastSyncKey' \/ p <= saved' => Seen(p)'
    BY <1>0, <2>1, <2>3 DEF Covered
  <2>5. \A u \in BOOLEAN, k \in 0..LastArrival :
            Sync(u, k) \in Out' => Sync(u, k) \in Out \/ k = lastSyncKey
    BY <2>2
  <2>6. \A ids \in Seq(Arrivals), k \in 0..LastArrival, p \in Arrivals :
            Synced(ids, k) \in In' /\ p <= k =>
                Synced(ids, k) \in In \/ Seen(p)' \/ p \in ToSet(ids)
    BY <2>2
  <2>. QED BY <1>0, <2>4, <2>5, <2>6, CoveredStep
<1>7. CASE CloseBox
  <2>1. UNCHANGED <<lastSyncKey, saved, readBuffer>>
    BY <1>7 DEF CloseBox
  <2>2. CASE UNCHANGED <<chat, link, sending, cut, inputs>>
    <3>1. Out' = Out /\ In' = In
      BY <2>1, <2>2 DEF Out, In
    <3>. QED BY <1>0, <2>1, <3>1, SameKey
  <2>3. CASE SendPackets(<<Sync(known, lastSyncKey)>>)
    <3>1. Sync(known, lastSyncKey) \in Packets
      BY PacketFacts DEF Typed, TypeOK
    <3>2. Out' = Out \cup {Sync(known, lastSyncKey)} /\ In' = In
      BY <2>1, <2>3, <3>1, SendPacketsSets DEF In
    <3>3. \A u \in BOOLEAN, k \in 0..LastArrival :
              Sync(u, k) \in Out' => Sync(u, k) \in Out \/ k = lastSyncKey
      BY <3>2, SyncsDiffer
    <3>. QED BY <1>0, <2>1, <3>2, <3>3, SameKey
  <2>4. CASE SendFails(pendingSend)
    BY <1>0, <2>1, <2>4, FailsSets, SameKey
  <2>. QED BY <1>7, <2>2, <2>3, <2>4 DEF CloseBox
<1>8. ASSUME NEW ids \in SUBSET Ids(pendingSend), CheckRetransmit(ids) PROVE Covered'
  <2>1. UNCHANGED <<lastSyncKey, saved>>
    BY <1>8 DEF CheckRetransmit
  <2>2. In' = In /\ \A r \in Out' : r \in Out \/ \E m \in Sends : r = Chat(m)
    BY <1>8, RetransmitSets
  <2>3. \A u \in BOOLEAN, k \in 0..LastArrival : Sync(u, k) \in Out' => Sync(u, k) \in Out
    BY <2>2, SyncsDiffer
  <2>. QED BY <1>0, <2>1, <2>2, <2>3, SameKey
<1>9. CASE ReadyRead
  <2>1. readBuffer = <<>> /\ UNCHANGED <<lastSyncKey, saved, up, pendingPackets>>
    BY <1>9 DEF ReadyRead, Usable, Free
  <2>2. Out' = Out /\ In' = In
    BY <1>9, <2>1, SetOfEmpty DEF ReadyRead, Out, In
  <2>. QED BY <1>0, <2>1, <2>2, SameKey
<1>10. CASE HandleLogin
  <2>1. UNCHANGED <<saved, up, down, pendingPackets>> /\ lastSyncKey' \in {saved, lastSyncKey}
    BY <1>10 DEF HandleLogin
  <2>2. ToSet(readBuffer') \subseteq ToSet(readBuffer)
    BY <1>10, HandlesSets DEF HandleLogin
  <2>3. Out' = Out /\ In' \subseteq In
    BY <2>1, <2>2 DEF Out, In
  <2>4. \A p \in Arrivals : p <= lastSyncKey' \/ p <= saved' => Seen(p)'
    BY <1>0, <2>1 DEF Covered
  <2>5. \A u \in BOOLEAN, k \in 0..LastArrival :
            Sync(u, k) \in Out' => Sync(u, k) \in Out \/ k = lastSyncKey
    BY <2>3
  <2>6. \A ids \in Seq(Arrivals), k \in 0..LastArrival, p \in Arrivals :
            Synced(ids, k) \in In' /\ p <= k =>
                Synced(ids, k) \in In \/ Seen(p)' \/ p \in ToSet(ids)
    BY <2>3
  <2>. QED BY <1>0, <2>4, <2>5, <2>6, CoveredStep
<1>11. CASE HandleAck \/ HandleNote
  <2>1. UNCHANGED <<lastSyncKey, saved, up, down, pendingPackets>>
    BY <1>11 DEF HandleAck, HandleNote
  <2>2. ToSet(readBuffer') \subseteq ToSet(readBuffer)
    BY <1>11, HandlesSets DEF HandleAck, HandleNote
  <2>3. Out' = Out /\ In' \subseteq In
    BY <2>1, <2>2 DEF Out, In
  <2>. QED BY <1>0, <2>1, <2>3, SameKey
<1>12. CASE HandlePush
  <2>1. UNCHANGED <<lastSyncKey, saved>>
    BY <1>12 DEF HandlePush
  <2>2. ToSet(readBuffer') \subseteq ToSet(readBuffer)
    BY <1>12, HandlesSets DEF HandlePush
  <2>3. CASE SendPackets(<<Receipt>>)
    <3>1. Out' = Out \cup {Receipt} /\ In' \subseteq In
      BY <2>2, <2>3, PacketFacts, SendPacketsSets DEF In
    <3>. QED BY <1>0, <2>1, <3>1, SyncsDiffer, SameKey
  <2>4. CASE SendFails(pendingSend)
    BY <1>0, <2>1, <2>2, <2>4, FailsSets, SameKey
  <2>. QED BY <1>12, <2>3, <2>4 DEF HandlePush
<1>13. CASE HandleSynced
  <2>1. UNCHANGED <<lastSyncKey, saved, up, down, pendingPackets>>
    BY <1>13 DEF HandleSynced
  <2>2. PICK ids \in Seq(Arrivals), k \in 0..LastArrival :
            /\ ids # <<>> /\ Head(ids) \in Arrivals /\ Tail(ids) \in Seq(Arrivals)
            /\ ToSet(readBuffer) = {Synced(ids, k)} \cup ToSet(Tail(readBuffer))
            /\ ToSet(readBuffer') = {Synced(Tail(ids), k)} \cup ToSet(Tail(readBuffer))
            /\ ToSet(ids) = {Head(ids)} \cup ToSet(Tail(ids))
            /\ Show(Head(ids))
    BY <1>13, SyncedSets
  <2>3. Seen(Head(ids))'
    <3>1. /\ Head(ids) \in Arrivals /\ shown \in [Arrivals -> Nat]
          /\ \/ Head(ids) \in ToSet(window) /\ shown' = shown /\ unseen' = unseen
             \/ shown' = [shown EXCEPT ![Head(ids)] = @ + 1]
             \/ unseen' = unseen \cup {Head(ids)}
      BY <2>2, ShowFacts DEF Typed
    <3>4. CASE unseen' = unseen \cup {Head(ids)}
      BY <3>4 DEF Seen
    <3>2. CASE Head(ids) \in ToSet(window) /\ shown' = shown /\ unseen' = unseen
      BY <3>2 DEF Windowed, Seen
    <3>3. CASE shown' = [shown EXCEPT ![Head(ids)] = @ + 1]
      BY <3>1, <3>3 DEF Seen
    <3>. QED BY <3>1, <3>2, <3>3, <3>4
  <2>4. \A p \in Arrivals : p <= k => Seen(p)' \/ p \in ToSet(Tail(ids))
    <3>1. Synced(ids, k) \in In
      BY <2>2 DEF In
    <3>. QED BY <1>0, <2>2, <2>3, <3>1 DEF Covered
  <2>5. Out' = Out /\ In' \subseteq In \cup {Synced(Tail(ids), k)}
    BY <2>1, <2>2 DEF Out, In
  <2>6. ASSUME NEW other \in Seq(Arrivals), NEW l \in 0..LastArrival, NEW p \in Arrivals,
               Synced(other, l) \in In', p <= l, Synced(other, l) \notin In
        PROVE  Seen(p)' \/ p \in ToSet(other)
    <3>1. other = Tail(ids) /\ l = k
      <4>1. Synced(other, l) = Synced(Tail(ids), k)
        BY ONLY <2>5, <2>6
      <4>2. Synced(other, l).ids = other /\ Synced(other, l).key = l
        BY DEF Synced
      <4>3. Synced(Tail(ids), k).ids = Tail(ids) /\ Synced(Tail(ids), k).key = k
        BY DEF Synced
      <4>. QED BY ONLY <4>1, <4>2, <4>3
    <3>. QED BY <2>4, <2>6, <3>1
  <2>7. \A p \in Arrivals : p <= lastSyncKey' \/ p <= saved' => Seen(p)'
    BY <1>0, <2>1 DEF Covered
  <2>. QED BY <1>0, <2>5, <2>6, <2>7, CoveredStep
<1>14. CASE HandleSync
  <2>1. UNCHANGED <<up, down, pendingPackets>>
    BY <1>14 DEF HandleSync
  <2>2. /\ Head(readBuffer) \in Replies /\ Head(readBuffer).kind = "synced"
        /\ ToSet(readBuffer) = {Head(readBuffer)} \cup ToSet(readBuffer')
    BY <1>14, HandlesSets, HandlesTyped DEF HandleSync
  <2>3. PICK key \in 0..LastArrival :
            /\ Head(readBuffer) = Synced(<<>>, key)
            /\ lastSyncKey' \in {key, lastSyncKey} /\ saved' \in {key, saved}
    BY <1>14, <2>2, ReplyKinds DEF HandleSync
  <2>4. Out' = Out /\ In' \subseteq In /\ Synced(<<>>, key) \in In
    BY <2>1, <2>2, <2>3 DEF Out, In
  <2>5. \A p \in Arrivals : p <= key => Seen(p)
    <3>1. <<>> \in Seq(Arrivals) /\ ToSet(<<>>) = {}
      BY EmptySeq, SetOfEmpty
    <3>. QED BY <2>4, <3>1 DEF Covered
  <2>6. \A p \in Arrivals : p <= lastSyncKey' \/ p <= saved' => Seen(p)'
    BY <1>0, <2>3, <2>5 DEF Covered
  <2>7. \A u \in BOOLEAN, k \in 0..LastArrival :
            Sync(u, k) \in Out' => Sync(u, k) \in Out \/ k = lastSyncKey
    BY <2>4
  <2>8. \A ids \in Seq(Arrivals), k \in 0..LastArrival, p \in Arrivals :
            Synced(ids, k) \in In' /\ p <= k =>
                Synced(ids, k) \in In \/ Seen(p)' \/ p \in ToSet(ids)
    BY <2>4
  <2>. QED BY <1>0, <2>6, <2>7, <2>8, CoveredStep
<1>15. CASE ServerReads
  <2>1. UNCHANGED <<lastSyncKey, saved, pendingPackets, readBuffer>>
    BY <1>15 DEF ServerReads
  <2>2. up \in Seq(Packets) /\ up # <<>> /\ up' = Tail(up) /\ down \in Seq(Replies)
    BY <1>15 DEF ServerReads, Typed, TypeOK
  <2>3. ToSet(up) = {Head(up)} \cup ToSet(up')
    BY <2>2, SetOfTail
  <2>4. Out' \subseteq Out /\ Head(up) \in Out
    BY <2>1, <2>3 DEF Out
  <2>5. \A r \in Replies : down' = Append(down, r) => In' = In \cup {r}
    BY <2>1, ReplySets DEF Reply
  <2>6. ASSUME NEW r \in Replies, r.kind # "synced", down' = Append(down, r) PROVE Covered'
    <3>1. In' = In \cup {r}
      BY <2>5, <2>6
    <3>2. \A ids \in Seq(Arrivals), k \in 0..LastArrival : Synced(ids, k) # r
      BY <2>6, SyncsDiffer
    <3>. QED BY <1>0, <2>1, <2>4, <3>1, <3>2, SameKey
  <2>7. CASE down' = Append(down, LoginAck(FALSE))
    BY <2>6, <2>7, ReplyFacts, KindsDiffer
  <2>10. CASE down' = down
    <3>1. In' = In
      BY <2>1, <2>10 DEF In
    <3>. QED BY <1>0, <2>1, <2>4, <3>1, SameKey
  <2>8. ASSUME NEW m \in Sends, NEW ok \in BOOLEAN, down' = Append(down, Ack(m, ok)) PROVE Covered'
    BY <2>6, <2>8, ReplyFacts, KindsDiffer
  <2>9. ASSUME NEW u \in BOOLEAN, NEW k \in 0..LastArrival, NEW ids \in Seq(Arrivals),
               NEW n \in 0..LastArrival, Head(up) = Sync(u, k),
               down' = Append(down, Synced(ids, n)),
               \A p \in Arrivals : p <= n => p <= k \/ p \in ToSet(ids)
        PROVE  Covered'
    <3>1. In' = In \cup {Synced(ids, n)}
      BY <2>5, <2>9, ReplyFacts
    <3>2. \A p \in Arrivals : p <= k => Seen(p)'
      BY <1>0, <2>4, <2>9 DEF Covered
    <3>3. ASSUME NEW other \in Seq(Arrivals), NEW l \in 0..LastArrival, NEW p \in Arrivals,
                 Synced(other, l) \in In', p <= l, Synced(other, l) \notin In
          PROVE  Seen(p)' \/ p \in ToSet(other)
      <4>1. other = ids /\ l = n
        BY <3>1, <3>3, SyncsDiffer
      <4>. QED BY <2>9, <3>2, <3>3, <4>1
    <3>4. \A p \in Arrivals : p <= lastSyncKey' \/ p <= saved' => Seen(p)'
      BY <1>0, <2>1 DEF Covered
    <3>. QED BY <1>0, <2>4, <3>3, <3>4, CoveredStep
  <2>. QED BY <1>15, <2>7, <2>8, <2>9, <2>10, ServerReadsFacts
<1>16. CASE (\E p \in Arrivals : ServerPushes(p)) \/ ServerNotes \/ ServerLogsIn
  <2>1. UNCHANGED <<lastSyncKey, saved, up, pendingPackets, readBuffer>>
    BY <1>16 DEF ServerPushes, ServerNotes, ServerLogsIn
  <2>2. PICK r \in Replies : r.kind \in {"push", "note", "login"} /\ Reply(r)
    <3>1. \A p \in Arrivals : Push(p) \in Replies /\ Push(p).kind = "push"
      BY ReplyFacts, KindsDiffer
    <3>2. [kind |-> "note"] \in Replies /\ [kind |-> "note"].kind = "note"
      BY ReplyFacts
    <3>3. ServerNotes => Reply([kind |-> "note"])
      BY DEF ServerNotes
    <3>4. \A p \in Arrivals : ServerPushes(p) => Reply(Push(p))
      BY DEF ServerPushes, Push
    <3>5. LoginAck(TRUE) \in Replies /\ LoginAck(TRUE).kind = "login"
      BY ReplyFacts, KindsDiffer
    <3>6. ServerLogsIn => Reply(LoginAck(TRUE))
      BY DEF ServerLogsIn, LoginAck
    <3>. QED BY <1>16, <3>1, <3>2, <3>3, <3>4, <3>5, <3>6
  <2>3. Out' = Out /\ In' = In \cup {r}
    BY <2>1, <2>2, ReplySets DEF Out
  <2>4. \A ids \in Seq(Arrivals), k \in 0..LastArrival : Synced(ids, k) # r
    BY <2>2, SyncsDiffer
  <2>. QED BY <1>0, <2>1, <2>3, <2>4, SameKey
<1>. QED
  BY <1>1, <1>2, <1>3, <1>4, <1>5, <1>6, <1>7, <1>8, <1>9, <1>10, <1>11, <1>12, <1>13, <1>14,
     <1>15, <1>16
     DEF Next, Connection, User, CheckSome, Handle, Server

\* Whatever breaks between an answer and QSettings, and whoever logs in in between,
\* the stored key passes no message that the user was not shown, except one that came
\* when there was no ChatWidget: imclient.cpp:188-191, 264-275, 336-359.
THEOREM KeyIsShownAlways == Spec => []KeyIsShown
<1>1. Covered => KeyIsShown
  BY DEF Covered, KeyIsShown, Seen
<1>. QED
  BY <1>1, TypedInit, TypedNext, PendingInit, PendingNext, WindowedInit, WindowedNext,
     CoveredInit, CoveredNext, PTL DEF Spec

----------------------------------------------------------------------------
(* Snowflake, for every field size and any behaviour of the clocks: the     *)
(* types, that the ids of a running client increase, and that a client      *)
(* whose clock is not set back gives no id twice.                           *)

\* Composing naturals gives a natural.
LEMMA ComposeType ==
    ASSUME NEW t \in Nat, NEW seq \in Nat
    PROVE  Compose(t, seq) \in Nat
<1>1. t * WorkerSize + kWorkerId \in Nat
  BY SizesAssumption DEF kWorkerId
<1>2. (t * WorkerSize + kWorkerId) * SeqSize \in Nat
  BY <1>1, SizesAssumption
<1>. QED BY <1>2 DEF Compose

\* The field of the time outweighs the one of the sequence.
LEMMA ComposeLater ==
    ASSUME NEW t \in Nat, NEW u \in Nat, t < u,
           NEW seq \in 0..(SeqSize - 1)
    PROVE  Compose(t, seq) < Compose(u, 0)
<1>. DEFINE a == t * WorkerSize + kWorkerId
            b == u * WorkerSize + kWorkerId
<1>1. a \in Nat /\ b \in Nat /\ a + 1 <= b
  <2>1. PICK d \in Nat : u = t + 1 + d
    <3>1. u - t - 1 \in Nat /\ u = t + 1 + (u - t - 1)
      OBVIOUS
    <3>. QED BY <3>1
  <2>2. u * WorkerSize = t * WorkerSize + WorkerSize + d * WorkerSize
    BY <2>1, SizesAssumption
  <2>3. d * WorkerSize \in Nat /\ t * WorkerSize \in Nat /\ WorkerSize \in Nat \ {0}
    BY <2>1, SizesAssumption
  <2>. QED BY <2>2, <2>3 DEF kWorkerId
<1>2. a * SeqSize + SeqSize <= b * SeqSize
  <2>1. PICK e \in Nat : b = a + 1 + e
    <3>1. b - a - 1 \in Nat /\ b = a + 1 + (b - a - 1)
      BY <1>1
    <3>. QED BY <3>1
  <2>. HIDE DEF a, b
  <2>2. b * SeqSize = a * SeqSize + SeqSize + e * SeqSize
    BY <1>1, <2>1, SizesAssumption
  <2>3. e * SeqSize \in Nat /\ a * SeqSize \in Nat
    BY <1>1, <2>1, SizesAssumption
  <2>. QED BY <2>2, <2>3, SizesAssumption
<1>3. a * SeqSize \in Nat /\ b * SeqSize \in Nat
  BY <1>1, SizesAssumption
<1>4. a * SeqSize + seq < b * SeqSize + 0
  <2>. HIDE DEF a, b
  <2>. QED BY <1>2, <1>3, SizesAssumption
<1>. QED BY <1>4 DEF Compose

\* In one millisecond a larger sequence number gives a larger id.
LEMMA ComposeNext ==
    ASSUME NEW t \in Nat, NEW s1 \in Nat, NEW s2 \in Nat, s1 < s2
    PROVE  Compose(t, s1) < Compose(t, s2)
<1>1. (t * WorkerSize + kWorkerId) * SeqSize \in Nat
  BY SizesAssumption DEF kWorkerId
<1>. QED BY <1>1 DEF Compose

\* The sequence of c that its last id carries: while c waits for the next
\* millisecond the counter has wrapped already.
LastSeq(c) == IF waiting[c] THEN SeqSize - 1 ELSE sequence[c]

\* The last id is that of the last timestamp and of a sequence reached in it.
LastIdOf(c) ==
    \/ lastId[c] = -1
    \/ lastTimestamp[c] \in Nat /\ lastId[c] = Compose(lastTimestamp[c], LastSeq(c))

\* A client waits only after it has issued an id.
ClientInv(c) ==
    /\ LastIdOf(c)
    /\ waiting[c] => lastTimestamp[c] # -1 /\ sequence[c] = 0
    /\ lastId[c] = -1 => lastTimestamp[c] = -1

IInv == IdTypeOK /\ \A c \in Clients : ClientInv(c)
-----------------------------------------------------------------------------
LEMMA TypeInit == IdInit => IdTypeOK
BY SizesAssumption, ClockAssumption DEF IdInit, IdTypeOK

\* The next sequence number is in its field, and wraps only from the last one.
LEMMA NextSeqFacts ==
    ASSUME IdTypeOK, NEW c \in Clients
    PROVE  /\ NextSeq(c) \in 0..(SeqSize - 1)
           /\ NextSeq(c) # 0 => NextSeq(c) = sequence[c] + 1
           /\ NextSeq(c) = 0 => sequence[c] = SeqSize - 1
<1>1. sequence[c] \in 0..(SeqSize - 1) /\ SeqSize \in Nat \ {0}
  BY SizesAssumption DEF IdTypeOK
<1>2. CASE sequence[c] + 1 < SeqSize
  <2>1. (sequence[c] + 1) % SeqSize = sequence[c] + 1
    BY <1>1, <1>2
  <2>. QED BY <1>1, <1>2, <2>1 DEF NextSeq
<1>3. CASE sequence[c] + 1 = SeqSize
  <2>1. (sequence[c] + 1) % SeqSize = 0
    BY <1>1, <1>3
  <2>. QED BY <1>1, <1>3, <2>1 DEF NextSeq
<1>. QED BY <1>1, <1>2, <1>3

\* The time nextId uses is never before the last one.
LEMMA TimeFacts ==
    ASSUME IdTypeOK, NEW c \in Clients
    PROVE  Time(c) \in 0..MaxClock /\ Time(c) >= lastTimestamp[c]
BY ClockAssumption DEF IdTypeOK, Time

\* What issuing an id does to the types.
LEMMA IssueType ==
    ASSUME IdTypeOK, NEW c \in Clients, NEW t \in 0..MaxClock, NEW seq \in 0..(SeqSize - 1),
           Issue(c, t, seq)
    PROVE  /\ lastTimestamp' \in [Clients -> {-1} \cup 0..MaxClock]
           /\ lastId' \in [Clients -> Int] /\ issued' \in [Clients -> SUBSET Int]
<1>1. Compose(t, seq) \in Int
  BY ComposeType, SizesAssumption, ClockAssumption
<1>. QED BY <1>1 DEF Issue, IdTypeOK

LEMMA TypeNext == IdTypeOK /\ [IdNext]_idVars => IdTypeOK'
<1>. SUFFICES ASSUME IdTypeOK, [IdNext]_idVars PROVE IdTypeOK'
  OBVIOUS
<1>0. 0 \in 0..(SeqSize - 1)
  BY SizesAssumption
<1>1. ASSUME NEW c \in Clients, Tick(c) PROVE IdTypeOK'
  BY <1>1, ClockAssumption DEF Tick, IdTypeOK
<1>2. ASSUME NEW c \in Clients, SetBack(c) PROVE IdTypeOK'
  BY <1>2, ClockAssumption DEF SetBack, IdTypeOK
<1>3. ASSUME NEW c \in Clients, Restart(c) PROVE IdTypeOK'
  BY <1>0, <1>3, ClockAssumption DEF Restart, IdTypeOK
<1>4. ASSUME NEW c \in Clients, NewMilli(c) PROVE IdTypeOK'
  BY <1>0, <1>4, IssueType, TimeFacts DEF NewMilli, IdTypeOK
<1>5. ASSUME NEW c \in Clients, SameMilli(c) PROVE IdTypeOK'
  BY <1>5, IssueType, TimeFacts, NextSeqFacts DEF SameMilli, IdTypeOK
<1>6. ASSUME NEW c \in Clients, Exhausted(c) PROVE IdTypeOK'
  BY <1>0, <1>6 DEF Exhausted, IdTypeOK
<1>7. ASSUME NEW c \in Clients, Waited(c) PROVE IdTypeOK'
  <2>1. clock[c] \in 0..MaxClock
    BY DEF IdTypeOK
  <2>. QED BY <1>0, <1>7, <2>1, IssueType DEF Waited, IdTypeOK
<1>8. CASE UNCHANGED idVars
  BY <1>8 DEF idVars, IdTypeOK
<1>. QED BY <1>1, <1>2, <1>3, <1>4, <1>5, <1>6, <1>7, <1>8 DEF IdNext

\* Every variable has its type in every reachable state.
THEOREM IdTypeCorrect == IdSpec => []IdTypeOK
BY TypeInit, TypeNext, PTL DEF IdSpec

-----------------------------------------------------------------------------
LEMMA IInvInit == IdInit => IInv
BY TypeInit DEF IdInit, IInv, ClientInv, LastIdOf

Increases(c) == lastId'[c] # lastId[c] => lastId'[c] > lastId[c] \/ lastId'[c] = -1

\* A client that no step is of keeps its part of the invariant and its id.
LEMMA OtherClient ==
    ASSUME NEW c, ClientInv(c),
           lastTimestamp'[c] = lastTimestamp[c], sequence'[c] = sequence[c],
           waiting'[c] = waiting[c], lastId'[c] = lastId[c]
    PROVE  ClientInv(c)' /\ Increases(c)
BY DEF ClientInv, LastIdOf, LastSeq, Increases

\* A client that issues an id for a later millisecond.
LEMMA LaterIssue ==
    ASSUME IdTypeOK, NEW c \in Clients, ClientInv(c),
           NEW t \in 0..MaxClock, t > lastTimestamp[c], Issue(c, t, 0),
           ~waiting'[c], sequence'[c] = 0
    PROVE  ClientInv(c)' /\ Increases(c)
<1>1. lastTimestamp'[c] = t /\ lastId'[c] = Compose(t, 0)
  BY DEF Issue, IdTypeOK
<1>2. t \in Nat /\ 0 \in Nat
  BY ClockAssumption
<1>3. Compose(t, 0) \in Nat
  BY <1>2, ComposeType
<1>4. ClientInv(c)'
  BY <1>1, <1>2, <1>3 DEF ClientInv, LastIdOf, LastSeq
<1>5. CASE lastId[c] = -1
  BY <1>1, <1>3, <1>4, <1>5 DEF Increases
<1>6. CASE lastId[c] # -1
  <2>1. lastTimestamp[c] \in Nat /\ lastId[c] = Compose(lastTimestamp[c], LastSeq(c))
    BY <1>6 DEF ClientInv, LastIdOf
  <2>2. LastSeq(c) \in 0..(SeqSize - 1)
    BY SizesAssumption DEF LastSeq, IdTypeOK
  <2>3. lastId[c] < Compose(t, 0)
    BY <1>2, <2>1, <2>2, ComposeLater
  <2>4. lastId[c] \in Int
    BY DEF IdTypeOK
  <2>. QED BY <1>1, <1>3, <1>4, <2>3, <2>4 DEF Increases
<1>. QED BY <1>5, <1>6

LEMMA StepIncreases ==
    IInv /\ [IdNext]_idVars => IInv' /\ \A c \in Clients : Increases(c)
<1>. SUFFICES ASSUME IInv, [IdNext]_idVars PROVE IInv' /\ \A c \in Clients : Increases(c)
  OBVIOUS
<1>0. IdTypeOK /\ IdTypeOK' /\ \A c \in Clients : ClientInv(c)
  BY TypeNext DEF IInv, ClientInv
<1>. SUFFICES ASSUME NEW c \in Clients PROVE ClientInv(c)' /\ Increases(c)
  BY <1>0 DEF IInv, ClientInv, LastIdOf, LastSeq
<1>. USE <1>0
<1>1. ASSUME NEW d \in Clients, Tick(d) \/ SetBack(d) PROVE ClientInv(c)' /\ Increases(c)
  BY <1>1, OtherClient DEF Tick, SetBack
<1>2. ASSUME NEW d \in Clients, d # c,
             Restart(d) \/ NewMilli(d) \/ SameMilli(d) \/ Exhausted(d) \/ Waited(d)
      PROVE  ClientInv(c)' /\ Increases(c)
  <2>1. /\ lastTimestamp'[c] = lastTimestamp[c] /\ sequence'[c] = sequence[c]
        /\ waiting'[c] = waiting[c] /\ lastId'[c] = lastId[c]
    BY <1>2 DEF Restart, NewMilli, SameMilli, Exhausted, Waited, Issue, IdTypeOK
  <2>. QED BY <2>1, OtherClient
<1>3. CASE Restart(c)
  <2>1. lastTimestamp'[c] = -1 /\ lastId'[c] = -1 /\ ~waiting'[c]
    BY <1>3 DEF Restart, IdTypeOK
  <2>. QED BY <2>1 DEF ClientInv, LastIdOf, Increases
<1>4. CASE NewMilli(c)
  <2>1. Time(c) \in 0..MaxClock /\ Time(c) > lastTimestamp[c]
    BY <1>4, TimeFacts, ClockAssumption DEF NewMilli, IdTypeOK
  <2>2. Issue(c, Time(c), 0) /\ ~waiting'[c] /\ sequence'[c] = 0
    BY <1>4 DEF NewMilli, IdTypeOK
  <2>. QED BY <2>1, <2>2, LaterIssue
<1>5. CASE SameMilli(c)
  <2>1. /\ lastTimestamp'[c] = lastTimestamp[c] /\ lastTimestamp[c] \in Nat
        /\ sequence'[c] = sequence[c] + 1 /\ ~waiting'[c] /\ ~waiting[c]
        /\ sequence[c] \in Nat
        /\ lastId'[c] = Compose(lastTimestamp[c], sequence[c] + 1)
    <3>1. Time(c) = lastTimestamp[c] /\ lastTimestamp[c] \in Nat
      BY <1>5, TimeFacts, ClockAssumption DEF SameMilli
    <3>. QED BY <1>5, <3>1, NextSeqFacts, SizesAssumption DEF SameMilli, Issue, IdTypeOK
  <2>2. lastId[c] # -1 /\ lastId[c] = Compose(lastTimestamp[c], sequence[c])
    BY <2>1 DEF ClientInv, LastIdOf, LastSeq
  <2>3. lastId[c] < lastId'[c]
    BY <2>1, <2>2, ComposeNext
  <2>4. sequence[c] + 1 \in Nat
    BY <2>1
  <2>5. lastId'[c] \in Nat
    BY <2>1, <2>4, ComposeType
  <2>. QED BY <2>1, <2>2, <2>3, <2>5 DEF ClientInv, LastIdOf, LastSeq, Increases, IdTypeOK
<1>6. CASE Exhausted(c)
  <2>1. /\ lastTimestamp'[c] = lastTimestamp[c] /\ lastId'[c] = lastId[c]
        /\ waiting'[c] /\ ~waiting[c] /\ sequence[c] = SeqSize - 1 /\ sequence'[c] = 0
    BY <1>6, NextSeqFacts DEF Exhausted, IdTypeOK
  <2>2. lastTimestamp[c] # -1
    <3>1. Time(c) = lastTimestamp[c]
      BY <1>6 DEF Exhausted
    <3>. QED BY <3>1, TimeFacts, ClockAssumption
  <2>. QED BY <2>1, <2>2 DEF ClientInv, LastIdOf, LastSeq, Increases
<1>7. CASE Waited(c)
  <2>1. clock[c] \in 0..MaxClock /\ clock[c] > lastTimestamp[c]
    BY <1>7 DEF Waited, IdTypeOK
  <2>2. Issue(c, clock[c], 0) /\ ~waiting'[c]
    BY <1>7 DEF Waited, IdTypeOK
  <2>3. sequence'[c] = 0
    BY <1>7 DEF Waited, ClientInv
  <2>. QED BY <2>1, <2>2, <2>3, LaterIssue
<1>8. CASE UNCHANGED idVars
  BY <1>8, OtherClient DEF idVars
<1>. QED BY <1>1, <1>2, <1>3, <1>4, <1>5, <1>6, <1>7, <1>8 DEF IdNext

\* Ids of a running client increase, for any field sizes, and whatever the
\* clock of the client does.
THEOREM IdsIncreaseAlways == IdSpec => IdsIncrease
<1>1. IInv /\ [IdNext]_idVars =>
        [\A c \in Clients : lastId'[c] # lastId[c] =>
             lastId'[c] > lastId[c] \/ lastId'[c] = -1]_idVars
  BY StepIncreases DEF Increases
<1>2. IInv /\ [IdNext]_idVars => IInv'
  BY StepIncreases
<1>. QED BY <1>1, <1>2, IInvInit, PTL DEF IdSpec, IdsIncrease
-----------------------------------------------------------------------------
(* Not even across restarts: every id of c is at most the last one, and      *)
(* before the first of a new process it is from a millisecond that is past.  *)
Fresh(c) ==
    setBacks = 0 =>
        /\ lastTimestamp[c] <= clock[c]
        /\ \A id \in issued[c] :
              IF lastTimestamp[c] = -1 THEN id < Compose(clock[c], 0) ELSE id <= lastId[c]

FreshInv == IInv /\ \A c \in Clients : Fresh(c)

NotTwice(c) == setBacks = 0 /\ lastId'[c] \notin {lastId[c], -1} => lastId'[c] \notin issued[c]

\* A client that issues no id and whose clock does not go back.
LEMMA OtherFresh ==
    ASSUME NEW c \in Clients, Fresh(c), setBacks' = setBacks,
           UNCHANGED <<clock[c], lastTimestamp[c], lastId[c], issued[c]>>
    PROVE  Fresh(c)' /\ NotTwice(c)
BY DEF Fresh, NotTwice

\* A client that issues an id larger than all it issued before.
LEMMA LargerIssue ==
    ASSUME IdTypeOK, NEW c \in Clients, NEW t \in 0..MaxClock, NEW seq \in 0..(SeqSize - 1),
           Issue(c, t, seq), UNCHANGED <<clock, setBacks>>,
           setBacks = 0 => t <= clock[c] /\ \A id \in issued[c] : id < Compose(t, seq)
    PROVE  Fresh(c)' /\ NotTwice(c)
<1>1. /\ lastTimestamp'[c] = t /\ lastId'[c] = Compose(t, seq)
      /\ issued'[c] = issued[c] \cup {Compose(t, seq)}
  BY DEF Issue, IdTypeOK
<1>2. Compose(t, seq) \in Int /\ issued[c] \subseteq Int
  BY ComposeType, SizesAssumption, ClockAssumption DEF IdTypeOK
<1>3. t # -1
  BY ClockAssumption
<1>. QED BY <1>1, <1>2, <1>3 DEF Fresh, NotTwice

LEMMA FreshStep ==
    FreshInv /\ [IdNext]_idVars => FreshInv' /\ \A c \in Clients : NotTwice(c)
<1>. SUFFICES ASSUME FreshInv, [IdNext]_idVars PROVE FreshInv' /\ \A c \in Clients : NotTwice(c)
  OBVIOUS
<1>0. /\ IdTypeOK /\ IInv' /\ \A c \in Clients : ClientInv(c) /\ Fresh(c) /\ Increases(c)
      /\ 0 \in 0..(SeqSize - 1) /\ MaxClock \in Nat
  BY StepIncreases, SizesAssumption, ClockAssumption DEF FreshInv, IInv
<1>. SUFFICES ASSUME NEW c \in Clients PROVE Fresh(c)' /\ NotTwice(c)
  BY <1>0 DEF FreshInv
<1>. USE <1>0
\* What c issued is older than any id of a millisecond after its last one.
<1>1. ASSUME setBacks = 0, NEW t \in 0..MaxClock, t > lastTimestamp[c], t >= clock[c]
      PROVE  \A id \in issued[c] : id < Compose(t, 0)
  <2>0. t \in Nat /\ clock[c] \in Nat /\ clock[c] <= t /\ issued[c] \subseteq Int
    BY <1>1 DEF IdTypeOK
  <2>1. CASE lastTimestamp[c] = -1
    <3>1. 0 \in Nat /\ 0 \in 0..(SeqSize - 1)
      BY SizesAssumption
    <3>2. Compose(clock[c], 0) \in Nat /\ Compose(t, 0) \in Nat
      BY <2>0, <3>1, ComposeType
    <3>3. CASE clock[c] < t
      <4>1. Compose(clock[c], 0) < Compose(t, 0)
        BY <2>0, <3>1, <3>3, ComposeLater
      <4>. QED BY <1>1, <2>0, <2>1, <3>2, <4>1 DEF Fresh
    <3>4. CASE clock[c] = t
      BY <1>1, <2>1, <3>4 DEF Fresh
    <3>. QED BY <2>0, <3>3, <3>4
  <2>2. CASE lastTimestamp[c] # -1
    <3>1. lastTimestamp[c] \in Nat /\ lastId[c] = Compose(lastTimestamp[c], LastSeq(c))
      BY <2>2 DEF ClientInv, LastIdOf
    <3>2. LastSeq(c) \in 0..(SeqSize - 1)
      BY SizesAssumption DEF LastSeq, IdTypeOK
    <3>3. lastId[c] < Compose(t, 0)
      BY <1>1, <2>0, <3>1, <3>2, ComposeLater
    <3>4. lastId[c] \in Int /\ Compose(t, 0) \in Int
      BY <2>0, ComposeType DEF IdTypeOK
    <3>. QED BY <1>1, <2>0, <2>2, <3>3, <3>4 DEF Fresh
  <2>. QED BY <2>1, <2>2
<1>2. ASSUME NEW d \in Clients, SetBack(d) PROVE Fresh(c)' /\ NotTwice(c)
  BY <1>2 DEF SetBack, Fresh, NotTwice, IdTypeOK
<1>3. ASSUME NEW d \in Clients, d # c,
             Tick(d) \/ Restart(d) \/ NewMilli(d) \/ SameMilli(d) \/ Exhausted(d) \/ Waited(d)
      PROVE  Fresh(c)' /\ NotTwice(c)
  <2>1. setBacks' = setBacks /\ UNCHANGED <<clock[c], lastTimestamp[c], lastId[c], issued[c]>>
    BY <1>3 DEF Tick, Restart, NewMilli, SameMilli, Exhausted, Waited, Issue, IdTypeOK
  <2>. QED BY <2>1, OtherFresh
<1>4. CASE Tick(c)
  <2>1. /\ clock'[c] = clock[c] + 1 /\ clock[c] + 1 \in 0..MaxClock
        /\ UNCHANGED <<setBacks, lastTimestamp, lastId, issued>>
    BY <1>4 DEF Tick, IdTypeOK
  <2>2. lastTimestamp[c] \in Int /\ clock[c] \in Int
    BY DEF IdTypeOK
  <2>3. setBacks = 0 /\ lastTimestamp[c] = -1 => \A id \in issued[c] : id < Compose(clock'[c], 0)
    BY <1>1, <2>1, <2>2
  <2>. QED BY <2>1, <2>2, <2>3 DEF Fresh, NotTwice
<1>5. CASE Restart(c)
  <2>1. /\ lastTimestamp'[c] = -1 /\ lastId'[c] = -1 /\ UNCHANGED <<clock, issued, setBacks>>
        /\ (setBacks = 0 => clock[c] > lastTimestamp[c])
    BY <1>5 DEF Restart, IdTypeOK
  <2>2. clock[c] \in 0..MaxClock
    BY DEF IdTypeOK
  <2>3. setBacks = 0 => \A id \in issued[c] : id < Compose(clock[c], 0)
    BY <1>1, <2>1, <2>2
  <2>. QED BY <2>1, <2>2, <2>3 DEF Fresh, NotTwice
<1>6. CASE NewMilli(c)
  <2>1. Time(c) \in 0..MaxClock /\ Time(c) > lastTimestamp[c]
    BY <1>6, TimeFacts DEF NewMilli, IdTypeOK
  <2>2. setBacks = 0 => Time(c) = clock[c]
    BY DEF Fresh, Time, IdTypeOK
  <2>3. Issue(c, Time(c), 0) /\ UNCHANGED <<clock, setBacks>>
    BY <1>6 DEF NewMilli
  <2>4. setBacks = 0 => Time(c) <= clock[c] /\ \A id \in issued[c] : id < Compose(Time(c), 0)
    BY <1>1, <2>1, <2>2
  <2>. QED BY <2>1, <2>3, <2>4, LargerIssue
<1>7. CASE SameMilli(c)
  <2>1. Time(c) = lastTimestamp[c] /\ Time(c) \in 0..MaxClock /\ NextSeq(c) \in 0..(SeqSize - 1)
    BY <1>7, TimeFacts, NextSeqFacts DEF SameMilli
  <2>2. Issue(c, Time(c), NextSeq(c)) /\ UNCHANGED <<clock, setBacks>>
    BY <1>7 DEF SameMilli
  <2>3. Time(c) \in Nat /\ sequence[c] \in Nat /\ NextSeq(c) = sequence[c] + 1 /\ ~waiting[c]
    BY <1>7, <2>1, NextSeqFacts, SizesAssumption DEF SameMilli, IdTypeOK
  <2>4. lastId[c] = Compose(Time(c), sequence[c])
    BY <2>1, <2>3 DEF ClientInv, LastIdOf, LastSeq
  <2>5. lastId[c] < Compose(Time(c), NextSeq(c))
    BY <2>3, <2>4, ComposeNext
  <2>6. lastId[c] \in Int /\ Compose(Time(c), NextSeq(c)) \in Int /\ issued[c] \subseteq Int
    BY <2>3, ComposeType DEF IdTypeOK
  <2>7. setBacks = 0 => /\ Time(c) <= clock[c]
                        /\ \A id \in issued[c] : id < Compose(Time(c), NextSeq(c))
    BY <2>1, <2>3, <2>5, <2>6 DEF Fresh
  <2>. QED BY <2>1, <2>2, <2>7, LargerIssue
<1>8. CASE Exhausted(c)
  BY <1>8, OtherFresh DEF Exhausted
<1>9. CASE Waited(c)
  <2>1. clock[c] \in 0..MaxClock /\ clock[c] > lastTimestamp[c]
    BY <1>9 DEF Waited, IdTypeOK
  <2>2. Issue(c, clock[c], 0) /\ UNCHANGED <<clock, setBacks>>
    BY <1>9 DEF Waited
  <2>3. setBacks = 0 => clock[c] <= clock[c] /\ \A id \in issued[c] : id < Compose(clock[c], 0)
    BY <1>1, <2>1
  <2>. QED BY <2>1, <2>2, <2>3, LargerIssue
<1>10. CASE UNCHANGED idVars
  BY <1>10, OtherFresh DEF idVars
<1>. QED BY <1>2, <1>3, <1>4, <1>5, <1>6, <1>7, <1>8, <1>9, <1>10 DEF IdNext

\* No client numbers two messages alike, restarts or not, for any field sizes and
\* any number of clients, as long as no clock is set back (nextId).
THEOREM NoIdTwiceAlways == IdSpec => NoIdTwice
<1>1. IdInit => FreshInv
  BY IInvInit DEF IdInit, FreshInv, Fresh
<1>2. FreshInv /\ [IdNext]_idVars => FreshInv'
  BY FreshStep
<1>3. FreshInv /\ [IdNext]_idVars =>
        [\A c \in Clients :
            setBacks = 0 /\ lastId'[c] \notin {lastId[c], -1} => lastId'[c] \notin issued[c]]_idVars
  BY FreshStep DEF NotTwice
<1>. QED BY <1>1, <1>2, <1>3, PTL DEF IdSpec, NoIdTwice

----------------------------------------------------------------------------
(***************************************************************************)
(* Protocol. Parsers and serializers go over tokens and fields; what they  *)
(* do to all of them is shown by induction, for which a first number at    *)
(* which it failed would have a predecessor at which it did not.           *)
(***************************************************************************)
Below == {pair \in Nat \X Nat : pair[1] < pair[2]}

LEMMA BelowWellFounded == IsWellFoundedOn(Below, Nat)
BY NatLessThanWellFounded DEF OpToRel, Below

\* Induction over the naturals, for the members of a set.
LEMMA NatInductionOnSet ==
    ASSUME NEW P, 0 \in P, \A n \in Nat : n \in P => n + 1 \in P
    PROVE  Nat \subseteq P
<1>. DEFINE bad == Nat \ P
<1>. SUFFICES ASSUME bad # {} PROVE FALSE
  OBVIOUS
<1>1. PICK n \in bad : \A m \in bad : ~ (<<m, n>> \in Below)
  BY BelowWellFounded, WFMin
<1>2. n # 0 /\ n - 1 \in Nat /\ n - 1 < n
  OBVIOUS
<1>3. n - 1 \notin bad
  BY <1>1, <1>2 DEF Below
<1>4. n - 1 + 1 \in P
  BY <1>2, <1>3
<1>. QED BY <1>4

----------------------------------------------------------------------------
\* The steps of FlattenSeq.
LEMMA FlattenSteps ==
    ASSUME NEW T, NEW parts \in Seq(Seq(T))
    PROVE  \E F : /\ F \in [0..Len(parts) -> Seq(T)] /\ F[0] = <<>>
                  /\ \A k \in 0..(Len(parts) - 1) : F[k + 1] = F[k] \o parts[k + 1]
                  /\ FlattenSeq(parts) = F[Len(parts)]
<1>. DEFINE n == Len(parts)
            Run(g, k) == g = [i \in 1..k |-> IF i = 1 THEN parts[i] ELSE g[i - 1] \o parts[i]]
            P == {k \in Nat : k <= n => \E g : Run(g, k)}
<1>0. n \in Nat /\ \A i \in 1..n : parts[i] \in Seq(T)
  OBVIOUS
<1>1. \E g : Run(g, 0)
  <2>1. Run([i \in 1..0 |-> <<>>], 0)
    OBVIOUS
  <2>. QED BY <2>1
<1>2. ASSUME NEW k \in Nat, k + 1 <= n, \E g : Run(g, k) PROVE \E g : Run(g, k + 1)
  <2>1. PICK g : Run(g, k)
    BY <1>2
  <2>. DEFINE h == [i \in 1..(k + 1) |-> IF i = k + 1 THEN IF i = 1 THEN parts[i] ELSE g[i - 1] \o parts[i]
                                         ELSE g[i]]
  <2>2. Run(h, k + 1)
    <3>1. \A i \in 1..(k + 1) : h[i] = IF i = 1 THEN parts[i] ELSE h[i - 1] \o parts[i]
      <4>. TAKE i \in 1..(k + 1)
      <4>1. CASE i = 1
        BY <2>1, <4>1
      <4>2. CASE i # 1 /\ i = k + 1
        <5>1. i - 1 \in 1..k /\ h[i - 1] = g[i - 1]
          BY <4>2
        <5>. QED BY <4>2, <5>1
      <4>3. CASE i # 1 /\ i # k + 1
        <5>1. i \in 1..k /\ i - 1 \in 1..k /\ h[i - 1] = g[i - 1] /\ h[i] = g[i]
          BY <4>3
        <5>2. g[i] = g[i - 1] \o parts[i]
          BY <2>1, <4>3, <5>1
        <5>. QED BY <4>3, <5>1, <5>2
      <4>. QED BY <4>1, <4>2, <4>3
    <3>. QED BY <3>1
  <2>. HIDE DEF Run, h
  <2>. QED BY <2>2
<1>3. n \in P
  <2>. HIDE DEF Run
  <2>1. 0 \in P
    BY <1>1
  <2>2. ASSUME NEW k \in Nat, k \in P PROVE k + 1 \in P
    <3>1. k + 1 <= n => \E g : Run(g, k)
      BY <1>0, <2>2
    <3>2. k + 1 <= n => \E g : Run(g, k + 1)
      BY <1>2, <3>1
    <3>. QED BY <3>2
  <2>. HIDE DEF P
  <2>. QED BY <1>0, <2>1, <2>2, NatInductionOnSet
<1>. DEFINE run == CHOOSE g : g = [i \in 1..n |-> IF i = 1 THEN parts[i] ELSE g[i - 1] \o parts[i]]
<1>4. run = [i \in 1..n |-> IF i = 1 THEN parts[i] ELSE run[i - 1] \o parts[i]]
  <2>1. \E g : Run(g, n)
    <3>. HIDE DEF Run
    <3>. QED BY <1>0, <1>3
  <2>. QED BY <2>1
<1>5. n # 0 => FlattenSeq(parts) = run[n]
  BY DEF FlattenSeq
<1>6. n = 0 => FlattenSeq(parts) = <<>>
  BY DEF FlattenSeq
<1>. HIDE DEF run
<1>a. \A i \in 1..n : i # 1 => run[i] = run[i - 1] \o parts[i]
  BY <1>4
<1>. DEFINE F == [i \in 0..n |-> IF i = 0 THEN <<>> ELSE run[i]]
            Q == {k \in Nat : k <= n => F[k] \in Seq(T)}
<1>7. ASSUME NEW k \in 0..(n - 1), F[k] \in Seq(T) PROVE F[k + 1] = F[k] \o parts[k + 1]
  <2>. USE <1>0
  <2>1. CASE k = 0
    <3>1. F[1] = parts[1] /\ F[0] = <<>> /\ parts[1] \in Seq(T)
      BY <1>4, <2>1
    <3>. HIDE DEF F
    <3>2. <<>> \o parts[1] = parts[1]
      BY <3>1, ConcatEmptySeq
    <3>. QED BY <2>1, <3>1, <3>2
  <2>2. CASE k # 0
    <3>1. k \in 1..n /\ k + 1 \in 1..n /\ F[k] = run[k] /\ F[k + 1] = run[k + 1]
      BY <2>2
    <3>2. PICK i \in 1..n : i = k + 1 /\ i # 1 /\ i - 1 = k
      BY <2>2, <3>1
    <3>. HIDE DEF F
    <3>3. run[i] = run[i - 1] \o parts[i]
      BY <1>a, <3>1, <3>2
    <3>. QED BY <3>1, <3>2, <3>3
  <2>. QED BY <2>1, <2>2
<1>8. \A k \in 0..n : F[k] \in Seq(T)
  <2>1. 0 \in Q
    BY <1>0
  <2>2. ASSUME NEW k \in Nat, k \in Q PROVE k + 1 \in Q
    <3>. SUFFICES ASSUME k + 1 <= n PROVE F[k + 1] \in Seq(T)
      OBVIOUS
    <3>1. k + 1 \in 1..n /\ k \in 0..(n - 1) /\ F[k] \in Seq(T) /\ parts[k + 1] \in Seq(T)
      BY <1>0, <2>2
    <3>. HIDE DEF F
    <3>2. F[k + 1] = F[k] \o parts[k + 1]
      BY <1>7, <3>1
    <3>. QED BY <3>1, <3>2, ConcatProperties
  <2>3. Nat \subseteq Q
    <3>. HIDE DEF Q
    <3>. QED BY <2>1, <2>2, NatInductionOnSet
  <2>. HIDE DEF F
  <2>. QED BY <1>0, <2>3
<1>9. F \in [0..n -> Seq(T)] /\ F[0] = <<>> /\ FlattenSeq(parts) = F[n]
  BY <1>0, <1>5, <1>6, <1>8
<1>10. \A k \in 0..(n - 1) : F[k + 1] = F[k] \o parts[k + 1]
  <2>. HIDE DEF F
  <2>1. \A k \in 0..(n - 1) : k \in 0..n
    BY <1>0
  <2>. QED BY <1>7, <1>8, <2>1
<1>. HIDE DEF F
<1>. QED BY <1>9, <1>10

----------------------------------------------------------------------------
\* Two sequences of objects that begin alike and go on alike are the same.
LEMMA SameRun ==
    ASSUME NEW n \in Nat, NEW o, NEW q, o[0] = q[0],
           \A k \in 0..(n - 1) : o[k] = q[k] => o[k + 1] = q[k + 1]
    PROVE  o[n] = q[n]
<1>. DEFINE P == {k \in Nat : k <= n => o[k] = q[k]}
<1>1. 0 \in P
  OBVIOUS
<1>2. ASSUME NEW k \in Nat, k \in P PROVE k + 1 \in P
  <2>1. k + 1 <= n => k \in 0..(n - 1)
    OBVIOUS
  <2>. QED BY <1>2, <2>1
<1>3. Nat \subseteq P
  <2>. HIDE DEF P
  <2>. QED BY <1>1, <1>2, NatInductionOnSet
<1>. QED BY <1>3

\* The loop of the server over a flat message.
ServerFlatRun(fields, m, wire) ==
    \E o : /\ o[0] = m /\ S!ParseFlat(fields, m, wire) = o[Len(wire)]
           /\ \A k \in 0..(Len(wire) - 1) : o[k + 1] = S!TakeFlat(fields, o[k], wire[k + 1])

LEMMA ServerFlatSteps ==
    ASSUME NEW fields, NEW m, NEW wire, Len(wire) \in Nat
    PROVE  ServerFlatRun(fields, m, wire)
<1>. DEFINE n == Len(wire)
            Run(g, j) == g = [k \in 0..j |-> IF k = 0 THEN m ELSE S!TakeFlat(fields, g[k - 1], wire[k])]
            P == {j \in Nat : \E g : Run(g, j)}
<1>1. \E g : Run(g, 0)
  <2>1. Run([k \in 0..0 |-> m], 0)
    OBVIOUS
  <2>. QED BY <2>1
<1>2. ASSUME NEW j \in Nat, \E g : Run(g, j) PROVE \E g : Run(g, j + 1)
  <2>1. PICK g : Run(g, j)
    BY <1>2
  <2>. DEFINE h == [k \in 0..(j + 1) |-> IF k = j + 1 THEN S!TakeFlat(fields, g[j], wire[k]) ELSE g[k]]
  <2>2. Run(h, j + 1)
    <3>1. ASSUME NEW k \in 0..(j + 1)
          PROVE  h[k] = IF k = 0 THEN m ELSE S!TakeFlat(fields, h[k - 1], wire[k])
      <4>1. CASE k = 0
        BY <2>1, <4>1
      <4>2. CASE k = j + 1
        <5>1. k # 0 /\ k - 1 = j /\ h[j] = g[j] /\ h[k] = S!TakeFlat(fields, g[j], wire[k])
          BY <4>2
        <5>. QED BY <5>1
      <4>3. CASE k # 0 /\ k # j + 1
        <5>1. k \in 0..j /\ k - 1 \in 0..j /\ h[k - 1] = g[k - 1] /\ h[k] = g[k]
          BY <4>3
        <5>2. g[k] = S!TakeFlat(fields, g[k - 1], wire[k])
          BY <2>1, <4>3, <5>1
        <5>. QED BY <4>3, <5>1, <5>2
      <4>. QED BY <4>1, <4>2, <4>3
    <3>. QED BY <3>1
  <2>. HIDE DEF Run, h
  <2>. QED BY <2>2
<1>3. \E g : Run(g, n)
  <2>. HIDE DEF Run
  <2>1. 0 \in P /\ \A j \in Nat : j \in P => j + 1 \in P
    BY <1>1, <1>2
  <2>2. Nat \subseteq P
    <3>. HIDE DEF P
    <3>. QED BY <2>1, NatInductionOnSet
  <2>. QED BY <2>2
<1>. DEFINE run == CHOOSE g : g = [k \in 0..n |-> IF k = 0 THEN m ELSE S!TakeFlat(fields, g[k - 1], wire[k])]
<1>4. run = [k \in 0..n |-> IF k = 0 THEN m ELSE S!TakeFlat(fields, run[k - 1], wire[k])]
  BY <1>3
<1>5. S!ParseFlat(fields, m, wire) = run[n]
  BY DEF S!ParseFlat
<1>. HIDE DEF run
<1>6. ASSUME NEW k \in 0..(n - 1) PROVE run[k + 1] = S!TakeFlat(fields, run[k], wire[k + 1])
  <2>1. PICK i \in 0..n : i = k + 1 /\ i # 0 /\ i - 1 = k
    OBVIOUS
  <2>2. run[i] = S!TakeFlat(fields, run[i - 1], wire[i])
    BY <1>4, <2>1
  <2>. QED BY <2>1, <2>2
<1>7. run[0] = m
  BY <1>4
<1>. QED BY <1>5, <1>6, <1>7 DEF ServerFlatRun

\* Nothing to read.
LEMMA ServerFlatNothing ==
    \A fields, m : S!ParseFlat(fields, m, <<>>) = m
<1>1. Len(<<>>) = 0
  OBVIOUS
<1>. QED BY <1>1, ServerFlatSteps DEF ServerFlatRun

\* One token more to read.
LEMMA ServerFlatMore ==
    ASSUME NEW fields, NEW m, NEW T, NEW wire \in Seq(T), NEW t \in T
    PROVE  S!ParseFlat(fields, m, Append(wire, t)) = S!TakeFlat(fields, S!ParseFlat(fields, m, wire), t)
<1>. DEFINE n == Len(wire)
            more == Append(wire, t)
<1>1. /\ n \in Nat /\ Len(more) = n + 1 /\ more[n + 1] = t
      /\ \A k \in 0..(n - 1) : more[k + 1] = wire[k + 1]
  BY AppendProperties
<1>2. PICK o : /\ o[0] = m /\ S!ParseFlat(fields, m, wire) = o[n]
               /\ \A k \in 0..(n - 1) : o[k + 1] = S!TakeFlat(fields, o[k], wire[k + 1])
  <2>1. Len(wire) \in Nat
    BY <1>1
  <2>. QED BY ONLY <2>1, ServerFlatSteps DEF ServerFlatRun
<1>. HIDE DEF more
<1>3. PICK q : /\ q[0] = m /\ S!ParseFlat(fields, m, more) = q[n + 1]
               /\ \A k \in 0..n : q[k + 1] = S!TakeFlat(fields, q[k], more[k + 1])
  <2>1. Len(more) \in Nat
    BY <1>1
  <2>2. PICK q : /\ q[0] = m /\ S!ParseFlat(fields, m, more) = q[Len(more)]
                 /\ \A k \in 0..(Len(more) - 1) : q[k + 1] = S!TakeFlat(fields, q[k], more[k + 1])
    BY ONLY <2>1, ServerFlatSteps DEF ServerFlatRun
  <2>3. Len(more) = n + 1 /\ Len(more) - 1 = n
    BY <1>1
  <2>. QED BY <2>2, <2>3
<1>4. o[n] = q[n]
  <2>1. \A k \in 0..(n - 1) : k \in 0..n /\ more[k + 1] = wire[k + 1]
    BY <1>1
  <2>2. \A k \in 0..(n - 1) : o[k] = q[k] => o[k + 1] = q[k + 1]
    BY <1>2, <1>3, <2>1
  <2>. HIDE DEF n
  <2>. QED BY <1>1, <1>2, <1>3, <2>2, SameRun
<1>5. q[n + 1] = S!TakeFlat(fields, q[n], t)
  BY <1>1, <1>3
<1>. QED BY <1>2, <1>3, <1>4, <1>5 DEF more

\* The loop of the server over any message.
ServerRun(fields, m, wire) ==
    \E o : /\ o[0] = m /\ S!Parse(fields, m, wire) = o[Len(wire)]
           /\ \A k \in 0..(Len(wire) - 1) : o[k + 1] = S!Take(fields, o[k], wire[k + 1])

LEMMA ServerSteps ==
    ASSUME NEW fields, NEW m, NEW wire, Len(wire) \in Nat
    PROVE  ServerRun(fields, m, wire)
<1>. DEFINE n == Len(wire)
            Run(g, j) == g = [k \in 0..j |-> IF k = 0 THEN m ELSE S!Take(fields, g[k - 1], wire[k])]
            P == {j \in Nat : \E g : Run(g, j)}
<1>1. \E g : Run(g, 0)
  <2>1. Run([k \in 0..0 |-> m], 0)
    OBVIOUS
  <2>. QED BY <2>1
<1>2. ASSUME NEW j \in Nat, \E g : Run(g, j) PROVE \E g : Run(g, j + 1)
  <2>1. PICK g : Run(g, j)
    BY <1>2
  <2>. DEFINE h == [k \in 0..(j + 1) |-> IF k = j + 1 THEN S!Take(fields, g[j], wire[k]) ELSE g[k]]
  <2>2. Run(h, j + 1)
    <3>1. ASSUME NEW k \in 0..(j + 1)
          PROVE  h[k] = IF k = 0 THEN m ELSE S!Take(fields, h[k - 1], wire[k])
      <4>1. CASE k = 0
        BY <2>1, <4>1
      <4>2. CASE k = j + 1
        <5>1. k # 0 /\ k - 1 = j /\ h[j] = g[j] /\ h[k] = S!Take(fields, g[j], wire[k])
          BY <4>2
        <5>. QED BY <5>1
      <4>3. CASE k # 0 /\ k # j + 1
        <5>1. k \in 0..j /\ k - 1 \in 0..j /\ h[k - 1] = g[k - 1] /\ h[k] = g[k]
          BY <4>3
        <5>2. g[k] = S!Take(fields, g[k - 1], wire[k])
          BY <2>1, <4>3, <5>1
        <5>. QED BY <4>3, <5>1, <5>2
      <4>. QED BY <4>1, <4>2, <4>3
    <3>. QED BY <3>1
  <2>. HIDE DEF Run, h
  <2>. QED BY <2>2
<1>3. \E g : Run(g, n)
  <2>. HIDE DEF Run
  <2>1. 0 \in P /\ \A j \in Nat : j \in P => j + 1 \in P
    BY <1>1, <1>2
  <2>2. Nat \subseteq P
    <3>. HIDE DEF P
    <3>. QED BY <2>1, NatInductionOnSet
  <2>. QED BY <2>2
<1>. DEFINE run == CHOOSE g : g = [k \in 0..n |-> IF k = 0 THEN m ELSE S!Take(fields, g[k - 1], wire[k])]
<1>4. run = [k \in 0..n |-> IF k = 0 THEN m ELSE S!Take(fields, run[k - 1], wire[k])]
  BY <1>3
<1>5. S!Parse(fields, m, wire) = run[n]
  BY DEF S!Parse
<1>. HIDE DEF run
<1>6. ASSUME NEW k \in 0..(n - 1) PROVE run[k + 1] = S!Take(fields, run[k], wire[k + 1])
  <2>1. PICK i \in 0..n : i = k + 1 /\ i # 0 /\ i - 1 = k
    OBVIOUS
  <2>2. run[i] = S!Take(fields, run[i - 1], wire[i])
    BY <1>4, <2>1
  <2>. QED BY <2>1, <2>2
<1>7. run[0] = m
  BY <1>4
<1>. QED BY <1>5, <1>6, <1>7 DEF ServerRun

\* Nothing to read.
LEMMA ServerNothing ==
    \A fields, m : S!Parse(fields, m, <<>>) = m
<1>1. Len(<<>>) = 0
  OBVIOUS
<1>. QED BY <1>1, ServerSteps DEF ServerRun

\* One token more to read.
LEMMA ServerMore ==
    ASSUME NEW fields, NEW m, NEW T, NEW wire \in Seq(T), NEW t \in T
    PROVE  S!Parse(fields, m, Append(wire, t)) = S!Take(fields, S!Parse(fields, m, wire), t)
<1>. DEFINE n == Len(wire)
            more == Append(wire, t)
<1>1. /\ n \in Nat /\ Len(more) = n + 1 /\ more[n + 1] = t
      /\ \A k \in 0..(n - 1) : more[k + 1] = wire[k + 1]
  BY AppendProperties
<1>2. PICK o : /\ o[0] = m /\ S!Parse(fields, m, wire) = o[n]
               /\ \A k \in 0..(n - 1) : o[k + 1] = S!Take(fields, o[k], wire[k + 1])
  <2>1. Len(wire) \in Nat
    BY <1>1
  <2>. QED BY ONLY <2>1, ServerSteps DEF ServerRun
<1>. HIDE DEF more
<1>3. PICK q : /\ q[0] = m /\ S!Parse(fields, m, more) = q[n + 1]
               /\ \A k \in 0..n : q[k + 1] = S!Take(fields, q[k], more[k + 1])
  <2>1. Len(more) \in Nat
    BY <1>1
  <2>2. PICK q : /\ q[0] = m /\ S!Parse(fields, m, more) = q[Len(more)]
                 /\ \A k \in 0..(Len(more) - 1) : q[k + 1] = S!Take(fields, q[k], more[k + 1])
    BY ONLY <2>1, ServerSteps DEF ServerRun
  <2>3. Len(more) = n + 1 /\ Len(more) - 1 = n
    BY <1>1
  <2>. QED BY <2>2, <2>3
<1>4. o[n] = q[n]
  <2>1. \A k \in 0..(n - 1) : k \in 0..n /\ more[k + 1] = wire[k + 1]
    BY <1>1
  <2>2. \A k \in 0..(n - 1) : o[k] = q[k] => o[k + 1] = q[k + 1]
    BY <1>2, <1>3, <2>1
  <2>. HIDE DEF n
  <2>. QED BY <1>1, <1>2, <1>3, <2>2, SameRun
<1>5. q[n + 1] = S!Take(fields, q[n], t)
  BY <1>1, <1>3
<1>. QED BY <1>2, <1>3, <1>4, <1>5 DEF more

\* The loop of the client over a flat message.
ClientFlatRun(fields, m, wire) ==
    \E o : /\ o[0] = m /\ C!ParseFlat(fields, m, wire) = o[Len(wire)]
           /\ \A k \in 0..(Len(wire) - 1) : o[k + 1] = C!TakeFlat(fields, o[k], wire[k + 1])

LEMMA ClientFlatSteps ==
    ASSUME NEW fields, NEW m, NEW wire, Len(wire) \in Nat
    PROVE  ClientFlatRun(fields, m, wire)
<1>. DEFINE n == Len(wire)
            Run(g, j) == g = [k \in 0..j |-> IF k = 0 THEN m ELSE C!TakeFlat(fields, g[k - 1], wire[k])]
            P == {j \in Nat : \E g : Run(g, j)}
<1>1. \E g : Run(g, 0)
  <2>1. Run([k \in 0..0 |-> m], 0)
    OBVIOUS
  <2>. QED BY <2>1
<1>2. ASSUME NEW j \in Nat, \E g : Run(g, j) PROVE \E g : Run(g, j + 1)
  <2>1. PICK g : Run(g, j)
    BY <1>2
  <2>. DEFINE h == [k \in 0..(j + 1) |-> IF k = j + 1 THEN C!TakeFlat(fields, g[j], wire[k]) ELSE g[k]]
  <2>2. Run(h, j + 1)
    <3>1. ASSUME NEW k \in 0..(j + 1)
          PROVE  h[k] = IF k = 0 THEN m ELSE C!TakeFlat(fields, h[k - 1], wire[k])
      <4>1. CASE k = 0
        BY <2>1, <4>1
      <4>2. CASE k = j + 1
        <5>1. k # 0 /\ k - 1 = j /\ h[j] = g[j] /\ h[k] = C!TakeFlat(fields, g[j], wire[k])
          BY <4>2
        <5>. QED BY <5>1
      <4>3. CASE k # 0 /\ k # j + 1
        <5>1. k \in 0..j /\ k - 1 \in 0..j /\ h[k - 1] = g[k - 1] /\ h[k] = g[k]
          BY <4>3
        <5>2. g[k] = C!TakeFlat(fields, g[k - 1], wire[k])
          BY <2>1, <4>3, <5>1
        <5>. QED BY <4>3, <5>1, <5>2
      <4>. QED BY <4>1, <4>2, <4>3
    <3>. QED BY <3>1
  <2>. HIDE DEF Run, h
  <2>. QED BY <2>2
<1>3. \E g : Run(g, n)
  <2>. HIDE DEF Run
  <2>1. 0 \in P /\ \A j \in Nat : j \in P => j + 1 \in P
    BY <1>1, <1>2
  <2>2. Nat \subseteq P
    <3>. HIDE DEF P
    <3>. QED BY <2>1, NatInductionOnSet
  <2>. QED BY <2>2
<1>. DEFINE run == CHOOSE g : g = [k \in 0..n |-> IF k = 0 THEN m ELSE C!TakeFlat(fields, g[k - 1], wire[k])]
<1>4. run = [k \in 0..n |-> IF k = 0 THEN m ELSE C!TakeFlat(fields, run[k - 1], wire[k])]
  BY <1>3
<1>5. C!ParseFlat(fields, m, wire) = run[n]
  BY DEF C!ParseFlat
<1>. HIDE DEF run
<1>6. ASSUME NEW k \in 0..(n - 1) PROVE run[k + 1] = C!TakeFlat(fields, run[k], wire[k + 1])
  <2>1. PICK i \in 0..n : i = k + 1 /\ i # 0 /\ i - 1 = k
    OBVIOUS
  <2>2. run[i] = C!TakeFlat(fields, run[i - 1], wire[i])
    BY <1>4, <2>1
  <2>. QED BY <2>1, <2>2
<1>7. run[0] = m
  BY <1>4
<1>. QED BY <1>5, <1>6, <1>7 DEF ClientFlatRun

\* The loop of the client over any message.
ClientRun(fields, m, wire) ==
    \E o : /\ o[0] = m /\ C!Parse(fields, m, wire) = o[Len(wire)]
           /\ \A k \in 0..(Len(wire) - 1) : o[k + 1] = C!Take(fields, o[k], wire[k + 1])

LEMMA ClientSteps ==
    ASSUME NEW fields, NEW m, NEW wire, Len(wire) \in Nat
    PROVE  ClientRun(fields, m, wire)
<1>. DEFINE n == Len(wire)
            Run(g, j) == g = [k \in 0..j |-> IF k = 0 THEN m ELSE C!Take(fields, g[k - 1], wire[k])]
            P == {j \in Nat : \E g : Run(g, j)}
<1>1. \E g : Run(g, 0)
  <2>1. Run([k \in 0..0 |-> m], 0)
    OBVIOUS
  <2>. QED BY <2>1
<1>2. ASSUME NEW j \in Nat, \E g : Run(g, j) PROVE \E g : Run(g, j + 1)
  <2>1. PICK g : Run(g, j)
    BY <1>2
  <2>. DEFINE h == [k \in 0..(j + 1) |-> IF k = j + 1 THEN C!Take(fields, g[j], wire[k]) ELSE g[k]]
  <2>2. Run(h, j + 1)
    <3>1. ASSUME NEW k \in 0..(j + 1)
          PROVE  h[k] = IF k = 0 THEN m ELSE C!Take(fields, h[k - 1], wire[k])
      <4>1. CASE k = 0
        BY <2>1, <4>1
      <4>2. CASE k = j + 1
        <5>1. k # 0 /\ k - 1 = j /\ h[j] = g[j] /\ h[k] = C!Take(fields, g[j], wire[k])
          BY <4>2
        <5>. QED BY <5>1
      <4>3. CASE k # 0 /\ k # j + 1
        <5>1. k \in 0..j /\ k - 1 \in 0..j /\ h[k - 1] = g[k - 1] /\ h[k] = g[k]
          BY <4>3
        <5>2. g[k] = C!Take(fields, g[k - 1], wire[k])
          BY <2>1, <4>3, <5>1
        <5>. QED BY <4>3, <5>1, <5>2
      <4>. QED BY <4>1, <4>2, <4>3
    <3>. QED BY <3>1
  <2>. HIDE DEF Run, h
  <2>. QED BY <2>2
<1>3. \E g : Run(g, n)
  <2>. HIDE DEF Run
  <2>1. 0 \in P /\ \A j \in Nat : j \in P => j + 1 \in P
    BY <1>1, <1>2
  <2>2. Nat \subseteq P
    <3>. HIDE DEF P
    <3>. QED BY <2>1, NatInductionOnSet
  <2>. QED BY <2>2
<1>. DEFINE run == CHOOSE g : g = [k \in 0..n |-> IF k = 0 THEN m ELSE C!Take(fields, g[k - 1], wire[k])]
<1>4. run = [k \in 0..n |-> IF k = 0 THEN m ELSE C!Take(fields, run[k - 1], wire[k])]
  BY <1>3
<1>5. C!Parse(fields, m, wire) = run[n]
  BY DEF C!Parse
<1>. HIDE DEF run
<1>6. ASSUME NEW k \in 0..(n - 1) PROVE run[k + 1] = C!Take(fields, run[k], wire[k + 1])
  <2>1. PICK i \in 0..n : i = k + 1 /\ i # 0 /\ i - 1 = k
    OBVIOUS
  <2>2. run[i] = C!Take(fields, run[i - 1], wire[i])
    BY <1>4, <2>1
  <2>. QED BY <2>1, <2>2
<1>7. run[0] = m
  BY <1>4
<1>. QED BY <1>5, <1>6, <1>7 DEF ClientRun
----------------------------------------------------------------------------
\* What a field of w bits can hold, and the values a field takes: texts are
\* those of an arbitrary set.
Numbers(word) == {n \in Int : -word <= 2 * n /\ 2 * n < word}
ScalarTypes == {"int32", "int64", "bool", "string"}
Scalars(type, Texts) ==
    IF type = "int32" THEN Numbers(Word32) ELSE IF type = "int64" THEN Numbers(Word64)
    ELSE IF type = "bool" THEN BOOLEAN ELSE Texts

LEMMA TypeFacts ==
    /\ \A type \in ScalarTypes : ~IsNested(type) /\ (IsVarint(type) <=> type # "string")
    /\ IsNested("message") /\ IsNested("repeated")
    /\ ~IsVarint("message") /\ ~IsVarint("repeated")
    /\ \A type : IsNested(type) => type = "message" \/ type = "repeated"
BY DEF ScalarTypes, IsNested, IsVarint

LEMMA WordFacts ==
    /\ Word32 \in Nat \ {0} /\ Word64 \in Nat \ {0} /\ Word32 > 4 /\ Word64 > Word32
BY WordsAssumption

\* A negative number comes back from its two's complement.
LEMMA SignedBack ==
    ASSUME NEW word \in Nat \ {0}, NEW n \in Numbers(word)
    PROVE  n % word \in 0..(word - 1) /\ Signed(n % word, word) = n
<1>1. n \in Int /\ -word <= 2 * n /\ 2 * n < word
  BY DEF Numbers
<1>2. CASE n >= 0
  <2>1. n % word = n
    BY <1>1, <1>2
  <2>. QED BY <1>1, <1>2, <2>1 DEF Signed
<1>3. CASE n < 0
  <2>1. n % word = n + word
    <3>1. n + word \in 0..(word - 1)
      BY <1>1, <1>3
    <3>. QED BY <1>1, <1>3, <3>1
  <2>. QED BY <1>1, <1>3, <2>1 DEF Signed
<1>. QED BY <1>1, <1>2, <1>3

\* The low word of what was extended to 64 bits.
LEMMA LowWord ==
    ASSUME NEW n \in Int
    PROVE  (n % Word64) % Word32 = n % Word32
<1>. DEFINE r == n % Word64
            q == n \div Word64
            k == Word64 \div Word32
<1>1. Word64 \in Nat /\ Word32 \in Nat /\ Word32 > 0 /\ Word64 > 0
  BY WordFacts
<1>2. r \in Nat /\ q \in Int /\ n = Word64 * q + r
  BY <1>1
<1>3. k \in Int /\ Word64 = Word32 * k
  BY <1>1, WordsAssumption
<1>4. n = Word32 * (k * q) + r
  BY <1>1, <1>2, <1>3
<1>. QED
  <2>1. PICK m \in Int : n = Word32 * m + r
    BY <1>2, <1>3, <1>4
  <2>. HIDE DEF r
  <2>2. PICK a \in Int, b \in 0..(Word32 - 1) : r = Word32 * a + b
    <3>1. r \div Word32 \in Int /\ r % Word32 \in 0..(Word32 - 1)
      BY <1>1, <1>2
    <3>2. r = Word32 * (r \div Word32) + (r % Word32)
      BY <1>1, <1>2
    <3>. QED BY <3>1, <3>2
  <2>3. r % Word32 = b
    BY <1>1, <2>2
  <2>4. n = Word32 * (m + a) + b
    BY <1>1, <2>1, <2>2
  <2>5. n % Word32 = b
    BY <1>1, <2>2, <2>4
  <2>. QED BY <2>3, <2>5 DEF r

\* What a varint carries is read as it was meant.
LEMMA NumberBack ==
    ASSUME NEW Texts, NEW type \in ScalarTypes, type # "string", NEW v \in Scalars(type, Texts)
    PROVE  Varint(type, v) \in Int /\ Number(type, Varint(type, v)) = v
<1>1. CASE type = "int32"
  <2>1. v \in Numbers(Word32) /\ v \in Int
    BY <1>1 DEF Scalars, Numbers
  <2>2. Varint(type, v) = v % Word64 /\ v % Word64 \in Int
    BY <1>1, <2>1, WordFacts DEF Varint
  <2>3. Number(type, v % Word64) = Signed((v % Word64) % Word32, Word32)
    BY <1>1 DEF Number
  <2>4. Signed(v % Word32, Word32) = v
    BY <2>1, SignedBack, WordFacts
  <2>. QED BY <2>1, <2>2, <2>3, <2>4, LowWord
<1>2. CASE type = "int64"
  <2>1. v \in Numbers(Word64) /\ v \in Int
    BY <1>2 DEF Scalars, Numbers
  <2>2. Varint(type, v) = v % Word64 /\ v % Word64 \in Int
    BY <1>2, <2>1, WordFacts DEF Varint
  <2>3. Number(type, v % Word64) = Signed(v % Word64, Word64)
    BY <1>2 DEF Number
  <2>4. Signed(v % Word64, Word64) = v
    BY <2>1, SignedBack, WordFacts
  <2>. QED BY <2>2, <2>3, <2>4
<1>3. CASE type = "bool"
  <2>1. v \in BOOLEAN
    BY <1>3 DEF Scalars
  <2>2. Varint(type, v) = (IF v THEN 1 ELSE 0)
    BY <1>3 DEF Varint
  <2>3. \A n : Number(type, n) = (n # 0)
    BY <1>3 DEF Number
  <2>. QED BY <2>1, <2>2, <2>3
<1>. QED BY <1>1, <1>2, <1>3 DEF ScalarTypes
----------------------------------------------------------------------------
(***************************************************************************)
(* The schemas. What follows holds for any two sides whose messages have   *)
(* the same fields in the same order; that the 17 messages of msg.proto do *)
(* is shown below.                                                         *)
(***************************************************************************)

\* Fields are told apart by their names and by their numbers.
Distinct(fs) ==
    /\ Len(fs) \in Nat /\ DOMAIN fs = 1..Len(fs)
    /\ \A i \in 1..Len(fs) : fs[i].num \in Nat /\ fs[i].name # "failed"
    /\ \A i, j \in 1..Len(fs) : i # j => fs[i].name # fs[j].name /\ fs[i].num # fs[j].num

FlatSchema(fs) == Distinct(fs) /\ \A i \in 1..Len(fs) : fs[i].type \in ScalarTypes

Schema(fs) ==
    /\ Distinct(fs)
    /\ \A i \in 1..Len(fs) :
          IF IsNested(fs[i].type) THEN FlatSchema(fs[i].of) ELSE fs[i].type \in ScalarTypes

\* The values a program gives a message.
FlatValues(fs, Texts) ==
    {v \in [Names(fs) -> Int \cup BOOLEAN \cup Texts] :
        \A i \in 1..Len(fs) : v[fs[i].name] \in Scalars(fs[i].type, Texts)}

FieldValues(f, Texts) ==
    IF f.type = "message" THEN {s \in Seq(FlatValues(f.of, Texts)) : Len(s) <= 1}
    ELSE IF f.type = "repeated" THEN Seq(FlatValues(f.of, Texts))
    ELSE Scalars(f.type, Texts)

IsValue(fs, Texts, v) ==
    /\ v = [n \in Names(fs) |-> v[n]]
    /\ \A i \in 1..Len(fs) : v[fs[i].name] \in FieldValues(fs[i], Texts)

FlatTokens(Texts) == [num : Nat, varint : BOOLEAN, val : Int \cup Texts]
Tokens(Texts) == [num : Nat, varint : BOOLEAN, val : Int \cup Texts \cup Seq(FlatTokens(Texts))]

LEMMA FlatTokensAreTokens == \A Texts : FlatTokens(Texts) \subseteq Tokens(Texts)
<1>. SUFFICES ASSUME NEW Texts, NEW t \in FlatTokens(Texts) PROVE t \in Tokens(Texts)
  OBVIOUS
<1>1. /\ t = [num |-> t.num, varint |-> t.varint, val |-> t.val]
      /\ t.num \in Nat /\ t.varint \in BOOLEAN /\ t.val \in Int \cup Texts
  BY DEF FlatTokens
<1>2. [num |-> t.num, varint |-> t.varint, val |-> t.val] \in Tokens(Texts)
  BY <1>1 DEF Tokens
<1>. QED BY <1>1, <1>2

\* A token leads to its field.
LEMMA TokenField ==
    ASSUME NEW fs, Distinct(fs), NEW i \in 1..Len(fs), NEW x
    PROVE  LET t == Token(fs[i].num, fs[i].type, x) IN FieldsFor(fs, t) = {i} /\ FieldFor(fs, t) = fs[i]
<1>. DEFINE t == Token(fs[i].num, fs[i].type, x)
<1>1. FieldsFor(fs, t) = {j \in DOMAIN fs : fs[j].num = fs[i].num /\ (IsVarint(fs[j].type) <=> IsVarint(fs[i].type))}
  BY DEF FieldsFor, Token, IsVarint
<1>. HIDE DEF t
<1>2. FieldsFor(fs, t) = {i}
  BY <1>1 DEF Distinct
<1>3. FieldFor(fs, t) = fs[i]
  BY <1>2 DEF FieldFor
<1>. QED BY <1>2, <1>3 DEF t

LEMMA NameField ==
    ASSUME NEW fs, Distinct(fs), NEW i \in 1..Len(fs)
    PROVE  fs[i].name \in Names(fs) /\ FieldNamed(fs, fs[i].name) = fs[i]
<1>1. fs[i].name \in Names(fs)
  BY DEF Names, Distinct
<1>2. \A j \in DOMAIN fs : fs[j].name = fs[i].name => j = i
  BY DEF Distinct
<1>3. i \in DOMAIN fs
  BY DEF Distinct
<1>. QED BY <1>1, <1>2, <1>3 DEF FieldNamed

LEMMA FieldOfName ==
    ASSUME NEW fs, Distinct(fs), NEW n \in Names(fs)
    PROVE  \E i \in 1..Len(fs) : n = fs[i].name
BY DEF Names, Distinct

\* The operations of the server's code, over the wire format that both sides share.
LEMMA ServerCode ==
    /\ \A f, v : S!Plain(f, v) = IF v = Default(f.type) THEN <<>> ELSE <<Scalar(f.num, f.type, v)>>
    /\ \A fs, m : S!SerializeFlat(fs, m) =
          FlattenSeq([i \in DOMAIN fs |-> S!Plain(fs[i], m[fs[i].name])])
    /\ \A f, v : S!Written(f, v) =
          IF IsNested(f.type)
          THEN [j \in DOMAIN v |-> Token(f.num, f.type, S!SerializeFlat(f.of, v[j]))]
          ELSE S!Plain(f, v)
    /\ \A fs, m : S!Serialize(fs, m) =
          FlattenSeq([i \in DOMAIN fs |-> S!Written(fs[i], m[fs[i].name])])
    /\ \A o, f, t : S!Assign(o, f, t) =
          IF Readable(f.type, t.val) THEN [o EXCEPT ![f.name] = Valued(f.type, t.val)] ELSE Failed
    /\ \A fs, o, t : S!TakeFlat(fs, o, t) =
          IF Skips(fs, o, t) THEN o ELSE S!Assign(o, FieldFor(fs, t), t)
<1>1. \A f, v : S!Plain(f, v) = IF v = Default(f.type) THEN <<>> ELSE <<Scalar(f.num, f.type, v)>>
  BY DEF S!Plain, S!Default, Default, S!Scalar, Scalar, S!Token, Token, S!Varint, Varint,
         S!IsVarint, IsVarint, S!IsNested, IsNested
<1>2. \A fs, m : S!SerializeFlat(fs, m) =
          FlattenSeq([i \in DOMAIN fs |-> S!Plain(fs[i], m[fs[i].name])])
  BY DEF S!SerializeFlat, S!FlattenSeq, FlattenSeq
<1>3. \A f, v : S!Written(f, v) =
          IF IsNested(f.type)
          THEN [j \in DOMAIN v |-> Token(f.num, f.type, S!SerializeFlat(f.of, v[j]))]
          ELSE S!Plain(f, v)
  BY DEF S!Written, S!IsNested, IsNested, S!Token, Token, S!IsVarint, IsVarint
<1>4. \A fs, m : S!Serialize(fs, m) =
          FlattenSeq([i \in DOMAIN fs |-> S!Written(fs[i], m[fs[i].name])])
  BY DEF S!Serialize, S!FlattenSeq, FlattenSeq
<1>5. \A o, f, t : S!Assign(o, f, t) =
          IF Readable(f.type, t.val) THEN [o EXCEPT ![f.name] = Valued(f.type, t.val)] ELSE Failed
  BY DEF S!Assign, S!Readable, Readable, S!Valued, Valued, S!Number, Number, S!IsVarint, IsVarint,
         S!Signed, Signed, S!Failed, Failed
<1>6. \A fs, o, t : S!TakeFlat(fs, o, t) =
          IF Skips(fs, o, t) THEN o ELSE S!Assign(o, FieldFor(fs, t), t)
  BY DEF S!TakeFlat, S!Skips, Skips, S!FieldsFor, FieldsFor, S!FieldFor, FieldFor, S!Failed, Failed,
         S!IsVarint, IsVarint
<1>. QED BY <1>1, <1>2, <1>3, <1>4, <1>5, <1>6

\* The token of a scalar, and what is read from it.
LEMMA ScalarToken ==
    ASSUME NEW Texts, NEW f, f.num \in Nat, f.type \in ScalarTypes, NEW v \in Scalars(f.type, Texts)
    PROVE  /\ Scalar(f.num, f.type, v) \in FlatTokens(Texts)
           /\ Readable(f.type, Scalar(f.num, f.type, v).val) <=> (f.type = "string" => v # BadText)
           /\ Valued(f.type, Scalar(f.num, f.type, v).val) = v
<1>1. CASE f.type = "string"
  <2>1. ~IsVarint(f.type) /\ v \in Texts
    BY <1>1, TypeFacts DEF Scalars
  <2>2. Scalar(f.num, f.type, v) = [num |-> f.num, varint |-> IsVarint(f.type), val |-> v]
    BY <2>1 DEF Scalar, Token
  <2>3. IsVarint(f.type) = FALSE
    BY <2>1 DEF IsVarint
  <2>4. Scalar(f.num, f.type, v) \in FlatTokens(Texts)
    <3>1. [num |-> f.num, varint |-> FALSE, val |-> v] \in FlatTokens(Texts)
      BY <2>1 DEF FlatTokens
    <3>. QED BY <2>2, <2>3, <3>1
  <2>5. Readable(f.type, v) <=> v # BadText
    BY <1>1 DEF Readable
  <2>6. Valued(f.type, v) = v
    BY <2>1 DEF Valued
  <2>. QED BY <1>1, <2>2, <2>4, <2>5, <2>6
<1>2. CASE f.type # "string"
  <2>1. IsVarint(f.type) = TRUE
    BY <1>2, TypeFacts DEF IsVarint
  <2>2. Scalar(f.num, f.type, v) = [num |-> f.num, varint |-> TRUE, val |-> Varint(f.type, v)]
    BY <2>1 DEF Scalar, Token
  <2>3. Varint(f.type, v) \in Int /\ Number(f.type, Varint(f.type, v)) = v
    BY <1>2, NumberBack
  <2>4. Scalar(f.num, f.type, v) \in FlatTokens(Texts)
    <3>1. [num |-> f.num, varint |-> TRUE, val |-> Varint(f.type, v)] \in FlatTokens(Texts)
      BY <2>3 DEF FlatTokens
    <3>. QED BY <2>2, <3>1
  <2>5. Readable(f.type, Varint(f.type, v))
    BY <1>2 DEF Readable
  <2>6. Valued(f.type, Varint(f.type, v)) = v
    BY <2>1, <2>3 DEF Valued
  <2>. QED BY <1>2, <2>1, <2>2, <2>4, <2>5, <2>6
<1>. QED BY <1>1, <1>2

LEMMA DefaultFacts ==
    ASSUME NEW Texts, NEW type \in ScalarTypes
    PROVE  type = "string" => Default(type) # BadText
BY TextAssumption DEF Default

\* What is written of a scalar.
LEMMA PlainTokens ==
    ASSUME NEW Texts, NEW f, f.num \in Nat, f.type \in ScalarTypes, NEW v \in Scalars(f.type, Texts)
    PROVE  /\ S!Plain(f, v) \in Seq(FlatTokens(Texts))
           /\ v = Default(f.type) => S!Plain(f, v) = <<>>
           /\ v # Default(f.type) => S!Plain(f, v) = <<Scalar(f.num, f.type, v)>>
<1>1. Scalar(f.num, f.type, v) \in FlatTokens(Texts)
  BY ScalarToken
<1>2. S!Plain(f, v) = IF v = Default(f.type) THEN <<>> ELSE <<Scalar(f.num, f.type, v)>>
  BY ServerCode
<1>. QED BY <1>1, <1>2

\* The wire of a flat message grows by one field after the other.
LaidFlat(fs, Texts, v) ==
    \E F : /\ F \in [0..Len(fs) -> Seq(FlatTokens(Texts))] /\ F[0] = <<>>
           /\ \A k \in 0..(Len(fs) - 1) :
                 F[k + 1] = F[k] \o S!Plain(fs[k + 1], v[fs[k + 1].name])
           /\ S!SerializeFlat(fs, v) = F[Len(fs)]

LEMMA FlatWire ==
    ASSUME NEW Texts, NEW fs, FlatSchema(fs), NEW v \in FlatValues(fs, Texts)
    PROVE  LaidFlat(fs, Texts, v)
<1>. DEFINE parts == [i \in DOMAIN fs |-> S!Plain(fs[i], v[fs[i].name])]
<1>1. Len(fs) \in Nat /\ DOMAIN fs = 1..Len(fs)
  BY DEF FlatSchema, Distinct
<1>2. \A i \in 1..Len(fs) : parts[i] \in Seq(FlatTokens(Texts))
  <2>. SUFFICES ASSUME NEW i \in 1..Len(fs) PROVE S!Plain(fs[i], v[fs[i].name]) \in Seq(FlatTokens(Texts))
    BY <1>1
  <2>1. fs[i].num \in Nat /\ fs[i].type \in ScalarTypes /\ v[fs[i].name] \in Scalars(fs[i].type, Texts)
    BY DEF FlatSchema, Distinct, FlatValues
  <2>. QED BY <2>1, PlainTokens
<1>3. parts \in Seq(Seq(FlatTokens(Texts))) /\ Len(parts) = Len(fs)
  BY <1>1, <1>2
<1>4. S!SerializeFlat(fs, v) = FlattenSeq(parts)
  BY ServerCode
<1>5. \A k \in 0..(Len(fs) - 1) : parts[k + 1] = S!Plain(fs[k + 1], v[fs[k + 1].name])
  BY <1>1
<1>. HIDE DEF parts
<1>6. PICK F : /\ F \in [0..Len(parts) -> Seq(FlatTokens(Texts))] /\ F[0] = <<>>
               /\ \A k \in 0..(Len(parts) - 1) : F[k + 1] = F[k] \o parts[k + 1]
               /\ FlattenSeq(parts) = F[Len(parts)]
  BY <1>3, FlattenSteps
<1>. QED BY <1>3, <1>4, <1>5, <1>6 DEF LaidFlat

LEMMA WrittenFlat ==
    ASSUME NEW Texts, NEW fs, FlatSchema(fs), NEW v \in FlatValues(fs, Texts)
    PROVE  S!SerializeFlat(fs, v) \in Seq(FlatTokens(Texts))
<1>1. Len(fs) \in 0..Len(fs)
  BY DEF FlatSchema, Distinct
<1>2. LaidFlat(fs, Texts, v)
  BY FlatWire
<1>. QED BY ONLY <1>1, <1>2 DEF LaidFlat
----------------------------------------------------------------------------
\* The rest of the server's code and that of the client.
LEMMA ServerNesting ==
    /\ \A o, f, t : S!Nest(o, f, t) =
          LET in == S!ParseFlat(f.of, IF f.type = "repeated" \/ o[f.name] = <<>> THEN f.new
                                      ELSE o[f.name][1], t.val)
          IN IF in = Failed THEN Failed
             ELSE [o EXCEPT ![f.name] = IF f.type = "repeated" THEN Append(@, in) ELSE <<in>>]
    /\ \A fs, o, t : S!Take(fs, o, t) =
          IF Skips(fs, o, t) THEN o
          ELSE IF IsNested(FieldFor(fs, t).type) THEN S!Nest(o, FieldFor(fs, t), t)
          ELSE S!Assign(o, FieldFor(fs, t), t)
<1>1. \A o, f, t : S!Nest(o, f, t) =
          LET in == S!ParseFlat(f.of, IF f.type = "repeated" \/ o[f.name] = <<>> THEN f.new
                                      ELSE o[f.name][1], t.val)
          IN IF in = Failed THEN Failed
             ELSE [o EXCEPT ![f.name] = IF f.type = "repeated" THEN Append(@, in) ELSE <<in>>]
  BY DEF S!Nest, S!Failed, Failed
<1>2. \A fs, o, t : S!Take(fs, o, t) =
          IF Skips(fs, o, t) THEN o
          ELSE IF IsNested(FieldFor(fs, t).type) THEN S!Nest(o, FieldFor(fs, t), t)
          ELSE S!Assign(o, FieldFor(fs, t), t)
  BY DEF S!Take, S!Skips, Skips, S!FieldsFor, FieldsFor, S!FieldFor, FieldFor, S!Failed, Failed,
         S!IsVarint, IsVarint, S!IsNested, IsNested
<1>. QED BY <1>1, <1>2

LEMMA ClientWriting ==
    /\ \A f, o : C!Plain(f, o) =
          IF f.bit \notin o.bits \/ o.val[f.name] = Default(f.type) THEN <<>>
          ELSE <<Scalar(f.num, f.type, o.val[f.name])>>
    /\ \A fs, o : C!SerializeFlat(fs, o) =
          FlattenSeq([i \in DOMAIN fs |-> C!Plain(fs[i], o)])
    /\ \A f, o : C!Written(f, o) =
          IF ~IsNested(f.type) THEN C!Plain(f, o)
          ELSE IF f.bit \notin o.bits THEN <<>>
          ELSE [j \in DOMAIN o.val[f.name] |->
                   Token(f.num, f.type, C!SerializeFlat(f.of, o.val[f.name][j]))]
    /\ \A fs, o : C!Serialize(fs, o) = FlattenSeq([i \in DOMAIN fs |-> C!Written(fs[i], o)])
    /\ \A fs, bits, v : C!MakeFlat(fs, bits, v) =
          [bits |-> {bits[n] : n \in Names(fs)}, val |-> [n \in Names(fs) |-> v[n]]]
    /\ \A fs, bits, v : C!Make(fs, bits, v) =
          [bits |-> {bits[n] : n \in {x \in Names(fs) :
                                        IsNested(FieldNamed(fs, x).type) => v[x] # <<>>}},
           val |-> [n \in Names(fs) |->
                       LET f == FieldNamed(fs, n)
                       IN IF IsNested(f.type)
                          THEN [j \in DOMAIN v[n] |-> C!MakeFlat(f.of, f.bits, v[n][j])]
                          ELSE v[n]]]
<1>1. \A f, o : C!Plain(f, o) =
          IF f.bit \notin o.bits \/ o.val[f.name] = Default(f.type) THEN <<>>
          ELSE <<Scalar(f.num, f.type, o.val[f.name])>>
  BY DEF C!Plain, C!Default, Default, C!Scalar, Scalar, C!Token, Token, C!Varint, Varint,
         C!IsVarint, IsVarint, C!IsNested, IsNested
<1>2. \A fs, o : C!SerializeFlat(fs, o) = FlattenSeq([i \in DOMAIN fs |-> C!Plain(fs[i], o)])
  BY DEF C!SerializeFlat, C!FlattenSeq, FlattenSeq
<1>3. \A f, o : C!Written(f, o) =
          IF ~IsNested(f.type) THEN C!Plain(f, o)
          ELSE IF f.bit \notin o.bits THEN <<>>
          ELSE [j \in DOMAIN o.val[f.name] |->
                   Token(f.num, f.type, C!SerializeFlat(f.of, o.val[f.name][j]))]
  BY DEF C!Written, C!IsNested, IsNested, C!Token, Token, C!IsVarint, IsVarint
<1>4. \A fs, o : C!Serialize(fs, o) = FlattenSeq([i \in DOMAIN fs |-> C!Written(fs[i], o)])
  BY DEF C!Serialize, C!FlattenSeq, FlattenSeq
<1>5. \A fs, bits, v : C!MakeFlat(fs, bits, v) =
          [bits |-> {bits[n] : n \in Names(fs)}, val |-> [n \in Names(fs) |-> v[n]]]
  BY DEF C!MakeFlat, C!Names, Names
<1>6. \A fs, bits, v : C!Make(fs, bits, v) =
          [bits |-> {bits[n] : n \in {x \in Names(fs) :
                                        IsNested(FieldNamed(fs, x).type) => v[x] # <<>>}},
           val |-> [n \in Names(fs) |->
                       LET f == FieldNamed(fs, n)
                       IN IF IsNested(f.type)
                          THEN [j \in DOMAIN v[n] |-> C!MakeFlat(f.of, f.bits, v[n][j])]
                          ELSE v[n]]]
  BY DEF C!Make, C!Names, Names, C!FieldNamed, FieldNamed, C!IsNested, IsNested
<1>. QED BY <1>1, <1>2, <1>3, <1>4, <1>5, <1>6

LEMMA ClientReading ==
    /\ \A fs : C!New(fs) =
          [bits |-> {}, val |-> [n \in Names(fs) |-> Default(FieldNamed(fs, n).type)]]
    /\ \A o, f, t : C!Assign(o, f, t) =
          IF Readable(f.type, t.val) THEN C!Put(o, f.name, f.bit, Valued(f.type, t.val)) ELSE Failed
    /\ \A fs, o, t : C!TakeFlat(fs, o, t) =
          IF Skips(fs, o, t) THEN o ELSE C!Assign(o, FieldFor(fs, t), t)
    /\ \A o, f, t : C!Nest(o, f, t) =
          LET old == o.val[f.name]
              in == C!ParseFlat(f.of, IF f.type = "repeated" \/ old = <<>> THEN C!New(f.of)
                                      ELSE old[1], t.val)
          IN IF in = Failed THEN Failed
             ELSE C!Put(o, f.name, f.bit, IF f.type = "repeated" THEN Append(old, in) ELSE <<in>>)
    /\ \A fs, o, t : C!Take(fs, o, t) =
          IF Skips(fs, o, t) THEN o
          ELSE IF IsNested(FieldFor(fs, t).type) THEN C!Nest(o, FieldFor(fs, t), t)
          ELSE C!Assign(o, FieldFor(fs, t), t)
    /\ \A fs, bits, o : C!Values(fs, bits, o) =
          [n \in DOMAIN o.val |->
              LET f == FieldNamed(fs, n)
              IN IF ~IsNested(f.type) THEN o.val[n]
                 ELSE IF f.type = "message" /\ bits[n] \notin o.bits THEN <<>>
                 ELSE [j \in DOMAIN o.val[n] |-> o.val[n][j].val]]
<1>1. \A fs : C!New(fs) =
          [bits |-> {}, val |-> [n \in Names(fs) |-> Default(FieldNamed(fs, n).type)]]
  BY DEF C!New, C!Names, Names, C!FieldNamed, FieldNamed, C!Default, Default, C!IsNested, IsNested
<1>2. \A o, f, t : C!Assign(o, f, t) =
          IF Readable(f.type, t.val) THEN C!Put(o, f.name, f.bit, Valued(f.type, t.val)) ELSE Failed
  BY DEF C!Assign, C!Readable, Readable, C!Valued, Valued, C!Number, Number, C!IsVarint, IsVarint,
         C!Signed, Signed, C!Failed, Failed
<1>3. \A fs, o, t : C!TakeFlat(fs, o, t) =
          IF Skips(fs, o, t) THEN o ELSE C!Assign(o, FieldFor(fs, t), t)
  BY DEF C!TakeFlat, C!Skips, Skips, C!FieldsFor, FieldsFor, C!FieldFor, FieldFor, C!Failed, Failed,
         C!IsVarint, IsVarint
<1>4. \A o, f, t : C!Nest(o, f, t) =
          LET old == o.val[f.name]
              in == C!ParseFlat(f.of, IF f.type = "repeated" \/ old = <<>> THEN C!New(f.of)
                                      ELSE old[1], t.val)
          IN IF in = Failed THEN Failed
             ELSE C!Put(o, f.name, f.bit, IF f.type = "repeated" THEN Append(old, in) ELSE <<in>>)
  BY DEF C!Nest, C!Failed, Failed
<1>5. \A fs, o, t : C!Take(fs, o, t) =
          IF Skips(fs, o, t) THEN o
          ELSE IF IsNested(FieldFor(fs, t).type) THEN C!Nest(o, FieldFor(fs, t), t)
          ELSE C!Assign(o, FieldFor(fs, t), t)
  BY DEF C!Take, C!Skips, Skips, C!FieldsFor, FieldsFor, C!FieldFor, FieldFor, C!Failed, Failed,
         C!IsVarint, IsVarint, C!IsNested, IsNested
<1>6. \A fs, bits, o : C!Values(fs, bits, o) =
          [n \in DOMAIN o.val |->
              LET f == FieldNamed(fs, n)
              IN IF ~IsNested(f.type) THEN o.val[n]
                 ELSE IF f.type = "message" /\ bits[n] \notin o.bits THEN <<>>
                 ELSE [j \in DOMAIN o.val[n] |-> o.val[n][j].val]]
  BY DEF C!Values, C!FieldNamed, FieldNamed, C!IsNested, IsNested
<1>. QED BY <1>1, <1>2, <1>3, <1>4, <1>5, <1>6
----------------------------------------------------------------------------
(***************************************************************************)
(* What the server's code reads from what it has written, field by field.  *)
(***************************************************************************)

\* The object a message starts from, and an object of these fields.
ServerNew(fs, new) ==
    /\ new = [n \in Names(fs) |-> new[n]]
    /\ \A i \in 1..Len(fs) : new[fs[i].name] = Default(fs[i].type)

\* The object once the first k fields are read.
Upto(fs, new, v, k) ==
    [n \in Names(fs) |-> IF \E i \in 1..k : fs[i].name = n THEN v[n] ELSE new[n]]

\* What maps the names of these fields.
IsObject(fs, o) == o = [n \in Names(fs) |-> o[n]]

\* The next field is still at its default, and then it is read.
NextRead(fs, new, v, k) ==
    LET f == fs[k + 1]
    IN /\ Upto(fs, new, v, k + 1) = [Upto(fs, new, v, k) EXCEPT ![f.name] = v[f.name]]
       /\ Upto(fs, new, v, k)[f.name] = Default(f.type)

LEMMA UptoSteps ==
    ASSUME NEW fs, Distinct(fs), NEW new, ServerNew(fs, new), NEW v, IsObject(fs, v)
    PROVE  /\ Upto(fs, new, v, 0) = new
           /\ \A k \in 0..(Len(fs) - 1) : NextRead(fs, new, v, k)
           /\ Upto(fs, new, v, Len(fs)) = v
<1>. USE DEF Upto, IsObject
<1>0. Len(fs) \in Nat
  BY DEF Distinct
<1>1. Upto(fs, new, v, 0) = new
  BY DEF ServerNew
<1>2. ASSUME NEW k \in 0..(Len(fs) - 1)
      PROVE  /\ Upto(fs, new, v, k + 1) =
                   [Upto(fs, new, v, k) EXCEPT ![fs[k + 1].name] = v[fs[k + 1].name]]
             /\ Upto(fs, new, v, k)[fs[k + 1].name] = Default(fs[k + 1].type)
  <2>1. k + 1 \in 1..Len(fs) /\ fs[k + 1].name \in Names(fs)
    <3>1. k + 1 \in 1..Len(fs)
      BY <1>0
    <3>. QED BY <3>1, NameField
  <2>2. \A i \in 1..k : fs[i].name # fs[k + 1].name
    <3>1. \A i \in 1..k : i \in 1..Len(fs) /\ i # k + 1
      BY <1>0
    <3>. QED BY <2>1, <3>1 DEF Distinct
  <2>3. \A n : (\E i \in 1..(k + 1) : fs[i].name = n) <=> n = fs[k + 1].name \/ \E i \in 1..k : fs[i].name = n
    <3>1. \A i \in 1..(k + 1) : i = k + 1 \/ i \in 1..k
      BY <1>0
    <3>2. k + 1 \in 1..(k + 1) /\ \A i \in 1..k : i \in 1..(k + 1)
      BY <1>0
    <3>. QED BY <3>1, <3>2
  <2>4. \A n \in Names(fs) : Upto(fs, new, v, k + 1)[n] =
            [Upto(fs, new, v, k) EXCEPT ![fs[k + 1].name] = v[fs[k + 1].name]][n]
    BY <2>1, <2>3
  <2>5. Upto(fs, new, v, k)[fs[k + 1].name] = new[fs[k + 1].name]
    BY <2>1, <2>2
  <2>. QED BY <2>1, <2>4, <2>5 DEF ServerNew
<1>. HIDE DEF Upto
<1>3. \A k \in 0..(Len(fs) - 1) : NextRead(fs, new, v, k)
  BY <1>2 DEF NextRead
<1>. USE DEF Upto
<1>4. Upto(fs, new, v, Len(fs)) = v
  <2>1. \A n \in Names(fs) : \E i \in 1..Len(fs) : fs[i].name = n
    BY FieldOfName
  <2>. QED BY <2>1
<1>. HIDE DEF Upto
<1>. QED BY <1>1, <1>3, <1>4

\* An object is not a failure.
LEMMA ObjectStands ==
    ASSUME NEW fs, Distinct(fs), NEW o, IsObject(fs, o)
    PROVE  o # Failed
<1>1. "failed" \notin Names(fs)
  BY FieldOfName DEF Distinct
<1>2. DOMAIN o = Names(fs)
  BY DEF IsObject
<1>3. DOMAIN Failed = {"failed"}
  BY DEF Failed
<1>. QED BY <1>1, <1>2, <1>3

Spelled(f, x) ==
    IF IsNested(f.type) THEN \A j \in DOMAIN x : LegibleFlat(f.of, x[j])
    ELSE f.type = "string" => x # BadText

\* The object o, or the failure, once a field got the value x.
Got(o, f, x) == IF o # Failed /\ Spelled(f, x) THEN [o EXCEPT ![f.name] = x] ELSE Failed

\* The i-th field is a scalar, and o an object into which it gets the value x.
Gets(Texts, fs, i, x, o) ==
    /\ Distinct(fs) /\ i \in 1..Len(fs) /\ fs[i].type \in ScalarTypes
    /\ x \in Scalars(fs[i].type, Texts) /\ IsObject(fs, o)

\* A token of a scalar field puts its value into an object.
LEMMA ServerScalar ==
    ASSUME NEW Texts, NEW fs, NEW i, NEW x, NEW o, Gets(Texts, fs, i, x, o)
    PROVE  /\ S!TakeFlat(fs, o, Scalar(fs[i].num, fs[i].type, x)) = Got(o, fs[i], x)
           /\ S!Take(fs, o, Scalar(fs[i].num, fs[i].type, x)) = Got(o, fs[i], x)
<1>. DEFINE t == Scalar(fs[i].num, fs[i].type, x)
<1>0. /\ Distinct(fs) /\ i \in 1..Len(fs) /\ fs[i].type \in ScalarTypes
      /\ x \in Scalars(fs[i].type, Texts) /\ IsObject(fs, o)
  BY DEF Gets
<1>1. fs[i].num \in Nat
  BY <1>0 DEF Distinct
<1>2. /\ Readable(fs[i].type, t.val) <=> Spelled(fs[i], x)
      /\ Valued(fs[i].type, t.val) = x
  <2>1. /\ Readable(fs[i].type, t.val) <=> (fs[i].type = "string" => x # BadText)
        /\ Valued(fs[i].type, t.val) = x
    BY <1>0, <1>1, ScalarToken
  <2>. QED BY <1>0, <2>1, TypeFacts DEF Spelled
<1>3. FieldsFor(fs, t) = {i} /\ FieldFor(fs, t) = fs[i]
  <2>1. PICK y : t = Token(fs[i].num, fs[i].type, y)
    BY DEF Scalar
  <2>2. /\ FieldsFor(fs, Token(fs[i].num, fs[i].type, y)) = {i}
        /\ FieldFor(fs, Token(fs[i].num, fs[i].type, y)) = fs[i]
    BY <1>0, TokenField
  <2>. QED BY <2>1, <2>2
<1>. HIDE DEF t
<1>4. ~Skips(fs, o, t)
  BY <1>0, <1>3, ObjectStands DEF Skips
<1>5. S!TakeFlat(fs, o, t) = S!Assign(o, fs[i], t)
  BY <1>3, <1>4, ServerCode
<1>6. S!Take(fs, o, t) = S!Assign(o, fs[i], t)
  BY <1>0, <1>3, <1>4, ServerNesting, TypeFacts
<1>7. S!Assign(o, fs[i], t) = Got(o, fs[i], x)
  BY <1>0, <1>2, ServerCode, ObjectStands DEF Got
<1>. QED BY <1>5, <1>6, <1>7 DEF t

\* After a failure nothing is read.
LEMMA ServerFailed ==
    \A fs, t : S!TakeFlat(fs, Failed, t) = Failed /\ S!Take(fs, Failed, t) = Failed
BY ServerCode, ServerNesting DEF Skips

\* The scalar x of the i-th field comes after a wire of which o was made.
FollowsFlat(Texts, fs, i, x, m, wire, o) ==
    /\ Distinct(fs) /\ i \in 1..Len(fs) /\ fs[i].type \in ScalarTypes
    /\ x \in Scalars(fs[i].type, Texts)
    /\ wire \in Seq(FlatTokens(Texts)) /\ S!ParseFlat(fs, m, wire) = o
    /\ o = Failed \/ (IsObject(fs, o) /\ o[fs[i].name] = Default(fs[i].type))

\* What is written of one scalar, read after all that was read before.
LEMMA ServerReadsScalarFlat ==
    ASSUME NEW Texts, NEW fs, NEW i, NEW x, NEW m, NEW wire, NEW o,
           FollowsFlat(Texts, fs, i, x, m, wire, o)
    PROVE  S!ParseFlat(fs, m, wire \o S!Plain(fs[i], x)) = Got(o, fs[i], x)
<1>. DEFINE new == Got(o, fs[i], x)
            more == wire \o S!Plain(fs[i], x)
            t == Scalar(fs[i].num, fs[i].type, x)
<1>0. /\ Distinct(fs) /\ i \in 1..Len(fs) /\ fs[i].type \in ScalarTypes
      /\ x \in Scalars(fs[i].type, Texts)
      /\ wire \in Seq(FlatTokens(Texts)) /\ S!ParseFlat(fs, m, wire) = o
      /\ o = Failed \/ (IsObject(fs, o) /\ o[fs[i].name] = Default(fs[i].type))
  BY DEF FollowsFlat
<1>1. fs[i].num \in Nat
  BY <1>0 DEF Distinct
<1>2. CASE x = Default(fs[i].type)
  <2>1. S!Plain(fs[i], x) = <<>>
    BY <1>0, <1>1, <1>2, PlainTokens
  <2>2. more = wire
    BY <1>0, <2>1, ConcatEmptySeq
  <2>3. Spelled(fs[i], x)
    BY <1>0, <1>2, DefaultFacts, TypeFacts DEF Spelled
  <2>4. o # Failed => [o EXCEPT ![fs[i].name] = x] = o
    BY <1>0, <1>2 DEF IsObject
  <2>5. new = o
    BY <2>3, <2>4 DEF Got
  <2>. QED BY <1>0, <2>2, <2>5
<1>3. CASE x # Default(fs[i].type)
  <2>1. S!Plain(fs[i], x) = <<t>> /\ t \in FlatTokens(Texts)
    BY <1>0, <1>1, <1>3, PlainTokens, ScalarToken
  <2>2. more = Append(wire, t)
    BY <1>0, <2>1
  <2>3. S!TakeFlat(fs, o, t) = new
    <3>1. CASE o = Failed
      BY <3>1, ServerFailed DEF Got
    <3>2. CASE o # Failed
      <4>1. Gets(Texts, fs, i, x, o)
        BY <1>0, <3>2 DEF Gets
      <4>2. S!TakeFlat(fs, o, t) = Got(o, fs[i], x) /\ S!Take(fs, o, t) = Got(o, fs[i], x)
        BY ONLY <4>1, ServerScalar
      <4>. QED BY <4>2
    <3>. QED BY <3>1, <3>2
  <2>. HIDE DEF new, more, t
  <2>4. S!ParseFlat(fs, m, Append(wire, t)) = S!TakeFlat(fs, S!ParseFlat(fs, m, wire), t)
    BY ONLY <1>0, <2>1, ServerFlatMore
  <2>. QED BY <1>0, <2>2, <2>3, <2>4 DEF new, more
<1>. QED BY <1>2, <1>3

LEMMA ServerReadsScalar ==
    ASSUME NEW Texts, NEW fs, Distinct(fs), NEW i \in 1..Len(fs), fs[i].type \in ScalarTypes,
           NEW x \in Scalars(fs[i].type, Texts), NEW m,
           NEW wire \in Seq(Tokens(Texts)), NEW o,
           o = Failed \/ (IsObject(fs, o) /\ o[fs[i].name] = Default(fs[i].type)),
           S!Parse(fs, m, wire) = o
    PROVE  S!Parse(fs, m, wire \o S!Plain(fs[i], x)) = Got(o, fs[i], x)
<1>. DEFINE new == Got(o, fs[i], x)
            more == wire \o S!Plain(fs[i], x)
            t == Scalar(fs[i].num, fs[i].type, x)
<1>1. fs[i].num \in Nat
  BY DEF Distinct
<1>2. CASE x = Default(fs[i].type)
  <2>1. S!Plain(fs[i], x) = <<>>
    BY <1>1, <1>2, PlainTokens
  <2>2. more = wire
    BY <2>1, ConcatEmptySeq
  <2>3. Spelled(fs[i], x)
    BY <1>2, DefaultFacts, TypeFacts DEF Spelled
  <2>4. o # Failed => [o EXCEPT ![fs[i].name] = x] = o
    BY <1>2 DEF IsObject
  <2>5. new = o
    BY <2>3, <2>4 DEF Got
  <2>. QED BY <2>2, <2>5
<1>3. CASE x # Default(fs[i].type)
  <2>1. S!Plain(fs[i], x) = <<t>> /\ t \in Tokens(Texts)
    BY <1>1, <1>3, PlainTokens, ScalarToken, FlatTokensAreTokens
  <2>2. more = Append(wire, t)
    BY <2>1
  <2>3. S!Take(fs, o, t) = new
    <3>1. CASE o = Failed
      BY <3>1, ServerFailed DEF Got
    <3>2. CASE o # Failed
      <4>1. Gets(Texts, fs, i, x, o)
        BY <3>2 DEF Gets
      <4>2. S!TakeFlat(fs, o, t) = Got(o, fs[i], x) /\ S!Take(fs, o, t) = Got(o, fs[i], x)
        BY ONLY <4>1, ServerScalar
      <4>. QED BY <4>2
    <3>. QED BY <3>1, <3>2
  <2>. HIDE DEF new, more, t
  <2>4. S!Parse(fs, m, Append(wire, t)) = S!Take(fs, S!Parse(fs, m, wire), t)
    BY ONLY <2>1, wire \in Seq(Tokens(Texts)), ServerMore
  <2>. QED BY <2>2, <2>3, <2>4 DEF new, more
<1>. QED BY <1>2, <1>3
\* A flat message is read as it was meant, or refused.
LEMMA ServerReadsFlat ==
    ASSUME NEW Texts, NEW fs, FlatSchema(fs), NEW new, ServerNew(fs, new),
           NEW v \in FlatValues(fs, Texts)
    PROVE  S!ParseFlat(fs, new, S!SerializeFlat(fs, v)) = IF LegibleFlat(fs, v) THEN v ELSE Failed
<1>. DEFINE n == Len(fs)
            Good(k) == \A i \in 1..k : Spelled(fs[i], v[fs[i].name])
            St(k) == IF Good(k) THEN Upto(fs, new, v, k) ELSE Failed
<1>0. n \in Nat /\ Distinct(fs) /\ DOMAIN fs = 1..n
  BY DEF FlatSchema, Distinct
<1>1. IsObject(fs, v)
  BY DEF FlatValues, IsObject
<1>2. PICK F : /\ F \in [0..n -> Seq(FlatTokens(Texts))] /\ F[0] = <<>>
               /\ \A k \in 0..(n - 1) : F[k + 1] = F[k] \o S!Plain(fs[k + 1], v[fs[k + 1].name])
               /\ S!SerializeFlat(fs, v) = F[n]
  <2>1. LaidFlat(fs, Texts, v)
    BY FlatWire
  <2>. QED BY ONLY <2>1 DEF LaidFlat
<1>. DEFINE P == {k \in Nat : k <= n => S!ParseFlat(fs, new, F[k]) = St(k)}
<1>3. 0 \in P
  <2>1. S!ParseFlat(fs, new, <<>>) = new
    BY ServerFlatNothing
  <2>2. Upto(fs, new, v, 0) = new
    BY <1>0, <1>1, UptoSteps
  <2>. QED BY <1>2, <2>1, <2>2
<1>4. ASSUME NEW k \in Nat, k + 1 <= n, S!ParseFlat(fs, new, F[k]) = St(k)
      PROVE  S!ParseFlat(fs, new, F[k + 1]) = St(k + 1)
  <2>. DEFINE o == St(k)
              f == fs[k + 1]
              x == v[fs[k + 1].name]
              next == Got(o, f, x)
  <2>1. k + 1 \in 1..n /\ k \in 0..(n - 1) /\ k \in 0..n
    BY <1>0, <1>4
  <2>2. f.type \in ScalarTypes /\ x \in Scalars(f.type, Texts) /\ F[k] \in Seq(FlatTokens(Texts))
    BY <1>2, <2>1 DEF FlatSchema, FlatValues
  <2>3. /\ Upto(fs, new, v, k + 1) = [Upto(fs, new, v, k) EXCEPT ![f.name] = x]
        /\ Upto(fs, new, v, k)[f.name] = Default(f.type)
    <3>1. NextRead(fs, new, v, k)
      BY <1>0, <1>1, <2>1, UptoSteps
    <3>. QED BY <3>1 DEF NextRead
  <2>4. IsObject(fs, Upto(fs, new, v, k))
    BY DEF Upto, IsObject
  <2>5. Upto(fs, new, v, k) # Failed
    BY <1>0, <2>4, ObjectStands
  <2>6. o = Failed \/ (IsObject(fs, o) /\ o[f.name] = Default(f.type))
    BY <2>3, <2>4
  <2>7. S!ParseFlat(fs, new, F[k] \o S!Plain(f, x)) = next
    <3>1. FollowsFlat(Texts, fs, k + 1, x, new, F[k], o)
      <4>. HIDE DEF x, St
      <4>. QED BY <1>0, <1>4, <2>1, <2>2, <2>6 DEF FollowsFlat
    <3>. HIDE DEF o, x
    <3>. QED BY <3>1, ServerReadsScalarFlat
  <2>8. next = St(k + 1)
    <3>1. Good(k + 1) <=> Good(k) /\ Spelled(f, x)
      <4>1. \A i \in 1..(k + 1) : i = k + 1 \/ i \in 1..k
        BY <2>1
      <4>2. k + 1 \in 1..(k + 1) /\ \A i \in 1..k : i \in 1..(k + 1)
        BY <2>1
      <4>. QED BY <4>1, <4>2
    <3>. HIDE DEF Good
    <3>. QED BY <2>3, <2>5, <3>1 DEF Got
  <2>. QED BY <1>2, <2>1, <2>7, <2>8
<1>5. n \in P
  <2>1. ASSUME NEW k \in Nat, k \in P PROVE k + 1 \in P
    <3>1. k + 1 <= n => S!ParseFlat(fs, new, F[k]) = St(k)
      BY <1>0, <2>1
    <3>. HIDE DEF St
    <3>. QED BY <1>4, <3>1
  <2>. HIDE DEF P
  <2>. QED BY <1>0, <1>3, <2>1, NatInductionOnSet
<1>6. LegibleFlat(fs, v) <=> Good(n)
  BY <1>0, TypeFacts DEF LegibleFlat, Spelled, FlatSchema
<1>7. Upto(fs, new, v, n) = v
  BY <1>0, <1>1, UptoSteps
<1>8. F[n] \in Seq(FlatTokens(Texts))
  BY <1>0, <1>2
<1>. QED BY <1>0, <1>2, <1>5, <1>6, <1>7, <1>8

----------------------------------------------------------------------------
\* The beginnings of a sequence.
Begun(s, k) == [l \in 1..k |-> s[l]]

LEMMA BegunSteps ==
    ASSUME NEW T, NEW s \in Seq(T)
    PROVE  /\ Begun(s, 0) = <<>> /\ Begun(s, Len(s)) = s
           /\ \A k \in 0..Len(s) : Begun(s, k) \in Seq(T)
           /\ \A k \in 0..(Len(s) - 1) : Begun(s, k + 1) = Append(Begun(s, k), s[k + 1])
<1>. USE DEF Begun
<1>1. Len(s) \in Nat /\ \A l \in 1..Len(s) : s[l] \in T
  OBVIOUS
<1>2. Begun(s, 0) = <<>> /\ Begun(s, Len(s)) = s
  OBVIOUS
<1>3. ASSUME NEW k \in 0..Len(s) PROVE Begun(s, k) \in Seq(T) /\ Len(Begun(s, k)) = k
  <2>1. k \in Nat /\ \A l \in 1..k : s[l] \in T
    BY <1>1
  <2>. QED BY <2>1
<1>4. ASSUME NEW k \in 0..(Len(s) - 1) PROVE Begun(s, k + 1) = Append(Begun(s, k), s[k + 1])
  <2>1. k \in 0..Len(s) /\ k + 1 \in 0..Len(s) /\ s[k + 1] \in T
    BY <1>1
  <2>2. Begun(s, k) \in Seq(T) /\ Len(Begun(s, k)) = k /\ Begun(s, k + 1) \in Seq(T) /\ Len(Begun(s, k + 1)) = k + 1
    BY <1>3, <2>1
  <2>. DEFINE a == Begun(s, k)
              b == Append(a, s[k + 1])
  <2>3. b \in Seq(T) /\ Len(b) = k + 1 /\ b[k + 1] = s[k + 1] /\ \A l \in 1..k : b[l] = a[l]
    BY <2>1, <2>2, AppendProperties
  <2>4. \A l \in 1..(k + 1) : b[l] = s[l]
    <3>1. \A l \in 1..k : a[l] = s[l]
      OBVIOUS
    <3>2. \A l \in 1..(k + 1) : l = k + 1 \/ l \in 1..k
      BY <2>1
    <3>. HIDE DEF a, b
    <3>. QED BY <2>3, <3>1, <3>2
  <2>5. b = [l \in 1..(k + 1) |-> b[l]]
    <3>. HIDE DEF b
    <3>. QED BY <2>3
  <2>. HIDE DEF b
  <2>6. b = [l \in 1..(k + 1) |-> s[l]]
    BY <2>4, <2>5
  <2>. QED BY <2>6 DEF b
<1>. QED BY <1>2, <1>3, <1>4
\* What is written of a field.
LEMMA WrittenTokens ==
    ASSUME NEW Texts, NEW f, f.num \in Nat, NEW x \in FieldValues(f, Texts),
           IF IsNested(f.type) THEN FlatSchema(f.of) ELSE f.type \in ScalarTypes
    PROVE  /\ S!Written(f, x) \in Seq(Tokens(Texts))
           /\ IsNested(f.type) => /\ x \in Seq(FlatValues(f.of, Texts)) /\ DOMAIN x = 1..Len(x)
                                  /\ Len(S!Written(f, x)) = Len(x)
                                  /\ \A j \in 1..Len(x) :
                                        S!Written(f, x)[j] = Token(f.num, f.type, S!SerializeFlat(f.of, x[j]))
           /\ ~IsNested(f.type) => /\ x \in Scalars(f.type, Texts)
                                   /\ S!Written(f, x) = S!Plain(f, x)
<1>1. CASE IsNested(f.type)
  <2>1. x \in Seq(FlatValues(f.of, Texts)) /\ DOMAIN x = 1..Len(x)
    BY <1>1, TypeFacts DEF FieldValues
  <2>2. S!Written(f, x) = [j \in 1..Len(x) |-> Token(f.num, f.type, S!SerializeFlat(f.of, x[j]))]
    BY <1>1, <2>1, ServerCode
  <2>3. \A j \in 1..Len(x) : Token(f.num, f.type, S!SerializeFlat(f.of, x[j])) \in Tokens(Texts)
    <3>. SUFFICES ASSUME NEW j \in 1..Len(x) PROVE Token(f.num, f.type, S!SerializeFlat(f.of, x[j])) \in Tokens(Texts)
      OBVIOUS
    <3>1. x[j] \in FlatValues(f.of, Texts)
      BY <2>1
    <3>2. S!SerializeFlat(f.of, x[j]) \in Seq(FlatTokens(Texts))
      BY <1>1, <3>1, WrittenFlat
    <3>3. IsVarint(f.type) = FALSE
      BY <1>1, TypeFacts DEF IsVarint
    <3>4. Token(f.num, f.type, S!SerializeFlat(f.of, x[j])) =
              [num |-> f.num, varint |-> FALSE, val |-> S!SerializeFlat(f.of, x[j])]
      BY <3>3 DEF Token
    <3>5. [num |-> f.num, varint |-> FALSE, val |-> S!SerializeFlat(f.of, x[j])] \in Tokens(Texts)
      BY <3>2 DEF Tokens
    <3>. QED BY <3>4, <3>5
  <2>. QED BY <1>1, <2>1, <2>2, <2>3
<1>2. CASE ~IsNested(f.type)
  <2>1. x \in Scalars(f.type, Texts)
    BY <1>2, TypeFacts DEF FieldValues
  <2>2. S!Written(f, x) = S!Plain(f, x)
    BY <1>2, ServerCode
  <2>3. S!Plain(f, x) \in Seq(FlatTokens(Texts))
    BY <1>2, <2>1, PlainTokens
  <2>4. S!Plain(f, x) \in Seq(Tokens(Texts))
    BY <2>3, FlatTokensAreTokens
  <2>. QED BY <1>2, <2>1, <2>2, <2>4
<1>. QED BY <1>1, <1>2

\* A token of a nested message adds its value to the field.
LEMMA ServerNested ==
    ASSUME NEW Texts, NEW fs, Distinct(fs), NEW i \in 1..Len(fs), IsNested(fs[i].type),
           FlatSchema(fs[i].of), ServerNew(fs[i].of, fs[i].new), NEW y \in FlatValues(fs[i].of, Texts),
           NEW o, IsObject(fs, o), fs[i].type = "message" => o[fs[i].name] = <<>>
    PROVE  S!Take(fs, o, Token(fs[i].num, fs[i].type, S!SerializeFlat(fs[i].of, y))) =
              IF LegibleFlat(fs[i].of, y) THEN [o EXCEPT ![fs[i].name] = Append(@, y)] ELSE Failed
<1>. DEFINE f == fs[i]
            t == Token(f.num, f.type, S!SerializeFlat(f.of, y))
            in == IF LegibleFlat(f.of, y) THEN y ELSE Failed
<1>1. FieldsFor(fs, t) = {i} /\ FieldFor(fs, t) = f
  BY TokenField
<1>2. t.val = S!SerializeFlat(f.of, y)
  BY DEF Token
<1>. HIDE DEF t
<1>3. ~Skips(fs, o, t)
  BY <1>1, ObjectStands DEF Skips
<1>4. S!Take(fs, o, t) = S!Nest(o, f, t)
  BY <1>1, <1>3, ServerNesting
<1>5. S!ParseFlat(f.of, f.new, t.val) = in
  <2>. HIDE DEF f
  <2>1. FlatSchema(f.of) /\ ServerNew(f.of, f.new) /\ y \in FlatValues(f.of, Texts)
    BY DEF f
  <2>. QED BY ONLY <1>2, <2>1, ServerReadsFlat DEF in
<1>6. f.type = "repeated" \/ o[f.name] = <<>>
  BY TypeFacts
<1>7. S!Nest(o, f, t) = IF in = Failed THEN Failed
                        ELSE [o EXCEPT ![f.name] = IF f.type = "repeated" THEN Append(@, in) ELSE <<in>>]
  <2>. HIDE DEF in, f
  <2>. QED BY <1>5, <1>6, ServerNesting
<1>8. y # Failed
  <2>1. IsObject(f.of, y) /\ Distinct(f.of)
    BY DEF IsObject, FlatValues, FlatSchema
  <2>. QED BY <2>1, ObjectStands
<1>9. f.type # "repeated" => <<y>> = Append(o[f.name], y)
  <2>1. <<y>> = Append(<<>>, y)
    OBVIOUS
  <2>. HIDE DEF f
  <2>. QED BY <1>6, <2>1
<1>10. LegibleFlat(f.of, y) => S!Nest(o, f, t) = [o EXCEPT ![f.name] = Append(@, y)]
  BY <1>7, <1>8, <1>9
<1>11. ~LegibleFlat(f.of, y) => S!Nest(o, f, t) = Failed
  BY <1>7
<1>. QED BY <1>4, <1>10, <1>11 DEF t

\* wire has been read into o, and what is written of the value x of field i follows.
Follows(Texts, fs, i, x, m, wire, o) ==
    /\ Distinct(fs) /\ i \in 1..Len(fs) /\ x \in FieldValues(fs[i], Texts)
    /\ IF IsNested(fs[i].type) THEN FlatSchema(fs[i].of) /\ ServerNew(fs[i].of, fs[i].new)
       ELSE fs[i].type \in ScalarTypes
    /\ wire \in Seq(Tokens(Texts)) /\ S!Parse(fs, m, wire) = o
    /\ o = Failed \/ (IsObject(fs, o) /\ o[fs[i].name] = Default(fs[i].type))

\* What is written of a nested field, read after all that was read before.
LEMMA ServerReadsNested ==
    ASSUME NEW Texts, NEW fs, NEW i, NEW x, NEW m, NEW wire, NEW o,
           Follows(Texts, fs, i, x, m, wire, o), IsNested(fs[i].type)
    PROVE  S!Parse(fs, m, wire \o S!Written(fs[i], x)) = Got(o, fs[i], x)
<1>o. /\ Distinct(fs) /\ i \in 1..Len(fs) /\ x \in FieldValues(fs[i], Texts)
      /\ IsNested(fs[i].type) /\ FlatSchema(fs[i].of) /\ ServerNew(fs[i].of, fs[i].new)
      /\ wire \in Seq(Tokens(Texts)) /\ S!Parse(fs, m, wire) = o
  BY DEF Follows
<1>0. o = Failed \/ (IsObject(fs, o) /\ o[fs[i].name] = <<>>)
  <2>1. Default(fs[i].type) = <<>>
    BY TypeFacts DEF Default
  <2>. QED BY <2>1 DEF Follows
<1>. USE <1>o
<1>. DEFINE f == fs[i]
            new == S!Written(f, x)
            n == Len(x)
            Good(k) == \A j \in 1..k : LegibleFlat(f.of, x[j])
            St(k) == IF o # Failed /\ Good(k) THEN [o EXCEPT ![f.name] = Begun(x, k)] ELSE Failed
            P == {k \in Nat : k <= n => S!Parse(fs, m, wire \o Begun(new, k)) = St(k)}
<1>1. /\ new \in Seq(Tokens(Texts)) /\ x \in Seq(FlatValues(f.of, Texts)) /\ DOMAIN x = 1..n
      /\ Len(new) = n /\ \A j \in 1..n : new[j] = Token(f.num, f.type, S!SerializeFlat(f.of, x[j]))
  <2>1. f.num \in Nat
    BY DEF Distinct
  <2>. HIDE DEF f
  <2>2. IF IsNested(f.type) THEN FlatSchema(f.of) ELSE f.type \in ScalarTypes
    BY DEF f
  <2>3. IsNested(f.type) /\ x \in FieldValues(f, Texts)
    BY DEF f
  <2>. QED BY ONLY <2>1, <2>2, <2>3, WrittenTokens
<1>. HIDE DEF new
<1>2. n \in Nat /\ f.type = "message" => n <= 1
  BY <1>1 DEF FieldValues
<1>n. n \in Nat
  BY <1>1
<1>3. /\ Begun(new, 0) = <<>> /\ Begun(new, n) = new
      /\ \A k \in 0..n : Begun(new, k) \in Seq(Tokens(Texts))
      /\ \A k \in 0..(n - 1) : Begun(new, k + 1) = Append(Begun(new, k), new[k + 1])
  BY ONLY <1>1, BegunSteps
<1>4. /\ Begun(x, 0) = <<>> /\ Begun(x, n) = x
      /\ \A k \in 0..(n - 1) : Begun(x, k + 1) = Append(Begun(x, k), x[k + 1])
  BY ONLY <1>1, BegunSteps
<1>5. f.name \in Names(fs)
  BY NameField
<1>6. 0 \in P
  <2>1. wire \o Begun(new, 0) = wire
    BY <1>3, ConcatEmptySeq
  <2>2. St(0) = o
    <3>1. o # Failed => [o EXCEPT ![f.name] = Begun(x, 0)] = o
      BY <1>0, <1>4, <1>5 DEF IsObject
    <3>. QED BY <3>1
  <2>. QED BY <2>1, <2>2
<1>7. ASSUME NEW k \in Nat, k + 1 <= n, S!Parse(fs, m, wire \o Begun(new, k)) = St(k)
      PROVE  S!Parse(fs, m, wire \o Begun(new, k + 1)) = St(k + 1)
  <2>. DEFINE w == wire \o Begun(new, k)
              s == St(k)
              y == x[k + 1]
              t == Token(f.num, f.type, S!SerializeFlat(f.of, y))
  <2>1. k \in 0..n /\ k \in 0..(n - 1) /\ k + 1 \in 1..n
    BY <1>n, <1>7
  <2>2. w \in Seq(Tokens(Texts)) /\ t \in Tokens(Texts) /\ new[k + 1] = t /\ y \in FlatValues(f.of, Texts)
    BY <1>1, <1>3, <2>1, ConcatProperties
  <2>3. wire \o Begun(new, k + 1) = Append(w, t)
    <3>1. Begun(new, k) \in Seq(Tokens(Texts)) /\ Begun(new, k + 1) = Append(Begun(new, k), t)
      BY <1>3, <2>1, <2>2
    <3>. HIDE DEF t
    <3>2. <<t>> \in Seq(Tokens(Texts))
      BY <2>2
    <3>3. PICK b \in Seq(Tokens(Texts)) : b = Begun(new, k)
      BY <3>1
    <3>4. Append(b, t) = b \o <<t>>
      BY <2>2, AppendIsConcat
    <3>5. wire \o (b \o <<t>>) = (wire \o b) \o <<t>>
      BY <3>2, ConcatAssociative
    <3>6. Append(wire \o b, t) = (wire \o b) \o <<t>>
      BY <2>2, <3>3, AppendIsConcat
    <3>. QED BY <3>1, <3>3, <3>4, <3>5, <3>6
  <2>4. S!Parse(fs, m, Append(w, t)) = S!Take(fs, S!Parse(fs, m, w), t)
    <3>. HIDE DEF w, t
    <3>. QED BY ONLY <2>2, ServerMore
  <2>5. Good(k + 1) <=> Good(k) /\ LegibleFlat(f.of, y)
    <3>1. \A j \in 1..(k + 1) : j = k + 1 \/ j \in 1..k
      BY <2>1
    <3>2. k + 1 \in 1..(k + 1) /\ \A j \in 1..k : j \in 1..(k + 1)
      BY <2>1
    <3>. QED BY <3>1, <3>2
  <2>. HIDE DEF Good
  <2>6. CASE s = Failed
    <3>1. St(k + 1) = Failed
      <4>1. ~(o # Failed /\ Good(k))
        <5>1. o # Failed => IsObject(fs, [o EXCEPT ![f.name] = Begun(x, k)])
          BY <1>0 DEF IsObject
        <5>2. o # Failed => [o EXCEPT ![f.name] = Begun(x, k)] # Failed
          BY <5>1, ObjectStands
        <5>. QED BY <2>6, <5>2
      <4>. QED BY <2>5, <4>1
    <3>. HIDE DEF St, w, t
    <3>2. S!Take(fs, Failed, t) = Failed
      BY ServerFailed
    <3>3. S!Parse(fs, m, w) = Failed
      BY <1>7, <2>6 DEF w
    <3>. QED BY <2>3, <2>4, <3>1, <3>2, <3>3
  <2>7. CASE s # Failed
    <3>1. o # Failed /\ Good(k) /\ s = [o EXCEPT ![f.name] = Begun(x, k)]
      BY <2>7
    <3>2. IsObject(fs, s) /\ s[f.name] = Begun(x, k)
      BY <1>0, <1>5, <3>1 DEF IsObject
    <3>3. f.type = "message" => s[f.name] = <<>>
      <4>1. f.type = "message" => k = 0
        BY <1>n, <1>2, <2>1
      <4>. HIDE DEF s, f
      <4>. QED BY <1>4, <3>2, <4>1
    <3>4. S!Take(fs, s, t) = IF LegibleFlat(f.of, y) THEN [s EXCEPT ![f.name] = Append(@, y)] ELSE Failed
      <4>. HIDE DEF s, y
      <4>. QED BY ONLY <1>o, <2>2, <3>2, <3>3, Distinct(fs), i \in 1..Len(fs), IsNested(fs[i].type),
                       FlatSchema(fs[i].of), ServerNew(fs[i].of, fs[i].new), ServerNested
    <3>5. [s EXCEPT ![f.name] = Append(@, y)] = [o EXCEPT ![f.name] = Begun(x, k + 1)]
      <4>1. Begun(x, k + 1) = Append(Begun(x, k), y)
        BY <1>4, <2>1
      <4>. QED BY <1>0, <1>5, <3>1, <4>1 DEF IsObject
    <3>6. S!Take(fs, s, t) = St(k + 1)
      BY <2>5, <3>1, <3>4, <3>5
    <3>. HIDE DEF St, w, t
    <3>7. S!Parse(fs, m, w) = s
      BY <1>7 DEF w
    <3>. QED BY <2>3, <2>4, <3>6, <3>7
  <2>. QED BY <2>6, <2>7
<1>8. n \in P
  <2>1. ASSUME NEW k \in Nat, k \in P PROVE k + 1 \in P
    <3>1. k + 1 <= n => S!Parse(fs, m, wire \o Begun(new, k)) = St(k)
      BY <1>n, <2>1
    <3>. HIDE DEF St
    <3>. QED BY <1>7, <3>1
  <2>. HIDE DEF P
  <2>. QED BY <1>n, <1>6, <2>1, NatInductionOnSet
<1>9. S!Parse(fs, m, wire \o new) = St(n)
  BY <1>n, <1>3, <1>8
<1>10. St(n) = Got(o, f, x)
  BY <1>1, <1>4 DEF Got, Spelled
<1>. QED BY <1>9, <1>10 DEF new

LEMMA ServerReadsField ==
    ASSUME NEW Texts, NEW fs, NEW i, NEW x, NEW m, NEW wire, NEW o,
           Follows(Texts, fs, i, x, m, wire, o)
    PROVE  S!Parse(fs, m, wire \o S!Written(fs[i], x)) = Got(o, fs[i], x)
<1>1. CASE IsNested(fs[i].type)
  BY <1>1, ServerReadsNested
<1>2. CASE ~IsNested(fs[i].type)
  <2>1. /\ Distinct(fs) /\ i \in 1..Len(fs) /\ fs[i].type \in ScalarTypes
        /\ wire \in Seq(Tokens(Texts)) /\ S!Parse(fs, m, wire) = o
        /\ o = Failed \/ (IsObject(fs, o) /\ o[fs[i].name] = Default(fs[i].type))
    BY <1>2 DEF Follows
  <2>2. x \in Scalars(fs[i].type, Texts) /\ S!Written(fs[i], x) = S!Plain(fs[i], x)
    <3>. DEFINE f == fs[i]
    <3>1. f.num \in Nat /\ x \in FieldValues(f, Texts) /\ ~IsNested(f.type) /\ f.type \in ScalarTypes
      BY <1>2, <2>1 DEF Follows, Distinct
    <3>. HIDE DEF f
    <3>2. x \in Scalars(f.type, Texts) /\ S!Written(f, x) = S!Plain(f, x)
      BY <3>1, WrittenTokens
    <3>. QED BY <3>2 DEF f
  <2>3. S!Parse(fs, m, wire \o S!Plain(fs[i], x)) = Got(o, fs[i], x)
    BY ONLY <2>1, <2>2, ServerReadsScalar
  <2>. QED BY <2>2, <2>3
<1>. QED BY <1>1, <1>2

\* The schema of a message, and the objects its nested messages start from.
ServerFields(fs) ==
    Schema(fs) /\ \A i \in 1..Len(fs) : IsNested(fs[i].type) => ServerNew(fs[i].of, fs[i].new)

\* What is written of a message, field after field.
Laid(fs, Texts, v) ==
    \E F : /\ F \in [0..Len(fs) -> Seq(Tokens(Texts))] /\ F[0] = <<>>
           /\ \A k \in 0..(Len(fs) - 1) :
                 F[k + 1] = F[k] \o S!Written(fs[k + 1], v[fs[k + 1].name])
           /\ S!Serialize(fs, v) = F[Len(fs)]

LEMMA MessageWire ==
    ASSUME NEW Texts, NEW fs, Schema(fs), NEW v, IsValue(fs, Texts, v)
    PROVE  Laid(fs, Texts, v)
<1>. DEFINE parts == [i \in DOMAIN fs |-> S!Written(fs[i], v[fs[i].name])]
<1>1. Len(fs) \in Nat /\ DOMAIN fs = 1..Len(fs)
  BY DEF Schema, Distinct
<1>2. \A i \in 1..Len(fs) : parts[i] \in Seq(Tokens(Texts))
  <2>. SUFFICES ASSUME NEW i \in 1..Len(fs)
                PROVE  S!Written(fs[i], v[fs[i].name]) \in Seq(Tokens(Texts))
    BY <1>1
  <2>. DEFINE f == fs[i]
              x == v[fs[i].name]
  <2>1. /\ f.num \in Nat /\ x \in FieldValues(f, Texts)
        /\ IF IsNested(f.type) THEN FlatSchema(f.of) ELSE f.type \in ScalarTypes
    BY DEF Schema, Distinct, IsValue
  <2>. HIDE DEF f, x
  <2>2. S!Written(f, x) \in Seq(Tokens(Texts))
    BY <2>1, WrittenTokens
  <2>. QED BY <2>2 DEF f, x
<1>3. parts \in Seq(Seq(Tokens(Texts))) /\ Len(parts) = Len(fs)
  BY <1>1, <1>2
<1>4. S!Serialize(fs, v) = FlattenSeq(parts)
  BY ServerCode
<1>5. \A k \in 0..(Len(fs) - 1) : parts[k + 1] = S!Written(fs[k + 1], v[fs[k + 1].name])
  BY <1>1
<1>. HIDE DEF parts
<1>6. PICK F : /\ F \in [0..Len(parts) -> Seq(Tokens(Texts))] /\ F[0] = <<>>
               /\ \A k \in 0..(Len(parts) - 1) : F[k + 1] = F[k] \o parts[k + 1]
               /\ FlattenSeq(parts) = F[Len(parts)]
  BY <1>3, FlattenSteps
<1>. QED BY <1>3, <1>4, <1>5, <1>6 DEF Laid

\* A message is read as it was meant, or refused.
LEMMA ReadBack ==
    ASSUME NEW Texts, NEW fs, ServerFields(fs), NEW new, ServerNew(fs, new),
           NEW v, IsValue(fs, Texts, v)
    PROVE  S!Parse(fs, new, S!Serialize(fs, v)) = IF Legible(fs, v) THEN v ELSE Failed
<1>. DEFINE n == Len(fs)
            Good(k) == \A i \in 1..k : Spelled(fs[i], v[fs[i].name])
            St(k) == IF Good(k) THEN Upto(fs, new, v, k) ELSE Failed
<1>0. n \in Nat /\ Distinct(fs) /\ DOMAIN fs = 1..n /\ Schema(fs)
  BY DEF ServerFields, Schema, Distinct
<1>1. IsObject(fs, v)
  BY DEF IsValue, IsObject
<1>2. PICK F : /\ F \in [0..n -> Seq(Tokens(Texts))] /\ F[0] = <<>>
               /\ \A k \in 0..(n - 1) : F[k + 1] = F[k] \o S!Written(fs[k + 1], v[fs[k + 1].name])
               /\ S!Serialize(fs, v) = F[n]
  <2>0. Schema(fs)
    BY <1>0
  <2>1. Laid(fs, Texts, v)
    BY <2>0, MessageWire
  <2>. QED BY ONLY <2>1 DEF Laid
<1>. DEFINE P == {k \in Nat : k <= n => S!Parse(fs, new, F[k]) = St(k)}
<1>3. 0 \in P
  <2>1. S!Parse(fs, new, <<>>) = new
    BY ServerNothing
  <2>2. Upto(fs, new, v, 0) = new
    BY <1>0, <1>1, UptoSteps
  <2>. QED BY <1>2, <2>1, <2>2
<1>4. ASSUME NEW k \in Nat, k + 1 <= n, S!Parse(fs, new, F[k]) = St(k)
      PROVE  S!Parse(fs, new, F[k + 1]) = St(k + 1)
  <2>. DEFINE o == St(k)
  <2>1. k + 1 \in 1..n /\ k \in 0..(n - 1) /\ k \in 0..n
    BY <1>0, <1>4
  <2>2. PICK i \in 1..Len(fs) : i = k + 1
    BY <2>1
  <2>. DEFINE f == fs[i]
              x == v[fs[i].name]
  <2>3. /\ Upto(fs, new, v, k + 1) = [Upto(fs, new, v, k) EXCEPT ![f.name] = x]
        /\ Upto(fs, new, v, k)[f.name] = Default(f.type)
    <3>1. NextRead(fs, new, v, k)
      BY <1>0, <1>1, <2>1, UptoSteps
    <3>. QED BY <2>2, <3>1 DEF NextRead
  <2>4. IsObject(fs, Upto(fs, new, v, k))
    BY DEF Upto, IsObject
  <2>5. Upto(fs, new, v, k) # Failed
    BY ONLY <1>0, <2>4, ObjectStands
  <2>6. o = Failed \/ (IsObject(fs, o) /\ o[f.name] = Default(f.type))
    BY <2>3, <2>4
  <2>7. S!Parse(fs, new, F[k] \o S!Written(f, x)) = Got(o, f, x)
    <3>1. Follows(Texts, fs, i, x, new, F[k], o)
      <4>1. S!Parse(fs, new, F[k]) = o /\ F[k] \in Seq(Tokens(Texts))
        BY <1>2, <1>4, <2>1
      <4>2. x \in FieldValues(f, Texts)
        BY DEF IsValue
      <4>3. IF IsNested(f.type) THEN FlatSchema(f.of) /\ ServerNew(f.of, f.new) ELSE f.type \in ScalarTypes
        BY DEF ServerFields, Schema
      <4>. HIDE DEF o
      <4>. QED BY <1>0, <2>6, <4>1, <4>2, <4>3 DEF Follows
    <3>. HIDE DEF o, x
    <3>. QED BY <3>1, ServerReadsField
  <2>8. Got(o, f, x) = St(k + 1)
    <3>1. Good(k + 1) <=> Good(k) /\ Spelled(f, x)
      <4>1. \A j \in 1..(k + 1) : j = k + 1 \/ j \in 1..k
        BY <2>1
      <4>2. k + 1 \in 1..(k + 1) /\ \A j \in 1..k : j \in 1..(k + 1)
        BY <2>1
      <4>. QED BY <2>2, <4>1, <4>2
    <3>. HIDE DEF Good
    <3>. QED BY <2>3, <2>5, <3>1 DEF Got
  <2>. QED BY <1>2, <2>1, <2>2, <2>7, <2>8
<1>5. n \in P
  <2>1. ASSUME NEW k \in Nat, k \in P PROVE k + 1 \in P
    <3>1. k + 1 <= n => S!Parse(fs, new, F[k]) = St(k)
      BY <1>0, <2>1
    <3>. HIDE DEF St
    <3>. QED BY <1>4, <3>1
  <2>. HIDE DEF P
  <2>. QED BY <1>0, <1>3, <2>1, NatInductionOnSet
<1>6. Legible(fs, v) <=> Good(n)
  BY <1>0, TypeFacts DEF Legible, LegibleFlat, Spelled
<1>7. Upto(fs, new, v, n) = v
  BY <1>0, <1>1, UptoSteps
<1>. QED BY <1>0, <1>2, <1>5, <1>6, <1>7
----------------------------------------------------------------------------
(***************************************************************************)
(* The two sides read every wire alike: the getters of the client's object *)
(* show the server's object after every token (View, Agreed).              *)
(***************************************************************************)

\* The same fields, in the same order.
FlatAlike(sf, cf) ==
    /\ Len(cf) = Len(sf) /\ DOMAIN cf = DOMAIN sf
    /\ \A i \in DOMAIN sf : cf[i].name = sf[i].name /\ cf[i].num = sf[i].num /\ cf[i].type = sf[i].type

Alike(sf, cf) ==
    FlatAlike(sf, cf) /\ \A i \in DOMAIN sf : IsNested(sf[i].type) => FlatAlike(sf[i].of, cf[i].of)

LEMMA AlikeFacts ==
    ASSUME NEW sf, NEW cf, Distinct(sf), FlatAlike(sf, cf)
    PROVE  /\ Distinct(cf) /\ Names(cf) = Names(sf)
           /\ \A t : FieldsFor(cf, t) = FieldsFor(sf, t)
           /\ \A t : FieldsFor(sf, t) # {} =>
                 \E i \in 1..Len(sf) : FieldFor(cf, t) = cf[i] /\ FieldFor(sf, t) = sf[i]
                                       /\ i \in FieldsFor(sf, t)
<1>1. Distinct(cf)
  BY DEF Distinct, FlatAlike
<1>2. Names(cf) = Names(sf)
  BY DEF Names, FlatAlike
<1>3. \A t : FieldsFor(cf, t) = FieldsFor(sf, t)
  BY DEF FieldsFor, FlatAlike
<1>4. ASSUME NEW t, FieldsFor(sf, t) # {}
      PROVE  \E i \in 1..Len(sf) : FieldFor(cf, t) = cf[i] /\ FieldFor(sf, t) = sf[i]
                                   /\ i \in FieldsFor(sf, t)
  <2>. DEFINE i == CHOOSE j \in FieldsFor(sf, t) : TRUE
  <2>1. i \in FieldsFor(sf, t)
    BY <1>4
  <2>2. FieldFor(cf, t) = cf[i] /\ FieldFor(sf, t) = sf[i]
    <3>1. FieldFor(cf, t) = cf[CHOOSE j \in FieldsFor(cf, t) : TRUE]
      BY DEF FieldFor
    <3>2. FieldFor(sf, t) = sf[CHOOSE j \in FieldsFor(sf, t) : TRUE]
      BY DEF FieldFor
    <3>3. FieldsFor(cf, t) = FieldsFor(sf, t)
      BY <1>3
    <3>4. (CHOOSE j \in FieldsFor(cf, t) : TRUE) = i
      BY ONLY <3>3
    <3>. HIDE DEF i
    <3>. QED BY <3>1, <3>2, <3>4 DEF i
  <2>. HIDE DEF i
  <2>3. i \in 1..Len(sf)
    BY <2>1 DEF FieldsFor, Distinct
  <2>. QED BY <2>1, <2>2, <2>3
<1>. QED BY <1>1, <1>2, <1>3, <1>4

\* What the getters of a flat message show of the client's object.
FlatView(o) == IF o = Failed THEN Failed ELSE o.val

FlatObject(cf, o) == o = [bits |-> o.bits, val |-> o.val] /\ IsObject(cf, o.val)

LEMMA BitsStand == \A bits, val : [bits |-> bits, val |-> val] # Failed
<1>. SUFFICES ASSUME NEW bits, NEW val PROVE [bits |-> bits, val |-> val] # Failed
  OBVIOUS
<1>1. "bits" \in DOMAIN [bits |-> bits, val |-> val]
  OBVIOUS
<1>2. "bits" \notin DOMAIN Failed
  BY DEF Failed
<1>. QED BY <1>1, <1>2

\* A field is put into an object.
Puts(cf, o, name, bit, x, p) == FlatObject(cf, o) /\ p = C!Put(o, name, bit, x)

With(v, name, x) == [v EXCEPT ![name] = x]

LEMMA PutField ==
    ASSUME NEW cf, NEW o, NEW name, NEW bit, NEW x, NEW p, Puts(cf, o, name, bit, x, p)
    PROVE  /\ FlatObject(cf, p) /\ p # Failed
           /\ p.bits = o.bits \cup {bit} /\ p.val = With(o.val, name, x)
<1>1. p = [bits |-> o.bits \cup {bit}, val |-> [o.val EXCEPT ![name] = x]]
  BY DEF Puts, C!Put
<1>2. IsObject(cf, [o.val EXCEPT ![name] = x])
  BY DEF Puts, FlatObject, IsObject
<1>3. FlatObject(cf, p)
  BY <1>1, <1>2 DEF FlatObject
<1>4. p # Failed
  BY <1>1, BitsStand
<1>. QED BY <1>1, <1>3, <1>4 DEF With

LEMMA FlatStep ==
    ASSUME NEW sf, NEW cf, Distinct(sf), FlatAlike(sf, cf), NEW t, NEW o, o = Failed \/ FlatObject(cf, o)
    PROVE  LET p == C!TakeFlat(cf, o, t)
           IN (p = Failed \/ FlatObject(cf, p)) /\ FlatView(p) = S!TakeFlat(sf, FlatView(o), t)
<1>. DEFINE p == C!TakeFlat(cf, o, t)
<1>1. CASE o = Failed
  <2>1. p = Failed
    BY <1>1, ClientReading DEF Skips
  <2>2. S!TakeFlat(sf, Failed, t) = Failed
    BY ServerFailed
  <2>. QED BY <1>1, <2>1, <2>2 DEF FlatView
<1>2. CASE o # Failed
  <2>1. FlatObject(cf, o) /\ FlatView(o) = o.val
    BY <1>2 DEF FlatView
  <2>2. IsObject(sf, o.val)
    BY <2>1, AlikeFacts DEF FlatObject, IsObject
  <2>3. o.val # Failed
    BY <2>2, ObjectStands
  <2>4. CASE FieldsFor(sf, t) = {}
    <3>1. p = o
      BY <2>4, AlikeFacts, ClientReading DEF Skips
    <3>2. S!TakeFlat(sf, o.val, t) = o.val
      BY <2>4, ServerCode DEF Skips
    <3>. QED BY <2>1, <3>1, <3>2
  <2>5. CASE FieldsFor(sf, t) # {}
    <3>1. PICK i \in 1..Len(sf) : FieldFor(cf, t) = cf[i] /\ FieldFor(sf, t) = sf[i]
      BY <2>5, AlikeFacts
    <3>2. cf[i].name = sf[i].name /\ cf[i].type = sf[i].type
      BY DEF FlatAlike, Distinct
    <3>3. ~Skips(cf, o, t) /\ ~Skips(sf, o.val, t)
      BY <1>2, <2>3, <2>5, AlikeFacts DEF Skips
    <3>. DEFINE x == Valued(sf[i].type, t.val)
    <3>4. p = IF Readable(sf[i].type, t.val) THEN C!Put(o, sf[i].name, cf[i].bit, x) ELSE Failed
      BY <3>1, <3>2, <3>3, ClientReading
    <3>5. S!TakeFlat(sf, o.val, t) =
              IF Readable(sf[i].type, t.val) THEN [o.val EXCEPT ![sf[i].name] = x] ELSE Failed
      BY <3>1, <3>3, ServerCode
    <3>. HIDE DEF x, p
    <3>6. (p = Failed \/ FlatObject(cf, p)) /\ FlatView(p) = S!TakeFlat(sf, o.val, t)
      <4>1. CASE Readable(sf[i].type, t.val)
        <5>1. Puts(cf, o, sf[i].name, cf[i].bit, x, p)
          BY <2>1, <3>4, <4>1 DEF Puts
        <5>2. FlatObject(cf, p) /\ p # Failed /\ p.val = With(o.val, sf[i].name, x)
          BY ONLY <5>1, PutField
        <5>. QED BY <3>5, <4>1, <5>2 DEF FlatView, With
      <4>2. CASE ~Readable(sf[i].type, t.val)
        BY <3>4, <3>5, <4>2 DEF FlatView
      <4>. QED BY <4>1, <4>2
    <3>. QED BY <2>1, <3>6 DEF p
  <2>. QED BY <2>4, <2>5
<1>. QED BY <1>1, <1>2

\* A flat message is read alike from any object on.
FlatReaders(sf, cf, wire, o) ==
    /\ Distinct(sf) /\ FlatAlike(sf, cf) /\ Len(wire) \in Nat
    /\ o = Failed \/ FlatObject(cf, o)

LEMMA FlatReadersAgree ==
    ASSUME NEW sf, NEW cf, NEW wire, NEW o, FlatReaders(sf, cf, wire, o)
    PROVE  LET p == C!ParseFlat(cf, o, wire)
           IN (p = Failed \/ FlatObject(cf, p)) /\ FlatView(p) = S!ParseFlat(sf, FlatView(o), wire)
<1>. DEFINE n == Len(wire)
            m == FlatView(o)
<1>0. Distinct(sf) /\ FlatAlike(sf, cf) /\ n \in Nat /\ (o = Failed \/ FlatObject(cf, o))
  BY DEF FlatReaders
<1>1. PICK a : /\ a[0] = o /\ C!ParseFlat(cf, o, wire) = a[n]
               /\ \A k \in 0..(n - 1) : a[k + 1] = C!TakeFlat(cf, a[k], wire[k + 1])
  <2>1. Len(wire) \in Nat
    BY <1>0
  <2>2. ClientFlatRun(cf, o, wire)
    BY <2>1, ClientFlatSteps
  <2>. QED BY <2>2 DEF ClientFlatRun
<1>2. PICK b : /\ b[0] = m /\ S!ParseFlat(sf, m, wire) = b[n]
               /\ \A k \in 0..(n - 1) : b[k + 1] = S!TakeFlat(sf, b[k], wire[k + 1])
  <2>1. Len(wire) \in Nat
    BY <1>0
  <2>2. ServerFlatRun(sf, m, wire)
    BY <2>1, ServerFlatSteps
  <2>. QED BY <2>2 DEF ServerFlatRun
<1>. DEFINE Same(k) == (a[k] = Failed \/ FlatObject(cf, a[k])) /\ FlatView(a[k]) = b[k]
            P == {k \in Nat : k <= n => Same(k)}
<1>3. 0 \in P
  BY <1>0, <1>1, <1>2
<1>4. ASSUME NEW k \in Nat, k \in P PROVE k + 1 \in P
  <2>. SUFFICES ASSUME k + 1 <= n PROVE Same(k + 1)
    OBVIOUS
  <2>1. k \in 0..(n - 1) /\ Same(k)
    BY <1>0, <1>4
  <2>2. a[k + 1] = C!TakeFlat(cf, a[k], wire[k + 1]) /\ b[k + 1] = S!TakeFlat(sf, b[k], wire[k + 1])
    BY <1>1, <1>2, <2>1
  <2>3. PICK x, y, t : x = a[k] /\ y = b[k] /\ t = wire[k + 1]
    OBVIOUS
  <2>4. x = Failed \/ FlatObject(cf, x)
    BY <2>1, <2>3
  <2>5. LET p == C!TakeFlat(cf, x, t)
        IN (p = Failed \/ FlatObject(cf, p)) /\ FlatView(p) = S!TakeFlat(sf, FlatView(x), t)
    BY ONLY <1>0, <2>4, FlatStep
  <2>. QED BY <2>1, <2>2, <2>3, <2>5
<1>5. n \in P
  <2>. HIDE DEF P
  <2>. QED BY <1>0, <1>3, <1>4, NatInductionOnSet
<1>. QED BY <1>0, <1>1, <1>2, <1>5
----------------------------------------------------------------------------
\* A sequence, whatever its members are, and what the getters show of it.
IsSeq(s) == Len(s) \in Nat /\ s = [j \in 1..Len(s) |-> s[j]]
Shown(s) == [j \in 1..Len(s) |-> s[j].val]

LEMMA ShownMore ==
    \A s, e : IsSeq(s) => Shown(Append(s, e)) = Append(Shown(s), e.val)
<1>. SUFFICES ASSUME NEW s, NEW e, IsSeq(s) PROVE Shown(Append(s, e)) = Append(Shown(s), e.val)
  OBVIOUS
<1>. DEFINE T == {s[j] : j \in 1..Len(s)} \cup {e}
            U == {s[j].val : j \in 1..Len(s)} \cup {e.val}
            n == Len(s)
            a == Append(s, e)
<1>1. n \in Nat /\ s \in Seq(T) /\ e \in T
  BY DEF IsSeq
<1>2. Shown(s) \in Seq(U) /\ Len(Shown(s)) = n /\ e.val \in U
  <2>1. \A j \in 1..n : s[j].val \in U
    OBVIOUS
  <2>. HIDE DEF U
  <2>. QED BY <1>1, <2>1 DEF Shown, U
<1>. HIDE DEF T, U
<1>3. a \in Seq(T) /\ Len(a) = n + 1 /\ a[n + 1] = e /\ \A j \in 1..n : a[j] = s[j]
  BY <1>1, AppendProperties
<1>. DEFINE b == Append(Shown(s), e.val)
<1>11. b \in Seq(U) /\ Len(b) = n + 1 /\ b[n + 1] = e.val /\ \A j \in 1..n : b[j] = Shown(s)[j]
  BY <1>2, AppendProperties
<1>12. \A j \in 1..n : Shown(s)[j] = s[j].val
  BY <1>1 DEF Shown
<1>13. \A j \in 1..(n + 1) : j = n + 1 \/ j \in 1..n
  BY <1>1
<1>. HIDE DEF b, a, n
<1>14. \A j \in 1..(n + 1) : b[j] = a[j].val
  BY <1>3, <1>11, <1>12, <1>13
<1>15. b = [j \in 1..(n + 1) |-> b[j]]
  BY <1>11
<1>16. Shown(a) = [j \in 1..(n + 1) |-> a[j].val]
  BY <1>3 DEF Shown
<1>17. b = [j \in 1..(n + 1) |-> a[j].val]
  BY <1>14, <1>15
<1>. QED BY <1>16, <1>17 DEF a, b

LEMMA ShownFacts ==
    ASSUME NEW s, IsSeq(s), NEW e
    PROVE  /\ IsSeq(Append(s, e)) /\ Len(Append(s, e)) = Len(s) + 1
           /\ Append(s, e)[Len(s) + 1] = e /\ \A j \in 1..Len(s) : Append(s, e)[j] = s[j]
           /\ Shown(Append(s, e)) = Append(Shown(s), e.val)
           /\ Shown(s) = <<>> <=> s = <<>>
           /\ s # <<>> => 1 \in 1..Len(s) /\ Shown(s)[1] = s[1].val
<1>. DEFINE T == {s[j] : j \in 1..Len(s)} \cup {e}
            U == {s[j].val : j \in 1..Len(s)} \cup {e.val}
            n == Len(s)
            a == Append(s, e)
<1>1. n \in Nat /\ s \in Seq(T) /\ e \in T
  BY DEF IsSeq
<1>2. Shown(s) \in Seq(U) /\ Len(Shown(s)) = n /\ e.val \in U
  <2>1. \A j \in 1..n : s[j].val \in U
    OBVIOUS
  <2>. HIDE DEF U
  <2>. QED BY <1>1, <2>1 DEF Shown, U
<1>. HIDE DEF T, U
<1>3. a \in Seq(T) /\ Len(a) = n + 1 /\ a[n + 1] = e /\ \A j \in 1..n : a[j] = s[j]
  BY <1>1, AppendProperties
<1>4. IsSeq(a)
  <2>. HIDE DEF a, n
  <2>1. Len(a) \in Nat /\ a = [j \in 1..Len(a) |-> a[j]]
    BY <1>3
  <2>. QED BY <2>1 DEF IsSeq
<1>5. Shown(a) = Append(Shown(s), e.val)
  BY ShownMore DEF a
<1>6. Shown(s) = <<>> <=> s = <<>>
  BY <1>1, <1>2
<1>7. s # <<>> => 1 \in 1..n /\ Shown(s)[1] = s[1].val
  BY <1>1 DEF Shown
<1>. QED BY <1>3, <1>4, <1>5, <1>6, <1>7

Elements(cf, s) == IsSeq(s) /\ \A j \in 1..Len(s) : FlatObject(cf, s[j])

LEMMA NoElements == \A cf : Elements(cf, <<>>) /\ Shown(<<>>) = <<>>
<1>1. Len(<<>>) = 0 /\ <<>> = [j \in 1..0 |-> <<>>[j]] /\ <<>> = [j \in 1..0 |-> <<>>[j].val]
  OBVIOUS
<1>. QED BY <1>1 DEF Elements, IsSeq, Shown

LEMMA OneMoreElement ==
    ASSUME NEW cf, NEW s, Elements(cf, s), NEW e, FlatObject(cf, e)
    PROVE  Elements(cf, Append(s, e)) /\ Append(s, e) # <<>>
<1>1. IsSeq(s) /\ Len(s) \in Nat
  BY DEF Elements, IsSeq
<1>2. /\ IsSeq(Append(s, e)) /\ Len(Append(s, e)) = Len(s) + 1
      /\ Append(s, e)[Len(s) + 1] = e /\ \A j \in 1..Len(s) : Append(s, e)[j] = s[j]
  BY <1>1, ShownFacts
<1>. DEFINE a == Append(s, e)
<1>. HIDE DEF a
<1>3. \A j \in 1..Len(a) : FlatObject(cf, a[j])
  <2>1. \A j \in 1..Len(a) : j = Len(s) + 1 \/ j \in 1..Len(s)
    BY <1>1, <1>2 DEF a
  <2>. QED BY <1>2, <2>1 DEF a, Elements
<1>4. a # <<>>
  BY <1>1, <1>2 DEF a
<1>. QED BY <1>2, <1>3, <1>4 DEF a, Elements

\* An object of the client, and what the getters show of it.
Object(cf, o) ==
    /\ FlatObject(cf, o)
    /\ \A i \in 1..Len(cf) : IsNested(cf[i].type) =>
          /\ Elements(cf[i].of, o.val[cf[i].name])
          /\ o.val[cf[i].name] # <<>> => cf[i].bit \in o.bits

View(cf, o) ==
    IF o = Failed THEN Failed
    ELSE [n \in Names(cf) |-> IF IsNested(FieldNamed(cf, n).type) THEN Shown(o.val[n]) ELSE o.val[n]]

LEMMA ViewFacts ==
    ASSUME NEW cf, Distinct(cf), NEW o, o # Failed
    PROVE  /\ IsObject(cf, View(cf, o))
           /\ \A i \in 1..Len(cf) : View(cf, o)[cf[i].name] =
                 IF IsNested(cf[i].type) THEN Shown(o.val[cf[i].name]) ELSE o.val[cf[i].name]
<1>1. View(cf, o) = [n \in Names(cf) |-> IF IsNested(FieldNamed(cf, n).type) THEN Shown(o.val[n]) ELSE o.val[n]]
  BY DEF View
<1>2. IsObject(cf, View(cf, o))
  BY <1>1 DEF IsObject
<1>3. \A i \in 1..Len(cf) : cf[i].name \in Names(cf) /\ FieldNamed(cf, cf[i].name) = cf[i]
  BY NameField
<1>. QED BY <1>1, <1>2, <1>3

PutsInto(cf, i, o, x, p) ==
    /\ Distinct(cf) /\ i \in 1..Len(cf) /\ Object(cf, o)
    /\ IsNested(cf[i].type) => Elements(cf[i].of, x)
    /\ p = C!Put(o, cf[i].name, cf[i].bit, x)

LEMMA PutView ==
    ASSUME NEW cf, NEW i, NEW o, NEW x, NEW p, PutsInto(cf, i, o, x, p)
    PROVE  /\ Object(cf, p) /\ p # Failed
           /\ View(cf, p) = With(View(cf, o), cf[i].name, IF IsNested(cf[i].type) THEN Shown(x) ELSE x)
<1>. DEFINE name == cf[i].name
            y == IF IsNested(cf[i].type) THEN Shown(x) ELSE x
<1>1. /\ Distinct(cf) /\ i \in 1..Len(cf) /\ Object(cf, o) /\ FlatObject(cf, o)
      /\ IsNested(cf[i].type) => Elements(cf[i].of, x)
      /\ o # Failed /\ cf[i].name \in Names(cf)
  <2>1. \A n : n \in 1..Len(cf) /\ Distinct(cf) => cf[n].name \in Names(cf)
    BY NameField
  <2>2. FlatObject(cf, o)
    BY DEF PutsInto, Object
  <2>3. o # Failed
    BY <2>2, BitsStand DEF FlatObject
  <2>. QED BY <2>1, <2>2, <2>3 DEF PutsInto
<1>2. Puts(cf, o, cf[i].name, cf[i].bit, x, p)
  BY <1>1 DEF Puts, PutsInto
<1>3. /\ FlatObject(cf, p) /\ p # Failed
      /\ p.bits = o.bits \cup {cf[i].bit} /\ p.val = With(o.val, name, x)
  BY <1>2, PutField
<1>4. p.val[name] = x /\ \A n \in Names(cf) : n # name => p.val[n] = o.val[n]
  <2>1. IsObject(cf, o.val) /\ name \in Names(cf)
    BY <1>1 DEF FlatObject
  <2>2. \A v : IsObject(cf, v) => /\ With(v, name, x)[name] = x
                                 /\ \A n \in Names(cf) : n # name => With(v, name, x)[n] = v[n]
    <3>. HIDE DEF name
    <3>. QED BY <2>1 DEF With, IsObject
  <2>. HIDE DEF name
  <2>. QED BY <1>3, <2>1, <2>2
<1>5. \A j \in 1..Len(cf) : j # i => cf[j].name # cf[i].name
  BY <1>1 DEF Distinct
<1>6. Object(cf, p)
  <2>. SUFFICES ASSUME NEW j \in 1..Len(cf), IsNested(cf[j].type)
                PROVE  /\ Elements(cf[j].of, p.val[cf[j].name])
                       /\ p.val[cf[j].name] # <<>> => cf[j].bit \in p.bits
    BY <1>3 DEF Object
  <2>1. CASE j = i
    BY <1>1, <1>3, <1>4, <2>1
  <2>2. CASE j # i
    <3>1. p.val[cf[j].name] = o.val[cf[j].name]
      BY <1>1, <1>4, <1>5, <2>2, NameField
    <3>2. /\ Elements(cf[j].of, o.val[cf[j].name])
          /\ o.val[cf[j].name] # <<>> => cf[j].bit \in o.bits
      BY <1>1 DEF Object
    <3>. QED BY <1>3, <3>1, <3>2
  <2>. QED BY <2>1, <2>2
<1>7. View(cf, p) = With(View(cf, o), name, y)
  <2>1. IsObject(cf, View(cf, p)) /\ IsObject(cf, View(cf, o))
    BY <1>1, <1>3, ViewFacts
  <2>2. ASSUME NEW n \in Names(cf) PROVE View(cf, p)[n] = With(View(cf, o), name, y)[n]
    <3>1. PICK j \in 1..Len(cf) : n = cf[j].name
      BY <1>1, FieldOfName
    <3>2. /\ View(cf, p)[n] = IF IsNested(cf[j].type) THEN Shown(p.val[n]) ELSE p.val[n]
          /\ View(cf, o)[n] = IF IsNested(cf[j].type) THEN Shown(o.val[n]) ELSE o.val[n]
      BY <1>1, <1>3, <3>1, ViewFacts
    <3>3. CASE n = name
      <4>1. j = i
        BY <1>5, <3>1, <3>3
      <4>2. With(View(cf, o), name, y)[n] = y
        BY <2>1, <3>3 DEF With, IsObject
      <4>. QED BY <1>4, <3>2, <3>3, <4>1, <4>2
    <3>4. CASE n # name
      <4>1. With(View(cf, o), name, y)[n] = View(cf, o)[n]
        BY <2>1, <3>4 DEF With, IsObject
      <4>. QED BY <1>4, <3>2, <3>4, <4>1
    <3>. QED BY <3>3, <3>4
  <2>3. IsObject(cf, With(View(cf, o), name, y))
    BY <2>1 DEF With, IsObject
  <2>. HIDE DEF y, name
  <2>. QED BY <2>1, <2>2, <2>3 DEF IsObject
<1>. QED BY <1>3, <1>6, <1>7

\* A new object shows every default.
LEMMA NewFlat ==
    ASSUME NEW sf, NEW cf, Distinct(sf), FlatAlike(sf, cf), NEW new, ServerNew(sf, new)
    PROVE  FlatObject(cf, C!New(cf)) /\ C!New(cf).val = new /\ C!New(cf).bits = {}
<1>. DEFINE val == [n \in Names(cf) |-> Default(FieldNamed(cf, n).type)]
<1>1. C!New(cf) = [bits |-> {}, val |-> val]
  BY ClientReading
<1>2. Distinct(cf) /\ Names(cf) = Names(sf)
  BY AlikeFacts
<1>3. ASSUME NEW n \in Names(cf) PROVE val[n] = new[n]
  <2>1. PICK i \in 1..Len(cf) : n = cf[i].name
    BY <1>2, FieldOfName
  <2>2. FieldNamed(cf, n) = cf[i]
    BY <1>2, <2>1, NameField
  <2>3. i \in 1..Len(sf) /\ sf[i].name = n /\ sf[i].type = cf[i].type
    BY <1>2, <2>1 DEF FlatAlike, Distinct
  <2>. QED BY <2>2, <2>3 DEF ServerNew
<1>4. val = new
  BY <1>2, <1>3 DEF ServerNew
<1>5. IsObject(cf, val)
  BY DEF IsObject
<1>. HIDE DEF val
<1>. QED BY <1>1, <1>4, <1>5 DEF FlatObject

LEMMA NewObject ==
    ASSUME NEW sf, NEW cf, ServerFields(sf), Alike(sf, cf), NEW new, ServerNew(sf, new)
    PROVE  Object(cf, C!New(cf)) /\ View(cf, C!New(cf)) = new
<1>1. Distinct(sf) /\ FlatAlike(sf, cf)
  BY DEF ServerFields, Schema, Alike
<1>2. FlatObject(cf, C!New(cf)) /\ C!New(cf).val = new /\ C!New(cf).bits = {}
  BY <1>1, NewFlat
<1>3. Distinct(cf) /\ Names(cf) = Names(sf)
  BY <1>1, AlikeFacts
<1>. DEFINE o == C!New(cf)
<1>. HIDE DEF o
<1>4. ASSUME NEW i \in 1..Len(cf), IsNested(cf[i].type) PROVE o.val[cf[i].name] = <<>>
  <2>1. i \in 1..Len(sf) /\ sf[i].name = cf[i].name /\ sf[i].type = cf[i].type
    BY <1>1, <1>3 DEF FlatAlike, Distinct
  <2>2. new[sf[i].name] = Default(sf[i].type)
    BY <2>1 DEF ServerNew
  <2>3. Default(cf[i].type) = <<>>
    BY <1>4, TypeFacts DEF Default
  <2>. QED BY <1>2, <2>1, <2>2, <2>3 DEF o
<1>5. Object(cf, o)
  BY <1>2, <1>4, NoElements DEF Object, o
<1>6. o # Failed
  BY <1>2, BitsStand DEF FlatObject, o
<1>7. View(cf, o) = new
  <2>1. IsObject(cf, View(cf, o))
    BY <1>3, <1>6, ViewFacts
  <2>2. ASSUME NEW n \in Names(cf) PROVE View(cf, o)[n] = new[n]
    <3>1. PICK i \in 1..Len(cf) : n = cf[i].name
      BY <1>3, FieldOfName
    <3>2. View(cf, o)[n] = IF IsNested(cf[i].type) THEN Shown(o.val[n]) ELSE o.val[n]
      BY <1>3, <1>6, <3>1, ViewFacts
    <3>3. o.val[n] = new[n]
      BY <1>2 DEF o
    <3>. QED BY <1>4, <3>1, <3>2, <3>3, NoElements
  <2>3. IsObject(cf, new)
    BY <1>3 DEF ServerNew, IsObject
  <2>. QED BY <2>1, <2>2, <2>3 DEF IsObject
<1>. QED BY <1>5, <1>7 DEF o

\* What a token brings for a nested message is a sequence, whatever is in it.
HasLength(fs, t) == \A i \in FieldsFor(fs, t) : IsNested(fs[i].type) => Len(t.val) \in Nat

\* One token, read by both sides.
Reading(sf, cf, t, o) ==
    ServerFields(sf) /\ Alike(sf, cf) /\ (o = Failed \/ Object(cf, o)) /\ HasLength(sf, t)

Agreed(sf, cf, p, q) == (p = Failed \/ Object(cf, p)) /\ View(cf, p) = q

LEMMA NestStep ==
    ASSUME NEW sf, NEW cf, NEW t, NEW o, Reading(sf, cf, t, o), o # Failed,
           NEW i \in 1..Len(sf), i \in FieldsFor(sf, t), IsNested(sf[i].type)
    PROVE  Agreed(sf, cf, C!Nest(o, cf[i], t), S!Nest(View(cf, o), sf[i], t))
<1>. DEFINE f == sf[i]
            c == cf[i]
            old == o.val[f.name]
            seen == View(cf, o)
            first == IF f.type = "repeated" \/ old = <<>> THEN C!New(c.of) ELSE old[1]
            in == C!ParseFlat(c.of, first, t.val)
            next == IF f.type = "repeated" THEN Append(old, in) ELSE <<in>>
<1>1. /\ ServerFields(sf) /\ Schema(sf) /\ Distinct(sf) /\ FlatAlike(sf, cf) /\ Distinct(cf)
      /\ Object(cf, o) /\ FlatAlike(f.of, c.of) /\ FlatSchema(f.of) /\ Distinct(f.of)
      /\ ServerNew(f.of, f.new) /\ Len(t.val) \in Nat
      /\ c.name = f.name /\ c.type = f.type /\ i \in 1..Len(cf)
  <2>1. ServerFields(sf) /\ Schema(sf) /\ Distinct(sf) /\ FlatAlike(sf, cf) /\ Object(cf, o) /\ Len(t.val) \in Nat
    BY DEF Reading, HasLength, ServerFields, Schema, Alike
  <2>2. Distinct(cf)
    BY <2>1, AlikeFacts
  <2>3. i \in DOMAIN sf /\ DOMAIN sf = 1..Len(sf)
    BY <2>1 DEF Distinct
  <2>4. FlatAlike(f.of, c.of)
    BY <2>3 DEF Reading, Alike
  <2>5. FlatSchema(f.of) /\ ServerNew(f.of, f.new)
    BY <2>1 DEF ServerFields, Schema
  <2>6. c.name = f.name /\ c.type = f.type /\ i \in 1..Len(cf)
    BY <2>1, <2>3 DEF FlatAlike
  <2>. QED BY <2>1, <2>2, <2>4, <2>5, <2>6 DEF FlatSchema
<1>2. IsNested(c.type) /\ Elements(c.of, old)
  BY <1>1 DEF Object
<1>3. seen[f.name] = Shown(old)
  BY <1>1, <1>2, ViewFacts
<1>4. IsSeq(old) /\ (Shown(old) = <<>> <=> old = <<>>)
      /\ (old # <<>> => 1 \in 1..Len(old) /\ Shown(old)[1] = old[1].val)
  BY <1>2, ShownFacts DEF Elements
<1>. HIDE DEF seen, old
<1>5. FlatObject(c.of, first)
      /\ first.val = IF f.type = "repeated" \/ seen[f.name] = <<>> THEN f.new ELSE seen[f.name][1]
  <2>. HIDE DEF f, c
  <2>1. FlatObject(c.of, C!New(c.of)) /\ C!New(c.of).val = f.new
    BY <1>1, NewFlat
  <2>2. old # <<>> => FlatObject(c.of, old[1])
    BY <1>2, <1>4 DEF Elements
  <2>. QED BY <1>3, <1>4, <2>1, <2>2
<1>. HIDE DEF first
<1>6. FlatView(first) = first.val
  BY <1>5, BitsStand DEF FlatView, FlatObject
<1>7. (in = Failed \/ FlatObject(c.of, in)) /\ FlatView(in) = S!ParseFlat(f.of, first.val, t.val)
  <2>. DEFINE fo == f.of
              co == c.of
              w == t.val
  <2>. HIDE DEF fo, co, w
  <2>1. FlatReaders(fo, co, w, first)
    BY <1>1, <1>5 DEF FlatReaders, fo, co, w
  <2>2. LET p == C!ParseFlat(co, first, w)
        IN (p = Failed \/ FlatObject(co, p)) /\ FlatView(p) = S!ParseFlat(fo, FlatView(first), w)
    BY ONLY <2>1, FlatReadersAgree
  <2>. QED BY <1>6, <2>2 DEF fo, co, w
<1>8. C!Nest(o, c, t) = IF in = Failed THEN Failed ELSE C!Put(o, c.name, c.bit, next)
  <2>. HIDE DEF f, c
  <2>. QED BY <1>1, ClientReading DEF first, old
<1>. DEFINE sin == S!ParseFlat(f.of, first.val, t.val)
<1>9. S!Nest(seen, f, t) = IF sin = Failed THEN Failed
                           ELSE [seen EXCEPT ![f.name] = IF f.type = "repeated" THEN Append(@, sin) ELSE <<sin>>]
  <2>. HIDE DEF f
  <2>. QED BY <1>5, ServerNesting
<1>. HIDE DEF in, sin
<1>10. CASE in = Failed
  <2>1. sin = Failed
    BY <1>7, <1>10 DEF FlatView, sin
  <2>. QED BY <1>8, <1>9, <1>10, <2>1 DEF Agreed, View, seen
<1>11. CASE in # Failed
  <2>1. FlatObject(c.of, in) /\ sin = in.val /\ sin # Failed
    <3>1. FlatObject(c.of, in) /\ sin = in.val
      BY <1>7, <1>11 DEF FlatView, sin
    <3>2. IsObject(f.of, in.val)
      BY <1>1, <3>1, AlikeFacts DEF FlatObject, IsObject
    <3>. QED BY <1>1, <3>1, <3>2, ObjectStands
  <2>2. Elements(c.of, next) /\ next # <<>>
        /\ Shown(next) = IF f.type = "repeated" THEN Append(seen[f.name], sin) ELSE <<sin>>
    <3>. HIDE DEF f, c
    <3>1. CASE f.type = "repeated"
      <4>1. next = Append(old, in)
        BY <3>1
      <4>2. Elements(c.of, Append(old, in)) /\ Append(old, in) # <<>>
        BY <1>2, <2>1, OneMoreElement
      <4>3. Shown(Append(old, in)) = Append(Shown(old), in.val)
        <5>1. IsSeq(old)
          BY <1>4
        <5>. QED BY ONLY <5>1, ShownMore
      <4>. QED BY <1>3, <2>1, <3>1, <4>1, <4>2, <4>3
    <3>2. CASE f.type # "repeated"
      <4>1. next = Append(<<>>, in) /\ <<sin>> = Append(<<>>, sin)
        BY <3>2
      <4>2. Elements(c.of, <<>>) /\ IsSeq(<<>>) /\ Shown(<<>>) = <<>>
        BY NoElements DEF Elements
      <4>3. Elements(c.of, Append(<<>>, in)) /\ Append(<<>>, in) # <<>>
        BY <2>1, <4>2, OneMoreElement
      <4>4. Shown(Append(<<>>, in)) = Append(<<>>, in.val)
        BY <4>2, ShownFacts
      <4>. QED BY <2>1, <3>2, <4>1, <4>3, <4>4
    <3>. QED BY <3>1, <3>2
  <2>. DEFINE p == C!Put(o, c.name, c.bit, next)
  <2>3. PutsInto(cf, i, o, next, p)
    BY <1>1, <1>2, <2>2 DEF PutsInto
  <2>. HIDE DEF next, p
  <2>4. Object(cf, p) /\ p # Failed
        /\ View(cf, p) = With(View(cf, o), cf[i].name, IF IsNested(cf[i].type) THEN Shown(next) ELSE next)
    BY ONLY <2>3, PutView
  <2>5. View(cf, p) = With(seen, f.name, Shown(next))
    BY <1>1, <1>2, <2>4 DEF seen
  <2>6. S!Nest(seen, f, t) = With(seen, f.name, Shown(next))
    <3>. HIDE DEF f
    <3>. QED BY <1>9, <2>1, <2>2 DEF With
  <2>7. C!Nest(o, c, t) = p
    BY <1>8, <1>11 DEF p
  <2>. QED BY <2>4, <2>5, <2>6, <2>7 DEF Agreed, seen
<1>. QED BY <1>10, <1>11
----------------------------------------------------------------------------
LEMMA TakeStep ==
    ASSUME NEW sf, NEW cf, NEW t, NEW o, Reading(sf, cf, t, o)
    PROVE  Agreed(sf, cf, C!Take(cf, o, t), S!Take(sf, View(cf, o), t))
<1>. DEFINE v == View(cf, o)
<1>1. Distinct(sf) /\ FlatAlike(sf, cf) /\ Distinct(cf) /\ Names(cf) = Names(sf)
  <2>1. Distinct(sf) /\ FlatAlike(sf, cf)
    BY DEF Reading, ServerFields, Schema, Alike
  <2>. QED BY <2>1, AlikeFacts
<1>2. \A s : FieldsFor(cf, s) = FieldsFor(sf, s)
  BY <1>1, AlikeFacts
<1>3. CASE o = Failed
  <2>1. C!Take(cf, Failed, t) = Failed
    BY ClientReading DEF Skips
  <2>2. S!Take(sf, Failed, t) = Failed
    BY ServerFailed
  <2>3. View(cf, Failed) = Failed
    BY DEF View
  <2>. QED BY <1>3, <2>1, <2>2, <2>3 DEF Agreed
<1>4. CASE o # Failed
  <2>1. Object(cf, o)
    BY <1>4 DEF Reading
  <2>2. IsObject(sf, v)
    <3>1. IsObject(cf, v)
      BY <1>1, <1>4, ViewFacts
    <3>. QED BY <1>1, <3>1 DEF IsObject
  <2>3. v # Failed
    BY <1>1, <2>2, ObjectStands
  <2>. HIDE DEF v
  <2>4. CASE FieldsFor(sf, t) = {}
    <3>1. C!Take(cf, o, t) = o
      BY <1>2, <2>4, ClientReading DEF Skips
    <3>2. S!Take(sf, v, t) = v
      BY <2>4, ServerNesting DEF Skips
    <3>. QED BY <2>1, <3>1, <3>2 DEF Agreed, v
  <2>5. CASE FieldsFor(sf, t) # {}
    <3>1. PICK i \in 1..Len(sf) : FieldFor(cf, t) = cf[i] /\ FieldFor(sf, t) = sf[i]
                                  /\ i \in FieldsFor(sf, t)
      BY <1>1, <2>5, AlikeFacts
    <3>2. cf[i].name = sf[i].name /\ cf[i].type = sf[i].type /\ i \in 1..Len(cf)
      BY <1>1 DEF FlatAlike, Distinct
    <3>3. ~Skips(cf, o, t) /\ ~Skips(sf, v, t)
      BY <1>2, <1>4, <2>3, <2>5 DEF Skips
    <3>4. C!Take(cf, o, t) = IF IsNested(sf[i].type) THEN C!Nest(o, cf[i], t) ELSE C!Assign(o, cf[i], t)
      BY <3>1, <3>2, <3>3, ClientReading
    <3>5. S!Take(sf, v, t) = IF IsNested(sf[i].type) THEN S!Nest(v, sf[i], t) ELSE S!Assign(v, sf[i], t)
      BY <3>1, <3>3, ServerNesting
    <3>6. CASE IsNested(sf[i].type)
      <4>1. Agreed(sf, cf, C!Nest(o, cf[i], t), S!Nest(View(cf, o), sf[i], t))
        BY <1>4, <3>1, <3>6, NestStep
      <4>. QED BY <3>4, <3>5, <3>6, <4>1 DEF v
    <3>7. CASE ~IsNested(sf[i].type)
      <4>. DEFINE x == Valued(sf[i].type, t.val)
                  p == C!Put(o, cf[i].name, cf[i].bit, x)
      <4>1. C!Assign(o, cf[i], t) = IF Readable(sf[i].type, t.val) THEN p ELSE Failed
        BY <3>2, ClientReading
      <4>2. S!Assign(v, sf[i], t) = IF Readable(sf[i].type, t.val) THEN With(v, sf[i].name, x) ELSE Failed
        BY ServerCode DEF With
      <4>3. PutsInto(cf, i, o, x, p)
        <5>. HIDE DEF x
        <5>. QED BY <1>1, <2>1, <3>2, <3>7 DEF PutsInto
      <4>. HIDE DEF x, p
      <4>4. Object(cf, p) /\ p # Failed
            /\ View(cf, p) = With(View(cf, o), cf[i].name, IF IsNested(cf[i].type) THEN Shown(x) ELSE x)
        BY ONLY <4>3, PutView
      <4>5. View(cf, p) = With(v, sf[i].name, x)
        BY <3>2, <3>7, <4>4 DEF v
      <4>6. Agreed(sf, cf, C!Assign(o, cf[i], t), S!Assign(v, sf[i], t))
        <5>1. CASE Readable(sf[i].type, t.val)
          BY <4>1, <4>2, <4>4, <4>5, <5>1 DEF Agreed
        <5>2. CASE ~Readable(sf[i].type, t.val)
          <6>1. View(cf, Failed) = Failed
            BY DEF View
          <6>. QED BY <4>1, <4>2, <5>2, <6>1 DEF Agreed
        <5>. QED BY <5>1, <5>2
      <4>. QED BY <3>4, <3>5, <3>7, <4>6 DEF v
    <3>. QED BY <3>6, <3>7
  <2>. QED BY <2>4, <2>5
<1>. QED BY <1>3, <1>4

\* A message from the network, for a reader of the fields fs.
IsWire(fs, wire) == Len(wire) \in Nat /\ \A k \in 1..Len(wire) : HasLength(fs, wire[k])

Readers(sf, cf, wire, o) ==
    ServerFields(sf) /\ Alike(sf, cf) /\ Object(cf, o) /\ IsWire(sf, wire)

LEMMA ReadersAgree ==
    ASSUME NEW sf, NEW cf, NEW wire, NEW o, Readers(sf, cf, wire, o)
    PROVE  Agreed(sf, cf, C!Parse(cf, o, wire), S!Parse(sf, View(cf, o), wire))
<1>. DEFINE n == Len(wire)
            m == View(cf, o)
<1>0. /\ ServerFields(sf) /\ Alike(sf, cf) /\ n \in Nat /\ Object(cf, o)
      /\ Len(sf) \in Nat /\ DOMAIN sf = 1..Len(sf)
  BY DEF Readers, IsWire, ServerFields, Schema, Distinct
<1>1. PICK a : /\ a[0] = o /\ C!Parse(cf, o, wire) = a[n]
               /\ \A k \in 0..(n - 1) : a[k + 1] = C!Take(cf, a[k], wire[k + 1])
  <2>1. Len(wire) \in Nat
    BY <1>0
  <2>2. ClientRun(cf, o, wire)
    BY <2>1, ClientSteps
  <2>. QED BY <2>2 DEF ClientRun
<1>2. PICK b : /\ b[0] = m /\ S!Parse(sf, m, wire) = b[n]
               /\ \A k \in 0..(n - 1) : b[k + 1] = S!Take(sf, b[k], wire[k + 1])
  <2>1. Len(wire) \in Nat
    BY <1>0
  <2>2. ServerRun(sf, m, wire)
    BY <2>1, ServerSteps
  <2>. QED BY <2>2 DEF ServerRun
<1>. DEFINE Same(k) == Agreed(sf, cf, a[k], b[k])
            P == {k \in Nat : k <= n => Same(k)}
<1>3. 0 \in P
  BY <1>0, <1>1, <1>2 DEF Agreed
<1>4. ASSUME NEW k \in Nat, k \in P PROVE k + 1 \in P
  <2>. SUFFICES ASSUME k + 1 <= n PROVE Same(k + 1)
    OBVIOUS
  <2>1. k \in 0..(n - 1) /\ Same(k) /\ k + 1 \in 1..n
    BY <1>0, <1>4
  <2>2. a[k + 1] = C!Take(cf, a[k], wire[k + 1]) /\ b[k + 1] = S!Take(sf, b[k], wire[k + 1])
    BY <1>1, <1>2, <2>1
  <2>3. PICK x, y, t : x = a[k] /\ y = b[k] /\ t = wire[k + 1]
    OBVIOUS
  <2>4. Reading(sf, cf, t, x)
    <3>1. x = Failed \/ Object(cf, x)
      BY <2>1, <2>3 DEF Agreed
    <3>2. HasLength(sf, t)
      BY <2>1, <2>3 DEF Readers, IsWire
    <3>. QED BY <1>0, <3>1, <3>2 DEF Reading
  <2>5. Agreed(sf, cf, C!Take(cf, x, t), S!Take(sf, View(cf, x), t))
    BY ONLY <2>4, TakeStep
  <2>6. View(cf, x) = y
    BY <2>1, <2>3 DEF Agreed
  <2>. QED BY <2>2, <2>3, <2>5, <2>6
<1>5. n \in P
  <2>. HIDE DEF P
  <2>. QED BY <1>0, <1>3, <1>4, NatInductionOnSet
<1>. QED BY <1>0, <1>1, <1>2, <1>5
----------------------------------------------------------------------------
\* The has-bits of the accessors are those of the table.
FlatBits(cf, bits) == \A i \in 1..Len(cf) : bits[cf[i].name] = cf[i].bit

Bits(cf, bits) ==
    FlatBits(cf, bits) /\ \A i \in 1..Len(cf) : IsNested(cf[i].type) => FlatBits(cf[i].of, cf[i].bits)

LEMMA ClientShows ==
    ASSUME NEW cf, Distinct(cf), NEW bits, FlatBits(cf, bits), NEW o, Object(cf, o)
    PROVE  C!Values(cf, bits, o) = View(cf, o)
<1>. DEFINE u == C!Values(cf, bits, o)
            w == View(cf, o)
            Value(n) == IF ~IsNested(FieldNamed(cf, n).type) THEN o.val[n]
                        ELSE IF FieldNamed(cf, n).type = "message" /\ bits[n] \notin o.bits THEN <<>>
                        ELSE [j \in DOMAIN o.val[n] |-> o.val[n][j].val]
<1>0. DOMAIN o.val = Names(cf) /\ o # Failed
  <2>1. FlatObject(cf, o)
    BY DEF Object
  <2>2. o.val = [n \in Names(cf) |-> o.val[n]]
    BY <2>1 DEF FlatObject, IsObject
  <2>3. o # Failed
    BY <2>1, BitsStand DEF FlatObject
  <2>. QED BY <2>2, <2>3
<1>1. u = [n \in Names(cf) |-> Value(n)]
  BY <1>0, ClientReading
<1>2. ASSUME NEW n \in Names(cf) PROVE Value(n) = w[n]
  <2>1. PICK i \in 1..Len(cf) : n = cf[i].name
    BY FieldOfName
  <2>2. FieldNamed(cf, n) = cf[i]
    BY <2>1, NameField
  <2>3. w[n] = IF IsNested(cf[i].type) THEN Shown(o.val[n]) ELSE o.val[n]
    BY <1>0, <2>1, ViewFacts
  <2>4. CASE IsNested(cf[i].type)
    <3>1. Elements(cf[i].of, o.val[n]) /\ (o.val[n] # <<>> => bits[n] \in o.bits)
      BY <2>1, <2>4 DEF Object, FlatBits
    <3>2. DOMAIN o.val[n] = 1..Len(o.val[n])
      <4>1. o.val[n] = [j \in 1..Len(o.val[n]) |-> o.val[n][j]]
        BY <3>1 DEF Elements, IsSeq
      <4>. QED BY <4>1
    <3>3. [j \in DOMAIN o.val[n] |-> o.val[n][j].val] = Shown(o.val[n])
      BY <3>2 DEF Shown
    <3>. QED BY <2>2, <2>3, <2>4, <3>1, <3>3, NoElements
  <2>5. CASE ~IsNested(cf[i].type)
    BY <2>2, <2>3, <2>5
  <2>. QED BY <2>4, <2>5
<1>3. w = [n \in Names(cf) |-> w[n]]
  BY <1>0, ViewFacts DEF IsObject
<1>. HIDE DEF u, w, Value
<1>4. [n \in Names(cf) |-> Value(n)] = [n \in Names(cf) |-> w[n]]
  BY <1>2
<1>. QED BY <1>1, <1>3, <1>4 DEF u, w

\* The code generated for the two sides is for the same message.
SameFields(sf, new, cf, bits) ==
    ServerFields(sf) /\ ServerNew(sf, new) /\ Alike(sf, cf) /\ Bits(cf, bits)

SameMessage(sm, cm) == SameFields(sm.fields, sm.new, cm.fields, cm.bits)

Received(sm, cm, wire) == SameMessage(sm, cm) /\ IsWire(sm.fields, wire)

LEMMA ReadsAlike ==
    ASSUME NEW sm, NEW cm, NEW wire, Received(sm, cm, wire)
    PROVE  C!Read(cm, wire) = S!Read(sm, wire)
<1>. DEFINE sf == sm.fields
            cf == cm.fields
            o == C!New(cf)
            p == C!Parse(cf, o, wire)
            q == S!Parse(sf, View(cf, o), wire)
<1>1. /\ ServerFields(sf) /\ ServerNew(sf, sm.new) /\ Alike(sf, cf) /\ FlatBits(cf, cm.bits)
      /\ IsWire(sf, wire)
  BY DEF Received, SameMessage, SameFields, Bits
<1>2. C!Read(cm, wire) = IF p = Failed THEN Failed ELSE C!Values(cf, cm.bits, p)
  BY DEF C!Read, C!Failed, Failed
<1>3. S!Read(sm, wire) = S!Parse(sf, sm.new, wire)
  BY DEF S!Read
<1>. HIDE DEF sf, cf
<1>4. Object(cf, o) /\ View(cf, o) = sm.new
  BY <1>1, NewObject
<1>5. Readers(sf, cf, wire, o)
  BY <1>1, <1>4 DEF Readers
<1>. HIDE DEF o
<1>6. Agreed(sf, cf, p, q)
  BY ONLY <1>5, ReadersAgree DEF p, q
<1>7. Distinct(cf)
  <2>1. Distinct(sf) /\ FlatAlike(sf, cf)
    BY <1>1 DEF ServerFields, Schema, Alike
  <2>. QED BY <2>1, AlikeFacts
<1>8. q = S!Read(sm, wire)
  BY <1>3, <1>4
<1>. HIDE DEF p, q
<1>9. View(cf, p) = q /\ (p = Failed \/ Object(cf, p))
  BY <1>6 DEF Agreed
<1>10. CASE p = Failed
  BY <1>2, <1>8, <1>9, <1>10 DEF View
<1>11. CASE p # Failed
  <2>1. C!Values(cf, cm.bits, p) = View(cf, p)
    BY <1>1, <1>7, <1>9, <1>11, ClientShows
  <2>. QED BY <1>2, <1>8, <1>9, <1>11, <2>1
<1>. QED BY <1>10, <1>11
----------------------------------------------------------------------------
(***************************************************************************)
(* The two sides write every message alike.                                *)
(***************************************************************************)

\* A message nested in another, made by the client and by the server.
Alikes(sf, cf, bits, Texts, v) ==
    FlatSchema(sf) /\ FlatAlike(sf, cf) /\ FlatBits(cf, bits) /\ v \in FlatValues(sf, Texts)

LEMMA FlatWritersAgree ==
    ASSUME NEW sf, NEW cf, NEW bits, NEW Texts, NEW v, Alikes(sf, cf, bits, Texts, v)
    PROVE  C!SerializeFlat(cf, C!MakeFlat(cf, bits, v)) = S!SerializeFlat(sf, v)
<1>. DEFINE o == C!MakeFlat(cf, bits, v)
<1>1. /\ Distinct(sf) /\ Distinct(cf) /\ FlatAlike(sf, cf) /\ Names(cf) = Names(sf)
      /\ \A i \in 1..Len(cf) : bits[cf[i].name] = cf[i].bit
  <2>1. Distinct(sf) /\ FlatAlike(sf, cf) /\ FlatBits(cf, bits)
    BY DEF Alikes, FlatSchema
  <2>2. Distinct(cf) /\ Names(cf) = Names(sf)
    BY <2>1, AlikeFacts
  <2>. QED BY <2>1, <2>2 DEF FlatBits
<1>2. o.bits = {bits[n] : n \in Names(cf)} /\ o.val = [n \in Names(cf) |-> v[n]]
  BY ClientWriting
<1>. HIDE DEF o
<1>3. DOMAIN cf = DOMAIN sf /\ DOMAIN sf = 1..Len(sf) /\ Len(cf) = Len(sf)
  BY <1>1 DEF FlatAlike, Distinct
<1>4. ASSUME NEW i \in DOMAIN sf PROVE C!Plain(cf[i], o) = S!Plain(sf[i], v[sf[i].name])
  <2>1. cf[i].name = sf[i].name /\ cf[i].num = sf[i].num /\ cf[i].type = sf[i].type /\ i \in 1..Len(cf)
    BY <1>1, <1>3 DEF FlatAlike
  <2>2. cf[i].name \in Names(cf)
    BY <1>1, <2>1, NameField
  <2>3. o.val[cf[i].name] = v[sf[i].name] /\ cf[i].bit \in o.bits
    BY <1>1, <1>2, <2>1, <2>2
  <2>4. C!Plain(cf[i], o) = IF cf[i].bit \notin o.bits \/ o.val[cf[i].name] = Default(cf[i].type) THEN <<>>
                            ELSE <<Scalar(cf[i].num, cf[i].type, o.val[cf[i].name])>>
    BY ClientWriting
  <2>5. S!Plain(sf[i], v[sf[i].name]) =
            IF v[sf[i].name] = Default(sf[i].type) THEN <<>>
            ELSE <<Scalar(sf[i].num, sf[i].type, v[sf[i].name])>>
    BY ServerCode
  <2>. QED BY <2>1, <2>3, <2>4, <2>5
<1>5. [i \in DOMAIN cf |-> C!Plain(cf[i], o)] = [i \in DOMAIN sf |-> S!Plain(sf[i], v[sf[i].name])]
  BY <1>3, <1>4
<1>6. C!SerializeFlat(cf, o) = FlattenSeq([i \in DOMAIN cf |-> C!Plain(cf[i], o)])
  BY ClientWriting
<1>7. S!SerializeFlat(sf, v) = FlattenSeq([i \in DOMAIN sf |-> S!Plain(sf[i], v[sf[i].name])])
  BY ServerCode
<1>. QED BY <1>5, <1>6, <1>7 DEF o

\* A message the program sends.
Sent(sm, cm, Texts, v) == SameMessage(sm, cm) /\ IsValue(sm.fields, Texts, v)

LEMMA WritesField ==
    ASSUME NEW sm, NEW cm, NEW Texts, NEW v, Sent(sm, cm, Texts, v), NEW i \in DOMAIN sm.fields
    PROVE  C!Written(cm.fields[i], C!Make(cm.fields, cm.bits, v)) =
           S!Written(sm.fields[i], v[sm.fields[i].name])
<1>. DEFINE sf == sm.fields
            cf == cm.fields
            bits == cm.bits
            f == sf[i]
            c == cf[i]
            x == v[f.name]
            Value(n) == IF IsNested(FieldNamed(cf, n).type)
                        THEN [j \in DOMAIN v[n] |->
                                 C!MakeFlat(FieldNamed(cf, n).of, FieldNamed(cf, n).bits, v[n][j])]
                        ELSE v[n]
            IsSet(n) == IsNested(FieldNamed(cf, n).type) => v[n] # <<>>
            o == C!Make(cf, bits, v)
<1>1. /\ ServerFields(sf) /\ Schema(sf) /\ Distinct(sf) /\ Alike(sf, cf) /\ FlatAlike(sf, cf)
      /\ Distinct(cf) /\ Names(cf) = Names(sf) /\ Bits(cf, bits)
      /\ DOMAIN cf = DOMAIN sf /\ DOMAIN sf = 1..Len(sf) /\ Len(cf) = Len(sf)
      /\ i \in 1..Len(sf) /\ i \in 1..Len(cf)
      /\ c.name = f.name /\ c.num = f.num /\ c.type = f.type /\ bits[c.name] = c.bit
  <2>. HIDE DEF sf, cf, bits
  <2>1. /\ ServerFields(sf) /\ Schema(sf) /\ Distinct(sf) /\ Alike(sf, cf) /\ FlatAlike(sf, cf) /\ Bits(cf, bits)
    BY DEF Sent, SameMessage, SameFields, ServerFields, Schema, Alike, sf, cf, bits
  <2>2. Distinct(cf) /\ Names(cf) = Names(sf)
    BY <2>1, AlikeFacts
  <2>3. DOMAIN cf = DOMAIN sf /\ DOMAIN sf = 1..Len(sf) /\ Len(cf) = Len(sf) /\ i \in DOMAIN sf
    BY <2>1 DEF FlatAlike, Distinct, sf
  <2>4. c.name = f.name /\ c.num = f.num /\ c.type = f.type
    BY <2>1, <2>3 DEF FlatAlike
  <2>5. bits[c.name] = c.bit
    BY <2>1, <2>3 DEF Bits, FlatBits
  <2>. QED BY <2>1, <2>2, <2>3, <2>4, <2>5
<1>2. o.bits = {bits[n] : n \in {y \in Names(cf) : IsSet(y)}} /\ o.val = [n \in Names(cf) |-> Value(n)]
  <2>. HIDE DEF cf, bits
  <2>. QED BY ClientWriting
<1>3. c.name \in Names(cf) /\ FieldNamed(cf, c.name) = c
  <2>. HIDE DEF cf
  <2>. QED BY <1>1, NameField
<1>4. x \in FieldValues(f, Texts)
  BY <1>1 DEF Sent, IsValue
<1>5. o.val[c.name] = Value(c.name)
  <2>. HIDE DEF cf, bits, o, Value
  <2>. QED BY <1>2, <1>3
<1>6. IsSet(c.name) => c.bit \in o.bits
  <2>. HIDE DEF cf, bits, o, IsSet, Value
  <2>. QED BY <1>1, <1>2, <1>3
<1>7. CASE ~IsNested(f.type)
  <2>1. o.val[c.name] = x /\ c.bit \in o.bits
    <3>. HIDE DEF o, cf, sf, bits
    <3>. QED BY <1>1, <1>3, <1>5, <1>6, <1>7
  <2>. HIDE DEF o, cf, sf, bits, f, c
  <2>2. C!Written(c, o) = IF c.bit \notin o.bits \/ o.val[c.name] = Default(c.type) THEN <<>>
                          ELSE <<Scalar(c.num, c.type, o.val[c.name])>>
    BY <1>1, <1>7, ClientWriting
  <2>3. S!Written(f, x) = IF x = Default(f.type) THEN <<>> ELSE <<Scalar(f.num, f.type, x)>>
    BY <1>7, ServerCode
  <2>4. C!Written(c, o) = S!Written(f, x)
    BY <1>1, <2>1, <2>2, <2>3
  <2>. QED BY <2>4 DEF o, cf, sf, bits, f, c
<1>8. CASE IsNested(f.type)
  <2>1. o.val[c.name] = [j \in DOMAIN x |-> C!MakeFlat(c.of, c.bits, x[j])]
    <3>. HIDE DEF o, cf, sf, bits
    <3>. QED BY <1>1, <1>3, <1>5, <1>8
  <2>2. x # <<>> => c.bit \in o.bits
    <3>. HIDE DEF o, cf, sf, bits
    <3>. QED BY <1>1, <1>3, <1>6, <1>8
  <2>3. FlatSchema(f.of) /\ FlatAlike(f.of, c.of) /\ FlatBits(c.of, c.bits)
    <3>. HIDE DEF o, cf, sf, bits
    <3>. QED BY <1>1, <1>8 DEF Schema, Alike, Bits
  <2>4. x \in Seq(FlatValues(f.of, Texts))
    <3>. HIDE DEF f, x
    <3>. QED BY <1>4, <1>8, TypeFacts DEF FieldValues
  <2>. HIDE DEF o, cf, sf, bits, f, c, x
  <2>5. \A j \in DOMAIN x : C!SerializeFlat(c.of, C!MakeFlat(c.of, c.bits, x[j])) = S!SerializeFlat(f.of, x[j])
    <3>. TAKE j \in DOMAIN x
    <3>1. x[j] \in FlatValues(f.of, Texts)
      BY <2>4
    <3>2. Alikes(f.of, c.of, c.bits, Texts, x[j])
      BY <2>3, <3>1 DEF Alikes
    <3>. QED BY <3>2, FlatWritersAgree
  <2>6. S!Written(f, x) = [j \in DOMAIN x |-> Token(f.num, f.type, S!SerializeFlat(f.of, x[j]))]
    BY <1>8, ServerCode
  <2>7. C!Written(c, o) = IF c.bit \notin o.bits THEN <<>>
                          ELSE [j \in DOMAIN o.val[c.name] |->
                                   Token(c.num, c.type, C!SerializeFlat(c.of, o.val[c.name][j]))]
    BY <1>1, <1>8, ClientWriting
  <2>8. [j \in DOMAIN o.val[c.name] |-> Token(c.num, c.type, C!SerializeFlat(c.of, o.val[c.name][j]))]
        = S!Written(f, x)
    <3>1. DOMAIN o.val[c.name] = DOMAIN x
      BY <2>1
    <3>2. \A j \in DOMAIN x : o.val[c.name][j] = C!MakeFlat(c.of, c.bits, x[j])
      BY <2>1
    <3>3. \A j \in DOMAIN x : Token(c.num, c.type, C!SerializeFlat(c.of, o.val[c.name][j]))
                              = Token(f.num, f.type, S!SerializeFlat(f.of, x[j]))
      BY <1>1, <2>5, <3>2
    <3>. QED BY <2>6, <3>1, <3>3
  <2>9. x = <<>> => S!Written(f, x) = <<>>
    BY <2>6
  <2>10. C!Written(c, o) = S!Written(f, x)
    BY <2>2, <2>7, <2>8, <2>9
  <2>. QED BY <2>10 DEF o, cf, sf, bits, f, c, x
<1>. QED BY <1>7, <1>8

LEMMA WritesAlike ==
    ASSUME NEW sm, NEW cm, NEW Texts, NEW v, Sent(sm, cm, Texts, v)
    PROVE  C!Write(cm, v) = S!Serialize(sm.fields, v) /\ S!Write(sm, v) = S!Serialize(sm.fields, v)
<1>. DEFINE sf == sm.fields
            cf == cm.fields
            o == C!Make(cf, cm.bits, v)
<1>1. DOMAIN cf = DOMAIN sf
  BY DEF Sent, SameMessage, SameFields, Alike, FlatAlike
<1>2. \A i \in DOMAIN sf : C!Written(cf[i], o) = S!Written(sf[i], v[sf[i].name])
  BY WritesField
<1>3. C!Write(cm, v) = C!Serialize(cf, o)
  BY DEF C!Write
<1>4. S!Write(sm, v) = S!Serialize(sf, v)
  <2>1. S!Make(sm, v) = v
    <3>1. DOMAIN sm.new = Names(sf) /\ v = [n \in Names(sf) |-> v[n]]
      BY DEF Sent, SameMessage, SameFields, ServerNew, IsValue
    <3>. QED BY <3>1 DEF S!Make
  <2>. QED BY <2>1 DEF S!Write
<1>. HIDE DEF sf, cf, o
<1>5. C!Serialize(cf, o) = FlattenSeq([i \in DOMAIN cf |-> C!Written(cf[i], o)])
  BY ClientWriting
<1>6. S!Serialize(sf, v) = FlattenSeq([i \in DOMAIN sf |-> S!Written(sf[i], v[sf[i].name])])
  BY ServerCode
<1>7. [i \in DOMAIN cf |-> C!Written(cf[i], o)] = [i \in DOMAIN sf |-> S!Written(sf[i], v[sf[i].name])]
  BY <1>1, <1>2
<1>. QED BY <1>3, <1>4, <1>5, <1>6, <1>7 DEF sf
----------------------------------------------------------------------------
\* What is written is a message that can be read.
LEMMA WrittenHasLength ==
    ASSUME NEW Texts, NEW fs, Schema(fs), NEW v, IsValue(fs, Texts, v), NEW i \in 1..Len(fs)
    PROVE  LET w == S!Written(fs[i], v[fs[i].name])
           IN w \in Seq(Tokens(Texts)) /\ \A k \in 1..Len(w) : HasLength(fs, w[k])
<1>. DEFINE f == fs[i]
            x == v[f.name]
            w == S!Written(f, x)
<1>1. /\ Distinct(fs) /\ f.num \in Nat /\ x \in FieldValues(f, Texts)
      /\ IF IsNested(f.type) THEN FlatSchema(f.of) ELSE f.type \in ScalarTypes
  BY DEF Schema, Distinct, IsValue
<1>2. \A y : (IsNested(f.type) => Len(y) \in Nat) => HasLength(fs, Token(f.num, f.type, y))
  <2>. SUFFICES ASSUME NEW y, IsNested(f.type) => Len(y) \in Nat
                PROVE  HasLength(fs, Token(f.num, f.type, y))
    OBVIOUS
  <2>1. FieldsFor(fs, Token(f.num, f.type, y)) = {i}
    BY <1>1, TokenField
  <2>2. Token(f.num, f.type, y).val = y
    BY DEF Token
  <2>. QED BY <2>1, <2>2 DEF HasLength
<1>. HIDE DEF f, x
<1>3. w \in Seq(Tokens(Texts))
  BY <1>1, WrittenTokens
<1>4. ASSUME NEW k \in 1..Len(w) PROVE HasLength(fs, w[k])
  <2>1. CASE IsNested(f.type)
    <3>1. /\ x \in Seq(FlatValues(f.of, Texts)) /\ Len(w) = Len(x)
          /\ \A j \in 1..Len(x) : w[j] = Token(f.num, f.type, S!SerializeFlat(f.of, x[j]))
      BY <1>1, <2>1, WrittenTokens
    <3>. HIDE DEF w
    <3>2. w[k] = Token(f.num, f.type, S!SerializeFlat(f.of, x[k])) /\ x[k] \in FlatValues(f.of, Texts)
      BY <1>4, <3>1
    <3>3. S!SerializeFlat(f.of, x[k]) \in Seq(FlatTokens(Texts))
      BY <1>1, <2>1, <3>2, WrittenFlat
    <3>4. PICK y : y = S!SerializeFlat(f.of, x[k])
      OBVIOUS
    <3>5. Len(y) \in Nat
      BY <3>3, <3>4
    <3>. QED BY <1>2, <3>2, <3>4, <3>5
  <2>2. CASE ~IsNested(f.type)
    <3>1. w = S!Plain(f, x)
      BY <1>1, <2>2, WrittenTokens
    <3>2. w = IF x = Default(f.type) THEN <<>> ELSE <<Scalar(f.num, f.type, x)>>
      BY <3>1, ServerCode
    <3>. HIDE DEF w
    <3>3. w[k] = Scalar(f.num, f.type, x)
      BY <1>4, <3>2
    <3>. QED BY <1>2, <2>2, <3>3 DEF Scalar
  <2>. QED BY <2>1, <2>2
<1>. QED BY <1>3, <1>4 DEF f, x

LEMMA WrittenIsWire ==
    ASSUME NEW Texts, NEW fs, Schema(fs), NEW v, IsValue(fs, Texts, v)
    PROVE  IsWire(fs, S!Serialize(fs, v))
<1>. DEFINE T == {t \in Tokens(Texts) : HasLength(fs, t)}
            parts == [i \in DOMAIN fs |-> S!Written(fs[i], v[fs[i].name])]
<1>1. Len(fs) \in Nat /\ DOMAIN fs = 1..Len(fs)
  BY DEF Schema, Distinct
<1>2. \A i \in 1..Len(fs) : parts[i] \in Seq(T)
  <2>. SUFFICES ASSUME NEW i \in 1..Len(fs) PROVE S!Written(fs[i], v[fs[i].name]) \in Seq(T)
    BY <1>1
  <2>. DEFINE w == S!Written(fs[i], v[fs[i].name])
  <2>1. w \in Seq(Tokens(Texts)) /\ \A k \in 1..Len(w) : HasLength(fs, w[k])
    BY WrittenHasLength
  <2>. HIDE DEF w
  <2>2. \A k \in 1..Len(w) : w[k] \in T
    BY <2>1
  <2>. HIDE DEF T
  <2>3. w \in Seq(T)
    BY <2>1, <2>2
  <2>. QED BY <2>3 DEF w
<1>3. parts \in Seq(Seq(T)) /\ Len(parts) = Len(fs)
  <2>. HIDE DEF T
  <2>. QED BY <1>1, <1>2
<1>4. S!Serialize(fs, v) = FlattenSeq(parts)
  BY ServerCode
<1>. HIDE DEF parts
<1>5. FlattenSeq(parts) \in Seq(T)
  <2>. HIDE DEF T
  <2>1. PICK F : F \in [0..Len(parts) -> Seq(T)] /\ FlattenSeq(parts) = F[Len(parts)]
    BY <1>3, FlattenSteps
  <2>. QED BY <1>3, <2>1
<1>6. PICK wire : wire = S!Serialize(fs, v)
  OBVIOUS
<1>7. wire \in Seq(T)
  BY <1>4, <1>5, <1>6
<1>8. Len(wire) \in Nat /\ \A k \in 1..Len(wire) : wire[k] \in T
  <2>. HIDE DEF T
  <2>. QED BY <1>7
<1>. QED BY <1>6, <1>8 DEF IsWire

\* A message that both sides know comes through, or is refused, either way.
LEMMA ComesThrough ==
    ASSUME NEW sm, NEW cm, NEW Texts, NEW v, Sent(sm, cm, Texts, v)
    PROVE  LET expected == IF Legible(sm.fields, v) THEN v ELSE Failed
           IN /\ S!Read(sm, C!Write(cm, v)) = expected /\ C!Read(cm, S!Write(sm, v)) = expected
              /\ C!Read(cm, C!Write(cm, v)) = expected
<1>. DEFINE wire == S!Serialize(sm.fields, v)
<1>1. C!Write(cm, v) = wire /\ S!Write(sm, v) = wire
  BY WritesAlike
<1>2. /\ ServerFields(sm.fields) /\ Schema(sm.fields) /\ ServerNew(sm.fields, sm.new)
      /\ IsValue(sm.fields, Texts, v) /\ SameMessage(sm, cm)
  BY DEF Sent, SameMessage, SameFields, ServerFields
<1>3. S!Read(sm, wire) = IF Legible(sm.fields, v) THEN v ELSE Failed
  BY <1>2, ReadBack DEF S!Read
<1>4. Received(sm, cm, wire)
  BY <1>2, WrittenIsWire DEF Received
<1>. HIDE DEF wire
<1>5. C!Read(cm, wire) = S!Read(sm, wire)
  BY ONLY <1>4, ReadsAlike
<1>. QED BY <1>1, <1>3, <1>5
----------------------------------------------------------------------------
(***************************************************************************)
(* The messages of msg.proto, generated for one side and for the other.    *)
(***************************************************************************)
FlatSame(sf, new, cf, bits) ==
    FlatSchema(sf) /\ ServerNew(sf, new) /\ FlatAlike(sf, cf) /\ FlatBits(cf, bits)

LEMMA FlatSameFields ==
    ASSUME NEW sf, NEW new, NEW cf, NEW bits, FlatSame(sf, new, cf, bits)
    PROVE  SameFields(sf, new, cf, bits)
<1>1. /\ FlatSchema(sf) /\ Distinct(sf) /\ ServerNew(sf, new) /\ FlatAlike(sf, cf) /\ FlatBits(cf, bits)
      /\ DOMAIN sf = 1..Len(sf) /\ Len(cf) = Len(sf) /\ \A i \in 1..Len(sf) : cf[i].type = sf[i].type
  BY DEF FlatSame, FlatSchema, Distinct, FlatAlike
<1>2. \A i \in 1..Len(sf) : sf[i].type \in ScalarTypes /\ ~IsNested(sf[i].type)
  BY <1>1, TypeFacts DEF FlatSchema
<1>. QED BY <1>1, <1>2 DEF SameFields, ServerFields, Schema, Alike, Bits

LEMMA FriendInfoFlat == FlatSame(S!FriendInfo, S!NewFriendInfo, C!FriendInfo, C!FriendInfoBits)
<1>. DEFINE sf == S!FriendInfo
            cf == C!FriendInfo
            new == S!NewFriendInfo
            bits == C!FriendInfoBits
<1>1. Len(sf) = 3 /\ DOMAIN sf = 1..3 /\ Len(cf) = 3 /\ DOMAIN cf = 1..3
  BY DEF S!FriendInfo, C!FriendInfo
<1>2. /\ sf[1] = [name |-> "id", num |-> 1, type |-> "int32"]
      /\ sf[2] = [name |-> "name", num |-> 2, type |-> "string"]
      /\ sf[3] = [name |-> "state", num |-> 3, type |-> "string"]
  BY DEF S!FriendInfo, S!Int32, S!String, S!Field
<1>3. /\ cf[1] = [name |-> "id", num |-> 1, bit |-> 2, type |-> "int32"]
      /\ cf[2] = [name |-> "name", num |-> 2, bit |-> 0, type |-> "string"]
      /\ cf[3] = [name |-> "state", num |-> 3, bit |-> 1, type |-> "string"]
  BY DEF C!FriendInfo, C!Int32, C!String, C!Field
<1>4. DOMAIN new = {"id", "name", "state"} /\ new = [n \in DOMAIN new |-> new[n]]
  BY DEF S!NewFriendInfo
<1>5. /\ new["id"] = Default("int32")
      /\ new["name"] = Default("string")
      /\ new["state"] = Default("string")
  BY DEF S!NewFriendInfo, Default, IsNested
<1>. HIDE DEF sf, cf, new
<1>6. \A i \in 1..3 : i = 1 \/ i = 2 \/ i = 3
  OBVIOUS
<1>7. FlatSchema(sf)
  BY <1>1, <1>2, <1>6 DEF FlatSchema, Distinct, ScalarTypes
<1>8. FlatAlike(sf, cf)
  BY <1>1, <1>2, <1>3, <1>6 DEF FlatAlike
<1>9. FlatBits(cf, bits)
  BY <1>1, <1>3, <1>6 DEF FlatBits, C!FriendInfoBits
<1>10. ServerNew(sf, new)
  <2>1. Names(sf) = {"id", "name", "state"}
    BY <1>1, <1>2, <1>6 DEF Names
  <2>2. \A i \in 1..3 : new[sf[i].name] = Default(sf[i].type)
    BY <1>2, <1>5, <1>6
  <2>. QED BY <1>1, <1>4, <2>1, <2>2 DEF ServerNew
<1>. QED BY <1>7, <1>8, <1>9, <1>10 DEF FlatSame, sf, cf, new, bits

LEMMA FriendRequestNotifyFlat == FlatSame(S!FriendRequestNotify, S!NewFriendRequestNotify, C!FriendRequestNotify, C!FriendRequestNotifyBits)
<1>. DEFINE sf == S!FriendRequestNotify
            cf == C!FriendRequestNotify
            new == S!NewFriendRequestNotify
            bits == C!FriendRequestNotifyBits
<1>1. Len(sf) = 3 /\ DOMAIN sf = 1..3 /\ Len(cf) = 3 /\ DOMAIN cf = 1..3
  BY DEF S!FriendRequestNotify, C!FriendRequestNotify
<1>2. /\ sf[1] = [name |-> "apply_id", num |-> 1, type |-> "int32"]
      /\ sf[2] = [name |-> "from_id", num |-> 2, type |-> "int32"]
      /\ sf[3] = [name |-> "from_name", num |-> 3, type |-> "string"]
  BY DEF S!FriendRequestNotify, S!Int32, S!String, S!Field
<1>3. /\ cf[1] = [name |-> "apply_id", num |-> 1, bit |-> 1, type |-> "int32"]
      /\ cf[2] = [name |-> "from_id", num |-> 2, bit |-> 2, type |-> "int32"]
      /\ cf[3] = [name |-> "from_name", num |-> 3, bit |-> 0, type |-> "string"]
  BY DEF C!FriendRequestNotify, C!Int32, C!String, C!Field
<1>4. DOMAIN new = {"apply_id", "from_id", "from_name"} /\ new = [n \in DOMAIN new |-> new[n]]
  BY DEF S!NewFriendRequestNotify
<1>5. /\ new["apply_id"] = Default("int32")
      /\ new["from_id"] = Default("int32")
      /\ new["from_name"] = Default("string")
  BY DEF S!NewFriendRequestNotify, Default, IsNested
<1>. HIDE DEF sf, cf, new
<1>6. \A i \in 1..3 : i = 1 \/ i = 2 \/ i = 3
  OBVIOUS
<1>7. FlatSchema(sf)
  BY <1>1, <1>2, <1>6 DEF FlatSchema, Distinct, ScalarTypes
<1>8. FlatAlike(sf, cf)
  BY <1>1, <1>2, <1>3, <1>6 DEF FlatAlike
<1>9. FlatBits(cf, bits)
  BY <1>1, <1>3, <1>6 DEF FlatBits, C!FriendRequestNotifyBits
<1>10. ServerNew(sf, new)
  <2>1. Names(sf) = {"apply_id", "from_id", "from_name"}
    BY <1>1, <1>2, <1>6 DEF Names
  <2>2. \A i \in 1..3 : new[sf[i].name] = Default(sf[i].type)
    BY <1>2, <1>5, <1>6
  <2>. QED BY <1>1, <1>4, <2>1, <2>2 DEF ServerNew
<1>. QED BY <1>7, <1>8, <1>9, <1>10 DEF FlatSame, sf, cf, new, bits

LEMMA OneChatRequestFlat == FlatSame(S!OneChatRequest, S!NewOneChatRequest, C!OneChatRequest, C!OneChatRequestBits)
<1>. DEFINE sf == S!OneChatRequest
            cf == C!OneChatRequest
            new == S!NewOneChatRequest
            bits == C!OneChatRequestBits
<1>1. Len(sf) = 4 /\ DOMAIN sf = 1..4 /\ Len(cf) = 4 /\ DOMAIN cf = 1..4
  BY DEF S!OneChatRequest, C!OneChatRequest
<1>2. /\ sf[1] = [name |-> "from_id", num |-> 1, type |-> "int32"]
      /\ sf[2] = [name |-> "to_id", num |-> 2, type |-> "int32"]
      /\ sf[3] = [name |-> "msg", num |-> 3, type |-> "string"]
      /\ sf[4] = [name |-> "msg_id", num |-> 4, type |-> "int64"]
  BY DEF S!OneChatRequest, S!Int32, S!String, S!Int64, S!Field
<1>3. /\ cf[1] = [name |-> "from_id", num |-> 1, bit |-> 1, type |-> "int32"]
      /\ cf[2] = [name |-> "to_id", num |-> 2, bit |-> 2, type |-> "int32"]
      /\ cf[3] = [name |-> "msg", num |-> 3, bit |-> 0, type |-> "string"]
      /\ cf[4] = [name |-> "msg_id", num |-> 4, bit |-> 3, type |-> "int64"]
  BY DEF C!OneChatRequest, C!Int32, C!String, C!Int64, C!Field
<1>4. DOMAIN new = {"from_id", "to_id", "msg", "msg_id"} /\ new = [n \in DOMAIN new |-> new[n]]
  BY DEF S!NewOneChatRequest
<1>5. /\ new["from_id"] = Default("int32")
      /\ new["to_id"] = Default("int32")
      /\ new["msg"] = Default("string")
      /\ new["msg_id"] = Default("int64")
  BY DEF S!NewOneChatRequest, Default, IsNested
<1>. HIDE DEF sf, cf, new
<1>6. \A i \in 1..4 : i = 1 \/ i = 2 \/ i = 3 \/ i = 4
  OBVIOUS
<1>7. FlatSchema(sf)
  BY <1>1, <1>2, <1>6 DEF FlatSchema, Distinct, ScalarTypes
<1>8. FlatAlike(sf, cf)
  BY <1>1, <1>2, <1>3, <1>6 DEF FlatAlike
<1>9. FlatBits(cf, bits)
  BY <1>1, <1>3, <1>6 DEF FlatBits, C!OneChatRequestBits
<1>10. ServerNew(sf, new)
  <2>1. Names(sf) = {"from_id", "to_id", "msg", "msg_id"}
    BY <1>1, <1>2, <1>6 DEF Names
  <2>2. \A i \in 1..4 : new[sf[i].name] = Default(sf[i].type)
    BY <1>2, <1>5, <1>6
  <2>. QED BY <1>1, <1>4, <2>1, <2>2 DEF ServerNew
<1>. QED BY <1>7, <1>8, <1>9, <1>10 DEF FlatSame, sf, cf, new, bits

LEMMA LoginRequestSame == FlatSame(S!LoginRequest, S!NewLoginRequest, C!LoginRequest, C!LoginRequestBits)
<1>. DEFINE sf == S!LoginRequest
            cf == C!LoginRequest
            new == S!NewLoginRequest
            bits == C!LoginRequestBits
<1>1. Len(sf) = 2 /\ DOMAIN sf = 1..2 /\ Len(cf) = 2 /\ DOMAIN cf = 1..2
  BY DEF S!LoginRequest, C!LoginRequest
<1>2. /\ sf[1] = [name |-> "username", num |-> 1, type |-> "string"]
      /\ sf[2] = [name |-> "password", num |-> 2, type |-> "string"]
  BY DEF S!LoginRequest, S!String, S!Field
<1>3. /\ cf[1] = [name |-> "username", num |-> 1, bit |-> 0, type |-> "string"]
      /\ cf[2] = [name |-> "password", num |-> 2, bit |-> 1, type |-> "string"]
  BY DEF C!LoginRequest, C!String, C!Field
<1>4. DOMAIN new = {"username", "password"} /\ new = [n \in DOMAIN new |-> new[n]]
  BY DEF S!NewLoginRequest
<1>5. /\ new["username"] = Default("string")
      /\ new["password"] = Default("string")
  BY DEF S!NewLoginRequest, Default, IsNested
<1>. HIDE DEF sf, cf, new
<1>6. \A i \in 1..2 : i = 1 \/ i = 2
  OBVIOUS
<1>7. FlatSchema(sf)
  BY <1>1, <1>2, <1>6 DEF FlatSchema, Distinct, ScalarTypes
<1>8. FlatAlike(sf, cf)
  BY <1>1, <1>2, <1>3, <1>6 DEF FlatAlike
<1>9. FlatBits(cf, bits)
  BY <1>1, <1>3, <1>6 DEF FlatBits, C!LoginRequestBits
<1>10. ServerNew(sf, new)
  <2>1. Names(sf) = {"username", "password"}
    BY <1>1, <1>2, <1>6 DEF Names
  <2>2. \A i \in 1..2 : new[sf[i].name] = Default(sf[i].type)
    BY <1>2, <1>5, <1>6
  <2>. QED BY <1>1, <1>4, <2>1, <2>2 DEF ServerNew
<1>. QED BY <1>7, <1>8, <1>9, <1>10 DEF FlatSame, sf, cf, new, bits

LEMMA LoginResponseSame == SameFields(S!LoginResponse, S!NewLoginResponse, C!LoginResponse, C!LoginResponseBits)
<1>. DEFINE sf == S!LoginResponse
            cf == C!LoginResponse
            new == S!NewLoginResponse
            bits == C!LoginResponseBits
<1>1. Len(sf) = 5 /\ DOMAIN sf = 1..5 /\ Len(cf) = 5 /\ DOMAIN cf = 1..5
  BY DEF S!LoginResponse, C!LoginResponse
<1>2. /\ sf[1] = [name |-> "success", num |-> 1, type |-> "bool"]
      /\ sf[2] = [name |-> "msg", num |-> 2, type |-> "string"]
      /\ sf[3] = [name |-> "uid", num |-> 3, type |-> "int32"]
      /\ sf[4] = [name |-> "friends", num |-> 4, type |-> "repeated",
               of |-> S!FriendInfo, new |-> S!NewFriendInfo]
      /\ sf[5] = [name |-> "pending_applies", num |-> 5, type |-> "repeated",
               of |-> S!FriendRequestNotify, new |-> S!NewFriendRequestNotify]
  BY DEF S!LoginResponse, S!Bool, S!String, S!Int32, S!Repeated, S!Nested, S!Field
<1>3. /\ cf[1] = [name |-> "success", num |-> 1, bit |-> 3, type |-> "bool"]
      /\ cf[2] = [name |-> "msg", num |-> 2, bit |-> 2, type |-> "string"]
      /\ cf[3] = [name |-> "uid", num |-> 3, bit |-> 4, type |-> "int32"]
      /\ cf[4] = [name |-> "friends", num |-> 4, bit |-> 0, type |-> "repeated",
               of |-> C!FriendInfo, bits |-> C!FriendInfoBits]
      /\ cf[5] = [name |-> "pending_applies", num |-> 5, bit |-> 1, type |-> "repeated",
               of |-> C!FriendRequestNotify, bits |-> C!FriendRequestNotifyBits]
  BY DEF C!LoginResponse, C!Bool, C!String, C!Int32, C!Repeated, C!Nested, C!Field
<1>4. DOMAIN new = {"success", "msg", "uid", "friends", "pending_applies"} /\ new = [n \in DOMAIN new |-> new[n]]
  BY DEF S!NewLoginResponse
<1>5. /\ new["success"] = Default("bool")
      /\ new["msg"] = Default("string")
      /\ new["uid"] = Default("int32")
      /\ new["friends"] = Default("repeated")
      /\ new["pending_applies"] = Default("repeated")
  BY DEF S!NewLoginResponse, Default, IsNested
<1>. HIDE DEF sf, cf, new
<1>6. \A i \in 1..5 : i = 1 \/ i = 2 \/ i = 3 \/ i = 4 \/ i = 5
  OBVIOUS
<1>7. ServerFields(sf)
  <2>1. Distinct(sf)
    BY <1>1, <1>2, <1>6 DEF Distinct
  <2>2. \A i \in 1..5 : IsNested(sf[i].type) => FlatSchema(sf[i].of) /\ ServerNew(sf[i].of, sf[i].new)
    BY <1>2, <1>6, FriendInfoFlat, FriendRequestNotifyFlat DEF FlatSame, IsNested
  <2>3. \A i \in 1..5 : ~IsNested(sf[i].type) => sf[i].type \in ScalarTypes
    BY <1>2, <1>6 DEF IsNested, ScalarTypes
  <2>. QED BY <1>1, <2>1, <2>2, <2>3 DEF ServerFields, Schema
<1>8. FlatAlike(sf, cf)
  BY <1>1, <1>2, <1>3, <1>6 DEF FlatAlike
<1>9. FlatBits(cf, bits)
  BY <1>1, <1>3, <1>6 DEF FlatBits, C!LoginResponseBits
<1>10. ServerNew(sf, new)
  <2>1. Names(sf) = {"success", "msg", "uid", "friends", "pending_applies"}
    BY <1>1, <1>2, <1>6 DEF Names
  <2>2. \A i \in 1..5 : new[sf[i].name] = Default(sf[i].type)
    BY <1>2, <1>5, <1>6
  <2>. QED BY <1>1, <1>4, <2>1, <2>2 DEF ServerNew
<1>11. \A i \in 1..5 : IsNested(sf[i].type) => FlatAlike(sf[i].of, cf[i].of) /\ FlatBits(cf[i].of, cf[i].bits)
  BY <1>2, <1>3, <1>6, FriendInfoFlat, FriendRequestNotifyFlat DEF FlatSame, IsNested
<1>12. \A i \in 1..5 : cf[i].type = sf[i].type
  BY <1>1, <1>8 DEF FlatAlike
<1>. QED BY <1>1, <1>7, <1>8, <1>9, <1>10, <1>11, <1>12 DEF SameFields, Alike, Bits, sf, cf, new, bits

LEMMA RegRequestSame == FlatSame(S!RegRequest, S!NewRegRequest, C!RegRequest, C!RegRequestBits)
<1>. DEFINE sf == S!RegRequest
            cf == C!RegRequest
            new == S!NewRegRequest
            bits == C!RegRequestBits
<1>1. Len(sf) = 2 /\ DOMAIN sf = 1..2 /\ Len(cf) = 2 /\ DOMAIN cf = 1..2
  BY DEF S!RegRequest, C!RegRequest
<1>2. /\ sf[1] = [name |-> "username", num |-> 1, type |-> "string"]
      /\ sf[2] = [name |-> "password", num |-> 2, type |-> "string"]
  BY DEF S!RegRequest, S!String, S!Field
<1>3. /\ cf[1] = [name |-> "username", num |-> 1, bit |-> 0, type |-> "string"]
      /\ cf[2] = [name |-> "password", num |-> 2, bit |-> 1, type |-> "string"]
  BY DEF C!RegRequest, C!String, C!Field
<1>4. DOMAIN new = {"username", "password"} /\ new = [n \in DOMAIN new |-> new[n]]
  BY DEF S!NewRegRequest
<1>5. /\ new["username"] = Default("string")
      /\ new["password"] = Default("string")
  BY DEF S!NewRegRequest, Default, IsNested
<1>. HIDE DEF sf, cf, new
<1>6. \A i \in 1..2 : i = 1 \/ i = 2
  OBVIOUS
<1>7. FlatSchema(sf)
  BY <1>1, <1>2, <1>6 DEF FlatSchema, Distinct, ScalarTypes
<1>8. FlatAlike(sf, cf)
  BY <1>1, <1>2, <1>3, <1>6 DEF FlatAlike
<1>9. FlatBits(cf, bits)
  BY <1>1, <1>3, <1>6 DEF FlatBits, C!RegRequestBits
<1>10. ServerNew(sf, new)
  <2>1. Names(sf) = {"username", "password"}
    BY <1>1, <1>2, <1>6 DEF Names
  <2>2. \A i \in 1..2 : new[sf[i].name] = Default(sf[i].type)
    BY <1>2, <1>5, <1>6
  <2>. QED BY <1>1, <1>4, <2>1, <2>2 DEF ServerNew
<1>. QED BY <1>7, <1>8, <1>9, <1>10 DEF FlatSame, sf, cf, new, bits

LEMMA RegResponseSame == FlatSame(S!RegResponse, S!NewRegResponse, C!RegResponse, C!RegResponseBits)
<1>. DEFINE sf == S!RegResponse
            cf == C!RegResponse
            new == S!NewRegResponse
            bits == C!RegResponseBits
<1>1. Len(sf) = 3 /\ DOMAIN sf = 1..3 /\ Len(cf) = 3 /\ DOMAIN cf = 1..3
  BY DEF S!RegResponse, C!RegResponse
<1>2. /\ sf[1] = [name |-> "success", num |-> 1, type |-> "bool"]
      /\ sf[2] = [name |-> "uid", num |-> 2, type |-> "int32"]
      /\ sf[3] = [name |-> "msg", num |-> 3, type |-> "string"]
  BY DEF S!RegResponse, S!Bool, S!Int32, S!String, S!Field
<1>3. /\ cf[1] = [name |-> "success", num |-> 1, bit |-> 1, type |-> "bool"]
      /\ cf[2] = [name |-> "uid", num |-> 2, bit |-> 2, type |-> "int32"]
      /\ cf[3] = [name |-> "msg", num |-> 3, bit |-> 0, type |-> "string"]
  BY DEF C!RegResponse, C!Bool, C!Int32, C!String, C!Field
<1>4. DOMAIN new = {"success", "uid", "msg"} /\ new = [n \in DOMAIN new |-> new[n]]
  BY DEF S!NewRegResponse
<1>5. /\ new["success"] = Default("bool")
      /\ new["uid"] = Default("int32")
      /\ new["msg"] = Default("string")
  BY DEF S!NewRegResponse, Default, IsNested
<1>. HIDE DEF sf, cf, new
<1>6. \A i \in 1..3 : i = 1 \/ i = 2 \/ i = 3
  OBVIOUS
<1>7. FlatSchema(sf)
  BY <1>1, <1>2, <1>6 DEF FlatSchema, Distinct, ScalarTypes
<1>8. FlatAlike(sf, cf)
  BY <1>1, <1>2, <1>3, <1>6 DEF FlatAlike
<1>9. FlatBits(cf, bits)
  BY <1>1, <1>3, <1>6 DEF FlatBits, C!RegResponseBits
<1>10. ServerNew(sf, new)
  <2>1. Names(sf) = {"success", "uid", "msg"}
    BY <1>1, <1>2, <1>6 DEF Names
  <2>2. \A i \in 1..3 : new[sf[i].name] = Default(sf[i].type)
    BY <1>2, <1>5, <1>6
  <2>. QED BY <1>1, <1>4, <2>1, <2>2 DEF ServerNew
<1>. QED BY <1>7, <1>8, <1>9, <1>10 DEF FlatSame, sf, cf, new, bits

LEMMA MsgSendAckSame == FlatSame(S!MsgSendAck, S!NewMsgSendAck, C!MsgSendAck, C!MsgSendAckBits)
<1>. DEFINE sf == S!MsgSendAck
            cf == C!MsgSendAck
            new == S!NewMsgSendAck
            bits == C!MsgSendAckBits
<1>1. Len(sf) = 3 /\ DOMAIN sf = 1..3 /\ Len(cf) = 3 /\ DOMAIN cf = 1..3
  BY DEF S!MsgSendAck, C!MsgSendAck
<1>2. /\ sf[1] = [name |-> "msg_id", num |-> 1, type |-> "int64"]
      /\ sf[2] = [name |-> "success", num |-> 2, type |-> "bool"]
      /\ sf[3] = [name |-> "err_msg", num |-> 3, type |-> "string"]
  BY DEF S!MsgSendAck, S!Int64, S!Bool, S!String, S!Field
<1>3. /\ cf[1] = [name |-> "msg_id", num |-> 1, bit |-> 1, type |-> "int64"]
      /\ cf[2] = [name |-> "success", num |-> 2, bit |-> 2, type |-> "bool"]
      /\ cf[3] = [name |-> "err_msg", num |-> 3, bit |-> 0, type |-> "string"]
  BY DEF C!MsgSendAck, C!Int64, C!Bool, C!String, C!Field
<1>4. DOMAIN new = {"msg_id", "success", "err_msg"} /\ new = [n \in DOMAIN new |-> new[n]]
  BY DEF S!NewMsgSendAck
<1>5. /\ new["msg_id"] = Default("int64")
      /\ new["success"] = Default("bool")
      /\ new["err_msg"] = Default("string")
  BY DEF S!NewMsgSendAck, Default, IsNested
<1>. HIDE DEF sf, cf, new
<1>6. \A i \in 1..3 : i = 1 \/ i = 2 \/ i = 3
  OBVIOUS
<1>7. FlatSchema(sf)
  BY <1>1, <1>2, <1>6 DEF FlatSchema, Distinct, ScalarTypes
<1>8. FlatAlike(sf, cf)
  BY <1>1, <1>2, <1>3, <1>6 DEF FlatAlike
<1>9. FlatBits(cf, bits)
  BY <1>1, <1>3, <1>6 DEF FlatBits, C!MsgSendAckBits
<1>10. ServerNew(sf, new)
  <2>1. Names(sf) = {"msg_id", "success", "err_msg"}
    BY <1>1, <1>2, <1>6 DEF Names
  <2>2. \A i \in 1..3 : new[sf[i].name] = Default(sf[i].type)
    BY <1>2, <1>5, <1>6
  <2>. QED BY <1>1, <1>4, <2>1, <2>2 DEF ServerNew
<1>. QED BY <1>7, <1>8, <1>9, <1>10 DEF FlatSame, sf, cf, new, bits

LEMMA MsgRecvAckSame == FlatSame(S!MsgRecvAck, S!NewMsgRecvAck, C!MsgRecvAck, C!MsgRecvAckBits)
<1>. DEFINE sf == S!MsgRecvAck
            cf == C!MsgRecvAck
            new == S!NewMsgRecvAck
            bits == C!MsgRecvAckBits
<1>1. Len(sf) = 3 /\ DOMAIN sf = 1..3 /\ Len(cf) = 3 /\ DOMAIN cf = 1..3
  BY DEF S!MsgRecvAck, C!MsgRecvAck
<1>2. /\ sf[1] = [name |-> "msg_id", num |-> 1, type |-> "int64"]
      /\ sf[2] = [name |-> "from_id", num |-> 2, type |-> "int32"]
      /\ sf[3] = [name |-> "to_id", num |-> 3, type |-> "int32"]
  BY DEF S!MsgRecvAck, S!Int64, S!Int32, S!Field
<1>3. /\ cf[1] = [name |-> "msg_id", num |-> 1, bit |-> 0, type |-> "int64"]
      /\ cf[2] = [name |-> "from_id", num |-> 2, bit |-> 1, type |-> "int32"]
      /\ cf[3] = [name |-> "to_id", num |-> 3, bit |-> 2, type |-> "int32"]
  BY DEF C!MsgRecvAck, C!Int64, C!Int32, C!Field
<1>4. DOMAIN new = {"msg_id", "from_id", "to_id"} /\ new = [n \in DOMAIN new |-> new[n]]
  BY DEF S!NewMsgRecvAck
<1>5. /\ new["msg_id"] = Default("int64")
      /\ new["from_id"] = Default("int32")
      /\ new["to_id"] = Default("int32")
  BY DEF S!NewMsgRecvAck, Default, IsNested
<1>. HIDE DEF sf, cf, new
<1>6. \A i \in 1..3 : i = 1 \/ i = 2 \/ i = 3
  OBVIOUS
<1>7. FlatSchema(sf)
  BY <1>1, <1>2, <1>6 DEF FlatSchema, Distinct, ScalarTypes
<1>8. FlatAlike(sf, cf)
  BY <1>1, <1>2, <1>3, <1>6 DEF FlatAlike
<1>9. FlatBits(cf, bits)
  BY <1>1, <1>3, <1>6 DEF FlatBits, C!MsgRecvAckBits
<1>10. ServerNew(sf, new)
  <2>1. Names(sf) = {"msg_id", "from_id", "to_id"}
    BY <1>1, <1>2, <1>6 DEF Names
  <2>2. \A i \in 1..3 : new[sf[i].name] = Default(sf[i].type)
    BY <1>2, <1>5, <1>6
  <2>. QED BY <1>1, <1>4, <2>1, <2>2 DEF ServerNew
<1>. QED BY <1>7, <1>8, <1>9, <1>10 DEF FlatSame, sf, cf, new, bits

LEMMA AddFriendReqSame == FlatSame(S!AddFriendReq, S!NewAddFriendReq, C!AddFriendReq, C!AddFriendReqBits)
<1>. DEFINE sf == S!AddFriendReq
            cf == C!AddFriendReq
            new == S!NewAddFriendReq
            bits == C!AddFriendReqBits
<1>1. Len(sf) = 2 /\ DOMAIN sf = 1..2 /\ Len(cf) = 2 /\ DOMAIN cf = 1..2
  BY DEF S!AddFriendReq, C!AddFriendReq
<1>2. /\ sf[1] = [name |-> "from_id", num |-> 1, type |-> "int32"]
      /\ sf[2] = [name |-> "to_id", num |-> 2, type |-> "int32"]
  BY DEF S!AddFriendReq, S!Int32, S!Field
<1>3. /\ cf[1] = [name |-> "from_id", num |-> 1, bit |-> 0, type |-> "int32"]
      /\ cf[2] = [name |-> "to_id", num |-> 2, bit |-> 1, type |-> "int32"]
  BY DEF C!AddFriendReq, C!Int32, C!Field
<1>4. DOMAIN new = {"from_id", "to_id"} /\ new = [n \in DOMAIN new |-> new[n]]
  BY DEF S!NewAddFriendReq
<1>5. /\ new["from_id"] = Default("int32")
      /\ new["to_id"] = Default("int32")
  BY DEF S!NewAddFriendReq, Default, IsNested
<1>. HIDE DEF sf, cf, new
<1>6. \A i \in 1..2 : i = 1 \/ i = 2
  OBVIOUS
<1>7. FlatSchema(sf)
  BY <1>1, <1>2, <1>6 DEF FlatSchema, Distinct, ScalarTypes
<1>8. FlatAlike(sf, cf)
  BY <1>1, <1>2, <1>3, <1>6 DEF FlatAlike
<1>9. FlatBits(cf, bits)
  BY <1>1, <1>3, <1>6 DEF FlatBits, C!AddFriendReqBits
<1>10. ServerNew(sf, new)
  <2>1. Names(sf) = {"from_id", "to_id"}
    BY <1>1, <1>2, <1>6 DEF Names
  <2>2. \A i \in 1..2 : new[sf[i].name] = Default(sf[i].type)
    BY <1>2, <1>5, <1>6
  <2>. QED BY <1>1, <1>4, <2>1, <2>2 DEF ServerNew
<1>. QED BY <1>7, <1>8, <1>9, <1>10 DEF FlatSame, sf, cf, new, bits

LEMMA AddFriendRespSame == FlatSame(S!AddFriendResp, S!NewAddFriendResp, C!AddFriendResp, C!AddFriendRespBits)
<1>. DEFINE sf == S!AddFriendResp
            cf == C!AddFriendResp
            new == S!NewAddFriendResp
            bits == C!AddFriendRespBits
<1>1. Len(sf) = 2 /\ DOMAIN sf = 1..2 /\ Len(cf) = 2 /\ DOMAIN cf = 1..2
  BY DEF S!AddFriendResp, C!AddFriendResp
<1>2. /\ sf[1] = [name |-> "success", num |-> 1, type |-> "bool"]
      /\ sf[2] = [name |-> "msg", num |-> 2, type |-> "string"]
  BY DEF S!AddFriendResp, S!Bool, S!String, S!Field
<1>3. /\ cf[1] = [name |-> "success", num |-> 1, bit |-> 1, type |-> "bool"]
      /\ cf[2] = [name |-> "msg", num |-> 2, bit |-> 0, type |-> "string"]
  BY DEF C!AddFriendResp, C!Bool, C!String, C!Field
<1>4. DOMAIN new = {"success", "msg"} /\ new = [n \in DOMAIN new |-> new[n]]
  BY DEF S!NewAddFriendResp
<1>5. /\ new["success"] = Default("bool")
      /\ new["msg"] = Default("string")
  BY DEF S!NewAddFriendResp, Default, IsNested
<1>. HIDE DEF sf, cf, new
<1>6. \A i \in 1..2 : i = 1 \/ i = 2
  OBVIOUS
<1>7. FlatSchema(sf)
  BY <1>1, <1>2, <1>6 DEF FlatSchema, Distinct, ScalarTypes
<1>8. FlatAlike(sf, cf)
  BY <1>1, <1>2, <1>3, <1>6 DEF FlatAlike
<1>9. FlatBits(cf, bits)
  BY <1>1, <1>3, <1>6 DEF FlatBits, C!AddFriendRespBits
<1>10. ServerNew(sf, new)
  <2>1. Names(sf) = {"success", "msg"}
    BY <1>1, <1>2, <1>6 DEF Names
  <2>2. \A i \in 1..2 : new[sf[i].name] = Default(sf[i].type)
    BY <1>2, <1>5, <1>6
  <2>. QED BY <1>1, <1>4, <2>1, <2>2 DEF ServerNew
<1>. QED BY <1>7, <1>8, <1>9, <1>10 DEF FlatSame, sf, cf, new, bits

LEMMA ProcessFriendReqSame == FlatSame(S!ProcessFriendReq, S!NewProcessFriendReq, C!ProcessFriendReq, C!ProcessFriendReqBits)
<1>. DEFINE sf == S!ProcessFriendReq
            cf == C!ProcessFriendReq
            new == S!NewProcessFriendReq
            bits == C!ProcessFriendReqBits
<1>1. Len(sf) = 4 /\ DOMAIN sf = 1..4 /\ Len(cf) = 4 /\ DOMAIN cf = 1..4
  BY DEF S!ProcessFriendReq, C!ProcessFriendReq
<1>2. /\ sf[1] = [name |-> "apply_id", num |-> 1, type |-> "int32"]
      /\ sf[2] = [name |-> "from_id", num |-> 2, type |-> "int32"]
      /\ sf[3] = [name |-> "to_id", num |-> 3, type |-> "int32"]
      /\ sf[4] = [name |-> "accept", num |-> 4, type |-> "bool"]
  BY DEF S!ProcessFriendReq, S!Int32, S!Bool, S!Field
<1>3. /\ cf[1] = [name |-> "apply_id", num |-> 1, bit |-> 0, type |-> "int32"]
      /\ cf[2] = [name |-> "from_id", num |-> 2, bit |-> 1, type |-> "int32"]
      /\ cf[3] = [name |-> "to_id", num |-> 3, bit |-> 2, type |-> "int32"]
      /\ cf[4] = [name |-> "accept", num |-> 4, bit |-> 3, type |-> "bool"]
  BY DEF C!ProcessFriendReq, C!Int32, C!Bool, C!Field
<1>4. DOMAIN new = {"apply_id", "from_id", "to_id", "accept"} /\ new = [n \in DOMAIN new |-> new[n]]
  BY DEF S!NewProcessFriendReq
<1>5. /\ new["apply_id"] = Default("int32")
      /\ new["from_id"] = Default("int32")
      /\ new["to_id"] = Default("int32")
      /\ new["accept"] = Default("bool")
  BY DEF S!NewProcessFriendReq, Default, IsNested
<1>. HIDE DEF sf, cf, new
<1>6. \A i \in 1..4 : i = 1 \/ i = 2 \/ i = 3 \/ i = 4
  OBVIOUS
<1>7. FlatSchema(sf)
  BY <1>1, <1>2, <1>6 DEF FlatSchema, Distinct, ScalarTypes
<1>8. FlatAlike(sf, cf)
  BY <1>1, <1>2, <1>3, <1>6 DEF FlatAlike
<1>9. FlatBits(cf, bits)
  BY <1>1, <1>3, <1>6 DEF FlatBits, C!ProcessFriendReqBits
<1>10. ServerNew(sf, new)
  <2>1. Names(sf) = {"apply_id", "from_id", "to_id", "accept"}
    BY <1>1, <1>2, <1>6 DEF Names
  <2>2. \A i \in 1..4 : new[sf[i].name] = Default(sf[i].type)
    BY <1>2, <1>5, <1>6
  <2>. QED BY <1>1, <1>4, <2>1, <2>2 DEF ServerNew
<1>. QED BY <1>7, <1>8, <1>9, <1>10 DEF FlatSame, sf, cf, new, bits

LEMMA ProcessFriendRespSame == SameFields(S!ProcessFriendResp, S!NewProcessFriendResp, C!ProcessFriendResp, C!ProcessFriendRespBits)
<1>. DEFINE sf == S!ProcessFriendResp
            cf == C!ProcessFriendResp
            new == S!NewProcessFriendResp
            bits == C!ProcessFriendRespBits
<1>1. Len(sf) = 5 /\ DOMAIN sf = 1..5 /\ Len(cf) = 5 /\ DOMAIN cf = 1..5
  BY DEF S!ProcessFriendResp, C!ProcessFriendResp
<1>2. /\ sf[1] = [name |-> "success", num |-> 1, type |-> "bool"]
      /\ sf[2] = [name |-> "msg", num |-> 2, type |-> "string"]
      /\ sf[3] = [name |-> "apply_id", num |-> 3, type |-> "int32"]
      /\ sf[4] = [name |-> "accept", num |-> 4, type |-> "bool"]
      /\ sf[5] = [name |-> "friend_info", num |-> 5, type |-> "message",
               of |-> S!FriendInfo, new |-> S!NewFriendInfo]
  BY DEF S!ProcessFriendResp, S!Bool, S!String, S!Int32, S!Message, S!Nested, S!Field
<1>3. /\ cf[1] = [name |-> "success", num |-> 1, bit |-> 2, type |-> "bool"]
      /\ cf[2] = [name |-> "msg", num |-> 2, bit |-> 0, type |-> "string"]
      /\ cf[3] = [name |-> "apply_id", num |-> 3, bit |-> 4, type |-> "int32"]
      /\ cf[4] = [name |-> "accept", num |-> 4, bit |-> 3, type |-> "bool"]
      /\ cf[5] = [name |-> "friend_info", num |-> 5, bit |-> 1, type |-> "message",
               of |-> C!FriendInfo, bits |-> C!FriendInfoBits]
  BY DEF C!ProcessFriendResp, C!Bool, C!String, C!Int32, C!Message, C!Nested, C!Field
<1>4. DOMAIN new = {"success", "msg", "apply_id", "accept", "friend_info"} /\ new = [n \in DOMAIN new |-> new[n]]
  BY DEF S!NewProcessFriendResp
<1>5. /\ new["success"] = Default("bool")
      /\ new["msg"] = Default("string")
      /\ new["apply_id"] = Default("int32")
      /\ new["accept"] = Default("bool")
      /\ new["friend_info"] = Default("message")
  BY DEF S!NewProcessFriendResp, Default, IsNested
<1>. HIDE DEF sf, cf, new
<1>6. \A i \in 1..5 : i = 1 \/ i = 2 \/ i = 3 \/ i = 4 \/ i = 5
  OBVIOUS
<1>7. ServerFields(sf)
  <2>1. Distinct(sf)
    BY <1>1, <1>2, <1>6 DEF Distinct
  <2>2. \A i \in 1..5 : IsNested(sf[i].type) => FlatSchema(sf[i].of) /\ ServerNew(sf[i].of, sf[i].new)
    BY <1>2, <1>6, FriendInfoFlat DEF FlatSame, IsNested
  <2>3. \A i \in 1..5 : ~IsNested(sf[i].type) => sf[i].type \in ScalarTypes
    BY <1>2, <1>6 DEF IsNested, ScalarTypes
  <2>. QED BY <1>1, <2>1, <2>2, <2>3 DEF ServerFields, Schema
<1>8. FlatAlike(sf, cf)
  BY <1>1, <1>2, <1>3, <1>6 DEF FlatAlike
<1>9. FlatBits(cf, bits)
  BY <1>1, <1>3, <1>6 DEF FlatBits, C!ProcessFriendRespBits
<1>10. ServerNew(sf, new)
  <2>1. Names(sf) = {"success", "msg", "apply_id", "accept", "friend_info"}
    BY <1>1, <1>2, <1>6 DEF Names
  <2>2. \A i \in 1..5 : new[sf[i].name] = Default(sf[i].type)
    BY <1>2, <1>5, <1>6
  <2>. QED BY <1>1, <1>4, <2>1, <2>2 DEF ServerNew
<1>11. \A i \in 1..5 : IsNested(sf[i].type) => FlatAlike(sf[i].of, cf[i].of) /\ FlatBits(cf[i].of, cf[i].bits)
  BY <1>2, <1>3, <1>6, FriendInfoFlat DEF FlatSame, IsNested
<1>12. \A i \in 1..5 : cf[i].type = sf[i].type
  BY <1>1, <1>8 DEF FlatAlike
<1>. QED BY <1>1, <1>7, <1>8, <1>9, <1>10, <1>11, <1>12 DEF SameFields, Alike, Bits, sf, cf, new, bits

LEMMA UserStatusNotifySame == FlatSame(S!UserStatusNotify, S!NewUserStatusNotify, C!UserStatusNotify, C!UserStatusNotifyBits)
<1>. DEFINE sf == S!UserStatusNotify
            cf == C!UserStatusNotify
            new == S!NewUserStatusNotify
            bits == C!UserStatusNotifyBits
<1>1. Len(sf) = 2 /\ DOMAIN sf = 1..2 /\ Len(cf) = 2 /\ DOMAIN cf = 1..2
  BY DEF S!UserStatusNotify, C!UserStatusNotify
<1>2. /\ sf[1] = [name |-> "uid", num |-> 1, type |-> "int32"]
      /\ sf[2] = [name |-> "state", num |-> 2, type |-> "string"]
  BY DEF S!UserStatusNotify, S!Int32, S!String, S!Field
<1>3. /\ cf[1] = [name |-> "uid", num |-> 1, bit |-> 1, type |-> "int32"]
      /\ cf[2] = [name |-> "state", num |-> 2, bit |-> 0, type |-> "string"]
  BY DEF C!UserStatusNotify, C!Int32, C!String, C!Field
<1>4. DOMAIN new = {"uid", "state"} /\ new = [n \in DOMAIN new |-> new[n]]
  BY DEF S!NewUserStatusNotify
<1>5. /\ new["uid"] = Default("int32")
      /\ new["state"] = Default("string")
  BY DEF S!NewUserStatusNotify, Default, IsNested
<1>. HIDE DEF sf, cf, new
<1>6. \A i \in 1..2 : i = 1 \/ i = 2
  OBVIOUS
<1>7. FlatSchema(sf)
  BY <1>1, <1>2, <1>6 DEF FlatSchema, Distinct, ScalarTypes
<1>8. FlatAlike(sf, cf)
  BY <1>1, <1>2, <1>3, <1>6 DEF FlatAlike
<1>9. FlatBits(cf, bits)
  BY <1>1, <1>3, <1>6 DEF FlatBits, C!UserStatusNotifyBits
<1>10. ServerNew(sf, new)
  <2>1. Names(sf) = {"uid", "state"}
    BY <1>1, <1>2, <1>6 DEF Names
  <2>2. \A i \in 1..2 : new[sf[i].name] = Default(sf[i].type)
    BY <1>2, <1>5, <1>6
  <2>. QED BY <1>1, <1>4, <2>1, <2>2 DEF ServerNew
<1>. QED BY <1>7, <1>8, <1>9, <1>10 DEF FlatSame, sf, cf, new, bits

LEMMA AddFriendSuccessNotifySame == SameFields(S!AddFriendSuccessNotify, S!NewAddFriendSuccessNotify, C!AddFriendSuccessNotify, C!AddFriendSuccessNotifyBits)
<1>. DEFINE sf == S!AddFriendSuccessNotify
            cf == C!AddFriendSuccessNotify
            new == S!NewAddFriendSuccessNotify
            bits == C!AddFriendSuccessNotifyBits
<1>1. Len(sf) = 1 /\ DOMAIN sf = 1..1 /\ Len(cf) = 1 /\ DOMAIN cf = 1..1
  BY DEF S!AddFriendSuccessNotify, C!AddFriendSuccessNotify
<1>2. /\ sf[1] = [name |-> "friend_info", num |-> 1, type |-> "message",
               of |-> S!FriendInfo, new |-> S!NewFriendInfo]
  BY DEF S!AddFriendSuccessNotify, S!Message, S!Nested
<1>3. /\ cf[1] = [name |-> "friend_info", num |-> 1, bit |-> 0, type |-> "message",
               of |-> C!FriendInfo, bits |-> C!FriendInfoBits]
  BY DEF C!AddFriendSuccessNotify, C!Message, C!Nested
<1>4. DOMAIN new = {"friend_info"} /\ new = [n \in DOMAIN new |-> new[n]]
  BY DEF S!NewAddFriendSuccessNotify
<1>5. /\ new["friend_info"] = Default("message")
  BY DEF S!NewAddFriendSuccessNotify, Default, IsNested
<1>. HIDE DEF sf, cf, new
<1>6. \A i \in 1..1 : i = 1
  OBVIOUS
<1>7. ServerFields(sf)
  <2>1. Distinct(sf)
    BY <1>1, <1>2, <1>6 DEF Distinct
  <2>2. \A i \in 1..1 : IsNested(sf[i].type) => FlatSchema(sf[i].of) /\ ServerNew(sf[i].of, sf[i].new)
    BY <1>2, <1>6, FriendInfoFlat DEF FlatSame, IsNested
  <2>3. \A i \in 1..1 : ~IsNested(sf[i].type) => sf[i].type \in ScalarTypes
    BY <1>2, <1>6 DEF IsNested, ScalarTypes
  <2>. QED BY <1>1, <2>1, <2>2, <2>3 DEF ServerFields, Schema
<1>8. FlatAlike(sf, cf)
  BY <1>1, <1>2, <1>3, <1>6 DEF FlatAlike
<1>9. FlatBits(cf, bits)
  BY <1>1, <1>3, <1>6 DEF FlatBits, C!AddFriendSuccessNotifyBits
<1>10. ServerNew(sf, new)
  <2>1. Names(sf) = {"friend_info"}
    BY <1>1, <1>2, <1>6 DEF Names
  <2>2. \A i \in 1..1 : new[sf[i].name] = Default(sf[i].type)
    BY <1>2, <1>5, <1>6
  <2>. QED BY <1>1, <1>4, <2>1, <2>2 DEF ServerNew
<1>11. \A i \in 1..1 : IsNested(sf[i].type) => FlatAlike(sf[i].of, cf[i].of) /\ FlatBits(cf[i].of, cf[i].bits)
  BY <1>2, <1>3, <1>6, FriendInfoFlat DEF FlatSame, IsNested
<1>12. \A i \in 1..1 : cf[i].type = sf[i].type
  BY <1>1, <1>8 DEF FlatAlike
<1>. QED BY <1>1, <1>7, <1>8, <1>9, <1>10, <1>11, <1>12 DEF SameFields, Alike, Bits, sf, cf, new, bits

LEMMA SyncReqSame == FlatSame(S!SyncReq, S!NewSyncReq, C!SyncReq, C!SyncReqBits)
<1>. DEFINE sf == S!SyncReq
            cf == C!SyncReq
            new == S!NewSyncReq
            bits == C!SyncReqBits
<1>1. Len(sf) = 2 /\ DOMAIN sf = 1..2 /\ Len(cf) = 2 /\ DOMAIN cf = 1..2
  BY DEF S!SyncReq, C!SyncReq
<1>2. /\ sf[1] = [name |-> "uid", num |-> 1, type |-> "int32"]
      /\ sf[2] = [name |-> "last_sync_key", num |-> 2, type |-> "int64"]
  BY DEF S!SyncReq, S!Int32, S!Int64, S!Field
<1>3. /\ cf[1] = [name |-> "uid", num |-> 1, bit |-> 1, type |-> "int32"]
      /\ cf[2] = [name |-> "last_sync_key", num |-> 2, bit |-> 0, type |-> "int64"]
  BY DEF C!SyncReq, C!Int32, C!Int64, C!Field
<1>4. DOMAIN new = {"uid", "last_sync_key"} /\ new = [n \in DOMAIN new |-> new[n]]
  BY DEF S!NewSyncReq
<1>5. /\ new["uid"] = Default("int32")
      /\ new["last_sync_key"] = Default("int64")
  BY DEF S!NewSyncReq, Default, IsNested
<1>. HIDE DEF sf, cf, new
<1>6. \A i \in 1..2 : i = 1 \/ i = 2
  OBVIOUS
<1>7. FlatSchema(sf)
  BY <1>1, <1>2, <1>6 DEF FlatSchema, Distinct, ScalarTypes
<1>8. FlatAlike(sf, cf)
  BY <1>1, <1>2, <1>3, <1>6 DEF FlatAlike
<1>9. FlatBits(cf, bits)
  BY <1>1, <1>3, <1>6 DEF FlatBits, C!SyncReqBits
<1>10. ServerNew(sf, new)
  <2>1. Names(sf) = {"uid", "last_sync_key"}
    BY <1>1, <1>2, <1>6 DEF Names
  <2>2. \A i \in 1..2 : new[sf[i].name] = Default(sf[i].type)
    BY <1>2, <1>5, <1>6
  <2>. QED BY <1>1, <1>4, <2>1, <2>2 DEF ServerNew
<1>. QED BY <1>7, <1>8, <1>9, <1>10 DEF FlatSame, sf, cf, new, bits

LEMMA SyncRespSame == SameFields(S!SyncResp, S!NewSyncResp, C!SyncResp, C!SyncRespBits)
<1>. DEFINE sf == S!SyncResp
            cf == C!SyncResp
            new == S!NewSyncResp
            bits == C!SyncRespBits
<1>1. Len(sf) = 3 /\ DOMAIN sf = 1..3 /\ Len(cf) = 3 /\ DOMAIN cf = 1..3
  BY DEF S!SyncResp, C!SyncResp
<1>2. /\ sf[1] = [name |-> "success", num |-> 1, type |-> "bool"]
      /\ sf[2] = [name |-> "messages", num |-> 2, type |-> "repeated",
               of |-> S!OneChatRequest, new |-> S!NewOneChatRequest]
      /\ sf[3] = [name |-> "new_sync_key", num |-> 3, type |-> "int64"]
  BY DEF S!SyncResp, S!Bool, S!Repeated, S!Int64, S!Nested, S!Field
<1>3. /\ cf[1] = [name |-> "success", num |-> 1, bit |-> 2, type |-> "bool"]
      /\ cf[2] = [name |-> "messages", num |-> 2, bit |-> 0, type |-> "repeated",
               of |-> C!OneChatRequest, bits |-> C!OneChatRequestBits]
      /\ cf[3] = [name |-> "new_sync_key", num |-> 3, bit |-> 1, type |-> "int64"]
  BY DEF C!SyncResp, C!Bool, C!Repeated, C!Int64, C!Nested, C!Field
<1>4. DOMAIN new = {"success", "messages", "new_sync_key"} /\ new = [n \in DOMAIN new |-> new[n]]
  BY DEF S!NewSyncResp
<1>5. /\ new["success"] = Default("bool")
      /\ new["messages"] = Default("repeated")
      /\ new["new_sync_key"] = Default("int64")
  BY DEF S!NewSyncResp, Default, IsNested
<1>. HIDE DEF sf, cf, new
<1>6. \A i \in 1..3 : i = 1 \/ i = 2 \/ i = 3
  OBVIOUS
<1>7. ServerFields(sf)
  <2>1. Distinct(sf)
    BY <1>1, <1>2, <1>6 DEF Distinct
  <2>2. \A i \in 1..3 : IsNested(sf[i].type) => FlatSchema(sf[i].of) /\ ServerNew(sf[i].of, sf[i].new)
    BY <1>2, <1>6, OneChatRequestFlat DEF FlatSame, IsNested
  <2>3. \A i \in 1..3 : ~IsNested(sf[i].type) => sf[i].type \in ScalarTypes
    BY <1>2, <1>6 DEF IsNested, ScalarTypes
  <2>. QED BY <1>1, <2>1, <2>2, <2>3 DEF ServerFields, Schema
<1>8. FlatAlike(sf, cf)
  BY <1>1, <1>2, <1>3, <1>6 DEF FlatAlike
<1>9. FlatBits(cf, bits)
  BY <1>1, <1>3, <1>6 DEF FlatBits, C!SyncRespBits
<1>10. ServerNew(sf, new)
  <2>1. Names(sf) = {"success", "messages", "new_sync_key"}
    BY <1>1, <1>2, <1>6 DEF Names
  <2>2. \A i \in 1..3 : new[sf[i].name] = Default(sf[i].type)
    BY <1>2, <1>5, <1>6
  <2>. QED BY <1>1, <1>4, <2>1, <2>2 DEF ServerNew
<1>11. \A i \in 1..3 : IsNested(sf[i].type) => FlatAlike(sf[i].of, cf[i].of) /\ FlatBits(cf[i].of, cf[i].bits)
  BY <1>2, <1>3, <1>6, OneChatRequestFlat DEF FlatSame, IsNested
<1>12. \A i \in 1..3 : cf[i].type = sf[i].type
  BY <1>1, <1>8 DEF FlatAlike
<1>. QED BY <1>1, <1>7, <1>8, <1>9, <1>10, <1>11, <1>12 DEF SameFields, Alike, Bits, sf, cf, new, bits

----------------------------------------------------------------------------
\* The entries of the two tables, by the name of the message.
SameType(type) == SameMessage(S!Codec[type], C!Codec[type])

LEMMA Types ==
    DOMAIN S!Codec =
        {"LoginRequest", "FriendInfo", "FriendRequestNotify", "LoginResponse", "RegRequest",
         "RegResponse", "OneChatRequest", "MsgSendAck", "MsgRecvAck", "AddFriendReq",
         "AddFriendResp", "ProcessFriendReq", "ProcessFriendResp", "UserStatusNotify",
         "AddFriendSuccessNotify", "SyncReq", "SyncResp"}
BY DEF S!Codec

LEMMA SameTypes == \A type \in DOMAIN S!Codec : SameType(type)
<1>1. SameType("LoginRequest")
  <2>1. S!Codec["LoginRequest"] = [fields |-> S!LoginRequest, new |-> S!NewLoginRequest]
    BY DEF S!Codec
  <2>2. C!Codec["LoginRequest"] = [fields |-> C!LoginRequest, bits |-> C!LoginRequestBits]
    BY DEF C!Codec
  <2>3. SameFields(S!LoginRequest, S!NewLoginRequest, C!LoginRequest, C!LoginRequestBits)
    BY LoginRequestSame, FlatSameFields
  <2>. QED BY <2>1, <2>2, <2>3 DEF SameType, SameMessage
<1>2. SameType("FriendInfo")
  <2>1. S!Codec["FriendInfo"] = [fields |-> S!FriendInfo, new |-> S!NewFriendInfo]
    BY DEF S!Codec
  <2>2. C!Codec["FriendInfo"] = [fields |-> C!FriendInfo, bits |-> C!FriendInfoBits]
    BY DEF C!Codec
  <2>3. SameFields(S!FriendInfo, S!NewFriendInfo, C!FriendInfo, C!FriendInfoBits)
    BY FriendInfoFlat, FlatSameFields
  <2>. QED BY <2>1, <2>2, <2>3 DEF SameType, SameMessage
<1>3. SameType("FriendRequestNotify")
  <2>1. S!Codec["FriendRequestNotify"] = [fields |-> S!FriendRequestNotify, new |-> S!NewFriendRequestNotify]
    BY DEF S!Codec
  <2>2. C!Codec["FriendRequestNotify"] = [fields |-> C!FriendRequestNotify, bits |-> C!FriendRequestNotifyBits]
    BY DEF C!Codec
  <2>3. SameFields(S!FriendRequestNotify, S!NewFriendRequestNotify, C!FriendRequestNotify, C!FriendRequestNotifyBits)
    BY FriendRequestNotifyFlat, FlatSameFields
  <2>. QED BY <2>1, <2>2, <2>3 DEF SameType, SameMessage
<1>4. SameType("LoginResponse")
  <2>1. S!Codec["LoginResponse"] = [fields |-> S!LoginResponse, new |-> S!NewLoginResponse]
    BY DEF S!Codec
  <2>2. C!Codec["LoginResponse"] = [fields |-> C!LoginResponse, bits |-> C!LoginResponseBits]
    BY DEF C!Codec
  <2>3. SameFields(S!LoginResponse, S!NewLoginResponse, C!LoginResponse, C!LoginResponseBits)
    BY LoginResponseSame
  <2>. QED BY <2>1, <2>2, <2>3 DEF SameType, SameMessage
<1>5. SameType("RegRequest")
  <2>1. S!Codec["RegRequest"] = [fields |-> S!RegRequest, new |-> S!NewRegRequest]
    BY DEF S!Codec
  <2>2. C!Codec["RegRequest"] = [fields |-> C!RegRequest, bits |-> C!RegRequestBits]
    BY DEF C!Codec
  <2>3. SameFields(S!RegRequest, S!NewRegRequest, C!RegRequest, C!RegRequestBits)
    BY RegRequestSame, FlatSameFields
  <2>. QED BY <2>1, <2>2, <2>3 DEF SameType, SameMessage
<1>6. SameType("RegResponse")
  <2>1. S!Codec["RegResponse"] = [fields |-> S!RegResponse, new |-> S!NewRegResponse]
    BY DEF S!Codec
  <2>2. C!Codec["RegResponse"] = [fields |-> C!RegResponse, bits |-> C!RegResponseBits]
    BY DEF C!Codec
  <2>3. SameFields(S!RegResponse, S!NewRegResponse, C!RegResponse, C!RegResponseBits)
    BY RegResponseSame, FlatSameFields
  <2>. QED BY <2>1, <2>2, <2>3 DEF SameType, SameMessage
<1>7. SameType("OneChatRequest")
  <2>1. S!Codec["OneChatRequest"] = [fields |-> S!OneChatRequest, new |-> S!NewOneChatRequest]
    BY DEF S!Codec
  <2>2. C!Codec["OneChatRequest"] = [fields |-> C!OneChatRequest, bits |-> C!OneChatRequestBits]
    BY DEF C!Codec
  <2>3. SameFields(S!OneChatRequest, S!NewOneChatRequest, C!OneChatRequest, C!OneChatRequestBits)
    BY OneChatRequestFlat, FlatSameFields
  <2>. QED BY <2>1, <2>2, <2>3 DEF SameType, SameMessage
<1>8. SameType("MsgSendAck")
  <2>1. S!Codec["MsgSendAck"] = [fields |-> S!MsgSendAck, new |-> S!NewMsgSendAck]
    BY DEF S!Codec
  <2>2. C!Codec["MsgSendAck"] = [fields |-> C!MsgSendAck, bits |-> C!MsgSendAckBits]
    BY DEF C!Codec
  <2>3. SameFields(S!MsgSendAck, S!NewMsgSendAck, C!MsgSendAck, C!MsgSendAckBits)
    BY MsgSendAckSame, FlatSameFields
  <2>. QED BY <2>1, <2>2, <2>3 DEF SameType, SameMessage
<1>9. SameType("MsgRecvAck")
  <2>1. S!Codec["MsgRecvAck"] = [fields |-> S!MsgRecvAck, new |-> S!NewMsgRecvAck]
    BY DEF S!Codec
  <2>2. C!Codec["MsgRecvAck"] = [fields |-> C!MsgRecvAck, bits |-> C!MsgRecvAckBits]
    BY DEF C!Codec
  <2>3. SameFields(S!MsgRecvAck, S!NewMsgRecvAck, C!MsgRecvAck, C!MsgRecvAckBits)
    BY MsgRecvAckSame, FlatSameFields
  <2>. QED BY <2>1, <2>2, <2>3 DEF SameType, SameMessage
<1>10. SameType("AddFriendReq")
  <2>1. S!Codec["AddFriendReq"] = [fields |-> S!AddFriendReq, new |-> S!NewAddFriendReq]
    BY DEF S!Codec
  <2>2. C!Codec["AddFriendReq"] = [fields |-> C!AddFriendReq, bits |-> C!AddFriendReqBits]
    BY DEF C!Codec
  <2>3. SameFields(S!AddFriendReq, S!NewAddFriendReq, C!AddFriendReq, C!AddFriendReqBits)
    BY AddFriendReqSame, FlatSameFields
  <2>. QED BY <2>1, <2>2, <2>3 DEF SameType, SameMessage
<1>11. SameType("AddFriendResp")
  <2>1. S!Codec["AddFriendResp"] = [fields |-> S!AddFriendResp, new |-> S!NewAddFriendResp]
    BY DEF S!Codec
  <2>2. C!Codec["AddFriendResp"] = [fields |-> C!AddFriendResp, bits |-> C!AddFriendRespBits]
    BY DEF C!Codec
  <2>3. SameFields(S!AddFriendResp, S!NewAddFriendResp, C!AddFriendResp, C!AddFriendRespBits)
    BY AddFriendRespSame, FlatSameFields
  <2>. QED BY <2>1, <2>2, <2>3 DEF SameType, SameMessage
<1>12. SameType("ProcessFriendReq")
  <2>1. S!Codec["ProcessFriendReq"] = [fields |-> S!ProcessFriendReq, new |-> S!NewProcessFriendReq]
    BY DEF S!Codec
  <2>2. C!Codec["ProcessFriendReq"] = [fields |-> C!ProcessFriendReq, bits |-> C!ProcessFriendReqBits]
    BY DEF C!Codec
  <2>3. SameFields(S!ProcessFriendReq, S!NewProcessFriendReq, C!ProcessFriendReq, C!ProcessFriendReqBits)
    BY ProcessFriendReqSame, FlatSameFields
  <2>. QED BY <2>1, <2>2, <2>3 DEF SameType, SameMessage
<1>13. SameType("ProcessFriendResp")
  <2>1. S!Codec["ProcessFriendResp"] = [fields |-> S!ProcessFriendResp, new |-> S!NewProcessFriendResp]
    BY DEF S!Codec
  <2>2. C!Codec["ProcessFriendResp"] = [fields |-> C!ProcessFriendResp, bits |-> C!ProcessFriendRespBits]
    BY DEF C!Codec
  <2>3. SameFields(S!ProcessFriendResp, S!NewProcessFriendResp, C!ProcessFriendResp, C!ProcessFriendRespBits)
    BY ProcessFriendRespSame
  <2>. QED BY <2>1, <2>2, <2>3 DEF SameType, SameMessage
<1>14. SameType("UserStatusNotify")
  <2>1. S!Codec["UserStatusNotify"] = [fields |-> S!UserStatusNotify, new |-> S!NewUserStatusNotify]
    BY DEF S!Codec
  <2>2. C!Codec["UserStatusNotify"] = [fields |-> C!UserStatusNotify, bits |-> C!UserStatusNotifyBits]
    BY DEF C!Codec
  <2>3. SameFields(S!UserStatusNotify, S!NewUserStatusNotify, C!UserStatusNotify, C!UserStatusNotifyBits)
    BY UserStatusNotifySame, FlatSameFields
  <2>. QED BY <2>1, <2>2, <2>3 DEF SameType, SameMessage
<1>15. SameType("AddFriendSuccessNotify")
  <2>1. S!Codec["AddFriendSuccessNotify"] = [fields |-> S!AddFriendSuccessNotify, new |-> S!NewAddFriendSuccessNotify]
    BY DEF S!Codec
  <2>2. C!Codec["AddFriendSuccessNotify"] = [fields |-> C!AddFriendSuccessNotify, bits |-> C!AddFriendSuccessNotifyBits]
    BY DEF C!Codec
  <2>3. SameFields(S!AddFriendSuccessNotify, S!NewAddFriendSuccessNotify, C!AddFriendSuccessNotify, C!AddFriendSuccessNotifyBits)
    BY AddFriendSuccessNotifySame
  <2>. QED BY <2>1, <2>2, <2>3 DEF SameType, SameMessage
<1>16. SameType("SyncReq")
  <2>1. S!Codec["SyncReq"] = [fields |-> S!SyncReq, new |-> S!NewSyncReq]
    BY DEF S!Codec
  <2>2. C!Codec["SyncReq"] = [fields |-> C!SyncReq, bits |-> C!SyncReqBits]
    BY DEF C!Codec
  <2>3. SameFields(S!SyncReq, S!NewSyncReq, C!SyncReq, C!SyncReqBits)
    BY SyncReqSame, FlatSameFields
  <2>. QED BY <2>1, <2>2, <2>3 DEF SameType, SameMessage
<1>17. SameType("SyncResp")
  <2>1. S!Codec["SyncResp"] = [fields |-> S!SyncResp, new |-> S!NewSyncResp]
    BY DEF S!Codec
  <2>2. C!Codec["SyncResp"] = [fields |-> C!SyncResp, bits |-> C!SyncRespBits]
    BY DEF C!Codec
  <2>3. SameFields(S!SyncResp, S!NewSyncResp, C!SyncResp, C!SyncRespBits)
    BY SyncRespSame
  <2>. QED BY <2>1, <2>2, <2>3 DEF SameType, SameMessage
<1>. QED BY Types, <1>1, <1>2, <1>3, <1>4, <1>5, <1>6, <1>7, <1>8, <1>9, <1>10, <1>11, <1>12, <1>13, <1>14, <1>15, <1>16, <1>17
----------------------------------------------------------------------------
(***************************************************************************)
(* The values of the two properties of Protocol are values of its messages.*)
(***************************************************************************)
IdNumbers == {n \in Nat : 2 * (n + 1) < Word64}
Texts == {"", "text", "other", BadText}

LEMMA PickFacts ==
    ASSUME NEW a, NEW b, NEW c, NEW d, NEW n \in Int
    PROVE  Pick(<<a, b, c, d>>, n) \in {a, b, c, d}
<1>1. 1 + (n % 4) \in 1..4
  OBVIOUS
<1>2. PICK i \in 1..4 : i = 1 + (n % 4)
  BY <1>1
<1>3. Pick(<<a, b, c, d>>, n) = <<a, b, c, d>>[i]
  BY <1>2 DEF Pick
<1>4. i = 1 \/ i = 2 \/ i = 3 \/ i = 4
  OBVIOUS
<1>. QED BY <1>3, <1>4

LEMMA SmallNumbers ==
    /\ {0, 1, 2, -1} \subseteq Numbers(Word32) /\ {0, -1} \subseteq Numbers(Word64)
    /\ \A id \in IdNumbers : id \in Numbers(Word64) /\ id + 1 \in Numbers(Word64)
BY WordFacts DEF Numbers, IdNumbers

LEMMA SampleFits ==
    ASSUME NEW type \in ScalarTypes, NEW n \in Int, NEW id \in IdNumbers
    PROVE  Sample(type, n, id) \in Scalars(type, Texts)
<1>1. CASE type = "int32"
  <2>1. Sample(type, n, id) = Pick(<<0, 1, 2, -1>>, n)
    BY <1>1 DEF Sample
  <2>2. Pick(<<0, 1, 2, -1>>, n) \in {0, 1, 2, -1}
    BY PickFacts
  <2>. QED BY <1>1, <2>1, <2>2, SmallNumbers DEF Scalars
<1>2. CASE type = "int64"
  <2>1. Sample(type, n, id) = Pick(<<0, id, -1, id + 1>>, n)
    BY <1>2 DEF Sample
  <2>2. Pick(<<0, id, -1, id + 1>>, n) \in {0, id, -1, id + 1}
    BY PickFacts
  <2>. QED BY <1>2, <2>1, <2>2, SmallNumbers DEF Scalars
<1>3. CASE type = "bool"
  BY <1>3 DEF Sample, Scalars
<1>4. CASE type = "string"
  <2>1. Sample(type, n, id) = Pick(<<"", "text", "other", BadText>>, n)
    BY <1>4 DEF Sample
  <2>2. Pick(<<"", "text", "other", BadText>>, n) \in {"", "text", "other", BadText}
    BY PickFacts
  <2>. QED BY <1>4, <2>1, <2>2 DEF Scalars, Texts
<1>. QED BY <1>1, <1>2, <1>3, <1>4 DEF ScalarTypes

LEMMA ScalarsAreValues ==
    \A type \in ScalarTypes : Scalars(type, Texts) \subseteq Int \cup BOOLEAN \cup Texts
BY DEF ScalarTypes, Scalars, Numbers

LEMMA FilledFlatFits ==
    ASSUME NEW fs, FlatSchema(fs), NEW k \in Int, NEW id \in IdNumbers
    PROVE  FilledFlat(fs, k, id) \in FlatValues(fs, Texts)
<1>. DEFINE Value(n) == Sample(FieldNamed(fs, n).type, k + FieldNamed(fs, n).num, id)
            v == FilledFlat(fs, k, id)
<1>1. v = [n \in Names(fs) |-> Value(n)]
  BY DEF FilledFlat
<1>2. Distinct(fs)
  BY DEF FlatSchema
<1>3. ASSUME NEW i \in 1..Len(fs)
      PROVE  fs[i].name \in Names(fs) /\ Value(fs[i].name) \in Scalars(fs[i].type, Texts)
  <2>1. fs[i].name \in Names(fs) /\ FieldNamed(fs, fs[i].name) = fs[i]
    BY <1>2, NameField
  <2>2. fs[i].type \in ScalarTypes /\ k + fs[i].num \in Int
    BY <1>2 DEF FlatSchema, Distinct
  <2>3. Sample(fs[i].type, k + fs[i].num, id) \in Scalars(fs[i].type, Texts)
    BY <2>2, SampleFits
  <2>. QED BY <2>1, <2>3
<1>. HIDE DEF Value, v
<1>4. \A n \in Names(fs) : Value(n) \in Int \cup BOOLEAN \cup Texts
  <2>1. \A i \in 1..Len(fs) : fs[i].type \in ScalarTypes
    BY DEF FlatSchema
  <2>. QED BY <1>2, <1>3, <2>1, FieldOfName, ScalarsAreValues
<1>5. v \in [Names(fs) -> Int \cup BOOLEAN \cup Texts]
  BY <1>1, <1>4
<1>6. \A i \in 1..Len(fs) : v[fs[i].name] \in Scalars(fs[i].type, Texts)
  BY <1>1, <1>3
<1>. QED BY <1>5, <1>6 DEF FlatValues, v

LEMMA FilledFits ==
    ASSUME NEW fs, Schema(fs), NEW k \in Int, NEW id \in IdNumbers
    PROVE  IsValue(fs, Texts, Filled(fs, k, id))
<1>. DEFINE Count(f) == (k + f.num) % (IF f.type = "message" THEN 2 ELSE 3)
            Value(f) == IF IsNested(f.type)
                        THEN [j \in 1..Count(f) |-> FilledFlat(f.of, k + j, id)]
                        ELSE Sample(f.type, k + f.num, id)
            v == Filled(fs, k, id)
<1>1. v = [n \in Names(fs) |-> Value(FieldNamed(fs, n))]
  BY DEF Filled
<1>2. Distinct(fs)
  BY DEF Schema
<1>3. ASSUME NEW i \in 1..Len(fs) PROVE Value(fs[i]) \in FieldValues(fs[i], Texts)
  <2>. DEFINE f == fs[i]
  <2>1. f.num \in Nat /\ IF IsNested(f.type) THEN FlatSchema(f.of) ELSE f.type \in ScalarTypes
    BY <1>2 DEF Schema, Distinct
  <2>. HIDE DEF f
  <2>2. CASE IsNested(f.type)
    <3>. DEFINE c == Count(f)
    <3>1. f.type = "message" \/ f.type = "repeated"
      BY <2>2, TypeFacts
    <3>2. c \in Nat /\ (f.type = "message" => c <= 1)
      BY <2>1
    <3>3. Value(f) = [j \in 1..c |-> FilledFlat(f.of, k + j, id)]
      BY <2>2
    <3>. HIDE DEF c, Value
    <3>4. \A j \in 1..c : FilledFlat(f.of, k + j, id) \in FlatValues(f.of, Texts)
      <4>. TAKE j \in 1..c
      <4>1. PICK m \in Int : m = k + j
        OBVIOUS
      <4>. QED BY <2>1, <2>2, <4>1, FilledFlatFits
    <3>5. Value(f) \in Seq(FlatValues(f.of, Texts)) /\ Len(Value(f)) = c
      BY <3>2, <3>3, <3>4
    <3>. QED BY <3>1, <3>2, <3>5 DEF FieldValues, f
  <2>3. CASE ~IsNested(f.type)
    <3>1. Value(f) = Sample(f.type, k + f.num, id)
      BY <2>3
    <3>. HIDE DEF Value
    <3>2. Value(f) \in Scalars(f.type, Texts)
      <4>1. PICK m \in Int : m = k + f.num
        BY <2>1
      <4>. QED BY <2>1, <2>3, <3>1, <4>1, SampleFits
    <3>3. f.type # "message" /\ f.type # "repeated"
      BY <2>3, TypeFacts
    <3>. QED BY <3>2, <3>3 DEF FieldValues, f
  <2>. QED BY <2>2, <2>3
<1>. HIDE DEF Value, v
<1>4. \A i \in 1..Len(fs) : v[fs[i].name] \in FieldValues(fs[i], Texts)
  <2>1. \A i \in 1..Len(fs) : fs[i].name \in Names(fs) /\ FieldNamed(fs, fs[i].name) = fs[i]
    BY <1>2, NameField
  <2>. QED BY <1>1, <1>3, <2>1
<1>. QED BY <1>1, <1>4 DEF IsValue, v

\* The whole of a number and the part below it.
LEMMA DivBack ==
    ASSUME NEW d \in Nat \ {0}, NEW t \in Nat, NEW r \in 0..(d - 1)
    PROVE  (t * d + r) \div d = t
<1>1. t * d \in Nat
  OBVIOUS
<1>. QED BY <1>1

\* An id of a running client: it fits into an int64, and shows its millisecond.
LEMMA IdFacts ==
    ASSUME IInv, NEW c \in Clients, lastId[c] # -1
    PROVE  lastId[c] \in IdNumbers /\ lastTimestamp[c] \in Nat /\ TimeShown(lastId[c]) = lastTimestamp[c]
<1>. DEFINE t == lastTimestamp[c]
            q == LastSeq(c)
            top == Compose(MaxClock, SeqSize - 1)
<1>1. t \in Nat /\ lastId[c] = Compose(t, q)
  BY DEF IInv, ClientInv, LastIdOf
<1>2. t \in 0..MaxClock /\ q \in 0..(SeqSize - 1) /\ MaxClock \in Nat /\ SeqSize - 1 \in Nat
  BY <1>1, SizesAssumption, ClockAssumption DEF IInv, IdTypeOK, LastSeq
<1>. HIDE DEF t, q
<1>3. Compose(t, q) \in Nat /\ top \in Nat
  <2>1. q \in Nat
    BY <1>2
  <2>2. Compose(t, q) \in Nat
    BY <1>1, <2>1, ComposeType
  <2>3. top \in Nat
    BY <1>2, ComposeType
  <2>. QED BY <2>2, <2>3
<1>4. Compose(t, q) <= top
  <2>0. \A s \in 0..(SeqSize - 1) : Compose(MaxClock, s) <= top
    <3>. TAKE s \in 0..(SeqSize - 1)
    <3>1. CASE s = SeqSize - 1
      BY <1>3, <3>1
    <3>2. CASE s # SeqSize - 1
      <4>1. s \in Nat /\ s < SeqSize - 1
        BY <1>2, <3>2
      <4>2. Compose(MaxClock, s) < top /\ Compose(MaxClock, s) \in Nat
        BY <1>2, <4>1, ComposeNext, ComposeType
      <4>. QED BY <1>3, <4>2
    <3>. QED BY <3>1, <3>2
  <2>1. CASE t = MaxClock
    BY <1>2, <2>0, <2>1
  <2>2. CASE t # MaxClock
    <3>1. t < MaxClock
      BY <1>2, <2>2
    <3>2. Compose(t, q) < Compose(MaxClock, 0)
      BY <1>1, <1>2, <3>1, ComposeLater
    <3>3. Compose(MaxClock, 0) <= top /\ Compose(MaxClock, 0) \in Nat
      BY <1>2, <2>0, ComposeType
    <3>. QED BY <1>3, <3>2, <3>3
  <2>. QED BY <2>1, <2>2
<1>5. lastId[c] \in IdNumbers
  BY <1>1, <1>3, <1>4, IdsAssumption, WordFacts DEF IdNumbers
<1>6. TimeShown(lastId[c]) = t
  <2>. DEFINE d == WorkerSize * SeqSize
  <2>1. d \in Nat \ {0} /\ SeqSize + q \in 0..(d - 1)
    <3>1. PICK w \in Nat : WorkerSize = w + 2
      <4>1. WorkerSize - 2 \in Nat /\ WorkerSize = WorkerSize - 2 + 2
        BY SizesAssumption
      <4>. QED BY <4>1
    <3>2. w * SeqSize \in Nat /\ d = w * SeqSize + 2 * SeqSize
      BY <3>1, SizesAssumption
    <3>. HIDE DEF d
    <3>. QED BY <1>2, <3>2, SizesAssumption
  <2>2. Compose(t, q) = t * d + (SeqSize + q)
    BY <1>1, <1>2, SizesAssumption DEF Compose, kWorkerId
  <2>. HIDE DEF d
  <2>3. PICK r \in 0..(d - 1) : r = SeqSize + q
    BY <2>1
  <2>4. (t * d + r) \div d = t
    BY <1>1, <2>1, DivBack
  <2>. QED BY <1>1, <2>2, <2>3, <2>4 DEF TimeShown, d
<1>. QED BY <1>1, <1>5, <1>6 DEF t
----------------------------------------------------------------------------
\* A message with values the reader accepts.
Fits(fs, v) == IsValue(fs, Texts, v) /\ Legible(fs, v)

OfType(type, x) == x \in Scalars(type, Texts) /\ (type = "string" => x # BadText)

FitsFlat(fs, v) ==
    /\ FlatSchema(fs) /\ v = [n \in Names(fs) |-> v[n]]
    /\ \A i \in 1..Len(fs) : OfType(fs[i].type, v[fs[i].name])

LEMMA FlatFits ==
    ASSUME NEW fs, NEW v, FitsFlat(fs, v)
    PROVE  Fits(fs, v) /\ LegibleFlat(fs, v) /\ v \in FlatValues(fs, Texts)
<1>1. /\ FlatSchema(fs) /\ Distinct(fs) /\ DOMAIN fs = 1..Len(fs) /\ v = [n \in Names(fs) |-> v[n]]
      /\ \A i \in 1..Len(fs) : /\ v[fs[i].name] \in Scalars(fs[i].type, Texts)
                               /\ fs[i].type = "string" => v[fs[i].name] # BadText
  BY DEF FitsFlat, FlatSchema, Distinct, OfType
<1>2. \A i \in 1..Len(fs) : /\ fs[i].type \in ScalarTypes /\ ~IsNested(fs[i].type)
                           /\ fs[i].type # "message" /\ fs[i].type # "repeated"
  BY <1>1, TypeFacts DEF FlatSchema
<1>3. IsValue(fs, Texts, v)
  BY <1>1, <1>2 DEF IsValue, FieldValues
<1>4. LegibleFlat(fs, v)
  BY <1>1 DEF LegibleFlat
<1>5. v \in FlatValues(fs, Texts)
  <2>1. \A n \in Names(fs) : v[n] \in Int \cup BOOLEAN \cup Texts
    BY <1>1, <1>2, FieldOfName, ScalarsAreValues
  <2>2. v \in [Names(fs) -> Int \cup BOOLEAN \cup Texts]
    BY <1>1, <2>1
  <2>. QED BY <1>1, <2>2 DEF FlatValues
<1>. QED BY <1>1, <1>2, <1>3, <1>4, <1>5 DEF Fits, Legible

LEMMA ValueFacts ==
    /\ OfType("int32", Sender) /\ OfType("int32", Receiver) /\ OfType("bool", TRUE)
    /\ \A id \in IdNumbers : OfType("int64", id)
    /\ OfType("string", "text") /\ OfType("string", "")
BY SmallNumbers, TextAssumption, SampleAssumption DEF OfType, Scalars, Texts, Sender, Receiver

ChatValues(id) == [from_id |-> Sender, to_id |-> Receiver, msg |-> "text", msg_id |-> id]

LEMMA ChatFits == \A id \in IdNumbers : FitsFlat(S!OneChatRequest, ChatValues(id))
<1>. SUFFICES ASSUME NEW id \in IdNumbers PROVE FitsFlat(S!OneChatRequest, ChatValues(id))
  OBVIOUS
<1>. DEFINE sf == S!OneChatRequest
            v == ChatValues(id)
<1>1. FlatSchema(sf)
  BY OneChatRequestFlat DEF FlatSame
<1>2. Len(sf) = 4 /\ DOMAIN sf = 1..4
  BY DEF S!OneChatRequest
<1>3. /\ sf[1].name = "from_id" /\ sf[1].type = "int32"
      /\ sf[2].name = "to_id" /\ sf[2].type = "int32"
      /\ sf[3].name = "msg" /\ sf[3].type = "string"
      /\ sf[4].name = "msg_id" /\ sf[4].type = "int64"
  BY DEF S!OneChatRequest, S!Int32, S!String, S!Int64, S!Field
<1>4. /\ v["from_id"] = Sender
      /\ v["to_id"] = Receiver
      /\ v["msg"] = "text"
      /\ v["msg_id"] = id
  BY DEF ChatValues
<1>5. DOMAIN v = {"from_id", "to_id", "msg", "msg_id"} /\ v = [n \in DOMAIN v |-> v[n]]
  BY DEF ChatValues
<1>. HIDE DEF sf, v
<1>6. \A i \in 1..4 : i = 1 \/ i = 2 \/ i = 3 \/ i = 4
  OBVIOUS
<1>7. Names(sf) = DOMAIN v
  BY <1>2, <1>3, <1>5, <1>6 DEF Names
<1>8. \A i \in 1..4 : OfType(sf[i].type, v[sf[i].name])
  <2>1. OfType("int32", v["from_id"])
    BY <1>4, ValueFacts
  <2>2. OfType("int32", v["to_id"])
    BY <1>4, ValueFacts
  <2>3. OfType("string", v["msg"])
    BY <1>4, ValueFacts
  <2>4. OfType("int64", v["msg_id"])
    BY <1>4, ValueFacts
  <2>. QED BY <1>3, <1>6, <2>1, <2>2, <2>3, <2>4
<1>. QED BY <1>1, <1>2, <1>5, <1>7, <1>8 DEF FitsFlat, sf, v

SendAckValues(id) == [msg_id |-> id, success |-> TRUE, err_msg |-> ""]

LEMMA SendAckFits == \A id \in IdNumbers : FitsFlat(S!MsgSendAck, SendAckValues(id))
<1>. SUFFICES ASSUME NEW id \in IdNumbers PROVE FitsFlat(S!MsgSendAck, SendAckValues(id))
  OBVIOUS
<1>. DEFINE sf == S!MsgSendAck
            v == SendAckValues(id)
<1>1. FlatSchema(sf)
  BY MsgSendAckSame DEF FlatSame
<1>2. Len(sf) = 3 /\ DOMAIN sf = 1..3
  BY DEF S!MsgSendAck
<1>3. /\ sf[1].name = "msg_id" /\ sf[1].type = "int64"
      /\ sf[2].name = "success" /\ sf[2].type = "bool"
      /\ sf[3].name = "err_msg" /\ sf[3].type = "string"
  BY DEF S!MsgSendAck, S!Int64, S!Bool, S!String, S!Field
<1>4. /\ v["msg_id"] = id
      /\ v["success"] = TRUE
      /\ v["err_msg"] = ""
  BY DEF SendAckValues
<1>5. DOMAIN v = {"msg_id", "success", "err_msg"} /\ v = [n \in DOMAIN v |-> v[n]]
  BY DEF SendAckValues
<1>. HIDE DEF sf, v
<1>6. \A i \in 1..3 : i = 1 \/ i = 2 \/ i = 3
  OBVIOUS
<1>7. Names(sf) = DOMAIN v
  BY <1>2, <1>3, <1>5, <1>6 DEF Names
<1>8. \A i \in 1..3 : OfType(sf[i].type, v[sf[i].name])
  <2>1. OfType("int64", v["msg_id"])
    BY <1>4, ValueFacts
  <2>2. OfType("bool", v["success"])
    BY <1>4, ValueFacts
  <2>3. OfType("string", v["err_msg"])
    BY <1>4, ValueFacts
  <2>. QED BY <1>3, <1>6, <2>1, <2>2, <2>3
<1>. QED BY <1>1, <1>2, <1>5, <1>7, <1>8 DEF FitsFlat, sf, v

RecvAckValues(id) == [msg_id |-> id, from_id |-> Sender, to_id |-> Receiver]

LEMMA RecvAckFits == \A id \in IdNumbers : FitsFlat(S!MsgRecvAck, RecvAckValues(id))
<1>. SUFFICES ASSUME NEW id \in IdNumbers PROVE FitsFlat(S!MsgRecvAck, RecvAckValues(id))
  OBVIOUS
<1>. DEFINE sf == S!MsgRecvAck
            v == RecvAckValues(id)
<1>1. FlatSchema(sf)
  BY MsgRecvAckSame DEF FlatSame
<1>2. Len(sf) = 3 /\ DOMAIN sf = 1..3
  BY DEF S!MsgRecvAck
<1>3. /\ sf[1].name = "msg_id" /\ sf[1].type = "int64"
      /\ sf[2].name = "from_id" /\ sf[2].type = "int32"
      /\ sf[3].name = "to_id" /\ sf[3].type = "int32"
  BY DEF S!MsgRecvAck, S!Int64, S!Int32, S!Field
<1>4. /\ v["msg_id"] = id
      /\ v["from_id"] = Sender
      /\ v["to_id"] = Receiver
  BY DEF RecvAckValues
<1>5. DOMAIN v = {"msg_id", "from_id", "to_id"} /\ v = [n \in DOMAIN v |-> v[n]]
  BY DEF RecvAckValues
<1>. HIDE DEF sf, v
<1>6. \A i \in 1..3 : i = 1 \/ i = 2 \/ i = 3
  OBVIOUS
<1>7. Names(sf) = DOMAIN v
  BY <1>2, <1>3, <1>5, <1>6 DEF Names
<1>8. \A i \in 1..3 : OfType(sf[i].type, v[sf[i].name])
  <2>1. OfType("int64", v["msg_id"])
    BY <1>4, ValueFacts
  <2>2. OfType("int32", v["from_id"])
    BY <1>4, ValueFacts
  <2>3. OfType("int32", v["to_id"])
    BY <1>4, ValueFacts
  <2>. QED BY <1>3, <1>6, <2>1, <2>2, <2>3
<1>. QED BY <1>1, <1>2, <1>5, <1>7, <1>8 DEF FitsFlat, sf, v

NextSyncValues(id) == [uid |-> Receiver, last_sync_key |-> id]

LEMMA NextSyncFits == \A id \in IdNumbers : FitsFlat(S!SyncReq, NextSyncValues(id))
<1>. SUFFICES ASSUME NEW id \in IdNumbers PROVE FitsFlat(S!SyncReq, NextSyncValues(id))
  OBVIOUS
<1>. DEFINE sf == S!SyncReq
            v == NextSyncValues(id)
<1>1. FlatSchema(sf)
  BY SyncReqSame DEF FlatSame
<1>2. Len(sf) = 2 /\ DOMAIN sf = 1..2
  BY DEF S!SyncReq
<1>3. /\ sf[1].name = "uid" /\ sf[1].type = "int32"
      /\ sf[2].name = "last_sync_key" /\ sf[2].type = "int64"
  BY DEF S!SyncReq, S!Int32, S!Int64, S!Field
<1>4. /\ v["uid"] = Receiver
      /\ v["last_sync_key"] = id
  BY DEF NextSyncValues
<1>5. DOMAIN v = {"uid", "last_sync_key"} /\ v = [n \in DOMAIN v |-> v[n]]
  BY DEF NextSyncValues
<1>. HIDE DEF sf, v
<1>6. \A i \in 1..2 : i = 1 \/ i = 2
  OBVIOUS
<1>7. Names(sf) = DOMAIN v
  BY <1>2, <1>3, <1>5, <1>6 DEF Names
<1>8. \A i \in 1..2 : OfType(sf[i].type, v[sf[i].name])
  <2>1. OfType("int32", v["uid"])
    BY <1>4, ValueFacts
  <2>2. OfType("int64", v["last_sync_key"])
    BY <1>4, ValueFacts
  <2>. QED BY <1>3, <1>6, <2>1, <2>2
<1>. QED BY <1>1, <1>2, <1>5, <1>7, <1>8 DEF FitsFlat, sf, v

SyncAnswerValues(id) ==
    [success |-> TRUE, messages |-> <<ChatValues(id)>>, new_sync_key |-> id]

LEMMA SyncAnswerFits == \A id \in IdNumbers : Fits(S!SyncResp, SyncAnswerValues(id))
<1>. SUFFICES ASSUME NEW id \in IdNumbers PROVE Fits(S!SyncResp, SyncAnswerValues(id))
  OBVIOUS
<1>. DEFINE sf == S!SyncResp
            v == SyncAnswerValues(id)
            kept == ChatValues(id)
<1>1. kept \in FlatValues(S!OneChatRequest, Texts) /\ LegibleFlat(S!OneChatRequest, kept)
  BY ChatFits, FlatFits
<1>2. Len(sf) = 3 /\ DOMAIN sf = 1..3
  BY DEF S!SyncResp
<1>3. /\ sf[1].name = "success" /\ sf[1].type = "bool"
      /\ sf[2].name = "messages" /\ sf[2].type = "repeated" /\ sf[2].of = S!OneChatRequest
      /\ sf[3].name = "new_sync_key" /\ sf[3].type = "int64"
  BY DEF S!SyncResp, S!Bool, S!Repeated, S!Int64, S!Nested, S!Field
<1>4. /\ v["success"] = TRUE
      /\ v["messages"] = <<kept>>
      /\ v["new_sync_key"] = id
  BY DEF SyncAnswerValues
<1>5. DOMAIN v = {"success", "messages", "new_sync_key"} /\ v = [n \in DOMAIN v |-> v[n]]
  BY DEF SyncAnswerValues
<1>. HIDE DEF sf, v, kept
<1>6. \A i \in 1..3 : i = 1 \/ i = 2 \/ i = 3
  OBVIOUS
<1>7. Names(sf) = DOMAIN v
  BY <1>2, <1>3, <1>5, <1>6 DEF Names
<1>8. v[sf[1].name] \in FieldValues(sf[1], Texts) /\ v[sf[3].name] \in FieldValues(sf[3], Texts)
  BY <1>3, <1>4, ValueFacts DEF FieldValues, OfType
<1>9. v[sf[2].name] \in FieldValues(sf[2], Texts)
  <2>1. <<kept>> \in Seq(FlatValues(S!OneChatRequest, Texts))
    BY <1>1
  <2>. QED BY <1>3, <1>4, <2>1 DEF FieldValues
<1>10. IsValue(sf, Texts, v)
  BY <1>2, <1>5, <1>6, <1>7, <1>8, <1>9 DEF IsValue
<1>11. LegibleFlat(sf, v)
  BY <1>2, <1>3, <1>6 DEF LegibleFlat
<1>12. \A j \in DOMAIN v[sf[2].name] : LegibleFlat(sf[2].of, v[sf[2].name][j])
  BY <1>1, <1>3, <1>4 DEF kept
<1>13. ~IsNested(sf[1].type) /\ ~IsNested(sf[3].type)
  BY <1>3 DEF IsNested
<1>14. Legible(sf, v)
  BY <1>2, <1>6, <1>11, <1>12, <1>13 DEF Legible
<1>. QED BY <1>10, <1>14 DEF Fits, sf, v

----------------------------------------------------------------------------
\* What both sides make of a message of msg.proto, whoever wrote it.
Through(type, v, seen) ==
    /\ ToServer(type, v) = seen /\ ToClient(type, v) = seen
    /\ S!Read(S!Codec[type], C!Write(C!Codec[type], v)) = seen
    /\ C!Read(C!Codec[type], C!Write(C!Codec[type], v)) = seen

\* Every message of msg.proto, with any values a program can give it, comes through
\* in both directions as it was meant; if one of its texts is not UTF-8, the reader
\* refuses the whole of it (the two msg.pb.cc, generated apart).
THEOREM MessagesComeThrough ==
    ASSUME NEW type \in DOMAIN S!Codec, NEW texts,
           NEW v, IsValue(S!Codec[type].fields, texts, v)
    PROVE  Through(type, v, IF Legible(S!Codec[type].fields, v) THEN v ELSE Failed)
<1>. DEFINE sm == S!Codec[type]
            cm == C!Codec[type]
<1>1. Sent(sm, cm, texts, v)
  BY SameTypes DEF SameType, Sent
<1>2. ToServer(type, v) = S!Read(sm, C!Write(cm, v)) /\ ToClient(type, v) = C!Read(cm, S!Write(sm, v))
  BY DEF ToServer, ToClient
<1>. HIDE DEF sm, cm
<1>3. LET expected == IF Legible(sm.fields, v) THEN v ELSE Failed
      IN /\ S!Read(sm, C!Write(cm, v)) = expected /\ C!Read(cm, S!Write(sm, v)) = expected
         /\ C!Read(cm, C!Write(cm, v)) = expected
  BY ONLY <1>1, ComesThrough
<1>. QED BY <1>2, <1>3 DEF Through, sm, cm

\* Whatever tokens a wire has, fields that are unknown, come again, come in
\* another order or with another wire type, the parsers of the two msg.pb.cc make
\* the same message of it or both refuse it.
THEOREM ReadersAlwaysAgree ==
    \A type \in DOMAIN S!Codec : \A wire :
        IsWire(S!Codec[type].fields, wire) => C!Read(C!Codec[type], wire) = S!Read(S!Codec[type], wire)
<1>. SUFFICES ASSUME NEW type \in DOMAIN S!Codec, NEW wire, IsWire(S!Codec[type].fields, wire)
              PROVE  C!Read(C!Codec[type], wire) = S!Read(S!Codec[type], wire)
  OBVIOUS
<1>1. Received(S!Codec[type], C!Codec[type], wire)
  BY SameTypes DEF SameType, Received
<1>. QED BY <1>1, ReadsAlike

\* The serializers of the two msg.pb.cc write the same bytes for the same values, so
\* it makes no difference that the server forwards and caches the sender's bytes
\* in one place and writes a message anew in another (oneChat, syncMessages).
THEOREM WritersAlwaysAgree ==
    ASSUME NEW type \in DOMAIN S!Codec, NEW texts,
           NEW v, IsValue(S!Codec[type].fields, texts, v)
    PROVE  C!Write(C!Codec[type], v) = S!Write(S!Codec[type], v)
<1>1. Sent(S!Codec[type], C!Codec[type], texts, v)
  BY SameTypes DEF SameType, Sent
<1>. QED BY <1>1, WritesAlike

LEMMA FitsThrough ==
    ASSUME NEW type \in DOMAIN S!Codec, NEW v, Fits(S!Codec[type].fields, v)
    PROVE  Through(type, v, v)
BY MessagesComeThrough DEF Fits

\* Where a client has just given an id, the sample of every message comes through.
LEMMA SamplesAgree == IInv => SidesAgree
<1>. SUFFICES ASSUME IInv, NEW c \in Clients, JustNumbered(c), NEW type \in DOMAIN S!Codec
              PROVE  LET fields == S!Codec[type].fields
                         values == Filled(fields, lastId[c] + clock[c], lastId[c])
                         expected == IF Legible(fields, values) THEN values ELSE Failed
                     IN ToServer(type, values) = expected /\ ToClient(type, values) = expected
  BY DEF SidesAgree
<1>. DEFINE fields == S!Codec[type].fields
            k == lastId[c] + clock[c]
            values == Filled(fields, k, lastId[c])
<1>1. lastId[c] \in IdNumbers /\ k \in Int
  BY IdFacts DEF JustNumbered, IInv, IdTypeOK
<1>2. Schema(fields)
  BY SameTypes DEF SameType, SameMessage, SameFields, ServerFields
<1>. HIDE DEF k
<1>3. IsValue(fields, Texts, values)
  BY <1>1, <1>2, FilledFits
<1>. HIDE DEF values
<1>4. Through(type, values, IF Legible(fields, values) THEN values ELSE Failed)
  BY <1>3, MessagesComeThrough
<1>. QED BY <1>4 DEF Through, values, k

\* In every state of every run, the clocks running or set back, the sample of every
\* message is read as it was written (the accessors, tables and parsers of the two
\* msg.pb.cc).
THEOREM SidesAgreeAlways == IdSpec => []SidesAgree
<1>1. IdInit => IInv
  BY IInvInit
<1>2. IInv /\ [IdNext]_idVars => IInv'
  BY StepIncreases
<1>. QED BY <1>1, <1>2, SamplesAgree, PTL DEF IdSpec

LEMMA IdsTravel == IInv => IdTravels
<1>. SUFFICES ASSUME IInv, NEW c \in Clients, lastId[c] # -1
              PROVE  /\ SendAck(lastId[c]).msg_id = lastId[c] /\ RecvAck(lastId[c]).msg_id = lastId[c]
                     /\ SyncAnswer(lastId[c]).messages = <<ChatAtReceiver(lastId[c])>>
                     /\ NextSync(lastId[c]).last_sync_key = lastId[c]
                     /\ TimeShown(ChatAtReceiver(lastId[c]).msg_id) = lastTimestamp[c]
  BY DEF IdTravels
<1>. DEFINE id == lastId[c]
<1>1. id \in IdNumbers /\ TimeShown(id) = lastTimestamp[c]
  BY IdFacts
<1>. HIDE DEF id
<1>2. /\ {"OneChatRequest", "MsgSendAck", "MsgRecvAck", "SyncResp", "SyncReq"} \subseteq DOMAIN S!Codec
      /\ S!Codec["OneChatRequest"].fields = S!OneChatRequest /\ S!Codec["MsgSendAck"].fields = S!MsgSendAck
      /\ S!Codec["MsgRecvAck"].fields = S!MsgRecvAck /\ S!Codec["SyncResp"].fields = S!SyncResp
      /\ S!Codec["SyncReq"].fields = S!SyncReq
  BY DEF S!Codec
<1>3. ChatAtServer(id) = ChatValues(id) /\ ChatAtReceiver(id) = ChatValues(id)
  <2>1. Through("OneChatRequest", ChatValues(id), ChatValues(id))
    BY <1>1, <1>2, ChatFits, FlatFits, FitsThrough
  <2>2. ChatBytes(id) = C!Write(C!Codec["OneChatRequest"], ChatValues(id))
    BY DEF ChatBytes, ChatValues
  <2>. QED BY <2>1, <2>2 DEF Through, ChatAtServer, ChatAtReceiver
<1>4. ChatValues(id).msg_id = id /\ ChatValues(id).from_id = Sender /\ ChatValues(id).to_id = Receiver
  BY DEF ChatValues
<1>5. SendAck(id).msg_id = id
  <2>1. Through("MsgSendAck", SendAckValues(id), SendAckValues(id))
    BY <1>1, <1>2, SendAckFits, FlatFits, FitsThrough
  <2>2. SendAck(id) = ToClient("MsgSendAck", SendAckValues(id))
    BY <1>3, <1>4 DEF SendAck, SendAckValues
  <2>3. SendAckValues(id).msg_id = id
    BY DEF SendAckValues
  <2>. QED BY <2>1, <2>2, <2>3 DEF Through
<1>6. RecvAck(id).msg_id = id
  <2>1. Through("MsgRecvAck", RecvAckValues(id), RecvAckValues(id))
    BY <1>1, <1>2, RecvAckFits, FlatFits, FitsThrough
  <2>2. RecvAck(id) = ToServer("MsgRecvAck", RecvAckValues(id))
    BY <1>3, <1>4 DEF RecvAck, RecvAckValues
  <2>3. RecvAckValues(id).msg_id = id
    BY DEF RecvAckValues
  <2>. QED BY <2>1, <2>2, <2>3 DEF Through
<1>7. SyncAnswer(id) = SyncAnswerValues(id)
  <2>1. Through("SyncResp", SyncAnswerValues(id), SyncAnswerValues(id))
    BY <1>1, <1>2, SyncAnswerFits, FitsThrough
  <2>2. SyncAnswer(id) = ToClient("SyncResp", SyncAnswerValues(id))
    BY <1>3, <1>4 DEF SyncAnswer, SyncAnswerValues
  <2>. QED BY <2>1, <2>2 DEF Through
<1>8. SyncAnswer(id).messages = <<ChatValues(id)>> /\ SyncAnswer(id).new_sync_key = id
  BY <1>7 DEF SyncAnswerValues
<1>9. NextSync(id).last_sync_key = id
  <2>1. Through("SyncReq", NextSyncValues(id), NextSyncValues(id))
    BY <1>1, <1>2, NextSyncFits, FlatFits, FitsThrough
  <2>2. NextSync(id) = ToServer("SyncReq", NextSyncValues(id))
    BY <1>8 DEF NextSync, NextSyncValues
  <2>3. NextSyncValues(id).last_sync_key = id
    BY DEF NextSyncValues
  <2>. QED BY <2>1, <2>2, <2>3 DEF Through
<1>. QED BY <1>1, <1>3, <1>4, <1>5, <1>6, <1>8, <1>9 DEF id

\* An id a client gave a message comes through all of its journeys, and shows the
\* millisecond it was given in, whatever its clock does (Snowflake::nextId, oneChat,
\* syncMessages, the two msg.pb.cc, ChatWidget).
THEOREM IdTravelsAlways == IdSpec => []IdTravels
<1>1. IdInit => IInv
  BY IInvInit
<1>2. IInv /\ [IdNext]_idVars => IInv'
  BY StepIncreases
<1>. QED BY <1>1, <1>2, IdsTravel, PTL DEF IdSpec
=============================================================================
