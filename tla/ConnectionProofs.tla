-------------------------- MODULE ConnectionProofs --------------------------
(***************************************************************************)
(* Proofs about Connection for any threads, packets, sizes and buffers.     *)
(* On the server's side: sendMutex_ keeps senders and onWrite apart, what   *)
(* waits in writeBuffer_ has its wake-up, and only a background thread that *)
(* was in send when the connection was closed ends the server. Of both      *)
(* directions: Buffer and the two receive loops hand on the packets that    *)
(* were taken, so each direction implements the safety part of PacketPipe.  *)
(***************************************************************************)
EXTENDS Connection, SequenceTheorems, TLAPS

-----------------------------------------------------------------------------
(* Sequences cut and joined.                                                *)

LEMMA Pieces ==
    ASSUME NEW S, NEW s \in Seq(S), NEW n \in 0..Len(s)
    PROVE  /\ Take(s, n) \in Seq(S) /\ Len(Take(s, n)) = n
           /\ \A i \in 1..n : Take(s, n)[i] = s[i]
           /\ Drop(s, n) \in Seq(S) /\ Len(Drop(s, n)) = Len(s) - n
           /\ \A i \in 1..Len(s) - n : Drop(s, n)[i] = s[n + i]
<1>1. Len(s) \in Nat /\ n \in Nat /\ n <= Len(s)
  BY LenProperties
<1>2. /\ \A i \in 1..n : s[i] \in S
      /\ \A i \in n + 1..Len(s) : s[i] \in S
  BY <1>1, ElementOfSeq
<1>3. /\ Take(s, n) \in Seq(S) /\ Len(Take(s, n)) = n
      /\ \A i \in 1..n : Take(s, n)[i] = s[i]
  <2>1. /\ SubSeq(s, 1, n) \in Seq(S) /\ Len(SubSeq(s, 1, n)) = IF 1 <= n THEN n - 1 + 1 ELSE 0
        /\ \A i \in 1..n - 1 + 1 : SubSeq(s, 1, n)[i] = s[1 + i - 1]
    BY <1>1, <1>2, SubSeqProperties
  <2>2. n - 1 + 1 = n /\ \A i \in 1..n : 1 + i - 1 = i
    BY <1>1
  <2>. QED BY <1>1, <2>1, <2>2 DEF Take
<1>4. /\ Drop(s, n) \in Seq(S) /\ Len(Drop(s, n)) = Len(s) - n
      /\ \A i \in 1..Len(s) - n : Drop(s, n)[i] = s[n + i]
  <2>1. /\ SubSeq(s, n + 1, Len(s)) \in Seq(S)
        /\ Len(SubSeq(s, n + 1, Len(s))) = IF n + 1 <= Len(s) THEN Len(s) - (n + 1) + 1 ELSE 0
        /\ \A i \in 1..Len(s) - (n + 1) + 1 : SubSeq(s, n + 1, Len(s))[i] = s[n + 1 + i - 1]
    BY <1>1, <1>2, SubSeqProperties
  <2>2. Len(s) - (n + 1) + 1 = Len(s) - n /\ \A i \in 1..Len(s) - n : n + 1 + i - 1 = n + i
    BY <1>1
  <2>3. Len(SubSeq(s, n + 1, Len(s))) = Len(s) - n
    BY <1>1, <2>1
  <2>4. \A i \in 1..Len(s) - n : SubSeq(s, n + 1, Len(s))[i] = s[n + i]
    BY <2>1, <2>2
  <2>. QED BY <2>1, <2>3, <2>4 DEF Drop
<1>. QED BY <1>3, <1>4

LEMMA JoinsAssociate == \A r, s, t \in Seq(Cells) : (r \o s) \o t = r \o (s \o t)
BY ConcatAssociative

LEMMA JoinedPieces ==
    ASSUME NEW S, NEW s \in Seq(S), NEW n \in 0..Len(s)
    PROVE  Take(s, n) \o Drop(s, n) = s
<1>1. Len(s) \in Nat /\ n \in Nat /\ n <= Len(s)
  BY LenProperties
<1>2. /\ Take(s, n) \in Seq(S) /\ Len(Take(s, n)) = n
      /\ \A i \in 1..n : Take(s, n)[i] = s[i]
      /\ Drop(s, n) \in Seq(S) /\ Len(Drop(s, n)) = Len(s) - n
      /\ \A i \in 1..Len(s) - n : Drop(s, n)[i] = s[n + i]
  BY Pieces
<1>. DEFINE a == Take(s, n)
            b == Drop(s, n)
<1>3. /\ a \o b \in Seq(S) /\ Len(a \o b) = Len(a) + Len(b)
      /\ \A i \in 1..Len(a) + Len(b) : (a \o b)[i] = IF i <= Len(a) THEN a[i] ELSE b[i - Len(a)]
  BY <1>2, ConcatProperties
<1>. HIDE DEF a, b
<1>r. /\ a \in Seq(S) /\ Len(a) = n /\ b \in Seq(S) /\ Len(b) = Len(s) - n
      /\ \A i \in 1..n : a[i] = s[i]
      /\ \A i \in 1..Len(s) - n : b[i] = s[n + i]
  BY <1>2 DEF a, b
<1>l. Len(a) + Len(b) = Len(s)
  BY <1>1, <1>r
<1>m. \A i \in 1..Len(s) : (a \o b)[i] = IF i <= n THEN a[i] ELSE b[i - n]
  BY <1>3, <1>r, <1>l
<1>4. ASSUME NEW i \in 1..Len(s) PROVE (a \o b)[i] = s[i]
  <2>1. CASE i <= n
    BY <1>1, <1>r, <1>m, <2>1
  <2>2. CASE ~(i <= n)
    <3>1. i - n \in 1..Len(s) - n /\ n + (i - n) = i
      BY <1>1, <2>2
    <3>2. b[i - n] = s[i]
      BY <1>r, <3>1
    <3>3. (a \o b)[i] = b[i - n]
      BY <1>m, <2>2
    <3>. QED BY <3>2, <3>3
  <2>. QED BY <2>1, <2>2
<1>5. a \o b = s
  BY <1>1, <1>l, <1>3, <1>4, SeqEqual
<1>. QED BY <1>5 DEF a, b

LEMMA PiecesOfJoin ==
    ASSUME NEW S, NEW s \in Seq(S), NEW t \in Seq(S), NEW n \in 0..Len(s)
    PROVE  Take(s \o t, n) = Take(s, n) /\ Drop(s \o t, n) = Drop(s, n) \o t
<1>1. Len(s) \in Nat /\ Len(t) \in Nat /\ n \in Nat /\ n <= Len(s)
  BY LenProperties
<1>2. /\ s \o t \in Seq(S) /\ Len(s \o t) = Len(s) + Len(t)
      /\ \A i \in 1..Len(s) + Len(t) : (s \o t)[i] = IF i <= Len(s) THEN s[i] ELSE t[i - Len(s)]
  BY ConcatProperties
<1>3. n \in 0..Len(s \o t)
  BY <1>1, <1>2
<1>4. /\ Take(s, n) \in Seq(S) /\ Len(Take(s, n)) = n
      /\ \A i \in 1..n : Take(s, n)[i] = s[i]
      /\ Drop(s, n) \in Seq(S) /\ Len(Drop(s, n)) = Len(s) - n
      /\ \A i \in 1..Len(s) - n : Drop(s, n)[i] = s[n + i]
  BY Pieces
<1>5. /\ Take(s \o t, n) \in Seq(S) /\ Len(Take(s \o t, n)) = n
      /\ \A i \in 1..n : Take(s \o t, n)[i] = (s \o t)[i]
      /\ Drop(s \o t, n) \in Seq(S) /\ Len(Drop(s \o t, n)) = Len(s \o t) - n
      /\ \A i \in 1..Len(s \o t) - n : Drop(s \o t, n)[i] = (s \o t)[n + i]
  BY <1>2, <1>3, Pieces
<1>6. Take(s \o t, n) = Take(s, n)
  <2>1. ASSUME NEW i \in 1..n PROVE Take(s \o t, n)[i] = Take(s, n)[i]
    BY <1>1, <1>2, <1>4, <1>5
  <2>. QED BY <1>4, <1>5, <2>1, SeqEqual
<1>7. Drop(s \o t, n) = Drop(s, n) \o t
  <2>. DEFINE d == Drop(s, n)
  <2>1. /\ d \o t \in Seq(S) /\ Len(d \o t) = Len(d) + Len(t)
        /\ \A i \in 1..Len(d) + Len(t) : (d \o t)[i] = IF i <= Len(d) THEN d[i] ELSE t[i - Len(d)]
    BY <1>4, ConcatProperties
  <2>. HIDE DEF d
  <2>d. /\ Len(d) = Len(s) - n /\ Len(d) + Len(t) = Len(s) - n + Len(t)
        /\ \A i \in 1..Len(s) - n : d[i] = s[n + i]
    BY <1>4 DEF d
  <2>2. Len(Drop(s \o t, n)) = Len(d \o t) /\ Len(d \o t) = Len(s) - n + Len(t)
    BY <1>1, <1>2, <1>5, <2>1, <2>d
  <2>j. \A i \in 1..Len(s) - n + Len(t) :
            (d \o t)[i] = IF i <= Len(s) - n THEN d[i] ELSE t[i - (Len(s) - n)]
    BY <2>1, <2>d
  <2>3. ASSUME NEW i \in 1..Len(s) - n + Len(t) PROVE Drop(s \o t, n)[i] = (d \o t)[i]
    <3>1. Drop(s \o t, n)[i] = (s \o t)[n + i] /\ n + i \in 1..Len(s) + Len(t)
      BY <1>1, <1>2, <1>5
    <3>2. CASE i <= Len(s) - n
      <4>1. (d \o t)[i] = d[i] /\ d[i] = s[n + i]
        BY <1>1, <2>j, <2>d, <3>2
      <4>2. (s \o t)[n + i] = s[n + i]
        BY <1>1, <1>2, <3>1, <3>2
      <4>. QED BY <3>1, <4>1, <4>2
    <3>3. CASE ~(i <= Len(s) - n)
      <4>1. /\ (n + i) - Len(s) = i - (Len(s) - n)
            /\ ~(n + i <= Len(s)) /\ ~(i <= Len(s) - n)
        BY <1>1, <3>3
      <4>2. (s \o t)[n + i] = t[(n + i) - Len(s)]
        BY <1>2, <3>1, <4>1
      <4>3. (d \o t)[i] = t[i - (Len(s) - n)]
        BY <2>j, <4>1
      <4>4. t[(n + i) - Len(s)] = t[i - (Len(s) - n)]
        BY <4>1
      <4>. QED BY <3>1, <4>2, <4>3, <4>4, Zenon
    <3>. QED BY <3>2, <3>3
  <2>4. Drop(s \o t, n) = d \o t
    BY <1>5, <2>1, <2>2, <2>3, SeqEqual
  <2>. QED BY <2>4 DEF d
<1>. QED BY <1>6, <1>7

LEMMA DropTwice ==
    ASSUME NEW S, NEW s \in Seq(S), NEW n \in 0..Len(s), NEW m \in 0..Len(s) - n
    PROVE  Drop(Drop(s, n), m) = Drop(s, n + m)
<1>1. Len(s) \in Nat /\ n \in Nat /\ m \in Nat /\ n + m <= Len(s)
  BY LenProperties
<1>2. /\ Drop(s, n) \in Seq(S) /\ Len(Drop(s, n)) = Len(s) - n
      /\ \A i \in 1..Len(s) - n : Drop(s, n)[i] = s[n + i]
  BY Pieces
<1>3. /\ Drop(s, n + m) \in Seq(S) /\ Len(Drop(s, n + m)) = Len(s) - (n + m)
      /\ \A i \in 1..Len(s) - (n + m) : Drop(s, n + m)[i] = s[n + m + i]
  BY <1>1, Pieces
<1>. DEFINE d == Drop(s, n)
<1>4. /\ Drop(d, m) \in Seq(S) /\ Len(Drop(d, m)) = Len(d) - m
      /\ \A i \in 1..Len(d) - m : Drop(d, m)[i] = d[m + i]
  <2>1. d \in Seq(S) /\ m \in 0..Len(d)
    BY <1>1, <1>2
  <2>. HIDE DEF d
  <2>. QED BY <2>1, Pieces
<1>5. ASSUME NEW i \in 1..Len(s) - (n + m) PROVE Drop(d, m)[i] = Drop(s, n + m)[i]
  <2>1. i \in 1..Len(d) - m /\ m + i \in 1..Len(s) - n /\ n + (m + i) = n + m + i
    BY <1>1, <1>2
  <2>. QED BY <1>2, <1>3, <1>4, <2>1
<1>6. Len(Drop(d, m)) = Len(s) - (n + m)
  BY <1>1, <1>2, <1>4
<1>. QED BY <1>3, <1>4, <1>5, <1>6, SeqEqual

-----------------------------------------------------------------------------
(* A row of cells as the cells of packets: of ps from packet k + 1 on, each  *)
(* packet where the one before it ends.                                      *)

\* ends[i]: how many cells the packets k + 1 to i of ps have.
IsEnds(ends, ps, k) ==
    /\ ends \in [k..Len(ps) -> Nat] /\ ends[k] = 0
    /\ \A i \in k + 1..Len(ps) : ends[i] = ends[i - 1] + Size[ps[i]]
    /\ \A i, j \in k..Len(ps) : i <= j => ends[i] <= ends[j]

Laid(b, ps, k, ends) ==
    /\ Len(b) <= ends[Len(ps)]
    /\ \A i \in k + 1..Len(ps) : \A j \in 1..Size[ps[i]] :
          ends[i - 1] + j <= Len(b) => b[ends[i - 1] + j] = [pkt |-> ps[i], no |-> j]

\* The cells of the packets after the first k, from the start; all of them, or some.
Stream(b, ps, k, all) ==
    /\ k \in 0..Len(ps)
    /\ \E ends : IsEnds(ends, ps, k) /\ Laid(b, ps, k, ends) /\ (all => Len(b) = ends[Len(ps)])

LEMMA SizeFacts ==
    /\ \A p \in Packets : Size[p] \in Nat /\ Size[p] > HeaderLen
    /\ HeaderLen \in Nat /\ HeaderLen > 0
BY PacketsAssumption

LEMMA PacketCells ==
    ASSUME NEW p \in Packets
    PROVE  /\ CellsOf(p) \in Seq(Cells) /\ Len(CellsOf(p)) = Size[p]
           /\ \A j \in 1..Size[p] : CellsOf(p)[j] = [pkt |-> p, no |-> j]
<1>1. Size[p] \in Nat
  BY SizeFacts
<1>2. CellsOf(p) \in [1..Size[p] -> Cells]
  BY <1>1 DEF CellsOf, Cells
<1>3. CellsOf(p) \in Seq(Cells)
  BY <1>1, <1>2, SeqDef
<1>4. DOMAIN CellsOf(p) = 1..Size[p] /\ DOMAIN CellsOf(p) = 1..Len(CellsOf(p))
  BY <1>3, LenProperties DEF CellsOf
<1>5. Len(CellsOf(p)) = Size[p]
  BY <1>1, <1>3, <1>4, LenProperties
<1>. QED BY <1>3, <1>5 DEF CellsOf

LEMMA StreamStart == ASSUME NEW ps \in Seq(Packets) PROVE Stream(<<>>, ps, Len(ps), TRUE)
<1>1. Len(ps) \in Nat
  BY LenProperties
<1>. DEFINE ends == [i \in Len(ps)..Len(ps) |-> 0]
<1>2. IsEnds(ends, ps, Len(ps))
  BY <1>1 DEF IsEnds
<1>3. Laid(<<>>, ps, Len(ps), ends) /\ Len(<<>>) = ends[Len(ps)]
  BY <1>1, EmptySeq DEF Laid
<1>. QED BY <1>1, <1>2, <1>3 DEF Stream

\* One more packet has its cells behind those that are there, or has them not yet.
LEMMA StreamMore ==
    ASSUME NEW b \in Seq(Cells), NEW ps \in Seq(Packets), NEW k, NEW p \in Packets
    PROVE  /\ Stream(b, ps, k, FALSE) => Stream(b, Append(ps, p), k, FALSE)
           /\ Stream(b, ps, k, TRUE) => Stream(b \o CellsOf(p), Append(ps, p), k, TRUE)
<1>. DEFINE qs == Append(ps, p)
            l == Len(ps)
<1>1. l \in Nat /\ Len(b) \in Nat /\ Size[p] \in Nat /\ Len(qs) = l + 1
  BY LenProperties, AppendProperties, SizeFacts
<1>2. (\A i \in 1..l : qs[i] = ps[i]) /\ qs[l + 1] = p
  BY AppendProperties
<1>3. ASSUME NEW ends, k \in 0..l, IsEnds(ends, ps, k), Laid(b, ps, k, ends)
      PROVE  LET more == [i \in k..l + 1 |-> IF i <= l THEN ends[i] ELSE ends[l] + Size[p]] IN
                /\ IsEnds(more, qs, k) /\ Laid(b, qs, k, more)
                /\ Len(b) = ends[l] => /\ Laid(b \o CellsOf(p), qs, k, more)
                                       /\ Len(b \o CellsOf(p)) = more[l + 1]
  <2>. DEFINE more == [i \in k..l + 1 |-> IF i <= l THEN ends[i] ELSE ends[l] + Size[p]]
  <2>1. /\ \A i \in k..l : more[i] = ends[i] /\ ends[i] \in Nat
        /\ more[l + 1] = ends[l] + Size[p] /\ ends[l] \in Nat
    <3>1. \A i \in k..l : ends[i] \in Nat
      BY <1>3 DEF IsEnds
    <3>2. l \in k..l /\ l + 1 \in k..l + 1 /\ ~(l + 1 <= l)
      BY <1>1, <1>3
    <3>3. \A i \in k..l : i \in k..l + 1 /\ i <= l
      BY <1>1, <1>3
    <3>. QED BY <3>1, <3>2, <3>3
  <2>2. IsEnds(more, qs, k)
    <3>1. more \in [k..l + 1 -> Nat] /\ more[k] = 0
      BY <1>1, <1>3, <2>1 DEF IsEnds
    <3>2. ASSUME NEW i \in k + 1..l + 1 PROVE more[i] = more[i - 1] + Size[qs[i]]
      <4>1. CASE i = l + 1
        BY <1>1, <1>2, <1>3, <2>1, <4>1
      <4>2. CASE i # l + 1
        <5>1. i \in k + 1..l /\ i \in 1..l /\ i \in k..l /\ i - 1 \in k..l
          BY <1>1, <1>3, <4>2
        <5>2. ends[i] = ends[i - 1] + Size[ps[i]]
          BY <1>3, <5>1 DEF IsEnds
        <5>. QED BY <1>2, <2>1, <5>1, <5>2
      <4>. QED BY <4>1, <4>2
    <3>3. ASSUME NEW i \in k..l + 1, NEW j \in k..l + 1, i <= j PROVE more[i] <= more[j]
      <4>1. CASE j <= l
        BY <1>1, <1>3, <2>1, <3>3, <4>1 DEF IsEnds
      <4>2. CASE i = l + 1
        <5>1. j = l + 1
          BY <1>1, <3>3, <4>2
        <5>. QED BY <1>1, <2>1, <4>2, <5>1
      <4>3. CASE i <= l /\ j = l + 1
        <5>1. ends[i] <= ends[l] /\ ends[i] \in Nat /\ more[i] = ends[i]
          BY <1>1, <1>3, <2>1, <4>3 DEF IsEnds
        <5>. QED BY <1>1, <2>1, <4>3, <5>1
      <4>. QED BY <1>1, <1>3, <4>1, <4>2, <4>3
    <3>. HIDE DEF more, qs
    <3>. QED BY <1>1, <3>1, <3>2, <3>3 DEF IsEnds
  <2>. HIDE DEF more, qs
  <2>3. Laid(b, qs, k, more)
    <3>1. Len(b) <= more[l + 1] /\ Len(b) <= ends[l]
      BY <1>1, <1>3, <2>1 DEF Laid
    <3>2. ASSUME NEW i \in k + 1..l + 1, NEW j \in 1..Size[qs[i]], more[i - 1] + j <= Len(b)
          PROVE  b[more[i - 1] + j] = [pkt |-> qs[i], no |-> j]
      <4>1. CASE i = l + 1
        <5>1. more[i - 1] = ends[l] /\ j >= 1 /\ j \in Nat
          BY <1>1, <1>2, <1>3, <2>1, <4>1
        <5>. QED BY <1>1, <2>1, <3>1, <3>2, <5>1
      <4>2. CASE i # l + 1
        <5>1. i \in k + 1..l /\ i \in 1..l /\ i - 1 \in k..l /\ qs[i] = ps[i]
          BY <1>1, <1>2, <1>3, <4>2
        <5>. QED BY <1>3, <2>1, <3>2, <5>1 DEF Laid
      <4>. QED BY <4>1, <4>2
    <3>. QED BY <1>1, <3>1, <3>2 DEF Laid
  <2>4. ASSUME Len(b) = ends[l]
        PROVE  /\ Laid(b \o CellsOf(p), qs, k, more)
               /\ Len(b \o CellsOf(p)) = more[l + 1]
    <3>. DEFINE c == CellsOf(p)
    <3>0. c \in Seq(Cells) /\ Len(c) = Size[p] /\ \A j \in 1..Size[p] : c[j] = [pkt |-> p, no |-> j]
      BY PacketCells
    <3>. HIDE DEF c
    <3>1. /\ Len(b \o c) = Len(b) + Len(c)
          /\ \A i \in 1..Len(b) + Len(c) : (b \o c)[i] = IF i <= Len(b) THEN b[i] ELSE c[i - Len(b)]
      BY <3>0, ConcatProperties
    <3>2. Len(b \o c) = more[l + 1]
      BY <1>1, <2>1, <2>4, <3>0, <3>1
    <3>3. ASSUME NEW i \in k + 1..l + 1, NEW j \in 1..Size[qs[i]], more[i - 1] + j <= Len(b \o c)
          PROVE  (b \o c)[more[i - 1] + j] = [pkt |-> qs[i], no |-> j]
      <4>1. CASE i = l + 1
        <5>1. more[i - 1] = Len(b) /\ qs[i] = p /\ j \in 1..Size[p]
          BY <1>1, <1>2, <1>3, <2>1, <2>4, <4>1
        <5>2. /\ Len(b) + j \in 1..Len(b) + Len(c)
              /\ ~(Len(b) + j <= Len(b)) /\ Len(b) + j - Len(b) = j
          BY <1>1, <3>0, <5>1
        <5>3. (b \o c)[Len(b) + j] = c[Len(b) + j - Len(b)]
          BY <3>1, <5>2
        <5>. QED BY <3>0, <5>1, <5>2, <5>3
      <4>2. CASE i # l + 1
        <5>1. i \in k + 1..l /\ i \in 1..l /\ i - 1 \in k..l /\ i \in k..l /\ l \in k..l /\ i <= l
          BY <1>1, <1>3, <4>2
        <5>2. /\ ends[i] = ends[i - 1] + Size[ps[i]] /\ qs[i] = ps[i] /\ more[i - 1] = ends[i - 1]
              /\ ends[i] <= ends[l] /\ ends[i] \in Nat /\ ends[i - 1] \in Nat
          BY <1>2, <1>3, <2>1, <5>1 DEF IsEnds
        <5>3. j \in 1..Size[ps[i]] /\ ps[i] \in Packets /\ Size[ps[i]] \in Nat
          BY <5>1, <5>2, ElementOfSeq, SizeFacts
        <5>4. ends[i - 1] + j <= Len(b) /\ ends[i - 1] + j \in 1..Len(b) + Len(c)
          <6>1. /\ j \in Nat /\ j >= 1 /\ j <= Size[ps[i]]
                /\ ends[i - 1] + j <= ends[i]
            BY <5>2, <5>3
          <6>2. ends[i - 1] + j <= Len(b)
            BY <1>1, <2>4, <5>2, <6>1
          <6>. QED BY <1>1, <3>0, <5>2, <6>1, <6>2
        <5>5. b[ends[i - 1] + j] = [pkt |-> ps[i], no |-> j]
          BY <1>3, <5>1, <5>3, <5>4 DEF Laid
        <5>. QED BY <3>1, <5>2, <5>4, <5>5
      <4>. QED BY <4>1, <4>2
    <3>4. Len(b \o c) <= more[l + 1]
      BY <1>1, <2>1, <3>2
    <3>. QED BY <1>1, <3>2, <3>3, <3>4 DEF Laid, c
  <2>. QED BY <2>2, <2>3, <2>4 DEF more, qs
<1>4. ASSUME Stream(b, ps, k, FALSE) PROVE Stream(b, qs, k, FALSE)
  <2>1. PICK ends : IsEnds(ends, ps, k) /\ Laid(b, ps, k, ends)
    BY <1>4 DEF Stream
  <2>. DEFINE more == [i \in k..l + 1 |-> IF i <= l THEN ends[i] ELSE ends[l] + Size[p]]
  <2>2. k \in 0..l /\ k \in 0..Len(qs)
    BY <1>1, <1>4 DEF Stream
  <2>3. IsEnds(more, qs, k) /\ Laid(b, qs, k, more)
    BY <1>3, <2>1, <2>2
  <2>. HIDE DEF more, qs
  <2>. QED BY <2>2, <2>3 DEF Stream
<1>5. ASSUME Stream(b, ps, k, TRUE) PROVE Stream(b \o CellsOf(p), qs, k, TRUE)
  <2>1. PICK ends : IsEnds(ends, ps, k) /\ Laid(b, ps, k, ends) /\ Len(b) = ends[l]
    BY <1>5 DEF Stream
  <2>. DEFINE more == [i \in k..l + 1 |-> IF i <= l THEN ends[i] ELSE ends[l] + Size[p]]
  <2>2. k \in 0..l /\ k \in 0..Len(qs)
    BY <1>1, <1>5 DEF Stream
  <2>3. /\ IsEnds(more, qs, k) /\ Laid(b \o CellsOf(p), qs, k, more)
        /\ Len(b \o CellsOf(p)) = more[l + 1]
    BY <1>3, <2>1, <2>2
  <2>. HIDE DEF more, qs
  <2>. QED BY <1>1, <2>2, <2>3 DEF Stream
<1>. QED BY <1>4, <1>5

\* What is there of a stream that is cut short is a stream.
LEMMA StreamPart ==
    ASSUME NEW b \in Seq(Cells), NEW c \in Seq(Cells), NEW ps \in Seq(Packets), NEW k, NEW all,
           Stream(b \o c, ps, k, all)
    PROVE  Stream(b, ps, k, FALSE)
<1>1. /\ Len(b) \in Nat /\ Len(c) \in Nat /\ Len(ps) \in Nat
      /\ Len(b \o c) = Len(b) + Len(c)
      /\ \A i \in 1..Len(b) + Len(c) : (b \o c)[i] = IF i <= Len(b) THEN b[i] ELSE c[i - Len(b)]
  BY LenProperties, ConcatProperties
<1>2. PICK ends : IsEnds(ends, ps, k) /\ Laid(b \o c, ps, k, ends)
  BY DEF Stream
<1>3. k \in 0..Len(ps) /\ Len(ps) \in k..Len(ps)
  BY <1>1 DEF Stream
<1>4. Len(b) <= ends[Len(ps)]
  <2>1. ends[Len(ps)] \in Nat
    BY <1>2, <1>3 DEF IsEnds
  <2>2. Len(b) + Len(c) <= ends[Len(ps)]
    BY <1>1, <1>2 DEF Laid
  <2>. QED BY <1>1, <2>1, <2>2
<1>5. ASSUME NEW i \in k + 1..Len(ps), NEW j \in 1..Size[ps[i]], ends[i - 1] + j <= Len(b)
      PROVE  b[ends[i - 1] + j] = [pkt |-> ps[i], no |-> j]
  <2>1. i - 1 \in k..Len(ps) /\ ends[i - 1] \in Nat
    <3>1. i - 1 \in k..Len(ps)
      BY <1>1, <1>3
    <3>2. \A m \in k..Len(ps) : ends[m] \in Nat
      BY <1>2 DEF IsEnds
    <3>. QED BY <3>1, <3>2
  <2>2. /\ ends[i - 1] + j <= Len(b) + Len(c) /\ ends[i - 1] + j \in 1..Len(b) + Len(c)
    BY <1>1, <1>5, <2>1
  <2>3. (b \o c)[ends[i - 1] + j] = [pkt |-> ps[i], no |-> j]
    BY <1>1, <1>2, <2>2 DEF Laid
  <2>. QED BY <1>1, <1>5, <2>2, <2>3
<1>. QED BY <1>2, <1>3, <1>4, <1>5 DEF Stream, Laid

\* The first cell says which packet comes next; when all its cells are there, they
\* are its cells, and what is left is the stream of those behind it.
LEMMA StreamCut ==
    ASSUME NEW b \in Seq(Cells), NEW ps \in Seq(Packets), NEW k, NEW all,
           Stream(b, ps, k, all), Len(b) > 0
    PROVE  /\ k \in Nat /\ k < Len(ps) /\ ps[k + 1] \in Packets /\ b[1].pkt = ps[k + 1]
           /\ Len(b) >= Size[ps[k + 1]] =>
                  /\ Take(b, Size[ps[k + 1]]) = CellsOf(ps[k + 1])
                  /\ Stream(Drop(b, Size[ps[k + 1]]), ps, k + 1, all)
<1>1. Len(b) \in Nat /\ Len(ps) \in Nat /\ k \in 0..Len(ps)
  BY LenProperties DEF Stream
<1>2. PICK ends : /\ IsEnds(ends, ps, k) /\ Laid(b, ps, k, ends)
                  /\ all => Len(b) = ends[Len(ps)]
  BY DEF Stream
<1>3. k < Len(ps)
  <2>1. k # Len(ps)
    BY <1>1, <1>2 DEF IsEnds, Laid
  <2>. QED BY <1>1, <2>1
<1>. DEFINE p == ps[k + 1]
            n == Size[p]
<1>4. p \in Packets /\ n \in Nat /\ n > 0
  BY <1>1, <1>3, ElementOfSeq, SizeFacts
<1>5. k + 1 \in k + 1..Len(ps) /\ k + 1 - 1 = k /\ ends[k] = 0 /\ ends[k + 1] = n
  BY <1>1, <1>2, <1>3, <1>4 DEF IsEnds
<1>p. p = ps[k + 1] /\ n = Size[p]
  OBVIOUS
<1>. HIDE DEF p, n
<1>6. \A j \in 1..n : j <= Len(b) => b[j] = [pkt |-> p, no |-> j]
  <2>. DEFINE m == k + 1
  <2>1. m \in k + 1..Len(ps) /\ ends[m - 1] = 0 /\ p = ps[m]
    <3>1. m - 1 = k
      BY <1>1
    <3>2. ends[m - 1] = ends[k]
      BY <3>1
    <3>3. p = ps[m]
      BY <1>p
    <3>. QED BY <1>5, <3>2, <3>3
  <2>. HIDE DEF m
  <2>2. ASSUME NEW j \in 1..Size[ps[m]], ends[m - 1] + j <= Len(b)
        PROVE  b[ends[m - 1] + j] = [pkt |-> ps[m], no |-> j]
    BY <1>2, <2>1, <2>2 DEF Laid
  <2>3. n = Size[ps[m]]
    BY <1>p, <2>1
  <2>4. ASSUME NEW j \in 1..n, j <= Len(b) PROVE b[j] = [pkt |-> p, no |-> j]
    <3>1. ends[m - 1] + j = j
      BY <1>4, <2>1
    <3>. QED BY <2>1, <2>2, <2>3, <2>4, <3>1
  <2>. QED BY <2>4
<1>7. b[1].pkt = p
  <2>1. 1 \in 1..n /\ 1 <= Len(b)
    BY <1>1, <1>4
  <2>2. b[1] = [pkt |-> p, no |-> 1]
    BY <1>6, <2>1
  <2>. QED BY <2>2
<1>8. ASSUME Len(b) >= n
      PROVE  Take(b, n) = CellsOf(p) /\ Stream(Drop(b, n), ps, k + 1, all)
  <2>1. /\ Take(b, n) \in Seq(Cells) /\ Len(Take(b, n)) = n
        /\ \A i \in 1..n : Take(b, n)[i] = b[i]
        /\ Drop(b, n) \in Seq(Cells) /\ Len(Drop(b, n)) = Len(b) - n
        /\ \A i \in 1..Len(b) - n : Drop(b, n)[i] = b[n + i]
    <3>1. n \in 0..Len(b)
      BY <1>1, <1>4, <1>8
    <3>. QED BY <3>1, Pieces
  <2>2. Take(b, n) = CellsOf(p)
    <3>1. CellsOf(p) \in Seq(Cells) /\ Len(CellsOf(p)) = n
          /\ \A j \in 1..n : CellsOf(p)[j] = [pkt |-> p, no |-> j]
      BY <1>4, <1>p, PacketCells
    <3>2. ASSUME NEW j \in 1..n PROVE Take(b, n)[j] = CellsOf(p)[j]
      <4>1. j <= Len(b)
        BY <1>1, <1>4, <1>8
      <4>. QED BY <1>6, <2>1, <3>1, <4>1
    <3>. QED BY <2>1, <3>1, <3>2, SeqEqual
  <2>. DEFINE left == [i \in k + 1..Len(ps) |-> ends[i] - n]
              d == Drop(b, n)
  <2>3. \A i \in k + 1..Len(ps) : ends[i] \in Nat /\ ends[i] >= n /\ left[i] = ends[i] - n
    <3>. SUFFICES ASSUME NEW i \in k + 1..Len(ps)
                  PROVE  ends[i] \in Nat /\ ends[i] >= n /\ left[i] = ends[i] - n
      OBVIOUS
    <3>1. i \in k..Len(ps) /\ k + 1 \in k..Len(ps) /\ k + 1 <= i
      BY <1>1, <1>3
    <3>2. ends[i] \in Nat /\ ends[k + 1] <= ends[i]
      BY <1>2, <3>1 DEF IsEnds
    <3>. QED BY <1>4, <1>5, <3>2
  <2>4. IsEnds(left, ps, k + 1)
    <3>1. left \in [k + 1..Len(ps) -> Nat] /\ left[k + 1] = 0
      BY <1>1, <1>4, <1>5, <2>3
    <3>2. ASSUME NEW i \in k + 1 + 1..Len(ps) PROVE left[i] = left[i - 1] + Size[ps[i]]
      <4>1. i \in k + 1..Len(ps) /\ i - 1 \in k + 1..Len(ps) /\ ps[i] \in Packets
        BY <1>1, ElementOfSeq
      <4>2. ends[i] = ends[i - 1] + Size[ps[i]] /\ Size[ps[i]] \in Nat
        BY <1>2, <4>1, SizeFacts DEF IsEnds
      <4>3. left[i] = ends[i] - n /\ left[i - 1] = ends[i - 1] - n /\ ends[i - 1] \in Nat
        BY <2>3, <4>1
      <4>. QED BY <1>4, <4>2, <4>3
    <3>3. ASSUME NEW i \in k + 1..Len(ps), NEW j \in k + 1..Len(ps), i <= j
          PROVE  left[i] <= left[j]
      <4>1. i \in k..Len(ps) /\ j \in k..Len(ps)
        BY <1>1
      <4>2. ends[i] <= ends[j] /\ ends[i] \in Nat /\ ends[j] \in Nat
        BY <1>2, <2>3, <3>3, <4>1 DEF IsEnds
      <4>. QED BY <1>4, <2>3, <4>2
    <3>. HIDE DEF left
    <3>. QED BY <3>1, <3>2, <3>3 DEF IsEnds
  <2>5. Len(ps) \in k + 1..Len(ps) /\ left[Len(ps)] = ends[Len(ps)] - n /\ ends[Len(ps)] \in Nat
    BY <1>1, <1>3, <2>3
  <2>. HIDE DEF left
  <2>6. Laid(d, ps, k + 1, left)
    <3>1. Len(d) <= left[Len(ps)]
      BY <1>1, <1>2, <1>4, <2>1, <2>5 DEF Laid
    <3>2. ASSUME NEW i \in k + 1 + 1..Len(ps), NEW j \in 1..Size[ps[i]],
                 left[i - 1] + j <= Len(d)
          PROVE  d[left[i - 1] + j] = [pkt |-> ps[i], no |-> j]
      <4>1. i \in k + 1..Len(ps) /\ i - 1 \in k + 1..Len(ps) /\ j \in Int /\ j >= 1
        <5>1. i \in k + 1..Len(ps) /\ i - 1 \in k + 1..Len(ps)
          BY <1>1
        <5>. QED BY <1>1, <5>1, ElementOfSeq, SizeFacts
      <4>2. left[i - 1] = ends[i - 1] - n /\ ends[i - 1] \in Nat /\ ends[i - 1] >= n
        BY <2>3, <4>1
      <4>3. n + (left[i - 1] + j) = ends[i - 1] + j /\ left[i - 1] + j \in 1..Len(b) - n
        <5>1. Len(d) = Len(b) - n
          BY <2>1
        <5>2. n + (left[i - 1] + j) = ends[i - 1] + j
          BY <1>4, <4>1, <4>2
        <5>3. left[i - 1] + j \in Int /\ left[i - 1] + j >= 1
          BY <1>4, <4>1, <4>2
        <5>. QED BY <1>1, <1>4, <3>2, <5>1, <5>2, <5>3
      <4>4. ends[i - 1] + j <= Len(b)
        BY <1>1, <1>4, <2>1, <3>2, <4>2
      <4>5. b[ends[i - 1] + j] = [pkt |-> ps[i], no |-> j]
        BY <1>2, <4>1, <4>4 DEF Laid
      <4>6. d[left[i - 1] + j] = b[n + (left[i - 1] + j)]
        BY <2>1, <4>3
      <4>. QED BY <4>3, <4>5, <4>6
    <3>. HIDE DEF d
    <3>. QED BY <3>1, <3>2 DEF Laid
  <2>7. all => Len(d) = left[Len(ps)]
    BY <1>2, <2>1, <2>5
  <2>8. k + 1 \in 0..Len(ps)
    BY <1>1, <1>3
  <2>. HIDE DEF d
  <2>9. Stream(d, ps, k + 1, all)
    BY <2>4, <2>6, <2>7, <2>8 DEF Stream
  <2>. QED BY <2>2, <2>9 DEF d
<1>. QED BY <1>1, <1>3, <1>4, <1>7, <1>8, <1>p

-----------------------------------------------------------------------------
(* Buffer: what it stands for through every move.                           *)

LEMMA ContentsFacts ==
    ASSUME NEW V, NEW b, IsBuffer(b, V)
    PROVE  /\ b.data \in Seq(V) /\ Len(b.data) \in Nat /\ b.read \in Nat /\ b.write \in Nat
           /\ b.read <= b.write /\ b.write <= Len(b.data)
           /\ Contents(b) \in Seq(V) /\ Len(Contents(b)) = b.write - b.read
           /\ \A i \in 1..b.write - b.read : Contents(b)[i] = b.data[b.read + i]
<1>1. /\ b.data \in Seq(V) /\ b.read \in Nat /\ b.write \in Nat
      /\ b.read <= b.write /\ b.write <= Len(b.data) /\ Len(b.data) \in Nat
  BY LenProperties DEF IsBuffer
<1>2. \A i \in b.read + 1..b.write : b.data[i] \in V
  BY <1>1, ElementOfSeq
<1>3. /\ Contents(b) \in Seq(V)
      /\ Len(Contents(b)) = IF b.read + 1 <= b.write THEN b.write - (b.read + 1) + 1 ELSE 0
      /\ \A i \in 1..b.write - (b.read + 1) + 1 : Contents(b)[i] = b.data[b.read + 1 + i - 1]
  <2>. DEFINE d == b.data
              m == b.read + 1
              n == b.write
  <2>1. m \in Int /\ n \in Int /\ \A i \in m..n : d[i] \in V
    BY <1>1, <1>2
  <2>2. Contents(b) = SubSeq(d, m, n)
    BY DEF Contents
  <2>. HIDE DEF d, m, n
  <2>3. /\ Contents(b) \in Seq(V) /\ Len(Contents(b)) = IF m <= n THEN n - m + 1 ELSE 0
        /\ \A i \in 1..n - m + 1 : Contents(b)[i] = d[m + i - 1]
    BY <2>1, <2>2, SubSeqProperties
  <2>. QED BY <2>3 DEF d, m, n
<1>4. b.write - (b.read + 1) + 1 = b.write - b.read
  BY <1>1
<1>5. \A i \in 1..b.write - b.read : b.read + 1 + i - 1 = b.read + i
  BY <1>1
<1>6. Len(Contents(b)) = b.write - b.read
  BY <1>1, <1>3
<1>7. \A i \in 1..b.write - b.read : Contents(b)[i] = b.data[b.read + i]
  BY <1>3, <1>4, <1>5
<1>. QED BY <1>1, <1>3, <1>6, <1>7

\* Two buffers whose cells from peek() on agree stand for the same.
LEMMA SameContents ==
    ASSUME NEW V, NEW b, NEW c, IsBuffer(b, V), IsBuffer(c, V),
           c.write - c.read = b.write - b.read,
           \A i \in 1..b.write - b.read : c.data[c.read + i] = b.data[b.read + i]
    PROVE  Contents(c) = Contents(b)
<1>1. /\ Contents(b) \in Seq(V) /\ Len(Contents(b)) = b.write - b.read
      /\ \A i \in 1..b.write - b.read : Contents(b)[i] = b.data[b.read + i]
  BY ContentsFacts
<1>2. /\ Contents(c) \in Seq(V) /\ Len(Contents(c)) = c.write - c.read
      /\ \A i \in 1..c.write - c.read : Contents(c)[i] = c.data[c.read + i]
  BY ContentsFacts
<1>3. \A i \in 1..b.write - b.read : Contents(c)[i] = Contents(b)[i]
  BY <1>1, <1>2
<1>. QED BY <1>1, <1>2, <1>3, SeqEqual

LEMMA GrowFacts ==
    ASSUME NEW V, NEW b, IsBuffer(b, V), Junk \in V, NEW n \in Nat, Len(b.data) <= b.write + n
    PROVE  /\ IsBuffer(Grow(b, n), V) /\ Contents(Grow(b, n)) = Contents(b)
           /\ Writable(Grow(b, n)) = n
<1>1. /\ b.data \in Seq(V) /\ Len(b.data) \in Nat /\ b.read \in Nat /\ b.write \in Nat
      /\ b.read <= b.write /\ b.write <= Len(b.data)
      /\ b \in [data : Seq(V), read : Nat, write : Nat]
  BY ContentsFacts DEF IsBuffer
<1>. DEFINE d == [i \in 1..b.write + n |-> IF i <= Len(b.data) THEN b.data[i] ELSE Junk]
            c == Grow(b, n)
<1>2. \A i \in 1..Len(b.data) : b.data[i] \in V
  BY <1>1, ElementOfSeq
<1>3. b.write + n \in Nat /\ d \in [1..b.write + n -> V]
  BY <1>1, <1>2
<1>4. d \in Seq(V) /\ DOMAIN d = 1..b.write + n
  BY <1>3, SeqDef
<1>5. Len(d) = b.write + n
  <2>. HIDE DEF d
  <2>. QED BY <1>3, <1>4, LenProperties
<1>6. c = [data |-> d, read |-> b.read, write |-> b.write]
  <2>1. c = [b EXCEPT !.data = d]
    BY DEF Grow
  <2>. HIDE DEF d, c
  <2>. QED BY <1>1, <2>1
<1>7. IsBuffer(c, V)
  <2>. HIDE DEF d, c
  <2>. QED BY <1>1, <1>4, <1>5, <1>6 DEF IsBuffer
<1>8. \A i \in 1..b.write - b.read : d[b.read + i] = b.data[b.read + i]
  BY <1>1
<1>9. Contents(c) = Contents(b)
  <2>. HIDE DEF d, c
  <2>. QED BY <1>6, <1>7, <1>8, SameContents
<1>10. Writable(c) = n
  <2>. HIDE DEF d, c
  <2>. QED BY <1>1, <1>5, <1>6 DEF Writable
<1>. QED BY <1>7, <1>9, <1>10

LEMMA CompactFacts ==
    ASSUME NEW V, NEW b, IsBuffer(b, V)
    PROVE  /\ IsBuffer(Compact(b), V) /\ Contents(Compact(b)) = Contents(b)
           /\ Writable(Compact(b)) = Writable(b) + b.read
<1>1. /\ b.data \in Seq(V) /\ Len(b.data) \in Nat /\ b.read \in Nat /\ b.write \in Nat
      /\ b.read <= b.write /\ b.write <= Len(b.data)
      /\ b \in [data : Seq(V), read : Nat, write : Nat]
  BY ContentsFacts DEF IsBuffer
<1>. DEFINE r == b.write - b.read
            d == [i \in 1..Len(b.data) |-> IF i <= r THEN b.data[b.read + i] ELSE b.data[i]]
            c == Compact(b)
<1>2. \A i \in 1..Len(b.data) : b.data[i] \in V
  BY <1>1, ElementOfSeq
<1>3. d \in [1..Len(b.data) -> V]
  BY <1>1, <1>2
<1>4. d \in Seq(V) /\ DOMAIN d = 1..Len(b.data)
  BY <1>1, <1>3, SeqDef
<1>5. Len(d) = Len(b.data)
  <2>. HIDE DEF d
  <2>. QED BY <1>1, <1>4, LenProperties
<1>6. c = [data |-> d, read |-> 0, write |-> r]
  BY DEF Compact, Readable
<1>7. IsBuffer(c, V)
  <2>1. r \in Nat /\ r <= Len(b.data)
    BY <1>1
  <2>. HIDE DEF d, c, r
  <2>. QED BY <1>4, <1>5, <1>6, <2>1 DEF IsBuffer
<1>8. \A i \in 1..b.write - b.read : d[0 + i] = b.data[b.read + i]
  BY <1>1
<1>9. Contents(c) = Contents(b)
  <2>1. c.write - c.read = r
    BY <1>1, <1>6
  <2>. HIDE DEF d, c
  <2>. QED BY <1>6, <1>7, <1>8, <2>1, SameContents
<1>10. Writable(c) = Writable(b) + b.read
  <2>1. Len(b.data) - r = Len(b.data) - b.write + b.read
    BY <1>1
  <2>. HIDE DEF d, c, r
  <2>. QED BY <1>5, <1>6, <2>1 DEF Writable
<1>. QED BY <1>7, <1>9, <1>10

LEMMA StoreFacts ==
    ASSUME NEW V, NEW b, IsBuffer(b, V), NEW s \in Seq(V), Len(s) <= Writable(b)
    PROVE  IsBuffer(Store(b, s), V) /\ Contents(Store(b, s)) = Contents(b) \o s
<1>1. /\ b.data \in Seq(V) /\ Len(b.data) \in Nat /\ b.read \in Nat /\ b.write \in Nat
      /\ b.read <= b.write /\ b.write <= Len(b.data)
      /\ b \in [data : Seq(V), read : Nat, write : Nat]
      /\ Contents(b) \in Seq(V) /\ Len(Contents(b)) = b.write - b.read
      /\ \A i \in 1..b.write - b.read : Contents(b)[i] = b.data[b.read + i]
  BY ContentsFacts DEF IsBuffer
<1>2. Len(s) \in Nat /\ b.write + Len(s) <= Len(b.data)
  BY <1>1, LenProperties DEF Writable
<1>. DEFINE d == [i \in 1..Len(b.data) |-> IF i \in b.write + 1..b.write + Len(s)
                                           THEN s[i - b.write] ELSE b.data[i]]
            c == Store(b, s)
            r == b.write - b.read
<1>3. d \in [1..Len(b.data) -> V]
  <2>1. ASSUME NEW i \in 1..Len(b.data) PROVE d[i] \in V
    <3>1. CASE i \in b.write + 1..b.write + Len(s)
      <4>1. i - b.write \in 1..Len(s)
        BY <1>1, <1>2, <3>1
      <4>2. s[i - b.write] \in V
        BY <4>1, ElementOfSeq
      <4>. QED BY <3>1, <4>2
    <3>2. CASE i \notin b.write + 1..b.write + Len(s)
      BY <1>1, <3>2, ElementOfSeq
    <3>. QED BY <3>1, <3>2
  <2>. QED BY <2>1
<1>4. d \in Seq(V) /\ DOMAIN d = 1..Len(b.data)
  BY <1>1, <1>3, SeqDef
<1>5. Len(d) = Len(b.data)
  <2>. HIDE DEF d
  <2>. QED BY <1>1, <1>4, LenProperties
<1>6. c = [data |-> d, read |-> b.read, write |-> b.write + Len(s)]
  <2>1. c = [b EXCEPT !.data = d, !.write = b.write + Len(s)]
    BY DEF Store
  <2>. HIDE DEF d, c
  <2>. QED BY <1>1, <2>1
<1>7. IsBuffer(c, V)
  <2>1. b.write + Len(s) \in Nat /\ b.read <= b.write + Len(s)
    BY <1>1, <1>2
  <2>. HIDE DEF d, c
  <2>. QED BY <1>1, <1>2, <1>4, <1>5, <1>6, <2>1 DEF IsBuffer
<1>8. /\ Contents(c) \in Seq(V) /\ Len(Contents(c)) = r + Len(s)
      /\ \A i \in 1..r + Len(s) : Contents(c)[i] = d[b.read + i]
  <2>1. c.write - c.read = r + Len(s) /\ c.read = b.read /\ c.data = d
    BY <1>1, <1>2, <1>6
  <2>. HIDE DEF d, c, r
  <2>. QED BY <1>7, <2>1, ContentsFacts
<1>9. /\ Contents(b) \o s \in Seq(V) /\ Len(Contents(b) \o s) = r + Len(s)
      /\ \A i \in 1..r + Len(s) :
            (Contents(b) \o s)[i] = IF i <= r THEN Contents(b)[i] ELSE s[i - r]
  <2>. DEFINE x == Contents(b)
  <2>1. x \in Seq(V) /\ Len(x) = r
    BY <1>1
  <2>. HIDE DEF x, r
  <2>2. /\ x \o s \in Seq(V) /\ Len(x \o s) = Len(x) + Len(s)
        /\ \A i \in 1..Len(x) + Len(s) : (x \o s)[i] = IF i <= Len(x) THEN x[i] ELSE s[i - Len(x)]
    BY <2>1, ConcatProperties
  <2>3. /\ x \o s \in Seq(V) /\ Len(x \o s) = r + Len(s)
        /\ \A i \in 1..r + Len(s) : (x \o s)[i] = IF i <= r THEN x[i] ELSE s[i - r]
    BY <2>1, <2>2
  <2>. QED BY <2>3 DEF x
<1>10. ASSUME NEW i \in 1..r + Len(s) PROVE Contents(c)[i] = (Contents(b) \o s)[i]
  <2>1. CASE i <= r
    <3>1. /\ b.read + i \in 1..Len(b.data) /\ b.read + i \notin b.write + 1..b.write + Len(s)
          /\ i \in 1..b.write - b.read
      BY <1>1, <1>2, <2>1
    <3>2. d[b.read + i] = b.data[b.read + i]
      BY <3>1
    <3>3. (Contents(b) \o s)[i] = b.data[b.read + i]
      BY <1>1, <1>9, <2>1, <3>1
    <3>. HIDE DEF d, c, r
    <3>. QED BY <1>8, <3>2, <3>3
  <2>2. CASE ~(i <= r)
    <3>1. /\ b.read + i \in 1..Len(b.data) /\ b.read + i \in b.write + 1..b.write + Len(s)
          /\ (b.read + i) - b.write = i - r
      BY <1>1, <1>2, <2>2
    <3>2. d[b.read + i] = s[(b.read + i) - b.write]
      BY <3>1
    <3>. HIDE DEF d, c, r
    <3>3. (Contents(b) \o s)[i] = s[i - r]
      BY <1>9, <2>2
    <3>4. s[(b.read + i) - b.write] = s[i - r]
      BY <3>1
    <3>. QED BY <1>8, <3>2, <3>3, <3>4
  <2>. QED BY <2>1, <2>2
<1>11. Contents(c) = Contents(b) \o s
  <2>. HIDE DEF d, c
  <2>. QED BY <1>8, <1>9, <1>10, SeqEqual
<1>. QED BY <1>7, <1>11

LEMMA AppendedFacts ==
    ASSUME NEW V, NEW b, IsBuffer(b, V), Junk \in V, NEW s \in Seq(V)
    PROVE  IsBuffer(Appended(b, s), V) /\ Contents(Appended(b, s)) = Contents(b) \o s
<1>1. /\ Len(b.data) \in Nat /\ b.read \in Nat /\ b.write \in Nat /\ Len(s) \in Nat
      /\ b.read <= b.write /\ b.write <= Len(b.data)
  BY ContentsFacts, LenProperties
<1>. DEFINE n == Len(s)
            c == IF Writable(b) < n THEN MakeSpace(b, n) ELSE b
<1>2. IsBuffer(c, V) /\ Contents(c) = Contents(b) /\ n <= Writable(c)
  <2>1. CASE ~(Writable(b) < n)
    <3>1. c = b
      BY <2>1
    <3>2. n <= Writable(b)
      BY <1>1, <2>1 DEF Writable
    <3>. QED BY <3>1, <3>2
  <2>2. CASE Writable(b) < n /\ Writable(b) + b.read < n
    <3>1. c = Grow(b, n)
      BY <2>2 DEF MakeSpace
    <3>2. n \in Nat /\ Len(b.data) <= b.write + n
      BY <1>1, <2>2 DEF Writable
    <3>. HIDE DEF c, n
    <3>3. IsBuffer(c, V) /\ Contents(c) = Contents(b) /\ Writable(c) = n
      BY <3>1, <3>2, GrowFacts
    <3>. QED BY <3>2, <3>3
  <2>3. CASE Writable(b) < n /\ ~(Writable(b) + b.read < n)
    <3>1. c = Compact(b)
      BY <2>3 DEF MakeSpace
    <3>2. n <= Writable(b) + b.read
      BY <1>1, <2>3 DEF Writable
    <3>. HIDE DEF c, n
    <3>3. IsBuffer(c, V) /\ Contents(c) = Contents(b) /\ Writable(c) = Writable(b) + b.read
      BY <3>1, CompactFacts
    <3>. QED BY <3>2, <3>3
  <2>. QED BY <2>1, <2>2, <2>3
<1>3. Appended(b, s) = Store(c, s)
  BY DEF Appended
<1>. HIDE DEF c
<1>. QED BY <1>2, <1>3, StoreFacts

\* readFd puts the cells behind those that are there, in whatever room it makes.
LEMMA ReadFdFacts ==
    ASSUME NEW V, NEW b, IsBuffer(b, V), Junk \in V, NEW s \in Seq(V)
    PROVE  IsBuffer(ReadFd(b, s), V) /\ Contents(ReadFd(b, s)) = Contents(b) \o s
<1>1. /\ Len(b.data) \in Nat /\ b.read \in Nat /\ b.write \in Nat /\ Len(s) \in Nat
      /\ b.read <= b.write /\ b.write <= Len(b.data)
      /\ Contents(b) \in Seq(V)
  BY ContentsFacts, LenProperties
<1>2. CASE Len(s) <= Writable(b)
  <2>1. ReadFd(b, s) = Store(b, s)
    BY <1>2 DEF ReadFd
  <2>. QED BY <1>2, <2>1, StoreFacts
<1>3. CASE ~(Len(s) <= Writable(b))
  <2>. DEFINE w == Writable(b)
              c == Store(b, Take(s, w))
  <2>1. w \in 0..Len(s)
    BY <1>1, <1>3 DEF Writable
  <2>2. ReadFd(b, s) = Appended(c, Drop(s, w))
    BY <1>3 DEF ReadFd, Take, Drop
  <2>3. /\ Take(s, w) \in Seq(V) /\ Len(Take(s, w)) = w /\ Drop(s, w) \in Seq(V)
        /\ Take(s, w) \o Drop(s, w) = s
    <3>. HIDE DEF w
    <3>. QED BY <2>1, Pieces, JoinedPieces
  <2>4. IsBuffer(c, V) /\ Contents(c) = Contents(b) \o Take(s, w)
    <3>1. Len(Take(s, w)) <= Writable(b)
      BY <1>1, <2>3 DEF Writable
    <3>2. Take(s, w) \in Seq(V)
      BY <2>3
    <3>. HIDE DEF w
    <3>. QED BY <3>1, <3>2, StoreFacts
  <2>. HIDE DEF w, c
  <2>5. /\ IsBuffer(Appended(c, Drop(s, w)), V)
        /\ Contents(Appended(c, Drop(s, w))) = Contents(c) \o Drop(s, w)
    BY <2>3, <2>4, AppendedFacts
  <2>6. (Contents(b) \o Take(s, w)) \o Drop(s, w) = Contents(b) \o s
    <3>. DEFINE x == Contents(b)
                y == Take(s, w)
                z == Drop(s, w)
    <3>1. x \in Seq(V) /\ y \in Seq(V) /\ z \in Seq(V)
      BY <1>1, <2>3
    <3>0. y \o z = s
      BY <2>3
    <3>. HIDE DEF x, y, z
    <3>2. (x \o y) \o z = x \o s
      <4>0. \A t, u, v \in Seq(V) : (t \o u) \o v = t \o (u \o v)
        BY ConcatAssociative
      <4>1. (x \o y) \o z = x \o (y \o z)
        BY <3>1, <4>0
      <4>. QED BY <3>0, <4>1
    <3>. QED BY <3>2 DEF x, y, z
  <2>. QED BY <2>2, <2>4, <2>5, <2>6
<1>. QED BY <1>2, <1>3

LEMMA RetrieveFacts ==
    ASSUME NEW V, NEW b, IsBuffer(b, V), NEW n \in 0..Len(Contents(b))
    PROVE  IsBuffer(Retrieve(b, n), V) /\ Contents(Retrieve(b, n)) = Drop(Contents(b), n)
<1>1. /\ b.data \in Seq(V) /\ Len(b.data) \in Nat /\ b.read \in Nat /\ b.write \in Nat
      /\ b.read <= b.write /\ b.write <= Len(b.data)
      /\ b \in [data : Seq(V), read : Nat, write : Nat]
      /\ Contents(b) \in Seq(V) /\ Len(Contents(b)) = b.write - b.read
      /\ \A i \in 1..b.write - b.read : Contents(b)[i] = b.data[b.read + i]
  BY ContentsFacts DEF IsBuffer
<1>. DEFINE x == Contents(b)
            c == Retrieve(b, n)
<1>2. /\ Drop(x, n) \in Seq(V) /\ Len(Drop(x, n)) = Len(x) - n
      /\ \A i \in 1..Len(x) - n : Drop(x, n)[i] = x[n + i]
  <2>1. x \in Seq(V) /\ n \in 0..Len(x)
    BY <1>1
  <2>. HIDE DEF x
  <2>. QED BY <2>1, Pieces
<1>3. n \in Nat /\ n <= b.write - b.read
  BY <1>1
<1>4. CASE n < Readable(b)
  <2>1. c = [data |-> b.data, read |-> b.read + n, write |-> b.write]
    BY <1>1, <1>3, <1>4 DEF Retrieve
  <2>. HIDE DEF c
  <2>2. IsBuffer(c, V)
    BY <1>1, <1>3, <2>1 DEF IsBuffer
  <2>3. /\ Contents(c) \in Seq(V) /\ Len(Contents(c)) = c.write - c.read
        /\ \A i \in 1..c.write - c.read : Contents(c)[i] = c.data[c.read + i]
    BY <2>2, ContentsFacts
  <2>4. c.write - c.read = Len(x) - n
    BY <1>1, <1>3, <2>1
  <2>5. ASSUME NEW i \in 1..Len(x) - n PROVE Contents(c)[i] = Drop(x, n)[i]
    <3>1. Contents(c)[i] = b.data[b.read + n + i]
      BY <2>1, <2>3, <2>4
    <3>2. n + i \in 1..b.write - b.read /\ b.read + (n + i) = b.read + n + i
      BY <1>1, <1>3
    <3>3. x[n + i] = b.data[b.read + (n + i)]
      BY <1>1, <3>2
    <3>. QED BY <1>2, <3>1, <3>2, <3>3
  <2>6. Contents(c) = Drop(x, n)
    <3>. HIDE DEF x
    <3>. QED BY <1>2, <2>3, <2>4, <2>5, SeqEqual
  <2>. QED BY <2>2, <2>6 DEF c
<1>5. CASE ~(n < Readable(b))
  <2>1. c = [b EXCEPT !.read = 0, !.write = 0] /\ n = b.write - b.read
    <3>1. n = b.write - b.read
      BY <1>1, <1>3, <1>5 DEF Readable
    <3>2. c = [b EXCEPT !.read = 0, !.write = 0]
      BY <1>5 DEF Retrieve, RetrieveAll
    <3>. QED BY <3>1, <3>2
  <2>. HIDE DEF c
  <2>2. IsBuffer(c, V) /\ c.read = 0 /\ c.write = 0
    <3>1. c.read = 0
      BY <1>1, <2>1
    <3>2. c.write = 0
      BY <1>1, <2>1
    <3>3. c \in [data : Seq(V), read : Nat, write : Nat]
      BY <1>1, <2>1
    <3>4. c.data = b.data
      BY <1>1, <2>1
    <3>. QED BY <1>1, <3>1, <3>2, <3>3, <3>4 DEF IsBuffer
  <2>3. Contents(c) \in Seq(V) /\ Len(Contents(c)) = 0
    BY <2>2, ContentsFacts
  <2>4. Len(Drop(x, n)) = 0
    BY <1>1, <1>2, <2>1
  <2>5. Contents(c) = <<>> /\ Drop(x, n) = <<>>
    BY <1>2, <2>3, <2>4, EmptySeq
  <2>. QED BY <2>2, <2>5 DEF c
<1>. QED BY <1>4, <1>5

\* The three retrievals of a packet take its cells.
LEMMA RetrieveThrice ==
    ASSUME NEW V, NEW b, IsBuffer(b, V), NEW h \in Nat, NEW n \in Nat, n > h, n <= Len(Contents(b))
    PROVE  LET c == Retrieve(Retrieve(Retrieve(b, h), 1), n - h - 1)
           IN  IsBuffer(c, V) /\ Contents(c) = Drop(Contents(b), n)
<1>. DEFINE x == Contents(b)
            b1 == Retrieve(b, h)
            b2 == Retrieve(b1, 1)
            b3 == Retrieve(b2, n - h - 1)
<1>1. x \in Seq(V) /\ Len(x) \in Nat /\ n <= Len(x)
  BY ContentsFacts, LenProperties
<1>2. h \in 0..Len(x) /\ 1 \in 0..Len(x) - h /\ n - h - 1 \in 0..Len(x) - (h + 1)
  BY <1>1
<1>3. IsBuffer(b1, V) /\ Contents(b1) = Drop(x, h)
  BY <1>2, RetrieveFacts
<1>4. Len(Drop(x, h)) = Len(x) - h /\ Len(Drop(x, h + 1)) = Len(x) - (h + 1)
  <2>1. h + 1 \in 0..Len(x)
    BY <1>1
  <2>. HIDE DEF x
  <2>. QED BY <1>1, <1>2, <2>1, Pieces
<1>. HIDE DEF b1
<1>5. IsBuffer(b2, V) /\ Contents(b2) = Drop(Drop(x, h), 1)
  <2>1. 1 \in 0..Len(Contents(b1))
    BY <1>2, <1>3, <1>4
  <2>. HIDE DEF x
  <2>. QED BY <1>3, <2>1, RetrieveFacts
<1>6. Drop(Drop(x, h), 1) = Drop(x, h + 1)
  <2>. HIDE DEF x
  <2>. QED BY <1>1, <1>2, DropTwice
<1>. HIDE DEF b2
<1>7. IsBuffer(b3, V) /\ Contents(b3) = Drop(Drop(x, h + 1), n - h - 1)
  <2>1. n - h - 1 \in 0..Len(Contents(b2))
    BY <1>2, <1>4, <1>5, <1>6
  <2>. HIDE DEF x
  <2>. QED BY <1>5, <1>6, <2>1, RetrieveFacts
<1>8. Drop(Drop(x, h + 1), n - h - 1) = Drop(x, n)
  <2>1. h + 1 \in 0..Len(x) /\ n - h - 1 \in 0..Len(x) - (h + 1) /\ (h + 1) + (n - h - 1) = n
    BY <1>1, <1>2
  <2>. DEFINE i == h + 1
              j == n - h - 1
  <2>2. i \in 0..Len(x) /\ j \in 0..Len(x) - i /\ i + j = n
    BY <2>1
  <2>. HIDE DEF x, i, j
  <2>3. Drop(Drop(x, i), j) = Drop(x, i + j)
    BY <1>1, <2>2, DropTwice
  <2>. QED BY <2>2, <2>3 DEF i, j
<1>. QED BY <1>7, <1>8 DEF b1, b2

-----------------------------------------------------------------------------
(* The senders, the flush and the close.                                    *)

Typed ==
    /\ pc \in [Threads -> {"idle", "write", "arm"}]
    /\ todo \in [Threads -> Seq(Packets)] /\ rest \in [Threads -> Seq(Cells)]
    /\ writeBuffer \in Seq(Cells) /\ out \in Seq(Cells) /\ Len(out) <= SockCap
    /\ writeEventEnabled \in BOOLEAN /\ interestOut \in BOOLEAN /\ closed \in BOOLEAN
    /\ ready \in BOOLEAN /\ noSpace \in BOOLEAN /\ hup \in BOOLEAN /\ outToo \in BOOLEAN

\* A sender is past its lock, or the reactor in onWrite, exactly while it holds
\* sendMutex_; what it is at says what is left to write.
Locks ==
    /\ \A t \in Threads :
          /\ lock = t <=> pc[t] # "idle"
          /\ pc[t] = "write" => rest[t] # <<>> /\ writeBuffer = <<>>
          /\ pc[t] = "arm" => writeBuffer # <<>> /\ ~writeEventEnabled
    /\ lock = Reactor <=> rpc = "write"
    /\ lock \in Threads \cup {Reactor, Nobody}

\* The descriptor leaves epoll after closed_ is set, at the end of onRead.
Closing ==
    /\ rpc \in {"del", "closed"} => closed
    /\ ~registered => rpc = "closed"
    /\ registered => writeEventEnabled = interestOut
    /\ hup => link # "up"

\* The reactor is on its way to onWrite, or in it.
Flushing == WillFlush \/ rpc = "write"

\* While the connection is open, a write event is asked for exactly when something
\* waits, and it comes: also when the kernel's buffer drains before it is asked for.
Woken ==
    /\ Flushing => interestOut
    /\ link = "up" /\ ~closed =>
          /\ lock = Nobody => (interestOut <=> writeBuffer # <<>>)
          /\ interestOut => ready \/ noSpace \/ Flushing
          /\ \A t \in Threads : pc[t] = "write" => ~interestOut
          /\ \A t \in Threads : pc[t] = "arm" => noSpace \/ Room > 0

Inv == Typed /\ Locks /\ Closing /\ Woken

LEMMA NamesDiffer ==
    /\ Reactor \notin Threads /\ Nobody \notin Threads /\ Nobody # Reactor
    /\ SockCap \in Nat \ {0}
BY ThreadsAssumption, PacketsAssumption

LEMMA CellsFacts ==
    ASSUME NEW p \in Packets
    PROVE  CellsOf(p) \in Seq(Cells) /\ CellsOf(p) # <<>>
<1>1. CellsOf(p) \in Seq(Cells) /\ Len(CellsOf(p)) # 0
  BY PacketCells, SizeFacts
<1>. QED BY <1>1, EmptySeq

LEMMA CutFacts ==
    ASSUME NEW s \in Seq(Cells), NEW n \in 1..Len(s)
    PROVE  /\ Take(s, n) \in Seq(Cells) /\ Len(Take(s, n)) = n
           /\ Drop(s, n) \in Seq(Cells) /\ Len(Drop(s, n)) = Len(s) - n
           /\ n # Len(s) => Drop(s, n) # <<>>
<1>1. n \in 0..Len(s) /\ Len(s) \in Nat
  BY LenProperties
<1>2. /\ Take(s, n) \in Seq(Cells) /\ Len(Take(s, n)) = n
      /\ Drop(s, n) \in Seq(Cells) /\ Len(Drop(s, n)) = Len(s) - n
  BY <1>1, Pieces
<1>3. n # Len(s) => Len(Drop(s, n)) # 0
  BY <1>1, <1>2
<1>. QED BY <1>2, <1>3, EmptySeq

LEMMA JoinFacts ==
    ASSUME NEW s \in Seq(Cells), NEW t \in Seq(Cells)
    PROVE  /\ s \o t \in Seq(Cells) /\ Len(s \o t) = Len(s) + Len(t)
           /\ s # <<>> \/ t # <<>> => s \o t # <<>>
<1>1. s \o t \in Seq(Cells) /\ Len(s \o t) = Len(s) + Len(t) /\ Len(s) \in Nat /\ Len(t) \in Nat
  BY ConcatProperties, LenProperties
<1>2. (s # <<>> => Len(s) > 0) /\ (t # <<>> => Len(t) > 0)
  BY <1>1, EmptySeq
<1>3. s # <<>> \/ t # <<>> => Len(s \o t) # 0
  BY <1>1, <1>2
<1>. QED BY <1>1, <1>3, EmptySeq

\* A write of the first n cells of s leaves the kernel's buffer within its bound.
LEMMA WrittenFacts ==
    ASSUME Typed, NEW s \in Seq(Cells), NEW n \in 1..Len(s), CanWrite(n), Written(s, n)
    PROVE  out' \in Seq(Cells) /\ Len(out') <= SockCap /\ UNCHANGED edges
<1>1. Take(s, n) \in Seq(Cells) /\ Len(Take(s, n)) = n /\ n \in Nat
  BY CutFacts
<1>2. /\ out \o Take(s, n) \in Seq(Cells) /\ Len(out \o Take(s, n)) = Len(out) + n
      /\ Len(out) \in Nat
  BY <1>1, JoinFacts, LenProperties DEF Typed
<1>3. Len(out) + n <= SockCap
  BY <1>1, <1>2, NamesDiffer DEF CanWrite, Room
<1>. QED BY <1>2, <1>3 DEF Written, Typed

-----------------------------------------------------------------------------
(* The invariant.                                                           *)

LEMMA InvInit == Init => Inv
<1>. SUFFICES ASSUME Init PROVE Inv
  OBVIOUS
<1>1. Typed
  <2>1. <<>> \in Seq(Cells) /\ Len(<<>>) = 0
    BY EmptySeq
  <2>2. todo \in [Threads -> Seq(Packets)]
    BY LoadsAssumption DEF Init
  <2>3. rest \in [Threads -> Seq(Cells)] /\ pc \in [Threads -> {"idle", "write", "arm"}]
    BY <2>1 DEF Init
  <2>4. Len(out) <= SockCap
    BY <2>1, NamesDiffer DEF Init
  <2>. QED BY <2>1, <2>2, <2>3, <2>4 DEF Init, Typed
<1>2. Locks
  BY NamesDiffer DEF Init, Locks
<1>3. Closing /\ Woken
  BY NamesDiffer DEF Init, Closing, Woken, Flushing, WillFlush
<1>. QED BY <1>1, <1>2, <1>3 DEF Inv

\* What a sender that begins finds.
LEMMA BeginFacts ==
    ASSUME Inv, NEW t \in Threads, Begin(t)
    PROVE  /\ Head(todo[t]) \in Packets
           /\ NextPacket(t) => todo' \in [Threads -> Seq(Packets)]
           /\ CellsOf(Head(todo[t])) \in Seq(Cells) /\ CellsOf(Head(todo[t])) # <<>>
           /\ lock = Nobody /\ pc[t] = "idle" /\ \A u \in Threads : pc[u] = "idle"
           /\ rpc # "write"
<1>1. todo[t] \in Seq(Packets) /\ todo[t] # <<>>
  BY DEF Inv, Typed, Begin
<1>2. Head(todo[t]) \in Packets /\ Tail(todo[t]) \in Seq(Packets)
  BY <1>1, HeadTailProperties
<1>3. lock = Nobody /\ pc[t] = "idle" /\ \A u \in Threads : pc[u] = "idle"
  BY NamesDiffer DEF Inv, Locks, Begin
<1>4. rpc # "write"
  BY <1>3, NamesDiffer DEF Inv, Locks
<1>5. NextPacket(t) => todo' \in [Threads -> Seq(Packets)]
  BY <1>2 DEF NextPacket, Inv, Typed
<1>6. CellsOf(Head(todo[t])) \in Seq(Cells) /\ CellsOf(Head(todo[t])) # <<>>
  BY <1>2, CellsFacts
<1>. QED BY <1>2, <1>3, <1>4, <1>5, <1>6

\* Only the holder of sendMutex_ is past its lock.
LEMMA Alone ==
    ASSUME Inv, NEW t \in Threads, pc[t] # "idle"
    PROVE  lock = t /\ rpc # "write" /\ \A u \in Threads \ {t} : pc[u] = "idle"
<1>1. lock = t
  BY DEF Inv, Locks
<1>. QED BY <1>1, NamesDiffer DEF Inv, Locks

LEMMA ReactorAlone ==
    ASSUME Inv, rpc = "write"
    PROVE  lock = Reactor /\ \A t \in Threads : pc[t] = "idle"
BY NamesDiffer DEF Inv, Locks

\* What only reads, closes or moves cells leaves alone.
senderVars == <<pc, todo, rest, lock, writeBuffer, writeEventEnabled>>

LEMMA SenderStep ==
    ASSUME Inv, NEW t \in Threads, Sender(t)
    PROVE  Inv'
<1>. USE DEF sends, queue, interest, edges, client, reactor, inbound, afar
<1>0. Typed /\ Locks /\ Closing /\ Woken
  BY DEF Inv
<1>1. CASE SendOnClosed(t)
  <2>1. Typed'
    BY <1>0, <1>1, BeginFacts DEF SendOnClosed, Typed
  <2>2. Locks' /\ Closing'
    BY <1>0, <1>1 DEF SendOnClosed, Locks, Closing
  <2>3. Woken'
    BY <1>0, <1>1 DEF SendOnClosed, Woken, Flushing, WillFlush, Room
  <2>. QED BY <2>1, <2>2, <2>3 DEF Inv
<1>2. CASE SendQueued(t)
  <2>. DEFINE p == Head(todo[t])
  <2>0. /\ CellsOf(p) \in Seq(Cells) /\ CellsOf(p) # <<>> /\ lock = Nobody
        /\ \A u \in Threads : pc[u] = "idle"
        /\ rpc # "write" /\ todo' \in [Threads -> Seq(Packets)]
    BY <1>2, BeginFacts DEF SendQueued
  <2>1. writeBuffer' \in Seq(Cells) /\ writeBuffer' # <<>> /\ writeBuffer # <<>>
    BY <1>0, <1>2, <2>0, JoinFacts DEF SendQueued, Behind, Typed
  <2>2. Typed'
    BY <1>0, <1>2, <2>0, <2>1 DEF SendQueued, Typed
  <2>3. Locks'
    BY <1>0, <1>2, <2>0, <2>1, NamesDiffer DEF SendQueued, Locks, Typed
  <2>4. Closing'
    BY <1>0, <1>2 DEF SendQueued, Closing
  <2>5. link = "up" /\ ~closed => registered /\ writeEventEnabled /\ interestOut
    BY <1>0, <2>0, <2>1 DEF Closing, Woken, Typed
  <2>6. Woken'
    <3>1. link = "up" /\ ~closed => \A u \in Threads : pc'[u] = "idle"
      BY <1>0, <1>2, <2>0, <2>5 DEF SendQueued, Typed
    <3>2. (Flushing <=> Flushing') /\ UNCHANGED <<interestOut, ready, noSpace, link, closed>>
      BY <1>2 DEF SendQueued, Flushing, WillFlush
    <3>. QED BY <1>0, <2>1, <2>5, <3>1, <3>2 DEF Woken
  <2>. QED BY <2>2, <2>3, <2>4, <2>6 DEF Inv
<1>3. CASE SendBegin(t)
  <2>. DEFINE p == Head(todo[t])
  <2>0. /\ CellsOf(p) \in Seq(Cells) /\ CellsOf(p) # <<>> /\ lock = Nobody
        /\ \A u \in Threads : pc[u] = "idle"
        /\ rpc # "write" /\ todo' \in [Threads -> Seq(Packets)]
    BY <1>3, BeginFacts DEF SendBegin
  <2>1. /\ rest' = [rest EXCEPT ![t] = CellsOf(p)] /\ pc' = [pc EXCEPT ![t] = "write"]
        /\ lock' = t /\ writeBuffer = <<>>
        /\ UNCHANGED <<writeBuffer, writeEventEnabled, interest, edges, out, reactor, closed, link>>
    BY <1>3 DEF SendBegin
  <2>. HIDE DEF p
  <2>2. Typed'
    BY <1>0, <2>0, <2>1 DEF Typed
  <2>3. Locks'
    BY <1>0, <2>0, <2>1, NamesDiffer DEF Locks, Typed
  <2>4. Closing'
    BY <1>0, <2>1 DEF Closing
  <2>5. Woken'
    <3>1. link = "up" /\ ~closed => ~interestOut
      BY <1>0, <2>0, <2>1 DEF Woken
    <3>2. (Flushing <=> Flushing') /\ lock' # Nobody /\ \A u \in Threads : pc'[u] # "arm"
      BY <1>0, <2>0, <2>1, NamesDiffer DEF Flushing, WillFlush, Typed
    <3>. QED BY <1>0, <2>1, <3>1, <3>2 DEF Woken
  <2>. QED BY <2>2, <2>3, <2>4, <2>5 DEF Inv
<1>4. CASE SendWrite(t)
  <2>0. /\ pc[t] = "write" /\ lock = t /\ rpc # "write" /\ rest[t] \in Seq(Cells)
        /\ \A u \in Threads \ {t} : pc[u] = "idle"
    BY <1>0, <1>4, Alone DEF SendWrite, Typed
  <2>1. PICK n \in 1..Len(rest[t]) :
            /\ CanWrite(n) /\ Written(rest[t], n)
            /\ rest' = [rest EXCEPT ![t] = Drop(@, n)]
            /\ IF n = Len(rest[t]) THEN Done(t) ELSE UNCHANGED <<pc, lock>>
    BY <1>4 DEF SendWrite
  <2>2. /\ Drop(rest[t], n) \in Seq(Cells) /\ (n # Len(rest[t]) => Drop(rest[t], n) # <<>>)
        /\ out' \in Seq(Cells) /\ Len(out') <= SockCap /\ UNCHANGED edges
    BY <1>0, <2>0, <2>1, CutFacts, WrittenFacts
  <2>3. UNCHANGED <<todo, writeBuffer, writeEventEnabled, interest, reactor, closed, link>>
    BY <1>4 DEF SendWrite
  <2>4. \/ pc' = [pc EXCEPT ![t] = "idle"] /\ lock' = Nobody
        \/ UNCHANGED <<pc, lock>> /\ n # Len(rest[t])
    BY <2>1 DEF Done
  <2>5. Typed'
    BY <1>0, <2>1, <2>2, <2>3, <2>4 DEF Typed
  <2>6. Locks'
    BY <1>0, <2>0, <2>1, <2>2, <2>3, <2>4, NamesDiffer DEF Locks, Typed
  <2>7. Closing'
    BY <1>0, <2>2, <2>3 DEF Closing
  <2>8. Woken'
    <3>1. (link = "up" /\ ~closed => ~interestOut) /\ writeBuffer = <<>>
      BY <1>0, <2>0 DEF Woken, Locks
    <3>2. (Flushing <=> Flushing') /\ \A u \in Threads : pc'[u] # "arm"
      BY <1>0, <2>0, <2>3, <2>4 DEF Flushing, WillFlush, Typed
    <3>. QED BY <1>0, <2>2, <2>3, <3>1, <3>2 DEF Woken
  <2>. QED BY <2>5, <2>6, <2>7, <2>8 DEF Inv
<1>5. CASE SendError(t)
  <2>0. /\ pc[t] = "write" /\ lock = t /\ rpc # "write"
        /\ \A u \in Threads \ {t} : pc[u] = "idle" /\ link # "up"
    BY <1>5, Alone DEF SendError, WriteFails
  <2>1. /\ rest' = [rest EXCEPT ![t] = <<>>] /\ pc' = [pc EXCEPT ![t] = "idle"] /\ lock' = Nobody
        /\ UNCHANGED <<todo, writeBuffer, writeEventEnabled, interest, edges, out, reactor, closed,
                       link>>
        /\ link # "up"
    BY <1>5 DEF SendError, Done, WriteFails
  <2>2. Typed'
    <3>1. <<>> \in Seq(Cells)
      BY EmptySeq
    <3>. QED BY <1>0, <2>1, <3>1 DEF Typed
  <2>3. Locks'
    BY <1>0, <2>0, <2>1, NamesDiffer DEF Locks, Typed
  <2>4. Closing' /\ Woken'
    BY <1>0, <2>1 DEF Closing, Woken, Flushing, WillFlush
  <2>. QED BY <2>2, <2>3, <2>4 DEF Inv
<1>6. CASE SendBlocked(t)
  <2>0. /\ pc[t] = "write" /\ lock = t /\ rpc # "write"
        /\ \A u \in Threads \ {t} : pc[u] = "idle"
        /\ rest[t] \in Seq(Cells) /\ rest[t] # <<>> /\ writeBuffer = <<>>
    BY <1>0, <1>6, Alone DEF SendBlocked, Typed, Locks
  <2>1. writeBuffer' \in Seq(Cells) /\ writeBuffer' # <<>>
    BY <1>0, <1>6, <2>0, JoinFacts DEF SendBlocked, Typed
  <2>2. /\ rest' = [rest EXCEPT ![t] = <<>>] /\ noSpace' = TRUE
        /\ UNCHANGED <<todo, writeEventEnabled, interest, ready, hup, out, reactor, closed, link>>
        /\ \/ writeEventEnabled /\ pc' = [pc EXCEPT ![t] = "idle"] /\ lock' = Nobody
           \/ ~writeEventEnabled /\ pc' = [pc EXCEPT ![t] = "arm"] /\ lock' = lock
    BY <1>6 DEF SendBlocked, MissSpace, Done
  <2>3. Typed'
    <3>1. <<>> \in Seq(Cells)
      BY EmptySeq
    <3>. QED BY <1>0, <2>1, <2>2, <3>1 DEF Typed
  <2>4. Locks'
    BY <1>0, <2>0, <2>1, <2>2, NamesDiffer DEF Locks, Typed
  <2>5. Closing'
    BY <1>0, <2>2 DEF Closing
  <2>6. Woken'
    <3>1. link = "up" /\ ~closed => ~interestOut /\ ~writeEventEnabled
      BY <1>0, <2>0 DEF Woken, Closing
    <3>2. (Flushing <=> Flushing') /\ \A u \in Threads : pc'[u] # "write"
      BY <1>0, <2>0, <2>2 DEF Flushing, WillFlush, Typed
    <3>3. link = "up" /\ ~closed => lock' # Nobody
      BY <2>0, <2>2, <3>1, NamesDiffer
    <3>. QED BY <1>0, <2>2, <3>1, <3>2, <3>3 DEF Woken
  <2>. QED BY <2>3, <2>4, <2>5, <2>6 DEF Inv
<1>7. CASE SendArm(t)
  <2>0. /\ pc[t] = "arm" /\ lock = t /\ rpc # "write"
        /\ \A u \in Threads \ {t} : pc[u] = "idle" /\ writeBuffer # <<>>
    BY <1>0, <1>7, Alone DEF SendArm, Locks
  <2>1. /\ pc' = [pc EXCEPT ![t] = "idle"] /\ lock' = Nobody /\ writeEventEnabled' = TRUE
        /\ interestOut' = TRUE /\ ready' = (Room > 0)
        /\ UNCHANGED <<todo, rest, writeBuffer, registered, noSpace, hup, out, reactor, closed, link>>
        /\ writeBuffer # <<>>
    BY <1>0, <1>7 DEF SendArm, AskForOut, Done, Locks
  <2>2. Typed'
    BY <1>0, <2>1 DEF Typed
  <2>3. Locks'
    BY <1>0, <2>0, <2>1, NamesDiffer DEF Locks, Typed
  <2>4. Closing'
    BY <1>0, <2>1 DEF Closing
  <2>5. Woken'
    <3>1. link = "up" /\ ~closed => noSpace \/ Room > 0
      BY <1>0, <2>0 DEF Woken
    <3>2. \A u \in Threads : pc'[u] = "idle"
      BY <1>0, <2>0, <2>1 DEF Typed
    <3>. QED BY <2>1, <3>1, <3>2 DEF Woken
  <2>. QED BY <2>2, <2>3, <2>4, <2>5 DEF Inv
<1>8. CASE SendArmThrows(t)
  <2>0. /\ pc[t] = "arm" /\ lock = t /\ rpc # "write"
        /\ \A u \in Threads \ {t} : pc[u] = "idle"
    BY <1>8, Alone DEF SendArmThrows
  <2>1. closed
    BY <1>0, <1>8 DEF SendArmThrows, Closing
  <2>2. /\ pc' = [pc EXCEPT ![t] = "idle"] /\ lock' = Nobody
        /\ UNCHANGED <<todo, rest, writeBuffer, writeEventEnabled, interest, edges, out, reactor,
                       closed, link>>
    BY <1>8 DEF SendArmThrows, Done
  <2>3. Typed'
    BY <1>0, <2>2 DEF Typed
  <2>4. Locks'
    BY <1>0, <2>0, <2>2, NamesDiffer DEF Locks, Typed
  <2>5. Closing' /\ Woken'
    BY <1>0, <2>1, <2>2 DEF Closing, Woken, Flushing, WillFlush
  <2>. QED BY <2>3, <2>4, <2>5 DEF Inv
<1>. QED
  BY <1>1, <1>2, <1>3, <1>4, <1>5, <1>6, <1>7, <1>8 DEF Sender

LEMMA OnWriteStep == ASSUME Inv, OnWrite PROVE Inv'
<1>. USE DEF sends, queue, interest, edges, client, reactor, inbound, afar
<1>0. Typed /\ Locks /\ Closing /\ Woken
  BY DEF Inv
<1>1. CASE WriteBegin
  <2>0. \A t \in Threads : pc[t] = "idle"
    BY <1>0, <1>1, NamesDiffer DEF WriteBegin, Locks
  <2>1. /\ rpc = "lock" /\ rpc' = "write" /\ lock' = Reactor
        /\ UNCHANGED <<pc, todo, rest, writeBuffer, writeEventEnabled, interest, edges, out, outToo,
                       closed, link>>
    BY <1>1 DEF WriteBegin
  <2>2. Typed' /\ Closing'
    BY <1>0, <2>1 DEF Typed, Closing
  <2>3. Locks'
    BY <1>0, <2>0, <2>1, NamesDiffer DEF Locks
  <2>4. Woken'
    BY <1>0, <2>0, <2>1, NamesDiffer DEF Woken, Flushing, WillFlush
  <2>. QED BY <2>2, <2>3, <2>4 DEF Inv
<1>2. CASE FlushWrite
  <2>0. rpc = "write" /\ lock = Reactor /\ \A t \in Threads : pc[t] = "idle"
    BY <1>2, ReactorAlone DEF FlushWrite
  <2>1. PICK n \in 1..Len(writeBuffer) :
            /\ CanWrite(n) /\ Written(writeBuffer, n) /\ writeBuffer' = Drop(writeBuffer, n)
    BY <1>2 DEF FlushWrite
  <2>2. /\ writeBuffer' \in Seq(Cells) /\ out' \in Seq(Cells) /\ Len(out') <= SockCap
        /\ UNCHANGED edges
    BY <1>0, <2>1, CutFacts, WrittenFacts DEF Typed
  <2>3. UNCHANGED <<pc, todo, rest, lock, writeEventEnabled, interest, reactor, closed, link>>
    BY <1>2 DEF FlushWrite
  <2>4. Typed' /\ Closing'
    BY <1>0, <2>2, <2>3 DEF Typed, Closing
  <2>5. Locks' /\ Woken'
    BY <1>0, <2>0, <2>2, <2>3, NamesDiffer DEF Locks, Woken, Flushing, WillFlush
  <2>. QED BY <2>4, <2>5 DEF Inv
<1>3. CASE FlushStops
  <2>0. rpc = "write" /\ lock = Reactor /\ \A t \in Threads : pc[t] = "idle"
    BY <1>3, ReactorAlone DEF FlushStops
  <2>1. /\ writeBuffer # <<>> /\ rpc' = "idle" /\ lock' = Nobody
        /\ UNCHANGED <<pc, todo, rest, writeBuffer, writeEventEnabled, interest, out, outToo,
                       closed, link, ready, hup>>
        /\ noSpace' = TRUE \/ (noSpace' = noSpace /\ link # "up")
    BY <1>3 DEF FlushStops, MissSpace, WriteFails
  <2>2. Typed' /\ Closing'
    BY <1>0, <2>0, <2>1 DEF Typed, Closing
  <2>3. Locks'
    BY <1>0, <2>0, <2>1, NamesDiffer DEF Locks
  <2>4. Woken'
    BY <1>0, <2>0, <2>1 DEF Woken, Flushing, WillFlush
  <2>. QED BY <2>2, <2>3, <2>4 DEF Inv
<1>4. CASE FlushDone
  <2>0. rpc = "write" /\ lock = Reactor /\ \A t \in Threads : pc[t] = "idle"
    BY <1>4, ReactorAlone DEF FlushDone
  <2>1. /\ writeBuffer = <<>> /\ rpc' = "idle" /\ lock' = Nobody
        /\ writeEventEnabled' = FALSE /\ interestOut' = FALSE /\ ready' = FALSE
        /\ UNCHANGED <<pc, todo, rest, writeBuffer, registered, noSpace, hup, out, outToo,
                       closed, link>>
    BY <1>4 DEF FlushDone
  <2>2. Typed'
    BY <1>0, <2>1 DEF Typed
  <2>3. Closing'
    BY <1>0, <2>0, <2>1 DEF Closing
  <2>4. Locks' /\ Woken'
    BY <1>0, <2>0, <2>1, NamesDiffer DEF Locks, Woken, Flushing, WillFlush
  <2>. QED BY <2>2, <2>3, <2>4 DEF Inv
<1>. QED BY <1>1, <1>2, <1>3, <1>4 DEF OnWrite

\* The steps that leave the senders and their queue alone.
LEMMA QuietStep ==
    ASSUME Inv, UNCHANGED senderVars, rpc # "write", rpc' # "write", Typed', Closing', Woken'
    PROVE  Inv'
BY DEF Inv, Locks, senderVars

LEMMA OnReadStep == ASSUME Inv, Poll \/ OnRead \/ CloseDel PROVE Inv'
<1>. USE DEF sends, queue, interest, edges, client, reactor, inbound, afar, senderVars
<1>0. Typed /\ Locks /\ Closing /\ Woken
  BY DEF Inv
<1>1. CASE Poll
  <2>1. /\ rpc = "idle" /\ registered /\ (hup \/ inEdge \/ (ready /\ interestOut))
        /\ rpc' = (IF hup \/ inEdge THEN "read" ELSE "lock")
        /\ outToo' = (~hup /\ ready /\ interestOut) /\ ready' = FALSE
        /\ UNCHANGED senderVars
        /\ UNCHANGED <<registered, interestOut, noSpace, hup, out, closed, link>>
    BY <1>1 DEF Poll
  <2>2. Typed' /\ Closing'
    BY <1>0, <2>1 DEF Typed, Closing
  <2>3. Flushing' => interestOut'
    BY <2>1 DEF Flushing, WillFlush
  <2>4. link = "up" /\ interestOut /\ ready => Flushing'
    BY <1>0, <2>1 DEF Closing, Flushing, WillFlush
  <2>5. ~Flushing
    BY <2>1 DEF Flushing, WillFlush
  <2>6. Woken'
    BY <1>0, <2>1, <2>3, <2>4, <2>5 DEF Woken, Room
  <2>. QED BY <2>1, <2>2, <2>6, QuietStep
<1>2. ASSUME NEW to \in {"read", "frames", "lock", "idle", "del"}, Reading(to),
             rpc \in {"read", "frames"}, closed' \in BOOLEAN, link' = link,
             closed => closed', to = "del" => closed',
             ~closed' => to = AfterRead \/ to \in {"read", "frames"},
             to = "lock" => outToo
      PROVE  Inv'
  <2>1. /\ rpc' = to /\ UNCHANGED senderVars
        /\ UNCHANGED <<writeEventEnabled, interest, edges, out, outToo>>
    BY <1>2 DEF Reading
  <2>2. Typed' /\ Closing'
    BY <1>0, <1>2, <2>1 DEF Typed, Closing
  <2>3. Flushing' => interestOut'
    BY <1>0, <1>2, <2>1 DEF Woken, Flushing, WillFlush
  <2>4. ~closed' => (Flushing => Flushing')
    BY <1>2, <2>1 DEF Flushing, WillFlush, AfterRead
  <2>5. Woken'
    BY <1>0, <1>2, <2>1, <2>3, <2>4 DEF Woken, Room
  <2>. QED BY <1>2, <2>1, <2>2, <2>5, QuietStep
<1>3. CASE ReadSome \/ HandlePacket \/ AwaitMore
  BY <1>0, <1>2, <1>3 DEF ReadSome, HandlePacket, AwaitMore, Typed
<1>4. CASE ReadEmpty
  <2>1. AfterRead \in {"lock", "idle"} /\ (AfterRead = "lock" => outToo)
    BY <1>0 DEF AfterRead, Typed
  <2>. QED BY <1>0, <1>2, <1>4, <2>1 DEF ReadEmpty, Typed
<1>5. CASE ReadEnd \/ RefusePacket
  BY <1>0, <1>2, <1>5 DEF ReadEnd, RefusePacket, Typed
<1>6. CASE CloseDel
  <2>1. /\ rpc = "del" /\ rpc' = "closed" /\ registered' = FALSE /\ interestOut' = FALSE
        /\ ready' = FALSE /\ UNCHANGED senderVars
        /\ UNCHANGED <<noSpace, hup, out, outToo, closed, link>>
    BY <1>6 DEF CloseDel
  <2>2. Typed' /\ Closing' /\ closed
    BY <1>0, <2>1 DEF Typed, Closing
  <2>3. Woken'
    BY <2>1, <2>2 DEF Woken, Flushing, WillFlush
  <2>. QED BY <2>1, <2>2, <2>3, QuietStep
<1>. QED BY <1>1, <1>3, <1>4, <1>5, <1>6 DEF OnRead

\* The client, the network and the idle check.
LEMMA FarStep ==
    ASSUME Inv, CloseFd \/ IdleShut \/ ClientSend \/ Arrive \/ ClientGone \/ OnReadyRead
    PROVE  Inv'
<1>. USE DEF sends, queue, interest, edges, client, reactor, inbound, afar, senderVars
<1>0. Typed /\ Locks /\ Closing /\ Woken
  BY DEF Inv
<1>q. ASSUME UNCHANGED senderVars, UNCHANGED <<rpc, outToo, registered, interestOut, closed>>,
             Typed', hup' => link' # "up", link' = "up" => link = "up",
             link' = "up" => (interestOut /\ (ready \/ noSpace) => ready' \/ noSpace'),
             link' = "up" => (noSpace \/ Room > 0 => noSpace' \/ Room' > 0)
      PROVE  Inv'
  <2>1. Locks' /\ Closing'
    BY <1>0, <1>q DEF Locks, Closing
  <2>2. Flushing <=> Flushing'
    BY <1>q DEF Flushing, WillFlush
  <2>3. Woken'
    BY <1>0, <1>q, <2>2 DEF Woken
  <2>. QED BY <1>q, <2>1, <2>3 DEF Inv
<1>1. CASE CloseFd \/ IdleShut \/ ClientGone \/ ClientRefuse
  <2>1. <<>> \in Seq(Cells) /\ Len(<<>>) <= SockCap
    BY EmptySeq, NamesDiffer
  <2>2. /\ UNCHANGED senderVars /\ UNCHANGED <<rpc, outToo, registered, interestOut, closed>>
        /\ UNCHANGED <<ready, noSpace>> /\ hup' \in BOOLEAN
        /\ link' # "up" /\ out' \in {out, <<>>}
    BY <1>0, <1>1 DEF CloseFd, IdleShut, ClientGone, ClientRefuse, Typed
  <2>3. Typed'
    BY <1>0, <2>1, <2>2 DEF Typed
  <2>. QED BY <1>q, <2>2, <2>3
<1>2. CASE ClientSend \/ Arrive \/ ClientHandle \/ ClientAwait
  <2>1. /\ UNCHANGED senderVars
        /\ UNCHANGED <<rpc, outToo, registered, interestOut, closed, ready, noSpace, hup, link, out>>
    BY <1>2 DEF ClientSend, Arrive, ClientHandle, ClientAwait
  <2>2. Typed'
    BY <1>0, <2>1 DEF Typed
  <2>. QED BY <1>0, <1>q, <2>1, <2>2 DEF Closing, Room
<1>3. CASE ClientRead
  <2>1. PICK n \in 1..Len(out) : out' = Drop(out, n)
    BY <1>3 DEF ClientRead
  <2>2. hup' = hup /\ link' = link
    BY <1>3 DEF ClientRead
  <2>3. /\ ready' = (ready \/ (noSpace /\ interestOut)) /\ noSpace' = FALSE
        /\ UNCHANGED senderVars /\ UNCHANGED <<rpc, outToo, registered, interestOut, closed>>
    BY <1>3 DEF ClientRead
  <2>5. /\ Drop(out, n) \in Seq(Cells) /\ Len(Drop(out, n)) = Len(out) - n
        /\ Len(out) \in Nat /\ Len(out) <= SockCap /\ n \in Nat /\ n >= 1
    BY <1>0, CutFacts, LenProperties DEF Typed
  <2>6. Len(Drop(out, n)) < SockCap
    BY <2>5, NamesDiffer
  <2>7. Typed'
    <3>0. Len(Drop(out, n)) <= SockCap
      BY <2>5, <2>6, NamesDiffer
    <3>1. out' \in Seq(Cells) /\ Len(out') <= SockCap
      BY <2>1, <2>5, <3>0
    <3>2. ready' \in BOOLEAN /\ noSpace' \in BOOLEAN
      BY <2>3
    <3>. QED BY <1>0, <2>2, <2>3, <3>1, <3>2 DEF Typed
  <2>8. link' = "up" => Room' > 0
    BY <2>1, <2>5, <2>6, NamesDiffer DEF Room
  <2>. QED BY <1>0, <1>q, <2>2, <2>3, <2>7, <2>8 DEF Closing
<1>. QED BY <1>1, <1>2, <1>3 DEF OnReadyRead

LEMMA InvNext == Inv /\ [Next]_vars => Inv'
<1>. SUFFICES ASSUME Inv, [Next]_vars PROVE Inv'
  OBVIOUS
<1>1. CASE UNCHANGED vars
  BY <1>1 DEF vars, sends, queue, interest, edges, client, reactor, inbound, Inv, Typed, Locks,
        Closing, Woken, Flushing, WillFlush, Room
<1>2. CASE Next
  BY <1>2, SenderStep, OnWriteStep, OnReadStep, FarStep DEF Next, ReactorStep
<1>. QED BY <1>1, <1>2

\* What waits in writeBuffer_ has its wake-up, for any number of threads, any
\* packets and any kernel buffer: TcpConnection.cpp:201-241 and Epoll's edges.
THEOREM FlushIsDueAlways == Spec => []FlushIsDue
<1>1. Inv => FlushIsDue
  BY NamesDiffer DEF Inv, Locks, Closing, Woken, Flushing, FlushIsDue
<1>. QED BY <1>1, InvInit, InvNext, PTL DEF Spec

\* Only a background thread in a send that the closing of the connection overtook
\* ends the server: Epoll.cpp's throw is met nowhere else.
THEOREM FallsInRace == Spec => FallsOnlyInRace
<1>1. ASSUME Inv, [Next]_vars
      PROVE  [serverUp /\ ~serverUp' => /\ closed /\ ~registered /\ writeBuffer # <<>>
                                        /\ \E t \in Background : pc[t] = "arm" /\ lock = t]_vars
  <2>1. SUFFICES ASSUME serverUp, ~serverUp'
                 PROVE  /\ closed /\ ~registered /\ writeBuffer # <<>>
                        /\ \E t \in Background : pc[t] = "arm" /\ lock = t
    OBVIOUS
  <2>2. PICK t \in Threads : SendArmThrows(t)
    BY <1>1, <2>1
       DEF Next, Sender, SendOnClosed, SendQueued, SendBegin, SendWrite, SendError, SendBlocked,
           SendArm, ReactorStep, Poll, OnWrite, WriteBegin, FlushWrite, FlushStops, FlushDone,
           OnRead, ReadSome, ReadEmpty, ReadEnd, HandlePacket, AwaitMore, RefusePacket, Reading,
           CloseDel, CloseFd, IdleShut, ClientSend, Arrive, ClientGone, OnReadyRead,
           ClientRead, ClientHandle, ClientAwait, ClientRefuse, vars
  <2>3. t \in Background /\ pc[t] = "arm" /\ ~registered
    BY <2>1, <2>2 DEF SendArmThrows
  <2>. QED BY <1>1, <2>3, Alone DEF Inv, Locks, Closing
<1>. QED BY <1>1, InvInit, InvNext, PTL DEF Spec, FallsOnlyInRace

-----------------------------------------------------------------------------
(* Both directions as streams of packets.                                   *)

FarTyped ==
    /\ rpc \in {"idle", "lock", "write", "read", "frames", "del", "closed"}
    /\ link \in {"up", "shut", "gone"}
    /\ registered \in BOOLEAN /\ inEdge \in BOOLEAN /\ reading \in BOOLEAN /\ serverUp \in BOOLEAN
    /\ readBuffer \in Seq(Cells) /\ received \in Seq(Packets) /\ accepted \in Seq(Packets)
    /\ wire \in Seq(Cells) /\ arrived \in Seq(Cells)
    /\ IsBuffer(buf, Cells \cup {Junk}) /\ Contents(buf) \in Seq(Cells)
    /\ ask \in Seq(Packets) /\ handled \in Seq(Packets) /\ asked \in Seq(Packets)

\* What send has accepted and not written: the rest of the packet it is at, or
\* what waits in writeBuffer_.
Waiting == IF lock \in Threads /\ pc[lock] = "write" THEN rest[lock] ELSE writeBuffer

\* The cells on their way to the client, from its readBuffer_ on.
Outbound == readBuffer \o (out \o (IF link = "up" THEN Waiting ELSE <<>>))

\* While the link is up, they are the cells of the packets accepted and not
\* received; when it is shut, some of them from the front.
OutStream ==
    IF link = "gone" THEN ~reading
    ELSE Stream(Outbound, accepted, Len(received), link = "up")

\* The cells on their way to the handlers, from the buffer's on.
Inbound == Contents(buf) \o (arrived \o wire)

InStream == Stream(Inbound, asked, Len(handled), link = "up")

PipesInv == Inv /\ FarTyped /\ OutStream /\ InStream

LEMMA WaitingFacts ==
    Typed /\ Locks =>
        /\ Waiting \in Seq(Cells)
        /\ \A t \in Threads : pc[t] = "write" => Waiting = rest[t]
        /\ (\A t \in Threads : pc[t] # "write") => Waiting = writeBuffer
<1>. SUFFICES ASSUME Typed, Locks
              PROVE  /\ Waiting \in Seq(Cells)
                     /\ \A t \in Threads : pc[t] = "write" => Waiting = rest[t]
                     /\ (\A t \in Threads : pc[t] # "write") => Waiting = writeBuffer
  OBVIOUS
<1>1. Waiting \in Seq(Cells)
  BY DEF Waiting, Typed
<1>2. ASSUME NEW t \in Threads, pc[t] = "write" PROVE Waiting = rest[t]
  <2>1. lock = t
    BY <1>2 DEF Locks
  <2>. QED BY <1>2, <2>1 DEF Waiting
<1>3. (\A t \in Threads : pc[t] # "write") => Waiting = writeBuffer
  BY DEF Waiting
<1>. QED BY <1>1, <1>2, <1>3

LEMMA WaitingNext ==
    (Typed /\ Locks)' =>
        /\ Waiting' \in Seq(Cells)
        /\ \A t \in Threads : pc'[t] = "write" => Waiting' = rest'[t]
        /\ (\A t \in Threads : pc'[t] # "write") => Waiting' = writeBuffer'
<1>1. (Typed /\ Locks)' =>
          (/\ Waiting \in Seq(Cells)
           /\ \A t \in Threads : pc[t] = "write" => Waiting = rest[t]
           /\ (\A t \in Threads : pc[t] # "write") => Waiting = writeBuffer)'
  BY WaitingFacts, PTL
<1>. QED BY <1>1

LEMMA OutboundFacts ==
    ASSUME Inv, FarTyped
    PROVE  /\ Waiting \in Seq(Cells) /\ out \in Seq(Cells) /\ readBuffer \in Seq(Cells)
           /\ out \o Waiting \in Seq(Cells) /\ readBuffer \o out \in Seq(Cells)
           /\ link = "up" => Outbound = readBuffer \o (out \o Waiting)
           /\ link = "shut" => Outbound = readBuffer \o out
           /\ Outbound \in Seq(Cells)
<1>1. /\ Waiting \in Seq(Cells) /\ out \in Seq(Cells) /\ readBuffer \in Seq(Cells)
      /\ <<>> \in Seq(Cells)
  BY WaitingFacts, EmptySeq DEF Inv, Typed, FarTyped
<1>2. out \o Waiting \in Seq(Cells) /\ readBuffer \o out \in Seq(Cells) /\ out \o <<>> = out
  BY <1>1, ConcatProperties, ConcatEmptySeq
<1>3. link = "up" => Outbound = readBuffer \o (out \o Waiting)
  BY DEF Outbound
<1>4. link # "up" => Outbound = readBuffer \o out
  BY <1>2 DEF Outbound
<1>5. Outbound \in Seq(Cells)
  BY <1>1, <1>2, <1>3, <1>4, ConcatProperties
<1>. QED BY <1>1, <1>2, <1>3, <1>4, <1>5

\* Steps that move cells towards the client, and those that leave them alone.
LEMMA Moves ==
    ASSUME PipesInv, UNCHANGED <<link, accepted, received, readBuffer, reading>>,
           link = "up" => out' \o Waiting' = out \o Waiting,
           link = "shut" => out' = out
    PROVE  OutStream'
<1>1. CASE link = "gone"
  BY <1>1 DEF PipesInv, OutStream
<1>2. CASE link = "up"
  <2>1. Outbound' = Outbound
    BY <1>2 DEF Outbound
  <2>. QED BY <1>2, <2>1 DEF PipesInv, OutStream
<1>3. CASE link = "shut"
  <2>1. Outbound' = Outbound
    BY <1>3 DEF Outbound
  <2>. QED BY <1>3, <2>1 DEF PipesInv, OutStream
<1>. QED BY <1>1, <1>2, <1>3 DEF PipesInv, FarTyped

\* send takes one more packet.
LEMMA Accepts ==
    ASSUME PipesInv, UNCHANGED <<link, received, readBuffer, out, reading>>,
           NEW p \in Packets, accepted' = Append(accepted, p),
           Waiting' = Waiting \o CellsOf(p)
    PROVE  OutStream'
<1>0. /\ accepted \in Seq(Packets) /\ CellsOf(p) \in Seq(Cells) /\ Inv /\ FarTyped
      /\ link \in {"up", "shut", "gone"}
  BY PacketCells DEF PipesInv, FarTyped
<1>1. CASE link = "gone"
  BY <1>1 DEF PipesInv, OutStream
<1>2. CASE link = "up"
  <2>1. Outbound = readBuffer \o (out \o Waiting) /\ Outbound \in Seq(Cells)
    BY <1>0, <1>2, OutboundFacts
  <2>2. Outbound' = readBuffer \o (out \o (Waiting \o CellsOf(p)))
    BY <1>2 DEF Outbound
  <2>. DEFINE c == CellsOf(p)
              b == out \o Waiting
  <2>3. /\ c \in Seq(Cells) /\ out \in Seq(Cells) /\ Waiting \in Seq(Cells)
        /\ readBuffer \in Seq(Cells) /\ b \in Seq(Cells)
    BY <1>0, OutboundFacts
  <2>4. (out \o Waiting) \o c = out \o (Waiting \o c)
    <3>. HIDE DEF c
    <3>1. out \in Seq(Cells) /\ Waiting \in Seq(Cells) /\ c \in Seq(Cells)
      BY <2>3
    <3>. QED BY <3>1, JoinsAssociate
  <2>5. (readBuffer \o b) \o c = readBuffer \o (b \o c)
    <3>. HIDE DEF b, c
    <3>1. readBuffer \in Seq(Cells) /\ b \in Seq(Cells) /\ c \in Seq(Cells)
      BY <2>3
    <3>. QED BY <3>1, JoinsAssociate
  <2>r. Outbound' = Outbound \o CellsOf(p)
    BY <2>1, <2>2, <2>4, <2>5
  <2>6. Stream(Outbound, accepted, Len(received), TRUE)
    BY <1>2 DEF PipesInv, OutStream
  <2>7. Stream(Outbound \o CellsOf(p), Append(accepted, p), Len(received), TRUE)
    BY <1>0, <2>1, <2>6, StreamMore
  <2>8. Stream(Outbound', accepted', Len(received'), TRUE)
    BY <2>r, <2>7
  <2>. QED BY <1>2, <2>8 DEF OutStream
<1>3. CASE link = "shut"
  <2>1. Outbound' = Outbound /\ Outbound \in Seq(Cells)
    BY <1>0, <1>3, OutboundFacts DEF Outbound
  <2>2. Stream(Outbound, accepted, Len(received), FALSE)
    BY <1>3 DEF PipesInv, OutStream
  <2>3. Stream(Outbound, Append(accepted, p), Len(received), FALSE)
    BY <1>0, <2>1, <2>2, StreamMore
  <2>4. Stream(Outbound', accepted', Len(received'), FALSE)
    BY <2>1, <2>3
  <2>. QED BY <1>3, <2>4 DEF OutStream
<1>. QED BY <1>0, <1>1, <1>2, <1>3

\* n cells of what waits are written.
LEMMA Writes ==
    ASSUME PipesInv, UNCHANGED <<link, accepted, received, readBuffer, reading>>,
           NEW n \in 1..Len(Waiting), CanWrite(n), Written(Waiting, n), Waiting' = Drop(Waiting, n)
    PROVE  OutStream'
<1>1. Waiting \in Seq(Cells) /\ out \in Seq(Cells) /\ n \in 0..Len(Waiting)
  BY OutboundFacts, LenProperties DEF PipesInv
<1>2. Take(Waiting, n) \in Seq(Cells) /\ Drop(Waiting, n) \in Seq(Cells)
  BY <1>1, Pieces
<1>3. (out \o Take(Waiting, n)) \o Drop(Waiting, n) = out \o (Take(Waiting, n) \o Drop(Waiting, n))
  <2>. DEFINE a == Take(Waiting, n)
              b == Drop(Waiting, n)
  <2>1. a \in Seq(Cells) /\ b \in Seq(Cells) /\ out \in Seq(Cells)
    BY <1>1, <1>2
  <2>. HIDE DEF a, b
  <2>2. (out \o a) \o b = out \o (a \o b)
    BY <2>1, ConcatAssociative
  <2>. QED BY <2>2 DEF a, b
<1>4. Take(Waiting, n) \o Drop(Waiting, n) = Waiting
  BY <1>1, JoinedPieces
<1>5. link = "up" => out' \o Waiting' = out \o Waiting
  BY <1>3, <1>4 DEF Written
<1>6. link # "shut"
  BY DEF CanWrite
<1>. QED BY <1>5, <1>6, Moves

inVars == <<buf, arrived, wire, asked, handled, link>>

LEMMA InKept == ASSUME PipesInv, UNCHANGED inVars PROVE InStream'
BY DEF PipesInv, InStream, Inbound, inVars

LEMMA SenderStream ==
    ASSUME PipesInv, Inv', NEW t \in Threads, Sender(t)
    PROVE  PipesInv'
<1>. USE DEF sends, queue, interest, edges, client, reactor, inbound, afar
<1>0. Inv /\ FarTyped /\ Typed /\ Locks /\ Typed' /\ Locks'
  BY DEF PipesInv, Inv
<1>i. UNCHANGED inVars
  BY DEF inVars, Sender, SendOnClosed, SendQueued, SendBegin, SendWrite, SendError, SendBlocked,
         SendArm, SendArmThrows
<1>f. UNCHANGED <<rpc, readBuffer, received, reading, ask, link>>
  BY DEF Sender, SendOnClosed, SendQueued, SendBegin, SendWrite, SendError, SendBlocked,
         SendArm, SendArmThrows
<1>w. /\ Waiting \in Seq(Cells)
      /\ \A u \in Threads : pc[u] = "write" => Waiting = rest[u]
      /\ (\A u \in Threads : pc[u] # "write") => Waiting = writeBuffer
  BY <1>0, WaitingFacts
<1>n. /\ \A u \in Threads : pc'[u] = "write" => Waiting' = rest'[u]
      /\ (\A u \in Threads : pc'[u] # "write") => Waiting' = writeBuffer'
  BY <1>0, WaitingNext
<1>t. ASSUME registered' \in BOOLEAN, inEdge' \in BOOLEAN, serverUp' \in BOOLEAN,
             accepted' \in Seq(Packets)
      PROVE  FarTyped'
  BY <1>0, <1>i, <1>f, <1>t DEF FarTyped, inVars
<1>q. ASSUME FarTyped', OutStream' PROVE PipesInv'
  BY <1>i, <1>q, InKept DEF PipesInv
<1>1. CASE SendOnClosed(t)
  <2>1. FarTyped'
    BY <1>0, <1>1, <1>t DEF SendOnClosed, FarTyped
  <2>2. Waiting' = Waiting
    BY <1>1 DEF SendOnClosed, Waiting
  <2>3. OutStream'
    BY <1>1, <1>f, <2>2, Moves DEF SendOnClosed
  <2>. QED BY <1>q, <2>1, <2>3
<1>2. CASE SendQueued(t) \/ SendBegin(t)
  <2>. DEFINE p == Head(todo[t])
  <2>0. /\ p \in Packets /\ CellsOf(p) \in Seq(Cells)
        /\ \A u \in Threads : pc[u] = "idle"
    BY <1>0, <1>2, BeginFacts DEF SendQueued, SendBegin
  <2>1. accepted' = Append(accepted, p) /\ UNCHANGED <<out, registered, inEdge, serverUp>>
    BY <1>2 DEF SendQueued, SendBegin
  <2>2. accepted' \in Seq(Packets)
    BY <1>0, <2>0, <2>1, AppendProperties DEF FarTyped
  <2>3. Waiting = writeBuffer
    BY <1>w, <2>0
  <2>4. Waiting' = Waiting \o CellsOf(p)
    <3>1. CASE SendQueued(t)
      <4>1. writeBuffer' = writeBuffer \o CellsOf(p)
        BY <3>1 DEF SendQueued, Behind
      <4>2. \A u \in Threads : pc'[u] # "write"
        BY <1>0, <2>0, <3>1 DEF SendQueued, Typed
      <4>. QED BY <1>n, <2>3, <4>1, <4>2
    <3>2. CASE SendBegin(t)
      <4>1. writeBuffer = <<>> /\ pc'[t] = "write" /\ rest'[t] = CellsOf(p)
        BY <1>0, <3>2 DEF SendBegin, Typed
      <4>2. Waiting' = CellsOf(p)
        BY <1>n, <4>1
      <4>3. <<>> \o CellsOf(p) = CellsOf(p)
        BY <2>0, ConcatEmptySeq
      <4>. QED BY <2>3, <4>1, <4>2, <4>3
    <3>. QED BY <1>2, <3>1, <3>2
  <2>5. FarTyped'
    BY <1>0, <1>t, <2>1, <2>2 DEF FarTyped
  <2>. HIDE DEF p
  <2>6. OutStream'
    BY <1>f, <2>0, <2>1, <2>4, Accepts
  <2>. QED BY <1>q, <2>5, <2>6
<1>3. CASE SendWrite(t)
  <2>0. /\ pc[t] = "write" /\ Waiting = rest[t] /\ writeBuffer = <<>>
        /\ \A u \in Threads \ {t} : pc[u] = "idle"
    BY <1>0, <1>3, <1>w, Alone DEF SendWrite, Locks
  <2>1. PICK n \in 1..Len(rest[t]) :
            /\ CanWrite(n) /\ Written(rest[t], n)
            /\ rest' = [rest EXCEPT ![t] = Drop(@, n)]
            /\ IF n = Len(rest[t]) THEN Done(t) ELSE UNCHANGED <<pc, lock>>
    BY <1>3 DEF SendWrite
  <2>2. UNCHANGED <<writeBuffer, accepted, registered, serverUp, inEdge>>
    BY <1>3, <2>1 DEF SendWrite, Written
  <2>3. Waiting' = Drop(Waiting, n)
    <3>1. CASE n = Len(rest[t])
      <4>1. \A u \in Threads : pc'[u] # "write"
        BY <1>0, <2>0, <2>1, <3>1 DEF Done, Typed
      <4>2. Drop(Waiting, n) \in Seq(Cells) /\ Len(Drop(Waiting, n)) = 0
        <5>1. n \in 1..Len(Waiting) /\ n = Len(Waiting) /\ Len(Waiting) \in Nat
          BY <1>w, <2>0, <3>1, LenProperties
        <5>2. Drop(Waiting, n) \in Seq(Cells) /\ Len(Drop(Waiting, n)) = Len(Waiting) - n
          BY <1>w, <5>1, CutFacts
        <5>. QED BY <5>1, <5>2
      <4>3. Drop(Waiting, n) = <<>>
        BY <4>2, EmptySeq
      <4>. QED BY <1>n, <2>0, <2>2, <4>1, <4>3
    <3>2. CASE n # Len(rest[t])
      <4>1. pc'[t] = "write" /\ rest'[t] = Drop(rest[t], n)
        BY <1>0, <2>0, <2>1, <3>2 DEF Typed
      <4>. QED BY <1>n, <2>0, <4>1
    <3>. QED BY <3>1, <3>2
  <2>4. FarTyped'
    BY <1>0, <1>t, <2>2 DEF FarTyped
  <2>5. OutStream'
    BY <1>f, <2>0, <2>1, <2>2, <2>3, Writes
  <2>. QED BY <1>q, <2>4, <2>5
<1>4. CASE SendError(t)
  <2>1. link # "up" /\ UNCHANGED <<out, accepted, registered, inEdge, serverUp>>
    BY <1>4 DEF SendError, WriteFails
  <2>2. FarTyped'
    BY <1>0, <1>t, <2>1 DEF FarTyped
  <2>3. OutStream'
    BY <1>f, <2>1, Moves
  <2>. QED BY <1>q, <2>2, <2>3
<1>5. CASE SendBlocked(t)
  <2>0. /\ pc[t] = "write" /\ Waiting = rest[t] /\ writeBuffer = <<>> /\ rest[t] \in Seq(Cells)
        /\ \A u \in Threads \ {t} : pc[u] = "idle"
    BY <1>0, <1>5, <1>w, Alone DEF SendBlocked, Locks, Typed
  <2>1. /\ writeBuffer' = writeBuffer \o rest[t]
        /\ UNCHANGED <<out, accepted, registered, inEdge, serverUp>>
    BY <1>5 DEF SendBlocked, MissSpace
  <2>2. \A u \in Threads : pc'[u] # "write"
    BY <1>0, <1>5, <2>0 DEF SendBlocked, Done, Typed
  <2>3. Waiting' = Waiting
    BY <1>n, <2>0, <2>1, <2>2, ConcatEmptySeq
  <2>4. FarTyped'
    BY <1>0, <1>t, <2>1 DEF FarTyped
  <2>5. OutStream'
    BY <1>f, <2>1, <2>3, Moves
  <2>. QED BY <1>q, <2>4, <2>5
<1>6. CASE SendArm(t) \/ SendArmThrows(t)
  <2>0. pc[t] = "arm" /\ \A u \in Threads \ {t} : pc[u] = "idle"
    BY <1>0, <1>6, Alone DEF SendArm, SendArmThrows
  <2>1. UNCHANGED <<out, accepted, registered, inEdge, writeBuffer>> /\ serverUp' \in BOOLEAN
    BY <1>0, <1>6 DEF SendArm, SendArmThrows, AskForOut, FarTyped
  <2>2. \A u \in Threads : pc[u] # "write" /\ pc'[u] # "write"
    BY <1>0, <1>6, <2>0 DEF SendArm, SendArmThrows, Done, Typed
  <2>3. Waiting' = Waiting
    BY <1>n, <1>w, <2>1, <2>2
  <2>4. FarTyped'
    BY <1>0, <1>t, <2>1 DEF FarTyped
  <2>5. OutStream'
    BY <1>f, <2>1, <2>3, Moves
  <2>. QED BY <1>q, <2>4, <2>5
<1>. QED BY <1>1, <1>2, <1>3, <1>4, <1>5, <1>6 DEF Sender

\* What onWrite, Poll and CloseDel do to the streams.
LEMMA ReactorStream ==
    ASSUME PipesInv, Inv', Poll \/ OnWrite \/ CloseDel
    PROVE  PipesInv'
<1>. USE DEF sends, queue, interest, edges, client, reactor, inbound, afar
<1>0. Inv /\ FarTyped /\ Typed /\ Locks /\ Typed' /\ Locks'
  BY DEF PipesInv, Inv
<1>i. UNCHANGED inVars
  BY DEF inVars, Poll, OnWrite, WriteBegin, FlushWrite, FlushStops, FlushDone, CloseDel
<1>f. UNCHANGED <<link, accepted, received, readBuffer, reading, ask, serverUp, pc, rest>>
  BY DEF Poll, OnWrite, WriteBegin, FlushWrite, FlushStops, FlushDone, CloseDel
<1>t. FarTyped'
  <2>1. /\ rpc' \in {"idle", "lock", "write", "read", "frames", "del", "closed"}
        /\ registered' \in BOOLEAN /\ inEdge' \in BOOLEAN
    BY <1>0 DEF FarTyped, Poll, OnWrite, WriteBegin, FlushWrite, FlushStops, FlushDone, CloseDel,
           Written, MissSpace
  <2>. QED BY <1>0, <1>i, <1>f, <2>1 DEF FarTyped, inVars
<1>w. (\A u \in Threads : pc[u] # "write") => Waiting = writeBuffer
  BY <1>0, WaitingFacts
<1>n. (\A u \in Threads : pc'[u] # "write") => Waiting' = writeBuffer'
  BY <1>0, WaitingNext
<1>q. ASSUME OutStream' PROVE PipesInv'
  BY <1>i, <1>q, <1>t, InKept DEF PipesInv
<1>1. CASE Poll \/ CloseDel
  <2>1. UNCHANGED <<lock, writeBuffer, out>>
    BY <1>1 DEF Poll, CloseDel
  <2>2. Waiting' = Waiting
    BY <1>f, <2>1 DEF Waiting
  <2>3. OutStream'
    BY <1>f, <2>1, <2>2, Moves
  <2>. QED BY <1>q, <2>3
<1>2. CASE WriteBegin
  <2>1. /\ \A t \in Threads : pc[t] = "idle"
        /\ UNCHANGED <<writeBuffer, out>>
    BY <1>0, <1>2, NamesDiffer DEF WriteBegin, Locks
  <2>2. Waiting' = Waiting
    BY <1>f, <1>w, <1>n, <2>1
  <2>3. OutStream'
    BY <1>f, <2>1, <2>2, Moves
  <2>. QED BY <1>q, <2>3
<1>3. CASE FlushStops \/ FlushDone
  <2>1. /\ \A t \in Threads : pc[t] = "idle"
        /\ UNCHANGED <<writeBuffer, out>>
    BY <1>0, <1>3, ReactorAlone DEF FlushStops, FlushDone
  <2>2. Waiting' = Waiting
    BY <1>f, <1>w, <1>n, <2>1
  <2>3. OutStream'
    BY <1>f, <2>1, <2>2, Moves
  <2>. QED BY <1>q, <2>3
<1>4. CASE FlushWrite
  <2>1. \A t \in Threads : pc[t] = "idle"
    BY <1>0, <1>4, ReactorAlone DEF FlushWrite
  <2>2. PICK n \in 1..Len(writeBuffer) :
            /\ CanWrite(n) /\ Written(writeBuffer, n) /\ writeBuffer' = Drop(writeBuffer, n)
    BY <1>4 DEF FlushWrite
  <2>3. Waiting = writeBuffer /\ Waiting' = writeBuffer'
    BY <1>f, <1>w, <1>n, <2>1
  <2>4. OutStream'
    BY <1>f, <2>2, <2>3, Writes
  <2>. QED BY <1>q, <2>4
<1>. QED BY <1>1, <1>2, <1>3, <1>4 DEF OnWrite

LEMMA InboundFacts ==
    ASSUME FarTyped
    PROVE  /\ Contents(buf) \in Seq(Cells) /\ arrived \in Seq(Cells) /\ wire \in Seq(Cells)
           /\ arrived \o wire \in Seq(Cells) /\ Inbound \in Seq(Cells)
BY ConcatProperties DEF FarTyped, Inbound

LEMMA OutKept ==
    ASSUME PipesInv, UNCHANGED <<link, accepted, received, readBuffer, reading, out, Waiting>>
    PROVE  OutStream'
BY Moves

\* What the first cells of a stream b \o rest that holds a packet in b say of it.
LEMMA FirstPacket ==
    ASSUME NEW b \in Seq(Cells), NEW c \in Seq(Cells), NEW ps \in Seq(Packets), NEW k, NEW all,
           Stream(b \o c, ps, k, all), WholeIn(b)
    PROVE  LET n == Size[b[1].pkt] IN
              /\ k \in Nat /\ k < Len(ps) /\ ps[k + 1] \in Packets
              /\ n \in Nat /\ n > HeaderLen /\ n <= Len(b)
              /\ Unpack(Take(b, n)) = ps[k + 1]
              /\ Stream(Drop(b, n) \o c, ps, k + 1, all)
<1>1. Len(b) \in Nat /\ Len(b) > 0 /\ Len(b) >= Size[b[1].pkt] /\ Len(c) \in Nat
  BY SizeFacts, LenProperties DEF WholeIn, HeaderIn
<1>2. /\ b \o c \in Seq(Cells) /\ Len(b \o c) = Len(b) + Len(c)
      /\ (b \o c)[1] = b[1]
  BY <1>1, ConcatProperties
<1>. DEFINE p == ps[k + 1]
            n == Size[p]
            d == b \o c
<1>3. /\ k \in Nat /\ k < Len(ps) /\ p \in Packets /\ d[1].pkt = p
      /\ Len(d) >= n => Take(d, n) = CellsOf(p) /\ Stream(Drop(d, n), ps, k + 1, all)
  <2>1. d \in Seq(Cells) /\ Len(d) > 0 /\ Stream(d, ps, k, all)
    BY <1>1, <1>2
  <2>. HIDE DEF d
  <2>. QED BY <2>1, StreamCut
<1>4. b[1].pkt = p /\ n \in Nat /\ n > HeaderLen /\ n <= Len(b) /\ Len(d) >= n
  BY <1>1, <1>2, <1>3, SizeFacts
<1>5. Take(d, n) = Take(b, n) /\ Drop(d, n) = Drop(b, n) \o c
  <2>1. n \in 0..Len(b)
    BY <1>1, <1>4
  <2>. HIDE DEF n
  <2>. QED BY <2>1, PiecesOfJoin
<1>6. Take(b, n) = CellsOf(p) /\ Stream(Drop(b, n) \o c, ps, k + 1, all)
  BY <1>3, <1>4, <1>5
<1>7. Take(b, n)[1] = b[1]
  <2>1. n \in 0..Len(b) /\ 1 \in 1..n
    BY <1>1, <1>4, SizeFacts
  <2>. HIDE DEF n
  <2>. QED BY <2>1, Pieces
<1>8. Unpack(Take(b, n)) = p
  <2>. DEFINE x == Take(b, n)
  <2>1. x = CellsOf(p) /\ x[1].pkt = p
    BY <1>4, <1>6, <1>7
  <2>. HIDE DEF x, p
  <2>2. Unpack(x) = p
    BY <2>1 DEF Unpack
  <2>. QED BY <2>2 DEF x
<1>. QED BY <1>3, <1>4, <1>6, <1>8

LEMMA ReadStream == ASSUME PipesInv, Inv', OnRead PROVE PipesInv'
<1>. USE DEF sends, queue, interest, edges, client, reactor, inbound, afar
<1>0. Inv /\ FarTyped /\ Typed
  BY DEF PipesInv, Inv
<1>f. /\ UNCHANGED <<accepted, received, readBuffer, reading, out, lock, pc, rest, writeBuffer>>
      /\ UNCHANGED <<link, ask, wire, asked, serverUp, registered, inEdge>>
      /\ rpc' \in {"idle", "lock", "write", "read", "frames", "del", "closed"}
  BY DEF OnRead, ReadSome, ReadEmpty, ReadEnd, HandlePacket, AwaitMore, RefusePacket, Reading,
         AfterRead
<1>o. OutStream'
  <2>1. Waiting' = Waiting
    BY <1>f DEF Waiting
  <2>. QED BY <1>f, <2>1, OutKept
<1>q. ASSUME arrived' \in Seq(Cells), IsBuffer(buf', Cells \cup {Junk}),
             Contents(buf') \in Seq(Cells), handled' \in Seq(Packets), InStream'
      PROVE  PipesInv'
  <2>1. FarTyped'
    BY <1>0, <1>f, <1>q DEF FarTyped
  <2>. QED BY <1>o, <1>q, <2>1 DEF PipesInv
<1>1. CASE ReadSome
  <2>. DEFINE n == Least(Len(arrived), ReadRoom(buf, Extra))
              a == Take(arrived, n)
              z == Drop(arrived, n)
              x == Contents(buf)
  <2>1. buf' = ReadFd(buf, a) /\ arrived' = z /\ handled' = handled
    BY <1>1 DEF ReadSome
  <2>2. n \in 0..Len(arrived)
    <3>1. ReadRoom(buf, Extra) \in Nat
      <4>1. IsBuffer(buf, Cells \cup {Junk})
        BY <1>0 DEF FarTyped
      <4>2. /\ Len(buf.data) \in Nat /\ buf.write \in Nat /\ buf.write <= Len(buf.data)
            /\ Extra \in Nat
        BY <4>1, ContentsFacts, BufferAssumption
      <4>. QED BY <4>2 DEF ReadRoom, Writable
    <3>2. Len(arrived) \in Nat
      BY <1>0, LenProperties DEF FarTyped
    <3>. QED BY <3>1, <3>2 DEF Least
  <2>3. a \in Seq(Cells) /\ z \in Seq(Cells) /\ a \o z = arrived
    <3>. HIDE DEF n
    <3>. QED BY <1>0, <2>2, Pieces, JoinedPieces DEF FarTyped
  <2>. HIDE DEF a, z, n
  <2>4. a \in Seq(Cells \cup {Junk})
    BY <2>3, SeqMonotonic
  <2>5. IsBuffer(buf', Cells \cup {Junk}) /\ Contents(buf') = x \o a
    BY <1>0, <2>1, <2>4, ReadFdFacts DEF FarTyped
  <2>6. x \in Seq(Cells) /\ wire \in Seq(Cells)
    BY <1>0 DEF FarTyped
  <2>. HIDE DEF x
  <2>7. x \o a \in Seq(Cells) /\ z \o wire \in Seq(Cells)
    BY <2>3, <2>6, ConcatProperties
  <2>8. (x \o a) \o (z \o wire) = x \o (a \o (z \o wire))
    <3>. DEFINE v == z \o wire
    <3>1. v \in Seq(Cells)
      BY <2>7
    <3>. HIDE DEF v
    <3>2. (x \o a) \o v = x \o (a \o v)
      BY <2>3, <2>6, <3>1, JoinsAssociate
    <3>. QED BY <3>2 DEF v
  <2>9. (a \o z) \o wire = a \o (z \o wire)
    BY <2>3, <2>6, JoinsAssociate
  <2>10. Contents(buf') \o (arrived' \o wire') = x \o (arrived \o wire)
    BY <1>f, <2>1, <2>3, <2>5, <2>8, <2>9
  <2>11. Inbound' = Inbound
    BY <2>10 DEF Inbound, x
  <2>12. InStream'
    BY <1>f, <2>1, <2>11 DEF PipesInv, InStream
  <2>. QED BY <1>0, <1>q, <2>1, <2>3, <2>5, <2>7, <2>12 DEF FarTyped
<1>2. CASE HandlePacket
  <2>. DEFINE x == Contents(buf)
              n == Size[x[1].pkt]
              p == asked[Len(handled) + 1]
  <2>1. x \in Seq(Cells) /\ arrived \o wire \in Seq(Cells) /\ Len(handled) \in Nat
    BY <1>0, InboundFacts, LenProperties DEF FarTyped
  <2>2. WholeIn(x) /\ Stream(x \o (arrived \o wire), asked, Len(handled), link = "up")
    BY <1>2 DEF HandlePacket, WholeRead, Here, PipesInv, InStream, Inbound
  <2>3. /\ n \in Nat /\ n > HeaderLen /\ n <= Len(x) /\ p \in Packets /\ Unpack(Take(x, n)) = p
        /\ Stream(Drop(x, n) \o (arrived \o wire), asked, Len(handled) + 1, link = "up")
    <3>. DEFINE c == arrived \o wire
                k == Len(handled)
                up == link = "up"
    <3>1. x \in Seq(Cells) /\ c \in Seq(Cells) /\ asked \in Seq(Packets)
      BY <1>0, <2>1 DEF FarTyped
    <3>2. Stream(x \o c, asked, k, up) /\ WholeIn(x)
      BY <2>2
    <3>. HIDE DEF x, c, k, up
    <3>3. /\ k \in Nat /\ k < Len(asked) /\ asked[k + 1] \in Packets
          /\ n \in Nat /\ n > HeaderLen /\ n <= Len(x)
          /\ Unpack(Take(x, n)) = asked[k + 1]
          /\ Stream(Drop(x, n) \o c, asked, k + 1, up)
      BY <3>1, <3>2, FirstPacket
    <3>. QED BY <3>3 DEF c, k, up
  <2>4. /\ buf' = Retrieve(Retrieve(Retrieve(buf, HeaderLen), 1), n - HeaderLen - 1)
        /\ handled' = Append(handled, Unpack(Take(x, n))) /\ arrived' = arrived
    BY <1>2 DEF HandlePacket, Here
  <2>5. IsBuffer(buf', Cells \cup {Junk}) /\ Contents(buf') = Drop(x, n)
    <3>1. IsBuffer(buf, Cells \cup {Junk}) /\ HeaderLen \in Nat
      BY <1>0, SizeFacts DEF FarTyped
    <3>. HIDE DEF n
    <3>. QED BY <2>3, <2>4, <3>1, RetrieveThrice
  <2>6. Drop(x, n) \in Seq(Cells)
    <3>1. n \in 0..Len(x)
      BY <2>1, <2>3, LenProperties
    <3>. HIDE DEF n, x
    <3>. QED BY <2>1, <3>1, Pieces
  <2>7. handled' \in Seq(Packets) /\ Len(handled') = Len(handled) + 1
    BY <1>0, <2>3, <2>4, AppendProperties DEF FarTyped
  <2>. HIDE DEF n, x, p
  <2>8. Inbound' = Drop(x, n) \o (arrived \o wire)
    BY <1>f, <2>4, <2>5 DEF Inbound
  <2>9. InStream'
    BY <1>f, <2>3, <2>7, <2>8 DEF InStream
  <2>. QED BY <1>0, <1>q, <2>4, <2>5, <2>6, <2>7, <2>9 DEF FarTyped
<1>3. CASE ReadEmpty \/ ReadEnd \/ AwaitMore \/ RefusePacket
  <2>1. UNCHANGED <<buf, arrived, handled>>
    BY <1>3 DEF ReadEmpty, ReadEnd, AwaitMore, RefusePacket
  <2>2. UNCHANGED inVars
    BY <1>f, <2>1 DEF inVars
  <2>3. InStream'
    BY <2>2, InKept
  <2>. QED BY <1>0, <1>q, <2>1, <2>3 DEF FarTyped
<1>. QED BY <1>1, <1>2, <1>3 DEF OnRead

\* The cells of wire go when the link does.
LEMMA InCut ==
    ASSUME PipesInv, UNCHANGED <<buf, handled, asked>>, link' # "up", wire' = <<>>,
           arrived' \in {arrived \o wire, arrived, <<>>}
    PROVE  InStream' /\ arrived' \in Seq(Cells)
<1>. DEFINE x == Contents(buf)
<1>1. /\ x \in Seq(Cells) /\ arrived \in Seq(Cells) /\ wire \in Seq(Cells) /\ <<>> \in Seq(Cells)
      /\ arrived \o wire \in Seq(Cells) /\ asked \in Seq(Packets)
      /\ Stream(x \o (arrived \o wire), asked, Len(handled), link = "up")
  BY InboundFacts, EmptySeq DEF PipesInv, FarTyped, InStream, Inbound
<1>. HIDE DEF x
<1>2. /\ x \o arrived \in Seq(Cells) /\ (x \o arrived) \o wire = x \o (arrived \o wire)
      /\ x \o (arrived \o wire) \in Seq(Cells)
      /\ (x \o (arrived \o wire)) \o <<>> = x \o (arrived \o wire)
      /\ x \o <<>> = x /\ arrived' \o <<>> = arrived'
  <2>1. x \o arrived \in Seq(Cells) /\ x \o (arrived \o wire) \in Seq(Cells)
    BY <1>1, ConcatProperties
  <2>2. (x \o arrived) \o wire = x \o (arrived \o wire)
    BY <1>1, JoinsAssociate
  <2>3. (x \o (arrived \o wire)) \o <<>> = x \o (arrived \o wire) /\ x \o <<>> = x
    BY <1>1, <2>1, ConcatEmptySeq
  <2>4. arrived' \in Seq(Cells)
    BY <1>1
  <2>5. arrived' \o <<>> = arrived'
    BY <2>4, ConcatEmptySeq
  <2>. QED BY <2>1, <2>2, <2>3, <2>5
<1>3. Stream(x \o arrived', asked, Len(handled), FALSE)
  <2>1. CASE arrived' = arrived \o wire
    <3>. DEFINE y == x \o (arrived \o wire)
    <3>1. y \in Seq(Cells) /\ Stream(y \o <<>>, asked, Len(handled), link = "up")
      BY <1>1, <1>2
    <3>. HIDE DEF y
    <3>2. Stream(y, asked, Len(handled), FALSE)
      BY <1>1, <3>1, StreamPart
    <3>. QED BY <2>1, <3>2 DEF y
  <2>2. CASE arrived' = arrived
    <3>. DEFINE y == x \o arrived
    <3>1. y \in Seq(Cells) /\ Stream(y \o wire, asked, Len(handled), link = "up")
      BY <1>1, <1>2
    <3>. HIDE DEF y
    <3>2. Stream(y, asked, Len(handled), FALSE)
      BY <1>1, <3>1, StreamPart
    <3>. QED BY <2>2, <3>2 DEF y
  <2>3. CASE arrived' = <<>>
    <3>1. Stream(x, asked, Len(handled), FALSE)
      BY <1>1, StreamPart
    <3>. QED BY <1>2, <2>3, <3>1
  <2>. QED BY <2>1, <2>2, <2>3
<1>4. Inbound' = x \o arrived'
  BY <1>2 DEF Inbound, x
<1>5. Stream(Inbound', asked', Len(handled'), FALSE)
  BY <1>3, <1>4
<1>. QED BY <1>1, <1>5 DEF InStream

\* What ClientHandle and HandlePacket take is the packet that is due.
LEMMA ClientDelivers ==
    ASSUME PipesInv, ClientHandle
    PROVE  LET n == Size[readBuffer[1].pkt] IN
              /\ Len(received) \in Nat /\ Len(received) < Len(accepted)
              /\ accepted[Len(received) + 1] \in Packets
              /\ n \in 0..Len(readBuffer) /\ readBuffer' = Drop(readBuffer, n)
              /\ received' = Append(received, accepted[Len(received) + 1])
              /\ Stream(Drop(readBuffer, n) \o (out \o (IF link = "up" THEN Waiting ELSE <<>>)),
                        accepted, Len(received) + 1, link = "up")
<1>. DEFINE c == out \o (IF link = "up" THEN Waiting ELSE <<>>)
            k == Len(received)
            up == link = "up"
            n == Size[readBuffer[1].pkt]
<1>1. readBuffer \in Seq(Cells) /\ c \in Seq(Cells) /\ accepted \in Seq(Packets)
  <2>1. /\ readBuffer \in Seq(Cells) /\ accepted \in Seq(Packets) /\ out \in Seq(Cells)
        /\ Waiting \in Seq(Cells) /\ <<>> \in Seq(Cells)
    BY OutboundFacts, EmptySeq DEF PipesInv, FarTyped
  <2>2. (IF link = "up" THEN Waiting ELSE <<>>) \in Seq(Cells)
    BY <2>1
  <2>. QED BY <2>1, <2>2, ConcatProperties
<1>2. Stream(readBuffer \o c, accepted, k, up) /\ WholeIn(readBuffer)
  BY DEF ClientHandle, PipesInv, OutStream, Outbound
<1>3. /\ readBuffer' = Drop(readBuffer, n)
      /\ received' = Append(received, Unpack(Take(readBuffer, n)))
  BY DEF ClientHandle
<1>. HIDE DEF c, k, up
<1>4. /\ k \in Nat /\ k < Len(accepted) /\ accepted[k + 1] \in Packets
      /\ n \in Nat /\ n > HeaderLen /\ n <= Len(readBuffer)
      /\ Unpack(Take(readBuffer, n)) = accepted[k + 1]
      /\ Stream(Drop(readBuffer, n) \o c, accepted, k + 1, up)
  BY <1>1, <1>2, FirstPacket
<1>5. n \in 0..Len(readBuffer)
  BY <1>1, <1>4, LenProperties
<1>6. received' = Append(received, accepted[k + 1])
  BY <1>3, <1>4
<1>. QED BY <1>3, <1>4, <1>5, <1>6 DEF c, k, up

LEMMA HandlerDelivers ==
    ASSUME PipesInv, HandlePacket
    PROVE  /\ Len(handled) < Len(asked)
           /\ handled' = Append(handled, asked[Len(handled) + 1])
<1>. DEFINE x == Contents(buf)
            c == arrived \o wire
            k == Len(handled)
            up == link = "up"
<1>1. x \in Seq(Cells) /\ c \in Seq(Cells) /\ asked \in Seq(Packets)
  BY InboundFacts DEF PipesInv, FarTyped
<1>2. Stream(x \o c, asked, k, up) /\ WholeIn(x)
  BY DEF HandlePacket, WholeRead, Here, PipesInv, InStream, Inbound
<1>3. handled' = Append(handled, Unpack(Take(x, Size[x[1].pkt])))
  BY DEF HandlePacket, Here
<1>. HIDE DEF x, c, k, up
<1>4. k < Len(asked) /\ Unpack(Take(x, Size[x[1].pkt])) = asked[k + 1]
  BY <1>1, <1>2, FirstPacket
<1>. QED BY <1>3, <1>4 DEF k

LEMMA FarStream ==
    ASSUME PipesInv, Inv',
           CloseFd \/ IdleShut \/ ClientSend \/ Arrive \/ ClientGone \/ OnReadyRead
    PROVE  PipesInv'
<1>. USE DEF sends, queue, interest, edges, client, reactor, inbound, afar
<1>0. Inv /\ FarTyped /\ Typed
  BY DEF PipesInv, Inv
<1>f. UNCHANGED <<pc, rest, lock, writeBuffer, rpc, registered, accepted, serverUp, buf, handled>>
  BY DEF CloseFd, IdleShut, ClientSend, Arrive, ClientGone, OnReadyRead, ClientRead,
         ClientHandle, ClientAwait, ClientRefuse
<1>w. Waiting' = Waiting
  BY <1>f DEF Waiting
<1>e. <<>> \in Seq(Cells)
  BY EmptySeq
<1>1. CASE CloseFd \/ IdleShut
  <2>1. /\ link = "up" /\ link' = "shut" /\ wire' = <<>>
        /\ UNCHANGED <<arrived, asked, ask, inEdge, out, readBuffer, received, reading>>
    BY <1>1 DEF CloseFd, IdleShut
  <2>2. FarTyped'
    BY <1>0, <1>f, <1>e, <2>1 DEF FarTyped
  <2>3. InStream'
    BY <1>f, <2>1, InCut
  <2>4. OutStream'
    <3>1. /\ readBuffer \in Seq(Cells) /\ out \in Seq(Cells) /\ Waiting \in Seq(Cells)
          /\ readBuffer \o out \in Seq(Cells) /\ accepted \in Seq(Packets)
          /\ Outbound = readBuffer \o (out \o Waiting)
      BY <1>0, <2>1, OutboundFacts DEF FarTyped
    <3>2. (readBuffer \o out) \o Waiting = readBuffer \o (out \o Waiting)
      BY <3>1, JoinsAssociate
    <3>3. Stream((readBuffer \o out) \o Waiting, accepted, Len(received), TRUE)
      BY <2>1, <3>1, <3>2 DEF PipesInv, OutStream
    <3>. DEFINE y == readBuffer \o out
    <3>4. y \in Seq(Cells) /\ Stream(y \o Waiting, accepted, Len(received), TRUE)
      BY <3>1, <3>3
    <3>. HIDE DEF y
    <3>5. Stream(y, accepted, Len(received), FALSE)
      BY <3>1, <3>4, StreamPart
    <3>6. Outbound' = y
      <4>1. out \o <<>> = out
        BY <3>1, ConcatEmptySeq
      <4>. QED BY <2>1, <4>1 DEF Outbound, y
    <3>7. Stream(Outbound', accepted', Len(received'), FALSE)
      BY <1>f, <2>1, <3>5, <3>6
    <3>. QED BY <2>1, <3>7 DEF OutStream
  <2>. QED BY <2>2, <2>3, <2>4 DEF PipesInv
<1>2. CASE ClientGone \/ ClientRefuse
  <2>1. /\ link' = "gone" /\ wire' = <<>> /\ reading' = FALSE
        /\ arrived' \in {arrived \o wire, arrived, <<>>} /\ readBuffer' \in {readBuffer, <<>>}
        /\ UNCHANGED <<asked, ask, inEdge, received>>
    BY <1>2 DEF ClientGone, ClientRefuse
  <2>2. InStream' /\ arrived' \in Seq(Cells)
    BY <1>f, <2>1, InCut
  <2>3. FarTyped'
    BY <1>0, <1>f, <1>e, <2>1, <2>2 DEF FarTyped
  <2>4. OutStream'
    BY <2>1 DEF OutStream
  <2>. QED BY <2>2, <2>3, <2>4 DEF PipesInv
<1>3. CASE ClientSend
  <2>. DEFINE p == Head(ask)
              x == Contents(buf)
              c == CellsOf(p)
  <2>1. /\ link = "up" /\ ask # <<>> /\ wire' = wire \o c
        /\ asked' = Append(asked, p) /\ ask' = Tail(ask)
        /\ UNCHANGED <<link, arrived, inEdge, out, readBuffer, received, reading>>
    BY <1>3 DEF ClientSend
  <2>2. /\ p \in Packets /\ ask' \in Seq(Packets) /\ asked' \in Seq(Packets)
        /\ c \in Seq(Cells) /\ wire' \in Seq(Cells)
    <3>1. p \in Packets /\ ask' \in Seq(Packets)
      BY <1>0, <2>1, HeadTailProperties DEF FarTyped
    <3>2. c \in Seq(Cells)
      BY <3>1, PacketCells
    <3>3. asked' \in Seq(Packets)
      BY <1>0, <2>1, <3>1, AppendProperties DEF FarTyped
    <3>. HIDE DEF c
    <3>4. wire' \in Seq(Cells)
      BY <1>0, <2>1, <3>2, ConcatProperties DEF FarTyped
    <3>. QED BY <3>1, <3>2, <3>3, <3>4
  <2>. HIDE DEF p, c
  <2>3. FarTyped'
    BY <1>0, <1>f, <2>1, <2>2 DEF FarTyped
  <2>4. OutStream'
    BY <1>f, <1>w, <2>1, OutKept
  <2>5. InStream'
    <3>1. /\ x \in Seq(Cells) /\ arrived \in Seq(Cells) /\ wire \in Seq(Cells)
          /\ arrived \o wire \in Seq(Cells) /\ asked \in Seq(Packets)
          /\ Inbound \in Seq(Cells) /\ Inbound = x \o (arrived \o wire)
      BY <1>0, InboundFacts DEF FarTyped, Inbound
    <3>. HIDE DEF x
    <3>2. (arrived \o wire) \o c = arrived \o (wire \o c)
      <4>1. arrived \in Seq(Cells) /\ wire \in Seq(Cells) /\ c \in Seq(Cells)
        BY <2>2, <3>1
      <4>. QED BY <4>1, JoinsAssociate
    <3>3. (x \o (arrived \o wire)) \o c = x \o ((arrived \o wire) \o c)
      <4>. DEFINE y == arrived \o wire
      <4>1. x \in Seq(Cells) /\ y \in Seq(Cells) /\ c \in Seq(Cells)
        BY <2>2, <3>1
      <4>. HIDE DEF y
      <4>2. (x \o y) \o c = x \o (y \o c)
        BY <4>1, JoinsAssociate
      <4>. QED BY <4>2 DEF y
    <3>4. Inbound' = x \o (arrived \o (wire \o c))
      BY <1>f, <2>1 DEF Inbound, x
    <3>5. Inbound' = Inbound \o CellsOf(p)
      BY <3>1, <3>2, <3>3, <3>4 DEF c
    <3>6. Stream(Inbound, asked, Len(handled), TRUE)
      BY <2>1 DEF PipesInv, InStream
    <3>7. Stream(Inbound \o CellsOf(p), Append(asked, p), Len(handled), TRUE)
      BY <2>2, <3>1, <3>6, StreamMore
    <3>8. Stream(Inbound', asked', Len(handled'), TRUE)
      BY <1>f, <2>1, <3>5, <3>7
    <3>. QED BY <2>1, <3>8 DEF InStream
  <2>. QED BY <2>3, <2>4, <2>5 DEF PipesInv
<1>4. CASE Arrive
  <2>1. PICK n \in 1..Len(wire) : arrived' = arrived \o Take(wire, n) /\ wire' = Drop(wire, n)
    BY <1>4 DEF Arrive
  <2>. DEFINE a == Take(wire, n)
              z == Drop(wire, n)
  <2>2. /\ inEdge' = TRUE
        /\ UNCHANGED <<link, ask, asked, out, readBuffer, received, reading>>
    BY <1>4 DEF Arrive
  <2>3. wire \in Seq(Cells) /\ arrived \in Seq(Cells) /\ n \in 0..Len(wire)
    BY <1>0, LenProperties DEF FarTyped
  <2>4. a \in Seq(Cells) /\ z \in Seq(Cells) /\ a \o z = wire
    BY <2>3, Pieces, JoinedPieces
  <2>5. arrived' = arrived \o a /\ wire' = z
    BY <2>1
  <2>. HIDE DEF a, z
  <2>6. arrived' \in Seq(Cells)
    BY <2>3, <2>4, <2>5, ConcatProperties
  <2>7. (arrived \o a) \o z = arrived \o (a \o z)
    BY <2>3, <2>4, JoinsAssociate
  <2>8. FarTyped'
    BY <1>0, <1>f, <2>2, <2>4, <2>5, <2>6 DEF FarTyped
  <2>9. OutStream'
    BY <1>f, <1>w, <2>2, OutKept
  <2>10. Inbound' = Inbound
    BY <1>f, <2>4, <2>5, <2>7 DEF Inbound
  <2>11. InStream'
    BY <1>f, <2>2, <2>10 DEF PipesInv, InStream
  <2>. QED BY <2>8, <2>9, <2>11 DEF PipesInv
<1>5. CASE ClientRead
  <2>1. PICK n \in 1..Len(out) : readBuffer' = readBuffer \o Take(out, n) /\ out' = Drop(out, n)
    BY <1>5 DEF ClientRead
  <2>. DEFINE a == Take(out, n)
              z == Drop(out, n)
              v == IF link = "up" THEN Waiting ELSE <<>>
  <2>2. /\ link # "gone" /\ reading' = TRUE
        /\ UNCHANGED <<link, inEdge, ask, asked, wire, arrived, received>>
    BY <1>5 DEF ClientRead
  <2>3. /\ out \in Seq(Cells) /\ readBuffer \in Seq(Cells) /\ n \in 0..Len(out)
        /\ v \in Seq(Cells)
    BY <1>0, <1>e, OutboundFacts, LenProperties
  <2>4. a \in Seq(Cells) /\ z \in Seq(Cells) /\ a \o z = out
    BY <2>3, Pieces, JoinedPieces
  <2>5. readBuffer' = readBuffer \o a /\ out' = z
    BY <2>1
  <2>6. Outbound' = (readBuffer \o a) \o (z \o v) /\ Outbound = readBuffer \o (out \o v)
    BY <1>w, <2>2, <2>5 DEF Outbound
  <2>. HIDE DEF a, z, v
  <2>7. readBuffer' \in Seq(Cells) /\ z \o v \in Seq(Cells)
    BY <2>3, <2>4, <2>5, ConcatProperties
  <2>8. (a \o z) \o v = a \o (z \o v)
    <3>1. a \in Seq(Cells) /\ z \in Seq(Cells) /\ v \in Seq(Cells)
      BY <2>3, <2>4
    <3>. QED BY <3>1, JoinsAssociate
  <2>9. (readBuffer \o a) \o (z \o v) = readBuffer \o (a \o (z \o v))
    <3>. DEFINE y == z \o v
    <3>1. readBuffer \in Seq(Cells) /\ a \in Seq(Cells) /\ y \in Seq(Cells)
      BY <2>3, <2>4, <2>7
    <3>. HIDE DEF y
    <3>2. (readBuffer \o a) \o y = readBuffer \o (a \o y)
      BY <3>1, JoinsAssociate
    <3>. QED BY <3>2 DEF y
  <2>10. Outbound' = Outbound
    BY <2>4, <2>6, <2>8, <2>9
  <2>11. OutStream'
    BY <1>f, <2>2, <2>10 DEF PipesInv, OutStream
  <2>12. FarTyped'
    BY <1>0, <1>f, <2>2, <2>7 DEF FarTyped
  <2>13. UNCHANGED inVars
    BY <1>f, <2>2 DEF inVars
  <2>. QED BY <2>11, <2>12, <2>13, InKept DEF PipesInv
<1>6. CASE ClientHandle
  <2>. DEFINE n == Size[readBuffer[1].pkt]
              v == IF link = "up" THEN Waiting ELSE <<>>
              p == accepted[Len(received) + 1]
  <2>1. /\ Len(received) \in Nat /\ p \in Packets
        /\ n \in 0..Len(readBuffer) /\ readBuffer' = Drop(readBuffer, n)
        /\ received' = Append(received, p)
        /\ Stream(Drop(readBuffer, n) \o (out \o v), accepted, Len(received) + 1, link = "up")
    BY <1>6, ClientDelivers
  <2>2. /\ reading
        /\ UNCHANGED <<link, inEdge, ask, asked, wire, arrived, out, reading>>
    BY <1>6 DEF ClientHandle
  <2>3. readBuffer' \in Seq(Cells)
    <3>1. readBuffer \in Seq(Cells)
      BY <1>0 DEF FarTyped
    <3>. HIDE DEF n
    <3>. QED BY <2>1, <3>1, Pieces
  <2>. HIDE DEF p
  <2>4. received' \in Seq(Packets) /\ Len(received') = Len(received) + 1
    BY <1>0, <2>1, AppendProperties DEF FarTyped
  <2>5. Outbound' = Drop(readBuffer, n) \o (out \o v)
    BY <1>w, <2>1, <2>2 DEF Outbound
  <2>6. link # "gone"
    BY <2>2 DEF PipesInv, OutStream
  <2>. HIDE DEF n, v
  <2>7. Stream(Outbound', accepted', Len(received'), link' = "up")
    BY <1>f, <2>1, <2>2, <2>4, <2>5
  <2>8. OutStream'
    BY <2>2, <2>6, <2>7 DEF OutStream
  <2>9. FarTyped'
    BY <1>0, <1>f, <2>2, <2>3, <2>4 DEF FarTyped
  <2>10. UNCHANGED inVars
    BY <1>f, <2>2 DEF inVars
  <2>. QED BY <2>8, <2>9, <2>10, InKept DEF PipesInv
<1>7. CASE ClientAwait
  <2>1. /\ reading' = FALSE
        /\ UNCHANGED <<link, inEdge, ask, asked, wire, arrived, out, readBuffer, received>>
    BY <1>7 DEF ClientAwait
  <2>2. Outbound' = Outbound
    BY <1>w, <2>1 DEF Outbound
  <2>3. OutStream'
    BY <1>f, <2>1, <2>2 DEF PipesInv, OutStream
  <2>4. FarTyped'
    BY <1>0, <1>f, <2>1 DEF FarTyped
  <2>5. UNCHANGED inVars
    BY <1>f, <2>1 DEF inVars
  <2>. QED BY <2>3, <2>4, <2>5, InKept DEF PipesInv
<1>. QED BY <1>1, <1>2, <1>3, <1>4, <1>5, <1>6, <1>7 DEF OnReadyRead

LEMMA PipesInit == Init => PipesInv
<1>. SUFFICES ASSUME Init PROVE PipesInv
  OBVIOUS
<1>1. Inv
  BY InvInit
<1>2. \A V : <<>> \in Seq(V)
  BY EmptySeq
<1>3. ask \in Seq(Packets)
  BY LoadsAssumption DEF Init
<1>. DEFINE b == NewBuffer(BufferSize)
            d == [i \in 1..BufferSize |-> Junk]
<1>4. IsBuffer(b, Cells \cup {Junk})
  <2>1. BufferSize \in Nat
    BY BufferAssumption
  <2>2. d \in [1..BufferSize -> Cells \cup {Junk}]
    OBVIOUS
  <2>. HIDE DEF d
  <2>3. d \in Seq(Cells \cup {Junk})
    BY <2>1, <2>2, SeqDef
  <2>4. Len(d) \in Nat
    BY <2>3, LenProperties
  <2>5. b = [data |-> d, read |-> 0, write |-> 0]
    BY DEF NewBuffer, d
  <2>. HIDE DEF b
  <2>. QED BY <2>3, <2>4, <2>5 DEF IsBuffer
<1>5. Contents(b) = <<>>
  <2>1. Contents(b) \in Seq(Cells \cup {Junk}) /\ Len(Contents(b)) = b.write - b.read
    <3>. HIDE DEF b
    <3>. QED BY <1>4, ContentsFacts
  <2>2. b.write - b.read = 0
    BY DEF NewBuffer
  <2>. HIDE DEF b
  <2>. QED BY <2>1, <2>2, EmptySeq
<1>6. buf = b
  BY DEF Init
<1>. HIDE DEF b
<1>7. FarTyped
  BY <1>2, <1>3, <1>4, <1>5, <1>6 DEF Init, FarTyped
<1>8. <<>> \o (<<>> \o <<>>) = <<>>
  <2>1. \A s \in Seq(Cells) : s \o <<>> = s
    BY ConcatEmptySeq
  <2>2. <<>> \o <<>> = <<>>
    BY <1>2, <2>1
  <2>. QED BY <2>2
<1>9. Stream(<<>>, <<>>, Len(<<>>), TRUE)
  BY <1>2, StreamStart
<1>10. OutStream
  <2>1. Waiting = <<>>
    BY DEF Init, Waiting
  <2>2. Outbound = <<>> /\ accepted = <<>> /\ received = <<>> /\ link = "up"
    BY <1>8, <2>1 DEF Init, Outbound
  <2>. QED BY <1>9, <2>2 DEF OutStream
<1>11. InStream
  <2>1. Inbound = <<>> /\ asked = <<>> /\ handled = <<>> /\ link = "up"
    BY <1>5, <1>6, <1>8 DEF Init, Inbound
  <2>. QED BY <1>9, <2>1 DEF InStream
<1>. QED BY <1>1, <1>7, <1>10, <1>11 DEF PipesInv

LEMMA PipesNext == PipesInv /\ [Next]_vars => PipesInv'
<1>. SUFFICES ASSUME PipesInv, [Next]_vars PROVE PipesInv'
  OBVIOUS
<1>0. Inv /\ Inv'
  BY InvNext DEF PipesInv
<1>1. CASE UNCHANGED vars
  <2>. USE DEF vars, sends, queue, interest, edges, client, reactor, inbound
  <2>1. Waiting' = Waiting
    BY <1>1 DEF Waiting
  <2>2. OutStream'
    BY <1>1, <2>1, OutKept
  <2>3. FarTyped'
    BY <1>1 DEF PipesInv, FarTyped
  <2>4. UNCHANGED inVars
    BY <1>1 DEF inVars
  <2>. QED BY <1>0, <2>2, <2>3, <2>4, InKept DEF PipesInv
<1>2. CASE Next
  BY <1>0, <1>2, SenderStream, ReactorStream, ReadStream, FarStream DEF Next, ReactorStep
<1>. QED BY <1>1, <1>2

\* The types of all that a connection keeps, in the server, the network and the
\* client, and that its Buffer keeps its indices in order.
THEOREM TypeCorrect == Spec => []TypeOK
<1>1. PipesInv => TypeOK
  BY DEF PipesInv, Inv, Typed, Locks, FarTyped, TypeOK
<1>. QED BY <1>1, PipesInit, PipesNext, PTL DEF Spec

-----------------------------------------------------------------------------
(* Each direction implements PacketPipe.                                    *)

Open == link = "up" /\ ~closed /\ serverUp

LEMMA StaysDown == ASSUME [Next]_vars, Open' PROVE Open
<1>. USE DEF Open, sends, queue, interest, edges, client, reactor, inbound, afar
<1>1. CASE UNCHANGED vars
  BY <1>1 DEF vars
<1>2. CASE \E t \in Threads : Sender(t)
  <2>1. UNCHANGED <<link, closed>>
    BY <1>2 DEF Sender, SendOnClosed, SendQueued, SendBegin, SendWrite, SendError, SendBlocked,
                SendArm, SendArmThrows
  <2>2. serverUp
    BY <1>2 DEF Sender, SendOnClosed, SendQueued, SendBegin, SendWrite, SendError, SendBlocked,
                SendArm, SendArmThrows, Begin
  <2>. QED BY <2>1, <2>2
<1>3. CASE Poll \/ OnWrite \/ CloseDel
  <2>1. UNCHANGED <<link, closed, serverUp>>
    BY <1>3 DEF Poll, OnWrite, WriteBegin, FlushWrite, FlushStops, FlushDone, CloseDel
  <2>. QED BY <2>1
<1>4. CASE OnRead
  <2>1. UNCHANGED <<link, serverUp>>
    BY <1>4 DEF OnRead, ReadSome, ReadEmpty, ReadEnd, HandlePacket, AwaitMore, RefusePacket, Reading
  <2>2. closed' = closed \/ closed' = TRUE
    BY <1>4 DEF OnRead, ReadSome, ReadEmpty, ReadEnd, HandlePacket, AwaitMore, RefusePacket, Reading
  <2>. QED BY <2>1, <2>2
<1>5. CASE CloseFd \/ IdleShut \/ ClientSend \/ Arrive \/ ClientGone \/ OnReadyRead
  <2>1. UNCHANGED <<closed, serverUp>>
    BY <1>5 DEF CloseFd, IdleShut, ClientSend, Arrive, ClientGone, OnReadyRead, ClientRead,
                ClientHandle, ClientAwait, ClientRefuse
  <2>2. link' = "up" => link = "up"
    BY <1>5 DEF CloseFd, IdleShut, ClientSend, Arrive, ClientGone, OnReadyRead, ClientRead,
                ClientHandle, ClientAwait, ClientRefuse
  <2>. QED BY <2>1, <2>2
<1>. QED BY <1>1, <1>2, <1>3, <1>4, <1>5 DEF Next, ReactorStep

\* What the client handles is what send accepted, packet by packet and in order,
\* for any threads, packets, buffers and cuts: TcpConnection.cpp's send and onWrite
\* and imclient.cpp's onReadyRead implement the pipe.
THEOREM SendIsPipeAlways == Spec => SendIsPipe
<1>1. Init => PipeOut!Init
  BY DEF Init, PipeOut!Init
<1>2. ASSUME PipesInv, [Next]_vars PROVE [PipeOut!Next]_PipeOut!vars
  <2>. USE DEF PipeOut!vars, PipeOut!Next, PipeOut!Accept, PipeOut!Deliver, PipeOut!Break,
               sends, queue, interest, edges, client, reactor, inbound, afar
  <2>0. Open' => Open
    BY <1>2, StaysDown
  <2>1. ASSUME UNCHANGED <<accepted, received>> PROVE [PipeOut!Next]_PipeOut!vars
    <3>1. CASE Open' = Open
      BY <2>1, <3>1 DEF Open
    <3>2. CASE Open /\ ~Open'
      BY <2>1, <3>2 DEF Open
    <3>. QED BY <2>0, <3>1, <3>2 DEF Open
  <2>2. ASSUME NEW t \in Threads, SendQueued(t) \/ SendBegin(t) PROVE PipeOut!Next
    <3>1. Head(todo[t]) \in Packets
      BY <1>2, <2>2, BeginFacts DEF PipesInv, SendQueued, SendBegin
    <3>2. /\ accepted' = Append(accepted, Head(todo[t]))
          /\ UNCHANGED <<received, link, closed, serverUp>>
      BY <2>2 DEF SendQueued, SendBegin
    <3>. QED BY <3>1, <3>2
  <2>3. CASE ClientHandle
    <3>1. UNCHANGED <<accepted, link, closed, serverUp>>
      BY <2>3 DEF ClientHandle
    <3>. QED BY <1>2, <2>3, <3>1, ClientDelivers
  <2>4. CASE ~ClientHandle /\ ~\E t \in Threads : SendQueued(t) \/ SendBegin(t)
    <3>1. UNCHANGED <<accepted, received>>
      BY <1>2, <2>4
         DEF vars, Next, Sender, SendOnClosed, SendWrite, SendError, SendBlocked, SendArm,
             SendArmThrows, ReactorStep, Poll, OnWrite, WriteBegin, FlushWrite, FlushStops,
             FlushDone, OnRead, ReadSome, ReadEmpty, ReadEnd, HandlePacket, AwaitMore,
             RefusePacket, Reading, CloseDel, CloseFd, IdleShut, ClientSend, Arrive, ClientGone,
             OnReadyRead, ClientRead, ClientAwait, ClientRefuse
    <3>. QED BY <2>1, <3>1
  <2>. QED BY <2>2, <2>3, <2>4
<1>. QED BY <1>1, <1>2, PipesInit, PipesNext, PTL DEF Spec, SendIsPipe, PipeOut!Spec

\* What the handlers are given is what the client wrote, packet by packet and in
\* order: onRead, readFd and the moves inside Buffer implement the pipe.
THEOREM ReadIsPipeAlways == Spec => ReadIsPipe
<1>1. Init => PipeIn!Init
  BY DEF Init, PipeIn!Init
<1>2. ASSUME PipesInv, [Next]_vars PROVE [PipeIn!Next]_PipeIn!vars
  <2>. USE DEF PipeIn!vars, PipeIn!Next, PipeIn!Accept, PipeIn!Deliver, PipeIn!Break,
               sends, queue, interest, edges, client, reactor, inbound, afar
  <2>0. Open' => Open
    BY <1>2, StaysDown
  <2>1. ASSUME UNCHANGED <<asked, handled>> PROVE [PipeIn!Next]_PipeIn!vars
    <3>1. CASE Open' = Open
      BY <2>1, <3>1 DEF Open
    <3>2. CASE Open /\ ~Open'
      BY <2>1, <3>2 DEF Open
    <3>. QED BY <2>0, <3>1, <3>2 DEF Open
  <2>2. CASE ClientSend
    <3>1. Head(ask) \in Packets
      BY <1>2, <2>2, HeadTailProperties DEF PipesInv, FarTyped, ClientSend
    <3>2. asked' = Append(asked, Head(ask)) /\ UNCHANGED <<handled, link, closed, serverUp>>
      BY <2>2 DEF ClientSend
    <3>. QED BY <3>1, <3>2
  <2>3. CASE HandlePacket
    <3>1. UNCHANGED <<asked, link, closed, serverUp>>
      BY <2>3 DEF HandlePacket, Reading
    <3>. QED BY <1>2, <2>3, <3>1, HandlerDelivers
  <2>4. CASE ~HandlePacket /\ ~ClientSend
    <3>1. UNCHANGED <<asked, handled>>
      BY <1>2, <2>4
         DEF vars, Next, Sender, SendOnClosed, SendQueued, SendBegin, SendWrite, SendError,
             SendBlocked, SendArm, SendArmThrows, ReactorStep, Poll, OnWrite, WriteBegin,
             FlushWrite, FlushStops, FlushDone, OnRead, ReadSome, ReadEmpty, ReadEnd, AwaitMore,
             RefusePacket, Reading, CloseDel, CloseFd, IdleShut, Arrive, ClientGone,
             OnReadyRead, ClientRead, ClientHandle, ClientAwait, ClientRefuse
    <3>. QED BY <2>1, <3>1
  <2>. QED BY <2>2, <2>3, <2>4
<1>. QED BY <1>1, <1>2, PipesInit, PipesNext, PTL DEF Spec, ReadIsPipe, PipeIn!Spec
=============================================================================
