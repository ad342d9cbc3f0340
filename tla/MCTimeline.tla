----------------------------- MODULE MCTimeline -----------------------------
(* Instances of Timeline for TLC. *)
EXTENDS Timeline

OneUser == {"u1"}
TwoUsers == {"u1", "u2"}
OneNode == {"n1"}
TwoNodes == {"n1", "n2"}
TwoMsgs == 1..2
ThreeMsgs == 1..3
OwnIds2 == [m \in 1..2 |-> m]
OwnIds3 == [m \in 1..3 |-> m]
\* Two senders give one id.
SharedId == [m \in 1..2 |-> 1]
AllToOne == [m \in 1..3 |-> "u1"]
TwoToOne == [m \in 1..2 |-> "u1"]
OneEach == [m \in 1..2 |-> IF m = 1 THEN "u1" ELSE "u2"]
TwoOnOne == [m \in 1..2 |-> "n1"]
\* The sender of the second message is connected to another node.
Spread2 == [m \in 1..2 |-> IF m = 2 THEN "n2" ELSE "n1"]
Spread3 == [m \in 1..3 |-> IF m = 2 THEN "n2" ELSE "n1"]
\* Redis cannot tell 1 from 2.
TieScores == [i \in 0..3 |-> IF i = 2 THEN 1 ELSE i]
OneScore == [i \in 0..1 |-> i]
OwnScores2 == [i \in 0..2 |-> i]
\* The digits of a score, and forms of 3 and 2 of which a smaller number is read.
Digits1 == [i \in {1} |-> i]
Digits2 == [i \in 1..2 |-> i]
TieCut == [i \in 1..3 |-> IF i = 2 THEN 1 ELSE IF i = 3 THEN 2 ELSE 1]
=============================================================================
