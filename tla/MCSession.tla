----------------------------- MODULE MCSession -----------------------------
(* Instances of Session for TLC. *)
EXTENDS Session

OwnerOne == [c \in Conns |-> 1]
\* Connection n is accepted by node 1, unless n is even.
ByParity == [c \in Conns |-> IF c % 2 = 1 THEN 1 ELSE 2]
=============================================================================
