--------------------------- MODULE MCReliablePush ---------------------------
(* Instances of ReliablePush for TLC. *)
EXTENDS ReliablePush

OwnerOne == [c \in Conns |-> "u1"]
ToOne == [m \in Msgs |-> "u1"]

\* Each message has its own id.
OwnId == [m \in Msgs |-> m]
=============================================================================
