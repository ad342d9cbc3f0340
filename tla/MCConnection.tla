---------------------------- MODULE MCConnection ----------------------------
(* Instances of Connection for TLC. *)
EXTENDS Connection

\* "d" is longer than a receiver allows.
Sizes == [p \in Packets |-> IF p \in {"a", "d"} THEN 3 ELSE 4]

Sends(worker, observer) == [t \in Threads |-> IF t = "worker" THEN worker ELSE observer]

\* The server sends much, the client sends much, or both send something.
MixedLoads ==
    {[todo |-> Sends(<<"a", "b">>, <<"c", "d">>), ask |-> <<>>],
     [todo |-> Sends(<<>>, <<>>), ask |-> <<"b", "a", "c", "d">>],
     [todo |-> Sends(<<"b">>, <<"c">>), ask |-> <<"a">>]}
=============================================================================
