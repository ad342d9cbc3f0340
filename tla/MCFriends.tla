----------------------------- MODULE MCFriends -----------------------------
(* Instances of Friends for TLC. *)
EXTENDS Friends, TLC

Symmetric == Permutations(Users) \cup Permutations(Jobs)
=============================================================================
