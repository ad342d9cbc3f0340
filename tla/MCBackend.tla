----------------------------- MODULE MCBackend -----------------------------
(* Instances of Backend for TLC; backend.cfg has the values. *)
EXTENDS Backend
=============================================================================
