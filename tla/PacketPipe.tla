----------------------------- MODULE PacketPipe -----------------------------
(***************************************************************************)
(* What one direction of a TCP connection promises to the layer above it:  *)
(* packets come out whole, in the order in which they were accepted, each  *)
(* once; and as long as the connection is open, everything accepted comes  *)
(* out. Each direction of Connection is shown to implement it.             *)
(***************************************************************************)
EXTENDS Naturals, Sequences

CONSTANT Packets

VARIABLES
    accepted,  \* the packets handed over, in order
    delivered, \* the packets that came out, in order
    open       \* FALSE once the connection has failed or is closed

vars == <<accepted, delivered, open>>

Init == accepted = <<>> /\ delivered = <<>> /\ open = TRUE

Accept(p) ==
    /\ accepted' = Append(accepted, p)
    /\ UNCHANGED <<delivered, open>>

Deliver ==
    /\ Len(delivered) < Len(accepted)
    /\ delivered' = Append(delivered, accepted[Len(delivered) + 1])
    /\ UNCHANGED <<accepted, open>>

Break ==
    /\ open /\ open' = FALSE
    /\ UNCHANGED <<accepted, delivered>>

Next == (\E p \in Packets : Accept(p)) \/ Deliver \/ Break

Spec == Init /\ [][Next]_vars

\* What is accepted comes out while the connection is open.
Arrives == WF_vars(open /\ Deliver)
=============================================================================
