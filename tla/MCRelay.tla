------------------------------- MODULE MCRelay ------------------------------
(* Instances of Relay for TLC: two builders bid for the slot of p1, and    *)
(* one of them twice: it lowers its bid to that of the other, or raises it.*)
EXTENDS Relay

CONSTANTS b1, b2, k1, k2, p1, p2

Bid(b, v, k) == [builder |-> b, value |-> v, block |-> k, proposer |-> p1]

MCSubmissions == {Bid(b1, 2, k1), Bid(b1, 1, k2), Bid(b2, 1, k2)}

MCOneSubmission == {Bid(b1, 1, k1)}

NoneForged == {}
=============================================================================
