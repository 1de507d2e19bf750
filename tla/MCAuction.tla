----------------------------- MODULE MCAuction ------------------------------
(* Instances of Auction for TLC: two builders, one of which bids twice.    *)
EXTENDS Auction, TLC

CONSTANTS b1, b2, k1, k2, k3, p1

Bid(b, v, k) == [builder |-> b, value |-> v, block |-> k, proposer |-> p1]

\* b1 raises or lowers its bid, and b2 submits a block b1 has submitted too.
MCSubmissions == {Bid(b1, 2, k1), Bid(b1, 1, k2), Bid(b2, 1, k1)}

\* b2 also sends the best bid of all, with a signature that is not its own.
MCForged == {Bid(b2, 3, k3)}
MCSubmissionsAndForged == MCSubmissions \cup MCForged

NoneForged == {}

\* The handlers are interchangeable (safety only).
HandlerSymmetry == Permutations(Handlers)
=============================================================================
