------------------------------ MODULE BidBoard ------------------------------
(***************************************************************************)
(* The relay's auction board: what bids/bids.go keeps in Redis for one     *)
(* auction slot, and the clock its time-outs run on.                       *)
(*                                                                         *)
(* Every Redis key of the package is named by a slot, so one slot is one   *)
(* independent board.  A Redis hash lives and dies as a whole: HSET writes *)
(* one field and leaves the time to live alone, EXPIRE sets the time to    *)
(* live of the whole hash, and does nothing to a hash that is gone.        *)
(***************************************************************************)
EXTENDS Naturals

CONSTANTS
    Builders,     \* wallet addresses of the block builders
    Blocks,       \* block hashes
    Proposers,    \* public keys of the proposers
    Submissions,  \* the signed block bids a builder may send for the slot
    BidTimeout,   \* --bid-timeout: seconds a key outlives its last EXPIRE
    MaxTime,      \* bound: the clock stops at this second
    None          \* what Redis answers for a missing key or field

\* A bid names its builder, the value offered, the block and its proposer.
ASSUME SubmissionsAssumption ==
    Submissions \subseteq [builder : Builders, value : Nat,
                           block : Blocks, proposer : Proposers]

ASSUME NoneAssumption ==
    /\ None \notin Submissions
    /\ None \notin Builders
    /\ None \notin Nat

ASSUME TimeAssumption ==
    /\ BidTimeout \in Nat \ {0}
    /\ MaxTime \in Nat

VARIABLES
    now,        \* the clock, in seconds
    bids,       \* builder-bid-<slot>:       builder    |-> its latest bid
    times,      \* builder-bid-time-<slot>:  builder    |-> second it arrived
    values,     \* builder-bid-value-<slot>: builder    |-> value of the bid
    utils,      \* builder-bid-utils-<slot>: block hash |-> how to get it
    highest,    \* builder-highest-bid-<slot>
    delivered,  \* slot-proposer-payload-delivered[slot]: the builder served
    deadline,   \* key |-> second at which it expires, NoTTL if never
    lapsed      \* history: the keys that have expired at least once

boardVars == <<now, bids, times, values, utils, highest, delivered, deadline,
               lapsed>>

Keys == {"bids", "times", "values", "utils", "highest"}
NoTTL == 0

BoardTypeOK ==
    /\ now \in 0..MaxTime
    /\ bids \in [Builders -> Submissions \cup {None}]
    /\ times \in [Builders -> Nat \cup {None}]
    /\ values \in [Builders -> Nat \cup {None}]
    /\ utils \in [Blocks -> Submissions \cup {None}]
    /\ highest \in Submissions \cup {None}
    /\ delivered \in Builders \cup {None}
    /\ deadline \in [Keys -> Nat]
    /\ lapsed \subseteq Keys

\* NewRedisInterface flushes the whole database when the relay starts.
BoardInit ==
    /\ now = 0
    /\ bids = [b \in Builders |-> None]
    /\ times = [b \in Builders |-> None]
    /\ values = [b \in Builders |-> None]
    /\ utils = [k \in Blocks |-> None]
    /\ highest = None
    /\ delivered = None
    /\ deadline = [k \in Keys |-> NoTTL]
    /\ lapsed = {}

-----------------------------------------------------------------------------
\* EXPIRE key BidTimeout, where exists says whether the key is there.
Expire(key, exists) ==
    IF exists THEN [deadline EXCEPT ![key] = now + BidTimeout] ELSE deadline

\* A hash is there while it has a field.
HashExists(hash) == \E f \in DOMAIN hash : hash[f] # None

\* The builders the loop of AuctionBid can end on: it keeps the first builder
\* of strictly greater value, starting from zero, over a map Go iterates in
\* an arbitrary order, so any of the builders that tie for the maximum.
TopBuilders ==
    {b \in Builders :
        /\ values[b] # None
        /\ values[b] > 0
        /\ \A c \in Builders : values[c] # None => values[c] <= values[b]}

-----------------------------------------------------------------------------
\* One second passes, and the keys whose time to live ends are gone.
Lapses(key) == deadline[key] # NoTTL /\ deadline[key] <= now + 1

Tick ==
    /\ now < MaxTime
    /\ now' = now + 1
    /\ bids' = IF Lapses("bids") THEN [b \in Builders |-> None] ELSE bids
    /\ times' = IF Lapses("times") THEN [b \in Builders |-> None] ELSE times
    /\ values' = IF Lapses("values") THEN [b \in Builders |-> None] ELSE values
    /\ utils' = IF Lapses("utils") THEN [k \in Blocks |-> None] ELSE utils
    /\ highest' = IF Lapses("highest") THEN None ELSE highest
    /\ deadline' = [k \in Keys |-> IF Lapses(k) THEN NoTTL ELSE deadline[k]]
    /\ lapsed' = lapsed \cup {k \in Keys : Lapses(k)}
    /\ UNCHANGED delivered
=============================================================================
