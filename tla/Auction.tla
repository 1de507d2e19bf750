------------------------------- MODULE Auction ------------------------------
(***************************************************************************)
(* Builders submit blocks for one slot: handleSubmitBlock in               *)
(* relay/relay.go, run by any number of HTTP handlers at once, and the     *)
(* bulletin board publisher their auctions feed.  Nothing serialises the   *)
(* handlers (BidBoard.bidMutex is never locked), so each Redis or database *)
(* round trip is a step of its own.                                        *)
(***************************************************************************)
EXTENDS BidBoard, FiniteSets

CONSTANTS
    Handlers,     \* goroutines of the HTTP server that serve submissions
    AuctionSlot,  \* the slot of this board
    MaxSlot,      \* bound: the head of the chain stops at this slot
    Forged,       \* submissions that fail the checks made on the block alone
    MaxRequests,  \* bound: how many submissions arrive
    MaxFailures   \* bound: how many calls fail, and how often the relay dies

ASSUME AuctionAssumption ==
    /\ AuctionSlot \in Nat \ {0}
    /\ MaxSlot \in Nat
    /\ MaxRequests \in Nat
    /\ MaxFailures \in Nat
    /\ Forged \subseteq Submissions
    /\ IsFiniteSet(Handlers)
    /\ None \notin Handlers
    /\ None \notin [builder : Builders, value : Nat]

VARIABLES
    head,       \* BeaconData.CurrentSlot, read by the handlers under a mutex
    pc,         \* what each handler does next
    sub,        \* the submission it serves
    received,   \* blockTimestamp, in Unix seconds
    top,        \* topBidBuilderPubkey and topBidValue of its auction
    picked,     \* bidStr, the bid it read for the top builder
    publisher,  \* what HighestBidPublish took from HighestBidChannel
    shown,      \* the last highest bid builders saw on the bulletin board
    recorded,   \* rows of builder_block_submissions
    requests,   \* how many submissions have arrived
    failures,   \* how many external calls have failed, and restarts
    late,       \* history: the handler's request came after the slot closed
    admitted    \* history: the submissions that were let into the auction

handlerVars == <<pc, sub, received, top, picked, late>>
around == <<head, publisher, shown, recorded, requests>>
auctionVars == <<handlerVars, around, failures, admitted>>
vars == <<boardVars, auctionVars>>

Labels == {"idle", "delivered", "slot", "last",
           "utils", "utilsTTL", "bid", "bidTTL", "time", "timeTTL",
           "value", "valueTTL", "values", "top", "highest", "publish",
           "record"}

\* The labels of a handler that has been let into the auction.
Saving == {"utils", "utilsTTL", "bid", "bidTTL", "time", "timeTTL", "value",
           "valueTTL", "values", "top", "highest", "publish"}

TopBid == [builder : Builders, value : Nat]

TypeOK ==
    /\ BoardTypeOK
    /\ head \in Nat
    /\ pc \in [Handlers -> Labels]
    /\ sub \in [Handlers -> Submissions \cup {None}]
    /\ received \in [Handlers -> Nat]
    /\ top \in [Handlers -> TopBid \cup {None}]
    /\ picked \in [Handlers -> Submissions \cup {None}]
    /\ publisher \in TopBid \cup {None}
    /\ shown \in TopBid \cup {None}
    /\ recorded \subseteq Submissions
    /\ requests \in 0..MaxRequests
    /\ failures \in 0..MaxFailures
    /\ late \in [Handlers -> BOOLEAN]
    /\ admitted \subseteq Submissions

Init ==
    /\ BoardInit
    /\ head = 0
    /\ pc = [h \in Handlers |-> "idle"]
    /\ sub = [h \in Handlers |-> None]
    /\ received = [h \in Handlers |-> 0]
    /\ top = [h \in Handlers |-> None]
    /\ picked = [h \in Handlers |-> None]
    /\ publisher = None
    /\ shown = None
    /\ recorded = {}
    /\ requests = 0
    /\ failures = 0
    /\ late = [h \in Handlers |-> FALSE]
    /\ admitted = {}

-----------------------------------------------------------------------------
(* How a step of a handler ends. *)

Goto(h, label) ==
    /\ pc' = [pc EXCEPT ![h] = label]
    /\ UNCHANGED <<sub, received, top, picked, late>>

\* The handler returns and its locals are gone.
Return(h) ==
    /\ pc' = [pc EXCEPT ![h] = "idle"]
    /\ sub' = [sub EXCEPT ![h] = None]
    /\ received' = [received EXCEPT ![h] = 0]
    /\ top' = [top EXCEPT ![h] = None]
    /\ picked' = [picked EXCEPT ![h] = None]
    /\ late' = [late EXCEPT ![h] = FALSE]

CallFails == failures < MaxFailures /\ failures' = failures + 1
CallWorks == UNCHANGED failures

\* A write that fails is answered with an error, and the handler goes to its
\* deferred insert.  The write itself may or may not have reached Redis.
WriteFails(h) == CallFails /\ Goto(h, "record")

-----------------------------------------------------------------------------
(* The checks of handleSubmitBlock, in order. *)

\* A request arrives: blockTimestamp is taken before anything else.
Receive(h) ==
    /\ pc[h] = "idle"
    /\ requests < MaxRequests
    /\ requests' = requests + 1
    /\ \E s \in Submissions : sub' = [sub EXCEPT ![h] = s]
    /\ pc' = [pc EXCEPT ![h] = "delivered"]
    /\ received' = [received EXCEPT ![h] = now]
    /\ late' = [late EXCEPT ![h] = delivered # None \/ head > AuctionSlot]
    /\ UNCHANGED <<boardVars, head, top, picked, publisher, shown, recorded,
                   failures, admitted>>

\* BuilderStatus turns the submission away, or what follows it before Redis is
\* asked for anything: a header that does not convert, a timestamp that is not
\* that of the slot.  Which it does is not a matter of this module.
RefuseBuilder(h) ==
    /\ pc[h] = "delivered"
    /\ Return(h)
    /\ UNCHANGED <<boardVars, around, failures, admitted>>

\* Mutant of CheckDelivered: the answer is only tested for an error.
CheckDeliveredErrors(h) ==
    /\ pc[h] = "delivered"
    /\ (CallWorks /\ Goto(h, "slot")) \/ (CallFails /\ Return(h))
    /\ UNCHANGED <<boardVars, around, admitted>>

\* GetPayloadDelivered: redis.Nil lets the submission pass, a builder or an
\* error does not.
CheckDelivered(h) ==
    /\ pc[h] = "delivered"
    /\ \/ CallWorks /\ delivered = None /\ Goto(h, "slot")
       \/ CallWorks /\ delivered # None /\ Return(h)
       \/ CallFails /\ Return(h)
    /\ UNCHANGED <<boardVars, around, admitted>>

\* Mutant of CheckBlock: what is on the block alone is not checked.
CheckBlockSlot(h) ==
    /\ pc[h] = "slot"
    /\ IF AuctionSlot \in {head, head + 1} THEN Goto(h, "last") ELSE Return(h)
    /\ UNCHANGED <<boardVars, around, failures, admitted>>

\* The submission must be for the slot of the head or for the next one, and
\* pass what is checked on the block alone: SanityBuilderBlock, the RPBS proof
\* and the builder's ECDSA signature.
CheckBlock(h) ==
    /\ pc[h] = "slot"
    /\ IF AuctionSlot \in {head, head + 1} /\ sub[h] \notin Forged
         THEN Goto(h, "last")
         ELSE Return(h)
    /\ UNCHANGED <<boardVars, around, failures, admitted>>

\* BuilderBlockLast: a builder's bid older than its last one is turned away.
\* A failed read answers 500 and, with no return after it, goes on.  Whatever
\* was read, the bid may still fail to be signed or its fork to be known.
CheckLastBid(h) ==
    /\ pc[h] = "last"
    /\ LET last == times[sub[h].builder]
       IN  \/ /\ \/ CallWorks /\ (last # None => received[h] >= last)
                 \/ CallFails
              /\ Goto(h, "utils")
              /\ admitted' = admitted \cup {sub[h]}
           \/ /\ CallWorks \/ CallFails
              /\ Goto(h, "record")
              /\ UNCHANGED admitted
    /\ UNCHANGED <<boardVars, around>>

-----------------------------------------------------------------------------
(* SavePayloadUtils and SaveBuilderBid: an HSET and an EXPIRE for each key. *)

\* Mutants of SetUtils: an error is logged and forgotten, and a SET that
\* replaces the whole hash.
SetUtilsAnyway(h) ==
    /\ pc[h] = "utils"
    /\ \/ CallWorks /\ utils' = [utils EXCEPT ![sub[h].block] = sub[h]]
       \/ CallFails /\ UNCHANGED utils
    /\ Goto(h, "utilsTTL")
    /\ UNCHANGED <<now, bids, times, values, highest, delivered, deadline,
                   lapsed, around, admitted>>

SetUtilsAlone(h) ==
    /\ pc[h] = "utils"
    /\ CallWorks
    /\ utils' = [k \in Blocks |-> IF k = sub[h].block THEN sub[h] ELSE None]
    /\ Goto(h, "utilsTTL")
    /\ UNCHANGED <<now, bids, times, values, highest, delivered, deadline,
                   lapsed, around, admitted>>

SetUtils(h) ==
    /\ pc[h] = "utils"
    /\ LET new == [utils EXCEPT ![sub[h].block] = sub[h]]
       IN  \/ CallWorks /\ utils' = new /\ Goto(h, "utilsTTL")
           \/ WriteFails(h) /\ utils' \in {utils, new}
    /\ UNCHANGED <<now, bids, times, values, highest, delivered, deadline,
                   lapsed, around, admitted>>

\* Mutant of SetBid: an error is logged and forgotten.
SetBidAnyway(h) ==
    /\ pc[h] = "bid"
    /\ \/ CallWorks /\ bids' = [bids EXCEPT ![sub[h].builder] = sub[h]]
       \/ CallFails /\ UNCHANGED bids
    /\ Goto(h, "bidTTL")
    /\ UNCHANGED <<now, times, values, utils, highest, delivered, deadline,
                   lapsed, around, admitted>>

SetBid(h) ==
    /\ pc[h] = "bid"
    /\ LET new == [bids EXCEPT ![sub[h].builder] = sub[h]]
       IN  \/ CallWorks /\ bids' = new /\ Goto(h, "bidTTL")
           \/ WriteFails(h) /\ bids' \in {bids, new}
    /\ UNCHANGED <<now, times, values, utils, highest, delivered, deadline,
                   lapsed, around, admitted>>

SetTime(h) ==
    /\ pc[h] = "time"
    /\ LET new == [times EXCEPT ![sub[h].builder] = received[h]]
       IN  \/ CallWorks /\ times' = new /\ Goto(h, "timeTTL")
           \/ WriteFails(h) /\ times' \in {times, new}
    /\ UNCHANGED <<now, bids, values, utils, highest, delivered, deadline,
                   lapsed, around, admitted>>

SetValue(h) ==
    /\ pc[h] = "value"
    /\ LET new == [values EXCEPT ![sub[h].builder] = sub[h].value]
       IN  \/ CallWorks /\ values' = new /\ Goto(h, "valueTTL")
           \/ WriteFails(h) /\ values' \in {values, new}
    /\ UNCHANGED <<now, bids, times, utils, highest, delivered, deadline,
                   lapsed, around, admitted>>

ExpireKey(h, label, key, exists, next) ==
    /\ pc[h] = label
    /\ \/ CallWorks /\ deadline' = Expire(key, exists) /\ Goto(h, next)
       \/ WriteFails(h) /\ deadline' \in {deadline, Expire(key, exists)}
    /\ UNCHANGED <<now, bids, times, values, utils, highest, delivered, lapsed,
                   around, admitted>>

\* Mutants of ExpireUtils, ExpireTimes and ExpireValues: the bid is not saved,
\* the EXPIRE is forgotten, the auction is.
ExpireUtilsNoBid(h) ==
    ExpireKey(h, "utilsTTL", "utils", HashExists(utils), "time")
ExpireTimesNever(h) == ExpireKey(h, "timeTTL", "times", FALSE, "value")
ExpireValuesNoAuction(h) ==
    ExpireKey(h, "valueTTL", "values", HashExists(values), "record")

ExpireUtils(h) == ExpireKey(h, "utilsTTL", "utils", HashExists(utils), "bid")
ExpireBids(h) == ExpireKey(h, "bidTTL", "bids", HashExists(bids), "time")
ExpireTimes(h) == ExpireKey(h, "timeTTL", "times", HashExists(times), "value")
ExpireValues(h) ==
    ExpireKey(h, "valueTTL", "values", HashExists(values), "values")

-----------------------------------------------------------------------------
(* AuctionBid. *)

\* Mutant of ReadValues: a loop that keeps the last builder it meets.
ReadValuesAny(h) ==
    /\ pc[h] = "values"
    /\ \/ \E b \in {c \in Builders : values[c] # None /\ values[c] > 0} :
            /\ CallWorks
            /\ top' = [top EXCEPT ![h] = [builder |-> b, value |-> values[b]]]
            /\ pc' = [pc EXCEPT ![h] = "top"]
            /\ UNCHANGED <<sub, received, picked, late>>
       \/ TopBuilders = {} /\ CallWorks /\ Goto(h, "record")
       \/ CallFails /\ Goto(h, "record")
    /\ UNCHANGED <<boardVars, around, admitted>>

\* HGETALL of the values, and the loop that finds the top one.  (The loop ends
\* the auction without an error at a value that does not parse, bids.go:146;
\* SetValue writes decimal numbers only.)
ReadValues(h) ==
    /\ pc[h] = "values"
    /\ \/ \E b \in TopBuilders :
            /\ CallWorks
            /\ top' = [top EXCEPT ![h] = [builder |-> b, value |-> values[b]]]
            /\ pc' = [pc EXCEPT ![h] = "top"]
            /\ UNCHANGED <<sub, received, picked, late>>
       \/ TopBuilders = {} /\ CallWorks /\ Goto(h, "record")
       \/ CallFails /\ Goto(h, "record")
    /\ UNCHANGED <<boardVars, around, admitted>>

\* Mutant of ReadTopBid: no deferred insert when the auction fails.
ReadTopBidReturns(h) ==
    /\ pc[h] = "top"
    /\ LET bid == bids[top[h].builder]
       IN  \/ /\ bid # None
              /\ CallWorks
              /\ picked' = [picked EXCEPT ![h] = bid]
              /\ pc' = [pc EXCEPT ![h] = "highest"]
              /\ UNCHANGED <<sub, received, top, late>>
           \/ bid = None /\ CallWorks /\ Return(h)
    /\ UNCHANGED <<boardVars, around, admitted>>

\* HGET of the top builder's bid, which may be another one by now, or gone.
ReadTopBid(h) ==
    /\ pc[h] = "top"
    /\ LET bid == bids[top[h].builder]
       IN  \/ /\ bid # None
              /\ CallWorks
              /\ picked' = [picked EXCEPT ![h] = bid]
              /\ pc' = [pc EXCEPT ![h] = "highest"]
              /\ UNCHANGED <<sub, received, top, late>>
           \/ bid = None /\ CallWorks /\ Goto(h, "record")
           \/ CallFails /\ Goto(h, "record")
    /\ UNCHANGED <<boardVars, around, admitted>>

\* SET of the highest bid, value and time to live in one command.
SetHighest(h) ==
    /\ pc[h] = "highest"
    /\ \/ /\ (CallWorks /\ Goto(h, "publish")) \/ WriteFails(h)
          /\ highest' = picked[h]
          /\ deadline' = Expire("highest", TRUE)
       \/ WriteFails(h) /\ UNCHANGED <<highest, deadline>>
    /\ UNCHANGED <<now, bids, times, values, utils, delivered, lapsed, around,
                   admitted>>

\* Mutant of Publish: it announces the handler's own bid.
PublishOwn(h) ==
    /\ pc[h] = "publish"
    /\ publisher = None
    /\ publisher' = [builder |-> sub[h].builder, value |-> sub[h].value]
    /\ Goto(h, "record")
    /\ UNCHANGED <<boardVars, head, shown, recorded, requests, failures,
                   admitted>>

\* HighestBidChannel is unbuffered: the send is the publisher's receive.  The
\* handler then answers 200 and runs its deferred insert.
Publish(h) ==
    /\ pc[h] = "publish"
    /\ publisher = None
    /\ publisher' = top[h]
    /\ Goto(h, "record")
    /\ UNCHANGED <<boardVars, head, shown, recorded, requests, failures,
                   admitted>>

\* The deferred PutBuilderBlockSubmission.  It fails with the database, and
\* with the client: req.Context() is cancelled when the builder hangs up.
Record(h) ==
    /\ pc[h] = "record"
    /\ \/ CallWorks /\ recorded' = recorded \cup {sub[h]}
       \/ CallFails /\ UNCHANGED recorded
    /\ Return(h)
    /\ UNCHANGED <<boardVars, head, publisher, shown, requests, admitted>>

Submit(h) ==
    \/ RefuseBuilder(h) \/ CheckDelivered(h) \/ CheckBlock(h)
    \/ CheckLastBid(h)
    \/ SetUtils(h) \/ ExpireUtils(h) \/ SetBid(h) \/ ExpireBids(h)
    \/ SetTime(h) \/ ExpireTimes(h) \/ SetValue(h) \/ ExpireValues(h)
    \/ ReadValues(h) \/ ReadTopBid(h) \/ SetHighest(h) \/ Publish(h)
    \/ Record(h)

-----------------------------------------------------------------------------
(* Around the handlers. *)

\* Mutant of PublishBulletinBoard: it waits for a broker that does not answer
\* any more once a call has failed.
PublishBulletinBoardWaits ==
    /\ publisher # None
    /\ failures = 0
    /\ CallWorks
    /\ publisher' = None
    /\ shown' = publisher
    /\ UNCHANGED <<boardVars, handlerVars, head, recorded, requests, admitted>>

\* publishBulletinBoard at QoS 0: a message that is lost, or not sent within
\* a millisecond, is logged and forgotten.
PublishBulletinBoard ==
    /\ publisher # None
    /\ publisher' = None
    /\ \/ CallWorks /\ shown' = publisher
       \/ CallFails /\ UNCHANGED shown
    /\ UNCHANGED <<boardVars, handlerVars, head, recorded, requests, admitted>>

\* SubscribeToHeadEvents: the head only moves up, and may skip slots.
HeadEvent ==
    /\ head' \in (head + 1)..MaxSlot
    /\ UNCHANGED <<boardVars, handlerVars, publisher, shown, recorded,
                   requests, failures, admitted>>

\* PutPayloadDelivered, at the end of some handleProposerPayload: the builder
\* it names was read from utils, so it is one whose submission was admitted.
PutPayloadDelivered ==
    /\ \E s \in admitted : delivered' = s.builder
    /\ UNCHANGED <<now, bids, times, values, utils, highest, deadline, lapsed,
                   auctionVars>>

TimePasses == Tick /\ UNCHANGED auctionVars

\* The relay dies and starts again: NewRedisInterface flushes Redis, the
\* handlers are gone with their deferred inserts, the head is not known yet.
\* A restart counts as a failure, and as a time-out of every key.
Restart ==
    /\ CallFails
    /\ bids' = [b \in Builders |-> None]
    /\ times' = [b \in Builders |-> None]
    /\ values' = [b \in Builders |-> None]
    /\ utils' = [k \in Blocks |-> None]
    /\ highest' = None
    /\ delivered' = None
    /\ deadline' = [k \in Keys |-> NoTTL]
    /\ lapsed' = Keys
    /\ head' = 0
    /\ pc' = [h \in Handlers |-> "idle"]
    /\ sub' = [h \in Handlers |-> None]
    /\ received' = [h \in Handlers |-> 0]
    /\ top' = [h \in Handlers |-> None]
    /\ picked' = [h \in Handlers |-> None]
    /\ late' = [h \in Handlers |-> FALSE]
    /\ publisher' = None
    /\ UNCHANGED <<now, shown, recorded, requests, admitted>>

\* Nothing is in flight: the server waits for a request.
Waiting ==
    /\ publisher = None
    /\ \A h \in Handlers : pc[h] = "idle"
    /\ UNCHANGED vars

Next ==
    \/ \E h \in Handlers : Receive(h) \/ Submit(h)
    \/ PublishBulletinBoard
    \/ HeadEvent
    \/ PutPayloadDelivered
    \/ TimePasses
    \/ Restart
    \/ Waiting

Spec == Init /\ [][Next]_vars

\* Nothing in the relay keeps a running handler or the publisher from going
\* on: the scheduler runs every goroutine, and each call they make returns,
\* with an answer or an error.  Requests, the chain and the clock owe nothing.
Fairness ==
    /\ \A h \in Handlers : WF_vars(Submit(h))
    /\ WF_vars(PublishBulletinBoard)

FairSpec == Spec /\ Fairness

-----------------------------------------------------------------------------
(* What holds however the handlers interleave. *)

\* The highest bid of the slot, which the relay hands to the proposer with
\* its own signature, is a submission that handleSubmitBlock has let in: what
\* is on its block was checked, and it was not turned away by what Redis said
\* (though Redis may have failed to say).  No mix of two handlers' writes makes
\* another one win.
WinnerAdmitted == highest # None => highest \in admitted \ Forged

\* handleProposerPayload can find the builder to ask for the winning block,
\* as long as the payload utilities have not timed out: SavePayloadUtils comes
\* before SaveBuilderBid and AuctionBid, whoever runs the auction.
WinnerServable ==
    highest # None /\ "utils" \notin lapsed => utils[highest.block] # None

\* The HGET in AuctionBid does not come up empty for the builder whose value
\* was top when the values were read, unless the bids have timed out.
AuctionFindsBid ==
    \A h \in Handlers :
        pc[h] = "top" /\ "bids" \notin lapsed => bids[top[h].builder] # None

\* A request that arrives when the payload of the slot has been delivered, or
\* when the head has passed the slot, never gets to write to the board,
\* whatever happens between its checks.
LateNeverAdmitted == \A h \in Handlers : late[h] => pc[h] \notin Saving

\* The hashes that stay in Redis for good: those that have no time to live,
\* and for which no handler's next step is the EXPIRE that follows its HSET.
Endless ==
    LET hash == [utils |-> utils, bids |-> bids,
                 times |-> times, values |-> values]
        next == [utils |-> "utilsTTL", bids |-> "bidTTL",
                 times |-> "timeTTL", values |-> "valueTTL"]
    IN  {key \in DOMAIN hash :
            /\ HashExists(hash[key])
            /\ deadline[key] = NoTTL
            /\ \A h \in Handlers : pc[h] # next[key]}

\* A call that fails, between an HSET and its EXPIRE or anywhere else, leaves
\* no more than one hash of the slot in Redis for good, however the handlers
\* share the hashes; while none fails, none stays.
FewEndlessKeys == Cardinality(Endless) <= failures

\* The submissions that builders compete with and that are not, and will not
\* be, in builder_block_submissions: no handler is on its way to the deferred
\* insert of theirs.
Unrecorded ==
    {s \in admitted \ recorded :
        \A h \in Handlers : sub[h] = s => pc[h] \notin Saving \cup {"record"}}

\* An insert that fails, with the database or because the builder hangs up,
\* loses the row of one submission, and a restart those of the handlers it
\* kills; no other failure, and no path through the auction, loses any.
FewRowsLost ==
    Cardinality(Unrecorded) <= failures * Cardinality(Handlers)

-----------------------------------------------------------------------------
(* The inductive invariant: what the safety invariants rest on. *)

\* What a handler carries, as far as the types of its next step need it.
Carried ==
    \A h \in Handlers :
        /\ pc[h] # "idle" => sub[h] \in Submissions
        /\ pc[h] \in {"top", "highest", "publish"} => top[h] \in TopBid
        /\ pc[h] = "highest" => picked[h] \in Submissions

\* Every copy of a bid, on the board or in a handler, is of one admitted.
CopiesAdmitted ==
    /\ admitted \cap Forged = {}
    /\ \A h \in Handlers :
          /\ pc[h] = "last" => sub[h] \notin Forged
          /\ pc[h] \in Saving => sub[h] \in admitted
          /\ pc[h] = "highest" => picked[h] \in admitted
    /\ \A b \in Builders : bids[b] # None => bids[b] \in admitted
    /\ highest # None => highest \in admitted

\* Whatever bid may become the highest has its utilities saved.
CopiesServable ==
    "utils" \notin lapsed =>
        /\ \A h \in Handlers :
              /\ pc[h] \in Saving \ {"utils"} => utils[sub[h].block] # None
              /\ pc[h] = "highest" => utils[picked[h].block] # None
        /\ \A b \in Builders : bids[b] # None => utils[bids[b].block] # None
        /\ highest # None => utils[highest.block] # None

\* Whatever builder's value may be read has its bid saved.
ValuesBacked ==
    "bids" \notin lapsed =>
        /\ \A h \in Handlers :
              /\ pc[h] \in Saving \ {"utils", "utilsTTL", "bid"} =>
                    bids[sub[h].builder] # None
              /\ pc[h] = "top" => bids[top[h].builder] # None
        /\ \A b \in Builders : values[b] # None => bids[b] # None

\* A late request is stopped by one of two checks, whichever closed the slot.
LateStopped ==
    \A h \in Handlers :
        late[h] =>
            /\ pc[h] \in {"delivered", "slot"}
            /\ delivered # None \/ head > AuctionSlot
            /\ pc[h] = "slot" => head > AuctionSlot

Inductive ==
    /\ TypeOK
    /\ Carried
    /\ CopiesAdmitted
    /\ CopiesServable
    /\ ValuesBacked
    /\ LateStopped
    /\ FewEndlessKeys
    /\ FewRowsLost

-----------------------------------------------------------------------------
(* What holds when the handlers take turns, as they would if they locked   *)
(* BidBoard.bidMutex, which nobody does.                                   *)

\* The call of AuctionBid; the calls SaveBuilderBid and AuctionBid and the send
\* of the result to the publisher; and what lies between the check of the time
\* of a builder's last bid and the write of the new one.
Auctioning == {"values", "top", "highest"}
Announcing == {"bid", "bidTTL", "time", "timeTTL", "value", "valueTTL",
               "values", "top", "highest", "publish"}
Checked == {"utils", "utilsTTL", "bid", "bidTTL", "time"}

\* No two handlers are in the section at once.  Nothing is said of the handlers
\* before and after it, of the publisher, of time-outs or of restarts.
OneAtATime(section) ==
    \A g, h \in Handlers : pc[g] \in section /\ pc[h] \in section => g = h

Quiet == publisher = None /\ \A h \in Handlers : pc[h] = "idle"

\* Between submissions, the highest bid is the bid of a builder whose value is
\* the greatest on the board (until a call fails or a key times out).
HighestIsMax ==
    Quiet /\ failures = 0 /\ lapsed = {} /\ TopBuilders # {} =>
        \E b \in TopBuilders : highest = bids[b]

\* Between submissions, what builders last saw on the bulletin board is the
\* builder and the value of the bid the proposer will get.
ShownIsHighest ==
    Quiet /\ failures = 0 /\ highest # None =>
        shown = [builder |-> highest.builder, value |-> highest.value]

\* With handlers that take turns in AuctionBid, and overlap before and after
\* it, the highest bid is a maximum of the board.
TurnsPickMax == []OneAtATime(Auctioning) => []HighestIsMax

\* With handlers that take turns from the write of the bid to the send of the
\* result, builders see the highest bid, however equal values are settled and
\* however many submissions of one builder come at once.
TurnsShowHighest == []OneAtATime(Announcing) => []ShownIsHighest

-----------------------------------------------------------------------------
\* The steps of any number of handlers, with failing calls, time-outs and
\* restarts, are steps of the auction WinningBid promises: no interleaving
\* lets a block win before its payload can be had, and no write of one
\* handler takes away what another has stored.
Sealed == INSTANCE WinningBid WITH
    candidates <- admitted,
    winner <- highest,
    stored <- {k \in Blocks : utils[k] # None},
    intact <- IF "utils" \in lapsed THEN 0 ELSE 1,
    marked <- delivered

KeepsPromise == Sealed!Promise

-----------------------------------------------------------------------------
\* A builder's bid is never replaced by one that arrived in an earlier second:
\* what BuilderBlockLast is there for.
LatestBidKept ==
    [][\A b \in Builders :
          times[b] # None /\ times'[b] # None => times'[b] >= times[b]]_vars

-----------------------------------------------------------------------------
(* What happens in the end. *)

\* Every submission is answered: no handler waits for the publisher, or for
\* another handler, for ever.
EveryHandlerReturns ==
    \A h \in Handlers : pc[h] # "idle" ~> pc[h] = "idle"

\* An admitted submission leads to a highest bid for the proposer, be it
\* another builder's, unless some call fails or a key times out.
AdmittedIsAuctioned ==
    \A h \in Handlers :
        pc[h] = "utils" ~> highest # None \/ failures > 0 \/ lapsed # {}
=============================================================================
