------------------------------ MODULE Delivery ------------------------------
(***************************************************************************)
(* The proposers' side of the relay: handleProposerHeader, which hands out *)
(* the highest bid of the slot, and handleProposerPayload, which trades    *)
(* the proposer's signature for the builder's payload.  Both read the      *)
(* board of BidBoard; only the mark PutPayloadDelivered writes it.         *)
(*                                                                         *)
(* Each has a variant for tests on a route of its own, over the same board *)
(* and tables: TESThandleProposerHeader, which stores a row without a      *)
(* block, and handleProposerTestPayload, which looks neither at who signed *)
(* the block it is sent nor at its hash.                                   *)
(***************************************************************************)
EXTENDS BidBoard

CONSTANTS
    Getters,      \* goroutines that serve getHeader
    Payers,       \* goroutines that serve getPayload
    Testers,      \* those of either that serve its route for tests
    TestProposer, \* proposerPubkey of handleProposerTestPayload
    TestBlock,    \* its blockHash, if its slot is that of the board, or None
    MaxGets,      \* bound: how many requests of each kind arrive
    MaxFaults     \* bound: how many calls to the outside fail

ASSUME DeliveryAssumption ==
    /\ MaxGets \in Nat
    /\ MaxFaults \in Nat
    /\ None \notin Blocks
    /\ None \notin Proposers
    /\ Testers \subseteq Getters \cup Payers
    /\ TestProposer \in Proposers
    /\ TestBlock \in Blocks \cup {None}

VARIABLES
    gpc,           \* what each getHeader handler does next
    asker,         \* the proposer in its URL
    offer,         \* the bid it read
    ppc,           \* what each getPayload handler does next
    signer,        \* proposerPubkey: whose signature it verified
    block,         \* blockHash: that of the signed blinded block
    seller,        \* the payload utilities it read for that hash
    payload,       \* the hash of the payload the builder answered with
    written,       \* whether RespondOK has written the answer
    headerNotice,  \* what SlotHeaderRequested took from its channel
    payloadNotice, \* what SlotPayloadRequested took from its channel
    headerRows,    \* validator_header_delivered
    returnedRows,  \* validator_returned_blocks
    payloadRows,   \* validator_payloads_delivered
    gets,          \* how many getHeader requests have arrived
    pays,          \* how many getPayload requests have arrived
    faults,        \* how many external calls have failed
    offers,        \* history: headers answered with 200
    asked,         \* history: signed blocks sent to a builder's API
    served         \* history: payloads answered with 200, in full

getterVars == <<gpc, asker, offer, headerNotice, headerRows, gets, offers>>
payerVars == <<ppc, signer, block, seller, payload, written, payloadNotice,
               returnedRows, payloadRows, pays, asked, served>>
deliveryVars == <<getterVars, payerVars, faults>>

DeliveryTypeOK ==
    /\ gpc \in [Getters -> {"idle", "winning", "row", "notice"}]
    /\ asker \in [Getters -> Proposers \cup {None}]
    /\ offer \in [Getters -> Submissions \cup {None}]
    /\ ppc \in [Payers -> {"idle", "utils", "row", "builder", "respond",
                           "notice", "discord", "mark", "payloadRow",
                           "finish"}]
    /\ signer \in [Payers -> Proposers \cup {None}]
    /\ block \in [Payers -> Blocks \cup {None}]
    /\ seller \in [Payers -> Submissions \cup {None}]
    /\ payload \in [Payers -> Blocks \cup {None}]
    /\ written \in [Payers -> BOOLEAN]
    /\ headerNotice \in Proposers \cup {None}
    /\ payloadNotice \in Proposers \cup {None}
    /\ headerRows \subseteq [proposer : Proposers, block : Blocks \cup {None}]
    /\ returnedRows \subseteq [proposer : Proposers, block : Blocks]
    /\ payloadRows \subseteq [proposer : Proposers, block : Blocks]
    /\ gets \in 0..MaxGets
    /\ pays \in 0..MaxGets
    /\ faults \in 0..MaxFaults
    /\ offers \subseteq [proposer : Proposers, bid : Submissions,
                         test : BOOLEAN]
    /\ asked \subseteq [proposer : Proposers \cup {None},
                        block : Blocks \cup {None}, builder : Builders]
    /\ served \subseteq [proposer : Proposers \cup {None},
                         block : Blocks \cup {None}]

DeliveryInit ==
    /\ gpc = [g \in Getters |-> "idle"]
    /\ asker = [g \in Getters |-> None]
    /\ offer = [g \in Getters |-> None]
    /\ ppc = [g \in Payers |-> "idle"]
    /\ signer = [g \in Payers |-> None]
    /\ block = [g \in Payers |-> None]
    /\ seller = [g \in Payers |-> None]
    /\ payload = [g \in Payers |-> None]
    /\ written = [g \in Payers |-> FALSE]
    /\ headerNotice = None
    /\ payloadNotice = None
    /\ headerRows = {}
    /\ returnedRows = {}
    /\ payloadRows = {}
    /\ gets = 0
    /\ pays = 0
    /\ faults = 0
    /\ offers = {}
    /\ asked = {}
    /\ served = {}

Fault == faults < MaxFaults /\ faults' = faults + 1
NoFault == UNCHANGED faults

-----------------------------------------------------------------------------
(* handleProposerHeader and TESThandleProposerHeader *)

GetterGoto(g, label) ==
    /\ gpc' = [gpc EXCEPT ![g] = label]
    /\ UNCHANGED <<asker, offer>>

GetterReturn(g) ==
    /\ gpc' = [gpc EXCEPT ![g] = "idle"]
    /\ asker' = [asker EXCEPT ![g] = None]
    /\ offer' = [offer EXCEPT ![g] = None]

\* A proposer asks for the header of the slot.
GetHeader(g) ==
    /\ gpc[g] = "idle"
    /\ gets < MaxGets
    /\ gets' = gets + 1
    /\ \E p \in Proposers : asker' = [asker EXCEPT ![g] = p]
    /\ gpc' = [gpc EXCEPT ![g] = "winning"]
    /\ UNCHANGED <<boardVars, payerVars, faults, offer, headerNotice,
                   headerRows, offers>>

\* WinningBid: 204 when there is none, 400 when the read fails.  A bid for
\* another proposer is answered with 400, but no return follows.  (Nor does one
\* follow the 400 for a header that does not convert, relay.go:726: that of a
\* stored bid has been converted once, relay.go:492, before it was stored.)
ReadWinningBid(g) ==
    /\ gpc[g] = "winning"
    /\ \/ /\ highest # None
          /\ NoFault
          /\ gpc' = [gpc EXCEPT ![g] = "row"]
          /\ offer' = [offer EXCEPT ![g] = highest]
          /\ UNCHANGED <<asker>>
       \/ highest = None /\ NoFault /\ GetterReturn(g)
       \/ Fault /\ GetterReturn(g)
    /\ UNCHANGED <<boardVars, payerVars, headerNotice, headerRows, gets,
                   offers>>

\* What a request leaves in the table: over the test route a row that names
\* the proposer of the request, but no block.
HeaderRow(proposer, bid, test) ==
    [proposer |-> proposer, block |-> IF test THEN None ELSE bid.block]

\* Mutant of PutDeliveredHeader: an error is logged and forgotten.
PutDeliveredHeaderAnyway(g) ==
    /\ gpc[g] = "row"
    /\ \/ /\ NoFault
          /\ headerRows' = headerRows \cup
                 {HeaderRow(asker[g], offer[g], g \in Testers)}
       \/ Fault /\ UNCHANGED headerRows
    /\ GetterGoto(g, "notice")
    /\ UNCHANGED <<boardVars, payerVars, headerNotice, gets, offers>>

\* PutValidatorDeliveredHeader, with the proposer of the request.
PutDeliveredHeader(g) ==
    /\ gpc[g] = "row"
    /\ \/ /\ NoFault
          /\ headerRows' = headerRows \cup
                 {HeaderRow(asker[g], offer[g], g \in Testers)}
          /\ GetterGoto(g, "notice")
       \/ Fault /\ GetterReturn(g) /\ UNCHANGED headerRows
    /\ UNCHANGED <<boardVars, payerVars, headerNotice, gets, offers>>

Offered(g) ==
    [proposer |-> asker[g], bid |-> offer[g], test |-> g \in Testers]

\* Mutant of RespondHeader: no 400 goes out for the bid of another proposer.
RespondHeaderToAnyone(g) ==
    /\ gpc[g] = "notice"
    /\ headerNotice = None
    /\ headerNotice' = asker[g]
    /\ offers' = offers \cup {Offered(g)}
    /\ GetterReturn(g)
    /\ UNCHANGED <<boardVars, payerVars, faults, headerRows, gets>>

\* The unbuffered ProposerHeaderChannel, then RespondOK and the return.  It is
\* a 200 only when no 400 went out before it; behind a 400 the bid goes out all
\* the same, and is no offer.  The test route also starts testBuilderCall,
\* which looks for the utilities of the hash of zeros, that of no block; if it
\* found any it would post an empty block that nobody signed, and drop the
\* answer.  It changes nothing.
RespondHeader(g) ==
    /\ gpc[g] = "notice"
    /\ headerNotice = None
    /\ headerNotice' = asker[g]
    /\ offers' = IF offer[g].proposer = asker[g]
                   THEN offers \cup {Offered(g)}
                   ELSE offers
    /\ GetterReturn(g)
    /\ UNCHANGED <<boardVars, payerVars, faults, headerRows, gets>>

\* Mutant of HeaderNoticeSent: it waits for a broker that does not answer any
\* more once a call has failed.
HeaderNoticeSentWaits ==
    /\ headerNotice # None
    /\ faults = 0
    /\ headerNotice' = None
    /\ UNCHANGED <<boardVars, payerVars, faults, gpc, asker, offer,
                   headerRows, gets, offers>>

\* SlotHeaderRequested publishes and forgets.
HeaderNoticeSent ==
    /\ headerNotice # None
    /\ headerNotice' = None
    /\ UNCHANGED <<boardVars, payerVars, faults, gpc, asker, offer,
                   headerRows, gets, offers>>

Header(g) == ReadWinningBid(g) \/ PutDeliveredHeader(g) \/ RespondHeader(g)

-----------------------------------------------------------------------------
(* handleProposerPayload and handleProposerTestPayload *)

PayerGoto(g, label) ==
    /\ ppc' = [ppc EXCEPT ![g] = label]
    /\ UNCHANGED <<signer, block, seller, payload, written>>

PayerReturn(g) ==
    /\ ppc' = [ppc EXCEPT ![g] = "idle"]
    /\ signer' = [signer EXCEPT ![g] = None]
    /\ block' = [block EXCEPT ![g] = None]
    /\ seller' = [seller EXCEPT ![g] = None]
    /\ payload' = [payload EXCEPT ![g] = None]
    /\ written' = [written EXCEPT ![g] = FALSE]

\* What goes to the builder: a block that a proposer has signed or, over the
\* test route, whatever was sent, which nobody has looked at.
Sent(g) ==
    IF g \in Testers THEN [proposer |-> None, block |-> None]
                ELSE [proposer |-> signer[g], block |-> block[g]]

Question(g) == [proposer |-> Sent(g).proposer, block |-> Sent(g).block,
                builder |-> seller[g].builder]

\* A blinded block comes, and its signature is that of the validator with the
\* index in it (a request that fails these checks touches nothing).
GetPayload(g) ==
    /\ g \notin Testers
    /\ ppc[g] = "idle"
    /\ pays < MaxGets
    /\ pays' = pays + 1
    /\ \E p \in Proposers, k \in Blocks :
          /\ signer' = [signer EXCEPT ![g] = p]
          /\ block' = [block EXCEPT ![g] = k]
    /\ ppc' = [ppc EXCEPT ![g] = "utils"]
    /\ UNCHANGED <<boardVars, getterVars, faults, seller, payload,
                   written, payloadNotice, returnedRows, payloadRows, asked,
                   served>>

\* Over the test route any block will do, signed or not: slot, hash and
\* proposer are written in the code.  (For another slot than that of this board
\* it reads another board.)
GetTestPayload(g) ==
    /\ g \in Testers
    /\ TestBlock # None
    /\ ppc[g] = "idle"
    /\ pays < MaxGets
    /\ pays' = pays + 1
    /\ signer' = [signer EXCEPT ![g] = TestProposer]
    /\ block' = [block EXCEPT ![g] = TestBlock]
    /\ ppc' = [ppc EXCEPT ![g] = "utils"]
    /\ UNCHANGED <<boardVars, getterVars, faults, seller, payload, written,
                   payloadNotice, returnedRows, payloadRows, asked, served>>

\* Mutant of ReadUtils: it takes the builder of the highest bid.
ReadUtilsOfHighest(g) ==
    /\ ppc[g] = "utils"
    /\ highest # None
    /\ NoFault
    /\ ppc' = [ppc EXCEPT ![g] = "row"]
    /\ seller' = [seller EXCEPT ![g] = highest]
    /\ UNCHANGED <<boardVars, getterVars, signer, block, payload,
                   written, payloadNotice, returnedRows, payloadRows, pays,
                   asked, served>>

\* PayloadUtils: where the builder of that block hash is to be asked.
ReadUtils(g) ==
    /\ ppc[g] = "utils"
    /\ \/ /\ utils[block[g]] # None
          /\ NoFault
          /\ ppc' = [ppc EXCEPT ![g] = "row"]
          /\ seller' = [seller EXCEPT ![g] = utils[block[g]]]
          /\ UNCHANGED <<signer, block, payload, written>>
       \/ utils[block[g]] = None /\ NoFault /\ PayerReturn(g)
       \/ Fault /\ PayerReturn(g)
    /\ UNCHANGED <<boardVars, getterVars, payloadNotice, returnedRows,
                   payloadRows, pays, asked, served>>

\* Mutant of PutReturnedBlock: an error is logged and forgotten.
PutReturnedBlockAnyway(g) ==
    /\ ppc[g] = "row"
    /\ \/ /\ NoFault
          /\ returnedRows' = returnedRows \cup
                 {[proposer |-> signer[g], block |-> block[g]]}
       \/ Fault /\ UNCHANGED returnedRows
    /\ PayerGoto(g, "builder")
    /\ UNCHANGED <<boardVars, getterVars, payloadNotice, payloadRows, pays,
                   asked, served>>

\* PutValidatorReturnedBlock: the signed block is evidence, kept before it is
\* shown to the builder.  The test route keeps the proposer and the hash that
\* are written in the code.
PutReturnedBlock(g) ==
    /\ ppc[g] = "row"
    /\ \/ /\ NoFault
          /\ returnedRows' = returnedRows \cup
                 {[proposer |-> signer[g], block |-> block[g]]}
          /\ PayerGoto(g, "builder")
       \/ Fault /\ PayerReturn(g) /\ UNCHANGED returnedRows
    /\ UNCHANGED <<boardVars, getterVars, payloadNotice, payloadRows, pays,
                   asked, served>>

\* sendHTTPRequest to the builder's API: it times out after a second, answers
\* an error or something that does not decode, or a payload, of any hash.  The
\* http.Post of the test route does not time out, and nobody reads the hash.
AskBuilder(g) ==
    /\ ppc[g] = "builder"
    /\ asked' = asked \cup {Question(g)}
    /\ \/ \E k \in Blocks :
            /\ g \notin Testers
            /\ NoFault
            /\ payload' = [payload EXCEPT ![g] = k]
            /\ ppc' = [ppc EXCEPT ![g] = "respond"]
            /\ UNCHANGED <<signer, block, seller, written>>
       \/ g \in Testers /\ NoFault /\ PayerGoto(g, "notice")
       \/ Fault /\ PayerReturn(g)
    /\ UNCHANGED <<boardVars, getterVars, payloadNotice, returnedRows,
                   payloadRows, pays, served>>

\* RespondOK writes the payload; on the test route all but the mark is done.
\* When the payload's version has no name an error is written instead, and the
\* deferred functions run all the same.
RespondPayload(g) ==
    /\ ppc[g] = "respond"
    /\ \/ /\ NoFault
          /\ written' = [written EXCEPT ![g] = TRUE]
          /\ ppc' = [ppc EXCEPT ![g] = IF g \in Testers THEN "mark"
                                                        ELSE "notice"]
          /\ UNCHANGED <<signer, block, seller, payload>>
       \/ g \notin Testers /\ Fault /\ PayerGoto(g, "discord")
    /\ UNCHANGED <<boardVars, getterVars, payloadNotice, returnedRows,
                   payloadRows, pays, asked, served>>

\* The unbuffered SlotPayloadChannel: after RespondOK or, on the test route,
\* before it.
NotifyPayload(g) ==
    /\ ppc[g] = "notice"
    /\ payloadNotice = None
    /\ payloadNotice' = signer[g]
    /\ PayerGoto(g, IF g \in Testers THEN "respond" ELSE "discord")
    /\ UNCHANGED <<boardVars, getterVars, faults, returnedRows, payloadRows,
                   pays, asked, served>>

\* Mutant of PayloadNoticeSent: as HeaderNoticeSentWaits.
PayloadNoticeSentWaits ==
    /\ payloadNotice # None
    /\ faults = 0
    /\ payloadNotice' = None
    /\ UNCHANGED <<boardVars, getterVars, faults, ppc, signer, block,
                   seller, payload, written, returnedRows, payloadRows, pays,
                   asked, served>>

\* SlotPayloadRequested publishes and forgets.
PayloadNoticeSent ==
    /\ payloadNotice # None
    /\ payloadNotice' = None
    /\ UNCHANGED <<boardVars, getterVars, faults, ppc, signer, block,
                   seller, payload, written, returnedRows, payloadRows, pays,
                   asked, served>>

\* The deferred functions, last registered first: SendDiscord, whose HTTP
\* client has no time-out, ...
SendDiscord(g) ==
    /\ ppc[g] = "discord"
    /\ PayerGoto(g, "mark")
    /\ UNCHANGED <<boardVars, getterVars, faults, payloadNotice, returnedRows,
                   payloadRows, pays, asked, served>>

\* The mark is the last thing the test route does.
AfterMark(g) == PayerGoto(g, IF g \in Testers THEN "finish" ELSE "payloadRow")

\* Mutants of MarkDelivered: it names the builder of the highest bid, or closes
\* the auction as well.
MarkDeliveredHighest(g) ==
    /\ ppc[g] = "mark"
    /\ NoFault
    /\ delivered' = IF highest = None THEN None ELSE highest.builder
    /\ AfterMark(g)
    /\ UNCHANGED <<now, bids, times, values, utils, highest, deadline, lapsed,
                   getterVars, payloadNotice, returnedRows, payloadRows, pays,
                   asked, served>>

MarkDeliveredCloses(g) ==
    /\ ppc[g] = "mark"
    /\ NoFault
    /\ delivered' = seller[g].builder
    /\ highest' = None
    /\ AfterMark(g)
    /\ UNCHANGED <<now, bids, times, values, utils, deadline, lapsed,
                   getterVars, payloadNotice, returnedRows, payloadRows, pays,
                   asked, served>>

\* ... PutPayloadDelivered, which overwrites an earlier mark, ...
MarkDelivered(g) ==
    /\ ppc[g] = "mark"
    /\ \/ NoFault /\ delivered' = seller[g].builder
       \/ Fault /\ UNCHANGED delivered
    /\ AfterMark(g)
    /\ UNCHANGED <<now, bids, times, values, utils, highest, deadline, lapsed,
                   getterVars, payloadNotice, returnedRows, payloadRows, pays,
                   asked, served>>

\* ... and PutValidatorDeliveredPayload, with the hash of the payload.
PutDeliveredPayload(g) ==
    /\ ppc[g] = "payloadRow"
    /\ \/ /\ NoFault
          /\ payloadRows' = payloadRows \cup
                 {[proposer |-> signer[g], block |-> payload[g]]}
       \/ Fault /\ UNCHANGED payloadRows
    /\ PayerGoto(g, "finish")
    /\ UNCHANGED <<boardVars, getterVars, payloadNotice, returnedRows, pays,
                   asked, served>>

\* The handler returns.  Nothing flushes a response: only now is all of the
\* answer sent, be it a payload or an error.
FinishPayload(g) ==
    /\ ppc[g] = "finish"
    /\ served' = IF written[g] THEN served \cup {Sent(g)} ELSE served
    /\ PayerReturn(g)
    /\ UNCHANGED <<boardVars, getterVars, faults, payloadNotice, returnedRows,
                   payloadRows, pays, asked>>

Payload(g) ==
    \/ ReadUtils(g) \/ PutReturnedBlock(g) \/ AskBuilder(g)
    \/ RespondPayload(g) \/ NotifyPayload(g) \/ SendDiscord(g)
    \/ MarkDelivered(g) \/ PutDeliveredPayload(g) \/ FinishPayload(g)

\* The handler waits for somebody else's server with no time-out of its own:
\* for Discord or, over the test route, for a builder.
Unbounded(g) == ppc[g] = "discord" \/ (ppc[g] = "builder" /\ g \in Testers)

\* The relay dies: its handlers are gone, with the answers that were not yet
\* complete; the database and what proposers and builders got stay.
DeliveryRestart ==
    /\ gpc' = [g \in Getters |-> "idle"]
    /\ asker' = [g \in Getters |-> None]
    /\ offer' = [g \in Getters |-> None]
    /\ ppc' = [g \in Payers |-> "idle"]
    /\ signer' = [g \in Payers |-> None]
    /\ block' = [g \in Payers |-> None]
    /\ seller' = [g \in Payers |-> None]
    /\ payload' = [g \in Payers |-> None]
    /\ written' = [g \in Payers |-> FALSE]
    /\ headerNotice' = None
    /\ payloadNotice' = None
    /\ UNCHANGED <<headerRows, returnedRows, payloadRows, gets, pays, faults,
                   offers, asked, served>>

Deliver ==
    \/ \E g \in Getters : GetHeader(g) \/ Header(g)
    \/ \E g \in Payers : GetPayload(g) \/ GetTestPayload(g) \/ Payload(g)
    \/ HeaderNoticeSent
    \/ PayloadNoticeSent

-----------------------------------------------------------------------------
\* What the relay has on record of a block that it sends to a builder: who
\* signed it and its hash or, of what came over the test route, the proposer
\* and the hash that are written in the code, whatever it was.
OnRecord(a) ==
    IF a.block = None THEN [proposer |-> TestProposer, block |-> TestBlock]
                      ELSE [proposer |-> a.proposer, block |-> a.block]

\* A signed block leaves the relay only after its row is in the database: of
\* two blocks signed for one slot and shown to builders, the reporters can
\* find both, whether a payload came back or not.  What comes over the test
\* route has a row as well, but not one that tells what it was.
AskedWasReturned == \A a \in asked : OnRecord(a) \in returnedRows

\* Nothing is handed out or put on record as delivered for nothing: whoever got
\* a payload, or has a row for one, has let the relay show its block to a
\* builder, through the deferred functions, failing calls and restarts.
ServedWasAsked ==
    /\ served \subseteq {[proposer |-> a.proposer, block |-> a.block] :
                             a \in asked}
    /\ \A r \in payloadRows : \E a \in asked : a.proposer = r.proposer

\* Every header answered with 200 has a row that names its proposer and its
\* block, but for the test route, whose row names the proposer only.
OfferedWasRecorded ==
    \A o \in offers : HeaderRow(o.proposer, o.bid, o.test) \in headerRows

\* The delivered mark names a builder that was asked for a payload of the slot.
MarkNamesAskedBuilder ==
    delivered # None => \E a \in asked : a.builder = delivered
=============================================================================
