-------------------------------- MODULE Relay -------------------------------
(***************************************************************************)
(* One slot of the relay: the auction of Auction and the deliveries of     *)
(* Delivery at once, over the one board they share.  What Auction takes    *)
(* from its surroundings, that a payload handler marks the slot delivered, *)
(* is here a step of handleProposerPayload.                                *)
(***************************************************************************)
EXTENDS Auction, Delivery

relayVars == <<vars, deliveryVars>>

RelayTypeOK == TypeOK /\ DeliveryTypeOK

RelayInit == Init /\ DeliveryInit

RelayNext ==
    \/ /\ \/ \E h \in Handlers : Receive(h) \/ Submit(h)
          \/ PublishBulletinBoard
          \/ HeadEvent
          \/ TimePasses
          \/ Waiting
       /\ UNCHANGED deliveryVars
    \/ Deliver /\ UNCHANGED auctionVars
    \/ Restart /\ DeliveryRestart

RelaySpec == RelayInit /\ [][RelayNext]_relayVars

\* As in Auction; and every call of the proposers' handlers returns but the
\* two that have no time-out, of which nothing is assumed.
RelayFairness ==
    LET apart == UNCHANGED deliveryVars
        alone == UNCHANGED auctionVars
    IN  /\ \A h \in Handlers : WF_relayVars(Submit(h) /\ apart)
        /\ WF_relayVars(PublishBulletinBoard /\ apart)
        /\ \A g \in Getters : WF_relayVars(Header(g) /\ alone)
        /\ \A g \in Payers :
              WF_relayVars(Payload(g) /\ ~ Unbounded(g) /\ alone)
        /\ WF_relayVars(HeaderNoticeSent /\ alone)
        /\ WF_relayVars(PayloadNoticeSent /\ alone)

RelayFairSpec == RelaySpec /\ RelayFairness

-----------------------------------------------------------------------------
\* The auction keeps to its specification with the real payload handlers for
\* its surroundings: they leave the board alone but for the delivered mark,
\* and mark only a builder whose submission was admitted.
ImplementsAuction == Spec

\* It keeps the promise of Trade as well: whatever the handlers of the
\* proposers do, with their failing calls and restarts, is a step that the
\* trade allows, in the order of its records.
Traded == INSTANCE Trade WITH
    candidates <- admitted,
    headers <- headerRows,
    offered <- offers,
    evidence <- returnedRows,
    questions <- asked,
    payloads <- served,
    receipts <- payloadRows,
    marked <- delivered

TradesFairly == Traded!Promise

\* A header the relay answered with 200 can be redeemed: the builder of its
\* block is still to be found by handleProposerPayload, however many other
\* submissions came in between, until the utilities time out.
OfferRedeemable ==
    \A o \in offers : "utils" \notin lapsed => utils[o.bid.block] # None

\* A proposer is only ever offered what a builder submitted and the relay let
\* in, and a builder is only ever shown a block for which it has submitted one
\* that was let in, of the hash that the relay has on record for it.
DeliveredWasAdmitted ==
    /\ \A o \in offers : o.bid \in admitted \ Forged
    /\ \A a \in asked : \E s \in admitted :
           s.block = OnRecord(a).block /\ s.builder = a.builder

-----------------------------------------------------------------------------
(* The inductive invariant: what the handlers of the proposers carry. *)

\* The utilities of a block are of an admitted submission of that block.
UtilsAdmitted ==
    \A k \in Blocks :
        utils[k] # None => utils[k] \in admitted /\ utils[k].block = k

Redeemable(bid) == "utils" \notin lapsed => utils[bid.block] # None

GettersHold ==
    \A g \in Getters :
        /\ gpc[g] # "idle" => asker[g] \in Proposers
        /\ gpc[g] \in {"row", "notice"} =>
              offer[g] \in admitted /\ Redeemable(offer[g])
        /\ gpc[g] = "notice" =>
              HeaderRow(asker[g], offer[g], g \in Testers) \in headerRows

PayersHold ==
    \A g \in Payers :
        /\ ppc[g] # "idle" => signer[g] \in Proposers /\ block[g] \in Blocks
        /\ ppc[g] # "idle" /\ g \in Testers =>
              signer[g] = TestProposer /\ block[g] = TestBlock
        /\ ppc[g] \notin {"idle", "utils"} =>
              seller[g] \in admitted /\ seller[g].block = block[g]
        /\ ppc[g] \notin {"idle", "utils", "row"} =>
              [proposer |-> signer[g], block |-> block[g]] \in returnedRows
        /\ ppc[g] \notin {"idle", "utils", "row", "builder"} =>
              /\ g \notin Testers => payload[g] \in Blocks
              /\ Question(g) \in asked
        /\ ppc[g] \in {"discord", "payloadRow"} => g \notin Testers

RelayInductive ==
    /\ RelayTypeOK /\ Carried /\ CopiesAdmitted /\ CopiesServable
    /\ UtilsAdmitted /\ GettersHold /\ PayersHold
    /\ OfferRedeemable /\ DeliveredWasAdmitted
    /\ AskedWasReturned /\ ServedWasAsked /\ OfferedWasRecorded
    /\ MarkNamesAskedBuilder

-----------------------------------------------------------------------------
\* Every row of the headers delivered that names a block names the proposer its
\* bid was made for.
HeaderRowsMatchBid ==
    \A r \in {x \in headerRows : x.block # None} :
        \E s \in admitted : s.block = r.block /\ s.proposer = r.proposer

\* Every proposer that asks for a header is answered.
HeaderAnswered == \A g \in Getters : gpc[g] # "idle" ~> gpc[g] = "idle"

\* Every request with a signed block gets all of its answer, a payload or an
\* error, unless its handler waits for ever for the Discord server or, over the
\* test route, for the builder.  Neither other requests nor a broker that loses
\* what is published keeps it from its answer.
PayloadAnswered ==
    \A g \in Payers : []<>(ppc[g] = "idle") \/ <>[]Unbounded(g)
=============================================================================
