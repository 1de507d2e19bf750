----------------------------- MODULE RelayProofs ----------------------------
(***************************************************************************)
(* The handlers of the proposers over the auction's board: the relay       *)
(* implements the auction, what it offers can be redeemed, and what it     *)
(* does is on record before it is seen.                                    *)
(***************************************************************************)
EXTENDS Relay, SerialProofs

USE DeliveryAssumption

-----------------------------------------------------------------------------
(* What a step of the auction does to what the proposers' handlers look at. *)

\* Who takes part is never forgotten, and the utilities of a block are never
\* replaced by nothing until they time out.
LEMMA NextUtils ==
  Typed /\ CopiesAdmitted /\ UtilsAdmitted /\ [Next]_vars
    => /\ UtilsAdmitted'
       /\ admitted \subseteq admitted'
       /\ "utils" \notin lapsed' =>
             /\ "utils" \notin lapsed
             /\ \A k \in Blocks : utils[k] # None => utils'[k] # None
  <1> SUFFICES ASSUME Typed, CopiesAdmitted, UtilsAdmitted, [Next]_vars
               PROVE  /\ UtilsAdmitted'
                      /\ admitted \subseteq admitted'
                      /\ "utils" \notin lapsed' =>
                           /\ "utils" \notin lapsed
                           /\ \A k \in Blocks :
                                 utils[k] # None => utils'[k] # None
    OBVIOUS
  <1> USE DEF UtilsAdmitted
  <1>0. utils \in [Blocks -> Submissions \cup {None}]
    BY DEF Typed, TypeOK, BoardTypeOK
  <1>1. CASE UNCHANGED <<utils, lapsed>> /\ admitted \subseteq admitted'
    BY <1>1
  <1>2. ASSUME NEW h \in Handlers, SetUtils(h)
        PROVE  /\ UtilsAdmitted'
               /\ UNCHANGED <<admitted, lapsed>>
               /\ \A k \in Blocks : utils[k] # None => utils'[k] # None
    <2>1. sub[h] \in Submissions /\ sub[h] \in admitted
      BY <1>2 DEF SetUtils, Typed, Carried, CopiesAdmitted, Saving
    <2>2. sub[h].block \in Blocks /\ sub[h] # None
      BY <2>1, SubmissionFields
    <2>3. utils' \in {utils, [utils EXCEPT ![sub[h].block] = sub[h]]}
      BY <1>2 DEF SetUtils
    <2>4. UNCHANGED <<admitted, lapsed>>
      BY <1>2 DEF SetUtils
    <2> QED
      BY <1>0, <2>1, <2>2, <2>3, <2>4
  <1>3. ASSUME NEW h \in Handlers, CheckLastBid(h)
        PROVE  UNCHANGED <<utils, lapsed>> /\ admitted \subseteq admitted'
    BY <1>3 DEF CheckLastBid, boardVars
  <1>4. CASE TimePasses
    <2>1. /\ admitted' = admitted
          /\ utils' = utils \/ utils' = [k \in Blocks |-> None]
          /\ "utils" \notin lapsed' => "utils" \notin lapsed /\ utils' = utils
      BY <1>4 DEF TimePasses, Tick, auctionVars, Keys
    <2> QED
      BY <2>1
  <1>5. CASE Restart
    BY <1>5 DEF Restart, Keys
  <1>6. ASSUME NEW h \in Handlers,
               \/ Receive(h) \/ RefuseBuilder(h) \/ CheckDelivered(h)
               \/ CheckBlock(h) \/ ExpireUtils(h) \/ SetBid(h)
               \/ ExpireBids(h) \/ SetTime(h) \/ ExpireTimes(h)
               \/ SetValue(h) \/ ExpireValues(h) \/ ReadValues(h)
               \/ ReadTopBid(h) \/ SetHighest(h) \/ Publish(h) \/ Record(h)
        PROVE  UNCHANGED <<utils, lapsed, admitted>>
    BY <1>6 DEF Receive, RefuseBuilder, CheckDelivered, CheckBlock,
                ExpireUtils, SetBid, ExpireBids, SetTime, ExpireTimes,
                SetValue, ExpireValues, ExpireKey, ReadValues, ReadTopBid,
                SetHighest, Publish, Record, boardVars
  <1>7. CASE \/ PublishBulletinBoard \/ HeadEvent \/ PutPayloadDelivered
             \/ UNCHANGED vars
    BY <1>7 DEF PublishBulletinBoard, HeadEvent, PutPayloadDelivered, vars,
                boardVars, auctionVars
  <1> QED
    BY <1>1, <1>2, <1>3, <1>4, <1>5, <1>6, <1>7 DEF Next, Submit, Waiting

\* The steps of the auction in the relay: all but the mark.
AuctionSteps ==
    \/ \E h \in Handlers : Receive(h) \/ Submit(h)
    \/ PublishBulletinBoard
    \/ HeadEvent
    \/ TimePasses
    \/ Waiting

LEMMA AuctionStepsKeepMark ==
  AuctionSteps => Next /\ UNCHANGED delivered
  <1> SUFFICES ASSUME AuctionSteps
               PROVE  UNCHANGED delivered
    BY DEF AuctionSteps, Next
  <1>1. ASSUME NEW h \in Handlers, Receive(h) \/ Submit(h)
        PROVE  UNCHANGED delivered
    BY <1>1 DEF Receive, Submit, RefuseBuilder, CheckDelivered, CheckBlock,
                CheckLastBid, SetUtils, ExpireUtils, SetBid, ExpireBids,
                SetTime, ExpireTimes, SetValue, ExpireValues, ExpireKey,
                ReadValues, ReadTopBid, SetHighest, Publish, Record, boardVars
  <1>2. CASE PublishBulletinBoard \/ HeadEvent \/ TimePasses \/ Waiting
    BY <1>2 DEF PublishBulletinBoard, HeadEvent, TimePasses, Tick, Waiting,
                vars, boardVars
  <1> QED
    BY <1>1, <1>2 DEF AuctionSteps

-----------------------------------------------------------------------------
(* The relay implements the auction. *)

\* Every step of the proposers' handlers leaves the board alone, but for the
\* mark, which names the builder of an admitted submission.
LEMMA DeliverIsAuction ==
  ASSUME PayersHold, Deliver, UNCHANGED auctionVars
  PROVE  /\ UNCHANGED <<bids, times, values, utils, highest, lapsed>>
         /\ PutPayloadDelivered \/ UNCHANGED vars
  <1>1. ASSUME NEW g \in Getters, GetHeader(g) \/ Header(g)
        PROVE  UNCHANGED boardVars
    BY <1>1 DEF Header, GetHeader, ReadWinningBid, PutDeliveredHeader,
                RespondHeader
  <1>2. ASSUME NEW g \in Payers, MarkDelivered(g)
        PROVE  /\ UNCHANGED <<now, bids, times, values, utils, highest,
                              deadline, lapsed>>
               /\ PutPayloadDelivered \/ UNCHANGED boardVars
    <2>1. seller[g] \in admitted
      BY <1>2 DEF MarkDelivered, PayersHold
    <2> QED
      BY <1>2, <2>1 DEF MarkDelivered, PutPayloadDelivered, boardVars
  <1>3. ASSUME NEW g \in Payers,
               \/ GetPayload(g) \/ GetTestPayload(g) \/ ReadUtils(g)
               \/ PutReturnedBlock(g) \/ AskBuilder(g) \/ RespondPayload(g)
               \/ NotifyPayload(g) \/ SendDiscord(g)
               \/ PutDeliveredPayload(g) \/ FinishPayload(g)
        PROVE  UNCHANGED boardVars
    BY <1>3 DEF GetPayload, GetTestPayload, ReadUtils, PutReturnedBlock,
                AskBuilder, RespondPayload, NotifyPayload, SendDiscord,
                PutDeliveredPayload, FinishPayload
  <1>4. CASE HeaderNoticeSent \/ PayloadNoticeSent
    BY <1>4 DEF HeaderNoticeSent, PayloadNoticeSent, vars, boardVars
  <1>5. CASE UNCHANGED boardVars
    BY <1>5 DEF vars, boardVars
  <1> QED
    BY <1>1, <1>2, <1>3, <1>4, <1>5 DEF Deliver, Payload, vars, boardVars

LEMMA RelayNextIsNext ==
  PayersHold /\ [RelayNext]_relayVars => [Next]_vars
  <1> SUFFICES ASSUME PayersHold, [RelayNext]_relayVars
               PROVE  [Next]_vars
    OBVIOUS
  <1>1. CASE AuctionSteps
    BY <1>1, AuctionStepsKeepMark
  <1>2. CASE Deliver /\ UNCHANGED auctionVars
    BY <1>2, DeliverIsAuction DEF Next
  <1>3. CASE Restart
    BY <1>3 DEF Next
  <1>4. CASE UNCHANGED relayVars
    BY <1>4 DEF relayVars
  <1> QED
    BY <1>1, <1>2, <1>3, <1>4 DEF RelayNext, AuctionSteps

-----------------------------------------------------------------------------
(* The inductive invariant. *)

LEMMA InitRelay == RelayInit => RelayInductive
  <1> SUFFICES ASSUME RelayInit
               PROVE  RelayInductive
    OBVIOUS
  <1> USE DEF RelayInit
  <1>1. Typed
    BY InitTyped
  <1>2. CopiesAdmitted /\ CopiesServable /\ UtilsAdmitted
    BY DEF Init, BoardInit, CopiesAdmitted, CopiesServable, Saving,
           UtilsAdmitted
  <1>3. DeliveryTypeOK
    BY DEF DeliveryInit, DeliveryTypeOK
  <1>4. GettersHold /\ PayersHold
    BY DEF DeliveryInit, GettersHold, PayersHold
  <1>5. /\ OfferRedeemable /\ DeliveredWasAdmitted
        /\ AskedWasReturned /\ ServedWasAsked /\ OfferedWasRecorded
        /\ MarkNamesAskedBuilder
    BY DEF DeliveryInit, Init, BoardInit, OfferRedeemable,
           DeliveredWasAdmitted, AskedWasReturned, ServedWasAsked,
           OfferedWasRecorded, MarkNamesAskedBuilder
  <1> QED
    BY <1>1, <1>2, <1>3, <1>4, <1>5 DEF RelayInductive, RelayTypeOK, Typed

\* The part of the invariant that is about the auction.
AuctionPart == Typed /\ CopiesAdmitted /\ CopiesServable /\ UtilsAdmitted

\* The part about the proposers' handlers, their rows and their answers.
DeliveryPart ==
    /\ DeliveryTypeOK
    /\ GettersHold /\ PayersHold
    /\ OfferRedeemable /\ DeliveredWasAdmitted
    /\ AskedWasReturned /\ ServedWasAsked /\ OfferedWasRecorded
    /\ MarkNamesAskedBuilder

LEMMA NextAuctionPart ==
  AuctionPart /\ PayersHold /\ [RelayNext]_relayVars => AuctionPart'
  BY RelayNextIsNext, NextTyped, NextCopiesAdmitted, NextCopiesServable,
     NextUtils
     DEF AuctionPart

\* A step of the auction takes nothing away that the proposers' handlers or
\* the proposers themselves count on.
LEMMA AuctionKeepsDelivery ==
  ASSUME AuctionPart, DeliveryPart, AuctionSteps, UNCHANGED deliveryVars
  PROVE  DeliveryPart'
  <1>1. UNCHANGED delivered /\ Next
    BY AuctionStepsKeepMark
  <1>2. /\ admitted \subseteq admitted'
        /\ "utils" \notin lapsed' =>
              /\ "utils" \notin lapsed
              /\ \A k \in Blocks : utils[k] # None => utils'[k] # None
    BY <1>1, NextUtils DEF AuctionPart
  <1>3. (admitted' \cap Forged = {}) /\ admitted \subseteq Submissions
    BY <1>1, NextTyped, NextCopiesAdmitted
       DEF AuctionPart, CopiesAdmitted, Typed, TypeOK
  <1>4. \A s \in admitted : s.block \in Blocks
    BY <1>3, SubmissionFields
  <1>5. DeliveryTypeOK'
    BY DEF DeliveryPart, DeliveryTypeOK, deliveryVars, getterVars, payerVars
  <1>6. GettersHold'
    BY <1>2, <1>4
       DEF DeliveryPart, GettersHold, Redeemable, deliveryVars, getterVars
  <1>7. PayersHold'
    BY <1>2 DEF DeliveryPart, PayersHold, Question, Sent, deliveryVars,
                payerVars
  <1>8. OfferRedeemable'
    BY <1>2, <1>4
       DEF DeliveryPart, OfferRedeemable, DeliveredWasAdmitted, deliveryVars,
           getterVars
  <1>9. DeliveredWasAdmitted'
    BY <1>2, <1>3
       DEF DeliveryPart, DeliveredWasAdmitted, deliveryVars, getterVars,
           payerVars
  <1>10. AskedWasReturned' /\ ServedWasAsked' /\ OfferedWasRecorded'
    BY DEF DeliveryPart, AskedWasReturned, ServedWasAsked,
           OfferedWasRecorded, deliveryVars, getterVars, payerVars
  <1>11. MarkNamesAskedBuilder'
    BY <1>1 DEF DeliveryPart, MarkNamesAskedBuilder, deliveryVars, payerVars
  <1> QED
    BY <1>5, <1>6, <1>7, <1>8, <1>9, <1>10, <1>11 DEF DeliveryPart

\* The steps of handleProposerHeader.
LEMMA HeaderKeepsDelivery ==
  ASSUME AuctionPart, DeliveryPart, NEW g \in Getters,
         GetHeader(g) \/ Header(g), UNCHANGED auctionVars
  PROVE  DeliveryPart'
  <1> USE DEF DeliveryPart
  <1>0. UNCHANGED <<boardVars, payerVars, admitted>>
    BY DEF Header, GetHeader, ReadWinningBid, PutDeliveredHeader,
           RespondHeader, auctionVars
  <1>1. /\ PayersHold' /\ AskedWasReturned' /\ ServedWasAsked'
        /\ MarkNamesAskedBuilder'
    BY <1>0 DEF PayersHold, Question, Sent, AskedWasReturned, ServedWasAsked,
                MarkNamesAskedBuilder, payerVars, boardVars
  <1>2. CASE GetHeader(g)
    BY <1>0, <1>1, <1>2
       DEF GetHeader, DeliveryTypeOK, GettersHold, Redeemable,
           OfferRedeemable, DeliveredWasAdmitted, OfferedWasRecorded,
           boardVars, payerVars
  <1>3. CASE ReadWinningBid(g)
    <2>1. /\ UNCHANGED <<headerNotice, headerRows, gets, offers>>
          /\ faults' \in 0..MaxFaults
      BY <1>3 DEF ReadWinningBid, Fault, NoFault, DeliveryTypeOK
    <2>2. CASE GetterReturn(g)
      BY <1>0, <1>1, <2>1, <2>2
         DEF GetterReturn, DeliveryTypeOK, GettersHold, Redeemable,
             OfferRedeemable, DeliveredWasAdmitted, OfferedWasRecorded,
             boardVars, payerVars
    <2>3. CASE ~ GetterReturn(g)
      <3>1. /\ highest # None
            /\ gpc[g] = "winning"
            /\ gpc' = [gpc EXCEPT ![g] = "row"]
            /\ offer' = [offer EXCEPT ![g] = highest]
            /\ UNCHANGED asker
        BY <1>3, <2>3 DEF ReadWinningBid
      <3>2. highest \in admitted /\ highest \in Submissions
        BY <3>1 DEF AuctionPart, CopiesAdmitted, Typed, TypeOK, BoardTypeOK
      <3>3. Redeemable(highest)
        BY <3>1 DEF AuctionPart, CopiesServable, Redeemable
      <3> QED
        BY <1>0, <1>1, <2>1, <3>1, <3>2, <3>3
           DEF DeliveryTypeOK, GettersHold, Redeemable, OfferRedeemable,
               DeliveredWasAdmitted, OfferedWasRecorded, boardVars, payerVars
    <2> QED
      BY <2>2, <2>3
  <1>4. CASE PutDeliveredHeader(g)
    <2>1. /\ UNCHANGED <<headerNotice, gets, offers>>
          /\ faults' \in 0..MaxFaults
          /\ gpc[g] = "row"
      BY <1>4 DEF PutDeliveredHeader, Fault, NoFault, DeliveryTypeOK
    <2>2. CASE GetterReturn(g) /\ UNCHANGED headerRows
      BY <1>0, <1>1, <1>4, <2>1, <2>2
         DEF PutDeliveredHeader, GetterReturn, DeliveryTypeOK, GettersHold,
             Redeemable, OfferRedeemable, DeliveredWasAdmitted,
             OfferedWasRecorded, boardVars, payerVars
    <2>3. CASE /\ GetterGoto(g, "notice")
               /\ headerRows' = headerRows \cup
                    {HeaderRow(asker[g], offer[g], g \in Testers)}
      <3>1. asker[g] \in Proposers /\ offer[g] \in Submissions
        BY <2>1 DEF GettersHold, AuctionPart, Typed, TypeOK
      <3>2. HeaderRow(asker[g], offer[g], g \in Testers)
              \in [proposer : Proposers, block : Blocks \cup {None}]
        BY <3>1, SubmissionFields DEF HeaderRow
      <3> QED
        BY <1>0, <1>1, <1>4, <2>1, <2>3, <3>1, <3>2
           DEF PutDeliveredHeader, GetterGoto, DeliveryTypeOK, GettersHold,
               Redeemable, OfferRedeemable, DeliveredWasAdmitted,
               OfferedWasRecorded, boardVars, payerVars
    <2> QED
      BY <1>4, <2>2, <2>3 DEF PutDeliveredHeader
  <1>5. CASE RespondHeader(g)
    <2>1. /\ asker[g] \in Proposers /\ offer[g] \in admitted
          /\ Redeemable(offer[g])
          /\ HeaderRow(asker[g], offer[g], g \in Testers) \in headerRows
      BY <1>5 DEF RespondHeader, GettersHold
    <2>2. offer[g] \in Submissions /\ offer[g] \notin Forged
      BY <2>1 DEF AuctionPart, CopiesAdmitted, Typed, TypeOK
    <2>3. /\ GetterReturn(g)
          /\ headerNotice' = asker[g]
          /\ offers' \in {offers, offers \cup {Offered(g)}}
          /\ UNCHANGED <<faults, headerRows, gets>>
      BY <1>5 DEF RespondHeader
    <2>4. DeliveryTypeOK' /\ GettersHold'
      <3>1. Offered(g) \in [proposer : Proposers, bid : Submissions,
                            test : BOOLEAN]
        BY <2>1, <2>2 DEF Offered
      <3>2. offers' \subseteq [proposer : Proposers, bid : Submissions,
                               test : BOOLEAN]
        BY <2>3, <3>1 DEF DeliveryTypeOK
      <3>3. DeliveryTypeOK'
        BY <1>0, <2>1, <2>3, <3>2
           DEF GetterReturn, DeliveryTypeOK, payerVars
      <3>4. GettersHold'
        BY <1>0, <2>3
           DEF GetterReturn, GettersHold, Redeemable, DeliveryTypeOK,
               boardVars
      <3> QED
        BY <3>3, <3>4
    <2>5. OfferRedeemable' /\ DeliveredWasAdmitted' /\ OfferedWasRecorded'
      BY <1>0, <2>1, <2>2, <2>3
         DEF Redeemable, OfferRedeemable, DeliveredWasAdmitted,
             OfferedWasRecorded, Offered, boardVars, payerVars
    <2> QED
      BY <1>1, <2>4, <2>5
  <1> QED
    BY <1>2, <1>3, <1>4, <1>5 DEF Header

\* Over either route, the row of what a handler shows to a builder is that of
\* the proposer and the block it goes by.
LEMMA QuestionOnRecord ==
  ASSUME PayersHold, NEW g \in Payers, ppc[g] # "idle"
  PROVE  OnRecord(Question(g)) = [proposer |-> signer[g], block |-> block[g]]
  BY DEF PayersHold, OnRecord, Question, Sent

\* What is served or recorded as delivered, the handler has asked for before.
LEMMA PayloadKeepsServed ==
  ASSUME PayersHold, ServedWasAsked, NEW g \in Payers,
         GetPayload(g) \/ GetTestPayload(g) \/ Payload(g)
  PROVE  ServedWasAsked'
  <1> USE DEF ServedWasAsked
  <1>1. CASE FinishPayload(g)
    <2>1. Question(g) \in asked
      BY <1>1 DEF FinishPayload, PayersHold
    <2>2. /\ UNCHANGED <<asked, payloadRows>>
          /\ served' \subseteq served \cup {Sent(g)}
      BY <1>1 DEF FinishPayload
    <2>3. Sent(g) = [proposer |-> Question(g).proposer,
                     block |-> Question(g).block]
      BY DEF Question, Sent
    <2> QED
      BY <2>1, <2>2, <2>3
  <1>2. CASE PutDeliveredPayload(g)
    <2>1. Question(g) \in asked /\ Question(g).proposer = signer[g]
      BY <1>2 DEF PutDeliveredPayload, PayersHold, Question, Sent
    <2>2. /\ UNCHANGED <<asked, served>>
          /\ payloadRows' \subseteq payloadRows \cup
                 {[proposer |-> signer[g], block |-> payload[g]]}
      BY <1>2 DEF PutDeliveredPayload
    <2> QED
      BY <2>1, <2>2
  <1>3. CASE \/ GetPayload(g) \/ GetTestPayload(g) \/ ReadUtils(g)
             \/ PutReturnedBlock(g) \/ AskBuilder(g) \/ RespondPayload(g)
             \/ NotifyPayload(g) \/ SendDiscord(g) \/ MarkDelivered(g)
    <2>1. asked \subseteq asked' /\ UNCHANGED <<served, payloadRows>>
      BY <1>3 DEF GetPayload, GetTestPayload, ReadUtils, PutReturnedBlock,
                  AskBuilder, RespondPayload, NotifyPayload, SendDiscord,
                  MarkDelivered
    <2> QED
      BY <2>1
  <1> QED
    BY <1>1, <1>2, <1>3 DEF Payload

\* The steps of handleProposerPayload and handleProposerTestPayload.
LEMMA PayloadKeepsDelivery ==
  ASSUME AuctionPart, DeliveryPart, NEW g \in Payers,
         GetPayload(g) \/ GetTestPayload(g) \/ Payload(g),
         UNCHANGED auctionVars
  PROVE  DeliveryPart'
  <1> USE DEF DeliveryPart
  <1>0. /\ UNCHANGED <<getterVars, admitted, utils, lapsed>>
        /\ faults' \in 0..MaxFaults
    <2>1. PayersHold /\ Deliver
      BY DEF Deliver
    <2>2. UNCHANGED <<utils, lapsed>>
      BY <2>1, DeliverIsAuction
    <2> QED
      BY <2>2
         DEF Payload, GetPayload, GetTestPayload, ReadUtils, PutReturnedBlock,
             AskBuilder, RespondPayload, NotifyPayload, SendDiscord,
             MarkDelivered, PutDeliveredPayload, FinishPayload, Fault,
             NoFault, auctionVars, DeliveryTypeOK
  <1>1. GettersHold' /\ OfferRedeemable' /\ OfferedWasRecorded'
        /\ ServedWasAsked'
    BY <1>0, PayloadKeepsServed
       DEF GettersHold, Redeemable, OfferRedeemable, OfferedWasRecorded,
           getterVars
  <1>2. \A o \in offers' : o.bid \in admitted' \ Forged
    BY <1>0 DEF DeliveredWasAdmitted, getterVars
  <1>3. admitted \subseteq Submissions
    BY DEF AuctionPart, Typed, TypeOK
  <1>4. ASSUME UNCHANGED <<asked, returnedRows, delivered>>
        PROVE  AskedWasReturned' /\ MarkNamesAskedBuilder'
               /\ DeliveredWasAdmitted'
    BY <1>0, <1>2, <1>4
       DEF AskedWasReturned, MarkNamesAskedBuilder, DeliveredWasAdmitted
  <1> USE DEF DeliveryTypeOK, PayersHold, getterVars, Question, Sent
  <1>5. CASE GetPayload(g) \/ GetTestPayload(g)
    <2>1. PICK p \in Proposers, k \in Blocks :
            /\ ppc' = [ppc EXCEPT ![g] = "utils"]
            /\ signer' = [signer EXCEPT ![g] = p]
            /\ block' = [block EXCEPT ![g] = k]
            /\ g \in Testers => p = TestProposer /\ k = TestBlock
      BY <1>5, DeliveryAssumption DEF GetPayload, GetTestPayload
    <2>2. /\ UNCHANGED <<payloadNotice, returnedRows, payloadRows, asked,
                         served, delivered, seller, payload, written>>
          /\ pays' \in 0..MaxGets
          /\ ppc[g] = "idle"
      BY <1>5 DEF GetPayload, GetTestPayload, boardVars
    <2>3. DeliveryTypeOK'
      BY <1>0, <2>1, <2>2
    <2>4. PayersHold'
      BY <1>0, <2>1, <2>2
    <2> QED
      BY <1>1, <1>4, <2>2, <2>3, <2>4
  <1>6. ASSUME PayerReturn(g),
               UNCHANGED <<payloadNotice, returnedRows, pays, asked,
                           payloadRows, delivered>>,
               served' \subseteq [proposer : Proposers \cup {None},
                                  block : Blocks \cup {None}]
        PROVE  DeliveryPart'
    BY <1>0, <1>1, <1>4, <1>6 DEF PayerReturn
  <1>7. CASE ReadUtils(g)
    <2>1. utils[block[g]] # None =>
              /\ utils[block[g]] \in admitted
              /\ utils[block[g]].block = block[g]
      BY <1>7 DEF ReadUtils, AuctionPart, UtilsAdmitted
    <2>2. CASE PayerReturn(g)
      BY <1>6, <1>7, <2>2 DEF ReadUtils, boardVars
    <2>3. CASE ~ PayerReturn(g)
      <3>1. /\ utils[block[g]] # None
            /\ ppc[g] = "utils"
            /\ ppc' = [ppc EXCEPT ![g] = "row"]
            /\ seller' = [seller EXCEPT ![g] = utils[block[g]]]
            /\ UNCHANGED <<signer, block, payload, written, payloadNotice,
                           returnedRows, payloadRows, pays, asked, served,
                           delivered>>
        BY <1>7, <2>3 DEF ReadUtils, boardVars
      <3>2. DeliveryTypeOK'
        BY <1>0, <1>3, <2>1, <3>1
      <3>3. PayersHold'
        BY <1>0, <2>1, <3>1
      <3> QED
        BY <1>1, <1>4, <3>1, <3>2, <3>3
    <2> QED
      BY <2>2, <2>3
  <1>8. CASE PutReturnedBlock(g)
    <2>1. CASE PayerReturn(g) /\ UNCHANGED returnedRows
      BY <1>6, <1>8, <2>1 DEF PutReturnedBlock, boardVars
    <2>2. CASE /\ PayerGoto(g, "builder")
               /\ returnedRows' = returnedRows \cup
                    {[proposer |-> signer[g], block |-> block[g]]}
      <3>1. /\ UNCHANGED <<payloadNotice, payloadRows, pays, asked, served>>
            /\ UNCHANGED delivered
            /\ ppc[g] = "row"
        BY <1>8 DEF PutReturnedBlock, boardVars
      <3>2. AskedWasReturned' /\ MarkNamesAskedBuilder'
            /\ DeliveredWasAdmitted'
        BY <1>0, <1>2, <2>2, <3>1
           DEF AskedWasReturned, MarkNamesAskedBuilder, DeliveredWasAdmitted
      <3>3. signer[g] \in Proposers /\ block[g] \in Blocks
        BY <3>1
      <3>4. returnedRows' \subseteq [proposer : Proposers, block : Blocks]
        BY <2>2, <3>3
      <3>5. DeliveryTypeOK'
        BY <1>0, <2>2, <3>1, <3>4 DEF PayerGoto
      <3>6. PayersHold'
        BY <1>0, <2>2, <3>1 DEF PayerGoto
      <3> QED
        BY <1>1, <3>2, <3>5, <3>6
    <2> QED
      BY <1>8, <2>1, <2>2 DEF PutReturnedBlock
  <1>9. CASE AskBuilder(g)
    <2>1. /\ asked' = asked \cup {Question(g)}
          /\ UNCHANGED <<payloadNotice, returnedRows, payloadRows, pays,
                         served, delivered>>
          /\ ppc[g] = "builder"
      BY <1>9 DEF AskBuilder, boardVars
    <2>2. /\ signer[g] \in Proposers /\ block[g] \in Blocks
          /\ seller[g] \in admitted /\ seller[g].block = block[g]
          /\ [proposer |-> signer[g], block |-> block[g]] \in returnedRows
      BY <2>1
    <2>3. seller[g].builder \in Builders
      BY <1>3, <2>2, SubmissionFields
    <2>4. AskedWasReturned' /\ MarkNamesAskedBuilder' /\ DeliveredWasAdmitted'
      <3>1. /\ OnRecord(Question(g)) \in returnedRows
            /\ OnRecord(Question(g)).block = seller[g].block
            /\ Question(g).builder = seller[g].builder
        BY <2>1, <2>2, QuestionOnRecord
      <3> QED
        BY <1>0, <1>2, <2>1, <2>2, <3>1
           DEF AskedWasReturned, MarkNamesAskedBuilder, DeliveredWasAdmitted
    <2>5. asked' \subseteq [proposer : Proposers \cup {None},
                            block : Blocks \cup {None}, builder : Builders]
      BY <2>1, <2>2, <2>3
    <2>6. CASE PayerReturn(g)
      BY <1>0, <1>1, <2>1, <2>4, <2>5, <2>6 DEF PayerReturn
    <2>7. ASSUME NEW k \in Blocks,
                 payload' = [payload EXCEPT ![g] = k],
                 ppc' = [ppc EXCEPT ![g] = "respond"],
                 UNCHANGED <<signer, block, seller, written>>
          PROVE  DeliveryPart'
      BY <1>0, <1>1, <2>1, <2>2, <2>4, <2>5, <2>7
    <2>8. CASE g \in Testers /\ PayerGoto(g, "notice")
      BY <1>0, <1>1, <2>1, <2>2, <2>4, <2>5, <2>8 DEF PayerGoto
    <2> QED
      BY <1>9, <2>6, <2>7, <2>8 DEF AskBuilder
  <1>10. CASE RespondPayload(g)
    <2>1. PICK l \in {"mark", "notice", "discord"} :
            /\ ppc' = [ppc EXCEPT ![g] = l]
            /\ g \in Testers => l = "mark"
            /\ g \notin Testers => l # "mark"
      BY <1>10 DEF RespondPayload, PayerGoto
    <2>2. /\ written' \in {written, [written EXCEPT ![g] = TRUE]}
          /\ UNCHANGED <<signer, block, seller, payload, payloadNotice,
                         returnedRows, payloadRows, pays, asked, served,
                         delivered>>
          /\ ppc[g] = "respond"
      BY <1>10 DEF RespondPayload, PayerGoto, boardVars
    <2>3. DeliveryTypeOK'
      BY <1>0, <2>1, <2>2
    <2>4. PayersHold'
      BY <1>0, <2>1, <2>2
    <2> QED
      BY <1>1, <1>4, <2>2, <2>3, <2>4
  <1>11. CASE NotifyPayload(g) \/ SendDiscord(g)
    BY <1>0, <1>1, <1>4, <1>11
       DEF NotifyPayload, SendDiscord, PayerGoto, boardVars
  <1>12. CASE MarkDelivered(g)
    <2>1. /\ PayerGoto(g, "finish") \/ PayerGoto(g, "payloadRow")
          /\ g \in Testers => PayerGoto(g, "finish")
          /\ delivered' \in {delivered, seller[g].builder}
          /\ UNCHANGED <<payloadNotice, returnedRows, payloadRows, pays,
                         asked, served>>
          /\ ppc[g] = "mark"
      BY <1>12 DEF MarkDelivered, AfterMark
    <2>2. Question(g) \in asked /\ Question(g).builder = seller[g].builder
      BY <2>1
    <2>3. MarkNamesAskedBuilder'
      BY <2>1, <2>2 DEF MarkNamesAskedBuilder
    <2>4. AskedWasReturned' /\ DeliveredWasAdmitted'
      BY <1>0, <1>2, <2>1 DEF AskedWasReturned, DeliveredWasAdmitted
    <2> QED
      BY <1>0, <1>1, <2>1, <2>3, <2>4 DEF PayerGoto
  <1>13. CASE PutDeliveredPayload(g)
    <2>1. signer[g] \in Proposers /\ payload[g] \in Blocks
      BY <1>13 DEF PutDeliveredPayload
    <2>2. payloadRows' \in {payloadRows, payloadRows \cup
              {[proposer |-> signer[g], block |-> payload[g]]}}
      BY <1>13 DEF PutDeliveredPayload
    <2>3. payloadRows' \subseteq [proposer : Proposers, block : Blocks]
      BY <2>1, <2>2
    <2> QED
      BY <1>0, <1>1, <1>4, <1>13, <2>3
         DEF PutDeliveredPayload, PayerGoto, boardVars
  <1>14. CASE FinishPayload(g)
    <2>1. signer[g] \in Proposers /\ block[g] \in Blocks
      BY <1>14 DEF FinishPayload
    <2>2. Sent(g) \in [proposer : Proposers \cup {None},
                       block : Blocks \cup {None}]
      BY <2>1
    <2>3. served' \in {served, served \cup {Sent(g)}}
      BY <1>14 DEF FinishPayload
    <2>4. served' \subseteq [proposer : Proposers \cup {None},
                             block : Blocks \cup {None}]
      BY <2>2, <2>3
    <2> QED
      BY <1>6, <1>14, <2>4 DEF FinishPayload, boardVars
  <1> QED
    BY <1>5, <1>7, <1>8, <1>9, <1>10, <1>11, <1>12, <1>13, <1>14 DEF Payload

\* A restart leaves the rows, the answers and who was admitted.
LEMMA RestartKeepsDelivery ==
  ASSUME AuctionPart, DeliveryPart, Restart, DeliveryRestart
  PROVE  DeliveryPart'
  <1> USE DEF DeliveryPart, DeliveryRestart
  <1>1. delivered' = None /\ "utils" \in lapsed' /\ admitted' = admitted
    BY DEF Restart, Keys
  <1>2. DeliveryTypeOK'
    BY DEF DeliveryTypeOK
  <1>3. GettersHold' /\ PayersHold'
    BY DEF GettersHold, PayersHold
  <1>4. OfferRedeemable' /\ DeliveredWasAdmitted'
    BY <1>1 DEF OfferRedeemable, DeliveredWasAdmitted
  <1>5. /\ AskedWasReturned' /\ ServedWasAsked' /\ OfferedWasRecorded'
        /\ MarkNamesAskedBuilder'
    BY <1>1 DEF AskedWasReturned, ServedWasAsked, OfferedWasRecorded,
                MarkNamesAskedBuilder
  <1> QED
    BY <1>2, <1>3, <1>4, <1>5

LEMMA NextDeliveryPart ==
  AuctionPart /\ DeliveryPart /\ [RelayNext]_relayVars => DeliveryPart'
  <1> SUFFICES ASSUME AuctionPart, DeliveryPart, [RelayNext]_relayVars
               PROVE  DeliveryPart'
    OBVIOUS
  <1>1. CASE AuctionSteps /\ UNCHANGED deliveryVars
    BY <1>1, AuctionKeepsDelivery
  <1>2. CASE Deliver /\ UNCHANGED auctionVars
    <2>1. ASSUME NEW g \in Getters, GetHeader(g) \/ Header(g)
          PROVE  DeliveryPart'
      BY <1>2, <2>1, HeaderKeepsDelivery
    <2>2. ASSUME NEW g \in Payers,
                 GetPayload(g) \/ GetTestPayload(g) \/ Payload(g)
          PROVE  DeliveryPart'
      BY <1>2, <2>2, PayloadKeepsDelivery
    <2>3. CASE HeaderNoticeSent \/ PayloadNoticeSent
      BY <1>2, <2>3
         DEF HeaderNoticeSent, PayloadNoticeSent, DeliveryPart,
             DeliveryTypeOK, GettersHold, PayersHold, Question, Sent,
             Redeemable, OfferRedeemable, DeliveredWasAdmitted,
             AskedWasReturned, ServedWasAsked, OfferedWasRecorded,
             MarkNamesAskedBuilder, boardVars, getterVars, payerVars,
             auctionVars
    <2> QED
      BY <1>2, <2>1, <2>2, <2>3 DEF Deliver
  <1>3. CASE Restart /\ DeliveryRestart
    BY <1>3, RestartKeepsDelivery
  <1>4. CASE UNCHANGED relayVars
    BY <1>4 DEF relayVars, vars, boardVars, auctionVars, deliveryVars,
                DeliveryPart, DeliveryTypeOK, GettersHold, PayersHold,
                Question, Sent, Redeemable, OfferRedeemable,
                DeliveredWasAdmitted, AskedWasReturned, ServedWasAsked,
                OfferedWasRecorded, MarkNamesAskedBuilder, getterVars,
                payerVars
  <1> QED
    BY <1>1, <1>2, <1>3, <1>4 DEF RelayNext, AuctionSteps

\* With any number of handlers of each kind, of builders and of proposers, any
\* number of failing calls and restarts: all that follows rests on this.
THEOREM RelayIsInductive == RelaySpec => []RelayInductive
  <1>1. RelayInit => RelayInductive
    BY InitRelay
  <1>2. RelayInductive /\ [RelayNext]_relayVars => RelayInductive'
    BY NextAuctionPart, NextDeliveryPart
       DEF RelayInductive, RelayTypeOK, AuctionPart, DeliveryPart, Typed
  <1> QED
    BY <1>1, <1>2, PTL DEF RelaySpec

\* The variables of the relay keep their types.
THEOREM RelayTypeCorrect == RelaySpec => []RelayTypeOK
  <1>1. RelayInductive => RelayTypeOK
    BY DEF RelayInductive
  <1> QED
    BY <1>1, RelayIsInductive, PTL

\* Relay refines Auction: the handlers of the proposers do to the board only
\* what Auction lets its surroundings do.
THEOREM RelayImplementsAuction == RelaySpec => ImplementsAuction
  <1>1. RelayInit => Init
    BY DEF RelayInit
  <1>2. RelayInductive /\ [RelayNext]_relayVars => [Next]_vars
    BY RelayNextIsNext DEF RelayInductive
  <1> QED
    BY <1>1, <1>2, RelayIsInductive, PTL DEF RelaySpec, ImplementsAuction, Spec

\* So it keeps the promise of WinningBid, with everything that goes on around
\* the auction.
THEOREM RelayKeepsPromise == RelaySpec => KeepsPromise
  BY RelayImplementsAuction, AuctionKeepsPromise, PTL DEF ImplementsAuction

\* While submissions take turns, the auction of the whole relay finds the
\* greatest bid, shows what the proposer will get and writes no bid over a
\* later one, however the requests of the proposers come in between.
THEOREM RelayTakesTurns ==
  /\ RelaySpec => TurnsPickMax
  /\ RelaySpec => TurnsShowHighest
  /\ RelaySpec /\ []OneAtATime(Checked) /\ [](failures = 0) => LatestBidKept
  BY RelayImplementsAuction, MutexPicksMax, MutexShowsHighest,
     MutexKeepsLatest, PTL
     DEF ImplementsAuction

\* With one handler of submissions they do.
THEOREM SerialRelay ==
  ASSUME NEW h, Handlers = {h}
  PROVE  RelaySpec => [](HighestIsMax /\ ShownIsHighest)
  BY RelayImplementsAuction, SerialHighestIsMax, SerialShownIsHighest, PTL
     DEF ImplementsAuction

\* A header answered with 200 can be redeemed until the utilities time out.
THEOREM OffersAreRedeemable == RelaySpec => []OfferRedeemable
  <1>1. RelayInductive => OfferRedeemable
    BY DEF RelayInductive
  <1> QED
    BY <1>1, RelayIsInductive, PTL

\* What proposers are offered, and what builders are asked for, was submitted
\* and let into the auction.
THEOREM DeliveriesWereAdmitted == RelaySpec => []DeliveredWasAdmitted
  <1>1. RelayInductive => DeliveredWasAdmitted
    BY DEF RelayInductive
  <1> QED
    BY <1>1, RelayIsInductive, PTL

\* A signed block is on record before a builder sees it, and so is the entry
\* that stands for whatever comes over the test route.
THEOREM EvidenceComesFirst == RelaySpec => []AskedWasReturned
  <1>1. RelayInductive => AskedWasReturned
    BY DEF RelayInductive
  <1> QED
    BY <1>1, RelayIsInductive, PTL

\* A payload goes out, and is recorded as delivered, only for a block that a
\* builder was shown (a signed one, but over the test route).
THEOREM ServedWereAsked == RelaySpec => []ServedWasAsked
  <1>1. RelayInductive => ServedWasAsked
    BY DEF RelayInductive
  <1> QED
    BY <1>1, RelayIsInductive, PTL

\* Every header answered with 200 has a row, written before: over the route of
\* the proposers one that names the proposer and the block, over the test route
\* one that names the proposer and leaves the block out.
THEOREM OffersAreRecorded == RelaySpec => []OfferedWasRecorded
  <1>1. RelayInductive => OfferedWasRecorded
    BY DEF RelayInductive
  <1> QED
    BY <1>1, RelayIsInductive, PTL

\* The delivered mark, which closes the slot, names a builder that was asked.
THEOREM MarksAreOfAsked == RelaySpec => []MarkNamesAskedBuilder
  <1>1. RelayInductive => MarkNamesAskedBuilder
    BY DEF RelayInductive
  <1> QED
    BY <1>1, RelayIsInductive, PTL

-----------------------------------------------------------------------------
(* The relay keeps the promise of Trade. *)

\* The auction lets submissions enter, and does nothing else to the trade.
LEMMA AuctionTrades ==
  ASSUME AuctionPart, AuctionSteps, UNCHANGED deliveryVars
  PROVE  Traded!Proceed \/ UNCHANGED Traded!traded
  <1> DEFINE others == <<headerRows, offers, returnedRows, asked, served,
                         payloadRows, delivered>>
  <1>0. UNCHANGED others
    BY AuctionStepsKeepMark DEF deliveryVars, getterVars, payerVars
  <1>1. ASSUME UNCHANGED admitted
        PROVE  UNCHANGED Traded!traded
    BY <1>0, <1>1 DEF Traded!traded
  <1>2. ASSUME NEW h \in Handlers, CheckLastBid(h)
        PROVE  Traded!Proceed \/ UNCHANGED Traded!traded
    <2>1. CASE UNCHANGED admitted
      BY <1>1, <2>1
    <2>2. CASE admitted' = admitted \cup {sub[h]}
      <3>1. sub[h] \in Submissions /\ sub[h] \notin Forged
        BY <1>2 DEF CheckLastBid, AuctionPart, Typed, Carried, CopiesAdmitted
      <3>2. Traded!Enter(sub[h])
        BY <1>0, <2>2, <3>1 DEF Traded!Enter
      <3> QED
        BY <3>1, <3>2 DEF Traded!Proceed
    <2> QED
      BY <1>2, <2>1, <2>2 DEF CheckLastBid
  <1>3. ASSUME NEW h \in Handlers,
               \/ Receive(h) \/ RefuseBuilder(h) \/ CheckDelivered(h)
               \/ CheckBlock(h) \/ SetUtils(h) \/ ExpireUtils(h) \/ SetBid(h)
               \/ ExpireBids(h) \/ SetTime(h) \/ ExpireTimes(h)
               \/ SetValue(h) \/ ExpireValues(h) \/ ReadValues(h)
               \/ ReadTopBid(h) \/ SetHighest(h) \/ Publish(h) \/ Record(h)
        PROVE  UNCHANGED admitted
    BY <1>3 DEF Receive, RefuseBuilder, CheckDelivered, CheckBlock, SetUtils,
                ExpireUtils, SetBid, ExpireBids, SetTime, ExpireTimes,
                SetValue, ExpireValues, ExpireKey, ReadValues, ReadTopBid,
                SetHighest, Publish, Record
  <1>4. CASE PublishBulletinBoard \/ HeadEvent \/ TimePasses \/ Waiting
    <2>1. UNCHANGED admitted
      BY <1>4 DEF PublishBulletinBoard, HeadEvent, TimePasses, Waiting, vars,
                  auctionVars
    <2> QED
      BY <1>1, <2>1
  <1> QED
    BY <1>1, <1>2, <1>3, <1>4 DEF AuctionSteps, Submit

\* The header handler records a header, or offers what it has recorded.
LEMMA HeaderTrades ==
  ASSUME AuctionPart, DeliveryPart, NEW g \in Getters,
         GetHeader(g) \/ Header(g), UNCHANGED auctionVars
  PROVE  Traded!Proceed \/ UNCHANGED Traded!traded
  <1>0. UNCHANGED <<admitted, returnedRows, asked, served, payloadRows,
                    delivered>>
    BY DEF Header, GetHeader, ReadWinningBid, PutDeliveredHeader,
           RespondHeader, auctionVars, boardVars, payerVars
  <1>1. ASSUME UNCHANGED <<headerRows, offers>>
        PROVE  UNCHANGED Traded!traded
    BY <1>0, <1>1 DEF Traded!traded
  <1>2. ASSUME gpc[g] \in {"row", "notice"}
        PROVE  /\ asker[g] \in Proposers
               /\ offer[g] \in admitted /\ offer[g] \in Submissions
    BY <1>2 DEF DeliveryPart, GettersHold, AuctionPart, Typed, TypeOK
  <1>3. CASE GetHeader(g) \/ ReadWinningBid(g)
    BY <1>1, <1>3 DEF GetHeader, ReadWinningBid
  <1>4. CASE PutDeliveredHeader(g)
    <2>1. gpc[g] = "row" /\ UNCHANGED offers
      BY <1>4 DEF PutDeliveredHeader
    <2>2. CASE UNCHANGED headerRows
      BY <1>1, <2>1, <2>2
    <2>3. CASE headerRows' = headerRows \cup
                 {HeaderRow(asker[g], offer[g], g \in Testers)}
      <3>1. Traded!RecordHeader(asker[g], offer[g], g \in Testers)
        BY <1>0, <1>2, <2>1, <2>3
           DEF Traded!RecordHeader, Traded!HeaderEntry, Traded!Entry,
               HeaderRow
      <3>2. (g \in Testers) \in BOOLEAN
        OBVIOUS
      <3> QED
        BY <1>2, <2>1, <3>1, <3>2 DEF Traded!Proceed
    <2> QED
      BY <1>4, <2>2, <2>3 DEF PutDeliveredHeader
  <1>5. CASE RespondHeader(g)
    <2>1. /\ UNCHANGED headerRows
          /\ HeaderRow(asker[g], offer[g], g \in Testers) \in headerRows
          /\ gpc[g] = "notice"
      BY <1>5 DEF RespondHeader, DeliveryPart, GettersHold
    <2>2. CASE UNCHANGED offers
      BY <1>1, <2>1, <2>2
    <2>3. CASE offers # offers'
      <3>1. /\ offer[g].proposer = asker[g]
            /\ offers' = offers \cup {Offered(g)}
        BY <1>5, <2>3 DEF RespondHeader
      <3>2. Traded!Offer(asker[g], offer[g], g \in Testers)
        BY <1>0, <1>2, <2>1, <3>1
           DEF Traded!Offer, Traded!HeaderEntry, Traded!Entry, HeaderRow,
               Offered
      <3>3. (g \in Testers) \in BOOLEAN
        OBVIOUS
      <3> QED
        BY <1>2, <2>1, <3>2, <3>3 DEF Traded!Proceed
    <2> QED
      BY <2>2, <2>3
  <1> QED
    BY <1>3, <1>4, <1>5 DEF Header

\* The payload handler records the signed block, asks the builder, marks it,
\* records the payload and completes its answer.
LEMMA PayloadTrades ==
  ASSUME AuctionPart, DeliveryPart, NEW g \in Payers,
         GetPayload(g) \/ GetTestPayload(g) \/ Payload(g),
         UNCHANGED auctionVars
  PROVE  Traded!Proceed \/ UNCHANGED Traded!traded
  <1>0. UNCHANGED <<admitted, headerRows, offers>>
    BY DEF Payload, GetPayload, GetTestPayload, ReadUtils, PutReturnedBlock,
           AskBuilder, RespondPayload, NotifyPayload, SendDiscord,
           MarkDelivered, PutDeliveredPayload, FinishPayload, auctionVars,
           getterVars
  <1>1. ASSUME UNCHANGED <<returnedRows, asked, served, payloadRows,
                           delivered>>
        PROVE  UNCHANGED Traded!traded
    BY <1>0, <1>1 DEF Traded!traded
  <1>2. CASE \/ GetPayload(g) \/ GetTestPayload(g) \/ ReadUtils(g)
             \/ RespondPayload(g) \/ NotifyPayload(g) \/ SendDiscord(g)
    BY <1>1, <1>2 DEF GetPayload, GetTestPayload, ReadUtils, RespondPayload,
                      NotifyPayload, SendDiscord, boardVars
  <1>3. CASE PutReturnedBlock(g) \/ AskBuilder(g)
    <2>1. /\ signer[g] \in Proposers
          /\ seller[g] \in admitted /\ seller[g].block = block[g]
          /\ ppc[g] = "builder" =>
                [proposer |-> signer[g], block |-> block[g]] \in returnedRows
          /\ g \in Testers =>
                signer[g] = TestProposer /\ block[g] = TestBlock
      BY <1>3 DEF PutReturnedBlock, AskBuilder, DeliveryPart, PayersHold
    <2>2. seller[g] \in Submissions
      BY <2>1 DEF AuctionPart, Typed, TypeOK
    <2>3. UNCHANGED <<served, payloadRows, delivered>>
      BY <1>3 DEF PutReturnedBlock, AskBuilder, boardVars
    <2>4. CASE PutReturnedBlock(g)
      <3>1. UNCHANGED asked
        BY <2>4 DEF PutReturnedBlock
      <3>2. CASE UNCHANGED returnedRows
        BY <1>1, <2>3, <3>1, <3>2
      <3>3. CASE returnedRows' = returnedRows \cup
                   {[proposer |-> signer[g], block |-> block[g]]}
        <4>1. Traded!RecordSigned(signer[g], seller[g])
          BY <1>0, <2>1, <2>3, <3>1, <3>3
             DEF Traded!RecordSigned, Traded!Entry
        <4> QED
          BY <2>1, <2>2, <4>1 DEF Traded!Proceed
      <3> QED
        BY <2>4, <3>2, <3>3 DEF PutReturnedBlock
    <2>5. CASE AskBuilder(g)
      <3>1. /\ asked' = asked \cup {Question(g)}
            /\ UNCHANGED returnedRows /\ ppc[g] = "builder"
        BY <2>5 DEF AskBuilder
      <3>2. CASE g \notin Testers
        <4>1. Traded!Ask(signer[g], seller[g])
          BY <1>0, <2>1, <2>3, <3>1, <3>2
             DEF Traded!Ask, Traded!Entry, Question, Sent
        <4> QED
          BY <2>1, <4>1 DEF Traded!Proceed
      <3>3. CASE g \in Testers
        <4>1. Traded!AskTest(seller[g])
          BY <1>0, <2>1, <2>3, <3>1, <3>3
             DEF Traded!AskTest, Traded!Entry, Question, Sent
        <4> QED
          BY <2>1, <4>1 DEF Traded!Proceed
      <3> QED
        BY <3>2, <3>3
    <2> QED
      BY <1>3, <2>4, <2>5
  <1>4. CASE MarkDelivered(g) \/ PutDeliveredPayload(g) \/ FinishPayload(g)
    <2>1. /\ Question(g) \in asked
          /\ ppc[g] = "payloadRow" => g \notin Testers /\ payload[g] \in Blocks
      BY <1>4 DEF MarkDelivered, PutDeliveredPayload, FinishPayload,
                  DeliveryPart, PayersHold
    <2>2. UNCHANGED <<returnedRows, asked>>
      BY <1>4 DEF MarkDelivered, PutDeliveredPayload, FinishPayload
    <2>3. CASE FinishPayload(g)
      <3>1. /\ UNCHANGED <<payloadRows, delivered>>
            /\ served' \in {served, served \cup {Sent(g)}}
        BY <2>3 DEF FinishPayload, boardVars
      <3>2. CASE UNCHANGED served
        BY <1>1, <2>2, <3>1, <3>2
      <3>3. CASE served # served'
        <4>1. Traded!Answer(Question(g))
          BY <1>0, <2>1, <2>2, <3>1, <3>3
             DEF Traded!Answer, Traded!Entry, Question, Sent
        <4> QED
          BY <2>1, <4>1 DEF Traded!Proceed
      <3> QED
        BY <3>2, <3>3
    <2>4. CASE MarkDelivered(g)
      <3>1. /\ UNCHANGED <<payloadRows, served>>
            /\ delivered' \in {delivered, seller[g].builder}
        BY <2>4 DEF MarkDelivered
      <3>2. CASE UNCHANGED delivered
        BY <1>1, <2>2, <3>1, <3>2
      <3>3. CASE delivered' = seller[g].builder
        <4>1. Traded!Mark(Question(g))
          BY <1>0, <2>1, <2>2, <3>1, <3>3 DEF Traded!Mark, Question
        <4> QED
          BY <2>1, <4>1 DEF Traded!Proceed
      <3> QED
        BY <3>1, <3>2, <3>3
    <2>5. CASE PutDeliveredPayload(g)
      <3>1. /\ UNCHANGED <<served, delivered>> /\ ppc[g] = "payloadRow"
            /\ payloadRows' \in {payloadRows, payloadRows \cup
                   {[proposer |-> signer[g], block |-> payload[g]]}}
        BY <2>5 DEF PutDeliveredPayload, boardVars
      <3>2. CASE UNCHANGED payloadRows
        BY <1>1, <2>2, <3>1, <3>2
      <3>3. CASE payloadRows # payloadRows'
        <4>1. Traded!RecordPayload(Question(g), payload[g])
          BY <1>0, <2>1, <2>2, <3>1, <3>3
             DEF Traded!RecordPayload, Traded!Entry, Question, Sent
        <4> QED
          BY <2>1, <3>1, <4>1 DEF Traded!Proceed
      <3> QED
        BY <3>2, <3>3
    <2> QED
      BY <1>4, <2>3, <2>4, <2>5
  <1> QED
    BY <1>2, <1>3, <1>4 DEF Payload

LEMMA NextTrades ==
  RelayInductive /\ [RelayNext]_relayVars => [Traded!Proceed]_Traded!traded
  <1> SUFFICES ASSUME RelayInductive, [RelayNext]_relayVars
               PROVE  Traded!Proceed \/ UNCHANGED Traded!traded
    OBVIOUS
  <1>0. AuctionPart /\ DeliveryPart
    BY DEF RelayInductive, RelayTypeOK, AuctionPart, DeliveryPart, Typed
  <1>1. CASE AuctionSteps /\ UNCHANGED deliveryVars
    BY <1>0, <1>1, AuctionTrades
  <1>2. CASE Deliver /\ UNCHANGED auctionVars
    <2>1. CASE HeaderNoticeSent \/ PayloadNoticeSent
      BY <1>2, <2>1
         DEF HeaderNoticeSent, PayloadNoticeSent, Traded!traded, boardVars,
             getterVars, payerVars, auctionVars
    <2> QED
      BY <1>0, <1>2, <2>1, HeaderTrades, PayloadTrades DEF Deliver
  <1>3. CASE Restart /\ DeliveryRestart
    <2>1. Traded!Forget
      BY <1>3 DEF Restart, DeliveryRestart, Traded!Forget
    <2> QED
      BY <2>1 DEF Traded!Proceed
  <1>4. CASE UNCHANGED relayVars
    BY <1>4 DEF relayVars, vars, boardVars, auctionVars, deliveryVars,
                getterVars, payerVars, Traded!traded
  <1> QED
    BY <1>1, <1>2, <1>3, <1>4 DEF RelayNext, AuctionSteps

\* The relay refines Trade: for any number of proposers, builders and handlers
\* of each kind, with failing calls and restarts, the trade goes in the order
\* record, offer, record, ask, answer, mark, and keeps what it recorded.
THEOREM RelayTradesFairly == RelaySpec => TradesFairly
  <1>1. RelayInit => Traded!Open
    BY DEF RelayInit, Init, BoardInit, DeliveryInit, Traded!Open
  <1> QED
    BY <1>1, NextTrades, RelayIsInductive, PTL
       DEF RelaySpec, TradesFairly, Traded!Promise

\* What holds of every trade that Trade allows: its records are complete.
Traceable ==
    /\ \A o \in offers :
          /\ o.bid \in admitted \ Forged
          /\ o.bid.proposer = o.proposer
          /\ HeaderRow(o.proposer, o.bid, o.test) \in headerRows
    /\ \A a \in asked :
          /\ OnRecord(a) \in returnedRows
          /\ \E s \in admitted :
                s.block = OnRecord(a).block /\ s.builder = a.builder
    /\ ServedWasAsked
    /\ MarkNamesAskedBuilder
    /\ admitted \cap Forged = {}
    /\ admitted \subseteq Submissions

LEMMA ProceedKeepsTraceable ==
  ASSUME Traceable, Traded!Proceed \/ UNCHANGED Traded!traded
  PROVE  Traceable'
  <1> USE DEF Traceable, Traded!Entry, ServedWasAsked, MarkNamesAskedBuilder
  <1>1. CASE UNCHANGED Traded!traded
    BY <1>1 DEF Traded!traded
  <1>2. ASSUME NEW s \in Submissions, Traded!Enter(s)
        PROVE  Traceable'
    BY <1>2 DEF Traded!Enter
  <1>3. ASSUME NEW s \in admitted, NEW p \in Proposers, NEW test \in BOOLEAN,
               Traded!RecordHeader(p, s, test)
        PROVE  Traceable'
    BY <1>3 DEF Traded!RecordHeader
  <1>4. ASSUME NEW s \in admitted, NEW p \in Proposers, NEW test \in BOOLEAN,
               Traded!Offer(p, s, test)
        PROVE  Traceable'
    BY <1>4 DEF Traded!Offer, Traded!HeaderEntry, HeaderRow
  <1>5. ASSUME NEW s \in admitted, NEW p \in Proposers,
               Traded!RecordSigned(p, s)
        PROVE  Traceable'
    BY <1>5 DEF Traded!RecordSigned
  <1>6. ASSUME NEW s \in admitted, NEW p \in Proposers, Traded!Ask(p, s)
        PROVE  Traceable'
    <2>1. s.block # None
      BY SubmissionFields
    <2> QED
      BY <1>6, <2>1 DEF Traded!Ask, OnRecord
  <1>7. ASSUME NEW s \in admitted, Traded!AskTest(s)
        PROVE  Traceable'
    BY <1>7 DEF Traded!AskTest, OnRecord
  <1>8. ASSUME NEW q \in asked, Traded!Answer(q)
        PROVE  Traceable'
    BY <1>8 DEF Traded!Answer
  <1>9. ASSUME NEW q \in asked, Traded!Mark(q)
        PROVE  Traceable'
    BY <1>9 DEF Traded!Mark
  <1>10. ASSUME NEW q \in asked, NEW k \in Blocks, Traded!RecordPayload(q, k)
         PROVE  Traceable'
    BY <1>10 DEF Traded!RecordPayload
  <1>11. CASE Traded!Forget
    BY <1>11 DEF Traded!Forget
  <1> QED
    BY <1>1, <1>2, <1>3, <1>4, <1>5, <1>6, <1>7, <1>8, <1>9, <1>10, <1>11
       DEF Traded!Proceed

\* Whatever keeps the promise of Trade leaves a trail that a reporter or a
\* builder can follow back from each answer, row and mark to a submission that
\* was let into the auction.  The abstract specification is not too weak to
\* stand for the proposers' side of the relay.
THEOREM TradeIsEnough ==
  TradesFairly => [](/\ DeliveredWasAdmitted
                     /\ OfferedWasRecorded
                     /\ \A o \in offers : o.bid.proposer = o.proposer
                     /\ AskedWasReturned
                     /\ ServedWasAsked
                     /\ MarkNamesAskedBuilder)
  <1>1. Traded!Open => Traceable
    BY DEF Traded!Open, Traceable, ServedWasAsked, MarkNamesAskedBuilder
  <1>2. Traceable /\ [Traded!Proceed]_Traded!traded => Traceable'
    BY ProceedKeepsTraceable
  <1>3. Traceable => /\ DeliveredWasAdmitted
                     /\ OfferedWasRecorded
                     /\ \A o \in offers : o.bid.proposer = o.proposer
                     /\ AskedWasReturned
                     /\ ServedWasAsked
                     /\ MarkNamesAskedBuilder
    BY DEF Traceable, DeliveredWasAdmitted, OfferedWasRecorded,
           AskedWasReturned, Traded!Entry
  <1> QED
    BY <1>1, <1>2, <1>3, PTL DEF TradesFairly, Traded!Promise
=============================================================================
