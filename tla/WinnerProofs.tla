---------------------------- MODULE WinnerProofs ----------------------------
(***************************************************************************)
(* The winner of an auction: a submission that was let in, and one the     *)
(* relay can serve.                                                        *)
(***************************************************************************)
EXTENDS AuctionProofs

\* A submission names a builder and a block, and is not None.
LEMMA SubmissionFields ==
  \A s \in Submissions :
    s # None /\ s.builder \in Builders /\ s.block \in Blocks /\ s.value \in Nat
  <1> TAKE s \in Submissions
  <1>1. s # None
    BY NoneAssumption
  <1>2. s \in [builder : Builders, value : Nat,
               block : Blocks, proposer : Proposers]
    BY SubmissionsAssumption
  <1> QED
    BY ONLY <1>1, <1>2

\* An HSET, done or failed, never removes a field of the hash.
LEMMA WriteKeeps ==
  ASSUME NEW S, NEW T, NEW hash \in [S -> T], NEW f \in S, NEW v, v # None,
         NEW hash2, hash2 \in {hash, [hash EXCEPT ![f] = v]}
  PROVE  \A g \in S : hash[g] # None => hash2[g] # None
  OBVIOUS

-----------------------------------------------------------------------------
(* Every copy of a bid is of an admitted submission. *)

LEMMA NextCopiesAdmitted ==
  Typed /\ CopiesAdmitted /\ [Next]_vars => CopiesAdmitted'
  <1> SUFFICES ASSUME Typed, CopiesAdmitted, [Next]_vars
               PROVE  CopiesAdmitted'
    OBVIOUS
  <1> USE DEF CopiesAdmitted, Typed, TypeOK, BoardTypeOK, Carried, Saving
  <1>1. ASSUME NEW h \in Handlers, Receive(h)
        PROVE  CopiesAdmitted'
    BY <1>1 DEF Receive, boardVars
  <1>2. ASSUME NEW h \in Handlers,
               RefuseBuilder(h) \/ CheckDelivered(h) \/ CheckBlock(h)
        PROVE  CopiesAdmitted'
    <2>1. CASE Return(h)
      BY <1>2, <2>1 DEF RefuseBuilder, CheckDelivered, CheckBlock, Return,
                        boardVars, around
    <2>2. CASE ~ Return(h)
      BY <1>2, <2>2 DEF RefuseBuilder, CheckDelivered, CheckBlock, Goto,
                        boardVars, around
    <2> QED
      BY <2>1, <2>2
  <1>3. ASSUME NEW h \in Handlers, CheckLastBid(h)
        PROVE  CopiesAdmitted'
    <2>1. CASE Goto(h, "record") /\ UNCHANGED admitted
      BY <1>3, <2>1 DEF CheckLastBid, Goto, boardVars, around
    <2>2. CASE Goto(h, "utils") /\ admitted' = admitted \cup {sub[h]}
      BY <1>3, <2>2 DEF CheckLastBid, Goto, boardVars, around
    <2> QED
      BY <1>3, <2>1, <2>2 DEF CheckLastBid
  <1>4. ASSUME NEW h \in Handlers, SetUtils(h) \/ SetTime(h) \/ SetValue(h)
        PROVE  CopiesAdmitted'
    BY <1>4 DEF SetUtils, SetTime, SetValue, WriteFails, Goto, around
  <1>5. ASSUME NEW h \in Handlers, SetBid(h)
        PROVE  CopiesAdmitted'
    <2>1. bids' \in {bids, [bids EXCEPT ![sub[h].builder] = sub[h]]}
      BY <1>5 DEF SetBid
    <2>2. \A b \in Builders : bids'[b] # None => bids'[b] \in admitted
      BY <1>5, <2>1 DEF SetBid
    <2> QED
      BY <1>5, <2>2 DEF SetBid, WriteFails, Goto, around
  <1>6. ASSUME NEW h \in Handlers, 
               \/ ExpireUtils(h) \/ ExpireBids(h)
               \/ ExpireTimes(h) \/ ExpireValues(h)
        PROVE  CopiesAdmitted'
    BY <1>6 DEF ExpireUtils, ExpireBids, ExpireTimes, ExpireValues, ExpireKey,
                WriteFails, Goto, around
  <1>7. ASSUME NEW h \in Handlers, ReadValues(h)
        PROVE  CopiesAdmitted'
    BY <1>7 DEF ReadValues, Goto, boardVars, around
  <1>8. ASSUME NEW h \in Handlers, ReadTopBid(h)
        PROVE  CopiesAdmitted'
    <2>1. top[h].builder \in Builders
      BY <1>8 DEF ReadTopBid, TopBid
    <2> QED
      BY <1>8, <2>1 DEF ReadTopBid, Goto, boardVars, around
  <1>9. ASSUME NEW h \in Handlers, SetHighest(h)
        PROVE  CopiesAdmitted'
    <2>1. /\ UNCHANGED <<bids, admitted, sub, picked>>
          /\ \E l \in {"publish", "record"} : pc' = [pc EXCEPT ![h] = l]
          /\ pc[h] = "highest"
          /\ highest' \in {highest, picked[h]}
      BY <1>9 DEF SetHighest, WriteFails, Goto, around
    <2> QED
      BY <2>1
  <1>10. ASSUME NEW h \in Handlers, Publish(h) \/ Record(h)
         PROVE  CopiesAdmitted'
    BY <1>10 DEF Publish, Record, Goto, Return, boardVars
  <1>11. CASE PublishBulletinBoard \/ HeadEvent
    BY <1>11 DEF PublishBulletinBoard, HeadEvent, boardVars, handlerVars
  <1>12. CASE PutPayloadDelivered
    BY <1>12 DEF PutPayloadDelivered, auctionVars, handlerVars, around
  <1>13. CASE TimePasses
    BY <1>13 DEF TimePasses, Tick, auctionVars, handlerVars, around
  <1>14. CASE Restart
    BY <1>14 DEF Restart
  <1>15. CASE UNCHANGED vars
    BY <1>15 DEF vars, boardVars, auctionVars, handlerVars, around
  <1> QED
    BY <1>1, <1>2, <1>3, <1>4, <1>5, <1>6, <1>7, <1>8, <1>9, <1>10, <1>11,
       <1>12, <1>13, <1>14, <1>15
       DEF Next, Submit, Waiting

\* The highest bid is a submission that handleSubmitBlock has let in: what is
\* on its block was checked, however many handlers write the board at once.
THEOREM WinnerIsAdmitted == Spec => []WinnerAdmitted
  <1>1. Init => Typed /\ CopiesAdmitted
    BY InitTyped DEF Init, BoardInit, CopiesAdmitted, Saving
  <1>2. Typed /\ CopiesAdmitted /\ [Next]_vars => Typed' /\ CopiesAdmitted'
    BY NextTyped, NextCopiesAdmitted
  <1>3. CopiesAdmitted => WinnerAdmitted
    BY DEF CopiesAdmitted, WinnerAdmitted
  <1> QED
    BY <1>1, <1>2, <1>3, PTL DEF Spec

-----------------------------------------------------------------------------
(* Whatever bid may become the highest has its utilities saved. *)

LEMMA NextCopiesServable ==
  Typed /\ CopiesServable /\ [Next]_vars => CopiesServable'
  <1> SUFFICES ASSUME Typed, CopiesServable, [Next]_vars
               PROVE  CopiesServable'
    OBVIOUS
  <1> USE DEF CopiesServable, Typed, TypeOK, BoardTypeOK, Carried, Saving
  <1>1. ASSUME NEW h \in Handlers, Receive(h)
        PROVE  CopiesServable'
    BY <1>1 DEF Receive, boardVars
  <1>2. ASSUME NEW h \in Handlers,
               \/ RefuseBuilder(h) \/ CheckDelivered(h)
               \/ CheckBlock(h) \/ CheckLastBid(h)
        PROVE  CopiesServable'
    <2>1. CASE Return(h)
      BY <1>2, <2>1 DEF RefuseBuilder, CheckDelivered, CheckBlock,
                        CheckLastBid, Return, boardVars, around
    <2>2. ASSUME NEW l \in {"slot", "last", "utils", "record"}, Goto(h, l)
          PROVE  CopiesServable'
      BY <1>2, <2>2 DEF RefuseBuilder, CheckDelivered, CheckBlock,
                        CheckLastBid, Goto, boardVars, around
    <2> QED
      BY <1>2, <2>1, <2>2 DEF RefuseBuilder, CheckDelivered, CheckBlock,
                              CheckLastBid
  <1>3. ASSUME NEW h \in Handlers, SetUtils(h)
        PROVE  CopiesServable'
    <2>0. sub[h] \in Submissions
      BY <1>3 DEF SetUtils
    <2>1. sub[h].block \in Blocks /\ sub[h] # None
      BY ONLY <2>0, SubmissionFields
    <2>2. utils' \in {utils, [utils EXCEPT ![sub[h].block] = sub[h]]}
      BY <1>3 DEF SetUtils
    <2>3. \A k \in Blocks : utils[k] # None => utils'[k] # None
      <3>1. utils \in [Blocks -> Submissions \cup {None}]
        OBVIOUS
      <3> QED
        BY ONLY <2>1, <2>2, <3>1, WriteKeeps
    <2>4. \/ Goto(h, "record")
          \/ Goto(h, "utilsTTL") /\ utils'[sub[h].block] # None
      BY <1>3, <2>1 DEF SetUtils, WriteFails
    <2> QED
      BY <1>3, <2>3, <2>4, SubmissionFields DEF SetUtils, Goto, around
  <1>4. ASSUME NEW h \in Handlers, SetTime(h) \/ SetValue(h)
        PROVE  CopiesServable'
    BY <1>4 DEF SetTime, SetValue, WriteFails, Goto, around
  <1>5. ASSUME NEW h \in Handlers, SetBid(h)
        PROVE  CopiesServable'
    <2>1. bids' \in {bids, [bids EXCEPT ![sub[h].builder] = sub[h]]}
      BY <1>5 DEF SetBid
    <2>2. ASSUME "utils" \notin lapsed
          PROVE  \A b \in Builders :
                    bids'[b] # None => utils[bids'[b].block] # None
      BY <1>5, <2>1, <2>2 DEF SetBid
    <2> QED
      BY <1>5, <2>2 DEF SetBid, WriteFails, Goto, around
  <1>6. ASSUME NEW h \in Handlers,
               \/ ExpireUtils(h) \/ ExpireBids(h)
               \/ ExpireTimes(h) \/ ExpireValues(h)
        PROVE  CopiesServable'
    BY <1>6 DEF ExpireUtils, ExpireBids, ExpireTimes, ExpireValues, ExpireKey,
                WriteFails, Goto, around
  <1>7. ASSUME NEW h \in Handlers, ReadValues(h)
        PROVE  CopiesServable'
    BY <1>7 DEF ReadValues, Goto, boardVars, around
  <1>8. ASSUME NEW h \in Handlers, ReadTopBid(h)
        PROVE  CopiesServable'
    <2>1. top[h].builder \in Builders
      BY <1>8 DEF ReadTopBid, TopBid
    <2> QED
      BY <1>8, <2>1 DEF ReadTopBid, Goto, boardVars, around
  <1>9. ASSUME NEW h \in Handlers, SetHighest(h)
        PROVE  CopiesServable'
    <2>1. /\ UNCHANGED <<bids, utils, lapsed, sub, picked>>
          /\ \E l \in {"publish", "record"} : pc' = [pc EXCEPT ![h] = l]
          /\ pc[h] = "highest"
          /\ highest' \in {highest, picked[h]}
      BY <1>9 DEF SetHighest, WriteFails, Goto, around
    <2> QED
      BY <2>1
  <1>10. ASSUME NEW h \in Handlers, Publish(h) \/ Record(h)
         PROVE  CopiesServable'
    BY <1>10 DEF Publish, Record, Goto, Return, boardVars
  <1>11. CASE PublishBulletinBoard \/ HeadEvent
    BY <1>11 DEF PublishBulletinBoard, HeadEvent, boardVars, handlerVars
  <1>12. CASE PutPayloadDelivered
    BY <1>12 DEF PutPayloadDelivered, auctionVars, handlerVars, around
  <1>13. CASE TimePasses
    <2>1. "utils" \notin lapsed' => utils' = utils /\ "utils" \notin lapsed
      BY <1>13 DEF TimePasses, Tick, Keys
    <2>2. bids' = bids \/ bids' = [b \in Builders |-> None]
      BY <1>13 DEF TimePasses, Tick
    <2>3. highest' = highest \/ highest' = None
      BY <1>13 DEF TimePasses, Tick
    <2> QED
      BY <1>13, <2>1, <2>2, <2>3
         DEF TimePasses, auctionVars, handlerVars, around
  <1>14. CASE Restart
    BY <1>14 DEF Restart, Keys
  <1>15. CASE UNCHANGED vars
    BY <1>15 DEF vars, boardVars, auctionVars, handlerVars, around
  <1> QED
    BY <1>1, <1>2, <1>3, <1>4, <1>5, <1>6, <1>7, <1>8, <1>9, <1>10, <1>11,
       <1>12, <1>13, <1>14, <1>15
       DEF Next, Submit, Waiting

\* As long as the utilities of the slot have not timed out, the payload of the
\* highest bid can be asked of its builder: AuctionBid never makes a bid the
\* highest before SavePayloadUtils has succeeded for its block.
THEOREM WinnerIsServable == Spec => []WinnerServable
  <1>1. Init => Typed /\ CopiesServable
    BY InitTyped DEF Init, BoardInit, CopiesServable, Saving
  <1>2. Typed /\ CopiesServable /\ [Next]_vars => Typed' /\ CopiesServable'
    BY NextTyped, NextCopiesServable
  <1>3. CopiesServable => WinnerServable
    BY DEF CopiesServable, WinnerServable
  <1> QED
    BY <1>1, <1>2, <1>3, PTL DEF Spec

-----------------------------------------------------------------------------
(* Whatever value may be read has its bid saved. *)

LEMMA NextValuesBacked ==
  Typed /\ ValuesBacked /\ [Next]_vars => ValuesBacked'
  <1> SUFFICES ASSUME Typed, ValuesBacked, [Next]_vars
               PROVE  ValuesBacked'
    OBVIOUS
  <1> USE DEF ValuesBacked, Typed, TypeOK, BoardTypeOK, Carried, Saving
  <1>1. ASSUME NEW h \in Handlers, Receive(h)
        PROVE  ValuesBacked'
    BY <1>1 DEF Receive, boardVars
  <1>2. ASSUME NEW h \in Handlers,
               \/ RefuseBuilder(h) \/ CheckDelivered(h)
               \/ CheckBlock(h) \/ CheckLastBid(h)
        PROVE  ValuesBacked'
    <2>1. CASE Return(h)
      BY <1>2, <2>1 DEF RefuseBuilder, CheckDelivered, CheckBlock,
                        CheckLastBid, Return, boardVars, around
    <2>2. ASSUME NEW l \in {"slot", "last", "utils", "record"}, Goto(h, l)
          PROVE  ValuesBacked'
      BY <1>2, <2>2 DEF RefuseBuilder, CheckDelivered, CheckBlock,
                        CheckLastBid, Goto, boardVars, around
    <2> QED
      BY <1>2, <2>1, <2>2 DEF RefuseBuilder, CheckDelivered, CheckBlock,
                              CheckLastBid
  <1>3. ASSUME NEW h \in Handlers, SetUtils(h) \/ SetTime(h)
        PROVE  ValuesBacked'
    BY <1>3 DEF SetUtils, SetTime, WriteFails, Goto, around
  <1>4. ASSUME NEW h \in Handlers, SetBid(h)
        PROVE  ValuesBacked'
    <2>0. sub[h] \in Submissions
      BY <1>4 DEF SetBid
    <2>1. sub[h].builder \in Builders /\ sub[h] # None
      BY ONLY <2>0, SubmissionFields
    <2>2. bids' \in {bids, [bids EXCEPT ![sub[h].builder] = sub[h]]}
      BY <1>4 DEF SetBid
    <2>3. \A b \in Builders : bids[b] # None => bids'[b] # None
      <3>1. bids \in [Builders -> Submissions \cup {None}]
        OBVIOUS
      <3> QED
        BY ONLY <2>1, <2>2, <3>1, WriteKeeps
    <2>4. \A g \in Handlers :
             top[g] \in TopBid => top[g].builder \in Builders
      BY ONLY DEF TopBid
    <2>5. \/ Goto(h, "record")
          \/ Goto(h, "bidTTL") /\ bids'[sub[h].builder] # None
      BY <1>4, <2>1 DEF SetBid, WriteFails
    <2> QED
      BY <1>4, <2>3, <2>4, <2>5, SubmissionFields DEF SetBid, Goto, around
  <1>5. ASSUME NEW h \in Handlers, SetValue(h)
        PROVE  ValuesBacked'
    <2>1. values' \in {values, [values EXCEPT ![sub[h].builder] =
                                             sub[h].value]}
      BY <1>5 DEF SetValue
    <2>2. ASSUME "bids" \notin lapsed
          PROVE  \A b \in Builders : values'[b] # None => bids[b] # None
      BY <1>5, <2>1, <2>2 DEF SetValue
    <2> QED
      BY <1>5, <2>2 DEF SetValue, WriteFails, Goto, around
  <1>6. ASSUME NEW h \in Handlers,
               \/ ExpireUtils(h) \/ ExpireBids(h)
               \/ ExpireTimes(h) \/ ExpireValues(h)
        PROVE  ValuesBacked'
    BY <1>6 DEF ExpireUtils, ExpireBids, ExpireTimes, ExpireValues, ExpireKey,
                WriteFails, Goto, around
  <1>7. ASSUME NEW h \in Handlers, ReadValues(h)
        PROVE  ValuesBacked'
    <2>1. CASE Goto(h, "record")
      BY <1>7, <2>1 DEF ReadValues, Goto, boardVars, around
    <2>2. ASSUME NEW b \in TopBuilders,
                 top' = [top EXCEPT ![h] =
                           [builder |-> b, value |-> values[b]]],
                 pc' = [pc EXCEPT ![h] = "top"],
                 UNCHANGED <<sub, received, picked, late>>
          PROVE  ValuesBacked'
      <3>1. b \in Builders /\ values[b] # None
        BY DEF TopBuilders
      <3> QED
        BY <1>7, <2>2, <3>1 DEF ReadValues, boardVars, around
    <2> QED
      BY <1>7, <2>1, <2>2 DEF ReadValues
  <1>8. ASSUME NEW h \in Handlers, ReadTopBid(h) \/ SetHighest(h)
        PROVE  ValuesBacked'
    <2>1. /\ UNCHANGED <<bids, values, lapsed, sub, top>>
          /\ \E l \in {"highest", "publish", "record"} :
                pc' = [pc EXCEPT ![h] = l]
          /\ pc[h] \in {"top", "highest"}
      BY <1>8 DEF ReadTopBid, SetHighest, WriteFails, Goto, boardVars, around
    <2>2. pc \in [Handlers -> Labels]
      BY DEF HandlersTyped
    <2>3. ASSUME NEW g \in Handlers
          PROVE  /\ pc'[g] \in Saving \ {"utils", "utilsTTL", "bid"}
                    => pc[g] \in Saving \ {"utils", "utilsTTL", "bid"}
                 /\ pc'[g] = "top" => pc[g] = "top"
      BY <2>1, <2>2
    <2> QED
      BY ONLY <2>1, <2>3, ValuesBacked DEF ValuesBacked
  <1>9. ASSUME NEW h \in Handlers, Publish(h) \/ Record(h)
         PROVE  ValuesBacked'
    BY <1>9 DEF Publish, Record, Goto, Return, boardVars
  <1>10. CASE PublishBulletinBoard \/ HeadEvent
    BY <1>10 DEF PublishBulletinBoard, HeadEvent, boardVars, handlerVars
  <1>11. CASE PutPayloadDelivered
    BY <1>11 DEF PutPayloadDelivered, auctionVars, handlerVars, around
  <1>12. CASE TimePasses
    <2>1. "bids" \notin lapsed' => bids' = bids /\ "bids" \notin lapsed
      BY <1>12 DEF TimePasses, Tick, Keys
    <2>2. values' = values \/ values' = [b \in Builders |-> None]
      BY <1>12 DEF TimePasses, Tick
    <2> QED
      BY <1>12, <2>1, <2>2 DEF TimePasses, auctionVars, handlerVars, around
  <1>13. CASE Restart
    BY <1>13 DEF Restart, Keys
  <1>14. CASE UNCHANGED vars
    BY <1>14 DEF vars, boardVars, auctionVars, handlerVars, around
  <1> QED
    BY <1>1, <1>2, <1>3, <1>4, <1>5, <1>6, <1>7, <1>8, <1>9, <1>10, <1>11,
       <1>12, <1>13, <1>14
       DEF Next, Submit, Waiting

\* AuctionBid finds the bid of the builder it has just read as the top one,
\* unless the bids have timed out: SaveBuilderBid writes the value only after
\* the bid, and no handler ever deletes either.
THEOREM TopBidIsThere == Spec => []AuctionFindsBid
  <1>1. Init => Typed /\ ValuesBacked
    BY InitTyped DEF Init, BoardInit, ValuesBacked, Saving
  <1>2. Typed /\ ValuesBacked /\ [Next]_vars => Typed' /\ ValuesBacked'
    BY NextTyped, NextValuesBacked
  <1>3. ValuesBacked => AuctionFindsBid
    BY DEF ValuesBacked, AuctionFindsBid
  <1> QED
    BY <1>1, <1>2, <1>3, PTL DEF Spec

-----------------------------------------------------------------------------
(* The auction keeps to its abstract specification. *)

\* Steps that touch nothing the promise is about.
LEMMA Unseen ==
  UNCHANGED <<admitted, highest, utils, lapsed, delivered>>
    => UNCHANGED Sealed!promised
  BY DEF Sealed!promised

LEMMA NextSealed ==
  Typed /\ CopiesAdmitted /\ CopiesServable /\ [Next]_vars
    => [Sealed!Proceed]_Sealed!promised
  <1> SUFFICES ASSUME Typed, CopiesAdmitted, CopiesServable, [Next]_vars
               PROVE  Sealed!Proceed \/ UNCHANGED Sealed!promised
    OBVIOUS
  <1>1. ASSUME NEW h \in Handlers, Receive(h)
        PROVE  UNCHANGED Sealed!promised
    BY <1>1, Unseen DEF Receive, boardVars
  <1>2. ASSUME NEW h \in Handlers,
               \/ RefuseBuilder(h) \/ CheckDelivered(h) \/ CheckBlock(h)
               \/ ReadValues(h) \/ ReadTopBid(h) \/ Publish(h) \/ Record(h)
        PROVE  UNCHANGED Sealed!promised
    BY <1>2, Unseen DEF RefuseBuilder, CheckDelivered, CheckBlock, ReadValues,
                        ReadTopBid, Publish, Record, boardVars
  <1>3. ASSUME NEW h \in Handlers, CheckLastBid(h)
        PROVE  Sealed!Proceed \/ UNCHANGED Sealed!promised
    <2>1. UNCHANGED <<highest, utils, lapsed, delivered>>
      BY <1>3 DEF CheckLastBid, boardVars
    <2>2. CASE UNCHANGED admitted
      BY <2>1, <2>2, Unseen
    <2>3. CASE admitted' = admitted \cup {sub[h]}
      <3>1. sub[h] \in Submissions
        BY <1>3 DEF CheckLastBid, Typed, Carried
      <3>2. sub[h] \notin Forged
        BY <1>3 DEF CheckLastBid, CopiesAdmitted
      <3>3. Sealed!Enter(sub[h])
        BY <2>1, <2>3, <3>2 DEF Sealed!Enter
      <3> QED
        BY <3>1, <3>3 DEF Sealed!Proceed
    <2> QED
      BY <1>3, <2>2, <2>3 DEF CheckLastBid
  <1>4. ASSUME NEW h \in Handlers, SetUtils(h)
        PROVE  Sealed!Proceed \/ UNCHANGED Sealed!promised
    <2>1. UNCHANGED <<highest, admitted, lapsed, delivered>>
      BY <1>4 DEF SetUtils
    <2>2. CASE UNCHANGED utils
      BY <2>1, <2>2, Unseen
    <2>3. CASE utils' = [utils EXCEPT ![sub[h].block] = sub[h]]
      <3>1. sub[h] \in Submissions /\ sub[h] \in admitted
        BY <1>4 DEF SetUtils, Typed, Carried, CopiesAdmitted, Saving
      <3>2. sub[h].block \in Blocks /\ sub[h] # None
        BY <3>1, SubmissionFields
      <3>3. utils \in [Blocks -> Submissions \cup {None}]
        BY DEF Typed, TypeOK, BoardTypeOK
      <3>4. {k \in Blocks : utils'[k] # None}
              = {k \in Blocks : utils[k] # None} \cup {sub[h].block}
        BY <2>3, <3>2, <3>3
      <3>5. Sealed!Store(sub[h])
        BY <2>1, <3>1, <3>4 DEF Sealed!Store
      <3> QED
        BY <3>1, <3>5 DEF Sealed!Proceed, Sealed!Store
    <2> QED
      BY <1>4, <2>2, <2>3 DEF SetUtils
  <1>5. ASSUME NEW h \in Handlers,
               \/ SetBid(h) \/ SetTime(h) \/ SetValue(h)
               \/ ExpireUtils(h) \/ ExpireBids(h)
               \/ ExpireTimes(h) \/ ExpireValues(h)
        PROVE  UNCHANGED Sealed!promised
    BY <1>5, Unseen DEF SetBid, SetTime, SetValue, ExpireUtils, ExpireBids,
                        ExpireTimes, ExpireValues, ExpireKey
  <1>6. ASSUME NEW h \in Handlers, SetHighest(h)
        PROVE  Sealed!Proceed \/ UNCHANGED Sealed!promised
    <2>1. UNCHANGED <<utils, admitted, lapsed, delivered>>
      BY <1>6 DEF SetHighest
    <2>2. CASE UNCHANGED highest
      BY <2>1, <2>2, Unseen
    <2>3. CASE highest' = picked[h]
      <3>1. picked[h] \in Submissions /\ picked[h] \in admitted
        BY <1>6 DEF SetHighest, Typed, Carried, CopiesAdmitted
      <3>2. "utils" \notin lapsed => utils[picked[h].block] # None
        BY <1>6 DEF SetHighest, CopiesServable
      <3>3. picked[h].block \in Blocks
        BY <3>1, SubmissionFields
      <3>4. Sealed!Choose(picked[h])
        BY <2>1, <2>3, <3>1, <3>2, <3>3 DEF Sealed!Choose
      <3> QED
        BY <3>1, <3>4 DEF Sealed!Proceed
    <2> QED
      BY <1>6, <2>2, <2>3 DEF SetHighest
  <1>7. CASE PublishBulletinBoard \/ HeadEvent
    BY <1>7, Unseen DEF PublishBulletinBoard, HeadEvent, boardVars
  <1>8. CASE PutPayloadDelivered
    <2>1. PICK s \in admitted : delivered' = s.builder
      BY <1>8 DEF PutPayloadDelivered
    <2>2. UNCHANGED <<admitted, highest, utils, lapsed>>
      BY <1>8 DEF PutPayloadDelivered, auctionVars
    <2>3. s \in Submissions
      BY DEF Typed, TypeOK
    <2>4. Sealed!Serve(s)
      BY <2>1, <2>2 DEF Sealed!Serve
    <2> QED
      BY <2>3, <2>4 DEF Sealed!Proceed
  <1>9. CASE TimePasses
    <2>1. UNCHANGED <<admitted, delivered>>
      BY <1>9 DEF TimePasses, Tick, auctionVars
    <2>2. highest' \in {highest, None}
      BY <1>9 DEF TimePasses, Tick
    <2>3. CASE Lapses("utils")
      <3>1. utils' = [k \in Blocks |-> None] /\ "utils" \in lapsed'
        BY <1>9, <2>3 DEF TimePasses, Tick, Keys
      <3>2. {k \in Blocks : utils'[k] # None} = {}
        BY <3>1
      <3> QED
        BY <2>1, <2>2, <3>1, <3>2 DEF Sealed!Proceed, Sealed!Lapse
    <2>4. CASE ~ Lapses("utils")
      <3>1. utils' = utils /\ ("utils" \in lapsed' <=> "utils" \in lapsed)
        BY <1>9, <2>4 DEF TimePasses, Tick, Keys
      <3> QED
        BY <2>1, <2>2, <3>1 DEF Sealed!Proceed, Sealed!Lapse
    <2> QED
      BY <2>3, <2>4
  <1>10. CASE Restart
    <2>1. /\ highest' = None /\ delivered' = None /\ admitted' = admitted
          /\ utils' = [k \in Blocks |-> None] /\ "utils" \in lapsed'
      BY <1>10 DEF Restart, Keys
    <2>2. {k \in Blocks : utils'[k] # None} = {}
      BY <2>1
    <2> QED
      BY <2>1, <2>2 DEF Sealed!Proceed, Sealed!Reopen
  <1>11. CASE UNCHANGED vars
    BY <1>11, Unseen DEF vars, boardVars, auctionVars
  <1> QED
    BY <1>1, <1>2, <1>3, <1>4, <1>5, <1>6, <1>7, <1>8, <1>9, <1>10, <1>11
       DEF Next, Submit, Waiting

\* The auction, with its failing calls, time-outs and restarts and whatever
\* the interleaving of its handlers, implements the abstract WinningBid.
THEOREM AuctionKeepsPromise == Spec => KeepsPromise
  <1>1. Init => Typed /\ CopiesAdmitted /\ CopiesServable
    BY InitTyped DEF Init, BoardInit, CopiesAdmitted, CopiesServable, Saving
  <1>2. Typed /\ CopiesAdmitted /\ CopiesServable /\ [Next]_vars
          => Typed' /\ CopiesAdmitted' /\ CopiesServable'
    BY NextTyped, NextCopiesAdmitted, NextCopiesServable
  <1>3. Init => Sealed!Open
    <2>1. SUFFICES ASSUME Init PROVE Sealed!Open
      OBVIOUS
    <2>2. {k \in Blocks : utils[k] # None} = {}
      BY <2>1 DEF Init, BoardInit
    <2> QED
      BY <2>1, <2>2 DEF Init, BoardInit, Sealed!Open
  <1> QED
    BY <1>1, <1>2, <1>3, NextSealed, PTL
       DEF Spec, KeepsPromise, Sealed!Promise

-----------------------------------------------------------------------------
(* What the promise is worth: it needs no look at the auction's own steps. *)

\* What holds of every auction that WinningBid allows.
PromiseHolds ==
    /\ admitted \cap Forged = {}
    /\ highest # None =>
          /\ highest \in admitted
          /\ "utils" \notin lapsed =>
                highest.block \in {k \in Blocks : utils[k] # None}
    /\ delivered # None => \E s \in admitted : s.builder = delivered

LEMMA ProceedKeepsPromise ==
  ASSUME PromiseHolds, Sealed!Proceed \/ UNCHANGED Sealed!promised
  PROVE  PromiseHolds'
  <1> DEFINE stored == {k \in Blocks : utils[k] # None}
             intact == IF "utils" \in lapsed THEN 0 ELSE 1
  <1>1. CASE UNCHANGED Sealed!promised
    <2>1. UNCHANGED <<admitted, highest, delivered, stored, intact>>
      BY <1>1 DEF Sealed!promised
    <2>2. "utils" \in lapsed' <=> "utils" \in lapsed
      BY <2>1
    <2> QED
      BY <2>1, <2>2 DEF PromiseHolds
  <1>2. ASSUME NEW s \in Submissions, Sealed!Enter(s)
        PROVE  PromiseHolds'
    <2>1. /\ s \notin Forged /\ admitted' = admitted \cup {s}
          /\ UNCHANGED <<highest, delivered, stored, intact>>
      BY <1>2 DEF Sealed!Enter
    <2>2. "utils" \in lapsed' <=> "utils" \in lapsed
      BY <2>1
    <2> QED
      BY <2>1, <2>2 DEF PromiseHolds
  <1>3. ASSUME NEW s \in Submissions, Sealed!Store(s)
        PROVE  PromiseHolds'
    <2>1. /\ stored' = stored \cup {s.block}
          /\ UNCHANGED <<admitted, highest, delivered, intact>>
      BY <1>3 DEF Sealed!Store
    <2>2. "utils" \in lapsed' <=> "utils" \in lapsed
      BY <2>1
    <2> QED
      BY <2>1, <2>2 DEF PromiseHolds
  <1>4. ASSUME NEW s \in Submissions, Sealed!Choose(s)
        PROVE  PromiseHolds'
    <2>1. /\ s \in admitted /\ (s.block \in stored \/ intact = 0)
          /\ highest' = s
          /\ UNCHANGED <<admitted, delivered, stored, intact>>
      BY <1>4 DEF Sealed!Choose
    <2>2. /\ "utils" \in lapsed' <=> "utils" \in lapsed
          /\ intact = 0 => "utils" \in lapsed
      BY <2>1
    <2> QED
      BY <2>1, <2>2 DEF PromiseHolds
  <1>5. ASSUME NEW s \in Submissions, Sealed!Serve(s)
        PROVE  PromiseHolds'
    <2>1. /\ s \in admitted /\ delivered' = s.builder
          /\ UNCHANGED <<admitted, highest, stored, intact>>
      BY <1>5 DEF Sealed!Serve
    <2>2. "utils" \in lapsed' <=> "utils" \in lapsed
      BY <2>1
    <2> QED
      BY <2>1, <2>2 DEF PromiseHolds
  <1>6. CASE Sealed!Lapse
    <2>1. /\ highest' \in {highest, None}
          /\ intact' = 0 \/ UNCHANGED <<stored, intact>>
          /\ UNCHANGED <<admitted, delivered>>
      BY <1>6 DEF Sealed!Lapse
    <2>2. "utils" \in lapsed' \/ (stored' = stored /\ "utils" \notin lapsed)
      BY <2>1
    <2> QED
      BY <2>1, <2>2 DEF PromiseHolds
  <1>7. CASE Sealed!Reopen
    BY <1>7 DEF Sealed!Reopen, PromiseHolds
  <1> QED
    BY <1>1, <1>2, <1>3, <1>4, <1>5, <1>6, <1>7 DEF Sealed!Proceed

\* Whatever keeps the promise of WinningBid has what a proposer needs of an
\* auction: the winner was let in and is not forged, its payload can be had
\* until what is stored times out, and only a builder that took part is marked
\* as served.  The abstract specification is not too weak to stand for the
\* auction.
THEOREM PromiseIsEnough ==
  KeepsPromise => [](/\ WinnerAdmitted
                     /\ WinnerServable
                     /\ delivered # None =>
                           \E s \in admitted : s.builder = delivered)
  <1>1. Sealed!Open => PromiseHolds
    BY DEF Sealed!Open, PromiseHolds
  <1>2. PromiseHolds /\ [Sealed!Proceed]_Sealed!promised => PromiseHolds'
    BY ProceedKeepsPromise
  <1>3. PromiseHolds => /\ WinnerAdmitted
                        /\ WinnerServable
                        /\ delivered # None =>
                              \E s \in admitted : s.builder = delivered
    BY DEF PromiseHolds, WinnerAdmitted, WinnerServable
  <1> QED
    BY <1>1, <1>2, <1>3, PTL DEF KeepsPromise, Sealed!Promise
=============================================================================
