---------------------------- MODULE SerialProofs ----------------------------
(***************************************************************************)
(* What the mutex of the board would be worth.  BidBoard.bidMutex is there *)
(* and nobody locks it; in the behaviours in which the handlers, however   *)
(* many, take turns in a section of handleSubmitBlock, the auction picks a *)
(* maximum, shows what it has picked, or writes no bid over a later one,   *)
(* each for a section of its own.  In the others it does neither: the runs *)
(* auction_race and auction_overtaken show it.                             *)
(***************************************************************************)
EXTENDS WinnerProofs

-----------------------------------------------------------------------------
(* What a step may change. *)

\* A handler's step leaves the others' program counters and locals alone.
LEMMA OthersStay ==
  ASSUME NEW h \in Handlers, Receive(h) \/ Submit(h),
         NEW g \in Handlers, g # h, Typed
  PROVE  /\ pc'[g] = pc[g]
         /\ sub'[g] = sub[g]
         /\ received'[g] = received[g]
         /\ top'[g] = top[g]
         /\ picked'[g] = picked[g]
  <1> USE DEF Typed, TypeOK, Goto, Return, WriteFails
  <1>1. CASE \/ Receive(h) \/ RefuseBuilder(h) \/ CheckDelivered(h)
             \/ CheckBlock(h) \/ CheckLastBid(h)
    BY <1>1 DEF Receive, RefuseBuilder, CheckDelivered, CheckBlock,
                CheckLastBid
  <1>2. CASE SetUtils(h) \/ SetBid(h) \/ SetTime(h) \/ SetValue(h)
    BY <1>2 DEF SetUtils, SetBid, SetTime, SetValue
  <1>3. CASE \/ ExpireUtils(h) \/ ExpireBids(h)
             \/ ExpireTimes(h) \/ ExpireValues(h)
    BY <1>3 DEF ExpireUtils, ExpireBids, ExpireTimes, ExpireValues, ExpireKey
  <1>4. CASE ReadValues(h) \/ ReadTopBid(h)
    BY <1>4 DEF ReadValues, ReadTopBid
  <1>5. CASE SetHighest(h) \/ Publish(h) \/ Record(h)
    BY <1>5 DEF SetHighest, Publish, Record
  <1> QED
    BY <1>1, <1>2, <1>3, <1>4, <1>5 DEF Submit

\* While one handler is in the section, the others are not.
LEMMA Alone ==
  ASSUME NEW section, OneAtATime(section),
         NEW h \in Handlers, pc[h] \in section, NEW g \in Handlers, g # h
  PROVE  pc[g] \notin section
  BY DEF OneAtATime

\* After a step that fails a call there is nothing to show.
LEMMA FailedStep ==
  ASSUME Typed, CallFails
  PROVE  failures' # 0
  BY DEF Typed, TypeOK, CallFails

\* A second in which no key times out changes nothing but the clock.
LEMMA NothingLapses ==
  ASSUME Typed, TimePasses, lapsed' = {}
  PROVE  UNCHANGED <<bids, values, highest, lapsed, auctionVars>>
  <1>1. \A k \in Keys : ~ Lapses(k)
    BY DEF TimePasses, Tick
  <1> QED
    BY <1>1 DEF TimePasses, Tick, Keys, Typed, TypeOK, BoardTypeOK

\* No step of the relay takes a failure back.
LEMMA FailuresStay ==
  ASSUME Typed, [Next]_vars, failures' = 0
  PROVE  failures = 0
  <1>1. failures \in Nat /\ ~ CallFails
    BY FailedStep, AuctionAssumption DEF Typed, TypeOK
  <1>2. CASE \E h \in Handlers : Receive(h)
    BY <1>2 DEF Receive
  <1>3. CASE \E h \in Handlers : Submit(h)
    BY <1>1, <1>3
       DEF Submit, RefuseBuilder, CheckDelivered, CheckBlock, CheckLastBid,
           SetUtils, ExpireUtils, SetBid, ExpireBids, SetTime, ExpireTimes,
           SetValue, ExpireValues, ExpireKey, ReadValues, ReadTopBid,
           SetHighest, Publish, Record, WriteFails, CallWorks
  <1>4. CASE \/ PublishBulletinBoard \/ HeadEvent \/ PutPayloadDelivered
             \/ TimePasses \/ Restart \/ UNCHANGED vars
    BY <1>1, <1>4
       DEF PublishBulletinBoard, HeadEvent, PutPayloadDelivered, TimePasses,
           Restart, CallWorks, vars, auctionVars
  <1> QED
    BY <1>2, <1>3, <1>4 DEF Next, Waiting

-----------------------------------------------------------------------------
(* The highest bid is the bid of a top builder, but while a submission is  *)
(* between the write of its bid and that of the highest one.  An auction    *)
(* that has missed a bid is not the last one: the handler that wrote the    *)
(* bid has its own auction to come.                                         *)

Settled == {"idle", "delivered", "slot", "last", "utils", "utilsTTL", "bid",
            "publish", "record"}
Unread == {"bidTTL", "time", "timeTTL", "value", "valueTTL", "values"}

HighestIsTop == TopBuilders # {} => \E b \in TopBuilders : highest = bids[b]

\* What the handler has read of the board is what is there.
ReadIsTop(h) ==
    /\ pc[h] \in {"top", "highest"} => top[h].builder \in TopBuilders
    /\ pc[h] = "highest" => picked[h] = bids[top[h].builder]

MaxInv ==
    failures = 0 /\ lapsed = {} =>
        /\ (\A h \in Handlers : pc[h] \in Settled) => HighestIsTop
        /\ (\A h \in Handlers : pc[h] \notin Unread) =>
              \A h \in Handlers : ReadIsTop(h)

LEMMA NextMaxInv ==
  ASSUME Typed, ValuesBacked, OneAtATime(Auctioning), MaxInv, [Next]_vars
  PROVE  MaxInv'
  <1> SUFFICES ASSUME failures' = 0, lapsed' = {}
               PROVE  /\ (\A h \in Handlers : pc'[h] \in Settled)
                            => HighestIsTop'
                      /\ (\A h \in Handlers : pc'[h] \notin Unread) =>
                            \A h \in Handlers : ReadIsTop(h)'
    BY DEF MaxInv
  <1>0. /\ pc \in [Handlers -> Labels]
        /\ top \in [Handlers -> TopBid \cup {None}]
        /\ picked \in [Handlers -> Submissions \cup {None}]
        /\ ~ CallFails
    BY FailedStep DEF Typed, TypeOK
  <1> USE DEF MaxInv, Settled, Unread
  <1>1. ASSUME NEW h \in Handlers,
               \/ Receive(h) \/ RefuseBuilder(h) \/ CheckDelivered(h)
               \/ CheckBlock(h) \/ CheckLastBid(h) \/ SetUtils(h)
               \/ ExpireUtils(h) \/ Publish(h) \/ Record(h)
        PROVE  MaxInv'
    <2>1. /\ UNCHANGED <<bids, values, highest, lapsed>>
          /\ failures' = failures
          /\ pc[h] \in Settled /\ pc[h] \notin Unread
          /\ pc'[h] \in Settled \ {"top", "highest"}
      BY <1>0, <1>1
         DEF Receive, RefuseBuilder, CheckDelivered, CheckBlock, CheckLastBid,
             SetUtils, ExpireUtils, ExpireKey, Publish, Record, CallWorks,
             WriteFails, Return, Goto, boardVars, around
    <2>2. \A g \in Handlers \ {h} :
              pc'[g] = pc[g] /\ top'[g] = top[g] /\ picked'[g] = picked[g]
      BY <1>1, OthersStay DEF Submit
    <2>3. HighestIsTop' = HighestIsTop /\ TopBuilders' = TopBuilders
      BY <2>1 DEF HighestIsTop, TopBuilders
    <2> QED
      BY <2>1, <2>2, <2>3 DEF ReadIsTop
  <1>2. ASSUME NEW h \in Handlers,
               \/ SetBid(h) \/ ExpireBids(h) \/ SetTime(h) \/ ExpireTimes(h)
               \/ SetValue(h) \/ ExpireValues(h)
        PROVE  MaxInv'
    <2>1. pc'[h] \in Unread /\ pc'[h] \notin Settled
      BY <1>0, <1>2
         DEF SetBid, ExpireBids, SetTime, ExpireTimes, SetValue, ExpireValues,
             ExpireKey, WriteFails, Goto
    <2> QED
      BY <2>1
  <1>3. ASSUME NEW h \in Handlers, ReadValues(h)
        PROVE  MaxInv'
    <2>1. UNCHANGED <<bids, values, highest, lapsed>> /\ failures' = failures
      BY <1>0, <1>3 DEF ReadValues, CallWorks, boardVars
    <2>2. pc[h] \in Auctioning
      BY <1>3 DEF ReadValues, Auctioning
    <2>3. \A g \in Handlers \ {h} : pc'[g] = pc[g] /\ pc[g] \notin Auctioning
      BY <1>3, <2>2, OthersStay, Alone DEF Submit
    <2>4. HighestIsTop' = HighestIsTop /\ TopBuilders' = TopBuilders
      BY <2>1 DEF HighestIsTop, TopBuilders
    <2>5. CASE TopBuilders = {} /\ pc' = [pc EXCEPT ![h] = "record"]
      BY <1>0, <2>3, <2>4, <2>5 DEF HighestIsTop, Auctioning, ReadIsTop
    <2>6. ASSUME NEW b \in TopBuilders,
                 top' = [top EXCEPT ![h] =
                            [builder |-> b, value |-> values[b]]],
                 pc' = [pc EXCEPT ![h] = "top"]
          PROVE  MaxInv'
      <3>1. pc'[h] = "top" /\ top'[h].builder = b
        BY <1>0, <2>6
      <3> QED
        BY <2>3, <2>4, <3>1 DEF Auctioning, ReadIsTop
    <2> QED
      BY <1>0, <1>3, <2>5, <2>6 DEF ReadValues, Goto
  <1>4. ASSUME NEW h \in Handlers, ReadTopBid(h)
        PROVE  MaxInv'
    <2>1. UNCHANGED <<bids, values, highest, lapsed>> /\ failures' = failures
      BY <1>0, <1>4 DEF ReadTopBid, CallWorks, boardVars
    <2>2. pc[h] = "top" /\ pc'[h] \notin Settled /\ pc[h] \in Auctioning
      BY <1>0, <1>4, <2>1
         DEF ReadTopBid, ValuesBacked, Saving, Goto, Auctioning
    <2>3. \A g \in Handlers \ {h} : pc'[g] = pc[g] /\ pc[g] \notin Auctioning
      BY <1>4, <2>2, OthersStay, Alone DEF Submit
    <2>4. TopBuilders' = TopBuilders
      BY <2>1 DEF TopBuilders
    <2>5. ASSUME \A g \in Handlers : pc'[g] \notin Unread
          PROVE  \A g \in Handlers : ReadIsTop(g)'
      <3>1. \A g \in Handlers : pc[g] \notin Unread
        BY <2>2, <2>3, <2>5
      <3>2. top[h].builder \in TopBuilders
        BY <2>1, <2>2, <3>1 DEF ReadIsTop
      <3>3. values[top[h].builder] # None /\ top[h].builder \in Builders
        BY <3>2 DEF TopBuilders
      <3>4. bids[top[h].builder] # None
        BY <1>0, <2>1, <3>1, <3>3 DEF ValuesBacked, Saving
      <3>5. /\ picked' = [picked EXCEPT ![h] = bids[top[h].builder]]
            /\ pc' = [pc EXCEPT ![h] = "highest"]
            /\ top' = top
        BY <1>0, <1>4, <3>4 DEF ReadTopBid, Goto
      <3>6. pc'[h] = "highest" /\ picked'[h] = bids[top[h].builder]
        BY <1>0, <3>5
      <3> QED
        BY <2>1, <2>3, <2>4, <3>2, <3>5, <3>6 DEF Auctioning, ReadIsTop
    <2> QED
      BY <2>2, <2>5
  <1>5. ASSUME NEW h \in Handlers, SetHighest(h)
        PROVE  MaxInv'
    <2>1. /\ UNCHANGED <<bids, values, lapsed>> /\ failures' = failures
          /\ pc[h] = "highest" /\ pc'[h] = "publish" /\ pc[h] \in Auctioning
          /\ highest' = picked[h]
      BY <1>0, <1>5 DEF SetHighest, CallWorks, WriteFails, Goto, Auctioning
    <2>2. \A g \in Handlers \ {h} : pc'[g] = pc[g] /\ pc[g] \notin Auctioning
      BY <1>5, <2>1, OthersStay, Alone DEF Submit
    <2>3. TopBuilders' = TopBuilders
      BY <2>1 DEF TopBuilders
    <2>4. (\A g \in Handlers : pc'[g] \in Settled) => ReadIsTop(h)
      BY <2>1, <2>2
    <2>5. (\A g \in Handlers : pc'[g] \in Settled) => HighestIsTop'
      BY <2>1, <2>3, <2>4 DEF HighestIsTop, ReadIsTop
    <2> QED
      BY <2>1, <2>2, <2>5 DEF Auctioning, ReadIsTop
  <1>6. CASE PublishBulletinBoard \/ HeadEvent \/ PutPayloadDelivered
    <2>1. UNCHANGED <<bids, values, highest, lapsed, pc, top, picked, failures>>
      BY <1>0, <1>6
         DEF PublishBulletinBoard, HeadEvent, PutPayloadDelivered, CallWorks,
             boardVars, handlerVars, auctionVars
    <2> QED
      BY <2>1 DEF HighestIsTop, TopBuilders, ReadIsTop
  <1>7. CASE TimePasses
    BY <1>0, <1>7, NothingLapses
       DEF auctionVars, handlerVars, HighestIsTop, TopBuilders, ReadIsTop
  <1>8. CASE Restart
    BY <1>0, <1>8 DEF Restart, ReadIsTop
  <1>9. CASE UNCHANGED vars
    BY <1>9 DEF vars, boardVars, auctionVars, handlerVars, HighestIsTop,
                TopBuilders, ReadIsTop
  <1> QED
    BY <1>1, <1>2, <1>3, <1>4, <1>5, <1>6, <1>7, <1>8, <1>9
       DEF Next, Submit, Waiting

\* A mutex held through AuctionBid alone, the three calls of Redis, would be
\* enough for the highest bid to be, between submissions, the bid of a builder
\* with the greatest value on the board, until a call fails or a key times
\* out: the submissions may go on writing their bids while it runs.
THEOREM MutexPicksMax == Spec => TurnsPickMax
  <1>1. Init => Typed /\ ValuesBacked /\ MaxInv
    BY InitTyped
       DEF Init, BoardInit, ValuesBacked, Saving, MaxInv, Settled,
           Unread, ReadIsTop, HighestIsTop, TopBuilders
  <1>2. Typed /\ ValuesBacked /\ OneAtATime(Auctioning) /\ MaxInv /\ [Next]_vars
          => Typed' /\ ValuesBacked' /\ MaxInv'
    BY NextTyped, NextValuesBacked, NextMaxInv
  <1>3. MaxInv => HighestIsMax
    BY DEF MaxInv, HighestIsMax, Quiet, Settled, HighestIsTop
  <1> QED
    BY <1>1, <1>2, <1>3, PTL DEF Spec, TurnsPickMax

\* One handler is never in its own way: the same, without the mutex, of a
\* relay that serves its submissions one after the other.
THEOREM SerialHighestIsMax ==
  ASSUME NEW h, Handlers = {h}
  PROVE  Spec => []HighestIsMax
  <1>1. OneAtATime(Auctioning)
    BY DEF OneAtATime
  <1> QED
    BY <1>1, MutexPicksMax, PTL DEF TurnsPickMax

-----------------------------------------------------------------------------
(* A builder's value on the board is that of its bid, but while the two are *)
(* being written; so what an auction announces is what it has picked.       *)

Writing == {"bidTTL", "time", "timeTTL", "value"}

Shows(item, bid) ==
    item \in TopBid /\ item.builder = bid.builder /\ item.value = bid.value

ValuesFit ==
    /\ \A b \in Builders : bids[b] # None => bids[b].builder = b
    /\ \A b \in Builders :
          values[b] # None /\ bids[b] # None =>
              \/ \E h \in Handlers : pc[h] \in Writing /\ b = sub[h].builder
              \/ bids[b].value = values[b]
    /\ \A h \in Handlers :
          pc[h] \in Writing => bids[sub[h].builder] \in {None, sub[h]}

PicksFit ==
    \A h \in Handlers :
        /\ pc[h] = "top" =>
              /\ top[h] \in TopBid
              /\ bids[top[h].builder] # None =>
                    Shows(top[h], bids[top[h].builder])
        /\ pc[h] = "highest" => Shows(top[h], picked[h])

NewsFit ==
    highest # None =>
        /\ \A h \in Handlers : pc[h] = "publish" => Shows(top[h], highest)
        /\ (\A h \in Handlers : pc[h] # "publish") =>
              Shows(IF publisher # None THEN publisher ELSE shown, highest)

ShownInv == failures = 0 => ValuesFit /\ PicksFit /\ NewsFit

LEMMA NextValuesFit ==
  ASSUME Typed, OneAtATime(Announcing), ValuesFit, [Next]_vars,
         failures' = 0
  PROVE  ValuesFit'
  <1>0. /\ pc \in [Handlers -> Labels]
        /\ sub \in [Handlers -> Submissions \cup {None}]
        /\ bids \in [Builders -> Submissions \cup {None}]
        /\ values \in [Builders -> Nat \cup {None}]
        /\ ~ CallFails
    BY FailedStep DEF Typed, TypeOK, BoardTypeOK
  <1>a. ASSUME NEW h \in Handlers, pc[h] # "idle"
        PROVE  /\ sub[h] \in Submissions /\ sub[h] # None
               /\ sub[h].builder \in Builders /\ sub[h].value \in Nat
    BY <1>a, SubmissionFields DEF Typed, Carried
  <1> USE DEF ValuesFit, Writing
  <1>1. ASSUME NEW h \in Handlers,
               \/ Receive(h)
               \/ RefuseBuilder(h) \/ CheckDelivered(h) \/ CheckBlock(h)
               \/ CheckLastBid(h) \/ SetUtils(h) \/ ExpireUtils(h)
               \/ ExpireValues(h) \/ ReadValues(h) \/ ReadTopBid(h)
               \/ SetHighest(h) \/ Publish(h) \/ Record(h)
        PROVE  ValuesFit'
    <2>1. UNCHANGED <<bids, values>>
      BY <1>1 DEF Receive, RefuseBuilder, CheckDelivered, CheckBlock,
                  CheckLastBid, SetUtils, ExpireUtils, ExpireValues,
                  ExpireKey, ReadValues, ReadTopBid, SetHighest, Publish,
                  Record, boardVars
    <2>2. pc[h] \notin Writing /\ pc'[h] \notin Writing
      BY <1>0, <1>1
         DEF Receive, RefuseBuilder, CheckDelivered, CheckBlock, CheckLastBid,
             SetUtils, ExpireUtils, ExpireValues, ExpireKey, ReadValues,
             ReadTopBid, SetHighest, Publish, Record, WriteFails, Return, Goto
    <2>3. \A g \in Handlers \ {h} : pc'[g] = pc[g] /\ sub'[g] = sub[g]
      BY <1>1, OthersStay DEF Submit
    <2> QED
      BY <2>1, <2>2, <2>3
  <1>2. ASSUME NEW h \in Handlers, SetBid(h)
        PROVE  ValuesFit'
    <2>1. /\ bids' = [bids EXCEPT ![sub[h].builder] = sub[h]]
          /\ values' = values /\ sub' = sub
          /\ pc'[h] = "bidTTL" /\ pc[h] = "bid" /\ pc[h] \in Announcing
      BY <1>0, <1>2 DEF SetBid, WriteFails, Goto, Announcing
    <2>2. \A g \in Handlers \ {h} : pc'[g] = pc[g] /\ pc[g] \notin Announcing
      BY <1>2, <2>1, OthersStay, Alone DEF Submit
    <2>3. \A g \in Handlers \ {h} :
              pc[g] \notin Writing /\ pc'[g] \notin Writing
      BY <2>2 DEF Announcing
    <2>4. sub[h].builder \in Builders /\ sub[h] # None
      BY <1>a, <2>1
    <2>5. ASSUME NEW b \in Builders, b # sub[h].builder
          PROVE  bids'[b] = bids[b]
      BY <1>0, <2>1, <2>5
    <2>6. bids'[sub[h].builder] = sub[h]
      BY <1>0, <2>1, <2>4
    <2> QED
      BY <2>1, <2>3, <2>5, <2>6
  <1>3. ASSUME NEW h \in Handlers,
               ExpireBids(h) \/ SetTime(h) \/ ExpireTimes(h)
        PROVE  ValuesFit'
    <2>1. /\ UNCHANGED <<bids, values, sub>>
          /\ pc[h] \in Writing /\ pc'[h] \in Writing
      BY <1>0, <1>3 DEF ExpireBids, SetTime, ExpireTimes, ExpireKey,
                        WriteFails, Goto
    <2>2. \A g \in Handlers \ {h} : pc'[g] = pc[g]
      BY <1>3, OthersStay DEF Submit
    <2> QED
      BY <2>1, <2>2
  <1>4. ASSUME NEW h \in Handlers, SetValue(h)
        PROVE  ValuesFit'
    <2>1. /\ values' = [values EXCEPT ![sub[h].builder] = sub[h].value]
          /\ bids' = bids /\ sub' = sub
          /\ pc'[h] = "valueTTL" /\ pc[h] = "value" /\ pc[h] \in Announcing
      BY <1>0, <1>4 DEF SetValue, WriteFails, Goto, Announcing
    <2>2. \A g \in Handlers \ {h} : pc'[g] = pc[g] /\ pc[g] \notin Announcing
      BY <1>4, <2>1, OthersStay, Alone DEF Submit
    <2>3. \A g \in Handlers \ {h} :
              pc[g] \notin Writing /\ pc'[g] \notin Writing
      BY <2>2 DEF Announcing
    <2>4. sub[h].builder \in Builders /\ bids[sub[h].builder] \in {None, sub[h]}
      BY <1>a, <2>1
    <2>5. values'[sub[h].builder] = sub[h].value
      BY <1>0, <2>1, <2>4
    <2>6. ASSUME NEW b \in Builders, b # sub[h].builder
          PROVE  values'[b] = values[b]
      BY <1>0, <2>1, <2>6
    <2>7. ASSUME NEW b \in Builders, values'[b] # None, bids'[b] # None
          PROVE  bids'[b].value = values'[b]
      <3>1. CASE b = sub[h].builder
        BY <2>1, <2>4, <2>5, <2>7, <3>1
      <3>2. CASE b # sub[h].builder
        BY <2>1, <2>3, <2>6, <2>7, <3>2
      <3> QED
        BY <3>1, <3>2
    <2> QED
      BY <2>1, <2>3, <2>7
  <1>5. CASE PublishBulletinBoard \/ HeadEvent \/ PutPayloadDelivered
    <2>1. UNCHANGED <<bids, values, pc, sub>>
      BY <1>5 DEF PublishBulletinBoard, HeadEvent, PutPayloadDelivered,
                  boardVars, handlerVars, auctionVars
    <2> QED
      BY <2>1
  <1>6. CASE TimePasses
    <2>1. /\ bids' \in {bids, [b \in Builders |-> None]}
          /\ values' \in {values, [b \in Builders |-> None]}
          /\ UNCHANGED <<pc, sub>>
      BY <1>6 DEF TimePasses, Tick, auctionVars, handlerVars
    <2>2. \A b \in Builders : bids'[b] \in {bids[b], None}
                              /\ values'[b] \in {values[b], None}
      BY <2>1
    <2>3. \A h \in Handlers : pc[h] \in Writing => sub[h].builder \in Builders
      BY <1>a
    <2> QED
      BY <2>1, <2>2, <2>3
  <1>7. CASE Restart
    BY <1>0, <1>7 DEF Restart
  <1>8. CASE UNCHANGED vars
    BY <1>8 DEF vars, boardVars, auctionVars, handlerVars
  <1> QED
    BY <1>1, <1>2, <1>3, <1>4, <1>5, <1>6, <1>7, <1>8
       DEF Next, Submit, Waiting

LEMMA NextPicksFit ==
  ASSUME Typed, OneAtATime(Announcing), ValuesFit, PicksFit, [Next]_vars,
         failures' = 0
  PROVE  PicksFit'
  <1>0. /\ pc \in [Handlers -> Labels]
        /\ top \in [Handlers -> TopBid \cup {None}]
        /\ picked \in [Handlers -> Submissions \cup {None}]
        /\ bids \in [Builders -> Submissions \cup {None}]
        /\ values \in [Builders -> Nat \cup {None}]
        /\ ~ CallFails
    BY FailedStep DEF Typed, TypeOK, BoardTypeOK
  <1> USE DEF PicksFit
  <1>1. ASSUME NEW h \in Handlers,
               \/ Receive(h)
               \/ RefuseBuilder(h) \/ CheckDelivered(h) \/ CheckBlock(h)
               \/ CheckLastBid(h) \/ SetUtils(h) \/ ExpireUtils(h)
               \/ ExpireBids(h) \/ SetTime(h) \/ ExpireTimes(h)
               \/ SetValue(h) \/ ExpireValues(h)
               \/ SetHighest(h) \/ Publish(h) \/ Record(h)
        PROVE  PicksFit'
    <2>1. pc'[h] \notin {"top", "highest"} /\ bids' = bids
      BY <1>0, <1>1
         DEF Receive, RefuseBuilder, CheckDelivered, CheckBlock, CheckLastBid,
             SetUtils, ExpireUtils, ExpireBids, SetTime, ExpireTimes,
             SetValue, ExpireValues, ExpireKey, SetHighest, Publish, Record,
             WriteFails, Return, Goto, boardVars
    <2>2. \A g \in Handlers \ {h} :
              pc'[g] = pc[g] /\ top'[g] = top[g] /\ picked'[g] = picked[g]
      BY <1>1, OthersStay DEF Submit
    <2> QED
      BY <2>1, <2>2 DEF Shows
  <1>2. ASSUME NEW h \in Handlers, SetBid(h)
        PROVE  PicksFit'
    <2>1. pc'[h] = "bidTTL" /\ pc[h] \in Announcing
      BY <1>0, <1>2 DEF SetBid, WriteFails, Goto, Announcing
    <2>2. \A g \in Handlers \ {h} : pc'[g] = pc[g] /\ pc[g] \notin Announcing
      BY <1>2, <2>1, OthersStay, Alone DEF Submit
    <2> QED
      BY <2>1, <2>2 DEF Announcing
  <1>3. ASSUME NEW h \in Handlers, ReadValues(h)
        PROVE  PicksFit'
    <2>0. pc[h] = "values" /\ pc[h] \in Announcing /\ bids' = bids
      BY <1>3 DEF ReadValues, Announcing, boardVars
    <2>1. \A g \in Handlers \ {h} : pc'[g] = pc[g] /\ pc[g] \notin Announcing
      BY <1>3, <2>0, OthersStay, Alone DEF Submit
    <2>2. \A g \in Handlers : pc[g] \notin Writing
      BY <2>0, <2>1 DEF Announcing, Writing
    <2>3. CASE pc'[h] \in {"top", "highest"}
      <3>1. PICK b \in TopBuilders :
              /\ pc'[h] = "top"
              /\ top'[h] = [builder |-> b, value |-> values[b]]
        BY <1>0, <1>3, <2>3 DEF ReadValues, Goto
      <3>2. b \in Builders /\ values[b] # None /\ values[b] \in Nat
        BY <1>0 DEF TopBuilders
      <3>3. bids[b] # None => bids[b].builder = b /\ bids[b].value = values[b]
        BY <2>2, <3>2 DEF ValuesFit
      <3>4. /\ top'[h] \in TopBid
            /\ top'[h].builder = b /\ top'[h].value = values[b]
        BY <3>1, <3>2 DEF TopBid
      <3> QED
        BY <2>0, <2>1, <3>1, <3>3, <3>4 DEF Shows, Announcing
    <2> QED
      BY <2>1, <2>3 DEF Announcing
  <1>4. ASSUME NEW h \in Handlers, ReadTopBid(h)
        PROVE  PicksFit'
    <2>0. pc[h] = "top" /\ pc[h] \in Announcing /\ top' = top
      BY <1>0, <1>4 DEF ReadTopBid, Announcing, Goto
    <2>1. \A g \in Handlers \ {h} : pc'[g] = pc[g] /\ pc[g] \notin Announcing
      BY <1>4, <2>0, OthersStay, Alone DEF Submit
    <2>2. CASE pc'[h] \in {"top", "highest"}
      <3>1. /\ pc'[h] = "highest"
            /\ bids[top[h].builder] # None
            /\ picked'[h] = bids[top[h].builder]
        BY <1>0, <1>4, <2>2 DEF ReadTopBid, Goto
      <3>2. Shows(top[h], bids[top[h].builder])
        BY <2>0, <3>1
      <3> QED
        BY <2>0, <2>1, <3>1, <3>2 DEF Shows, Announcing
    <2> QED
      BY <2>1, <2>2 DEF Announcing
  <1>5. CASE PublishBulletinBoard \/ HeadEvent \/ PutPayloadDelivered
    <2>1. UNCHANGED <<bids, pc, top, picked>>
      BY <1>5 DEF PublishBulletinBoard, HeadEvent, PutPayloadDelivered,
                  boardVars, handlerVars, auctionVars
    <2> QED
      BY <2>1 DEF Shows
  <1>6. CASE TimePasses
    <2>1. /\ bids' \in {bids, [b \in Builders |-> None]}
          /\ UNCHANGED <<pc, top, picked>>
      BY <1>6 DEF TimePasses, Tick, auctionVars, handlerVars
    <2>2. \A t \in TopBid : t.builder \in Builders
      BY DEF TopBid
    <2>3. \A b \in Builders : bids'[b] \in {bids[b], None}
      BY <2>1
    <2> QED
      BY <2>1, <2>2, <2>3 DEF Shows
  <1>7. CASE Restart
    BY <1>0, <1>7 DEF Restart
  <1>8. CASE UNCHANGED vars
    BY <1>8 DEF vars, boardVars, auctionVars, handlerVars, Shows
  <1> QED
    BY <1>1, <1>2, <1>3, <1>4, <1>5, <1>6, <1>7, <1>8
       DEF Next, Submit, Waiting

LEMMA NextNewsFit ==
  ASSUME Typed, OneAtATime(Announcing), PicksFit, NewsFit, [Next]_vars,
         failures' = 0
  PROVE  NewsFit'
  <1>0. /\ pc \in [Handlers -> Labels]
        /\ top \in [Handlers -> TopBid \cup {None}]
        /\ None \notin TopBid
        /\ ~ CallFails
    BY FailedStep, AuctionAssumption DEF Typed, TypeOK, TopBid
  <1> USE DEF NewsFit, Shows
  <1>1. ASSUME NEW h \in Handlers,
               \/ Receive(h)
               \/ RefuseBuilder(h) \/ CheckDelivered(h) \/ CheckBlock(h)
               \/ CheckLastBid(h) \/ SetUtils(h) \/ ExpireUtils(h)
               \/ SetBid(h) \/ ExpireBids(h) \/ SetTime(h) \/ ExpireTimes(h)
               \/ SetValue(h) \/ ExpireValues(h) \/ ReadValues(h)
               \/ ReadTopBid(h) \/ Record(h)
        PROVE  NewsFit'
    <2>1. /\ pc[h] # "publish" /\ pc'[h] # "publish"
          /\ UNCHANGED <<highest, publisher, shown>>
      BY <1>0, <1>1
         DEF Receive, RefuseBuilder, CheckDelivered, CheckBlock, CheckLastBid,
             SetUtils, ExpireUtils, SetBid, ExpireBids, SetTime, ExpireTimes,
             SetValue, ExpireValues, ExpireKey, ReadValues, ReadTopBid,
             Record, WriteFails, Return, Goto, boardVars, around
    <2>2. \A g \in Handlers \ {h} : pc'[g] = pc[g] /\ top'[g] = top[g]
      BY <1>1, OthersStay DEF Submit
    <2> QED
      BY <2>1, <2>2
  <1>2. ASSUME NEW h \in Handlers, SetHighest(h)
        PROVE  NewsFit'
    <2>1. /\ pc[h] = "highest" /\ pc'[h] = "publish" /\ top' = top
          /\ highest' = picked[h] /\ pc[h] \in Announcing
      BY <1>0, <1>2 DEF SetHighest, WriteFails, Goto, Announcing
    <2>2. \A g \in Handlers \ {h} : pc'[g] = pc[g] /\ pc[g] \notin Announcing
      BY <1>2, <2>1, OthersStay, Alone DEF Submit
    <2>3. Shows(top[h], picked[h])
      BY <2>1 DEF PicksFit
    <2> QED
      BY <2>1, <2>2, <2>3 DEF Announcing
  <1>3. ASSUME NEW h \in Handlers, Publish(h)
        PROVE  NewsFit'
    <2>1. /\ pc[h] = "publish" /\ pc'[h] = "record" /\ pc[h] \in Announcing
          /\ publisher' = top[h] /\ UNCHANGED <<highest, top>>
      BY <1>0, <1>3 DEF Publish, Goto, boardVars, Announcing
    <2>2. \A g \in Handlers \ {h} : pc'[g] = pc[g] /\ pc[g] \notin Announcing
      BY <1>3, <2>1, OthersStay, Alone DEF Submit
    <2>3. highest # None => Shows(top[h], highest) /\ top[h] # None
      BY <1>0, <2>1
    <2> QED
      BY <2>1, <2>2, <2>3 DEF Announcing
  <1>4. CASE PublishBulletinBoard
    <2>1. /\ publisher # None /\ publisher' = None /\ shown' = publisher
          /\ UNCHANGED <<highest, pc, top>>
      BY <1>0, <1>4 DEF PublishBulletinBoard, boardVars, handlerVars
    <2> QED
      BY <2>1
  <1>5. CASE HeadEvent \/ PutPayloadDelivered
    <2>1. UNCHANGED <<highest, publisher, shown, pc, top>>
      BY <1>5 DEF HeadEvent, PutPayloadDelivered, boardVars, handlerVars,
                  auctionVars, around
    <2> QED
      BY <2>1
  <1>6. CASE TimePasses
    <2>1. /\ highest' \in {highest, None}
          /\ UNCHANGED <<publisher, shown, pc, top>>
      BY <1>6 DEF TimePasses, Tick, auctionVars, handlerVars, around
    <2> QED
      BY <2>1
  <1>7. CASE Restart
    BY <1>0, <1>7 DEF Restart
  <1>8. CASE UNCHANGED vars
    BY <1>8 DEF vars, boardVars, auctionVars, handlerVars, around
  <1> QED
    BY <1>1, <1>2, <1>3, <1>4, <1>5, <1>6, <1>7, <1>8
       DEF Next, Submit, Waiting

\* One submission at a time in the section, and until a call fails, what
\* builders saw last on the bulletin board is, between submissions, the bid
\* the proposer will get.
THEOREM MutexShowsHighest == Spec => TurnsShowHighest
  <1>1. Init => Typed /\ ShownInv
    BY InitTyped
       DEF Init, BoardInit, ShownInv, ValuesFit, Writing, PicksFit, NewsFit
  <1>2. Typed /\ ShownInv /\ OneAtATime(Announcing) /\ [Next]_vars
          => Typed' /\ ShownInv'
    BY NextTyped, NextValuesFit, NextPicksFit, NextNewsFit, FailuresStay
       DEF ShownInv
  <1>3. ShownInv => ShownIsHighest
    <2> SUFFICES ASSUME ShownInv, Quiet, failures = 0, highest # None
                 PROVE  shown = [builder |-> highest.builder,
                                 value |-> highest.value]
      BY DEF ShownIsHighest
    <2>1. Shows(shown, highest)
      BY DEF ShownInv, NewsFit, Quiet
    <2> QED
      BY <2>1 DEF Shows, TopBid
  <1> QED
    BY <1>1, <1>2, <1>3, PTL DEF Spec, TurnsShowHighest

\* The same of a relay that serves its submissions one after the other.
THEOREM SerialShownIsHighest ==
  ASSUME NEW h, Handlers = {h}
  PROVE  Spec => []ShownIsHighest
  <1>1. OneAtATime(Announcing)
    BY DEF OneAtATime
  <1> QED
    BY <1>1, MutexShowsHighest, PTL DEF TurnsShowHighest

-----------------------------------------------------------------------------
(* The time of a builder's last bid, and that of a bid about to replace it. *)

ArrivedBefore ==
    /\ \A b \in Builders : times[b] # None => times[b] <= now
    /\ \A h \in Handlers : received[h] <= now

OverwritesOlder ==
    \A h \in Handlers :
        pc[h] \in Checked /\ times[sub[h].builder] # None =>
            times[sub[h].builder] <= received[h]

LatestInv == ArrivedBefore /\ (failures = 0 => OverwritesOlder)

LEMMA NextArrivedBefore ==
  ASSUME Typed, ArrivedBefore, [Next]_vars
  PROVE  ArrivedBefore'
  <1>0. /\ now \in Nat
        /\ times \in [Builders -> Nat \cup {None}]
        /\ received \in [Handlers -> Nat]
    BY DEF Typed, TypeOK, BoardTypeOK
  <1> USE DEF ArrivedBefore
  <1>1. ASSUME NEW h \in Handlers, Receive(h) \/ Submit(h)
        PROVE  ArrivedBefore'
    <2>1. now' = now /\ received'[h] \in {received[h], now, 0}
      BY <1>0, <1>1
         DEF Receive, Submit, RefuseBuilder, CheckDelivered, CheckBlock,
             CheckLastBid, SetUtils, ExpireUtils, SetBid, ExpireBids, SetTime,
             ExpireTimes, SetValue, ExpireValues, ExpireKey, ReadValues,
             ReadTopBid, SetHighest, Publish, Record, WriteFails, Return,
             Goto, boardVars
    <2>2. \A g \in Handlers \ {h} : received'[g] = received[g]
      BY <1>1, OthersStay
    <2>3. \/ times' = times
          \/ times' = [times EXCEPT ![sub[h].builder] = received[h]]
      BY <1>1
         DEF Receive, Submit, RefuseBuilder, CheckDelivered, CheckBlock,
             CheckLastBid, SetUtils, ExpireUtils, SetBid, ExpireBids, SetTime,
             ExpireTimes, SetValue, ExpireValues, ExpireKey, ReadValues,
             ReadTopBid, SetHighest, Publish, Record, boardVars
    <2>4. \A b \in Builders : times'[b] \in {times[b], received[h]}
      BY <1>0, <2>3
    <2> QED
      BY <1>0, <2>1, <2>2, <2>4
  <1>2. CASE PublishBulletinBoard \/ HeadEvent \/ PutPayloadDelivered
    BY <1>2 DEF PublishBulletinBoard, HeadEvent, PutPayloadDelivered,
                boardVars, handlerVars, auctionVars
  <1>3. CASE TimePasses
    <2>1. /\ now' = now + 1 /\ received' = received
          /\ times' \in {times, [b \in Builders |-> None]}
      BY <1>3 DEF TimePasses, Tick, auctionVars, handlerVars
    <2> QED
      BY <1>0, <2>1
  <1>4. CASE Restart
    BY <1>0, <1>4 DEF Restart
  <1>5. CASE UNCHANGED vars
    BY <1>5 DEF vars, boardVars, auctionVars, handlerVars
  <1> QED
    BY <1>1, <1>2, <1>3, <1>4, <1>5 DEF Next, Waiting

LEMMA NextOverwritesOlder ==
  ASSUME Typed, OneAtATime(Checked), ArrivedBefore, OverwritesOlder,
         [Next]_vars, failures' = 0
  PROVE  OverwritesOlder'
  <1>0. /\ pc \in [Handlers -> Labels]
        /\ sub \in [Handlers -> Submissions \cup {None}]
        /\ received \in [Handlers -> Nat]
        /\ times \in [Builders -> Nat \cup {None}]
        /\ ~ CallFails
    BY FailedStep DEF Typed, TypeOK, BoardTypeOK
  <1>a. ASSUME NEW h \in Handlers, pc[h] # "idle"
        PROVE  sub[h].builder \in Builders
    BY <1>a, SubmissionFields DEF Typed, Carried
  <1> USE DEF OverwritesOlder, Checked
  <1>1. ASSUME NEW h \in Handlers,
               \/ Receive(h)
               \/ RefuseBuilder(h) \/ CheckDelivered(h) \/ CheckBlock(h)
               \/ ExpireTimes(h) \/ SetValue(h) \/ ExpireValues(h)
               \/ ReadValues(h) \/ ReadTopBid(h) \/ SetHighest(h)
               \/ Publish(h) \/ Record(h)
        PROVE  OverwritesOlder'
    <2>1. times' = times /\ pc'[h] \notin Checked
      BY <1>0, <1>1
         DEF Receive, RefuseBuilder, CheckDelivered, CheckBlock, ExpireTimes,
             SetValue, ExpireValues, ExpireKey, ReadValues, ReadTopBid,
             SetHighest, Publish, Record, WriteFails, Return, Goto, boardVars
    <2>2. \A g \in Handlers \ {h} :
              pc'[g] = pc[g] /\ sub'[g] = sub[g] /\ received'[g] = received[g]
      BY <1>1, OthersStay DEF Submit
    <2> QED
      BY <2>1, <2>2
  <1>2. ASSUME NEW h \in Handlers, CheckLastBid(h)
        PROVE  OverwritesOlder'
    <2>1. /\ times' = times /\ sub' = sub /\ received' = received
          /\ pc'[h] \in Checked /\ times[sub[h].builder] # None
                => times[sub[h].builder] <= received[h]
      BY <1>0, <1>2, <1>a DEF CheckLastBid, Goto, boardVars
    <2>2. \A g \in Handlers \ {h} : pc'[g] = pc[g]
      BY <1>2, OthersStay DEF Submit
    <2> QED
      BY <2>1, <2>2
  <1>3. ASSUME NEW h \in Handlers,
               SetUtils(h) \/ ExpireUtils(h) \/ SetBid(h) \/ ExpireBids(h)
        PROVE  OverwritesOlder'
    <2>1. times' = times /\ sub' = sub /\ received' = received
          /\ pc[h] \in Checked
      BY <1>3 DEF SetUtils, ExpireUtils, SetBid, ExpireBids, ExpireKey,
                  WriteFails, Goto
    <2>2. \A g \in Handlers \ {h} : pc'[g] = pc[g]
      BY <1>3, OthersStay DEF Submit
    <2> QED
      BY <2>1, <2>2
  <1>4. ASSUME NEW h \in Handlers, SetTime(h)
        PROVE  OverwritesOlder'
    <2>1. pc[h] \in Checked /\ pc'[h] \notin Checked
      BY <1>0, <1>4 DEF SetTime, WriteFails, Goto, Checked
    <2>2. \A g \in Handlers \ {h} : pc'[g] = pc[g] /\ pc[g] \notin Checked
      BY <1>4, <2>1, OthersStay, Alone DEF Submit
    <2> QED
      BY <2>1, <2>2 DEF Checked
  <1>5. CASE PublishBulletinBoard \/ HeadEvent \/ PutPayloadDelivered
    BY <1>5 DEF PublishBulletinBoard, HeadEvent, PutPayloadDelivered,
                boardVars, handlerVars, auctionVars
  <1>6. CASE TimePasses
    <2>1. /\ times' \in {times, [b \in Builders |-> None]}
          /\ UNCHANGED <<pc, sub, received>>
      BY <1>6 DEF TimePasses, Tick, auctionVars, handlerVars
    <2>2. \A h \in Handlers : pc[h] \in Checked => sub[h].builder \in Builders
      BY <1>a
    <2>3. \A b \in Builders : times'[b] \in {times[b], None}
      BY <2>1
    <2> QED
      BY <2>1, <2>2, <2>3
  <1>7. CASE Restart
    BY <1>0, <1>7 DEF Restart
  <1>8. CASE UNCHANGED vars
    BY <1>8 DEF vars, boardVars, auctionVars, handlerVars
  <1> QED
    BY <1>1, <1>2, <1>3, <1>4, <1>5, <1>6, <1>7, <1>8
       DEF Next, Submit, Waiting

\* What a handler has checked stands until it writes: then a write of a bid's
\* time never takes a builder's time back.
LEMMA WritesLater ==
  ASSUME Typed, OverwritesOlder, [Next]_vars,
         NEW b \in Builders, times[b] # None, times'[b] # None
  PROVE  times'[b] >= times[b]
  <1>0. /\ times \in [Builders -> Nat \cup {None}]
        /\ received \in [Handlers -> Nat]
    BY DEF Typed, TypeOK, BoardTypeOK
  <1>1. ASSUME NEW h \in Handlers, SetTime(h)
        PROVE  times'[b] >= times[b]
    <2>1. /\ pc[h] \in Checked
          /\ \/ times' = times
             \/ times' = [times EXCEPT ![sub[h].builder] = received[h]]
      BY <1>1 DEF SetTime, Checked
    <2>2. times[sub[h].builder] # None =>
              times[sub[h].builder] <= received[h]
      BY <2>1 DEF OverwritesOlder
    <2>3. times[b] \in Nat /\ received[h] \in Nat
      BY <1>0
    <2> QED
      BY <1>0, <2>1, <2>2, <2>3
  <1>2. ASSUME NEW h \in Handlers, Receive(h) \/ Submit(h), ~ SetTime(h)
        PROVE  times' = times
    BY <1>2
       DEF Receive, Submit, RefuseBuilder, CheckDelivered, CheckBlock,
           CheckLastBid, SetUtils, ExpireUtils, SetBid, ExpireBids,
           ExpireTimes, SetValue, ExpireValues, ExpireKey, ReadValues,
           ReadTopBid, SetHighest, Publish, Record, boardVars
  <1>3. CASE PublishBulletinBoard \/ HeadEvent \/ PutPayloadDelivered
    BY <1>0, <1>3 DEF PublishBulletinBoard, HeadEvent, PutPayloadDelivered,
                boardVars
  <1>4. CASE TimePasses
    BY <1>0, <1>4 DEF TimePasses, Tick
  <1>5. CASE Restart
    BY <1>5 DEF Restart
  <1>6. CASE UNCHANGED vars
    BY <1>0, <1>6 DEF vars, boardVars
  <1> QED
    BY <1>0, <1>1, <1>2, <1>3, <1>4, <1>5, <1>6 DEF Next, Submit, Waiting

\* One submission at a time in the section, and while no call fails, no bid
\* of a builder is replaced by one that arrived in an earlier second.  A call
\* that fails may be the very check: handleSubmitBlock then goes on.
THEOREM MutexKeepsLatest ==
  Spec /\ []OneAtATime(Checked) /\ [](failures = 0) => LatestBidKept
  <1>1. Init => Typed /\ LatestInv
    BY InitTyped
       DEF Init, BoardInit, LatestInv, ArrivedBefore, OverwritesOlder, Checked
  <1>2. Typed /\ LatestInv /\ OneAtATime(Checked) /\ [Next]_vars
          => Typed' /\ LatestInv'
    BY NextTyped, NextArrivedBefore, NextOverwritesOlder, FailuresStay
       DEF LatestInv
  <1>3. Typed /\ LatestInv /\ failures = 0 /\ [Next]_vars =>
          [\A b \in Builders :
              times[b] # None /\ times'[b] # None => times'[b] >= times[b]]_vars
    BY WritesLater DEF LatestInv
  <1> QED
    BY <1>1, <1>2, <1>3, PTL DEF Spec, LatestBidKept
=============================================================================
