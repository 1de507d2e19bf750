---------------------------- MODULE AuctionProofs ---------------------------
(***************************************************************************)
(* The safety invariants of Auction hold for any number of builders,       *)
(* submissions and handlers, any time-out and any bounds.                  *)
(***************************************************************************)
EXTENDS Auction, TLAPS

USE SubmissionsAssumption, NoneAssumption, TimeAssumption, AuctionAssumption

-----------------------------------------------------------------------------
(* Types. *)

Typed == TypeOK /\ Carried

HandlersTyped ==
    /\ pc \in [Handlers -> Labels]
    /\ sub \in [Handlers -> Submissions \cup {None}]
    /\ received \in [Handlers -> Nat]
    /\ top \in [Handlers -> TopBid \cup {None}]
    /\ picked \in [Handlers -> Submissions \cup {None}]
    /\ late \in [Handlers -> BOOLEAN]
    /\ Carried

\* A return leaves the handlers well typed, and so does a step to a label
\* that asks for nothing the handler does not carry.
LEMMA ReturnTyped ==
  ASSUME NEW h \in Handlers, HandlersTyped, Return(h)
  PROVE  HandlersTyped'
  BY DEF HandlersTyped, Carried, Return, Labels

LEMMA GotoTyped ==
  ASSUME NEW h \in Handlers, NEW l \in Labels \ {"top", "highest"},
         HandlersTyped, Goto(h, l), pc[h] # "idle",
         l = "publish" => top[h] \in TopBid
  PROVE  HandlersTyped'
  BY DEF HandlersTyped, Carried, Goto, Labels

LEMMA CountTyped ==
  ASSUME failures \in 0..MaxFailures, CallWorks \/ CallFails
  PROVE  failures' \in 0..MaxFailures
  BY DEF CallWorks, CallFails

LEMMA InitTyped == Init => Typed
  BY DEF Init, BoardInit, Typed, TypeOK, BoardTypeOK, Carried, Labels, Keys,
         NoTTL

LEMMA NextTyped == Typed /\ [Next]_vars => Typed'
  <1> SUFFICES ASSUME Typed, [Next]_vars
               PROVE  Typed'
    OBVIOUS
  <1>0. HandlersTyped
    BY DEF Typed, TypeOK, HandlersTyped
  <1>1. ASSUME NEW h \in Handlers, Receive(h)
        PROVE  Typed'
    BY <1>1 DEF Receive, boardVars, Typed, TypeOK, BoardTypeOK, Carried, Labels
  <1>2. ASSUME NEW h \in Handlers, RefuseBuilder(h)
        PROVE  Typed'
    BY <1>0, <1>2, ReturnTyped
       DEF RefuseBuilder, boardVars, around, Typed, TypeOK, BoardTypeOK,
           HandlersTyped
  <1>3. ASSUME NEW h \in Handlers, CheckDelivered(h)
        PROVE  Typed'
    <2>1. HandlersTyped' /\ failures' \in 0..MaxFailures
      BY <1>0, <1>3, ReturnTyped, GotoTyped, CountTyped
         DEF CheckDelivered, Labels, Typed, TypeOK
    <2> QED
      BY <1>3, <2>1 DEF CheckDelivered, boardVars, around, Typed, TypeOK,
                        BoardTypeOK, HandlersTyped
  <1>4. ASSUME NEW h \in Handlers, CheckBlock(h)
        PROVE  Typed'
    <2>1. HandlersTyped'
      BY <1>0, <1>4, ReturnTyped, GotoTyped DEF CheckBlock, Labels
    <2> QED
      BY <1>4, <2>1 DEF CheckBlock, boardVars, around, Typed, TypeOK,
                        BoardTypeOK, HandlersTyped
  <1>5. ASSUME NEW h \in Handlers, CheckLastBid(h)
        PROVE  Typed'
    <2>1. HandlersTyped' /\ failures' \in 0..MaxFailures
      BY <1>0, <1>5, GotoTyped, CountTyped
         DEF CheckLastBid, Labels, Typed, TypeOK
    <2>2. admitted' \subseteq Submissions
      BY <1>5 DEF CheckLastBid, Typed, TypeOK, Carried
    <2> QED
      BY <1>5, <2>1, <2>2 DEF CheckLastBid, boardVars, around, Typed, TypeOK,
                              BoardTypeOK, HandlersTyped
  <1>6. ASSUME NEW h \in Handlers, SetUtils(h)
        PROVE  Typed'
    <2>1. HandlersTyped' /\ failures' \in 0..MaxFailures
      BY <1>0, <1>6, GotoTyped, CountTyped
         DEF SetUtils, WriteFails, Labels, Typed, TypeOK
    <2>2. utils' \in [Blocks -> Submissions \cup {None}]
      BY <1>6 DEF SetUtils, Typed, TypeOK, BoardTypeOK, Carried
    <2> QED
      BY <1>6, <2>1, <2>2 DEF SetUtils, around, Typed, TypeOK, BoardTypeOK,
                              HandlersTyped
  <1>7. ASSUME NEW h \in Handlers, SetBid(h)
        PROVE  Typed'
    <2>1. HandlersTyped' /\ failures' \in 0..MaxFailures
      BY <1>0, <1>7, GotoTyped, CountTyped
         DEF SetBid, WriteFails, Labels, Typed, TypeOK
    <2>2. bids' \in [Builders -> Submissions \cup {None}]
      BY <1>7 DEF SetBid, Typed, TypeOK, BoardTypeOK, Carried
    <2> QED
      BY <1>7, <2>1, <2>2 DEF SetBid, around, Typed, TypeOK, BoardTypeOK,
                              HandlersTyped
  <1>8. ASSUME NEW h \in Handlers, SetTime(h)
        PROVE  Typed'
    <2>1. HandlersTyped' /\ failures' \in 0..MaxFailures
      BY <1>0, <1>8, GotoTyped, CountTyped
         DEF SetTime, WriteFails, Labels, Typed, TypeOK
    <2>2. times' \in [Builders -> Nat \cup {None}]
      BY <1>8 DEF SetTime, Typed, TypeOK, BoardTypeOK, Carried
    <2> QED
      BY <1>8, <2>1, <2>2 DEF SetTime, around, Typed, TypeOK, BoardTypeOK,
                              HandlersTyped
  <1>9. ASSUME NEW h \in Handlers, SetValue(h)
        PROVE  Typed'
    <2>1. HandlersTyped' /\ failures' \in 0..MaxFailures
      BY <1>0, <1>9, GotoTyped, CountTyped
         DEF SetValue, WriteFails, Labels, Typed, TypeOK
    <2>2. values' \in [Builders -> Nat \cup {None}]
      BY <1>9 DEF SetValue, Typed, TypeOK, BoardTypeOK, Carried
    <2> QED
      BY <1>9, <2>1, <2>2 DEF SetValue, around, Typed, TypeOK, BoardTypeOK,
                              HandlersTyped
  <1>10. ASSUME NEW h \in Handlers, NEW label \in Labels, NEW key \in Keys,
                NEW exists \in BOOLEAN,
                 NEW next \in Labels \ {"top", "highest", "publish"},
                label # "idle", ExpireKey(h, label, key, exists, next)
         PROVE  Typed'
    <2>1. HandlersTyped' /\ failures' \in 0..MaxFailures
      BY <1>0, <1>10, GotoTyped, CountTyped
         DEF ExpireKey, WriteFails, Labels, Typed, TypeOK
    <2>2. deadline' \in [Keys -> Nat]
      BY <1>10 DEF ExpireKey, Expire, Typed, TypeOK, BoardTypeOK
    <2> QED
      BY <1>10, <2>1, <2>2 DEF ExpireKey, around, Typed, TypeOK, BoardTypeOK,
                               HandlersTyped
  <1>11. ASSUME NEW h \in Handlers,
                \/ ExpireUtils(h) \/ ExpireBids(h)
                \/ ExpireTimes(h) \/ ExpireValues(h)
         PROVE  Typed'
    <2>1. CASE ExpireUtils(h)
      BY ONLY <1>10, <2>1, h \in Handlers
         DEF ExpireUtils, HashExists, Labels, Keys
    <2>2. CASE ExpireBids(h)
      BY ONLY <1>10, <2>2, h \in Handlers
         DEF ExpireBids, HashExists, Labels, Keys
    <2>3. CASE ExpireTimes(h)
      BY ONLY <1>10, <2>3, h \in Handlers
         DEF ExpireTimes, HashExists, Labels, Keys
    <2>4. CASE ExpireValues(h)
      BY ONLY <1>10, <2>4, h \in Handlers
         DEF ExpireValues, HashExists, Labels, Keys
    <2> QED
      BY <1>11, <2>1, <2>2, <2>3, <2>4
  <1>12. ASSUME NEW h \in Handlers, ReadValues(h)
         PROVE  Typed'
    <2>1. failures' \in 0..MaxFailures
      BY <1>12, CountTyped DEF ReadValues, Typed, TypeOK
    <2>2. HandlersTyped'
      <3>1. ASSUME NEW b \in TopBuilders,
                   top' = [top EXCEPT ![h] =
                             [builder |-> b, value |-> values[b]]],
                   pc' = [pc EXCEPT ![h] = "top"],
                   UNCHANGED <<sub, received, picked, late>>
            PROVE  HandlersTyped'
        <4>1. [builder |-> b, value |-> values[b]] \in TopBid
          BY DEF TopBuilders, TopBid, Typed, TypeOK, BoardTypeOK
        <4>2. pc[h] # "idle"
          BY <1>12 DEF ReadValues
        <4> HIDE DEF TopBid
        <4> QED
          BY <1>0, <3>1, <4>1, <4>2 DEF HandlersTyped, Carried, Labels
      <3>2. CASE Goto(h, "record")
        BY <1>0, <1>12, <3>2, GotoTyped DEF ReadValues, Labels
      <3> QED
        BY <1>12, <3>1, <3>2 DEF ReadValues
    <2> QED
      BY <1>12, <2>1, <2>2 DEF ReadValues, boardVars, around, Typed, TypeOK,
                               BoardTypeOK, HandlersTyped
  <1>13. ASSUME NEW h \in Handlers, ReadTopBid(h)
         PROVE  Typed'
    <2>1. failures' \in 0..MaxFailures
      BY <1>13, CountTyped DEF ReadTopBid, Typed, TypeOK
    <2>2. HandlersTyped'
      <3>1. CASE Goto(h, "record")
        BY <1>0, <1>13, <3>1, GotoTyped DEF ReadTopBid, Labels
      <3>2. CASE ~ Goto(h, "record")
        <4>1. top[h].builder \in Builders
          BY <1>13 DEF ReadTopBid, Typed, Carried, TopBid
        <4> QED
          BY <1>13, <3>2, <4>1 DEF ReadTopBid, HandlersTyped, Carried, Labels,
                                   Typed, TypeOK, BoardTypeOK
      <3> QED
        BY <3>1, <3>2
    <2> QED
      BY <1>13, <2>1, <2>2 DEF ReadTopBid, boardVars, around, Typed, TypeOK,
                               BoardTypeOK, HandlersTyped
  <1>14. ASSUME NEW h \in Handlers, SetHighest(h)
         PROVE  Typed'
    <2>1. failures' \in 0..MaxFailures
      BY <1>14, CountTyped DEF SetHighest, WriteFails, Typed, TypeOK
    <2>2. HandlersTyped'
      BY <1>0, <1>14, GotoTyped
         DEF SetHighest, WriteFails, Labels, Typed, Carried
    <2>3. highest' \in Submissions \cup {None} /\ deadline' \in [Keys -> Nat]
      BY <1>14 DEF SetHighest, Expire, Typed, TypeOK, BoardTypeOK
    <2> QED
      BY <1>14, <2>1, <2>2, <2>3
         DEF SetHighest, around, Typed, TypeOK, BoardTypeOK, HandlersTyped
  <1>15. ASSUME NEW h \in Handlers, Publish(h)
         PROVE  Typed'
    <2>1. HandlersTyped'
      BY <1>0, <1>15, GotoTyped DEF Publish, Labels, Typed, Carried
    <2> QED
      BY <1>15, <2>1 DEF Publish, boardVars, Typed, TypeOK, BoardTypeOK,
                         HandlersTyped
  <1>16. ASSUME NEW h \in Handlers, Record(h)
         PROVE  Typed'
    <2>1. HandlersTyped' /\ failures' \in 0..MaxFailures
      BY <1>0, <1>16, ReturnTyped, CountTyped DEF Record, Typed, TypeOK
    <2>2. recorded' \subseteq Submissions
      BY <1>16 DEF Record, Typed, TypeOK, Carried
    <2> QED
      BY <1>16, <2>1, <2>2 DEF Record, boardVars, Typed, TypeOK, BoardTypeOK,
                               HandlersTyped
  <1>17. CASE PublishBulletinBoard
    <2>1. failures' \in 0..MaxFailures
      BY <1>17, CountTyped DEF PublishBulletinBoard, Typed, TypeOK
    <2> QED
      BY <1>17, <2>1 DEF PublishBulletinBoard, boardVars, handlerVars, Typed,
                         TypeOK, BoardTypeOK, Carried
  <1>18. CASE HeadEvent
    BY <1>18 DEF HeadEvent, boardVars, handlerVars, Typed, TypeOK,
                 BoardTypeOK, Carried
  <1>19. CASE PutPayloadDelivered
    BY <1>19 DEF PutPayloadDelivered, auctionVars, handlerVars, around, Typed,
                 TypeOK, BoardTypeOK, Carried
  <1>20. CASE TimePasses
    BY <1>20 DEF TimePasses, Tick, Lapses, NoTTL, auctionVars, handlerVars,
                 around, Typed, TypeOK, BoardTypeOK, Carried
  <1>21. CASE Restart
    BY <1>21 DEF Restart, CallFails, NoTTL, Typed, TypeOK, BoardTypeOK,
                 Carried, Labels
  <1>22. CASE UNCHANGED vars
    BY <1>22 DEF vars, boardVars, auctionVars, handlerVars, around, Typed,
                 TypeOK, BoardTypeOK, Carried
  <1> QED
    BY <1>1, <1>2, <1>3, <1>4, <1>5, <1>6, <1>7, <1>8, <1>9, <1>11, <1>12,
       <1>13, <1>14, <1>15, <1>16, <1>17, <1>18, <1>19, <1>20, <1>21, <1>22
       DEF Next, Submit, Waiting

\* TypeOK holds in every state of the auction.
THEOREM TypeCorrect == Spec => []TypeOK
  <1>1. Init => Typed
    BY InitTyped
  <1>2. Typed /\ [Next]_vars => Typed'
    BY NextTyped
  <1>3. Typed => TypeOK
    BY DEF Typed
  <1> QED
    BY <1>1, <1>2, <1>3, PTL DEF Spec
-----------------------------------------------------------------------------
(* Late requests. *)

\* A handler past its checks stays past them, or returns.
Committed == Saving \cup {"last", "record"}

CommittedStep(h) ==
    \/ CheckLastBid(h)
    \/ SetUtils(h) \/ ExpireUtils(h) \/ SetBid(h) \/ ExpireBids(h)
    \/ SetTime(h) \/ ExpireTimes(h) \/ SetValue(h) \/ ExpireValues(h)
    \/ ReadValues(h) \/ ReadTopBid(h) \/ SetHighest(h) \/ Publish(h)
    \/ Record(h)

LEMMA CommittedFrame ==
  ASSUME NEW h \in Handlers, CommittedStep(h)
  PROVE  /\ pc[h] \in Committed
         /\ \E l \in Labels : pc' = [pc EXCEPT ![h] = l]
         /\ late' = late \/ late' = [late EXCEPT ![h] = FALSE]
         /\ UNCHANGED <<head, delivered>>
  <1> USE DEF Committed, Saving, Labels, Goto, Return, WriteFails, around,
              boardVars
  <1>1. CASE CheckLastBid(h)
    BY <1>1 DEF CheckLastBid
  <1>2. CASE SetUtils(h) \/ SetBid(h) \/ SetTime(h) \/ SetValue(h)
    BY <1>2 DEF SetUtils, SetBid, SetTime, SetValue
  <1>3. CASE \/ ExpireUtils(h) \/ ExpireBids(h)
             \/ ExpireTimes(h) \/ ExpireValues(h)
    BY <1>3 DEF ExpireUtils, ExpireBids, ExpireTimes, ExpireValues, ExpireKey
  <1>4. CASE ReadValues(h) \/ ReadTopBid(h)
    BY <1>4 DEF ReadValues, ReadTopBid
  <1>5. CASE SetHighest(h) \/ Publish(h) \/ Record(h)
    BY <1>5 DEF SetHighest, Publish, Record
  <1> QED
    BY <1>1, <1>2, <1>3, <1>4, <1>5 DEF CommittedStep

LEMMA NextLate == Typed /\ LateStopped /\ [Next]_vars => LateStopped'
  <1> SUFFICES ASSUME Typed, LateStopped, [Next]_vars
               PROVE  LateStopped'
    OBVIOUS
  <1> USE DEF LateStopped, Typed, TypeOK, BoardTypeOK
  <1>1. ASSUME NEW h \in Handlers, Receive(h)
        PROVE  LateStopped'
    BY <1>1 DEF Receive, boardVars
  <1>2. ASSUME NEW h \in Handlers, RefuseBuilder(h)
        PROVE  LateStopped'
    BY <1>2 DEF RefuseBuilder, Return, boardVars, around
  <1>3. ASSUME NEW h \in Handlers, CheckDelivered(h)
        PROVE  LateStopped'
    <2>1. CASE Return(h)
      BY <1>3, <2>1 DEF CheckDelivered, Return, boardVars, around
    <2>2. CASE delivered = None /\ Goto(h, "slot")
      BY <1>3, <2>2 DEF CheckDelivered, Goto, boardVars, around
    <2> QED
      BY <1>3, <2>1, <2>2 DEF CheckDelivered
  <1>4. ASSUME NEW h \in Handlers, CheckBlock(h)
        PROVE  LateStopped'
    <2>1. CASE Return(h)
      BY <1>4, <2>1 DEF CheckBlock, Return, boardVars, around
    <2>2. CASE AuctionSlot \in {head, head + 1} /\ Goto(h, "last")
      <3>1. ~ (head > AuctionSlot)
        BY <2>2
      <3>2. ~ late[h]
        BY <1>4, <3>1 DEF CheckBlock
      <3> QED
        BY <1>4, <2>2, <3>2 DEF CheckBlock, Goto, boardVars, around
    <2> QED
      BY <1>4, <2>1, <2>2 DEF CheckBlock
  <1>5. ASSUME NEW h \in Handlers, CommittedStep(h)
        PROVE  LateStopped'
    BY <1>5, CommittedFrame DEF Committed, Saving
  <1>6. CASE PublishBulletinBoard
    BY <1>6 DEF PublishBulletinBoard, boardVars, handlerVars
  <1>7. CASE HeadEvent
    BY <1>7 DEF HeadEvent, boardVars, handlerVars
  <1>8. CASE PutPayloadDelivered
    <2>1. delivered' # None
      BY <1>8 DEF PutPayloadDelivered
    <2> QED
      BY <1>8, <2>1 DEF PutPayloadDelivered, auctionVars, handlerVars, around
  <1>9. CASE TimePasses
    BY <1>9 DEF TimePasses, Tick, auctionVars, handlerVars, around
  <1>10. CASE Restart
    BY <1>10 DEF Restart
  <1>11. CASE UNCHANGED vars
    BY <1>11 DEF vars, boardVars, auctionVars, handlerVars, around
  <1> QED
    BY <1>1, <1>2, <1>3, <1>4, <1>5, <1>6, <1>7, <1>8, <1>9, <1>10, <1>11
       DEF Next, Submit, CommittedStep, Waiting

\* A submission that arrives when its slot has been delivered, or has passed,
\* is never saved on the board: handleSubmitBlock reads the delivered mark and
\* the head after the request has come in, and neither is ever taken back.
THEOREM LateSafe == Spec => []LateNeverAdmitted
  <1>1. Init => Typed /\ LateStopped
    BY InitTyped DEF Init, LateStopped
  <1>2. Typed /\ LateStopped /\ [Next]_vars => Typed' /\ LateStopped'
    BY NextTyped, NextLate
  <1>3. LateStopped => LateNeverAdmitted
    BY DEF LateStopped, LateNeverAdmitted, Saving
  <1> QED
    BY <1>1, <1>2, <1>3, PTL DEF Spec
=============================================================================
