-------------------------- MODULE BookkeepingProofs -------------------------
(***************************************************************************)
(* What the handlers owe once they have written: a time to live for each   *)
(* key of the board, and a row for each submission admitted.  A call that  *)
(* fails leaves a bounded debt, counted here.  With these bounds, the      *)
(* whole inductive invariant of Auction is proved.                         *)
(***************************************************************************)
EXTENDS WinnerProofs, FiniteSetTheorems

\* No step takes a failure back, and one that fails a call is counted.
LEMMA FailuresCount ==
  ASSUME Typed, [Next]_vars
  PROVE  /\ failures \in Nat
         /\ failures' \in {failures, failures + 1}
         /\ CallFails => failures' = failures + 1
  <1>1. failures' = failures \/ CallFails
    BY DEF Next, Submit, Waiting, Receive, RefuseBuilder, CheckDelivered,
           CheckBlock, CheckLastBid, SetUtils, ExpireUtils, SetBid, ExpireBids,
           SetTime, ExpireTimes, SetValue, ExpireValues, ExpireKey, ReadValues,
           ReadTopBid, SetHighest, Publish, Record, PublishBulletinBoard,
           HeadEvent, PutPayloadDelivered, TimePasses, Restart, WriteFails,
           CallWorks, auctionVars, vars
  <1> QED
    BY <1>1 DEF CallFails, Typed, TypeOK

-----------------------------------------------------------------------------
(* Rows. *)

InHand == Saving \cup {"record"}
Held == {sub[h] : h \in Handlers}

\* A step that admits nobody, and leaves every handler that owes a row owing
\* it, loses none.
LEMMA HandsKept ==
  ASSUME UNCHANGED <<recorded, admitted>>,
         \A g \in Handlers :
            pc[g] \in InHand => pc'[g] \in InHand /\ sub'[g] = sub[g]
  PROVE  Unrecorded' \subseteq Unrecorded
  BY DEF Unrecorded, InHand

\* The rows that a step may lose are of submissions that handlers hold.
LEMMA NextUnrecorded ==
  ASSUME Typed, [Next]_vars
  PROVE  \/ Unrecorded' \subseteq Unrecorded
         \/ CallFails /\ Unrecorded' \subseteq Unrecorded \cup Held
  <1>0. /\ pc \in [Handlers -> Labels]
        /\ sub \in [Handlers -> Submissions \cup {None}]
    BY DEF Typed, TypeOK
  <1>1. ASSUME NEW h \in Handlers,
               \/ Receive(h) \/ RefuseBuilder(h) \/ CheckDelivered(h)
               \/ CheckBlock(h)
        PROVE  Unrecorded' \subseteq Unrecorded
    <2> USE DEF Receive, RefuseBuilder, CheckDelivered, CheckBlock
    <2>1. UNCHANGED <<recorded, admitted>>
      BY <1>1 DEF around
    <2>2. pc[h] \notin InHand
      BY <1>1 DEF InHand, Saving
    <2>3. \A g \in Handlers \ {h} : pc'[g] = pc[g] /\ sub'[g] = sub[g]
      BY <1>0, <1>1 DEF Return, Goto
    <2> QED
      BY ONLY <2>1, <2>2, <2>3, HandsKept
  <1>2. ASSUME NEW h \in Handlers, CheckLastBid(h)
        PROVE  Unrecorded' \subseteq Unrecorded
    <2>1. CASE Goto(h, "record") /\ UNCHANGED admitted
      BY <1>0, <1>2, <2>1, HandsKept
         DEF CheckLastBid, InHand, Saving, Goto, around
    <2>2. CASE Goto(h, "utils") /\ admitted' = admitted \cup {sub[h]}
      <3>1. /\ recorded' = recorded /\ sub' = sub /\ pc[h] = "last"
            /\ pc' = [pc EXCEPT ![h] = "utils"]
        BY <1>2, <2>2 DEF CheckLastBid, Goto, around
      <3>2. pc'[h] \in Saving /\ pc[h] \notin Saving \cup {"record"}
        BY <1>0, <3>1 DEF Saving
      <3> QED
        BY <1>0, <2>2, <3>1, <3>2 DEF Unrecorded
    <2> QED
      BY <1>2, <2>1, <2>2 DEF CheckLastBid
  <1>3. ASSUME NEW h \in Handlers,
               \/ SetUtils(h) \/ SetBid(h) \/ SetTime(h) \/ SetValue(h)
               \/ ExpireUtils(h) \/ ExpireBids(h) \/ ExpireTimes(h)
               \/ ExpireValues(h) \/ ReadValues(h) \/ ReadTopBid(h)
               \/ SetHighest(h) \/ Publish(h)
        PROVE  Unrecorded' \subseteq Unrecorded
    <2> USE DEF SetUtils, SetBid, SetTime, SetValue, ExpireUtils, ExpireBids,
                ExpireTimes, ExpireValues, ExpireKey, ReadValues, ReadTopBid,
                SetHighest, Publish
    <2>1. UNCHANGED <<recorded, admitted, sub>>
      BY <1>3 DEF around, WriteFails, Goto
    <2>2. \E l \in InHand : pc' = [pc EXCEPT ![h] = l]
      BY <1>3 DEF WriteFails, Goto, InHand, Saving
    <2> QED
      BY ONLY <1>0, <2>1, <2>2, HandsKept
  <1>4. ASSUME NEW h \in Handlers, Record(h)
        PROVE  \/ Unrecorded' \subseteq Unrecorded
               \/ CallFails /\ Unrecorded' \subseteq Unrecorded \cup Held
    <2>1. \A g \in Handlers \ {h} : sub'[g] = sub[g] /\ pc'[g] = pc[g]
      BY <1>0, <1>4 DEF Record, Return
    <2>2. CASE recorded' = recorded \cup {sub[h]}
      BY <1>4, <2>1, <2>2 DEF Record, Unrecorded
    <2>3. CASE CallFails /\ UNCHANGED recorded
      BY <1>4, <2>1, <2>3 DEF Record, Unrecorded, Held
    <2> QED
      BY <1>4, <2>2, <2>3 DEF Record
  <1>5. CASE \/ PublishBulletinBoard \/ HeadEvent \/ PutPayloadDelivered
             \/ TimePasses \/ UNCHANGED vars
    <2>1. UNCHANGED <<recorded, admitted, pc, sub>>
      BY <1>5 DEF PublishBulletinBoard, HeadEvent, PutPayloadDelivered,
                  TimePasses, vars, auctionVars, handlerVars, around
    <2> QED
      BY <2>1, HandsKept
  <1>6. CASE Restart
    BY <1>6 DEF Restart, Unrecorded, Held
  <1> QED
    BY <1>1, <1>2, <1>3, <1>4, <1>5, <1>6 DEF Next, Submit, Waiting

\* There are no more of them than handlers.
LEMMA FewHeld ==
  ASSUME Typed
  PROVE  IsFiniteSet(Held) /\ Cardinality(Held) <= Cardinality(Handlers)
  <1>1. sub \in Surjection(Handlers, Held)
    BY DEF Typed, TypeOK, Held, Surjection
  <1> QED
    BY <1>1, AuctionAssumption, FS_Surjection

LEMMA NextAdmittedFinite ==
  ASSUME IsFiniteSet(admitted), [Next]_vars
  PROVE  IsFiniteSet(admitted')
  <1>1. admitted' = admitted \/ \E s : admitted' = admitted \cup {s}
    BY DEF Next, Submit, Waiting, Receive, RefuseBuilder, CheckDelivered,
           CheckBlock, CheckLastBid, SetUtils, ExpireUtils, SetBid, ExpireBids,
           SetTime, ExpireTimes, SetValue, ExpireValues, ExpireKey, ReadValues,
           ReadTopBid, SetHighest, Publish, Record, PublishBulletinBoard,
           HeadEvent, PutPayloadDelivered, TimePasses, Restart, auctionVars,
           vars
  <1> QED
    BY <1>1, FS_AddElement

\* One failure more pays for as many rows as there are handlers.
LEMMA NextFewRowsLost ==
  ASSUME Typed, IsFiniteSet(admitted), FewRowsLost, [Next]_vars
  PROVE  FewRowsLost'
  <1> DEFINE N == Cardinality(Handlers)
             lost == Cardinality(Unrecorded)
  <1>1. IsFiniteSet(Unrecorded) /\ lost \in Nat /\ N \in Nat
    <2>1. Unrecorded \in SUBSET admitted
      BY DEF Unrecorded
    <2>2. IsFiniteSet(Unrecorded)
      BY <2>1, FS_Subset
    <2> QED
      BY <2>2, AuctionAssumption, FS_CardinalityType
  <1>2. lost <= failures * N
    BY DEF FewRowsLost
  <1>3. CASE Unrecorded' \subseteq Unrecorded
    <2>1. Cardinality(Unrecorded') \in Nat /\ Cardinality(Unrecorded') <= lost
      BY <1>1, <1>3, FS_Subset, FS_CardinalityType
    <2>2. failures * N <= failures' * N
      BY <1>1, FailuresCount
    <2> QED
      BY <1>1, <1>2, <2>1, <2>2, FailuresCount DEF FewRowsLost
  <1>4. CASE CallFails /\ Unrecorded' \subseteq Unrecorded \cup Held
    <2> DEFINE all == Unrecorded \cup Held
    <2>1. IsFiniteSet(all) /\ Cardinality(all) <= lost + Cardinality(Held)
      <3>1. IsFiniteSet(Held)
        BY FewHeld
      <3>2. /\ IsFiniteSet(all)
            /\ Cardinality(all) = lost + Cardinality(Held)
                                       - Cardinality(Unrecorded \cap Held)
        BY <1>1, <3>1, FS_Union
      <3>3. IsFiniteSet(Unrecorded \cap Held)
        BY <1>1, FS_Intersection
      <3>4. /\ Cardinality(Unrecorded \cap Held) \in Nat
            /\ Cardinality(Held) \in Nat
        BY <3>1, <3>3, FS_CardinalityType
      <3> QED
        BY <1>1, <3>2, <3>4
    <2>2. /\ Cardinality(Unrecorded') \in Nat /\ Cardinality(all) \in Nat
          /\ Cardinality(Unrecorded') <= Cardinality(all)
      BY <1>4, <2>1, FS_Subset, FS_CardinalityType
    <2>3. Cardinality(Held) \in Nat /\ Cardinality(Held) <= N
      BY FewHeld, FS_CardinalityType
    <2>4. failures' * N = failures * N + N
      BY <1>1, <1>4, FailuresCount
    <2> HIDE DEF all, lost, N
    <2> QED
      BY <1>1, <1>2, <2>1, <2>2, <2>3, <2>4, FailuresCount DEF FewRowsLost, N
  <1> QED
    BY <1>3, <1>4, NextUnrecorded

LEMMA InitRows == Init => IsFiniteSet(admitted) /\ FewRowsLost
  <1> SUFFICES ASSUME Init
               PROVE  IsFiniteSet(admitted) /\ FewRowsLost
    OBVIOUS
  <1>1. Unrecorded = {} /\ admitted = {} /\ failures = 0
    BY DEF Init, Unrecorded
  <1>2. Cardinality(Handlers) \in Nat
    BY AuctionAssumption, FS_CardinalityType
  <1> QED
    BY <1>1, <1>2, FS_EmptySet DEF FewRowsLost

\* However the handlers interleave, a call that fails loses the rows of no more
\* submissions than there are handlers, and while none fails no submission
\* admitted to the auction misses its row: the deferred insert runs on every
\* path out of handleSubmitBlock that comes after its defer statement, whatever
\* the auction does.
THEOREM AdmittedGetRow == Spec => []FewRowsLost
  <1>1. Init => Typed /\ IsFiniteSet(admitted) /\ FewRowsLost
    BY InitTyped, InitRows
  <1>2. Typed /\ IsFiniteSet(admitted) /\ FewRowsLost /\ [Next]_vars
          => Typed' /\ IsFiniteSet(admitted)' /\ FewRowsLost'
    BY NextTyped, NextAdmittedFinite, NextFewRowsLost
  <1> QED
    BY <1>1, <1>2, PTL DEF Spec

-----------------------------------------------------------------------------
(* Times to live. *)

Hashes == [utils |-> utils, bids |-> bids, times |-> times, values |-> values]
TTLLabel == [utils |-> "utilsTTL", bids |-> "bidTTL",
             times |-> "timeTTL", values |-> "valueTTL"]
HashKeys == {"utils", "bids", "times", "values"}

\* The labels of a handler that is about to set the time to live of a hash.
Expiring == {"utilsTTL", "bidTTL", "timeTTL", "valueTTL"}

\* No time to live and nobody about to set one.
Undated(key) ==
    deadline[key] = NoTTL /\ \A h \in Handlers : pc[h] # TTLLabel[key]

LEMMA EndlessIs ==
  /\ Endless = {key \in HashKeys : HashExists(Hashes[key]) /\ Undated(key)}
  /\ Endless' =
        {key \in HashKeys : HashExists(Hashes'[key]) /\ Undated(key)'}
  <1>1. DOMAIN Hashes = HashKeys /\ DOMAIN Hashes' = HashKeys
    BY DEF Hashes, HashKeys
  <1>2. Endless = {key \in DOMAIN Hashes :
                      HashExists(Hashes[key]) /\ Undated(key)}
    BY DEF Endless, Hashes, Undated, TTLLabel
  <1>3. Endless' = {key \in DOMAIN Hashes' :
                       HashExists(Hashes'[key]) /\ Undated(key)'}
    BY DEF Endless, Hashes, Undated, TTLLabel, HashExists
  <1> QED
    BY <1>1, <1>2, <1>3

\* A step adds to the endless hashes only such whose contents or time to live
\* it changes, or whose EXPIRE a handler does not come to any more.
LEMMA EndlessBefore ==
  ASSUME NEW key \in Endless', Hashes'[key] = Hashes[key],
         deadline'[key] = deadline[key],
         \A g \in Handlers : pc[g] = TTLLabel[key] => pc'[g] = pc[g]
  PROVE  key \in Endless
  BY EndlessIs DEF Undated

\* A handler that is not about to set a time to live may go anywhere.
LEMMA NoneEndless ==
  ASSUME UNCHANGED Hashes, UNCHANGED deadline,
         \A g \in Handlers : pc[g] \in Expiring => pc'[g] = pc[g]
  PROVE  Endless' \subseteq Endless
  <1> SUFFICES ASSUME NEW key \in Endless'
               PROVE  key \in Endless
    OBVIOUS
  <1>1. TTLLabel[key] \in Expiring
    BY EndlessIs DEF HashKeys, TTLLabel, Expiring
  <1> QED
    BY <1>1, EndlessBefore

\* What an HSET of one hash does, be it answered or not.
LEMMA SetEndless ==
  ASSUME NEW h \in Handlers, pc \in [Handlers -> Labels], NEW key \in HashKeys,
         pc[h] \notin Expiring, UNCHANGED deadline,
         \A k \in HashKeys \ {key} : Hashes'[k] = Hashes[k],
         \/ Goto(h, TTLLabel[key])
         \/ CallFails /\ Goto(h, "record")
  PROVE  \/ Endless' \subseteq Endless
         \/ CallFails /\ Endless' \subseteq Endless \cup {key}
  <1>1. \A g \in Handlers \ {h} : pc'[g] = pc[g]
    BY DEF Goto
  <1>2. ASSUME NEW k \in Endless', k # key
        PROVE  k \in Endless
    <2>1. k \in HashKeys /\ TTLLabel[k] \in Expiring
      BY EndlessIs DEF HashKeys, TTLLabel, Expiring
    <2> QED
      BY <1>1, <1>2, <2>1, EndlessBefore
  <1>3. Goto(h, TTLLabel[key]) => key \notin Endless'
    BY EndlessIs DEF Goto, Undated
  <1> QED
    BY <1>2, <1>3

\* What an EXPIRE of one hash does, be it answered or not.
LEMMA ExpireEndless ==
  ASSUME Typed, NEW h \in Handlers, NEW key \in HashKeys,
         pc[h] = TTLLabel[key], UNCHANGED Hashes, NEW l \in Labels,
         \/ deadline' = Expire(key, HashExists(Hashes[key])) /\ Goto(h, l)
         \/ /\ CallFails /\ Goto(h, "record")
            /\ deadline' \in {deadline, Expire(key, HashExists(Hashes[key]))}
  PROVE  \/ Endless' \subseteq Endless
         \/ CallFails /\ Endless' \subseteq Endless \cup {key}
  <1>0. deadline \in [Keys -> Nat] /\ pc \in [Handlers -> Labels]
    BY DEF Typed, TypeOK, BoardTypeOK
  <1>1. \A g \in Handlers \ {h} : pc'[g] = pc[g]
    BY <1>0 DEF Goto
  <1>2. \A k \in HashKeys \ {key} : deadline'[k] = deadline[k]
    BY <1>0 DEF Expire, HashKeys, Keys
  <1>3. ASSUME NEW k \in Endless', k # key
        PROVE  k \in Endless
    <2>1. k \in HashKeys /\ TTLLabel[k] # TTLLabel[key]
      BY <1>3, EndlessIs DEF HashKeys, TTLLabel
    <2> QED
      BY <1>1, <1>2, <1>3, <2>1, EndlessBefore
  <1>4. deadline' = Expire(key, HashExists(Hashes[key])) => key \notin Endless'
    <2>1. now + BidTimeout # NoTTL
      <3>1. now \in 0..MaxTime
        BY DEF Typed, TypeOK, BoardTypeOK
      <3> QED
        BY ONLY <3>1, TimeAssumption DEF NoTTL
    <2>2. CASE HashExists(Hashes[key])
      BY <1>0, <2>1, <2>2, EndlessIs DEF Expire, Undated, Keys, HashKeys
    <2>3. CASE ~ HashExists(Hashes[key])
      BY <2>3, EndlessIs
    <2> QED
      BY <2>2, <2>3
  <1> QED
    BY <1>3, <1>4

\* The key that a step may leave without a time to live.
LEMMA NextEndless ==
  ASSUME Typed, [Next]_vars
  PROVE  \/ Endless' \subseteq Endless
         \/ CallFails /\ \E key \in HashKeys :
                            Endless' \subseteq Endless \cup {key}
  <1>0. pc \in [Handlers -> Labels]
    BY DEF Typed, TypeOK
  <1>1. ASSUME NEW h \in Handlers,
               \/ Receive(h) \/ RefuseBuilder(h) \/ CheckDelivered(h)
               \/ CheckBlock(h) \/ CheckLastBid(h) \/ ReadValues(h)
               \/ ReadTopBid(h) \/ Publish(h) \/ Record(h)
        PROVE  Endless' \subseteq Endless
    <2> USE DEF Receive, RefuseBuilder, CheckDelivered, CheckBlock,
                CheckLastBid, ReadValues, ReadTopBid, Publish, Record
    <2>1. UNCHANGED Hashes /\ UNCHANGED deadline
      BY <1>1 DEF boardVars, Hashes
    <2>2. pc[h] \notin Expiring /\ \E l : pc' = [pc EXCEPT ![h] = l]
      BY <1>1 DEF Goto, Return, Expiring
    <2> QED
      BY ONLY <1>0, <2>1, <2>2, NoneEndless
  <1>2. ASSUME NEW h \in Handlers, SetUtils(h) \/ SetBid(h) \/ SetTime(h)
                                     \/ SetValue(h)
        PROVE  \/ Endless' \subseteq Endless
               \/ CallFails /\ \E key \in HashKeys :
                                  Endless' \subseteq Endless \cup {key}
    <2>1. pc[h] \notin Expiring /\ UNCHANGED deadline
      BY <1>2 DEF SetUtils, SetBid, SetTime, SetValue, Expiring
    <2>2. PICK key \in HashKeys :
             /\ \A k \in HashKeys \ {key} : Hashes'[k] = Hashes[k]
             /\ Goto(h, TTLLabel[key]) \/ (CallFails /\ Goto(h, "record"))
      <3> USE DEF WriteFails, Hashes, HashKeys, TTLLabel
      <3>1. CASE SetUtils(h)
        BY <3>1 DEF SetUtils
      <3>2. CASE SetBid(h)
        BY <3>2 DEF SetBid
      <3>3. CASE SetTime(h)
        BY <3>3 DEF SetTime
      <3>4. CASE SetValue(h)
        BY <3>4 DEF SetValue
      <3> QED
        BY <1>2, <3>1, <3>2, <3>3, <3>4
    <2> QED
      BY <1>0, <2>1, <2>2, SetEndless
  <1>3. ASSUME NEW h \in Handlers, ExpireUtils(h) \/ ExpireBids(h)
                                     \/ ExpireTimes(h) \/ ExpireValues(h)
        PROVE  \/ Endless' \subseteq Endless
               \/ CallFails /\ \E key \in HashKeys :
                                  Endless' \subseteq Endless \cup {key}
    <2>1. UNCHANGED Hashes
      BY <1>3 DEF ExpireUtils, ExpireBids, ExpireTimes, ExpireValues,
                  ExpireKey, Hashes
    <2>2. PICK key \in HashKeys :
             /\ pc[h] = TTLLabel[key]
             /\ \E l \in Labels :
                  \/ /\ deadline' = Expire(key, HashExists(Hashes[key]))
                     /\ Goto(h, l)
                  \/ /\ CallFails /\ Goto(h, "record")
                     /\ deadline' \in
                          {deadline, Expire(key, HashExists(Hashes[key]))}
      <3> USE DEF ExpireKey, WriteFails, Hashes, HashKeys, TTLLabel, Labels
      <3>1. CASE ExpireUtils(h)
        BY <3>1 DEF ExpireUtils
      <3>2. CASE ExpireBids(h)
        BY <3>2 DEF ExpireBids
      <3>3. CASE ExpireTimes(h)
        BY <3>3 DEF ExpireTimes
      <3>4. CASE ExpireValues(h)
        BY <3>4 DEF ExpireValues
      <3> QED
        BY <1>3, <3>1, <3>2, <3>3, <3>4
    <2> QED
      BY <2>1, <2>2, ExpireEndless
  <1>4. ASSUME NEW h \in Handlers, SetHighest(h)
        PROVE  Endless' \subseteq Endless
    <2>1. UNCHANGED Hashes
      BY <1>4 DEF SetHighest, Hashes
    <2>2. pc[h] \notin Expiring /\ \E l : pc' = [pc EXCEPT ![h] = l]
      BY <1>4 DEF SetHighest, WriteFails, Goto, Expiring
    <2>3. \A k \in HashKeys : deadline'[k] = deadline[k]
      BY <1>4 DEF SetHighest, Expire, Typed, TypeOK, BoardTypeOK, Keys, HashKeys
    <2>4. \A k \in HashKeys : TTLLabel[k] \in Expiring
      BY DEF HashKeys, TTLLabel, Expiring
    <2>5. Endless' \subseteq HashKeys
      BY EndlessIs
    <2> QED
      BY <1>0, <2>1, <2>2, <2>3, <2>4, <2>5, EndlessBefore
  <1>5. CASE \/ PublishBulletinBoard \/ HeadEvent \/ PutPayloadDelivered
             \/ UNCHANGED vars
    <2>1. UNCHANGED Hashes /\ UNCHANGED <<deadline, pc>>
      BY <1>5 DEF PublishBulletinBoard, HeadEvent, PutPayloadDelivered, vars,
                  auctionVars, handlerVars, boardVars, Hashes
    <2> QED
      BY <2>1, NoneEndless
  <1>6. CASE TimePasses
    <2>1. UNCHANGED pc
      BY <1>6 DEF TimePasses, auctionVars, handlerVars
    <2>2. ASSUME NEW key \in HashKeys, Lapses(key)
          PROVE  ~ HashExists(Hashes'[key])
      BY <1>6, <2>2
         DEF TimePasses, Tick, HashExists, HashKeys, Hashes
    <2>3. ASSUME NEW key \in HashKeys, ~ Lapses(key)
          PROVE  Hashes'[key] = Hashes[key] /\ deadline'[key] = deadline[key]
      BY <1>6, <2>3 DEF TimePasses, Tick, HashKeys, Keys, Hashes
    <2> QED
      BY <2>1, <2>2, <2>3, EndlessIs, EndlessBefore
  <1>7. CASE Restart
    <2>1. \A key \in HashKeys : ~ HashExists(Hashes'[key])
      BY <1>7 DEF Restart, HashExists, HashKeys, Hashes
    <2> QED
      BY <2>1, EndlessIs
  <1> QED
    BY <1>1, <1>2, <1>3, <1>4, <1>5, <1>6, <1>7 DEF Next, Submit, Waiting

LEMMA EndlessFinite ==
  /\ IsFiniteSet(Endless) /\ Cardinality(Endless) \in Nat
  /\ IsFiniteSet(Endless') /\ Cardinality(Endless') \in Nat
  <1>1. IsFiniteSet(HashKeys)
    <2>1. HashKeys = (({} \cup {"utils"}) \cup {"bids"}) \cup {"times"}
                        \cup {"values"}
      BY DEF HashKeys
    <2> QED
      BY <2>1, FS_EmptySet, FS_AddElement
  <1>2. Endless \subseteq HashKeys /\ Endless' \subseteq HashKeys
    BY EndlessIs
  <1> QED
    BY <1>1, <1>2, FS_Subset, FS_CardinalityType

\* One failure more pays for one hash.
LEMMA NextFewEndlessKeys ==
  ASSUME Typed, FewEndlessKeys, [Next]_vars
  PROVE  FewEndlessKeys'
  <1>1. CASE Endless' \subseteq Endless
    BY <1>1, EndlessFinite, FS_Subset, FailuresCount DEF FewEndlessKeys
  <1>2. ASSUME CallFails, NEW key, Endless' \subseteq Endless \cup {key}
        PROVE  FewEndlessKeys'
    <2>1. /\ IsFiniteSet(Endless \cup {key})
          /\ Cardinality(Endless \cup {key}) <= Cardinality(Endless) + 1
          /\ Cardinality(Endless \cup {key}) \in Nat
      <3>1. /\ IsFiniteSet(Endless \cup {key})
            /\ Cardinality(Endless \cup {key}) =
                  IF key \in Endless THEN Cardinality(Endless)
                                    ELSE Cardinality(Endless) + 1
        BY EndlessFinite, FS_AddElement
      <3> QED
        BY <3>1, EndlessFinite
    <2>2. Cardinality(Endless') <= Cardinality(Endless \cup {key})
      BY <1>2, <2>1, FS_Subset
    <2> QED
      BY <1>2, <2>1, <2>2, EndlessFinite, FailuresCount DEF FewEndlessKeys
  <1> QED
    BY <1>1, <1>2, NextEndless

LEMMA InitFewEndlessKeys == Init => FewEndlessKeys
  <1> SUFFICES ASSUME Init
               PROVE  FewEndlessKeys
    OBVIOUS
  <1>1. Endless = {} /\ failures = 0
    BY EndlessIs DEF Init, BoardInit, HashExists, Hashes, HashKeys
  <1> QED
    BY <1>1, FS_EmptySet DEF FewEndlessKeys

\* A failing call leaves no more than one hash of the slot without a time to
\* live, and while none fails a hash has one, or is about to get it from the
\* handler that has just written it: HSetObj leaves no hash in Redis for good.
THEOREM FewKeysAreEndless == Spec => []FewEndlessKeys
  <1>1. Init => Typed /\ FewEndlessKeys
    BY InitTyped, InitFewEndlessKeys
  <1>2. Typed /\ FewEndlessKeys /\ [Next]_vars => Typed' /\ FewEndlessKeys'
    BY NextTyped, NextFewEndlessKeys
  <1> QED
    BY <1>1, <1>2, PTL DEF Spec

-----------------------------------------------------------------------------
\* The inductive invariant of the auction: everything above at once.
THEOREM InductiveInvariant == Spec => []Inductive
  <1>1. Init => Inductive /\ IsFiniteSet(admitted)
    BY InitTyped, InitRows, InitFewEndlessKeys
       DEF Init, BoardInit, Inductive, Typed, CopiesAdmitted, CopiesServable,
           ValuesBacked, LateStopped, Saving
  <1>2. Inductive /\ IsFiniteSet(admitted) /\ [Next]_vars
          => Inductive' /\ IsFiniteSet(admitted)'
    BY NextTyped, NextLate, NextCopiesAdmitted, NextCopiesServable,
       NextValuesBacked, NextAdmittedFinite, NextFewRowsLost,
       NextFewEndlessKeys
       DEF Inductive, Typed
  <1> QED
    BY <1>1, <1>2, PTL DEF Spec
=============================================================================
