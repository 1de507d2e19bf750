----------------------------- MODULE HeadProofs -----------------------------
(***************************************************************************)
(* What the relay knows around the head, for any number of nodes, epochs   *)
(* of any length and any horizon that is at least as long as an epoch.     *)
(***************************************************************************)
EXTENDS HeadTracker, TLAPS

-----------------------------------------------------------------------------
(* Epochs. *)

LEMMA TimesMonotone ==
  ASSUME NEW n \in Nat \ {0}, NEW a \in Int, NEW b \in Int, a < b
  PROVE  a * n + n <= b * n
  <1>1. PICK d \in Nat : b = a + 1 + d
    <2>1. b - a - 1 \in Nat /\ b = a + 1 + (b - a - 1)
      OBVIOUS
    <2> QED
      BY <2>1
  <1>2. b * n = a * n + n + d * n
    BY <1>1
  <1>3. d * n \in Nat /\ a * n \in Int /\ b * n \in Int
    OBVIOUS
  <1> QED
    BY <1>2, <1>3

LEMMA Division ==
  ASSUME NEW n \in Int, n > 0, NEW s \in Int
  PROVE  s = n * (s \div n) + (s % n)
  OBVIOUS

LEMMA EpochRemainder ==
  ASSUME NEW s \in Nat
  PROVE  s = Epoch(s) * SlotsPerEpoch + (s % SlotsPerEpoch)
  <1>1. /\ SlotsPerEpoch \in Nat \ {0} /\ SlotsPerEpoch > 0
        /\ SlotsPerEpoch \in Int /\ s \in Int
    BY HeadAssumption
  <1> DEFINE e == s \div SlotsPerEpoch
             r == s % SlotsPerEpoch
  <1>2. s = SlotsPerEpoch * e + r
    BY <1>1, Division
  <1>3. e \in Nat
    BY <1>1
  <1> HIDE DEF e
  <1>4. SlotsPerEpoch * e = e * SlotsPerEpoch
    BY <1>1, <1>3
  <1>5. Epoch(s) = e
    BY DEF Epoch, e
  <1> QED
    BY <1>2, <1>4, <1>5

\* A slot is one of those of its epoch.
LEMMA EpochBounds ==
  ASSUME NEW s \in Nat
  PROVE  /\ Epoch(s) \in Nat
         /\ Epoch(s) * SlotsPerEpoch <= s
         /\ s < Epoch(s) * SlotsPerEpoch + SlotsPerEpoch
  <1>1. SlotsPerEpoch \in Nat \ {0}
    BY HeadAssumption
  <1>2. s % SlotsPerEpoch \in 0..(SlotsPerEpoch - 1)
    BY <1>1
  <1>3. Epoch(s) \in Nat
    BY <1>1 DEF Epoch
  <1> DEFINE p == Epoch(s) * SlotsPerEpoch
  <1>4. p \in Nat
    BY <1>1, <1>3
  <1>5. PICK r \in 0..(SlotsPerEpoch - 1) : s = p + r
    BY <1>2, EpochRemainder
  <1> HIDE DEF p
  <1>6. p <= s /\ s < p + SlotsPerEpoch
    BY <1>1, <1>4, <1>5
  <1> QED
    BY <1>3, <1>6 DEF p

LEMMA EpochMonotone ==
  ASSUME NEW s \in Nat, NEW t \in Nat, s <= t
  PROVE  Epoch(s) <= Epoch(t)
  <1> SUFFICES ASSUME Epoch(t) < Epoch(s) PROVE FALSE
    BY EpochBounds
  <1>1. SlotsPerEpoch \in Nat \ {0}
    BY HeadAssumption
  <1>2. Epoch(t) * SlotsPerEpoch + SlotsPerEpoch <= Epoch(s) * SlotsPerEpoch
    BY <1>1, EpochBounds, TimesMonotone
  <1> DEFINE p == Epoch(s) * SlotsPerEpoch
             q == Epoch(t) * SlotsPerEpoch
  <1>3. p \in Nat /\ q \in Nat
    BY <1>1, EpochBounds
  <1>4. p <= s /\ t < q + SlotsPerEpoch /\ q + SlotsPerEpoch <= p
    BY <1>2, EpochBounds
  <1> HIDE DEF p, q
  <1> QED
    BY <1>1, <1>3, <1>4

\* The test of the code finds every slot that begins or ends an epoch.
LEMMA EdgesFound ==
  ASSUME NEW s \in Nat \ {0}, s % SlotsPerEpoch \in {0, SlotsPerEpoch - 1}
  PROVE  IsEdge(s)
  <1> SUFFICES ASSUME Epoch(s - 1) = Epoch(s), Epoch(s + 1) = Epoch(s)
               PROVE  FALSE
    BY DEF IsEdge
  <1> DEFINE p == Epoch(s) * SlotsPerEpoch
  <1>1. SlotsPerEpoch \in Nat \ {0} /\ s - 1 \in Nat /\ s + 1 \in Nat
    BY HeadAssumption
  <1>2. p \in Nat
    BY <1>1, EpochBounds
  <1>3. s = p + (s % SlotsPerEpoch)
    BY EpochRemainder
  <1>4. p <= s - 1 /\ s + 1 < p + SlotsPerEpoch
    BY <1>1, EpochBounds
  <1> HIDE DEF p
  <1> QED
    BY <1>1, <1>2, <1>3, <1>4

\* No slot of the head's epoch is too old to be kept.
LEMMA EpochIsRecent ==
  ASSUME NEW k \in EpochSlots(Epoch(currentSlot)), currentSlot \in Nat
  PROVE  k >= currentSlot - Horizon
  <1> DEFINE p == Epoch(currentSlot) * SlotsPerEpoch
  <1>1. /\ SlotsPerEpoch \in Nat \ {0} /\ Horizon \in Nat
        /\ SlotsPerEpoch <= Horizon
    BY HeadAssumption
  <1>2. p \in Nat /\ currentSlot < p + SlotsPerEpoch
    BY <1>1, EpochBounds
  <1>3. PICK i \in 0..(SlotsPerEpoch - 1) : k = p + i
    BY DEF EpochSlots
  <1> HIDE DEF p
  <1> QED
    BY <1>1, <1>2, <1>3

LEMMA EpochSlotsNat ==
  ASSUME NEW e \in Nat
  PROVE  EpochSlots(e) \subseteq Nat
  BY HeadAssumption DEF EpochSlots

LEMMA RandaoSlotNat ==
  ASSUME NEW b \in Reported, NEW i \in 0..2
  PROVE  RandaoSlot(b, i) \in Nat
  BY DEF Reported, RandaoSlot

-----------------------------------------------------------------------------
(* The parts of HeadInductive. *)

HeadsInOrder ==
    /\ kept # "attributes" => newest = currentSlot
    /\ lastEdge <= currentSlot

DutiesDone ==
    kept = "proposers" /\ lastEdge # 0 =>
        \A n \in Reliable \ skipped : DutyDone(n)

RandaosFound ==
    kept = "randaos" /\ currentSlot # 0 /\ SomeGoodNode =>
        \A i \in 0..1 :
            \/ asking[currentSlot][i] # "none"
            \/ RandaoSlot(currentSlot, i) \in known

LEMMA HeadParts ==
  HeadInductive <=> HeadTypeOK /\ HeadsInOrder /\ DutiesDone /\ RandaosFound
  BY DEF HeadInductive, HeadsInOrder, DutiesDone, RandaosFound

LEMMA NextHeadParts ==
  HeadTypeOK' /\ HeadsInOrder' /\ DutiesDone' /\ RandaosFound' => HeadInductive'
  BY DEF HeadInductive, HeadsInOrder, DutiesDone, RandaosFound

LEMMA InitHead == HeadInit => HeadInductive
  <1> SUFFICES ASSUME HeadInit PROVE HeadInductive
    OBVIOUS
  <1>1. HeadTypeOK
    BY HeadAssumption DEF HeadInit, HeadTypeOK
  <1>2. HeadsInOrder /\ DutiesDone /\ RandaosFound
    BY DEF HeadInit, HeadsInOrder, DutiesDone, RandaosFound
  <1> QED
    BY <1>1, <1>2, HeadParts

-----------------------------------------------------------------------------
(* What is at home stays there. *)

LEMMA HomePruned ==
  ASSUME HeadTypeOK, NEW CONSTANT s \in Nat, currentSlot < s, currentSlot' = s,
         known' = Prune(known, s), NEW CONSTANT f \in Nat, Home(f)
  PROVE  Home(f)'
  <1> SUFFICES ASSUME NEW k \in EpochSlots(f), k >= s - Horizon
               PROVE  k \in Prune(known, s)
    BY DEF Home, EpochSlots
  <1>1. k \in Nat /\ currentSlot \in Nat /\ Horizon \in Nat /\ s \in Nat
    BY HeadAssumption, EpochSlotsNat DEF HeadTypeOK
  <1>2. k >= currentSlot - Horizon /\ ~ k < s - Horizon
    BY <1>1
  <1>3. k \in known
    BY <1>2 DEF Home
  <1> QED
    BY <1>2, <1>3 DEF Prune

LEMMA HomeGrows ==
  ASSUME known \subseteq known', UNCHANGED currentSlot,
         NEW CONSTANT f, Home(f)
  PROVE  Home(f)'
  BY DEF Home, EpochSlots

LEMMA HomeFetched ==
  ASSUME NEW CONSTANT f, EpochSlots(f) \subseteq known'
  PROVE  Home(f)'
  BY DEF Home, EpochSlots

LEMMA DutyOf ==
  ASSUME NEW CONSTANT n, NEW CONSTANT e, NEW CONSTANT stage,
         stage = duty'[n][lastEdge'], e = epoch'[n][lastEdge'],
         stage \in {"first", "second"} =>
             e >= Epoch(lastEdge)' /\ e <= Epoch(currentSlot)',
         stage = "second" => Home(e)',
         stage = "none" =>
             \E f \in Epoch(lastEdge)'..Epoch(currentSlot)' :
                 Home(f)' /\ Home(f + 1)'
  PROVE  DutyDone(n)'
  BY DEF DutyDone, Home, EpochSlots, Epoch

-----------------------------------------------------------------------------
(* Events. *)

LEMMA StepHeadEvent ==
  ASSUME HeadInductive, NEW s \in Reported, HeadEvent(s)
  PROVE  HeadInductive'
  <1>0. HeadTypeOK /\ HeadsInOrder /\ DutiesDone /\ RandaosFound
    BY HeadParts
  <1>1. /\ s \in Nat \ {0} /\ s \in 0..MaxSlot
        /\ currentSlot \in Nat /\ lastEdge \in Nat /\ heads \in Nat
        /\ known \subseteq Nat /\ MaxSlot \in Nat /\ MaxHeads \in Nat
    BY <1>0, HeadAssumption DEF Reported, HeadTypeOK
  <1>2. /\ kept # "attributes" /\ kept' = kept /\ epoch' = epoch
        /\ s > currentSlot /\ currentSlot' = s /\ newest' = s
        /\ heads < MaxHeads /\ heads' = heads + 1
        /\ known' = Prune(known, s)
        /\ lastEdge' = IF s % SlotsPerEpoch \in {0, SlotsPerEpoch - 1}
                         THEN s ELSE lastEdge
    BY DEF HeadEvent
  <1>3. \/ /\ kept = "proposers" /\ IsEdge(s)
           /\ \E walked \in SUBSET Nodes \ {{}} : StartDuties(s, walked)
        \/ /\ ~ (kept = "proposers" /\ IsEdge(s))
           /\ UNCHANGED <<duty, skipped>>
    BY DEF HeadEvent
  <1>4. asking' = IF kept = "randaos"
                    THEN [asking EXCEPT ![s] = [i \in 0..2 |-> "lookup"]]
                    ELSE asking
    BY DEF HeadEvent
  <1>5. HeadTypeOK'
    <2>1. known' \subseteq Nat
      BY <1>1, <1>2 DEF Prune
    <2>2. /\ duty' \in [Nodes -> [Reported ->
                       {"none", "head", "first", "second"}]]
          /\ skipped' \subseteq Nodes
      <3>1. CASE UNCHANGED <<duty, skipped>>
        BY <1>0, <3>1 DEF HeadTypeOK
      <3>2. ASSUME NEW walked \in SUBSET Nodes \ {{}}, StartDuties(s, walked)
            PROVE  /\ duty' \in [Nodes -> [Reported ->
                                   {"none", "head", "first", "second"}]]
                   /\ skipped' \subseteq Nodes
        BY <1>0, <3>2 DEF StartDuties, HeadTypeOK
      <3> QED
        BY <1>3, <3>1, <3>2
    <2>3. asking' \in [Reported ->
              [0..2 -> {"none", "lookup", "fetch", "found"}]]
      BY <1>0, <1>4 DEF HeadTypeOK
    <2>4. heads' \in 0..MaxHeads /\ newest' \in 0..MaxSlot
          /\ currentSlot' \in 0..MaxSlot /\ lastEdge' \in 0..MaxSlot
      BY <1>0, <1>1, <1>2 DEF HeadTypeOK
    <2> QED
      BY <1>0, <1>2, <2>1, <2>2, <2>3, <2>4 DEF HeadTypeOK
  <1>6. HeadsInOrder'
    BY <1>0, <1>1, <1>2 DEF HeadsInOrder
  <1>7. DutiesDone'
    <2> SUFFICES ASSUME kept' = "proposers", lastEdge' # 0,
                        NEW n \in Reliable \ skipped'
                 PROVE  DutyDone(n)'
      BY DEF DutiesDone
    <2>1. n \in Nodes /\ n \in Reliable \ skipped
      BY <1>3, HeadAssumption DEF StartDuties
    <2>2. CASE lastEdge' = s
      <3>1. CASE s % SlotsPerEpoch \in {0, SlotsPerEpoch - 1}
        <4>1. PICK walked \in SUBSET Nodes \ {{}} : StartDuties(s, walked)
          BY <1>1, <1>2, <1>3, <3>1, EdgesFound
        <4>2. n \in walked
          BY <2>1, <4>1 DEF StartDuties
        <4>3. duty'[n][s] = "head"
          BY <1>0, <2>1, <4>1, <4>2 DEF StartDuties, HeadTypeOK
        <4> QED
          BY <2>2, <4>3 DEF DutyDone
      <3>2. CASE s % SlotsPerEpoch \notin {0, SlotsPerEpoch - 1}
        BY <1>0, <1>1, <1>2, <2>2, <3>2 DEF HeadsInOrder
      <3> QED
        BY <3>1, <3>2
    <2>3. CASE lastEdge' # s
      <3>1. lastEdge' = lastEdge /\ lastEdge # 0 /\ lastEdge \in Reported
        BY <1>0, <1>1, <1>2, <2>3 DEF HeadTypeOK, Reported
      <3>2. DutyDone(n)
        BY <1>0, <1>2, <2>1, <3>1 DEF DutiesDone
      <3>3. duty'[n][lastEdge] = duty[n][lastEdge]
        BY <1>0, <1>3, <2>1, <2>3, <3>1 DEF StartDuties, HeadTypeOK
      <3>4. PICK e \in Nat : e = epoch[n][lastEdge] /\ e = epoch'[n][lastEdge]
        BY <1>0, <1>2, <2>1, <3>1 DEF HeadTypeOK
      <3>5. /\ Epoch(lastEdge) \in Nat /\ Epoch(currentSlot) \in Nat
            /\ Epoch(s) \in Nat /\ Epoch(currentSlot) <= Epoch(s)
        BY <1>1, <1>2, EpochBounds, EpochMonotone
      <3>6. /\ Epoch(lastEdge)' = Epoch(lastEdge)
            /\ Epoch(currentSlot)' = Epoch(s)
        BY <1>2, <3>1 DEF Epoch
      <3>7. \A f \in Nat : Home(f) => Home(f)'
        BY <1>0, <1>1, <1>2, HomePruned
      <3>8. \A f \in Nat : f + 1 \in Nat /\ (Home(f + 1) => Home(f + 1)')
        <4> TAKE f \in Nat
        <4>1. PICK g \in Nat : g = f + 1
          OBVIOUS
        <4>2. Home(g) => Home(g)'
          BY <3>7
        <4> QED
          BY <4>1, <4>2 DEF Home, EpochSlots
      <3>9. PICK stage : stage = duty[n][lastEdge] /\ stage = duty'[n][lastEdge]
        BY <3>3
      <3>10. stage \in {"first", "second"} =>
                e >= Epoch(lastEdge)' /\ e <= Epoch(currentSlot)'
        BY <3>2, <3>4, <3>5, <3>6, <3>9 DEF DutyDone
      <3>11. stage = "second" => Home(e)'
        <4>1. stage = "second" => Home(e)
          BY <3>2, <3>4, <3>9 DEF DutyDone, Home
        <4> QED
          BY <3>7, <4>1
      <3>12. stage = "none" =>
                \E f \in Epoch(lastEdge)'..Epoch(currentSlot)' :
                    Home(f)' /\ Home(f + 1)'
        <4> SUFFICES ASSUME stage = "none"
                     PROVE  \E f \in Epoch(lastEdge)'..Epoch(currentSlot)' :
                                Home(f)' /\ Home(f + 1)'
          OBVIOUS
        <4>1. PICK f \in Epoch(lastEdge)..Epoch(currentSlot) :
                 Home(f) /\ Home(f + 1)
          BY <3>2, <3>9 DEF DutyDone
        <4>2. f \in Nat /\ f \in Epoch(lastEdge)'..Epoch(currentSlot)'
          BY <3>5, <3>6
        <4> QED
          BY <3>7, <3>8, <4>1, <4>2
      <3> QED
        BY <3>1, <3>4, <3>9, <3>10, <3>11, <3>12, DutyOf
    <2> QED
      BY <2>2, <2>3
  <1>8. RandaosFound'
    <2> SUFFICES ASSUME kept' = "randaos", NEW i \in 0..1
                 PROVE  asking'[currentSlot'][i] # "none"
      BY DEF RandaosFound
    <2>1. i \in 0..2 /\ s \in Reported
      OBVIOUS
    <2> QED
      BY <1>0, <1>2, <1>4, <2>1 DEF HeadTypeOK
  <1> QED
    BY <1>5, <1>6, <1>7, <1>8, NextHeadParts

LEMMA StepAttributesEvent ==
  ASSUME HeadInductive, NEW s \in Reported, AttributesEvent(s)
  PROVE  HeadInductive'
  <1>0. HeadTypeOK /\ HeadsInOrder
    BY HeadParts
  <1>1. /\ kept = "attributes" /\ known' = Prune(known \cup {s}, s)
        /\ newest' = IF s > newest THEN s ELSE newest
        /\ UNCHANGED <<kept, currentSlot, duty, epoch, asking, heads, lastEdge,
                       skipped>>
    BY DEF AttributesEvent, jobs
  <1>2. HeadTypeOK'
    <2>1. s \in Nat /\ s \in 0..MaxSlot
      BY HeadAssumption DEF Reported
    <2>2. known' \subseteq Nat
      BY <1>0, <1>1, <2>1 DEF Prune, HeadTypeOK
    <2>3. newest' \in 0..MaxSlot
      BY <1>0, <1>1, <2>1 DEF HeadTypeOK
    <2> QED
      BY <1>0, <1>1, <2>2, <2>3 DEF HeadTypeOK
  <1>3. HeadsInOrder' /\ DutiesDone' /\ RandaosFound'
    BY <1>0, <1>1 DEF HeadsInOrder, DutiesDone, RandaosFound
  <1> QED
    BY <1>2, <1>3, NextHeadParts

-----------------------------------------------------------------------------
(* The goroutines. *)

\* Of two moments of a goroutine with the same head, the later knows more.
LEMMA DutyStays ==
  ASSUME NEW CONSTANT n, DutyDone(n), known \subseteq known',
         UNCHANGED <<currentSlot, lastEdge>>,
         duty'[n][lastEdge] = duty[n][lastEdge],
         epoch'[n][lastEdge] = epoch[n][lastEdge]
  PROVE  DutyDone(n)'
  BY DEF DutyDone, Home, EpochSlots, Epoch

LEMMA StepReadHead ==
  ASSUME HeadInductive, NEW m \in Nodes, NEW b \in Reported, ReadHead(m, b)
  PROVE  HeadInductive'
  <1>0. HeadTypeOK /\ HeadsInOrder /\ DutiesDone /\ RandaosFound
    BY HeadParts
  <1>1. /\ duty' = [duty EXCEPT ![m][b] = "first"]
        /\ epoch' = [epoch EXCEPT ![m][b] = Epoch(currentSlot)]
        /\ UNCHANGED <<kept, currentSlot, known, asking, heads, newest,
                       lastEdge, skipped>>
    BY DEF ReadHead, DutyGoto
  <1>2. /\ currentSlot \in Nat /\ lastEdge \in Nat /\ lastEdge <= currentSlot
        /\ Epoch(currentSlot) \in Nat /\ Epoch(lastEdge) <= Epoch(currentSlot)
        /\ Epoch(lastEdge) \in Nat
    BY <1>0, HeadAssumption, EpochBounds, EpochMonotone
       DEF HeadTypeOK, HeadsInOrder
  <1>3. HeadTypeOK'
    BY <1>0, <1>1, <1>2 DEF HeadTypeOK
  <1>4. HeadsInOrder' /\ RandaosFound'
    BY <1>0, <1>1 DEF HeadsInOrder, RandaosFound, SomeGoodNode, RandaoSlot
  <1>5. DutiesDone'
    <2> SUFFICES ASSUME kept = "proposers", lastEdge # 0,
                        NEW n \in Reliable \ skipped
                 PROVE  DutyDone(n)'
      BY <1>1 DEF DutiesDone
    <2>1. n \in Nodes /\ lastEdge \in Reported /\ DutyDone(n)
      BY <1>0, HeadAssumption DEF DutiesDone, HeadTypeOK, Reported
    <2>2. CASE n = m /\ b = lastEdge
      <3>1. duty'[n][lastEdge] = "first"
            /\ epoch'[n][lastEdge] = Epoch(currentSlot)
        BY <1>0, <1>1, <2>1, <2>2 DEF HeadTypeOK
      <3>2. /\ Epoch(lastEdge)' = Epoch(lastEdge)
            /\ Epoch(currentSlot)' = Epoch(currentSlot)
        BY <1>1 DEF Epoch
      <3> QED
        BY <1>1, <1>2, <3>1, <3>2 DEF DutyDone, Epoch
    <2>3. CASE ~ (n = m /\ b = lastEdge)
      <3>1. duty'[n][lastEdge] = duty[n][lastEdge]
            /\ epoch'[n][lastEdge] = epoch[n][lastEdge]
        BY <1>0, <1>1, <2>1, <2>3 DEF HeadTypeOK
      <3> QED
        BY <1>1, <2>1, <3>1, DutyStays
    <2> QED
      BY <2>2, <2>3
  <1> QED
    BY <1>3, <1>4, <1>5, NextHeadParts

LEMMA UpdateTyped ==
  ASSUME NEW S, NEW T, NEW V, NEW f \in [S -> [T -> V]],
         NEW x \in S, NEW y \in T, NEW v \in V
  PROVE  [f EXCEPT ![x][y] = v] \in [S -> [T -> V]]
  OBVIOUS

LEMMA StepFetchDuties ==
  ASSUME HeadInductive, NEW m \in Nodes, NEW b \in Reported, FetchDuties(m, b)
  PROVE  HeadInductive'
  <1>0. HeadTypeOK /\ HeadsInOrder /\ DutiesDone /\ RandaosFound
    BY HeadParts
  <1>1. UNCHANGED <<kept, currentSlot, asking, heads, newest, lastEdge,
                    skipped>>
    BY DEF FetchDuties
  <1>2. epoch[m][b] \in Nat /\ known \subseteq Nat
    BY <1>0 DEF HeadTypeOK
  <1>3. \/ /\ duty[m][b] = "first"
           /\ \/ known' = known \cup EpochSlots(epoch[m][b])
              \/ m \notin Reliable /\ known' = known
           /\ duty' = [duty EXCEPT ![m][b] = "second"]
           /\ epoch' = epoch
        \/ /\ duty[m][b] = "second"
           /\ \/ known' = known \cup EpochSlots(epoch[m][b] + 1)
              \/ m \notin Reliable /\ known' = known
           /\ duty' = [duty EXCEPT ![m][b] = "none"]
           /\ epoch' = [epoch EXCEPT ![m][b] = 0]
    BY DEF FetchDuties, DutyGoto
  <1>4. known \subseteq known' /\ known' \subseteq Nat
    BY <1>2, <1>3, EpochSlotsNat
  <1>5. HeadTypeOK'
    <2>1. /\ duty' \in [Nodes -> [Reported ->
                       {"none", "head", "first", "second"}]]
          /\ epoch' \in [Nodes -> [Reported -> Nat]]
      <3>1. /\ duty \in [Nodes -> [Reported ->
                              {"none", "head", "first", "second"}]]
            /\ epoch \in [Nodes -> [Reported -> Nat]]
        BY <1>0 DEF HeadTypeOK
      <3>2. /\ \/ duty' = [duty EXCEPT ![m][b] = "second"]
               \/ duty' = [duty EXCEPT ![m][b] = "none"]
            /\ epoch' = epoch \/ epoch' = [epoch EXCEPT ![m][b] = 0]
        BY <1>3
      <3> DEFINE V == {"none", "head", "first", "second"}
      <3>3. "second" \in V /\ "none" \in V /\ 0 \in Nat
        OBVIOUS
      <3> HIDE DEF V
      <3>4. duty \in [Nodes -> [Reported -> V]]
        BY <3>1 DEF V
      <3>5. /\ [duty EXCEPT ![m][b] = "second"] \in [Nodes -> [Reported -> V]]
            /\ [duty EXCEPT ![m][b] = "none"] \in [Nodes -> [Reported -> V]]
            /\ [epoch EXCEPT ![m][b] = 0] \in [Nodes -> [Reported -> Nat]]
        BY <3>1, <3>3, <3>4, UpdateTyped
      <3>6. /\ duty' \in [Nodes -> [Reported -> V]]
            /\ epoch' \in [Nodes -> [Reported -> Nat]]
        BY <3>1, <3>2, <3>4, <3>5
      <3> QED
        BY <3>6 DEF V
    <2> QED
      BY <1>0, <1>1, <1>4, <2>1 DEF HeadTypeOK
  <1>6. HeadsInOrder' /\ RandaosFound'
    BY <1>0, <1>1, <1>4 DEF HeadsInOrder, RandaosFound, SomeGoodNode, RandaoSlot
  <1>7. DutiesDone'
    <2> SUFFICES ASSUME kept = "proposers", lastEdge # 0,
                        NEW n \in Reliable \ skipped
                 PROVE  DutyDone(n)'
      BY <1>1 DEF DutiesDone
    <2>1. n \in Nodes /\ lastEdge \in Reported /\ DutyDone(n)
      BY <1>0, HeadAssumption DEF DutiesDone, HeadTypeOK, Reported
    <2>2. CASE n = m /\ b = lastEdge
      <3>1. PICK e \in Nat : e = epoch[n][lastEdge]
        BY <1>2, <2>2
      <3>2. /\ Epoch(lastEdge)' = Epoch(lastEdge)
            /\ Epoch(currentSlot)' = Epoch(currentSlot)
            /\ lastEdge' = lastEdge
        BY <1>1 DEF Epoch
      <3>3. Epoch(lastEdge) \in Nat /\ Epoch(currentSlot) \in Nat
        BY <1>0, HeadAssumption, EpochBounds DEF HeadTypeOK
      <3>4. CASE duty[m][b] = "first"
        <4>1. /\ duty'[n][lastEdge] = "second" /\ epoch'[n][lastEdge] = e
              /\ EpochSlots(e) \subseteq known'
          BY <1>0, <1>3, <2>1, <2>2, <3>1, <3>4 DEF HeadTypeOK
        <4>2. e >= Epoch(lastEdge) /\ e <= Epoch(currentSlot)
          BY <2>1, <2>2, <3>1, <3>4 DEF DutyDone
        <4>3. Home(e)'
          BY <4>1, HomeFetched
        <4> QED
          BY <3>2, <4>1, <4>2, <4>3, DutyOf
      <3>5. CASE duty[m][b] = "second"
        <4>1. /\ duty'[n][lastEdge] = "none"
              /\ EpochSlots(e + 1) \subseteq known'
          BY <1>0, <1>3, <2>1, <2>2, <3>1, <3>5 DEF HeadTypeOK
        <4>2. e >= Epoch(lastEdge) /\ e <= Epoch(currentSlot)
          BY <2>1, <2>2, <3>1, <3>5 DEF DutyDone
        <4>3. Home(e)
          BY <2>1, <2>2, <3>1, <3>5 DEF DutyDone, Home
        <4>4. Home(e)' /\ Home(e + 1)'
          BY <1>1, <1>4, <4>1, <4>3, HomeGrows, HomeFetched
        <4>5. e \in Epoch(lastEdge)'..Epoch(currentSlot)'
          BY <3>1, <3>2, <3>3, <4>2
        <4> QED
          BY <3>2, <4>1, <4>4, <4>5, DutyOf
      <3> QED
        BY <1>3, <3>4, <3>5
    <2>3. CASE ~ (n = m /\ b = lastEdge)
      <3>1. duty'[n][lastEdge] = duty[n][lastEdge]
            /\ epoch'[n][lastEdge] = epoch[n][lastEdge]
        BY <1>0, <1>3, <2>1, <2>3 DEF HeadTypeOK
      <3> QED
        BY <1>1, <1>4, <2>1, <3>1, DutyStays
    <2> QED
      BY <2>2, <2>3
  <1> QED
    BY <1>5, <1>6, <1>7, NextHeadParts

LEMMA StepAsking ==
  ASSUME HeadInductive, NEW b \in Reported, NEW j \in 0..2, Asking(b, j)
  PROVE  HeadInductive'
  <1>0. HeadTypeOK /\ HeadsInOrder /\ DutiesDone /\ RandaosFound
    BY HeadParts
  <1>1. UNCHANGED <<kept, currentSlot, duty, epoch, heads, newest, lastEdge>>
    BY DEF Asking, LookupRandao, PutRandaoBack, FetchRandao
  <1>2. /\ known' \in {known, known \cup {RandaoSlot(b, j)}}
        /\ skipped' \in {skipped, skipped \cup Reliable}
    BY DEF Asking, LookupRandao, PutRandaoBack, FetchRandao
  <1>3. PICK l \in {"none", "lookup", "fetch", "found"} :
           asking' = [asking EXCEPT ![b][j] = l]
    BY DEF Asking, LookupRandao, PutRandaoBack, FetchRandao, AskingGoto
  <1>4. HeadTypeOK'
    <2>1. known' \subseteq Nat /\ skipped' \subseteq Nodes
      BY <1>0, <1>2, RandaoSlotNat, HeadAssumption DEF HeadTypeOK
    <2>2. asking' \in [Reported ->
              [0..2 -> {"none", "lookup", "fetch", "found"}]]
      BY <1>0, <1>3 DEF HeadTypeOK
    <2> QED
      BY <1>0, <1>1, <2>1, <2>2 DEF HeadTypeOK
  <1>5. HeadsInOrder'
    BY <1>0, <1>1 DEF HeadsInOrder
  <1>6. DutiesDone'
    BY <1>0, <1>1, <1>2, DutyStays DEF DutiesDone
  <1>7. RandaosFound'
    <2> SUFFICES ASSUME kept = "randaos", currentSlot # 0, SomeGoodNode',
                        NEW i \in 0..1,
                        asking'[currentSlot][i] = "none"
                 PROVE  RandaoSlot(currentSlot, i) \in known'
      BY <1>1 DEF RandaosFound, RandaoSlot
    <2>1. SomeGoodNode
      BY <1>2 DEF SomeGoodNode
    <2>2. i \in 0..2 /\ currentSlot \in Reported /\ currentSlot \in Nat
      BY <1>0, HeadAssumption DEF HeadTypeOK, Reported
    <2>3. CASE b = currentSlot /\ j = i
      <3>1. l = "none"
        BY <1>0, <1>3, <2>2, <2>3 DEF HeadTypeOK
      <3>2. ~ LookupRandao(b, j)
        BY <1>0, <2>2, <2>3 DEF LookupRandao, AskingGoto, HeadTypeOK
      <3>3. RandaoSlot(b, j) <= currentSlot
        BY <2>2, <2>3 DEF RandaoSlot
      <3>4. ~ Reliable \subseteq skipped'
        BY DEF SomeGoodNode
      <3> QED
        BY <2>3, <3>2, <3>3, <3>4 DEF Asking, PutRandaoBack, FetchRandao
    <2>4. CASE ~ (b = currentSlot /\ j = i)
      <3>1. asking[currentSlot][i] = "none"
        BY <1>0, <1>3, <2>2, <2>4 DEF HeadTypeOK
      <3> QED
        BY <1>0, <1>2, <2>1, <3>1 DEF RandaosFound
    <2> QED
      BY <2>3, <2>4
  <1> QED
    BY <1>4, <1>5, <1>6, <1>7, NextHeadParts

LEMMA NextHead == HeadInductive /\ [HeadNext]_headVars => HeadInductive'
  <1>1. ASSUME HeadInductive, UNCHANGED headVars
        PROVE  HeadInductive'
    BY <1>1 DEF HeadInductive, HeadTypeOK, DutyDone, Home, SomeGoodNode,
                headVars, jobs
  <1> QED
    BY <1>1, StepHeadEvent, StepAttributesEvent, StepReadHead,
       StepFetchDuties, StepAsking
       DEF HeadNext, Duty

-----------------------------------------------------------------------------
\* The types, and what the goroutines of the last edge have done or will do.
THEOREM HeadIsInductive == HeadSpec => []HeadInductive
  BY InitHead, NextHead, PTL DEF HeadSpec

\* The relay knows the proposers of the epoch it is in, once the goroutines of
\* an edge of this epoch or of the one before have ended, whatever became of
\* the others and however the head moved while they ran.
THEOREM ProposersAreKnown == HeadSpec => []DutiesKnown
  <1>1. HeadInductive => DutiesKnown
    <2> SUFFICES ASSUME HeadInductive, kept = "proposers", lastEdge # 0,
                        Epoch(lastEdge) >= Epoch(currentSlot) - 1,
                        NEW n \in Reliable \ skipped,
                        duty[n][lastEdge] = "none"
                 PROVE  EpochSlots(Epoch(currentSlot)) \subseteq known
      BY DEF DutiesKnown
    <2>1. currentSlot \in Nat /\ lastEdge \in Nat
      BY HeadAssumption DEF HeadInductive, HeadTypeOK
    <2>2. Epoch(currentSlot) \in Nat /\ Epoch(lastEdge) \in Nat
      BY <2>1, EpochBounds
    <2>3. DutyDone(n)
      BY DEF HeadInductive
    <2>4. PICK f \in Epoch(lastEdge)..Epoch(currentSlot) :
              Home(f) /\ Home(f + 1)
      BY <2>3 DEF DutyDone
    <2>5. Epoch(currentSlot) \in {f, f + 1}
      BY <2>2
    <2>6. Home(Epoch(currentSlot))
      BY <2>4, <2>5
    <2> QED
      BY <2>1, <2>6, EpochIsRecent DEF Home
  <1> QED
    BY <1>1, HeadIsInductive, PTL

\* The relay knows the randaos of the head and of the slot before it, once
\* their goroutines have ended.
THEOREM RandaosAreKnown == HeadSpec => []RandaoKnown
  <1>1. HeadInductive => RandaoKnown
    <2> SUFFICES ASSUME HeadInductive, kept = "randaos", currentSlot # 0,
                        SomeGoodNode, NEW s \in {currentSlot - 1, currentSlot},
                        \A i \in 0..2 : RandaoSlot(currentSlot, i) = s =>
                                            asking[currentSlot][i] = "none"
                 PROVE  s \in known
      BY DEF RandaoKnown
    <2>1. currentSlot \in Nat
      BY HeadAssumption DEF HeadInductive, HeadTypeOK
    <2>2. PICK i \in 0..1 : RandaoSlot(currentSlot, i) = s
      BY <2>1 DEF RandaoSlot
    <2>3. asking[currentSlot][i] = "none"
      BY <2>2
    <2> QED
      BY <2>2, <2>3 DEF HeadInductive
  <1> QED
    BY <1>1, HeadIsInductive, PTL

\* No event, late or early, makes the relay forget a slot that is not too old.
THEOREM EventsKeepRecent == HeadSpec => KeepsRecent
  <1>1. HeadInductive /\ [HeadNext]_headVars =>
            [\A k \in known \ known' : k < newest' - Horizon]_headVars
    <2> SUFFICES ASSUME HeadInductive, HeadNext, NEW k \in known \ known'
                 PROVE  k < newest' - Horizon
      OBVIOUS
    <2>0. k \in Nat /\ newest \in Nat /\ Horizon \in Nat
      BY HeadAssumption DEF HeadInductive, HeadTypeOK
    <2>1. ASSUME NEW s \in Reported, HeadEvent(s) \/ AttributesEvent(s)
          PROVE  k < newest' - Horizon
      <3>1. s \in Nat
        BY HeadAssumption DEF Reported
      <3>2. newest' \in Nat /\ s <= newest'
        BY <2>0, <2>1, <3>1 DEF HeadEvent, AttributesEvent
      <3>3. k < s - Horizon
        <4>1. known' = Prune(known, s) \/ known' = Prune(known \cup {s}, s)
          BY <2>1 DEF HeadEvent, AttributesEvent
        <4>2. k \in known /\ k \notin known' /\ k \in Nat
          BY <2>0
        <4> QED
          BY <3>1, <4>1, <4>2 DEF Prune
      <3>4. \A i, j, t, n \in Nat : i < j - n /\ j <= t => i < t - n
        OBVIOUS
      <3> QED
        BY <2>0, <3>1, <3>2, <3>3, <3>4
    <2>2. ASSUME NEW b \in Reported,
                 \/ \E n \in Nodes : Duty(n, b)
                 \/ \E i \in 0..2 : Asking(b, i)
          PROVE  known \subseteq known'
      BY <2>2 DEF Duty, ReadHead, FetchDuties, Asking, LookupRandao,
                  PutRandaoBack, FetchRandao
    <2> QED
      BY <2>1, <2>2 DEF HeadNext
  <1> QED
    BY <1>1, HeadIsInductive, PTL DEF HeadSpec, KeepsRecent
=============================================================================
