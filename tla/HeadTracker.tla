----------------------------- MODULE HeadTracker ----------------------------
(***************************************************************************)
(* What the beacon client pool learns from the events of its nodes:        *)
(* beaconinterface/multiclientSub.go.  A head event that moves the head up *)
(* starts goroutines that fetch the randaos around the new head and, at    *)
(* the edge of an epoch, the proposers of two epochs; a payload attributes *)
(* event is stored as it comes.  Each map of BeaconData is pruned by every *)
(* event.  The nodes' event streams reconnect and know nothing of each     *)
(* other, so events come late, twice, out of order or not at all.          *)
(*                                                                         *)
(* The three maps share nothing but the head, so one is modelled; which    *)
(* one is left open by HeadInit.  A value is not told from another: of a   *)
(* map, the slots it has are kept.                                         *)
(***************************************************************************)
EXTENDS Integers

CONSTANTS
    Nodes,          \* beacon nodes of the pool
    Reliable,       \* nodes that answer what is asked about the head's past
                    \* and about its epoch and the next
    SlotsPerEpoch,  \* 32 in the code
    Horizon,        \* slots a map goes back, 64 in the code
    MaxSlot,        \* bound: no event is about a later slot
    MaxHeads        \* bound: how often the head moves

ASSUME HeadAssumption ==
    /\ Reliable \subseteq Nodes
    /\ SlotsPerEpoch \in Nat \ {0}
    /\ Horizon \in Nat
    /\ Horizon >= SlotsPerEpoch
    /\ MaxSlot \in Nat
    /\ MaxHeads \in Nat

VARIABLES
    kept,         \* which map this is about
    currentSlot,  \* CurrentSlot and CurrentHead.Slot
    known,        \* the slots the map has
    duty,         \* goroutines of UpdateValidatorMap: of each node and of the
                  \* head that started it, what it does next
    epoch,        \* the epoch it has read from CurrentHead
    asking,       \* goroutines of UpdateRandaoMap: of each head, three
    heads,        \* how often the head has moved
    newest,       \* history: the greatest slot of an event
    lastEdge,     \* history: the last head that began or ended an epoch
    skipped       \* history: nodes that a walk of the list has passed over

jobs == <<duty, epoch, asking>>
headVars == <<kept, currentSlot, known, jobs, heads, newest, lastEdge, skipped>>

Reported == 1..MaxSlot

HeadTypeOK ==
    /\ kept \in {"proposers", "randaos", "attributes"}
    /\ currentSlot \in 0..MaxSlot
    /\ known \subseteq Nat
    /\ duty \in [Nodes -> [Reported -> {"none", "head", "first", "second"}]]
    /\ epoch \in [Nodes -> [Reported -> Nat]]
    /\ asking \in [Reported -> [0..2 -> {"none", "lookup", "fetch", "found"}]]
    /\ heads \in 0..MaxHeads
    /\ newest \in 0..MaxSlot
    /\ lastEdge \in 0..MaxSlot
    /\ skipped \subseteq Nodes

\* NewMultiBeaconClient: nothing is known until the first event.
HeadInit ==
    /\ kept \in {"proposers", "randaos", "attributes"}
    /\ currentSlot = 0
    /\ known = {}
    /\ duty = [n \in Nodes |-> [b \in Reported |-> "none"]]
    /\ epoch = [n \in Nodes |-> [b \in Reported |-> 0]]
    /\ asking = [b \in Reported |-> [i \in 0..2 |-> "none"]]
    /\ heads = 0
    /\ newest = 0
    /\ lastEdge = 0
    /\ skipped = {}

Epoch(s) == s \div SlotsPerEpoch

-----------------------------------------------------------------------------
(* Events. *)

\* Mutant of Prune: the subtraction is unsigned, and wraps.
PruneUnsigned(slots, s) ==
    {k \in slots : k >= IF s >= Horizon THEN s - Horizon ELSE 10000}

\* Everything older than Horizon is deleted; the subtraction is signed.
Prune(slots, s) == {k \in slots : ~ k < s - Horizon}

\* Mutant of IsEdge: only the end of an epoch is one.
IsEdgeAhead(s) == Epoch(s + 1) # Epoch(s)

IsEdge(s) == Epoch(s + 1) # Epoch(s) \/ Epoch(s - 1) # Epoch(s)

\* The walk of UpdateValidatorMap over the clients may meet a list that is
\* being sorted, and miss some of them.
StartDuties(s, walked) ==
    /\ duty' = [n \in Nodes |->
                   IF n \in walked THEN [duty[n] EXCEPT ![s] = "head"]
                                   ELSE duty[n]]
    /\ skipped' = skipped \cup (Nodes \ walked)

\* Mutant of HeadEvent: an event that does not move the head up is processed.
HeadEventAny(s) ==
    /\ kept # "attributes"
    /\ heads < MaxHeads
    /\ heads' = heads + 1
    /\ currentSlot' = s
    /\ newest' = s
    /\ known' = Prune(known, s)
    /\ lastEdge' = IF s % SlotsPerEpoch \in {0, SlotsPerEpoch - 1}
                     THEN s ELSE lastEdge
    /\ IF kept = "proposers" /\ IsEdge(s)
         THEN \E walked \in SUBSET Nodes \ {{}} : StartDuties(s, walked)
         ELSE UNCHANGED <<duty, skipped>>
    /\ asking' = IF kept = "randaos"
                   THEN [asking EXCEPT ![s] = [i \in 0..2 |-> "lookup"]]
                   ELSE asking
    /\ UNCHANGED <<kept, epoch>>

\* A head event moves the head up or is dropped.  (No goroutine it starts
\* writes what its own pruning deletes, so it may be one step; the status of
\* the nodes and the fork version, which nothing reads, are left out.)
HeadEvent(s) ==
    /\ kept # "attributes"
    /\ heads < MaxHeads
    /\ heads' = heads + 1
    /\ s > currentSlot
    /\ currentSlot' = s
    /\ newest' = s
    /\ known' = Prune(known, s)
    /\ lastEdge' = IF s % SlotsPerEpoch \in {0, SlotsPerEpoch - 1}
                     THEN s ELSE lastEdge
    /\ IF kept = "proposers" /\ IsEdge(s)
         THEN \E walked \in SUBSET Nodes \ {{}} : StartDuties(s, walked)
         ELSE UNCHANGED <<duty, skipped>>
    /\ asking' = IF kept = "randaos"
                   THEN [asking EXCEPT ![s] = [i \in 0..2 |-> "lookup"]]
                   ELSE asking
    /\ UNCHANGED <<kept, epoch>>

\* The attributes of a slot are stored, and what is older than that slot by
\* more than Horizon is deleted, whatever slots were seen before.
AttributesEvent(s) ==
    /\ kept = "attributes"
    /\ known' = Prune(known \cup {s}, s)
    /\ newest' = IF s > newest THEN s ELSE newest
    /\ UNCHANGED <<kept, currentSlot, jobs, heads, lastEdge, skipped>>

-----------------------------------------------------------------------------
(* UpdateValidatorMap: the goroutine of node n that head b started. *)

DutyGoto(n, b, stage) == duty' = [duty EXCEPT ![n][b] = stage]

\* It reads the head as it is by now.
ReadHead(n, b) ==
    /\ duty[n][b] = "head"
    /\ DutyGoto(n, b, "first")
    /\ epoch' = [epoch EXCEPT ![n][b] = Epoch(currentSlot)]
    /\ UNCHANGED <<kept, currentSlot, known, asking, heads, newest, lastEdge,
                   skipped>>

\* The proposers GetSlotProposerMap answers with.
EpochSlots(e) == {e * SlotsPerEpoch + i : i \in 0..(SlotsPerEpoch - 1)}

\* Mutant of FetchDuties: the first answer ends it.
FetchDutiesOnce(n, b) ==
    /\ duty[n][b] = "first"
    /\ known' = known \cup EpochSlots(epoch[n][b])
    /\ DutyGoto(n, b, "none")
    /\ epoch' = [epoch EXCEPT ![n][b] = 0]
    /\ UNCHANGED <<kept, currentSlot, asking, heads, newest, lastEdge, skipped>>

\* It asks its node for the proposers of that epoch and then of the next; an
\* error is logged, and it goes on.
FetchDuties(n, b) ==
    /\ \/ /\ duty[n][b] = "first"
          /\ \/ known' = known \cup EpochSlots(epoch[n][b])
             \/ n \notin Reliable /\ UNCHANGED known
          /\ DutyGoto(n, b, "second")
          /\ UNCHANGED epoch
       \/ /\ duty[n][b] = "second"
          /\ \/ known' = known \cup EpochSlots(epoch[n][b] + 1)
             \/ n \notin Reliable /\ UNCHANGED known
          /\ DutyGoto(n, b, "none")
          /\ epoch' = [epoch EXCEPT ![n][b] = 0]
    /\ UNCHANGED <<kept, currentSlot, asking, heads, newest, lastEdge, skipped>>

Duty(n, b) == ReadHead(n, b) \/ FetchDuties(n, b)

-----------------------------------------------------------------------------
(* UpdateRandaoMap: the goroutines head b started for the slot before it, for *)
(* its own slot and for the next.                                             *)

\* Mutant of RandaoSlot: the slot before is forgotten.
RandaoSlotAhead(b, i) == b + i

RandaoSlot(b, i) == b - 1 + i

AskingGoto(b, i, stage) == asking' = [asking EXCEPT ![b][i] = stage]

\* Randao looks into the map first.
LookupRandao(b, i) ==
    /\ asking[b][i] = "lookup"
    /\ AskingGoto(b, i, IF RandaoSlot(b, i) \in known THEN "found" ELSE "fetch")
    /\ UNCHANGED <<kept, currentSlot, known, duty, epoch, heads, newest,
                   lastEdge, skipped>>

\* It found it there, and it is written back, pruned in between or not.
PutRandaoBack(b, i) ==
    /\ asking[b][i] = "found"
    /\ known' = known \cup {RandaoSlot(b, i)}
    /\ AskingGoto(b, i, "none")
    /\ UNCHANGED <<kept, currentSlot, duty, epoch, heads, newest, lastEdge,
                   skipped>>

\* It asks one node after the other until one answers.  If none does, a
\* reliable node was missed because the list was being sorted, or the slot is
\* still ahead of the head.
FetchRandao(b, i) ==
    /\ asking[b][i] = "fetch"
    /\ \/ known' = known \cup {RandaoSlot(b, i)} /\ UNCHANGED skipped
       \/ /\ UNCHANGED known
          /\ IF RandaoSlot(b, i) <= currentSlot
               THEN skipped' = skipped \cup Reliable
               ELSE UNCHANGED skipped
    /\ AskingGoto(b, i, "none")
    /\ UNCHANGED <<kept, currentSlot, duty, epoch, heads, newest, lastEdge>>

Asking(b, i) == LookupRandao(b, i) \/ PutRandaoBack(b, i) \/ FetchRandao(b, i)

-----------------------------------------------------------------------------
HeadNext ==
    \/ \E s \in Reported : HeadEvent(s) \/ AttributesEvent(s)
    \/ \E b \in Reported :
          \/ \E n \in Nodes : Duty(n, b)
          \/ \E i \in 0..2 : Asking(b, i)

HeadSpec == HeadInit /\ [][HeadNext]_headVars

\* The goroutines are run, and every request they make is answered or fails.
\* (The HTTP client has no time-out: of a node that takes a request and never
\* answers it this is not true.)  No event ever has to come.
HeadFairness ==
    /\ WF_headVars(\E n \in Nodes, b \in Reported : Duty(n, b))
    /\ WF_headVars(\E b \in Reported, i \in 0..2 : Asking(b, i))

HeadFairSpec == HeadSpec /\ HeadFairness

-----------------------------------------------------------------------------
(* What holds. *)

\* Some node always answers, and no walk has passed it over.
SomeGoodNode == Reliable \ skipped # {}

\* The relay knows the proposers of the epoch it is in when the head was seen
\* at an edge of this epoch or of the one before and that edge's goroutines
\* have ended: one node that always answers is enough, the other edges may be
\* missed, and the head may move on while they run.
DutiesKnown ==
    /\ kept = "proposers"
    /\ lastEdge # 0
    /\ Epoch(lastEdge) >= Epoch(currentSlot) - 1
    /\ \E n \in Reliable \ skipped : duty[n][lastEdge] = "none"
    => EpochSlots(Epoch(currentSlot)) \subseteq known

\* The relay knows the randao of the head's slot, and of the slot before, when
\* the goroutines the head started for them have ended.
RandaoKnown ==
    kept = "randaos" /\ currentSlot # 0 /\ SomeGoodNode =>
        \A s \in {currentSlot - 1, currentSlot} :
            (\A i \in 0..2 : RandaoSlot(currentSlot, i) = s =>
                                 asking[currentSlot][i] = "none")
            => s \in known

\* No event makes the relay forget a slot that is not older, by more than
\* Horizon, than the greatest slot it has heard of: not an event that comes
\* late, nor one of the first slots of a chain.
KeepsRecent ==
    [][\A k \in known \ known' : k < newest' - Horizon]_headVars

\* The proposers of epoch f are known, but for slots that are too old.
Home(f) == \A k \in EpochSlots(f) : k >= currentSlot - Horizon => k \in known

\* What a goroutine of the last edge has brought home, or is about to.
DutyDone(n) ==
    LET stage == duty[n][lastEdge]
        e == epoch[n][lastEdge]
    IN  /\ stage \in {"first", "second"} =>
              e >= Epoch(lastEdge) /\ e <= Epoch(currentSlot)
        /\ stage = "second" => Home(e)
        /\ stage = "none" =>
              \E f \in Epoch(lastEdge)..Epoch(currentSlot) :
                  Home(f) /\ Home(f + 1)

\* The inductive invariant.
HeadInductive ==
    /\ HeadTypeOK
    /\ kept # "attributes" => newest = currentSlot
    /\ lastEdge <= currentSlot
    /\ kept = "proposers" /\ lastEdge # 0 =>
          \A n \in Reliable \ skipped : DutyDone(n)
    /\ kept = "randaos" /\ currentSlot # 0 /\ SomeGoodNode =>
          \A i \in 0..1 :
              \/ asking[currentSlot][i] # "none"
              \/ RandaoSlot(currentSlot, i) \in known

-----------------------------------------------------------------------------
\* Once the head has been seen at an edge of epoch e, the relay comes to know
\* the proposers of the epoch it is in, unless the head has left epoch e + 1
\* by then, or every reliable node was passed over.
DutiesArrive ==
    \A e \in 0..Epoch(MaxSlot) :
        kept = "proposers" /\ lastEdge # 0 /\ Epoch(lastEdge) = e
        ~> \/ EpochSlots(Epoch(currentSlot)) \subseteq known
           \/ Epoch(currentSlot) > e + 1
           \/ Reliable \subseteq skipped
=============================================================================
