----------------------------- MODULE PoolProofs -----------------------------
(* The proofs of the safety properties of ClientPool.                      *)
EXTENDS ClientPool, TLAPS

LEMMA InitInductive == PoolInit => PoolInductive
  BY PoolAssumption
     DEF PoolInit, PoolInductive, PoolTypeOK, OnlyStart, InPlace, Ranked,
         ListedWhileStarting, RankedByStart, KnownOnceSubscribed, Listed,
         Client, Callers, Index

\* A sort that does not kill the relay keeps the clients it sorts, and finds
\* a status in each of them unless there is only one.
LEMMA SortKeeps ==
  ASSUME PoolTypeOK, Sort, process = "up"
  PROVE  /\ clients' \in [Index -> Client]
         /\ process' \in {"up", "crashed"}
         /\ Listed \subseteq Listed'
         /\ \A i \in Index : \E j \in Index : clients'[i] = clients[j]
         /\ process' = "up" =>
              /\ Ranked(clients')
              /\ N > 1 => \A i \in Index : clients[i].sync # "unknown"
  <1>1. CASE SortDies /\ process' = "crashed" /\ UNCHANGED clients
    BY <1>1 DEF PoolTypeOK, Listed
  <1>2. CASE ~ SortDies /\ UNCHANGED process
    <2>1. PICK p \in Shuffles : /\ clients' = [i \in Index |-> clients[p[i]]]
                                /\ Ranked(clients')
      BY <1>2 DEF Sort
    <2>2. /\ p \in [Index -> Index]
          /\ \A i \in Index : \E j \in Index : p[j] = i
      BY DEF Shuffles
    <2>3. clients' \in [Index -> Client]
      BY <2>1, <2>2 DEF PoolTypeOK
    <2>4. N > 1 => \A i \in Index : clients[i].sync # "unknown"
      BY <1>2 DEF SortDies
    <2>5. ASSUME NEW i \in Index
          PROVE  clients[i].node \in Listed'
      <3>1. PICK j \in Index : p[j] = i
        BY <2>2
      <3>2. clients'[j] = clients[i]
        BY <2>1, <3>1
      <3> QED
        BY <3>2 DEF Listed
    <2>6. Listed \subseteq Listed'
      BY <2>5 DEF Listed
    <2> QED
      BY <1>2, <2>1, <2>2, <2>3, <2>4, <2>6 DEF PoolTypeOK
  <1> QED
    BY <1>1, <1>2 DEF Sort

LEMMA Indices == 1 \in Index /\ Index \subseteq Nat /\ N + 1 \in Nat
  BY PoolAssumption DEF Index

LEMMA NextInductive == PoolInductive /\ [PoolNext]_poolVars => PoolInductive'
  <1> SUFFICES ASSUME PoolInductive, [PoolNext]_poolVars
               PROVE  PoolInductive'
    OBVIOUS
  <1> USE DEF PoolInductive
  <1>1. CASE UNCHANGED poolVars
    BY <1>1 DEF poolVars, PoolTypeOK, OnlyStart, InPlace, Ranked, Listed,
                ListedWhileStarting, RankedByStart, KnownOnceSubscribed
  <1>2. CASE process = "up" /\ EnsureClientsAlive
    <2>1. /\ boot = "genesis"
          /\ boot' \in {"waiting", "failed"}
          /\ UNCHANGED <<clients, state, pc, next, held, sorts, failures,
                        process>>
      BY <1>2 DEF EnsureClientsAlive
    <2> QED
      BY <2>1 DEF PoolTypeOK, OnlyStart, InPlace, Ranked, Listed,
                  ListedWhileStarting, RankedByStart, KnownOnceSubscribed
  <1>3. CASE process = "up" /\ Fetch
    BY <1>3, PoolAssumption
       DEF Fetch, PoolTypeOK, OnlyStart, InPlace, Ranked, Listed,
           ListedWhileStarting, RankedByStart, KnownOnceSubscribed
  <1>4. CASE \E n \in Nodes : process = "up" /\ NodeChanges(n)
    BY <1>4 DEF NodeChanges, PoolTypeOK, OnlyStart, InPlace, Ranked, Listed,
                ListedWhileStarting, RankedByStart, KnownOnceSubscribed
  <1>5. ASSUME process = "up", PostBeaconCall
        PROVE  PoolInductive'
    <2>1. boot \in {"subscribed", "failed"} /\ pc[Main] = "idle"
      BY <1>5, PoolAssumption DEF PostBeaconCall, OnlyStart, PoolTypeOK
    <2>2. PoolTypeOK'
      BY <1>5, SortKeeps, PoolAssumption DEF PostBeaconCall, PoolTypeOK
    <2>3. OnlyStart'
      BY <1>5, <2>1 DEF PostBeaconCall, OnlyStart
    <2>4. InPlace'
      BY <1>5, <2>1 DEF PostBeaconCall, InPlace, OnlyStart, Callers
    <2>5. ListedWhileStarting'
      BY <1>5, SortKeeps DEF PostBeaconCall, ListedWhileStarting
    <2>6. RankedByStart'
      BY <1>5, <2>1 DEF PostBeaconCall, RankedByStart
    <2>7. KnownOnceSubscribed'
      <3>1. boot = "subscribed" => ~ SortDies
        BY DEF KnownOnceSubscribed, SortDies
      <3>2. boot = "subscribed" => process' = "up"
        BY <1>5, <3>1 DEF PostBeaconCall, Sort
      <3> QED
        BY <1>5, <3>2, SortKeeps DEF PostBeaconCall, KnownOnceSubscribed
    <2> QED
      BY <2>2, <2>3, <2>4, <2>5, <2>6, <2>7
  <1>6. ASSUME NEW c \in Callers, process = "up", SyncStatus(c)
        PROVE  PoolInductive'
    <2>1. PoolTypeOK'
      BY <1>6 DEF SyncStatus, PoolTypeOK
    <2>2. OnlyStart'
      BY <1>6, PoolAssumption DEF SyncStatus, OnlyStart, PoolTypeOK, Callers
    <2>3. RankedByStart'
      BY <1>6 DEF SyncStatus, RankedByStart, Ranked, PoolTypeOK, Callers
    <2> QED
      BY <1>6, <2>1, <2>2, <2>3
         DEF SyncStatus, InPlace, Listed, ListedWhileStarting,
             KnownOnceSubscribed
  <1>7. ASSUME NEW c \in Callers, process = "up", CopyClient(c)
        PROVE  PoolInductive'
    <2>1. next[c] \in Index
      BY <1>7, PoolAssumption DEF CopyClient, PoolTypeOK, Index
    <2>2. PoolTypeOK'
      BY <1>7, <2>1, PoolAssumption DEF CopyClient, PoolTypeOK, Index
    <2>3. OnlyStart' /\ RankedByStart'
      BY <1>7, <2>1 DEF CopyClient, OnlyStart, RankedByStart, PoolTypeOK, Ranked
    <2>4. InPlace'
      BY <1>7, <2>1 DEF CopyClient, InPlace, PoolTypeOK, Callers
    <2>5. ListedWhileStarting'
      BY <1>7 DEF CopyClient, ListedWhileStarting, Listed
    <2>6. KnownOnceSubscribed'
      BY <1>7, <2>1 DEF CopyClient, KnownOnceSubscribed, PoolTypeOK
    <2> QED
      BY <2>2, <2>3, <2>4, <2>5, <2>6
  <1>8. ASSUME NEW c \in Callers, NEW i \in Index, process = "up",
               NodeAnswers(c, i)
        PROVE  PoolInductive'
    <2>1. PICK client \in Client :
             /\ PutClient(c, i, client)
             /\ client.node = held[c][i].node
             /\ held[c][i].sync # "unknown" => client.sync # "unknown"
      BY <1>8 DEF NodeAnswers, PoolTypeOK, Client
    <2>2. /\ pc[c] = "asking"
          /\ held[c][i] # NoClient
          /\ UNCHANGED <<state, boot, pc, next, sorts, process>>
          /\ failures' \in Nat
      BY <1>8, PoolAssumption DEF NodeAnswers, OnlyStart, PoolTypeOK
    <2>3. PoolTypeOK'
      BY <2>1, <2>2 DEF PutClient, PoolTypeOK
    <2>4. OnlyStart'
      BY <2>1, <2>2 DEF PutClient, OnlyStart, PoolTypeOK
    <2>5. boot # "subscribed" => c = Main
      BY <2>2 DEF OnlyStart, Callers
    <2>6. boot # "subscribed" =>
              \A j \in Index : clients'[j].node = clients[j].node
      BY <2>1, <2>2, <2>5 DEF PutClient, InPlace, PoolTypeOK
    <2>7. InPlace'
      BY <2>1, <2>2, <2>5, <2>6 DEF PutClient, InPlace, PoolTypeOK, Callers
    <2>8. ListedWhileStarting'
      BY <2>2, <2>6 DEF ListedWhileStarting, Listed
    <2>9. RankedByStart'
      BY <2>2, <2>5 DEF OnlyStart, RankedByStart
    <2>10. KnownOnceSubscribed'
      BY <2>1, <2>2 DEF PutClient, KnownOnceSubscribed, PoolTypeOK
    <2> QED
      BY <2>3, <2>4, <2>7, <2>8, <2>9, <2>10
  <1>9. ASSUME NEW c \in Callers, process = "up", RankClients(c)
        PROVE  PoolInductive'
    <2>1. PoolTypeOK'
      BY <1>9, SortKeeps DEF RankClients, PoolTypeOK
    <2>2. OnlyStart'
      BY <1>9 DEF RankClients, OnlyStart, PoolTypeOK
    <2>3. boot # "subscribed" => c = Main
      BY <1>9 DEF RankClients, OnlyStart, Callers
    <2>4. InPlace'
      BY <1>9, <2>3 DEF RankClients, InPlace
    <2>5. ListedWhileStarting'
      BY <1>9, SortKeeps DEF RankClients, ListedWhileStarting
    <2>6. RankedByStart'
      <3>1. CASE c = Main
        <4>1. process' = "up" =>
                 /\ Ranked(clients')
                 /\ N > 1 => \A i \in Index : clients[i].sync # "unknown"
          <5>1. PoolTypeOK /\ Sort
            BY <1>9 DEF RankClients
          <5> QED
            BY <1>9, <5>1, SortKeeps DEF Ranked
        <4>2. \A i \in Index : \E j \in Index : clients'[i] = clients[j]
          BY <1>9, SortKeeps DEF RankClients
        <4> QED
          BY <4>1, <4>2 DEF RankedByStart, Ranked
      <3>2. CASE c # Main
        <4>1. pc[Main] = "idle"
          BY <1>9, <2>3, <3>2 DEF RankClients, OnlyStart, PoolTypeOK, Callers
        <4> QED
          BY <1>9, <3>2, <4>1
             DEF RankClients, RankedByStart, PoolTypeOK, Callers
      <3> QED
        BY <3>1, <3>2
    <2>7. KnownOnceSubscribed'
      <3>1. boot = "subscribed" => process' = "up"
        BY <1>9 DEF KnownOnceSubscribed, SortDies, RankClients, Sort
      <3> QED
        BY <1>9, <3>1, SortKeeps DEF RankClients, KnownOnceSubscribed
    <2> QED
      BY <2>1, <2>2, <2>4, <2>5, <2>6, <2>7
  <1>10. ASSUME NEW c \in Callers, process = "up", ReturnSyncStatus(c)
         PROVE  PoolInductive'
    <2>1. PoolTypeOK'
      BY <1>10, Indices, PoolAssumption DEF ReturnSyncStatus, PoolTypeOK
    <2>2. OnlyStart'
      BY <1>10 DEF ReturnSyncStatus, OnlyStart, PoolTypeOK, Callers
    <2>3. InPlace' /\ ListedWhileStarting' /\ RankedByStart'
      BY <1>10 DEF ReturnSyncStatus, InPlace, ListedWhileStarting, Listed,
                   RankedByStart, Ranked, PoolTypeOK, Callers, OnlyStart
    <2>4. KnownOnceSubscribed'
      <3>1. CASE boot = "subscribed"
        BY <1>10, <3>1 DEF ReturnSyncStatus, KnownOnceSubscribed
      <3>2. CASE boot # "subscribed" /\ boot' = "subscribed"
        <4>1. c = Main /\ Synced(clients[1]) /\ boot = "waiting"
          BY <1>10, <3>2 DEF ReturnSyncStatus, OnlyStart, PoolTypeOK
        <4>2. \A i \in Index : clients[i].sync # "unknown"
          <5>1. CASE N > 1
            BY <1>10, <4>1, <5>1 DEF ReturnSyncStatus, RankedByStart
          <5>2. CASE N = 1
            BY <4>1, <5>2 DEF Synced, Index
          <5> QED
            BY <5>1, <5>2, PoolAssumption
        <4>3. \A d \in Callers, i \in Index : held[d][i] = NoClient
          BY <1>10, <3>2, <4>1 DEF ReturnSyncStatus, OnlyStart, Callers
        <4> QED
          BY <1>10, <4>2, <4>3 DEF ReturnSyncStatus, KnownOnceSubscribed
      <3> QED
        BY <3>1, <3>2 DEF KnownOnceSubscribed
    <2> QED
      BY <2>1, <2>2, <2>3, <2>4
  <1> QED
    BY <1>1, <1>2, <1>3, <1>4, <1>5, <1>6, <1>7, <1>8, <1>9, <1>10
       DEF PoolNext, Round

-----------------------------------------------------------------------------
\* The inductive invariant holds of every pool, of any number of nodes.
THEOREM PoolIsInductive == PoolSpec => []PoolInductive
  BY InitInductive, NextInductive, PTL DEF PoolSpec

\* While Start runs no node of --beacon-uris is lost from the list.
THEOREM NoneLostWhileStarting == PoolSpec => []ListedWhileStarting
  <1>1. PoolInductive => ListedWhileStarting
    BY DEF PoolInductive
  <1> QED
    BY <1>1, PoolIsInductive, PTL

\* Once Start has subscribed, no sort reads a sync status that is nil.
THEOREM SubscribedIsSafe == PoolSpec => []NoCrashOnceSubscribed
  <1>1. PoolInductive => NoCrashOnceSubscribed
    BY DEF PoolInductive, KnownOnceSubscribed, NoCrashOnceSubscribed
  <1> QED
    BY <1>1, PoolIsInductive, PTL

\* waitSynced lets Start subscribe only when all nodes are synced.
THEOREM WaitsForAll == PoolSpec => SubscribesWhenAllSynced
  <1>1. ASSUME PoolInductive, [PoolNext]_poolVars,
               boot = "waiting", boot' = "subscribed"
        PROVE  \A i \in Index : clients[i].sync = "synced"
    <2>1. /\ pc[Main] = "ranked"
          /\ Synced(clients[1])
          /\ process = "up"
      BY <1>1 DEF poolVars, PoolNext, EnsureClientsAlive, Fetch, PostBeaconCall,
                  NodeChanges, Round, SyncStatus, CopyClient, NodeAnswers,
                  RankClients, ReturnSyncStatus
    <2>2. /\ Ranked(clients)
          /\ N > 1 => \A i \in Index : clients[i].sync # "unknown"
      BY <1>1, <2>1 DEF PoolInductive, RankedByStart
    <2>3. ASSUME NEW i \in Index
          PROVE  clients[i].sync = "synced"
      <3>1. CASE i = 1
        BY <2>1, <3>1 DEF Synced
      <3>2. CASE i # 1
        <4>1. 1 \in Index /\ 1 < i /\ N > 1
          BY <2>3, <3>2, PoolAssumption DEF Index
        <4>2. clients[i].sync # "syncing" /\ clients[i].sync # "unknown"
          BY <2>1, <2>2, <4>1 DEF Ranked, Synced
        <4>3. clients[i] \in Client
          BY <1>1 DEF PoolInductive, PoolTypeOK
        <4> QED
          BY <4>2, <4>3 DEF Client
      <3> QED
        BY <3>1, <3>2
    <2> QED
      BY <2>3
  <1>2. PoolInductive /\ [PoolNext]_poolVars =>
          [boot = "waiting" /\ boot' = "subscribed" =>
             \A i \in Index : clients[i].sync = "synced"]_poolVars
    BY <1>1
  <1> QED
    BY <1>2, PoolIsInductive, PTL DEF PoolSpec, SubscribesWhenAllSynced

-----------------------------------------------------------------------------
(* What clientUpdate is there for: the mutex would have to keep the sorts  *)
(* away from the rounds, of which it covers the single writes only.        *)

NoCopies == \A c \in Callers, i \in Index : held[c][i] = NoClient

\* No sort runs while a round of SyncStatus has copies to write back.
SortsApart ==
    [][PostBeaconCall \/ (\E c \in Callers : RankClients(c))
          => NoCopies]_poolVars

\* The copies of every round are of the clients at their index.
Copied ==
    \A c \in Callers, i \in Index :
        held[c][i] # NoClient => held[c][i].node = clients[i].node

LEMMA NextCopied ==
  ASSUME PoolTypeOK, Copied, EveryNodeListed, [PoolNext]_poolVars,
         PostBeaconCall \/ (\E c \in Callers : RankClients(c)) => NoCopies
  PROVE  Copied' /\ EveryNodeListed'
  <1> USE DEF Copied
  <1>1. SUFFICES Copied' /\ Listed \subseteq Listed'
    BY DEF EveryNodeListed
  <1>2. CASE UNCHANGED poolVars
    BY <1>2 DEF poolVars, Listed
  <1>3. CASE \/ EnsureClientsAlive \/ Fetch
             \/ \E n \in Nodes : NodeChanges(n)
             \/ \E c \in Callers : SyncStatus(c) \/ ReturnSyncStatus(c)
    <2>1. UNCHANGED <<clients, held>>
      BY <1>3 DEF EnsureClientsAlive, Fetch, NodeChanges, SyncStatus,
                  ReturnSyncStatus
    <2> QED
      BY <2>1 DEF Listed
  <1>4. CASE /\ process = "up"
             /\ PostBeaconCall \/ \E c \in Callers : RankClients(c)
    <2>1. NoCopies /\ held' = held /\ Sort
      BY <1>4 DEF PostBeaconCall, RankClients
    <2>2. Listed \subseteq Listed'
      BY <1>4, <2>1, SortKeeps
    <2> QED
      BY <2>1, <2>2 DEF NoCopies
  <1>5. ASSUME NEW c \in Callers, CopyClient(c)
        PROVE  Copied' /\ Listed \subseteq Listed'
    <2>1. next[c] \in Index
      BY <1>5, PoolAssumption DEF CopyClient, PoolTypeOK, Index
    <2>2. /\ clients' = clients
          /\ held' = [held EXCEPT ![c][next[c]] = clients[next[c]]]
      BY <1>5 DEF CopyClient
    <2>3. \A d \in Callers, i \in Index :
              held'[d][i] \in {held[d][i], clients[i]}
      BY <2>1, <2>2 DEF PoolTypeOK
    <2> QED
      BY <2>2, <2>3 DEF Listed
  <1>6. ASSUME NEW c \in Callers, NEW i \in Index, NodeAnswers(c, i)
        PROVE  Copied' /\ Listed \subseteq Listed'
    <2>1. PICK client \in Client :
             PutClient(c, i, client) /\ client.node = held[c][i].node
      BY <1>6 DEF NodeAnswers, PoolTypeOK, Client
    <2>2. client.node = clients[i].node
      BY <1>6, <2>1 DEF NodeAnswers
    <2>3. \A j \in Index : clients'[j].node = clients[j].node
      BY <2>1, <2>2 DEF PutClient, PoolTypeOK
    <2>4. \A d \in Callers, j \in Index :
              held'[d][j] \in {held[d][j], NoClient}
      BY <2>1 DEF PutClient, PoolTypeOK
    <2> QED
      BY <2>3, <2>4 DEF Listed
  <1> QED
    BY <1>2, <1>3, <1>4, <1>5, <1>6 DEF PoolNext, Round

\* Were no sort to run in the middle of a round, no node would ever be lost
\* from the list, of any number of nodes and with any number of rounds at
\* once: rounds do not disturb each other, they write each copy back where
\* the same node is.  It is the sorts alone that lose one.
THEOREM NodesStayListed == PoolSpec /\ SortsApart => []EveryNodeListed
  <1>1. PoolInit => Copied /\ EveryNodeListed
    BY DEF PoolInit, Copied, EveryNodeListed, Listed
  <1>2. PoolInductive => PoolTypeOK
    BY DEF PoolInductive
  <1>3. PoolTypeOK /\ Copied /\ EveryNodeListed /\ [PoolNext]_poolVars /\
        [PostBeaconCall \/ (\E c \in Callers : RankClients(c))
             => NoCopies]_poolVars
          => Copied' /\ EveryNodeListed'
    <2>1. CASE UNCHANGED poolVars
      BY <2>1 DEF poolVars, Copied, EveryNodeListed, Listed
    <2>2. CASE ~ UNCHANGED poolVars
      BY <2>2, NextCopied
    <2> QED
      BY <2>1, <2>2
  <1> QED
    BY <1>1, <1>2, <1>3, PoolIsInductive, PTL DEF PoolSpec, SortsApart
=============================================================================
