----------------------------- MODULE ClientPool -----------------------------
(***************************************************************************)
(* The pool of beacon nodes: MultiBeaconClient in beaconinterface.  A list *)
(* of clients, kept in the order in which fetches try them, is refreshed   *)
(* by SyncStatus (one goroutine per client) and sorted in place by         *)
(* updateClientPerformance, after each refresh and after each fetch.  The  *)
(* mutex clientUpdate covers a write to the list and a sort of it, not the *)
(* loop that copies the clients out.                                       *)
(*                                                                         *)
(* Of what the sort compares, only the sync status is kept: the slot of    *)
(* the head, the response code, the speed and the time of the last use     *)
(* only order clients of the same status, in any way.                      *)
(***************************************************************************)
EXTENDS Naturals

CONSTANTS
    Nodes,       \* the beacon nodes: the URLs of --beacon-uris
    N,           \* how many there are
    Listing,     \* the list NewMultiBeaconClient makes of them
    Rounds,      \* goroutines of SubscribeToHeadEvents that run SyncStatus
    Main,        \* the goroutine that runs Start
    MaxSorts,    \* bound: background sorts waiting at a time
    MaxFailures, \* bound: how many sync checks fail
    NoClient     \* no goroutine holds a copy

Index == 1..N

\* A client's SyncStatus is nil ("unknown") until its node first answers.
Client == [node : Nodes, sync : {"unknown", "syncing", "synced"}]

ASSUME PoolAssumption ==
    /\ N \in Nat \ {0}
    /\ Listing \in [Index -> Nodes]
    /\ Main \notin Rounds
    /\ MaxSorts \in Nat
    /\ MaxFailures \in Nat
    /\ NoClient \notin Client

VARIABLES
    clients,   \* MultiBeaconClient.Clients
    state,     \* environment: what each node knows of its sync status
    boot,      \* how far Start has come
    pc,        \* what each caller of SyncStatus does next
    next,      \* the index its loop has come to
    held,      \* the copies its goroutines hold, by index
    sorts,     \* background sorts started by postBeaconCall, not yet run
    failures,  \* how many sync checks have failed
    process    \* the relay's process, until it dies of a nil pointer

poolVars == <<clients, state, boot, pc, next, held, sorts, failures, process>>

Callers == Rounds \cup {Main}

PoolTypeOK ==
    /\ clients \in [Index -> Client]
    /\ state \in [Nodes -> {"syncing", "synced"}]
    /\ boot \in {"genesis", "waiting", "subscribed", "failed"}
    /\ pc \in [Callers -> {"idle", "asking", "ranked"}]
    /\ next \in [Callers -> Nat \ {0}]
    /\ held \in [Callers -> [Index -> Client \cup {NoClient}]]
    /\ sorts \in Nat
    /\ failures \in Nat
    /\ process \in {"up", "crashed"}

\* NewMultiBeaconClient.
PoolInit ==
    /\ clients = [i \in Index |-> [node |-> Listing[i], sync |-> "unknown"]]
    /\ state \in [Nodes -> {"syncing", "synced"}]
    /\ boot = "genesis"
    /\ pc = [c \in Callers |-> "idle"]
    /\ next = [c \in Callers |-> 1]
    /\ held = [c \in Callers |-> [i \in Index |-> NoClient]]
    /\ sorts = 0
    /\ failures = 0
    /\ process = "up"

-----------------------------------------------------------------------------
(* updateClientPerformance. *)

\* Mutant of Ranked: the clients that are synced first.
RankedSynced(list) ==
    \A i, j \in Index :
        i < j /\ list[j].sync = "synced" => list[i].sync = "synced"

\* The comparison puts the clients that are syncing first.
Ranked(list) ==
    \A i, j \in Index :
        i < j /\ list[j].sync = "syncing" => list[i].sync = "syncing"

\* The ways to order the list: every client lands at some index.
Shuffles ==
    {p \in [Index -> Index] : \A i \in Index : \E j \in Index : p[j] = i}

\* Comparing two clients reads the sync status of both, nil or not.
SortDies == N > 1 /\ \E i \in Index : clients[i].sync = "unknown"

Sort ==
    \/ SortDies /\ process' = "crashed" /\ UNCHANGED clients
    \/ /\ ~ SortDies
       /\ \E p \in Shuffles :
             /\ clients' = [i \in Index |-> clients[p[i]]]
             /\ Ranked(clients')
       /\ UNCHANGED process

-----------------------------------------------------------------------------
(* SyncStatus. *)

\* A round starts: waitSynced calls SyncStatus again and again, a head event
\* starts it in a goroutine.
SyncStatus(c) ==
    /\ pc[c] = "idle"
    /\ boot = IF c = Main THEN "waiting" ELSE "subscribed"
    /\ pc' = [pc EXCEPT ![c] = "asking"]
    /\ UNCHANGED <<clients, state, boot, next, held, sorts, failures, process>>

\* The loop copies the next client out, without the mutex, and starts the
\* goroutine that will ask it.
CopyClient(c) ==
    /\ pc[c] = "asking"
    /\ next[c] <= N
    /\ held' = [held EXCEPT ![c][next[c]] = clients[next[c]]]
    /\ next' = [next EXCEPT ![c] = @ + 1]
    /\ UNCHANGED <<clients, state, boot, pc, sorts, failures, process>>

\* Mutant of PutClient: the goroutines share the loop's index.
PutClientLast(c, i, client) ==
    /\ clients' = [clients EXCEPT ![next[c] - 1] = client]
    /\ held' = [held EXCEPT ![c][i] = NoClient]

\* A goroutine stores its copy at the index it was copied from.
PutClient(c, i, client) ==
    /\ clients' = [clients EXCEPT ![i] = client]
    /\ held' = [held EXCEPT ![c][i] = NoClient]

\* Mutant of NodeAnswers: a node that fails its check loses what is known.
NodeForgets(c, i) ==
    /\ held[c][i] # NoClient
    /\ LET client == held[c][i]
       IN  \/ /\ PutClient(c, i, [client EXCEPT !.sync = state[client.node]])
              /\ UNCHANGED failures
           \/ /\ failures < MaxFailures
              /\ failures' = failures + 1
              /\ PutClient(c, i, [client EXCEPT !.sync = "unknown"])
    /\ UNCHANGED <<state, boot, pc, next, sorts, process>>

\* The node answers, or the call fails and the old sync status stays.
NodeAnswers(c, i) ==
    /\ held[c][i] # NoClient
    /\ LET client == held[c][i]
       IN  \/ /\ PutClient(c, i, [client EXCEPT !.sync = state[client.node]])
              /\ UNCHANGED failures
           \/ /\ failures < MaxFailures
              /\ failures' = failures + 1
              /\ PutClient(c, i, client)
    /\ UNCHANGED <<state, boot, pc, next, sorts, process>>

\* All goroutines are done, wg.Wait returns, and the clients are sorted.
RankClients(c) ==
    /\ pc[c] = "asking"
    /\ next[c] = N + 1
    /\ \A i \in Index : held[c][i] = NoClient
    /\ Sort
    /\ pc' = [pc EXCEPT ![c] = "ranked"]
    /\ UNCHANGED <<state, boot, next, held, sorts, failures>>

\* Mutant of Synced: the test of IsSyncing is the wrong way round.
SyncedNever(client) == client.sync = "syncing"

\* waitSynced's test of the client SyncStatus answers with.
Synced(client) == client.sync = "synced"

\* SyncStatus answers with the first client of the list.  waitSynced returns
\* if it is synced, and Start then subscribes to the events.
ReturnSyncStatus(c) ==
    /\ pc[c] = "ranked"
    /\ pc' = [pc EXCEPT ![c] = "idle"]
    /\ next' = [next EXCEPT ![c] = 1]
    /\ boot' = IF c = Main /\ Synced(clients[1]) THEN "subscribed" ELSE boot
    /\ UNCHANGED <<clients, state, held, sorts, failures, process>>

-----------------------------------------------------------------------------
(* Start, the fetches, and the nodes. *)

\* ensureClientsAlive asks every node for its genesis.  A node that fails is
\* tolerated; one that is late, two that differ, or none at all are not.
Alive(answers) ==
    /\ \A n \in Nodes : answers[n] # "late"
    /\ \E genesis \in {"genesis", "foreign"} :
          /\ \E n \in Nodes : answers[n] = genesis
          /\ \A n \in Nodes : answers[n] \in {genesis, "error"}

\* Start goes on to waitSynced, or returns; the relay goes on in both cases.
EnsureClientsAlive ==
    /\ boot = "genesis"
    /\ \E answers \in [Nodes -> {"genesis", "foreign", "error", "late"}] :
          boot' = IF Alive(answers) THEN "waiting" ELSE "failed"
    /\ UNCHANGED <<clients, state, pc, next, held, sorts, failures, process>>

\* Any of the fetches, once Start has returned.  It asks the clients in turn
\* until one answers, and notes what they did in copies of them, which are
\* lost; what is left of it is the sort it starts when it ends.
Fetch ==
    /\ boot \in {"subscribed", "failed"}
    /\ sorts < MaxSorts
    /\ sorts' = sorts + 1
    /\ UNCHANGED <<clients, state, boot, pc, next, held, failures, process>>

\* postBeaconCall's goroutine gets the mutex.
PostBeaconCall ==
    /\ sorts > 0
    /\ sorts' = sorts - 1
    /\ Sort
    /\ UNCHANGED <<state, boot, pc, next, held, failures>>

\* A node catches up with the chain, or falls behind it.
NodeChanges(n) ==
    /\ \E sync \in {"syncing", "synced"} : state' = [state EXCEPT ![n] = sync]
    /\ UNCHANGED <<clients, boot, pc, next, held, sorts, failures, process>>

Round(c) ==
    \/ SyncStatus(c) \/ CopyClient(c) \/ RankClients(c) \/ ReturnSyncStatus(c)
    \/ \E i \in Index : NodeAnswers(c, i)

PoolNext ==
    /\ process = "up"
    /\ \/ EnsureClientsAlive \/ Fetch \/ PostBeaconCall
       \/ \E c \in Callers : Round(c)
       \/ \E n \in Nodes : NodeChanges(n)

PoolSpec == PoolInit /\ [][PoolNext]_poolVars

\* The goroutine that runs Start goes on, and each call it waits for returns.
\* (http.DefaultClient has no time-out: of a node that takes a request and
\* never answers it this is not true, and Start waits for it forever.)
\* No node owes it to catch up.
PoolFairness ==
    /\ WF_poolVars(process = "up" /\ EnsureClientsAlive)
    /\ WF_poolVars(process = "up" /\ Round(Main))

PoolFairSpec == PoolSpec /\ PoolFairness

-----------------------------------------------------------------------------
(* What holds. *)

Listed == {clients[i].node : i \in Index}

\* While Start runs no node gets lost from the list and none is in it twice:
\* the goroutines of a round write each client back where it was, and the
\* list is sorted only between rounds.
ListedWhileStarting ==
    boot # "subscribed" =>
        \A n \in {Listing[i] : i \in Index} : n \in Listed

\* A node that fails its sync check, or a sort at a bad moment, may kill the
\* relay while it starts, but not once Start has subscribed: every client in
\* the list, or on its way back to it, has a sync status by then.
NoCrashOnceSubscribed == boot = "subscribed" => process = "up"

\* When Start subscribes, the last answer of every node in the list was that
\* it is synced: the sort puts one that is syncing at the top, where the test
\* of waitSynced looks.
SubscribesWhenAllSynced ==
    [][boot = "waiting" /\ boot' = "subscribed" =>
          \A i \in Index : clients[i].sync = "synced"]_poolVars

\* Nobody but Start touches the list while it runs.
OnlyStart ==
    /\ boot # "subscribed" => \A c \in Rounds : pc[c] = "idle"
    /\ pc[Main] # "idle" => boot = "waiting"
    /\ boot \in {"genesis", "waiting"} => sorts = 0
    /\ \A c \in Callers, i \in Index : pc[c] # "asking" => held[c][i] = NoClient

\* The copies of a round of Start are of the clients at their index.
InPlace ==
    boot # "subscribed" =>
        \A i \in Index : held[Main][i] # NoClient =>
            held[Main][i].node = clients[i].node

\* A sort that did not kill the relay leaves the list ranked, and known.
RankedByStart ==
    pc[Main] = "ranked" /\ process = "up" =>
        /\ Ranked(clients)
        /\ N > 1 => \A i \in Index : clients[i].sync # "unknown"

\* From then on no client, in the list or in a copy, is without a status.
KnownOnceSubscribed ==
    boot = "subscribed" =>
        /\ process = "up"
        /\ \A i \in Index : clients[i].sync # "unknown"
        /\ \A c \in Callers, i \in Index :
              held[c][i] # NoClient => held[c][i].sync # "unknown"

\* The inductive invariant the safety properties follow from.
PoolInductive ==
    /\ PoolTypeOK
    /\ OnlyStart
    /\ InPlace
    /\ ListedWhileStarting
    /\ RankedByStart
    /\ KnownOnceSubscribed

Started == boot \in {"subscribed", "failed"} \/ process = "crashed"

\* If all nodes are synced from some time on, waitSynced comes to an end.
AllSyncedIsEnough == <>[](\A n \in Nodes : state[n] = "synced") => <>Started

\* The comment on Start: "waiting for at least one client to be synced".  (It
\* waits for all of them.)
OneSyncedIsEnough == \A n \in Nodes : <>[](state[n] = "synced") => <>Started

\* The comment on updateClientPerformance: it takes clientUpdate "to ensure
\* that the clients are not updated concurrently".  (A round that writes its
\* copies back after a sort overwrites other clients, which are gone.)
EveryNodeListed == \A n \in {Listing[i] : i \in Index} : n \in Listed
=============================================================================
