------------------------------ MODULE Registry ------------------------------
(***************************************************************************)
(* The registry of the PoN pool in the relay: utils/relayUtils.go.  Three  *)
(* loops ask the pool's subgraph, once per epoch, for its builders, its    *)
(* validators and its reporters, and bring three stores up to date: the    *)
(* status each member has in Redis, its row in the database and, for a     *)
(* validator, its index, which beacon nodes are asked for.  A loop writes  *)
(* to Redis only what differs from the status it saw last.                 *)
(*                                                                         *)
(* The loops have the same shape and share nothing, so one is modelled;    *)
(* which one is left open by RegistryInit.                                 *)
(***************************************************************************)
EXTENDS Naturals, FiniteSets

CONSTANTS
    Members,      \* wallets or public keys the pool may list
    MaxStake,     \* bound: a stake, and the stake required
    GroupSize,    \* validators in one request for indexes (10 in the code)
    MaxChanges,   \* bound: how often the pool changes
    MaxFailures,  \* bound: how many calls fail, and how often the relay dies
    None          \* no entry

Stakes == 0..MaxStake
Statuses == {"active", "inactive"}

ASSUME RegistryAssumption ==
    /\ MaxStake \in Nat \ {0}
    /\ GroupSize \in Nat \ {0}
    /\ MaxChanges \in Nat
    /\ MaxFailures \in Nat
    /\ None \notin Nat
    /\ None \notin Statuses

VARIABLES
    kind,       \* which loop this is
    pool,       \* environment: member |-> stake, None if it is not listed;
                \* of a validator or a reporter, 1 for active, 0 for not
    required,   \* environment: the stake a builder needs
    known,      \* environment: validators the beacon nodes have an index for
    pc,         \* what the loop does next
    listed,     \* the builders and their stakes, as GetBuilders read them
    verdict,    \* the list of the round: member |-> status
    todo,       \* the members of the list the current loop has still to do
    fresh,      \* newProposers
    last,       \* BuilderLast, ValidatorsLast or ReporterLast
    status,     \* Redis hash: member |-> status
    rows,       \* database table: member |-> status
    indexed,    \* ValidatorPubkeyIndex and ValidatorIndexPubkey
    asking,     \* goroutines of GetValidatorIndex, by the group they ask for
    changes,    \* how often the pool has changed
    failures,   \* how many calls have failed, and restarts
    unwritten,  \* history: members whose last HSET failed
    missed,     \* history: validators asked for in vain since the start
    peak,       \* history: the greatest stake of each member
    lowest      \* history: the lowest stake that was ever required

env == <<kind, pool, required, known, changes, peak, lowest>>
round == <<pc, listed, verdict, todo>>
stores == <<last, status, unwritten, rows>>
indexes == <<fresh, indexed, asking, missed>>
registryVars == <<env, round, stores, indexes, failures>>

Groups == SUBSET Members

RegistryTypeOK ==
    /\ kind \in {"builders", "validators", "reporters"}
    /\ pool \in [Members -> Stakes \cup {None}]
    /\ required \in Stakes
    /\ known \subseteq Members
    /\ pc \in {"asleep", "stake", "statuses", "rows"}
    /\ listed \in [Members -> Stakes \cup {None}]
    /\ verdict \in [Members -> Statuses \cup {None}]
    /\ todo \subseteq Members
    /\ fresh \subseteq Members
    /\ last \in [Members -> Statuses \cup {None}]
    /\ status \in [Members -> Statuses \cup {None}]
    /\ rows \in [Members -> Statuses \cup {None}]
    /\ indexed \subseteq Members
    /\ asking \in [Groups -> Nat]
    /\ changes \in 0..MaxChanges
    /\ failures \in 0..MaxFailures
    /\ unwritten \subseteq Members
    /\ missed \subseteq Members
    /\ peak \in [Members -> Stakes]
    /\ lowest \in Stakes

Nothing == [m \in Members |-> None]

\* What a map of the process answers for a member it does not have: false for
\* a builder or a reporter, and for a validator a status that none has.
Default == IF kind = "validators" THEN None ELSE "inactive"

\* NewRelayUtils, with Redis flushed.
RegistryInit ==
    /\ kind \in {"builders", "validators", "reporters"}
    /\ pool \in [Members -> (IF kind = "builders" THEN Stakes ELSE {0, 1})
                              \cup {None}]
    /\ required \in IF kind = "builders" THEN Stakes ELSE {1}
    /\ known \in IF kind = "validators" THEN Groups ELSE {{}}
    /\ pc = "asleep"
    /\ listed = Nothing
    /\ verdict = Nothing
    /\ todo = {}
    /\ fresh = {}
    /\ last = [m \in Members |-> Default]
    /\ status = Nothing
    /\ rows = Nothing
    /\ indexed = {}
    /\ asking = [g \in Groups |-> 0]
    /\ changes = 0
    /\ failures = 0
    /\ unwritten = {}
    /\ missed = {}
    /\ peak = [m \in Members |-> IF pool[m] = None THEN 0 ELSE pool[m]]
    /\ lowest = required

CallFails == failures < MaxFailures /\ failures' = failures + 1
CallWorks == UNCHANGED failures

-----------------------------------------------------------------------------
(* A round: GetBuilders, GetValidators or GetReporters. *)

\* Mutant of Standing: the comparison is the wrong way round.
StandingInverted(stake, demand) ==
    IF stake < demand THEN "active" ELSE "inactive"

\* A member is active with the stake that is required, or more.
Standing(stake, demand) == IF stake >= demand THEN "active" ELSE "inactive"

Verdicts(stakes, demand) ==
    [m \in Members |->
        IF stakes[m] = None THEN None ELSE Standing(stakes[m], demand)]

Listed(stakes) == {m \in Members : stakes[m] # None}

\* The round ends, well or not, and the loop sleeps for an epoch.
Sleep ==
    /\ pc' = "asleep"
    /\ listed' = Nothing
    /\ verdict' = Nothing
    /\ todo' = {}

\* The round's first request.  That of GetBuilders lists stakes, and is not
\* yet enough to tell who is active.
FetchList ==
    /\ pc = "asleep"
    /\ \/ /\ CallWorks
          /\ kind = "builders"
          /\ pc' = "stake"
          /\ listed' = pool
          /\ UNCHANGED <<verdict, todo>>
       \/ /\ CallWorks
          /\ kind # "builders"
          /\ pc' = "statuses"
          /\ verdict' = Verdicts(pool, 1)
          /\ todo' = Listed(pool)
          /\ UNCHANGED listed
       \/ CallFails /\ UNCHANGED round
    /\ UNCHANGED <<env, stores, indexes>>

\* getBuilderRequiredStake, the second request of GetBuilders.
FetchStake ==
    /\ pc = "stake"
    /\ \/ /\ CallWorks
          /\ pc' = "statuses"
          /\ verdict' = Verdicts(listed, required)
          /\ todo' = Listed(listed)
          /\ listed' = Nothing
       \/ CallFails /\ Sleep
    /\ UNCHANGED <<env, stores, indexes>>

\* The status is the one seen last: nothing to do.
SkipStatus(m) ==
    /\ pc = "statuses"
    /\ m \in todo
    /\ verdict[m] = last[m]
    /\ todo' = todo \ {m}
    /\ UNCHANGED <<env, pc, listed, verdict, stores, indexes, failures>>

\* Mutants of SetStatus: the status seen last is not kept, and an HSETNX.
SetStatusForgets(m) ==
    /\ pc = "statuses"
    /\ m \in todo
    /\ verdict[m] # last[m]
    /\ todo' = todo \ {m}
    /\ CallWorks
    /\ status' = [status EXCEPT ![m] = verdict[m]]
    /\ UNCHANGED <<env, pc, listed, verdict, last, rows, indexes, unwritten>>

SetStatusOnce(m) ==
    /\ pc = "statuses"
    /\ m \in todo
    /\ verdict[m] # last[m]
    /\ todo' = todo \ {m}
    /\ last' = [last EXCEPT ![m] = verdict[m]]
    /\ CallWorks
    /\ status' = [status EXCEPT ![m] = IF @ = None THEN verdict[m] ELSE @]
    /\ UNCHANGED <<env, pc, listed, verdict, rows, indexes, unwritten>>

\* HSET of a status that has changed.  An error is logged, and the status is
\* the last one seen all the same.  A validator without an index is noted.
SetStatus(m) ==
    /\ pc = "statuses"
    /\ m \in todo
    /\ verdict[m] # last[m]
    /\ todo' = todo \ {m}
    /\ last' = [last EXCEPT ![m] = verdict[m]]
    /\ \/ /\ CallWorks
          /\ status' = [status EXCEPT ![m] = verdict[m]]
          /\ unwritten' = unwritten \ {m}
       \/ /\ CallFails
          /\ status' \in {status, [status EXCEPT ![m] = verdict[m]]}
          /\ unwritten' = unwritten \cup {m}
    /\ fresh' = IF kind = "validators" /\ m \notin indexed
                  THEN fresh \cup {m} ELSE fresh
    /\ UNCHANGED <<env, pc, listed, verdict, rows, indexed, asking, missed>>

\* Mutant of Chunks: only the groups that are full.
FullChunks(set) ==
    {p \in SUBSET (SUBSET set) :
        /\ \A g, h \in p : g # h => g \cap h = {}
        /\ \A g \in p : Cardinality(g) = GroupSize
        /\ Cardinality(set \ UNION p) < GroupSize}

\* chunkSlice: groups of GroupSize, and one of what is left.
Chunks(set) ==
    {p \in SUBSET (SUBSET set) :
        /\ UNION p = set
        /\ {} \notin p
        /\ \A g, h \in p : g # h => g \cap h = {}
        /\ \A g \in p : Cardinality(g) <= GroupSize
        /\ \A g, h \in p :
              g # h => GroupSize \in {Cardinality(g), Cardinality(h)}}

\* All statuses are done.  The indexes of the new validators are asked for in
\* goroutines that nobody waits for, and the rows are next.
AskIndexes ==
    /\ pc = "statuses"
    /\ todo = {}
    /\ pc' = "rows"
    /\ todo' = Listed(verdict)
    /\ fresh' = {}
    /\ \E p \in Chunks(fresh) :
          asking' = [g \in Groups |-> IF g \in p THEN asking[g] + 1
                                                 ELSE asking[g]]
    /\ UNCHANGED <<env, listed, verdict, stores, indexed, missed, failures>>

\* Mutant of PutRow: on conflict it does nothing.
PutRowOnce(m) ==
    /\ pc = "rows"
    /\ m \in todo
    /\ CallWorks
    /\ rows' = [rows EXCEPT ![m] = IF @ = None THEN verdict[m] ELSE @]
    /\ todo' = todo \ {m}
    /\ UNCHANGED <<env, pc, listed, verdict, last, status, unwritten, indexes>>

\* PutBuilders, PutValidators or PutReporters: the rows are upserted one at a
\* time, changed or not, and the first that fails ends the round.
PutRow(m) ==
    /\ pc = "rows"
    /\ m \in todo
    /\ LET new == [rows EXCEPT ![m] = verdict[m]]
       IN  \/ /\ CallWorks
              /\ rows' = new
              /\ todo' = todo \ {m}
              /\ UNCHANGED <<pc, listed, verdict>>
           \/ CallFails /\ rows' \in {rows, new} /\ Sleep
    /\ UNCHANGED <<env, last, status, unwritten, indexes>>

EndRound ==
    /\ pc = "rows"
    /\ todo = {}
    /\ Sleep
    /\ UNCHANGED <<env, stores, indexes, failures>>

Round ==
    \/ FetchList \/ FetchStake \/ AskIndexes \/ EndRound
    \/ \E m \in Members : SkipStatus(m) \/ SetStatus(m) \/ PutRow(m)

-----------------------------------------------------------------------------
(* Around the loop. *)

\* A goroutine of GetValidatorIndex ends.  The first beacon node that answers
\* decides, with an index for those of the group it knows; all may fail, and
\* the one that answers may be behind.  Nobody asks again.
AnswerIndexes(g) ==
    /\ asking[g] > 0
    /\ asking' = [asking EXCEPT ![g] = @ - 1]
    /\ \/ CallWorks /\ indexed' = indexed \cup (g \cap known)
       \/ /\ CallFails
          /\ \E a \in SUBSET (g \cap known) : indexed' = indexed \cup a
    /\ missed' = (missed \cup g) \ indexed'
    /\ UNCHANGED <<env, round, stores, fresh>>

\* A member joins or leaves, changes its stake, or changes its status.
PoolChanges(m) ==
    /\ changes < MaxChanges
    /\ changes' = changes + 1
    /\ \E s \in (IF kind = "builders" THEN Stakes ELSE {0, 1}) \cup {None} :
          /\ s # pool[m]
          /\ pool' = [pool EXCEPT ![m] = s]
          /\ peak' = IF s # None /\ s > peak[m] THEN [peak EXCEPT ![m] = s]
                                                ELSE peak
    /\ UNCHANGED <<kind, required, known, lowest, round, stores, indexes,
                   failures>>

RequirementChanges ==
    /\ kind = "builders"
    /\ changes < MaxChanges
    /\ changes' = changes + 1
    /\ required' \in Stakes \ {required}
    /\ lowest' = IF required' < lowest THEN required' ELSE lowest
    /\ UNCHANGED <<kind, pool, known, peak, round, stores, indexes, failures>>

\* A validator is included in the beacon chain.
ValidatorIncluded(m) ==
    /\ kind = "validators"
    /\ m \notin known
    /\ known' = known \cup {m}
    /\ UNCHANGED <<kind, pool, required, changes, peak, lowest, round, stores,
                   indexes, failures>>

\* The relay dies and starts again: Redis and the maps of the process are
\* empty, the database is not.
RegistryRestart ==
    /\ CallFails
    /\ Sleep
    /\ fresh' = {}
    /\ last' = [m \in Members |-> Default]
    /\ status' = Nothing
    /\ indexed' = {}
    /\ asking' = [g \in Groups |-> 0]
    /\ unwritten' = {}
    /\ missed' = {}
    /\ UNCHANGED <<env, rows>>

RegistryNext ==
    \/ Round
    \/ \E g \in Groups : AnswerIndexes(g)
    \/ \E m \in Members : PoolChanges(m) \/ ValidatorIncluded(m)
    \/ RequirementChanges
    \/ RegistryRestart

RegistrySpec == RegistryInit /\ [][RegistryNext]_registryVars

\* The loop goes on, round after round, and each call it makes returns; so do
\* the goroutines that ask for indexes.  (The subgraph's and the beacon nodes'
\* HTTP clients have no time-out: of a server that takes a request and never
\* answers it this is not true.)  The pool and the chain owe nothing.
RegistryFairness ==
    /\ WF_registryVars(Round)
    /\ WF_registryVars(\E g \in Groups : AnswerIndexes(g))

RegistryFairSpec == RegistrySpec /\ RegistryFairness

-----------------------------------------------------------------------------
(* What the rest of the relay asks the registry. *)

\* BuilderStatus: a builder without an entry is not active.
BuilderStatus(m) == status[m] = "active"

\* ValidatorIndexToPubkey finds the key of the validator with an index.
HasPubkey(m) == m \in indexed

-----------------------------------------------------------------------------
(* What holds. *)

\* What Redis tells handleSubmitBlock of a builder is what the loop believes
\* it has told Redis, so that skipping a status that has not changed is right,
\* unless the HSET of that builder's last change failed.
RedisIsWhatWasSeen ==
    \A m \in Members \ unwritten : BuilderStatus(m) <=> last[m] = "active"

\* No builder gets to bid, or is kept as active, that never had a stake as high
\* as some stake that was required: whatever happens between the two requests
\* of GetBuilders, with failing calls and restarts.
ActiveWasPaidFor ==
    \A m \in Members :
        BuilderStatus(m) \/ rows[m] = "active" => peak[m] >= lowest

\* When the rows of a round are written, its verdict stands everywhere: Redis
\* tells handleSubmitBlock of every listed member what the round found, also of
\* those whose status was skipped, unless the last HSET failed, and every row
\* already upserted says so too.
RoundApplied ==
    pc = "rows" =>
        \A m \in Listed(verdict) :
            /\ m \notin unwritten =>
                  (BuilderStatus(m) <=> verdict[m] = "active")
            /\ m \notin todo => rows[m] = verdict[m]

\* No validator whose status the relay has seen slips through on its way to an
\* index: it waits for the next request, is in one that is on its way, has its
\* index, or was asked for in vain.
NoneForgotten ==
    kind = "validators" =>
        \A m \in Members :
            last[m] # None =>
                \/ m \in fresh \cup indexed \cup missed
                \/ \E g \in Groups : m \in g /\ asking[g] > 0

\* The statuses that are done were seen: what makes skipping one right.
SeenOnceDone ==
    pc \in {"statuses", "rows"} =>
        \A m \in Listed(verdict) :
            last[m] = verdict[m] \/ (pc = "statuses" /\ m \in todo)

\* The inductive invariant: the statuses on their way, and those seen last,
\* were paid for too.
RegistryInductive ==
    /\ RegistryTypeOK
    /\ RedisIsWhatWasSeen
    /\ ActiveWasPaidFor
    /\ RoundApplied
    /\ NoneForgotten
    /\ SeenOnceDone
    /\ required >= lowest /\ (kind # "builders" => lowest = 1)
    /\ \A m \in Members :
          /\ pool[m] # None => pool[m] <= peak[m]
          /\ listed[m] # None => listed[m] <= peak[m]
          /\ "active" \in {verdict[m], last[m]} => peak[m] >= lowest
    /\ pc \in {"statuses", "rows"} => \A m \in todo : verdict[m] # None

-----------------------------------------------------------------------------
(* What happens in the end.  The bound on changes stands for a pool that   *)
(* comes to rest.                                                          *)

IsNow(m, s) == pool[m] # None /\ s = Standing(pool[m], required)

\* The row of a member comes to say what the pool says of it, even after
\* upserts that failed: every round upserts every row.
RowsFollowPool ==
    \A m \in Members : <>[](pool[m] # None => IsNow(m, rows[m]))

\* So does the status that decides whether a builder may bid, unless its HSET
\* failed: that is not tried again until the pool changes its mind.
StatusFollowsPool ==
    \A m \in Members :
        <>[](pool[m] # None /\ m \notin unwritten =>
                (BuilderStatus(m) <=> IsNow(m, "active")))

\* The key of every listed validator comes to be known by its index, so that
\* its payload requests can be verified, unless it was asked for in vain: it
\* is asked for only once after each change of its status.
KeysFollowPool ==
    \A m \in Members :
        <>[](kind = "validators" /\ pool[m] # None =>
                HasPubkey(m) \/ m \in missed)
=============================================================================
