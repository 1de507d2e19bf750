--------------------------- MODULE RegistryProofs ---------------------------
(***************************************************************************)
(* The registry's safety, for any pool, any stakes and any number of       *)
(* changes, failing calls and restarts.                                    *)
(***************************************************************************)
EXTENDS Registry, TLAPS

\* Parts of RegistryInductive that are not properties of their own.
StakesSeen ==
    /\ required >= lowest /\ (kind # "builders" => lowest = 1)
    /\ \A m \in Members :
          /\ pool[m] # None => pool[m] <= peak[m]
          /\ listed[m] # None => listed[m] <= peak[m]
          /\ "active" \in {verdict[m], last[m]} => peak[m] >= lowest

TodoListed == pc \in {"statuses", "rows"} => \A m \in todo : verdict[m] # None

\* What the statuses and the stakes need of each other.
Paid ==
    /\ RegistryTypeOK
    /\ RedisIsWhatWasSeen
    /\ ActiveWasPaidFor
    /\ StakesSeen
    /\ TodoListed

LEMMA RegistryParts ==
  RegistryInductive <=> Paid /\ RoundApplied /\ SeenOnceDone /\ NoneForgotten
  BY DEF RegistryInductive, Paid, StakesSeen, TodoListed

-----------------------------------------------------------------------------
(* Facts about the values. *)

LEMMA StatusValues ==
  /\ "active" # None /\ "inactive" # None
  /\ Default \in Statuses \cup {None} /\ Default # "active"
  /\ Nothing \in [Members -> Stakes \cup {None}]
  /\ Nothing \in [Members -> Statuses \cup {None}]
  BY RegistryAssumption DEF Statuses, Default, Nothing

LEMMA StakeValues ==
  /\ Stakes \subseteq Nat /\ None \notin Stakes
  /\ 0 \in Stakes /\ 1 \in Stakes
  BY RegistryAssumption DEF Stakes

\* A call that fails keeps the count within its bound.
LEMMA FailureCount ==
  ASSUME RegistryTypeOK, CallFails \/ CallWorks
  PROVE  failures' \in 0..MaxFailures
  BY RegistryAssumption DEF RegistryTypeOK, CallFails, CallWorks

\* Who is active by a list has at least the stake that was asked for, and
\* whoever is on a list gets a verdict.
LEMMA VerdictOfStakes ==
  ASSUME NEW stakes \in [Members -> Stakes \cup {None}], NEW demand \in Stakes
  PROVE  /\ Verdicts(stakes, demand) \in [Members -> Statuses \cup {None}]
         /\ \A m \in Members :
               /\ Verdicts(stakes, demand)[m] = "active" =>
                     stakes[m] # None /\ stakes[m] >= demand
               /\ stakes[m] # None => Verdicts(stakes, demand)[m] # None
  <1>1. \A m \in Members :
            Verdicts(stakes, demand)[m] =
                IF stakes[m] = None THEN None ELSE Standing(stakes[m], demand)
    BY DEF Verdicts
  <1>2. \A m \in Members :
            Standing(stakes[m], demand) \in {"active", "inactive"}
            /\ (Standing(stakes[m], demand) = "active" => stakes[m] >= demand)
    BY DEF Standing
  <1>3. \A m \in Members :
            Verdicts(stakes, demand)[m] \in Statuses \cup {None}
    BY <1>1, <1>2 DEF Statuses
  <1>4. Verdicts(stakes, demand) \in [Members -> Statuses \cup {None}]
    BY <1>3 DEF Verdicts
  <1> QED
    BY <1>1, <1>2, <1>4, StatusValues

\* A list's verdict is on the members it lists, and on no other.
LEMMA ListedHaveVerdicts ==
  ASSUME NEW stakes, NEW demand
  PROVE  Listed(Verdicts(stakes, demand)) = Listed(stakes)
  BY StatusValues DEF Listed, Verdicts, Standing

-----------------------------------------------------------------------------
(* The initial states. *)

LEMMA InitRegistry == RegistryInit => Paid
  <1> SUFFICES ASSUME RegistryInit PROVE Paid
    OBVIOUS
  <1>1. RegistryTypeOK
    <2>1. pool \in [Members -> Stakes \cup {None}] /\ required \in Stakes
      BY StakeValues DEF RegistryInit
    <2>2. peak \in [Members -> Stakes]
      BY <2>1, StakeValues DEF RegistryInit
    <2>3. known \subseteq Members
      BY DEF RegistryInit, Groups
    <2>4. last \in [Members -> Statuses \cup {None}]
      BY StatusValues DEF RegistryInit
    <2> QED
      BY <2>1, <2>2, <2>3, <2>4, StatusValues, RegistryAssumption
         DEF RegistryTypeOK, RegistryInit
  <1>2. \A m \in Members : ~ BuilderStatus(m) /\ last[m] # "active"
                           /\ rows[m] # "active" /\ verdict[m] # "active"
                           /\ listed[m] = None
    BY StatusValues DEF RegistryInit, BuilderStatus, Nothing
  <1>3. RedisIsWhatWasSeen /\ ActiveWasPaidFor
    BY <1>2 DEF RedisIsWhatWasSeen, ActiveWasPaidFor
  <1>4. StakesSeen
    <2>1. /\ required \in Nat /\ required = lowest
          /\ kind # "builders" => required = 1
          /\ \A m \in Members : pool[m] # None =>
                                pool[m] = peak[m] /\ pool[m] \in Nat
      BY <1>1, StakeValues DEF RegistryInit, RegistryTypeOK
    <2> QED
      BY <1>2, <2>1 DEF StakesSeen
  <1>5. TodoListed
    BY DEF TodoListed, RegistryInit
  <1> QED
    BY <1>1, <1>3, <1>4, <1>5 DEF Paid

-----------------------------------------------------------------------------
(* The steps. *)

\* What the rounds and the goroutines leave alone.
LEMMA Untouched ==
  ASSUME Paid, UNCHANGED <<env, stores>>, RegistryTypeOK'
  PROVE  RedisIsWhatWasSeen' /\ ActiveWasPaidFor'
  BY DEF Paid, RedisIsWhatWasSeen, ActiveWasPaidFor,
         BuilderStatus, env, stores

\* A round that ends leaves no verdict behind.
LEMMA SleepSafe ==
  ASSUME Paid, Sleep, UNCHANGED env,
         \A m \in Members : last'[m] = "active" => last[m] = "active"
  PROVE  StakesSeen' /\ TodoListed'
  <1>1. \A m \in Members : verdict'[m] # "active" /\ listed'[m] = None
    BY StatusValues DEF Sleep, Nothing
  <1>2. pc' = "asleep"
    BY DEF Sleep
  <1> QED
    BY <1>1, <1>2 DEF StakesSeen, TodoListed, Paid, env

LEMMA StepFetchList ==
  ASSUME Paid, FetchList
  PROVE  Paid'
  <1>0. RegistryTypeOK /\ StakesSeen
    BY DEF Paid
  <1>1. UNCHANGED <<env, stores, indexes>>
    BY DEF FetchList
  <1>2. failures' \in 0..MaxFailures
    BY <1>0, FailureCount DEF FetchList
  <1>3. CASE UNCHANGED round
    BY <1>0, <1>1, <1>2, <1>3, Untouched
       DEF Paid, RegistryTypeOK, StakesSeen, TodoListed, env, stores, indexes,
           round
  <1>4. CASE /\ pc' = "stake" /\ listed' = pool /\ UNCHANGED <<verdict, todo>>
    <2>1. RegistryTypeOK'
      BY <1>0, <1>1, <1>2, <1>4
         DEF RegistryTypeOK, env, stores, indexes
    <2>2. StakesSeen'
      BY <1>0, <1>1, <1>4 DEF StakesSeen, env, stores
    <2>3. TodoListed'
      BY <1>4 DEF TodoListed
    <2> QED
      BY <1>1, <2>1, <2>2, <2>3, Untouched DEF Paid
  <1>5. CASE /\ kind # "builders" /\ pc' = "statuses"
             /\ verdict' = Verdicts(pool, 1) /\ todo' = Listed(pool)
             /\ UNCHANGED listed
    <2>1. pool \in [Members -> Stakes \cup {None}] /\ 1 \in Stakes
      BY <1>0, StakeValues DEF RegistryTypeOK
    <2>2. /\ verdict' \in [Members -> Statuses \cup {None}]
          /\ \A m \in Members :
                /\ verdict'[m] = "active" => pool[m] # None /\ pool[m] >= 1
                /\ pool[m] # None => verdict'[m] # None
      BY <1>5, <2>1, VerdictOfStakes
    <2>3. RegistryTypeOK'
      BY <1>0, <1>1, <1>2, <1>5, <2>2
         DEF RegistryTypeOK, env, stores, indexes, Listed
    <2>4. StakesSeen'
      <3>1. /\ peak \in [Members -> Nat] /\ lowest = 1
            /\ \A m \in Members : pool[m] # None => pool[m] \in Nat
        BY <1>0, <1>5, <2>1, StakeValues DEF StakesSeen, RegistryTypeOK
      <3> QED
        BY <1>0, <1>1, <1>5, <2>2, <3>1 DEF StakesSeen, env, stores
    <2>5. TodoListed'
      BY <1>5, <2>2 DEF TodoListed, Listed
    <2> QED
      BY <1>1, <2>3, <2>4, <2>5, Untouched DEF Paid
  <1> QED
    BY <1>3, <1>4, <1>5 DEF FetchList

LEMMA StepFetchStake ==
  ASSUME Paid, FetchStake
  PROVE  Paid'
  <1>0. RegistryTypeOK /\ StakesSeen
    BY DEF Paid
  <1>1. UNCHANGED <<env, stores, indexes>>
    BY DEF FetchStake
  <1>2. failures' \in 0..MaxFailures
    BY <1>0, FailureCount DEF FetchStake
  <1>3. CASE Sleep
    <2>1. RegistryTypeOK'
      BY <1>0, <1>1, <1>2, <1>3, StatusValues
         DEF RegistryTypeOK, Sleep, env, stores, indexes
    <2>2. StakesSeen' /\ TodoListed'
      BY <1>1, <1>3, SleepSafe DEF stores
    <2> QED
      BY <1>1, <2>1, <2>2, Untouched DEF Paid
  <1>4. CASE /\ pc' = "statuses" /\ verdict' = Verdicts(listed, required)
             /\ todo' = Listed(listed) /\ listed' = Nothing
    <2>1. listed \in [Members -> Stakes \cup {None}] /\ required \in Stakes
      BY <1>0 DEF RegistryTypeOK
    <2>2. /\ verdict' \in [Members -> Statuses \cup {None}]
          /\ \A m \in Members :
                /\ verdict'[m] = "active" =>
                      listed[m] # None /\ listed[m] >= required
                /\ listed[m] # None => verdict'[m] # None
      BY <1>4, <2>1, VerdictOfStakes
    <2>3. RegistryTypeOK'
      BY <1>0, <1>1, <1>2, <1>4, <2>2, StatusValues
         DEF RegistryTypeOK, env, stores, indexes, Listed
    <2>4. /\ peak \in [Members -> Nat] /\ lowest \in Nat /\ required \in Nat
          /\ \A m \in Members : listed[m] # None => listed[m] \in Nat
      BY <1>0, <2>1, StakeValues DEF RegistryTypeOK
    <2>5. \A m \in Members : listed'[m] = None
      BY <1>4 DEF Nothing
    <2>6. StakesSeen'
      BY <1>0, <1>1, <2>2, <2>4, <2>5 DEF StakesSeen, env, stores
    <2>7. TodoListed'
      BY <1>4, <2>2 DEF TodoListed, Listed
    <2> QED
      BY <1>1, <2>3, <2>6, <2>7, Untouched DEF Paid
  <1> QED
    BY <1>3, <1>4 DEF FetchStake

\* An HSET, done or failed, of the verdict on one member.
LEMMA StepSetStatus ==
  ASSUME Paid, NEW m \in Members, SetStatus(m)
  PROVE  Paid'
  <1>0. /\ RegistryTypeOK /\ StakesSeen /\ TodoListed
        /\ RedisIsWhatWasSeen /\ ActiveWasPaidFor
    BY DEF Paid
  <1>1. /\ UNCHANGED <<env, pc, listed, verdict, rows>>
        /\ last' = [last EXCEPT ![m] = verdict[m]]
        /\ status' \in {status, [status EXCEPT ![m] = verdict[m]]}
        /\ todo' = todo \ {m}
    BY DEF SetStatus
  <1>2. \/ /\ status' = [status EXCEPT ![m] = verdict[m]]
           /\ unwritten' = unwritten \ {m}
        \/ unwritten' = unwritten \cup {m}
    BY DEF SetStatus
  <1>3. failures' \in 0..MaxFailures
    BY <1>0, FailureCount DEF SetStatus
  <1>4. RegistryTypeOK'
    BY <1>0, <1>1, <1>2, <1>3 DEF RegistryTypeOK, SetStatus, env
  <1>5. RedisIsWhatWasSeen'
    <2>1. status \in [Members -> Statuses \cup {None}]
          /\ last \in [Members -> Statuses \cup {None}]
      BY <1>0 DEF RegistryTypeOK
    <2> QED
      BY <1>0, <1>1, <1>2, <2>1 DEF RedisIsWhatWasSeen, BuilderStatus
  <1>6. ActiveWasPaidFor' /\ StakesSeen'
    <2>1. status \in [Members -> Statuses \cup {None}]
          /\ last \in [Members -> Statuses \cup {None}]
      BY <1>0 DEF RegistryTypeOK
    <2>2. \A n \in Members :
              /\ status'[n] = "active" =>
                    "active" \in {status[n], verdict[n]}
              /\ last'[n] = "active" => "active" \in {last[n], verdict[n]}
      BY <1>1, <2>1
    <2> QED
      BY <1>0, <1>1, <2>2 DEF ActiveWasPaidFor, StakesSeen, BuilderStatus, env
  <1>7. TodoListed'
    BY <1>0, <1>1 DEF TodoListed
  <1> QED
    BY <1>4, <1>5, <1>6, <1>7 DEF Paid

LEMMA StepPutRow ==
  ASSUME Paid, NEW m \in Members, PutRow(m)
  PROVE  Paid'
  <1>0. /\ RegistryTypeOK /\ StakesSeen /\ TodoListed
        /\ RedisIsWhatWasSeen /\ ActiveWasPaidFor
    BY DEF Paid
  <1>1. /\ UNCHANGED <<env, last, status, unwritten, indexes>>
        /\ rows' \in {rows, [rows EXCEPT ![m] = verdict[m]]}
    BY DEF PutRow
  <1>2. Sleep \/ (todo' = todo \ {m} /\ UNCHANGED <<pc, listed, verdict>>)
    BY DEF PutRow
  <1>3. failures' \in 0..MaxFailures
    BY <1>0, FailureCount DEF PutRow
  <1>4. RegistryTypeOK'
    <2>1. rows' \in [Members -> Statuses \cup {None}]
      BY <1>0, <1>1 DEF RegistryTypeOK
    <2>2. /\ pc' \in {"asleep", "stake", "statuses", "rows"}
          /\ listed' \in [Members -> Stakes \cup {None}]
          /\ verdict' \in [Members -> Statuses \cup {None}]
          /\ todo' \subseteq Members
      BY <1>0, <1>2, StatusValues DEF RegistryTypeOK, Sleep
    <2> QED
      BY <1>0, <1>1, <1>3, <2>1, <2>2 DEF RegistryTypeOK, env, indexes
  <1>5. RedisIsWhatWasSeen'
    BY <1>0, <1>1 DEF RedisIsWhatWasSeen, BuilderStatus
  <1>6. ActiveWasPaidFor'
    <2>1. \A n \in Members :
              rows'[n] = "active" => "active" \in {rows[n], verdict[n]}
      BY <1>0, <1>1 DEF RegistryTypeOK
    <2> QED
      BY <1>0, <1>1, <2>1 DEF ActiveWasPaidFor, StakesSeen, BuilderStatus, env
  <1>7. StakesSeen' /\ TodoListed'
    <2>1. CASE Sleep
      BY <1>1, <2>1, SleepSafe
    <2>2. CASE todo' = todo \ {m} /\ UNCHANGED <<pc, listed, verdict>>
      BY <1>0, <1>1, <2>2 DEF StakesSeen, TodoListed, env
    <2> QED
      BY <1>2, <2>1, <2>2
  <1> QED
    BY <1>4, <1>5, <1>6, <1>7 DEF Paid

\* The other steps of a round write nothing.
LEMMA StepQuiet ==
  ASSUME Paid,
         AskIndexes \/ EndRound \/ \E m \in Members : SkipStatus(m)
  PROVE  Paid'
  <1>0. RegistryTypeOK /\ StakesSeen /\ TodoListed
    BY DEF Paid
  <1>1. CASE AskIndexes
    <2>1. /\ UNCHANGED <<env, listed, verdict, stores, indexed, missed,
                         failures>>
          /\ pc' = "rows" /\ todo' = Listed(verdict) /\ fresh' = {}
      BY <1>1 DEF AskIndexes
    <2>2. asking' \in [Groups -> Nat]
      BY <1>0, <1>1 DEF AskIndexes, RegistryTypeOK
    <2>3. RegistryTypeOK'
      BY <1>0, <2>1, <2>2 DEF RegistryTypeOK, env, stores, Listed
    <2>4. StakesSeen' /\ TodoListed'
      BY <1>0, <2>1 DEF StakesSeen, TodoListed, env, stores, Listed
    <2> QED
      BY <2>1, <2>3, <2>4, Untouched DEF Paid
  <1>2. CASE EndRound
    <2>1. UNCHANGED <<env, stores, indexes, failures>> /\ Sleep
      BY <1>2 DEF EndRound
    <2>2. RegistryTypeOK'
      BY <1>0, <2>1, StatusValues
         DEF RegistryTypeOK, Sleep, env, stores, indexes
    <2>3. StakesSeen' /\ TodoListed'
      BY <2>1, SleepSafe DEF stores
    <2> QED
      BY <2>1, <2>2, <2>3, Untouched DEF Paid
  <1>3. ASSUME NEW m \in Members, SkipStatus(m)
        PROVE  Paid'
    <2>1. /\ UNCHANGED <<env, pc, listed, verdict, stores, indexes, failures>>
          /\ todo' = todo \ {m}
      BY <1>3 DEF SkipStatus
    <2>2. RegistryTypeOK'
      BY <1>0, <2>1 DEF RegistryTypeOK, env, stores, indexes
    <2>3. StakesSeen' /\ TodoListed'
      BY <1>0, <2>1 DEF StakesSeen, TodoListed, env, stores
    <2> QED
      BY <2>1, <2>2, <2>3, Untouched DEF Paid
  <1> QED
    BY <1>1, <1>2, <1>3

\* What the pool, the chain and the beacon nodes do.
LEMMA StepAround ==
  ASSUME Paid,
         \/ \E g \in Groups : AnswerIndexes(g)
         \/ \E m \in Members : PoolChanges(m) \/ ValidatorIncluded(m)
         \/ RequirementChanges
  PROVE  Paid'
  <1>0. /\ RegistryTypeOK /\ StakesSeen /\ TodoListed
        /\ RedisIsWhatWasSeen /\ ActiveWasPaidFor
    BY DEF Paid
  <1>1. ASSUME NEW g \in Groups, AnswerIndexes(g)
        PROVE  Paid'
    <2>1. UNCHANGED <<env, round, stores, fresh>>
      BY <1>1 DEF AnswerIndexes
    <2>2. indexed' \subseteq Members /\ missed' \subseteq Members
      BY <1>0, <1>1 DEF AnswerIndexes, RegistryTypeOK, Groups
    <2>3. asking' \in [Groups -> Nat]
      <3>1. asking \in [Groups -> Nat] /\ asking[g] - 1 \in Nat
        BY <1>0, <1>1 DEF AnswerIndexes, RegistryTypeOK
      <3> QED
        BY <1>1, <3>1 DEF AnswerIndexes
    <2>4. failures' \in 0..MaxFailures
      BY <1>0, <1>1, FailureCount DEF AnswerIndexes
    <2>5. RegistryTypeOK'
      BY <1>0, <2>1, <2>2, <2>3, <2>4 DEF RegistryTypeOK, env, round, stores
    <2>6. StakesSeen' /\ TodoListed'
      BY <1>0, <2>1 DEF StakesSeen, TodoListed, env, round, stores
    <2> QED
      BY <2>1, <2>5, <2>6, Untouched DEF Paid
  <1>2. ASSUME NEW m \in Members, PoolChanges(m)
        PROVE  Paid'
    <2>1. /\ UNCHANGED <<kind, required, known, lowest, round, stores, indexes,
                         failures>>
          /\ changes' = changes + 1 /\ changes < MaxChanges
      BY <1>2 DEF PoolChanges
    <2>2. PICK s \in Stakes \cup {None} :
             /\ pool' = [pool EXCEPT ![m] = s]
             /\ peak' = IF s # None /\ s > peak[m] THEN [peak EXCEPT ![m] = s]
                                                   ELSE peak
      BY <1>2, StakeValues DEF PoolChanges
    <2>3. /\ pool \in [Members -> Stakes \cup {None}]
          /\ peak \in [Members -> Stakes]
          /\ peak \in [Members -> Nat] /\ lowest \in Nat
      BY <1>0, StakeValues DEF RegistryTypeOK
    <2>4. /\ pool' \in [Members -> Stakes \cup {None}]
          /\ peak' \in [Members -> Stakes]
      BY <2>2, <2>3
    <2>5. \A n \in Members :
              /\ peak'[n] \in Nat /\ peak'[n] >= peak[n]
              /\ pool'[n] # None => pool'[n] <= peak'[n]
      <3>1. s # None => s \in Nat
        BY StakeValues
      <3>2. \A n \in Members : pool[n] # None => pool[n] <= peak[n]
        BY <1>0 DEF StakesSeen
      <3> QED
        BY <2>2, <2>3, <3>1, <3>2
    <2>6. RegistryTypeOK'
      BY <1>0, <2>1, <2>4, RegistryAssumption
         DEF RegistryTypeOK, round, stores, indexes
    <2>7. StakesSeen'
      <3>1. \A n \in Members : listed[n] # None => listed[n] \in Nat
        BY <1>0, StakeValues DEF RegistryTypeOK
      <3> QED
        BY <1>0, <2>1, <2>3, <2>5, <3>1 DEF StakesSeen, round, stores
    <2>8. TodoListed' /\ RedisIsWhatWasSeen'
      BY <1>0, <2>1
         DEF TodoListed, RedisIsWhatWasSeen, BuilderStatus, round, stores
    <2>9. ActiveWasPaidFor'
      BY <1>0, <2>1, <2>3, <2>5 DEF ActiveWasPaidFor, BuilderStatus, stores
    <2> QED
      BY <2>6, <2>7, <2>8, <2>9 DEF Paid
  <1>3. ASSUME NEW m \in Members, ValidatorIncluded(m)
        PROVE  Paid'
    BY <1>0, <1>3
       DEF ValidatorIncluded, Paid, RegistryTypeOK, StakesSeen, TodoListed,
           RedisIsWhatWasSeen, ActiveWasPaidFor, BuilderStatus, round, stores,
           indexes
  <1>4. CASE RequirementChanges
    <2>1. /\ UNCHANGED <<kind, pool, known, peak, round, stores, indexes,
                         failures>>
          /\ changes' = changes + 1 /\ changes < MaxChanges
          /\ required' \in Stakes
          /\ lowest' = IF required' < lowest THEN required' ELSE lowest
          /\ kind = "builders"
      BY <1>4 DEF RequirementChanges
    <2>2. /\ peak \in [Members -> Nat] /\ lowest \in Nat /\ required' \in Nat
          /\ lowest \in Stakes
      BY <1>0, <2>1, StakeValues DEF RegistryTypeOK
    <2>3. /\ lowest' \in Stakes /\ lowest' <= lowest
          /\ lowest' \in Nat /\ required' >= lowest'
      BY <2>1, <2>2
    <2>4. RegistryTypeOK'
      BY <1>0, <2>1, <2>3, RegistryAssumption
         DEF RegistryTypeOK, round, stores, indexes
    <2>5. StakesSeen'
      BY <1>0, <2>1, <2>2, <2>3 DEF StakesSeen, round, stores
    <2>6. TodoListed' /\ RedisIsWhatWasSeen'
      BY <1>0, <2>1
         DEF TodoListed, RedisIsWhatWasSeen, BuilderStatus, round, stores
    <2>7. ActiveWasPaidFor'
      BY <1>0, <2>1, <2>2, <2>3 DEF ActiveWasPaidFor, BuilderStatus, stores
    <2> QED
      BY <2>4, <2>5, <2>6, <2>7 DEF Paid
  <1> QED
    BY <1>1, <1>2, <1>3, <1>4

\* After a restart nobody is active until the pool says so again; the rows of
\* the database are as they were.
LEMMA StepRestart ==
  ASSUME Paid, RegistryRestart
  PROVE  Paid'
  <1>0. RegistryTypeOK /\ StakesSeen /\ ActiveWasPaidFor
    BY DEF Paid
  <1>1. failures' \in 0..MaxFailures
    BY <1>0, FailureCount DEF RegistryRestart
  <1>2. \A m \in Members : last'[m] # "active" /\ status'[m] # "active"
    BY StatusValues DEF RegistryRestart, Nothing
  <1>3. RegistryTypeOK'
    <2>1. /\ last' \in [Members -> Statuses \cup {None}]
          /\ status' \in [Members -> Statuses \cup {None}]
          /\ asking' \in [Groups -> Nat]
      BY StatusValues DEF RegistryRestart
    <2> QED
      BY <1>0, <1>1, <2>1, StatusValues
         DEF RegistryRestart, RegistryTypeOK, Sleep, env
  <1>4. StakesSeen' /\ TodoListed'
    BY <1>2, SleepSafe DEF RegistryRestart
  <1>5. RedisIsWhatWasSeen' /\ ActiveWasPaidFor'
    BY <1>0, <1>2
       DEF RegistryRestart, RedisIsWhatWasSeen, ActiveWasPaidFor,
           BuilderStatus, env
  <1> QED
    BY <1>3, <1>4, <1>5 DEF Paid

LEMMA NextPaid ==
  Paid /\ [RegistryNext]_registryVars => Paid'
  <1>1. ASSUME Paid, UNCHANGED registryVars
        PROVE  Paid'
    BY <1>1 DEF Paid, RegistryTypeOK, StakesSeen, TodoListed,
                RedisIsWhatWasSeen, ActiveWasPaidFor, BuilderStatus,
                registryVars, env, round, stores, indexes
  <1> QED
    BY <1>1, StepFetchList, StepFetchStake, StepSetStatus, StepPutRow,
       StepQuiet, StepAround, StepRestart
       DEF RegistryNext, Round

-----------------------------------------------------------------------------
(* What a round leaves behind. *)

LEMMA NextApplied ==
  ASSUME Paid, RoundApplied, SeenOnceDone, [RegistryNext]_registryVars
  PROVE  RoundApplied' /\ SeenOnceDone'
  <1>0. /\ RegistryTypeOK /\ RedisIsWhatWasSeen
        /\ verdict \in [Members -> Statuses \cup {None}]
        /\ last \in [Members -> Statuses \cup {None}]
        /\ status \in [Members -> Statuses \cup {None}]
        /\ rows \in [Members -> Statuses \cup {None}]
    BY DEF Paid, RegistryTypeOK
  <1> USE DEF RoundApplied, SeenOnceDone, Listed, BuilderStatus
  <1>1. CASE pc' \notin {"statuses", "rows"}
    BY <1>1
  <1>2. CASE /\ UNCHANGED <<round, stores>>
    BY <1>2 DEF round, stores
  <1>3. CASE pc' = "statuses" /\ todo' = Listed(verdict')
    BY <1>3
  <1>4. ASSUME NEW m \in Members, SkipStatus(m)
        PROVE  RoundApplied' /\ SeenOnceDone'
    BY <1>4 DEF SkipStatus, stores
  <1>5. ASSUME NEW m \in Members, SetStatus(m)
        PROVE  RoundApplied' /\ SeenOnceDone'
    <2>1. /\ pc = "statuses" /\ UNCHANGED <<pc, verdict>>
          /\ todo' = todo \ {m}
          /\ last' = [last EXCEPT ![m] = verdict[m]]
      BY <1>5 DEF SetStatus
    <2>2. last'[m] = verdict'[m]
      BY <1>0, <2>1
    <2>3. \A n \in Members \ {m} : last'[n] = last[n]
      BY <1>0, <2>1
    <2> QED
      BY <2>1, <2>2, <2>3
  <1>6. CASE AskIndexes
    <2>1. /\ pc = "statuses" /\ todo = {} /\ todo' = Listed(verdict')
          /\ UNCHANGED <<verdict, stores>>
      BY <1>6 DEF AskIndexes
    <2>2. \A n \in Listed(verdict) : last[n] = verdict[n]
      BY <2>1
    <2> QED
      BY <1>0, <2>1, <2>2 DEF RedisIsWhatWasSeen, stores
  <1>7. ASSUME NEW m \in Members, PutRow(m), ~ Sleep
        PROVE  RoundApplied' /\ SeenOnceDone'
    <2>1. /\ pc = "rows" /\ todo' = todo \ {m}
          /\ rows' = [rows EXCEPT ![m] = verdict[m]]
          /\ UNCHANGED <<pc, verdict, last, status, unwritten>>
      BY <1>7 DEF PutRow
    <2>2. rows'[m] = verdict'[m] /\ \A n \in Members \ {m} : rows'[n] = rows[n]
      BY <1>0, <2>1
    <2> QED
      BY <2>1, <2>2
  <1> QED
    <2>1. CASE RegistryRestart \/ EndRound \/ Sleep
      BY <1>1, <2>1 DEF RegistryRestart, EndRound, Sleep
    <2>2. CASE FetchList
      
      <3>1. CASE UNCHANGED round
        BY <1>2, <2>2, <3>1 DEF FetchList
      <3>2. CASE kind # "builders" /\ pc' = "statuses"
        <4>1. todo' = Listed(pool) /\ verdict' = Verdicts(pool, 1)
          BY <2>2, <3>2 DEF FetchList, round
        <4>2. Listed(Verdicts(pool, 1)) = Listed(pool)
          BY ListedHaveVerdicts
        <4> QED
          BY <1>3, <3>2, <4>1, <4>2
      <3> QED
        BY <1>1, <2>2, <3>1, <3>2 DEF FetchList
    <2>3. CASE FetchStake /\ ~ Sleep
      <3>1. /\ pc' = "statuses" /\ todo' = Listed(listed)
            /\ verdict' = Verdicts(listed, required)
        BY <2>3 DEF FetchStake
      <3>2. Listed(Verdicts(listed, required)) = Listed(listed)
        BY ListedHaveVerdicts
      <3> QED
        BY <1>3, <3>1, <3>2
    <2>4. CASE \/ \E g \in Groups : AnswerIndexes(g)
               \/ \E m \in Members : PoolChanges(m) \/ ValidatorIncluded(m)
               \/ RequirementChanges
               \/ UNCHANGED registryVars
      <3>1. UNCHANGED <<round, stores>>
        BY <2>4 DEF AnswerIndexes, PoolChanges, ValidatorIncluded,
                    RequirementChanges, registryVars
      <3> QED
        BY <1>2, <3>1
    <2> QED
      BY <1>4, <1>5, <1>6, <1>7, <2>1, <2>2, <2>3, <2>4
         DEF RegistryNext, Round

-----------------------------------------------------------------------------
(* The way of a validator to its index. *)

LEMMA NextForgets ==
  ASSUME Paid, NoneForgotten, [RegistryNext]_registryVars
  PROVE  NoneForgotten'
  <1>0. /\ last \in [Members -> Statuses \cup {None}]
        /\ asking \in [Groups -> Nat]
    BY DEF Paid, RegistryTypeOK
  <1> USE DEF NoneForgotten
  <1>1. CASE UNCHANGED <<kind, last, indexes>>
    BY <1>1 DEF indexes
  <1>2. ASSUME NEW m \in Members, SetStatus(m)
        PROVE  NoneForgotten'
    <2>1. /\ UNCHANGED <<kind, indexed, asking, missed>>
          /\ \A n \in Members \ {m} : last'[n] = last[n]
          /\ fresh \subseteq fresh'
          /\ kind = "validators" => m \in fresh' \cup indexed
      BY <1>0, <1>2 DEF SetStatus, env
    <2> QED
      BY <2>1
  <1>3. CASE AskIndexes
    <2>1. PICK p \in Chunks(fresh) :
             asking' = [g \in Groups |-> IF g \in p THEN asking[g] + 1
                                                    ELSE asking[g]]
      BY <1>3 DEF AskIndexes
    <2>2. UNCHANGED <<kind, last, indexed, missed>>
      BY <1>3 DEF AskIndexes, env, stores
    <2>3. UNION p = fresh /\ p \subseteq Groups
      BY DEF Chunks, Paid, RegistryTypeOK, Groups
    <2>4. \A g \in Groups : /\ asking[g] > 0 => asking'[g] > 0
                            /\ g \in p => asking'[g] > 0
      BY <1>0, <2>1
    <2>5. \A m \in fresh : \E g \in Groups : m \in g /\ asking'[g] > 0
      BY <2>3, <2>4
    <2> QED
      BY <2>2, <2>4, <2>5
  <1>4. ASSUME NEW g \in Groups, AnswerIndexes(g)
        PROVE  NoneForgotten'
    <2>1. /\ UNCHANGED <<kind, last, fresh>>
          /\ indexed \subseteq indexed'
          /\ missed' = (missed \cup g) \ indexed'
          /\ \A f \in Groups \ {g} : asking'[f] = asking[f]
      BY <1>0, <1>4 DEF AnswerIndexes, env, stores
    <2> QED
      BY <2>1
  <1>5. CASE RegistryRestart
    <2>1. kind = "validators" => \A m \in Members : last'[m] = None
      BY <1>5 DEF RegistryRestart, Default
    <2> QED
      BY <1>5, <2>1 DEF RegistryRestart, env
  <1> QED
    <2>1. CASE \/ FetchList \/ FetchStake \/ EndRound
               \/ \E m \in Members : SkipStatus(m) \/ PutRow(m)
               \/ \E m \in Members : PoolChanges(m) \/ ValidatorIncluded(m)
               \/ RequirementChanges
               \/ UNCHANGED registryVars
      <3>1. UNCHANGED <<kind, last, indexes>>
        BY <2>1 DEF FetchList, FetchStake, EndRound, SkipStatus, PutRow,
                    PoolChanges, ValidatorIncluded, RequirementChanges,
                    registryVars, env, stores
      <3> QED
        BY <1>1, <3>1
    <2> QED
      BY <1>2, <1>3, <1>4, <1>5, <2>1 DEF RegistryNext, Round

-----------------------------------------------------------------------------
\* The types, and the invariant on which the registry's safety rests.
THEOREM RegistryIsInductive == RegistrySpec => []RegistryInductive
  <1>1. RegistryInit => RegistryInductive
    <2> SUFFICES ASSUME RegistryInit PROVE RegistryInductive
      OBVIOUS
    <2>1. pc = "asleep" /\ (kind = "validators" => last = Nothing)
      BY DEF RegistryInit, Default, Nothing
    <2>2. RoundApplied /\ SeenOnceDone /\ NoneForgotten
      BY <2>1 DEF RoundApplied, SeenOnceDone, NoneForgotten, Nothing
    <2> QED
      BY <2>2, InitRegistry, RegistryParts
  <1>2. RegistryInductive /\ [RegistryNext]_registryVars => RegistryInductive'
    <2>1. Paid' /\ RoundApplied' /\ SeenOnceDone' /\ NoneForgotten'
             => RegistryInductive'
      BY DEF RegistryInductive, Paid, StakesSeen, TodoListed
    <2> QED
      BY <2>1, RegistryParts, NextPaid, NextApplied, NextForgets
  <1> QED
    BY <1>1, <1>2, PTL DEF RegistrySpec

\* What Redis answers of a builder is what the loop last saw of it, but for
\* the builders whose last HSET failed.
THEOREM RedisFollowsTheLoop == RegistrySpec => []RedisIsWhatWasSeen
  <1>1. RegistryInductive => RedisIsWhatWasSeen
    BY RegistryParts DEF Paid
  <1> QED
    BY <1>1, RegistryIsInductive, PTL

\* Nobody is active, in Redis or in the database, that never had the lowest
\* stake that was ever required.
THEOREM ActiveHavePaid == RegistrySpec => []ActiveWasPaidFor
  <1>1. RegistryInductive => ActiveWasPaidFor
    BY RegistryParts DEF Paid
  <1> QED
    BY <1>1, RegistryIsInductive, PTL

\* When the rows of a round are written, Redis and the database say of every
\* listed member what the round found, but for the HSETs that failed.
THEOREM RoundIsApplied == RegistrySpec => []RoundApplied
  <1>1. RegistryInductive => RoundApplied
    BY RegistryParts
  <1> QED
    BY <1>1, RegistryIsInductive, PTL

\* No validator drops out on its way to an index, whatever fails and however
\* the answers of the beacon nodes and the rounds interleave.
THEOREM NoValidatorForgotten == RegistrySpec => []NoneForgotten
  <1>1. RegistryInductive => NoneForgotten
    BY RegistryParts
  <1> QED
    BY <1>1, RegistryIsInductive, PTL
=============================================================================
