------------------------- MODULE ConfigCacheProofs -------------------------
(***************************************************************************)
(* Theorems about ConfigCache for any sets of saves and lookups.           *)
(***************************************************************************)
EXTENDS ConfigCache, FiniteSetTheorems, TLAPS

(***************************************************************************)
(* Type correctness                                                        *)
(***************************************************************************)

LEMMA OneOrNone ==
    ASSUME NEW x
    PROVE  Cardinality({x}) <= 1 /\ Cardinality({}) <= 1
<1>1. Cardinality({x}) = 1
    BY FS_Singleton, Zenon
<1>2. Cardinality({}) = 0
    BY FS_EmptySet, Zenon
<1> QED
    BY <1>1, <1>2

\* The redis part of the type invariant.
RedisOK ==
    /\ cache \in [Key -> SUBSET SUBSET Save]
    /\ expires \in [Key -> BOOLEAN]
    /\ eternal \subseteq Key
    /\ \A k \in Key : Cardinality(cache[k]) <= 1 /\ (cache[k] = {} => ~expires[k])

LEMMA DelType ==
    ASSUME RedisOK, NEW K, Del(K)
    PROVE  RedisOK'
<1>1. /\ cache' \in [Key -> SUBSET SUBSET Save]
      /\ expires' \in [Key -> BOOLEAN]
      /\ eternal' \subseteq Key
    BY DEF RedisOK, Del
<1>2. ASSUME NEW k \in Key
      PROVE  Cardinality(cache'[k]) <= 1 /\ (cache'[k] = {} => ~expires'[k])
    <2>1. CASE k \in K
        <3>1. cache'[k] = {} /\ ~expires'[k]
            BY <2>1 DEF Del
        <3> QED
            BY <3>1, OneOrNone
    <2>2. CASE k \notin K
        <3>1. cache'[k] = cache[k] /\ (expires'[k] <=> expires[k])
            BY <2>2 DEF Del
        <3> QED
            BY <3>1 DEF RedisOK
    <2> QED
        BY <2>1, <2>2
<1> QED
    BY <1>1, <1>2 DEF RedisOK

LEMMA InitTypeOK == Init => TypeOK
<1> SUFFICES ASSUME Init PROVE TypeOK
    OBVIOUS
<1>1. \A k \in Key : Cardinality(cache[k]) <= 1 /\ (cache[k] = {} => ~expires[k])
    BY OneOrNone DEF Init
<1>2. \A l \in Lookup : step[l] = "idle" <=> key[l] = None
    BY DEF Init
<1> QED
    BY <1>1, <1>2, EarlierAssumption, KeyAssumption
       DEF Init, TypeOK, Table, PC, Step, Order

LEMMA SaveTypeOK ==
    ASSUME TypeOK, NEW s \in Save, Begin(s) \/ SaveStep(s) \/ Fail(s)
    PROVE  TypeOK'
<1> USE DEF TypeOK, Table, PC, At, Goto, dbVars, redisVars, lookupVars
<1>1. CASE Begin(s)
    BY <1>1 DEF Begin, Active
<1>2. CASE Members(s)
    BY <1>2 DEF Members
<1>3. CASE DeleteRows(s)
    BY <1>3 DEF DeleteRows
<1>4. CASE TakeRows(s)
    BY <1>4 DEF TakeRows
<1>5. CASE ClearCache(s)
    <2>1. RedisOK'
        <3>1. RedisOK
            BY DEF RedisOK
        <3>2. CASE UNCHANGED redisVars
            BY <3>1, <3>2 DEF RedisOK
        <3>3. CASE Del(IF known[s] THEN {table[s]} ELSE {})
            BY ONLY <3>1, <3>3, DelType
        <3> QED
            BY <1>5, <3>2, <3>3 DEF ClearCache
    <2>2. listed' \in [Table -> BOOLEAN]
        <3>1. \/ listed' = listed
              \/ listed' = [listed EXCEPT ![table[s]] = FALSE]
            BY <1>5 DEF ClearCache
        <3>2. listed \in [Table -> BOOLEAN]
            OBVIOUS
        <3> QED
            BY ONLY <3>1, <3>2
    <2>3. pc' \in [Save -> PC] /\ table' \in [Save -> Table]
        BY <1>5 DEF ClearCache, Order
    <2>4. UNCHANGED <<known, snapshot, dead, updates, dbVars, lookupVars, overlap,
                      crashes>>
        BY <1>5 DEF ClearCache
    <2> QED
        BY <2>1, <2>2, <2>3, <2>4 DEF RedisOK
<1>6. CASE Select(s)
    BY <1>6 DEF Select
<1>7. CASE StartUpdate(s)
    BY <1>7 DEF StartUpdate, ConfigRows
<1>8. CASE WriteConfig(s)
    BY <1>8 DEF WriteConfig
<1>9. CASE Commit(s)
    BY <1>9 DEF Commit, RowsAfter, ConfigAfter, EndTransaction
<1>10. CASE ClearClasses(s)
    <2>1. RedisOK'
        <3>1. RedisOK
            BY DEF RedisOK
        <3>2. CASE UNCHANGED redisVars
            BY <3>1, <3>2 DEF RedisOK
        <3>3. CASE Del({"classes"} \cap Key)
            BY ONLY <3>1, <3>3, DelType
        <3> QED
            BY <1>10, <3>2, <3>3 DEF ClearClasses
    <2>2. /\ listed' = listed /\ pc' = [pc EXCEPT ![s] = "done"]
          /\ UNCHANGED <<table, known, snapshot, dead, updates, dbVars, lookupVars,
                         overlap, crashes>>
        BY <1>10 DEF ClearClasses
    <2> QED
        BY <2>1, <2>2 DEF RedisOK
<1>11. CASE Fail(s)
    BY <1>11 DEF Fail, EndTransaction
<1> QED
    BY <1>1, <1>2, <1>3, <1>4, <1>5, <1>6, <1>7, <1>8, <1>9, <1>10, <1>11
       DEF SaveStep

LEMMA QueryResultsType ==
    ASSUME TypeOK, NEW k \in Key
    PROVE  QueryResults(k) \subseteq SUBSET Save
<1>1. ASSUME NEW S \in SUBSET Save
      PROVE  OneOf(S) \subseteq SUBSET Save
    BY DEF OneOf
<1>2. rows["auth"] \subseteq Save /\ rows["block"] \subseteq Save
    BY DEF TypeOK, Table
<1>3. {config[r] : r \in ConfigRows} \subseteq Save
    BY DEF TypeOK, ConfigRows
<1>4. /\ OneOf(rows["auth"]) \subseteq SUBSET Save
      /\ OneOf({config[r] : r \in ConfigRows}) \subseteq SUBSET Save
    BY <1>1, <1>2, <1>3
<1> QED
    BY <1>2, <1>4 DEF QueryResults

LEMMA LookupTypeOK ==
    ASSUME TypeOK, NEW l \in Lookup, LookupStep(l) \/ Crash(l)
    PROVE  TypeOK'
<1> USE DEF TypeOK, Step, Finish, saveVars, dbVars, redisVars, lookupVars
<1>0. step[l] # "idle" /\ key[l] \in Key
    BY DEF LookupStep, Query, SetKey, AddToList, SetExpiry, Crash
<1>1. CASE Query(l)
    <2>1. QueryResults(key[l]) \subseteq SUBSET Save
        BY <1>0, QueryResultsType
    <2>2. PICK v \in QueryResults(key[l]) : value' = [value EXCEPT ![l] = v]
        BY <1>1 DEF Query
    <2>3. value' \in [Lookup -> SUBSET Save]
        BY <2>1, <2>2
    <2> QED
        BY <1>0, <1>1, <2>3 DEF Query
<1>2. CASE SetKey(l)
    <2>1. \A k \in Key : Cardinality(cache'[k]) <= 1 /\ (cache'[k] = {} => ~expires'[k])
        <3>1. CASE UNCHANGED <<cache, expires>>
            BY <3>1
        <3>2. CASE /\ cache' = [cache EXCEPT ![key[l]] = {value[l]}]
                   /\ expires' = [expires EXCEPT ![key[l]] = FALSE]
            <4>1. \A k \in Key : k # key[l] => cache'[k] = cache[k] /\ expires'[k] = expires[k]
                BY <3>2
            <4>2. cache'[key[l]] = {value[l]} /\ ~expires'[key[l]]
                BY <1>0, <3>2
            <4>3. Cardinality(cache'[key[l]]) <= 1
                BY <4>2, OneOrNone
            <4> QED
                BY <4>1, <4>2, <4>3
        <3> QED
            BY <1>2, <3>1, <3>2 DEF SetKey
    <2>2. /\ cache' \in [Key -> SUBSET SUBSET Save]
          /\ expires' \in [Key -> BOOLEAN]
          /\ eternal' \subseteq Key
        <3>1. \/ UNCHANGED <<cache, expires, eternal>>
              \/ /\ cache' = [cache EXCEPT ![key[l]] = {value[l]}]
                 /\ expires' = [expires EXCEPT ![key[l]] = FALSE]
                 /\ eternal' = eternal \ {key[l]}
            BY <1>2 DEF SetKey
        <3>2. {value[l]} \in SUBSET SUBSET Save
            OBVIOUS
        <3>3. /\ cache \in [Key -> SUBSET SUBSET Save]
              /\ expires \in [Key -> BOOLEAN]
              /\ eternal \subseteq Key
            OBVIOUS
        <3> QED
            BY ONLY <3>1, <3>2, <3>3
    <2>3. /\ step' \in [Lookup -> Step]
          /\ key' \in [Lookup -> Key \cup {None}]
          /\ value' \in [Lookup -> SUBSET Save]
          /\ \A m \in Lookup : step'[m] = "idle" <=> key'[m] = None
        BY <1>0, <1>2 DEF SetKey
    <2>4. UNCHANGED <<listed, saveVars, dbVars, overlap, crashes>>
        BY <1>2 DEF SetKey
    <2> QED
        BY <2>1, <2>2, <2>3, <2>4
<1>3. CASE AddToList(l)
    BY <1>3 DEF AddToList
<1>4. CASE SetExpiry(l)
    BY <1>0, <1>4 DEF SetExpiry
<1>5. CASE Crash(l)
    <2>1. crashes' \in 0..MaxCrashes
        BY <1>5, KeyAssumption DEF Crash
    <2>2. eternal' \subseteq Key
        BY <1>0, <1>5 DEF Crash
    <2>3. /\ step' \in [Lookup -> Step]
          /\ key' \in [Lookup -> Key \cup {None}]
          /\ value' \in [Lookup -> SUBSET Save]
          /\ \A m \in Lookup : step'[m] = "idle" <=> key'[m] = None
        BY <1>5 DEF Crash
    <2> QED
        BY <1>5, <2>1, <2>2, <2>3 DEF Crash
<1> QED
    BY <1>1, <1>2, <1>3, <1>4, <1>5 DEF LookupStep

LEMMA NextTypeOK == TypeOK /\ [Next]_vars => TypeOK'
<1> SUFFICES ASSUME TypeOK, [Next]_vars
             PROVE  TypeOK'
    OBVIOUS
<1>1. ASSUME NEW l \in Lookup, NEW k \in Key, Miss(l, k)
      PROVE  TypeOK'
    <2>1. k # None
        BY NoneAssumption
    <2> QED
        BY <1>1, <2>1 DEF Miss, TypeOK, Step, saveVars, dbVars, redisVars
<1>2. ASSUME NEW k \in Key, Expire(k)
      PROVE  TypeOK'
    <2>1. RedisOK'
        <3>1. RedisOK
            BY DEF TypeOK, RedisOK
        <3> QED
            BY <1>2, <3>1, DelType DEF Expire
    <2> QED
        BY <1>2, <2>1 DEF Expire, TypeOK, RedisOK, saveVars, dbVars, lookupVars
<1>3. CASE UNCHANGED vars
    BY <1>3 DEF TypeOK, vars
<1> QED
    BY <1>1, <1>2, <1>3, SaveTypeOK, LookupTypeOK DEF Next

\* Saves, transactions, redis keys and lookups are well typed: a key that
\* expires holds a value, and a lookup that goes on knows its key.
THEOREM TypeCorrect == Spec => []TypeOK
BY InitTypeOK, NextTypeOK, PTL DEF Spec

(***************************************************************************)
(* Only what was committed is used                                         *)
(***************************************************************************)

CommittedInv ==
    /\ OnlyCommittedInUse
    /\ \A l \in Lookup : value[l] \subseteq Committed

LEMMA CommittedStays ==
    ASSUME TypeOK, [Next]_vars
    PROVE  Committed \subseteq Committed'
<1>1. ASSUME NEW s \in Save, Begin(s) \/ SaveStep(s) \/ Fail(s)
      PROVE  Committed \subseteq Committed'
    <2>1. \A o \in Save : o # s => pc'[o] = pc[o]
        BY <1>1 DEF TypeOK, SaveStep, Begin, Members, DeleteRows, TakeRows,
           ClearCache, Select, StartUpdate, WriteConfig, Commit, ClearClasses,
           Fail, Goto
    <2>2. pc[s] \in {"cleanup", "done"} => pc'[s] \in {"cleanup", "done"}
        BY <1>1 DEF TypeOK, SaveStep, Begin, Members, DeleteRows, TakeRows,
           ClearCache, Select, StartUpdate, WriteConfig, Commit, ClearClasses,
           Fail, Goto, At,
           Running, PC
    <2> QED
        BY <2>1, <2>2 DEF Committed
<1>2. CASE UNCHANGED pc
    BY <1>2 DEF Committed
<1>3. ASSUME NEW l \in Lookup,
             LookupStep(l) \/ Crash(l) \/ \E k \in Key : Miss(l, k)
      PROVE  UNCHANGED pc
    BY <1>3 DEF LookupStep, Query, SetKey, AddToList, SetExpiry, Crash, Miss,
       saveVars
<1>4. ASSUME NEW k \in Key, Expire(k)
      PROVE  UNCHANGED pc
    BY <1>4 DEF Expire, saveVars
<1> QED
    BY <1>1, <1>2, <1>3, <1>4 DEF Next, vars

LEMMA QueryCommitted ==
    ASSUME TypeOK, CommittedInv, NEW k \in Key
    PROVE  \A v \in QueryResults(k) : v \subseteq Committed
<1>1. ASSUME NEW S \in SUBSET Committed
      PROVE  \A v \in OneOf(S) : v \subseteq Committed
    BY DEF OneOf
<1>2. rows["auth"] \subseteq Committed /\ rows["block"] \subseteq Committed
    BY DEF CommittedInv, OnlyCommittedInUse, Table
<1>3. {config[r] : r \in ConfigRows} \subseteq Committed
    BY DEF CommittedInv, OnlyCommittedInUse
<1>4. /\ \A v \in OneOf(rows["auth"]) : v \subseteq Committed
      /\ \A v \in OneOf({config[r] : r \in ConfigRows}) : v \subseteq Committed
    BY <1>1, <1>2, <1>3
<1> QED
    BY <1>2, <1>4 DEF QueryResults

LEMMA CommittedNext == TypeOK /\ CommittedInv /\ [Next]_vars => CommittedInv'
<1> SUFFICES ASSUME TypeOK, CommittedInv, [Next]_vars
             PROVE  CommittedInv'
    OBVIOUS
<1>1. Committed \subseteq Committed'
    BY CommittedStays
\* Each of the four places grows by nothing or by what was committed.
<1>2. ASSUME \A t \in Table : rows'[t] \subseteq rows[t] \cup Committed',
             \A k \in Key : UNION cache'[k] \subseteq (UNION cache[k]) \cup Committed',
             \A r \in ConfigRows' : \/ r \in ConfigRows /\ config'[r] = config[r]
                                    \/ config'[r] \in Committed',
             \A l \in Lookup : value'[l] \subseteq value[l] \cup Committed'
      PROVE  CommittedInv'
    <2>1. \A t \in Table : rows'[t] \subseteq Committed'
        BY <1>1, <1>2 DEF CommittedInv, OnlyCommittedInUse
    <2>2. ASSUME NEW k \in Key
          PROVE  UNION cache'[k] \subseteq Committed'
        <3>1. UNION cache[k] \subseteq Committed
            BY DEF CommittedInv, OnlyCommittedInUse
        <3>2. UNION cache'[k] \subseteq (UNION cache[k]) \cup Committed'
            BY <1>2
        <3>3. ASSUME NEW x \in UNION cache'[k]
              PROVE  x \in Committed'
            <4>1. x \in UNION cache[k] \/ x \in Committed'
                BY <3>2
            <4>2. x \in UNION cache[k] => x \in Committed
                BY <3>1
            <4> QED
                BY <1>1, <4>1, <4>2
        <3> QED
            BY <3>3
    <2>3. \A r \in ConfigRows' : config'[r] \in Committed'
        BY <1>1, <1>2 DEF CommittedInv, OnlyCommittedInUse
    <2>4. \A l \in Lookup : value'[l] \subseteq Committed'
        BY <1>1, <1>2 DEF CommittedInv
    <2> QED
        BY <2>1, <2>2, <2>3, <2>4 DEF CommittedInv, OnlyCommittedInUse
<1>3. ASSUME NEW s \in Save, Begin(s) \/ SaveStep(s) \/ Fail(s), ~Commit(s)
      PROVE  CommittedInv'
    <2>1. UNCHANGED <<rows, config, value>>
        BY <1>3 DEF SaveStep, Begin, Members, DeleteRows, TakeRows, ClearCache,
           Select, StartUpdate, WriteConfig, ClearClasses, Fail, dbVars,
           lookupVars
    <2>2. \A k \in Key : cache'[k] \in {cache[k], {}}
        BY <1>3 DEF SaveStep, Begin, Members, DeleteRows, TakeRows, ClearCache,
           Select, StartUpdate, WriteConfig, ClearClasses, Fail, redisVars, Del
    <2>3. \A k \in Key : UNION cache'[k] \subseteq UNION cache[k]
        BY <2>2
    <2> QED
        BY <1>2, <2>1, <2>3 DEF ConfigRows
<1>4. ASSUME NEW s \in Save, Commit(s)
      PROVE  CommittedInv'
    <2>1. s \in Committed'
        BY <1>4 DEF TypeOK, Commit, Goto, Committed
    <2>2. \A t \in Table : rows'[t] \subseteq rows[t] \cup {s}
        BY <1>4 DEF Commit, RowsAfter
    <2>3. \A r \in Save : config'[r] \in {config[r], s}
        BY <1>4 DEF Commit, ConfigAfter
    <2>4. UNCHANGED <<cache, value>>
        BY <1>4 DEF Commit, redisVars, lookupVars
    <2>5. \A r \in ConfigRows' : \/ r \in ConfigRows /\ config'[r] = config[r]
                                 \/ config'[r] \in Committed'
        BY <2>1, <2>3 DEF ConfigRows
    <2> QED
        BY <1>2, <2>1, <2>2, <2>4, <2>5
<1>5. ASSUME NEW l \in Lookup,
             LookupStep(l) \/ Crash(l) \/ \E k \in Key : Miss(l, k)
      PROVE  CommittedInv'
    <2>1. UNCHANGED <<rows, config>>
        BY <1>5 DEF LookupStep, Query, SetKey, AddToList, SetExpiry, Crash, Miss,
           dbVars
    <2>2. \A m \in Lookup : value'[m] \subseteq value[m] \cup Committed'
        <3>1. CASE Query(l)
            <4>1. key[l] \in Key
                BY <3>1 DEF TypeOK, Query
            <4>2. PICK v \in QueryResults(key[l]) : value' = [value EXCEPT ![l] = v]
                BY <3>1 DEF Query
            <4>3. v \subseteq Committed
                BY <4>1, <4>2, QueryCommitted
            <4> QED
                BY <1>1, <4>2, <4>3 DEF TypeOK
        <3>2. CASE ~Query(l)
            BY <1>5, <3>2 DEF TypeOK, LookupStep, SetKey, AddToList, SetExpiry,
               Crash, Miss, Finish
        <3> QED
            BY <3>1, <3>2
    <2>3. \A k \in Key : UNION cache'[k] \subseteq (UNION cache[k]) \cup Committed'
        <3>1. CASE SetKey(l)
            <4>1. \A k \in Key : cache'[k] \in {cache[k], {value[l]}}
                BY <3>1 DEF TypeOK, SetKey
            <4>2. value[l] \subseteq Committed'
                BY <1>1 DEF CommittedInv
            <4>3. \A k \in Key : \A v \in cache'[k] : v \in cache[k] \/ v = value[l]
                BY <4>1
            <4>4. ASSUME NEW k \in Key, NEW x \in UNION cache'[k]
                  PROVE  x \in (UNION cache[k]) \cup Committed'
                <5>1. PICK v \in cache'[k] : x \in v
                    OBVIOUS
                <5>2. v \in cache[k] \/ v = value[l]
                    BY <4>3
                <5>3. CASE v = value[l]
                    BY <4>2, <5>1, <5>3
                <5>4. CASE v \in cache[k]
                    BY <5>1, <5>4
                <5> QED
                    BY <5>2, <5>3, <5>4
            <4> QED
                BY <4>4
        <3>2. CASE ~SetKey(l)
            BY <1>5, <3>2 DEF LookupStep, Query, AddToList, SetExpiry, Crash,
               Miss, redisVars
        <3> QED
            BY <3>1, <3>2
    <2> QED
        BY <1>2, <2>1, <2>2, <2>3 DEF ConfigRows
<1>6. ASSUME NEW k \in Key, Expire(k)
      PROVE  CommittedInv'
    <2>1. UNCHANGED <<rows, config, value>>
        BY <1>6 DEF Expire, dbVars, lookupVars
    <2>2. \A j \in Key : cache'[j] \in {cache[j], {}}
        BY <1>6 DEF Expire, Del
    <2>3. \A j \in Key : UNION cache'[j] \subseteq UNION cache[j]
        BY <2>2
    <2> QED
        BY <1>2, <2>1, <2>3 DEF ConfigRows
<1>7. CASE UNCHANGED vars
    BY <1>2, <1>7 DEF vars, ConfigRows
<1> QED
    BY <1>3, <1>4, <1>5, <1>6, <1>7 DEF Next

\* A save that is refused or fails half-way leaves no trace: neither the tables
\* nor a cache, nor a lookup that is about to fill one, holds an entry of it.
THEOREM FailedSavesLeaveNothing == Spec => []OnlyCommittedInUse
<1>1. Init => CommittedInv
    <2> SUFFICES ASSUME Init PROVE CommittedInv
        OBVIOUS
    <2>1. Earlier \subseteq Committed
        BY EarlierAssumption DEF Init, Committed
    <2> QED
        BY <2>1, NoneAssumption DEF Init, CommittedInv, OnlyCommittedInUse,
           ConfigRows, Table
<1>2. TypeOK /\ CommittedInv /\ [Next]_vars => CommittedInv'
    BY CommittedNext
<1>3. CommittedInv => OnlyCommittedInUse
    BY DEF CommittedInv
<1> QED
    BY <1>1, <1>2, <1>3, TypeCorrect, PTL DEF Spec

(***************************************************************************)
(* Stale values go away                                                    *)
(***************************************************************************)

AboutToExpire(k) == \E l \in Lookup : key[l] = k /\ step[l] \in {"sadd", "expire"}

LEMMA StaleLookup ==
    ASSUME TypeOK, StaleIsTemporary, NEW l \in Lookup,
           LookupStep(l) \/ Crash(l) \/ \E k \in Key : Miss(l, k)
    PROVE  StaleIsTemporary'
<1>1. \A m \in Lookup : m # l => key'[m] = key[m] /\ step'[m] = step[m]
    BY DEF TypeOK, LookupStep, Query, SetKey, AddToList, SetExpiry, Crash, Miss,
       Finish
<1>2. CASE Query(l) \/ AddToList(l) \/ \E k \in Key : Miss(l, k)
    <2>1. UNCHANGED <<cache, expires, eternal>>
        BY <1>2 DEF Query, AddToList, Miss, redisVars
    <2>2. step[l] \in {"sadd", "expire"}
            => key'[l] = key[l] /\ step'[l] \in {"sadd", "expire"}
        BY <1>2 DEF TypeOK, Query, AddToList, Miss
    <2>3. \A k \in Key : AboutToExpire(k) => AboutToExpire(k)'
        BY <1>1, <2>2 DEF AboutToExpire
    <2> QED
        BY <2>1, <2>3 DEF StaleIsTemporary, AboutToExpire
<1>3. CASE SetKey(l)
    <2>0. step[l] = "set" /\ key[l] \in Key
        BY <1>3 DEF SetKey, TypeOK
    <2>1. \A k \in Key : AboutToExpire(k) => AboutToExpire(k)'
        BY <1>1, <2>0 DEF AboutToExpire
    <2>2. CASE step'[l] = "idle"
        <3>1. UNCHANGED <<cache, expires, eternal>>
            BY <1>3, <2>2 DEF TypeOK, SetKey
        <3> QED
            BY <2>1, <3>1 DEF StaleIsTemporary, AboutToExpire
    <2>3. CASE step'[l] # "idle"
        <3>1. /\ key'[l] = key[l] /\ step'[l] \in {"sadd", "expire"}
              /\ \A k \in Key : k # key[l] => /\ cache'[k] = cache[k]
                                              /\ expires'[k] = expires[k]
              /\ eternal' = eternal \ {key[l]}
            BY <1>3, <2>3 DEF TypeOK, SetKey, Finish
        <3>2. AboutToExpire(key[l])'
            BY <2>0, <3>1 DEF AboutToExpire
        <3>3. ASSUME NEW k \in Key, cache'[k] # {}
              PROVE  expires'[k] \/ k \in eternal' \/ AboutToExpire(k)'
            <4>1. CASE k = key[l]
                BY <3>1, <4>1 DEF AboutToExpire
            <4>2. CASE k # key[l]
                <5>1. expires[k] \/ k \in eternal \/ AboutToExpire(k)
                    BY <3>1, <3>3, <4>2 DEF StaleIsTemporary, AboutToExpire
                <5> QED
                    BY <2>1, <3>1, <4>2, <5>1
            <4> QED
                BY <4>1, <4>2
        <3> QED
            BY <3>3 DEF StaleIsTemporary, AboutToExpire
    <2> QED
        BY <2>2, <2>3
<1>4. CASE SetExpiry(l)
    <2>1. /\ step[l] = "expire" /\ key[l] \in Key /\ cache' = cache
          /\ expires'[key[l]] = (cache[key[l]] # {})
          /\ \A k \in Key : k # key[l] => expires'[k] = expires[k]
          /\ eternal' = eternal \ {key[l]}
        BY <1>4 DEF TypeOK, SetExpiry
    <2>2. \A k \in Key : k # key[l] /\ AboutToExpire(k) => AboutToExpire(k)'
        BY <1>1 DEF AboutToExpire
    <2>3. ASSUME NEW k \in Key, cache'[k] # {}
          PROVE  expires'[k] \/ k \in eternal' \/ AboutToExpire(k)'
        <3>1. CASE k = key[l]
            BY <2>1, <2>3, <3>1
        <3>2. CASE k # key[l]
            <4>1. expires[k] \/ k \in eternal \/ AboutToExpire(k)
                BY <2>1, <2>3 DEF StaleIsTemporary, AboutToExpire
            <4> QED
                BY <2>1, <2>2, <3>2, <4>1
        <3> QED
            BY <3>1, <3>2
    <2> QED
        BY <2>3 DEF StaleIsTemporary, AboutToExpire
<1>5. CASE Crash(l)
    <2>1. /\ UNCHANGED <<cache, expires>>
          /\ eternal \subseteq eternal'
          /\ step[l] \in {"sadd", "expire"} => key[l] \in eternal'
        BY <1>5 DEF Crash
    <2>2. \A k \in Key : AboutToExpire(k) => AboutToExpire(k)' \/ k \in eternal'
        BY <1>1, <2>1 DEF AboutToExpire
    <2>3. ASSUME NEW k \in Key, cache'[k] # {}
          PROVE  expires'[k] \/ k \in eternal' \/ AboutToExpire(k)'
        <3>1. expires[k] \/ k \in eternal \/ AboutToExpire(k)
            BY <2>1, <2>3 DEF StaleIsTemporary, AboutToExpire
        <3> QED
            BY <2>1, <2>2, <3>1
    <2> QED
        BY <2>3 DEF StaleIsTemporary, AboutToExpire
<1> QED
    BY <1>2, <1>3, <1>4, <1>5 DEF LookupStep

\* DEL takes the time to live away, and the value with it.
LEMMA StaleDel ==
    ASSUME TypeOK, StaleIsTemporary, UNCHANGED lookupVars,
           UNCHANGED <<cache, expires, eternal>> \/ \E K : Del(K)
    PROVE  StaleIsTemporary'
<1>1. \A k \in Key : AboutToExpire(k)' <=> AboutToExpire(k)
    BY DEF AboutToExpire, lookupVars
<1>2. \A k \in Key : \/ cache'[k] = {}
                     \/ /\ cache'[k] = cache[k]
                        /\ expires'[k] = expires[k]
                        /\ k \in eternal => k \in eternal'
    <2>1. ASSUME NEW K, Del(K), NEW k \in Key
          PROVE  \/ cache'[k] = {}
                 \/ /\ cache'[k] = cache[k]
                    /\ expires'[k] = expires[k]
                    /\ k \in eternal => k \in eternal'
        <3>1. CASE k \in K
            BY <2>1, <3>1 DEF Del
        <3>2. CASE k \notin K
            <4>1. cache'[k] = cache[k] /\ (k \in eternal => k \in eternal')
                BY <2>1, <3>2 DEF Del
            <4>2. expires'[k] = expires[k]
                BY <2>1, <3>2 DEF Del, TypeOK
            <4> QED
                BY <4>1, <4>2
        <3> QED
            BY <3>1, <3>2
    <2> QED
        BY <2>1
<1> QED
    BY <1>1, <1>2 DEF StaleIsTemporary, AboutToExpire

LEMMA StaleNext == TypeOK /\ StaleIsTemporary /\ [Next]_vars => StaleIsTemporary'
<1> SUFFICES ASSUME TypeOK, StaleIsTemporary, [Next]_vars
             PROVE  StaleIsTemporary'
    OBVIOUS
<1>1. ASSUME NEW s \in Save, Begin(s) \/ SaveStep(s) \/ Fail(s)
      PROVE  StaleIsTemporary'
    <2>1. UNCHANGED lookupVars
        BY <1>1 DEF SaveStep, Begin, Members, DeleteRows, TakeRows, ClearCache,
           Select, StartUpdate, WriteConfig, Commit, ClearClasses, Fail
    <2>2. UNCHANGED <<cache, expires, eternal>> \/ \E K : Del(K)
        BY <1>1 DEF SaveStep, Begin, Members, DeleteRows, TakeRows, ClearCache,
           Select, StartUpdate, WriteConfig, Commit, ClearClasses, Fail,
           redisVars
    <2> QED
        BY <2>1, <2>2, StaleDel
<1>2. ASSUME NEW k \in Key, Expire(k)
      PROVE  StaleIsTemporary'
    BY <1>2, StaleDel DEF Expire
<1>3. CASE UNCHANGED vars
    BY <1>3, StaleDel DEF vars, lookupVars
<1> QED
    BY <1>1, <1>2, <1>3, StaleLookup DEF Next

\* Whatever saves, lookups and crashes do to a cache, a value in it expires, is
\* about to get its time to live, or its process died before it sent EXPIRE.
THEOREM StaleValuesExpire == Spec => []StaleIsTemporary
<1>1. Init => StaleIsTemporary
    BY DEF Init, StaleIsTemporary
<1> QED
    BY <1>1, StaleNext, TypeCorrect, PTL DEF Spec

(***************************************************************************)
(* Only saves that overlap are mixed                                       *)
(***************************************************************************)

Overlapped(x, y) == <<x, y>> \in overlap /\ <<y, x>> \in overlap

\* The save has deleted the old rows of the table.
Took(s, t) == \/ pc[s] = "clear" /\ table[s] = t
              \/ pc[s] \in Running /\ t = "auth" /\ table[s] = "block"
              \/ pc[s] \in {"select", "update", "lock", "commit"} /\ t = "block"

\* What a running save does not see or does not delete was committed by saves
\* that ran at the same time.
SaveInv(s) ==
    /\ pc[s] = "idle" => table[s] = "auth"
    /\ pc[s] \in {"select", "update", "lock", "commit"} => table[s] = "block"
    /\ pc[s] = "wait" =>
        \A x \in rows[table[s]] : x \in snapshot[s] \/ Overlapped(x, s)
    /\ \A t \in Table : Took(s, t) =>
        \A x \in rows[t] : x \in dead[s][t] \/ Overlapped(x, s)
    /\ pc[s] = "lock" =>
        \A r \in ConfigRows : r \in snapshot[s] \/ Overlapped(config[r], s)
    /\ pc[s] = "commit" =>
        \A r \in ConfigRows : r \in updates[s] \/ Overlapped(config[r], s)

MixInv ==
    /\ MixesOnlyOverlapping
    /\ \A s, o \in Active : s # o => Overlapped(s, o)
    /\ \A s \in Save : SaveInv(s)

\* A save that takes no step itself, while c commits or nobody does.
LEMMA OtherSave ==
    ASSUME TypeOK, NEW o \in Save, SaveInv(o), overlap \subseteq overlap',
           pc'[o] = pc[o], table'[o] = table[o], snapshot'[o] = snapshot[o],
           dead'[o] = dead[o], updates'[o] = updates[o],
           NEW c \in Save, o \in Active => Overlapped(c, o),
           \A t \in Table : rows'[t] \subseteq rows[t] \cup {c},
           \A r \in Save : config'[r] \in {config[r], c}
    PROVE  SaveInv(o)'
<1>1. \A x \in Save : Overlapped(x, o) => Overlapped(x, o)'
    BY DEF Overlapped
<1>2. o \in Active => Overlapped(c, o)'
    BY <1>1
<1>3. \A t \in Table : Took(o, t)' <=> Took(o, t)
    BY DEF Took
<1>4. /\ \A t \in Table : Took(o, t) => o \in Active
      /\ pc[o] \in {"wait", "lock", "commit"} => o \in Active
    BY DEF Took, Active, Running, PC
<1>5. \A r \in ConfigRows' : \/ r \in ConfigRows /\ config'[r] = config[r]
                             \/ config'[r] = c
    BY DEF ConfigRows
<1>6. \A r \in ConfigRows : config[r] \in Save
    BY DEF ConfigRows, TypeOK
<1>7. /\ table[o] \in Table
      /\ \A t \in Table : rows[t] \subseteq Save
    BY DEF TypeOK
<1>8. pc'[o] = "wait" =>
        \A x \in rows'[table'[o]] : x \in snapshot'[o] \/ Overlapped(x, o)'
    BY <1>1, <1>2, <1>4, <1>7 DEF SaveInv
<1>9. ASSUME NEW t \in Table, Took(o, t), NEW x \in rows'[t]
      PROVE  x \in dead[o][t] \/ Overlapped(x, o)'
    <2>1. CASE x = c
        BY <1>2, <1>4, <1>9, <2>1
    <2>2. CASE x \in rows[t]
        <3>1. x \in dead[o][t] \/ Overlapped(x, o)
            BY <1>9, <2>2 DEF SaveInv
        <3> QED
            BY <1>1, <1>7, <2>2, <3>1
    <2> QED
        BY <2>1, <2>2
<1>10. ASSUME pc[o] = "lock", NEW r \in ConfigRows'
       PROVE  r \in snapshot[o] \/ Overlapped(config[r], o)'
    <2>1. CASE config'[r] = c
        BY <1>2, <1>4, <1>10, <2>1 DEF Overlapped
    <2>2. CASE r \in ConfigRows /\ config'[r] = config[r]
        <3>1. r \in snapshot[o] \/ Overlapped(config[r], o)
            BY <1>10, <2>2 DEF SaveInv
        <3> QED
            BY <2>2, <3>1 DEF Overlapped
    <2> QED
        BY <1>5, <2>1, <2>2
<1>11. ASSUME pc[o] = "commit", NEW r \in ConfigRows'
       PROVE  r \in updates[o] \/ Overlapped(config[r], o)'
    <2>1. CASE config'[r] = c
        BY <1>2, <1>4, <1>11, <2>1 DEF Overlapped
    <2>2. CASE r \in ConfigRows /\ config'[r] = config[r]
        <3>1. r \in updates[o] \/ Overlapped(config[r], o)
            BY <1>11, <2>2 DEF SaveInv
        <3> QED
            BY <2>2, <3>1 DEF Overlapped
    <2> QED
        BY <1>5, <2>1, <2>2
<1>12. /\ pc'[o] = "idle" => table'[o] = "auth"
       /\ pc'[o] \in {"select", "update", "lock", "commit"} => table'[o] = "block"
    BY DEF SaveInv
<1> HIDE DEF Took
<1>13. \A t \in Table : Took(o, t)' =>
            \A x \in rows'[t] : x \in dead'[o][t] \/ Overlapped(x, o)'
    BY <1>3, <1>9
<1>14. /\ pc'[o] = "lock" =>
            \A r \in ConfigRows' : r \in snapshot'[o] \/ Overlapped(config[r], o)'
       /\ pc'[o] = "commit" =>
            \A r \in ConfigRows' : r \in updates'[o] \/ Overlapped(config[r], o)'
    BY <1>10, <1>11
<1> QED
    BY <1>8, <1>12, <1>13, <1>14 DEF SaveInv

\* The steps of a save that leave the tables alone.
LEMMA OwnStep ==
    ASSUME TypeOK, NEW s \in Save, SaveInv(s),
           \/ Members(s) \/ DeleteRows(s) \/ TakeRows(s) \/ ClearCache(s)
           \/ Select(s) \/ StartUpdate(s) \/ WriteConfig(s)
           \/ ClearClasses(s) \/ Fail(s)
    PROVE  SaveInv(s)'
<1> USE DEF TypeOK, SaveInv, Took, Overlapped, ConfigRows, Table, PC, At, Goto,
            dbVars, Running
<1>1. CASE Members(s)
    BY <1>1 DEF Members
<1>2. CASE DeleteRows(s)
    BY <1>2 DEF DeleteRows
<1>3. CASE TakeRows(s)
    BY <1>3 DEF TakeRows
<1>4. CASE ClearCache(s)
    BY <1>4 DEF ClearCache, Order
<1>5. CASE Select(s)
    BY <1>5 DEF Select
<1>6. CASE StartUpdate(s)
    BY <1>6 DEF StartUpdate
<1>7. CASE WriteConfig(s)
    BY <1>7 DEF WriteConfig
<1>8. CASE ClearClasses(s)
    BY <1>8 DEF ClearClasses
<1>9. CASE Fail(s)
    BY <1>9 DEF Fail
<1> QED
    BY <1>1, <1>2, <1>3, <1>4, <1>5, <1>6, <1>7, <1>8, <1>9

LEMMA MixCommit ==
    ASSUME TypeOK, MixInv, NEW s \in Save, Commit(s)
    PROVE  MixInv'
<1>1. /\ pc[s] = "commit" /\ pc'[s] = "cleanup" /\ overlap' = overlap
      /\ s \in Active /\ s \notin Active'
      /\ \A o \in Save : o # s => /\ pc'[o] = pc[o]
                                  /\ table'[o] = table[o]
                                  /\ snapshot'[o] = snapshot[o]
                                  /\ dead'[o] = dead[o]
                                  /\ updates'[o] = updates[o]
    BY DEF TypeOK, Commit, At, Goto, EndTransaction, Active, Running, PC
<1>2. /\ \A t \in Table : rows'[t] = (rows[t] \ dead[s][t]) \cup {s}
      /\ \A r \in Save : config'[r] =
            IF r \in (IF updates[s] = {} THEN {s} ELSE updates[s]) THEN s
            ELSE config[r]
    BY DEF TypeOK, Commit, RowsAfter, ConfigAfter
<1>3. \A t \in Table : \A x \in rows[t] \ dead[s][t] : Overlapped(x, s)
    BY <1>1 DEF MixInv, SaveInv, Took, Running, PC, Table
<1>4. \A r \in ConfigRows : r \in updates[s] \/ Overlapped(config[r], s)
    BY <1>1 DEF MixInv, SaveInv
<1>5. MixesOnlyOverlapping'
    <2>1. ASSUME NEW t \in Table, NEW r \in ConfigRows', NEW x \in rows'[t]
          PROVE  x = config'[r] \/ <<x, config'[r]>> \in overlap
        <3>1. r \in Save /\ config'[r] # None
            BY DEF ConfigRows
        <3>2. CASE config'[r] = s
            <4>1. x = s \/ x \in rows[t] \ dead[s][t]
                BY <1>2
            <4>2. x = s \/ Overlapped(x, s)
                BY <1>3, <4>1
            <4> QED
                BY <3>2, <4>2 DEF Overlapped
        <3>3. CASE config'[r] # s
            <4>1. r \in ConfigRows /\ config'[r] = config[r] /\ r \notin updates[s]
                BY <1>2, <3>1, <3>3 DEF ConfigRows
            <4>2. CASE x = s
                BY <1>4, <4>1, <4>2 DEF Overlapped
            <4>3. CASE x # s
                BY <1>2, <4>1, <4>3 DEF MixInv, MixesOnlyOverlapping
            <4> QED
                BY <4>2, <4>3
        <3> QED
            BY <3>2, <3>3
    <2> QED
        BY <1>1, <2>1 DEF MixesOnlyOverlapping
<1>6. \A p, q \in Active' : p # q => Overlapped(p, q)'
    <2>1. Active' \subseteq Active
        BY <1>1 DEF Active
    <2> QED
        BY <1>1, <2>1 DEF MixInv, Overlapped
<1>7. ASSUME NEW o \in Save
      PROVE  SaveInv(o)'
    <2>1. CASE o = s
        BY <1>1, <2>1 DEF SaveInv, Took, Running, PC
    <2>2. CASE o # s
        <3>1. o \in Active => Overlapped(s, o)
            BY <1>1, <2>2 DEF MixInv
        <3>2. SaveInv(o) /\ overlap \subseteq overlap'
            BY <1>1 DEF MixInv
        <3>3. /\ \A t \in Table : rows'[t] \subseteq rows[t] \cup {s}
              /\ \A r \in Save : config'[r] \in {config[r], s}
            BY <1>2
        <3> QED
            BY <1>1, <2>2, <3>1, <3>2, <3>3, OtherSave
    <2> QED
        BY <2>1, <2>2
<1> QED
    BY <1>5, <1>6, <1>7 DEF MixInv

LEMMA MixBegin ==
    ASSUME TypeOK, MixInv, NEW s \in Save, Begin(s)
    PROVE  MixInv'
<1>1. /\ pc[s] = "idle" /\ pc'[s] = "members"
      /\ \A o \in Save : o # s => pc'[o] = pc[o]
      /\ overlap \subseteq overlap'
      /\ \A o \in Active : Overlapped(s, o)' /\ Overlapped(o, s)'
      /\ UNCHANGED <<table, snapshot, dead, updates, rows, config>>
    BY DEF TypeOK, Begin, At, Goto, dbVars, Overlapped
<1>2. MixesOnlyOverlapping'
    BY <1>1 DEF MixInv, MixesOnlyOverlapping, ConfigRows
<1>3. \A p, q \in Active' : p # q => Overlapped(p, q)'
    <2>1. Active' \subseteq Active \cup {s}
        BY <1>1 DEF Active
    <2>2. \A p, q \in Active : p # q => Overlapped(p, q)'
        BY <1>1 DEF MixInv, Overlapped
    <2> QED
        BY <1>1, <2>1, <2>2
<1>4. ASSUME NEW o \in Save
      PROVE  SaveInv(o)'
    <2>1. CASE o = s
        <3>1. table[s] = "auth"
            BY <1>1 DEF MixInv, SaveInv
        <3> QED
            BY <1>1, <2>1, <3>1 DEF SaveInv, Took, Running, PC, Table
    <2>2. CASE o # s
        <3>1. SaveInv(o)
            BY DEF MixInv
        <3> QED
            BY <1>1, <2>2, <3>1 DEF SaveInv, Took, ConfigRows, Overlapped
    <2> QED
        BY <2>1, <2>2
<1> QED
    BY <1>2, <1>3, <1>4 DEF MixInv

LEMMA MixOwn ==
    ASSUME TypeOK, MixInv, NEW s \in Save,
           \/ Members(s) \/ DeleteRows(s) \/ TakeRows(s) \/ ClearCache(s)
           \/ Select(s) \/ StartUpdate(s) \/ WriteConfig(s)
           \/ ClearClasses(s) \/ Fail(s)
    PROVE  MixInv'
<1>1. UNCHANGED <<rows, config, overlap>>
    BY DEF Members, DeleteRows, TakeRows, ClearCache, Select, StartUpdate,
       WriteConfig, ClearClasses, Fail, dbVars
<1>2. \A o \in Save : o # s => /\ pc'[o] = pc[o]
                               /\ table'[o] = table[o]
                               /\ snapshot'[o] = snapshot[o]
                               /\ dead'[o] = dead[o]
                               /\ updates'[o] = updates[o]
    BY DEF TypeOK, Members, DeleteRows, TakeRows, ClearCache, Select,
       StartUpdate, WriteConfig, ClearClasses, Fail, Goto, EndTransaction
<1>3. Active' \subseteq Active
    <2>1. s \in Active' => s \in Active
        BY DEF Active, Running, PC, At, Goto, TypeOK, Members, DeleteRows, TakeRows,
           ClearCache, Select, StartUpdate, WriteConfig, ClearClasses, Fail
    <2> QED
        BY <1>2, <2>1 DEF Active
<1>4. MixesOnlyOverlapping' /\ \A p, q \in Active' : p # q => Overlapped(p, q)'
    BY <1>1, <1>3 DEF MixInv, MixesOnlyOverlapping, ConfigRows, Overlapped
<1>5. ASSUME NEW o \in Save
      PROVE  SaveInv(o)'
    <2>1. SaveInv(o)
        BY DEF MixInv
    <2>2. CASE o = s
        BY <2>1, <2>2, OwnStep
    <2>3. CASE o # s
        BY <1>1, <1>2, <2>1, <2>3 DEF SaveInv, Took, ConfigRows, Overlapped
    <2> QED
        BY <2>2, <2>3
<1> QED
    BY <1>4, <1>5 DEF MixInv

LEMMA MixNext == TypeOK /\ MixInv /\ [Next]_vars => MixInv'
<1> SUFFICES ASSUME TypeOK, MixInv, [Next]_vars
             PROVE  MixInv'
    OBVIOUS
<1>1. ASSUME NEW s \in Save, Begin(s) \/ SaveStep(s) \/ Fail(s)
      PROVE  MixInv'
    BY <1>1, MixBegin, MixCommit, MixOwn DEF SaveStep
<1>2. CASE UNCHANGED <<saveVars, dbVars, overlap>>
    BY <1>2 DEF MixInv, MixesOnlyOverlapping, SaveInv, Took, ConfigRows,
       Overlapped, Active, saveVars, dbVars
<1>3. ASSUME NEW l \in Lookup,
             LookupStep(l) \/ Crash(l) \/ \E k \in Key : Miss(l, k)
      PROVE  UNCHANGED <<saveVars, dbVars, overlap>>
    BY <1>3 DEF LookupStep, Query, SetKey, AddToList, SetExpiry, Crash, Miss
<1>4. ASSUME NEW k \in Key, Expire(k)
      PROVE  UNCHANGED <<saveVars, dbVars, overlap>>
    BY <1>4 DEF Expire
<1>5. CASE UNCHANGED vars
    BY <1>2, <1>5 DEF vars, saveVars, dbVars
<1> QED
    BY <1>1, <1>2, <1>3, <1>4, <1>5 DEF Next

\* However the statements of concurrent saves interleave, what is in force is
\* what the config shows or was written by a save that overlapped its save.
THEOREM MixesComeFromOverlap == Spec => []MixesOnlyOverlapping
<1>1. Init => MixInv
    <2> SUFFICES ASSUME Init PROVE MixInv
        OBVIOUS
    <2>1. \A x, y \in Earlier : x = y
        <3>1. IsFiniteSet(Earlier) /\ Cardinality(Earlier) <= 1
            BY EarlierAssumption
        <3>2. Cardinality(Earlier) \in Nat
            BY <3>1, FS_CardinalityType
        <3>3. Cardinality(Earlier) = 0 \/ Cardinality(Earlier) = 1
            BY <3>1, <3>2
        <3>4. Cardinality(Earlier) = 0 => Earlier = {}
            BY <3>1, FS_EmptySet, Zenon
        <3>5. Cardinality(Earlier) = 1 => \E x : Earlier = {x}
            BY <3>1, FS_Singleton, Zenon
        <3> QED
            BY <3>3, <3>4, <3>5
    <2>2. MixesOnlyOverlapping
        BY <2>1 DEF Init, MixesOnlyOverlapping, ConfigRows, Table
    <2>3. Active = {}
        BY DEF Init, Active, Running
    <2>4. \A s \in Save : SaveInv(s)
        BY DEF Init, SaveInv, Took, Running, Order
    <2> QED
        BY <2>2, <2>3, <2>4 DEF MixInv
<1>2. MixInv => MixesOnlyOverlapping
    BY DEF MixInv
<1> QED
    BY <1>1, <1>2, MixNext, TypeCorrect, PTL DEF Spec

(***************************************************************************)
(* Saves do not wait in a circle                                           *)
(***************************************************************************)

\* A transaction holds rows of a table once it has deleted them, and the row of
\* the config once it has updated it: what it can still wait for comes later.
HoldsInOrder(s) ==
    /\ dead[s]["auth"] # {} =>
        \/ pc[s] = "clear"
        \/ table[s] = "block" /\ pc[s] \in Running
    /\ dead[s]["block"] # {} =>
        table[s] = "block" /\ pc[s] \in {"clear", "select", "update", "lock", "commit"}
    /\ updates[s] # {} => pc[s] = "commit"
    /\ pc[s] = "idle" => table[s] = "auth"
    /\ pc[s] \in {"select", "update", "lock", "commit"} => table[s] = "block"

LockInv == \A s \in Save : HoldsInOrder(s)

LEMMA LocksOfOne ==
    ASSUME TypeOK, NEW s \in Save, HoldsInOrder(s),
           Begin(s) \/ SaveStep(s) \/ Fail(s)
    PROVE  HoldsInOrder(s)'
<1> USE DEF TypeOK, HoldsInOrder, Table, PC, At, Goto, Running
<1>1. CASE Begin(s)
    BY <1>1 DEF Begin
<1>2. CASE Members(s)
    BY <1>2 DEF Members
<1>3. CASE DeleteRows(s)
    BY <1>3 DEF DeleteRows
<1>4. CASE TakeRows(s)
    BY <1>4 DEF TakeRows
<1>5. CASE ClearCache(s)
    BY <1>5 DEF ClearCache, Order
<1>6. CASE Select(s)
    BY <1>6 DEF Select
<1>7. CASE StartUpdate(s)
    BY <1>7 DEF StartUpdate
<1>8. CASE WriteConfig(s)
    BY <1>8 DEF WriteConfig
<1>9. CASE Commit(s)
    BY <1>9 DEF Commit, EndTransaction
<1>10. CASE ClearClasses(s)
    BY <1>10 DEF ClearClasses
<1>11. CASE Fail(s)
    BY <1>11 DEF Fail, EndTransaction
<1> QED
    BY <1>1, <1>2, <1>3, <1>4, <1>5, <1>6, <1>7, <1>8, <1>9, <1>10, <1>11
       DEF SaveStep

LEMMA LockNext == TypeOK /\ LockInv /\ [Next]_vars => LockInv'
<1> SUFFICES ASSUME TypeOK, LockInv, [Next]_vars
             PROVE  LockInv'
    OBVIOUS
<1>1. ASSUME NEW s \in Save, Begin(s) \/ SaveStep(s) \/ Fail(s)
      PROVE  LockInv'
    <2>1. \A o \in Save : o # s => /\ pc'[o] = pc[o]
                                   /\ table'[o] = table[o]
                                   /\ dead'[o] = dead[o]
                                   /\ updates'[o] = updates[o]
        BY <1>1 DEF TypeOK, SaveStep, Begin, Members, DeleteRows, TakeRows,
           ClearCache, Select, StartUpdate, WriteConfig, Commit, ClearClasses,
           Fail, Goto, EndTransaction
    <2>2. \A o \in Save : o # s => HoldsInOrder(o)'
        BY <2>1 DEF LockInv, HoldsInOrder
    <2>3. HoldsInOrder(s)'
        BY <1>1, LocksOfOne DEF LockInv
    <2> QED
        BY <2>2, <2>3 DEF LockInv
<1>2. CASE UNCHANGED saveVars
    BY <1>2 DEF LockInv, HoldsInOrder, saveVars
<1>3. ASSUME NEW l \in Lookup,
             LookupStep(l) \/ Crash(l) \/ \E k \in Key : Miss(l, k)
      PROVE  UNCHANGED saveVars
    BY <1>3 DEF LookupStep, Query, SetKey, AddToList, SetExpiry, Crash, Miss
<1>4. ASSUME NEW k \in Key, Expire(k)
      PROVE  UNCHANGED saveVars
    BY <1>4 DEF Expire
<1>5. CASE UNCHANGED vars
    BY <1>2, <1>5 DEF vars, saveVars
<1> QED
    BY <1>1, <1>2, <1>3, <1>4, <1>5 DEF Next

\* How far a save that waits has come with its locks.
WaitsAt(s, t) == At(s, "wait") /\ table[s] = t

LEMMA WaitsForLater ==
    ASSUME TypeOK, LockInv, NEW s \in Save, NEW o \in WaitsFor(s)
    PROVE  /\ WaitsAt(s, "auth") => ~WaitsAt(o, "auth")
           /\ WaitsAt(s, "block") => ~At(o, "wait")
           /\ At(s, "lock") => ~At(o, "wait") /\ ~At(o, "lock")
           /\ WaitsAt(s, "auth") \/ WaitsAt(s, "block") \/ At(s, "lock")
<1>1. /\ o \in Save /\ HoldsInOrder(o)
      /\ \/ At(s, "wait") /\ dead[o][table[s]] # {}
         \/ At(s, "lock") /\ updates[o] # {}
    BY DEF WaitsFor, LockInv
<1>2. table[s] \in {"auth", "block"}
    BY DEF TypeOK, Table
<1> QED
    BY <1>1, <1>2 DEF HoldsInOrder, WaitsAt, At

\* However many saves run, there is no circle of saves that wait for each
\* other: the ones that have come furthest wait for none of the others.
THEOREM SavesWaitInOrder == Spec => []NoCircularWait
<1>1. Init => LockInv
    BY DEF Init, LockInv, HoldsInOrder, Table, Order
<1>2. TypeOK /\ LockInv => NoCircularWait
    <2> SUFFICES ASSUME TypeOK, LockInv, NEW W \in SUBSET Save, W # {}
                 PROVE  \E s \in W : WaitsFor(s) \cap W = {}
        BY DEF NoCircularWait
    <2>1. CASE \E s \in W : ~At(s, "wait") /\ ~At(s, "lock")
        BY <2>1 DEF WaitsFor
    <2>2. CASE /\ \A s \in W : At(s, "wait") \/ At(s, "lock")
               /\ \E s \in W : At(s, "lock")
        BY <2>2, WaitsForLater
    <2>3. CASE /\ \A s \in W : At(s, "wait")
               /\ \E s \in W : WaitsAt(s, "block")
        BY <2>3, WaitsForLater
    <2>4. CASE \A s \in W : WaitsAt(s, "auth")
        BY <2>4, WaitsForLater
    <2>5. \A s \in W : At(s, "wait") => WaitsAt(s, "auth") \/ WaitsAt(s, "block")
        BY DEF WaitsAt, TypeOK, Table
    <2> QED
        BY <2>1, <2>2, <2>3, <2>4, <2>5
<1> QED
    BY <1>1, <1>2, LockNext, TypeCorrect, PTL DEF Spec
=============================================================================
