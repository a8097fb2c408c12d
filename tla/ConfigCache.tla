---------------------------- MODULE ConfigCache ----------------------------
(***************************************************************************)
(* Saving the Metlo config while collectors and analyzers use it. A save   *)
(* rewrites the authentication_config and block_fields tables and the row  *)
(* of metlo_config in one READ COMMITTED transaction and deletes redis     *)
(* keys on the way; a lookup reads a redis key, or the database when the   *)
(* key is missing, and then fills the key.                                 *)
(*                                                                         *)
(* One host is modelled: its keys are auth_config_<host>, with the list    *)
(* auth_config_list, and the same for block_fields. The entries a save     *)
(* writes for the host are named by the save.                              *)
(***************************************************************************)
EXTENDS Naturals, FiniteSets

CONSTANTS
    Save,       \* calls of updateMetloConfig
    Earlier,    \* the save that is over when the model starts, if there is one
    Lookup,     \* cached lookups that run at a time
    Key,        \* the caches: a subset of AllKeys
    MaxCrashes, \* model bound: crashes of a process during a lookup
    None        \* no save, no key

ASSUME NoneAssumption == None \notin Save \cup Key
ASSUME EarlierAssumption == /\ Earlier \subseteq Save /\ IsFiniteSet(Earlier)
                            /\ Cardinality(Earlier) <= 1

\* auth_config_*, block_fields_*, CACHED_DATA_CLASSES, hostMapCached
AllKeys == {"auth", "block", "classes", "hostMap"}
ASSUME KeyAssumption == Key \subseteq AllKeys /\ MaxCrashes \in Nat

Table == {"auth", "block"}  \* rewritten by a save

VARIABLES
    rows,       \* table -> the saves whose entries are committed
    config,     \* save -> what the metlo_config row it inserted holds now
    pc,         \* save -> where it is in updateMetloConfigHandler
    table,      \* save -> the table populateMetloConfig is at
    known,      \* save -> SMEMBERS returned the key of the host
    snapshot,   \* save -> the rows its DELETE or UPDATE statement sees
    dead,       \* save -> table -> rows it deleted and not yet committed
    updates,    \* save -> rows of metlo_config it updates, {} for an insert
    cache,      \* key -> {its value in redis}, or {} if it is missing
    expires,    \* key -> has a time to live
    listed,     \* table -> the key of the host is a member of the list key
    step,       \* lookup -> where it is
    key,        \* lookup -> the key it looks up
    value,      \* lookup -> what it read from the database
    overlap,    \* history: pairs of saves that ran at the same time
    eternal,    \* history: keys that lost their EXPIRE in a crash
    crashes     \* history: number of crashes

saveVars   == <<pc, table, known, snapshot, dead, updates>>
dbVars     == <<rows, config>>
redisVars  == <<cache, expires, listed, eternal>>
lookupVars == <<step, key, value>>
vars == <<rows, config, pc, table, known, snapshot, dead, updates, cache,
          expires, listed, step, key, value, overlap, eternal, crashes>>

PC == {"idle", "members", "delete", "wait", "clear", "select", "update",
       "lock", "commit", "cleanup", "done", "failed"}
Running == PC \ {"idle", "cleanup", "done", "failed"}  \* in the transaction
Step == {"idle", "query", "set", "sadd", "expire"}

\* Mutant: one of the saves begins with the block fields.
MixedOrder(s) ==
    IF s = CHOOSE x \in Save \ Earlier : TRUE THEN <<"block", "auth">>
    ELSE <<"auth", "block">>

\* The order in which populateMetloConfig rewrites the tables.
Order(s) == <<"auth", "block">>

TypeOK ==
    /\ rows \in [Table -> SUBSET Save]
    /\ config \in [Save -> Save \cup {None}]
    /\ pc \in [Save -> PC]
    /\ table \in [Save -> Table]
    /\ known \in [Save -> BOOLEAN]
    /\ snapshot \in [Save -> SUBSET Save]
    /\ dead \in [Save -> [Table -> SUBSET Save]]
    /\ updates \in [Save -> SUBSET Save]
    /\ cache \in [Key -> SUBSET SUBSET Save]
    /\ expires \in [Key -> BOOLEAN]
    /\ listed \in [Table -> BOOLEAN]
    /\ step \in [Lookup -> Step]
    /\ key \in [Lookup -> Key \cup {None}]
    /\ value \in [Lookup -> SUBSET Save]
    /\ overlap \subseteq Save \X Save
    /\ eternal \subseteq Key
    /\ crashes \in 0..MaxCrashes
    /\ \A l \in Lookup : step[l] = "idle" <=> key[l] = None
    /\ \A k \in Key : Cardinality(cache[k]) <= 1 /\ (cache[k] = {} => ~expires[k])

Init ==
    /\ rows = [t \in Table |-> Earlier]
    /\ config = [s \in Save |-> IF s \in Earlier THEN s ELSE None]
    /\ pc = [s \in Save |-> IF s \in Earlier THEN "done" ELSE "idle"]
    /\ table = [s \in Save |-> Order(s)[1]]
    /\ known = [s \in Save |-> FALSE]
    /\ snapshot = [s \in Save |-> {}]
    /\ dead = [s \in Save |-> [t \in Table |-> {}]]
    /\ updates = [s \in Save |-> {}]
    /\ cache = [k \in Key |-> {}]
    /\ expires = [k \in Key |-> FALSE]
    /\ listed = [t \in Table |-> FALSE]
    /\ step = [l \in Lookup |-> "idle"]
    /\ key = [l \in Lookup |-> None]
    /\ value = [l \in Lookup |-> {}]
    /\ overlap = {}
    /\ eternal = {}
    /\ crashes = 0

(***************************************************************************)
(* Redis                                                                   *)
(***************************************************************************)

\* DEL also drops the time to live.
Del(K) ==
    /\ cache' = [k \in Key |-> IF k \in K THEN {} ELSE cache[k]]
    /\ expires' = [k \in Key |-> k \notin K /\ expires[k]]
    /\ eternal' = eternal \ K

(***************************************************************************)
(* Saving                                                                  *)
(***************************************************************************)

At(s, label) == pc[s] = label
Goto(s, label) == pc' = [pc EXCEPT ![s] = label]
Active == {s \in Save : pc[s] \in Running}
ConfigRows == {s \in Save : config[s] # None}

Begin(s) ==
    /\ At(s, "idle")
    /\ Goto(s, "members")
    /\ overlap' = overlap \cup ({s} \X Active) \cup (Active \X {s})
    /\ UNCHANGED <<table, known, snapshot, dead, updates, dbVars, redisVars,
                   lookupVars, crashes>>

\* getValuesFromSet takes an error for an empty list.
Members(s) ==
    /\ At(s, "members")
    /\ Goto(s, "delete")
    /\ known' \in {[known EXCEPT ![s] = m] : m \in {listed[table[s]], FALSE}}
    /\ UNCHANGED <<table, snapshot, dead, updates, dbVars, redisVars,
                   lookupVars, overlap, crashes>>

\* DELETE FROM the table: the statement sees the rows committed so far.
DeleteRows(s) ==
    /\ At(s, "delete")
    /\ Goto(s, "wait")
    /\ snapshot' = [snapshot EXCEPT ![s] = rows[table[s]]]
    /\ UNCHANGED <<table, known, dead, updates, dbVars, redisVars, lookupVars,
                   overlap, crashes>>

\* It waits for the transactions that deleted one of them, and skips the rows
\* that are gone when it goes on. Then the new entries are inserted.
TakeRows(s) ==
    /\ At(s, "wait")
    /\ \A o \in Save \ {s} : dead[o][table[s]] \cap snapshot[s] = {}
    /\ dead' = [dead EXCEPT ![s][table[s]] = snapshot[s] \cap rows[table[s]]]
    /\ Goto(s, "clear")
    /\ UNCHANGED <<table, known, snapshot, updates, dbVars, redisVars,
                   lookupVars, overlap, crashes>>

\* The cached entry and the list are deleted before the commit. An error is
\* swallowed.
ClearCache(s) ==
    LET t == table[s] IN
    /\ At(s, "clear")
    /\ \/ /\ Del(IF known[s] THEN {t} ELSE {})
          /\ listed' = [listed EXCEPT ![t] = FALSE]
       \/ UNCHANGED redisVars
    /\ IF t = Order(s)[1]
       THEN Goto(s, "members") /\ table' = [table EXCEPT ![s] = Order(s)[2]]
       ELSE Goto(s, "select") /\ UNCHANGED table
    /\ UNCHANGED <<known, snapshot, dead, updates, dbVars, lookupVars, overlap,
                   crashes>>

\* An UPDATE without a condition if there is a row of metlo_config, else an
\* INSERT, which nobody sees before the commit.
Select(s) ==
    /\ At(s, "select")
    /\ Goto(s, IF ConfigRows = {} THEN "commit" ELSE "update")
    /\ UNCHANGED <<table, known, snapshot, dead, updates, dbVars, redisVars,
                   lookupVars, overlap, crashes>>

\* The UPDATE statement sees the rows committed when it begins.
StartUpdate(s) ==
    /\ At(s, "update")
    /\ snapshot' = [snapshot EXCEPT ![s] = ConfigRows]
    /\ Goto(s, "lock")
    /\ UNCHANGED <<table, known, dead, updates, dbVars, redisVars, lookupVars,
                   overlap, crashes>>

\* It waits for the transactions that updated one of them before.
WriteConfig(s) ==
    /\ At(s, "lock")
    /\ \A o \in Save \ {s} : updates[o] \cap snapshot[s] = {}
    /\ updates' = [updates EXCEPT ![s] = snapshot[s]]
    /\ Goto(s, "commit")
    /\ UNCHANGED <<table, known, snapshot, dead, dbVars, redisVars, lookupVars,
                   overlap, crashes>>

\* Mutant: the deletion of the old rows is not part of the transaction.
RowsWithOld(s) == [t \in Table |-> rows[t] \cup {s}]

\* What the commit makes of the tables, and of the rows of metlo_config.
RowsAfter(s) == [t \in Table |-> (rows[t] \ dead[s][t]) \cup {s}]
ConfigAfter(s) ==
    LET written == IF updates[s] = {} THEN {s} ELSE updates[s]
    IN  [r \in Save |-> IF r \in written THEN s ELSE config[r]]

\* Mutant: the transaction is left open.
LocksKept(s) == UNCHANGED <<dead, updates>>

\* The locks of the transaction are gone.
EndTransaction(s) ==
    /\ dead' = [dead EXCEPT ![s] = [t \in Table |-> {}]]
    /\ updates' = [updates EXCEPT ![s] = {}]

Commit(s) ==
    /\ At(s, "commit")
    /\ rows' = RowsAfter(s)
    /\ config' = ConfigAfter(s)
    /\ EndTransaction(s)
    /\ Goto(s, "cleanup")
    /\ UNCHANGED <<table, known, snapshot, redisVars, lookupVars, overlap, crashes>>

\* clearDataClassCache runs after cleanupStoredDataClasses, unless that fails.
ClearClasses(s) ==
    /\ At(s, "cleanup")
    /\ \/ Del({"classes"} \cap Key) /\ UNCHANGED listed
       \/ UNCHANGED redisVars
    /\ Goto(s, "done")
    /\ UNCHANGED <<table, known, snapshot, dead, updates, dbVars, lookupVars,
                   overlap, crashes>>

\* Mutant: the authentication entries are saved without the transaction.
FailWithAuthSaved(s) ==
    /\ pc[s] \in Running
    /\ rows' = [rows EXCEPT !["auth"] =
                  IF pc[s] \in {"select", "update", "lock", "commit"}
                  THEN (@ \ dead[s]["auth"]) \cup {s} ELSE @]
    /\ EndTransaction(s)
    /\ Goto(s, "failed")
    /\ UNCHANGED <<table, known, snapshot, config, redisVars, lookupVars,
                   overlap, crashes>>

\* An invalid path, a host given twice, a failed query or a crash: the
\* transaction is rolled back, the deleted redis keys stay deleted.
Fail(s) ==
    /\ pc[s] \in Running
    /\ EndTransaction(s)
    /\ Goto(s, "failed")
    /\ UNCHANGED <<table, known, snapshot, dbVars, redisVars, lookupVars,
                   overlap, crashes>>

(***************************************************************************)
(* Looking up                                                              *)
(***************************************************************************)

Finish(l) ==
    /\ step' = [step EXCEPT ![l] = "idle"]
    /\ key' = [key EXCEPT ![l] = None]
    /\ value' = [value EXCEPT ![l] = {}]

OneOf(S) == IF S = {} THEN {{}} ELSE {{x} : x \in S}

\* What a query of the committed rows may return: all block fields of the
\* host, but one authentication config, and the first row of metlo_config.
QueryResults(k) ==
    CASE k = "block" -> {rows["block"]}
      [] k = "auth"  -> OneOf(rows["auth"])
      [] OTHER       -> OneOf({config[r] : r \in ConfigRows})

\* The key is missing, or getFromRedis failed. A hit changes nothing.
Miss(l, k) ==
    /\ step[l] = "idle"
    /\ step' = [step EXCEPT ![l] = "query"]
    /\ key' = [key EXCEPT ![l] = k]
    /\ UNCHANGED <<value, saveVars, dbVars, redisVars, overlap, crashes>>

Query(l) ==
    /\ step[l] = "query"
    /\ step' = [step EXCEPT ![l] = "set"]
    /\ value' \in {[value EXCEPT ![l] = v] : v \in QueryResults(key[l])}
    /\ UNCHANGED <<key, saveVars, dbVars, redisVars, overlap, crashes>>

\* SET removes the time to live. When it fails, no EXPIRE is sent, and the
\* key is not looked at again until the next lookup.
SetKey(l) ==
    LET k == key[l] IN
    /\ step[l] = "set"
    /\ \/ /\ cache' = [cache EXCEPT ![k] = {value[l]}]
          /\ expires' = [expires EXCEPT ![k] = FALSE]
          /\ eternal' = eternal \ {k}
          /\ step' = [step EXCEPT ![l] = IF k \in Table THEN "sadd" ELSE "expire"]
          /\ UNCHANGED <<key, value>>
       \/ /\ Finish(l)
          /\ UNCHANGED <<cache, expires, eternal>>
    /\ UNCHANGED <<listed, saveVars, dbVars, overlap, crashes>>

\* SADD is sent with the SET, before its reply; an error is swallowed.
AddToList(l) ==
    /\ step[l] = "sadd"
    /\ step' = [step EXCEPT ![l] = "expire"]
    /\ \/ listed' = [listed EXCEPT ![key[l]] = TRUE]
       \/ UNCHANGED listed
    /\ UNCHANGED <<key, value, cache, expires, eternal, saveVars, dbVars,
                   overlap, crashes>>

\* Mutant: the key is stored without a time to live.
NoExpiry(l) ==
    /\ step[l] = "expire"
    /\ Finish(l)
    /\ UNCHANGED <<redisVars, saveVars, dbVars, overlap, crashes>>

\* EXPIRE is sent once the SET was answered, whatever the key holds by then.
SetExpiry(l) ==
    LET k == key[l] IN
    /\ step[l] = "expire"
    /\ expires' = [expires EXCEPT ![k] = cache[k] # {}]
    /\ eternal' = eternal \ {k}
    /\ Finish(l)
    /\ UNCHANGED <<cache, listed, saveVars, dbVars, overlap, crashes>>

\* The process dies; the commands it did not send are lost.
Crash(l) ==
    /\ step[l] # "idle" /\ crashes < MaxCrashes
    /\ crashes' = crashes + 1
    /\ eternal' = IF step[l] \in {"sadd", "expire"} THEN eternal \cup {key[l]}
                  ELSE eternal
    /\ Finish(l)
    /\ UNCHANGED <<cache, expires, listed, saveVars, dbVars, overlap>>

\* The time to live (600, 60 or 30 seconds) is over.
Expire(k) ==
    /\ expires[k]
    /\ Del({k})
    /\ UNCHANGED <<listed, saveVars, dbVars, lookupVars, overlap, crashes>>

(***************************************************************************)
(* Specification                                                           *)
(***************************************************************************)

SaveStep(s) == \/ Members(s) \/ DeleteRows(s) \/ TakeRows(s) \/ ClearCache(s)
               \/ Select(s) \/ StartUpdate(s) \/ WriteConfig(s) \/ Commit(s)
               \/ ClearClasses(s)

LookupStep(l) == Query(l) \/ SetKey(l) \/ AddToList(l) \/ SetExpiry(l)

Next == \/ \E s \in Save : Begin(s) \/ SaveStep(s) \/ Fail(s)
        \/ \E l \in Lookup : LookupStep(l) \/ Crash(l)
        \/ \E l \in Lookup, k \in Key : Miss(l, k)
        \/ \E k \in Key : Expire(k)

Spec == Init /\ [][Next]_vars

\* Whatever was started goes on, and redis removes expired keys.
FairSpec == /\ Spec
            /\ \A s \in Save : WF_vars(SaveStep(s))
            /\ \A l \in Lookup : WF_vars(LookupStep(l))
            /\ \A k \in Key : WF_vars(Expire(k))

(***************************************************************************)
(* Properties                                                              *)
(***************************************************************************)

Committed == {s \in Save : pc[s] \in {"cleanup", "done"}}

\* A save that is refused or fails half-way leaves no trace: neither a table
\* nor a cache ever holds an entry of a save that did not commit.
OnlyCommittedInUse ==
    /\ \A t \in Table : rows[t] \subseteq Committed
    /\ \A k \in Key : UNION cache[k] \subseteq Committed
    /\ \A s \in ConfigRows : config[s] \in Committed

\* READ COMMITTED lets two saves leave the entries of both, but only two that
\* ran at the same time: what is in force is what the config shows, or comes
\* from a save that overlapped it.
MixesOnlyOverlapping ==
    \A t \in Table, s \in ConfigRows : \A x \in rows[t] :
        x = config[s] \/ <<x, config[s]>> \in overlap

\* A cached value without a time to live is about to get one, unless the
\* process that stored it died before its EXPIRE: nothing stale stays.
StaleIsTemporary ==
    \A k \in Key : cache[k] # {} =>
        \/ expires[k] \/ k \in eternal
        \/ \E l \in Lookup : key[l] = k /\ step[l] \in {"sadd", "expire"}

\* The entity AuthenticationConfig has host as its primary column, and
\* populateAuthentication refuses a host that is given twice: a host has one
\* authentication config.
OneAuthConfigPerHost == Cardinality(rows["auth"]) <= 1

\* The saves that hold the rows which the statement of a save needs.
WaitsFor(s) ==
    {o \in Save \ {s} :
        \/ At(s, "wait") /\ dead[o][table[s]] \cap snapshot[s] # {}
        \/ At(s, "lock") /\ updates[o] \cap snapshot[s] # {}}

\* Saves wait for each other, but never in a circle, of two or of more: among
\* any saves there is one that waits for none of them, since all of them lock
\* the tables and the row of the config in the same order.
NoCircularWait ==
    \A W \in SUBSET Save : W # {} => \E s \in W : WaitsFor(s) \cap W = {}

\* Every save that began ends, whatever rows it has to wait for.
SavesEnd == \A s \in Save : pc[s] \in Running ~> pc[s] \in {"done", "failed"}

Fresh(k) == cache[k] \subseteq QueryResults(k)

\* When the last save is over, every cache in the end holds what the database
\* holds, also the caches a save does not clear or that were filled again
\* between the DEL and the commit.
CachesBecomeFresh ==
    \A k \in Key : <>[](Fresh(k) \/ k \in eternal)
=============================================================================
