-------------------------- MODULE LLMProviderConfig --------------------------
(***************************************************************************)
(* The TTL cache in front of the llm_provider row of the config table: one *)
(* object per process, read and filled by every handler thread without a   *)
(* lock.  A thread may be suspended between any two reads or writes of the *)
(* object's two fields; operators change the row behind the cache's back.  *)
(***************************************************************************)
EXTENDS Integers

CONSTANTS
    Thread,
    None,
    TTL,            \* CACHE_TTL_SECONDS
    MaxDelay,       \* bound: how long one call of get() takes, the query included
    MaxTime,        \* bound on the clock
    MaxUpdates      \* bound: how often operators change the row

ASSUME TTLAssumption == TTL \in Nat \ {0} /\ MaxDelay \in Nat
ASSUME NoneAssumption == None \notin Nat
ASSUME CacheBoundsAssumption == MaxTime \in Nat /\ MaxUpdates \in Nat

VARIABLES
    now,            \* time.monotonic()
    stored,         \* config.value where key = 'llm_provider', None without a row
    lastCurrent,    \* when a provider was last the one the row asks for
    cachedValue,    \* _cached_value
    cachedAt,       \* _cached_at
    pc,             \* where a thread stands in get()
    raw,            \* what its query returned
    begun,          \* when its call began
    result,         \* what its last call returned, and from where
    updates

cacheVars == <<cachedValue, cachedAt>>
rowVars == <<stored, lastCurrent, updates>>
threadVars == <<pc, raw, begun, result>>
vars == <<now, rowVars, cacheVars, threadVars>>

ValidProviders == {"bedrock", "anthropic_api"}
DefaultProvider == "anthropic_api"
Stored == ValidProviders \cup {"typo", None}
Source == {"cache", "table", "fallback"}

\* A missing row and an invalid value both mean the default.
Validate(value) == IF value \in ValidProviders THEN value ELSE DefaultProvider

\* How long ago the row last asked for provider v.
Staleness(v) == IF Validate(stored) = v THEN 0 ELSE now - lastCurrent[v]

Init ==
    /\ now = 0
    /\ stored \in Stored
    /\ lastCurrent = [v \in ValidProviders |-> 0 - (TTL + 4 * MaxDelay + 1)]
    /\ cachedValue = None
    /\ cachedAt = None
    /\ pc = [t \in Thread |-> "idle"]
    /\ raw = [t \in Thread |-> None]
    /\ begun = [t \in Thread |-> 0]
    /\ result = [t \in Thread |-> None]
    /\ updates = 0

\* Time passes, though no call of get() takes more than MaxDelay.
Tick ==
    /\ now < MaxTime
    /\ \A t \in Thread : pc[t] # "idle" => now - begun[t] < MaxDelay
    /\ now' = now + 1
    /\ UNCHANGED <<rowVars, cacheVars, threadVars>>

\* UPDATE config SET value = ... WHERE key = 'llm_provider'
UpdateRow(value) ==
    /\ updates < MaxUpdates
    /\ value # stored
    /\ updates' = updates + 1
    /\ stored' = value
    /\ lastCurrent' = [lastCurrent EXCEPT ![Validate(stored)] = now]
    /\ UNCHANGED <<now, cacheVars, threadVars>>

-----------------------------------------------------------------------------
(* get(): _is_fresh looks at _cached_at twice *)

Goto(t, step) == pc' = [pc EXCEPT ![t] = step]

Begin(t) ==
    /\ pc[t] = "idle"
    /\ Goto(t, IF cachedAt = None THEN "query" ELSE "dated")
    /\ begun' = [begun EXCEPT ![t] = now]
    /\ UNCHANGED <<now, rowVars, cacheVars, raw, result>>

\* Mutant of Fresh: the comparison admits one age more than it should.
FreshTooLong(at) == now - at <= TTL + MaxDelay
Fresh(at) == now - at < TTL

CheckAge(t) ==
    /\ pc[t] = "dated"
    /\ Goto(t, IF Fresh(cachedAt) THEN "hit" ELSE "query")
    /\ UNCHANGED <<now, rowVars, cacheVars, raw, begun, result>>

Return(t, value, source) ==
    /\ Goto(t, "idle")
    /\ raw' = [raw EXCEPT ![t] = None]
    /\ begun' = [begun EXCEPT ![t] = 0]
    /\ result' = [result EXCEPT ![t] = [value |-> value, source |-> source]]

Hit(t) ==
    /\ pc[t] = "hit"
    /\ Return(t, cachedValue, "cache")
    /\ UNCHANGED <<now, rowVars, cacheVars>>

Query(t) ==
    /\ pc[t] = "query"
    /\ Goto(t, "store_value")
    /\ raw' = [raw EXCEPT ![t] = stored]
    /\ UNCHANGED <<now, rowVars, cacheVars, begun, result>>

\* Mutants of StoreValue and StoreTime: the two assignments change places.
StoreTimeFirst(t) ==
    /\ pc[t] = "store_value"
    /\ cachedAt' = now
    /\ Goto(t, "store_time")
    /\ UNCHANGED <<now, rowVars, cachedValue, raw, begun, result>>
\* Mutant of StoreValue: what the row holds is cached unchecked.
StoreUnchecked(t) ==
    /\ pc[t] = "store_value"
    /\ cachedValue' = raw[t]
    /\ Goto(t, "store_time")
    /\ UNCHANGED <<now, rowVars, cachedAt, raw, begun, result>>

StoreValue(t) ==
    /\ pc[t] = "store_value"
    /\ cachedValue' = Validate(raw[t])
    /\ Goto(t, "store_time")
    /\ UNCHANGED <<now, rowVars, cachedAt, raw, begun, result>>

StoreTime(t) ==
    /\ pc[t] = "store_time"
    /\ cachedAt' = now
    /\ Return(t, Validate(raw[t]), "table")
    /\ UNCHANGED <<now, rowVars, cachedValue>>

\* The query raises: the cached value whatever its age, or the default.
QueryFails(t) ==
    /\ pc[t] = "query"
    /\ Return(t, IF cachedValue # None THEN cachedValue ELSE DefaultProvider, "fallback")
    /\ UNCHANGED <<now, rowVars, cacheVars>>

Next ==
    \/ Tick
    \/ \E value \in Stored : UpdateRow(value)
    \/ \E t \in Thread :
          Begin(t) \/ CheckAge(t) \/ Hit(t) \/ Query(t) \/ StoreValue(t) \/ StoreTime(t)
          \/ QueryFails(t)

Spec == Init /\ [][Next]_vars

-----------------------------------------------------------------------------
(* Properties *)

CacheTypeOK ==
    /\ now \in 0 .. MaxTime
    /\ stored \in Stored
    /\ lastCurrent \in [ValidProviders -> Int]
    /\ cachedValue \in ValidProviders \cup {None}
    /\ cachedAt \in 0 .. MaxTime \cup {None}
    /\ pc \in [Thread -> {"idle", "dated", "hit", "query", "store_value", "store_time"}]
    /\ raw \in [Thread -> Stored]
    /\ begun \in [Thread -> 0 .. MaxTime]
    /\ result \in [Thread -> [value : ValidProviders \cup {None}, source : Source] \cup {None}]
    /\ updates \in 0 .. MaxUpdates

\* A caller always gets a provider that exists: a thread that found the cache
\* dated never reads an empty value, however the fills of other threads are cut
\* ("fresh -> never None"), and whatever an operator typed into the row.
AlwaysAProvider == \A t \in Thread : result[t] # None => result[t].value \in ValidProviders

Returning(t) == pc[t] # "idle" /\ pc'[t] = "idle"

\* While the database answers, nobody is given a provider that the row stopped
\* asking for longer ago than the TTL and what the calls themselves take: three
\* of them, since a slow reader may give an old value a new date, another may
\* date a value that is not its own, and the one served may be slow as well.
StalenessBounded ==
    [][\A t \in Thread :
          Returning(t) /\ result'[t].source # "fallback" =>
              Staleness(result'[t].value) < TTL + 3 * MaxDelay]_vars

-----------------------------------------------------------------------------
(* What the documents say and the code does not do *)

\* llm_provider_config.py:3: a change of the row reaches all requests within
\* CACHE_TTL_SECONDS, so a call that begins later is not answered with the
\* provider the change has replaced.
ChangeReachesAllWithinTTL ==
    [][\A t \in Thread :
          Returning(t) /\ result'[t].source # "fallback" =>
              Validate(stored) = result'[t].value
              \/ begun[t] <= lastCurrent[result'[t].value] + TTL]_vars
=============================================================================
