----------------------- MODULE LLMProviderConfig_proofs -----------------------
(***************************************************************************)
(* LLMProviderConfig for any number of threads, any TTL and any duration   *)
(* of a call: its types, that a caller always gets a provider, and how     *)
(* stale that provider may be.                                             *)
(***************************************************************************)
EXTENDS LLMProviderConfig, TLAPS

USE TTLAssumption, CacheBoundsAssumption

\* Once a thread may read the cached value, there is one.
Filled ==
    /\ cachedAt # None => cachedValue \in ValidProviders
    /\ \A t \in Thread : pc[t] \in {"dated", "hit", "store_time"} => cachedValue \in ValidProviders
    /\ \A t \in Thread : pc[t] = "dated" => cachedAt # None

CacheInv == CacheTypeOK /\ Filled /\ AlwaysAProvider

LEMMA ValidateIsValid == ASSUME NEW value PROVE Validate(value) \in ValidProviders
  BY DEF Validate, ValidProviders, DefaultProvider

LEMMA CacheInvInit == Init => CacheInv
  BY DEF Init, CacheInv, CacheTypeOK, Filled, AlwaysAProvider, Stored, ValidProviders

\* What a call that returns leaves behind.
LEMMA ReturnTypes ==
    ASSUME CacheInv, NEW t \in Thread, NEW value \in ValidProviders, NEW source \in Source,
           Return(t, value, source)
    PROVE  /\ pc' \in [Thread -> {"idle", "dated", "hit", "query", "store_value", "store_time"}]
           /\ raw' \in [Thread -> Stored]
           /\ begun' \in [Thread -> 0 .. MaxTime]
           /\ result' \in [Thread -> [value : ValidProviders \cup {None}, source : Source] \cup {None}]
           /\ \A u \in Thread : pc'[u] # "idle" => pc'[u] = pc[u]
           /\ AlwaysAProvider'
<1>1. pc' \in [Thread -> {"idle", "dated", "hit", "query", "store_value", "store_time"}]
      /\ \A u \in Thread : pc'[u] # "idle" => pc'[u] = pc[u]
  BY DEF Return, Goto, CacheInv, CacheTypeOK
<1>2. raw' \in [Thread -> Stored]
  BY DEF Return, CacheInv, CacheTypeOK, Stored
<1>3. begun' \in [Thread -> 0 .. MaxTime]
  BY DEF Return, CacheInv, CacheTypeOK
<1>4. [value |-> value, source |-> source] \in [value : ValidProviders \cup {None}, source : Source]
  OBVIOUS
<1>5. result' \in [Thread -> [value : ValidProviders \cup {None}, source : Source] \cup {None}]
  BY <1>4 DEF Return, CacheInv, CacheTypeOK
<1>6. AlwaysAProvider'
  BY DEF Return, CacheInv, CacheTypeOK, AlwaysAProvider
<1> QED BY <1>1, <1>2, <1>3, <1>5, <1>6

LEMMA CacheInvStep == CacheInv /\ [Next]_vars => CacheInv'
<1> SUFFICES ASSUME CacheInv, [Next]_vars PROVE CacheInv'
  OBVIOUS
<1> USE DEF vars, rowVars, cacheVars, threadVars
<1>1. CASE Tick
  BY <1>1 DEF Tick, CacheInv, CacheTypeOK, Filled, AlwaysAProvider
<1>2. ASSUME NEW value \in Stored, UpdateRow(value) PROVE CacheInv'
  <2>1. lastCurrent' \in [ValidProviders -> Int] /\ updates' \in 0 .. MaxUpdates /\ stored' \in Stored
    <3>1. now \in Int
      BY DEF CacheInv, CacheTypeOK
    <3>2. lastCurrent' \in [ValidProviders -> Int]
      BY <1>2, <3>1 DEF UpdateRow, CacheInv, CacheTypeOK
    <3> QED BY <1>2, <3>2 DEF UpdateRow, CacheInv, CacheTypeOK
  <2> QED BY <1>2, <2>1 DEF UpdateRow, CacheInv, CacheTypeOK, Filled, AlwaysAProvider
<1>3. ASSUME NEW t \in Thread, Begin(t) PROVE CacheInv'
  <2>1. /\ pc' \in [Thread -> {"idle", "dated", "hit", "query", "store_value", "store_time"}]
        /\ pc'[t] = "dated" => cachedAt # None
        /\ pc'[t] \in {"dated", "query"} /\ \A u \in Thread : u # t => pc'[u] = pc[u]
    BY <1>3 DEF Begin, Goto, CacheInv, CacheTypeOK
  <2>2. begun' \in [Thread -> 0 .. MaxTime]
    BY <1>3 DEF Begin, CacheInv, CacheTypeOK
  <2> QED BY <1>3, <2>1, <2>2 DEF Begin, CacheInv, CacheTypeOK, Filled, AlwaysAProvider
<1>4. ASSUME NEW t \in Thread, CheckAge(t) PROVE CacheInv'
  <2>1. /\ pc' \in [Thread -> {"idle", "dated", "hit", "query", "store_value", "store_time"}]
        /\ pc'[t] \in {"hit", "query"} /\ \A u \in Thread : u # t => pc'[u] = pc[u]
    BY <1>4 DEF CheckAge, Goto, CacheInv, CacheTypeOK
  <2> QED BY <1>4, <2>1 DEF CheckAge, CacheInv, CacheTypeOK, Filled, AlwaysAProvider
<1>5. ASSUME NEW t \in Thread, Hit(t) PROVE CacheInv'
  <2>1. cachedValue \in ValidProviders
    BY <1>5 DEF Hit, CacheInv, Filled
  <2> QED BY <1>5, <2>1, ReturnTypes DEF Hit, CacheInv, CacheTypeOK, Filled, Source
<1>6. ASSUME NEW t \in Thread, Query(t) PROVE CacheInv'
  <2>1. /\ pc' \in [Thread -> {"idle", "dated", "hit", "query", "store_value", "store_time"}]
        /\ pc'[t] = "store_value" /\ \A u \in Thread : u # t => pc'[u] = pc[u]
    BY <1>6 DEF Query, Goto, CacheInv, CacheTypeOK
  <2>2. raw' \in [Thread -> Stored]
    BY <1>6 DEF Query, CacheInv, CacheTypeOK
  <2> QED BY <1>6, <2>1, <2>2 DEF Query, CacheInv, CacheTypeOK, Filled, AlwaysAProvider
<1>7. ASSUME NEW t \in Thread, StoreValue(t) PROVE CacheInv'
  <2>1. /\ pc' \in [Thread -> {"idle", "dated", "hit", "query", "store_value", "store_time"}]
        /\ pc'[t] = "store_time" /\ \A u \in Thread : u # t => pc'[u] = pc[u]
    BY <1>7 DEF StoreValue, Goto, CacheInv, CacheTypeOK
  <2>2. cachedValue' \in ValidProviders
    BY <1>7, ValidateIsValid DEF StoreValue
  <2> QED BY <1>7, <2>1, <2>2 DEF StoreValue, CacheInv, CacheTypeOK, Filled, AlwaysAProvider
<1>8. ASSUME NEW t \in Thread, StoreTime(t) PROVE CacheInv'
  <2>1. cachedValue \in ValidProviders
    BY <1>8 DEF StoreTime, CacheInv, Filled
  <2>2. Validate(raw[t]) \in ValidProviders
    BY ValidateIsValid
  <2>3. CacheTypeOK'
    BY <1>8, <2>2, ReturnTypes DEF StoreTime, CacheInv, CacheTypeOK, Source
  <2>4. \A u \in Thread : pc'[u] # "idle" => pc'[u] = pc[u]
    BY <1>8, <2>2, ReturnTypes DEF StoreTime, Source
  <2>5. AlwaysAProvider'
    BY <1>8, <2>2, ReturnTypes DEF StoreTime, Source
  <2>6. cachedAt' = now /\ cachedValue' = cachedValue /\ now # None
    BY <1>8, NoneAssumption DEF StoreTime, CacheInv, CacheTypeOK
  <2>7. Filled'
    BY <2>1, <2>4, <2>6 DEF CacheInv, Filled
  <2> QED BY <2>3, <2>5, <2>7 DEF CacheInv
<1>9. ASSUME NEW t \in Thread, QueryFails(t) PROVE CacheInv'
  <2>1. (IF cachedValue # None THEN cachedValue ELSE DefaultProvider) \in ValidProviders
    BY DEF CacheInv, CacheTypeOK, ValidProviders, DefaultProvider
  <2> QED BY <1>9, <2>1, ReturnTypes DEF QueryFails, CacheInv, CacheTypeOK, Filled, Source
<1>10. CASE UNCHANGED vars
  BY <1>10 DEF CacheInv, CacheTypeOK, Filled, AlwaysAProvider
<1> QED BY <1>1, <1>2, <1>3, <1>4, <1>5, <1>6, <1>7, <1>8, <1>9, <1>10 DEF Next

\* Every variable keeps its type; above all, the cache never holds anything but
\* a provider.
THEOREM CacheTypeCorrect == Spec => []CacheTypeOK
<1>1. CacheInv => CacheTypeOK
  BY DEF CacheInv
<1> QED BY CacheInvInit, CacheInvStep, <1>1, PTL DEF Spec

\* get() never returns anything but a provider that exists.
THEOREM ProviderAlways == Spec => []AlwaysAProvider
<1>1. CacheInv => AlwaysAProvider
  BY DEF CacheInv
<1> QED BY CacheInvInit, CacheInvStep, <1>1, PTL DEF Spec

-----------------------------------------------------------------------------
(* How stale an answer may be: AskedSince bounds from below when the row    *)
(* last asked for what the cache holds, in terms of who may still serve it. *)

\* The row asks for provider v, or did so at time s or later.
AskedSince(v, s) == Validate(stored) = v \/ lastCurrent[v] >= s

Running(t) == pc[t] # "idle"

\* No call lasts longer than MaxDelay.
CallsAreShort == \A t \in Thread : Running(t) => begun[t] <= now /\ now <= begun[t] + MaxDelay
\* Dates are not in the future.
DatesArePast == cachedAt # None => cachedAt <= now
\* What a thread has read was asked for during its call.
ReadsAreRecent ==
    \A t \in Thread : pc[t] \in {"store_value", "store_time"} => AskedSince(Validate(raw[t]), begun[t])
\* A thread about to date the cached value has stored one itself; what another
\* thread put in its place was read in a call at most MaxDelay older.
UndatedIsRecent ==
    \A t \in Thread : pc[t] = "store_time" => AskedSince(cachedValue, begun[t] - MaxDelay)
DatedIsRecent == cachedAt # None => AskedSince(cachedValue, cachedAt - 2 * MaxDelay)
\* What a thread is about to serve was dated less than TTL before it looked.
ServedIsRecent ==
    \A t \in Thread : pc[t] = "hit" => AskedSince(cachedValue, begun[t] - TTL - 2 * MaxDelay + 1)

AgeInv ==
    /\ CacheInv
    /\ CallsAreShort
    /\ DatesArePast
    /\ ReadsAreRecent
    /\ UndatedIsRecent
    /\ DatedIsRecent
    /\ ServedIsRecent

LEMMA AgeInvInit == Init => AgeInv
  BY CacheInvInit DEF Init, AgeInv, CallsAreShort, DatesArePast, ReadsAreRecent, UndatedIsRecent,
                      DatedIsRecent, ServedIsRecent, Running

\* What was asked for since s stays so when the row is changed.
LEMMA AskedSinceStays ==
    ASSUME CacheInv, NEW value \in Stored, UpdateRow(value), NEW v \in ValidProviders,
           NEW s \in Int, s <= now, AskedSince(v, s)
    PROVE  AskedSince(v, s)'
<1>1. now \in Int /\ lastCurrent \in [ValidProviders -> Int]
  BY DEF CacheInv, CacheTypeOK
<1>2. lastCurrent'[v] = IF v = Validate(stored) THEN now ELSE lastCurrent[v]
  BY <1>1 DEF UpdateRow
<1> QED BY <1>1, <1>2 DEF AskedSince

LEMMA AskedSinceEarlier ==
    ASSUME CacheInv, NEW v \in ValidProviders, NEW s \in Int, NEW r \in Int, r <= s, AskedSince(v, s)
    PROVE  AskedSince(v, r)
  BY DEF AskedSince, CacheInv, CacheTypeOK

\* Nothing but a change of the row has a say in what it asked for.
LEMMA AskedSinceUnchanged ==
    ASSUME UNCHANGED <<stored, lastCurrent>>, NEW v, NEW s
    PROVE  AskedSince(v, s)' <=> AskedSince(v, s)
  BY DEF AskedSince

LEMMA AgeTypes ==
    ASSUME AgeInv
    PROVE  /\ now \in Nat /\ begun \in [Thread -> Nat] /\ cachedAt \in Nat \cup {None}
           /\ \A t \in Thread : Validate(raw[t]) \in ValidProviders
           /\ \A t \in Thread : pc[t] \in {"dated", "hit", "store_time"} => cachedValue \in ValidProviders
           /\ cachedAt # None => cachedValue \in ValidProviders
  BY ValidateIsValid DEF AgeInv, CacheInv, CacheTypeOK, Filled

LEMMA UpdateKeepsAgeInv ==
    ASSUME AgeInv, CacheInv', NEW value \in Stored, UpdateRow(value)
    PROVE  AgeInv'
<1> USE DEF cacheVars, threadVars
<1>1. UNCHANGED <<now, cachedValue, cachedAt, pc, raw, begun, result>>
  BY DEF UpdateRow
<1>2. \A v \in ValidProviders, s \in Int : s <= now /\ AskedSince(v, s)
                                           => Validate(stored)' = v \/ lastCurrent'[v] >= s
  BY AskedSinceStays DEF AgeInv, AskedSince
<1>3. CallsAreShort' /\ DatesArePast'
  BY <1>1 DEF AgeInv, CallsAreShort, DatesArePast, Running
<1>4. ReadsAreRecent'
  <2> SUFFICES ASSUME NEW t \in Thread, pc[t] \in {"store_value", "store_time"}
               PROVE  AskedSince(Validate(raw[t]), begun[t])'
    BY <1>1 DEF ReadsAreRecent
  <2>1. begun[t] \in Int /\ begun[t] <= now
    BY AgeTypes DEF AgeInv, CallsAreShort, Running
  <2>2. AskedSince(Validate(raw[t]), begun[t])
    BY DEF AgeInv, ReadsAreRecent
  <2>3. Validate(raw'[t]) = Validate(raw[t]) /\ begun'[t] = begun[t]
    BY <1>1
  <2> QED BY <1>2, <2>1, <2>2, <2>3, AgeTypes DEF AskedSince
<1>5. UndatedIsRecent'
  <2> SUFFICES ASSUME NEW t \in Thread, pc[t] = "store_time"
               PROVE  AskedSince(cachedValue, begun[t] - MaxDelay)'
    BY <1>1 DEF UndatedIsRecent
  <2>1. begun[t] - MaxDelay \in Int /\ begun[t] - MaxDelay <= now /\ cachedValue \in ValidProviders
    BY AgeTypes DEF AgeInv, CallsAreShort, Running
  <2>2. AskedSince(cachedValue, begun[t] - MaxDelay)
    BY DEF AgeInv, UndatedIsRecent
  <2> QED BY <1>1, <1>2, <2>1, <2>2 DEF AskedSince
<1>6. DatedIsRecent'
  <2> SUFFICES ASSUME cachedAt # None
               PROVE  AskedSince(cachedValue, cachedAt - 2 * MaxDelay)'
    BY <1>1 DEF DatedIsRecent
  <2>1. cachedAt - 2 * MaxDelay \in Int /\ cachedAt - 2 * MaxDelay <= now /\ cachedValue \in ValidProviders
    BY AgeTypes DEF AgeInv, DatesArePast
  <2>2. AskedSince(cachedValue, cachedAt - 2 * MaxDelay)
    BY DEF AgeInv, DatedIsRecent
  <2> QED BY <1>1, <1>2, <2>1, <2>2 DEF AskedSince
<1>7. ServedIsRecent'
  <2> SUFFICES ASSUME NEW t \in Thread, pc[t] = "hit"
               PROVE  AskedSince(cachedValue, begun[t] - TTL - 2 * MaxDelay + 1)'
    BY <1>1 DEF ServedIsRecent
  <2> DEFINE s == begun[t] - TTL - 2 * MaxDelay + 1
  <2>1. s \in Int /\ s <= now /\ cachedValue \in ValidProviders
    BY AgeTypes DEF AgeInv, CallsAreShort, Running
  <2>2. AskedSince(cachedValue, s)
    BY DEF AgeInv, ServedIsRecent
  <2> QED BY <1>1, <1>2, <2>1, <2>2 DEF AskedSince
<1> QED BY <1>3, <1>4, <1>5, <1>6, <1>7 DEF AgeInv

\* Steps of get() that leave the cache alone: thread t moves, or returns.
LEMMA ReadingKeepsAgeInv ==
    ASSUME AgeInv, CacheInv', NEW t \in Thread, UNCHANGED <<now, stored, lastCurrent, cachedValue, cachedAt>>,
           \A u \in Thread \ {t} : pc'[u] = pc[u] /\ raw'[u] = raw[u] /\ begun'[u] = begun[u],
           pc'[t] # "store_time",
           pc'[t] # "idle" => begun'[t] <= now /\ now <= begun'[t] + MaxDelay,
           pc'[t] = "store_value" => AskedSince(Validate(raw'[t]), begun'[t]),
           pc'[t] = "hit" => AskedSince(cachedValue, begun'[t] - TTL - 2 * MaxDelay + 1)
    PROVE  AgeInv'
<1>1. \A v, s : (Validate(stored)' = v \/ lastCurrent'[v] >= s) <=> AskedSince(v, s)
  BY DEF AskedSince
<1>2. CallsAreShort' /\ DatesArePast'
  BY DEF AgeInv, CallsAreShort, DatesArePast, Running
<1>3. ReadsAreRecent'
  <2> SUFFICES ASSUME NEW u \in Thread, pc'[u] \in {"store_value", "store_time"}
               PROVE  AskedSince(Validate(raw'[u]), begun'[u])
    BY <1>1 DEF ReadsAreRecent, AskedSince
  <2>1. CASE u = t
    BY <2>1
  <2>2. CASE u # t
    <3>1. pc'[u] = pc[u] /\ raw'[u] = raw[u] /\ begun'[u] = begun[u]
      BY <2>2
    <3>2. AskedSince(Validate(raw[u]), begun[u])
      BY <3>1 DEF AgeInv, ReadsAreRecent
    <3> QED BY <3>1, <3>2
  <2> QED BY <2>1, <2>2
<1>4. UndatedIsRecent'
  <2> SUFFICES ASSUME NEW u \in Thread, pc'[u] = "store_time"
               PROVE  AskedSince(cachedValue, begun'[u] - MaxDelay)
    BY <1>1 DEF UndatedIsRecent, AskedSince
  <2>1. pc'[u] = pc[u] /\ begun'[u] = begun[u]
    OBVIOUS
  <2> QED BY <2>1 DEF AgeInv, UndatedIsRecent
<1>5. DatedIsRecent'
  BY <1>1 DEF AgeInv, DatedIsRecent, AskedSince
<1>6. ServedIsRecent'
  <2> SUFFICES ASSUME NEW u \in Thread, pc'[u] = "hit"
               PROVE  AskedSince(cachedValue, begun'[u] - TTL - 2 * MaxDelay + 1)
    BY <1>1 DEF ServedIsRecent, AskedSince
  <2>1. CASE u = t
    BY <2>1
  <2>2. CASE u # t
    <3>1. pc'[u] = pc[u] /\ begun'[u] = begun[u]
      BY <2>2
    <3> QED BY <3>1 DEF AgeInv, ServedIsRecent
  <2> QED BY <2>1, <2>2
<1> QED BY <1>2, <1>3, <1>4, <1>5, <1>6 DEF AgeInv

LEMMA StoringValueKeepsAgeInv ==
    ASSUME AgeInv, CacheInv', NEW t \in Thread, StoreValue(t)
    PROVE  AgeInv'
<1>0. UNCHANGED <<now, stored, lastCurrent, cachedAt, raw, begun>> /\ pc[t] = "store_value"
  BY DEF StoreValue, rowVars
<1>1. pc'[t] = "store_time" /\ \A u \in Thread \ {t} : pc'[u] = pc[u]
  BY DEF StoreValue, Goto, AgeInv, CacheInv, CacheTypeOK
<1>2. cachedValue' = Validate(raw[t]) /\ Validate(raw[t]) \in ValidProviders
  BY ValidateIsValid DEF StoreValue
<1>3. begun[t] \in Nat /\ begun[t] <= now /\ now <= begun[t] + MaxDelay /\ now \in Nat
  BY <1>0, AgeTypes DEF AgeInv, CallsAreShort, Running
<1>4. CallsAreShort' /\ DatesArePast'
  BY <1>0, <1>1 DEF AgeInv, CallsAreShort, DatesArePast, Running
<1>5. AskedSince(Validate(raw[t]), begun[t])
  BY <1>0 DEF AgeInv, ReadsAreRecent
\* What this thread stores was asked for at now - MaxDelay or later.
<1>6. \A s \in Int : s <= begun[t] => Validate(stored)' = cachedValue' \/ lastCurrent'[cachedValue'] >= s
  BY <1>0, <1>2, <1>3, <1>5, AskedSinceEarlier DEF AskedSince, AgeInv
<1>7. ReadsAreRecent'
  BY <1>0, <1>1 DEF AgeInv, ReadsAreRecent, AskedSince
<1>8. UndatedIsRecent'
  <2> SUFFICES ASSUME NEW u \in Thread, pc'[u] = "store_time"
               PROVE  begun[u] - MaxDelay \in Int /\ begun[u] - MaxDelay <= begun[t]
    BY <1>0, <1>6 DEF UndatedIsRecent, AskedSince
  <2>1. begun[u] \in Nat /\ begun[u] <= now
    BY <1>0, <1>1, AgeTypes DEF AgeInv, CallsAreShort, Running
  <2> QED BY <1>3, <2>1
<1>9. DatedIsRecent'
  <2> SUFFICES ASSUME cachedAt # None
               PROVE  cachedAt - 2 * MaxDelay \in Int /\ cachedAt - 2 * MaxDelay <= begun[t]
    BY <1>0, <1>6 DEF DatedIsRecent, AskedSince
  <2> QED BY <1>3, AgeTypes DEF AgeInv, DatesArePast
<1>10. ServedIsRecent'
  <2> SUFFICES ASSUME NEW u \in Thread, pc'[u] = "hit"
               PROVE  begun[u] - TTL - 2 * MaxDelay + 1 \in Int
                      /\ begun[u] - TTL - 2 * MaxDelay + 1 <= begun[t]
    BY <1>0, <1>6 DEF ServedIsRecent, AskedSince
  <2>1. begun[u] \in Nat /\ begun[u] <= now
    BY <1>0, <1>1, AgeTypes DEF AgeInv, CallsAreShort, Running
  <2>2. TTL \in Nat /\ TTL >= 1 /\ MaxDelay \in Nat
    OBVIOUS
  <2>3. begun[u] - 2 * MaxDelay <= begun[t] - MaxDelay
    BY <1>3, <2>1, <2>2
  <2> QED BY <1>3, <2>1, <2>2, <2>3
<1> QED BY <1>4, <1>7, <1>8, <1>9, <1>10 DEF AgeInv

LEMMA StoringTimeKeepsAgeInv ==
    ASSUME AgeInv, CacheInv', NEW t \in Thread, StoreTime(t)
    PROVE  AgeInv'
<1>0. UNCHANGED <<now, stored, lastCurrent, cachedValue>> /\ cachedAt' = now /\ pc[t] = "store_time"
  BY DEF StoreTime, rowVars
<1>1. pc'[t] = "idle" /\ \A u \in Thread \ {t} : pc'[u] = pc[u] /\ raw'[u] = raw[u] /\ begun'[u] = begun[u]
  BY DEF StoreTime, Return, Goto, AgeInv, CacheInv, CacheTypeOK
<1>2. \A v, s : (Validate(stored)' = v \/ lastCurrent'[v] >= s) <=> AskedSince(v, s)
  BY <1>0 DEF AskedSince
<1>3. begun[t] \in Nat /\ begun[t] <= now /\ now <= begun[t] + MaxDelay /\ now \in Nat
  BY <1>0, AgeTypes DEF AgeInv, CallsAreShort, Running
<1>4. CallsAreShort' /\ DatesArePast'
  BY <1>0, <1>1, <1>3 DEF AgeInv, CallsAreShort, DatesArePast, Running
<1>5. ReadsAreRecent'
  <2> SUFFICES ASSUME NEW u \in Thread, pc'[u] \in {"store_value", "store_time"}
               PROVE  AskedSince(Validate(raw'[u]), begun'[u])
    BY <1>2 DEF ReadsAreRecent, AskedSince
  <2>1. pc'[u] = pc[u] /\ raw'[u] = raw[u] /\ begun'[u] = begun[u]
    BY <1>1
  <2>2. AskedSince(Validate(raw[u]), begun[u])
    BY <2>1 DEF AgeInv, ReadsAreRecent
  <2> QED BY <2>1, <2>2
<1>6. UndatedIsRecent' /\ ServedIsRecent'
  BY <1>0, <1>1 DEF AgeInv, UndatedIsRecent, ServedIsRecent, AskedSince
<1>7. DatedIsRecent'
  <2>1. AskedSince(cachedValue, begun[t] - MaxDelay) /\ cachedValue \in ValidProviders
    BY <1>0, AgeTypes DEF AgeInv, UndatedIsRecent
  <2>2. AskedSince(cachedValue, now - 2 * MaxDelay)
    BY <1>3, <2>1, AskedSinceEarlier DEF AgeInv
  <2> QED BY <1>0, <1>2, <2>2 DEF DatedIsRecent, AskedSince
<1> QED BY <1>4, <1>5, <1>6, <1>7 DEF AgeInv

LEMMA AgeInvStep == AgeInv /\ [Next]_vars => AgeInv'
<1> SUFFICES ASSUME AgeInv, [Next]_vars PROVE AgeInv'
  OBVIOUS
<1> USE DEF vars, rowVars, cacheVars, threadVars
<1>0. CacheInv'
  BY CacheInvStep DEF AgeInv
<1>1. CASE Tick
  <2>1. CallsAreShort' /\ DatesArePast'
    BY <1>1, AgeTypes DEF Tick, AgeInv, CallsAreShort, DatesArePast, Running
  <2> QED BY <1>0, <1>1, <2>1 DEF Tick, AgeInv, ReadsAreRecent, UndatedIsRecent, DatedIsRecent,
                                   ServedIsRecent, AskedSince
<1>2. ASSUME NEW value \in Stored, UpdateRow(value) PROVE AgeInv'
  BY <1>0, <1>2, UpdateKeepsAgeInv
<1>3. ASSUME NEW t \in Thread, Begin(t) PROVE AgeInv'
  <2>1. pc'[t] \in {"dated", "query"} /\ begun'[t] = now
    BY <1>3 DEF Begin, Goto, AgeInv, CacheInv, CacheTypeOK
  <2>2. \A u \in Thread \ {t} : pc'[u] = pc[u] /\ raw'[u] = raw[u] /\ begun'[u] = begun[u]
    BY <1>3 DEF Begin, Goto, AgeInv, CacheInv, CacheTypeOK
  <2> QED BY <1>0, <1>3, <2>1, <2>2, AgeTypes, ReadingKeepsAgeInv DEF Begin
<1>4. ASSUME NEW t \in Thread, CheckAge(t) PROVE AgeInv'
  <2>1. \A u \in Thread \ {t} : pc'[u] = pc[u]
    BY <1>4 DEF CheckAge, Goto, AgeInv, CacheInv, CacheTypeOK
  <2>2. UNCHANGED <<now, stored, lastCurrent, cachedValue, cachedAt, raw, begun>> /\ pc[t] = "dated"
    BY <1>4 DEF CheckAge
  <2>3. pc'[t] = IF Fresh(cachedAt) THEN "hit" ELSE "query"
    BY <1>4 DEF CheckAge, Goto, AgeInv, CacheInv, CacheTypeOK
  <2>4. begun[t] \in Nat /\ begun[t] <= now /\ now <= begun[t] + MaxDelay /\ now \in Nat
    BY <2>2, AgeTypes DEF AgeInv, CallsAreShort, Running
  <2>5. cachedAt \in Nat /\ cachedValue \in ValidProviders /\ AskedSince(cachedValue, cachedAt - 2 * MaxDelay)
    BY <2>2, AgeTypes DEF AgeInv, CacheInv, Filled, DatedIsRecent
  <2>6. Fresh(cachedAt) => AskedSince(cachedValue, begun[t] - TTL - 2 * MaxDelay + 1)
    BY <2>4, <2>5, AskedSinceEarlier DEF Fresh, AgeInv
  <2> QED BY <1>0, <2>1, <2>2, <2>3, <2>4, <2>6, ReadingKeepsAgeInv
<1>5. ASSUME NEW t \in Thread, NEW value, NEW source, Return(t, value, source),
             UNCHANGED <<now, rowVars, cacheVars>>
      PROVE  AgeInv'
  <2>1. pc'[t] = "idle"
        /\ \A u \in Thread \ {t} : pc'[u] = pc[u] /\ raw'[u] = raw[u] /\ begun'[u] = begun[u]
    BY <1>5 DEF Return, Goto, AgeInv, CacheInv, CacheTypeOK
  <2> QED BY <1>0, <1>5, <2>1, ReadingKeepsAgeInv
<1>6. ASSUME NEW t \in Thread, Query(t) PROVE AgeInv'
  <2>1. UNCHANGED <<now, stored, lastCurrent, cachedValue, cachedAt, begun>> /\ pc[t] = "query"
    BY <1>6 DEF Query
  <2>2. pc'[t] = "store_value" /\ raw'[t] = stored
        /\ \A u \in Thread \ {t} : pc'[u] = pc[u] /\ raw'[u] = raw[u]
    BY <1>6 DEF Query, Goto, AgeInv, CacheInv, CacheTypeOK
  <2>3. begun[t] <= now /\ now <= begun[t] + MaxDelay
    BY <2>1 DEF AgeInv, CallsAreShort, Running
  <2>4. AskedSince(Validate(raw'[t]), begun[t])
    BY <2>2 DEF AskedSince
  <2> QED BY <1>0, <2>1, <2>2, <2>3, <2>4, ReadingKeepsAgeInv
<1>7. ASSUME NEW t \in Thread, StoreValue(t) PROVE AgeInv'
  BY <1>0, <1>7, StoringValueKeepsAgeInv
<1>8. ASSUME NEW t \in Thread, StoreTime(t) PROVE AgeInv'
  BY <1>0, <1>8, StoringTimeKeepsAgeInv
<1>9. ASSUME NEW t \in Thread, Hit(t) \/ QueryFails(t) PROVE AgeInv'
  BY <1>5, <1>9 DEF Hit, QueryFails
<1>10. CASE UNCHANGED vars
  BY <1>0, <1>10 DEF AgeInv, CallsAreShort, DatesArePast, ReadsAreRecent, UndatedIsRecent,
                     DatedIsRecent, ServedIsRecent, AskedSince, Running
<1> QED BY <1>1, <1>2, <1>3, <1>4, <1>6, <1>7, <1>8, <1>9, <1>10 DEF Next

\* Whatever interleaves, no answer that comes from the cache or the table is a
\* provider the row stopped asking for TTL + 3 * MaxDelay ago or earlier.
THEOREM StalenessIsBounded == Spec => StalenessBounded
<1>1. ASSUME AgeInv, [Next]_vars, NEW t \in Thread, Returning(t), result'[t].source # "fallback"
      PROVE  Staleness(result'[t].value) < TTL + 3 * MaxDelay
  <2>1. now \in Nat /\ begun[t] \in Nat /\ now <= begun[t] + MaxDelay
    BY <1>1, AgeTypes DEF Returning, AgeInv, CallsAreShort, Running
  <2>2. Hit(t) \/ StoreTime(t) \/ QueryFails(t)
    BY <1>1 DEF Returning, Next, vars, threadVars, Tick, UpdateRow, Begin, CheckAge, Hit, Query,
                StoreValue, StoreTime, QueryFails, Return, Goto, AgeInv, CacheInv, CacheTypeOK
  <2>3. ~QueryFails(t)
    BY <1>1 DEF QueryFails, Return, AgeInv, CacheInv, CacheTypeOK
  <2>4. CASE Hit(t)
    <3>0. result' = [result EXCEPT ![t] = [value |-> cachedValue, source |-> "cache"]] /\ pc[t] = "hit"
      BY <2>4 DEF Hit, Return
    <3>1. result'[t].value = cachedValue
      BY <1>1, <3>0 DEF AgeInv, CacheInv, CacheTypeOK
    <3>2. AskedSince(cachedValue, begun[t] - TTL - 2 * MaxDelay + 1) /\ cachedValue \in ValidProviders
      BY <1>1, <3>0, AgeTypes DEF AgeInv, ServedIsRecent
    <3>3. lastCurrent[cachedValue] \in Int
      BY <1>1, <3>2 DEF AgeInv, CacheInv, CacheTypeOK
    <3> QED BY <2>1, <3>1, <3>2, <3>3 DEF AskedSince, Staleness
  <2>5. CASE StoreTime(t)
    <3>1. result'[t].value = Validate(raw[t]) /\ pc[t] = "store_time"
      BY <1>1, <2>5 DEF StoreTime, Return, AgeInv, CacheInv, CacheTypeOK
    <3>2. AskedSince(Validate(raw[t]), begun[t]) /\ Validate(raw[t]) \in ValidProviders
      BY <1>1, <3>1, AgeTypes DEF AgeInv, ReadsAreRecent
    <3>3. lastCurrent[Validate(raw[t])] \in Int
      BY <1>1, <3>2 DEF AgeInv, CacheInv, CacheTypeOK
    <3> QED BY <2>1, <3>1, <3>2, <3>3 DEF AskedSince, Staleness
  <2> QED BY <2>2, <2>3, <2>4, <2>5
<1>2. AgeInv /\ [Next]_vars => [\A t \in Thread :
          Returning(t) /\ result'[t].source # "fallback" =>
              Staleness(result'[t].value) < TTL + 3 * MaxDelay]_vars
  BY <1>1
<1> QED BY AgeInvInit, AgeInvStep, <1>2, PTL DEF Spec, StalenessBounded
=============================================================================
