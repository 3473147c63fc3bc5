------------------------- MODULE RequestServing_proofs ------------------------
(***************************************************************************)
(* RequestServing for any number of slots and threads and any pool: types, *)
(* connections that never exceed the pool, answers that are explained.     *)
(* Liveness (RequestsEnd, ReadinessRecovers) is left to TLC.               *)
(***************************************************************************)
EXTENDS RequestServing, FiniteSetTheorems, TLAPS

Slots == [pc : {"idle", "queued", "running", "returned", "closing"},
          handler : DOMAIN Script \cup {None},
          pos : 1 .. 8,
          conn : Conn \cup {None},
          answer : {None, "200", "4xx", "500", "503"},
          troubled : BOOLEAN, sawUp : BOOLEAN]

\* What is true of a slot, while the database is up or not.
Sound(q, up) ==
    /\ q.pc # "idle" => q.handler \in DOMAIN Script
    /\ q.conn # None => q.pc \in {"running", "returned", "closing"}
    /\ q.pc # "idle" /\ ~up => q.troubled
    /\ q.conn = "stale" => q.troubled
    /\ q.answer \in {"500", "503"} => q.troubled
    /\ q.pc # "idle" /\ up => q.sawUp
    /\ q.conn = "live" => q.sawUp
    /\ q.handler = "readyz" /\ (q.pos > 1 \/ q.answer = "200") => q.sawUp

Waiting == idle["live"] + idle["stale"]
Held == Cardinality(Holding)

Pooled ==
    /\ idle \in [Conn -> Nat]
    /\ Waiting <= PoolSize
    /\ iam => Waiting = 0
    /\ ~iam => Held + Waiting <= PoolLimit

ServingInv ==
    /\ iam \in BOOLEAN /\ dbUp \in BOOLEAN
    /\ outages \in 0 .. MaxOutages /\ faults \in 0 .. MaxFaults
    /\ req \in [Request -> Slots]
    /\ \A r \in Request : Sound(req[r], dbUp)
    /\ Pooled

LEMMA Scripts ==
    /\ \A h \in DOMAIN Script : Len(Script[h]) \in 1 .. 7
    /\ Script["readyz"] = <<"sql">>
<1>1. DOMAIN Script = {"readyz", "read", "summary", "create", "approve"}
  BY DEF Script
<1>2. /\ Script["readyz"] = <<"sql">> /\ Script["read"] = <<"sql">>
      /\ Script["summary"] = <<"sql", "call">> /\ Script["create"] = <<"sql", "commit", "sql">>
      /\ Script["approve"] = <<"sql", "commit", "sql", "call", "sql", "commit", "sql">>
  BY DEF Script
<1>3. /\ Len(Script["readyz"]) = 1 /\ Len(Script["read"]) = 1 /\ Len(Script["summary"]) = 2
      /\ Len(Script["create"]) = 3 /\ Len(Script["approve"]) = 7
  BY <1>2
<1>4. ASSUME NEW h \in DOMAIN Script PROVE Len(Script[h]) \in 1 .. 7
  BY <1>1, <1>3
<1> QED BY <1>2, <1>4

LEMMA SlotIsSlot ==
    ASSUME NEW step \in {"idle", "queued"}, NEW h \in DOMAIN Script \cup {None},
           NEW down \in BOOLEAN, NEW up \in BOOLEAN
    PROVE  LET q == Slot(step, h, down, up)
           IN  /\ q \in Slots /\ q.pc = step /\ q.handler = h /\ q.pos = 1 /\ q.conn = None
               /\ q.answer = None /\ q.troubled = down /\ q.sawUp = up
<1> DEFINE S == DOMAIN Script
<1>1. h \in S \cup {None}
  OBVIOUS
<1> HIDE DEF S
<1>2. Slot(step, h, down, up) \in
        [pc : {"idle", "queued", "running", "returned", "closing"}, handler : S \cup {None}, pos : 1 .. 8,
         conn : Conn \cup {None}, answer : {None, "200", "4xx", "500", "503"},
         troubled : BOOLEAN, sawUp : BOOLEAN]
  BY <1>1 DEF Slot
<1> QED BY <1>2 DEF Slot, Slots, S

LEMMA HeldIsFinite == IsFiniteSet(Holding) /\ Held \in Nat
<1>1. Holding \subseteq Request /\ IsFiniteSet(Request)
  BY EngineAssumption DEF Holding
<1> QED BY <1>1, FS_Subset, FS_CardinalityType DEF Held

\* One slot changes, and with it what is held.
LEMMA SlotStep ==
    ASSUME ServingInv, NEW r \in Request, NEW q \in Slots, req' = [req EXCEPT ![r] = q],
           Sound(q, dbUp), UNCHANGED <<iam, dbUp>>
    PROVE  /\ req' \in [Request -> Slots]
           /\ \A s \in Request : Sound(req'[s], dbUp')
           /\ (q.conn = None <=> req[r].conn = None) => Held' = Held
           /\ q.conn # None /\ req[r].conn = None => Held' = Held + 1
           /\ q.conn = None /\ req[r].conn # None => Held' = Held - 1
<1>1. req' \in [Request -> Slots] /\ req'[r] = q /\ \A s \in Request \ {r} : req'[s] = req[s]
  BY DEF ServingInv
<1>2. ASSUME NEW s \in Request PROVE Sound(req'[s], dbUp')
  <2>1. CASE s = r
    BY <1>1, <2>1
  <2>2. CASE s # r
    BY <1>1, <2>2 DEF ServingInv
  <2> QED BY <2>1, <2>2
<1>3. r \in Holding <=> req[r].conn # None
  BY DEF Holding
<1>4. CASE q.conn = None <=> req[r].conn = None
  <2>1. Holding' = Holding
    BY <1>1, <1>4 DEF Holding
  <2> QED BY <1>1, <1>2, <1>4, <2>1 DEF Held
<1>5. CASE q.conn # None /\ req[r].conn = None
  <2>1. Holding' = Holding \cup {r}
    BY <1>1, <1>5 DEF Holding
  <2>2. Held' = Held + 1
    BY <1>3, <1>5, <2>1, HeldIsFinite, FS_AddElement DEF Held
  <2> QED BY <1>1, <1>2, <1>5, <2>2
<1>6. CASE q.conn = None /\ req[r].conn # None
  <2>1. Holding' = Holding \ {r}
    BY <1>1, <1>6 DEF Holding
  <2>2. Held' = Held - 1
    BY <1>3, <1>6, <2>1, HeldIsFinite, FS_RemoveElement DEF Held
  <2> QED BY <1>1, <1>2, <1>6, <2>2
<1> QED BY <1>4, <1>5, <1>6

\* A slot changes that keeps its connection, or has none before and after.
LEMMA KeepingStep ==
    ASSUME ServingInv, NEW r \in Request, NEW q \in Slots, req' = [req EXCEPT ![r] = q],
           Sound(q, dbUp), q.conn = req[r].conn,
           UNCHANGED <<iam, dbUp, idle, outages>>, faults' \in 0 .. MaxFaults
    PROVE  ServingInv'
<1>1. Held' = Held /\ Waiting' = Waiting
  BY SlotStep DEF Waiting
<1>2. Pooled'
  BY <1>1 DEF ServingInv, Pooled, PoolLimit
<1> QED BY <1>2, SlotStep DEF ServingInv

LEMMA ServingInvInit == Init => ServingInv
<1> SUFFICES ASSUME Init PROVE ServingInv
  OBVIOUS
<1>1. NoRequest \in Slots /\ NoRequest.conn = None /\ NoRequest.pc = "idle" /\ NoRequest.answer = None
      /\ NoRequest.pos = 1
  BY SlotIsSlot DEF NoRequest
<1>2. req \in [Request -> Slots]
  BY <1>1 DEF Init
<1>3. \A r \in Request : Sound(req[r], dbUp)
  BY <1>1, NoneAssumption DEF Init, Sound
<1>4. Holding = {}
  BY <1>1 DEF Init, Holding
<1>5. Held = 0
  BY <1>4, FS_EmptySet DEF Held
<1>6. idle \in [Conn -> Nat] /\ Waiting = 0
  BY DEF Init, Waiting, Conn
<1>7. Pooled
  BY <1>5, <1>6, EngineAssumption DEF Pooled, PoolLimit
<1>8. outages \in 0 .. MaxOutages /\ faults \in 0 .. MaxFaults /\ iam \in BOOLEAN /\ dbUp \in BOOLEAN
  BY EngineAssumption DEF Init
<1> QED BY <1>2, <1>3, <1>7, <1>8 DEF ServingInv

-----------------------------------------------------------------------------
(* Steps that keep the slot's connection *)

LEMMA BeginKeeps ==
    ASSUME ServingInv, NEW r \in Request, NEW h \in Served, Begin(r, h) PROVE ServingInv'
<1>1. PICK down \in BOOLEAN, up \in BOOLEAN : down = ~dbUp /\ up = dbUp
  BY DEF ServingInv
<1> DEFINE q == Slot("queued", h, down, up)
<1>2. h \in DOMAIN Script
  BY HandlersAssumption
<1>3. /\ q \in Slots /\ q.pc = "queued" /\ q.handler = h /\ q.pos = 1 /\ q.conn = None
      /\ q.answer = None /\ q.troubled = down /\ q.sawUp = up
  BY <1>2, SlotIsSlot
<1>4. req[r].conn = None
  BY DEF Begin, ServingInv, Sound
<1>5. Sound(q, dbUp)
  <2>1. ~(1 > 1)
    OBVIOUS
  <2>2. (q.troubled <=> ~dbUp) /\ (q.sawUp <=> dbUp)
    BY <1>1, <1>3
  <2> HIDE DEF q
  <2> QED BY <1>2, <1>3, <2>1, <2>2, NoneAssumption DEF Sound
<1>6. req' = [req EXCEPT ![r] = q] /\ UNCHANGED <<iam, dbUp, idle, outages, faults>>
  BY <1>1 DEF Begin
<1> HIDE DEF q
<1> QED BY <1>3, <1>4, <1>5, <1>6, KeepingStep DEF ServingInv

\* The slot moves to another step without an answer.
LEMMA MovingKeeps ==
    ASSUME ServingInv, NEW r \in Request, NEW p \in {"running", "closing"},
           req[r].pc \in {"queued", "returned"}, req[r].pc = "returned" => p = "closing",
           req[r].pc = "queued" => p = "running",
           req' = [req EXCEPT ![r].pc = p], UNCHANGED <<iam, dbUp, idle, outages, faults>>
    PROVE  ServingInv'
<1> DEFINE q == [req[r] EXCEPT !.pc = p]
<1>1. req[r] \in Slots /\ Sound(req[r], dbUp)
  BY DEF ServingInv
<1>2. /\ q \in Slots /\ q.pc = p /\ q.handler = req[r].handler /\ q.pos = req[r].pos
      /\ q.conn = req[r].conn /\ q.answer = req[r].answer /\ q.troubled = req[r].troubled
      /\ q.sawUp = req[r].sawUp
  BY <1>1 DEF Slots
<1>3. req' = [req EXCEPT ![r] = q]
  OBVIOUS
<1> HIDE DEF q
<1>4. Sound(q, dbUp)
  BY <1>1, <1>2 DEF Sound
<1> QED BY <1>2, <1>3, <1>4, KeepingStep DEF ServingInv

\* The slot is done with one operation, with the connection c.
LEMMA Advanced ==
    ASSUME ServingInv, NEW r \in Request, NEW op, At(r, op)
    PROVE  LET q == [req[r] EXCEPT !.pos = @ + 1]
           IN  /\ q \in Slots /\ q.pc = "running" /\ q.handler = req[r].handler
               /\ q.pos = req[r].pos + 1 /\ q.conn = req[r].conn /\ q.answer = req[r].answer
               /\ q.troubled = req[r].troubled /\ q.sawUp = req[r].sawUp
<1>1. req[r] \in Slots /\ req[r].pc = "running" /\ req[r].pos <= Len(Script[req[r].handler])
  BY DEF ServingInv, At
<1>2. Len(Script[req[r].handler]) \in 1 .. 7
  BY <1>1, Scripts DEF ServingInv, Sound
<1>3. req[r].pos + 1 \in 1 .. 8
  <2>1. req[r].pos \in 1 .. 8
    BY <1>1 DEF Slots
  <2>2. \A p \in 1 .. 8, l \in 1 .. 7 : p <= l => p + 1 \in 1 .. 8
    OBVIOUS
  <2> QED BY ONLY <1>1, <1>2, <2>1, <2>2
<1> QED BY <1>1, <1>3 DEF Slots

LEMMA ExecuteOrCallKeeps ==
    ASSUME ServingInv, NEW r \in Request, Execute(r) \/ Call(r) PROVE ServingInv'
<1> DEFINE q == [req[r] EXCEPT !.pos = @ + 1]
<1>1. PICK op \in {"sql", "call"} : At(r, op) /\ (op = "sql" => req[r].conn = "live")
  BY DEF Execute, Call
<1>2. /\ q \in Slots /\ q.pc = "running" /\ q.handler = req[r].handler
      /\ q.conn = req[r].conn /\ q.answer = req[r].answer
      /\ q.troubled = req[r].troubled /\ q.sawUp = req[r].sawUp
  BY <1>1, Advanced
<1>3. req' = [req EXCEPT ![r] = q] /\ UNCHANGED <<iam, dbUp, idle, outages, faults>>
  BY DEF Execute, Call, Advance
<1> HIDE DEF q
<1>4. Sound(req[r], dbUp) /\ req[r].pc = "running"
  BY <1>1 DEF ServingInv, At
<1>5. req[r].handler = "readyz" => op = "sql"
  <2> SUFFICES ASSUME req[r].handler = "readyz" PROVE op = "sql"
    OBVIOUS
  <2>1. Script["readyz"] = <<"sql">> /\ Len(<<"sql">>) = 1 /\ <<"sql">>[1] = "sql"
    BY Scripts
  <2>2. req[r].pos \in 1 .. 8 /\ req[r].pos <= 1
    BY <1>1, <2>1 DEF At, ServingInv, Slots
  <2>3. req[r].pos = 1
    BY <2>2
  <2> QED BY <1>1, <2>1, <2>3 DEF At
<1>6. Sound(q, dbUp)
  BY <1>1, <1>2, <1>4, <1>5 DEF Sound
<1> QED BY <1>2, <1>3, <1>6, KeepingStep DEF ServingInv

LEMMA AnsweringKeeps ==
    ASSUME ServingInv, NEW r \in Request, Return(r) \/ Refuse(r) PROVE ServingInv'
<1>1. PICK p \in {"returned", "closing"}, a \in {"200", "4xx"} :
        /\ req' = [req EXCEPT ![r] = [req[r] EXCEPT !.pc = p, !.answer = a]]
        /\ a = "200" => req[r].pos > Len(Script[req[r].handler])
  BY DEF Return, Refuse
<1>2. req[r].pc = "running" /\ UNCHANGED <<iam, dbUp, idle, outages, faults>>
  BY DEF Return, Refuse
<1> DEFINE q == [req[r] EXCEPT !.pc = p, !.answer = a]
<1>3. req[r] \in Slots /\ Sound(req[r], dbUp)
  BY DEF ServingInv
<1>4. /\ q \in Slots /\ q.pc = p /\ q.answer = a /\ q.handler = req[r].handler
      /\ q.pos = req[r].pos /\ q.conn = req[r].conn
      /\ q.troubled = req[r].troubled /\ q.sawUp = req[r].sawUp
  BY <1>3 DEF Slots
<1>5. req' = [req EXCEPT ![r] = q]
  BY <1>1
<1> HIDE DEF q
<1>6. req[r].handler = "readyz" /\ a = "200" => req[r].pos > 1
  <2>1. Script["readyz"] = <<"sql">> /\ Len(<<"sql">>) = 1
    BY Scripts
  <2> QED BY <1>1, <2>1
<1>7. Sound(q, dbUp)
  BY <1>2, <1>3, <1>4, <1>6 DEF Sound
<1> QED BY <1>2, <1>4, <1>5, <1>7, KeepingStep DEF ServingInv

\* What Failed makes of a slot.
LEMMA FailedSlot ==
    ASSUME ServingInv, NEW r \in Request, req[r].pc = "running"
    PROVE  LET q == Failed(r)
           IN  /\ q \in Slots /\ q.pc \in {"returned", "closing"} /\ q.answer \in {"500", "503"}
               /\ q.handler = req[r].handler /\ q.pos = req[r].pos /\ q.conn = req[r].conn
               /\ q.troubled = req[r].troubled /\ q.sawUp = req[r].sawUp
<1>1. req[r] \in Slots
  BY DEF ServingInv
<1>2. CASE req[r].handler = "readyz"
  <2>1. Failed(r) = [req[r] EXCEPT !.pc = "returned", !.answer = "503"]
    BY <1>2 DEF Failed
  <2> QED BY <1>1, <2>1 DEF Slots
<1>3. CASE req[r].handler # "readyz"
  <2>1. Failed(r) = [req[r] EXCEPT !.pc = "closing", !.answer = "500"]
    BY <1>3 DEF Failed
  <2> QED BY <1>1, <2>1 DEF Slots
<1> QED BY <1>2, <1>3

\* A slot that failed, and had trouble, is sound.
LEMMA RaisedSlot ==
    ASSUME ServingInv, NEW r \in Request, req[r].pc = "running",
           (Raise(r) /\ req[r].troubled) \/ RaiseTroubled(r)
    PROVE  \E q \in Slots : req' = [req EXCEPT ![r] = q] /\ Sound(q, dbUp) /\ q.conn = req[r].conn
<1> DEFINE f == Failed(r)
<1>1. /\ f \in Slots /\ f.pc \in {"returned", "closing"} /\ f.answer \in {"500", "503"}
      /\ f.handler = req[r].handler /\ f.pos = req[r].pos /\ f.conn = req[r].conn
      /\ f.troubled = req[r].troubled /\ f.sawUp = req[r].sawUp
  BY FailedSlot
<1>2. Sound(req[r], dbUp)
  BY DEF ServingInv
<1>3. ASSUME NEW q \in Slots, q.pc = f.pc, q.answer = f.answer, q.handler = f.handler, q.pos = f.pos,
             q.conn = f.conn, q.troubled, q.sawUp = f.sawUp
      PROVE  Sound(q, dbUp)
  <2> HIDE DEF f
  <2> QED BY <1>1, <1>2, <1>3 DEF Sound
<1>4. CASE Raise(r) /\ req[r].troubled
  <2>1. f.troubled /\ req' = [req EXCEPT ![r] = f]
    BY <1>1, <1>4 DEF Raise
  <2> HIDE DEF f
  <2> QED BY <1>1, <1>3, <2>1
<1>5. CASE RaiseTroubled(r)
  <2> DEFINE q == [f EXCEPT !.troubled = TRUE]
  <2>1. req' = [req EXCEPT ![r] = q]
    BY <1>5 DEF RaiseTroubled
  <2> HIDE DEF f
  <2>2. /\ q \in Slots /\ q.pc = f.pc /\ q.answer = f.answer /\ q.handler = f.handler /\ q.pos = f.pos
        /\ q.conn = f.conn /\ q.troubled /\ q.sawUp = f.sawUp
    BY <1>1 DEF Slots
  <2> HIDE DEF q
  <2> QED BY <1>1, <1>3, <2>1, <2>2
<1> QED BY <1>4, <1>5

LEMMA RaisingKeeps ==
    ASSUME ServingInv, NEW r \in Request,
           PoolTimeout(r) \/ ConnectionBroken(r) \/ Fault(r) \/ ConnectFails(r)
    PROVE  ServingInv'
<1>1. req[r].pc = "running" /\ Sound(req[r], dbUp)
  BY DEF PoolTimeout, ConnectionBroken, Fault, ConnectFails, NeedsConnection, At, ServingInv
<1>2. (Raise(r) /\ req[r].troubled) \/ RaiseTroubled(r)
  BY <1>1 DEF PoolTimeout, ConnectionBroken, Fault, ConnectFails, Sound
<1>3. PICK q \in Slots : req' = [req EXCEPT ![r] = q] /\ Sound(q, dbUp) /\ q.conn = req[r].conn
  BY <1>1, <1>2, RaisedSlot
<1>4. CASE PoolTimeout(r) \/ ConnectionBroken(r)
  BY <1>3, <1>4, KeepingStep DEF PoolTimeout, ConnectionBroken, ServingInv
<1>5. CASE Fault(r)
  <2>1. faults' \in 0 .. MaxFaults
    BY <1>5, EngineAssumption DEF Fault, ServingInv
  <2> QED BY <1>3, <1>5, <2>1, KeepingStep DEF Fault
<1>6. CASE ConnectFails(r)
  <2>1. UNCHANGED <<iam, dbUp, outages, faults>>
    BY <1>6 DEF ConnectFails
  <2>2. Held' = Held
    BY <1>3, <2>1, SlotStep
  <2>3. idle \in [Conn -> Nat] /\ "stale" \in Conn /\ "live" \in Conn
    BY DEF ServingInv, Pooled, Conn
  <2>4. idle' \in [Conn -> Nat] /\ Waiting \in Nat
        /\ (Waiting' = Waiting \/ (Waiting > 0 /\ Waiting' = Waiting - 1))
    BY <1>6, <2>3 DEF ConnectFails, Waiting
  <2>5. Pooled'
    BY <2>1, <2>2, <2>4, HeldIsFinite, EngineAssumption DEF ServingInv, Pooled, PoolLimit
  <2> QED BY <1>3, <2>1, <2>5, SlotStep DEF ServingInv
<1> QED BY <1>4, <1>5, <1>6

-----------------------------------------------------------------------------
(* Steps that take a connection or give it back *)

LEMMA ConnectKeeps == ASSUME ServingInv, NEW r \in Request, Connect(r) PROVE ServingInv'
<1> DEFINE q == [req[r] EXCEPT !.conn = "live"]
<1>1. req[r] \in Slots /\ Sound(req[r], dbUp) /\ req[r].pc = "running" /\ req[r].conn = None
  BY DEF Connect, NeedsConnection, At, ServingInv
<1>2. /\ q \in Slots /\ q.pc = req[r].pc /\ q.handler = req[r].handler /\ q.pos = req[r].pos
      /\ q.conn = "live" /\ q.answer = req[r].answer /\ q.troubled = req[r].troubled
      /\ q.sawUp = req[r].sawUp
  BY <1>1 DEF Slots, Conn
<1>3. dbUp /\ req' = [req EXCEPT ![r] = q] /\ UNCHANGED <<iam, dbUp, outages, faults>>
  BY DEF Connect, TakeIdle, OpenNew
<1> HIDE DEF q
<1>4. Sound(q, dbUp)
  BY <1>1, <1>2, <1>3 DEF Sound
<1>5. Held' = Held + 1
  BY <1>1, <1>2, <1>3, <1>4, NoneAssumption, SlotStep
<1>6. idle \in [Conn -> Nat] /\ Conn = {"live", "stale"}
  BY DEF ServingInv, Pooled, Conn
<1>7. Pooled'
  <2>1. CASE \E c \in Conn : TakeIdle(r, c, "live")
    <3>1. idle' \in [Conn -> Nat] /\ Waiting' = Waiting - 1 /\ Waiting \in Nat /\ Waiting > 0
      BY <1>6, <2>1 DEF TakeIdle, Waiting
    <3> QED BY <1>3, <1>5, <3>1, HeldIsFinite, EngineAssumption DEF ServingInv, Pooled, PoolLimit
  <2>2. CASE OpenNew(r)
    <3>1. idle' = idle /\ Waiting = 0 /\ Waiting' = Waiting
      BY <1>6, <2>2 DEF OpenNew, Waiting
    <3>2. ~iam => Held < PoolLimit
      BY <2>2, HeldIsFinite, EngineAssumption DEF OpenNew, PoolExhausted, Held, PoolLimit
    <3> QED BY <1>3, <1>5, <3>1, <3>2, HeldIsFinite, EngineAssumption DEF ServingInv, Pooled, PoolLimit
  <2> QED BY <2>1, <2>2 DEF Connect
<1> QED BY <1>2, <1>3, <1>4, <1>7, SlotStep DEF ServingInv

\* The pool takes a connection back, or closes it.
LEMMA Released ==
    ASSUME ServingInv, NEW c \in Conn \cup {None}, Release(c), UNCHANGED iam
    PROVE  /\ idle' \in [Conn -> Nat] /\ Waiting \in Nat /\ Waiting' \in {Waiting, Waiting + 1}
           /\ Waiting' <= PoolSize
           /\ c = None \/ iam => Waiting' = Waiting
<1>1. idle \in [Conn -> Nat] /\ Conn = {"live", "stale"} /\ Waiting <= PoolSize /\ PoolSize \in Nat
  BY EngineAssumption DEF ServingInv, Pooled, Conn
<1>2. CASE c = "live" /\ ~iam /\ Waiting < PoolSize
  <2>1. idle' = [idle EXCEPT !["live"] = @ + 1]
    BY <1>2 DEF Release, Waiting
  <2> QED BY <1>1, <1>2, <2>1, NoneAssumption DEF Waiting
<1>3. CASE ~(c = "live" /\ ~iam /\ Waiting < PoolSize)
  <2>1. idle' = idle
    BY <1>3 DEF Release, Waiting
  <2> QED BY <1>1, <1>3, <2>1 DEF Waiting
<1> QED BY <1>2, <1>3

LEMMA ReleasingKeeps ==
    ASSUME ServingInv, NEW r \in Request, NEW q \in Slots, req' = [req EXCEPT ![r] = q], Sound(q, dbUp),
           q.conn = None, Release(req[r].conn), UNCHANGED <<iam, dbUp, outages, faults>>
    PROVE  ServingInv'
<1>1. req[r].conn \in Conn \cup {None}
  BY DEF ServingInv, Slots
<1>2. /\ idle' \in [Conn -> Nat] /\ Waiting \in Nat /\ Waiting' \in {Waiting, Waiting + 1}
      /\ Waiting' <= PoolSize /\ (req[r].conn = None \/ iam => Waiting' = Waiting)
  BY <1>1, Released
<1>3. IF req[r].conn = None THEN Held' = Held ELSE Held' = Held - 1
  BY SlotStep
<1>4. Pooled'
  BY <1>2, <1>3, HeldIsFinite, EngineAssumption DEF ServingInv, Pooled, PoolLimit
<1> QED BY <1>4, SlotStep DEF ServingInv

LEMMA CommitKeeps == ASSUME ServingInv, NEW r \in Request, Commit(r) PROVE ServingInv'
<1> DEFINE p == [req[r] EXCEPT !.pos = @ + 1]
           q == [p EXCEPT !.conn = None]
<1>1. At(r, "commit") /\ req[r].conn = "live" /\ Sound(req[r], dbUp) /\ req[r].pc = "running"
  BY DEF Commit, At, ServingInv
<1>2. /\ p \in Slots /\ p.pc = "running" /\ p.handler = req[r].handler
      /\ p.conn = req[r].conn /\ p.answer = req[r].answer
      /\ p.troubled = req[r].troubled /\ p.sawUp = req[r].sawUp
  BY <1>1, Advanced
<1>3. req' = [req EXCEPT ![r] = q]
  BY DEF Commit, Advance, ServingInv
<1> HIDE DEF p
<1>4. /\ q \in Slots /\ q.pc = p.pc /\ q.handler = p.handler /\ q.conn = None
      /\ q.answer = p.answer /\ q.troubled = p.troubled /\ q.sawUp = p.sawUp
  BY <1>2 DEF Slots
<1> HIDE DEF q
<1>5. Sound(q, dbUp)
  BY <1>1, <1>2, <1>4, NoneAssumption DEF Sound
<1> QED BY <1>1, <1>3, <1>4, <1>5, ReleasingKeeps DEF Commit

LEMMA FinishKeeps == ASSUME ServingInv, NEW r \in Request, Finish(r) PROVE ServingInv'
<1> DEFINE q == [req[r] EXCEPT !.pc = "idle", !.conn = None]
<1>1. req[r] \in Slots /\ Sound(req[r], dbUp) /\ req[r].pc = "closing"
  BY DEF Finish, ServingInv
<1>2. /\ q \in Slots /\ q.pc = "idle" /\ q.handler = req[r].handler /\ q.conn = None
      /\ q.pos = req[r].pos
      /\ q.answer = req[r].answer /\ q.troubled = req[r].troubled /\ q.sawUp = req[r].sawUp
  BY <1>1 DEF Slots
<1>3. req' = [req EXCEPT ![r] = q]
  BY DEF Finish
<1> HIDE DEF q
<1>4. Sound(q, dbUp)
  BY <1>1, <1>2, NoneAssumption DEF Sound
<1> QED BY <1>2, <1>3, <1>4, ReleasingKeeps DEF Finish

-----------------------------------------------------------------------------
(* The database goes and comes *)

LEMMA DbDownKeeps == ASSUME ServingInv, DbDown PROVE ServingInv'
<1>1. dbUp' = FALSE /\ UNCHANGED <<iam, faults>> /\ outages' \in 0 .. MaxOutages
  <2>1. outages \in 0 .. MaxOutages /\ outages < MaxOutages /\ outages' = outages + 1 /\ MaxOutages \in Nat
    BY EngineAssumption DEF DbDown, ServingInv
  <2>2. outages' \in 0 .. MaxOutages
    BY ONLY <2>1
  <2> QED BY <2>2 DEF DbDown
<1>2. ASSUME NEW r \in Request
      PROVE  req'[r] \in Slots /\ Sound(req'[r], FALSE) /\ (req'[r].conn = None <=> req[r].conn = None)
  <2>1. req[r] \in Slots /\ Sound(req[r], TRUE)
    BY DEF ServingInv, DbDown
  <2>2. CASE r \notin Active
    <3>1. req'[r] = req[r] /\ req[r].pc = "idle"
      BY <2>2 DEF DbDown, Active
    <3> QED BY <2>1, <3>1 DEF Sound
  <2>3. CASE r \in Active
    <3>1. PICK c \in Conn \cup {None} :
            /\ c \in {"stale", None} /\ (c = None <=> req[r].conn = None)
            /\ req'[r] = [req[r] EXCEPT !.troubled = TRUE, !.conn = c]
      <4>1. CASE req[r].conn = None
        BY <2>3, <4>1 DEF DbDown
      <4>2. CASE req[r].conn # None
        BY <2>3, <4>2, NoneAssumption DEF DbDown, Conn
      <4> QED BY <4>1, <4>2
    <3> DEFINE p == [req[r] EXCEPT !.troubled = TRUE]
               q == [p EXCEPT !.conn = c]
    <3>2. req'[r] = q
      BY <2>1, <3>1 DEF Slots
    <3>3. /\ p \in Slots /\ p.pc = req[r].pc /\ p.handler = req[r].handler /\ p.pos = req[r].pos
          /\ p.answer = req[r].answer /\ p.troubled /\ p.sawUp = req[r].sawUp
      BY <2>1 DEF Slots
    <3> HIDE DEF p
    <3>4. /\ q \in Slots /\ q.pc = p.pc /\ q.handler = p.handler /\ q.pos = p.pos /\ q.conn = c
          /\ q.answer = p.answer /\ q.troubled = p.troubled /\ q.sawUp = p.sawUp
      BY <3>3 DEF Slots
    <3> HIDE DEF q
    <3>5. Sound(q, FALSE)
      BY <2>1, <3>1, <3>3, <3>4, NoneAssumption DEF Sound
    <3> QED BY <3>1, <3>2, <3>4, <3>5
  <2> QED BY <2>2, <2>3
<1>3. req' \in [Request -> Slots]
  <2>1. \E f : req' = [r \in Request |-> f[r]]
    <3> DEFINE f == [r \in Request |-> IF r \in Active
                       THEN [req[r] EXCEPT !.troubled = TRUE, !.conn = IF @ = None THEN None ELSE "stale"]
                       ELSE req[r]]
    <3>1. req' = f
      BY DEF DbDown
    <3>2. f = [r \in Request |-> f[r]]
      OBVIOUS
    <3> QED BY <3>1, <3>2
  <2> QED BY <1>2, <2>1
<1>4. Holding' = Holding
  BY <1>2 DEF Holding
<1>5. idle \in [Conn -> Nat] /\ Conn = {"live", "stale"}
  BY DEF ServingInv, Pooled, Conn
<1>6. idle' = [live |-> 0, stale |-> Waiting]
  BY DEF DbDown, Waiting
<1>7. idle' \in [Conn -> Nat] /\ Waiting' = Waiting
  BY <1>5, <1>6 DEF Waiting
<1>8. Held' = Held
  BY <1>4 DEF Held
<1>9. Pooled'
  BY <1>1, <1>7, <1>8 DEF ServingInv, Pooled, PoolLimit
<1> QED BY <1>1, <1>2, <1>3, <1>9 DEF ServingInv

LEMMA DbUpKeeps == ASSUME ServingInv, DbUp PROVE ServingInv'
<1>1. dbUp' = TRUE /\ ~dbUp /\ UNCHANGED <<iam, idle, outages, faults>>
  BY DEF DbUp
<1>2. ASSUME NEW r \in Request
      PROVE  req'[r] \in Slots /\ Sound(req'[r], TRUE) /\ req'[r].conn = req[r].conn
  <2>1. req[r] \in Slots /\ Sound(req[r], FALSE)
    BY <1>1 DEF ServingInv
  <2>2. CASE r \notin Active
    <3>1. req'[r] = req[r] /\ req[r].pc = "idle"
      BY <2>2 DEF DbUp, Active
    <3> QED BY <2>1, <3>1 DEF Sound
  <2>3. CASE r \in Active
    <3> DEFINE q == [req[r] EXCEPT !.sawUp = TRUE]
    <3>1. req'[r] = q
      BY <2>3 DEF DbUp
    <3>2. /\ q \in Slots /\ q.pc = req[r].pc /\ q.handler = req[r].handler /\ q.pos = req[r].pos
          /\ q.conn = req[r].conn /\ q.answer = req[r].answer /\ q.troubled = req[r].troubled /\ q.sawUp
      BY <2>1 DEF Slots
    <3> HIDE DEF q
    <3>3. Sound(q, TRUE)
      BY <2>1, <3>2 DEF Sound
    <3> QED BY <3>1, <3>2, <3>3
  <2> QED BY <2>2, <2>3
<1>3. req' \in [Request -> Slots]
  <2>1. req' = [r \in Request |-> req'[r]]
    BY DEF DbUp
  <2> QED BY <1>2, <2>1
<1>4. Holding' = Holding
  BY <1>2 DEF Holding
<1>5. Held' = Held /\ Waiting' = Waiting
  BY <1>1, <1>4 DEF Held, Waiting
<1>6. Pooled'
  BY <1>1, <1>5 DEF ServingInv, Pooled, PoolLimit
<1> QED BY <1>1, <1>2, <1>3, <1>6 DEF ServingInv

LEMMA ServingInvStep == ServingInv /\ [Next]_vars => ServingInv'
<1> SUFFICES ASSUME ServingInv, [Next]_vars PROVE ServingInv'
  OBVIOUS
<1>1. CASE UNCHANGED vars
  <2>1. Held' = Held /\ Waiting' = Waiting
    BY <1>1 DEF vars, Held, Holding, Waiting
  <2> QED BY <1>1, <2>1 DEF vars, ServingInv, Pooled, PoolLimit
<1>2. ASSUME NEW r \in Request, Start(r) PROVE ServingInv'
  BY <1>2, MovingKeeps DEF Start
<1>3. ASSUME NEW r \in Request, Serialize(r) PROVE ServingInv'
  BY <1>3, MovingKeeps DEF Serialize
<1> QED
  BY <1>1, <1>2, <1>3, BeginKeeps, ExecuteOrCallKeeps, AnsweringKeeps, RaisingKeeps, ConnectKeeps,
     CommitKeeps, FinishKeeps, DbDownKeeps, DbUpKeeps
     DEF Next, Proceed

-----------------------------------------------------------------------------

\* Every variable keeps its type, in every reachable state.
THEOREM ServingTypeCorrect == Spec => []ServingTypeOK
<1>1. ServingInv => ServingTypeOK
  <2> SUFFICES ASSUME ServingInv PROVE ServingTypeOK
    OBVIOUS
  <2>1. idle \in [Conn -> 0 .. PoolSize]
    <3>1. idle \in [Conn -> Nat] /\ Conn = {"live", "stale"} /\ idle["live"] + idle["stale"] <= PoolSize
      BY DEF ServingInv, Pooled, Waiting, Conn
    <3>2. \A c \in Conn : idle[c] \in 0 .. PoolSize
      BY <3>1, EngineAssumption
    <3> QED BY <3>1, <3>2
  <2> QED BY <2>1 DEF ServingInv, ServingTypeOK, Slots
<1> QED BY ServingInvInit, ServingInvStep, <1>1, PTL DEF Spec

\* A 500, or a 503 of the probe, has a cause that lies in its own time.
THEOREM ErrorsExplained == Spec => []ErrorsAreExplained
<1>1. ServingInv => ErrorsAreExplained
  BY DEF ServingInv, Sound, ErrorsAreExplained
<1> QED BY ServingInvInit, ServingInvStep, <1>1, PTL DEF Spec

\* A probe that answers 200 had the database up at some moment of it.
THEOREM ReadyReached == Spec => []ReadyMeansReached
<1>1. ServingInv => ReadyMeansReached
  BY DEF ServingInv, Sound, ReadyMeansReached
<1> QED BY ServingInvInit, ServingInvStep, <1>1, PTL DEF Spec

\* The task's connections never exceed its pool, however requests end.
THEOREM ConnectionsDoNotLeak == Spec => []NothingLeaks
<1>1. ServingInv => NothingLeaks
  <2> SUFFICES ASSUME ServingInv PROVE NothingLeaks
    OBVIOUS
  <2>1. \A r \in Holding : req[r].pc \in {"running", "returned", "closing"}
    BY DEF ServingInv, Sound, Holding
  <2>2. Opened = Held + Waiting
    <3>1. idle["live"] \in Nat /\ idle["stale"] \in Nat
      BY DEF ServingInv, Pooled, Conn
    <3> QED BY <3>1, HeldIsFinite DEF Opened, Held, Waiting
  <2> QED BY <2>1, <2>2 DEF NothingLeaks, ServingInv, Pooled, Waiting
<1> QED BY ServingInvInit, ServingInvStep, <1>1, PTL DEF Spec
=============================================================================
