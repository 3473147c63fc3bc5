--------------------------- MODULE RequestServing ---------------------------
(***************************************************************************)
(* How one API task serves requests: a sync handler runs in a worker       *)
(* thread, its Session takes a connection from the engine at its first     *)
(* statement and keeps it until a commit or the end of the request, and    *)
(* the response of a finished handler needs a worker thread once more      *)
(* while the Session still has its connection.  The database goes down and *)
(* comes back meanwhile, which breaks every open connection.               *)
(***************************************************************************)
EXTENDS Integers, Sequences, FiniteSets

CONSTANTS
    Request,        \* slots for requests the task serves at a time
    Served,         \* the handlers that are called
    Threads,        \* worker threads
    PoolSize, MaxOverflow,
    None,
    MaxOutages,     \* bound: times the database goes down
    MaxFaults       \* bound: statements and tokens that fail by themselves

\* What a handler does, as far as threads and connections are concerned; an
\* AWS or LLM call that fails is caught and answered like one that succeeds.
Script ==
    [readyz  |-> <<"sql">>,
     read    |-> <<"sql">>,
     summary |-> <<"sql", "call">>,
     create  |-> <<"sql", "commit", "sql">>,
     approve |-> <<"sql", "commit", "sql", "call", "sql", "commit", "sql">>]

ASSUME HandlersAssumption == Served \subseteq DOMAIN Script
ASSUME NoneAssumption == None \notin {"live", "stale", "200", "500", "503"}
ASSUME EngineAssumption ==
    /\ IsFiniteSet(Request)
    /\ Threads \in Nat \ {0} /\ PoolSize \in Nat \ {0} /\ MaxOverflow \in Nat
    /\ MaxOutages \in Nat /\ MaxFaults \in Nat

VARIABLES
    iam,            \* DB_AUTH_MODE=iam: NullPool, a token per connection
    dbUp,
    idle,           \* connections waiting in the pool, by whether they still work
    req,            \* what a slot serves, or last served
    outages, faults

vars == <<iam, dbUp, idle, req, outages, faults>>

Conn == {"live", "stale"}
PoolLimit == PoolSize + MaxOverflow
Active == {r \in Request : req[r].pc # "idle"}
Busy == {r \in Request : req[r].pc = "running"}
Holding == {r \in Request : req[r].conn # None}
Opened == Cardinality(Holding) + idle["live"] + idle["stale"]

Slot(step, h, down, up) == [pc |-> step, handler |-> h, pos |-> 1, conn |-> None,
                            answer |-> None, troubled |-> down, sawUp |-> up]
NoRequest == Slot("idle", None, FALSE, FALSE)

Init ==
    /\ iam \in BOOLEAN
    /\ dbUp = TRUE
    /\ idle = [c \in Conn |-> 0]
    /\ req = [r \in Request |-> NoRequest]
    /\ outages = 0 /\ faults = 0

-----------------------------------------------------------------------------
(* Threads *)

Begin(r, h) ==
    /\ req[r].pc = "idle"
    /\ req' = [req EXCEPT ![r] = Slot("queued", h, ~dbUp, dbUp)]
    /\ UNCHANGED <<iam, dbUp, idle, outages, faults>>

\* The dependencies are built in a thread too, and hold nothing between them.
Start(r) ==
    /\ req[r].pc = "queued"
    /\ Cardinality(Busy) < Threads
    /\ req' = [req EXCEPT ![r].pc = "running"]
    /\ UNCHANGED <<iam, dbUp, idle, outages, faults>>

\* The response model of a sync handler is built in a thread.
Serialize(r) ==
    /\ req[r].pc = "returned"
    /\ Cardinality(Busy) < Threads
    /\ req' = [req EXCEPT ![r].pc = "closing"]
    /\ UNCHANGED <<iam, dbUp, idle, outages, faults>>

-----------------------------------------------------------------------------
(* Connections and statements *)

At(r, op) ==
    /\ req[r].pc = "running"
    /\ req[r].pos <= Len(Script[req[r].handler])
    /\ Script[req[r].handler][req[r].pos] = op

\* Mutant of Failed: readiness forgets to set the status.
FailedReady(r) ==
    IF req[r].handler = "readyz"
    THEN [req[r] EXCEPT !.pc = "returned", !.answer = "200"]
    ELSE [req[r] EXCEPT !.pc = "closing", !.answer = "500"]

\* readiness catches whatever is raised; elsewhere only the catch-all handler does.
Failed(r) ==
    IF req[r].handler = "readyz"
    THEN [req[r] EXCEPT !.pc = "returned", !.answer = "503"]
    ELSE [req[r] EXCEPT !.pc = "closing", !.answer = "500"]

Raise(r) == req' = [req EXCEPT ![r] = Failed(r)]
RaiseTroubled(r) == req' = [req EXCEPT ![r] = [Failed(r) EXCEPT !.troubled = TRUE]]

\* Back to the pool, which closes what is broken or more than it keeps.
Release(c) ==
    idle' = IF c = "live" /\ ~iam /\ idle["live"] + idle["stale"] < PoolSize
            THEN [idle EXCEPT !["live"] = @ + 1]
            ELSE idle

NeedsConnection(r) == At(r, "sql") /\ req[r].conn = None
PoolExhausted == ~iam /\ Cardinality(Holding) >= PoolLimit

TakeIdle(r, c, as) ==
    /\ idle[c] > 0
    /\ idle' = [idle EXCEPT ![c] = @ - 1]
    /\ req' = [req EXCEPT ![r].conn = as]

\* NullPool opens a connection each time, QueuePool when none waits.
OpenNew(r) ==
    /\ \A c \in Conn : idle[c] = 0
    /\ dbUp /\ ~PoolExhausted
    /\ req' = [req EXCEPT ![r].conn = "live"]
    /\ UNCHANGED idle

\* Mutant of Connect: no pool_pre_ping.
ConnectUnchecked(r) ==
    /\ NeedsConnection(r)
    /\ (\E c \in Conn : TakeIdle(r, c, c)) \/ OpenNew(r)
    /\ UNCHANGED <<iam, dbUp, outages, faults>>

\* pool_pre_ping replaces a broken connection before it is handed out.
Connect(r) ==
    /\ NeedsConnection(r)
    /\ (dbUp /\ \E c \in Conn : TakeIdle(r, c, "live")) \/ OpenNew(r)
    /\ UNCHANGED <<iam, dbUp, outages, faults>>

\* Mutant of ConnectFails: a connection is written off that the pool never had.
ConnectFailsUncounted(r) ==
    /\ NeedsConnection(r)
    /\ ~dbUp /\ ~PoolExhausted
    /\ Raise(r)
    /\ idle' = [idle EXCEPT !["stale"] = @ - 1]
    /\ UNCHANGED <<iam, dbUp, outages, faults>>

\* connect_timeout; the replaced connection is gone.
ConnectFails(r) ==
    /\ NeedsConnection(r)
    /\ ~dbUp /\ ~PoolExhausted
    /\ Raise(r)
    /\ IF idle["stale"] > 0 THEN idle' = [idle EXCEPT !["stale"] = @ - 1] ELSE UNCHANGED idle
    /\ UNCHANGED <<iam, dbUp, outages, faults>>

\* Mutant of PoolTimeout: the pool waits for ever.
PoolWaits(r) == NeedsConnection(r) /\ PoolExhausted /\ UNCHANGED vars

\* pool_timeout, 30 seconds
PoolTimeout(r) ==
    /\ NeedsConnection(r)
    /\ PoolExhausted
    /\ RaiseTroubled(r)
    /\ UNCHANGED <<iam, dbUp, idle, outages, faults>>

Advance(r) == [req EXCEPT ![r].pos = @ + 1]

Execute(r) ==
    /\ At(r, "sql")
    /\ req[r].conn = "live"
    /\ req' = Advance(r)
    /\ UNCHANGED <<iam, dbUp, idle, outages, faults>>

\* A commit ends the transaction, and with it the Session's hold on its connection.
Commit(r) ==
    /\ At(r, "commit")
    /\ req[r].conn = "live"
    /\ req' = [Advance(r) EXCEPT ![r].conn = None]
    /\ Release("live")
    /\ UNCHANGED <<iam, dbUp, outages, faults>>

ConnectionBroken(r) ==
    /\ At(r, "sql") \/ At(r, "commit")
    /\ req[r].conn = "stale"
    /\ Raise(r)
    /\ UNCHANGED <<iam, dbUp, idle, outages, faults>>

\* A statement the database refuses, or a token that cannot be generated.
Fault(r) ==
    /\ faults < MaxFaults
    /\ At(r, "sql") \/ At(r, "commit")
    /\ req[r].conn # None \/ iam
    /\ RaiseTroubled(r)
    /\ faults' = faults + 1
    /\ UNCHANGED <<iam, dbUp, idle, outages>>

\* Secrets Manager or the LLM, whatever they answer.
Call(r) ==
    /\ At(r, "call")
    /\ req' = Advance(r)
    /\ UNCHANGED <<iam, dbUp, idle, outages, faults>>

\* An AppError raised after the first read: no response model is built.
Refuse(r) ==
    /\ req[r].pc = "running" /\ req[r].handler # "readyz" /\ req[r].pos = 2
    /\ req' = [req EXCEPT ![r].pc = "closing", ![r].answer = "4xx"]
    /\ UNCHANGED <<iam, dbUp, idle, outages, faults>>

Return(r) ==
    /\ req[r].pc = "running"
    /\ req[r].pos > Len(Script[req[r].handler])
    /\ req' = [req EXCEPT ![r].pc = "returned", ![r].answer = "200"]
    /\ UNCHANGED <<iam, dbUp, idle, outages, faults>>

\* Mutant of Finish: get_db does not close the Session after an exception.
FinishOpen(r) ==
    /\ req[r].pc = "closing"
    /\ IF req[r].answer = "500"
       THEN req' = [req EXCEPT ![r].pc = "idle"] /\ UNCHANGED idle
       ELSE /\ req' = [req EXCEPT ![r].pc = "idle", ![r].conn = None]
            /\ Release(req[r].conn)
    /\ UNCHANGED <<iam, dbUp, outages, faults>>

\* get_db rolls back what is left and closes the Session.
Finish(r) ==
    /\ req[r].pc = "closing"
    /\ req' = [req EXCEPT ![r].pc = "idle", ![r].conn = None]
    /\ Release(req[r].conn)
    /\ UNCHANGED <<iam, dbUp, outages, faults>>

-----------------------------------------------------------------------------
(* The database *)

DbDown ==
    /\ dbUp /\ outages < MaxOutages
    /\ dbUp' = FALSE
    /\ outages' = outages + 1
    /\ idle' = [live |-> 0, stale |-> idle["live"] + idle["stale"]]
    /\ req' = [r \in Request |->
                  IF r \in Active
                  THEN [req[r] EXCEPT !.troubled = TRUE,
                                      !.conn = IF @ = None THEN None ELSE "stale"]
                  ELSE req[r]]
    /\ UNCHANGED <<iam, faults>>

DbUp ==
    /\ ~dbUp
    /\ dbUp' = TRUE
    /\ req' = [r \in Request |-> IF r \in Active THEN [req[r] EXCEPT !.sawUp = TRUE] ELSE req[r]]
    /\ UNCHANGED <<iam, idle, outages, faults>>

-----------------------------------------------------------------------------

\* What the thread or the event loop does next for a request that has what it needs.
Proceed(r) ==
    \/ Connect(r) \/ ConnectFails(r) \/ PoolTimeout(r)
    \/ Execute(r) \/ Commit(r) \/ ConnectionBroken(r) \/ Call(r)
    \/ Return(r) \/ Finish(r)

Next ==
    \/ \E r \in Request : \/ \E h \in Served : Begin(r, h)
                          \/ Start(r) \/ Serialize(r) \/ Proceed(r)
                          \/ Fault(r) \/ Refuse(r)
    \/ DbDown \/ DbUp

\* Threads are granted in the order they are asked for, so nobody is passed
\* over for ever; a wait for a connection or for the database has a timeout.
Fairness ==
    \A r \in Request : WF_vars(Proceed(r)) /\ SF_vars(Start(r)) /\ SF_vars(Serialize(r))

Spec == Init /\ [][Next]_vars /\ Fairness

-----------------------------------------------------------------------------
(* Properties *)

ServingTypeOK ==
    /\ iam \in BOOLEAN /\ dbUp \in BOOLEAN
    /\ idle \in [Conn -> 0 .. PoolSize]
    /\ req \in [Request -> [pc : {"idle", "queued", "running", "returned", "closing"},
                            handler : DOMAIN Script \cup {None},
                            pos : 1 .. 8,
                            conn : Conn \cup {None},
                            answer : {None, "200", "4xx", "500", "503"},
                            troubled : BOOLEAN, sawUp : BOOLEAN]]
    /\ outages \in 0 .. MaxOutages /\ faults \in 0 .. MaxFaults

\* A request is answered 500, or a probe 503, only if something went wrong while
\* it was served: the database was away, a statement failed, or every connection
\* stayed taken.  Connections broken by an outage that is over hurt nobody.
ErrorsAreExplained == \A r \in Request : req[r].answer \in {"500", "503"} => req[r].troubled

\* A probe that answers 200 did so with the database up at some moment of it.
ReadyMeansReached ==
    \A r \in Request : req[r].handler = "readyz" /\ req[r].answer = "200" => req[r].sawUp

\* However requests end, and whatever broke meanwhile, the task never has more
\* connections open than its pool allows (in iam mode, than requests it serves),
\* and no request that is over, or has not begun to run, has one.
NothingLeaks ==
    /\ \A r \in Holding : req[r].pc \in {"running", "returned", "closing"}
    /\ IF iam THEN idle["live"] + idle["stale"] = 0 ELSE Opened <= PoolLimit

\* Every request ends, although handlers hold a thread while they wait for a
\* connection and finished ones hold a connection while they wait for a thread.
RequestsEnd == \A r \in Request : req[r].pc # "idle" ~> req[r].pc = "idle"

\* Once the database stays up and requests come one at a time, probes stop
\* failing: nothing an outage or a failed request left behind keeps them failing.
Quiet == dbUp /\ Cardinality(Active) <= 1
ReadinessRecovers ==
    <>[]Quiet => <>[](\A r \in Request : req[r].pc = "closing" => req[r].answer # "503")
=============================================================================
