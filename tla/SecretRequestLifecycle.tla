----------------------- MODULE SecretRequestLifecycle -----------------------
(***************************************************************************)
(* The life of a secret request: created by one HTTP handler, approved by  *)
(* another, provisioned in AWS Secrets Manager between two database        *)
(* commits.  Every handler runs in a thread of its own with a database     *)
(* session of its own; handlers share the tables secret_requests and       *)
(* request_events, the row locks of Postgres, and Secrets Manager.         *)
(*                                                                         *)
(* A session's uncommitted work (obj, pend) is visible to nobody else.     *)
(* Postgres runs at READ COMMITTED: a statement reads what is committed    *)
(* when it starts, and SELECT ... FOR UPDATE reads the row again once it   *)
(* has the lock.  now() is the time at which the transaction began; seq is *)
(* drawn from an identity when the row is inserted and is never given      *)
(* back.                                                                   *)
(***************************************************************************)
EXTENDS Naturals, FiniteSets, Sequences

CONSTANTS
    Session,        \* handler threads, each with its database session
    RequestId,      \* primary keys the create handler may draw
    Tuple,          \* what a caller may ask for: [service, logical_name, environment]
    Catalog,        \* the services that are registered
    ServiceName,    \* [Catalog -> name], a name being its "/"-separated segments
    None,
    MaxClock,       \* bound: the database clock ticks this often
    MaxFaults       \* bound: this many handlers are lost to errors or crashes

ASSUME NoneAssumption ==
    /\ None \notin Session
    /\ None \notin RequestId
    /\ None \notin Tuple
ASSUME BoundsAssumption == MaxClock \in Nat /\ MaxFaults \in Nat

VARIABLES
    rows,       \* secret_requests, committed
    events,     \* request_events, committed
    nextSeq,    \* the identity behind request_events.seq
    clock,      \* the database clock
    lock,       \* the session that holds a row's lock
    pc,         \* where a handler stands
    req,        \* the request it works on
    obj,        \* its ORM object, flushed or not
    since,      \* when its transaction began
    pend,       \* the events it has flushed and not committed
    answer,     \* the last answer a session gave, and what it was about
    calls,      \* create_secret calls sent for a request
    wire,       \* calls Secrets Manager has not handled
    secrets,    \* the secrets that exist
    logged,     \* secret_provisioning_outcome lines written
    faults

dbVars == <<rows, events, nextSeq, lock>>
handlerVars == <<pc, req, obj, since, pend, answer>>
awsVars == <<calls, wire, secrets>>
vars == <<dbVars, handlerVars, awsVars, clock, logged, faults>>

-----------------------------------------------------------------------------
(* Data *)

Status == {"ABSENT", "PENDING", "APPROVED", "PROVISIONING", "PROVISIONED", "FAILED"}

\* Mutants of ValidTransitions: a request is approved again after a failure, or
\* while it is being provisioned.
TransitionsWithRetry ==
    [ABSENT |-> {}, PENDING |-> {"APPROVED"}, APPROVED |-> {"PROVISIONING"},
     PROVISIONING |-> {"PROVISIONED", "FAILED"}, PROVISIONED |-> {}, FAILED |-> {"APPROVED"}]
TransitionsWithRestart ==
    [ABSENT |-> {}, PENDING |-> {"APPROVED"}, APPROVED |-> {"PROVISIONING"},
     PROVISIONING |-> {"APPROVED", "PROVISIONED", "FAILED"}, PROVISIONED |-> {}, FAILED |-> {}]

\* _VALID_TRANSITIONS; ABSENT stands for a row that is not there.

ValidTransitions ==
    [ABSENT       |-> {},
     PENDING      |-> {"APPROVED"},
     APPROVED     |-> {"PROVISIONING"},
     PROVISIONING |-> {"PROVISIONED", "FAILED"},
     PROVISIONED  |-> {},
     FAILED       |-> {}]

\* platform/{service_name}/{environment}/{logical_name}: a "/" inside a name
\* starts a segment like any other, so names are compared as segment sequences.
SecretName(k) ==
    <<"platform">> \o ServiceName[k.service] \o <<k.environment>> \o k.logical_name

\* The tuples of a registered service: only these get a row.
Requestable == {k \in Tuple : k.service \in Catalog}

Secret == [for : RequestId, by : Session, name : {SecretName(k) : k \in Requestable}]
Row == [key : Requestable \cup {None}, status : Status, arn : Secret \cup {None}]
NoRow == [key |-> None, status |-> "ABSENT", arn |-> None]
Event == [req : RequestId, status : Status, actor : Session \cup {"system"},
          at : 0 .. MaxClock, seq : Nat]
Outcome == {"provisioned", "failed"}
PC == {"idle", "checked", "inserted", "created", "locking", "locked", "intent",
       "intended", "calling", "recorded", "concluded"}
Code == {"none", "200", "201", "NOT_FOUND", "VALIDATION_ERROR", "CONFLICT",
         "INVALID_STATE", "INTERNAL_ERROR"}
NoAnswer == [code |-> "none", about |-> None]

\* The event a session inserts next but n, in its open transaction.
NewEvent(s, n, status, actor) ==
    [req |-> req[s], status |-> status, actor |-> actor,
     at |-> since[s], seq |-> nextSeq + n]

\* Mutant of EventBefore: ORDER BY timestamp alone.
EventBeforeByTime(e, f) == e.at < f.at

\* ORDER BY timestamp, seq
EventBefore(e, f) == e.at < f.at \/ (e.at = f.at /\ e.seq < f.seq)

Trail(r) == {e \in events : e.req = r}

Init ==
    /\ rows = [r \in RequestId |-> NoRow]
    /\ events = {}
    /\ nextSeq = 1
    /\ clock = 0
    /\ lock = [r \in RequestId |-> None]
    /\ pc = [s \in Session |-> "idle"]
    /\ req = [s \in Session |-> None]
    /\ obj = [s \in Session |-> NoRow]
    /\ since = [s \in Session |-> 0]
    /\ pend = [s \in Session |-> {}]
    /\ answer = [s \in Session |-> NoAnswer]
    /\ calls = [r \in RequestId |-> 0]
    /\ wire = {}
    /\ secrets = {}
    /\ logged = {}
    /\ faults = 0

Tick ==
    /\ clock < MaxClock
    /\ clock' = clock + 1
    /\ UNCHANGED <<dbVars, handlerVars, awsVars, logged, faults>>

-----------------------------------------------------------------------------
(* The end of a handler: get_db rolls back what is not committed and closes *)
(* the session, which gives its locks back; the caller has its answer.      *)

\* Mutant of Unlocked: the locks of a closed session are kept.
StillLocked(s) == lock
Unlocked(s) == [r \in RequestId |-> IF lock[r] = s THEN None ELSE lock[r]]

Close(s, code, about) ==
    /\ pc' = [pc EXCEPT ![s] = "idle"]
    /\ req' = [req EXCEPT ![s] = None]
    /\ obj' = [obj EXCEPT ![s] = NoRow]
    /\ since' = [since EXCEPT ![s] = 0]
    /\ pend' = [pend EXCEPT ![s] = {}]
    /\ answer' = [answer EXCEPT ![s] = [code |-> code, about |-> about]]
    /\ lock' = Unlocked(s)

-----------------------------------------------------------------------------
(* create_request *)

\* An answer given before anything was written.
Reject(s, code, about) ==
    /\ pc[s] = "idle"
    /\ Close(s, code, about)
    /\ UNCHANGED <<rows, events, nextSeq, awsVars, clock, logged, faults>>

CreateForUnknownService(s, k) ==
    /\ k.service \notin Catalog
    /\ Reject(s, "NOT_FOUND", None)

\* generate_value is false
CreateWithOwnValue(s, k) ==
    /\ k.service \in Catalog
    /\ Reject(s, "VALIDATION_ERROR", None)

ExistsForTuple(k) == \E r \in RequestId : rows[r].key = k

CreateDuplicate(s, k) ==
    /\ k.service \in Catalog
    /\ ExistsForTuple(k)
    /\ Reject(s, "CONFLICT", k)

\* The check; the insert is a later statement, and nothing is locked between.
CheckCreate(s, k) ==
    /\ pc[s] = "idle"
    /\ k.service \in Catalog
    /\ ~ExistsForTuple(k)
    /\ pc' = [pc EXCEPT ![s] = "checked"]
    /\ obj' = [obj EXCEPT ![s] = [key |-> k, status |-> "PENDING", arn |-> None]]
    /\ since' = [since EXCEPT ![s] = clock]
    /\ answer' = [answer EXCEPT ![s] = NoAnswer]
    /\ UNCHANGED <<dbVars, awsVars, req, pend, clock, logged, faults>>

\* An INSERT waits for a transaction that has inserted the same unique key.
KeyInFlight(s) == \E t \in Session \ {s} : pc[t] = "inserted" /\ obj[t].key = obj[s].key

\* Mutant of InsertRequest: no unique constraint behind the check.
InsertUnconstrained(s, r) ==
    /\ pc[s] = "checked"
    /\ rows[r] = NoRow
    /\ \A t \in Session : req[t] # r
    /\ pc' = [pc EXCEPT ![s] = "inserted"]
    /\ req' = [req EXCEPT ![s] = r]
    /\ pend' = [pend EXCEPT ![s] = {[req |-> r, status |-> "PENDING", actor |-> s,
                                    at |-> since[s], seq |-> nextSeq]}]
    /\ nextSeq' = nextSeq + 1
    /\ UNCHANGED <<rows, events, lock, obj, since, answer, awsVars, clock, logged, faults>>

\* The row and its PENDING event, flushed.
InsertRequest(s, r) ==
    /\ pc[s] = "checked"
    /\ rows[r] = NoRow
    /\ \A t \in Session : req[t] # r
    /\ ~KeyInFlight(s)
    /\ ~ExistsForTuple(obj[s].key)
    /\ pc' = [pc EXCEPT ![s] = "inserted"]
    /\ req' = [req EXCEPT ![s] = r]
    /\ pend' = [pend EXCEPT ![s] = {[req |-> r, status |-> "PENDING", actor |-> s,
                                    at |-> since[s], seq |-> nextSeq]}]
    /\ nextSeq' = nextSeq + 1
    /\ UNCHANGED <<rows, events, lock, obj, since, answer, awsVars, clock, logged, faults>>

\* The unique constraint raises IntegrityError, which nothing translates.
InsertCollides(s) ==
    /\ pc[s] = "checked"
    /\ ExistsForTuple(obj[s].key)
    /\ Close(s, "INTERNAL_ERROR", obj[s].key)
    /\ UNCHANGED <<rows, events, nextSeq, awsVars, clock, logged, faults>>

\* A commit makes the session's row and events visible and releases its locks.
Commit(s, next) ==
    /\ rows' = [rows EXCEPT ![req[s]] = obj[s]]
    /\ events' = events \cup pend[s]
    /\ pend' = [pend EXCEPT ![s] = {}]
    /\ lock' = Unlocked(s)
    /\ pc' = [pc EXCEPT ![s] = next]
    /\ UNCHANGED <<nextSeq, req, obj, since, answer, awsVars, clock, logged, faults>>

CommitCreate(s) == pc[s] = "inserted" /\ Commit(s, "created")

AnswerCreate(s) ==
    /\ pc[s] = "created"
    /\ Close(s, "201", req[s])
    /\ UNCHANGED <<rows, events, nextSeq, awsVars, clock, logged, faults>>

-----------------------------------------------------------------------------
(* approve_request *)

ApproveUnknown(s, r) ==
    /\ rows[r].status = "ABSENT"
    /\ Reject(s, "NOT_FOUND", None)

\* SELECT ... FOR UPDATE is sent: the transaction has begun, the lock may have
\* to be waited for.
BeginApprove(s, r) ==
    /\ pc[s] = "idle"
    /\ rows[r].status # "ABSENT"
    /\ pc' = [pc EXCEPT ![s] = "locking"]
    /\ req' = [req EXCEPT ![s] = r]
    /\ since' = [since EXCEPT ![s] = clock]
    /\ answer' = [answer EXCEPT ![s] = NoAnswer]
    /\ UNCHANGED <<dbVars, awsVars, obj, pend, clock, logged, faults>>

\* Mutant of LockRow: a plain SELECT.
ReadRow(s) ==
    /\ pc[s] = "locking"
    /\ obj' = [obj EXCEPT ![s] = rows[req[s]]]
    /\ pc' = [pc EXCEPT ![s] = "locked"]
    /\ UNCHANGED <<dbVars, req, since, pend, answer, awsVars, clock, logged, faults>>

LockRow(s) ==
    /\ pc[s] = "locking"
    /\ lock[req[s]] = None
    /\ lock' = [lock EXCEPT ![req[s]] = s]
    /\ obj' = [obj EXCEPT ![s] = rows[req[s]]]
    /\ pc' = [pc EXCEPT ![s] = "locked"]
    /\ UNCHANGED <<rows, events, nextSeq, req, since, pend, answer, awsVars, clock,
                   logged, faults>>

RefuseApprove(s) ==
    /\ pc[s] = "locked"
    /\ "APPROVED" \notin ValidTransitions[obj[s].status]
    /\ Close(s, "INVALID_STATE", req[s])
    /\ UNCHANGED <<rows, events, nextSeq, awsVars, clock, logged, faults>>

\* Both transitions, flushed and not committed.
MoveToProvisioning(s) ==
    /\ pc[s] = "locked"
    /\ "APPROVED" \in ValidTransitions[obj[s].status]
    /\ pc' = [pc EXCEPT ![s] = "intent"]
    /\ obj' = [obj EXCEPT ![s].status = "PROVISIONING"]
    /\ pend' = [pend EXCEPT ![s] = {NewEvent(s, 0, "APPROVED", s),
                                    NewEvent(s, 1, "PROVISIONING", "system")}]
    /\ nextSeq' = nextSeq + 2
    /\ UNCHANGED <<rows, events, lock, req, since, answer, awsVars, clock, logged, faults>>

\* Mutant of CommitIntent: the call is made in the transaction that still holds
\* the intent.
KeepIntentOpen(s) ==
    /\ pc[s] = "intent"
    /\ pc' = [pc EXCEPT ![s] = "intended"]
    /\ UNCHANGED <<dbVars, req, obj, since, pend, answer, awsVars, clock, logged, faults>>

\* COMMIT #1: the intent is durable, and the row lock is gone.
CommitIntent(s) == pc[s] = "intent" /\ Commit(s, "intended")

\* The refresh that begins the second transaction, then the call leaves.
CallSecretsManager(s) ==
    /\ pc[s] = "intended"
    /\ pc' = [pc EXCEPT ![s] = "calling"]
    /\ obj' = [obj EXCEPT ![s] = rows[req[s]]]
    /\ since' = [since EXCEPT ![s] = clock]
    /\ calls' = [calls EXCEPT ![req[s]] = @ + 1]
    /\ wire' = wire \cup {[for |-> req[s], by |-> s, name |-> SecretName(rows[req[s]].key)]}
    /\ UNCHANGED <<dbVars, req, pend, answer, secrets, clock, logged, faults>>

\* UPDATE secret_requests and INSERT the outcome's event: the UPDATE waits for
\* the row's lock and keeps it until the commit.
RecordOutcome(s, status, arn, outcome) ==
    /\ pc[s] = "calling"
    /\ lock[req[s]] = None
    /\ status \in ValidTransitions[obj[s].status]
    /\ lock' = [lock EXCEPT ![req[s]] = s]
    /\ pc' = [pc EXCEPT ![s] = "recorded"]
    /\ obj' = [obj EXCEPT ![s].status = status, ![s].arn = arn]
    /\ pend' = [pend EXCEPT ![s] = {NewEvent(s, 0, status, "system")}]
    /\ nextSeq' = nextSeq + 1
    /\ logged' = logged \cup {[req |-> req[s], outcome |-> outcome]}
    /\ UNCHANGED <<rows, events, req, since, answer, awsVars, clock, faults>>

\* Mutants of RecordProvisioned: a secret that bears the name is taken for the
\* one the call created; the request's id is stored where the ARN
\* belongs.
AdoptSecret(s) ==
    /\ pc[s] = "calling"
    /\ \E m \in secrets :
        /\ m.name = SecretName(obj[s].key)
        /\ RecordOutcome(s, "PROVISIONED", m, "provisioned")
StoreRequestId(s) ==
    \E m \in secrets :
        /\ m.for = req[s] /\ m.by = s
        /\ RecordOutcome(s, "PROVISIONED", req[s], "provisioned")

\* The call answers with the ARN of the secret it created.
RecordProvisioned(s) ==
    \E m \in secrets :
        /\ m.for = req[s] /\ m.by = s
        /\ RecordOutcome(s, "PROVISIONED", m, "provisioned")

\* The call raises: the name exists, AWS refuses, or no answer arrives in time,
\* whatever becomes of the call.
RecordFailed(s) == RecordOutcome(s, "FAILED", obj[s].arn, "failed")

\* Mutant of CommitOutcome: the outcome is flushed and never committed.
ForgetOutcome(s) ==
    /\ pc[s] = "recorded"
    /\ pc' = [pc EXCEPT ![s] = "concluded"]
    /\ UNCHANGED <<dbVars, req, obj, since, pend, answer, awsVars, clock, logged, faults>>


CommitOutcome(s) == pc[s] = "recorded" /\ Commit(s, "concluded")

\* Mutant of AnswerApprove: the answer leaves before COMMIT #2.
AnswerEarly(s) ==
    /\ pc[s] = "recorded"
    /\ Close(s, "200", req[s])
    /\ UNCHANGED <<rows, events, nextSeq, awsVars, clock, logged, faults>>

AnswerApprove(s) ==
    /\ pc[s] = "concluded"
    /\ Close(s, "200", req[s])
    /\ UNCHANGED <<rows, events, nextSeq, awsVars, clock, logged, faults>>

-----------------------------------------------------------------------------
(* Secrets Manager: names are unique; a call may be handled at any time     *)
(* after it was sent, or never.                                             *)

NameTaken(n) == \E m \in secrets : m.name = n

SMCreates(m) ==
    /\ ~NameTaken(m.name)
    /\ wire' = wire \ {m}
    /\ secrets' = secrets \cup {m}
    /\ UNCHANGED <<dbVars, handlerVars, calls, clock, logged, faults>>

SMRejects(m) ==
    /\ NameTaken(m.name)
    /\ wire' = wire \ {m}
    /\ UNCHANGED <<dbVars, handlerVars, calls, secrets, clock, logged, faults>>

-----------------------------------------------------------------------------
(* Faults *)

Lost(s, code) ==
    /\ pc[s] # "idle"
    /\ faults < MaxFaults
    /\ faults' = faults + 1
    /\ Close(s, code, None)
    /\ UNCHANGED <<rows, events, nextSeq, awsVars, clock, logged>>

\* A statement, a commit or a refresh fails.  Inside approve_request's try the
\* except branch fails too (the session awaits a rollback), so the row keeps
\* the status it has.
DbError(s) == Lost(s, "INTERNAL_ERROR")

\* The process is killed; nobody is answered.
Crash(s) == Lost(s, "none")

-----------------------------------------------------------------------------

CreateStep(s) == InsertCollides(s) \/ CommitCreate(s) \/ AnswerCreate(s)
                 \/ \E r \in RequestId : InsertRequest(s, r)
ApproveStep(s) == RefuseApprove(s) \/ MoveToProvisioning(s) \/ CommitIntent(s)
                  \/ CallSecretsManager(s) \/ CommitOutcome(s) \/ AnswerApprove(s)
Record(s) == RecordProvisioned(s) \/ RecordFailed(s)

Begin(s) ==
    \/ \E k \in Tuple : \/ CreateForUnknownService(s, k)
                        \/ CreateWithOwnValue(s, k)
                        \/ CreateDuplicate(s, k)
                        \/ CheckCreate(s, k)
    \/ \E r \in RequestId : ApproveUnknown(s, r) \/ BeginApprove(s, r)

Next ==
    \/ Tick
    \/ \E s \in Session :
          Begin(s) \/ CreateStep(s) \/ LockRow(s) \/ ApproveStep(s) \/ Record(s)
          \/ DbError(s) \/ Crash(s)
    \/ \E m \in wire : SMCreates(m) \/ SMRejects(m)

Spec == Init /\ [][Next]_vars

\* A handler that has begun keeps running.  Postgres queues those who wait for
\* a row lock in order of arrival, so nobody is passed over for ever; botocore's
\* timeouts end a call that nobody answers.  Callers, Secrets Manager and faults
\* owe nothing.
FairSpec ==
    /\ Spec
    /\ \A s \in Session : /\ WF_vars(CreateStep(s))
                          /\ WF_vars(ApproveStep(s))
                          /\ SF_vars(LockRow(s))
                          /\ SF_vars(Record(s))
-----------------------------------------------------------------------------
(* Properties *)

TypeOK ==
    /\ rows \in [RequestId -> Row]
    /\ events \subseteq Event
    /\ nextSeq \in Nat
    /\ clock \in 0 .. MaxClock
    /\ lock \in [RequestId -> Session \cup {None}]
    /\ pc \in [Session -> PC]
    /\ req \in [Session -> RequestId \cup {None}]
    /\ obj \in [Session -> Row]
    /\ since \in [Session -> 0 .. MaxClock]
    /\ pend \in [Session -> SUBSET Event]
    /\ answer \in [Session -> [code : Code, about : RequestId \cup Tuple \cup {None}]]
    /\ calls \in [RequestId -> Nat]
    /\ wire \subseteq Secret
    /\ secrets \subseteq Secret
    /\ logged \subseteq [req : RequestId, outcome : Outcome]
    /\ faults \in 0 .. MaxFaults

\* However many approvals race for a request, and wherever handlers die, at
\* most one create_secret call ever leaves for it (the docstring of
\* approve_request: two concurrent approvals cannot both proceed).
SingleProvisioning == \A r \in RequestId : calls[r] <= 1

\* Whatever AWS has been asked for, the database already tells: the request is
\* committed as PROVISIONING or decided, and its trail names the approver whose
\* handler made the call (COMMIT #1 comes before the call).
IntentIsDurable ==
    \A m \in wire \cup secrets :
        /\ rows[m.for].status \in {"PROVISIONING", "PROVISIONED", "FAILED"}
        /\ \E e \in Trail(m.for) : e.status = "APPROVED" /\ e.actor = m.by

\* The steps that lead to a status.
History(status) ==
    CASE status = "ABSENT" -> {}
      [] status = "PENDING" -> {"PENDING"}
      [] OTHER -> {"PENDING", "APPROVED", "PROVISIONING", status}

Stage(status) ==
    CASE status = "PENDING" -> 1
      [] status = "APPROVED" -> 2
      [] status = "PROVISIONING" -> 3
      [] OTHER -> 4

\* The audit trail of a request tells exactly the steps that led to the status
\* of its row, each once, and GET .../events (ordered by timestamp, then seq)
\* lists them in the order in which they happened, whichever transactions
\* overlapped and whenever they began.
TrailTellsTheStatus ==
    \A r \in RequestId :
        /\ {e.status : e \in Trail(r)} = History(rows[r].status)
        /\ \A e, f \in Trail(r) :
              e # f => \/ Stage(e.status) < Stage(f.status) /\ EventBefore(e, f)
                       \/ Stage(f.status) < Stage(e.status) /\ EventBefore(f, e)

\* A PROVISIONED row points at a secret that exists, that its own call created
\* and that bears its own name; no other row points anywhere.  Two requests may
\* ask for one name, since a name may hold a "/".
OwnSecret ==
    \A r \in RequestId :
        IF rows[r].status = "PROVISIONED"
        THEN /\ rows[r].arn \in secrets
             /\ rows[r].arn.for = r
             /\ rows[r].arn.name = SecretName(rows[r].key)
        ELSE rows[r].arn = None

\* A create_secret call that meets a taken name was beaten by a request for
\* another tuple that spells the same name, never by an earlier call for its own
\* request or tuple: ResourceExistsException tells of a foreign secret.
ClashesAreForeign ==
    \A m \in wire, n \in secrets : m.name = n.name => rows[m.for].key # rows[n.for].key

\* There is never a second request for a tuple, though create_request checks
\* first and inserts later (uq_secret_requests_service_logical_env).
UniqueTuple ==
    \A q, r \in RequestId :
        rows[q].status # "ABSENT" /\ rows[q].key = rows[r].key => q = r

\* What a caller was told stays true: the request it created is there with its
\* PENDING event, the request it approved is decided and names it as approver,
\* a refused approval had been preceded by another, a conflict has its row.
AnswerIsTrue(s) ==
    LET about == answer[s].about IN
    CASE answer[s].code = "201" ->
            \E e \in Trail(about) : e.status = "PENDING" /\ e.actor = s
      [] answer[s].code = "200" ->
            /\ rows[about].status \in {"PROVISIONED", "FAILED"}
            /\ \E e \in Trail(about) : e.status = "APPROVED" /\ e.actor = s
      [] answer[s].code = "INVALID_STATE" ->
            \E e \in Trail(about) : e.status = "APPROVED"
      [] answer[s].code = "CONFLICT" -> ExistsForTuple(about)
      [] OTHER -> TRUE

AnswersAreTrue == \A s \in Session : AnswerIsTrue(s)

\* The metric filter counts secret_provisioning_outcome lines, which are written
\* before COMMIT #2: a request is never counted on both sides, a "provisioned"
\* line has its secret, and a decided row has the line that agrees with it.
LoggedOutcomesAgree ==
    /\ \A q \in logged :
          /\ q.outcome = "provisioned" =>
                \E m \in secrets : m.for = q.req
          /\ rows[q.req].status = "PROVISIONED" => q.outcome = "provisioned"
          /\ rows[q.req].status = "FAILED" => q.outcome = "failed"
          /\ \A p \in logged : p.req = q.req => p = q
    /\ \A r \in RequestId :
          rows[r].status \in {"PROVISIONED", "FAILED"} => \E q \in logged : q.req = r

\* s can go on only when t ends its transaction: t holds the row's lock, or has
\* flushed the unique key that s is about to insert.
WaitsFor(s, t) ==
    \/ pc[s] \in {"locking", "calling"} /\ lock[req[s]] = t
    \/ pc[s] = "checked" /\ pc[t] = "inserted" /\ obj[t].key = obj[s].key

\* Whoever waits, waits for a handler that is under way and waits for nobody, so
\* there is no deadlock and no lock whose owner is gone (DECISIONS.md:136 argues
\* from one lock for each approval; the UPDATE of COMMIT #2 takes a second one,
\* and creations wait for keys).
NoChainOfWaits ==
    \A s, t \in Session :
        WaitsFor(s, t) => pc[t] # "idle" /\ \A u \in Session : ~WaitsFor(t, u)

\* A request that is being provisioned has a handler that works on it, but for
\* the requests whose handler was lost after COMMIT #1: one for each at most.
Abandoned ==
    {r \in RequestId :
        /\ rows[r].status = "PROVISIONING"
        /\ \A s \in Session : req[s] = r => pc[s] \notin {"intended", "calling", "recorded"}}
AbandonedByFaultsOnly == Cardinality(Abandoned) <= faults

\* Every handler that begins ends, whoever else approves or creates the same.
HandlersEnd == \A s \in Session : pc[s] # "idle" ~> pc[s] = "idle"

\* A request that is being provisioned is decided, whatever was lost elsewhere,
\* unless the handler that works on it is lost: nothing in the code takes a stuck
\* request up again.
ApprovalsConclude ==
    \A r \in RequestId :
        rows[r].status = "PROVISIONING" ~>
            \/ rows[r].status \in {"PROVISIONED", "FAILED"}
            \/ r \in Abandoned /\ faults > 0

-----------------------------------------------------------------------------
(* What the documents say and the code does not do *)

\* test_create_secret_request_duplicate_returns_409: whoever asks for a tuple
\* that has a request is answered 409 CONFLICT.
DuplicateIsConflict ==
    \A s \in Session : answer[s].about \in Tuple => answer[s].code = "CONFLICT"

\* DECISIONS.md:491 (ADR-014): a FAILED status is committed before the line that
\* reports it is logged.
FailureIsDurableWhenLogged ==
    \A q \in logged : q.outcome = "failed" => rows[q.req].status = "FAILED"
=============================================================================
