-------------------------- MODULE AuditTrail_proofs -------------------------
(***************************************************************************)
(* What the lifecycle shows to others, for every number of handlers,       *)
(* requests, clock ticks and faults: the trail and its order, the log      *)
(* lines that feed the alarm, the answers callers were given, and that all *)
(* of it together is a run of AuditedLifecycle.  Everything here rests on  *)
(* the invariant IInv of SecretRequestLifecycle_proofs.                    *)
(***************************************************************************)
EXTENDS SecretRequestLifecycle_proofs, LifecycleRefinement, FiniteSetTheorems, SequenceTheorems

-----------------------------------------------------------------------------
(* Trails as sets of events *)

\* The events T tell of the steps that led to a status, in their order.
Told(T, status) ==
    /\ {e.status : e \in T} = History(status)
    /\ \A e, f \in T :
          e # f => \/ Stage(e.status) < Stage(f.status) /\ EventBefore(e, f)
                   \/ Stage(f.status) < Stage(e.status) /\ EventBefore(f, e)

LEMMA TrailsAreTold == TrailTellsTheStatus <=> \A r \in RequestId : Told(Trail(r), rows[r].status)
  BY DEF TrailTellsTheStatus, Told

\* The trail of a request that is not there is empty, and begins with its creation.
LEMMA NothingTold == ASSUME NEW T, Told(T, "ABSENT") PROVE T = {}
  BY DEF Told, History

LEMMA CreationTold == ASSUME NEW e, e.status = "PENDING" PROVE Told({e}, "PENDING")
  BY DEF Told, History

LEMMA IntentTold ==
    ASSUME NEW T, Told(T, "PENDING"), NEW a, NEW p, a.status = "APPROVED", p.status = "PROVISIONING",
           EventBefore(a, p), \A e \in T : EventBefore(e, a) /\ EventBefore(e, p)
    PROVE  Told(T \cup {a, p}, "PROVISIONING")
<1>1. \A e \in T : e.status = "PENDING"
  BY DEF Told, History
<1>2. \E e \in T : e.status = "PENDING"
  BY DEF Told, History
<1>3. {e.status : e \in T \cup {a, p}} = History("PROVISIONING")
  BY <1>1, <1>2 DEF History
<1>4. Stage("PENDING") = 1 /\ Stage("APPROVED") = 2 /\ Stage("PROVISIONING") = 3
  BY DEF Stage
<1>5. \A e, f \in T : e = f
  BY <1>1, <1>4 DEF Told
<1>6. ASSUME NEW e \in T \cup {a, p}, NEW f \in T \cup {a, p}, e # f
      PROVE  \/ Stage(e.status) < Stage(f.status) /\ EventBefore(e, f)
             \/ Stage(f.status) < Stage(e.status) /\ EventBefore(f, e)
  BY <1>1, <1>4, <1>5, <1>6
<1> QED BY <1>3, <1>6 DEF Told

LEMMA OutcomeTold ==
    ASSUME NEW T, Told(T, "PROVISIONING"), NEW o, o.status \in {"PROVISIONED", "FAILED"},
           \A e \in T : EventBefore(e, o)
    PROVE  Told(T \cup {o}, o.status)
<1>1. {e.status : e \in T} = {"PENDING", "APPROVED", "PROVISIONING"}
  BY DEF Told, History
<1>2. {e.status : e \in T \cup {o}} = History(o.status)
  BY <1>1 DEF History
<1>3. Stage(o.status) = 4 /\ \A e \in T : Stage(e.status) \in {1, 2, 3}
  BY <1>1 DEF Stage
<1>4. ASSUME NEW e \in T \cup {o}, NEW f \in T \cup {o}, e # f
      PROVE  \/ Stage(e.status) < Stage(f.status) /\ EventBefore(e, f)
             \/ Stage(f.status) < Stage(e.status) /\ EventBefore(f, e)
  BY <1>3, <1>4 DEF Told
<1> QED BY <1>2, <1>4 DEF Told

-----------------------------------------------------------------------------
(* The trail *)

\* Every event of r comes before whatever is dated t or later, and numbered n or later.
Before(r, t, n) == \A e \in Trail(r) : e.at <= t /\ e.seq < n

Entry(s, status, actor, n) ==
    [req |-> req[s], status |-> status, actor |-> actor, at |-> since[s], seq |-> n]

\* What a handler has flushed, which is numbered beyond what is committed for its request.
FlushInv ==
    \A s \in Session :
        /\ pc[s] = "inserted" =>
              \E n \in Nat : n < nextSeq /\ pend[s] = {Entry(s, "PENDING", s, n)}
        /\ pc[s] = "intent" =>
              \E n \in Nat : /\ n + 1 < nextSeq /\ Before(req[s], since[s], n)
                             /\ pend[s] = {Entry(s, "APPROVED", s, n),
                                           Entry(s, "PROVISIONING", "system", n + 1)}
        /\ pc[s] = "recorded" =>
              \E n \in Nat : /\ n < nextSeq /\ Before(req[s], since[s], n)
                             /\ pend[s] = {Entry(s, obj[s].status, "system", n)}

\* A handler that approves a request began after the request was created; one that
\* has called AWS began its second transaction after the intent was committed.
BegunInv ==
    \A s \in Session :
        /\ since[s] <= clock
        /\ pc[s] \in {"locking", "locked"} =>
              \A e \in Trail(req[s]) : e.status = "PENDING" => e.at <= since[s]
        /\ pc[s] = "calling" => \A e \in Trail(req[s]) : e.at <= since[s]

TrailInv ==
    /\ \A e \in events : e.at <= clock /\ e.seq < nextSeq
    /\ FlushInv /\ BegunInv /\ TrailTellsTheStatus

LEMMA EventTypes ==
    ASSUME IInv
    PROVE  /\ nextSeq \in Nat /\ clock \in Nat
           /\ \A s \in Session : since[s] \in Nat /\ req[s] \in RequestId \cup {None}
           /\ \A e \in events : e.at \in Nat /\ e.seq \in Nat
  BY BoundsAssumption DEF IInv, TypeOK, Event

LEMMA TrailInvInit == Init => TrailInv
<1> SUFFICES ASSUME Init PROVE TrailInv
  OBVIOUS
<1>1. FlushInv /\ BegunInv
  BY DEF Init, FlushInv, BegunInv
<1>2. TrailTellsTheStatus
  BY DEF Init, NoRow, TrailTellsTheStatus, Trail, History
<1> QED BY <1>1, <1>2 DEF Init, TrailInv

\* Steps that add no event: a handler ends, or goes on with what it has flushed.
LEMMA QuietKeepsTrail ==
    ASSUME IInv, TrailInv, UNCHANGED <<rows, events, nextSeq>>, clock' \in Nat, clock <= clock',
           \A s \in Session :
              \/ pc'[s] \in {"idle", "checked"} /\ since'[s] <= clock'
              \/ /\ pc'[s] = pc[s] /\ req'[s] = req[s] /\ obj'[s] = obj[s]
                 /\ since'[s] = since[s] /\ pend'[s] = pend[s]
    PROVE  TrailInv'
<1>1. \A r : Trail(r)' = Trail(r)
  BY DEF Trail
<1>2. \A e \in events' : e.at <= clock' /\ e.seq < nextSeq'
  BY EventTypes DEF TrailInv
<1>3. FlushInv'
  <2> SUFFICES ASSUME NEW s \in Session, pc'[s] \in {"inserted", "intent", "recorded"}
               PROVE  FlushInv!(s)'
    BY DEF FlushInv
  <2>1. /\ pc'[s] = pc[s] /\ req'[s] = req[s] /\ obj'[s] = obj[s]
        /\ since'[s] = since[s] /\ pend'[s] = pend[s]
    OBVIOUS
  <2>2. \A st, actor, n : Entry(s, st, actor, n)' = Entry(s, st, actor, n)
    BY <2>1 DEF Entry
  <2>3. \A n : Before(req[s], since[s], n)' <=> Before(req[s], since[s], n)
    BY <1>1, <2>1 DEF Before
  <2> QED BY <2>1, <2>2, <2>3 DEF TrailInv, FlushInv
<1>4. BegunInv'
  BY <1>1, EventTypes DEF TrailInv, BegunInv
<1>5. TrailTellsTheStatus'
  BY <1>1 DEF TrailInv, TrailTellsTheStatus
<1> QED BY <1>2, <1>3, <1>4, <1>5 DEF TrailInv

\* Steps of one handler that add no event and flush none: it moves to another place
\* in its script, where it owes nothing but what BegunInv asks.
LEMMA MovingKeepsTrail ==
    ASSUME IInv, TrailInv, NEW s \in Session, UNCHANGED <<rows, events, nextSeq, clock>>,
           pc'[s] \in {"locking", "locked", "calling"}, since'[s] \in Nat, since'[s] <= clock,
           pc'[s] \in {"locking", "locked"} =>
              \A e \in Trail(req'[s]) : e.status = "PENDING" => e.at <= since'[s],
           pc'[s] = "calling" => \A e \in Trail(req'[s]) : e.at <= since'[s],
           \A t \in Session \ {s} :
              /\ pc'[t] = pc[t] /\ req'[t] = req[t] /\ obj'[t] = obj[t]
              /\ since'[t] = since[t] /\ pend'[t] = pend[t]
    PROVE  TrailInv'
<1>1. \A r : Trail(r)' = Trail(r)
  BY DEF Trail
<1>2. FlushInv'
  <2> SUFFICES ASSUME NEW t \in Session, pc'[t] \in {"inserted", "intent", "recorded"}
               PROVE  FlushInv!(t)'
    BY DEF FlushInv
  <2>1. /\ pc'[t] = pc[t] /\ req'[t] = req[t] /\ obj'[t] = obj[t]
        /\ since'[t] = since[t] /\ pend'[t] = pend[t]
    OBVIOUS
  <2>2. \A st, actor, n : Entry(t, st, actor, n)' = Entry(t, st, actor, n)
    BY <2>1 DEF Entry
  <2>3. \A n : Before(req[t], since[t], n)' <=> Before(req[t], since[t], n)
    BY <1>1, <2>1 DEF Before
  <2> QED BY <2>1, <2>2, <2>3 DEF TrailInv, FlushInv
<1>3. BegunInv'
  BY <1>1 DEF TrailInv, BegunInv
<1>4. TrailTellsTheStatus'
  BY <1>1 DEF TrailInv, TrailTellsTheStatus
<1> QED BY <1>2, <1>3, <1>4 DEF TrailInv

LEMMA ApprovingKeepsTrail ==
    ASSUME IInv, TrailInv, NEW s \in Session,
           (\E r \in RequestId : BeginApprove(s, r)) \/ LockRow(s) \/ CallSecretsManager(s)
    PROVE  TrailInv'
<1>1. ASSUME NEW r \in RequestId, BeginApprove(s, r) PROVE TrailInv'
  <2>1. pc'[s] = "locking" /\ req'[s] = r /\ since'[s] = clock
    BY <1>1 DEF BeginApprove, IInv, TypeOK
  <2>2. \A e \in Trail(r) : e.at <= clock
    BY DEF TrailInv, Trail
  <2> QED BY <1>1, <2>1, <2>2, EventTypes, MovingKeepsTrail DEF BeginApprove, dbVars, IInv, TypeOK
<1>2. CASE LockRow(s)
  <2>1. pc'[s] = "locked" /\ req'[s] = req[s] /\ since'[s] = since[s] /\ pc[s] = "locking"
    BY <1>2 DEF LockRow, IInv, TypeOK
  <2>2. since[s] <= clock /\ \A e \in Trail(req[s]) : e.status = "PENDING" => e.at <= since[s]
    BY <2>1 DEF TrailInv, BegunInv
  <2> QED BY <1>2, <2>1, <2>2, EventTypes, MovingKeepsTrail DEF LockRow, IInv, TypeOK
<1>3. CASE CallSecretsManager(s)
  <2>1. pc'[s] = "calling" /\ req'[s] = req[s] /\ since'[s] = clock
    BY <1>3 DEF CallSecretsManager, IInv, TypeOK
  <2>2. \A e \in Trail(req[s]) : e.at <= clock
    BY DEF TrailInv, Trail
  <2> QED BY <1>3, <2>1, <2>2, EventTypes, MovingKeepsTrail DEF CallSecretsManager, dbVars, IInv, TypeOK
<1> QED BY <1>1, <1>2, <1>3

\* Steps that flush: the numbers drawn are beyond all that is committed.
LEMMA FlushingKeepsTrail ==
    ASSUME IInv, TrailInv, NEW s \in Session, UNCHANGED <<rows, events, clock, since>>,
           nextSeq' \in Nat, nextSeq <= nextSeq', FlushInv!(s)',
           pc'[s] \in {"inserted", "intent", "recorded"},
           \A t \in Session \ {s} :
              pc'[t] = pc[t] /\ req'[t] = req[t] /\ obj'[t] = obj[t] /\ pend'[t] = pend[t]
    PROVE  TrailInv'
<1>1. \A r : Trail(r)' = Trail(r)
  BY DEF Trail
<1>2. \A e \in events' : e.at <= clock' /\ e.seq < nextSeq'
  BY EventTypes DEF TrailInv
<1>3. FlushInv'
  <2> SUFFICES ASSUME NEW t \in Session \ {s} PROVE FlushInv!(t)'
    BY DEF FlushInv
  <2>1. \A st, actor, n : Entry(t, st, actor, n)' = Entry(t, st, actor, n)
    BY DEF Entry
  <2>2. \A n : Before(req[t], since[t], n)' <=> Before(req[t], since[t], n)
    BY <1>1 DEF Before
  <2>3. \A n \in Nat : (n < nextSeq => n < nextSeq') /\ (n + 1 < nextSeq => n + 1 < nextSeq')
    BY EventTypes
  <2>4. FlushInv!(t)
    BY DEF TrailInv, FlushInv
  <2> QED BY <2>1, <2>2, <2>3, <2>4
<1>4. BegunInv'
  BY <1>1 DEF TrailInv, BegunInv
<1>5. TrailTellsTheStatus'
  BY <1>1 DEF TrailInv, TrailTellsTheStatus
<1> QED BY <1>2, <1>3, <1>4, <1>5 DEF TrailInv

LEMMA InsertKeepsTrail ==
    ASSUME IInv, TrailInv, NEW s \in Session, NEW r \in RequestId, InsertRequest(s, r)
    PROVE  TrailInv'
<1>1. pc'[s] = "inserted" /\ req'[s] = r /\ since' = since
  BY DEF InsertRequest, IInv, TypeOK
<1>2. pend'[s] = {[req |-> req'[s], status |-> "PENDING", actor |-> s, at |-> since'[s], seq |-> nextSeq]}
  <2>1. pend'[s] = {[req |-> r, status |-> "PENDING", actor |-> s, at |-> since[s], seq |-> nextSeq]}
    BY DEF InsertRequest, IInv, TypeOK
  <2> QED BY <1>1, <2>1
<1>3. nextSeq' = nextSeq + 1 /\ nextSeq \in Nat
  BY EventTypes DEF InsertRequest
<1>4. FlushInv!(s)'
  BY <1>1, <1>2, <1>3 DEF Entry
<1>5. UNCHANGED <<rows, events, clock, since>>
      /\ \A t \in Session \ {s} :
            pc'[t] = pc[t] /\ req'[t] = req[t] /\ obj'[t] = obj[t] /\ pend'[t] = pend[t]
  BY DEF InsertRequest, IInv, TypeOK
<1> QED BY <1>1, <1>3, <1>4, <1>5, FlushingKeepsTrail

\* The lock is held on a row that is PENDING: its trail is its creation alone, and
\* that is older than this transaction.
LEMMA MoveKeepsTrail ==
    ASSUME IInv, TrailInv, NEW s \in Session, MoveToProvisioning(s)
    PROVE  TrailInv'
<1>1. req[s] \in RequestId /\ rows[req[s]].status = "PENDING"
  <2>1. req[s] \in RequestId /\ obj[s] = rows[req[s]] /\ obj[s] \in Row
    BY DEF MoveToProvisioning, IInv, HandlerInv, TypeOK
  <2>2. \A st \in Status : "APPROVED" \in ValidTransitions[st] => st = "PENDING"
    BY DEF ValidTransitions, Status
  <2> QED BY <2>1, <2>2 DEF MoveToProvisioning, Row
<1>2. \A e \in Trail(req[s]) : e.status = "PENDING"
  BY <1>1, TrailsAreTold DEF TrailInv, Told, History
<1>3. Before(req[s], since[s], nextSeq)
  BY <1>2 DEF TrailInv, BegunInv, MoveToProvisioning, Before, Trail
<1>4. pc'[s] = "intent" /\ UNCHANGED <<req, since, events>>
  BY DEF MoveToProvisioning, IInv, TypeOK
<1>5. pend'[s] = {Entry(s, "APPROVED", s, nextSeq), Entry(s, "PROVISIONING", "system", nextSeq + 1)}
  <2>1. nextSeq + 0 = nextSeq
    BY EventTypes
  <2> QED BY <2>1 DEF MoveToProvisioning, NewEvent, Entry, IInv, TypeOK
<1>6. \A st, actor, n : Entry(s, st, actor, n)' = Entry(s, st, actor, n)
  BY <1>4 DEF Entry
<1>7. \A n : Before(req[s], since[s], n)' <=> Before(req[s], since[s], n)
  BY <1>4 DEF Before, Trail
<1>8. nextSeq' = nextSeq + 2 /\ nextSeq \in Nat
  BY EventTypes DEF MoveToProvisioning
<1>9. FlushInv!(s)'
  BY <1>3, <1>4, <1>5, <1>6, <1>7, <1>8
<1>10. UNCHANGED <<rows, events, clock, since>>
       /\ \A t \in Session \ {s} :
             pc'[t] = pc[t] /\ req'[t] = req[t] /\ obj'[t] = obj[t] /\ pend'[t] = pend[t]
  BY DEF MoveToProvisioning, IInv, TypeOK
<1> QED BY <1>4, <1>8, <1>9, <1>10, FlushingKeepsTrail

LEMMA RecordKeepsTrail ==
    ASSUME IInv, TrailInv, NEW s \in Session, NEW status \in Status, NEW arn, NEW outcome,
           RecordOutcome(s, status, arn, outcome)
    PROVE  TrailInv'
<1>1. pc'[s] = "recorded" /\ UNCHANGED <<req, since, events>> /\ obj'[s].status = status
  BY DEF RecordOutcome, IInv, TypeOK, Row
<1>2. Before(req[s], since[s], nextSeq)
  BY DEF TrailInv, BegunInv, RecordOutcome, Before, Trail
<1>3. pend'[s] = {Entry(s, status, "system", nextSeq)}
  <2>1. nextSeq + 0 = nextSeq
    BY EventTypes
  <2> QED BY <2>1 DEF RecordOutcome, NewEvent, Entry, IInv, TypeOK
<1>4. \A st, actor, n : Entry(s, st, actor, n)' = Entry(s, st, actor, n)
  BY <1>1 DEF Entry
<1>5. \A n : Before(req[s], since[s], n)' <=> Before(req[s], since[s], n)
  BY <1>1 DEF Before, Trail
<1>6. nextSeq' = nextSeq + 1 /\ nextSeq \in Nat
  BY EventTypes DEF RecordOutcome
<1>7. FlushInv!(s)'
  BY <1>1, <1>2, <1>3, <1>4, <1>5, <1>6
<1>8. UNCHANGED <<rows, events, clock, since>>
      /\ \A t \in Session \ {s} :
            pc'[t] = pc[t] /\ req'[t] = req[t] /\ obj'[t] = obj[t] /\ pend'[t] = pend[t]
  BY DEF RecordOutcome, IInv, TypeOK
<1> QED BY <1>1, <1>6, <1>7, <1>8, FlushingKeepsTrail

\* The three commits: what they add, and to which trail.
LEMMA CommitAdds ==
    ASSUME IInv, TrailInv, NEW s \in Session, NEW next, Commit(s, next),
           pc[s] \in {"inserted", "intent", "recorded"}
    PROVE  /\ req[s] \in RequestId
           /\ \A e \in pend[s] : e.req = req[s] /\ e.at <= clock /\ e.seq < nextSeq
           /\ Trail(req[s])' = Trail(req[s]) \cup pend[s]
           /\ rows'[req[s]] = obj[s]
           /\ \A r \in RequestId \ {req[s]} : Trail(r)' = Trail(r) /\ rows'[r] = rows[r]
<1>1. req[s] \in RequestId
  BY DEF IInv, HandlerInv
<1>2. \A e \in pend[s] : e.req = req[s] /\ e.at = since[s] /\ e.seq < nextSeq
  <2>1. FlushInv!(s)
    BY DEF TrailInv, FlushInv
  <2>2. \A n \in Nat : n + 1 < nextSeq => n < nextSeq
    BY EventTypes
  <2> QED BY <2>1, <2>2 DEF Entry
<1>3. since[s] <= clock
  BY DEF TrailInv, BegunInv
<1>4. events' = events \cup pend[s] /\ rows' = [rows EXCEPT ![req[s]] = obj[s]] /\ req' = req
  BY DEF Commit
<1>5. Trail(req[s])' = Trail(req[s]) \cup pend[s] /\ \A r \in RequestId \ {req[s]} : Trail(r)' = Trail(r)
  BY <1>2, <1>4 DEF Trail
<1>6. rows'[req[s]] = obj[s] /\ \A r \in RequestId \ {req[s]} : rows'[r] = rows[r]
  BY <1>1, <1>4 DEF IInv, TypeOK
<1> QED BY <1>1, <1>2, <1>3, <1>5, <1>6

\* Whoever commits to a row has it to itself: others have not begun with it, wait for
\* its lock, or are done with it.
LEMMA CommitIsAlone ==
    ASSUME IInv, NEW s \in Session, pc[s] \in {"inserted", "intent", "recorded"},
           NEW t \in Session \ {s}, req[t] = req[s]
    PROVE  /\ pc[t] \notin {"inserted", "intent", "recorded", "calling", "locked"}
           /\ pc[t] = "locking" => pc[s] # "inserted"
<1>1. pc[s] # "inserted" => lock[req[s]] = s
  BY DEF IInv, LockInv, HoldsLock
<1>2. pc[t] \in {"intent", "recorded", "locked"} => lock[req[s]] = t
  BY DEF IInv, LockInv, HoldsLock
<1>3. pc[s] = "inserted" => rows[req[s]].status = "ABSENT"
  BY DEF IInv, HandlerInv
<1>4. pc[t] \in {"intent", "recorded", "locked", "calling", "locking"} => rows[req[s]].status # "ABSENT"
  BY DEF IInv, HandlerInv, Approving
<1>5. pc[t] # "inserted"
  BY DEF IInv, OwnerInv, HandlerInv, Approving
<1>6. pc[t] # "calling"
  BY <1>3, <1>4 DEF IInv, OwnerInv, HandlerInv, Provisioning
<1> QED BY <1>1, <1>2, <1>3, <1>4, <1>5, <1>6

LEMMA CommitKeepsTrail ==
    ASSUME IInv, TrailInv, NEW s \in Session, NEW next \in {"created", "intended", "concluded"},
           Commit(s, next), pc[s] \in {"inserted", "intent", "recorded"},
           pc[s] # "inserted" => \A e \in pend[s] : e.status # "PENDING",
           Told(Trail(req[s]) \cup pend[s], obj[s].status)
    PROVE  TrailInv'
<1>0. /\ req[s] \in RequestId
      /\ \A e \in pend[s] : e.req = req[s] /\ e.at <= clock /\ e.seq < nextSeq
      /\ rows'[req[s]] = obj[s]
      /\ \A r \in RequestId \ {req[s]} : Trail(r)' = Trail(r) /\ rows'[r] = rows[r]
  BY CommitAdds
<1>1. UNCHANGED <<clock, nextSeq, req, obj, since>> /\ events' = events \cup pend[s]
      /\ pc'[s] = next /\ \A t \in Session \ {s} : pc'[t] = pc[t] /\ pend'[t] = pend[t]
  BY DEF Commit, IInv, TypeOK
<1>2. \A e \in events' : e.at <= clock' /\ e.seq < nextSeq'
  BY <1>0, <1>1 DEF TrailInv
<1>3. \A r \in RequestId : Trail(r)' = IF r = req[s] THEN Trail(r) \cup pend[s] ELSE Trail(r)
  BY <1>0, <1>1 DEF Trail
<1>4. FlushInv'
  <2> SUFFICES ASSUME NEW t \in Session, pc'[t] \in {"inserted", "intent", "recorded"}
               PROVE  FlushInv!(t)'
    BY DEF FlushInv
  <2>1. t # s /\ pc'[t] = pc[t] /\ pend'[t] = pend[t] /\ req[t] \in RequestId
    BY <1>1 DEF IInv, HandlerInv
  <2>2. req[t] # req[s]
    BY <2>1, CommitIsAlone
  <2>3. \A st, actor, n : Entry(t, st, actor, n)' = Entry(t, st, actor, n)
    BY <1>1 DEF Entry
  <2>4. Trail(req[t])' = Trail(req[t])
    BY <1>1, <1>3, <2>1, <2>2
  <2>5. \A n : Before(req[t], since[t], n)' <=> Before(req[t], since[t], n)
    BY <1>1, <2>4 DEF Before
  <2> QED BY <1>1, <2>1, <2>3, <2>5 DEF TrailInv, FlushInv
<1>5. BegunInv'
  <2> SUFFICES ASSUME NEW t \in Session PROVE BegunInv!(t)'
    BY DEF BegunInv
  <2>1. BegunInv!(t)
    BY DEF TrailInv, BegunInv
  <2>2. ASSUME pc'[t] \in {"locking", "locked", "calling"} PROVE BegunInv!(t)'
    <3>1. t # s /\ pc'[t] = pc[t] /\ req[t] \in RequestId
      BY <1>1, <2>2 DEF IInv, HandlerInv
    <3>2. CASE req[t] = req[s]
      <4>1. pc[t] = "locking" /\ pc[s] # "inserted"
        BY <2>2, <3>1, <3>2, CommitIsAlone
      <4>2. Trail(req[t])' = Trail(req[t]) \cup pend[s]
        BY <1>1, <1>3, <3>1, <3>2
      <4> QED BY <1>1, <2>1, <3>1, <4>1, <4>2
    <3>3. CASE req[t] # req[s]
      <4>1. Trail(req[t])' = Trail(req[t])
        BY <1>1, <1>3, <3>1, <3>3
      <4> QED BY <1>1, <2>1, <3>1, <4>1
    <3> QED BY <3>2, <3>3
  <2> QED BY <1>1, <2>1, <2>2
<1>6. TrailTellsTheStatus'
  <2>1. \A r \in RequestId : Told(Trail(r), rows[r].status)
    BY TrailsAreTold DEF TrailInv
  <2>2. ASSUME NEW r \in RequestId PROVE Told(Trail(r)', rows'[r].status)
    BY <1>0, <1>3, <2>1
  <2> QED BY <2>2 DEF TrailTellsTheStatus, Told, EventBefore
<1> QED BY <1>2, <1>4, <1>5, <1>6 DEF TrailInv

LEMMA EntryComesLast ==
    ASSUME IInv, NEW s \in Session, NEW n \in Nat, Before(req[s], since[s], n),
           NEW st, NEW actor, NEW m \in Nat, n <= m
    PROVE  \A e \in Trail(req[s]) :
              EventBefore(e, Entry(s, st, actor, m)) /\ ~EventBefore(Entry(s, st, actor, m), e)
<1> SUFFICES ASSUME NEW e \in Trail(req[s])
             PROVE  EventBefore(e, Entry(s, st, actor, m)) /\ ~EventBefore(Entry(s, st, actor, m), e)
  OBVIOUS
<1>1. e.at <= since[s] /\ e.seq < n /\ e.at \in Nat /\ e.seq \in Nat /\ since[s] \in Nat
  BY EventTypes DEF Before, Trail
<1>2. Entry(s, st, actor, m).at = since[s] /\ Entry(s, st, actor, m).seq = m
  BY DEF Entry
<1>3. e.seq < m
  BY <1>1
<1> QED BY <1>1, <1>2, <1>3 DEF EventBefore

\* What a commit adds continues the trail.
LEMMA CommittingKeepsTrail ==
    ASSUME IInv, TrailInv, NEW s \in Session, CommitCreate(s) \/ CommitIntent(s) \/ CommitOutcome(s)
    PROVE  TrailInv'
<1>0. req[s] \in RequestId /\ Told(Trail(req[s]), rows[req[s]].status) /\ FlushInv!(s)
  <2>1. pc[s] \in {"inserted", "intent", "recorded"}
    BY DEF CommitCreate, CommitIntent, CommitOutcome
  <2> QED BY <2>1, TrailsAreTold DEF TrailInv, FlushInv, IInv, HandlerInv
<1>2. CASE CommitCreate(s)
  <2>1. pc[s] = "inserted" /\ rows[req[s]].status = "ABSENT" /\ obj[s].status = "PENDING"
    BY <1>2 DEF CommitCreate, IInv, HandlerInv
  <2>2. PICK n \in Nat : pend[s] = {Entry(s, "PENDING", s, n)}
    BY <1>0, <2>1
  <2>3. Trail(req[s]) = {}
    BY <1>0, <2>1, NothingTold
  <2>4. Told(pend[s], "PENDING")
    BY <2>2, CreationTold DEF Entry
  <2>5. Trail(req[s]) \cup pend[s] = pend[s]
    BY <2>3
  <2> QED BY <1>2, <2>1, <2>4, <2>5, CommitKeepsTrail DEF CommitCreate
<1>3. CASE CommitIntent(s)
  <2>1. pc[s] = "intent" /\ rows[req[s]].status = "PENDING" /\ obj[s].status = "PROVISIONING"
    BY <1>3 DEF CommitIntent, IInv, HandlerInv
  <2>2. PICK n \in Nat : /\ Before(req[s], since[s], n)
                         /\ pend[s] = {Entry(s, "APPROVED", s, n), Entry(s, "PROVISIONING", "system", n + 1)}
    BY <1>0, <2>1
  <2> DEFINE a == Entry(s, "APPROVED", s, n)
             p == Entry(s, "PROVISIONING", "system", n + 1)
  <2>3. \A e \in Trail(req[s]) : EventBefore(e, a) /\ EventBefore(e, p)
    BY <2>2, EntryComesLast
  <2>4. a.status = "APPROVED" /\ p.status = "PROVISIONING" /\ EventBefore(a, p)
    BY DEF Entry, EventBefore
  <2>5. pend[s] = {a, p}
    BY <2>2
  <2> HIDE DEF a, p
  <2>6. Told(Trail(req[s]) \cup pend[s], "PROVISIONING")
    BY <1>0, <2>1, <2>3, <2>4, <2>5, IntentTold
  <2>7. \A e \in pend[s] : e.status # "PENDING"
    BY <2>4, <2>5
  <2> QED BY <1>3, <2>1, <2>6, <2>7, CommitKeepsTrail DEF CommitIntent
<1>4. CASE CommitOutcome(s)
  <2>1. pc[s] = "recorded" /\ rows[req[s]].status = "PROVISIONING" /\ obj[s].status \in {"PROVISIONED", "FAILED"}
    BY <1>4 DEF CommitOutcome, IInv, HandlerInv, Provisioning
  <2>2. PICK n \in Nat : /\ Before(req[s], since[s], n)
                         /\ pend[s] = {Entry(s, obj[s].status, "system", n)}
    BY <1>0, <2>1
  <2> DEFINE o == Entry(s, obj[s].status, "system", n)
  <2>3. \A e \in Trail(req[s]) : EventBefore(e, o)
    BY <2>2, EntryComesLast
  <2>4. o.status = obj[s].status
    BY DEF Entry
  <2>5. pend[s] = {o}
    BY <2>2
  <2> HIDE DEF o
  <2>6. Told(Trail(req[s]) \cup pend[s], obj[s].status)
    BY <1>0, <2>1, <2>3, <2>4, <2>5, OutcomeTold
  <2>7. \A e \in pend[s] : e.status # "PENDING"
    BY <2>1, <2>4, <2>5
  <2> QED BY <1>4, <2>1, <2>6, <2>7, CommitKeepsTrail DEF CommitOutcome
<1> QED BY <1>2, <1>3, <1>4
-----------------------------------------------------------------------------
(* The steps of the system, sorted by what they do to a handler *)

\* A handler ends: it is lost, or gives an answer for which it has grounds.
Ends(s, code, about) ==
    /\ Close(s, code, about)
    /\ code = "201" => pc[s] = "created" /\ about = req[s]
    /\ code = "200" => pc[s] = "concluded" /\ about = req[s]
    /\ code = "INVALID_STATE" => /\ pc[s] = "locked" /\ about = req[s]
                                 /\ "APPROVED" \notin ValidTransitions[obj[s].status]
    /\ code = "CONFLICT" => about \in Tuple /\ ExistsForTuple(about)
    /\ UNCHANGED <<rows, events, nextSeq, awsVars, clock, logged>>

\* Steps of no handler.
Elsewhere ==
    /\ UNCHANGED <<rows, events, nextSeq, handlerVars, logged>>
    /\ UNCHANGED awsVars \/ \E m \in wire : SMCreates(m) \/ SMRejects(m)
    /\ clock' \in Nat /\ clock <= clock'

Committing(s) == CommitCreate(s) \/ CommitIntent(s) \/ CommitOutcome(s)

LEMMA ElsewhereSteps ==
    ASSUME IInv, Tick \/ (\E m \in wire : SMCreates(m) \/ SMRejects(m)) \/ UNCHANGED vars
    PROVE  Elsewhere
  BY EventTypes DEF Tick, SMCreates, SMRejects, Elsewhere, vars, dbVars, handlerVars, awsVars

LEMMA Steps ==
    ASSUME IInv, [Next]_vars
    PROVE  \/ Elsewhere
           \/ \E s \in Session :
                \/ \E code, about : Ends(s, code, about)
                \/ \E k \in Tuple : CheckCreate(s, k)
                \/ \E r \in RequestId : InsertRequest(s, r) \/ BeginApprove(s, r)
                \/ LockRow(s) \/ MoveToProvisioning(s) \/ CallSecretsManager(s)
                \/ Record(s) \/ Committing(s)
<1>1. ASSUME NEW s \in Session, NEW code \in {"NOT_FOUND", "VALIDATION_ERROR", "CONFLICT"}, NEW about,
             code = "CONFLICT" => about \in Tuple /\ ExistsForTuple(about), Reject(s, code, about)
      PROVE  Ends(s, code, about)
  BY <1>1 DEF Reject, Ends
<1>2. ASSUME NEW s \in Session, Begin(s)
      PROVE  \/ \E code, about : Ends(s, code, about)
             \/ \E k \in Tuple : CheckCreate(s, k)
             \/ \E r \in RequestId : BeginApprove(s, r)
  BY <1>1, <1>2 DEF Begin, CreateForUnknownService, CreateWithOwnValue, CreateDuplicate, ApproveUnknown
<1>3. ASSUME NEW s \in Session,
             InsertCollides(s) \/ AnswerCreate(s) \/ RefuseApprove(s) \/ AnswerApprove(s)
             \/ DbError(s) \/ Crash(s)
      PROVE  \E code, about : Ends(s, code, about)
  BY <1>3 DEF InsertCollides, AnswerCreate, RefuseApprove, AnswerApprove, DbError, Crash, Lost, Ends
<1> QED BY <1>2, <1>3, ElsewhereSteps DEF Next, CreateStep, ApproveStep, Committing

LEMMA EndingKeepsTrail ==
    ASSUME IInv, TrailInv, NEW s \in Session, NEW code, NEW about, Ends(s, code, about)
    PROVE  TrailInv'
<1>1. ASSUME NEW t \in Session
      PROVE  \/ pc'[t] = "idle" /\ since'[t] = 0
             \/ /\ pc'[t] = pc[t] /\ req'[t] = req[t] /\ obj'[t] = obj[t]
                /\ since'[t] = since[t] /\ pend'[t] = pend[t]
  BY DEF Ends, Close, IInv, TypeOK
<1> QED BY <1>1, EventTypes, QuietKeepsTrail DEF Ends

LEMMA CheckKeepsTrail ==
    ASSUME IInv, TrailInv, NEW s \in Session, NEW k \in Tuple, CheckCreate(s, k)
    PROVE  TrailInv'
<1>1. ASSUME NEW t \in Session
      PROVE  \/ pc'[t] = "checked" /\ since'[t] = clock
             \/ /\ pc'[t] = pc[t] /\ req'[t] = req[t] /\ obj'[t] = obj[t]
                /\ since'[t] = since[t] /\ pend'[t] = pend[t]
  BY DEF CheckCreate, IInv, TypeOK
<1> QED BY <1>1, EventTypes, QuietKeepsTrail DEF CheckCreate, dbVars

LEMMA TrailInvStep == IInv /\ TrailInv /\ [Next]_vars => TrailInv'
<1> SUFFICES ASSUME IInv, TrailInv, [Next]_vars PROVE TrailInv'
  OBVIOUS
<1>1. CASE Elsewhere
  BY <1>1, QuietKeepsTrail DEF Elsewhere, handlerVars
<1>2. ASSUME NEW s \in Session, Record(s) PROVE TrailInv'
  BY <1>2, RecordKeepsTrail DEF Record, RecordProvisioned, RecordFailed, Status
<1>3. ASSUME NEW s \in Session, MoveToProvisioning(s) \/ Committing(s) PROVE TrailInv'
  BY <1>3, MoveKeepsTrail, CommittingKeepsTrail DEF Committing
<1> QED BY <1>1, <1>2, <1>3, Steps, EndingKeepsTrail, CheckKeepsTrail, InsertKeepsTrail,
           ApprovingKeepsTrail

\* list_for_request and its ORDER BY timestamp, seq: whichever transactions overlap, the
\* trail tells the steps that led to the row's status, each once, in the order they happened.
THEOREM TrailTells == Spec => []TrailTellsTheStatus
<1>1. TrailInv => TrailTellsTheStatus
  BY DEF TrailInv
<1> QED BY <1>1, InitIInv, NextIInv, TrailInvInit, TrailInvStep, PTL DEF Spec
-----------------------------------------------------------------------------
(* The log lines *)

\* The line a handler has written about its request before COMMIT #2.
Line(s) == [req |-> req[s],
            outcome |-> IF obj[s].status = "PROVISIONED" THEN "provisioned" ELSE "failed"]

\* No line before the outcome is recorded; the one there is then is the handler's own.
LineInv ==
    \A s \in Session :
        /\ pc[s] \in {"intended", "calling"} => \A q \in logged : q.req # req[s]
        /\ pc[s] = "recorded" => Line(s) \in logged

LogInv ==
    /\ \A q \in logged : rows[q.req].status \in {"PROVISIONING", "PROVISIONED", "FAILED"}
    /\ LineInv /\ LoggedOutcomesAgree

LEMMA LogInvInit == Init => LogInv
  BY DEF Init, NoRow, LogInv, LineInv, LoggedOutcomesAgree

\* Steps that write no row and no line.
LEMMA QuietKeepsLog ==
    ASSUME IInv, LogInv, UNCHANGED <<rows, logged>>, secrets \subseteq secrets',
           \A s \in Session :
              \/ pc'[s] \notin Provisioning
              \/ pc'[s] = pc[s] /\ req'[s] = req[s] /\ obj'[s] = obj[s]
              \/ pc[s] = "intended" /\ pc'[s] = "calling" /\ req'[s] = req[s]
    PROVE  LogInv'
<1>1. LineInv'
  <2> SUFFICES ASSUME NEW s \in Session, pc'[s] \in Provisioning PROVE LineInv!(s)'
    BY DEF LineInv, Provisioning
  <2>1. CASE pc'[s] = pc[s] /\ req'[s] = req[s] /\ obj'[s] = obj[s]
    <3>1. Line(s)' = Line(s)
      BY <2>1 DEF Line
    <3> QED BY <2>1, <3>1 DEF LogInv, LineInv
  <2>2. CASE pc[s] = "intended" /\ pc'[s] = "calling" /\ req'[s] = req[s]
    BY <2>2 DEF LogInv, LineInv
  <2> QED BY <2>1, <2>2
<1>2. LoggedOutcomesAgree'
  BY DEF LogInv, LoggedOutcomesAgree
<1> QED BY <1>1, <1>2 DEF LogInv

\* The line is the first for its request, and agrees with what is flushed.
LEMMA RecordKeepsLog ==
    ASSUME IInv, LogInv, NEW s \in Session, Record(s)
    PROVE  LogInv'
<1> DEFINE new(outcome) == [req |-> req[s], outcome |-> outcome]
<1>1. PICK status \in {"PROVISIONED", "FAILED"}, outcome \in Outcome :
           /\ \E arn : RecordOutcome(s, status, arn, outcome)
           /\ outcome = IF status = "PROVISIONED" THEN "provisioned" ELSE "failed"
           /\ outcome = "provisioned" => \E m \in secrets : m.for = req[s]
  BY DEF Record, RecordProvisioned, RecordFailed, Outcome
<1>2. /\ pc[s] = "calling" /\ pc'[s] = "recorded" /\ UNCHANGED <<rows, req, secrets>>
      /\ logged' = logged \cup {new(outcome)} /\ obj'[s].status = status
      /\ \A t \in Session \ {s} : pc'[t] = pc[t] /\ obj'[t] = obj[t]
  BY <1>1 DEF RecordOutcome, IInv, TypeOK, Row, awsVars
<1>3. req[s] \in RequestId /\ rows[req[s]].status = "PROVISIONING" /\ \A q \in logged : q.req # req[s]
  BY <1>2 DEF IInv, HandlerInv, Provisioning, LogInv, LineInv
<1>4. \A q \in logged' : rows'[q.req].status \in {"PROVISIONING", "PROVISIONED", "FAILED"}
  BY <1>2, <1>3 DEF LogInv
<1>5. LineInv'
  <2> SUFFICES ASSUME NEW t \in Session PROVE LineInv!(t)'
    BY DEF LineInv
  <2>1. CASE t = s
    <3>1. Line(s)' = new(outcome)
      BY <1>1, <1>2 DEF Line
    <3> QED BY <1>2, <2>1, <3>1
  <2>2. CASE t # s
    <3>1. pc'[t] = pc[t] /\ req'[t] = req[t] /\ Line(t)' = Line(t)
      BY <1>2, <2>2 DEF Line
    <3>2. pc[t] \in Provisioning => req[t] # req[s]
      BY <1>2, <2>2 DEF IInv, OwnerInv, Provisioning
    <3> QED BY <1>2, <3>1, <3>2 DEF LogInv, LineInv, Provisioning
  <2> QED BY <2>1, <2>2
<1>6. LoggedOutcomesAgree'
  <2>1. ASSUME NEW q \in logged'
        PROVE  /\ q.outcome = "provisioned" => \E m \in secrets' : m.for = q.req
               /\ rows'[q.req].status = "PROVISIONED" => q.outcome = "provisioned"
               /\ rows'[q.req].status = "FAILED" => q.outcome = "failed"
               /\ \A p \in logged' : p.req = q.req => p = q
    BY <1>1, <1>2, <1>3 DEF LogInv, LoggedOutcomesAgree
  <2>2. ASSUME NEW r \in RequestId, rows'[r].status \in {"PROVISIONED", "FAILED"}
        PROVE  \E q \in logged' : q.req = r
    BY <1>2, <2>2 DEF LogInv, LoggedOutcomesAgree
  <2> QED BY <2>1, <2>2 DEF LoggedOutcomesAgree
<1> QED BY <1>4, <1>5, <1>6 DEF LogInv

\* What a commit does to one row, whoever else is at work.
LEMMA CommitMoves ==
    ASSUME IInv, NEW s \in Session, Committing(s)
    PROVE  /\ req[s] \in RequestId /\ rows' = [rows EXCEPT ![req[s]] = obj[s]]
           /\ UNCHANGED <<req, obj, answer, logged, secrets>> /\ events' = events \cup pend[s]
           /\ \A t \in Session \ {s} : pc'[t] = pc[t]
           /\ \/ /\ pc[s] = "inserted" /\ pc'[s] = "created"
                 /\ rows[req[s]].status = "ABSENT" /\ obj[s].status = "PENDING"
              \/ /\ pc[s] = "intent" /\ pc'[s] = "intended"
                 /\ rows[req[s]].status = "PENDING" /\ obj[s].status = "PROVISIONING"
              \/ /\ pc[s] = "recorded" /\ pc'[s] = "concluded"
                 /\ rows[req[s]].status = "PROVISIONING" /\ obj[s].status \in {"PROVISIONED", "FAILED"}
<1>1. pc[s] \in {"inserted", "intent", "recorded"} /\ \E next : Commit(s, next)
  BY DEF Committing, CommitCreate, CommitIntent, CommitOutcome
<1>2. /\ req[s] \in RequestId
      /\ pc[s] = "inserted" => rows[req[s]].status = "ABSENT" /\ obj[s].status = "PENDING"
      /\ pc[s] = "intent" => rows[req[s]].status = "PENDING" /\ obj[s].status = "PROVISIONING"
      /\ pc[s] = "recorded" => rows[req[s]].status = "PROVISIONING" /\ obj[s].status \in {"PROVISIONED", "FAILED"}
  BY <1>1 DEF IInv, HandlerInv, Provisioning
<1>3. \/ pc[s] = "inserted" /\ pc'[s] = "created"
      \/ pc[s] = "intent" /\ pc'[s] = "intended"
      \/ pc[s] = "recorded" /\ pc'[s] = "concluded"
  BY DEF Committing, CommitCreate, CommitIntent, CommitOutcome, Commit, IInv, TypeOK
<1>4. /\ rows' = [rows EXCEPT ![req[s]] = obj[s]] /\ events' = events \cup pend[s]
      /\ UNCHANGED <<req, obj, answer, logged, secrets>> /\ \A t \in Session \ {s} : pc'[t] = pc[t]
  BY <1>1 DEF Commit, awsVars, IInv, TypeOK
<1> QED BY <1>2, <1>3, <1>4

LEMMA CommittingKeepsLog ==
    ASSUME IInv, LogInv, NEW s \in Session, Committing(s)
    PROVE  LogInv'
<1>1. /\ req[s] \in RequestId /\ rows'[req[s]] = obj[s]
      /\ \A r \in RequestId \ {req[s]} : rows'[r] = rows[r]
      /\ UNCHANGED <<req, obj, logged, secrets>> /\ \A t \in Session \ {s} : pc'[t] = pc[t]
      /\ \A q \in logged : q.req \in RequestId /\ q.outcome \in Outcome
  BY CommitMoves DEF IInv, TypeOK
<1>2. ASSUME NEW t \in Session PROVE LineInv!(t)'
  <2>1. Line(t)' = Line(t)
    BY <1>1 DEF Line
  <2>2. LineInv!(t)
    BY DEF LogInv, LineInv
  <2>3. CASE t = s
    <3>1. pc'[s] = "intended" => rows[req[s]].status = "PENDING"
      BY CommitMoves
    <3>2. pc'[s] \in {"created", "intended", "concluded"}
      BY CommitMoves
    <3> QED BY <1>1, <2>3, <3>1, <3>2 DEF LogInv
  <2>4. CASE t # s
    BY <1>1, <2>1, <2>2, <2>4
  <2> QED BY <2>3, <2>4
<1>3. CASE pc[s] \in {"inserted", "intent"}
  <2>1. rows[req[s]].status \in {"ABSENT", "PENDING"} /\ obj[s].status \in {"PENDING", "PROVISIONING"}
    BY <1>3, CommitMoves
  <2>2. \A q \in logged : q.req # req[s]
    BY <2>1 DEF LogInv
  <2>3. LoggedOutcomesAgree'
    BY <1>1, <2>1, <2>2 DEF LogInv, LoggedOutcomesAgree
  <2>4. \A q \in logged' : rows'[q.req].status \in {"PROVISIONING", "PROVISIONED", "FAILED"}
    BY <1>1, <2>2 DEF LogInv
  <2> QED BY <1>2, <2>3, <2>4 DEF LogInv, LineInv
<1>4. CASE pc[s] = "recorded"
  <2>1. obj[s].status \in {"PROVISIONED", "FAILED"}
    BY <1>4, CommitMoves
  <2>2. Line(s) \in logged /\ \A q \in logged : q.req = req[s] => q = Line(s)
    BY <1>4 DEF LogInv, LineInv, LoggedOutcomesAgree, Line
  <2>3. Line(s).req = req[s]
        /\ Line(s).outcome = IF obj[s].status = "PROVISIONED" THEN "provisioned" ELSE "failed"
    BY DEF Line
  <2>4. ASSUME NEW q \in logged'
        PROVE  /\ q.outcome = "provisioned" => \E m \in secrets' : m.for = q.req
               /\ rows'[q.req].status = "PROVISIONED" => q.outcome = "provisioned"
               /\ rows'[q.req].status = "FAILED" => q.outcome = "failed"
               /\ \A p \in logged' : p.req = q.req => p = q
    <3>1. CASE q.req = req[s]
      BY <1>1, <2>1, <2>2, <2>3, <3>1 DEF LogInv, LoggedOutcomesAgree
    <3>2. CASE q.req # req[s]
      BY <1>1, <3>2 DEF LogInv, LoggedOutcomesAgree
    <3> QED BY <3>1, <3>2
  <2>5. ASSUME NEW r \in RequestId, rows'[r].status \in {"PROVISIONED", "FAILED"}
        PROVE  \E q \in logged' : q.req = r
    BY <1>1, <2>2, <2>3, <2>5 DEF LogInv, LoggedOutcomesAgree
  <2>6. LoggedOutcomesAgree'
    BY <2>4, <2>5 DEF LoggedOutcomesAgree
  <2>7. \A q \in logged' : rows'[q.req].status \in {"PROVISIONING", "PROVISIONED", "FAILED"}
    BY <1>1, <2>1 DEF LogInv
  <2> QED BY <1>2, <2>6, <2>7 DEF LogInv, LineInv
<1> QED BY <1>3, <1>4, CommitMoves

LEMMA LogInvStep == IInv /\ LogInv /\ [Next]_vars => LogInv'
<1> SUFFICES ASSUME IInv, LogInv, [Next]_vars PROVE LogInv'
  OBVIOUS
<1>1. CASE Elsewhere
  BY <1>1, QuietKeepsLog DEF Elsewhere, handlerVars, awsVars, SMCreates, SMRejects
<1>2. ASSUME NEW s \in Session,
             \/ \E code, about : Ends(s, code, about)
             \/ \E k \in Tuple : CheckCreate(s, k)
             \/ \E r \in RequestId : InsertRequest(s, r) \/ BeginApprove(s, r)
             \/ LockRow(s) \/ MoveToProvisioning(s) \/ CallSecretsManager(s)
      PROVE  LogInv'
  <2>1. UNCHANGED <<rows, logged>> /\ secrets' = secrets
    BY <1>2 DEF Ends, CheckCreate, InsertRequest, BeginApprove, LockRow, MoveToProvisioning,
                CallSecretsManager, dbVars, awsVars
  <2>2. \A t \in Session \ {s} : pc'[t] = pc[t] /\ req'[t] = req[t] /\ obj'[t] = obj[t]
    BY <1>2 DEF Ends, Close, CheckCreate, InsertRequest, BeginApprove, LockRow, MoveToProvisioning,
                CallSecretsManager, IInv, TypeOK
  <2>3. \/ pc'[s] \in {"idle", "checked", "inserted", "locking", "locked", "intent"}
        \/ pc[s] = "intended" /\ pc'[s] = "calling" /\ req'[s] = req[s]
    BY <1>2 DEF Ends, Close, CheckCreate, InsertRequest, BeginApprove, LockRow, MoveToProvisioning,
                CallSecretsManager, IInv, TypeOK
  <2> QED BY <2>1, <2>2, <2>3, QuietKeepsLog DEF Provisioning
<1> QED BY <1>1, <1>2, Steps, RecordKeepsLog, CommittingKeepsLog

\* approve_request logs secret_provisioning_outcome before COMMIT #2: no request is
\* counted as provisioned and as failed, and a decided row has the line that agrees.
THEOREM LinesAgree == Spec => []LoggedOutcomesAgree
<1>1. LogInv => LoggedOutcomesAgree
  BY DEF LogInv
<1> QED BY <1>1, InitIInv, NextIInv, LogInvInit, LogInvStep, PTL DEF Spec
-----------------------------------------------------------------------------
(* The answers *)

\* What a handler may tell by the time it answers is committed.
CreatedBy(r, s) == \E e \in Trail(r) : e.status = "PENDING" /\ e.actor = s
ApprovedBy(r, s) == \E e \in Trail(r) : e.status = "APPROVED" /\ e.actor = s
GroundsInv ==
    \A s \in Session :
        /\ pc[s] = "created" => CreatedBy(req[s], s)
        /\ pc[s] \in {"intended", "calling", "recorded", "concluded"} => ApprovedBy(req[s], s)
        /\ pc[s] = "concluded" => rows[req[s]].status \in {"PROVISIONED", "FAILED"}

\* An answer given is about a request or a tuple, and is still true.
AnswerInv ==
    /\ GroundsInv
    /\ \A s \in Session :
          /\ answer[s].code \in {"200", "201", "INVALID_STATE"} => answer[s].about \in RequestId
          /\ answer[s].code = "CONFLICT" => answer[s].about \in Tuple
          /\ AnswerIsTrue(s)

LEMMA AnswerInvInit == Init => AnswerInv
  BY DEF Init, NoAnswer, AnswerInv, GroundsInv, AnswerIsTrue

\* Events are never taken back, a decision and a key are never changed.
Onwards ==
    /\ events \subseteq events'
    /\ \A r \in RequestId :
          /\ rows[r].status \in {"PROVISIONED", "FAILED"} => rows'[r].status = rows[r].status
          /\ rows[r].status # "ABSENT" => rows'[r].key = rows[r].key

LEMMA CommittingGoesOn == ASSUME IInv, NEW s \in Session, Committing(s) PROVE Onwards
<1>1. req[s] \in RequestId /\ rows'[req[s]] = obj[s] /\ events \subseteq events'
      /\ \A r \in RequestId \ {req[s]} : rows'[r] = rows[r]
  BY CommitMoves DEF IInv, TypeOK
<1>2. rows[req[s]].status \in {"ABSENT", "PENDING", "PROVISIONING"}
  BY CommitMoves
<1>3. rows[req[s]].status # "ABSENT" => obj[s].key = rows[req[s]].key
  BY CommitMoves DEF IInv, HandlerInv
<1> QED BY <1>1, <1>2, <1>3 DEF Onwards

LEMMA StaysTrue ==
    ASSUME IInv, AnswerInv, Onwards, NEW s \in Session, answer'[s] = answer[s]
    PROVE  AnswerIsTrue(s)'
<1> DEFINE code == answer[s].code
           about == answer[s].about
<1>1. \A r : Trail(r) \subseteq Trail(r)'
  BY DEF Trail, Onwards
<1>2. CASE code = "201"
  BY <1>1, <1>2 DEF AnswerInv, AnswerIsTrue
<1>3. CASE code = "200"
  <2>1. about \in RequestId /\ rows[about].status \in {"PROVISIONED", "FAILED"} /\ ApprovedBy(about, s)
    BY <1>3 DEF AnswerInv, AnswerIsTrue, ApprovedBy
  <2>2. rows'[about].status \in {"PROVISIONED", "FAILED"} /\ ApprovedBy(about, s)'
    BY <1>1, <2>1 DEF Onwards, ApprovedBy
  <2> QED BY <1>1, <1>3, <2>1, <2>2 DEF AnswerIsTrue, ApprovedBy
<1>4. CASE code = "INVALID_STATE"
  BY <1>1, <1>4 DEF AnswerInv, AnswerIsTrue
<1>5. CASE code = "CONFLICT"
  <2>1. PICK r \in RequestId : rows[r].key = about
    BY <1>5 DEF AnswerInv, AnswerIsTrue, ExistsForTuple
  <2>2. rows[r].status # "ABSENT"
    BY <1>5, <2>1, NoneAssumption DEF AnswerInv, IInv, RowInv, NoRow
  <2>3. rows'[r].key = about
    BY <2>1, <2>2 DEF Onwards
  <2> QED BY <1>5, <2>3 DEF AnswerIsTrue, ExistsForTuple
<1>6. CASE code \notin {"200", "201", "INVALID_STATE", "CONFLICT"}
  BY <1>6 DEF AnswerIsTrue
<1> QED BY <1>2, <1>3, <1>4, <1>5, <1>6

\* Steps that answer nobody and tell nothing new.
LEMMA QuietKeepsAnswers ==
    ASSUME IInv, AnswerInv, UNCHANGED <<rows, events>>,
           \A s \in Session :
              /\ answer'[s] = answer[s] \/ answer'[s] = NoAnswer
              /\ \/ pc'[s] \notin {"created", "intended", "calling", "recorded", "concluded"}
                 \/ pc'[s] = pc[s] /\ req'[s] = req[s]
                 \/ /\ pc[s] \in {"intended", "calling"} /\ pc'[s] \in {"calling", "recorded"}
                    /\ req'[s] = req[s]
    PROVE  AnswerInv'
<1>1. Onwards /\ \A r : Trail(r)' = Trail(r)
  BY DEF Onwards, Trail
<1>2. GroundsInv'
  <2>1. ASSUME NEW s \in Session PROVE GroundsInv!(s)'
    <3>1. GroundsInv!(s)
      BY DEF AnswerInv, GroundsInv
    <3> QED BY <1>1, <3>1 DEF CreatedBy, ApprovedBy
  <2> QED BY <2>1 DEF GroundsInv
<1>3. ASSUME NEW s \in Session, answer'[s] = NoAnswer PROVE AnswerIsTrue(s)'
  BY <1>3 DEF AnswerIsTrue, NoAnswer
<1>4. \A s \in Session : AnswerIsTrue(s)'
  BY <1>1, <1>3, StaysTrue
<1> QED BY <1>2, <1>4 DEF AnswerInv, NoAnswer

\* A refused approval read, under the lock, a status that only an approval leads to.
LEMMA RefusedAfterApproval ==
    ASSUME IInv, TrailInv, NEW s \in Session, pc[s] = "locked",
           "APPROVED" \notin ValidTransitions[obj[s].status]
    PROVE  \E e \in Trail(req[s]) : e.status = "APPROVED"
<1>1. req[s] \in RequestId /\ rows[req[s]].status \in {"PROVISIONING", "PROVISIONED", "FAILED"}
  BY DEF IInv, HandlerInv, RowInv, Approving, TypeOK, Row, Status, ValidTransitions
<1>2. "APPROVED" \in History(rows[req[s]].status)
  BY <1>1 DEF History
<1> QED BY <1>1, <1>2, TrailsAreTold DEF TrailInv, Told

LEMMA EndingKeepsAnswers ==
    ASSUME IInv, TrailInv, AnswerInv, NEW s \in Session, NEW code, NEW about, Ends(s, code, about)
    PROVE  AnswerInv'
<1>1. /\ UNCHANGED <<rows, events>> /\ pc'[s] = "idle" /\ answer'[s] = [code |-> code, about |-> about]
      /\ \A t \in Session \ {s} : pc'[t] = pc[t] /\ req'[t] = req[t] /\ answer'[t] = answer[t]
  BY DEF Ends, Close, IInv, TypeOK
<1>2. Onwards /\ \A r : Trail(r)' = Trail(r)
  BY <1>1 DEF Onwards, Trail
<1>3. GroundsInv'
  <2>1. ASSUME NEW t \in Session \ {s} PROVE GroundsInv!(t)'
    <3>1. GroundsInv!(t)
      BY DEF AnswerInv, GroundsInv
    <3> QED BY <1>1, <1>2, <3>1 DEF CreatedBy, ApprovedBy
  <2> QED BY <1>1, <2>1 DEF GroundsInv
<1>4. answer'[s].code = code /\ answer'[s].about = about
  BY <1>1
<1>5. /\ code \in {"200", "201", "INVALID_STATE"} => about \in RequestId
      /\ code = "CONFLICT" => about \in Tuple
  BY DEF Ends, IInv, HandlerInv
<1>6. AnswerIsTrue(s)'
  <2>1. code = "201" => CreatedBy(about, s)
    BY DEF Ends, AnswerInv, GroundsInv
  <2>2. code = "200" => rows[about].status \in {"PROVISIONED", "FAILED"} /\ ApprovedBy(about, s)
    BY DEF Ends, AnswerInv, GroundsInv
  <2>3. code = "INVALID_STATE" => \E e \in Trail(about) : e.status = "APPROVED"
    BY RefusedAfterApproval DEF Ends
  <2>4. code = "CONFLICT" => ExistsForTuple(about)'
    BY <1>1 DEF Ends, ExistsForTuple
  <2> QED BY <1>1, <1>2, <1>4, <2>1, <2>2, <2>3, <2>4 DEF AnswerIsTrue, CreatedBy, ApprovedBy
<1>7. \A t \in Session \ {s} : AnswerIsTrue(t)'
  BY <1>1, <1>2, StaysTrue
<1> QED BY <1>1, <1>3, <1>4, <1>5, <1>6, <1>7 DEF AnswerInv

\* A commit adds the grounds of the answer that follows.
LEMMA CommittingKeepsAnswers ==
    ASSUME IInv, TrailInv, AnswerInv, NEW s \in Session, Committing(s)
    PROVE  AnswerInv'
<1>1. Onwards /\ \A r : Trail(r) \subseteq Trail(r)'
  BY CommittingGoesOn DEF Onwards, Trail
<1>2. UNCHANGED <<req, answer>> /\ events' = events \cup pend[s] /\ req[s] \in RequestId
      /\ rows'[req[s]] = obj[s] /\ \A t \in Session \ {s} : pc'[t] = pc[t]
  BY CommitMoves DEF IInv, TypeOK
<1>3. ASSUME NEW t \in Session \ {s} PROVE GroundsInv!(t)'
  <2>1. GroundsInv!(t)
    BY DEF AnswerInv, GroundsInv
  <2>2. pc[t] = "concluded" => req[t] \in RequestId
    BY DEF IInv, HandlerInv
  <2> QED BY <1>1, <1>2, <2>1, <2>2 DEF CreatedBy, ApprovedBy, Onwards
<1>4. GroundsInv!(s)'
  <2>1. FlushInv!(s)
    BY DEF TrailInv, FlushInv
  <2>2. CASE pc[s] = "inserted" /\ pc'[s] = "created"
    <3>1. \E e \in pend[s] : e.req = req[s] /\ e.status = "PENDING" /\ e.actor = s
      <4>1. PICK n \in Nat : pend[s] = {Entry(s, "PENDING", s, n)}
        BY <2>1, <2>2
      <4>2. Entry(s, "PENDING", s, n) \in pend[s]
        BY <4>1
      <4> QED BY <4>2 DEF Entry
    <3> QED BY <1>2, <2>2, <3>1 DEF CreatedBy, Trail
  <2>3. CASE pc[s] = "intent" /\ pc'[s] = "intended"
    <3>1. \E e \in pend[s] : e.req = req[s] /\ e.status = "APPROVED" /\ e.actor = s
      BY <2>3 DEF IInv, IntentFlushed
    <3> QED BY <1>2, <2>3, <3>1 DEF ApprovedBy, Trail
  <2>4. CASE pc[s] = "recorded" /\ pc'[s] = "concluded"
    <3>1. obj[s].status \in {"PROVISIONED", "FAILED"}
      BY <2>4, CommitMoves
    <3>2. ApprovedBy(req[s], s)
      BY <2>4 DEF AnswerInv, GroundsInv
    <3> QED BY <1>1, <1>2, <2>4, <3>1, <3>2 DEF ApprovedBy
  <2> QED BY <2>2, <2>3, <2>4, CommitMoves
<1>5. GroundsInv'
  BY <1>3, <1>4 DEF GroundsInv
<1>6. \A t \in Session : AnswerIsTrue(t)'
  BY <1>1, <1>2, StaysTrue
<1> QED BY <1>2, <1>5, <1>6 DEF AnswerInv

LEMMA AnswerInvStep == IInv /\ TrailInv /\ AnswerInv /\ [Next]_vars => AnswerInv'
<1> SUFFICES ASSUME IInv, TrailInv, AnswerInv, [Next]_vars PROVE AnswerInv'
  OBVIOUS
<1>1. CASE Elsewhere
  BY <1>1, QuietKeepsAnswers DEF Elsewhere, handlerVars
<1>2. ASSUME NEW s \in Session,
             \/ \E k \in Tuple : CheckCreate(s, k)
             \/ \E r \in RequestId : InsertRequest(s, r) \/ BeginApprove(s, r)
             \/ LockRow(s) \/ MoveToProvisioning(s) \/ CallSecretsManager(s)
      PROVE  AnswerInv'
  <2>1. UNCHANGED <<rows, events>>
    BY <1>2 DEF CheckCreate, InsertRequest, BeginApprove, LockRow, MoveToProvisioning,
                CallSecretsManager, dbVars
  <2>2. /\ answer'[s] = answer[s] \/ answer'[s] = NoAnswer
        /\ \A t \in Session \ {s} : pc'[t] = pc[t] /\ req'[t] = req[t] /\ answer'[t] = answer[t]
    BY <1>2 DEF CheckCreate, InsertRequest, BeginApprove, LockRow, MoveToProvisioning,
                CallSecretsManager, IInv, TypeOK
  <2>3. \/ pc'[s] \in {"checked", "inserted", "locking", "locked", "intent"}
        \/ pc[s] = "intended" /\ pc'[s] = "calling" /\ req'[s] = req[s]
    BY <1>2 DEF CheckCreate, InsertRequest, BeginApprove, LockRow, MoveToProvisioning,
                CallSecretsManager, IInv, TypeOK
  <2> QED BY <2>1, <2>2, <2>3, QuietKeepsAnswers
<1>3. ASSUME NEW s \in Session, Record(s) PROVE AnswerInv'
  <2>1. PICK status, arn, outcome : RecordOutcome(s, status, arn, outcome)
    BY <1>3 DEF Record, RecordProvisioned, RecordFailed
  <2>2. /\ UNCHANGED <<rows, events, req, answer>> /\ pc[s] = "calling" /\ pc'[s] = "recorded"
        /\ \A t \in Session \ {s} : pc'[t] = pc[t]
    BY <2>1 DEF RecordOutcome, IInv, TypeOK
  <2> QED BY <2>2, QuietKeepsAnswers
<1> QED BY <1>1, <1>2, <1>3, Steps, EndingKeepsAnswers, CommittingKeepsAnswers

\* create_request and approve_request: what callers were answered stays true, whoever
\* works on the same request or tuple afterwards.
THEOREM AnswersTrue == Spec => []AnswersAreTrue
<1>1. AnswerInv => AnswersAreTrue
  BY DEF AnswerInv, AnswersAreTrue
<1> QED BY <1>1, InitIInv, NextIInv, TrailInvInit, TrailInvStep, AnswerInvInit, AnswerInvStep, PTL
           DEF Spec
-----------------------------------------------------------------------------
(* Lists of events: what is before nothing and after everything comes last *)

\* The line of an event in a list.
Shown(e) == [status |-> e.status, actor |-> e.actor]

LEMMA ListingIsASequence ==
    ASSUME NEW T, IsFiniteSet(T)
    PROVE  /\ Cardinality(T) \in Nat /\ Len(Listing(T)) = Cardinality(T)
           /\ DOMAIN Listing(T) = 1 .. Cardinality(T)
           /\ \A S : (\A i \in 1 .. Cardinality(T) : Listing(T)[i] \in S) => Listing(T) \in Seq(S)
<1>1. Cardinality(T) \in Nat
  BY FS_CardinalityType
<1> DEFINE n == Cardinality(T)
           L == Listing(T)
<1>2. DOMAIN L = 1 .. n /\ L = [i \in 1 .. n |-> L[i]]
  BY DEF Listing
<1> HIDE DEF n, L
<1>3. Len(L) = n
  BY <1>1, <1>2 DEF n
<1>4. ASSUME NEW S, \A i \in 1 .. n : L[i] \in S PROVE L \in Seq(S)
  BY <1>1, <1>2, <1>4 DEF n
<1> QED BY <1>1, <1>2, <1>3, <1>4 DEF n, L

LEMMA NothingListed == Listing({}) = <<>>
  BY FS_EmptySet DEF Listing

\* Whatever comes after all of T is listed after the list of T.
LEMMA ListedLast ==
    ASSUME NEW T, IsFiniteSet(T), NEW e, ~EventBefore(e, e),
           \A f \in T : EventBefore(f, e) /\ ~EventBefore(e, f) /\ ~EventBefore(f, f)
    PROVE  /\ IsFiniteSet(T \cup {e})
           /\ Cardinality(T \cup {e}) = Cardinality(T) + 1
           /\ Listing(T \cup {e}) = Listing(T) \o <<Shown(e)>>
<1> DEFINE U == T \cup {e}
           n == Cardinality(T)
<1>0. e \notin T
  OBVIOUS
<1>1. n \in Nat /\ IsFiniteSet(U) /\ Cardinality(U) = n + 1
  BY <1>0, FS_CardinalityType, FS_AddElement
<1>2. Place(U, e) = n + 1
  <2>1. {f \in U : EventBefore(f, e)} = T
    OBVIOUS
  <2> QED BY <2>1 DEF Place
<1>3. ASSUME NEW f \in T PROVE Place(U, f) = Place(T, f) /\ Place(T, f) # n + 1
  <2>1. {g \in U : EventBefore(g, f)} = {g \in T : EventBefore(g, f)}
    OBVIOUS
  <2> DEFINE P == {g \in T : EventBefore(g, f)}
  <2>2. P \in SUBSET T /\ f \notin P
    OBVIOUS
  <2>3. Cardinality(P) # n
    BY <2>2, FS_Subset
  <2>4. Cardinality(P) \in Nat
    BY <2>2, FS_Subset, FS_CardinalityType
  <2> QED BY <1>1, <2>1, <2>3, <2>4 DEF Place
<1>4. ASSUME NEW i \in 1 .. n PROVE Listed(U, i) = Listed(T, i)
  <2>1. {f \in U : Place(U, f) = i} = {f \in T : Place(T, f) = i}
    <3>1. i # n + 1
      BY <1>1
    <3> QED BY <1>2, <1>3, <3>1
  <2> QED BY <2>1 DEF Listed
<1>5. Listed(U, n + 1) = e
  <2>1. {f \in U : Place(U, f) = n + 1} = {e}
    BY <1>2, <1>3
  <2> QED BY <2>1 DEF Listed
<1>6. ASSUME NEW i \in 1 .. n PROVE Listing(U)[i] = Listing(T)[i]
  <2>1. i \in 1 .. Cardinality(U) /\ i \in 1 .. Cardinality(T)
    BY <1>1
  <2> QED BY <1>4, <2>1 DEF Listing
<1>7. Listing(U)[n + 1] = Shown(e)
  BY <1>1, <1>5 DEF Listing, Shown
<1> DEFINE S == {Listing(T)[i] : i \in 1 .. n} \cup {Shown(e)}
           old == Listing(T)
           new == Listing(U)
           last == <<Shown(e)>>
<1>8. old \in Seq(S) /\ Len(old) = n
  BY ListingIsASequence
<1>9. new \in Seq(S) /\ Len(new) = n + 1
  <2>1. \A i \in 1 .. n + 1 : i \in 1 .. n \/ i = n + 1
    BY <1>1
  <2>2. \A i \in 1 .. Cardinality(U) : new[i] \in S
    BY <1>1, <1>6, <1>7, <2>1
  <2> QED BY <1>1, <2>2, ListingIsASequence
<1>10. last \in Seq(S) /\ Len(last) = 1 /\ last[1] = Shown(e)
  OBVIOUS
<1>11. \A i \in 1 .. n + 1 : new[i] = IF i <= n THEN old[i] ELSE last[i - n]
  <2> SUFFICES ASSUME NEW i \in 1 .. n + 1 PROVE new[i] = IF i <= n THEN old[i] ELSE last[i - n]
    OBVIOUS
  <2>1. i \in 1 .. n \/ i = n + 1
    BY <1>1
  <2>2. CASE i \in 1 .. n
    BY <1>1, <1>6, <2>2
  <2>3. CASE i = n + 1
    <3>1. ~(i <= n) /\ i - n = 1
      BY <1>1, <2>3
    <3> QED BY <1>7, <1>10, <2>3, <3>1
  <2> QED BY <2>1, <2>2, <2>3
<1>12. new = old \o last
  <2> HIDE DEF S, old, new, last, n
  <2>1. /\ old \o last \in Seq(S) /\ Len(old \o last) = n + 1
        /\ \A i \in 1 .. n + 1 : (old \o last)[i] = IF i <= n THEN old[i] ELSE last[i - n]
    <3>1. /\ old \o last \in Seq(S) /\ Len(old \o last) = Len(old) + Len(last)
          /\ \A i \in 1 .. Len(old) + Len(last) :
                (old \o last)[i] = IF i <= Len(old) THEN old[i] ELSE last[i - Len(old)]
      BY <1>8, <1>10, ConcatProperties
    <3> QED BY <1>8, <1>10, <3>1
  <2> QED BY <1>9, <1>11, <2>1, SeqEqual
<1> QED BY <1>1, <1>12
\* Two events that come after all of T, one after the other.
LEMMA ListedBoth ==
    ASSUME NEW T, IsFiniteSet(T), NEW a, NEW p,
           ~EventBefore(a, a), ~EventBefore(p, p), EventBefore(a, p), ~EventBefore(p, a),
           \A f \in T : /\ EventBefore(f, a) /\ ~EventBefore(a, f) /\ ~EventBefore(f, f)
                        /\ EventBefore(f, p) /\ ~EventBefore(p, f)
    PROVE  Listing(T \cup {a, p}) = Listing(T) \o <<Shown(a), Shown(p)>>
<1> DEFINE U == T \cup {a}
           L == Listing(T)
           S == {L[i] : i \in 1 .. Cardinality(T)} \cup {Shown(a), Shown(p)}
<1>1. IsFiniteSet(U) /\ Listing(U) = L \o <<Shown(a)>>
  BY ListedLast
<1>2. Listing(U \cup {p}) = Listing(U) \o <<Shown(p)>>
  <2>1. \A f \in U : EventBefore(f, p) /\ ~EventBefore(p, f) /\ ~EventBefore(f, f)
    OBVIOUS
  <2> HIDE DEF U
  <2> QED BY <1>1, <2>1, ListedLast
<1>3. U \cup {p} = T \cup {a, p}
  OBVIOUS
<1>4. L \in Seq(S)
  BY ListingIsASequence
<1>5. <<Shown(a)>> \in Seq(S) /\ <<Shown(p)>> \in Seq(S)
  OBVIOUS
<1>6. <<Shown(a)>> \o <<Shown(p)>> = <<Shown(a), Shown(p)>>
  <2>1. /\ Len(<<Shown(a)>>) = 1 /\ Len(<<Shown(p)>>) = 1 /\ Len(<<Shown(a), Shown(p)>>) = 2
        /\ <<Shown(a), Shown(p)>> \in Seq(S)
    OBVIOUS
  <2> HIDE DEF L, S, U
  <2>2. /\ <<Shown(a)>> \o <<Shown(p)>> \in Seq(S) /\ Len(<<Shown(a)>> \o <<Shown(p)>>) = 2
        /\ \A i \in 1 .. 2 : (<<Shown(a)>> \o <<Shown(p)>>)[i] =
                             IF i <= 1 THEN <<Shown(a)>>[i] ELSE <<Shown(p)>>[i - 1]
    BY <1>5, <2>1, ConcatProperties
  <2>3. \A i \in 1 .. 2 : (<<Shown(a)>> \o <<Shown(p)>>)[i] = <<Shown(a), Shown(p)>>[i]
    BY <2>2
  <2> QED BY <2>1, <2>2, <2>3, SeqEqual
<1> HIDE DEF L, S, U
<1>7. (L \o <<Shown(a)>>) \o <<Shown(p)>> = L \o (<<Shown(a)>> \o <<Shown(p)>>)
  BY <1>4, <1>5, ConcatAssociative
<1> QED BY <1>1, <1>2, <1>3, <1>6, <1>7 DEF L

-----------------------------------------------------------------------------
(* The abstract lifecycle *)

\* One call for a request, and what became of it.
SentInv ==
    /\ \A m \in wire \cup secrets : calls[m.for] # 0
    /\ \A m, n \in wire \cup secrets : m.for = n.for => m = n
    /\ wire \cap secrets = {}

OutsideInv == SentInv /\ IsFiniteSet(events)

LEMMA OutsideInvInit == Init => OutsideInv
  BY FS_EmptySet DEF Init, OutsideInv, SentInv

LEMMA SentInvStep ==
    ASSUME IInv, SentInv, [Next]_vars
    PROVE  SentInv'
<1>1. CASE UNCHANGED awsVars
  BY <1>1 DEF SentInv, awsVars
<1>2. ASSUME NEW m \in wire, SMCreates(m) \/ SMRejects(m) PROVE SentInv'
  BY <1>2 DEF SMCreates, SMRejects, SentInv
<1>3. ASSUME NEW s \in Session, CallSecretsManager(s) PROVE SentInv'
  <2> DEFINE m == [for |-> req[s], by |-> s, name |-> SecretName(rows[req[s]].key)]
  <2>1. pc[s] = "intended" /\ req[s] \in RequestId /\ calls[req[s]] = 0
    BY <1>3 DEF CallSecretsManager, IInv, HandlerInv, CallInv
  <2>2. \A n \in wire \cup secrets : n.for # req[s] /\ n.for \in RequestId
    BY <2>1 DEF SentInv, IInv, TypeOK, Secret
  <2>3. m.for = req[s]
    OBVIOUS
  <2>4. wire' = wire \cup {m} /\ secrets' = secrets /\ calls' = [calls EXCEPT ![req[s]] = @ + 1]
    BY <1>3 DEF CallSecretsManager
  <2>5. calls'[req[s]] = 1 /\ \A r \in RequestId \ {req[s]} : calls'[r] = calls[r]
    BY <2>1, <2>4 DEF IInv, TypeOK
  <2> HIDE DEF m
  <2> QED BY <2>2, <2>3, <2>4, <2>5 DEF SentInv
<1>4. ASSUME NEW s \in Session,
             \/ \E code, about : Ends(s, code, about)
             \/ \E k \in Tuple : CheckCreate(s, k)
             \/ \E r \in RequestId : InsertRequest(s, r) \/ BeginApprove(s, r)
             \/ LockRow(s) \/ MoveToProvisioning(s) \/ Record(s) \/ Committing(s)
      PROVE  UNCHANGED awsVars
  BY <1>4 DEF Ends, CheckCreate, InsertRequest, BeginApprove, LockRow, MoveToProvisioning, Record,
              RecordProvisioned, RecordFailed, RecordOutcome, Committing, CommitCreate, CommitIntent,
              CommitOutcome, Commit
<1> QED BY <1>1, <1>2, <1>3, <1>4, Steps DEF Elsewhere

LEMMA EventsStayFinite ==
    ASSUME IInv, TrailInv, IsFiniteSet(events), [Next]_vars
    PROVE  IsFiniteSet(events')
<1>1. ASSUME NEW s \in Session, Committing(s) PROVE IsFiniteSet(events')
  <2>1. events' = events \cup pend[s] /\ FlushInv!(s) /\ pc[s] \in {"inserted", "intent", "recorded"}
    BY <1>1, CommitMoves DEF TrailInv, FlushInv
  <2>2. \E a, b : pend[s] = {a, b}
    <3>1. CASE pc[s] = "intent"
      BY <2>1, <3>1
    <3>2. CASE pc[s] # "intent"
      <4>1. PICK a : pend[s] = {a}
        BY <2>1, <3>2
      <4>2. pend[s] = {a, a}
        BY <4>1
      <4> QED BY <4>2
    <3> QED BY <3>1, <3>2
  <2>3. PICK a, b : pend[s] = {a, b}
    BY <2>2
  <2>4. events' = (events \cup {a}) \cup {b}
    BY <2>1, <2>3
  <2>5. IsFiniteSet(events \cup {a})
    BY FS_AddElement
  <2> QED BY <2>4, <2>5, FS_AddElement
<1>2. CASE UNCHANGED events
  BY <1>2
<1>3. ASSUME NEW s \in Session,
             \/ \E code, about : Ends(s, code, about)
             \/ \E k \in Tuple : CheckCreate(s, k)
             \/ \E r \in RequestId : InsertRequest(s, r) \/ BeginApprove(s, r)
             \/ LockRow(s) \/ MoveToProvisioning(s) \/ CallSecretsManager(s) \/ Record(s)
      PROVE  UNCHANGED events
  BY <1>3 DEF Ends, CheckCreate, InsertRequest, BeginApprove, LockRow, MoveToProvisioning,
              CallSecretsManager, Record, RecordProvisioned, RecordFailed, RecordOutcome, dbVars
<1> QED BY <1>1, <1>2, <1>3, Steps DEF Elsewhere

LEMMA Stutters ==
    ASSUME UNCHANGED <<rows, events, secrets>>
    PROVE  UNCHANGED Audited!vars
<1>1. \A r : ListForRequest(r)' = ListForRequest(r)
  BY DEF ListForRequest, Listing, Listed, Place, EventBefore, Trail
<1> QED BY <1>1 DEF Audited!vars

\* A commit is a move of its request: nothing else that a reader sees changes.
LEMMA CommitIsAMove ==
    ASSUME IInv, TrailInv, OutsideInv, NEW s \in Session, Committing(s), NEW entries,
           NEW r \in RequestId, r = req[s], NEW from, NEW to, rows[r].status = from, obj[s].status = to,
           Listing(Trail(r) \cup pend[s]) = Listing(Trail(r)) \o entries
    PROVE  Audited!Move(r, from, to, entries)
<1>1. /\ rows'[r] = obj[s] /\ secrets' = secrets
      /\ \A q \in RequestId \ {r} : rows'[q] = rows[q]
  BY CommitMoves DEF IInv, TypeOK
<1>2. Trail(r)' = Trail(r) \cup pend[s] /\ \A q \in RequestId \ {r} : Trail(q)' = Trail(q)
  <2>1. /\ \A e \in pend[s] : e.req = req[s]
        /\ events' = events \cup pend[s]
    BY CommitMoves, CommitAdds DEF Committing, CommitCreate, CommitIntent, CommitOutcome
  <2> QED BY <2>1 DEF Trail
<1>3. \A q \in RequestId : ListForRequest(q)' = Listing(Trail(q)')
  BY DEF ListForRequest, Listing, Listed, Place, EventBefore
<1>4. ListForRequest(r)' = ListForRequest(r) \o entries
      /\ \A q \in RequestId \ {r} : ListForRequest(q)' = ListForRequest(q)
  BY <1>1, <1>2, <1>3 DEF ListForRequest
<1> DEFINE status == [q \in RequestId |-> rows[q].status]
           trail == [q \in RequestId |-> ListForRequest(q)]
<1>5. status[r] = from /\ status' = [status EXCEPT ![r] = to]
  BY <1>1
<1>6. trail' = [trail EXCEPT ![r] = @ \o entries]
  BY <1>4
<1>7. UNCHANGED {m.for : m \in secrets}
  BY <1>1
<1> QED BY <1>5, <1>6, <1>7 DEF Audited!Move

LEMMA CommitsRefine ==
    ASSUME IInv, TrailInv, OutsideInv, NEW s \in Session, Committing(s)
    PROVE  Audited!Next
<1>r. PICK r \in RequestId : r = req[s]
  BY CommitMoves
<1> DEFINE T == Trail(r)
<1>0. FlushInv!(s) /\ IsFiniteSet(T)
  <2>1. T \subseteq events
    BY DEF Trail
  <2> QED BY <2>1, CommitMoves, FS_Subset DEF TrailInv, FlushInv, OutsideInv
<1>1. \A e, f : e.at \in Nat /\ e.seq \in Nat /\ f.at \in Nat /\ f.seq \in Nat
                => ~EventBefore(e, e) /\ ~(EventBefore(e, f) /\ EventBefore(f, e))
  BY DEF EventBefore
<1>2. \A e \in T : ~EventBefore(e, e)
  BY <1>1, EventTypes DEF Trail
<1>3. ASSUME NEW n \in Nat, NEW st, NEW actor
      PROVE  /\ ~EventBefore(Entry(s, st, actor, n), Entry(s, st, actor, n))
             /\ Shown(Entry(s, st, actor, n)) = Audited!Entry(st, actor)
  BY EventTypes DEF Entry, EventBefore, Shown, Audited!Entry
<1>4. CASE pc[s] = "inserted" /\ rows[r].status = "ABSENT" /\ obj[s].status = "PENDING"
  <2>1. PICK n \in Nat : pend[s] = {Entry(s, "PENDING", s, n)}
    BY <1>0, <1>4
  <2>2. T = {}
    BY <1>0, <1>4, TrailsAreTold, NothingTold DEF TrailInv
  <2> DEFINE c == Entry(s, "PENDING", s, n)
  <2>3. ~EventBefore(c, c) /\ Shown(c) = Audited!Entry("PENDING", s) /\ pend[s] = {c}
    BY <1>3, <2>1
  <2> HIDE DEF c
  <2>4. Listing(T \cup {c}) = Listing(T) \o <<Shown(c)>>
    BY <1>0, <2>2, <2>3, ListedLast
  <2>5. Audited!Open(r, s)
    BY <1>4, <2>3, <2>4, <1>r, CommitIsAMove DEF Audited!Open
  <2> QED BY <2>5 DEF Audited!Next
<1>5. CASE pc[s] = "intent" /\ rows[r].status = "PENDING" /\ obj[s].status = "PROVISIONING"
  <2>1. PICK n \in Nat : /\ Before(req[s], since[s], n)
                         /\ pend[s] = {Entry(s, "APPROVED", s, n), Entry(s, "PROVISIONING", "system", n + 1)}
    BY <1>0, <1>5
  <2> DEFINE a == Entry(s, "APPROVED", s, n)
             p == Entry(s, "PROVISIONING", "system", n + 1)
  <2>2. \A f \in T : EventBefore(f, a) /\ ~EventBefore(a, f) /\ EventBefore(f, p) /\ ~EventBefore(p, f)
    BY <1>r, <2>1, EntryComesLast
  <2>3. EventBefore(a, p) /\ ~EventBefore(p, a)
    BY EventTypes DEF Entry, EventBefore
  <2>4. ~EventBefore(a, a) /\ ~EventBefore(p, p)
        /\ Shown(a) = Audited!Entry("APPROVED", s) /\ Shown(p) = Audited!Entry("PROVISIONING", "system")
    BY <1>3
  <2>5. pend[s] = {a, p}
    BY <2>1
  <2> HIDE DEF a, p, T
  <2>6. Listing(T \cup {a, p}) = Listing(T) \o <<Shown(a), Shown(p)>>
    BY <1>0, <1>2, <2>2, <2>3, <2>4, ListedBoth
  <2>7. Audited!Approve(r, s)
    BY <1>5, <2>4, <2>5, <2>6, <1>r, CommitIsAMove DEF Audited!Approve, T
  <2> QED BY <1>0, <2>7 DEF Audited!Next
<1>6. CASE pc[s] = "recorded" /\ rows[r].status = "PROVISIONING"
           /\ obj[s].status \in {"PROVISIONED", "FAILED"}
  <2>1. PICK n \in Nat : /\ Before(req[s], since[s], n)
                         /\ pend[s] = {Entry(s, obj[s].status, "system", n)}
    BY <1>0, <1>6
  <2> DEFINE o == Entry(s, obj[s].status, "system", n)
  <2>2. \A f \in T : EventBefore(f, o) /\ ~EventBefore(o, f)
    BY <1>r, <2>1, EntryComesLast
  <2>3. ~EventBefore(o, o) /\ Shown(o) = Audited!Entry(obj[s].status, "system") /\ pend[s] = {o}
    BY <1>3, <2>1
  <2> HIDE DEF o, T
  <2>4. Listing(T \cup {o}) = Listing(T) \o <<Shown(o)>>
    BY <1>0, <1>2, <2>2, <2>3, ListedLast
  <2>5. CASE obj[s].status = "FAILED"
    <3>1. Shown(o) = Audited!Entry("FAILED", "system")
      BY <2>3, <2>5
    <3>2. Audited!Fail(r)
      BY <1>6, <2>3, <2>4, <2>5, <3>1, <1>r, CommitIsAMove DEF Audited!Fail, T
    <3> QED BY <3>2 DEF Audited!Next
  <2>6. CASE obj[s].status = "PROVISIONED"
    <3>1. r \in {m.for : m \in secrets}
      BY <1>r, <1>6, <2>6 DEF IInv, ArnFlushed
    <3>2. Shown(o) = Audited!Entry("PROVISIONED", "system")
      BY <2>3, <2>6
    <3>3. Audited!Succeed(r)
      BY <1>6, <2>3, <2>4, <2>6, <3>1, <3>2, <1>r, CommitIsAMove DEF Audited!Succeed, T
    <3> QED BY <3>3 DEF Audited!Next
  <2> QED BY <1>6, <2>5, <2>6
<1> QED BY <1>r, <1>4, <1>5, <1>6, CommitMoves

\* A secret is made once, for a request that is not provisioned yet.
LEMMA CreationRefines ==
    ASSUME IInv, OutsideInv, NEW m \in wire, SMCreates(m)
    PROVE  Audited!Next
<1>1. m.for \in RequestId /\ rows[m.for].status \in {"PROVISIONING", "PROVISIONED", "FAILED"}
  BY DEF IInv, TypeOK, Secret, IntentIsDurable
<1>2. \A n \in secrets : n.for # m.for
  BY DEF OutsideInv, SentInv
<1>3. rows[m.for].status # "PROVISIONED"
  BY <1>1, <1>2 DEF IInv, OwnSecret
<1>4. secrets' = secrets \cup {m} /\ UNCHANGED <<rows, events>>
  BY DEF SMCreates, dbVars
<1>5. {n.for : n \in secrets'} = {n.for : n \in secrets} \cup {m.for}
  BY <1>4
<1>6. \A r : ListForRequest(r)' = ListForRequest(r)
  BY <1>4 DEF ListForRequest, Listing, Listed, Place, EventBefore, Trail
<1>7. Audited!Mint(m.for)
  BY <1>1, <1>2, <1>3, <1>4, <1>5, <1>6 DEF Audited!Mint
<1> QED BY <1>1, <1>7 DEF Audited!Next

LEMMA InitRefines == Init => Audited!Init
<1> SUFFICES ASSUME Init PROVE Audited!Init
  OBVIOUS
<1>1. \A r : ListForRequest(r) = <<>>
  <2>1. \A r : Trail(r) = {}
    BY DEF Init, Trail
  <2> QED BY <2>1, NothingListed DEF ListForRequest
<1> QED BY <1>1 DEF Init, NoRow, Audited!Init

LEMMA StepRefines ==
    IInv /\ TrailInv /\ OutsideInv /\ [Next]_vars => [Audited!Next]_(Audited!vars)
<1> SUFFICES ASSUME IInv, TrailInv, OutsideInv, [Next]_vars PROVE [Audited!Next]_(Audited!vars)
  OBVIOUS
<1>1. CASE Elsewhere
  <2>1. CASE UNCHANGED awsVars
    BY <1>1, <2>1, Stutters DEF Elsewhere, awsVars
  <2>2. ASSUME NEW m \in wire, SMRejects(m) PROVE UNCHANGED Audited!vars
    BY <2>2, Stutters DEF SMRejects, dbVars
  <2> QED BY <1>1, <2>1, <2>2, CreationRefines DEF Elsewhere
<1>2. ASSUME NEW s \in Session, Committing(s) PROVE Audited!Next
  BY <1>2, CommitsRefine
<1>3. ASSUME NEW s \in Session,
             \/ \E code, about : Ends(s, code, about)
             \/ \E k \in Tuple : CheckCreate(s, k)
             \/ \E r \in RequestId : InsertRequest(s, r) \/ BeginApprove(s, r)
             \/ LockRow(s) \/ MoveToProvisioning(s) \/ CallSecretsManager(s) \/ Record(s)
      PROVE  UNCHANGED <<rows, events, secrets>>
  BY <1>3 DEF Ends, CheckCreate, InsertRequest, BeginApprove, LockRow, MoveToProvisioning,
              CallSecretsManager, Record, RecordProvisioned, RecordFailed, RecordOutcome, dbVars, awsVars
<1> QED BY <1>1, <1>2, <1>3, Steps, Stutters

\* The whole of the service, its repositories and create_app_secret: what the API and
\* Secrets Manager show of every run is a run of AuditedLifecycle.
THEOREM LifecycleImplemented == Spec => ImplementsAuditedLifecycle
<1>1. IInv /\ TrailInv /\ OutsideInv /\ [Next]_vars => OutsideInv'
  BY SentInvStep, EventsStayFinite DEF OutsideInv
<1> QED BY <1>1, InitIInv, NextIInv, TrailInvInit, TrailInvStep, OutsideInvInit, InitRefines, StepRefines,
           PTL DEF Spec, ImplementsAuditedLifecycle, Audited!Spec

-----------------------------------------------------------------------------
(* Names that clash, and requests that are left behind *)

\* create_app_secret: one call leaves for a request and one request is made for
\* a tuple, so a call never meets a secret of its own tuple.
THEOREM ClashesForeign == Spec => []ClashesAreForeign
<1>1. IInv /\ SentInv => ClashesAreForeign
  <2> SUFFICES ASSUME IInv, SentInv, NEW m \in wire, NEW n \in secrets,
                      rows[m.for].key = rows[n.for].key
               PROVE  FALSE
    BY DEF ClashesAreForeign
  <2>1. m.for \in RequestId /\ n.for \in RequestId
    BY DEF IInv, TypeOK, Secret
  <2>2. rows[m.for].status # "ABSENT"
    BY DEF IInv, IntentIsDurable
  <2>3. m.for = n.for
    BY <2>1, <2>2 DEF IInv, UniqueTuple
  <2> QED BY <2>3 DEF SentInv
<1>2. Init => SentInv
  BY DEF Init, SentInv
<1>3. IInv /\ SentInv /\ [Next]_vars => SentInv'
  BY SentInvStep
<1> QED BY <1>1, <1>2, <1>3, InitIInv, NextIInv, PTL DEF Spec

\* A name of one segment has no "/" in it.
OneSegment == {<<x>> : x \in STRING}
SlashlessNames ==
    /\ Requestable \subseteq [service : Catalog, environment : STRING, logical_name : OneSegment]
    /\ \A c \in Catalog : ServiceName[c] \in OneSegment
    /\ \A c, d \in Catalog : ServiceName[c] = ServiceName[d] => c = d

Segment == STRING \cup {"platform"}
Single(u) == u \in Seq(Segment) /\ Len(u) = 1
Only(x) == <<x>>
Joined(one, q, f, y) == one \o q \o f \o y

\* What one more segment adds to a name.
LEMMA OneMoreSegment ==
    ASSUME NEW s \in Seq(Segment), NEW u, Single(u)
    PROVE  /\ s \o u \in Seq(Segment) /\ Len(s \o u) = Len(s) + 1
           /\ \A i \in 1 .. Len(s) + 1 : (s \o u)[i] = IF i <= Len(s) THEN s[i] ELSE u[i - Len(s)]
<1>1. PICK S : S = Segment
  OBVIOUS
<1>2. s \in Seq(S) /\ u \in Seq(S) /\ Len(u) = 1
  BY <1>1 DEF Single
<1>3. /\ s \o u \in Seq(S) /\ Len(s \o u) = Len(s) + Len(u)
      /\ \A i \in 1 .. Len(s) + Len(u) : (s \o u)[i] = IF i <= Len(s) THEN s[i] ELSE u[i - Len(s)]
  BY <1>2, ConcatProperties
<1> QED BY <1>1, <1>2, <1>3

LEMMA SegmentsOf ==
    ASSUME NEW one, NEW q, NEW f, NEW y, Single(one), Single(q), Single(f), Single(y)
    PROVE  LET n == Joined(one, q, f, y)
           IN  n[2] = q[1] /\ n[3] = f[1] /\ n[4] = y[1]
<1> DEFINE two == one \o q
           three == two \o f
           name == three \o y
<1>1. one \in Seq(Segment) /\ Len(one) = 1
  BY DEF Single
<1>2. two \in Seq(Segment) /\ Len(two) = 2 /\ two[2] = q[1]
  <2>1. two \in Seq(Segment) /\ Len(two) = Len(one) + 1
        /\ \A i \in 1 .. Len(one) + 1 : two[i] = IF i <= Len(one) THEN one[i] ELSE q[i - Len(one)]
    BY <1>1, OneMoreSegment
  <2> HIDE DEF two
  <2>2. 2 \in 1 .. Len(one) + 1 /\ ~(2 <= Len(one)) /\ 2 - Len(one) = 1 /\ Len(one) + 1 = 2
    BY <1>1
  <2> QED BY <2>1, <2>2
<1> HIDE DEF two
<1>3. three \in Seq(Segment) /\ Len(three) = 3 /\ three[2] = q[1] /\ three[3] = f[1]
  <2>1. three \in Seq(Segment) /\ Len(three) = Len(two) + 1
        /\ \A i \in 1 .. Len(two) + 1 : three[i] = IF i <= Len(two) THEN two[i] ELSE f[i - Len(two)]
    BY <1>2, OneMoreSegment
  <2> HIDE DEF three
  <2> QED BY <1>2, <2>1
<1> HIDE DEF three
<1>4. name[2] = q[1] /\ name[3] = f[1] /\ name[4] = y[1]
  <2>1. \A i \in 1 .. Len(three) + 1 : name[i] = IF i <= Len(three) THEN three[i] ELSE y[i - Len(three)]
    BY <1>3, OneMoreSegment
  <2> HIDE DEF name
  <2> QED BY <1>3, <2>1
<1> QED BY <1>4 DEF two, three, Joined

LEMMA OnlyIsSingle ==
    ASSUME NEW x \in Segment
    PROVE  Single(Only(x)) /\ Only(x)[1] = x
  BY DEF Single, Only

\* The parts of a name of four segments, each where it was put.
LEMMA PartsOfName ==
    ASSUME NEW p \in STRING, NEW e \in STRING, NEW z \in STRING
    PROVE  LET n == Joined(Only("platform"), Only(p), Only(e), Only(z))
           IN  n[2] = p /\ n[3] = e /\ n[4] = z
<1>1. "platform" \in Segment /\ p \in Segment /\ e \in Segment /\ z \in Segment
  BY DEF Segment
<1> QED BY <1>1, OnlyIsSingle, SegmentsOf

LEMMA SlashlessNamesDiffer ==
    ASSUME SlashlessNames, NEW k \in Requestable, NEW l \in Requestable, SecretName(k) = SecretName(l)
    PROVE  k = l
<1>1. /\ k \in [service : Catalog, environment : STRING, logical_name : OneSegment]
      /\ l \in [service : Catalog, environment : STRING, logical_name : OneSegment]
  BY DEF SlashlessNames
<1>2. PICK a \in STRING, b \in STRING, x \in STRING, y \in STRING :
        /\ ServiceName[k.service] = Only(a) /\ k.logical_name = Only(x)
        /\ ServiceName[l.service] = Only(b) /\ l.logical_name = Only(y)
  BY <1>1 DEF SlashlessNames, OneSegment, Only
<1>3. k.environment \in STRING /\ l.environment \in STRING
  BY <1>1
<1>4. SecretName(k)[2] = a /\ SecretName(k)[3] = k.environment /\ SecretName(k)[4] = x
  <2>1. SecretName(k) = Joined(Only("platform"), Only(a), Only(k.environment), Only(x))
    BY <1>2 DEF SecretName, Only, Joined
  <2>2. PICK e : e = k.environment
    OBVIOUS
  <2>3. a \in STRING /\ e \in STRING /\ x \in STRING
    BY <1>2, <1>3, <2>2
  <2>4. LET n == Joined(Only("platform"), Only(a), Only(e), Only(x))
        IN  n[2] = a /\ n[3] = e /\ n[4] = x
    BY <2>3, PartsOfName
  <2> QED BY <2>1, <2>2, <2>4
<1>5. SecretName(l)[2] = b /\ SecretName(l)[3] = l.environment /\ SecretName(l)[4] = y
  <2>1. SecretName(l) = Joined(Only("platform"), Only(b), Only(l.environment), Only(y))
    BY <1>2 DEF SecretName, Only, Joined
  <2>2. PICK e : e = l.environment
    OBVIOUS
  <2>3. b \in STRING /\ e \in STRING /\ y \in STRING
    BY <1>2, <1>3, <2>2
  <2>4. LET n == Joined(Only("platform"), Only(b), Only(e), Only(y))
        IN  n[2] = b /\ n[3] = e /\ n[4] = y
    BY <2>3, PartsOfName
  <2> QED BY <2>1, <2>2, <2>4
<1>6. a = b /\ k.environment = l.environment /\ x = y
  BY <1>4, <1>5, Zenon
<1>7. k.service = l.service
  BY <1>1, <1>2, <1>6 DEF SlashlessNames
<1> QED BY <1>1, <1>2, <1>6, <1>7

\* Where no name of a service or a secret holds a "/", no call ever meets a taken
\* name: only such names can make create_secret fail so.
THEOREM SlashlessNamesNeverClash ==
    ASSUME SlashlessNames
    PROVE  Spec => [](\A m \in wire : ~NameTaken(m.name))
<1>1. IInv /\ ClashesAreForeign => \A m \in wire : ~NameTaken(m.name)
  <2> SUFFICES ASSUME IInv, ClashesAreForeign, NEW m \in wire, NEW n \in secrets, n.name = m.name
               PROVE  FALSE
    BY DEF NameTaken
  <2>1. m.for \in RequestId /\ n.for \in RequestId
    BY DEF IInv, TypeOK, Secret
  <2>2. rows[m.for].key \in Requestable /\ rows[n.for].key \in Requestable
    BY <2>1 DEF IInv, IntentIsDurable, RowInv
  <2>3. SecretName(rows[m.for].key) = SecretName(rows[n.for].key)
    BY DEF IInv, SecretNamed
  <2> QED BY <2>2, <2>3, SlashlessNamesDiffer DEF ClashesAreForeign
<1> QED BY <1>1, Invariance, ClashesForeign, PTL

\* A request stays in hand when whoever works on it goes on, or decides it.
LEMMA StaysInHand ==
    ASSUME \A r \in RequestId :
               rows'[r].status = "PROVISIONING" =>
                   \/ rows[r].status = "PROVISIONING"
                   \/ \E s \in Session : req'[s] = r /\ pc'[s] \in Provisioning,
           \A s \in Session :
               pc[s] \in Provisioning =>
                   \/ pc'[s] \in Provisioning /\ req'[s] = req[s]
                   \/ rows'[req[s]].status # "PROVISIONING"
    PROVE  Abandoned' \subseteq Abandoned
  BY DEF Abandoned, Provisioning

\* A handler that ends gives up the request it has in hand, and no other.
LEMMA EndingAbandons ==
    ASSUME IInv, NEW s \in Session, NEW code, NEW about, Close(s, code, about), rows' = rows
    PROVE  /\ Abandoned' \subseteq Abandoned \cup {req[s]}
           /\ pc[s] \notin Provisioning => Abandoned' \subseteq Abandoned
<1>1. \A t \in Session : t # s => pc'[t] = pc[t] /\ req'[t] = req[t]
  BY DEF Close, IInv, TypeOK
<1> QED BY <1>1 DEF Abandoned, Provisioning

\* The steps that are no fault abandon nothing.
LEMMA WorkAbandonsNothing ==
    ASSUME IInv, [Next]_vars, \A s \in Session : ~DbError(s) /\ ~Crash(s)
    PROVE  Abandoned' \subseteq Abandoned /\ faults' = faults
<1>1. CASE Tick \/ (\E m \in wire : SMCreates(m) \/ SMRejects(m)) \/ UNCHANGED vars
  BY <1>1, StaysInHand DEF Tick, SMCreates, SMRejects, vars, dbVars, handlerVars
<1>2. ASSUME NEW s \in Session,
             \/ \E code, about : Reject(s, code, about)
             \/ InsertCollides(s) \/ AnswerCreate(s) \/ RefuseApprove(s) \/ AnswerApprove(s)
      PROVE  Abandoned' \subseteq Abandoned /\ faults' = faults
  <2>1. PICK code, about : Close(s, code, about)
    BY <1>2 DEF Reject, InsertCollides, AnswerCreate, RefuseApprove, AnswerApprove
  <2>2. rows' = rows /\ faults' = faults /\ pc[s] \notin Provisioning
    BY <1>2 DEF Reject, InsertCollides, AnswerCreate, RefuseApprove, AnswerApprove, Provisioning
  <2> QED BY <2>1, <2>2, EndingAbandons
<1>3. ASSUME NEW s \in Session,
             \/ \E k \in Tuple : CheckCreate(s, k)
             \/ \E r \in RequestId : InsertRequest(s, r) \/ BeginApprove(s, r)
             \/ LockRow(s) \/ MoveToProvisioning(s)
      PROVE  Abandoned' \subseteq Abandoned /\ faults' = faults
  <2>1. rows' = rows /\ faults' = faults /\ pc[s] \notin Provisioning
        /\ \A t \in Session : t # s => pc'[t] = pc[t] /\ req'[t] = req[t]
    BY <1>3 DEF CheckCreate, InsertRequest, BeginApprove, LockRow, MoveToProvisioning, dbVars,
                Provisioning, IInv, TypeOK
  <2> QED BY <2>1, StaysInHand
<1>4. ASSUME NEW s \in Session, CallSecretsManager(s) \/ Record(s)
      PROVE  Abandoned' \subseteq Abandoned /\ faults' = faults
  <2>1. rows' = rows /\ faults' = faults /\ req' = req /\ pc'[s] \in Provisioning
        /\ \A t \in Session : t # s => pc'[t] = pc[t]
    BY <1>4 DEF CallSecretsManager, Record, RecordProvisioned, RecordFailed, RecordOutcome, dbVars,
                Provisioning, IInv, TypeOK
  <2> QED BY <2>1, StaysInHand
<1>5. ASSUME NEW s \in Session, Committing(s)
      PROVE  Abandoned' \subseteq Abandoned /\ faults' = faults
  <2>1. faults' = faults
    BY <1>5 DEF Committing, CommitCreate, CommitIntent, CommitOutcome, Commit
  <2>2. ASSUME NEW r \in RequestId, rows'[r].status = "PROVISIONING"
        PROVE  \/ rows[r].status = "PROVISIONING"
               \/ \E t \in Session : req'[t] = r /\ pc'[t] \in Provisioning
    BY <1>5, <2>2, CommitMoves DEF IInv, TypeOK, Provisioning
  <2>3. ASSUME NEW t \in Session, pc[t] \in Provisioning
        PROVE  \/ pc'[t] \in Provisioning /\ req'[t] = req[t]
               \/ rows'[req[t]].status # "PROVISIONING"
    BY <1>5, <2>3, CommitMoves DEF IInv, TypeOK, Provisioning
  <2> QED BY <2>1, <2>2, <2>3, StaysInHand
<1> QED
  BY <1>1, <1>2, <1>3, <1>4, <1>5
     DEF Next, Begin, CreateForUnknownService, CreateWithOwnValue, CreateDuplicate, ApproveUnknown,
         CreateStep, ApproveStep, Committing

AbandonedInv == IsFiniteSet(Abandoned) /\ AbandonedByFaultsOnly

LEMMA AbandonedInvInit == Init => AbandonedInv
<1> SUFFICES ASSUME Init PROVE AbandonedInv
  OBVIOUS
<1>1. Abandoned = {} /\ faults = 0
  BY DEF Init, Abandoned, NoRow
<1> QED BY <1>1, FS_EmptySet DEF AbandonedInv, AbandonedByFaultsOnly

LEMMA AbandonedInvStep == IInv /\ AbandonedInv /\ [Next]_vars => AbandonedInv'
<1> SUFFICES ASSUME IInv, AbandonedInv, [Next]_vars PROVE AbandonedInv'
  OBVIOUS
<1> DEFINE n == Cardinality(Abandoned)
<1>0. faults \in Nat /\ n \in Nat /\ n <= faults
  BY FS_CardinalityType, BoundsAssumption DEF IInv, TypeOK, AbandonedInv, AbandonedByFaultsOnly
<1>1. CASE \A s \in Session : ~DbError(s) /\ ~Crash(s)
  <2>1. Abandoned' \in SUBSET Abandoned /\ faults' = faults
    BY <1>1, WorkAbandonsNothing
  <2>2. IsFiniteSet(Abandoned') /\ Cardinality(Abandoned') <= n
    BY <2>1, FS_Subset DEF AbandonedInv
  <2>3. Cardinality(Abandoned') \in Nat
    BY <2>2, FS_CardinalityType
  <2> HIDE DEF n
  <2> QED BY <1>0, <2>1, <2>2, <2>3 DEF AbandonedInv, AbandonedByFaultsOnly
<1>2. ASSUME NEW s \in Session, DbError(s) \/ Crash(s) PROVE AbandonedInv'
  <2>1. PICK code : Lost(s, code)
    BY <1>2 DEF DbError, Crash
  <2>2. faults' = faults + 1 /\ Abandoned' \in SUBSET (Abandoned \cup {req[s]})
    BY <2>1, EndingAbandons DEF Lost
  <2> DEFINE A == Abandoned \cup {req[s]}
  <2>3. IsFiniteSet(A) /\ Cardinality(A) <= n + 1
    BY <1>0, FS_AddElement DEF AbandonedInv
  <2>4. IsFiniteSet(Abandoned') /\ Cardinality(Abandoned') <= Cardinality(A)
    BY <2>2, <2>3, FS_Subset
  <2>5. Cardinality(Abandoned') \in Nat /\ Cardinality(A) \in Nat
    BY <2>3, <2>4, FS_CardinalityType
  <2> HIDE DEF n, A
  <2> QED BY <1>0, <2>2, <2>3, <2>4, <2>5 DEF AbandonedInv, AbandonedByFaultsOnly
<1> QED BY <1>1, <1>2

\* COMMIT #1 to COMMIT #2: a handler is at work on every request that is being
\* provisioned, but for one request at most for each handler that was lost.
THEOREM AbandonedOnlyByFaults == Spec => []AbandonedByFaultsOnly
<1>1. AbandonedInv => AbandonedByFaultsOnly
  BY DEF AbandonedInv
<1> QED BY <1>1, InitIInv, NextIInv, AbandonedInvInit, AbandonedInvStep, PTL DEF Spec
=============================================================================
