-------------------- MODULE SecretRequestLifecycle_proofs -------------------
(***************************************************************************)
(* Theorems of SecretRequestLifecycle, for every number of handlers,       *)
(* requests, tuples, clock ticks and faults.                               *)
(*                                                                         *)
(* The inductive invariant IInv says who may touch a row at each step of a *)
(* handler: the row lock up to COMMIT #1, and from there the status        *)
(* PROVISIONING, which only the handler that wrote it ever leaves.         *)
(***************************************************************************)
EXTENDS SecretRequestLifecycle, TLAPS

Approving == {"locking", "locked", "intent", "intended", "calling", "recorded", "concluded"}
HoldsLock == {"locked", "intent", "recorded"}
Provisioning == {"intended", "calling", "recorded"}

\* A row is there with a tuple of its own, and APPROVED is never committed.
RowInv ==
    \A r \in RequestId :
        /\ rows[r].status # "APPROVED"
        /\ rows[r].status # "ABSENT" => rows[r].key \in Requestable
        /\ rows[r].status = "ABSENT" => rows[r] = NoRow

\* What a handler works on.
HandlerInv ==
    \A s \in Session :
        /\ pc[s] \notin {"idle", "checked"} => req[s] \in RequestId
        /\ pc[s] \in Approving => rows[req[s]].status # "ABSENT"
        /\ pc[s] \in {"checked", "inserted"} =>
              obj[s].key \in Requestable /\ obj[s].status = "PENDING"
        /\ pc[s] = "inserted" => rows[req[s]].status = "ABSENT"
        /\ pc[s] = "locked" => obj[s] = rows[req[s]]
        /\ pc[s] = "intent" => /\ rows[req[s]].status = "PENDING"
                               /\ obj[s].status = "PROVISIONING"
                               /\ obj[s].key = rows[req[s]].key
        /\ pc[s] \in Provisioning => rows[req[s]].status = "PROVISIONING"
        /\ pc[s] = "calling" => obj[s].status = "PROVISIONING"
        /\ pc[s] = "recorded" => obj[s].status \in {"PROVISIONED", "FAILED"}
        /\ pc[s] \in {"calling", "recorded"} => obj[s].key = rows[req[s]].key

\* A lock is held exactly by a handler that is between taking and releasing it.
LockInv ==
    /\ \A s \in Session : pc[s] \in HoldsLock => lock[req[s]] = s
    /\ \A r \in RequestId :
          lock[r] # None => pc[lock[r]] \in HoldsLock /\ req[lock[r]] = r

\* A row is created by one handler and provisioned by one handler.
OwnerInv ==
    \A s, t \in Session :
        /\ pc[s] = "inserted" /\ req[t] = req[s] => t = s
        /\ pc[s] \in Provisioning /\ pc[t] \in Provisioning /\ req[t] = req[s] => t = s

\* Nothing is sent before COMMIT #1, and one call after it.
CallInv ==
    /\ \A r \in RequestId :
          /\ calls[r] <= 1
          /\ rows[r].status \in {"ABSENT", "PENDING"} => calls[r] = 0
    /\ \A s \in Session : pc[s] = "intended" => calls[req[s]] = 0

\* The key of a flushed row is nobody else's, committed or flushed.
KeyInv ==
    \A s \in Session :
        pc[s] = "inserted" =>
            /\ \A r \in RequestId : rows[r].key # obj[s].key
            /\ \A t \in Session : pc[t] = "inserted" /\ obj[t].key = obj[s].key => t = s

\* The approval is flushed with the intent and committed before the call is made.
IntentFlushed ==
    \A s \in Session :
        pc[s] = "intent" =>
            \E e \in pend[s] : e.req = req[s] /\ e.status = "APPROVED" /\ e.actor = s
IntentCommitted ==
    \A s \in Session :
        pc[s] = "intended" =>
            \E e \in Trail(req[s]) : e.status = "APPROVED" /\ e.actor = s

\* A call asks for the name of its request; an ARN is flushed with PROVISIONED
\* only, and names the secret that the request's own call created.
SecretNamed == \A m \in wire \cup secrets : m.name = SecretName(rows[m.for].key)
ArnFlushed ==
    \A s \in Session :
        /\ pc[s] \in {"checked", "inserted", "intent", "calling"} => obj[s].arn = None
        /\ pc[s] = "recorded" =>
              IF obj[s].status = "PROVISIONED"
              THEN obj[s].arn \in secrets /\ obj[s].arn.for = req[s]
              ELSE obj[s].arn = None

IInv ==
    /\ TypeOK /\ RowInv /\ HandlerInv /\ LockInv /\ OwnerInv
    /\ CallInv /\ KeyInv /\ UniqueTuple
    /\ IntentFlushed /\ IntentCommitted /\ IntentIsDurable
    /\ SecretNamed /\ ArnFlushed /\ OwnSecret

-----------------------------------------------------------------------------
(* One lemma for each action: it preserves IInv.  The last step of each has   *)
(* the conjuncts that hold after the action because they held before it.     *)

\* A handler that ends, whatever it answers.
LEMMA CloseStep ==
  ASSUME NEW s \in Session, NEW code \in Code,
         NEW about \in RequestId \cup Tuple \cup {None}, IInv, Close(s, code, about),
         UNCHANGED <<rows, events, nextSeq, awsVars, clock, logged>>,
         faults' \in 0 .. MaxFaults
  PROVE  IInv'
<1> USE NoneAssumption DEF Close, Unlocked, awsVars
<1>1. TypeOK'
  BY BoundsAssumption DEF IInv, TypeOK, PC, Code, Row, Status, NoRow, NoAnswer
<1>2. HandlerInv'
  BY DEF IInv, HandlerInv, TypeOK, Approving, Provisioning
<1>3. LockInv'
  BY DEF IInv, LockInv, TypeOK, HandlerInv, HoldsLock
<1>4. OwnerInv'
  BY DEF IInv, OwnerInv, TypeOK, HandlerInv, Provisioning
<1>5. CallInv'
  BY DEF IInv, CallInv, TypeOK
<1>6. KeyInv'
  BY DEF IInv, KeyInv, TypeOK
<1>7. IntentFlushed'
  BY DEF IInv, IntentFlushed, TypeOK
<1>8. IntentCommitted'
  BY DEF IInv, IntentCommitted, TypeOK, Trail
<1>9. ArnFlushed'
  BY DEF IInv, ArnFlushed, TypeOK
<1>10. RowInv' /\ UniqueTuple' /\ IntentIsDurable' /\ SecretNamed' /\ OwnSecret'
  BY DEF IInv, RowInv, UniqueTuple, IntentIsDurable, SecretNamed, OwnSecret, Trail
<1> QED
  BY <1>1, <1>2, <1>3, <1>4, <1>5, <1>6, <1>7, <1>8, <1>9, <1>10 DEF IInv

\* create_request, the check: nothing is written.
LEMMA CheckCreateStep ==
  ASSUME NEW s \in Session, NEW k \in Tuple, IInv, CheckCreate(s, k)
  PROVE  IInv'
<1> USE NoneAssumption DEF CheckCreate, ExistsForTuple, dbVars, awsVars
<1>1. TypeOK'
  BY DEF IInv, TypeOK, PC, Code, Row, NoRow, NoAnswer, Status, HandlerInv, Requestable
<1>2. HandlerInv'
  BY DEF IInv, HandlerInv, TypeOK, Requestable, NoRow, Approving, Provisioning
<1>3. ArnFlushed'
  BY DEF IInv, ArnFlushed, TypeOK
<1>4. RowInv' /\ LockInv' /\ OwnerInv' /\ CallInv' /\ KeyInv' /\ UniqueTuple'
      /\ IntentFlushed' /\ IntentCommitted' /\ IntentIsDurable' /\ SecretNamed'
      /\ OwnSecret'
  BY DEF IInv, RowInv, LockInv, OwnerInv, CallInv, KeyInv, UniqueTuple, IntentFlushed,
         IntentCommitted, IntentIsDurable, SecretNamed, OwnSecret, HoldsLock,
         Provisioning, Trail
<1> QED
  BY <1>1, <1>2, <1>3, <1>4 DEF IInv

\* create_request, the flush: KeyInv begins to hold of the new row.
LEMMA InsertRequestStep ==
  ASSUME NEW s \in Session, NEW r \in RequestId, IInv, InsertRequest(s, r)
  PROVE  IInv'
<1> USE NoneAssumption DEF InsertRequest, KeyInFlight, ExistsForTuple, awsVars
<1>1. TypeOK'
  BY DEF IInv, TypeOK, PC, Row, Status, Secret, Event, HandlerInv, RowInv
<1>2. HandlerInv'
  BY DEF IInv, HandlerInv, TypeOK, Requestable, NoRow, Approving, Provisioning
<1>3. OwnerInv'
  BY DEF IInv, OwnerInv, TypeOK, Provisioning
<1>4. RowInv' /\ LockInv' /\ CallInv' /\ KeyInv' /\ UniqueTuple' /\ IntentFlushed'
      /\ IntentCommitted' /\ IntentIsDurable' /\ SecretNamed' /\ ArnFlushed' /\ OwnSecret'
  BY DEF IInv, RowInv, LockInv, CallInv, KeyInv, UniqueTuple, IntentFlushed,
         IntentCommitted, IntentIsDurable, SecretNamed, ArnFlushed, OwnSecret,
         HoldsLock, Trail
<1> QED
  BY <1>1, <1>2, <1>3, <1>4 DEF IInv

\* create_request, the commit: KeyInv becomes UniqueTuple.
LEMMA CommitCreateStep ==
  ASSUME NEW s \in Session, IInv, CommitCreate(s)
  PROVE  IInv'
<1> USE NoneAssumption DEF CommitCreate, Commit, Unlocked, awsVars
<1>a. req[s] \in RequestId /\ pc[s] \notin HoldsLock
  BY DEF IInv, HandlerInv, HoldsLock
<1>b. lock' = lock
  BY <1>a DEF IInv, TypeOK, LockInv
<1>1. TypeOK'
  BY DEF IInv, TypeOK, PC
<1>2. RowInv'
  BY DEF IInv, RowInv, HandlerInv
<1>3. HandlerInv'
  BY DEF IInv, HandlerInv, TypeOK, LockInv, OwnerInv, HoldsLock, Approving, Provisioning
<1>4. LockInv'
  BY <1>a, <1>b DEF IInv, LockInv, TypeOK, HoldsLock
<1>5. CallInv'
  BY DEF IInv, CallInv, HandlerInv
<1>6. KeyInv'
  BY DEF IInv, KeyInv, TypeOK
<1>7. UniqueTuple'
  BY DEF IInv, UniqueTuple, TypeOK, KeyInv, HandlerInv, RowInv, NoRow
<1>8. IntentIsDurable'
  BY DEF IInv, IntentIsDurable, HandlerInv, Trail
<1>9. SecretNamed'
  BY DEF IInv, SecretNamed, TypeOK, HandlerInv, RowInv, IntentIsDurable, Secret
<1>10. OwnSecret'
  BY DEF IInv, OwnSecret, TypeOK, HandlerInv, RowInv, ArnFlushed, NoRow, Secret,
         SecretNamed
<1>11. OwnerInv' /\ IntentFlushed' /\ IntentCommitted' /\ ArnFlushed'
  BY DEF IInv, OwnerInv, IntentFlushed, IntentCommitted, ArnFlushed, Provisioning, Trail
<1> QED
  BY <1>1, <1>2, <1>3, <1>4, <1>5, <1>6, <1>7, <1>8, <1>9, <1>10, <1>11 DEF IInv

\* approve_request sends its SELECT ... FOR UPDATE.
LEMMA BeginApproveStep ==
  ASSUME NEW s \in Session, NEW r \in RequestId, IInv, BeginApprove(s, r)
  PROVE  IInv'
<1> USE NoneAssumption DEF BeginApprove, dbVars, awsVars
<1>1. TypeOK'
  BY DEF IInv, TypeOK, PC, Code, NoAnswer
<1>2. HandlerInv'
  BY DEF IInv, HandlerInv, TypeOK, Approving, Provisioning
<1>3. OwnerInv'
  BY DEF IInv, OwnerInv, HandlerInv, Provisioning
<1>4. RowInv' /\ LockInv' /\ CallInv' /\ KeyInv' /\ UniqueTuple' /\ IntentFlushed'
      /\ IntentCommitted' /\ IntentIsDurable' /\ SecretNamed' /\ ArnFlushed' /\ OwnSecret'
  BY DEF IInv, RowInv, LockInv, CallInv, KeyInv, UniqueTuple, IntentFlushed,
         IntentCommitted, IntentIsDurable, SecretNamed, ArnFlushed, OwnSecret,
         HoldsLock, Trail
<1> QED
  BY <1>1, <1>2, <1>3, <1>4 DEF IInv

\* ... and has the lock and what is committed under it.
LEMMA LockRowStep ==
  ASSUME NEW s \in Session, IInv, LockRow(s)
  PROVE  IInv'
<1> USE NoneAssumption DEF LockRow, awsVars
<1>1. TypeOK'
  BY DEF IInv, TypeOK, PC, Code, Row, NoRow, NoAnswer, Status, HandlerInv, Requestable
<1>2. HandlerInv'
  BY DEF IInv, HandlerInv, TypeOK, Approving, Provisioning
<1>3. LockInv'
  BY DEF IInv, LockInv, TypeOK, HandlerInv, HoldsLock
<1>4. RowInv' /\ OwnerInv' /\ CallInv' /\ KeyInv' /\ UniqueTuple' /\ IntentFlushed'
      /\ IntentCommitted' /\ IntentIsDurable' /\ SecretNamed' /\ ArnFlushed' /\ OwnSecret'
  BY DEF IInv, RowInv, OwnerInv, CallInv, KeyInv, UniqueTuple, IntentFlushed,
         IntentCommitted, IntentIsDurable, SecretNamed, ArnFlushed, OwnSecret,
         Provisioning, Trail
<1> QED
  BY <1>1, <1>2, <1>3, <1>4 DEF IInv

\* Only PENDING leads to APPROVED, so nothing was sent yet.
LEMMA MoveToProvisioningStep ==
  ASSUME NEW s \in Session, IInv, MoveToProvisioning(s)
  PROVE  IInv'
<1> USE NoneAssumption DEF MoveToProvisioning, awsVars
<1>a. req[s] \in RequestId /\ lock[req[s]] = s /\ obj[s] = rows[req[s]]
  BY DEF IInv, HandlerInv, LockInv, HoldsLock
<1>b. obj[s] \in Row /\ obj[s].status = "PENDING"
  <2>1. obj[s] \in Row
    BY DEF IInv, TypeOK
  <2>2. \A st \in Status : "APPROVED" \in ValidTransitions[st] => st = "PENDING"
    BY DEF ValidTransitions, Status
  <2> QED
    BY <2>1, <2>2 DEF Row
<1>c. obj' = [obj EXCEPT ![s] = [obj[s] EXCEPT !.status = "PROVISIONING"]]
  OBVIOUS
<1>d. [obj[s] EXCEPT !.status = "PROVISIONING"] \in Row
  BY <1>b DEF Row, Status
<1>e. /\ NewEvent(s, 0, "APPROVED", s) \in Event
      /\ NewEvent(s, 1, "PROVISIONING", "system") \in Event
  BY <1>a DEF IInv, TypeOK, NewEvent, Event, Status
<1>1. TypeOK'
  BY <1>c, <1>d, <1>e DEF IInv, TypeOK, PC
<1>2. HandlerInv'
  BY <1>a, <1>b, <1>c DEF IInv, TypeOK, Row, HandlerInv, Approving, Provisioning
<1>3. IntentFlushed'
  BY DEF IInv, TypeOK, IntentFlushed, NewEvent
<1>4. ArnFlushed'
  BY <1>a, <1>b, <1>c DEF IInv, TypeOK, Row, ArnFlushed, OwnSecret
<1>5. RowInv' /\ LockInv' /\ OwnerInv' /\ CallInv' /\ KeyInv' /\ UniqueTuple'
      /\ IntentCommitted' /\ IntentIsDurable' /\ SecretNamed' /\ OwnSecret'
  BY DEF IInv, RowInv, LockInv, OwnerInv, CallInv, KeyInv, UniqueTuple, IntentCommitted,
         IntentIsDurable, SecretNamed, OwnSecret, HoldsLock, Provisioning, Trail
<1> QED
  BY <1>1, <1>2, <1>3, <1>4, <1>5 DEF IInv

\* COMMIT #1: the lock goes, the status PROVISIONING stands for it.
LEMMA CommitIntentStep ==
  ASSUME NEW s \in Session, IInv, CommitIntent(s)
  PROVE  IInv'
<1> USE NoneAssumption DEF CommitIntent, Commit, Unlocked, awsVars
<1>1. TypeOK'
  BY DEF IInv, TypeOK, PC
<1>2. RowInv'
  BY DEF IInv, RowInv, HandlerInv
<1>3. HandlerInv'
  BY DEF IInv, HandlerInv, TypeOK, LockInv, OwnerInv, HoldsLock, Approving, Provisioning
<1>4. LockInv'
  BY DEF IInv, LockInv, TypeOK, HandlerInv, HoldsLock
<1>5. OwnerInv'
  BY DEF IInv, OwnerInv, HandlerInv, Provisioning
<1>6. CallInv'
  BY DEF IInv, CallInv, HandlerInv
<1>7. KeyInv'
  BY DEF IInv, KeyInv, HandlerInv
<1>8. UniqueTuple'
  BY DEF IInv, UniqueTuple, HandlerInv
<1>9. IntentFlushed'
  BY DEF IInv, IntentFlushed, TypeOK
<1>10. IntentCommitted'
  BY DEF IInv, IntentCommitted, TypeOK, HandlerInv, IntentFlushed, Trail
<1>11. IntentIsDurable'
  BY DEF IInv, IntentIsDurable, HandlerInv, Trail
<1>12. SecretNamed'
  BY DEF IInv, SecretNamed, HandlerInv
<1>13. OwnSecret'
  BY DEF IInv, OwnSecret, TypeOK, HandlerInv, RowInv, ArnFlushed, NoRow, Secret,
         SecretNamed
<1>14. ArnFlushed'
  BY DEF IInv, ArnFlushed
<1> QED
  BY <1>1, <1>2, <1>3, <1>4, <1>5, <1>6, <1>7, <1>8, <1>9, <1>10, <1>11, <1>12, <1>13,
     <1>14 DEF IInv

\* The one call of the one handler that is past COMMIT #1.
LEMMA CallSecretsManagerStep ==
  ASSUME NEW s \in Session, IInv, CallSecretsManager(s)
  PROVE  IInv'
<1> USE NoneAssumption DEF CallSecretsManager, dbVars
<1>a. req[s] \in RequestId /\ rows[req[s]].status = "PROVISIONING"
  BY DEF IInv, HandlerInv, Provisioning
<1>b. rows[req[s]] \in Row /\ rows[req[s]].key \in Requestable
  BY <1>a DEF IInv, TypeOK, RowInv
<1>c. [for |-> req[s], by |-> s, name |-> SecretName(rows[req[s]].key)] \in Secret
  BY <1>a, <1>b DEF Secret
<1>1. TypeOK'
  BY <1>a, <1>b, <1>c DEF IInv, TypeOK, PC
<1>2. HandlerInv'
  BY DEF IInv, HandlerInv, TypeOK, Approving, Provisioning
<1>3. CallInv'
  BY DEF IInv, CallInv, TypeOK, HandlerInv, OwnerInv, RowInv, Approving, HoldsLock,
         Provisioning
<1>4. IntentIsDurable'
  BY DEF IInv, IntentIsDurable, TypeOK, HandlerInv, IntentCommitted, Trail, Secret,
         Approving, HoldsLock, Provisioning
<1>5. ArnFlushed'
  BY DEF IInv, ArnFlushed, TypeOK, HandlerInv, RowInv, OwnSecret, NoRow, Row, Approving,
         HoldsLock, Provisioning
<1>6. RowInv' /\ LockInv' /\ OwnerInv' /\ KeyInv' /\ UniqueTuple' /\ IntentFlushed'
      /\ IntentCommitted' /\ SecretNamed' /\ OwnSecret'
  BY DEF IInv, RowInv, LockInv, OwnerInv, KeyInv, UniqueTuple, IntentFlushed,
         IntentCommitted, SecretNamed, OwnSecret, HoldsLock, Provisioning, Trail
<1> QED
  BY <1>1, <1>2, <1>3, <1>4, <1>5, <1>6 DEF IInv

\* Either outcome of the call, with the ARN it stores.
LEMMA RecordOutcomeStep ==
  ASSUME NEW s \in Session, NEW status \in {"PROVISIONED", "FAILED"}, NEW arn \in Secret \cup {None},
         NEW outcome \in Outcome, IInv, RecordOutcome(s, status, arn, outcome),
         IF status = "PROVISIONED" THEN arn \in secrets /\ arn.for = req[s] ELSE arn = None
  PROVE  IInv'
<1> USE NoneAssumption DEF RecordOutcome, awsVars
<1>a. req[s] \in RequestId
  BY DEF IInv, HandlerInv
<1>b. [obj[s] EXCEPT !.status = status, !.arn = arn] \in Row
  <2>1. obj[s] \in Row /\ status \in Status
    BY DEF IInv, TypeOK, Status
  <2> QED
    BY <2>1 DEF Row
<1>c. obj' = [obj EXCEPT ![s] = [obj[s] EXCEPT !.status = status, !.arn = arn]]
  BY DEF IInv, TypeOK
<1>d. NewEvent(s, 0, status, "system") \in Event
  BY <1>a DEF IInv, TypeOK, NewEvent, Event, Status
<1>1. TypeOK'
  BY <1>a, <1>b, <1>c, <1>d DEF IInv, TypeOK, PC, Outcome
<1>2. HandlerInv'
  BY DEF IInv, HandlerInv, TypeOK, Approving, Provisioning
<1>3. LockInv'
  BY DEF IInv, LockInv, TypeOK, HandlerInv, HoldsLock
<1>4. KeyInv'
  BY DEF IInv, KeyInv, TypeOK
<1>5. ArnFlushed'
  BY DEF IInv, ArnFlushed, TypeOK
<1>6. RowInv' /\ OwnerInv' /\ CallInv' /\ UniqueTuple' /\ IntentFlushed'
      /\ IntentCommitted' /\ IntentIsDurable' /\ SecretNamed' /\ OwnSecret'
  BY DEF IInv, RowInv, OwnerInv, CallInv, UniqueTuple, IntentFlushed, IntentCommitted,
         IntentIsDurable, SecretNamed, OwnSecret, Provisioning, Trail
<1> QED
  BY <1>1, <1>2, <1>3, <1>4, <1>5, <1>6 DEF IInv

\* COMMIT #2: what was flushed with the ARN becomes the row.
LEMMA CommitOutcomeStep ==
  ASSUME NEW s \in Session, IInv, CommitOutcome(s)
  PROVE  IInv'
<1> USE NoneAssumption DEF CommitOutcome, Commit, Unlocked, awsVars
<1>1. TypeOK'
  BY DEF IInv, TypeOK, PC
<1>2. RowInv'
  BY DEF IInv, RowInv, TypeOK, HandlerInv, NoRow, Requestable, ValidTransitions,
         Approving, HoldsLock, Provisioning
<1>3. HandlerInv'
  BY DEF IInv, HandlerInv, TypeOK, LockInv, OwnerInv, HoldsLock, Approving, Provisioning
<1>4. LockInv'
  BY DEF IInv, LockInv, TypeOK, HandlerInv, HoldsLock
<1>5. CallInv'
  BY DEF IInv, CallInv, HandlerInv
<1>6. KeyInv'
  BY DEF IInv, KeyInv, HandlerInv
<1>7. UniqueTuple'
  BY DEF IInv, UniqueTuple, TypeOK, KeyInv, HandlerInv, RowInv, NoRow, Approving,
         HoldsLock, Provisioning
<1>8. IntentIsDurable'
  BY DEF IInv, IntentIsDurable, HandlerInv, Trail
<1>9. SecretNamed'
  BY DEF IInv, SecretNamed, HandlerInv
<1>10. OwnSecret'
  BY DEF IInv, OwnSecret, TypeOK, HandlerInv, RowInv, ArnFlushed, NoRow, Secret,
         SecretNamed
<1>11. OwnerInv' /\ IntentFlushed' /\ IntentCommitted' /\ ArnFlushed'
  BY DEF IInv, OwnerInv, IntentFlushed, IntentCommitted, ArnFlushed, Provisioning, Trail
<1> QED
  BY <1>1, <1>2, <1>3, <1>4, <1>5, <1>6, <1>7, <1>8, <1>9, <1>10, <1>11 DEF IInv

\* Secrets Manager only ever adds secrets ...
LEMMA SMCreatesStep ==
  ASSUME NEW m \in wire, IInv, SMCreates(m)
  PROVE  IInv'
<1> USE NoneAssumption DEF SMCreates, dbVars, handlerVars
<1>1. TypeOK'
  BY DEF IInv, TypeOK, PC
<1>2. RowInv' /\ HandlerInv' /\ LockInv' /\ OwnerInv' /\ CallInv' /\ KeyInv'
      /\ UniqueTuple' /\ IntentFlushed' /\ IntentCommitted' /\ IntentIsDurable'
      /\ SecretNamed' /\ ArnFlushed' /\ OwnSecret'
  BY DEF IInv, RowInv, HandlerInv, LockInv, OwnerInv, CallInv, KeyInv, UniqueTuple,
         IntentFlushed, IntentCommitted, IntentIsDurable, SecretNamed, ArnFlushed,
         OwnSecret, Approving, Provisioning, HoldsLock, Trail
<1> QED
  BY <1>1, <1>2 DEF IInv

\* ... or drops calls.
LEMMA SMRejectsStep ==
  ASSUME NEW m \in wire, IInv, SMRejects(m)
  PROVE  IInv'
<1> USE NoneAssumption DEF SMRejects, dbVars, handlerVars
<1>1. TypeOK'
  BY DEF IInv, TypeOK, PC
<1>2. RowInv' /\ HandlerInv' /\ LockInv' /\ OwnerInv' /\ CallInv' /\ KeyInv'
      /\ UniqueTuple' /\ IntentFlushed' /\ IntentCommitted' /\ IntentIsDurable'
      /\ SecretNamed' /\ ArnFlushed' /\ OwnSecret'
  BY DEF IInv, RowInv, HandlerInv, LockInv, OwnerInv, CallInv, KeyInv, UniqueTuple,
         IntentFlushed, IntentCommitted, IntentIsDurable, SecretNamed, ArnFlushed,
         OwnSecret, Approving, Provisioning, HoldsLock, Trail
<1> QED
  BY <1>1, <1>2 DEF IInv

\* Time passes.
LEMMA TickStep ==
  ASSUME IInv, Tick
  PROVE  IInv'
<1> USE NoneAssumption DEF Tick, dbVars, handlerVars, awsVars
<1>1. TypeOK'
  BY BoundsAssumption DEF IInv, TypeOK, PC, Code, Row, Status, NoRow, NoAnswer
<1>2. RowInv' /\ HandlerInv' /\ LockInv' /\ OwnerInv' /\ CallInv' /\ KeyInv'
      /\ UniqueTuple' /\ IntentFlushed' /\ IntentCommitted' /\ IntentIsDurable'
      /\ SecretNamed' /\ ArnFlushed' /\ OwnSecret'
  BY DEF IInv, RowInv, HandlerInv, LockInv, OwnerInv, CallInv, KeyInv, UniqueTuple,
         IntentFlushed, IntentCommitted, IntentIsDurable, SecretNamed, ArnFlushed,
         OwnSecret, Approving, Provisioning, HoldsLock, Trail
<1> QED
  BY <1>1, <1>2 DEF IInv

\* Whatever rejects a call before anything is written.
LEMMA RejectStep ==
  ASSUME NEW s \in Session, NEW code \in Code, NEW about \in Tuple \cup {None},
         IInv, Reject(s, code, about)
  PROVE  IInv'
<1>1. faults' \in 0 .. MaxFaults
  BY DEF Reject, IInv, TypeOK
<1> QED
  BY <1>1, CloseStep DEF Reject

\* A handler that ends with an answer about its own request or tuple.
LEMMA AnswerStep ==
  ASSUME NEW s \in Session, IInv,
         InsertCollides(s) \/ AnswerCreate(s) \/ RefuseApprove(s) \/ AnswerApprove(s)
  PROVE  IInv'
<1>1. faults' \in 0 .. MaxFaults
  BY DEF InsertCollides, AnswerCreate, RefuseApprove, AnswerApprove, IInv, TypeOK
<1>2. CASE InsertCollides(s)
  <2>1. obj[s].key \in Tuple
    BY <1>2 DEF InsertCollides, IInv, HandlerInv, Requestable
  <2> QED
    BY <1>1, <1>2, <2>1, CloseStep DEF InsertCollides, Code
<1>3. ASSUME pc[s] \in {"created", "locked", "concluded"}
      PROVE  req[s] \in RequestId
  BY <1>3 DEF IInv, HandlerInv
<1>4. CASE AnswerCreate(s)
  BY <1>1, <1>3, <1>4, CloseStep DEF AnswerCreate, Code
<1>5. CASE RefuseApprove(s)
  BY <1>1, <1>3, <1>5, CloseStep DEF RefuseApprove, Code
<1>6. CASE AnswerApprove(s)
  BY <1>1, <1>3, <1>6, CloseStep DEF AnswerApprove, Code
<1> QED
  BY <1>2, <1>4, <1>5, <1>6

LEMMA RecordStep ==
  ASSUME NEW s \in Session, IInv, Record(s)
  PROVE  IInv'
<1>1. CASE RecordProvisioned(s)
  <2>1. PICK m \in secrets : /\ m.for = req[s] /\ m.by = s
                             /\ RecordOutcome(s, "PROVISIONED", m, "provisioned")
    BY <1>1 DEF RecordProvisioned
  <2>2. m \in Secret
    BY DEF IInv, TypeOK
  <2> QED
    BY <2>1, <2>2, RecordOutcomeStep DEF Outcome
<1>2. CASE RecordFailed(s)
  <2>1. obj[s].arn = None
    BY <1>2 DEF RecordFailed, RecordOutcome, IInv, ArnFlushed
  <2> QED
    BY <1>2, <2>1, RecordOutcomeStep DEF RecordFailed, Outcome
<1> QED
  BY <1>1, <1>2 DEF Record

LEMMA LostStep ==
  ASSUME NEW s \in Session, IInv, DbError(s) \/ Crash(s)
  PROVE  IInv'
<1>1. PICK code \in Code : Lost(s, code)
  BY DEF DbError, Crash, Code
<1>2. faults' \in 0 .. MaxFaults
  BY <1>1, BoundsAssumption DEF Lost, IInv, TypeOK
<1> QED
  BY <1>1, <1>2, CloseStep DEF Lost

LEMMA InitIInv == Init => IInv
<1> SUFFICES ASSUME Init PROVE IInv
  OBVIOUS
<1> USE NoneAssumption, BoundsAssumption DEF Init, NoRow
<1>1. TypeOK
  BY DEF TypeOK, PC, Code, Row, Status, NoAnswer
<1>2. RowInv /\ HandlerInv /\ LockInv /\ OwnerInv /\ CallInv /\ KeyInv /\ UniqueTuple
  BY DEF RowInv, HandlerInv, LockInv, OwnerInv, CallInv, KeyInv, UniqueTuple,
         Approving, HoldsLock, Provisioning
<1>3. IntentFlushed /\ IntentCommitted /\ IntentIsDurable
  BY DEF IntentFlushed, IntentCommitted, IntentIsDurable
<1>4. SecretNamed /\ ArnFlushed /\ OwnSecret
  BY DEF SecretNamed, ArnFlushed, OwnSecret
<1> QED
  BY <1>1, <1>2, <1>3, <1>4 DEF IInv

LEMMA NextIInv == IInv /\ [Next]_vars => IInv'
<1> SUFFICES ASSUME IInv, [Next]_vars PROVE IInv'
  OBVIOUS
<1>1. CASE Tick
  BY <1>1, TickStep
<1>2. ASSUME NEW s \in Session, Begin(s)
      PROVE  IInv'
  <2>1. ASSUME NEW k \in Tuple,
               CreateForUnknownService(s, k) \/ CreateWithOwnValue(s, k) \/ CreateDuplicate(s, k)
        PROVE  IInv'
    BY <2>1, RejectStep DEF CreateForUnknownService, CreateWithOwnValue, CreateDuplicate, Code
  <2>2. ASSUME NEW k \in Tuple, CheckCreate(s, k)
        PROVE  IInv'
    BY <2>2, CheckCreateStep
  <2>3. ASSUME NEW r \in RequestId, ApproveUnknown(s, r)
        PROVE  IInv'
    BY <2>3, RejectStep DEF ApproveUnknown, Code
  <2>4. ASSUME NEW r \in RequestId, BeginApprove(s, r)
        PROVE  IInv'
    BY <2>4, BeginApproveStep
  <2> QED
    BY <1>2, <2>1, <2>2, <2>3, <2>4 DEF Begin
<1>3. ASSUME NEW s \in Session, CreateStep(s) \/ LockRow(s) \/ ApproveStep(s)
      PROVE  IInv'
  BY <1>3, AnswerStep, CommitCreateStep, InsertRequestStep, LockRowStep,
     MoveToProvisioningStep, CommitIntentStep, CallSecretsManagerStep, CommitOutcomeStep
     DEF CreateStep, ApproveStep
<1>4. ASSUME NEW s \in Session, Record(s) \/ DbError(s) \/ Crash(s)
      PROVE  IInv'
  BY <1>4, RecordStep, LostStep
<1>5. ASSUME NEW m \in wire, SMCreates(m) \/ SMRejects(m)
      PROVE  IInv'
  BY <1>5, SMCreatesStep, SMRejectsStep
<1>6. CASE UNCHANGED vars
  BY <1>6 DEF IInv, TypeOK, RowInv, HandlerInv, LockInv, OwnerInv, CallInv, KeyInv,
              UniqueTuple, IntentFlushed, IntentCommitted, IntentIsDurable, Trail,
              SecretNamed, ArnFlushed, OwnSecret, vars, dbVars, handlerVars, awsVars
<1> QED
  BY <1>1, <1>2, <1>3, <1>4, <1>5, <1>6 DEF Next

LEMMA Invariance == Spec => []IInv
  BY InitIInv, NextIInv, PTL DEF Spec

-----------------------------------------------------------------------------

\* Every variable keeps its type, keys, names and ARNs included.
THEOREM TypeCorrect == Spec => []TypeOK
<1>1. IInv => TypeOK
  BY DEF IInv
<1> QED
  BY <1>1, Invariance, PTL

\* approve_request: however many handlers approve a request, and wherever they
\* are lost, one create_secret call at most leaves for it.
THEOREM ProvisionedOnce == Spec => []SingleProvisioning
<1>1. IInv => SingleProvisioning
  BY DEF IInv, CallInv, SingleProvisioning
<1> QED
  BY <1>1, Invariance, PTL

\* COMMIT #1: what AWS has been asked for, row and trail already tell.
THEOREM IntentDurable == Spec => []IntentIsDurable
<1>1. IInv => IntentIsDurable
  BY DEF IInv
<1> QED
  BY <1>1, Invariance, PTL

\* create_request and uq_secret_requests_service_logical_env: one request for a
\* tuple, however checks and inserts interleave.
THEOREM TupleUnique == Spec => []UniqueTuple
<1>1. IInv => UniqueTuple
  BY DEF IInv
<1> QED
  BY <1>1, Invariance, PTL

\* create_app_secret and set_secret_arn: a PROVISIONED row points at an existing
\* secret of its own name that its own call created; no other row points at one.
THEOREM SecretOwned == Spec => []OwnSecret
<1>1. IInv => OwnSecret
  BY DEF IInv
<1> QED
  BY <1>1, Invariance, PTL

\* get_for_update, set_secret_arn and the unique key of create_request: whoever
\* waits, waits for a transaction that is open and waits for nobody.
THEOREM NoDeadlock == Spec => []NoChainOfWaits
<1>1. IInv => NoChainOfWaits
  <2> SUFFICES ASSUME IInv, NEW s \in Session, NEW t \in Session, WaitsFor(s, t)
               PROVE  pc[t] # "idle" /\ \A u \in Session : ~WaitsFor(t, u)
    BY DEF NoChainOfWaits
  <2>1. CASE pc[s] \in {"locking", "calling"} /\ lock[req[s]] = t
    <3>1. req[s] \in RequestId /\ t # None
      BY <2>1, NoneAssumption DEF IInv, HandlerInv
    <3>2. pc[t] \in HoldsLock
      BY <2>1, <3>1 DEF IInv, LockInv
    <3> QED BY <3>2 DEF HoldsLock, WaitsFor
  <2>2. CASE pc[t] = "inserted"
    BY <2>2 DEF WaitsFor
  <2> QED BY <2>1, <2>2 DEF WaitsFor
<1> QED
  BY <1>1, Invariance, PTL
=============================================================================
