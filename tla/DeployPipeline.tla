--------------------------- MODULE DeployPipeline ---------------------------
(***************************************************************************)
(* Deploy runs, which no concurrency group keeps apart, against one        *)
(* database and one ECS service.  A run registers a task definition with   *)
(* its image, runs that image's migrations in a one-off task, points the   *)
(* service at the task definition, waits until the service is stable and   *)
(* probes it.  Migrations form one line; an image ships a prefix of it.    *)
(* A task definition is named by the run that registered it.               *)
(***************************************************************************)
EXTENDS Naturals, FiniteSets

CONSTANTS
    Run,
    Image,
    HeadRevision,   \* the last migration an image ships
    LastRevision,
    Placeholder,    \* the task definition of the first terraform apply
    None,
    KeptImages      \* ecr_image_count_limit

ASSUME HeadAssumption == LastRevision \in Nat /\ HeadRevision \in [Image -> 0 .. LastRevision]
ASSUME DeployNamesAssumption == Placeholder \notin Run /\ None \notin Image
ASSUME DeployBoundsAssumption == KeptImages \in Nat

VARIABLES
    pushed,         \* images in the registry
    pc, image,      \* where a deploy run stands, and what it deploys
    mig, found,     \* its migration task, and the version that found
    schema,         \* the database's alembic_version
    applied,        \* how often each revision's upgrade was committed
    service,        \* the task definition of the ECS service
    starting,       \* the task definitions of its tasks that are not healthy yet
    tasks           \* the task definitions of its healthy tasks

vars == <<pushed, pc, image, mig, found, schema, applied, service, starting, tasks>>

Revision == 1 .. LastRevision
HeadOf(r) == HeadRevision[image[r]]
live == starting \cup tasks

\* Terraform leaves a service behind whose image cannot be pulled.
Init ==
    /\ pushed = {}
    /\ pc = [r \in Run |-> "idle"] /\ image = [r \in Run |-> None]
    /\ mig = [r \in Run |-> "none"] /\ found = [r \in Run |-> 0]
    /\ schema = 0
    /\ applied = [v \in Revision |-> 0]
    /\ service = Placeholder
    /\ starting = {} /\ tasks = {}

\* A tag is immutable: it cannot be pushed again while it is there.
Build(i) ==
    /\ i \notin pushed
    /\ pushed' = pushed \cup {i}
    /\ UNCHANGED <<pc, image, mig, found, schema, applied, service, starting, tasks>>

\* The registry drops an image when it has more than it keeps; which one was
\* pushed first is left open.
Expire(i) ==
    /\ i \in pushed
    /\ Cardinality(pushed) > KeptImages
    /\ pushed' = pushed \ {i}
    /\ UNCHANGED <<pc, image, mig, found, schema, applied, service, starting, tasks>>

-----------------------------------------------------------------------------
(* The steps of a run *)

Goto(r, step) == pc' = [pc EXCEPT ![r] = step]

\* After a build, or by hand with any image, be it in the registry or not.
Register(r, i) ==
    /\ pc[r] = "idle"
    /\ Goto(r, "registered")
    /\ image' = [image EXCEPT ![r] = i]
    /\ UNCHANGED <<pushed, mig, found, schema, applied, service, starting, tasks>>

RunMigrations(r) ==
    /\ pc[r] = "registered"
    /\ Goto(r, "migrating")
    /\ mig' = [mig EXCEPT ![r] = "pending"]
    /\ UNCHANGED <<pushed, image, found, schema, applied, service, starting, tasks>>

\* Mutant of Migrated: the exit code is not looked at.
MigrationStopped(r) ==
    /\ pc[r] = "migrating"
    /\ mig[r] \in {"exit 0", "exit 1"}
    /\ Goto(r, "migrated")
    /\ UNCHANGED <<pushed, image, mig, found, schema, applied, service, starting, tasks>>

Migrated(r) ==
    /\ pc[r] = "migrating"
    /\ mig[r] = "exit 0"
    /\ Goto(r, "migrated")
    /\ UNCHANGED <<pushed, image, mig, found, schema, applied, service, starting, tasks>>

MigrationAborts(r) ==
    /\ pc[r] = "migrating"
    /\ mig[r] = "exit 1"
    /\ Goto(r, "failed")
    /\ UNCHANGED <<pushed, image, mig, found, schema, applied, service, starting, tasks>>

UpdateService(r) ==
    /\ pc[r] = "migrated"
    /\ Goto(r, "updated")
    /\ service' = r
    /\ UNCHANGED <<pushed, image, mig, found, schema, applied, starting, tasks>>

\* Mutant of WaitStable: the run does not wait.
GoOn(r) ==
    /\ pc[r] = "updated"
    /\ Goto(r, "stable")
    /\ UNCHANGED <<pushed, image, mig, found, schema, applied, service, starting, tasks>>

\* One deployment and as many tasks as wanted: whoever's deployment it is by now,
\* and a task that replaces another counts before it is healthy.
WaitStable(r) ==
    /\ pc[r] = "updated"
    /\ live = {service}
    /\ Goto(r, "stable")
    /\ UNCHANGED <<pushed, image, mig, found, schema, applied, service, starting, tasks>>

\* Some task answers both probes: the load balancer tries those that are not
\* healthy when none is.
SmokeTest(r) ==
    /\ pc[r] = "stable"
    /\ live # {}
    /\ Goto(r, "passed")
    /\ UNCHANGED <<pushed, image, mig, found, schema, applied, service, starting, tasks>>

\* A wait or a probe runs out of attempts, or the run is cancelled; what it
\* started goes on without it.
GiveUp(r) ==
    /\ pc[r] \in {"registered", "migrating", "migrated", "updated", "stable"}
    /\ Goto(r, "failed")
    /\ UNCHANGED <<pushed, image, mig, found, schema, applied, service, starting, tasks>>

-----------------------------------------------------------------------------
(* alembic upgrade head, all revisions in one transaction *)

Exit(r, code) == mig' = [mig EXCEPT ![r] = code]

\* A version the image does not ship cannot be located; at the head there is
\* nothing to do.
ReadVersion(r) ==
    /\ mig[r] = "pending"
    /\ image[r] \in pushed
    /\ Exit(r, IF schema > HeadOf(r) THEN "exit 1"
               ELSE IF schema = HeadOf(r) THEN "exit 0" ELSE "upgrading")
    /\ found' = [found EXCEPT ![r] = schema]
    /\ UNCHANGED <<pushed, pc, image, schema, applied, service, starting, tasks>>

\* The task stops without an exit code, which is not 0.
PullFails(r) ==
    /\ mig[r] = "pending"
    /\ image[r] \notin pushed
    /\ Exit(r, "exit 1")
    /\ UNCHANGED <<pushed, pc, image, found, schema, applied, service, starting, tasks>>

\* Mutant of Upgrade: alembic upgrade +n, n being the revisions of the image.
UpgradeByCount(r) ==
    /\ schema' = schema + HeadOf(r)
    /\ applied' = [v \in Revision |-> IF v \in found[r] + 1 .. schema + HeadOf(r)
                                      THEN applied[v] + 1 ELSE applied[v]]
    /\ Exit(r, "exit 0")
    /\ UNCHANGED <<pushed, pc, image, found, service, starting, tasks>>

Upgrade(r) ==
    /\ schema' = HeadOf(r)
    /\ applied' = [v \in Revision |-> IF v \in found[r] + 1 .. HeadOf(r)
                                      THEN applied[v] + 1 ELSE applied[v]]
    /\ Exit(r, "exit 0")
    /\ UNCHANGED <<pushed, pc, image, found, service, starting, tasks>>

\* Mutant of CommitUpgrade: the version is set whatever it was.
StampUpgrade(r) == mig[r] = "upgrading" /\ Upgrade(r)

\* UPDATE alembic_version matches the version that was found.
CommitUpgrade(r) ==
    /\ mig[r] = "upgrading"
    /\ found[r] = schema
    /\ Upgrade(r)

\* Another task committed first: no row matches, all is rolled back.
UpgradeCollides(r) ==
    /\ mig[r] = "upgrading"
    /\ found[r] # schema
    /\ Exit(r, "exit 1")
    /\ UNCHANGED <<pushed, pc, image, found, schema, applied, service, starting, tasks>>

\* No token, no connection, a statement that fails: all is rolled back.
MigrationDies(r) ==
    /\ mig[r] \in {"pending", "upgrading"}
    /\ Exit(r, "exit 1")
    /\ UNCHANGED <<pushed, pc, image, found, schema, applied, service, starting, tasks>>

-----------------------------------------------------------------------------
(* The ECS service: one task wanted, a healthy one of an old task definition *)
(* is stopped only beside another (50 %, rounded up), two may be there at a  *)
(* time (200 %), and a start that fails is tried again without an end.       *)

\* Mutant of StartTask: deployment_maximum_percent is 100.
StartTaskInPlace ==
    /\ service # Placeholder /\ service \notin live
    /\ Cardinality(live) < 1
    /\ starting' = starting \cup {service}
    /\ UNCHANGED <<pushed, pc, image, mig, found, schema, applied, service, tasks>>

StartTask ==
    /\ service # Placeholder /\ service \notin live
    /\ Cardinality(live) < 2
    /\ starting' = starting \cup {service}
    /\ UNCHANGED <<pushed, pc, image, mig, found, schema, applied, service, tasks>>

\* The image is pulled, the container starts and its checks pass.
BecomeHealthy(d) ==
    /\ d \in starting
    /\ image[d] \in pushed
    /\ starting' = starting \ {d} /\ tasks' = tasks \cup {d}
    /\ UNCHANGED <<pushed, pc, image, mig, found, schema, applied, service>>

\* The image is not there, the container exits or does not pass its checks.
StartFails(d) ==
    /\ d \in starting
    /\ starting' = starting \ {d}
    /\ UNCHANGED <<pushed, pc, image, mig, found, schema, applied, service, tasks>>

StopOldTask(d) ==
    /\ d \in live /\ d # service
    /\ d \in tasks => Cardinality(tasks) > 1
    /\ starting' = starting \ {d} /\ tasks' = tasks \ {d}
    /\ UNCHANGED <<pushed, pc, image, mig, found, schema, applied, service>>

TaskDies(d) ==
    /\ d \in tasks
    /\ tasks' = tasks \ {d}
    /\ UNCHANGED <<pushed, pc, image, mig, found, schema, applied, service, starting>>

-----------------------------------------------------------------------------

RunStep(r) ==
    \/ RunMigrations(r) \/ Migrated(r) \/ MigrationAborts(r)
    \/ UpdateService(r) \/ WaitStable(r) \/ SmokeTest(r) \/ GiveUp(r)

MigrationStep(r) ==
    ReadVersion(r) \/ PullFails(r) \/ CommitUpgrade(r) \/ UpgradeCollides(r) \/ MigrationDies(r)

TaskStep(d) == BecomeHealthy(d) \/ StartFails(d) \/ StopOldTask(d) \/ TaskDies(d)

Next ==
    \/ \E i \in Image : Build(i) \/ Expire(i) \/ \E r \in Run : Register(r, i)
    \/ \E r \in Run : RunStep(r) \/ MigrationStep(r) \/ TaskStep(r)
    \/ StartTask

\* ECS keeps at a rollout, and a task that starts becomes healthy or is given up;
\* runs, builds and migrations may stop anywhere.
Fairness ==
    /\ WF_vars(StartTask)
    /\ \A d \in Run : WF_vars(StopOldTask(d)) /\ WF_vars(BecomeHealthy(d) \/ StartFails(d))

Spec == Init /\ [][Next]_vars /\ Fairness

-----------------------------------------------------------------------------
(* Properties *)

RunPCs == {"idle", "registered", "migrating", "migrated", "updated", "stable", "passed", "failed"}

DeployTypeOK ==
    /\ pushed \subseteq Image
    /\ pc \in [Run -> RunPCs] /\ image \in [Run -> Image \cup {None}]
    /\ \A r \in Run : pc[r] # "idle" => image[r] \in Image
    /\ mig \in [Run -> {"none", "pending", "upgrading", "exit 0", "exit 1"}]
    /\ found \in [Run -> 0 .. LastRevision]
    /\ \A r \in Run : mig[r] # "none" => pc[r] # "idle"
    /\ schema \in 0 .. LastRevision
    /\ applied \in [Revision -> Nat]
    /\ service \in Run \cup {Placeholder}
    /\ starting \subseteq Run /\ tasks \subseteq Run

\* However deploy runs overlap, fail half-way or roll back, no image runs, or is
\* about to, whose migrations the database does not have.
SchemaCoversTasks == \A d \in Run : d = service \/ d \in live => HeadOf(d) <= schema

\* Migration tasks that overlap commit each revision once, in order and with
\* no gap, although nothing but the version row keeps them apart.
RevisionsApplyOnce == \A v \in Revision : applied[v] = IF v <= schema THEN 1 ELSE 0

\* A run whose smoke test passes has been answered by its own image, unless another
\* run has pointed the service elsewhere since.
PassedMeansServed ==
    [][\A r \in Run : pc[r] = "stable" /\ pc'[r] = "passed" /\ service = r => live = {r}]_vars

\* A rollout that no other run replaces, and whose tasks do not fail for ever, ends
\* with its healthy task and no other, whatever was running, starting or half
\* rolled out when it began.
RolloutsFinish ==
    \A r \in Run :
        <>[](service = r) /\ <>[][~(StartFails(r) \/ TaskDies(r))]_vars
            => <>[](tasks = {r} /\ starting = {})
=============================================================================
