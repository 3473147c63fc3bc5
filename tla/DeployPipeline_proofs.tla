------------------------ MODULE DeployPipeline_proofs -----------------------
(***************************************************************************)
(* DeployPipeline for any number of runs, images and revisions: the types, *)
(* the schema that covers what runs, the revisions applied once, and what  *)
(* a run that passes has seen.                                             *)
(***************************************************************************)
EXTENDS DeployPipeline, TLAPS

USE HeadAssumption, DeployNamesAssumption

\* The numbers a step counts with.
LEMMA DeployNumbers ==
    ASSUME DeployTypeOK
    PROVE  /\ schema \in Nat
           /\ \A v \in Revision : applied[v] \in Nat /\ applied[v] + 1 \in Nat
<1>1. schema \in 0 .. LastRevision /\ applied \in [Revision -> Nat]
  BY DEF DeployTypeOK
<1>2. \A v \in Revision : applied[v] \in Nat
  BY <1>1
<1> QED BY <1>1, <1>2

LEMMA DeployTypeInit == Init => DeployTypeOK
  BY DEF Init, DeployTypeOK, RunPCs, Revision

\* The head of a run that has begun is a revision, or none.
LEMMA HeadInRange ==
    ASSUME DeployTypeOK, NEW r \in Run, pc[r] # "idle"
    PROVE  image[r] \in Image /\ HeadOf(r) \in 0 .. LastRevision
  BY DEF DeployTypeOK, HeadOf

\* Every step keeps the types.
LEMMA DeployTypeStep == DeployTypeOK /\ [Next]_vars => DeployTypeOK'
<1> SUFFICES ASSUME DeployTypeOK, [Next]_vars PROVE DeployTypeOK'
  OBVIOUS
<1> USE DEF DeployTypeOK, RunPCs
<1>1. ASSUME NEW i \in Image, Build(i) \/ Expire(i) PROVE DeployTypeOK'
  BY <1>1 DEF Build, Expire
<1>2. ASSUME NEW i \in Image, NEW r \in Run, Register(r, i) PROVE DeployTypeOK'
  BY <1>2 DEF Register, Goto
<1>3. ASSUME NEW r \in Run, RunStep(r) PROVE DeployTypeOK'
  BY <1>3 DEF RunStep, RunMigrations, Migrated, MigrationAborts, UpdateService, WaitStable,
              SmokeTest, GiveUp, Goto
<1>4. ASSUME NEW r \in Run, MigrationStep(r) PROVE DeployTypeOK'
  <2>1. CASE CommitUpgrade(r)
    <3>1. mig[r] = "upgrading" /\ pc[r] # "idle"
      BY <2>1 DEF CommitUpgrade
    <3>2. HeadOf(r) \in 0 .. LastRevision
      BY <3>1, HeadInRange
    <3>3. applied' \in [Revision -> Nat]
      <4>1. applied' = [v \in Revision |-> IF v \in found[r] + 1 .. HeadOf(r)
                                             THEN applied[v] + 1 ELSE applied[v]]
        BY <2>1 DEF CommitUpgrade, Upgrade
      <4> HIDE DEF DeployTypeOK
      <4> QED BY <4>1, DeployNumbers
    <3> QED BY <2>1, <3>1, <3>2, <3>3 DEF CommitUpgrade, Upgrade, Exit
  <2>2. CASE ReadVersion(r)
    <3>1. mig' \in [Run -> {"none", "pending", "upgrading", "exit 0", "exit 1"}]
      BY <2>2 DEF ReadVersion, Exit
    <3>2. found' \in [Run -> 0 .. LastRevision]
      BY <2>2 DEF ReadVersion
    <3>3. \A q \in Run : mig'[q] # "none" => pc[q] # "idle"
      BY <2>2 DEF ReadVersion, Exit
    <3> QED BY <2>2, <3>1, <3>2, <3>3 DEF ReadVersion
  <2>3. CASE UpgradeCollides(r) \/ MigrationDies(r)
    BY <2>3 DEF UpgradeCollides, MigrationDies, Exit
  <2>4. CASE PullFails(r)
    BY <2>4 DEF PullFails, Exit
  <2> QED BY <1>4, <2>1, <2>2, <2>3, <2>4 DEF MigrationStep
<1>5. CASE StartTask
  BY <1>5 DEF StartTask
<1>6. ASSUME NEW r \in Run, TaskStep(r) PROVE DeployTypeOK'
  BY <1>6 DEF TaskStep, BecomeHealthy, StartFails, StopOldTask, TaskDies
<1>7. CASE UNCHANGED vars
  BY <1>7 DEF vars
<1> QED BY <1>1, <1>2, <1>3, <1>4, <1>5, <1>6, <1>7 DEF Next

\* Every variable keeps its type, in every reachable state.
THEOREM DeployTypeCorrect == Spec => []DeployTypeOK
  BY DeployTypeInit, DeployTypeStep, PTL DEF Spec

-----------------------------------------------------------------------------
\* A run relies on the schema once its migrations are done, as long as its task
\* definition may be started, starts or runs.
Relies(r) == r = service \/ r \in live \/ pc[r] = "migrated" \/ mig[r] = "exit 0"

\* What makes the invariants inductive: what a run relies on is there, a migration
\* under way has something to apply, and behind a stable service of its own no
\* other run's task is left.
Fits(r) ==
    /\ Relies(r) => pc[r] # "idle" /\ HeadOf(r) <= schema
    /\ mig[r] = "upgrading" => found[r] < HeadOf(r)
    /\ pc[r] = "stable" /\ service = r => live \subseteq {r}

DeployInv == DeployTypeOK /\ RevisionsApplyOnce /\ \A r \in Run : Fits(r)

LEMMA DeployInvInit == Init => DeployInv
  BY DeployTypeInit DEF Init, DeployInv, Fits, Relies, RevisionsApplyOnce, Revision, live

\* A run that has begun stays begun and keeps its image.
LEMMA HeadsStay ==
    ASSUME DeployTypeOK, [Next]_vars, NEW q \in Run, pc[q] # "idle"
    PROVE  pc'[q] # "idle" /\ image'[q] = image[q] /\ HeadOf(q)' = HeadOf(q)
<1>1. pc \in [Run -> RunPCs] /\ image \in [Run -> Image \cup {None}]
  BY DEF DeployTypeOK
<1>2. pc'[q] # "idle" /\ image'[q] = image[q]
  <2>1. ASSUME NEW r \in Run, NEW i \in Image, Register(r, i)
        PROVE  pc'[q] # "idle" /\ image'[q] = image[q]
    BY <1>1, <2>1 DEF Register, Goto, RunPCs
  <2>2. ASSUME NEW r \in Run, RunStep(r) PROVE pc'[q] # "idle" /\ image'[q] = image[q]
    BY <1>1, <2>2 DEF RunStep, RunMigrations, Migrated, MigrationAborts, UpdateService,
                      WaitStable, SmokeTest, GiveUp, Goto, RunPCs
  <2>3. ASSUME NEW r \in Run, MigrationStep(r) \/ TaskStep(r)
        PROVE  UNCHANGED <<pc, image>>
    BY <2>3 DEF MigrationStep, ReadVersion, PullFails, CommitUpgrade, Upgrade, UpgradeCollides,
                MigrationDies, TaskStep, BecomeHealthy, StartFails, StopOldTask, TaskDies
  <2>4. ASSUME (\E i \in Image : Build(i) \/ Expire(i)) \/ StartTask \/ UNCHANGED vars
        PROVE  UNCHANGED <<pc, image>>
    BY <2>4 DEF Build, Expire, StartTask, vars
  <2> QED BY <2>1, <2>2, <2>3, <2>4 DEF Next
<1> QED BY <1>2 DEF HeadOf

\* Only a commit moves the schema, or counts a revision.
LEMMA OnlyCommits ==
    ASSUME [Next]_vars, \A r \in Run : ~CommitUpgrade(r)
    PROVE  UNCHANGED <<schema, applied>>
  BY DEF Next, RunStep, MigrationStep, TaskStep, Build, Expire, Register, RunMigrations, Migrated,
     MigrationAborts, UpdateService, WaitStable, SmokeTest, GiveUp, ReadVersion, PullFails,
     UpgradeCollides, MigrationDies, StartTask, BecomeHealthy, StartFails, StopOldTask, TaskDies,
     vars

\* A commit moves the schema up to a head, through every revision in between.
LEMMA CommitKeepsDeployInv ==
    ASSUME DeployInv, [Next]_vars, NEW r \in Run, CommitUpgrade(r)
    PROVE  DeployInv'
<1>1. /\ mig[r] = "upgrading" /\ found[r] = schema /\ pc[r] # "idle"
      /\ schema \in Nat /\ HeadOf(r) \in 0 .. LastRevision /\ schema < HeadOf(r)
      /\ schema' = HeadOf(r)
  <2>1. Fits(r) /\ mig[r] = "upgrading" /\ found[r] = schema /\ schema' = HeadOf(r)
    BY DEF CommitUpgrade, Upgrade, DeployInv
  <2>2. pc[r] # "idle"
    BY <2>1 DEF DeployInv, DeployTypeOK
  <2>3. schema \in Nat /\ HeadOf(r) \in 0 .. LastRevision
    BY <2>2, HeadInRange, DeployNumbers DEF DeployInv
  <2> QED BY <2>1, <2>2, <2>3 DEF Fits
<1>2. RevisionsApplyOnce'
  <2> SUFFICES ASSUME NEW v \in Revision
               PROVE  applied'[v] = IF v <= schema' THEN 1 ELSE 0
    BY DEF RevisionsApplyOnce
  <2>1. applied[v] = IF v <= schema THEN 1 ELSE 0
    BY DEF DeployInv, RevisionsApplyOnce
  <2>2. applied'[v] = IF v \in schema + 1 .. HeadOf(r) THEN applied[v] + 1 ELSE applied[v]
    BY <1>1 DEF CommitUpgrade, Upgrade
  <2> QED BY <1>1, <2>1, <2>2 DEF Revision
<1>3. ASSUME NEW q \in Run PROVE Fits(q)'
  <2>1. UNCHANGED <<pc, image, found, service, starting, tasks>> /\ mig' = [mig EXCEPT ![r] = "exit 0"]
    BY DEF CommitUpgrade, Upgrade, Exit
  <2>2. HeadOf(q)' = HeadOf(q) /\ live' = live
    BY <2>1 DEF HeadOf, live
  <2>3. mig'[q] = IF q = r THEN "exit 0" ELSE mig[q]
    BY <2>1 DEF DeployInv, DeployTypeOK
  <2>4. CASE q = r
    <3>1. HeadOf(r)' <= schema' /\ pc'[r] # "idle"
      <4>1. HeadOf(r)' = HeadOf(r) /\ HeadOf(r) \in Nat
        BY <1>1, <2>2, <2>4
      <4>2. HeadOf(r)' = schema' /\ schema' \in Nat
        BY <1>1, <4>1
      <4>3. HeadOf(r)' <= schema'
        BY <4>2
      <4>4. pc'[r] # "idle"
        BY <1>1, <2>1
      <4> QED BY <4>3, <4>4
    <3>2. Fits(q) /\ mig'[q] = "exit 0"
      BY <2>3, <2>4 DEF DeployInv
    <3> QED BY <2>1, <2>2, <2>4, <3>1, <3>2 DEF Fits
  <2>5. CASE q # r
    <3>1. Fits(q) /\ (Relies(q)' => Relies(q))
      BY <2>1, <2>2, <2>3, <2>5 DEF Relies, DeployInv
    <3>2. Relies(q) => pc[q] # "idle" /\ HeadOf(q) <= schema'
      <4>1. Relies(q) => HeadOf(q) \in Nat
        BY <3>1, HeadInRange DEF DeployInv, Fits
      <4> QED BY <1>1, <3>1, <4>1 DEF Fits
    <3> QED BY <2>1, <2>2, <2>3, <2>5, <3>1, <3>2 DEF Fits
  <2> QED BY <2>4, <2>5
<1> QED BY <1>2, <1>3, DeployTypeStep DEF DeployInv

\* A migration task that has read the version stops at its head, or has more to do.
LEMMA ReadFinds ==
    ASSUME DeployTypeOK, NEW r \in Run, ReadVersion(r)
    PROVE  /\ pc[r] # "idle" /\ found'[r] = schema
           /\ mig'[r] = "exit 0" => HeadOf(r) <= schema
           /\ mig'[r] = "upgrading" => schema < HeadOf(r)
<1>1. /\ pc[r] # "idle" /\ found'[r] = schema
      /\ mig'[r] = IF schema > HeadOf(r) THEN "exit 1"
                   ELSE IF schema = HeadOf(r) THEN "exit 0" ELSE "upgrading"
  BY DEF ReadVersion, Exit, DeployTypeOK
<1>2. schema \in Nat /\ HeadOf(r) \in 0 .. LastRevision
  BY <1>1, HeadInRange, DeployNumbers
<1>3. HeadOf(r) \in Nat
  BY <1>2
<1>4. mig'[r] = "exit 0" => ~(schema > HeadOf(r)) /\ schema = HeadOf(r)
  BY <1>1
<1>5. mig'[r] = "upgrading" => ~(schema > HeadOf(r)) /\ schema # HeadOf(r)
  BY <1>1
<1>6. schema = HeadOf(r) => HeadOf(r) <= schema
  BY <1>2, <1>3
<1>7. ~(schema > HeadOf(r)) /\ schema # HeadOf(r) => schema < HeadOf(r)
  BY <1>2, <1>3
<1> QED BY <1>1, <1>4, <1>5, <1>6, <1>7

\* Any other step makes a run rely on the schema only if it did before, or if its
\* migration task has just found the version at its head.
LEMMA OthersKeepDeployInv ==
    ASSUME DeployInv, [Next]_vars, \A r \in Run : ~CommitUpgrade(r)
    PROVE  DeployInv'
<1>1. DeployTypeOK /\ DeployTypeOK' /\ UNCHANGED <<schema, applied>>
  BY DeployTypeStep, OnlyCommits DEF DeployInv
<1>2. RevisionsApplyOnce'
  BY <1>1 DEF DeployInv, RevisionsApplyOnce
<1>3. ASSUME NEW q \in Run PROVE Fits(q)'
  <2> DEFINE Found == mig'[q] = "exit 0" /\ pc[q] # "idle" /\ HeadOf(q) <= schema
             Lower == mig'[q] = "upgrading" /\ pc[q] # "idle" /\ found'[q] < HeadOf(q)
             Alone == pc'[q] = "stable" /\ service' = q => live' \subseteq {q}
             Kept == /\ Relies(q)' => Relies(q) \/ Found
                     /\ mig'[q] = "upgrading" => (mig[q] = "upgrading" /\ found'[q] = found[q]) \/ Lower
                     /\ Alone
  <2>1. Fits(q) /\ schema \in Nat
    BY <1>1, DeployNumbers DEF DeployInv
  <2>2. Kept
    <3> USE <1>1, <2>1 DEF DeployTypeOK, RunPCs, Relies, Fits, live
    <3>1. ASSUME NEW i \in Image, Build(i) \/ Expire(i) PROVE Kept
      BY <3>1 DEF Build, Expire
    <3>2. ASSUME NEW i \in Image, NEW r \in Run, Register(r, i) PROVE Kept
      BY <3>2 DEF Register, Goto
    <3>3. ASSUME NEW r \in Run, RunMigrations(r) PROVE Kept
      BY <3>3 DEF RunMigrations, Goto
    <3>4. ASSUME NEW r \in Run, Migrated(r) PROVE Kept
      BY <3>4 DEF Migrated, Goto
    <3>5. ASSUME NEW r \in Run, MigrationAborts(r) \/ GiveUp(r) PROVE Kept
      BY <3>5 DEF MigrationAborts, GiveUp, Goto
    <3>6. ASSUME NEW r \in Run, UpdateService(r) PROVE Kept
      BY <3>6 DEF UpdateService, Goto
    <3>7. ASSUME NEW r \in Run, WaitStable(r) \/ SmokeTest(r) PROVE Kept
      BY <3>7 DEF WaitStable, SmokeTest, Goto
    <3>8. ASSUME NEW r \in Run, ReadVersion(r) PROVE Kept
      <4>1. /\ pc[r] # "idle" /\ found'[r] = schema /\ UNCHANGED <<pc, service, starting, tasks>>
            /\ mig'[r] = "exit 0" => HeadOf(r) <= schema
            /\ mig'[r] = "upgrading" => schema < HeadOf(r)
        BY <3>8, ReadFinds DEF ReadVersion
      <4>2. CASE q = r
        BY <4>1, <4>2
      <4>3. CASE q # r
        BY <3>8, <4>3 DEF ReadVersion, Exit
      <4> QED BY <4>2, <4>3
    <3>9. ASSUME NEW r \in Run, PullFails(r) \/ UpgradeCollides(r) \/ MigrationDies(r) PROVE Kept
      BY <3>9 DEF PullFails, UpgradeCollides, MigrationDies, Exit
    <3>10. CASE StartTask
      BY <3>10 DEF StartTask
    <3>11. ASSUME NEW r \in Run, TaskStep(r) PROVE Kept
      BY <3>11 DEF TaskStep, BecomeHealthy, StartFails, StopOldTask, TaskDies
    <3>12. CASE UNCHANGED vars
      BY <3>12 DEF vars
    <3> HIDE DEF Kept
    <3> QED
      BY <3>1, <3>2, <3>3, <3>4, <3>5, <3>6, <3>7, <3>8, <3>9, <3>10, <3>11, <3>12
         DEF Next, RunStep, MigrationStep
  <2>3. pc[q] # "idle" => pc'[q] # "idle" /\ HeadOf(q)' = HeadOf(q) /\ HeadOf(q) \in Nat
    BY <1>1, HeadsStay, HeadInRange
  <2>4. mig[q] = "upgrading" => pc[q] # "idle"
    BY <1>1 DEF DeployTypeOK
  <2>5. Relies(q)' => pc'[q] # "idle" /\ HeadOf(q)' <= schema'
    <3>1. Relies(q) => pc[q] # "idle" /\ HeadOf(q) <= schema
      BY <2>1 DEF Fits
    <3>2. Relies(q)' => pc[q] # "idle" /\ HeadOf(q) <= schema
      BY <2>1, <2>2, <2>3, <3>1
    <3> QED BY <1>1, <2>3, <3>2
  <2>6. mig'[q] = "upgrading" => found'[q] < HeadOf(q)'
    BY <2>1, <2>2, <2>3, <2>4 DEF Fits
  <2> QED BY <2>2, <2>5, <2>6 DEF Fits
<1> QED BY <1>1, <1>2, <1>3 DEF DeployInv

LEMMA DeployInvStep == DeployInv /\ [Next]_vars => DeployInv'
  BY CommitKeepsDeployInv, OthersKeepDeployInv

LEMMA DeployInvariant == Spec => []DeployInv
  BY DeployInvInit, DeployInvStep, PTL DEF Spec

\* However deploy runs overlap, fail or roll back, no task runs, and none is
\* about to, whose image's migrations the database does not have.
THEOREM SchemaCovers == Spec => []SchemaCoversTasks
<1>1. DeployInv => SchemaCoversTasks
  BY DEF DeployInv, Fits, Relies, SchemaCoversTasks
<1> QED BY <1>1, DeployInvariant, PTL

\* Overlapping migration tasks commit every revision up to the version once.
THEOREM RevisionsOnce == Spec => []RevisionsApplyOnce
<1>1. DeployInv => RevisionsApplyOnce
  BY DEF DeployInv
<1> QED BY <1>1, DeployInvariant, PTL

\* A run passes only when its own image runs, alone, or another run has taken
\* the service over.
THEOREM PassedServed == Spec => PassedMeansServed
<1>1. DeployInv /\ [Next]_vars =>
        [\A r \in Run : pc[r] = "stable" /\ pc'[r] = "passed" /\ service = r => live = {r}]_vars
  <2> SUFFICES ASSUME DeployInv, Next, NEW r \in Run,
                      pc[r] = "stable", pc'[r] = "passed", service = r
               PROVE  live = {r}
    OBVIOUS
  <2>1. live \subseteq {r} /\ pc \in [Run -> RunPCs]
    BY DEF DeployInv, DeployTypeOK, Fits
  <2>2. SmokeTest(r)
    BY <2>1 DEF Next, RunStep, MigrationStep, TaskStep, Build, Expire, Register, RunMigrations,
       Migrated, MigrationAborts, UpdateService, WaitStable, SmokeTest, GiveUp, ReadVersion,
       PullFails, CommitUpgrade, Upgrade, UpgradeCollides, MigrationDies, StartTask,
       BecomeHealthy, StartFails, StopOldTask, TaskDies, Goto
  <2> QED BY <2>1, <2>2 DEF SmokeTest
<1> QED BY <1>1, DeployInvariant, PTL DEF Spec, PassedMeansServed
=============================================================================
