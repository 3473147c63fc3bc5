# A TLA+ model of platform-aws

The repository is a small internal platform: a FastAPI service (`app/`) that
keeps a catalog of services, takes requests for application secrets, provisions
an approved request in AWS Secrets Manager and explains a request in prose with
an LLM; `infra/` runs it on ECS. This directory holds the model of its core
logic, what TLC checks of it and what TLAPS proves of it.

Requests are served by synchronous handlers, so each runs in a thread of its
own with a database session of its own. Handlers share Postgres (tables, row
locks, unique keys), Secrets Manager and the objects the process keeps in
memory, and the worker threads and connections they are served with. Around the
program, deploy runs meet at one database and one ECS service. Those meeting
places are where the code is hard to test, and they are what is modelled.

## Inventory

| Component (under `app/src/`) | State | Operations | What is hard |
|---|---|---|---|
| Secret request lifecycle (`services/secret_request_lifecycle_service.py`, `api/v1/routes/secret_requests.py`) | none of its own: `secret_requests`, `request_events` | `create_request`, `approve_request`, reads | two commits around an AWS call; races of approvals and of creates; crashes between the commits |
| Request tables (`repositories/secret_request_repository.py`, `request_event_repository.py`, `models/`) | committed rows, row locks, `uq_secret_requests_service_logical_env`, identity `seq`, `now()` | insert, `SELECT ... FOR UPDATE`, update, ordered list | locks end with the transaction; events of a transaction share a timestamp; transactions overlap |
| Secrets Manager wrapper (`services/secrets_manager_service.py`) | secrets, by unique name | `create_app_secret` | a call that timed out may still be handled; two tuples may spell one name |
| Service catalog (`services/service_catalog_service.py`, `repositories/service_repository.py`) | `services`, unique names | `create_service`, `get_service`, `list_services` | check and insert are two statements; a client pages while rows are added |
| LLM provider configuration (`core/runtime_config/llm_provider_config.py`) | one cached value and its date per process; the `config` row | `get` | no lock; the row is read before and dated after; database errors |
| LLM providers (`services/llm_provider.py`) | API key and client, loaded on first use | `generate_narrative` | two threads load at once; which errors are translated |
| Narrative service (`services/narrative_service.py`) | none | `generate_summary` | reads status and events in two statements; must degrade, not fail |
| Risk checks (`services/risk_check_service.py`) | none | three pure checks | what a pattern lets through |
| Sessions and engine (`db/session.py`, `db/iam_auth.py`) | a connection pool, or IAM tokens and none | `get_db`, connect | threads and connections are held during calls and between handler and response; outages break pooled connections |
| HTTP application (`main.py`, `core/middleware.py`, `core/exceptions.py`) | request id of the log context | error mapping, request log | what each error becomes; what is logged when a handler raises |
| Health probes (`api/v1/routes/health.py`, `repositories/health_repository.py`) | none | `/healthz`, `/readyz` | readiness needs a worker thread and a connection of its own |
| Wiring (`services/dependencies.py`), settings, logging | none after start | constructors | run in a worker thread |
| Migrations (`db/migrations/`) | `alembic_version` | `upgrade head` | tasks overlap; an image ships only its own prefix of the line |
| Workflows (`.github/workflows/`), Terraform (`infra/`) | images, task definitions, ECS service and its tasks | build, migrate, deploy | deploy runs share no concurrency group; old and new tasks run side by side |

How they interact: a route calls one service object; the services of a request
share one session (`dependencies.py`), which `get_db` rolls back and closes at
the end, whatever happened. `approve_request` is the only code that talks to
the database, then to AWS, then to the database again. The narrative service
reads the lifecycle's tables, asks the provider configuration which provider to
use and calls it. The metric filter in `infra/` counts the lifecycle's
`secret_provisioning_outcome` log lines. An ECS deployment runs old and new
tasks side by side, so nothing may rest on there being one process.

What makes each correct:

- lifecycle: one `create_secret` call per request at most; AWS is never asked
  for something the database does not tell; the trail tells the steps that led
  to the status, in order; a PROVISIONED row points at its own secret; one
  request per tuple; what a caller was told, and what was logged, stays true;
  handlers end and, unless one is lost, provisioning is decided;
- catalog: one service per name, answers that are true, a paged walk that
  misses nothing;
- provider configuration: always a provider that exists, and a bound on how old
  it may be;
- summaries: facts that are those of the request although it moves on while it
  is read; facts that survive a failing LLM; a key that is there is used,
  whatever threads do to the provider they share;
- risk checks and names: no service enters the catalog whose compliant requests
  would spell another service's secret name;
- serving: connections are given back however a request ends, errors have a
  cause, every request ends, readiness recovers;
- deploy: no image runs ahead of the schema, a revision is applied once, a run
  that passes was answered by its own image, a rollout left alone finishes.

## Modules

| Module | What it is |
|---|---|
| `SecretRequestLifecycle` | handlers, tables, locks, Secrets Manager and faults; the properties |
| `AuditedLifecycle` | the abstract promise: a status, a trail that only grows, one secret at most |
| `LifecycleRefinement` | the mapping from the first to the second |
| `LLMProviderConfig` | `get()` cut at each read and write of the shared object |
| `ServiceCatalog` | registrations, and a client that walks the pages |
| `NameRegistry` | the abstract promise: a name is taken in one step, and nobody but its taker is told so |
| `CatalogRefinement` | the mapping from `ServiceCatalog` to it |
| `RiskChecks` | pure operators: the naming check and the secret name, character by character |
| `SecretNaming` | composes the two: the services of the catalog and the secret names their compliant requests spell |
| `NarrativeSummary` | `generate_summary` and the two LLM providers, beside an `AuditedLifecycle` |
| `RequestServing` | worker threads, sessions, the pool or IAM tokens, outages, `/readyz` |
| `DeployPipeline` | builds, deploy runs, migration tasks and the ECS service |
| `..._proofs` | the theorems about the module of that name, each beside its inductive invariant |
| `AuditTrail_proofs` | what the lifecycle shows to others: its trail, log lines and answers, and the refinement of `AuditedLifecycle` |
| `MC...` | the instances TLC checks |

A definition named as a mutant in its comment (`ReadRow`, `TransitionsWithRetry`,
`FreshTooLong`, ...) is not part of the model: it is the definition after it
with a plausible bug, kept beside it so that every property can be shown to
notice something.

### SecretRequestLifecycle

One action is one database statement, one commit or one message, with all that
the code does to shared state in that step.

| Code | Model |
|---|---|
| `secret_requests`, `request_events` as committed | `rows`, `events` (a row that is not there has status `ABSENT`) |
| the ORM object and the flushed events of an open transaction | `obj[s]`, `pend[s]` |
| `now()` of a transaction, `request_events.seq` | `since[s]`, `nextSeq` |
| row locks | `lock` |
| `create_request`: early returns | `CreateForUnknownService`, `CreateWithOwnValue`, `CreateDuplicate` |
| ... `exists_for_tuple`, flush, commit, refresh and answer | `CheckCreate`, `InsertRequest` / `InsertCollides`, `CommitCreate`, `AnswerCreate` |
| `approve_request`: the row is missing; `get_for_update` sent, granted | `ApproveUnknown`, `BeginApprove`, `LockRow` |
| ... `_transition` refuses, or moves to APPROVED and PROVISIONING | `RefuseApprove`, `MoveToProvisioning` |
| ... COMMIT #1, refresh and call | `CommitIntent`, `CallSecretsManager` |
| ... the `try` and the `except` branch, with the log line | `RecordProvisioned`, `RecordFailed` |
| ... COMMIT #2, refresh and answer | `CommitOutcome`, `AnswerApprove` |
| Secrets Manager handles a call, late or never | `SMCreates`, `SMRejects` |
| a statement fails; the process dies | `DbError`, `Crash` |

Assumptions about what is not in the repository: Postgres at READ COMMITTED
(the engine sets no other level), `now()` fixed at the start of the
transaction, identities drawn at insert and never given back, an insert that
meets another transaction's uncommitted key waits for it. Secrets Manager keeps
names unique, and takes repetitions of a call by the AWS client for that call
(they carry one token), so a call is one message. A caller is identified with
the session that serves it. A secret's value, descriptions, texts of errors and
the logs no metric reads are left out. The database clock does not step back.

`DbError` covers an error inside the `try`: the `except` branch then works on a
session that must be rolled back first, raises in its turn, and the row keeps
the status it had.

### LifecycleRefinement

`status` is the committed status, `trail` the event list in the order the
repository asks for (`ORDER BY timestamp, seq`), `minted` the requests a secret
exists for. COMMIT #1 is one abstract `Approve` step that adds two entries; a
late `SMCreates` after FAILED is `Mint`. Everything else stutters.

### LLMProviderConfig

`_is_fresh` reads `_cached_at` twice, a fill writes `_cached_value` and then
`_cached_at`; a thread may be suspended between any two of them, and the return
of a fresh value reads `_cached_value` in a step of its own. A missing row and
an invalid value both mean the default provider. The date is read from the
clock and stored in one step: what a thread loses between the two only makes a
date older.

### ServiceCatalog

`created_at` is when the inserting transaction began and the key is random, so
a service may appear in front of rows a client has read. `Rankings` are the
orders Postgres may return: exactly one if `created_at, id` has no ties. The
client is the one the API invites: it asks for page after page until a page is
not full. The count and the page are two statements with two snapshots.

`CatalogRefinement` maps it to `NameRegistry`: `taken` is the names of the
committed services, `wanted` the name of a handler that is not idle, `won` the
handlers past their commit, `told` the answers. The commit is `Win`, an insert
stutters, every answer or loss is an `End`. As in the lifecycle, a statement that
fails (`DbError`) and a process that stops (`Crash`) are two things: the first is
answered 500 by the catch-all handler of `main.py`, at any point from the check
of the name to the refresh after the commit. `NameRegistry` therefore admits an
error for every call, the one that took its name included, and promises nothing
of it; what it promises is of 201, CONFLICT and the names. A 500 names no name,
so `answer` keeps none for it.

### NarrativeSummary

The composition of the summary endpoint with the lifecycle. The request is an
instance of `AuditedLifecycle`, whose `Next` is `LifecycleStep`: every step of
the real handlers is one of these or changes nothing a reader can see, which is
what `ImplementsAuditedLifecycle` checks. Callers whose addresses differ by case
only are one caller, as `check_ownership_mismatch` has it.

| Code | Model |
|---|---|
| `generate_summary`: the request, its absence | `Begin`, `ReadRequest`, `RequestMissing` |
| ... `list_for_request` and the facts | `ListEvents`, `RequestedByOwner` |
| ... `get_active_provider` | `ChooseProvider` (either: `AlwaysAProvider` says it is one of the two) |
| Bedrock: the stub, `_get_client`, `converse` | `AnswerStub`, `BedrockClientFails`, `Converse` |
| Anthropic: `_client`, `_api_key` | `client`, `apiKey`, shared by all readers |
| `_get_client`, `_require_api_key`, `_load_anthropic_api_key` | `LookForClient`, `RequireKey`, `LoadKey`, `StoreKeyRead`, `MakeClient`, `KeyMissing` |
| `messages.create`, and the two `except` branches | `Send`, `SendFails` |
| the response, or the error that escapes | `Answer` |

`localstack` and where a key can be found are chosen at the start; an operator
may store the key later (`StoreKey`). A thread may be suspended between any two
reads and writes of the shared provider. Left out: the wording of the prompt,
and the naming and production flags, which depend on nothing that changes.
`seen` and `begun` hold what a call has read and what it began with.

### RiskChecks and SecretNaming

Names are sequences of characters, since what decides is where slashes, hyphens
and a newline stand. `Matches` says what `_NAME_RE` accepts of a prefix, by
position and not by automaton; `NameMatches` adds that `$` also matches before a
newline that ends the name. `Embeds` is the substring test for the environment.
`SecretName` leaves out the beginning all names share. `SecretNaming` extends
`ServiceCatalog`, whose services may have any name, slashes included, with what
is asked for each of them and passes the check.

| Code | Model |
|---|---|
| `_NAME_RE`, `.match` | `Word`, `Matches`, `NameMatches` |
| `environment in logical_name` | `Embeds` |
| `check_naming_convention` without a violation | `Compliant` |
| `create_app_secret`: the name | `SecretName`, `SecretsOf` |

A request that does not pass the check may still be approved: the check is a
fact of the summary, not a guard. `OwnSecret` covers those, in the lifecycle.

### RequestServing

A request occupies a slot. Its handler is a script of what matters to threads
and connections: statements, commits and calls that go out. Every action is one
such step, or one thread granted, or the database going away or coming back.

| Code | Model |
|---|---|
| FastAPI runs dependencies and sync handlers in a thread | `Begin`, `Start` |
| ... and builds the response model in one, the session still open | `Return`, `Serialize` |
| the services' statements, commits and calls | `Script`, `Execute`, `Commit`, `Call` |
| `_build_engine`: `QueuePool` with `pool_pre_ping`, or `NullPool` and a token | `Connect`, `OpenNew`, `TakeIdle`; `iam` is chosen at the start |
| `connect_timeout`, `pool_timeout` | `ConnectFails`, `PoolTimeout` |
| a statement on a broken connection; one that is refused, a token that fails | `ConnectionBroken`, `Fault` |
| `readiness`: the `except`; the catch-all handler | `Failed` |
| an `AppError` after the first read | `Refuse` |
| `get_db`: rollback and close | `Finish`, `Release` |

`troubled` and `sawUp` record, for a request that is being served, whether the
database was away or a fault met it, and whether the database was up. A commit
gives the connection back and the next statement takes one again, which need not
be the same. Left out: `/healthz`, which is asynchronous and touches nothing, and
what the handlers do with their rows (the other modules).

### DeployPipeline

| Code | Model |
|---|---|
| `app-build-push.yml`; the registry's lifecycle policy | `Build`; `Expire` |
| `app-deploy.yml`: register, run-task, wait for its exit code | `Register`, `RunMigrations`, `Migrated`, `MigrationAborts` |
| ... update-service, wait services-stable, smoke test | `UpdateService`, `WaitStable`, `SmokeTest`, `GiveUp` |
| `alembic upgrade head`: read the version, upgrade and stamp in one transaction | `ReadVersion`, `CommitUpgrade`, `UpgradeCollides`, `MigrationDies` |
| ... the image is not in the registry | `PullFails` |
| `aws_ecs_service.app`: desired 1, minimum 50 %, maximum 200 % | `StartTask`, `StopOldTask` |
| `healthCheck` of the container, `health_check` of the target group | `BecomeHealthy`, `StartFails`, `TaskDies` |

Revisions form one line (each file names its `down_revision`), so an image is
characterised by the last it ships, and the database by a number. Any image may
be registered by any run, in the registry or not, as `workflow_dispatch` takes
any URI and nothing looks it up; one that is not there fails where it is pulled
for the first time, in the migration task, which then has no exit code 0. The
registry drops images beyond those it keeps, in any order. A task that was
started is not healthy yet (`starting`); it becomes so (`tasks`) or is given up
and started again, as often as it takes, since the service has no circuit
breaker. An old healthy task is stopped only beside another healthy one. The
load balancer is answered by some task, by one that is not healthy if none is; a
run that waits for stability may be told of another run's deployment, and of a
task that only starts. A run that gives up leaves what it started to go on:
nothing cancels the migration task or the rollout.

## Runs

| Run | Instance | Shows |
|---|---|---|
| `lifecycle_races` | 3 handlers, 1 request, clock 0..1, 1 fault | `TypeOK`, `SingleProvisioning`, `IntentIsDurable`, `TrailTellsTheStatus`, `AnswersAreTrue`, `LoggedOutcomesAgree`, `NoChainOfWaits`, `AbandonedByFaultsOnly`, `ImplementsAuditedLifecycle` |
| `lifecycle_names` | 2 handlers, 2 requests whose tuples spell one name | `OwnSecret`, `ClashesAreForeign`, `UniqueTuple` |
| `lifecycle_liveness` | 2 handlers, 1 request, 1 fault, `FairSpec`, no symmetry | `HandlersEnd`, `ApprovalsConclude` |
| `config_cache` | 2 threads, TTL 2, calls of at most 1, clock 0..5, 1 update | `CacheTypeOK`, `AlwaysAProvider`, `StalenessBounded` |
| `service_catalog` | 2 handlers, 3 names (`a`, `a/d`, `a/p`), 2 environments, 13 logical names, pages of 1, clock 0..1, 1 fault | `CatalogTypeOK`, `NamesAreUnique`, `RegistrationsAreTrue`, `WalkMissesNothing`, `ShortPageIsLast`, `RegistrationsConfuseNothing`, `ImplementsNameRegistry` |
| `narrative_summary` | 2 readers, 1 request, 2 callers of whom 1 owns the service, 1 fault | `SummaryTypeOK`, `SummaryTellsTheRequest`, `FactsSurviveTheAPI`, `LateKeyIsUsed` |
| `request_serving` | 2 slots, 1 thread, a pool of 1 and no overflow or IAM, 1 outage, 1 fault, 3 handlers | `ServingTypeOK`, `ErrorsAreExplained`, `ReadyMeansReached`, `NothingLeaks`, `RequestsEnd`, `ReadinessRecovers` |
| `deploy_pipeline` | 3 runs, 2 images that ship 1 and 3 revisions, of which the registry keeps 1 | `DeployTypeOK`, `SchemaCoversTasks`, `RevisionsApplyOnce`, `PassedMeansServed`, `RolloutsFinish` |
| `duplicate_create` | as the lifecycle, small | a document's claim that fails (below) |
| `failure_logged` | " | " |
| `cache_ttl` | 2 threads, TTL 1, calls of at most 2 | " |
| `facts_present` | 1 reader, 1 fault | " |

Why the bounds are enough. Handlers meet at one row: two in the race and a third
that comes while the first is past COMMIT #1 and the second waits are all the
positions the lock distinguishes. Rows interact only through the unique tuple
and the secret name, so two suffice, with tuples that differ and spell one name
(`platform/pay/dev/dev/key`). A handler that holds no key never finds
`RequestId` exhausted: there are as many keys as registered tuples. One clock
tick makes events of one transaction, and of overlapping transactions, share a
timestamp or not. One lost handler, at any step, is what leaves a request stuck;
what remains then is the same state for every later handler. Pages of one put a
page boundary between any two rows. Two readers are enough for every race for
one key and one client: a reader sees of the others only what they left there.
The names of the catalog are the shortest two of which one is the
other and a slash and an environment, with logical names that make up for it,
that pass the check, and that fail it for each reason it has. One thread and one
connection are the case in which two requests can wait for each other: one that
holds the connection and wants the thread, one the other way round; `readyz`,
`summary` and `approve` are the scripts that differ in what they hold when. An
outage may meet every step and leave broken connections behind. Two deploy runs
overlap in every way the workflow allows, a third rolls back; the two images are
two revisions apart, so an upgrade has a middle in which a lost one would show,
and with one of them kept the other expires before, while and after it is
deployed. Migrations, starts and tasks fail without a bound.
A database fault is a bound of the model (`MaxFaults`), as are `MaxOutages`,
`MaxClock`, `MaxTime`, `MaxDelay` and `MaxUpdates`.
Sessions, threads, handlers, names and request keys are only compared, so runs
of safety properties use symmetry.

Fairness (`FairSpec`). A handler that has begun goes on (weak fairness of its
steps). Postgres queues waiters for a row in order of arrival, so nobody waits
for ever while others are served, and the outcome's UPDATE waits in the same
queue; botocore's timeouts end a call that nobody answers: hence strong
fairness of `LockRow` and `Record`. Callers, Secrets Manager, the clock and
faults owe nothing, and no fairness is assumed of what the code does not do:
`ApprovalsConclude` excuses a request whose own handler was lost (it is among
`Abandoned`), since nothing takes it up again, and no other.

In `RequestServing`, what a thread does for a request that has what it needs goes
on (weak fairness of `Proceed`), the waits for a connection or for the database
among it, since each has a timeout. anyio grants threads in the order they are
asked for, so a request that waits gets one if threads keep coming free (strong
fairness of `Start` and `Serialize`). Clients and the database owe nothing;
`ReadinessRecovers` speaks of behaviours in which the database stays up and
requests come one at a time. In `DeployPipeline`, ECS keeps at a rollout (weak
fairness of `StartTask` and `StopOldTask`), and a task that starts becomes healthy
or is given up, since its checks have a number of retries (weak fairness of the
two together, and of neither alone); builds, runs and migrations may stop
anywhere. `RolloutsFinish` speaks of rollouts whose tasks stop failing at some
point (`<>[][~(StartFails(r) \/ TaskDies(r))]_vars`): an image that never passes
its checks, or is no longer in the registry, is tried for ever. The other modules check no liveness and state no fairness.

Only `deploy_pipeline` disables the deadlock check: when every run has ended, and
the rollout with it, nothing more happens. In the other runs a handler or a
reader can always begin.

### Where documents and code disagree

1. A test says a duplicate request is answered 409. Of two concurrent creates
   the loser is answered 500: nothing translates the `IntegrityError`
   (`duplicate_create`).
2. `DECISIONS.md:491` has FAILED committed before the failure line is logged.
   The line is written first, COMMIT #2 follows (`failure_logged`).
3. The header of `llm_provider_config.py` has a change reach all requests
   within the TTL. A reader suspended between its query and its assignment
   gives the replaced value a new date (`cache_ttl`); `StalenessBounded` has the
   bound that does hold, TTL plus three calls.
4. The route has facts always present regardless of LLM availability, and
   `DECISIONS.md:551` has them survive Bedrock failures. Bedrock's client is made
   before the `try`, so what `boto3.client` raises ends in a 500 without facts
   (`facts_present`); `FactsSurviveTheAPI` has what does hold, for every other
   failure.

Four more disagreements have no run of their own:

- `DECISIONS.md:135` has the row lock held while the Secrets Manager call hangs.
  COMMIT #1 has released it: a second approval is refused at once, and
  `SingleProvisioning` does not rest on the lock from there on.
- `app-deploy.yml:4` offers a manual run for rollbacks, and
  `app-build-push.yml:58` says how one is done. An image older than a
  migration ships no file for the revision the database is at, so its `alembic
  upgrade head` fails and the run aborts (`ReadVersion`, `MigrationAborts`).
- `DECISIONS.md:590` has the Anthropic key loaded once, at startup, and
  `DECISIONS.md:605` has the task restart to pick up a new one. The code loads
  it at import and, while it has none, again on every use
  (`llm_provider.py:118-124`, whose comment says so): a key stored after startup
  is used without a restart. `LateKeyIsUsed` holds for that case, so it states
  what the code does against what the document says. The document is right of a
  key that is replaced by another: the first is kept.
- `core/middleware.py:3` promises one log line per request. An exception that
  only the catch-all handler takes passes through the middleware without one.

## Proofs

Every invariant, every action property and both refinements that a passing run
checks are proved for all values of the constants; only liveness is not. The
assumptions are those the modules name: `None` is none of the values it is
compared with, bounds are natural numbers, and what is said below.

### The lifecycle

`SecretRequestLifecycle_proofs` proves, for every number of handlers, requests,
tuples, clock ticks and faults:

- `TypeCorrect`: `Spec => []TypeOK`
- `ProvisionedOnce`: `Spec => []SingleProvisioning`
- `IntentDurable`: `Spec => []IntentIsDurable`
- `TupleUnique`: `Spec => []UniqueTuple`
- `SecretOwned`: `Spec => []OwnSecret`
- `NoDeadlock`: `Spec => []NoChainOfWaits`

from `NoneAssumption` (None is not a session, key or tuple) and
`BoundsAssumption`. None of the six is inductive. `IInv` adds who may touch a
row at each step of a handler. Up to COMMIT #1 that is the holder of its lock
(`LockInv`), whose object equals the row (`HandlerInv`). COMMIT #1 gives the
lock back, and from there the status PROVISIONING stands for it: it is written
once, by the one handler that found PENDING under the lock, and only that
handler leaves it (`OwnerInv`). So at most one handler is between COMMIT #1 and
COMMIT #2 of a request, nothing was sent before and one call is sent there
(`CallInv`). The approval is flushed with the intent and committed with it
(`IntentFlushed`, `IntentCommitted`), hence `IntentIsDurable`. `KeyInv` carries
a tuple from the insert to the commit, `SecretNamed` and `ArnFlushed` a
secret's name and ARN from the call to the row. `NoDeadlock` needs no more than
`IInv`: a lock's holder stands past its SELECT, where it waits for no lock, and a
handler with a flushed key waits for nothing but its commit. ADR-003 gives
another reason (an approval locks one row only), which says nothing of creations.
Each action has a lemma with
one step per conjunct of `IInv`; TLC checked every conjunct before it was
proved.

`AuditTrail_proofs` builds on `IInv`:

- `TrailTells`: `Spec => []TrailTellsTheStatus`
- `LinesAgree`: `Spec => []LoggedOutcomesAgree`
- `AnswersTrue`: `Spec => []AnswersAreTrue`
- `LifecycleImplemented`: `Spec => ImplementsAuditedLifecycle`
- `ClashesForeign`: `Spec => []ClashesAreForeign`
- `SlashlessNamesNeverClash`: under `SlashlessNames`, no call meets a taken name
- `AbandonedOnlyByFaults`: `Spec => []AbandonedByFaultsOnly`

The trail's order is the hard one, because an event bears the time at which its
transaction began, which says nothing of when it committed. `BegunInv` relates
the two: a handler that approves saw the row, so it began after the creation it
read was dated; its second transaction began after COMMIT #1. Where the times
are equal the numbers decide, and `FlushInv` says a flushed number lies beyond
all that is committed for the request, which the row lock makes true. `Told` says
of a set of events that it tells a status in order; each commit extends it at the
end (`CreationTold`, `IntentTold`, `OutcomeTold`).

`LineInv` says that nothing is logged about a request before its outcome is
recorded, so the one line there can be is that of the handler that owns the
request (`OwnerInv`). `GroundsInv` says that what a handler may answer is
committed when it answers, and `Onwards` that no step takes back an event, a
decision or a key: so an answer that was true stays true. A refused approval read
a status that only an approval leads to, and its trail tells it.

For the refinement, the API's event list is the set of committed events in the
order of `ORDER BY timestamp, seq`. `ListedLast` says that an event after all
others is appended to that list, which makes every commit one move of the
abstract trail (`CommitIsAMove`); `SentInv` (one call for a request, handled
once) makes the creation of a secret the abstract `Mint`. Every other step
changes nothing a reader sees (`Stutters`).

A call and a secret of one name belong to two tuples (`ClashesAreForeign`): were
it one tuple it would be one request (`UniqueTuple`), which sends one call, and
that is handled once (`SentInv`). Hence the clash needs two tuples that spell one
name. `SlashlessNames` says the names are single segments, as they are without a
"/"; `SegmentsOf` takes such a name apart again, so there the clash never comes.
It is the one theorem with a hypothesis the code does not enforce, since
`ServiceCreate` admits slashes: it says what enforcing it would give.

`AbandonedInv` counts. A request is in hand from COMMIT #1 while its handler is
between there and COMMIT #2. An action that ends a handler gives up one request
at most (`EndingAbandons`), and only a counted fault ends one there without
deciding the request; all other steps abandon nothing (`WorkAbandonsNothing`).

### The catalog and the names

`ServiceCatalog_proofs`: `CatalogTypeCorrect`, `CatalogNamesUnique`,
`CatalogAnswersTrue`, `RegistryImplemented`, `CatalogWalkIsComplete` and
`CatalogTotalAgrees`. The check and the insert are two statements, so a name that
was free when it was checked says nothing; what carries uniqueness is that a
flushed row is new (`FlushIsNew`), that two flushed rows differ in name
(`FlushesDiffer`: the insert waits for, or collides with, an uncommitted key),
and that a committed one is in the table (`CommitIsThere`). `CatalogAnswersTrue`
says of 201 that the name is there and that nobody else was told 201 of it: two
handlers that have committed differ in name (`CommitsDiffer`), and until the
answer of one nobody has been told 201 of its name (`CommitIsUntold`), since 201
is told only of names that are there and a commit adds a new one. With these
every step is one of `NameRegistry` or a stutter (`StepOfRegistry`), the 500s of
failing statements among them.

The walk is proved for every page size. Keys are unique, those that are only
flushed included (`Keyed`), so `created_at, id` is a total order (`SortsTotally`)
and any ranking Postgres may return puts a service at the number of services
before it plus one (`RankIsPosition`; `RanksAreTaken` counts a bijection).
Services are never removed, so that position only grows (`PositionsGrow`). Hence
`WalkIsOnTrack`: whatever was there when the walk began, and stands on a page
already read, has been seen, since it stood no later when that page was read. A
page is full just when there are services enough (`PageIsFull`), so a page that
is not full is the last, nothing stands behind it, and the total read before it
was no larger.

`SecretNaming_proofs`: `NewServicesConfuseNothing`, for every alphabet and names
of every length. A compliant logical name and an environment have no slash
(`CompliantIsSlashless`: the pattern admits none, and the newline that `$` lets
through is none), so a secret's name splits at its last two slashes in one way
only (`SplitAtLastSlash`, `SecretNameTellsTheService`), and the service in front
is unique by the catalog's invariant.

### The provider configuration

`LLMProviderConfig_proofs`: `CacheTypeCorrect`, `ProviderAlways`, and
`StalenessIsBounded` for every positive TTL, every bound on a call's length and
any number of threads. `CacheInv` says the cache is filled wherever a thread may
read it. `AgeInv` bounds from below when the row last asked for a value
(`AskedSince`): for what a thread has read, the start of its call; for a cached
value that is not dated yet, one call earlier, since another thread may have
overwritten it in between; for a dated one, two calls before its date; for what
a thread serves as fresh, the TTL and two calls before it began. Its own call is
the third.

### The summary

`NarrativeSummary_proofs`: `SummaryTypeCorrect`, `SummaryTells`, `FactsSurvive`,
`KeyIsFound`. `LifecycleInv` says how long the event list is at each status, that
it begins with the creation and ends with the status; steps only add to it
(`LifecycleKeepsTrail`), so what a reader saw at its first read is still told by
the list it reads later (`StatusIsTold`, `FactsOf`). `KeyHunt` carries the key: a
reader that holds none at the point of decision began without one, or met a
fault.

### Serving

`RequestServing_proofs`: `ServingTypeCorrect`, `ErrorsExplained`,
`ReadyReached`, `ConnectionsDoNotLeak`, for every finite set of slots, number of
threads and pool. `Sound` relates a slot to the database: while it is down every
active request is troubled, a broken connection belongs to a troubled one, a
probe past its statement saw the database up. `Pooled` counts: held and waiting
connections together stay within the limit, those that wait within the pool's
size. Steps are grouped by what they do to one slot (`SlotStep`), with the
arithmetic on cardinalities in that one lemma.

### Deployment

`DeployPipeline_proofs`: `DeployTypeCorrect`, `SchemaCovers`, `RevisionsOnce`,
`PassedServed`, for every number of runs and every line of revisions. `Fits` says
what a run may rely on: from a migration that ended with exit code 0 on, the schema has
what its image ships, and it never goes back; a migration under way has something
to apply; behind a stable service of a run's own no other task is left, starting
or healthy. None of it rests on an image being in the registry: what is not there
never gets as far as an exit code 0. That the version row matches is what lets a commit keep `RevisionsApplyOnce`.

### Only model-checked

Liveness (`HandlersEnd`, `ApprovalsConclude`, `RequestsEnd`, `ReadinessRecovers`,
`RolloutsFinish`), which is out of TLAPS's reach. `NoChainOfWaits` and
`AbandonedByFaultsOnly` are the safety part of the first two, and proved.

## Plan

All parts with a state of their own are modelled, and all that is not liveness
is proved. What is left: a composition of `RequestServing` with
`SecretRequestLifecycle`, in which row locks are waited for with a thread and a
connection in hand.

## Not modelled, and why

- Settings, log rendering and the request log: no state that a handler reads.
- What a migration does to tables: the schema acts in the model as the models
  declare it (unique keys, identities, defaults). Downgrades are never run by the
  workflows.
- `app-ci.yml` checks a pull request and changes nothing that runs.
- Terraform beyond the rollout settings and health checks of the ECS service and
  the expiry of tagged images declares resources.
- Which of two images was pushed first: any may expire, which covers the policy.
- Reads (`get_request`, `get_events`, `get_service`) return one committed
  snapshot: they are the variables `rows`, `events` and `services` themselves.
- Validation of request bodies (lengths, characters, e-mail addresses) happens
  before a handler and changes nothing.
- The production flag of the risk checks, a comparison with one value, and the
  wording of prompts.
- The clock of the database stepping back, and losing committed data.
