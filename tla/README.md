# Verification of the DevOps SaaS Platform API

TLA+ models of the API under `src/apps/api` and of the seed: what its handlers
and its worker do to Postgres and Redis, step by step, under every interleaving
and under crashes, failing queries and lost locks; what the guards let through;
how the process comes up. TLC checks the models on small instances; TLAPS proves
every invariant and action property the runs check, and the safety of the three
refinements, for every size.

    tlc -config PipelineFaults.cfg MCDeploymentPipeline
    tlc -config ProjectsApi.cfg MCProjectsApi
    tlapm DeploymentPipelineProofs.tla
    tlapm ProjectsApiProofs.tla

`PROJECT.json` lists the components, the runs, the mutants, the theorems, the
hazards of the code, and for each definition the lines it models.

## 1. The system

A NestJS application in one process, with a Postgres database behind Prisma and
a BullMQ queue in Redis. The process serves HTTP and runs the worker.

| component | source | state it keeps | operations |
|---|---|---|---|
| Deployment trigger | `deployments.service.ts`, `deployment-queue.service.ts` | `Deployment` rows, jobs | `trigger`: check the owner, insert a PENDING row, enqueue a job (3 attempts, exponential backoff) |
| Deployment worker | `deployment.processor.ts` | `status`, `logs`, `finishedAt` of a row | `process`: load; BUILDING; DEPLOYING; SUCCESS, or FAILED and rethrow |
| Projects | `projects.service.ts` | `Project` rows; `Deployment` rows by cascade | `list`, `create`, `findOne`, `update`, `remove` |
| Deployments, reads | `deployments.service.ts` | none | `findOne`, `listForProject` (limit clamped) |
| Authentication | `auth.service.ts` | `User` rows | `register`, `login`; both sign a token |
| JWT guard and strategy | `jwt-auth.guard.ts`, `jwt.strategy.ts` | none (the token is the state) | pass `@Public()` routes; look the user of a token up |
| Users | `users.service.ts` | none | `findById` for `/users/me` |
| Exception filter | `prisma-exception.filter.ts` | none | P2002 is 409, P2025 is 404, the rest 500 |
| Schema | `schema.prisma`, migrations | unique indexes, foreign keys with cascade | |
| Queue configuration | `queue.module.ts` | finished jobs kept in Redis | pruning, Bull Board switch |
| Rate limiter, order of guards | `app.module.ts`, `auth.controller.ts` | counters by address and route, in memory | 100 a minute, 5 for login, after authentication |
| Environment, bootstrap, Prisma life cycle | `env.validation.ts`, `main.ts`, `prisma.service.ts` | the process | parse, connect, listen; exit 1 on any failure |
| Seed | `seed.ts` | demo rows | two upserts and an insert |
| Health | `health.controller.ts` | none | answers ok |

How they interact. A request passes the guards and one handler; the handler runs
one query after the other, and while it waits for one any other request or the
worker runs its own. Requests and worker meet only in the database and the
queue: `trigger` leaves a row and a job, the worker reads the job's id and works
on the row, `DELETE /projects/:id` takes the row away from under both. BullMQ
calls `process` back; whether that call returned or threw decides the fate of
the job, and only if the job's lock is still held.

What is hard:

- *Check, then act.* `trigger`, `update`, `remove` and `listForProject` check
  ownership in one query and rely on it in the next. `register` looks an email
  up, hashes for a while, then inserts.
- *Two stores, no transaction.* The row is committed before the job is added;
  SUCCESS is committed before the job is acknowledged.
- *Read, then write.* `transition` and `finish` read the logs and write them
  back in another query.
- *Retries.* An attempt starts over on a row an earlier attempt left anywhere,
  while the project may have been deleted; a crash or a lost lock makes BullMQ
  hand a job out again without counting an attempt.
- *Tokens outlive users*, and emails are used again.
- *Windows.* Requests pile up between the guards while the limiter's windows
  slide, blocks end in the middle of one, and a restart forgets all of it.
- *Order of arrival.* Rows are stamped before they are committed, jobs end in
  another order than they were added, and both are cut off by a limit.
- *Evaluation order.* One switch reads `process.env` while modules are still
  being imported, the other `ConfigService`; `.env` may change meanwhile.
- *Scripts that stop half-way.* The seed is three commits, run again and again.

What makes each component correct:

- pipeline: one invocation per row while locks hold; no step skipped; no log
  line lost; a job counted as completed means SUCCESS; a bounded number of
  builds; a deleted row stays deleted; every job settles, every slot comes free,
  every row reaches its last status; a sentinel commit never succeeds;
- projects and deployments: a project changes or goes only by its owner's
  request and as asked; nobody reads another user's rows; somebody else's
  project is answered like none; of racing deletions one wins;
- accounts: one account per email; a token is proof of the password of the
  account it names; a session is its holder's or refused;
- guards: no window lets more than the limit through, nobody is refused for
  less, and requests that fail authentication cost nothing;
- history: a list is of the length closest to the one asked for, and holds what
  a client was told of unless newer ones fill it; only old jobs are pruned;
- bootstrap: both switches follow one rule and one reading of the environment;
  once the world is right the process comes up;
- seed: a run nobody disturbs succeeds, and one that succeeds left what it says.

## 2. The modules

| module | models | remarks |
|---|---|---|
| `Tables` | a table of Postgres or Redis: a function whose domain is what exists | `Put`, `Drop`, `Table` |
| `DeploymentPipeline` | trigger, worker, BullMQ and `DELETE` of a project | the core |
| `DeploymentLifecycle` | what a user who polls a deployment is promised | abstract, implemented by the pipeline |
| `ProjectsApi` | the authenticated calls on projects, deployments, `/users/me` | |
| `ProjectStore` | what those calls promise, each in one moment | abstract, implemented by `ProjectsApi` |
| `Accounts` | register, login and the use of tokens | |
| `RequestGuards` | `JwtAuthGuard`, then `ThrottlerGuard`, on every request | |
| `DeploymentHistory` | the lists of deployments and the pruning of finished jobs | composes trigger, worker and reads by their order in time |
| `Bootstrap` | environment, `AppModule`, `bootstrap()`, exits and restarts | |
| `Seed` | `prisma/seed.ts`, run again and again beside the API | |
| `TableTheorems` | lemmas on `Put`, `Drop`, `Restrict`, `Table` | used by all proofs |
| `DeploymentPipelineProofs`, `ProjectsApiProofs`, `AccountsProofs`, `RequestGuardsProofs`, `DeploymentHistoryProofs`, `SeedProofs`, `BootstrapProofs` | theorems | section 5 |
| `MC...` | symmetry sets, fault sets and small domains of the TLC instances | |

### DeploymentPipeline

`row` is the `Deployment` table, `job` the hash of each BullMQ job, `lock` its
lock key, `proc` the running invocations of `process` by worker slot, `request`
the trigger requests between their awaits. One action is one await:

| code | action |
|---|---|
| `assertProjectOwned` | `AssertProjectOwned` |
| `deployment.create` and its failures | `CreateRow` (201 path and P2003), `CreateRowError` |
| `queue.add` and its failure | `Enqueue`, `EnqueueError` |
| `project.delete` with its cascade | `RemoveProject` |
| `findUnique` at the start of `process` | `LoadRow` |
| first and second query of `transition` and `finish` | `ReadLogs`, `WriteRow` |
| any of them on a row that is gone | `RowMissing` |
| any of them failing | `QueryError` |
| the `throw` on the sentinel, the `catch`, the rethrow | `AfterDeploying`, `AfterWrite`, `Raise`, `Over` |
| BullMQ around `process` | `TakeJob`, `JobCompleted`, `JobRetried`, `JobFailed`, `OutcomeDiscarded`, `BackoffOver`, `StalledCheck`, `LockExpires` |
| death and restart of the process | `Crash` |

`target` of an invocation is the status its next `transition` or `finish`
writes; it is the program counter inside the `try` block. An exception
(`Raise`) leads into the `catch` block (`target = "FAILED"`) from inside the
`try` block and out of `process` from the first query and from the `catch`
block itself, as in the code.

Data: a log is the sequence of the steps that wrote its lines; `finishedAt` is
0 for null, else the length the log got by the write that stamped it, so a stamp
an earlier attempt left behind can be told from that of the last one; `commitSha`
is the sentinel or not. The sleeps are the freedom not to
move. A query that fails may have been applied or not.

Faults. `FaultKinds` says which of four kinds a behaviour may contain: `db` (a
query fails), `redis` (`queue.add` fails), `crash`, `stall` (a lock expires
under a running invocation, its renewal being late). `MaxFaults` bounds their
number. BullMQ itself is not in the repository; it is modelled from how the code
configures and relies on it: a job is active while it holds a lock that the
worker renews, an outcome counts only with the lock, an active job without a
lock is handed out again `MaxStalled` times (BullMQ's default is 1, and
`@Processor` sets nothing else) and then failed without a call of `process`.
`Crash` also stands for an orderly stop: `main.ts` enables no shutdown hooks.
When a job ends, all but `KeepCompleted` (in the code 100) or `KeepFailed` (500)
of those that ended like it are removed (`Pruned`), any of them here, the oldest
in `DeploymentHistory`; a row whose job was removed keeps its status.

The process is one: `Crash` ends all invocations and all requests. The locks of
a dead process expire before its jobs are found stalled; the model drops them
with the crash.

### DeploymentLifecycle

Statuses and number of builds of each deployment, nothing else. With `CutShort`
FALSE it is the documented life cycle: PENDING, BUILDING, DEPLOYING, then
SUCCESS or FAILED, FAILED to BUILDING while builds are left, with weak fairness
on progress. With `CutShort` TRUE an attempt may start over, or fail, from any
status. The mapping: the status is that of the row; a deployment without a row
is "absent" before its insert and "gone" after; `builds` is the number of
BUILDING lines in its log.

### ProjectsApi

Calls in `call`, each an operation with its arguments (`asked`) at the point of
its handler where it waits: `guard` (JwtStrategy), `check` (`assertOwned`,
`assertProjectOwned`), `query`, `include` (the second query of `findOne`'s
include). `body` collects whose rows an answer holds. `creator` is history: who
created an id, of a project or a deployment, alive or gone. `DeleteUser` is
an operator at the database, the only way a user goes. The initial states are
all databases the schema admits and the API can produce.

Every query may fail (`QueryError`), the guard's as well, and so may the enqueue
of `trigger`: the filter's default branch, or Nest itself, answers 500, and a
write was applied or not. This answer is written `error`, to be told from the
`500` the code itself brings about: a foreign key to a row that went between two
queries, or a refused null.

An optional field of `UpdateProjectDto` may be absent or null: `@IsOptional()`
skips validation for both. A null reaches Prisma, whose validation error is not
a known request error, hence 500 (`HasNull`).

### ProjectStore

The same calls, each carried out or refused in one moment between its arrival
and its answer: the owner is checked and the write done at once (`CarriedOut`),
or there is a reason for 401, 404, 409 or 500 at that moment (`Refused`). Only
`error` leaves open whether the write was done. Two answers are weaker, because
the code reads once more after its check: `findOne` and the list of a project's
deployments may succeed for a project of the caller's that has just gone, and
`trigger` then answers 500 (`Readable`, `Broken`). The mapping keeps the tables
and makes every call that is not answered `pending`.

### Accounts

`register` is lookup, hash, insert; `login` is lookup, compare. A token holds the
id and the email it was signed with, and as history the password that was
presented. Passwords are told apart as far as bcrypt tells them apart. Expiry is
left out: it only refuses more. Failing queries are left out too: they end in 500
before anything is signed, or after an insert that stays without a token.

### RequestGuards

A request waits at `jwt`, then at `throttler`, then is in its handler or was
answered 401, 429 or 500. `JwtGuard` is `canActivate`: public routes pass, on
the others the token and its user are good, bad, or the lookup fails. `Restart`
forgets the counters and loses the requests under way. From the code come the
order of the guards, the `Limit` of each route and the `BlockDuration`. The
decision itself (`Pass`, `Refuse`) and the storage are `@nestjs/throttler`'s,
external and modelled by their contract: a counter per address and route whose
hits live for the ttl; when the limit is used up the key is blocked for
`blockDuration`, which the code leaves at its default, the ttl; the end of a
block starts a new count. `at` and `life` of a request are history: when it was
decided, and in which life of the process.

### DeploymentHistory

`trigger` is the requests between check, insert and enqueue; `startedAt` is
taken when the insert begins, so rows may commit behind newer ones. `Finish`
ends a job in either outcome and prunes as `removeOnComplete` and
`removeOnFail` say, by outcome and by the time of the end. `poll` is a client
that lists or opens the project, one request after the other; `known` is what
it had been told before. The limit of a query string goes through the global
`ValidationPipe` (which makes a number of the text, NaN of a word),
`DefaultValuePipe` (which replaces NaN and what is absent), `ParseIntPipe`
(which rejects what is not whole), then through the clamp: `Rejected`, `Parsed`,
`Cap`. So a word gives the default, and 2.5 gives 400. The queries do not fail
here: a failing one only answers 500.

### Bootstrap

`phase` is how far the process is: `import` (the decorator of `AppModule` calls
`ConfigModule.forRoot`, which merges `.env` below `process.env`, runs
`validateEnv` and adds what `process.env` lacks), `register`
(`QueueModule.register`, later in the same array, reads `process.env`),
`create` (Swagger, by `ConfigService`), `init` (`PrismaService.onModuleInit`),
`listen`, `up`; `refused` and `failed` are about to exit. An operator edits
`.env`, Postgres and the port come and go, `Stop` ends the process at any
moment. One variable without a default and one number stand for the others of
their kind; a value its schema does not accept is `junk`.

### Seed

Each query is a step, an upsert with an empty update a lookup and an insert that
may find the row there: it ends in P2002 or takes that row, depending on how
Prisma sends it, so both are behaviours. Runs race, fail and are killed;
meanwhile the API registers the demo email, creates, renames and deletes the
demo project, and an operator deletes the user. `disturbed` is history: somebody
else wrote, or a query failed, while the run went on. Deployments other than the
seed's are left out: nothing the seed does depends on them.

## 3. What TLC checks

| run | instance | shows |
|---|---|---|
| `nominal` | 2 deployments, 1 project, 2 slots, 3 attempts, no fault, with fairness | `SettledJobSettledRow`, `NoOrphanRow`, `EveryRowSettles`, `ImplementsLifecycle` |
| `faults` | 2 deployments, 1 project, 2 slots, 3 attempts, any 2 of `db`, `redis`, `crash` | `SingleWorkerPerRow`, `StepsInOrder`, `CompletedMeansSuccess`, `LogAppendOnly`, `ImplementsCutShort` |
| `stalls` | 1 deployment, 1 project, 2 slots, 2 attempts, any 3 faults, lost locks included, with fairness | `TypeOK`, `RowHasProject`, `FailNeverSucceeds`, `BuildsBounded`, `DeletedStaysDeleted`, `EveryJobSettles`, `SlotsAreReleased` |
| `projects_api` | 2 users, 2 project ids, 1 deployment id, 2 names, 1 URL, 2 calls, any query failing | `TypeOK`, `RemovedOnce`, `DeploymentsByOwner`, `ReadsStayInside`, `ForeignIsNotFound`, `EveryWriteAsked`, `ImplementsStore` |
| `accounts` | 3 ids, 2 emails, 2 passwords, 3 calls, 2 sessions | the four properties of `Accounts` |
| `request_guards` | 4 requests, 2 addresses, 2 routes (limits 1 and 2), ttl 2, clock to 4, 1 restart | `TypeOK`, `RatePerAddress`, `RefusedAfterBurst` |
| `bootstrap` | 16 environments of the supervisor, 71 contents of `.env` | `TypeOK`, `SwitchesAsRead`, `ComesUp` |
| `history` | 3 deployments, limits 1 and 2, 5 numbers asked for, 1 success and 2 failures kept, clock to 2 | `TypeOK`, `LimitIsClosest`, `KnownIsListed`, `PrunedAreOldest` |
| `seed` | 3 runs, 2 users, 3 projects, 3 deployments | `TypeOK`, `RerunSucceeds`, `DoneIsComplete` |

The bounds. Two slots are enough for two invocations to meet on a row; two
deployments, for two jobs to compete for slots; three attempts are the code's
(`stalls` has two: the last one and one before it); one job of each outcome is
kept, so that of two that ended alike one is removed (`nominal` and `faults`;
`stalls` has one deployment, and nothing to remove). Two faults put a crash into
a redelivered attempt; three let a job stall, lose its lock and crash again, one
more than `MaxStalled` allows. In `projects_api` two calls are two that race,
and since the initial states are all databases, a third call before them adds
nothing; the second name is needed to see what a PATCH wrote and to run into the
unique index, while the URL, which no index is on, may be sent, left out or
null. In `accounts` three calls are a racing pair of registrations and a login,
or a registration, a deletion, a second registration of the email and a login
that began before. In `request_guards` four requests and a clock of two windows
let a limit of two be used up, a block begin, end, and a count start again; one
restart makes two lives. In `bootstrap` every variable is unset, right and wrong
in at least one of the two places, `NODE_ENV` and the flags in both; the wrong
ports and secrets, all in `.env`, come without flags: they only decide whether
the process gets past its validation. In `history` the limits are small instead
of 25 and 100, and -1, 0, 1, 2, 3 lie below, at and above both ends of the
range; three deployments are one more than the largest limit, and two failures
can be told from one success. In `seed` three runs are one killed, one that
races and one after them; the ids are as many as the runs can generate besides
those of the API. Requests, runs and clocks are finite, so these systems may
stop: deadlock is checked for `bootstrap` only, which never stops.

The fairness (`Fairness` of `DeploymentPipeline`) is weak and per await: the
event loop gives every settled promise its turn, BullMQ's fetch loop takes a
waiting job when a slot is idle, its timers end a backoff and repeat the stalled
check. Nothing is owed by users (`AssertProjectOwned`, `RemoveProject`) or by
faults. TLC checks the liveness runs without symmetry.

`Bootstrap` assumes weak fairness of `Boot`: the supervisor starts what is down
("Process supervisors restart us", `main.ts`), and the process runs on.
`ComesUp` asks for no more than that the environment, Postgres and the port are
right from some time on, and excepts behaviours in which the process is stopped
for ever again while it boots.

Each property has a mutant: a definition of the model changed the way a bug in
its code would change it, which TLC must refute (`PROJECT.json`).

### Where the code does less than it says

Three runs take the repository at its word and are refuted:

- `claim_row_settles`: `deployments.service.ts:56-57` has the row updated by the
  worker. When `enqueue` fails the row stays PENDING and no job knows it.
- `claim_seed`: `seed.ts:12-13` calls the seed idempotent, "re-running never
  duplicates rows". Line 47 inserts a deployment in every run.
- `claim_test_setup`: `test/setup.ts:11` prepares the e2e tests with `PORT` 0;
  `env.validation.ts:27` wants a positive number, so `AppModule` cannot be
  imported unless a `PORT` was set before.

Other differences met while modelling, which no run of their own shows:

- `deployment.processor.ts:99-100` says `finishedAt` stays null while a row is in
  flight; a retry moves a FAILED row back to BUILDING and leaves the stamp.
- Lines 107-109 there call the two queries of `transition` safe, "single-worker
  per row anyway". After a lost lock two invocations share the row and a line is
  lost; `SingleWorkerPerRow` and `LogAppendOnly` are checked while locks are kept.
- Line 50 has a success end at SUCCESS; after crashes between the last write and
  the acknowledgement the job is failed as stalled and the row stays BUILDING.
  Lines 50-52 have any error end in FAILED; the first query is outside the `try`.
- `project-response.dto.ts:1-4` says logs are kept off the project detail; the
  `include` of `findOne` has no `select`, so they are returned.
- `app.module.ts:29` speaks of 100 requests per minute and IP; the limiter counts
  by route, so it is 100 on each.

## 4. What holds only under conditions

A property is checked, and where possible proved, under the weakest set of
faults it survives:

| property | survives |
|---|---|
| `EveryRowSettles`, the fairness of `ImplementsLifecycle` | no fault |
| `SettledJobSettledRow`, `NoOrphanRow`, the safety of `ImplementsLifecycle` | failing enqueues |
| `SingleWorkerPerRow`, `StepsInOrder`, `CompletedMeansSuccess`, `LogAppendOnly`, `ImplementsCutShort` | crashes, failing queries and enqueues |
| `TypeOK`, `RowHasProject`, `FailNeverSucceeds`, `BuildsBounded`, `DeletedStaysDeleted`, `EveryJobSettles`, `SlotsAreReleased` | all |

`RatePerAddress` and `RefusedAfterBurst` speak of one life of the process: the
counters are in its memory. `KnownIsListed` excepts a project that was deleted.
`RerunSucceeds` speaks of runs nobody disturbs: one that races another, or an
API call, may end in P2002 or P2003 and exit with 1. `ForeignIsNotFound` excepts
the 500 of a failing query, which comes before anybody looks at the owner. The
other properties of `ProjectsApi`, `Accounts`, `DeploymentHistory`, `Bootstrap`
and `Seed` hold in every behaviour of their module.

## 5. What is proved

`DeploymentPipelineProofs` holds, for any sets of deployments, projects and
slots, any `MaxAttempts`, `KeepCompleted` and `KeepFailed` (none 0), `MaxStalled`,
`MaxFaults` and `FaultKinds` (`PipelineAssumption`):

- `Typing`: `Spec => []TypeOK`, which includes that a job is there only once its
  request is past the enqueue (`JobOfRequest`). One step per action; under each, the
  tables it changes. `TableTheorems` says once what `Put`, `Drop`, `Restrict` and
  `EXCEPT` make of a table. The type lemmas (`AfterWriteType`, `RaiseType`,
  `WrittenType`, ...) follow an invocation through the `try` block.
- `SingleWorker`: `[]SingleWorkerPerRow`, assuming no lock expires under a
  running invocation. It is not inductive: nothing in it stops `TakeJob` from
  handing out a job somebody works on. `LockInv` adds what does: every running
  invocation holds the lock of its job (`LocksHeld`) and every lock belongs to
  an active job (`LockOfActiveJob`), so a job that may be handed out, waiting or
  stalled, is nobody's; by `JobOfRequest` `Enqueue` never overwrites an active
  one.
- `SentinelFails`: `[]FailNeverSucceeds`, with all faults. `SentinelInv` follows
  the commit from the request to the row and to each invocation: one that loaded
  a sentinel row never aims at SUCCESS. Rows keep their commit, and an id that
  was deleted is not inserted again.
- `RowsOfProjects`: `[]RowHasProject`, the foreign key and the cascade.
- `DeletedForGood`: the action property `DeletedStaysDeleted`: only `CreateRow`
  and `CreateRowError` insert, and both leave "owned".

It goes on from `LockInv`, again assuming that no lock expires
under a running invocation (`LogAppendOnly` needs it: with lost locks a line can
be lost). `RowInv` adds to it what an invocation knows of its row:
between `ReadLogs` and `WriteRow` it holds the log the row still has
(`LogsCurrent`: nobody else writes that row, which is `SingleWorkerPerRow`), the
status it will write follows the last line of that log (`Aimed`), and one that
returned left SUCCESS (`ReturnedSuccess`). `RowOfRequest` keeps `CreateRow` from
replacing a row. From it:

- `CompletedIsSuccess`: `[]CompletedMeansSuccess`. It needs `ReturnedSuccess`,
  because `JobCompleted` looks at no row.
- `StepsOrdered`: `[]StepsInOrder`. It needs `LogsCurrent` and `Aimed`: what is
  appended is chosen two queries earlier than it is written.
- `LogsAppended`: the action property `LogAppendOnly`. It needs `LogsCurrent`:
  the code writes the whole array, so it appends only if the array it read is
  the one it overwrites.

From `RowInv`, with fewer faults:

- `SettledRows`: `[]SettledJobSettledRow`, assuming that no query and no process
  fails and no lock expires. `SettledInv` adds that every active job is locked
  (`ActiveJobsLocked`, so the stalled check fails nothing on its own) and that an
  invocation that returned or threw left SUCCESS or FAILED, stamped by its own
  write (`OutcomesLeft`): the queue settles the job later and looks at no row.
- `RowsHaveJobs`: `[]NoOrphanRow`, under the same conditions and for any number
  of deployments, although finished jobs are removed: a job that is over has
  left its row settled (`SettledInv`), only such jobs are removed, and a row is
  written only while its job is active.

`BuildsWithinPolicy`, `[]BuildsBounded`, is proved with all faults. With a lost
lock two invocations write over each other's logs, and a late one may put back
an old log with its own line added, so a bound on rows alone is not inductive.
`BuildInv` bounds every log there is, in rows and in the hands of invocations,
by `Room(d)`: how often the job was handed out (attempts that ended, stalls, the
running one; for a job that was removed, as often as it may be) less the
invocations that have BUILDING still to write. Taking a
job adds one to both terms; writing BUILDING adds a line and takes one
invocation from the second; a crash, a lost lock and a redelivery move a unit
from one place to another. The sets counted are finite
(`FewInvocations`), which the lemmas on cardinality need.

The refinements of the pipeline. `polled` and `built` are the refinement mapping of
`DeploymentPipeline`, the same for both abstract specifications:

- `CutShortRefinement`: `Spec => ImplementsCutShort`, assuming no lock expires
  under a running invocation. `StatusFollowsLog` ties the status a user polls to
  the last line of the log, and with `RowInv` the line that is written to the one
  before. Each action is seen as one step of `DeploymentLifecycle` or as none
  (`CreatedSeen`, `RejectedSeen`, `TriggerSeen`, `DeletionSeen`, `CrashSeen`,
  `WriteSeen`, `OtherStepsSeen`); `BuildsBounded` bounds the abstract builds.
- `LifecycleRefinement`: `Spec => Lifecycle!Spec`, the safety half of
  `ImplementsLifecycle`, assuming moreover that no query and no process fails.
  What it takes beyond is that an attempt starts from an outcome: BUILDING is
  written over PENDING or FAILED only, FAILED over DEPLOYING only, and no job is
  ever stalled (`AttemptInv`), so `BuildInv` gives `MaxAttempts` as the bound
  (`BuildOfAttempt`).

TLC checked the invariants `LockInv`, `SentinelInv`, `RowInv`, `BuildInv`,
`SettledInv`, `StatusFollowsLog` and `AttemptInv` before they were proved, on
the instances of `PipelineFaults`, `PipelineStalls` and `PipelineNominal`, the
last with two failing enqueues.

`ProjectsApiProofs` holds for any users, ids, names, URLs and calls
(`ProjectsAssumption`: the ids and the two absent values can be told apart). Its
seven theorems are the seven properties of the run. None is inductive: each
needs what the code relies on without saying so, that an id never changes hands.
`ApiInv` says it: a row's owner is who created its id (`RowsKnown`), a
deployment's creator owns its project (`DeploymentsKnown`), and a call that is
past its check, or answered by anything but 401 and 404, names ids its user
created (`CallOK`). `Kept` is what every step leaves: ids keep their creator and
do not come back; so what a call knows stays true while others run
(`KnownStays`). A write, whether its call is answered or its connection breaks,
is one lemma (`WriteStep`). `RemovedOnce` follows because a call answered 204
knows its project to be gone, and a second one needs it there. `WritesAsked`
proves the action property `EveryWriteAsked` from the same invariant.

`StoreRefinement` is `Spec => ImplementsStore`, the whole of it: `ProjectStore`
asks for no fairness. It says that checking in one query and writing in another
is as good as one moment. Steps before the last query are stutters (`MoveSeen`);
at the last one a write is carried out (`WriteIsCarriedOut`: who was let through
is the owner still, if the project is there, since ids keep their creator), a
refusal has its reason then (`RefusalSeen`) and a read is allowed (`ReadSeen`).

`AccountsProofs` holds for any users, emails, passwords, calls and sessions, and
proves the four properties. The invariant is again about ids: `Names(u, e, p)`
says that u was generated and, if there is an account u, it has that email and
password. A row is never changed and an id not generated twice, so `Names`
stays (`NamesStay`); a login establishes it when it reads the hash, a
registration when it inserts, a token carries it into the session.

`RequestGuardsProofs` holds for any addresses, routes, limits, ttl, number of
requests and of restarts (`GuardsAssumption`). `RateHolds` and
`RefusalsHaveReason` speak of requests long decided, while a counter holds the
hits of one ttl only. `GuardInv` connects the two: what passed within the last
ttl of this life is in its counter, and a block outlasts everything before it
(`PassedIsCounted`); what a counter holds did pass (`HitsPassed`); a block began
when the limit was used up (`BlockEarned`). A request that passes joins the live
hits, of which there were fewer than the limit, and any window that holds it
holds nothing else (`PassKeepsLimit`); a new block finds exactly the limit in the
ttl before it (`LimitUsedUp`).

`DeploymentHistoryProofs` holds for any ids, clock, limits and numbers of jobs
to keep (`HistoryAssumption`) and proves the four properties. `LimitsClamped`:
what the query takes is `Cap` of what was asked (`CapAsked`), and `CapIsClosest`
says of the clamp that no number of the range is nearer, for every integer.
`ListsLoseNothing`: what a client was told of has a row as long as the project
is there (`KnownHaveRows`), and a row keeps the stamp of its trigger
(`RowsTriggered`), so an answer stays right while rows with older stamps commit
after it. `PrunedLast`: the property says of each pruned job that as many of its
outcome as are to be kept did not end before it; `PruneInv` says that these are
all jobs of that outcome there are (`PrunedHaveYounger`), so that the next job
to end pushes out one of them and never makes room again, and that a job has an
end exactly when it is not open (`EndedAreOver`).

`SeedProofs` holds for any runs and ids (`SeedAssumption`). `Typing` includes the
unique index on the demo email. `UndisturbedSucceeds`: what an undisturbed run
has looked up is still so (`ReadyInv`): there is no user when it is about to
create one, the user and the project it found are there. Every write of anybody
else marks the runs that go on as disturbed (`OthersDisturbed`).
`DoneLeavesDeployment` is the action property: only `Deploy` ends a run well, and
the foreign keys hold in the state it leaves.

`BootstrapProofs` holds for any environments and contents of `.env`
(`BootstrapAssumption`: they say something of some of the variables).
`SwitchesFollow` rests on what `ConfigModule.forRoot` leaves behind: from then on
`process.env` says of each variable what `ConfigService` says (`ReadOnce`, from
`OverOfOver`), and every value is one its schema accepts, on which the two rules
agree (`RulesAgree`; on other values they do not).

Only model-checked: liveness and fairness (`EveryRowSettles`, `EveryJobSettles`,
`SlotsAreReleased`, `ComesUp`, the fairness of `ImplementsLifecycle`), which are
out of the prover's reach. All other properties of the passing runs are theorems.

## 6. The plan

Done: `DeploymentPipeline` with `DeploymentLifecycle`, `ProjectsApi` with
`ProjectStore`, `Accounts`, `RequestGuards`, `DeploymentHistory`, `Bootstrap`,
`Seed`; every invariant and action property the passing runs check is a theorem,
and so is the safety of the three refinements. Left:

1. A directory of accounts that `Accounts` implements, with the refinement proved
   from `Names`, and failing queries there.
2. Safety lemmas the liveness properties lean on: that some action of
   `Fairness` is possible for every unsettled job, stated without ENABLED.

## 7. What is not modelled, and why

- Health endpoint: stateless, it always answers ok. Nest modules, Swagger and the
  decorators: wiring and documentation. `packages/shared` is empty; `infra` is
  configuration.
- Most of the validation of bodies (slugs, URLs, lengths): a rejected request
  touches nothing. Which fields may be null, and what becomes of a limit, is
  modelled.
- Columns no property tells apart: names of users, timestamps other than
  `startedAt` and by which write `finishedAt` was set, the text of log lines.
- Of the bootstrap: headers, CORS, the content of the OpenAPI document and the
  wiring of Redis, which BullMQ reconnects to by itself.
- `PrismaService.onModuleDestroy`: nothing calls it in production, since
  `main.ts` enables no shutdown hooks.
- The expiry of a token: it is one of the ways `JwtGuard` answers 401 and only
  refuses more.
