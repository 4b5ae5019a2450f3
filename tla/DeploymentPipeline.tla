------------------------- MODULE DeploymentPipeline -------------------------
(***************************************************************************)
(* The deployment pipeline: POST /projects/:id/deployments creates a row   *)
(* in Postgres and then a BullMQ job in Redis; a BullMQ worker with a few   *)
(* slots hands each job to DeploymentProcessor.process, which walks the     *)
(* row through BUILDING, DEPLOYING and SUCCESS or FAILED; DELETE            *)
(* /projects/:id takes the project's rows away at any moment.               *)
(*                                                                         *)
(* Every await on Postgres or Redis is a step of its own, so all the        *)
(* interleavings of requests, invocations and deletions are behaviours.     *)
(*                                                                         *)
(* Postgres rows, Redis jobs and lock keys, requests and busy worker slots   *)
(* are tables (module Tables): what is not in the domain does not exist.    *)
(***************************************************************************)
EXTENDS Integers, Sequences, FiniteSets, FiniteSetsExt, Tables

CONSTANTS
  Deployment,     \* the row ids Prisma may generate; one trigger request each
  Project,        \* the projects that exist when the behaviour starts
  Worker,         \* the slots of the BullMQ worker (concurrency: 3)
  MaxAttempts,    \* attempts: 3
  MaxStalled,     \* BullMQ's maxStalledCount, 1 unless configured
  KeepCompleted,  \* removeOnComplete: 100
  KeepFailed,     \* removeOnFail: 500
  FaultKinds,     \* the kinds of fault a behaviour may contain
  MaxFaults       \* bound on the number of faults of a behaviour

ASSUME PipelineAssumption ==
  /\ MaxAttempts \in Nat \ {0}
  /\ MaxStalled \in Nat
  /\ KeepCompleted \in Nat \ {0} /\ KeepFailed \in Nat \ {0}
  /\ MaxFaults \in Nat
  /\ FaultKinds \subseteq {"db", "redis", "crash", "stall"}

VARIABLES
  projects,  \* Postgres: the projects that exist
  row,       \* Postgres: the Deployment table
  job,       \* Redis: the run-deployment jobs not pruned, at most one per deployment
  lock,      \* Redis: the lock key of each active job, held by a slot
  request,   \* the trigger requests and their responses
  proc,      \* the invocations of process() running, by slot
  faults     \* number of faults so far

vars == <<projects, row, job, lock, request, proc, faults>>

-----------------------------------------------------------------------------
(* The data.  A log line is told apart only by the step that wrote it, a    *)
(* commitSha only by whether it is the FAIL sentinel, finishedAt only by    *)
(* the length of the log it was written with, 0 for null.                   *)

Terminal  == {"SUCCESS", "FAILED"}
Step      == {"BUILDING", "DEPLOYING"} \cup Terminal
Status    == {"PENDING"} \cup Step
CommitSha == {"FAIL", "other"}

Row == [project: Project, commitSha: CommitSha, status: Status,
        logs: Seq(Step), finishedAt: Nat]

Finished == {"completed", "failed"}

Job == [state: {"waiting", "active", "delayed"} \cup Finished,
        attemptsMade: Nat, stalled: Nat]

\* "owned" and "created" are the points of trigger() between two awaits;
\* the others are the HTTP response, or none when the process died.
Request == [pc: {"owned", "created", "201", "404", "500", "lost"},
            project: Project, commitSha: CommitSha]

\* target is the status the next transition() or finish() writes; logs the
\* value of current.logs between its two queries; commitSha that of the row
\* loaded at the start.
Invocation == [id: Deployment, pc: {"load", "read", "write", "return", "throw"},
               target: Step, commitSha: CommitSha \cup {"unread"},
               logs: Seq(Step)]

\* A job is only there once its request is past the enqueue, so never before
\* its row was committed.
JobOfRequest ==
  \A d \in DOMAIN job :
    d \in DOMAIN request /\ request[d].pc \notin {"owned", "created"}

TypeOK ==
  /\ projects \subseteq Project
  /\ Table(row, Deployment, Row)
  /\ Table(job, Deployment, Job)
  /\ Table(lock, Deployment, Worker)
  /\ Table(request, Deployment, Request)
  /\ Table(proc, Worker, Invocation)
  /\ faults \in 0..MaxFaults
  /\ JobOfRequest

Init ==
  /\ projects = Project
  /\ row = Empty
  /\ job = Empty
  /\ lock = Empty
  /\ request = Empty
  /\ proc = Empty
  /\ faults = 0

\* A fault of the given kind happens in this step.
Fault(kind) ==
  /\ kind \in FaultKinds
  /\ faults < MaxFaults
  /\ faults' = faults + 1

-----------------------------------------------------------------------------
(* POST /projects/:projectId/deployments: DeploymentsService.trigger.       *)

\* The ownership check, for a caller who owns p: 404 once p is gone.
AssertProjectOwned(d, p, sha) ==
  /\ d \notin DOMAIN request
  /\ request' = Put(request, d,
                    [pc |-> IF p \in projects THEN "owned" ELSE "404",
                     project |-> p, commitSha |-> sha])
  /\ UNCHANGED <<projects, row, job, lock, proc, faults>>

NewRow(d) ==
  Put(row, d, [project |-> request[d].project, commitSha |-> request[d].commitSha,
               status |-> "PENDING", logs |-> <<>>, finishedAt |-> 0])

\* deployment.create: the foreign key is checked by Postgres; its violation
\* (P2003) is not one the exception filter maps, so it answers 500.
CreateRow(d) ==
  /\ d \in DOMAIN request /\ request[d].pc = "owned"
  /\ \/ /\ request[d].project \in projects
        /\ row' = NewRow(d)
        /\ request' = [request EXCEPT ![d].pc = "created"]
     \/ /\ request[d].project \notin projects
        /\ request' = [request EXCEPT ![d].pc = "500"]
        /\ UNCHANGED row
  /\ UNCHANGED <<projects, job, lock, proc, faults>>

\* The query fails; the row was inserted or not before the connection broke.
CreateRowError(d) ==
  /\ d \in DOMAIN request /\ request[d].pc = "owned"
  /\ Fault("db")
  /\ \/ UNCHANGED row
     \/ request[d].project \in projects /\ row' = NewRow(d)
  /\ request' = [request EXCEPT ![d].pc = "500"]
  /\ UNCHANGED <<projects, job, lock, proc>>

NewJob(d) ==
  Put(job, d, [state |-> "waiting", attemptsMade |-> 0, stalled |-> 0])

\* Mutant: the job is added before the row is created.
EnqueueFirst(d) ==
  /\ d \in DOMAIN request /\ request[d].pc = "owned"
  /\ d \notin DOMAIN job
  /\ job' = NewJob(d)
  /\ UNCHANGED <<projects, row, lock, request, proc, faults>>

\* queue.add, then the row is returned with 201.
Enqueue(d) ==
  /\ d \in DOMAIN request /\ request[d].pc = "created"
  /\ job' = NewJob(d)
  /\ request' = [request EXCEPT ![d].pc = "201"]
  /\ UNCHANGED <<projects, row, lock, proc, faults>>

\* Mutant: a failed enqueue is tried again.
EnqueueRetried(d) ==
  /\ d \in DOMAIN request /\ request[d].pc = "created"
  /\ Fault("redis")
  /\ job' \in {job, NewJob(d)}
  /\ UNCHANGED <<projects, row, lock, request, proc>>

\* queue.add rejects; the job was added or not before the connection broke.
EnqueueError(d) ==
  /\ d \in DOMAIN request /\ request[d].pc = "created"
  /\ Fault("redis")
  /\ job' \in {job, NewJob(d)}
  /\ request' = [request EXCEPT ![d].pc = "500"]
  /\ UNCHANGED <<projects, row, lock, proc>>

\* Mutant: the schema has no onDelete: Cascade.
RemoveProjectOnly(p) ==
  /\ p \in projects
  /\ projects' = projects \ {p}
  /\ UNCHANGED <<row, job, lock, request, proc, faults>>

\* DELETE /projects/:id: Postgres removes the project's rows with it, and
\* nobody touches the jobs.
RemoveProject(p) ==
  /\ p \in projects
  /\ projects' = projects \ {p}
  /\ row' = Restrict(row, {d \in DOMAIN row : row[d].project # p})
  /\ UNCHANGED <<job, lock, request, proc, faults>>

-----------------------------------------------------------------------------
(* DeploymentProcessor.process, one invocation per busy slot.               *)

\* The row the invocation works on still exists.
Found(w) == proc[w].id \in DOMAIN row

\* Mutant: the log of the step before is taken for the next one.
OntoStaleLogs(i, target) == [i EXCEPT !.pc = "write", !.target = target]

\* The invocation goes on to the transition() or finish() that writes target.
Onto(i, target) == [i EXCEPT !.pc = "read", !.target = target, !.logs = <<>>]

\* Mutant: the catch block does not rethrow.
OverSwallowed(i, pc) == [i EXCEPT !.pc = "return", !.logs = <<>>]

\* The invocation is over: it returns or throws.
Over(i, pc) == [i EXCEPT !.pc = pc, !.logs = <<>>]

\* Mutant: a query that failed is tried again, for ever.
RaiseRetries(w) == UNCHANGED proc

\* Where an exception leads: out of process() from the first query or from
\* the catch block, into the catch block from inside the try block.
Raise(w) ==
  proc' = [proc EXCEPT ![w] = IF @.pc = "load" \/ @.target = "FAILED"
                              THEN Over(@, "throw") ELSE Onto(@, "FAILED")]

\* Mutant: a retry goes on where the attempt before stopped.
LoadRowResumes(w) ==
  /\ w \in DOMAIN proc /\ proc[w].pc = "load"
  /\ Found(w)
  /\ LET r == row[proc[w].id] IN
     proc' = [proc EXCEPT ![w].pc = "read", ![w].commitSha = r.commitSha,
                          ![w].target = IF r.logs = <<>> THEN @ ELSE "DEPLOYING"]
  /\ UNCHANGED <<projects, row, job, lock, request, faults>>

\* Mutant: the commitSha is not taken from the row.
LoadRowNoSha(w) ==
  /\ w \in DOMAIN proc /\ proc[w].pc = "load"
  /\ Found(w)
  /\ proc' = [proc EXCEPT ![w].pc = "read"]
  /\ UNCHANGED <<projects, row, job, lock, request, faults>>

\* findUnique at the start: the invocation keeps the row's commitSha.
LoadRow(w) ==
  /\ w \in DOMAIN proc /\ proc[w].pc = "load"
  /\ Found(w)
  /\ proc' = [proc EXCEPT ![w].pc = "read", ![w].commitSha = row[proc[w].id].commitSha]
  /\ UNCHANGED <<projects, row, job, lock, request, faults>>

\* The first query of transition() and finish().
ReadLogs(w) ==
  /\ w \in DOMAIN proc /\ proc[w].pc = "read"
  /\ Found(w)
  /\ proc' = [proc EXCEPT ![w].pc = "write", ![w].logs = row[proc[w].id].logs]
  /\ UNCHANGED <<projects, row, job, lock, request, faults>>

\* Mutant: a row that has a stamp keeps it.
WrittenStampOnce(w) ==
  LET i == proc[w] IN
  [row EXCEPT ![i.id].status = i.target,
              ![i.id].logs = Append(i.logs, i.target),
              ![i.id].finishedAt = IF @ = 0 /\ i.target \in Terminal
                                   THEN Len(i.logs) + 1 ELSE @]

\* The row after the second query: the status and the line go in together,
\* and only finish() touches finishedAt.
Written(w) ==
  LET i == proc[w] IN
  [row EXCEPT ![i.id].status = i.target,
              ![i.id].logs = Append(i.logs, i.target),
              ![i.id].finishedAt = IF i.target \in Terminal
                                   THEN Len(i.logs) + 1 ELSE @]

\* Mutant: the sentinel is looked at outside the try block.
AfterDeployingUncaught(i) ==
  IF i.commitSha = "FAIL" THEN Over(i, "throw") ELSE Onto(i, "SUCCESS")

\* The sentinel sends the invocation to the catch block.
AfterDeploying(i) == Onto(i, IF i.commitSha = "FAIL" THEN "FAILED" ELSE "SUCCESS")

\* The step after a successful write.
AfterWrite(i) ==
  CASE i.target = "BUILDING"  -> Onto(i, "DEPLOYING")
    [] i.target = "DEPLOYING" -> AfterDeploying(i)
    [] i.target = "SUCCESS"   -> Over(i, "return")
    [] i.target = "FAILED"    -> Over(i, "throw")

\* Mutant: the row is upserted.
WriteRowUpsert(w) ==
  /\ w \in DOMAIN proc /\ proc[w].pc = "write"
  /\ row' = IF Found(w) THEN Written(w)
            ELSE Put(row, proc[w].id,
                     [project |-> request[proc[w].id].project,
                      commitSha |-> proc[w].commitSha, status |-> proc[w].target,
                      logs |-> <<proc[w].target>>, finishedAt |-> 0])
  /\ proc' = [proc EXCEPT ![w] = AfterWrite(@)]
  /\ UNCHANGED <<projects, job, lock, request, faults>>

\* The second query of transition() and finish().
WriteRow(w) ==
  /\ w \in DOMAIN proc /\ proc[w].pc = "write"
  /\ Found(w)
  /\ row' = Written(w)
  /\ proc' = [proc EXCEPT ![w] = AfterWrite(@)]
  /\ UNCHANGED <<projects, job, lock, request, faults>>

Querying(w) == w \in DOMAIN proc /\ proc[w].pc \in {"load", "read", "write"}

\* Mutant: a row that is gone is waited for.
RowMissingWaits(w) ==
  /\ Querying(w)
  /\ ~Found(w)
  /\ UNCHANGED vars

\* Any of the queries on a row that is gone: "not found" or P2025.
RowMissing(w) ==
  /\ Querying(w)
  /\ ~Found(w)
  /\ Raise(w)
  /\ UNCHANGED <<projects, row, job, lock, request, faults>>

\* Any of the queries fails; an update was applied or not before.
QueryError(w) ==
  /\ Querying(w)
  /\ Fault("db")
  /\ Raise(w)
  /\ \/ UNCHANGED row
     \/ proc[w].pc = "write" /\ Found(w) /\ row' = Written(w)
  /\ UNCHANGED <<projects, job, lock, request>>

-----------------------------------------------------------------------------
(* BullMQ, as the queue and the worker are configured.                      *)

HoldsLock(w) == proc[w].id \in DOMAIN lock /\ lock[proc[w].id] = w

\* An idle slot takes a waiting job and calls process().
TakeJob(w, d) ==
  /\ w \in Worker \ DOMAIN proc
  /\ d \in DOMAIN job /\ job[d].state = "waiting"
  /\ job' = [job EXCEPT ![d].state = "active"]
  /\ lock' = Put(lock, d, w)
  /\ proc' = Put(proc, w, [id |-> d, pc |-> "load", target |-> "BUILDING",
                           commitSha |-> "unread", logs |-> <<>>])
  /\ UNCHANGED <<projects, row, request, faults>>

Keep(state) == IF state = "completed" THEN KeepCompleted ELSE KeepFailed

\* What is left of the jobs when that of d has ended: of the others that ended
\* like it only so many are kept.  (Which, is the matter of DeploymentHistory.)
Pruned(jobs, d) ==
  LET state  == jobs[d].state
      others == {e \in DOMAIN jobs \ {d} : state \in Finished /\ jobs[e].state = state}
      excess == Max({0, Cardinality(others) + 1 - Keep(state)})
  IN {Restrict(jobs, DOMAIN jobs \ gone) : gone \in kSubset(excess, others)}

\* process() is over and the slot still holds the job's lock.
Settle(w, pc, state) ==
  /\ w \in DOMAIN proc /\ proc[w].pc = pc
  /\ HoldsLock(w)
  /\ job' \in Pruned([job EXCEPT ![proc[w].id].state = state,
                                 ![proc[w].id].attemptsMade = @ + 1], proc[w].id)
  /\ lock' = Drop(lock, proc[w].id)
  /\ proc' = Drop(proc, w)
  /\ UNCHANGED <<projects, row, request, faults>>

\* Mutant: one attempt too many.
AttemptsOneMore(w) == job[proc[w].id].attemptsMade < MaxAttempts

AttemptsLeft(w) == job[proc[w].id].attemptsMade + 1 < MaxAttempts

JobCompleted(w) == Settle(w, "return", "completed")
JobRetried(w)   == Settle(w, "throw", "delayed") /\ AttemptsLeft(w)
JobFailed(w)    == Settle(w, "throw", "failed") /\ ~AttemptsLeft(w)

\* process() is over but the lock is gone: BullMQ discards the outcome.
OutcomeDiscarded(w) ==
  /\ w \in DOMAIN proc /\ proc[w].pc \in {"return", "throw"}
  /\ ~HoldsLock(w)
  /\ proc' = Drop(proc, w)
  /\ UNCHANGED <<projects, row, job, lock, request, faults>>

\* The exponential backoff of a delayed job is over.
BackoffOver(d) ==
  /\ d \in DOMAIN job /\ job[d].state = "delayed"
  /\ job' = [job EXCEPT ![d].state = "waiting"]
  /\ UNCHANGED <<projects, row, lock, request, proc, faults>>

\* The stalled-job check finds an active job without a lock: it is handed
\* out again, or failed without a call of process() when it stalled too often.
StalledCheck(d) ==
  /\ d \in DOMAIN job /\ job[d].state = "active"
  /\ d \notin DOMAIN lock
  /\ job' \in Pruned([job EXCEPT ![d].stalled = @ + 1,
                                 ![d].state = IF job[d].stalled < MaxStalled
                                              THEN "waiting" ELSE "failed"], d)
  /\ UNCHANGED <<projects, row, lock, request, proc, faults>>

\* The lock expires under a running invocation (its renewals were late).
LockExpires(d) ==
  /\ d \in DOMAIN lock
  /\ Fault("stall")
  /\ lock' = Drop(lock, d)
  /\ UNCHANGED <<projects, row, job, request, proc>>

\* The API process dies (or is stopped: main.ts enables no shutdown hooks)
\* and is restarted: its invocations and open requests are gone, its locks
\* expire, Postgres and Redis keep what they hold.
Crash ==
  /\ Fault("crash")
  /\ proc' = Empty
  /\ lock' = Empty
  /\ request' = [d \in DOMAIN request |->
                   IF request[d].pc \in {"owned", "created"}
                   THEN [request[d] EXCEPT !.pc = "lost"] ELSE request[d]]
  /\ UNCHANGED <<projects, row, job>>

-----------------------------------------------------------------------------
Trigger(d) ==
  \/ \E p \in Project, sha \in CommitSha : AssertProjectOwned(d, p, sha)
  \/ CreateRow(d)
  \/ CreateRowError(d)
  \/ Enqueue(d)
  \/ EnqueueError(d)

Process(w) ==
  \/ LoadRow(w)
  \/ ReadLogs(w)
  \/ WriteRow(w)
  \/ RowMissing(w)
  \/ QueryError(w)

Queue(w) ==
  \/ \E d \in Deployment : TakeJob(w, d)
  \/ JobCompleted(w)
  \/ JobRetried(w)
  \/ JobFailed(w)
  \/ OutcomeDiscarded(w)

Timers(d) ==
  \/ BackoffOver(d)
  \/ StalledCheck(d)
  \/ LockExpires(d)

Next ==
  \/ \E d \in Deployment : Trigger(d) \/ Timers(d)
  \/ \E w \in Worker : Process(w) \/ Queue(w)
  \/ \E p \in Project : RemoveProject(p)
  \/ Crash

Spec == Init /\ [][Next]_vars

\* What the event loop, BullMQ's fetch loop and its timers guarantee: an
\* await that can go on goes on.  No user and no fault is owed anything.
Fairness ==
  /\ \A d \in Deployment :
       /\ WF_vars(CreateRow(d)) /\ WF_vars(Enqueue(d))
       /\ WF_vars(BackoffOver(d)) /\ WF_vars(StalledCheck(d))
       /\ WF_vars(\E w \in Worker : TakeJob(w, d))
  /\ \A w \in Worker :
       /\ WF_vars(LoadRow(w) \/ ReadLogs(w) \/ WriteRow(w) \/ RowMissing(w))
       /\ WF_vars(JobCompleted(w) \/ JobRetried(w) \/ JobFailed(w) \/ OutcomeDiscarded(w))

FairSpec == Spec /\ Fairness

-----------------------------------------------------------------------------
(* Safety.  Each property names the faults under which it is checked.       *)

\* A row is worked on by one invocation at a time ("single-worker per row
\* anyway"), whatever crashes and redeliveries happen, as long as no lock
\* expires under a running invocation.
SingleWorkerPerRow ==
  \A v, w \in DOMAIN proc : proc[v].id = proc[w].id => v = w

\* transition() and finish() re-read the logs "so we append rather than
\* overwrite": no step may lose or rewrite a line already in the row, although
\* the read and the write are two queries.  Checked with crashes and failing
\* queries.
LogAppendOnly ==
  [][\A d \in DOMAIN row \cap DOMAIN row' :
       \/ row'[d].logs = row[d].logs
       \/ \E s \in Step : row'[d].logs = Append(row[d].logs, s)]_vars

\* No attempt skips a step of the pipeline: in the log DEPLOYING comes right
\* after BUILDING and SUCCESS right after DEPLOYING, also where attempts were
\* cut short by a crash or a failing query and started again.
StepsInOrder ==
  \A d \in DOMAIN row : \A i \in DOMAIN row[d].logs :
    LET line == row[d].logs[i] IN
    /\ line = "DEPLOYING" => i > 1 /\ row[d].logs[i-1] = "BUILDING"
    /\ line = "SUCCESS"   => i > 1 /\ row[d].logs[i-1] = "DEPLOYING"

\* When BullMQ counts a job as completed the row says SUCCESS and goes on
\* saying it: nothing that is still in flight may take it back.
CompletedMeansSuccess ==
  \A d \in DOMAIN job \cap DOMAIN row :
    job[d].state = "completed" => row[d].status = "SUCCESS"

\* The row is in a terminal status and stamped by the write that put it there.
EndedAs(d, status) ==
  row[d].status = status /\ row[d].finishedAt = Len(row[d].logs)

\* Once the job is over the row is in the terminal status of its last attempt,
\* stamped by that attempt and not by one before it ("the final outcome is
\* whatever the last attempt leaves in the row").  Checked without faults,
\* proved with failing enqueues.
SettledJobSettledRow ==
  \A d \in DOMAIN job \cap DOMAIN row :
    /\ job[d].state = "completed" => EndedAs(d, "SUCCESS")
    /\ job[d].state = "failed"    => EndedAs(d, "FAILED")

\* A row that is not in a terminal status has a job that is still to be worked
\* on, not one that is over or pruned; but for the moment between the two awaits
\* of trigger(), and for a trigger that answered 500.  Checked without faults,
\* proved with failing enqueues.
NoOrphanRow ==
  \A d \in DOMAIN row :
    \/ row[d].status \in Terminal
    \/ request[d].pc \in {"created", "500"}
    \/ d \in DOMAIN job /\ job[d].state \notin Finished

\* A deployment belongs to an existing project at every moment, although a
\* project may go between trigger()'s ownership check and its insert, and
\* under a running invocation.
RowHasProject ==
  \A d \in DOMAIN row : row[d].project \in projects

\* A deleted deployment is not brought back by an invocation, a retry or a
\* redelivery that still has its id: after its insert an absent row stays
\* absent.
DeletedStaysDeleted ==
  [][\A d \in DOMAIN request :
       request[d].pc # "owned" /\ d \notin DOMAIN row => d \notin DOMAIN row']_vars

\* A deployment of the FAIL sentinel never reaches SUCCESS, with any faults.
FailNeverSucceeds ==
  \A d \in DOMAIN row :
    row[d].commitSha = "FAIL" => \A i \in DOMAIN row[d].logs : row[d].logs[i] # "SUCCESS"

Builds(d) == Cardinality({i \in DOMAIN row[d].logs : row[d].logs[i] = "BUILDING"})

\* The retry policy bounds the work: with any faults, redeliveries included, a
\* deployment is built at most attempts + maxStalledCount times.
BuildsBounded ==
  \A d \in DOMAIN row : Builds(d) <= MaxAttempts + MaxStalled

-----------------------------------------------------------------------------
(* Liveness, under Fairness.                                                *)

\* The job of d, once it was added, is over: finished, or pruned since.
Settled(d) == d \in DOMAIN job => job[d].state \in Finished

\* Every job that got into Redis is over some day: no crash, lost lock,
\* deleted row or failing query leaves it active, delayed or waiting for ever.
EveryJobSettles ==
  \A d \in Deployment : d \in DOMAIN job ~> Settled(d)

\* Every slot comes free again and again: no invocation hangs on a missing
\* row or a lost lock.
SlotsAreReleased ==
  \A w \in Worker : []<>(w \notin DOMAIN proc)

\* Every row that was created reaches a terminal status for good, unless its
\* project is deleted ("the audit trail that will be updated by the worker").
EveryRowSettles ==
  \A d \in Deployment :
    d \in DOMAIN row ~> [](d \in DOMAIN row => row[d].status \in Terminal)

-----------------------------------------------------------------------------
(* The abstract specification this module implements.  A row's status is    *)
(* what a poll answers; its builds are the BUILDING lines of its log; an id  *)
(* without a row is gone once its trigger is past the insert.               *)

Polled(d) ==
  IF d \in DOMAIN row THEN row[d].status
  ELSE IF d \in DOMAIN request /\ request[d].pc # "owned" THEN "gone"
  ELSE "absent"

Built(d) == IF d \in DOMAIN row THEN Builds(d) ELSE 0

polled == [d \in Deployment |-> Polled(d)]
built  == [d \in Deployment |-> Built(d)]

Lifecycle == INSTANCE DeploymentLifecycle WITH
  MaxBuilds <- MaxAttempts, CutShort <- FALSE, status <- polled, builds <- built

CutShortLifecycle == INSTANCE DeploymentLifecycle WITH
  MaxBuilds <- MaxAttempts + MaxStalled, CutShort <- TRUE, status <- polled, builds <- built

\* Without faults a user sees the lifecycle as documented, and every deployment
\* goes on until it succeeded or MaxAttempts attempts have failed.
ImplementsLifecycle == Lifecycle!FairSpec

\* With crashes and failing queries attempts start over, and nothing else is
\* given up: no step skipped, no way back to PENDING or from deletion, and one
\* more build at most for each time a job may stall.
ImplementsCutShort == CutShortLifecycle!Spec
=============================================================================
