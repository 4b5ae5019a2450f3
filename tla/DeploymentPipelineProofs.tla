---------------------- MODULE DeploymentPipelineProofs ----------------------
(***************************************************************************)
(* Theorems about DeploymentPipeline, for any sets of deployments, projects *)
(* and slots, any retry policy and any number of faults:                    *)
(*                                                                         *)
(*   1. types                        Typing                                 *)
(*   2. one invocation per row       SingleWorker                           *)
(*   3. the sentinel                 SentinelFails                          *)
(*   4. rows and projects            RowsOfProjects, DeletedForGood         *)
(*   5. the row of an invocation     CompletedIsSuccess, StepsOrdered,      *)
(*                                   LogsAppended                           *)
(*   6. the outcome of a job         SettledRows, RowsHaveJobs              *)
(*   7. the number of builds         BuildsWithinPolicy                     *)
(*   8. the lifecycle a user polls   CutShortRefinement, LifecycleRefinement *)
(*                                                                         *)
(* Types, the sentinel, the rows' projects, deletion and the number of       *)
(* builds are proved under all faults; the other theorems name the faults    *)
(* they exclude.                                                             *)
(***************************************************************************)
EXTENDS DeploymentPipeline, TableTheorems, FiniteSetTheorems

-----------------------------------------------------------------------------
(* 1. Type correctness, one part for each variable.                         *)

\* The parts of an invocation that Onto and Over leave alone stay typed.
LEMMA OntoType ==
  ASSUME NEW i \in Invocation, NEW t \in Step
  PROVE  /\ Onto(i, t) \in Invocation
         /\ Onto(i, t).id = i.id
<1>1. <<>> \in Seq(Step)
  OBVIOUS
<1> QED
  BY <1>1 DEF Onto, Invocation

LEMMA OverType ==
  ASSUME NEW i \in Invocation, NEW pc \in {"return", "throw"}
  PROVE  /\ Over(i, pc) \in Invocation
         /\ Over(i, pc).id = i.id
<1>1. <<>> \in Seq(Step)
  OBVIOUS
<1> QED
  BY <1>1 DEF Over, Invocation

\* What follows a write is an invocation on the same deployment.
LEMMA AfterWriteType ==
  ASSUME NEW i \in Invocation
  PROVE  /\ AfterWrite(i) \in Invocation
         /\ AfterWrite(i).id = i.id
<1>1. CASE i.target = "BUILDING"
  BY <1>1, OntoType DEF AfterWrite, Step
<1>2. CASE i.target = "DEPLOYING"
  BY <1>2, OntoType DEF AfterWrite, AfterDeploying, Step, Terminal
<1>3. CASE i.target = "SUCCESS"
  BY <1>3, OverType DEF AfterWrite
<1>4. CASE i.target = "FAILED"
  BY <1>4, OverType DEF AfterWrite
<1> QED
  BY <1>1, <1>2, <1>3, <1>4 DEF Invocation, Step, Terminal

\* An exception leaves the table of invocations typed.
LEMMA RaiseType ==
  ASSUME TypeOK, NEW w \in DOMAIN proc, Raise(w)
  PROVE  Table(proc', Worker, Invocation)
<1> DEFINE i == IF proc[w].pc = "load" \/ proc[w].target = "FAILED"
                THEN Over(proc[w], "throw") ELSE Onto(proc[w], "FAILED")
<1>1. proc[w] \in Invocation
  BY TableValue DEF TypeOK
<1>2. i \in Invocation
  BY <1>1, OverType, OntoType DEF Step, Terminal
<1>3. proc' = [proc EXCEPT ![w] = i]
  BY DEF Raise
<1> HIDE DEF i
<1> QED
  BY <1>2, <1>3, ExceptTable DEF TypeOK

\* A write leaves the table of rows typed.
LEMMA WrittenType ==
  ASSUME TypeOK, NEW w \in DOMAIN proc, Found(w)
  PROVE  Table(Written(w), Deployment, Row)
<1> DEFINE i == proc[w]
           r == [row[i.id] EXCEPT !.status = i.target,
                                  !.logs = Append(i.logs, i.target),
                                  !.finishedAt = IF i.target \in Terminal
                                                 THEN Len(i.logs) + 1 ELSE @]
<1>1. i \in Invocation /\ i.id \in DOMAIN row /\ row[i.id] \in Row
  BY TableValue DEF TypeOK, Found
<1>2. Append(i.logs, i.target) \in Seq(Step) /\ Len(i.logs) + 1 \in Nat
  BY <1>1 DEF Invocation
<1>3. r \in Row
  BY <1>1, <1>2 DEF Row, Invocation, Status
<1>4. Written(w) = [row EXCEPT ![i.id] = r]
  BY <1>1 DEF Written, TypeOK, Table, Row
<1>5. Table(row, Deployment, Row)
  BY DEF TypeOK
<1> HIDE DEF r, i
<1> QED
  BY <1>1, <1>3, <1>4, <1>5 DEF Table

\* A new row is typed.
LEMMA NewRowType ==
  ASSUME TypeOK, NEW d \in DOMAIN request
  PROVE  Table(NewRow(d), Deployment, Row)
<1> DEFINE r == [project |-> request[d].project, commitSha |-> request[d].commitSha,
                 status |-> "PENDING", logs |-> <<>>, finishedAt |-> 0]
<1>1. d \in Deployment /\ request[d] \in Request
  BY TableValue DEF TypeOK
<1>2. <<>> \in Seq(Step)
  OBVIOUS
<1>3. r \in Row
  BY <1>1, <1>2 DEF Row, Request, Status
<1>4. NewRow(d) = Put(row, d, r)
  BY DEF NewRow
<1> HIDE DEF r
<1> QED
  BY <1>1, <1>3, <1>4, PutTable DEF TypeOK

\* A new job is typed.
LEMMA NewJobType ==
  ASSUME TypeOK, NEW d \in Deployment
  PROVE  Table(NewJob(d), Deployment, Job)
<1> DEFINE j == [state |-> "waiting", attemptsMade |-> 0, stalled |-> 0]
<1>1. j \in Job
  BY DEF Job
<1>2. NewJob(d) = Put(job, d, j)
  BY DEF NewJob
<1> HIDE DEF j
<1> QED
  BY <1>1, <1>2, PutTable DEF TypeOK

\* Pruning takes finished jobs away, never the one that has just ended, and
\* leaves the rest as they are.
LEMMA PrunedKeeps ==
  ASSUME NEW jobs, NEW d, NEW left \in Pruned(jobs, d)
  PROVE  /\ DOMAIN left \subseteq DOMAIN jobs
         /\ d \in DOMAIN jobs => d \in DOMAIN left
         /\ \A e \in DOMAIN left : left[e] = jobs[e]
         /\ \A e \in DOMAIN jobs \ DOMAIN left : jobs[e].state \in Finished
<1> DEFINE others == {e \in DOMAIN jobs \ {d} :
                        jobs[d].state \in Finished /\ jobs[e].state = jobs[d].state}
<1>1. PICK gone \in SUBSET others : left = Restrict(jobs, DOMAIN jobs \ gone)
  BY DEF Pruned, kSubset
<1> QED
  BY <1>1 DEF Restrict

\* What a slot does to the jobs when it settles its own.
LEMMA SettleKeeps ==
  ASSUME TypeOK, NEW w, NEW pc, NEW state, Settle(w, pc, state)
  PROVE  /\ DOMAIN job' \subseteq DOMAIN job
         /\ \A e \in DOMAIN job' : e # proc[w].id => job'[e] = job[e]
         /\ \A e \in DOMAIN job \ DOMAIN job' : e # proc[w].id /\ job[e].state \in Finished
         /\ proc[w].id \in DOMAIN job =>
              /\ proc[w].id \in DOMAIN job'
              /\ job'[proc[w].id].state = state
              /\ job'[proc[w].id].attemptsMade = job[proc[w].id].attemptsMade + 1
              /\ job'[proc[w].id].stalled = job[proc[w].id].stalled
<1>1. PICK d : d = proc[w].id
  OBVIOUS
<1>2. PICK jobs : jobs = [job EXCEPT ![d].state = state, ![d].attemptsMade = @ + 1]
  OBVIOUS
<1>3. job' \in Pruned(jobs, d)
  BY <1>1, <1>2 DEF Settle
<1>4. /\ DOMAIN jobs = DOMAIN job
      /\ \A e \in DOMAIN job : e # d => jobs[e] = job[e]
  BY <1>2
<1>5. d \in DOMAIN job =>
        /\ jobs[d].state = state
        /\ jobs[d].attemptsMade = job[d].attemptsMade + 1
        /\ jobs[d].stalled = job[d].stalled
  <2>1. d \in DOMAIN job => job[d] \in Job
    BY TableValue DEF TypeOK
  <2> QED
    BY <1>2, <2>1 DEF Job
<1>6. /\ DOMAIN job' \subseteq DOMAIN jobs
      /\ d \in DOMAIN jobs => d \in DOMAIN job'
      /\ \A e \in DOMAIN job' : job'[e] = jobs[e]
      /\ \A e \in DOMAIN jobs \ DOMAIN job' : jobs[e].state \in Finished
  BY <1>3, PrunedKeeps
<1> QED
  BY <1>1, <1>4, <1>5, <1>6

\* What the stalled-job check does to the jobs.
LEMMA StalledKeeps ==
  ASSUME TypeOK, NEW d, StalledCheck(d)
  PROVE  /\ DOMAIN job' \subseteq DOMAIN job
         /\ d \in DOMAIN job /\ d \in DOMAIN job'
         /\ \A e \in DOMAIN job' : e # d => job'[e] = job[e]
         /\ \A e \in DOMAIN job \ DOMAIN job' : e # d /\ job[e].state \in Finished
         /\ job'[d].state = IF job[d].stalled < MaxStalled THEN "waiting" ELSE "failed"
         /\ job'[d].attemptsMade = job[d].attemptsMade
         /\ job'[d].stalled = job[d].stalled + 1
<1>1. PICK jobs : jobs = [job EXCEPT ![d].stalled = @ + 1,
                                     ![d].state = IF job[d].stalled < MaxStalled
                                                  THEN "waiting" ELSE "failed"]
  OBVIOUS
<1>2. job' \in Pruned(jobs, d) /\ d \in DOMAIN job
  BY <1>1 DEF StalledCheck
<1>3. /\ DOMAIN jobs = DOMAIN job
      /\ \A e \in DOMAIN job : e # d => jobs[e] = job[e]
  BY <1>1
<1>4. /\ jobs[d].state = IF job[d].stalled < MaxStalled THEN "waiting" ELSE "failed"
      /\ jobs[d].attemptsMade = job[d].attemptsMade
      /\ jobs[d].stalled = job[d].stalled + 1
  <2>1. job[d] \in Job
    BY <1>2, TableValue DEF TypeOK
  <2> QED
    BY <1>1, <1>2, <2>1 DEF Job
<1>5. /\ DOMAIN job' \subseteq DOMAIN jobs
      /\ d \in DOMAIN jobs => d \in DOMAIN job'
      /\ \A e \in DOMAIN job' : job'[e] = jobs[e]
      /\ \A e \in DOMAIN jobs \ DOMAIN job' : jobs[e].state \in Finished
  BY <1>2, PrunedKeeps
<1> QED
  BY <1>2, <1>3, <1>4, <1>5

\* When a job has ended, or was handed back, the jobs that are left are typed.
LEMMA JobsLeftType ==
  ASSUME TypeOK, NEW jobs, Table(jobs, Deployment, Job), NEW d, job' \in Pruned(jobs, d)
  PROVE  Table(job', Deployment, Job)
<1>1. PICK S : job' = Restrict(jobs, S) /\ S \subseteq DOMAIN jobs
  BY DEF Pruned
<1> QED
  BY <1>1 DEF Table, Restrict

\* When a slot settles its job all tables stay typed.
LEMMA SettleType ==
  ASSUME TypeOK, NEW w, NEW pc, NEW state \in {"completed", "delayed", "failed"},
         Settle(w, pc, state), JobOfRequest'
  PROVE  TypeOK'
<1>1. Table(job', Deployment, Job)
  <2>1. PICK k : k = proc[w].id
    OBVIOUS
  <2>2. PICK j : j = [job[k] EXCEPT !.state = state, !.attemptsMade = @ + 1]
    OBVIOUS
  <2>3. PICK jobs : jobs = [job EXCEPT ![k].state = state, ![k].attemptsMade = @ + 1]
    OBVIOUS
  <2>4. Table(jobs, Deployment, Job)
    <3>1. CASE k \in DOMAIN job
      <4>1. job[k] \in Job
        BY <3>1, TableValue DEF TypeOK
      <4>2. j \in Job
        <5>1. job[k].attemptsMade + 1 \in Nat
          BY <4>1 DEF Job
        <5> QED
          BY <2>2, <4>1, <5>1 DEF Job, Finished
      <4>3. jobs = [job EXCEPT ![k] = j]
        BY <2>2, <2>3, <4>1 DEF Job
      <4> QED
        BY <3>1, <4>2, <4>3, ExceptTable DEF TypeOK
    <3>2. CASE k \notin DOMAIN job
      BY <2>3, <3>2 DEF TypeOK, Table
    <3> QED
      BY <3>1, <3>2
  <2>5. job' \in Pruned(jobs, k)
    BY <2>1, <2>3 DEF Settle
  <2> QED
    BY <2>4, <2>5, JobsLeftType
<1>2. Table(lock', Deployment, Worker) /\ Table(proc', Worker, Invocation)
  BY DropTable DEF Settle, TypeOK
<1> QED
  BY <1>1, <1>2 DEF Settle, TypeOK

\* A fault is counted, up to the bound.
LEMMA FaultType ==
  ASSUME TypeOK, NEW kind, Fault(kind)
  PROVE  faults' \in 0..MaxFaults
  BY PipelineAssumption DEF TypeOK, Fault

\* A request that only moves on stays typed.
LEMMA RequestType ==
  ASSUME TypeOK, NEW d \in DOMAIN request,
         NEW pc \in {"owned", "created", "201", "404", "500", "lost"}
  PROVE  Table([request EXCEPT ![d].pc = pc], Deployment, Request)
  BY DEF TypeOK, Table, Request

\* An error moves the invocation of one slot and leaves its deployment.
LEMMA RaiseKeeps ==
  ASSUME TypeOK, NEW w \in DOMAIN proc, Raise(w)
  PROVE  /\ DOMAIN proc' = DOMAIN proc
         /\ \A v \in DOMAIN proc : proc'[v].id = proc[v].id
<1>1. proc[w] \in Invocation
  BY TableValue DEF TypeOK
<1>2. DOMAIN proc' = DOMAIN proc
  BY DEF Raise
<1>3. ASSUME NEW v \in DOMAIN proc PROVE proc'[v].id = proc[v].id
  <2>1. CASE v = w
    BY <1>1, <2>1, OverType, OntoType DEF Raise, Step, Terminal
  <2>2. CASE v # w
    BY <2>2 DEF Raise
  <2> QED
    BY <2>1, <2>2
<1> QED
  BY <1>2, <1>3

\* So does every step of process().
LEMMA ProcessKeeps ==
  ASSUME TypeOK, NEW w \in Worker, Process(w)
  PROVE  /\ DOMAIN proc' = DOMAIN proc
         /\ \A v \in DOMAIN proc : proc'[v].id = proc[v].id
         /\ UNCHANGED <<projects, job, lock, request>>
<1>1. CASE LoadRow(w)
  BY <1>1, TableValue DEF LoadRow, TypeOK, Invocation
<1>2. CASE ReadLogs(w)
  BY <1>2, TableValue DEF ReadLogs, TypeOK, Invocation
<1>3. CASE WriteRow(w)
  <2>1. AfterWrite(proc[w]).id = proc[w].id
    BY <1>3, TableValue, AfterWriteType DEF WriteRow, TypeOK
  <2> QED
    BY <1>3, <2>1 DEF WriteRow
<1>4. CASE RowMissing(w)
  BY <1>4, RaiseKeeps DEF RowMissing, Querying
<1>5. CASE QueryError(w)
  BY <1>5, RaiseKeeps DEF QueryError, Querying
<1> QED
  BY <1>1, <1>2, <1>3, <1>4, <1>5 DEF Process

\* A job is only added by the enqueue of its request, under all faults.
LEMMA JobOfRequestKept ==
  ASSUME TypeOK, [Next]_vars
  PROVE  JobOfRequest'
<1>1. JobOfRequest
  BY DEF TypeOK
<1>2. ASSUME NEW d \in Deployment, NEW p \in Project, NEW sha \in CommitSha,
             AssertProjectOwned(d, p, sha)
      PROVE  JobOfRequest'
  BY <1>1, <1>2 DEF AssertProjectOwned, JobOfRequest, Put
<1>3. ASSUME NEW d \in Deployment, CreateRow(d) \/ CreateRowError(d) PROVE JobOfRequest'
  BY <1>1, <1>3 DEF CreateRow, CreateRowError, JobOfRequest
<1>4. ASSUME NEW d \in Deployment, Enqueue(d) \/ EnqueueError(d) PROVE JobOfRequest'
  <2>1. d \in DOMAIN request /\ request[d] \in Request
    BY <1>4, TableValue DEF Enqueue, EnqueueError, TypeOK
  <2>2. /\ DOMAIN request' = DOMAIN request
        /\ request'[d].pc \notin {"owned", "created"}
        /\ \A e \in DOMAIN request \ {d} : request'[e] = request[e]
    BY <1>4, <2>1 DEF Enqueue, EnqueueError, Request
  <2>3. DOMAIN job' \subseteq DOMAIN job \cup {d}
    BY <1>4 DEF Enqueue, EnqueueError, NewJob, Put
  <2> QED
    BY <1>1, <2>1, <2>2, <2>3 DEF JobOfRequest
<1>5. ASSUME DOMAIN job' \subseteq DOMAIN job, request' = request PROVE JobOfRequest'
  BY <1>1, <1>5 DEF JobOfRequest
<1>6. ASSUME NEW p \in Project, RemoveProject(p) PROVE JobOfRequest'
  BY <1>5, <1>6 DEF RemoveProject
<1>7. ASSUME NEW w \in Worker, Process(w) PROVE JobOfRequest'
  BY <1>5, <1>7, ProcessKeeps
<1>8. ASSUME NEW w \in Worker, NEW d \in Deployment, TakeJob(w, d) PROVE JobOfRequest'
  BY <1>5, <1>8 DEF TakeJob
<1>9. ASSUME NEW w \in Worker, NEW pc, NEW state, Settle(w, pc, state) PROVE JobOfRequest'
  BY <1>5, <1>9, SettleKeeps DEF Settle
<1>10. ASSUME NEW w \in Worker, OutcomeDiscarded(w) PROVE JobOfRequest'
  BY <1>5, <1>10 DEF OutcomeDiscarded
<1>11. ASSUME NEW d \in Deployment, BackoffOver(d) \/ LockExpires(d) PROVE JobOfRequest'
  BY <1>5, <1>11 DEF BackoffOver, LockExpires
<1>12. ASSUME NEW d \in Deployment, StalledCheck(d) PROVE JobOfRequest'
  <2>1. DOMAIN job' \subseteq DOMAIN job
    BY <1>12, StalledKeeps
  <2> QED
    BY <1>5, <1>12, <2>1 DEF StalledCheck
<1>13. CASE Crash
  <2>1. \A d \in DOMAIN request : request[d] \in Request
    BY TableValue DEF TypeOK
  <2> QED
    BY <1>1, <1>13, <2>1 DEF Crash, JobOfRequest, Request
<1>14. CASE UNCHANGED vars
  BY <1>5, <1>14 DEF vars
<1> QED
  BY <1>2, <1>3, <1>4, <1>6, <1>7, <1>8, <1>9, <1>10, <1>11, <1>12, <1>13, <1>14
  DEF Next, Trigger, Timers, Queue, JobCompleted, JobRetried, JobFailed

\* Every variable has its type in every reachable state, and no job is there
\* before its request is past the enqueue (TypeOK): no query, settlement,
\* pruning, fault or deletion leaves a malformed row, job, lock or invocation
\* behind.
THEOREM Typing == Spec => []TypeOK
<1>1. Init => TypeOK
  BY PipelineAssumption, EmptyTable DEF Init, Empty, TypeOK, JobOfRequest
<1>2. TypeOK /\ [Next]_vars => TypeOK'
  <2> SUFFICES ASSUME TypeOK, [Next]_vars PROVE TypeOK'
    OBVIOUS
  <2>0. JobOfRequest'
    BY JobOfRequestKept
  <2>1. ASSUME NEW d \in Deployment, NEW p \in Project, NEW sha \in CommitSha,
               AssertProjectOwned(d, p, sha)
        PROVE  TypeOK'
    <3> DEFINE r == [pc |-> IF p \in projects THEN "owned" ELSE "404",
                     project |-> p, commitSha |-> sha]
    <3>1. r \in Request
      BY DEF Request
    <3>2. request' = Put(request, d, r)
      BY <2>1 DEF AssertProjectOwned
    <3> HIDE DEF r
    <3> QED
      BY <2>0, <2>1, <3>1, <3>2, PutTable DEF AssertProjectOwned, TypeOK
  <2>2. ASSUME NEW d \in Deployment, CreateRow(d) PROVE TypeOK'
    BY <2>0, <2>2, NewRowType, RequestType DEF CreateRow, TypeOK
  <2>3. ASSUME NEW d \in Deployment, CreateRowError(d) PROVE TypeOK'
    BY <2>0, <2>3, NewRowType, RequestType, FaultType DEF CreateRowError, TypeOK
  <2>4. ASSUME NEW d \in Deployment, Enqueue(d) PROVE TypeOK'
    BY <2>0, <2>4, NewJobType, RequestType DEF Enqueue, TypeOK
  <2>5. ASSUME NEW d \in Deployment, EnqueueError(d) PROVE TypeOK'
    BY <2>0, <2>5, NewJobType, RequestType, FaultType DEF EnqueueError, TypeOK
  <2>6. ASSUME NEW p \in Project, RemoveProject(p) PROVE TypeOK'
    BY <2>0, <2>6, RestrictTable DEF RemoveProject, TypeOK
  <2>7. ASSUME NEW w \in Worker, LoadRow(w) PROVE TypeOK'
    <3> DEFINE i == [proc[w] EXCEPT !.pc = "read", !.commitSha = row[proc[w].id].commitSha]
    <3>0. w \in DOMAIN proc /\ Table(proc, Worker, Invocation)
      BY <2>7 DEF LoadRow, TypeOK
    <3>1. proc[w] \in Invocation /\ row[proc[w].id] \in Row
      BY <2>7, TableValue DEF LoadRow, Found, TypeOK
    <3>2. i \in Invocation /\ proc' = [proc EXCEPT ![w] = i]
      BY <2>7, <3>1 DEF LoadRow, Invocation, Row
    <3> HIDE DEF i
    <3>3. Table(proc', Worker, Invocation)
      BY <3>2, <3>0 DEF Table
    <3> QED
      BY <2>0, <2>7, <3>3 DEF LoadRow, TypeOK
  <2>8. ASSUME NEW w \in Worker, ReadLogs(w) PROVE TypeOK'
    <3> DEFINE i == [proc[w] EXCEPT !.pc = "write", !.logs = row[proc[w].id].logs]
    <3>0. w \in DOMAIN proc /\ Table(proc, Worker, Invocation)
      BY <2>8 DEF ReadLogs, TypeOK
    <3>1. proc[w] \in Invocation /\ row[proc[w].id] \in Row
      BY <2>8, TableValue DEF ReadLogs, Found, TypeOK
    <3>2. i \in Invocation /\ proc' = [proc EXCEPT ![w] = i]
      BY <2>8, <3>1 DEF ReadLogs, Invocation, Row
    <3> HIDE DEF i
    <3>3. Table(proc', Worker, Invocation)
      BY <3>2, <3>0 DEF Table
    <3> QED
      BY <2>0, <2>8, <3>3 DEF ReadLogs, TypeOK
  <2>9. ASSUME NEW w \in Worker, WriteRow(w) PROVE TypeOK'
    BY <2>0, <2>9, WrittenType, AfterWriteType, ExceptTable, TableValue DEF WriteRow, TypeOK
  <2>10. ASSUME NEW w \in Worker, RowMissing(w) PROVE TypeOK'
    BY <2>0, <2>10, RaiseType DEF RowMissing, Querying, TypeOK
  <2>11. ASSUME NEW w \in Worker, QueryError(w) PROVE TypeOK'
    BY <2>0, <2>11, RaiseType, WrittenType, FaultType DEF QueryError, Querying, TypeOK
  <2>12. ASSUME NEW w \in Worker, NEW d \in Deployment, TakeJob(w, d) PROVE TypeOK'
    <3> DEFINE i == [id |-> d, pc |-> "load", target |-> "BUILDING",
                     commitSha |-> "unread", logs |-> <<>>]
    <3>1. <<>> \in Seq(Step)
      OBVIOUS
    <3>2. i \in Invocation
      BY <3>1 DEF Invocation, Step
    <3>3. proc' = Put(proc, w, i) /\ lock' = Put(lock, d, w)
      BY <2>12 DEF TakeJob
    <3> HIDE DEF i
    <3>4. Table(proc', Worker, Invocation) /\ Table(lock', Deployment, Worker)
      BY <3>2, <3>3, PutTable DEF TypeOK
    <3>5. Table(job', Deployment, Job)
      BY <2>12 DEF TakeJob, TypeOK, Table, Job
    <3> QED
      BY <2>0, <2>12, <3>4, <3>5 DEF TakeJob, TypeOK
  <2>13. ASSUME NEW w \in Worker, JobCompleted(w) \/ JobRetried(w) \/ JobFailed(w)
         PROVE  TypeOK'
    BY <2>0, <2>13, SettleType DEF JobCompleted, JobRetried, JobFailed
  <2>14. ASSUME NEW w \in Worker, OutcomeDiscarded(w) PROVE TypeOK'
    BY <2>0, <2>14, DropTable DEF OutcomeDiscarded, TypeOK
  <2>15. ASSUME NEW d \in Deployment, BackoffOver(d) PROVE TypeOK'
    <3>1. Table(job', Deployment, Job)
      BY <2>15 DEF BackoffOver, TypeOK, Table, Job
    <3> QED
      BY <2>0, <2>15, <3>1 DEF BackoffOver, TypeOK
  <2>16. ASSUME NEW d \in Deployment, StalledCheck(d) PROVE TypeOK'
    <3>1. PICK j : j = [job[d] EXCEPT !.stalled = @ + 1,
                                      !.state = IF job[d].stalled < MaxStalled
                                                THEN "waiting" ELSE "failed"]
      OBVIOUS
    <3>2. d \in DOMAIN job /\ job[d] \in Job
      BY <2>16, TableValue DEF StalledCheck, TypeOK
    <3>3. j \in Job /\ job' \in Pruned([job EXCEPT ![d] = j], d)
      <4>1. job[d].stalled + 1 \in Nat
        BY <3>2 DEF Job
      <4>2. j \in Job
        BY <3>1, <3>2, <4>1 DEF Job, Finished
      <4>3. [job EXCEPT ![d] = j] =
              [job EXCEPT ![d].stalled = @ + 1,
                          ![d].state = IF job[d].stalled < MaxStalled
                                       THEN "waiting" ELSE "failed"]
        BY <3>1, <3>2 DEF Job
      <4> QED
        BY <2>16, <4>2, <4>3 DEF StalledCheck
    <3>4. Table([job EXCEPT ![d] = j], Deployment, Job)
      BY <3>2, <3>3, ExceptTable DEF TypeOK
    <3>5. Table(job', Deployment, Job)
      BY <3>3, <3>4, JobsLeftType
    <3> QED
      BY <2>0, <2>16, <3>5 DEF StalledCheck, TypeOK
  <2>17. ASSUME NEW d \in Deployment, LockExpires(d) PROVE TypeOK'
    BY <2>0, <2>17, DropTable, FaultType DEF LockExpires, TypeOK
  <2>18. CASE Crash
    <3>1. Table(request', Deployment, Request)
      BY <2>18 DEF Crash, TypeOK, Table, Request
    <3> QED
      BY <2>0, <2>18, <3>1, EmptyTable, FaultType DEF Crash, TypeOK
  <2>19. CASE UNCHANGED vars
    BY <2>0, <2>19 DEF vars, TypeOK
  <2> QED
    BY <2>1, <2>2, <2>3, <2>4, <2>5, <2>6, <2>7, <2>8, <2>9, <2>10, <2>11, <2>12,
       <2>13, <2>14, <2>15, <2>16, <2>17, <2>18, <2>19
    DEF Next, Trigger, Timers, Process, Queue
<1> QED
  BY <1>1, <1>2, PTL DEF Spec

-----------------------------------------------------------------------------
(* 2. One invocation per row.  The locks alone do not exclude a second      *)
(* invocation: a job must not be handed out, nor added again, while one is   *)
(* running.  So the invariant relates invocations to locks, locks to active  *)
(* jobs, and jobs to the trigger requests that are past the enqueue.         *)

\* A lock is held on an active job.
LockOfActiveJob ==
  \A d \in DOMAIN lock : d \in DOMAIN job /\ job[d].state = "active"

JobInv == TypeOK /\ JobOfRequest /\ LockOfActiveJob

\* Every running invocation holds the lock of its job.
LocksHeld == \A w \in DOMAIN proc : HoldsLock(w)

LockInv == TypeOK /\ JobOfRequest /\ LockOfActiveJob /\ LocksHeld

\* What is said of jobs and locks is inductive under all faults.
LEMMA JobInvInductive ==
  ASSUME JobInv, TypeOK', [Next]_vars
  PROVE  JobInv'
<1> USE DEF JobInv
<1> SUFFICES LockOfActiveJob'
  BY DEF TypeOK
<1>1. CASE UNCHANGED <<job, lock>>
  BY <1>1 DEF LockOfActiveJob
<1>2. ASSUME NEW d \in Deployment, Enqueue(d) \/ EnqueueError(d) PROVE LockOfActiveJob'
  <2>1. d \notin DOMAIN job
    BY <1>2 DEF Enqueue, EnqueueError, JobOfRequest
  <2>2. /\ DOMAIN job \subseteq DOMAIN job'
        /\ \A e \in DOMAIN job : job'[e] = job[e]
        /\ lock' = lock
    BY <1>2, <2>1 DEF Enqueue, EnqueueError, NewJob, Put
  <2> QED
    BY <2>2 DEF LockOfActiveJob
<1>3. ASSUME NEW w \in Worker, Process(w) PROVE LockOfActiveJob'
  BY <1>3, ProcessKeeps DEF LockOfActiveJob
<1>4. ASSUME NEW w \in Worker, NEW d \in Deployment, TakeJob(w, d) PROVE LockOfActiveJob'
  <2>1. d \in DOMAIN job
    BY <1>4 DEF TakeJob
  <2>2. /\ DOMAIN job' = DOMAIN job
        /\ job'[d].state = "active"
        /\ \A e \in DOMAIN job \ {d} : job'[e] = job[e]
    <3>1. job[d] \in Job
      BY <2>1, TableValue DEF TypeOK
    <3> QED
      BY <1>4, <2>1, <3>1 DEF TakeJob, Job
  <2>3. DOMAIN lock' = DOMAIN lock \cup {d}
    BY <1>4 DEF TakeJob, Put
  <2> QED
    BY <2>1, <2>2, <2>3 DEF LockOfActiveJob
<1>5. ASSUME NEW w \in Worker, NEW pc, NEW state, Settle(w, pc, state)
      PROVE  LockOfActiveJob'
  <2>1. PICK d : d = proc[w].id
    OBVIOUS
  <2>2. /\ \A e \in DOMAIN job' : e # d => job'[e] = job[e]
        /\ \A e \in DOMAIN job \ DOMAIN job' : job[e].state \in Finished
    BY <1>5, <2>1, SettleKeeps
  <2>3. DOMAIN lock' = DOMAIN lock \ {d}
    BY <1>5, <2>1 DEF Settle, Drop, Restrict
  <2> QED
    BY <2>2, <2>3 DEF LockOfActiveJob, Finished
<1>6. ASSUME NEW d \in Deployment, BackoffOver(d) \/ StalledCheck(d) PROVE LockOfActiveJob'
  <2>1. d \notin DOMAIN lock /\ lock' = lock
    BY <1>6 DEF BackoffOver, StalledCheck, LockOfActiveJob
  <2>2. /\ \A e \in DOMAIN job' : e # d => job'[e] = job[e]
        /\ \A e \in DOMAIN job \ DOMAIN job' : job[e].state \in Finished
    BY <1>6, StalledKeeps DEF BackoffOver
  <2> QED
    BY <2>1, <2>2 DEF LockOfActiveJob, Finished
<1>7. ASSUME NEW d \in Deployment, LockExpires(d) PROVE LockOfActiveJob'
  BY <1>7 DEF LockExpires, Drop, Restrict, LockOfActiveJob
<1>8. CASE Crash
  BY <1>8 DEF Crash, Empty, LockOfActiveJob
<1> QED
  BY <1>1, <1>2, <1>3, <1>4, <1>5, <1>6, <1>7, <1>8
  DEF Next, Trigger, Timers, Queue, JobCompleted, JobRetried, JobFailed, vars,
      AssertProjectOwned, CreateRow, CreateRowError, RemoveProject, OutcomeDiscarded

\* That running invocations hold their locks is inductive as long as no lock
\* expires.
LEMMA LockInvInductive ==
  ASSUME "stall" \notin FaultKinds, LockInv, TypeOK', [Next]_vars
  PROVE  LockInv'
<1>1. JobInv'
  BY JobInvInductive DEF LockInv, JobInv
<1> SUFFICES LocksHeld'
  BY <1>1 DEF LockInv, JobInv
<1> USE DEF LockInv
<1>2. CASE UNCHANGED <<lock, proc>>
  BY <1>2 DEF LocksHeld, HoldsLock
<1>3. ASSUME NEW w \in Worker, Process(w) PROVE LocksHeld'
  BY <1>3, ProcessKeeps DEF LocksHeld, HoldsLock
<1>4. ASSUME NEW w \in Worker, NEW d \in Deployment, TakeJob(w, d) PROVE LocksHeld'
  <2>1. d \in DOMAIN job /\ w \notin DOMAIN proc /\ d \notin DOMAIN lock
    BY <1>4 DEF TakeJob, LockOfActiveJob
  <2>2. /\ DOMAIN lock' = DOMAIN lock \cup {d}
        /\ lock'[d] = w
        /\ \A e \in DOMAIN lock : lock'[e] = lock[e]
    BY <1>4, <2>1 DEF TakeJob, Put
  <2>3. /\ DOMAIN proc' = DOMAIN proc \cup {w}
        /\ proc'[w].id = d
        /\ \A v \in DOMAIN proc : proc'[v] = proc[v]
    BY <1>4, <2>1 DEF TakeJob, Put
  <2> QED
    BY <2>1, <2>2, <2>3 DEF LocksHeld, HoldsLock
<1>5. ASSUME NEW w \in Worker, NEW pc, NEW state, Settle(w, pc, state) PROVE LocksHeld'
  <2> DEFINE d == proc[w].id
  <2>1. w \in DOMAIN proc /\ d \in DOMAIN lock /\ lock[d] = w
    BY <1>5 DEF Settle, HoldsLock
  <2>2. /\ DOMAIN lock' = DOMAIN lock \ {d}
        /\ \A e \in DOMAIN lock' : lock'[e] = lock[e]
    BY <1>5 DEF Settle, Drop, Restrict
  <2>3. /\ DOMAIN proc' = DOMAIN proc \ {w}
        /\ \A v \in DOMAIN proc' : proc'[v] = proc[v]
    BY <1>5 DEF Settle, Drop, Restrict
  <2> QED
    BY <2>1, <2>2, <2>3 DEF LocksHeld, HoldsLock
<1>6. ASSUME NEW w \in Worker, OutcomeDiscarded(w) PROVE LocksHeld'
  BY <1>6 DEF OutcomeDiscarded, LocksHeld
<1>7. ASSUME NEW d \in Deployment PROVE ~LockExpires(d)
  BY DEF LockExpires, Fault
<1>8. CASE Crash
  BY <1>8 DEF Crash, Empty, LocksHeld
<1> QED
  BY <1>2, <1>3, <1>4, <1>5, <1>6, <1>7, <1>8
  DEF Next, Trigger, Timers, Queue, JobCompleted, JobRetried, JobFailed, vars,
      AssertProjectOwned, CreateRow, CreateRowError, Enqueue, EnqueueError,
      RemoveProject, BackoffOver, StalledCheck

\* No deployment is ever worked on by two invocations (SingleWorkerPerRow), with
\* any number of slots, crashes and failing queries, provided that no lock
\* expires under a running invocation: each invocation holds the one lock of
\* its deployment.
THEOREM SingleWorker ==
  ASSUME "stall" \notin FaultKinds
  PROVE  Spec => []SingleWorkerPerRow
<1>1. Init => LockInv
  BY PipelineAssumption, EmptyTable
  DEF Init, Empty, LockInv, TypeOK, JobOfRequest, LockOfActiveJob, LocksHeld
<1>2. LockInv /\ TypeOK' /\ [Next]_vars => LockInv'
  BY LockInvInductive
<1>3. LockInv => SingleWorkerPerRow
  BY DEF LockInv, LocksHeld, HoldsLock, SingleWorkerPerRow
<1> QED
  BY <1>1, <1>2, <1>3, Typing, PTL DEF Spec

-----------------------------------------------------------------------------
(* 3. The sentinel.  Invocations may overlap and write late, so each copy of *)
(* a commitSha and of a log that one holds is tied to the request.           *)

NoSuccess(logs) == \A i \in DOMAIN logs : logs[i] # "SUCCESS"

\* A row, a job and an invocation are those of a request past its insert.
Requested(d) == d \in DOMAIN request /\ request[d].pc # "owned"

RowsRequested ==
  \A d \in DOMAIN row :
    /\ Requested(d)
    /\ row[d].commitSha = request[d].commitSha
    /\ row[d].commitSha = "FAIL" => NoSuccess(row[d].logs)

JobsRequested == \A d \in DOMAIN job : Requested(d)

\* What one invocation must satisfy, over the requests.
SentinelOf(i) ==
  /\ Requested(i.id)
  /\ i.pc = "load" => i.target = "BUILDING"
  /\ i.pc \in {"load", "throw"} \/ i.commitSha = request[i.id].commitSha
  /\ request[i.id].commitSha = "FAIL" => i.target # "SUCCESS" /\ NoSuccess(i.logs)

InvocationsRequested == \A w \in DOMAIN proc : SentinelOf(proc[w])

SentinelInv == TypeOK /\ RowsRequested /\ JobsRequested /\ InvocationsRequested

\* Neither an error nor a write makes an invocation forget the sentinel.
LEMMA OntoSentinel ==
  ASSUME NEW i \in Invocation, SentinelOf(i), i.pc # "load", i.pc # "throw",
         NEW t \in Step, request[i.id].commitSha = "FAIL" => t # "SUCCESS"
  PROVE  SentinelOf(Onto(i, t))
  BY DEF Onto, SentinelOf, Invocation, NoSuccess

LEMMA OverSentinel ==
  ASSUME NEW i \in Invocation, SentinelOf(i), NEW pc \in {"return", "throw"},
         pc = "return" => i.pc = "write"
  PROVE  SentinelOf(Over(i, pc))
  BY DEF Over, SentinelOf, Invocation, NoSuccess

LEMMA AfterWriteSentinel ==
  ASSUME NEW i \in Invocation, SentinelOf(i), i.pc = "write"
  PROVE  SentinelOf(AfterWrite(i))
<1>1. CASE i.target = "BUILDING"
  BY <1>1, OntoSentinel DEF AfterWrite, Step
<1>2. CASE i.target = "DEPLOYING"
  BY <1>2, OntoSentinel DEF AfterWrite, AfterDeploying, Step, Terminal, SentinelOf
<1>3. CASE i.target = "SUCCESS"
  BY <1>3, OverSentinel DEF AfterWrite
<1>4. CASE i.target = "FAILED"
  BY <1>4, OverSentinel DEF AfterWrite
<1> QED
  BY <1>1, <1>2, <1>3, <1>4 DEF Invocation, Step, Terminal

\* A step of process() that changes one invocation i to one that satisfies its
\* part, and no request, keeps the part of all invocations.
LEMMA OneInvocation ==
  ASSUME InvocationsRequested, NEW w \in DOMAIN proc, NEW j,
         proc' = [proc EXCEPT ![w] = j], UNCHANGED request, SentinelOf(j)
  PROVE  InvocationsRequested'
  BY DEF InvocationsRequested, SentinelOf, Requested

LEMMA RaiseSentinel ==
  ASSUME SentinelInv, NEW w \in DOMAIN proc, Querying(w), Raise(w), UNCHANGED request
  PROVE  InvocationsRequested'
<1> DEFINE i == proc[w]
           j == IF i.pc = "load" \/ i.target = "FAILED"
                THEN Over(i, "throw") ELSE Onto(i, "FAILED")
<1>1. i \in Invocation /\ SentinelOf(i)
  BY TableValue DEF SentinelInv, TypeOK, InvocationsRequested, SentinelOf
<1>2. SentinelOf(j)
  BY <1>1, OverSentinel, OntoSentinel DEF Querying, Step, Terminal
<1>3. proc' = [proc EXCEPT ![w] = j]
  BY DEF Raise
<1> HIDE DEF i, j
<1> QED
  BY <1>2, <1>3, OneInvocation DEF SentinelInv

\* A write keeps the rows' part: the line it adds is SUCCESS only where the
\* commit is not the sentinel, also when it overwrites lines written since.
LEMMA WrittenSentinel ==
  ASSUME SentinelInv, NEW w \in DOMAIN proc, Found(w), row' = Written(w),
         proc[w].pc = "write", UNCHANGED request
  PROVE  RowsRequested'
<1> DEFINE i == proc[w]
<1>1. /\ i \in Invocation /\ SentinelOf(i)
      /\ i.id \in DOMAIN row /\ row[i.id] \in Row
  BY TableValue DEF SentinelInv, TypeOK, InvocationsRequested, SentinelOf, Found
<1>2. row[i.id].commitSha = "FAIL" => NoSuccess(Append(i.logs, i.target))
  <2> SUFFICES ASSUME row[i.id].commitSha = "FAIL" PROVE NoSuccess(Append(i.logs, i.target))
    OBVIOUS
  <2>1. request[i.id].commitSha = "FAIL"
    BY <1>1 DEF SentinelInv, RowsRequested
  <2>2. i.target # "SUCCESS" /\ NoSuccess(i.logs)
    BY <2>1, <1>1 DEF SentinelOf
  <2>3. i.logs \in Seq(Step)
    BY <1>1 DEF Invocation
  <2> HIDE DEF i
  <2> QED
    BY <2>2, <2>3 DEF NoSuccess
<1>3. /\ DOMAIN row' = DOMAIN row
      /\ \A d \in DOMAIN row \ {i.id} : row'[d] = row[d]
      /\ row'[i.id].commitSha = row[i.id].commitSha
      /\ row'[i.id].logs = Append(i.logs, i.target)
  BY <1>1 DEF Written, Row
<1> HIDE DEF i
<1> QED
  BY <1>1, <1>2, <1>3 DEF SentinelInv, RowsRequested, Requested

\* The sentinel invariant is inductive, with every kind of fault.
LEMMA SentinelInvInductive ==
  ASSUME SentinelInv, TypeOK', [Next]_vars
  PROVE  SentinelInv'
<1> USE DEF SentinelInv
<1>1. ASSUME NEW d \in Deployment, NEW p \in Project, NEW sha \in CommitSha,
             AssertProjectOwned(d, p, sha)
      PROVE  SentinelInv'
  <2>1. /\ d \notin DOMAIN request
        /\ DOMAIN request' = DOMAIN request \cup {d}
        /\ \A e \in DOMAIN request : request'[e] = request[e]
    BY <1>1 DEF AssertProjectOwned, Put
  <2>2. UNCHANGED <<row, job, proc>>
    BY <1>1 DEF AssertProjectOwned
  <2> QED
    BY <2>1, <2>2 DEF RowsRequested, JobsRequested, InvocationsRequested, SentinelOf, Requested
<1>2. ASSUME NEW d \in Deployment, CreateRow(d) \/ CreateRowError(d) PROVE SentinelInv'
  <2>1. d \in DOMAIN request /\ request[d].pc = "owned" /\ request[d] \in Request
    BY <1>2, TableValue DEF CreateRow, CreateRowError, TypeOK
  <2>2. /\ DOMAIN request' = DOMAIN request
        /\ request'[d].pc # "owned"
        /\ request'[d].commitSha = request[d].commitSha
        /\ \A e \in DOMAIN request \ {d} : request'[e] = request[e]
    BY <1>2, <2>1 DEF CreateRow, CreateRowError, Request
  <2>3. UNCHANGED <<job, proc>>
    BY <1>2 DEF CreateRow, CreateRowError
  <2>4. \/ row' = row
        \/ row' = NewRow(d)
    BY <1>2 DEF CreateRow, CreateRowError
  <2>5. RowsRequested'
    BY <2>1, <2>2, <2>4 DEF RowsRequested, Requested, NewRow, Put, NoSuccess
  <2>6. JobsRequested' /\ InvocationsRequested'
    BY <2>2, <2>3 DEF JobsRequested, InvocationsRequested, SentinelOf, Requested
  <2> QED
    BY <2>5, <2>6
<1>3. ASSUME NEW d \in Deployment, Enqueue(d) \/ EnqueueError(d) PROVE SentinelInv'
  <2>1. d \in DOMAIN request /\ request[d].pc = "created" /\ request[d] \in Request
    BY <1>3, TableValue DEF Enqueue, EnqueueError, TypeOK
  <2>2. /\ DOMAIN request' = DOMAIN request
        /\ request'[d].pc # "owned"
        /\ request'[d].commitSha = request[d].commitSha
        /\ \A e \in DOMAIN request \ {d} : request'[e] = request[e]
    BY <1>3, <2>1 DEF Enqueue, EnqueueError, Request
  <2>3. DOMAIN job' \subseteq DOMAIN job \cup {d}
    BY <1>3 DEF Enqueue, EnqueueError, NewJob, Put
  <2>4. UNCHANGED <<row, proc>>
    BY <1>3 DEF Enqueue, EnqueueError
  <2> QED
    BY <2>1, <2>2, <2>3, <2>4 DEF RowsRequested, JobsRequested, InvocationsRequested, SentinelOf, Requested
<1>4. ASSUME NEW p \in Project, RemoveProject(p) PROVE SentinelInv'
  BY <1>4
  DEF RemoveProject, Restrict, RowsRequested, JobsRequested, InvocationsRequested, SentinelOf, Requested
<1>5. ASSUME NEW w \in Worker, Process(w) PROVE SentinelInv'
  <2>1. UNCHANGED <<job, request>>
    BY <1>5, ProcessKeeps
  <2>2. JobsRequested'
    BY <2>1 DEF JobsRequested, Requested
  <2>3. ASSUME w \in DOMAIN proc
        PROVE  proc[w] \in Invocation /\ SentinelOf(proc[w])
    BY <2>3, TableValue DEF TypeOK, InvocationsRequested, SentinelOf
  <2>4. CASE LoadRow(w)
    <3> DEFINE j == [proc[w] EXCEPT !.pc = "read", !.commitSha = row[proc[w].id].commitSha]
    <3>1. w \in DOMAIN proc /\ proc' = [proc EXCEPT ![w] = j]
      BY <2>4, <2>3 DEF LoadRow, Invocation
    <3>2. row[proc[w].id].commitSha = request[proc[w].id].commitSha
      BY <2>4 DEF LoadRow, Found, RowsRequested
    <3>3. SentinelOf(j)
      BY <2>3, <2>4, <3>1, <3>2 DEF SentinelOf, Invocation, LoadRow
    <3> HIDE DEF j
    <3> QED
      BY <2>1, <2>2, <2>4, <3>1, <3>3, OneInvocation DEF LoadRow, RowsRequested, Requested
  <2>5. CASE ReadLogs(w)
    <3> DEFINE j == [proc[w] EXCEPT !.pc = "write", !.logs = row[proc[w].id].logs]
    <3>1. w \in DOMAIN proc /\ proc' = [proc EXCEPT ![w] = j]
      BY <2>5, <2>3 DEF ReadLogs, Invocation
    <3>2. request[proc[w].id].commitSha = "FAIL" => NoSuccess(row[proc[w].id].logs)
      BY <2>5 DEF ReadLogs, Found, RowsRequested
    <3>3. SentinelOf(j)
      BY <2>3, <2>5, <3>1, <3>2 DEF SentinelOf, Invocation, ReadLogs
    <3> HIDE DEF j
    <3> QED
      BY <2>1, <2>2, <2>5, <3>1, <3>3, OneInvocation DEF ReadLogs, RowsRequested, Requested
  <2>6. CASE WriteRow(w)
    <3>1. /\ w \in DOMAIN proc /\ proc[w].pc = "write" /\ Found(w)
          /\ row' = Written(w)
          /\ proc' = [proc EXCEPT ![w] = AfterWrite(proc[w])]
      BY <2>6 DEF WriteRow
    <3>2. SentinelOf(AfterWrite(proc[w]))
      BY <2>3, <3>1, AfterWriteSentinel
    <3> QED
      BY <2>1, <2>2, <3>1, <3>2, OneInvocation, WrittenSentinel
  <2>7. CASE RowMissing(w)
    BY <2>1, <2>2, <2>7, RaiseSentinel DEF RowMissing, Querying, RowsRequested, Requested
  <2>8. CASE QueryError(w)
    <3>1. RowsRequested'
      BY <2>1, <2>8, WrittenSentinel DEF QueryError, Querying, RowsRequested, Requested
    <3> QED
      BY <2>1, <2>2, <2>8, <3>1, RaiseSentinel DEF QueryError, Querying
  <2> QED
    BY <1>5, <2>4, <2>5, <2>6, <2>7, <2>8 DEF Process
<1>6. ASSUME NEW w \in Worker, NEW d \in Deployment, TakeJob(w, d) PROVE SentinelInv'
  <2>1. UNCHANGED <<row, request>> /\ DOMAIN job' = DOMAIN job /\ Requested(d)
    BY <1>6 DEF TakeJob, JobsRequested
  <2>2. /\ DOMAIN proc' = DOMAIN proc \cup {w}
        /\ proc'[w] = [id |-> d, pc |-> "load", target |-> "BUILDING",
                       commitSha |-> "unread", logs |-> <<>>]
        /\ \A v \in DOMAIN proc \ {w} : proc'[v] = proc[v]
    BY <1>6 DEF TakeJob, Put
  <2>3. InvocationsRequested'
    BY <2>1, <2>2 DEF InvocationsRequested, SentinelOf, Requested, NoSuccess
  <2> QED
    BY <2>1, <2>3 DEF RowsRequested, JobsRequested, Requested
<1>7. ASSUME NEW w \in Worker, NEW pc, NEW state, Settle(w, pc, state) PROVE SentinelInv'
  BY <1>7, SettleKeeps
  DEF Settle, Drop, Restrict, RowsRequested, JobsRequested, InvocationsRequested, SentinelOf, Requested
<1>8. ASSUME NEW w \in Worker, OutcomeDiscarded(w) PROVE SentinelInv'
  BY <1>8
  DEF OutcomeDiscarded, Drop, Restrict, RowsRequested, JobsRequested,
      InvocationsRequested, SentinelOf, Requested
<1>9. ASSUME NEW d \in Deployment, BackoffOver(d) \/ StalledCheck(d) \/ LockExpires(d)
      PROVE  SentinelInv'
  <2>1. DOMAIN job' \subseteq DOMAIN job
    BY <1>9, StalledKeeps DEF BackoffOver, LockExpires
  <2>2. UNCHANGED <<row, request, proc>>
    BY <1>9 DEF BackoffOver, StalledCheck, LockExpires
  <2> QED
    BY <2>1, <2>2
    DEF RowsRequested, JobsRequested, InvocationsRequested, SentinelOf, Requested
<1>10. CASE Crash
  <2>1. /\ DOMAIN request' = DOMAIN request
        /\ \A d \in DOMAIN request :
             /\ request'[d].commitSha = request[d].commitSha
             /\ request[d].pc # "owned" => request'[d].pc # "owned"
    <3>1. \A d \in DOMAIN request : request[d] \in Request
      BY TableValue DEF TypeOK
    <3> QED
      BY <1>10, <3>1 DEF Crash, Request
  <2>2. DOMAIN proc' = {} /\ UNCHANGED <<row, job>>
    BY <1>10 DEF Crash, Empty
  <2> QED
    BY <2>1, <2>2 DEF RowsRequested, JobsRequested, InvocationsRequested, SentinelOf, Requested
<1>11. CASE UNCHANGED vars
  BY <1>11 DEF vars, RowsRequested, JobsRequested, InvocationsRequested, SentinelOf, Requested
<1> QED
  BY <1>1, <1>2, <1>3, <1>4, <1>5, <1>6, <1>7, <1>8, <1>9, <1>10, <1>11
  DEF Next, Trigger, Timers, Queue, JobCompleted, JobRetried, JobFailed

\* The log of a deployment whose commit is the FAIL sentinel never gets a
\* SUCCESS line (FailNeverSucceeds): not by a retry, an overlapping invocation,
\* a late write of an old log or a write that was applied though it failed.
THEOREM SentinelFails == Spec => []FailNeverSucceeds
<1>1. Init => SentinelInv
  BY PipelineAssumption, EmptyTable
  DEF Init, Empty, SentinelInv, TypeOK, JobOfRequest, RowsRequested, JobsRequested, InvocationsRequested
<1>2. SentinelInv /\ TypeOK' /\ [Next]_vars => SentinelInv'
  BY SentinelInvInductive
<1>3. SentinelInv => FailNeverSucceeds
  BY DEF SentinelInv, RowsRequested, NoSuccess, FailNeverSucceeds
<1> QED
  BY <1>1, <1>2, <1>3, Typing, PTL DEF Spec

-----------------------------------------------------------------------------
(* 4. Rows and projects.                                                    *)

\* The steps that may change a row or a project.
LEMMA RowSteps ==
  ASSUME [Next]_vars
  PROVE  \/ \E d \in Deployment : CreateRow(d) \/ CreateRowError(d)
         \/ \E p \in Project : RemoveProject(p)
         \/ \E w \in Worker : Process(w)
         \/ UNCHANGED <<projects, row>>
<1>1. ASSUME NEW d \in Deployment, Trigger(d) \/ Timers(d)
      PROVE  CreateRow(d) \/ CreateRowError(d) \/ UNCHANGED <<projects, row>>
  BY <1>1
  DEF Trigger, AssertProjectOwned, Enqueue, EnqueueError, Timers, BackoffOver,
      StalledCheck, LockExpires
<1>2. ASSUME NEW w \in Worker, Queue(w) PROVE UNCHANGED <<projects, row>>
  BY <1>2 DEF Queue, TakeJob, JobCompleted, JobRetried, JobFailed, Settle, OutcomeDiscarded
<1> QED
  BY <1>1, <1>2 DEF Next, vars, Crash


\* A deployment always belongs to a project that exists (RowHasProject), under
\* any faults: the insert is refused when the project is gone, whatever the
\* ownership check saw, and a deletion takes the rows with the project.
THEOREM RowsOfProjects == Spec => []RowHasProject
<1>1. Init => RowHasProject
  BY DEF Init, Empty, RowHasProject
<1>2. RowHasProject /\ TypeOK /\ [Next]_vars => RowHasProject'
  <2> SUFFICES ASSUME RowHasProject, TypeOK, [Next]_vars PROVE RowHasProject'
    OBVIOUS
  <2> USE DEF RowHasProject
  <2>1. ASSUME NEW d \in Deployment, CreateRow(d) \/ CreateRowError(d)
        PROVE  RowHasProject'
    BY <2>1 DEF CreateRow, CreateRowError, NewRow, Put
  <2>2. ASSUME NEW p \in Project, RemoveProject(p) PROVE RowHasProject'
    BY <2>2 DEF RemoveProject, Restrict
  <2>3. ASSUME NEW w \in DOMAIN proc, Found(w), row' = Written(w), projects' = projects
        PROVE  RowHasProject'
    <3>1. \A d \in DOMAIN row : row[d] \in Row
      BY TableValue DEF TypeOK
    <3> QED
      BY <2>3, <3>1 DEF Written, Found, Row
  <2>4. ASSUME NEW w \in Worker, Process(w) PROVE RowHasProject'
    BY <2>3, <2>4
    DEF Process, LoadRow, ReadLogs, WriteRow, RowMissing, QueryError, Querying
  <2>5. CASE UNCHANGED <<projects, row>>
    BY <2>5
  <2> QED
    BY <2>1, <2>2, <2>4, <2>5, RowSteps
<1> QED
  BY <1>1, <1>2, Typing, PTL DEF Spec

\* No step brings a deleted deployment back (DeletedStaysDeleted), although
\* retries and redeliveries go on with its id: only a trigger at its insert
\* adds a row.
THEOREM DeletedForGood == Spec => DeletedStaysDeleted
<1> DEFINE Gone == \A d \in DOMAIN request :
             request[d].pc # "owned" /\ d \notin DOMAIN row => d \notin DOMAIN row'
<1>1. [Next]_vars => [Gone]_vars
  <2> SUFFICES ASSUME Next PROVE Gone
    OBVIOUS
  <2>1. ASSUME NEW d \in Deployment, CreateRow(d) \/ CreateRowError(d) PROVE Gone
    BY <2>1 DEF CreateRow, CreateRowError, NewRow, Put
  <2>2. ASSUME NEW p \in Project, RemoveProject(p) PROVE Gone
    BY <2>2 DEF RemoveProject, Restrict
  <2>3. ASSUME NEW w \in Worker, Process(w) PROVE Gone
    BY <2>3
    DEF Process, LoadRow, ReadLogs, WriteRow, RowMissing, QueryError, Written
  <2>4. CASE UNCHANGED row
    BY <2>4
  <2> QED
    BY <2>1, <2>2, <2>3, <2>4, RowSteps
<1> QED
  BY <1>1, PTL DEF Spec, DeletedStaysDeleted

-----------------------------------------------------------------------------
(* 5. What an invocation of process() leaves in its row while locks are kept: *)
(* this rests on the one-invocation-per-row invariant.                      *)

\* The last line of a log is the given one.
EndsIn(logs, line) == logs # <<>> /\ logs[Len(logs)] = line

\* A row is only there once its request is past the insert.
RowOfRequest ==
  \A d \in DOMAIN row : d \in DOMAIN request /\ request[d].pc # "owned"

\* Between its two queries an invocation holds the log its row still has.
LogsCurrent(w) ==
  proc[w].pc = "write" => proc[w].logs = row[proc[w].id].logs

\* An invocation aims at the step that follows the last line of its row.
Aimed(w) ==
  /\ proc[w].pc = "load" => proc[w].target = "BUILDING"
  /\ proc[w].pc \in {"read", "write"} =>
       LET logs == row[proc[w].id].logs IN
       /\ proc[w].target = "DEPLOYING" => EndsIn(logs, "BUILDING")
       /\ proc[w].target = "SUCCESS" => EndsIn(logs, "DEPLOYING")

\* An invocation that returned left SUCCESS.
ReturnedSuccess(w) ==
  proc[w].pc = "return" => row[proc[w].id].status = "SUCCESS"

Working(w) == LogsCurrent(w) /\ Aimed(w) /\ ReturnedSuccess(w)

InvocationsWork == \A w \in DOMAIN proc : Found(w) => Working(w)

RowInv ==
  LockInv /\ RowOfRequest /\ InvocationsWork /\ CompletedMeansSuccess /\ StepsInOrder

-----------------------------------------------------------------------------
\* Nobody works on a deployment that has no job.
LEMMA NoJobNoWork ==
  ASSUME LockInv, NEW d, d \notin DOMAIN job, NEW w \in DOMAIN proc
  PROVE  proc[w].id # d
  BY DEF LockInv, LocksHeld, HoldsLock, LockOfActiveJob

\* A job somebody works on is active, and nobody else works on it.
LEMMA WorkIsActive ==
  ASSUME LockInv, NEW w \in DOMAIN proc
  PROVE  /\ proc[w].id \in DOMAIN job /\ job[proc[w].id].state = "active"
         /\ \A v \in DOMAIN proc \ {w} : proc[v].id # proc[w].id
  BY DEF LockInv, LocksHeld, HoldsLock, LockOfActiveJob

\* A line that follows the right one keeps a log in order.
LEMMA AppendInOrder ==
  ASSUME NEW logs \in Seq(Step), NEW line \in Step,
         \A i \in DOMAIN logs :
           /\ logs[i] = "DEPLOYING" => i > 1 /\ logs[i-1] = "BUILDING"
           /\ logs[i] = "SUCCESS"   => i > 1 /\ logs[i-1] = "DEPLOYING",
         line = "DEPLOYING" => EndsIn(logs, "BUILDING"),
         line = "SUCCESS" => EndsIn(logs, "DEPLOYING"),
         NEW i \in DOMAIN Append(logs, line)
  PROVE  /\ Append(logs, line)[i] = "DEPLOYING" =>
              i > 1 /\ Append(logs, line)[i-1] = "BUILDING"
         /\ Append(logs, line)[i] = "SUCCESS" =>
              i > 1 /\ Append(logs, line)[i-1] = "DEPLOYING"
<1>1. CASE i = Len(logs) + 1
  <2>1. Append(logs, line)[i] = line
    BY <1>1
  <2>2. logs # <<>> => i > 1 /\ Append(logs, line)[i-1] = logs[Len(logs)]
    BY <1>1
  <2> QED
    BY <2>1, <2>2 DEF EndsIn
<1>2. CASE i # Len(logs) + 1
  <2>1. i \in DOMAIN logs /\ Append(logs, line)[i] = logs[i]
    BY <1>2
  <2>2. i > 1 => Append(logs, line)[i-1] = logs[i-1]
    BY <1>2
  <2> QED
    BY <2>1, <2>2
<1> QED
  BY <1>1, <1>2

\* A step of one invocation on its own row keeps what is said of all.
LEMMA OneWorks ==
  ASSUME RowInv, NEW w \in DOMAIN proc,
         DOMAIN proc' = DOMAIN proc, proc'[w].id = proc[w].id,
         \A v \in DOMAIN proc \ {w} : proc'[v] = proc[v],
         DOMAIN row' = DOMAIN row,
         \A d \in DOMAIN row \ {proc[w].id} : row'[d] = row[d],
         job' = job, request' = request,
         Found(w) => Working(w)'
  PROVE  (RowOfRequest /\ InvocationsWork /\ CompletedMeansSuccess)'
<1>1. RowOfRequest'
  BY DEF RowInv, RowOfRequest
<1>2. ASSUME NEW v \in DOMAIN proc, v # w, Found(v)' PROVE Working(v)'
  <2>1. proc'[v] = proc[v] /\ proc[v].id # proc[w].id /\ proc[v].id \in DOMAIN row
    BY <1>2, WorkIsActive DEF RowInv, Found
  <2>2. row'[proc[v].id] = row[proc[v].id]
    BY <2>1
  <2>3. Working(v)
    BY <2>1 DEF RowInv, InvocationsWork, Found
  <2> QED
    BY <2>1, <2>2, <2>3 DEF Working, LogsCurrent, Aimed, ReturnedSuccess
<1>3. InvocationsWork'
  BY <1>2 DEF InvocationsWork, Found
<1>4. CompletedMeansSuccess'
  BY WorkIsActive DEF RowInv, CompletedMeansSuccess
<1> QED
  BY <1>1, <1>3, <1>4

\* Nothing is said of an invocation that goes to the catch block or throws.
LEMMA RaiseWorks ==
  ASSUME TypeOK, NEW w \in DOMAIN proc, Raise(w)
  PROVE  /\ DOMAIN proc' = DOMAIN proc /\ proc'[w].id = proc[w].id
         /\ \A v \in DOMAIN proc \ {w} : proc'[v] = proc[v]
         /\ Working(w)'
<1>1. proc[w] \in Invocation
  BY TableValue DEF TypeOK
<1>2. /\ DOMAIN proc' = DOMAIN proc
      /\ \A v \in DOMAIN proc \ {w} : proc'[v] = proc[v]
      /\ proc'[w] = Over(proc[w], "throw") \/ proc'[w] = Onto(proc[w], "FAILED")
  BY DEF Raise
<1>3. /\ proc'[w].id = proc[w].id
      /\ \/ proc'[w].pc = "throw"
         \/ proc'[w].pc = "read" /\ proc'[w].target = "FAILED"
  <2>1. CASE proc'[w] = Over(proc[w], "throw")
    BY <1>1, <2>1 DEF Over, Invocation
  <2>2. CASE proc'[w] = Onto(proc[w], "FAILED")
    BY <1>1, <2>2 DEF Onto, Invocation
  <2> QED
    BY <1>2, <2>1, <2>2
<1> QED
  BY <1>2, <1>3 DEF Working, LogsCurrent, Aimed, ReturnedSuccess

\* What a write makes of the row.
LEMMA WrittenRow ==
  ASSUME TypeOK, NEW w \in DOMAIN proc, Found(w)
  PROVE  LET d == proc[w].id IN
         /\ DOMAIN Written(w) = DOMAIN row
         /\ \A e \in DOMAIN row \ {d} : Written(w)[e] = row[e]
         /\ Written(w)[d].status = proc[w].target
         /\ Written(w)[d].logs = Append(proc[w].logs, proc[w].target)
<1>1. proc[w] \in Invocation /\ proc[w].id \in DOMAIN row /\ row[proc[w].id] \in Row
  BY TableValue DEF TypeOK, Found
<1> QED
  BY <1>1 DEF Written, Row

\* A write appends the step that follows the last line of the row.
LEMMA WriteInOrder ==
  ASSUME RowInv, NEW w \in DOMAIN proc, proc[w].pc = "write", Found(w), row' = Written(w)
  PROVE  StepsInOrder'
<1> DEFINE d == proc[w].id
<1> USE DEF RowInv, LockInv
<1>1. /\ proc[w] \in Invocation /\ d \in DOMAIN row
      /\ row[d].logs \in Seq(Step) /\ proc[w].target \in Step
  <2>1. proc[w] \in Invocation /\ d \in DOMAIN row
    BY TableValue DEF TypeOK, Found
  <2>2. row[d] \in Row
    BY <2>1, TableValue DEF TypeOK
  <2> QED
    BY <2>1, <2>2 DEF Row, Invocation
<1>2. proc[w].logs = row[d].logs /\ Working(w)
  BY DEF InvocationsWork, Working, LogsCurrent
<1>3. /\ proc[w].target = "DEPLOYING" => EndsIn(row[d].logs, "BUILDING")
      /\ proc[w].target = "SUCCESS" => EndsIn(row[d].logs, "DEPLOYING")
  BY <1>2 DEF Working, Aimed
<1>4. /\ DOMAIN row' = DOMAIN row
      /\ \A e \in DOMAIN row \ {d} : row'[e] = row[e]
      /\ row'[d].logs = Append(row[d].logs, proc[w].target)
  BY <1>2, WrittenRow
<1>5. \A i \in DOMAIN row[d].logs :
        /\ row[d].logs[i] = "DEPLOYING" => i > 1 /\ row[d].logs[i-1] = "BUILDING"
        /\ row[d].logs[i] = "SUCCESS"   => i > 1 /\ row[d].logs[i-1] = "DEPLOYING"
  BY <1>1 DEF StepsInOrder
<1> HIDE DEF d
<1>6. \A i \in DOMAIN row'[d].logs :
        /\ row'[d].logs[i] = "DEPLOYING" => i > 1 /\ row'[d].logs[i-1] = "BUILDING"
        /\ row'[d].logs[i] = "SUCCESS"   => i > 1 /\ row'[d].logs[i-1] = "DEPLOYING"
  BY <1>1, <1>3, <1>4, <1>5, AppendInOrder
<1>7. ASSUME NEW e \in DOMAIN row'
      PROVE  \A i \in DOMAIN row'[e].logs :
        /\ row'[e].logs[i] = "DEPLOYING" => i > 1 /\ row'[e].logs[i-1] = "BUILDING"
        /\ row'[e].logs[i] = "SUCCESS"   => i > 1 /\ row'[e].logs[i-1] = "DEPLOYING"
  <2>1. CASE e = d
    BY <1>6, <2>1
  <2>2. CASE e # d
    <3>1. e \in DOMAIN row /\ row'[e] = row[e]
      BY <1>4, <2>2
    <3>2. \A i \in DOMAIN row[e].logs :
            /\ row[e].logs[i] = "DEPLOYING" => i > 1 /\ row[e].logs[i-1] = "BUILDING"
            /\ row[e].logs[i] = "SUCCESS"   => i > 1 /\ row[e].logs[i-1] = "DEPLOYING"
      BY <3>1 DEF StepsInOrder
    <3> QED
      BY <3>1, <3>2
  <2> QED
    BY <2>1, <2>2
<1> QED
  BY <1>7 DEF StepsInOrder

\* The invocation after a write is at work, whatever it wrote.
LEMMA WriteWorks ==
  ASSUME RowInv, NEW w \in Worker, WriteRow(w)
  PROVE  /\ DOMAIN proc' = DOMAIN proc /\ proc'[w].id = proc[w].id
         /\ \A v \in DOMAIN proc \ {w} : proc'[v] = proc[v]
         /\ Working(w)'
<1> DEFINE i == proc[w]
           j == AfterWrite(i)
<1>1. w \in DOMAIN proc /\ Found(w) /\ row' = Written(w) /\ i.pc = "write"
  BY DEF WriteRow
<1>2. i \in Invocation /\ j \in Invocation /\ j.id = i.id
  BY <1>1, TableValue, AfterWriteType DEF RowInv, LockInv, TypeOK
<1>3. /\ DOMAIN proc' = DOMAIN proc /\ proc'[w] = j
      /\ \A v \in DOMAIN proc \ {w} : proc'[v] = proc[v]
  BY <1>1 DEF WriteRow
<1>4. /\ row'[i.id].status = i.target
      /\ row'[i.id].logs = Append(i.logs, i.target)
  BY <1>1, WrittenRow DEF RowInv, LockInv
<1>5. EndsIn(row'[i.id].logs, i.target)
  <2>1. i.logs \in Seq(Step) /\ i.target \in Step
    BY <1>2 DEF Invocation
  <2> HIDE DEF i
  <2>2. /\ Append(i.logs, i.target) # <<>>
        /\ Append(i.logs, i.target)[Len(Append(i.logs, i.target))] = i.target
    BY <2>1
  <2> QED
    BY <1>4, <2>2 DEF EndsIn
<1>6. /\ j.pc = "read" => \/ i.target = "BUILDING" /\ j.target = "DEPLOYING"
                          \/ i.target = "DEPLOYING" /\ j.target \in {"SUCCESS", "FAILED"}
      /\ j.pc = "return" => i.target = "SUCCESS"
      /\ j.pc \in {"read", "return", "throw"}
  <2>1. CASE i.target = "BUILDING"
    BY <1>2, <2>1 DEF AfterWrite, Onto, Invocation
  <2>2. CASE i.target = "DEPLOYING"
    BY <1>2, <2>2 DEF AfterWrite, AfterDeploying, Onto, Invocation
  <2>3. CASE i.target \in Terminal
    BY <1>2, <2>3 DEF AfterWrite, Over, Invocation, Terminal
  <2> QED
    BY <1>2, <2>1, <2>2, <2>3 DEF Invocation, Step
<1> HIDE DEF i, j
<1>7. Working(w)'
  BY <1>2, <1>3, <1>4, <1>5, <1>6 DEF Working, LogsCurrent, Aimed, ReturnedSuccess
<1> QED
  BY <1>2, <1>3, <1>7 DEF i

\* A step of process() keeps the invariant.
LEMMA ProcessWorks ==
  ASSUME RowInv, NEW w \in Worker, Process(w)
  PROVE  (RowOfRequest /\ InvocationsWork /\ CompletedMeansSuccess /\ StepsInOrder)'
<1> USE DEF RowInv, LockInv
<1>1. CASE LoadRow(w)
  <2>1. /\ w \in DOMAIN proc /\ proc[w] \in Invocation /\ Found(w) /\ Working(w)
        /\ proc[w].pc = "load" /\ proc[w].target = "BUILDING"
    BY <1>1, TableValue DEF LoadRow, TypeOK, InvocationsWork, Working, Aimed
  <2>2. /\ DOMAIN proc' = DOMAIN proc
        /\ \A v \in DOMAIN proc \ {w} : proc'[v] = proc[v]
        /\ proc'[w].id = proc[w].id
        /\ proc'[w].pc = "read" /\ proc'[w].target = "BUILDING"
    BY <1>1, <2>1 DEF LoadRow, Invocation
  <2>3. Working(w)'
    BY <2>2 DEF Working, LogsCurrent, Aimed, ReturnedSuccess
  <2> QED
    BY <1>1, <2>1, <2>2, <2>3, OneWorks DEF LoadRow, StepsInOrder
<1>2. CASE ReadLogs(w)
  <2>1. /\ w \in DOMAIN proc /\ proc[w] \in Invocation /\ Found(w) /\ Working(w)
        /\ proc[w].pc = "read" /\ row' = row
    BY <1>2, TableValue DEF ReadLogs, TypeOK, InvocationsWork
  <2>2. /\ DOMAIN proc' = DOMAIN proc
        /\ \A v \in DOMAIN proc \ {w} : proc'[v] = proc[v]
        /\ proc'[w].id = proc[w].id /\ proc'[w].target = proc[w].target
        /\ proc'[w].pc = "write" /\ proc'[w].logs = row[proc[w].id].logs
    BY <1>2, <2>1 DEF ReadLogs, Invocation
  <2>3. Working(w)'
    BY <2>1, <2>2 DEF Working, LogsCurrent, Aimed, ReturnedSuccess
  <2> QED
    BY <1>2, <2>1, <2>2, <2>3, OneWorks DEF ReadLogs, StepsInOrder
<1>3. CASE WriteRow(w)
  <2>1. /\ w \in DOMAIN proc /\ proc[w].pc = "write" /\ Found(w) /\ row' = Written(w)
        /\ UNCHANGED <<job, request>>
    BY <1>3 DEF WriteRow
  <2>2. /\ DOMAIN row' = DOMAIN row
        /\ \A d \in DOMAIN row \ {proc[w].id} : row'[d] = row[d]
    BY <2>1, WrittenRow
  <2>3. (RowOfRequest /\ InvocationsWork /\ CompletedMeansSuccess)'
    BY <1>3, <2>1, <2>2, WriteWorks, OneWorks
  <2> QED
    BY <2>1, <2>3, WriteInOrder
<1>4. CASE RowMissing(w)
  <2>1. /\ w \in DOMAIN proc /\ Raise(w) /\ UNCHANGED <<row, job, request>>
    BY <1>4 DEF RowMissing, Querying
  <2>2. (RowOfRequest /\ InvocationsWork /\ CompletedMeansSuccess)'
    BY <2>1, RaiseWorks, OneWorks
  <2> QED
    BY <2>1, <2>2 DEF StepsInOrder
<1>5. CASE QueryError(w)
  <2>1. /\ w \in DOMAIN proc /\ Raise(w) /\ UNCHANGED <<job, request>>
    BY <1>5 DEF QueryError, Querying
  <2>2. CASE row' = row
    <3>1. (RowOfRequest /\ InvocationsWork /\ CompletedMeansSuccess)'
      BY <2>1, <2>2, RaiseWorks, OneWorks
    <3> QED
      BY <2>2, <3>1 DEF StepsInOrder
  <2>3. CASE proc[w].pc = "write" /\ Found(w) /\ row' = Written(w)
    <3>1. /\ DOMAIN row' = DOMAIN row
          /\ \A d \in DOMAIN row \ {proc[w].id} : row'[d] = row[d]
      BY <2>1, <2>3, WrittenRow
    <3>2. (RowOfRequest /\ InvocationsWork /\ CompletedMeansSuccess)'
      BY <2>1, <3>1, RaiseWorks, OneWorks
    <3> QED
      BY <2>1, <2>3, <3>2, WriteInOrder
  <2> QED
    BY <1>5, <2>2, <2>3 DEF QueryError
<1> QED
  BY <1>1, <1>2, <1>3, <1>4, <1>5 DEF Process

\* The invariant is inductive as long as no lock expires.
LEMMA RowInvInductive ==
  ASSUME RowInv, LockInv', [Next]_vars
  PROVE  RowInv'
<1> DEFINE Rest == RowOfRequest /\ InvocationsWork /\ CompletedMeansSuccess /\ StepsInOrder
<1> SUFFICES Rest'
  BY DEF RowInv
<1> USE DEF RowInv
<1>1. ASSUME NEW d \in Deployment, NEW p \in Project, NEW sha \in CommitSha,
             AssertProjectOwned(d, p, sha)
      PROVE  Rest'
  <2>1. UNCHANGED <<row, job, proc>>
    BY <1>1 DEF AssertProjectOwned
  <2>2. RowOfRequest'
    BY <1>1 DEF AssertProjectOwned, Put, RowOfRequest
  <2> QED
    BY <2>1, <2>2 DEF InvocationsWork, Working, LogsCurrent, Aimed, ReturnedSuccess,
                      Found, CompletedMeansSuccess, StepsInOrder
<1>2. ASSUME NEW d \in Deployment, CreateRow(d) \/ CreateRowError(d) PROVE Rest'
  <2>1. /\ d \in DOMAIN request /\ request[d].pc = "owned" /\ request[d] \in Request
        /\ d \notin DOMAIN row /\ d \notin DOMAIN job
    BY <1>2, TableValue
    DEF CreateRow, CreateRowError, RowOfRequest, LockInv, JobOfRequest, TypeOK
  <2>2. /\ DOMAIN request' = DOMAIN request /\ request'[d].pc # "owned"
        /\ \A e \in DOMAIN request \ {d} : request'[e] = request[e]
    BY <1>2, <2>1 DEF CreateRow, CreateRowError, Request
  <2>3. /\ DOMAIN row' \subseteq DOMAIN row \cup {d}
        /\ \A e \in DOMAIN row : e \in DOMAIN row' /\ row'[e] = row[e]
        /\ d \in DOMAIN row' => row'[d].logs = <<>>
    BY <1>2, <2>1 DEF CreateRow, CreateRowError, NewRow, Put
  <2>4. UNCHANGED <<job, proc>>
    BY <1>2 DEF CreateRow, CreateRowError
  <2>5. RowOfRequest'
    BY <2>1, <2>2, <2>3 DEF RowOfRequest
  <2>6. ASSUME NEW w \in DOMAIN proc, Found(w)' PROVE Working(w)'
    <3>1. proc[w].id \in DOMAIN row /\ row'[proc[w].id] = row[proc[w].id]
      BY <2>1, <2>3, <2>4, <2>6, NoJobNoWork DEF Found
    <3> QED
      BY <2>4, <3>1
      DEF InvocationsWork, Found, Working, LogsCurrent, Aimed, ReturnedSuccess
  <2>7. CompletedMeansSuccess'
    BY <2>1, <2>3, <2>4 DEF CompletedMeansSuccess
  <2>8. ASSUME NEW e \in DOMAIN row'
        PROVE  \A i \in DOMAIN row'[e].logs :
          /\ row'[e].logs[i] = "DEPLOYING" => i > 1 /\ row'[e].logs[i-1] = "BUILDING"
          /\ row'[e].logs[i] = "SUCCESS"   => i > 1 /\ row'[e].logs[i-1] = "DEPLOYING"
    <3>1. CASE e = d
      BY <2>3, <3>1
    <3>2. CASE e # d
      <4>1. e \in DOMAIN row /\ row'[e] = row[e]
        BY <2>3, <3>2
      <4> QED
        BY <4>1 DEF StepsInOrder
    <3> QED
      BY <3>1, <3>2
  <2>9. StepsInOrder'
    BY <2>8 DEF StepsInOrder
  <2> QED
    BY <2>4, <2>5, <2>6, <2>7, <2>9 DEF InvocationsWork
<1>3. ASSUME NEW d \in Deployment, Enqueue(d) \/ EnqueueError(d) PROVE Rest'
  <2>1. UNCHANGED <<row, proc>>
    BY <1>3 DEF Enqueue, EnqueueError
  <2>2. /\ DOMAIN job' \subseteq DOMAIN job \cup {d}
        /\ \A e \in DOMAIN job' : job'[e].state = "completed" =>
             e \in DOMAIN job /\ job[e].state = "completed"
    BY <1>3 DEF Enqueue, EnqueueError, NewJob, Put
  <2>3. RowOfRequest'
    <3>1. d \in DOMAIN request /\ request[d] \in Request
      BY <1>3, TableValue DEF Enqueue, EnqueueError, LockInv, TypeOK
    <3> QED
      BY <1>3, <3>1 DEF Enqueue, EnqueueError, RowOfRequest, Request
  <2>4. CompletedMeansSuccess'
    BY <2>1, <2>2 DEF CompletedMeansSuccess
  <2> QED
    BY <2>1, <2>3, <2>4 DEF InvocationsWork, Working, LogsCurrent, Aimed, ReturnedSuccess,
                            Found, StepsInOrder
<1>4. ASSUME NEW p \in Project, RemoveProject(p) PROVE Rest'
  <2>1. UNCHANGED <<job, request, proc>>
    BY <1>4 DEF RemoveProject
  <2>2. \A d \in DOMAIN row' : d \in DOMAIN row /\ row'[d] = row[d]
    BY <1>4 DEF RemoveProject, Restrict
  <2>3. RowOfRequest' /\ CompletedMeansSuccess'
    BY <2>1, <2>2 DEF RowOfRequest, CompletedMeansSuccess
  <2>4. InvocationsWork'
    BY <2>1, <2>2
    DEF InvocationsWork, Working, LogsCurrent, Aimed, ReturnedSuccess, Found
  <2>5. StepsInOrder'
    BY <2>2 DEF StepsInOrder
  <2> QED
    BY <2>3, <2>4, <2>5
<1>5. ASSUME NEW w \in Worker, Process(w) PROVE Rest'
  BY <1>5, ProcessWorks
<1>6. ASSUME NEW w \in Worker, NEW d \in Deployment, TakeJob(w, d) PROVE Rest'
  <2>1. UNCHANGED <<row, request>>
    BY <1>6 DEF TakeJob
  <2>2. /\ DOMAIN proc' = DOMAIN proc \cup {w} /\ w \notin DOMAIN proc
        /\ \A v \in DOMAIN proc : proc'[v] = proc[v]
        /\ proc'[w].pc = "load" /\ proc'[w].target = "BUILDING"
    BY <1>6 DEF TakeJob, Put
  <2>3. InvocationsWork'
    BY <2>1, <2>2
    DEF InvocationsWork, Working, LogsCurrent, Aimed, ReturnedSuccess, Found
  <2>4. d \in DOMAIN job /\ job[d] \in Job
    BY <1>6, TableValue DEF TakeJob, LockInv, TypeOK
  <2>5. CompletedMeansSuccess'
    BY <1>6, <2>1, <2>4 DEF TakeJob, CompletedMeansSuccess, Job
  <2> QED
    BY <2>1, <2>3, <2>5 DEF RowOfRequest, StepsInOrder
<1>7. ASSUME NEW w \in Worker, JobCompleted(w) \/ JobRetried(w) \/ JobFailed(w) PROVE Rest'
  <2> DEFINE d == proc[w].id
  <2>1. /\ w \in DOMAIN proc /\ d \in DOMAIN job /\ job[d] \in Job
        /\ UNCHANGED <<row, request>>
    BY <1>7, WorkIsActive, TableValue
    DEF JobCompleted, JobRetried, JobFailed, Settle, LockInv, TypeOK
  <2>2. \A v \in DOMAIN proc' : v \in DOMAIN proc /\ proc'[v] = proc[v]
    BY <1>7 DEF JobCompleted, JobRetried, JobFailed, Settle, Drop, Restrict
  <2>3. InvocationsWork'
    BY <2>1, <2>2
    DEF InvocationsWork, Working, LogsCurrent, Aimed, ReturnedSuccess, Found
  <2>4. /\ DOMAIN job' \subseteq DOMAIN job
        /\ \A e \in DOMAIN job' : e # d => job'[e] = job[e]
        /\ job'[d].state = "completed" => proc[w].pc = "return"
    <3>1. PICK pc, state : Settle(w, pc, state) /\ (state = "completed" => pc = "return")
      BY <1>7 DEF JobCompleted, JobRetried, JobFailed
    <3>2. proc[w].pc = pc
      BY <3>1 DEF Settle
    <3> QED
      BY <2>1, <3>1, <3>2, SettleKeeps DEF LockInv
  <2>5. CompletedMeansSuccess'
    BY <2>1, <2>4
    DEF CompletedMeansSuccess, InvocationsWork, Working, ReturnedSuccess, Found
  <2> QED
    BY <2>1, <2>3, <2>5 DEF RowOfRequest, StepsInOrder
<1>8. ASSUME NEW w \in Worker, OutcomeDiscarded(w) PROVE Rest'
  <2>1. /\ UNCHANGED <<row, request, job>>
        /\ \A v \in DOMAIN proc' : v \in DOMAIN proc /\ proc'[v] = proc[v]
    BY <1>8 DEF OutcomeDiscarded, Drop, Restrict
  <2> QED
    BY <2>1 DEF InvocationsWork, Working, LogsCurrent, Aimed, ReturnedSuccess, Found,
                RowOfRequest, CompletedMeansSuccess, StepsInOrder
<1>9. ASSUME NEW d \in Deployment, BackoffOver(d) \/ StalledCheck(d) PROVE Rest'
  <2>1. UNCHANGED <<row, request, proc>>
    BY <1>9 DEF BackoffOver, StalledCheck
  <2>2. d \in DOMAIN job /\ job[d] \in Job
    BY <1>9, TableValue DEF BackoffOver, StalledCheck, LockInv, TypeOK
  <2>3. CompletedMeansSuccess'
    BY <1>9, <2>1, <2>2, StalledKeeps DEF BackoffOver, CompletedMeansSuccess, LockInv, Job
  <2> QED
    BY <2>1, <2>3 DEF InvocationsWork, Working, LogsCurrent, Aimed, ReturnedSuccess,
                      Found, RowOfRequest, StepsInOrder
<1>10. ASSUME NEW d \in Deployment, LockExpires(d) PROVE Rest'
  BY <1>10 DEF LockExpires, InvocationsWork, Working, LogsCurrent, Aimed, ReturnedSuccess,
               Found, RowOfRequest, CompletedMeansSuccess, StepsInOrder
<1>11. CASE Crash
  <2>1. UNCHANGED <<row, job>> /\ InvocationsWork'
    BY <1>11 DEF Crash, Empty, InvocationsWork
  <2>2. RowOfRequest'
    BY <1>11, TableValue DEF Crash, RowOfRequest, LockInv, TypeOK, Request
  <2> QED
    BY <2>1, <2>2 DEF CompletedMeansSuccess, StepsInOrder
<1>12. CASE UNCHANGED vars
  BY <1>12 DEF vars, InvocationsWork, Working, LogsCurrent, Aimed, ReturnedSuccess,
               Found, RowOfRequest, CompletedMeansSuccess, StepsInOrder
<1> QED
  BY <1>1, <1>2, <1>3, <1>4, <1>5, <1>6, <1>7, <1>8, <1>9, <1>10, <1>11, <1>12
  DEF Next, Trigger, Timers, Queue

\* The invariant of this module holds in every reachable state.
LEMMA RowInvariant ==
  ASSUME "stall" \notin FaultKinds
  PROVE  Spec => [](RowInv /\ TypeOK)
<1>1. Init => RowInv
  BY PipelineAssumption, EmptyTable
  DEF Init, Empty, RowInv, LockInv, TypeOK, JobOfRequest, LockOfActiveJob, LocksHeld,
      RowOfRequest, InvocationsWork, CompletedMeansSuccess, StepsInOrder
<1>2. RowInv /\ TypeOK' /\ [Next]_vars => RowInv'
  BY LockInvInductive, RowInvInductive DEF RowInv
<1> QED
  BY <1>1, <1>2, Typing, PTL DEF Spec

\* A job that BullMQ counts as completed has left SUCCESS in its row and nothing
\* takes it back (CompletedMeansSuccess), whatever crashes and queries fail:
\* only the invocation that holds the lock writes the row, and it returns after
\* writing SUCCESS only.
THEOREM CompletedIsSuccess ==
  ASSUME "stall" \notin FaultKinds
  PROVE  Spec => []CompletedMeansSuccess
<1>1. RowInv => CompletedMeansSuccess
  BY DEF RowInv
<1> QED
  BY <1>1, RowInvariant, PTL

\* In every log DEPLOYING follows BUILDING and SUCCESS follows DEPLOYING
\* (StepsInOrder), over any number of attempts that were cut short.
THEOREM StepsOrdered ==
  ASSUME "stall" \notin FaultKinds
  PROVE  Spec => []StepsInOrder
<1>1. RowInv => StepsInOrder
  BY DEF RowInv
<1> QED
  BY <1>1, RowInvariant, PTL

\* No step loses or rewrites a line of a log (LogAppendOnly), although it is
\* read in one query and written back in another: the log that an invocation
\* holds is the one its row still has.
THEOREM LogsAppended ==
  ASSUME "stall" \notin FaultKinds
  PROVE  Spec => LogAppendOnly
<1> DEFINE Appended == \A d \in DOMAIN row \cap DOMAIN row' :
             \/ row'[d].logs = row[d].logs
             \/ \E s \in Step : row'[d].logs = Append(row[d].logs, s)
<1>1. RowInv /\ [Next]_vars => [Appended]_vars
  <2> SUFFICES ASSUME RowInv, Next PROVE Appended
    OBVIOUS
  <2>1. ASSUME NEW d \in Deployment, CreateRow(d) \/ CreateRowError(d) PROVE Appended
    BY <2>1 DEF CreateRow, CreateRowError, NewRow, Put, RowInv, RowOfRequest
  <2>2. ASSUME NEW p \in Project, RemoveProject(p) PROVE Appended
    BY <2>2 DEF RemoveProject, Restrict
  <2>3. CASE UNCHANGED row
    BY <2>3
  <2>4. ASSUME NEW w \in DOMAIN proc, proc[w].pc = "write", Found(w), row' = Written(w)
        PROVE  Appended
    <3>1. proc[w].logs = row[proc[w].id].logs
      BY <2>4 DEF RowInv, InvocationsWork, Working, LogsCurrent
    <3>2. proc[w] \in Invocation
      BY <2>4, TableValue DEF RowInv, LockInv, TypeOK
    <3>3. proc[w].target \in Step
      BY <3>2 DEF Invocation
    <3> QED
      BY <2>4, <3>1, <3>3, WrittenRow DEF RowInv, LockInv
  <2>5. ASSUME NEW w \in Worker, Process(w) PROVE Appended
    BY <2>3, <2>4, <2>5
    DEF Process, LoadRow, ReadLogs, WriteRow, RowMissing, QueryError, Querying
  <2> QED
    BY <2>1, <2>2, <2>3, <2>5, RowSteps
<1> QED
  BY <1>1, RowInvariant, PTL DEF Spec, LogAppendOnly

-----------------------------------------------------------------------------
(* 6. The outcome of a job.  JobCompleted, JobRetried and JobFailed look at no   *)
(* row, so what an invocation leaves there is said of it as long as it has    *)
(* not been settled; and no job may be failed while nobody works on it.       *)

\* A job that is handed out is locked.
ActiveJobsLocked == \A d \in DOMAIN job : job[d].state = "active" => d \in DOMAIN lock

\* An invocation that is over left its outcome in its row.
OutcomeLeft(w) ==
  /\ proc[w].pc = "return" => EndedAs(proc[w].id, "SUCCESS")
  /\ proc[w].pc = "throw"  => EndedAs(proc[w].id, "FAILED")

OutcomesLeft == \A w \in DOMAIN proc : Found(w) => OutcomeLeft(w)

SettledInv == RowInv /\ ActiveJobsLocked /\ OutcomesLeft /\ SettledJobSettledRow

\* A step of one invocation on its own row leaves the outcomes of all others.
LEMMA OneOutcome ==
  ASSUME SettledInv, NEW w \in DOMAIN proc,
         DOMAIN proc' = DOMAIN proc, proc'[w].id = proc[w].id,
         \A v \in DOMAIN proc \ {w} : proc'[v] = proc[v],
         DOMAIN row' = DOMAIN row,
         \A d \in DOMAIN row \ {proc[w].id} : row'[d] = row[d],
         UNCHANGED <<job, lock>>,
         Found(w) => OutcomeLeft(w)'
  PROVE  (ActiveJobsLocked /\ OutcomesLeft /\ SettledJobSettledRow)'
<1> USE DEF SettledInv, RowInv
<1>1. ActiveJobsLocked'
  BY DEF ActiveJobsLocked
<1>2. ASSUME NEW v \in DOMAIN proc, v # w, Found(v)' PROVE OutcomeLeft(v)'
  <2>1. proc'[v] = proc[v] /\ proc[v].id # proc[w].id /\ proc[v].id \in DOMAIN row
    BY <1>2, WorkIsActive DEF Found
  <2>2. row'[proc[v].id] = row[proc[v].id]
    BY <2>1
  <2>3. OutcomeLeft(v)
    BY <2>1 DEF OutcomesLeft, Found
  <2> QED
    BY <2>1, <2>2, <2>3 DEF OutcomeLeft, EndedAs
<1>3. OutcomesLeft'
  BY <1>2 DEF OutcomesLeft, Found
<1>4. SettledJobSettledRow'
  BY WorkIsActive DEF SettledJobSettledRow, EndedAs
<1> QED
  BY <1>1, <1>3, <1>4

\* A step of process() where queries do not fail.
LEMMA ProcessSettles ==
  ASSUME "db" \notin FaultKinds, SettledInv, NEW w \in Worker, Process(w)
  PROVE  (ActiveJobsLocked /\ OutcomesLeft /\ SettledJobSettledRow)'
<1> USE DEF SettledInv, RowInv, LockInv
<1> DEFINE i == proc[w]
<1>1. /\ DOMAIN proc' = DOMAIN proc /\ UNCHANGED <<job, lock>>
      /\ \A v \in DOMAIN proc : proc'[v].id = proc[v].id
  BY ProcessKeeps
<1>2. w \in DOMAIN proc /\ i \in Invocation
  <2>1. w \in DOMAIN proc
    BY DEF Process, LoadRow, ReadLogs, WriteRow, RowMissing, QueryError, Querying
  <2> QED
    BY <2>1, TableValue DEF TypeOK
<1>3. \A v \in DOMAIN proc \ {w} : proc'[v] = proc[v]
  BY DEF Process, LoadRow, ReadLogs, WriteRow, RowMissing, QueryError, Raise
<1>4. CASE LoadRow(w) \/ ReadLogs(w)
  <2>1. row' = row /\ proc'[w].pc \in {"read", "write"}
    BY <1>2, <1>4 DEF LoadRow, ReadLogs, Invocation
  <2> QED
    BY <1>1, <1>2, <1>3, <2>1, OneOutcome DEF OutcomeLeft
<1>5. CASE WriteRow(w)
  <2>1. /\ i.pc = "write" /\ Found(w) /\ row' = Written(w) /\ proc'[w] = AfterWrite(i)
    BY <1>2, <1>5 DEF WriteRow
  <2>2. /\ row'[i.id].status = i.target
        /\ i.target \in Terminal => row'[i.id].finishedAt = Len(row'[i.id].logs)
    <3>1. i.id \in DOMAIN row /\ row[i.id] \in Row
      BY <2>1, TableValue DEF TypeOK, Found
    <3>2. /\ row'[i.id].status = i.target
          /\ row'[i.id].logs = Append(i.logs, i.target)
          /\ i.target \in Terminal => row'[i.id].finishedAt = Len(i.logs) + 1
      BY <2>1, <3>1 DEF Written, Row
    <3>3. Len(Append(i.logs, i.target)) = Len(i.logs) + 1
      BY <1>2 DEF Invocation
    <3> QED
      BY <3>2, <3>3
  <2>3. /\ proc'[w].pc = "return" => i.target = "SUCCESS"
        /\ proc'[w].pc = "throw" => i.target = "FAILED"
    <3>1. CASE i.target = "BUILDING"
      BY <1>2, <2>1, <3>1 DEF AfterWrite, Onto, Invocation
    <3>2. CASE i.target = "DEPLOYING"
      BY <1>2, <2>1, <3>2 DEF AfterWrite, AfterDeploying, Onto, Invocation
    <3>3. CASE i.target \in Terminal
      BY <1>2, <2>1, <3>3 DEF AfterWrite, Over, Invocation, Terminal
    <3> QED
      BY <1>2, <3>1, <3>2, <3>3 DEF Invocation, Step
  <2>4. OutcomeLeft(w)'
    BY <1>1, <1>2, <2>2, <2>3 DEF OutcomeLeft, EndedAs, Terminal
  <2>5. /\ DOMAIN row' = DOMAIN row
        /\ \A d \in DOMAIN row \ {proc[w].id} : row'[d] = row[d]
    BY <1>2, <2>1, WrittenRow
  <2> QED
    BY <1>1, <1>2, <1>3, <2>4, <2>5, OneOutcome
<1>6. CASE RowMissing(w)
  <2>1. row' = row /\ ~Found(w)
    BY <1>6 DEF RowMissing
  <2> QED
    BY <1>1, <1>2, <1>3, <2>1, OneOutcome
<1>7. ~QueryError(w)
  BY DEF QueryError, Fault
<1> QED
  BY <1>4, <1>5, <1>6, <1>7 DEF Process

\* The invariant is inductive while queries do not fail, the process does not
\* die and no lock expires.
LEMMA SettledInvInductive ==
  ASSUME FaultKinds \cap {"db", "crash", "stall"} = {}, SettledInv, RowInv', [Next]_vars
  PROVE  SettledInv'
<1> DEFINE Rest == ActiveJobsLocked /\ OutcomesLeft /\ SettledJobSettledRow
<1> SUFFICES Rest'
  BY DEF SettledInv
<1> USE DEF SettledInv, RowInv, LockInv
<1>1. ASSUME NEW d \in Deployment, CreateRow(d) \/ CreateRowError(d) PROVE Rest'
  <2>1. d \notin DOMAIN job /\ d \notin DOMAIN row
    BY <1>1 DEF CreateRow, CreateRowError, JobOfRequest, RowOfRequest
  <2>2. /\ DOMAIN row' \subseteq DOMAIN row \cup {d}
        /\ \A e \in DOMAIN row : e \in DOMAIN row' /\ row'[e] = row[e]
        /\ UNCHANGED <<job, lock, proc>>
    BY <1>1, <2>1 DEF CreateRow, CreateRowError, NewRow, Put
  <2>3. \A w \in DOMAIN proc : proc[w].id # d
    BY <2>1, NoJobNoWork
  <2>4. OutcomesLeft'
    BY <2>2, <2>3 DEF OutcomesLeft, OutcomeLeft, EndedAs, Found
  <2>5. SettledJobSettledRow'
    BY <2>1, <2>2 DEF SettledJobSettledRow, EndedAs
  <2> QED
    BY <2>2, <2>4, <2>5 DEF ActiveJobsLocked
<1>2. ASSUME NEW d \in Deployment, Enqueue(d) \/ EnqueueError(d) PROVE Rest'
  <2>1. d \notin DOMAIN job
    BY <1>2 DEF Enqueue, EnqueueError, JobOfRequest
  <2>2. /\ DOMAIN job' \subseteq DOMAIN job \cup {d}
        /\ \A e \in DOMAIN job : e \in DOMAIN job' /\ job'[e] = job[e]
        /\ d \in DOMAIN job' => job'[d].state = "waiting"
        /\ UNCHANGED <<row, lock, proc>>
    BY <1>2, <2>1 DEF Enqueue, EnqueueError, NewJob, Put
  <2> QED
    BY <2>1, <2>2
    DEF ActiveJobsLocked, OutcomesLeft, OutcomeLeft, EndedAs, Found, SettledJobSettledRow
<1>3. ASSUME NEW p \in Project, RemoveProject(p) PROVE Rest'
  <2>1. /\ \A d \in DOMAIN row' : d \in DOMAIN row /\ row'[d] = row[d]
        /\ UNCHANGED <<job, lock, proc>>
    BY <1>3 DEF RemoveProject, Restrict
  <2> QED
    BY <2>1 DEF ActiveJobsLocked, OutcomesLeft, OutcomeLeft, EndedAs, Found, SettledJobSettledRow
<1>4. ASSUME NEW w \in Worker, Process(w) PROVE Rest'
  BY <1>4, ProcessSettles
<1>5. ASSUME NEW w \in Worker, NEW d \in Deployment, TakeJob(w, d) PROVE Rest'
  <2>1. d \in DOMAIN job /\ job[d] \in Job /\ w \notin DOMAIN proc
    BY <1>5, TableValue DEF TakeJob, TypeOK
  <2>2. /\ DOMAIN job' = DOMAIN job /\ job'[d].state = "active"
        /\ \A e \in DOMAIN job \ {d} : job'[e] = job[e]
        /\ DOMAIN lock' = DOMAIN lock \cup {d}
        /\ row' = row
    BY <1>5, <2>1 DEF TakeJob, Put, Job
  <2>3. /\ DOMAIN proc' = DOMAIN proc \cup {w}
        /\ \A v \in DOMAIN proc : proc'[v] = proc[v]
        /\ proc'[w].pc = "load"
    BY <1>5, <2>1 DEF TakeJob, Put
  <2>4. OutcomesLeft'
    BY <2>2, <2>3 DEF OutcomesLeft, OutcomeLeft, EndedAs, Found
  <2> QED
    BY <2>1, <2>2, <2>4 DEF ActiveJobsLocked, SettledJobSettledRow, EndedAs
<1>6. ASSUME NEW w \in Worker, JobCompleted(w) \/ JobRetried(w) \/ JobFailed(w) PROVE Rest'
  <2> DEFINE d == proc[w].id
  <2>1. /\ w \in DOMAIN proc /\ d \in DOMAIN job /\ job[d] \in Job
        /\ row' = row
    BY <1>6, WorkIsActive, TableValue
    DEF JobCompleted, JobRetried, JobFailed, Settle, TypeOK
  <2>2. /\ \A v \in DOMAIN proc' : v \in DOMAIN proc /\ proc'[v] = proc[v]
        /\ DOMAIN lock' = DOMAIN lock \ {d}
    BY <1>6 DEF JobCompleted, JobRetried, JobFailed, Settle, Drop, Restrict
  <2>3. /\ DOMAIN job' \subseteq DOMAIN job
        /\ \A e \in DOMAIN job' : e # d => job'[e] = job[e]
        /\ job'[d].state \in {"completed", "failed", "delayed"}
        /\ job'[d].state = "completed" => proc[w].pc = "return"
        /\ job'[d].state = "failed" => proc[w].pc = "throw"
    <3>1. PICK pc, state : /\ Settle(w, pc, state)
                           /\ <<pc, state>> \in {<<"return", "completed">>,
                                                <<"throw", "delayed">>, <<"throw", "failed">>}
      BY <1>6 DEF JobCompleted, JobRetried, JobFailed
    <3>2. proc[w].pc = pc
      BY <3>1 DEF Settle
    <3> QED
      BY <2>1, <3>1, <3>2, SettleKeeps
  <2>4. ActiveJobsLocked'
    BY <2>2, <2>3 DEF ActiveJobsLocked
  <2>5. OutcomesLeft'
    BY <2>1, <2>2 DEF OutcomesLeft, OutcomeLeft, EndedAs, Found
  <2>6. SettledJobSettledRow'
    BY <2>1, <2>3 DEF SettledJobSettledRow, OutcomesLeft, OutcomeLeft, EndedAs, Found
  <2> QED
    BY <2>4, <2>5, <2>6
<1>7. ASSUME NEW w \in Worker, OutcomeDiscarded(w) PROVE Rest'
  <2>1. /\ UNCHANGED <<row, lock, job>>
        /\ \A v \in DOMAIN proc' : v \in DOMAIN proc /\ proc'[v] = proc[v]
    BY <1>7 DEF OutcomeDiscarded, Drop, Restrict
  <2> QED
    BY <2>1 DEF ActiveJobsLocked, OutcomesLeft, OutcomeLeft, EndedAs, Found, SettledJobSettledRow
<1>8. ASSUME NEW d \in Deployment, BackoffOver(d) PROVE Rest'
  <2>1. d \in DOMAIN job /\ job[d] \in Job
    BY <1>8, TableValue DEF BackoffOver, TypeOK
  <2>2. /\ DOMAIN job' = DOMAIN job /\ job'[d].state = "waiting"
        /\ \A e \in DOMAIN job \ {d} : job'[e] = job[e]
        /\ UNCHANGED <<row, lock, proc>>
    BY <1>8, <2>1 DEF BackoffOver, Job
  <2> QED
    BY <2>2 DEF ActiveJobsLocked, OutcomesLeft, OutcomeLeft, EndedAs, Found, SettledJobSettledRow
<1>9. ASSUME NEW d \in Deployment PROVE ~StalledCheck(d) /\ ~LockExpires(d)
  BY DEF StalledCheck, ActiveJobsLocked, LockExpires, Fault
<1>10. ~Crash
  BY DEF Crash, Fault
<1>11. CASE UNCHANGED <<row, job, lock, proc>>
  BY <1>11 DEF ActiveJobsLocked, OutcomesLeft, OutcomeLeft, EndedAs, Found, SettledJobSettledRow
<1>12. ASSUME NEW d \in Deployment, NEW p \in Project, NEW sha \in CommitSha,
              AssertProjectOwned(d, p, sha)
       PROVE  Rest'
  BY <1>11, <1>12 DEF AssertProjectOwned
<1>13. CASE UNCHANGED vars
  BY <1>11, <1>13 DEF vars
<1> QED
  BY <1>1, <1>2, <1>3, <1>4, <1>5, <1>6, <1>7, <1>8, <1>9, <1>10, <1>12, <1>13
  DEF Next, Trigger, Timers, Queue

LEMMA SettledInvariant ==
  ASSUME FaultKinds \cap {"db", "crash", "stall"} = {}
  PROVE  Spec => []SettledInv
<1>1. Init => SettledInv
  BY PipelineAssumption, EmptyTable
  DEF Init, Empty, RowInv, LockInv, TypeOK, JobOfRequest, LockOfActiveJob, LocksHeld,
      RowOfRequest, InvocationsWork, CompletedMeansSuccess, StepsInOrder, SettledInv,
      ActiveJobsLocked, OutcomesLeft, SettledJobSettledRow
<1>2. SettledInv /\ RowInv' /\ [Next]_vars => SettledInv'
  BY SettledInvInductive
<1>3. "stall" \notin FaultKinds
  OBVIOUS
<1>4. Spec => [](RowInv /\ TypeOK)
  BY <1>3, RowInvariant
<1> QED
  BY <1>1, <1>2, <1>4, PTL DEF Spec

\* A job that is over has left its row in the terminal status of its last
\* attempt, stamped (SettledJobSettledRow), as long as queries do not fail, the
\* process does not die and no lock expires; failing enqueues do no harm.
THEOREM SettledRows ==
  ASSUME FaultKinds \cap {"db", "crash", "stall"} = {}
  PROVE  Spec => []SettledJobSettledRow
<1>1. SettledInv => SettledJobSettledRow
  BY DEF SettledInv
<1> QED
  BY <1>1, SettledInvariant, PTL

\* A row that is not in a terminal status has a job that is not over, unless its
\* trigger has still to add one or has answered 500 (NoOrphanRow), under the same
\* conditions: a job that is over, and so each that was pruned, left its row
\* settled, and a row is only written while its job is active.
THEOREM RowsHaveJobs ==
  ASSUME FaultKinds \cap {"db", "crash", "stall"} = {}
  PROVE  Spec => []NoOrphanRow
<1>1. Init => NoOrphanRow
  BY DEF Init, Empty, NoOrphanRow
<1>2. NoOrphanRow /\ SettledInv /\ SettledInv' /\ [Next]_vars => NoOrphanRow'
  <2> SUFFICES ASSUME NoOrphanRow, SettledInv, SettledInv', [Next]_vars PROVE NoOrphanRow'
    OBVIOUS
  <2> USE DEF SettledInv, RowInv, LockInv
  <2>1. ASSUME NEW d \in Deployment, NEW p \in Project, NEW sha \in CommitSha,
               AssertProjectOwned(d, p, sha)
        PROVE  NoOrphanRow'
    <3>1. d \notin DOMAIN row /\ UNCHANGED <<row, job>>
      BY <2>1 DEF AssertProjectOwned, RowOfRequest
    <3>2. \A e \in DOMAIN row : request'[e] = request[e]
      BY <2>1, <3>1 DEF AssertProjectOwned, Put, RowOfRequest
    <3> QED
      BY <3>1, <3>2 DEF NoOrphanRow
  <2>2. ASSUME NEW d \in Deployment, CreateRow(d) PROVE NoOrphanRow'
    <3>1. d \in DOMAIN request /\ request[d] \in Request /\ d \notin DOMAIN row
      BY <2>2, TableValue DEF CreateRow, RowOfRequest, TypeOK
    <3>2. /\ \A e \in DOMAIN row' : e # d => e \in DOMAIN row /\ row'[e] = row[e]
          /\ d \in DOMAIN row' => request'[d].pc = "created"
          /\ \A e \in DOMAIN request : e # d => request'[e] = request[e]
          /\ job' = job
      BY <2>2, <3>1 DEF CreateRow, NewRow, Put, Request
    <3> QED
      BY <3>2 DEF NoOrphanRow, RowOfRequest
  <2>3. ASSUME NEW d \in Deployment, Enqueue(d) \/ EnqueueError(d) PROVE NoOrphanRow'
    <3>1. d \in DOMAIN request /\ request[d] \in Request /\ d \notin DOMAIN job
      BY <2>3, TableValue DEF Enqueue, EnqueueError, JobOfRequest, TypeOK
    <3>2. /\ \A e \in DOMAIN request : e # d => request'[e] = request[e]
          /\ \A e \in DOMAIN job : e \in DOMAIN job' /\ job'[e] = job[e]
          /\ \/ request'[d].pc = "500"
             \/ d \in DOMAIN job' /\ job'[d].state = "waiting"
          /\ row' = row
      <4>1. CASE Enqueue(d)
        BY <3>1, <4>1 DEF Enqueue, NewJob, Put, Request
      <4>2. CASE EnqueueError(d)
        BY <3>1, <4>2 DEF EnqueueError, NewJob, Put, Request
      <4> QED
        BY <2>3, <4>1, <4>2
    <3> QED
      BY <3>2 DEF NoOrphanRow, RowOfRequest, Finished
  <2>4. ASSUME NEW p \in Project, RemoveProject(p) PROVE NoOrphanRow'
    BY <2>4 DEF RemoveProject, Restrict, NoOrphanRow
  <2>5. ASSUME NEW w \in Worker, Process(w) PROVE NoOrphanRow'
    <3>1. UNCHANGED <<job, request>>
      BY <2>5, ProcessKeeps
    <3>2. PICK d : d = proc[w].id
      OBVIOUS
    <3>3. w \in DOMAIN proc /\ d \in DOMAIN job /\ job[d].state = "active"
      BY <2>5, <3>2, WorkIsActive
      DEF Process, LoadRow, ReadLogs, WriteRow, RowMissing, QueryError, Querying
    <3>4. row' = row \/ (Found(w) /\ row' = Written(w))
      BY <2>5 DEF Process, LoadRow, ReadLogs, WriteRow, RowMissing, QueryError
    <3>5. /\ DOMAIN row' = DOMAIN row
          /\ \A e \in DOMAIN row : e # d => row'[e] = row[e]
      BY <3>2, <3>3, <3>4, WrittenRow
    <3> QED
      BY <3>1, <3>3, <3>5 DEF NoOrphanRow, Finished
  <2>6. ASSUME NEW d, UNCHANGED <<row, request>>,
               \A e \in DOMAIN job' : e # d => job'[e] = job[e],
               \A e \in DOMAIN job \ DOMAIN job' : e # d /\ job[e].state \in Finished,
               d \in DOMAIN job'
        PROVE  NoOrphanRow'
    <3> SUFFICES ASSUME NEW e \in DOMAIN row, row[e].status \notin Terminal,
                        request[e].pc \notin {"created", "500"}
                 PROVE  e \in DOMAIN job' /\ job'[e].state \notin Finished
      BY <2>6 DEF NoOrphanRow
    <3>1. e \in DOMAIN job /\ job[e].state \notin Finished
      BY DEF NoOrphanRow
    <3>2. e \in DOMAIN job'
      BY <2>6, <3>1
    <3>3. job'[e].state \notin Finished
      BY <2>6, <3>2 DEF SettledJobSettledRow, EndedAs, Finished, Terminal
    <3> QED
      BY <3>2, <3>3
  <2>7. ASSUME NEW w \in Worker, JobCompleted(w) \/ JobRetried(w) \/ JobFailed(w)
        PROVE  NoOrphanRow'
    <3>1. PICK pc, state : Settle(w, pc, state)
      BY <2>7 DEF JobCompleted, JobRetried, JobFailed
    <3>2. PICK d : d = proc[w].id
      OBVIOUS
    <3>3. d \in DOMAIN job /\ UNCHANGED <<row, request>>
      BY <3>1, <3>2, WorkIsActive DEF Settle
    <3> QED
      BY <2>6, <3>1, <3>2, <3>3, SettleKeeps
  <2>8. ASSUME NEW w \in Worker, NEW d \in Deployment, TakeJob(w, d) PROVE NoOrphanRow'
    <3>1. d \in DOMAIN job /\ DOMAIN job' = DOMAIN job /\ UNCHANGED <<row, request>>
      BY <2>8 DEF TakeJob
    <3>2. \A e \in DOMAIN job' : e # d => job'[e] = job[e]
      BY <2>8 DEF TakeJob
    <3> QED
      BY <2>6, <3>1, <3>2
  <2>9. ASSUME NEW d \in Deployment, BackoffOver(d) PROVE NoOrphanRow'
    <3>1. d \in DOMAIN job /\ DOMAIN job' = DOMAIN job /\ UNCHANGED <<row, request>>
      BY <2>9 DEF BackoffOver
    <3>2. \A e \in DOMAIN job' : e # d => job'[e] = job[e]
      BY <2>9 DEF BackoffOver
    <3> QED
      BY <2>6, <3>1, <3>2
  <2>10. ASSUME NEW d \in Deployment
         PROVE  ~CreateRowError(d) /\ ~StalledCheck(d) /\ ~LockExpires(d)
    BY DEF CreateRowError, StalledCheck, ActiveJobsLocked, LockExpires, Fault
  <2>11. ~Crash
    BY DEF Crash, Fault
  <2>12. CASE UNCHANGED <<row, request, job>>
    BY <2>12 DEF NoOrphanRow
  <2> QED
    BY <2>1, <2>2, <2>3, <2>4, <2>5, <2>7, <2>8, <2>9, <2>10, <2>11, <2>12
    DEF Next, Trigger, Timers, Queue, OutcomeDiscarded, vars
<1> QED
  BY <1>1, <1>2, SettledInvariant, PTL DEF Spec

-----------------------------------------------------------------------------
(* 7. The number of builds, under all faults.  An invocation appends BUILDING   *)
(* once at most, but to the log it read, which may be an old one when its    *)
(* lock was lost.  So the bound is on every log there is, those that          *)
(* invocations hold included: none has more BUILDING lines than invocations   *)
(* were begun for the deployment, less those that have theirs still to write. *)

BuildLines(logs) == {i \in DOMAIN logs : logs[i] = "BUILDING"}

Lines(logs) == Cardinality(BuildLines(logs))

\* The invocations that have not yet written BUILDING.
Fresh(d) ==
  {w \in DOMAIN proc : proc[w].id = d /\ Querying(w) /\ proc[w].target = "BUILDING"}

\* Past the enqueue a request never adds a job again.
Enqueued(d) == d \in DOMAIN request /\ request[d].pc \notin {"owned", "created"}

\* How often the job was handed out; as often as it may be when it was pruned.
Begun(d) ==
  IF d \in DOMAIN job
  THEN job[d].attemptsMade + job[d].stalled + (IF job[d].state = "active" THEN 1 ELSE 0)
  ELSE IF Enqueued(d) THEN MaxAttempts + MaxStalled ELSE 0

\* How many BUILDING lines a log of d may have by now.
Room(d) == Begun(d) - Cardinality(Fresh(d))

JobsWithinLimits ==
  \A d \in DOMAIN job :
    IF job[d].state \in {"completed", "failed"}
    THEN job[d].attemptsMade + job[d].stalled <= MaxAttempts + MaxStalled
    ELSE job[d].attemptsMade < MaxAttempts /\ job[d].stalled <= MaxStalled

FewInvocations == IsFiniteSet(DOMAIN proc)

RoomLeft == \A d \in Deployment : Room(d) >= 0

RowsWithinRoom == \A d \in DOMAIN row : Lines(row[d].logs) <= Room(d)

InvocationsWithinRoom == \A w \in DOMAIN proc : Lines(proc[w].logs) <= Room(proc[w].id)

BuildInv ==
  /\ JobInv /\ JobsWithinLimits /\ FewInvocations
  /\ RoomLeft /\ RowsWithinRoom /\ InvocationsWithinRoom

\* The number of lines of a log is a number, and Append adds one at most.
LEMMA LinesType ==
  ASSUME NEW logs \in Seq(Step)
  PROVE  IsFiniteSet(BuildLines(logs)) /\ Lines(logs) \in Nat
<1>1. BuildLines(logs) \subseteq 1..Len(logs) /\ Len(logs) \in Nat
  BY DEF BuildLines
<1>2. IsFiniteSet(1..Len(logs))
  BY <1>1, FS_Interval
<1>3. IsFiniteSet(BuildLines(logs))
  BY <1>1, <1>2, FS_Subset
<1> QED
  BY <1>3, FS_CardinalityType DEF Lines

\* So it is for every log of a row or an invocation.
LEMMA LinesHeld ==
  ASSUME TypeOK
  PROVE  /\ \A d \in DOMAIN row : Lines(row[d].logs) \in Nat
         /\ \A w \in DOMAIN proc : Lines(proc[w].logs) \in Nat
<1>1. ASSUME NEW d \in DOMAIN row PROVE Lines(row[d].logs) \in Nat
  <2>1. row[d] \in Row
    BY TableValue DEF TypeOK
  <2>2. row[d].logs \in Seq(Step)
    BY <2>1 DEF Row
  <2> QED
    BY <2>2, LinesType
<1>2. ASSUME NEW w \in DOMAIN proc PROVE Lines(proc[w].logs) \in Nat
  <2>1. proc[w] \in Invocation
    BY TableValue DEF TypeOK
  <2>2. proc[w].logs \in Seq(Step)
    BY <2>1 DEF Invocation
  <2> QED
    BY <2>2, LinesType
<1> QED
  BY <1>1, <1>2

LEMMA LinesOfEmpty == Lines(<<>>) = 0
<1>1. BuildLines(<<>>) = {}
  BY DEF BuildLines
<1> QED
  BY <1>1, FS_EmptySet DEF Lines

LEMMA LinesOfAppend ==
  ASSUME NEW logs \in Seq(Step), NEW line \in Step
  PROVE  Lines(Append(logs, line)) = IF line = "BUILDING" THEN Lines(logs) + 1 ELSE Lines(logs)
<1> DEFINE n == Len(logs) + 1
<1>1. /\ DOMAIN Append(logs, line) = 1..n
      /\ \A i \in 1..Len(logs) : Append(logs, line)[i] = logs[i]
      /\ Append(logs, line)[n] = line
      /\ DOMAIN logs = 1..Len(logs) /\ Len(logs) \in Nat
  OBVIOUS
<1>2. BuildLines(Append(logs, line)) =
        IF line = "BUILDING" THEN BuildLines(logs) \cup {n} ELSE BuildLines(logs)
  BY <1>1 DEF BuildLines
<1>3. n \notin BuildLines(logs)
  BY <1>1 DEF BuildLines
<1>4. IsFiniteSet(BuildLines(logs)) /\ Lines(logs) \in Nat
  BY LinesType
<1> HIDE DEF n
<1> QED
  BY <1>2, <1>3, <1>4, FS_AddElement DEF Lines

LEMMA BegunType ==
  /\ TypeOK => \A d : Begun(d) \in Nat
  /\ TypeOK' => \A d : Begun(d)' \in Nat
<1>1. ASSUME TypeOK, NEW d PROVE Begun(d) \in Nat
  <2>1. CASE d \in DOMAIN job
    <3>1. job[d] \in Job
      BY <1>1, <2>1, TableValue DEF TypeOK
    <3> QED
      BY <2>1, <3>1 DEF Begun, Job
  <2>2. CASE d \notin DOMAIN job
    BY <2>2, PipelineAssumption DEF Begun
  <2> QED
    BY <2>1, <2>2
<1>2. ASSUME TypeOK', NEW d PROVE Begun(d)' \in Nat
  <2>1. CASE d \in DOMAIN job'
    <3>1. job'[d] \in Job
      BY <1>2, <2>1, TableValue DEF TypeOK
    <3> QED
      BY <2>1, <3>1 DEF Begun, Job
  <2>2. CASE d \notin DOMAIN job'
    BY <2>2, PipelineAssumption DEF Begun
  <2> QED
    BY <2>1, <2>2
<1> QED
  BY <1>1, <1>2

\* Room is a number.
LEMMA RoomType ==
  ASSUME TypeOK, FewInvocations, NEW d
  PROVE  /\ IsFiniteSet(Fresh(d)) /\ Cardinality(Fresh(d)) \in Nat
         /\ Begun(d) \in Nat
         /\ Room(d) \in Int
<1>1. IsFiniteSet(DOMAIN proc) /\ Fresh(d) \subseteq DOMAIN proc
  BY DEF FewInvocations, Fresh
<1>2. IsFiniteSet(Fresh(d))
  BY <1>1, FS_Subset
<1>3. Cardinality(Fresh(d)) \in Nat
  BY <1>2, FS_CardinalityType
<1>4. Begun(d) \in Nat
  BY BegunType
<1> QED
  BY <1>2, <1>3, <1>4 DEF Room

\* A job is not handed out more often than attempts and stalls allow.
LEMMA BegunBounded ==
  ASSUME TypeOK, JobsWithinLimits, NEW d
  PROVE  Begun(d) <= MaxAttempts + MaxStalled
<1>1. CASE d \in DOMAIN job
  <2>1. job[d] \in Job
    BY <1>1, TableValue DEF TypeOK
  <2> QED
    BY <1>1, <2>1, PipelineAssumption DEF Begun, Job, Finished, JobsWithinLimits
<1>2. CASE d \notin DOMAIN job
  BY <1>2, PipelineAssumption DEF Begun
<1> QED
  BY <1>1, <1>2

\* Room grows when invocations stop being fresh, and when a job is pruned.
LEMMA RoomGrows ==
  ASSUME TypeOK, TypeOK', FewInvocations, NEW d,
         Begun(d)' >= Begun(d), Fresh(d)' \subseteq Fresh(d)
  PROVE  /\ Room(d)' \in Int /\ Room(d)' >= Room(d)
         /\ Fresh(d)' # Fresh(d) => Room(d)' >= Room(d) + 1
<1> DEFINE F == Fresh(d)
           G == Fresh(d)'
           b == Begun(d)
           c == Begun(d)'
<1>1. IsFiniteSet(F) /\ Cardinality(F) \in Nat /\ b \in Nat /\ c \in Nat /\ c >= b
  BY RoomType, BegunType
<1>2. Room(d) = b - Cardinality(F) /\ Room(d)' = c - Cardinality(G)
  BY DEF Room
<1>3. G \in SUBSET F
  OBVIOUS
<1> HIDE DEF F, G, b, c
<1>4. /\ IsFiniteSet(G) /\ Cardinality(G) <= Cardinality(F)
      /\ Cardinality(F) = Cardinality(G) => F = G
  BY <1>1, <1>3, FS_Subset
<1>5. Cardinality(G) \in Nat
  BY <1>4, FS_CardinalityType
<1>6. /\ Room(d)' \in Int /\ Room(d)' >= Room(d)
      /\ G # F => Room(d)' >= Room(d) + 1
  BY <1>1, <1>2, <1>4, <1>5
<1> QED
  BY <1>6 DEF F, G

RoomInv == RoomLeft /\ RowsWithinRoom /\ InvocationsWithinRoom

\* Where room does not shrink and no log grows all logs stay within it.
LEMMA LogsKept ==
  ASSUME TypeOK, TypeOK', FewInvocations, RoomInv,
         \A d \in Deployment : Room(d)' \in Int /\ Room(d)' >= Room(d),
         \A d \in DOMAIN row' :
           \/ row'[d].logs = <<>>
           \/ d \in DOMAIN row /\ row'[d].logs = row[d].logs,
         \A w \in DOMAIN proc' :
           \/ proc'[w].logs = <<>>
           \/ /\ w \in DOMAIN proc /\ proc'[w].id = proc[w].id
              /\ proc'[w].logs = proc[w].logs
           \/ /\ proc'[w].id \in DOMAIN row
              /\ proc'[w].logs = row[proc'[w].id].logs
  PROVE  RoomInv'
<1> USE DEF RoomInv
<1>1. \A d : Room(d) \in Int
  BY RoomType
<1>2. RoomLeft'
  BY <1>1 DEF RoomLeft
<1>3. \A d \in DOMAIN row : Lines(row[d].logs) \in Nat
  BY LinesHeld
<1>4. \A w \in DOMAIN proc : Lines(proc[w].logs) \in Nat
  BY LinesHeld
<1>5. ASSUME NEW d \in DOMAIN row' PROVE Lines(row'[d].logs) <= Room(d)'
  <2>1. d \in Deployment
    BY DEF TypeOK, Table
  <2>2. CASE row'[d].logs = <<>>
    BY <1>1, <2>1, <2>2, LinesOfEmpty DEF RoomLeft
  <2>3. CASE d \in DOMAIN row /\ row'[d].logs = row[d].logs
    <3>1. Lines(row[d].logs) <= Room(d) /\ Lines(row[d].logs) \in Nat
      BY <1>3, <2>3 DEF RowsWithinRoom
    <3> QED
      BY <1>1, <2>1, <2>3, <3>1
  <2> QED
    BY <2>2, <2>3
<1>6. ASSUME NEW w \in DOMAIN proc', NEW d, d = proc'[w].id
      PROVE  Lines(proc'[w].logs) <= Room(d)'
  <2>1. d \in Deployment
    BY <1>6, TableValue DEF TypeOK, Table, Invocation
  <2>2. CASE proc'[w].logs = <<>>
    BY <1>1, <2>1, <2>2, LinesOfEmpty DEF RoomLeft
  <2>3. CASE w \in DOMAIN proc /\ d = proc[w].id /\ proc'[w].logs = proc[w].logs
    <3>1. Lines(proc[w].logs) <= Room(d) /\ Lines(proc[w].logs) \in Nat
      BY <1>4, <2>3 DEF InvocationsWithinRoom
    <3> QED
      BY <1>1, <2>1, <2>3, <3>1
  <2>4. CASE d \in DOMAIN row /\ proc'[w].logs = row[d].logs
    <3>1. Lines(row[d].logs) <= Room(d) /\ Lines(row[d].logs) \in Nat
      BY <1>3, <2>4 DEF RowsWithinRoom
    <3> QED
      BY <1>1, <2>1, <2>4, <3>1
  <2> QED
    BY <1>6, <2>2, <2>3, <2>4
<1>7. InvocationsWithinRoom'
  BY <1>6 DEF InvocationsWithinRoom
<1> QED
  BY <1>2, <1>5, <1>7 DEF RowsWithinRoom

\* The write of one invocation, which is over it or goes on: its BUILDING line
\* takes the room it gives up.
LEMMA WriteWithinRoom ==
  ASSUME TypeOK, TypeOK', FewInvocations, RoomInv,
         NEW w \in DOMAIN proc, proc[w].pc = "write", Found(w), row' = Written(w),
         job' = job, request' = request,
         DOMAIN proc' = DOMAIN proc, \A v \in DOMAIN proc \ {w} : proc'[v] = proc[v],
         proc'[w].id = proc[w].id, proc'[w].logs = <<>>,
         proc'[w].target # "BUILDING" \/ proc'[w].pc = "throw"
  PROVE  RoomInv'
<1> USE DEF RoomInv
<1> DEFINE i == proc[w]
<1>1. /\ i \in Invocation /\ i.id \in Deployment /\ i.logs \in Seq(Step) /\ i.target \in Step
      /\ Lines(i.logs) \in Nat
  <2>1. i \in Invocation
    BY TableValue DEF TypeOK
  <2>2. i.logs \in Seq(Step)
    BY <2>1 DEF Invocation
  <2>3. Lines(i.logs) \in Nat
    BY <2>2, LinesType
  <2> QED
    BY <2>1, <2>2, <2>3 DEF Invocation
<1>2. \A d : Room(d) \in Int
  BY RoomType
<1>3. \A d : Begun(d)' >= Begun(d)
  BY BegunType DEF Begun, Enqueued
<1>4. \A d : Fresh(d)' \subseteq Fresh(d)
  BY DEF Fresh, Querying
<1>5. \A d : Room(d)' \in Int /\ Room(d)' >= Room(d)
  BY <1>3, <1>4, RoomGrows
<1>6. PICK e : e = i.id
  OBVIOUS
<1>7. Lines(Append(i.logs, i.target)) <= Room(e)' /\ Lines(Append(i.logs, i.target)) \in Nat
  <2>1. Lines(i.logs) <= Room(e)
    BY <1>6 DEF InvocationsWithinRoom
  <2>2. CASE i.target = "BUILDING"
    <3>1. w \in Fresh(e) /\ w \notin Fresh(e)'
      BY <1>6, <2>2 DEF Fresh, Querying
    <3>2. Room(e)' >= Room(e) + 1
      BY <1>3, <1>4, <3>1, RoomGrows
    <3>3. Lines(Append(i.logs, i.target)) = Lines(i.logs) + 1
      BY <1>1, <2>2, LinesOfAppend
    <3> HIDE DEF i
    <3> QED
      BY <1>1, <1>2, <1>5, <2>1, <3>2, <3>3
  <2>3. CASE i.target # "BUILDING"
    <3>1. Lines(Append(i.logs, i.target)) = Lines(i.logs)
      BY <1>1, <2>3, LinesOfAppend
    <3> HIDE DEF i
    <3> QED
      BY <1>1, <1>2, <1>5, <2>1, <3>1
  <2> QED
    BY <2>2, <2>3
<1>8. /\ DOMAIN row' = DOMAIN row
      /\ \A d \in DOMAIN row \ {e} : row'[d] = row[d]
      /\ row'[e].logs = Append(i.logs, i.target)
  BY <1>6, WrittenRow
<1>9. RoomLeft'
  BY <1>2, <1>5 DEF RoomLeft
<1>10. ASSUME NEW d \in DOMAIN row' PROVE Lines(row'[d].logs) <= Room(d)'
  <2>1. CASE d = e
    BY <1>7, <1>8, <2>1
  <2>2. CASE d # e
    <3>1. d \in DOMAIN row /\ row'[d].logs = row[d].logs
      BY <1>8, <2>2
    <3>2. Lines(row[d].logs) <= Room(d) /\ Lines(row[d].logs) \in Nat
      BY <3>1, LinesHeld DEF RowsWithinRoom
    <3> QED
      BY <1>2, <1>5, <3>1, <3>2
  <2> QED
    BY <2>1, <2>2
<1>11. ASSUME NEW v \in DOMAIN proc', NEW d, d = proc'[v].id
       PROVE  Lines(proc'[v].logs) <= Room(d)'
  <2>1. CASE v = w
    BY <1>1, <1>2, <1>5, <1>11, <2>1, LinesOfEmpty DEF RoomLeft
  <2>2. CASE v # w
    <3>1. v \in DOMAIN proc /\ proc'[v] = proc[v]
      BY <2>2
    <3>2. Lines(proc[v].logs) <= Room(d) /\ Lines(proc[v].logs) \in Nat
      BY <1>11, <3>1, LinesHeld DEF InvocationsWithinRoom
    <3> QED
      BY <1>2, <1>5, <3>1, <3>2
  <2> QED
    BY <2>1, <2>2
<1>12. InvocationsWithinRoom'
  BY <1>11 DEF InvocationsWithinRoom
<1> QED
  BY <1>9, <1>10, <1>12 DEF RowsWithinRoom

\* A step of process() leaves every log within its room.
LEMMA ProcessWithinRoom ==
  ASSUME BuildInv, TypeOK', NEW w \in Worker, Process(w)
  PROVE  FewInvocations' /\ RoomInv'
<1> USE DEF BuildInv, JobInv, RoomInv
<1>1. /\ DOMAIN proc' = DOMAIN proc /\ job' = job /\ request' = request
      /\ \A v \in DOMAIN proc : proc'[v].id = proc[v].id
  BY ProcessKeeps
<1>2. FewInvocations'
  BY <1>1 DEF FewInvocations
<1>3. w \in DOMAIN proc /\ proc[w] \in Invocation
  <2>1. w \in DOMAIN proc
    BY DEF Process, LoadRow, ReadLogs, WriteRow, RowMissing, QueryError, Querying
  <2> QED
    BY <2>1, TableValue DEF TypeOK
<1>4. \A v \in DOMAIN proc \ {w} : proc'[v] = proc[v]
  BY DEF Process, LoadRow, ReadLogs, WriteRow, RowMissing, QueryError, Raise
<1>5. \A d : Begun(d)' >= Begun(d)
  BY <1>1, BegunType DEF Begun, Enqueued
<1>6. ASSUME proc'[w].target = "BUILDING" /\ Querying(w)' =>
               proc[w].target = "BUILDING" /\ Querying(w),
             row' = row,
             \/ proc'[w].logs = <<>>
             \/ proc'[w].logs = proc[w].logs
             \/ Found(w) /\ proc'[w].logs = row[proc[w].id].logs
      PROVE  RoomInv'
  <2>1. \A d : Fresh(d)' \subseteq Fresh(d)
    BY <1>1, <1>4, <1>6 DEF Fresh, Querying
  <2>2. \A d : Room(d)' \in Int /\ Room(d)' >= Room(d)
    BY <1>5, <2>1, RoomGrows
  <2>3. ASSUME NEW v \in DOMAIN proc'
        PROVE  \/ proc'[v].logs = <<>>
               \/ /\ v \in DOMAIN proc /\ proc'[v].id = proc[v].id
                  /\ proc'[v].logs = proc[v].logs
               \/ /\ proc'[v].id \in DOMAIN row
                  /\ proc'[v].logs = row[proc'[v].id].logs
    BY <1>1, <1>4, <1>6 DEF Found
  <2> QED
    BY <1>6, <2>2, <2>3, LogsKept
<1>7. ASSUME Raise(w)
      PROVE  /\ proc'[w].logs = <<>>
             /\ proc'[w].target # "BUILDING" \/ proc'[w].pc = "throw"
             /\ ~(proc'[w].target = "BUILDING" /\ Querying(w)')
  <2>1. proc'[w] \in {Over(proc[w], "throw"), Onto(proc[w], "FAILED")}
    BY <1>3, <1>7 DEF Raise
  <2> QED
    BY <1>3, <2>1 DEF Over, Onto, Invocation, Querying
<1>8. CASE LoadRow(w)
  <2>1. /\ proc'[w].target = proc[w].target /\ proc'[w].logs = proc[w].logs
        /\ row' = row /\ Querying(w)
    BY <1>3, <1>8 DEF LoadRow, Invocation, Querying
  <2> QED
    BY <1>2, <1>6, <2>1
<1>9. CASE ReadLogs(w)
  <2>1. /\ proc'[w].target = proc[w].target /\ proc'[w].logs = row[proc[w].id].logs
        /\ row' = row /\ Querying(w) /\ Found(w)
    BY <1>3, <1>9 DEF ReadLogs, Invocation, Querying
  <2> QED
    BY <1>2, <1>6, <2>1
<1>10. CASE WriteRow(w)
  <2>1. /\ proc'[w] = AfterWrite(proc[w]) /\ row' = Written(w)
        /\ proc[w].pc = "write" /\ Found(w)
    BY <1>3, <1>10 DEF WriteRow
  <2>2. /\ proc'[w].logs = <<>>
        /\ proc'[w].target # "BUILDING" \/ proc'[w].pc = "throw"
    <3>1. CASE proc[w].target = "BUILDING"
      BY <1>3, <2>1, <3>1 DEF AfterWrite, Onto, Invocation
    <3>2. CASE proc[w].target = "DEPLOYING"
      BY <1>3, <2>1, <3>2 DEF AfterWrite, AfterDeploying, Onto, Invocation
    <3>3. CASE proc[w].target \in Terminal
      BY <1>3, <2>1, <3>3 DEF AfterWrite, Over, Invocation, Terminal
    <3> QED
      BY <1>3, <3>1, <3>2, <3>3 DEF Invocation, Step
  <2>3. RoomInv'
    BY <1>1, <1>3, <1>4, <2>1, <2>2, WriteWithinRoom
  <2> QED
    BY <1>2, <2>3
<1>11. CASE RowMissing(w)
  <2>1. Raise(w) /\ row' = row
    BY <1>11 DEF RowMissing
  <2> QED
    BY <1>2, <1>6, <1>7, <2>1
<1>12. CASE QueryError(w)
  <2>1. Raise(w)
    BY <1>12 DEF QueryError
  <2>2. CASE row' = row
    BY <1>2, <1>6, <1>7, <2>1, <2>2
  <2>3. CASE proc[w].pc = "write" /\ Found(w) /\ row' = Written(w)
    <3>1. RoomInv'
      BY <1>1, <1>3, <1>4, <1>7, <2>1, <2>3, WriteWithinRoom
    <3> QED
      BY <1>2, <3>1
  <2> QED
    BY <1>12, <2>2, <2>3 DEF QueryError
<1> QED
  BY <1>2, <1>8, <1>9, <1>10, <1>11, <1>12 DEF Process

\* Steps that hand nothing out and write nothing.
LEMMA NothingWritten ==
  ASSUME BuildInv, TypeOK',
         \A d : Begun(d)' >= Begun(d),
         \A w \in DOMAIN proc' : w \in DOMAIN proc /\ proc'[w] = proc[w],
         \A d \in DOMAIN row' :
           \/ row'[d].logs = <<>>
           \/ d \in DOMAIN row /\ row'[d].logs = row[d].logs
  PROVE  FewInvocations' /\ RoomInv'
<1> USE DEF BuildInv, JobInv, RoomInv
<1>1. DOMAIN proc' \in SUBSET DOMAIN proc
  OBVIOUS
<1>2. IsFiniteSet(DOMAIN proc')
  BY <1>1, FS_Subset DEF FewInvocations
<1>3. FewInvocations'
  BY <1>2 DEF FewInvocations
<1>4. \A d : Fresh(d)' \subseteq Fresh(d)
  BY DEF Fresh, Querying
<1>5. \A d : Room(d)' \in Int /\ Room(d)' >= Room(d)
  BY <1>4, RoomGrows
<1>6. \A w \in DOMAIN proc' : w \in DOMAIN proc /\ proc'[w].id = proc[w].id
                              /\ proc'[w].logs = proc[w].logs
  OBVIOUS
<1> QED
  BY <1>3, <1>5, <1>6, LogsKept

\* TakeJob hands a job out to an invocation that is fresh.
LEMMA TakeWithinRoom ==
  ASSUME BuildInv, TypeOK', NEW w \in Worker, NEW d \in Deployment, TakeJob(w, d)
  PROVE  FewInvocations' /\ RoomInv'
<1> USE DEF BuildInv, JobInv, RoomInv
<1>1. /\ d \in DOMAIN job /\ job[d] \in Job /\ job[d].state = "waiting"
      /\ w \notin DOMAIN proc
  BY TableValue DEF TakeJob, TypeOK
<1>2. /\ DOMAIN job' = DOMAIN job
      /\ \A e \in DOMAIN job \ {d} : job'[e] = job[e]
      /\ job'[d].state = "active"
      /\ job'[d].attemptsMade = job[d].attemptsMade
      /\ job'[d].stalled = job[d].stalled
  BY <1>1 DEF TakeJob, Job
<1>3. /\ DOMAIN proc' = DOMAIN proc \cup {w}
      /\ \A v \in DOMAIN proc : proc'[v] = proc[v]
      /\ proc'[w].id = d /\ proc'[w].logs = <<>>
      /\ proc'[w].pc = "load" /\ proc'[w].target = "BUILDING"
  BY <1>1 DEF TakeJob, Put
<1>4. FewInvocations'
  BY <1>1, <1>2, <1>3, FS_AddElement DEF FewInvocations
<1>5. \A e : e # d => Begun(e)' = Begun(e) /\ Fresh(e)' = Fresh(e)
  <2> TAKE e
  <2>1. e # d => Begun(e)' = Begun(e)
    BY <1>2 DEF Begun, Enqueued, TakeJob
  <2>2. e # d => Fresh(e)' = Fresh(e)
    BY <1>1, <1>3 DEF Fresh, Querying
  <2> QED
    BY <2>1, <2>2
<1>6. Begun(d)' = Begun(d) + 1
  BY <1>1, <1>2 DEF Begun, Job
<1>7. Fresh(d)' = Fresh(d) \cup {w} /\ w \notin Fresh(d)
  BY <1>1, <1>3 DEF Fresh, Querying
<1>8. Cardinality(Fresh(d)') = Cardinality(Fresh(d)) + 1
  BY <1>7, RoomType, FS_AddElement
<1>9. Room(d)' = Room(d)
  <2>1. Room(d) = Begun(d) - Cardinality(Fresh(d)) /\ Room(d)' = Begun(d)' - Cardinality(Fresh(d)')
    BY DEF Room
  <2>2. Begun(d) \in Nat /\ Cardinality(Fresh(d)) \in Nat
    BY RoomType
  <2> QED
    BY <1>6, <1>8, <2>1, <2>2
<1>10. \A e : e # d => Room(e)' = Room(e)
  BY <1>5 DEF Room
<1>11. \A e : Room(e)' \in Int /\ Room(e)' >= Room(e)
  BY <1>9, <1>10, RoomType
<1>12. row' = row
  BY DEF TakeJob
<1> QED
  BY <1>3, <1>4, <1>11, <1>12, LogsKept

\* Attempts and stalls are counted for every time a job was handed out, and
\* limit how often it is handed out again.
LEMMA JobCounts ==
  ASSUME BuildInv, TypeOK', [Next]_vars
  PROVE  /\ JobsWithinLimits'
         /\ \/ \E w \in Worker, d \in Deployment : TakeJob(w, d)
            \/ \A d : Begun(d)' >= Begun(d)
<1> USE DEF BuildInv, JobInv
<1> DEFINE Goal == JobsWithinLimits' /\ \A d : Begun(d)' >= Begun(d)
<1>1. ASSUME job' = job, \A d : Enqueued(d) => Enqueued(d)' PROVE Goal
  <2>1. \A d : Begun(d)' >= Begun(d)
    <3> TAKE d
    <3>1. CASE d \in DOMAIN job
      BY <1>1, <3>1, BegunType DEF Begun
    <3>2. CASE d \notin DOMAIN job
      BY <1>1, <3>2, PipelineAssumption DEF Begun
    <3> QED
      BY <3>1, <3>2
  <2> QED
    BY <1>1, <2>1 DEF JobsWithinLimits
<1>2. ASSUME NEW d \in DOMAIN job, d \in DOMAIN job', DOMAIN job' \subseteq DOMAIN job,
             request' = request,
             \A e \in DOMAIN job' : e # d => job'[e] = job[e],
             Begun(d)' = Begun(d),
             IF job'[d].state \in Finished
             THEN job'[d].attemptsMade + job'[d].stalled <= MaxAttempts + MaxStalled
             ELSE job'[d].attemptsMade < MaxAttempts /\ job'[d].stalled <= MaxStalled
      PROVE  Goal
  <2>1. \A e : Begun(e)' >= Begun(e)
    <3> TAKE e
    <3>1. CASE e = d
      BY <1>2, <3>1, BegunType
    <3>2. CASE e # d /\ e \in DOMAIN job'
      <4>1. Begun(e)' = Begun(e)
        BY <1>2, <3>2 DEF Begun
      <4> QED
        BY <4>1, BegunType
    <3>3. CASE e \in DOMAIN job \ DOMAIN job'
      <4>1. Enqueued(e)'
        BY <1>2, <3>3 DEF Enqueued, JobOfRequest
      <4>2. Begun(e)' = MaxAttempts + MaxStalled
        BY <3>3, <4>1 DEF Begun
      <4> QED
        BY <4>2, BegunBounded, BegunType, PipelineAssumption
    <3>4. CASE e \notin DOMAIN job
      <4>1. Begun(e)' = Begun(e)
        BY <1>2, <3>4 DEF Begun, Enqueued
      <4> QED
        BY <4>1, BegunType
    <3> QED
      BY <3>1, <3>2, <3>3, <3>4
  <2>2. ASSUME NEW e \in DOMAIN job'
        PROVE  IF job'[e].state \in {"completed", "failed"}
               THEN job'[e].attemptsMade + job'[e].stalled <= MaxAttempts + MaxStalled
               ELSE job'[e].attemptsMade < MaxAttempts /\ job'[e].stalled <= MaxStalled
    <3>1. CASE e = d
      BY <1>2, <3>1 DEF Finished
    <3>2. CASE e # d
      BY <1>2, <2>2, <3>2 DEF JobsWithinLimits
    <3> QED
      BY <3>1, <3>2
  <2> QED
    BY <2>1, <2>2 DEF JobsWithinLimits
<1>3. ASSUME NEW d \in Deployment, Enqueue(d) \/ EnqueueError(d) PROVE Goal
  <2>1. /\ d \notin DOMAIN job /\ ~Enqueued(d)
        /\ DOMAIN request' = DOMAIN request
        /\ \A e \in DOMAIN request : e # d => request'[e] = request[e]
    BY <1>3 DEF Enqueue, EnqueueError, Enqueued, JobOfRequest
  <2>2. CASE job' = job
    BY <1>1, <2>1, <2>2 DEF Enqueued
  <2>3. CASE job' = NewJob(d)
    <3>1. /\ DOMAIN job' = DOMAIN job \cup {d}
          /\ \A e \in DOMAIN job : job'[e] = job[e]
          /\ job'[d] = [state |-> "waiting", attemptsMade |-> 0, stalled |-> 0]
      BY <2>1, <2>3 DEF NewJob, Put
    <3>2. \A e : Begun(e)' = Begun(e)
      BY <2>1, <3>1 DEF Begun, Enqueued
    <3> QED
      BY <3>1, <3>2, BegunType, PipelineAssumption DEF JobsWithinLimits, Finished
  <2> QED
    BY <1>3, <2>2, <2>3 DEF Enqueue, EnqueueError
<1>4. ASSUME NEW w \in Worker, NEW pc, NEW state, Settle(w, pc, state),
             state \in {"completed", "delayed", "failed"}, state = "delayed" => AttemptsLeft(w)
      PROVE  Goal
  <2>1. PICK d : d = proc[w].id
    OBVIOUS
  <2>2. d \in DOMAIN job /\ job[d] \in Job /\ job[d].state = "active"
    BY <1>4, <2>1, TableValue DEF Settle, HoldsLock, LockOfActiveJob, TypeOK
  <2>3. /\ d \in DOMAIN job' /\ DOMAIN job' \subseteq DOMAIN job
        /\ \A e \in DOMAIN job' : e # d => job'[e] = job[e]
        /\ job'[d].attemptsMade = job[d].attemptsMade + 1
        /\ job'[d].stalled = job[d].stalled
        /\ job'[d].state = state
    BY <1>4, <2>1, <2>2, SettleKeeps
  <2>4. job[d].attemptsMade \in Nat /\ job[d].stalled \in Nat
    BY <2>2 DEF Job
  <2>5. job[d].attemptsMade < MaxAttempts /\ job[d].stalled <= MaxStalled
    BY <2>2 DEF JobsWithinLimits, Finished
  <2>6. Begun(d)' = Begun(d)
    BY <1>4, <2>2, <2>3, <2>4 DEF Begun
  <2>7. IF job'[d].state \in Finished
        THEN job'[d].attemptsMade + job'[d].stalled <= MaxAttempts + MaxStalled
        ELSE job'[d].attemptsMade < MaxAttempts /\ job'[d].stalled <= MaxStalled
    BY <1>4, <2>1, <2>3, <2>4, <2>5, PipelineAssumption DEF AttemptsLeft, Finished
  <2>8. request' = request
    BY <1>4 DEF Settle
  <2> QED
    BY <1>2, <2>2, <2>3, <2>6, <2>7, <2>8
<1>5. ASSUME NEW d \in Deployment, BackoffOver(d) \/ StalledCheck(d) PROVE Goal
  <2> DEFINE j == job[d]
  <2>1. d \in DOMAIN job /\ j \in Job
    BY <1>5, TableValue DEF BackoffOver, StalledCheck, TypeOK
  <2>2. j.attemptsMade \in Nat /\ j.stalled \in Nat
    BY <2>1 DEF Job
  <2>3. CASE BackoffOver(d)
    <3>1. /\ DOMAIN job' = DOMAIN job /\ request' = request
          /\ \A e \in DOMAIN job' : e # d => job'[e] = job[e]
          /\ j.state = "delayed" /\ job'[d].state = "waiting"
          /\ job'[d].attemptsMade = j.attemptsMade /\ job'[d].stalled = j.stalled
      BY <2>1, <2>3 DEF BackoffOver, Job
    <3>2. j.attemptsMade < MaxAttempts /\ j.stalled <= MaxStalled
      BY <2>1, <3>1 DEF JobsWithinLimits, Finished
    <3>3. Begun(d)' = Begun(d)
      BY <2>1, <3>1 DEF Begun
    <3> QED
      BY <1>2, <2>1, <3>1, <3>2, <3>3 DEF Finished
  <2>4. CASE StalledCheck(d)
    <3>1. /\ d \in DOMAIN job' /\ DOMAIN job' \subseteq DOMAIN job
          /\ \A e \in DOMAIN job' : e # d => job'[e] = job[e]
          /\ j.state = "active" /\ request' = request
          /\ job'[d].state = IF j.stalled < MaxStalled THEN "waiting" ELSE "failed"
          /\ job'[d].attemptsMade = j.attemptsMade /\ job'[d].stalled = j.stalled + 1
      <4>1. j.state = "active" /\ request' = request
        BY <2>4 DEF StalledCheck
      <4> QED
        BY <2>4, <4>1, StalledKeeps
    <3>2. j.attemptsMade < MaxAttempts /\ j.stalled <= MaxStalled
      BY <2>1, <3>1 DEF JobsWithinLimits, Finished
    <3>3. Begun(d)' = Begun(d)
      BY <2>1, <2>2, <3>1 DEF Begun
    <3>4. IF job'[d].state \in Finished
          THEN job'[d].attemptsMade + job'[d].stalled <= MaxAttempts + MaxStalled
          ELSE job'[d].attemptsMade < MaxAttempts /\ job'[d].stalled <= MaxStalled
      BY <2>2, <3>1, <3>2, PipelineAssumption DEF Finished
    <3> QED
      BY <1>2, <2>1, <3>1, <3>3, <3>4
  <2> QED
    BY <1>5, <2>3, <2>4
<1>6. ASSUME NEW w \in Worker, NEW d \in Deployment, TakeJob(w, d) PROVE JobsWithinLimits'
  <2>1. d \in DOMAIN job /\ job[d] \in Job /\ job[d].state = "waiting"
    BY <1>6, TableValue DEF TakeJob, TypeOK
  <2>2. /\ DOMAIN job' = DOMAIN job
        /\ \A e \in DOMAIN job \ {d} : job'[e] = job[e]
        /\ job'[d].state = "active"
        /\ job'[d].attemptsMade = job[d].attemptsMade
        /\ job'[d].stalled = job[d].stalled
    BY <1>6, <2>1 DEF TakeJob, Job
  <2> QED
    BY <2>1, <2>2 DEF JobsWithinLimits, Finished
<1>7. ASSUME NEW w \in Worker, Process(w) PROVE Goal
  BY <1>1, <1>7, ProcessKeeps DEF Enqueued
<1> HIDE DEF Goal
<1>8. ASSUME NEW w \in Worker, JobCompleted(w) \/ JobRetried(w) \/ JobFailed(w) PROVE Goal
  <2>1. CASE JobCompleted(w)
    BY <1>4, <2>1 DEF JobCompleted
  <2>2. CASE JobRetried(w)
    BY <1>4, <2>2 DEF JobRetried
  <2>3. CASE JobFailed(w)
    BY <1>4, <2>3 DEF JobFailed
  <2> QED
    BY <1>8, <2>1, <2>2, <2>3
<1>9. ASSUME NEW d \in Deployment, Trigger(d) \/ Timers(d) PROVE Goal
  <2>1. ASSUME NEW p \in Project, NEW sha \in CommitSha, AssertProjectOwned(d, p, sha)
        PROVE  Goal
    <3>1. ~Enqueued(d) /\ job' = job
      BY <2>1 DEF AssertProjectOwned, Enqueued
    <3>2. \A e \in DOMAIN request : e \in DOMAIN request' /\ request'[e] = request[e]
      BY <2>1 DEF AssertProjectOwned, Put
    <3> QED
      BY <1>1, <3>1, <3>2 DEF Enqueued
  <2>2. CASE CreateRow(d) \/ CreateRowError(d)
    <3>1. ~Enqueued(d) /\ job' = job
      BY <2>2 DEF CreateRow, CreateRowError, Enqueued
    <3>2. \A e \in DOMAIN request :
            e \in DOMAIN request' /\ (e # d => request'[e] = request[e])
      BY <2>2 DEF CreateRow, CreateRowError
    <3> QED
      BY <1>1, <3>1, <3>2 DEF Enqueued
  <2>3. CASE LockExpires(d)
    BY <1>1, <2>3 DEF LockExpires, Enqueued
  <2> QED
    BY <1>3, <1>5, <1>9, <2>1, <2>2, <2>3 DEF Trigger, Timers
<1>10. ASSUME NEW w \in Worker, OutcomeDiscarded(w) PROVE Goal
  BY <1>1, <1>10 DEF OutcomeDiscarded, Enqueued
<1>11. ASSUME NEW p \in Project, RemoveProject(p) PROVE Goal
  BY <1>1, <1>11 DEF RemoveProject, Enqueued
<1>12. ASSUME Crash \/ UNCHANGED vars PROVE Goal
  <2>1. CASE Crash
    <3>1. \A d \in DOMAIN request : request[d] \in Request
      BY TableValue DEF TypeOK
    <3>2. \A d : Enqueued(d) => Enqueued(d)'
      BY <2>1, <3>1 DEF Crash, Enqueued, Request
    <3> QED
      BY <1>1, <2>1, <3>2 DEF Crash
  <2>2. CASE UNCHANGED vars
    BY <1>1, <2>2 DEF vars, Enqueued
  <2> QED
    BY <1>12, <2>1, <2>2
<1>13. Goal \/ (JobsWithinLimits' /\ \E w \in Worker, d \in Deployment : TakeJob(w, d))
  BY <1>6, <1>7, <1>8, <1>9, <1>10, <1>11, <1>12 DEF Next, Queue
<1> QED
  BY <1>13 DEF Goal

\* The invariant is inductive under all faults.
LEMMA BuildInvInductive ==
  ASSUME BuildInv, TypeOK', [Next]_vars
  PROVE  BuildInv'
<1> SUFFICES FewInvocations' /\ RoomInv'
  BY JobInvInductive, JobCounts DEF BuildInv, RoomInv
<1>1. CASE \E w \in Worker, d \in Deployment : TakeJob(w, d)
  BY <1>1, TakeWithinRoom
<1>2. CASE \E w \in Worker : Process(w)
  BY <1>2, ProcessWithinRoom
<1>3. ASSUME ~\E w \in Worker, d \in Deployment : TakeJob(w, d)
      PROVE  \A d : Begun(d)' >= Begun(d)
  BY <1>3, JobCounts
<1> DEFINE Quiet == /\ \A w \in DOMAIN proc' : w \in DOMAIN proc /\ proc'[w] = proc[w]
                    /\ \A d \in DOMAIN row' :
                         \/ row'[d].logs = <<>>
                         \/ d \in DOMAIN row /\ row'[d].logs = row[d].logs
<1>4. ASSUME NEW d \in Deployment, Trigger(d) \/ Timers(d) PROVE Quiet
  <2>1. CASE CreateRow(d) \/ CreateRowError(d)
    BY <2>1 DEF CreateRow, CreateRowError, NewRow, Put
  <2>2. CASE Enqueue(d) \/ EnqueueError(d)
    BY <2>2 DEF Enqueue, EnqueueError, NewJob, Put
  <2>3. CASE Timers(d)
    BY <2>3 DEF Timers, BackoffOver, StalledCheck, LockExpires
  <2> QED
    BY <1>4, <2>1, <2>2, <2>3 DEF Trigger, AssertProjectOwned
<1>5. ASSUME NEW w \in Worker,
             JobCompleted(w) \/ JobRetried(w) \/ JobFailed(w) \/ OutcomeDiscarded(w)
      PROVE  Quiet
  BY <1>5 DEF JobCompleted, JobRetried, JobFailed, OutcomeDiscarded, Settle, Drop, Restrict
<1>6. ASSUME NEW p \in Project, RemoveProject(p) PROVE Quiet
  BY <1>6 DEF RemoveProject, Restrict
<1>7. CASE Crash \/ UNCHANGED vars
  <2>1. Quiet
    BY <1>7 DEF Crash, Empty, vars
  <2> QED
    BY <1>1, <1>3, <2>1, NothingWritten
<1> HIDE DEF Quiet
<1>8. \/ \E w \in Worker, d \in Deployment : TakeJob(w, d)
      \/ \E w \in Worker : Process(w)
      \/ Crash \/ UNCHANGED vars
      \/ Quiet
  BY <1>4, <1>5, <1>6 DEF Next, Queue
<1>9. CASE Quiet
  BY <1>1, <1>3, <1>9, NothingWritten DEF Quiet
<1> QED
  BY <1>1, <1>2, <1>7, <1>8, <1>9

LEMMA BuildInvariant == Spec => [](BuildInv /\ TypeOK)
<1>1. Init => BuildInv
  <2> SUFFICES ASSUME Init PROVE BuildInv
    OBVIOUS
  <2>1. TypeOK
    BY PipelineAssumption, EmptyTable DEF Init, Empty, TypeOK, JobOfRequest
  <2>2. IsFiniteSet(DOMAIN proc)
    BY FS_EmptySet DEF Init, Empty
  <2>3. \A d : Room(d) = 0
    <3>1. \A d : Fresh(d) = {} /\ Begun(d) = 0
      BY DEF Init, Empty, Fresh, Begun, Enqueued
    <3> QED
      BY <3>1, FS_EmptySet DEF Room
  <2> QED
    BY <2>1, <2>2, <2>3
    DEF Init, Empty, BuildInv, JobInv, JobOfRequest, LockOfActiveJob, JobsWithinLimits,
        FewInvocations, RoomLeft, RowsWithinRoom, InvocationsWithinRoom
<1>2. BuildInv /\ TypeOK' /\ [Next]_vars => BuildInv'
  BY BuildInvInductive
<1> QED
  BY <1>1, <1>2, Typing, PTL DEF Spec

\* No deployment is built more than MaxAttempts + MaxStalled times
\* (BuildsBounded), with any number of slots and under all faults, lost locks
\* included: the retry policy counts every time process() is called, and a call
\* adds one BUILDING line at most to the longest log there is.
THEOREM BuildsWithinPolicy == Spec => []BuildsBounded
<1>1. BuildInv => BuildsBounded
  <2> SUFFICES ASSUME BuildInv, NEW d \in DOMAIN row
               PROVE  Builds(d) <= MaxAttempts + MaxStalled
    BY DEF BuildsBounded
  <2>1. Builds(d) = Lines(row[d].logs)
    BY DEF Builds, Lines, BuildLines
  <2>2. Lines(row[d].logs) \in Nat /\ Lines(row[d].logs) <= Room(d)
    BY LinesHeld DEF BuildInv, JobInv, RowsWithinRoom
  <2>3. Room(d) = Begun(d) - Cardinality(Fresh(d))
    BY DEF Room
  <2>4. Begun(d) \in Nat /\ Cardinality(Fresh(d)) \in Nat
    BY RoomType DEF BuildInv, JobInv
  <2>5. Begun(d) <= MaxAttempts + MaxStalled
    BY BegunBounded DEF BuildInv, JobInv
  <2> QED
    BY <2>1, <2>2, <2>3, <2>4, <2>5, PipelineAssumption
<1> QED
  BY <1>1, BuildInvariant, PTL

-----------------------------------------------------------------------------
(* 8. The refinement.  Each step of the pipeline changes what a poll answers as  *)
(* one step of DeploymentLifecycle, or not at all.                            *)

\* The status of a row is the last line of its log.
StatusFollowsLog ==
  \A d \in DOMAIN row :
    /\ row[d].logs = <<>> => row[d].status = "PENDING"
    /\ row[d].logs # <<>> => row[d].status = row[d].logs[Len(row[d].logs)]

\* The invocation of slot w writes its row, and nothing but proc changes besides.
Writes(w) ==
  /\ w \in DOMAIN proc /\ proc[w].pc = "write" /\ Found(w)
  /\ row' = Written(w) /\ request' = request

\* The builds of a row are the BUILDING lines of its log, before and after a step.
LEMMA BuiltLines ==
  /\ \A d : Built(d) = IF d \in DOMAIN row THEN Lines(row[d].logs) ELSE 0
  /\ \A d : Built(d)' = IF d \in DOMAIN row' THEN Lines(row'[d].logs) ELSE 0
  BY DEF Built, Builds, Lines, BuildLines

\* Where rows stay and no request passes its insert nothing is seen.
LEMMA NothingSeen ==
  ASSUME row' = row, DOMAIN request' = DOMAIN request,
         \A d \in DOMAIN request : request'[d].pc = "owned" <=> request[d].pc = "owned"
  PROVE  UNCHANGED <<polled, built>>
<1>1. \A d : Polled(d)' = Polled(d)
  BY DEF Polled
<1>2. \A d : Built(d)' = Built(d)
  BY BuiltLines
<1> QED
  BY <1>1, <1>2 DEF polled, built

\* Requests that end without a row are rejected.
LEMMA RejectedSeen ==
  ASSUME NEW D \in SUBSET Deployment, row' = row,
         \A d \in D : Polled(d) = "absent" /\ Polled(d)' = "gone",
         \A d \in Deployment \ D : Polled(d)' = Polled(d)
  PROVE  CutShortLifecycle!Reject(D)
<1>1. \A d : Built(d)' = Built(d)
  BY BuiltLines
<1> QED
  BY <1>1 DEF CutShortLifecycle!Reject, polled, built

\* A row that appears is created.
LEMMA CreatedSeen ==
  ASSUME RowInv, NEW d \in Deployment, d \in DOMAIN request, request[d].pc = "owned",
         row' = NewRow(d), \E pc : pc # "owned" /\ request' = [request EXCEPT ![d].pc = pc]
  PROVE  CutShortLifecycle!Create(d)
<1>1. d \notin DOMAIN row
  BY DEF RowInv, RowOfRequest
<1>2. /\ DOMAIN row' = DOMAIN row \cup {d}
      /\ \A e \in DOMAIN row : row'[e] = row[e]
      /\ row'[d].status = "PENDING" /\ row'[d].logs = <<>>
  BY <1>1 DEF NewRow, Put
<1>3. \A e : Built(e)' = Built(e)
  BY <1>1, <1>2, BuiltLines, LinesOfEmpty
<1>4. Polled(d) = "absent" /\ Polled(d)' = "PENDING"
  BY <1>1, <1>2 DEF Polled
<1>5. \A e \in Deployment \ {d} : Polled(e)' = Polled(e)
  BY <1>2 DEF Polled
<1> QED
  BY <1>3, <1>4, <1>5 DEF CutShortLifecycle!Create, polled, built

\* What a poll sees of a step of trigger().
LEMMA TriggerSeen ==
  ASSUME RowInv, NEW d \in Deployment, Trigger(d)
  PROVE  \/ CutShortLifecycle!Create(d)
         \/ \E D \in SUBSET Deployment : CutShortLifecycle!Reject(D)
         \/ UNCHANGED <<polled, built>>
<1> USE DEF RowInv, LockInv
<1>1. ASSUME NEW p \in Project, NEW sha \in CommitSha, AssertProjectOwned(d, p, sha)
      PROVE  \/ CutShortLifecycle!Reject({d})
             \/ UNCHANGED <<polled, built>>
  <2>1. /\ d \notin DOMAIN request /\ d \notin DOMAIN row /\ row' = row
        /\ DOMAIN request' = DOMAIN request \cup {d}
        /\ \A e \in DOMAIN request : request'[e] = request[e]
        /\ request'[d].pc = IF p \in projects THEN "owned" ELSE "404"
    BY <1>1 DEF AssertProjectOwned, Put, RowOfRequest
  <2>2. \A e \in Deployment \ {d} : Polled(e)' = Polled(e)
    BY <2>1 DEF Polled
  <2>3. /\ Polled(d) = "absent"
        /\ Polled(d)' = IF p \in projects THEN "absent" ELSE "gone"
    BY <2>1 DEF Polled
  <2>4. \A e : Built(e)' = Built(e)
    BY <2>1, BuiltLines
  <2>5. CASE p \in projects
    BY <2>2, <2>3, <2>4, <2>5 DEF polled, built
  <2>6. CASE p \notin projects
    BY <2>1, <2>2, <2>3, <2>6, RejectedSeen
  <2> QED
    BY <2>5, <2>6
<1>2. CASE CreateRow(d) \/ CreateRowError(d)
  <2>1. /\ d \in DOMAIN request /\ request[d].pc = "owned" /\ request[d] \in Request
        /\ d \notin DOMAIN row
    BY <1>2, TableValue DEF CreateRow, CreateRowError, RowOfRequest, TypeOK
  <2>2. \E pc : pc # "owned" /\ request' = [request EXCEPT ![d].pc = pc]
    BY <1>2 DEF CreateRow, CreateRowError
  <2>3. CASE row' = NewRow(d)
    BY <2>1, <2>2, <2>3, CreatedSeen
  <2>4. CASE row' = row
    <3>1. /\ DOMAIN request' = DOMAIN request /\ request'[d].pc # "owned"
          /\ \A e \in DOMAIN request \ {d} : request'[e] = request[e]
      BY <2>1, <2>2 DEF Request
    <3>2. Polled(d) = "absent" /\ Polled(d)' = "gone"
      BY <2>1, <2>4, <3>1 DEF Polled
    <3>3. \A e \in Deployment \ {d} : Polled(e)' = Polled(e)
      BY <2>4, <3>1 DEF Polled
    <3>4. CutShortLifecycle!Reject({d})
      BY <2>4, <3>2, <3>3, RejectedSeen
    <3> QED
      BY <3>4
  <2> QED
    BY <1>2, <2>3, <2>4 DEF CreateRow, CreateRowError
<1>3. CASE Enqueue(d) \/ EnqueueError(d)
  <2>1. d \in DOMAIN request /\ request[d].pc = "created" /\ request[d] \in Request
    BY <1>3, TableValue DEF Enqueue, EnqueueError, TypeOK
  <2>2. /\ row' = row /\ DOMAIN request' = DOMAIN request /\ request'[d].pc # "owned"
        /\ \A e \in DOMAIN request \ {d} : request'[e] = request[e]
    BY <1>3, <2>1 DEF Enqueue, EnqueueError, Request
  <2> QED
    BY <2>1, <2>2, NothingSeen
<1> QED
  BY <1>1, <1>2, <1>3 DEF Trigger

\* What a poll sees when a project and its rows go.
LEMMA DeletionSeen ==
  ASSUME RowInv, NEW p \in Project, RemoveProject(p)
  PROVE  \E D \in SUBSET Deployment : CutShortLifecycle!Delete(D)
<1> DEFINE D == {d \in DOMAIN row : row[d].project = p}
<1>1. \A d \in DOMAIN row :
        d \in Deployment /\ row[d] \in Row /\ d \in DOMAIN request /\ request[d].pc # "owned"
  BY TableValue DEF RowInv, LockInv, TypeOK, RowOfRequest
<1>2. /\ DOMAIN row' = DOMAIN row \ D /\ request' = request
      /\ \A d \in DOMAIN row' : row'[d] = row[d]
  BY DEF RemoveProject, Restrict
<1>3. D \subseteq Deployment /\ D \subseteq DOMAIN row
  BY <1>1
<1> HIDE DEF D
<1>4. \A d \in D : Polled(d) \in CutShortLifecycle!Visible /\ Polled(d)' = "gone"
  BY <1>1, <1>2, <1>3
  DEF Polled, CutShortLifecycle!Visible, Row, Status, Step, Terminal
<1>5. \A d \in Deployment \ D : Polled(d)' = Polled(d)
  BY <1>2 DEF Polled
<1>6. \A d \in D : Built(d)' = 0
  BY <1>2, BuiltLines
<1>7. \A d \in Deployment \ D : Built(d)' = Built(d)
  BY <1>2, BuiltLines
<1>8. CutShortLifecycle!Delete(D)
  <2>1. \A d \in D : polled[d] \in CutShortLifecycle!Visible
    BY <1>3, <1>4 DEF polled
  <2>2. polled' = [d \in Deployment |-> IF d \in D THEN "gone" ELSE polled[d]]
    BY <1>4, <1>5 DEF polled
  <2>3. built' = [d \in Deployment |-> IF d \in D THEN 0 ELSE built[d]]
    BY <1>6, <1>7 DEF built
  <2> QED
    BY <2>1, <2>2, <2>3 DEF CutShortLifecycle!Delete
<1> QED
  BY <1>3, <1>8

\* A crash ends the requests that have no row yet, and is not seen otherwise.
LEMMA CrashSeen ==
  ASSUME RowInv, Crash
  PROVE  \E D \in SUBSET Deployment : CutShortLifecycle!Reject(D)
<1> DEFINE D == {d \in DOMAIN request : request[d].pc = "owned"}
<1>1. \A d \in DOMAIN request : d \in Deployment /\ request[d] \in Request
  BY TableValue DEF RowInv, LockInv, TypeOK
<1>2. /\ row' = row /\ DOMAIN request' = DOMAIN request
      /\ \A d \in DOMAIN request : request'[d].pc # "owned"
  BY <1>1 DEF Crash, Request
<1>3. \A d \in D : d \notin DOMAIN row
  BY DEF RowInv, RowOfRequest
<1>4. \A d \in D : Polled(d) = "absent" /\ Polled(d)' = "gone"
  BY <1>2, <1>3 DEF Polled
<1>5. \A d \in Deployment \ D : Polled(d)' = Polled(d)
  BY <1>2 DEF Polled
<1>6. D \in SUBSET Deployment
  BY <1>1
<1> HIDE DEF D
<1>7. CutShortLifecycle!Reject(D)
  BY <1>2, <1>4, <1>5, <1>6, RejectedSeen
<1> QED
  BY <1>6, <1>7

\* Every step that writes no row.
LEMMA OtherStepsSeen ==
  ASSUME RowInv, [Next]_vars, ~ \E w \in DOMAIN proc : Writes(w)
  PROVE  \/ \E d \in Deployment : CutShortLifecycle!Create(d)
         \/ \E D \in SUBSET Deployment :
              CutShortLifecycle!Reject(D) \/ CutShortLifecycle!Delete(D)
         \/ UNCHANGED <<polled, built>>
<1>1. CASE row' = row /\ request' = request
  BY <1>1, NothingSeen
<1>2. ASSUME NEW d \in Deployment, Timers(d) PROVE row' = row /\ request' = request
  BY <1>2 DEF Timers, BackoffOver, StalledCheck, LockExpires
<1>3. ASSUME NEW w \in Worker, Queue(w) PROVE row' = row /\ request' = request
  BY <1>3 DEF Queue, TakeJob, JobCompleted, JobRetried, JobFailed, Settle, OutcomeDiscarded
<1>4. ASSUME NEW w \in Worker, Process(w) PROVE row' = row /\ request' = request
  BY <1>4
  DEF Process, LoadRow, ReadLogs, WriteRow, RowMissing, QueryError, Querying, Writes
<1>5. UNCHANGED vars => row' = row /\ request' = request
  BY DEF vars
<1> QED
  BY <1>1, <1>2, <1>3, <1>4, <1>5, TriggerSeen, DeletionSeen, CrashSeen DEF Next

\* What a poll sees of a write: the status moves on to the target, and DEPLOYING
\* and SUCCESS come after the step before them.
LEMMA WriteSeen ==
  ASSUME RowInv, StatusFollowsLog, NEW w \in DOMAIN proc, Writes(w),
         NEW d, d = proc[w].id
  PROVE  /\ d \in Deployment /\ proc[w].target \in Step
         /\ polled[d] \in CutShortLifecycle!Visible
         /\ polled' = [polled EXCEPT ![d] = proc[w].target]
         /\ built[d] \in Nat
         /\ built' = IF proc[w].target = "BUILDING"
                     THEN [built EXCEPT ![d] = @ + 1] ELSE built
         /\ proc[w].target = "DEPLOYING" => polled[d] = "BUILDING"
         /\ proc[w].target = "SUCCESS" => polled[d] = "DEPLOYING"
<1> USE DEF RowInv, LockInv
<1>1. /\ d \in DOMAIN row /\ d \in Deployment /\ row[d] \in Row /\ proc[w] \in Invocation
      /\ row[d].logs \in Seq(Step) /\ proc[w].target \in Step
  <2>1. d \in DOMAIN row /\ proc[w] \in Invocation
    BY TableValue DEF Writes, Found, TypeOK
  <2>2. d \in Deployment /\ row[d] \in Row
    BY <2>1, TableValue DEF TypeOK
  <2> QED
    BY <2>1, <2>2 DEF Row, Invocation
<1>2. /\ proc[w].logs = row[d].logs
      /\ proc[w].target = "DEPLOYING" => EndsIn(row[d].logs, "BUILDING")
      /\ proc[w].target = "SUCCESS" => EndsIn(row[d].logs, "DEPLOYING")
  BY DEF Writes, InvocationsWork, Working, LogsCurrent, Aimed
<1>3. /\ DOMAIN row' = DOMAIN row /\ request' = request
      /\ \A e \in DOMAIN row \ {d} : row'[e] = row[e]
      /\ row'[d].status = proc[w].target
      /\ row'[d].logs = Append(row[d].logs, proc[w].target)
  BY <1>2, WrittenRow DEF Writes
<1>4. /\ polled[d] = row[d].status /\ built[d] = Lines(row[d].logs)
      /\ Lines(row[d].logs) \in Nat
  BY <1>1, BuiltLines, LinesType DEF polled, Polled, built
<1>5. polled' = [polled EXCEPT ![d] = proc[w].target]
  <2>1. Polled(d)' = proc[w].target
    BY <1>1, <1>3 DEF Polled
  <2>2. \A e \in Deployment \ {d} : Polled(e)' = Polled(e)
    BY <1>3 DEF Polled
  <2> QED
    BY <1>1, <2>1, <2>2 DEF polled
<1>6. built' = IF proc[w].target = "BUILDING" THEN [built EXCEPT ![d] = @ + 1] ELSE built
  <2>1. Built(d)' = IF proc[w].target = "BUILDING" THEN built[d] + 1 ELSE built[d]
    <3>1. Built(d)' = Lines(Append(row[d].logs, proc[w].target))
      BY <1>1, <1>3, BuiltLines
    <3> QED
      BY <1>1, <1>4, <3>1, LinesOfAppend
  <2>2. \A e \in Deployment \ {d} : Built(e)' = Built(e)
    BY <1>3, BuiltLines
  <2>3. built = [built EXCEPT ![d] = @]
    BY DEF built
  <2> QED
    BY <1>1, <2>1, <2>2, <2>3 DEF built
<1>7. polled[d] \in CutShortLifecycle!Visible
  BY <1>1, <1>4 DEF CutShortLifecycle!Visible, Row, Status, Step, Terminal
<1>8. /\ proc[w].target = "DEPLOYING" => polled[d] = "BUILDING"
      /\ proc[w].target = "SUCCESS" => polled[d] = "DEPLOYING"
  BY <1>1, <1>2, <1>4 DEF StatusFollowsLog, EndsIn
<1> QED
  BY <1>1, <1>4, <1>5, <1>6, <1>7, <1>8

\* The status stays the last line of the log: no step writes one without the other.
LEMMA StatusFollowsLogInductive ==
  ASSUME TypeOK, StatusFollowsLog, [Next]_vars
  PROVE  StatusFollowsLog'
<1>1. ASSUME NEW w \in DOMAIN proc, Writes(w) PROVE StatusFollowsLog'
  <2>1. PICK d : d = proc[w].id
    OBVIOUS
  <2>2. proc[w] \in Invocation
    BY TableValue DEF TypeOK
  <2>3. proc[w].logs \in Seq(Step) /\ proc[w].target \in Step
    BY <2>2 DEF Invocation
  <2>4. /\ DOMAIN row' = DOMAIN row
        /\ \A e \in DOMAIN row \ {d} : row'[e] = row[e]
        /\ row'[d].status = proc[w].target
        /\ row'[d].logs = Append(proc[w].logs, proc[w].target)
    BY <1>1, <2>1, WrittenRow DEF Writes
  <2>5. row'[d].logs # <<>> /\ row'[d].logs[Len(row'[d].logs)] = proc[w].target
    <3>1. /\ Len(Append(proc[w].logs, proc[w].target)) = Len(proc[w].logs) + 1
          /\ Append(proc[w].logs, proc[w].target)[Len(proc[w].logs) + 1] = proc[w].target
          /\ Len(proc[w].logs) \in Nat
      BY <2>3
    <3>2. Append(proc[w].logs, proc[w].target) # <<>>
      <4>1. SUFFICES ASSUME Append(proc[w].logs, proc[w].target) = <<>> PROVE FALSE
        OBVIOUS
      <4>2. Len(Append(proc[w].logs, proc[w].target)) = 0
        BY <4>1
      <4> QED
        BY <3>1, <4>2
    <3> QED
      BY <2>4, <3>1, <3>2
  <2> QED
    BY <2>4, <2>5 DEF StatusFollowsLog
<1>2. ASSUME NEW d \in Deployment, row' = NewRow(d) PROVE StatusFollowsLog'
  <2>1. \A e \in DOMAIN row' :
          \/ e \in DOMAIN row /\ row'[e] = row[e]
          \/ row'[e].status = "PENDING" /\ row'[e].logs = <<>>
    BY <1>2 DEF NewRow, Put
  <2> QED
    BY <2>1 DEF StatusFollowsLog
<1>3. ASSUME NEW p \in Project, RemoveProject(p) PROVE StatusFollowsLog'
  BY <1>3 DEF RemoveProject, Restrict, StatusFollowsLog
<1>4. CASE row' = row
  BY <1>4 DEF StatusFollowsLog
<1>5. ASSUME NEW d \in Deployment, Trigger(d) PROVE row' = row \/ row' = NewRow(d)
  BY <1>5
  DEF Trigger, AssertProjectOwned, CreateRow, CreateRowError, Enqueue, EnqueueError
<1>6. ASSUME NEW w \in Worker, Process(w) PROVE row' = row \/ (w \in DOMAIN proc /\ Writes(w))
  <2>1. CASE LoadRow(w) \/ ReadLogs(w) \/ RowMissing(w)
    BY <2>1 DEF LoadRow, ReadLogs, RowMissing
  <2>2. CASE WriteRow(w)
    BY <2>2 DEF WriteRow, Writes
  <2>3. CASE QueryError(w)
    BY <2>3 DEF QueryError, Querying, Writes
  <2> QED
    BY <1>6, <2>1, <2>2, <2>3 DEF Process
<1>7. ASSUME NEW d \in Deployment, Timers(d) PROVE row' = row
  BY <1>7 DEF Timers, BackoffOver, StalledCheck, LockExpires
<1>8. ASSUME NEW w \in Worker, Queue(w) PROVE row' = row
  BY <1>8 DEF Queue, TakeJob, JobCompleted, JobRetried, JobFailed, Settle, OutcomeDiscarded
<1>9. Crash \/ UNCHANGED vars => row' = row
  BY DEF Crash, vars
<1> QED
  BY <1>1, <1>2, <1>3, <1>4, <1>5, <1>6, <1>7, <1>8, <1>9 DEF Next

LEMMA StatusFollowsLogInvariant == Spec => []StatusFollowsLog
<1>1. Init => StatusFollowsLog
  BY DEF Init, Empty, StatusFollowsLog
<1>2. TypeOK /\ StatusFollowsLog /\ [Next]_vars => StatusFollowsLog'
  BY StatusFollowsLogInductive
<1> QED
  BY <1>1, <1>2, Typing, PTL DEF Spec

LEMMA NothingAtFirst ==
  ASSUME Init
  PROVE  polled = [d \in Deployment |-> "absent"] /\ built = [d \in Deployment |-> 0]
  BY DEF Init, Empty, polled, Polled, built, Built

\* The pipeline implements the lifecycle in which attempts may be cut short
\* (ImplementsCutShort), whatever queries and enqueues fail and however often the
\* process dies: no step is skipped, nothing leads back to PENDING or from
\* deletion, and no deployment is built more than attempts + maxStalledCount times.
THEOREM CutShortRefinement ==
  ASSUME "stall" \notin FaultKinds
  PROVE  Spec => ImplementsCutShort
<1>1. Init => CutShortLifecycle!Init
  BY NothingAtFirst DEF CutShortLifecycle!Init
<1>2. RowInv /\ StatusFollowsLog /\ BuildsBounded' /\ [Next]_vars
        => [CutShortLifecycle!Next]_(CutShortLifecycle!vars)
  <2> SUFFICES ASSUME RowInv, StatusFollowsLog, BuildsBounded', [Next]_vars
               PROVE  CutShortLifecycle!Next \/ UNCHANGED <<polled, built>>
    BY DEF CutShortLifecycle!vars
  <2>1. CASE ~ \E w \in DOMAIN proc : Writes(w)
    BY <2>1, OtherStepsSeen DEF CutShortLifecycle!Next
  <2>2. ASSUME NEW w \in DOMAIN proc, Writes(w) PROVE CutShortLifecycle!Next
    <3>1. PICK d : d = proc[w].id
      OBVIOUS
    <3>2. /\ d \in Deployment /\ proc[w].target \in Step
          /\ polled[d] \in CutShortLifecycle!Visible
          /\ polled' = [polled EXCEPT ![d] = proc[w].target]
          /\ built[d] \in Nat
          /\ built' = IF proc[w].target = "BUILDING"
                      THEN [built EXCEPT ![d] = @ + 1] ELSE built
          /\ proc[w].target = "DEPLOYING" => polled[d] = "BUILDING"
          /\ proc[w].target = "SUCCESS" => polled[d] = "DEPLOYING"
      BY <2>2, <3>1, WriteSeen
    <3>3. built'[d] <= MaxAttempts + MaxStalled
      <4>1. d \in DOMAIN row'
        BY <2>2, <3>1, WrittenRow DEF Writes, Found, RowInv, LockInv
      <4> QED
        BY <3>2, <4>1 DEF BuildsBounded, built, Built
    <3>4. CASE proc[w].target = "BUILDING"
      <4>1. built[d] < MaxAttempts + MaxStalled
        BY <3>2, <3>3, <3>4, PipelineAssumption DEF built
      <4>2. CutShortLifecycle!Build(d)
        BY <3>2, <3>4, <4>1 DEF CutShortLifecycle!Build, CutShortLifecycle!Move
      <4> QED
        BY <3>2, <4>2 DEF CutShortLifecycle!Next, CutShortLifecycle!Progress
    <3>5. CASE proc[w].target = "DEPLOYING"
      <4>1. CutShortLifecycle!Deploy(d)
        BY <3>2, <3>5 DEF CutShortLifecycle!Deploy
      <4> QED
        BY <3>2, <4>1 DEF CutShortLifecycle!Next, CutShortLifecycle!Progress
    <3>6. CASE proc[w].target = "SUCCESS"
      <4>1. CutShortLifecycle!Succeed(d)
        BY <3>2, <3>6 DEF CutShortLifecycle!Succeed
      <4> QED
        BY <3>2, <4>1 DEF CutShortLifecycle!Next, CutShortLifecycle!Progress
    <3>7. CASE proc[w].target = "FAILED"
      <4>1. CutShortLifecycle!Fail(d)
        BY <3>2, <3>7 DEF CutShortLifecycle!Fail, CutShortLifecycle!Move
      <4> QED
        BY <3>2, <4>1 DEF CutShortLifecycle!Next, CutShortLifecycle!Progress
    <3> QED
      BY <3>2, <3>4, <3>5, <3>6, <3>7 DEF Step, Terminal
  <2> QED
    BY <2>1, <2>2
<1> QED
  BY <1>1, <1>2, RowInvariant, StatusFollowsLogInvariant, BuildsWithinPolicy, PTL
  DEF Spec, ImplementsCutShort, CutShortLifecycle!Spec

-----------------------------------------------------------------------------
(* The refinement of the lifecycle as documented, where no attempt is cut     *)
(* short: an attempt then starts from the outcome of the one before.          *)

\* Nobody works on d at the moment: it has no job, or one that is not handed out.
Untouched(d) ==
  IF d \in DOMAIN job THEN job[d].state \in {"waiting", "delayed"} ELSE ~Enqueued(d)

UntouchedRows ==
  \A d \in DOMAIN row : Untouched(d) => row[d].status \in {"PENDING", "FAILED"}

\* BUILDING is written over PENDING or FAILED, FAILED over DEPLOYING.
FromOutcome(w) ==
  /\ Querying(w) /\ proc[w].target = "BUILDING" =>
       row[proc[w].id].status \in {"PENDING", "FAILED"}
  /\ proc[w].pc \in {"read", "write"} /\ proc[w].target = "FAILED" =>
       row[proc[w].id].status = "DEPLOYING"

InvocationsFromOutcome == \A w \in DOMAIN proc : Found(w) => FromOutcome(w)

NoJobStalled == \A d \in DOMAIN job : job[d].stalled = 0

AttemptInv == UntouchedRows /\ InvocationsFromOutcome /\ NoJobStalled

\* A step of one invocation on its own row keeps what is said of all.
LEMMA OneFromOutcome ==
  ASSUME RowInv, AttemptInv, NEW w \in DOMAIN proc,
         DOMAIN proc' = DOMAIN proc, proc'[w].id = proc[w].id,
         \A v \in DOMAIN proc \ {w} : proc'[v] = proc[v],
         DOMAIN row' = DOMAIN row,
         \A d \in DOMAIN row \ {proc[w].id} : row'[d] = row[d],
         UNCHANGED <<job, request>>,
         Found(w) => FromOutcome(w)'
  PROVE  AttemptInv'
<1> USE DEF RowInv, AttemptInv
<1>1. ASSUME NEW v \in DOMAIN proc, v # w, Found(v)' PROVE FromOutcome(v)'
  <2>1. proc'[v] = proc[v] /\ proc[v].id # proc[w].id /\ proc[v].id \in DOMAIN row
    BY <1>1, WorkIsActive DEF Found
  <2>2. row'[proc[v].id] = row[proc[v].id]
    BY <2>1
  <2>3. FromOutcome(v)
    BY <2>1 DEF InvocationsFromOutcome, Found
  <2> QED
    BY <2>1, <2>2, <2>3 DEF FromOutcome, Querying
<1>2. InvocationsFromOutcome'
  BY <1>1 DEF InvocationsFromOutcome, Found
<1>3. UntouchedRows'
  <2>1. ASSUME NEW d \in DOMAIN row, Untouched(d)' PROVE Untouched(d) /\ row'[d] = row[d]
    <3>1. Untouched(d)
      BY <2>1 DEF Untouched, Enqueued
    <3>2. d # proc[w].id
      BY <3>1, WorkIsActive DEF Untouched
    <3> QED
      BY <3>1, <3>2
  <2> QED
    BY <2>1 DEF UntouchedRows
<1> QED
  BY <1>2, <1>3 DEF NoJobStalled

\* A step of process() where queries do not fail.
LEMMA ProcessFromOutcome ==
  ASSUME "db" \notin FaultKinds, RowInv, AttemptInv,
         NEW w \in Worker, Process(w)
  PROVE  AttemptInv'
<1> USE DEF RowInv, LockInv
<1>1. /\ DOMAIN proc' = DOMAIN proc /\ UNCHANGED <<job, request>>
      /\ \A v \in DOMAIN proc : proc'[v].id = proc[v].id
  <2>1. request' = request
    BY DEF Process, LoadRow, ReadLogs, WriteRow, RowMissing, QueryError, Raise
  <2> QED
    BY <2>1, ProcessKeeps
<1>2. w \in DOMAIN proc /\ proc[w] \in Invocation
  <2>1. w \in DOMAIN proc
    BY DEF Process, LoadRow, ReadLogs, WriteRow, RowMissing, QueryError, Querying
  <2> QED
    BY <2>1, TableValue DEF TypeOK
<1>3. \A v \in DOMAIN proc \ {w} : proc'[v] = proc[v]
  BY DEF Process, LoadRow, ReadLogs, WriteRow, RowMissing, QueryError, Raise
<1>4. CASE LoadRow(w) \/ ReadLogs(w)
  <2>1. /\ row' = row /\ Found(w) /\ Querying(w)
        /\ proc'[w].pc \in {"read", "write"} /\ proc'[w].target = proc[w].target
        /\ proc[w].pc = "load" \/ proc[w].pc = "read"
    BY <1>2, <1>4 DEF LoadRow, ReadLogs, Invocation, Querying
  <2>2. FromOutcome(w) /\ (proc[w].pc = "load" => proc[w].target = "BUILDING")
    BY <1>2, <2>1 DEF AttemptInv, InvocationsFromOutcome, InvocationsWork, Working, Aimed
  <2>3. FromOutcome(w)'
    BY <1>1, <1>2, <2>1, <2>2 DEF FromOutcome, Querying
  <2> QED
    BY <1>1, <1>2, <1>3, <2>1, <2>3, OneFromOutcome
<1>5. CASE WriteRow(w)
  <2>1. /\ Found(w) /\ row' = Written(w) /\ proc'[w] = AfterWrite(proc[w])
    BY <1>2, <1>5 DEF WriteRow
  <2>2. /\ DOMAIN row' = DOMAIN row
        /\ \A d \in DOMAIN row \ {proc[w].id} : row'[d] = row[d]
        /\ row'[proc[w].id].status = proc[w].target
    BY <1>2, <2>1, WrittenRow
  <2>3. /\ proc'[w].pc \in {"read", "return", "throw"}
        /\ proc'[w].pc = "read" => proc'[w].target # "BUILDING"
        /\ proc'[w].pc = "read" /\ proc'[w].target = "FAILED" => proc[w].target = "DEPLOYING"
    <3>1. CASE proc[w].target = "BUILDING"
      BY <1>2, <2>1, <3>1 DEF AfterWrite, Onto, Invocation
    <3>2. CASE proc[w].target = "DEPLOYING"
      BY <1>2, <2>1, <3>2 DEF AfterWrite, AfterDeploying, Onto, Invocation
    <3>3. CASE proc[w].target \in Terminal
      BY <1>2, <2>1, <3>3 DEF AfterWrite, Over, Invocation, Terminal
    <3> QED
      BY <1>2, <3>1, <3>2, <3>3 DEF Invocation, Step
  <2>4. FromOutcome(w)'
    BY <1>1, <1>2, <2>2, <2>3 DEF FromOutcome, Querying
  <2> QED
    BY <1>1, <1>2, <1>3, <2>2, <2>4, OneFromOutcome
<1>6. CASE RowMissing(w)
  <2>1. row' = row /\ ~Found(w)
    BY <1>6 DEF RowMissing
  <2> QED
    BY <1>1, <1>2, <1>3, <2>1, OneFromOutcome
<1>7. ~QueryError(w)
  BY DEF QueryError, Fault
<1> QED
  BY <1>4, <1>5, <1>6, <1>7 DEF Process

\* The invariant is inductive while no attempt is cut short.
LEMMA AttemptInvInductive ==
  ASSUME FaultKinds \cap {"db", "crash", "stall"} = {},
         SettledInv, AttemptInv, [Next]_vars
  PROVE  AttemptInv'
<1> USE DEF SettledInv, RowInv, LockInv
<1>1. ASSUME NEW d \in Deployment, CreateRow(d) \/ CreateRowError(d) PROVE AttemptInv'
  <2>1. d \notin DOMAIN job /\ d \notin DOMAIN row
    BY <1>1 DEF CreateRow, CreateRowError, JobOfRequest, RowOfRequest
  <2>2. /\ DOMAIN row' \subseteq DOMAIN row \cup {d}
        /\ \A e \in DOMAIN row : e \in DOMAIN row' /\ row'[e] = row[e]
        /\ d \in DOMAIN row' => row'[d].status = "PENDING"
        /\ UNCHANGED <<job, proc>>
    BY <1>1, <2>1 DEF CreateRow, CreateRowError, NewRow, Put
  <2>3. \A w \in DOMAIN proc : proc[w].id # d
    BY <2>1, NoJobNoWork
  <2>4. UntouchedRows'
    <3>1. \A e : e # d => Enqueued(e)' = Enqueued(e)
      BY <1>1 DEF CreateRow, CreateRowError, Enqueued
    <3> QED
      BY <2>2, <3>1 DEF AttemptInv, UntouchedRows, Untouched
  <2>5. InvocationsFromOutcome'
    BY <2>2, <2>3 DEF AttemptInv, InvocationsFromOutcome, FromOutcome, Found, Querying
  <2> QED
    BY <2>2, <2>4, <2>5 DEF AttemptInv, NoJobStalled
<1>2. ASSUME NEW d \in Deployment, Enqueue(d) \/ EnqueueError(d) PROVE AttemptInv'
  <2>1. d \notin DOMAIN job
    BY <1>2 DEF Enqueue, EnqueueError, JobOfRequest
  <2>2. /\ DOMAIN job' \subseteq DOMAIN job \cup {d}
        /\ \A e \in DOMAIN job : e \in DOMAIN job' /\ job'[e] = job[e]
        /\ d \in DOMAIN job' => job'[d].state = "waiting" /\ job'[d].stalled = 0
        /\ UNCHANGED <<row, proc>>
    BY <1>2, <2>1 DEF Enqueue, EnqueueError, NewJob, Put
  <2>3. UntouchedRows'
    <3>1. /\ DOMAIN request' = DOMAIN request /\ d \in DOMAIN request
          /\ request[d].pc = "created" /\ request'[d].pc \in {"201", "500"}
          /\ \A e \in DOMAIN request : e # d => request'[e] = request[e]
      <4>1. request[d] \in Request
        BY <1>2, TableValue DEF Enqueue, EnqueueError, TypeOK
      <4> QED
        BY <1>2, <4>1 DEF Enqueue, EnqueueError, Request
    <3>2. \A e \in DOMAIN row : Untouched(e)' => Untouched(e)
      BY <2>1, <2>2, <3>1 DEF Untouched, Enqueued
    <3> QED
      BY <2>2, <3>2 DEF AttemptInv, UntouchedRows
  <2>4. InvocationsFromOutcome'
    BY <2>2 DEF AttemptInv, InvocationsFromOutcome, FromOutcome, Found, Querying
  <2> QED
    BY <2>2, <2>3, <2>4 DEF AttemptInv, NoJobStalled
<1>3. ASSUME NEW p \in Project, RemoveProject(p) PROVE AttemptInv'
  <2>1. /\ \A d \in DOMAIN row' : d \in DOMAIN row /\ row'[d] = row[d]
        /\ UNCHANGED <<job, proc, request>>
    BY <1>3 DEF RemoveProject, Restrict
  <2>2. UntouchedRows'
    BY <2>1 DEF AttemptInv, UntouchedRows, Untouched, Enqueued
  <2>3. InvocationsFromOutcome'
    BY <2>1 DEF AttemptInv, InvocationsFromOutcome, FromOutcome, Found, Querying
  <2> QED
    BY <2>1, <2>2, <2>3 DEF AttemptInv, NoJobStalled
<1>4. ASSUME NEW w \in Worker, Process(w) PROVE AttemptInv'
  BY <1>4, ProcessFromOutcome
<1>5. ASSUME NEW w \in Worker, NEW d \in Deployment, TakeJob(w, d) PROVE AttemptInv'
  <2>1. /\ d \in DOMAIN job /\ job[d] \in Job /\ job[d].state = "waiting"
        /\ w \notin DOMAIN proc
    BY <1>5, TableValue DEF TakeJob, TypeOK
  <2>2. /\ DOMAIN job' = DOMAIN job
        /\ job'[d].state = "active" /\ job'[d].stalled = job[d].stalled
        /\ \A e \in DOMAIN job \ {d} : job'[e] = job[e]
        /\ UNCHANGED <<row, request>>
    BY <1>5, <2>1 DEF TakeJob, Job
  <2>3. /\ DOMAIN proc' = DOMAIN proc \cup {w}
        /\ \A v \in DOMAIN proc : proc'[v] = proc[v]
        /\ proc'[w].id = d /\ proc'[w].pc = "load" /\ proc'[w].target = "BUILDING"
    BY <1>5, <2>1 DEF TakeJob, Put
  <2>4. UntouchedRows' /\ NoJobStalled'
    BY <2>1, <2>2 DEF AttemptInv, UntouchedRows, Untouched, NoJobStalled, Enqueued
  <2>5. Found(w)' => FromOutcome(w)'
    BY <2>1, <2>2, <2>3 DEF AttemptInv, UntouchedRows, Untouched, FromOutcome, Found
  <2>6. \A v \in DOMAIN proc : Found(v)' => FromOutcome(v)'
    BY <2>1, <2>2, <2>3
    DEF AttemptInv, InvocationsFromOutcome, FromOutcome, Found, Querying
  <2>7. InvocationsFromOutcome'
    BY <2>3, <2>5, <2>6 DEF InvocationsFromOutcome
  <2> QED
    BY <2>4, <2>7 DEF AttemptInv
<1>6. ASSUME NEW w \in Worker, JobCompleted(w) \/ JobRetried(w) \/ JobFailed(w)
      PROVE  AttemptInv'
  <2>1. PICK d : d = proc[w].id
    OBVIOUS
  <2>2. /\ w \in DOMAIN proc /\ d \in DOMAIN job /\ job[d] \in Job
        /\ UNCHANGED <<row, request>>
    BY <1>6, <2>1, WorkIsActive, TableValue
    DEF JobCompleted, JobRetried, JobFailed, Settle, TypeOK
  <2>3. \A v \in DOMAIN proc' : v \in DOMAIN proc /\ proc'[v] = proc[v]
    BY <1>6, <2>1 DEF JobCompleted, JobRetried, JobFailed, Settle, Drop, Restrict
  <2>4. /\ DOMAIN job' \subseteq DOMAIN job
        /\ \A e \in DOMAIN job \ DOMAIN job' : e # d /\ job[e].state \in Finished
        /\ \A e \in DOMAIN job' : e # d => job'[e] = job[e]
        /\ job'[d].state \in {"completed", "failed", "delayed"}
        /\ job'[d].stalled = job[d].stalled /\ d \in DOMAIN job'
        /\ job'[d].state = "delayed" => proc[w].pc = "throw"
    <3>1. PICK pc, state : /\ Settle(w, pc, state)
                           /\ <<pc, state>> \in {<<"return", "completed">>,
                                                <<"throw", "delayed">>, <<"throw", "failed">>}
      BY <1>6 DEF JobCompleted, JobRetried, JobFailed
    <3>2. proc[w].pc = pc
      BY <3>1 DEF Settle
    <3> QED
      BY <2>1, <2>2, <3>1, <3>2, SettleKeeps
  <2>5. NoJobStalled'
    BY <2>2, <2>4 DEF AttemptInv, NoJobStalled
  <2>6. UntouchedRows'
    <3>1. ASSUME NEW e \in DOMAIN row, Untouched(e)'
          PROVE  row[e].status \in {"PENDING", "FAILED"}
      <4>1. CASE e = d
        BY <2>1, <2>2, <2>4, <3>1, <4>1
        DEF Untouched, OutcomesLeft, OutcomeLeft, EndedAs, Found
      <4>2. CASE e # d /\ e \in DOMAIN job'
        BY <2>2, <2>4, <3>1, <4>2 DEF AttemptInv, UntouchedRows, Untouched
      <4>3. CASE e \in DOMAIN job \ DOMAIN job'
        BY <2>2, <3>1, <4>3 DEF Untouched, JobOfRequest, Enqueued, TypeOK
      <4>4. CASE e \notin DOMAIN job /\ e \notin DOMAIN job'
        BY <2>2, <3>1, <4>4 DEF AttemptInv, UntouchedRows, Untouched, Enqueued
      <4> QED
        BY <2>4, <4>1, <4>2, <4>3, <4>4
    <3> QED
      BY <2>2, <3>1 DEF UntouchedRows
  <2>7. InvocationsFromOutcome'
    BY <2>2, <2>3 DEF AttemptInv, InvocationsFromOutcome, FromOutcome, Found, Querying
  <2> QED
    BY <2>5, <2>6, <2>7 DEF AttemptInv
<1>7. ASSUME NEW w \in Worker, OutcomeDiscarded(w) PROVE AttemptInv'
  <2>1. /\ UNCHANGED <<row, job, request>>
        /\ \A v \in DOMAIN proc' : v \in DOMAIN proc /\ proc'[v] = proc[v]
    BY <1>7 DEF OutcomeDiscarded, Drop, Restrict
  <2>2. InvocationsFromOutcome'
    BY <2>1 DEF AttemptInv, InvocationsFromOutcome, FromOutcome, Found, Querying
  <2> QED
    BY <2>1, <2>2 DEF AttemptInv, UntouchedRows, Untouched, NoJobStalled, Enqueued
<1>8. ASSUME NEW d \in Deployment, BackoffOver(d) PROVE AttemptInv'
  <2>1. d \in DOMAIN job /\ job[d] \in Job /\ job[d].state = "delayed"
    BY <1>8, TableValue DEF BackoffOver, TypeOK
  <2>2. /\ DOMAIN job' = DOMAIN job
        /\ job'[d].state = "waiting" /\ job'[d].stalled = job[d].stalled
        /\ \A e \in DOMAIN job \ {d} : job'[e] = job[e]
        /\ UNCHANGED <<row, proc, request>>
    BY <1>8, <2>1 DEF BackoffOver, Job
  <2>3. UntouchedRows' /\ NoJobStalled'
    BY <2>1, <2>2 DEF AttemptInv, UntouchedRows, Untouched, NoJobStalled, Enqueued
  <2>4. InvocationsFromOutcome'
    BY <2>2 DEF AttemptInv, InvocationsFromOutcome, FromOutcome, Found, Querying
  <2> QED
    BY <2>3, <2>4 DEF AttemptInv
<1>9. ASSUME NEW d \in Deployment PROVE ~StalledCheck(d) /\ ~LockExpires(d)
  BY DEF StalledCheck, ActiveJobsLocked, LockExpires, Fault
<1>10. ~Crash
  BY DEF Crash, Fault
<1>11. CASE UNCHANGED <<row, job, proc>> /\ (\A d : Enqueued(d) => Enqueued(d)')
  BY <1>11
  DEF AttemptInv, UntouchedRows, Untouched, NoJobStalled, InvocationsFromOutcome,
      FromOutcome, Found, Querying
<1>12. ASSUME NEW d \in Deployment, NEW p \in Project, NEW sha \in CommitSha,
              AssertProjectOwned(d, p, sha)
       PROVE  AttemptInv'
  <2>1. \A e : Enqueued(e) => Enqueued(e)'
    BY <1>12 DEF AssertProjectOwned, Enqueued, Put
  <2> QED
    BY <1>11, <1>12, <2>1 DEF AssertProjectOwned
<1>13. CASE UNCHANGED vars
  BY <1>11, <1>13 DEF vars, Enqueued
<1> QED
  BY <1>1, <1>2, <1>3, <1>4, <1>5, <1>6, <1>7, <1>8, <1>9, <1>10, <1>12, <1>13
  DEF Next, Trigger, Timers, Queue

\* A write of BUILDING is the first one of an attempt that the policy allows.
LEMMA BuildOfAttempt ==
  ASSUME RowInv, NoJobStalled, BuildInv, NEW w \in DOMAIN proc, Writes(w),
         proc[w].target = "BUILDING", NEW d, d = proc[w].id
  PROVE  built[d] < MaxAttempts
<1> USE DEF RowInv, LockInv
<1>1. /\ d \in DOMAIN job /\ job[d].state = "active" /\ job[d].stalled = 0
      /\ job[d] \in Job /\ d \in Deployment /\ d \in DOMAIN row
  BY WorkIsActive, TableValue DEF NoJobStalled, TypeOK, Writes, Found
<1>2. job[d].attemptsMade \in Nat /\ job[d].attemptsMade + 1 <= MaxAttempts
  BY <1>1, PipelineAssumption DEF BuildInv, JobsWithinLimits, Job
<1>3. Begun(d) = job[d].attemptsMade + 1
  BY <1>1, <1>2 DEF Begun
<1>4. Cardinality(Fresh(d)) \in Nat /\ Cardinality(Fresh(d)) # 0
  <2>1. w \in Fresh(d)
    BY DEF Fresh, Querying, Writes
  <2>2. IsFiniteSet(Fresh(d)) /\ Cardinality(Fresh(d)) \in Nat
    BY RoomType DEF BuildInv
  <2> QED
    BY <2>1, <2>2, FS_EmptySet
<1>5. built[d] = Lines(row[d].logs) /\ Lines(row[d].logs) \in Nat
  BY <1>1, BuiltLines, LinesHeld DEF built
<1>6. Lines(row[d].logs) <= Room(d)
  BY <1>1 DEF BuildInv, RowsWithinRoom
<1> QED
  BY <1>2, <1>3, <1>4, <1>5, <1>6, PipelineAssumption DEF Room

\* Where no query fails, no process dies and no lock expires the pipeline
\* implements the lifecycle as documented (the safety part of ImplementsLifecycle):
\* a deployment is built from PENDING, or from FAILED while attempts are left, and
\* fails from DEPLOYING only.
THEOREM LifecycleRefinement ==
  ASSUME FaultKinds \cap {"db", "crash", "stall"} = {}
  PROVE  Spec => Lifecycle!Spec
<1>1. Init => Lifecycle!Init /\ AttemptInv
  <2>1. Init => Lifecycle!Init
    BY NothingAtFirst DEF Lifecycle!Init
  <2>2. Init => AttemptInv
    BY DEF Init, Empty, AttemptInv, UntouchedRows, InvocationsFromOutcome, NoJobStalled
  <2> QED
    BY <2>1, <2>2
<1>2. SettledInv /\ AttemptInv /\ [Next]_vars => AttemptInv'
  BY AttemptInvInductive
<1>3. SettledInv /\ AttemptInv /\ StatusFollowsLog /\ BuildInv /\ [Next]_vars
        => [Lifecycle!Next]_(Lifecycle!vars)
  <2> SUFFICES ASSUME SettledInv, AttemptInv, StatusFollowsLog, BuildInv, [Next]_vars
               PROVE  Lifecycle!Next \/ UNCHANGED <<polled, built>>
    BY DEF Lifecycle!vars
  <2> USE DEF SettledInv
  <2>1. CASE ~ \E w \in DOMAIN proc : Writes(w)
    <3>1. /\ \A d \in Deployment : CutShortLifecycle!Create(d) => Lifecycle!Create(d)
          /\ \A D \in SUBSET Deployment :
               /\ CutShortLifecycle!Reject(D) => Lifecycle!Reject(D)
               /\ CutShortLifecycle!Delete(D) => Lifecycle!Delete(D)
      BY DEF CutShortLifecycle!Create, Lifecycle!Create, CutShortLifecycle!Reject,
             Lifecycle!Reject, CutShortLifecycle!Delete, Lifecycle!Delete,
             CutShortLifecycle!Visible, Lifecycle!Visible
    <3> QED
      BY <2>1, <3>1, OtherStepsSeen DEF Lifecycle!Next
  <2>2. ASSUME NEW w \in DOMAIN proc, Writes(w) PROVE Lifecycle!Next
    <3>1. PICK d : d = proc[w].id
      OBVIOUS
    <3>2. /\ d \in Deployment /\ proc[w].target \in Step
          /\ polled' = [polled EXCEPT ![d] = proc[w].target]
          /\ built' = IF proc[w].target = "BUILDING"
                      THEN [built EXCEPT ![d] = @ + 1] ELSE built
          /\ proc[w].target = "DEPLOYING" => polled[d] = "BUILDING"
          /\ proc[w].target = "SUCCESS" => polled[d] = "DEPLOYING"
      BY <2>2, <3>1, WriteSeen
    <3>3. /\ proc[w].target = "BUILDING" => polled[d] \in {"PENDING", "FAILED"}
          /\ proc[w].target = "FAILED" => polled[d] = "DEPLOYING"
      <4>1. d \in DOMAIN row /\ polled[d] = row[d].status
        BY <2>2, <3>1, <3>2 DEF Writes, Found, polled, Polled
      <4>2. FromOutcome(w) /\ proc[w].pc = "write" /\ Querying(w)
        BY <2>2 DEF AttemptInv, InvocationsFromOutcome, Writes, Querying
      <4> QED
        BY <3>1, <4>1, <4>2 DEF FromOutcome
    <3>4. CASE proc[w].target = "BUILDING"
      <4>1. built[d] < MaxAttempts
        BY <2>2, <3>1, <3>4, BuildOfAttempt DEF AttemptInv
      <4>2. Lifecycle!Build(d)
        BY <3>2, <3>3, <3>4, <4>1 DEF Lifecycle!Build, Lifecycle!Move
      <4> QED
        BY <3>2, <4>2 DEF Lifecycle!Next, Lifecycle!Progress
    <3>5. CASE proc[w].target = "DEPLOYING"
      <4>1. Lifecycle!Deploy(d)
        BY <3>2, <3>5 DEF Lifecycle!Deploy
      <4> QED
        BY <3>2, <4>1 DEF Lifecycle!Next, Lifecycle!Progress
    <3>6. CASE proc[w].target = "SUCCESS"
      <4>1. Lifecycle!Succeed(d)
        BY <3>2, <3>6 DEF Lifecycle!Succeed
      <4> QED
        BY <3>2, <4>1 DEF Lifecycle!Next, Lifecycle!Progress
    <3>7. CASE proc[w].target = "FAILED"
      <4>1. Lifecycle!Fail(d)
        BY <3>2, <3>3, <3>7 DEF Lifecycle!Fail, Lifecycle!Move
      <4> QED
        BY <3>2, <4>1 DEF Lifecycle!Next, Lifecycle!Progress
    <3> QED
      BY <3>2, <3>4, <3>5, <3>6, <3>7 DEF Step, Terminal
  <2> QED
    BY <2>1, <2>2
<1> QED
  BY <1>1, <1>2, <1>3, SettledInvariant, StatusFollowsLogInvariant, BuildInvariant, PTL
  DEF Spec, Lifecycle!Spec
==============================================================================
