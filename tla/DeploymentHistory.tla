-------------------------- MODULE DeploymentHistory --------------------------
(***************************************************************************)
(* The history of a project's deployments as it is listed, newest first and   *)
(* cut off by a limit, and as it is kept in Redis, where finished jobs are     *)
(* pruned while their rows stay.                                             *)
(*                                                                         *)
(* A row is stamped when its insert begins and listed when it is committed,  *)
(* so rows may appear behind ones that are listed already; triggers, lists,  *)
(* finishing jobs and the deletion of the project run at once.               *)
(***************************************************************************)
EXTENDS Integers, FiniteSets, FiniteSetsExt, Tables

CONSTANTS
  Deployment,     \* the deployments of the project
  Number,         \* the whole numbers a client may give as a limit
  DefaultLimit,   \* DEFAULT_LIMIT
  MaxLimit,       \* MAX_LIMIT
  RecentLimit,    \* RECENT_DEPLOYMENTS_LIMIT
  KeepCompleted,  \* removeOnComplete
  KeepFailed,     \* removeOnFail
  MaxTime         \* bound on the clock

ASSUME HistoryAssumption ==
  /\ Number \subseteq Int
  /\ MaxLimit \in Nat /\ DefaultLimit \in 1..MaxLimit /\ RecentLimit \in Nat \ {0}
  /\ KeepCompleted \in Nat \ {0} /\ KeepFailed \in Nat \ {0}
  /\ MaxTime \in Nat

VARIABLES
  now,      \* the clock
  project,  \* whether the project exists
  trigger,  \* the trigger requests, one per deployment
  row,      \* Postgres: startedAt of each deployment
  job,      \* Redis: the jobs and how they ended
  ended,    \* history: when each job that ended did so, and how
  poll      \* the GET requests of a client, one after the other

vars == <<now, project, trigger, row, job, ended, poll>>

-----------------------------------------------------------------------------
Time == 0..MaxTime
Outcome == {"completed", "failed"}

\* The limit of a query string: missing, a word, a number that is not whole
\* or too large to be written without an exponent, or a whole number.
Asked == [kind: {"absent", "word", "odd"}, n: {0}] \cup [kind: {"whole"}, n: Number]

Trigger == [pc: {"create", "enqueue", "201", "404", "500"}, startedAt: Time]

\* known is history: the deployments a client had been told of before it asked.
PollState ==
  [op: {"list", "detail"}, asked: Asked, cap: 0..(MaxLimit + RecentLimit),
   pc: {"idle", "check", "query", "200", "400", "404"},
   known: SUBSET Deployment, answer: SUBSET Deployment]

TypeOK ==
  /\ now \in Time /\ project \in BOOLEAN
  /\ Table(trigger, Deployment, Trigger)
  /\ Table(row, Deployment, Time)
  /\ Table(job, Deployment, {"open"} \cup Outcome)
  /\ Table(ended, Deployment, [how: Outcome, at: Time])
  /\ poll \in PollState
  /\ ~project => row = Empty

Absent == [kind |-> "absent", n |-> 0]

Init ==
  /\ now = 0
  /\ project = TRUE
  /\ trigger = Empty /\ row = Empty
  /\ job = Empty /\ ended = Empty
  /\ poll = [op |-> "list", asked |-> Absent, cap |-> 1, pc |-> "idle",
             known |-> {}, answer |-> {}]

Tick ==
  /\ now < MaxTime
  /\ now' = now + 1
  /\ UNCHANGED <<project, trigger, row, job, ended, poll>>

-----------------------------------------------------------------------------
(* POST /projects/:id/deployments and DELETE /projects/:id.                  *)

\* The check; the insert begins, and with it the stamp is taken.
Check(d) ==
  /\ d \notin DOMAIN trigger
  /\ trigger' = Put(trigger, d, [pc |-> IF project THEN "create" ELSE "404", startedAt |-> now])
  /\ UNCHANGED <<now, project, row, job, ended, poll>>

Waits(d, pc) == d \in DOMAIN trigger /\ trigger[d].pc = pc

\* Mutant: there is no foreign key.
CreateUnchecked(d) ==
  /\ Waits(d, "create")
  /\ row' = Put(row, d, trigger[d].startedAt)
  /\ trigger' = [trigger EXCEPT ![d].pc = "enqueue"]
  /\ UNCHANGED <<now, project, job, ended, poll>>

\* The row is committed, or the project went first.
Create(d) ==
  /\ Waits(d, "create")
  /\ row' = IF project THEN Put(row, d, trigger[d].startedAt) ELSE row
  /\ trigger' = [trigger EXCEPT ![d].pc = IF project THEN "enqueue" ELSE "500"]
  /\ UNCHANGED <<now, project, job, ended, poll>>

Enqueue(d) ==
  /\ Waits(d, "enqueue")
  /\ job' = Put(job, d, "open")
  /\ trigger' = [trigger EXCEPT ![d].pc = "201"]
  /\ UNCHANGED <<now, project, row, ended, poll>>

RemoveProject ==
  /\ project
  /\ project' = FALSE
  /\ row' = Empty
  /\ UNCHANGED <<now, trigger, job, ended, poll>>

-----------------------------------------------------------------------------
(* The worker ends a job, and BullMQ prunes.                                 *)

Keep(how) == IF how = "completed" THEN KeepCompleted ELSE KeepFailed

\* Mutant: one count for both outcomes.
FinishedAny(jobs, how) == {e \in DOMAIN jobs : jobs[e] # "open"}

Finished(jobs, how) == {e \in DOMAIN jobs : jobs[e] = how}

\* removeOnComplete and removeOnFail keep the newest, each of its outcome.
Finish(d, how) ==
  LET jobs == [job EXCEPT ![d] = how]
      last == Put(ended, d, [how |-> how, at |-> now])
      all  == Finished(jobs, how) IN
  /\ d \in DOMAIN job /\ job[d] = "open"
  /\ ended' = last
  /\ \E kept \in SUBSET all :
       /\ Cardinality(kept) = Min({Keep(how), Cardinality(all)})
       /\ \A k \in kept, e \in all \ kept : last[k].at >= last[e].at
       /\ job' = Restrict(jobs, (DOMAIN jobs \ all) \cup kept)
  /\ UNCHANGED <<now, project, trigger, row, poll>>

-----------------------------------------------------------------------------
(* GET /projects/:id/deployments and GET /projects/:id.                      *)

\* ValidationPipe (transform) makes a number of the text, NaN of a word;
\* DefaultValuePipe replaces NaN and what is absent; ParseIntPipe lets only
\* whole numbers through.
Rejected(asked) == asked.kind = "odd"
Parsed(asked)   == IF asked.kind = "whole" THEN asked.n ELSE DefaultLimit

\* Mutant: 0 and less are not lifted to 1.
CapUnlifted(limit) == Min({Max({0, limit}), MaxLimit})

Cap(limit) == Min({Max({1, limit}), MaxLimit})

\* What the client knows: the answers of triggers and of earlier lists.
Told == {d \in DOMAIN trigger : trigger[d].pc = "201"} \cup poll.known \cup poll.answer

\* A list, or a project with its recent deployments, is asked for.
Arrive(op, asked) ==
  /\ poll.pc \notin {"check", "query"}
  /\ poll' =
       [op |-> op, asked |-> asked, answer |-> {}, known |-> Told,
        cap |-> IF op = "detail" THEN RecentLimit ELSE Cap(Parsed(asked)),
        pc |-> IF op = "list" /\ Rejected(asked) THEN "400" ELSE "check"]
  /\ UNCHANGED <<now, project, trigger, row, job, ended>>

\* assertProjectOwned, or the first query of the detail.
PollCheck ==
  /\ poll.pc = "check"
  /\ poll' = [poll EXCEPT !.pc = IF project THEN "query" ELSE "404"]
  /\ UNCHANGED <<now, project, trigger, row, job, ended>>

\* Mutant: orderBy is missing.
NewestAny(n) == {S \in SUBSET DOMAIN row : Cardinality(S) = Min({n, Cardinality(DOMAIN row)})}

\* orderBy startedAt desc, take n: rows of one stamp come in any order.
Newest(n) ==
  {S \in SUBSET DOMAIN row :
     /\ Cardinality(S) = Min({n, Cardinality(DOMAIN row)})
     /\ \A d \in S, e \in DOMAIN row \ S : row[d] >= row[e]}

PollQuery ==
  /\ poll.pc = "query"
  /\ \E S \in Newest(poll.cap) : poll' = [poll EXCEPT !.pc = "200", !.answer = S]
  /\ UNCHANGED <<now, project, trigger, row, job, ended>>

Next ==
  \/ Tick
  \/ RemoveProject
  \/ \E d \in Deployment :
       \/ Check(d)
       \/ Create(d)
       \/ Enqueue(d)
       \/ \E how \in Outcome : Finish(d, how)
  \/ \E asked \in Asked : Arrive("list", asked)
  \/ Arrive("detail", Absent)
  \/ PollCheck
  \/ PollQuery

Spec == Init /\ [][Next]_vars

-----------------------------------------------------------------------------
(* Properties.                                                              *)

Distance(i, j) == IF i < j THEN j - i ELSE i - j

\* "Clamped to this range": a list is of the length closest to what was asked
\* for that the range allows, also for 0, negative and large numbers, and it is
\* the asked one where that is allowed.
LimitIsClosest ==
  poll.op = "list" /\ poll.asked.kind = "whole" =>
    /\ poll.cap \in 1..MaxLimit
    /\ \A n \in 1..MaxLimit :
         Distance(poll.cap, poll.asked.n) <= Distance(n, poll.asked.n)

\* "Newest first" loses nothing: a deployment the client knew of, from the 201
\* of its trigger or from an earlier list, is in every later list, unless that
\* is full of deployments no older than it or the project was deleted.  Rows
\* that commit late push nothing newer out, and pruned jobs take no row along.
KnownIsListed ==
  poll.pc = "200" /\ project =>
    \A d \in poll.known \ poll.answer :
      /\ Cardinality(poll.answer) = poll.cap /\ poll.cap > 0
      /\ \A e \in poll.answer : trigger[e].startedAt >= trigger[d].startedAt

\* "Keep the last 100 successes / 500 failures": a job that is no longer in
\* Redis had ended, and as many later ones of its outcome as are to be kept are
\* still there.  A job that is open is never pruned, and successes do not crowd
\* the failures out, in whatever order the jobs end.
PrunedAreOldest ==
  \A d \in DOMAIN trigger :
    trigger[d].pc = "201" /\ d \notin DOMAIN job =>
      /\ d \in DOMAIN ended
      /\ LET later == {e \in DOMAIN job : job[e] = ended[d].how /\ ended[e].at >= ended[d].at}
         IN Cardinality(later) = Keep(ended[d].how)
=============================================================================
