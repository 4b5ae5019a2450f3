----------------------- MODULE DeploymentHistoryProofs -----------------------
(***************************************************************************)
(* Theorems about DeploymentHistory, for any limits, any counts of kept jobs  *)
(* and any number of deployments: the types, the clamped limit, that lists    *)
(* lose nothing, and which jobs are pruned.                                  *)
(***************************************************************************)
EXTENDS DeploymentHistory, TableTheorems, FiniteSetTheorems

-----------------------------------------------------------------------------
(* The operators.                                                           *)

LEMMA MinOfTwo ==
  ASSUME NEW a \in Int, NEW b \in Int
  PROVE  Min({a, b}) = IF a <= b THEN a ELSE b
<1> DEFINE m == IF a <= b THEN a ELSE b
<1>1. m \in {a, b} /\ \A y \in {a, b} : m <= y
  OBVIOUS
<1>2. \A x \in {a, b} : (\A y \in {a, b} : x <= y) => x = m
  OBVIOUS
<1> QED
  BY <1>1, <1>2 DEF Min

LEMMA MaxOfTwo ==
  ASSUME NEW a \in Int, NEW b \in Int
  PROVE  Max({a, b}) = IF a <= b THEN b ELSE a
<1> DEFINE m == IF a <= b THEN b ELSE a
<1>1. m \in {a, b} /\ \A y \in {a, b} : m >= y
  OBVIOUS
<1>2. \A x \in {a, b} : (\A y \in {a, b} : x >= y) => x = m
  OBVIOUS
<1> QED
  BY <1>1, <1>2 DEF Max

\* The clamped limit is the closest one that the range allows.
LEMMA CapIsClosest ==
  ASSUME NEW limit \in Int
  PROVE  /\ Cap(limit) \in 1..MaxLimit
         /\ \A n \in 1..MaxLimit : Distance(Cap(limit), limit) <= Distance(n, limit)
<1>1. MaxLimit \in Nat /\ MaxLimit >= 1
  BY HistoryAssumption
<1>2. Max({1, limit}) = IF 1 <= limit THEN limit ELSE 1
  BY MaxOfTwo
<1>3. Cap(limit) = IF limit < 1 THEN 1 ELSE IF limit <= MaxLimit THEN limit ELSE MaxLimit
  <2>1. CASE limit < 1
    <3>1. Max({1, limit}) = 1
      BY <1>2, <2>1
    <3> QED
      BY <1>1, <2>1, <3>1, MinOfTwo DEF Cap
  <2>2. CASE limit >= 1
    <3>1. Max({1, limit}) = limit
      BY <1>2, <2>2
    <3> QED
      BY <1>1, <2>2, <3>1, MinOfTwo DEF Cap
  <2> QED
    BY <2>1, <2>2
<1> QED
  BY <1>1, <1>3 DEF Distance

\* What a query string makes of a limit is a whole number.
LEMMA ParsedType ==
  ASSUME NEW asked \in Asked
  PROVE  Parsed(asked) \in Int
<1>1. asked.kind = "whole" => asked.n \in Int
  BY HistoryAssumption DEF Asked
<1>2. DefaultLimit \in Int
  BY HistoryAssumption
<1> QED
  BY <1>1, <1>2 DEF Parsed

\* A set of so many elements as there are, or as are wanted, is all or as many.
LEMMA AllOrAsMany ==
  ASSUME NEW S, IsFiniteSet(S), NEW T \in SUBSET S, NEW n \in Nat,
         Cardinality(T) = Min({n, Cardinality(S)})
  PROVE  T = S \/ Cardinality(T) = n
<1>1. Cardinality(S) \in Nat
  BY FS_CardinalityType
<1>2. Cardinality(T) = IF n <= Cardinality(S) THEN n ELSE Cardinality(S)
  BY <1>1, MinOfTwo
<1>3. Cardinality(S) = Cardinality(T) => T = S
  BY FS_Subset
<1> QED
  BY <1>2, <1>3

-----------------------------------------------------------------------------
(* Types.                                                                    *)

LEMMA TriggerTyped ==
  ASSUME TypeOK, NEW d \in DOMAIN trigger,
         NEW pc \in {"create", "enqueue", "201", "404", "500"}
  PROVE  Table([trigger EXCEPT ![d].pc = pc], Deployment, Trigger)
  BY DEF TypeOK, Table, Trigger

LEMMA CapTyped ==
  ASSUME NEW asked \in Asked
  PROVE  /\ Cap(Parsed(asked)) \in 0..(MaxLimit + RecentLimit)
         /\ RecentLimit \in 0..(MaxLimit + RecentLimit)
<1>1. Cap(Parsed(asked)) \in 1..MaxLimit
  BY ParsedType, CapIsClosest
<1> QED
  BY <1>1, HistoryAssumption

LEMMA FinishTyped ==
  ASSUME TypeOK, NEW d \in Deployment, NEW how \in Outcome, Finish(d, how)
  PROVE  /\ Table(job', Deployment, {"open"} \cup Outcome)
         /\ Table(ended', Deployment, [how: Outcome, at: Time])
<1> DEFINE jobs == [job EXCEPT ![d] = how]
           all  == Finished(jobs, how)
<1>1. Table(jobs, Deployment, {"open"} \cup Outcome)
  BY DEF TypeOK, Table
<1>2. PICK kept \in SUBSET all : job' = Restrict(jobs, (DOMAIN jobs \ all) \cup kept)
  BY DEF Finish
<1>3. (DOMAIN jobs \ all) \cup kept \in SUBSET DOMAIN jobs
  BY DEF Finished
<1>4. ended' = Put(ended, d, [how |-> how, at |-> now])
  BY DEF Finish
<1>5. [how |-> how, at |-> now] \in [how: Outcome, at: Time]
  BY DEF TypeOK
<1> HIDE DEF jobs, all
<1>6. Table(job', Deployment, {"open"} \cup Outcome)
  BY <1>1, <1>2, <1>3, RestrictTable
<1>7. Table(ended, Deployment, [how: Outcome, at: Time])
  BY DEF TypeOK
<1>8. Table(ended', Deployment, [how: Outcome, at: Time])
  BY <1>4, <1>5, <1>7, PutTable
<1> QED
  BY <1>6, <1>8

\* Every variable has its type, a deleted project has no rows, and every cap is
\* within the limits (TypeOK), whatever a client asks for.
THEOREM Typing == Spec => []TypeOK
<1>1. Init => TypeOK
  <2> SUFFICES ASSUME Init PROVE TypeOK
    OBVIOUS
  <2>1. /\ Table(trigger, Deployment, Trigger) /\ Table(row, Deployment, Time)
        /\ Table(job, Deployment, {"open"} \cup Outcome)
        /\ Table(ended, Deployment, [how: Outcome, at: Time])
    BY EmptyTable DEF Init
  <2>2. poll \in PollState
    BY HistoryAssumption DEF Init, PollState, Asked, Absent
  <2> QED
    BY <2>1, <2>2, HistoryAssumption DEF Init, TypeOK, Time
<1>2. TypeOK /\ [Next]_vars => TypeOK'
  <2> SUFFICES ASSUME TypeOK, [Next]_vars PROVE TypeOK'
    OBVIOUS
  <2>1. CASE Tick
    BY <2>1, HistoryAssumption DEF Tick, TypeOK, Time
  <2>2. CASE RemoveProject
    BY <2>2, EmptyTable DEF RemoveProject, TypeOK
  <2>3. ASSUME NEW d \in Deployment, Check(d) PROVE TypeOK'
    <3>1. [pc |-> IF project THEN "create" ELSE "404", startedAt |-> now] \in Trigger
      BY DEF TypeOK, Trigger
    <3>2. Table(trigger', Deployment, Trigger)
      BY <2>3, <3>1, PutTable DEF Check, TypeOK
    <3> QED
      BY <2>3, <3>2 DEF Check, TypeOK
  <2>4. ASSUME NEW d \in Deployment, Create(d) PROVE TypeOK'
    <3>1. d \in DOMAIN trigger /\ trigger[d] \in Trigger
      BY <2>4, TableValue DEF Create, Waits, TypeOK
    <3>2. trigger[d].startedAt \in Time
      BY <3>1 DEF Trigger
    <3>3. Table(Put(row, d, trigger[d].startedAt), Deployment, Time)
      BY <3>2, PutTable DEF TypeOK
    <3>4. Table(trigger', Deployment, Trigger)
      BY <2>4, <3>1, TriggerTyped DEF Create
    <3> QED
      BY <2>4, <3>3, <3>4 DEF Create, TypeOK
  <2>5. ASSUME NEW d \in Deployment, Enqueue(d) PROVE TypeOK'
    <3>1. Table(trigger', Deployment, Trigger)
      BY <2>5, TriggerTyped DEF Enqueue, Waits
    <3>2. Table(job', Deployment, {"open"} \cup Outcome)
      BY <2>5, PutTable DEF Enqueue, TypeOK
    <3> QED
      BY <2>5, <3>1, <3>2 DEF Enqueue, TypeOK
  <2>6. ASSUME NEW d \in Deployment, NEW how \in Outcome, Finish(d, how) PROVE TypeOK'
    BY <2>6, FinishTyped DEF Finish, TypeOK
  <2>7. ASSUME NEW op \in {"list", "detail"}, NEW asked \in Asked, Arrive(op, asked)
        PROVE  TypeOK'
    <3>1. Told \subseteq Deployment
      BY DEF Told, TypeOK, Table, PollState
    <3>2. poll' \in PollState
      BY <2>7, <3>1, CapTyped DEF Arrive, PollState
    <3> QED
      BY <2>7, <3>2 DEF Arrive, TypeOK
  <2>8. CASE PollCheck
    BY <2>8 DEF PollCheck, TypeOK, PollState
  <2>9. CASE PollQuery
    <3>1. \A S \in Newest(poll.cap) : S \subseteq Deployment
      BY DEF Newest, TypeOK, Table
    <3> QED
      BY <2>9, <3>1 DEF PollQuery, TypeOK, PollState
  <2>10. CASE UNCHANGED vars
    BY <2>10 DEF vars, TypeOK
  <2>11. Absent \in Asked
    BY DEF Absent, Asked
  <2> QED
    BY <2>1, <2>2, <2>3, <2>4, <2>5, <2>6, <2>7, <2>8, <2>9, <2>10, <2>11 DEF Next
<1> QED
  BY <1>1, <1>2, PTL DEF Spec

-----------------------------------------------------------------------------
(* Lists.  What a client was told of has a row as long as the project is      *)
(* there, and the stamp of a row never changes.                              *)

CapAsked ==
  /\ poll.cap > 0
  /\ poll.op = "list" /\ poll.asked.kind = "whole" => poll.cap = Cap(poll.asked.n)

RowsTriggered ==
  /\ IsFiniteSet(DOMAIN row)
  /\ \A d \in DOMAIN row : d \in DOMAIN trigger /\ row[d] = trigger[d].startedAt
  /\ project => \A d \in DOMAIN trigger :
                  trigger[d].pc \in {"enqueue", "201"} => d \in DOMAIN row

KnownHaveRows == project => poll.known \subseteq DOMAIN row /\ poll.answer \subseteq DOMAIN row

ListInv == CapAsked /\ RowsTriggered /\ KnownHaveRows /\ KnownIsListed

\* An answer that was given stays right: stamps do not change.
LEMMA AnswerStays ==
  ASSUME ListInv, poll' = poll, project' => project,
         \A d \in DOMAIN trigger :
           d \in DOMAIN trigger' /\ trigger'[d].startedAt = trigger[d].startedAt
  PROVE  CapAsked' /\ KnownIsListed'
<1>1. project => \A d \in poll.known \cup poll.answer : d \in DOMAIN trigger
  BY DEF ListInv, RowsTriggered, KnownHaveRows
<1> QED
  BY <1>1 DEF ListInv, CapAsked, KnownIsListed

\* What a new list answers.
LEMMA QueryLists ==
  ASSUME TypeOK, ListInv, PollQuery
  PROVE  KnownHaveRows' /\ KnownIsListed'
<1>1. PICK S \in Newest(poll.cap) : poll' = [poll EXCEPT !.pc = "200", !.answer = S]
  BY DEF PollQuery
<1>2. /\ poll'.known = poll.known /\ poll'.answer = S /\ poll'.cap = poll.cap
      /\ poll.cap \in Nat /\ poll.cap > 0
  BY <1>1 DEF TypeOK, PollState, ListInv, CapAsked
<1>3. /\ UNCHANGED <<project, row, trigger>>
      /\ IsFiniteSet(DOMAIN row)
      /\ \A d \in DOMAIN row : row[d] = trigger[d].startedAt
      /\ project => poll.known \subseteq DOMAIN row
  BY DEF PollQuery, ListInv, RowsTriggered, KnownHaveRows
<1>4. /\ S \in SUBSET DOMAIN row
      /\ Cardinality(S) = Min({poll.cap, Cardinality(DOMAIN row)})
      /\ \A d \in S, e \in DOMAIN row \ S : row[d] >= row[e]
  BY DEF Newest
<1>5. S = DOMAIN row \/ Cardinality(S) = poll.cap
  BY <1>2, <1>3, <1>4, AllOrAsMany
<1>6. ASSUME project, NEW d \in poll.known \ S
      PROVE  /\ Cardinality(S) = poll.cap
             /\ \A e \in S : trigger[e].startedAt >= trigger[d].startedAt
  <2>1. d \in DOMAIN row \ S
    BY <1>3, <1>6
  <2> QED
    BY <1>3, <1>4, <1>5, <2>1
<1>7. KnownHaveRows'
  BY <1>2, <1>3, <1>4 DEF KnownHaveRows
<1>8. KnownIsListed'
  BY <1>2, <1>3, <1>6 DEF KnownIsListed
<1> QED
  BY <1>7, <1>8

LEMMA ListInvInductive ==
  ASSUME TypeOK, ListInv, [Next]_vars
  PROVE  ListInv'
<1>1. CASE UNCHANGED <<project, trigger, row, poll>>
  <2>1. RowsTriggered' /\ KnownHaveRows'
    BY <1>1 DEF ListInv, RowsTriggered, KnownHaveRows
  <2>2. CapAsked' /\ KnownIsListed'
    BY <1>1, AnswerStays
  <2> QED
    BY <2>1, <2>2 DEF ListInv
<1>2. CASE RemoveProject
  <2>1. project' = FALSE /\ DOMAIN row' = {} /\ UNCHANGED <<trigger, poll>>
    BY <1>2 DEF RemoveProject, Empty
  <2>2. RowsTriggered' /\ KnownHaveRows'
    BY <2>1, FS_EmptySet DEF RowsTriggered, KnownHaveRows
  <2>3. CapAsked' /\ KnownIsListed'
    BY <2>1, AnswerStays
  <2> QED
    BY <2>2, <2>3 DEF ListInv
<1>3. ASSUME NEW d \in Deployment, Check(d) PROVE ListInv'
  <2>1. /\ d \notin DOMAIN trigger /\ DOMAIN trigger' = DOMAIN trigger \cup {d}
        /\ \A e \in DOMAIN trigger : trigger'[e] = trigger[e]
        /\ trigger'[d].pc \notin {"enqueue", "201"}
        /\ UNCHANGED <<project, row, poll>>
    BY <1>3 DEF Check, Put
  <2>2. RowsTriggered' /\ KnownHaveRows'
    BY <2>1 DEF ListInv, RowsTriggered, KnownHaveRows
  <2>3. CapAsked' /\ KnownIsListed'
    BY <2>1, AnswerStays
  <2> QED
    BY <2>2, <2>3 DEF ListInv
<1>4. ASSUME NEW d \in Deployment, Create(d) PROVE ListInv'
  <2>1. d \in DOMAIN trigger /\ trigger[d] \in Trigger /\ trigger[d].pc = "create"
    BY <1>4, TableValue DEF Create, Waits, TypeOK
  <2>2. /\ DOMAIN trigger' = DOMAIN trigger
        /\ \A e \in DOMAIN trigger \ {d} : trigger'[e] = trigger[e]
        /\ trigger'[d].startedAt = trigger[d].startedAt
        /\ UNCHANGED <<project, poll>>
    BY <1>4, <2>1 DEF Create, Trigger
  <2>3. /\ DOMAIN row' = IF project THEN DOMAIN row \cup {d} ELSE DOMAIN row
        /\ \A e \in DOMAIN row' : row'[e] = IF project /\ e = d THEN trigger[d].startedAt
                                            ELSE row[e]
    BY <1>4 DEF Create, Put
  <2>4. IsFiniteSet(DOMAIN row')
    BY <2>3, FS_AddElement DEF ListInv, RowsTriggered
  <2>5. RowsTriggered' /\ KnownHaveRows'
    BY <2>1, <2>2, <2>3, <2>4 DEF ListInv, RowsTriggered, KnownHaveRows
  <2>6. CapAsked' /\ KnownIsListed'
    BY <2>2, AnswerStays
  <2> QED
    BY <2>5, <2>6 DEF ListInv
<1>5. ASSUME NEW d \in Deployment, Enqueue(d) PROVE ListInv'
  <2>1. d \in DOMAIN trigger /\ trigger[d] \in Trigger /\ trigger[d].pc = "enqueue"
    BY <1>5, TableValue DEF Enqueue, Waits, TypeOK
  <2>2. /\ DOMAIN trigger' = DOMAIN trigger
        /\ \A e \in DOMAIN trigger \ {d} : trigger'[e] = trigger[e]
        /\ trigger'[d].startedAt = trigger[d].startedAt
        /\ UNCHANGED <<project, row, poll>>
    BY <1>5, <2>1 DEF Enqueue, Trigger
  <2>3. RowsTriggered' /\ KnownHaveRows'
    BY <2>1, <2>2 DEF ListInv, RowsTriggered, KnownHaveRows
  <2>4. CapAsked' /\ KnownIsListed'
    BY <2>2, AnswerStays
  <2> QED
    BY <2>3, <2>4 DEF ListInv
<1>6. ASSUME NEW op \in {"list", "detail"}, NEW asked \in Asked,
             op = "detail" => asked = Absent, Arrive(op, asked)
      PROVE  ListInv'
  <2>1. /\ poll'.pc # "200" /\ poll'.known = Told /\ poll'.answer = {}
        /\ poll'.op = op /\ poll'.asked = asked
        /\ poll'.cap = IF op = "detail" THEN RecentLimit ELSE Cap(Parsed(asked))
        /\ UNCHANGED <<project, row, trigger>>
    BY <1>6 DEF Arrive
  <2>2. project => Told \subseteq DOMAIN row
    BY DEF Told, ListInv, RowsTriggered, KnownHaveRows
  <2>3. Cap(Parsed(asked)) \in 1..MaxLimit
    BY ParsedType, CapIsClosest
  <2>4. CapAsked'
    BY <2>1, <2>3, HistoryAssumption DEF CapAsked, Parsed
  <2> QED
    BY <2>1, <2>2, <2>4
    DEF ListInv, RowsTriggered, KnownHaveRows, KnownIsListed
<1>7. CASE PollCheck
  <2>1. /\ poll'.pc # "200" /\ poll'.known = poll.known /\ poll'.answer = poll.answer
        /\ poll'.op = poll.op /\ poll'.asked = poll.asked /\ poll'.cap = poll.cap
        /\ UNCHANGED <<project, row, trigger>>
    BY <1>7 DEF PollCheck, TypeOK, PollState
  <2> QED
    BY <2>1 DEF ListInv, CapAsked, RowsTriggered, KnownHaveRows, KnownIsListed
<1>8. CASE PollQuery
  <2>1. /\ poll'.op = poll.op /\ poll'.asked = poll.asked /\ poll'.cap = poll.cap
        /\ UNCHANGED <<project, row, trigger>>
    BY <1>8 DEF PollQuery, TypeOK, PollState
  <2>2. CapAsked' /\ RowsTriggered'
    BY <2>1 DEF ListInv, CapAsked, RowsTriggered
  <2> QED
    BY <1>8, <2>2, QueryLists DEF ListInv
<1>9. Tick \/ UNCHANGED vars => UNCHANGED <<project, trigger, row, poll>>
  BY DEF Tick, vars
<1>10. ASSUME NEW d \in Deployment, NEW how \in Outcome, Finish(d, how)
       PROVE  UNCHANGED <<project, trigger, row, poll>>
  BY <1>10 DEF Finish
<1>11. Absent \in Asked
  BY DEF Absent, Asked
<1> QED
  BY <1>1, <1>2, <1>3, <1>4, <1>5, <1>6, <1>7, <1>8, <1>9, <1>10, <1>11 DEF Next

LEMMA ListInvariant == Spec => []ListInv
<1>1. Init => ListInv
  <2> SUFFICES ASSUME Init PROVE ListInv
    OBVIOUS
  <2>1. /\ DOMAIN row = {} /\ DOMAIN trigger = {}
        /\ poll.cap = 1 /\ poll.asked.kind = "absent" /\ poll.known = {} /\ poll.answer = {}
    BY DEF Init, Empty, Absent
  <2> QED
    BY <2>1, FS_EmptySet DEF ListInv, CapAsked, RowsTriggered, KnownHaveRows, KnownIsListed
<1>2. TypeOK /\ ListInv /\ [Next]_vars => ListInv'
  BY ListInvInductive
<1> QED
  BY <1>1, <1>2, Typing, PTL DEF Spec

\* "Clamped to this range" (LimitIsClosest), for every whole number and every
\* MAX_LIMIT: what is asked for where that is allowed, else the nearer end.
THEOREM LimitsClamped == Spec => []LimitIsClosest
<1>1. TypeOK /\ ListInv => LimitIsClosest
  <2> SUFFICES ASSUME TypeOK, ListInv, poll.op = "list", poll.asked.kind = "whole"
               PROVE  /\ poll.cap \in 1..MaxLimit
                      /\ \A n \in 1..MaxLimit :
                           Distance(poll.cap, poll.asked.n) <= Distance(n, poll.asked.n)
    BY DEF LimitIsClosest
  <2>1. poll.asked \in Asked
    BY DEF TypeOK, PollState
  <2>2. poll.asked.n \in Int
    BY <2>1, HistoryAssumption DEF Asked
  <2>3. poll.cap = Cap(poll.asked.n)
    BY DEF ListInv, CapAsked
  <2> QED
    BY <2>2, <2>3, CapIsClosest
<1> QED
  BY <1>1, Typing, ListInvariant, PTL

\* A deployment the client was told of is in every later list, unless that is full
\* of deployments no older than it or the project was deleted (KnownIsListed),
\* although rows are stamped before they are committed.
THEOREM ListsLoseNothing == Spec => []KnownIsListed
<1>1. ListInv => KnownIsListed
  BY DEF ListInv
<1> QED
  BY <1>1, ListInvariant, PTL

-----------------------------------------------------------------------------
(* Pruning.  For a job that was pruned there are as many of its outcome as    *)
(* are to be kept, all of them younger.                                      *)

JobsTriggered ==
  /\ IsFiniteSet(DOMAIN job)
  /\ \A d \in DOMAIN job \cup DOMAIN ended : d \in DOMAIN trigger /\ trigger[d].pc = "201"
  /\ \A d \in DOMAIN trigger :
       trigger[d].pc = "201" => d \in DOMAIN job \cup DOMAIN ended

EndedAreOver ==
  /\ \A d \in DOMAIN job : IF job[d] = "open" THEN d \notin DOMAIN ended
                           ELSE d \in DOMAIN ended /\ ended[d].how = job[d]
  /\ \A d \in DOMAIN ended : ended[d].at <= now

PrunedHaveYounger ==
  \A d \in DOMAIN ended \ DOMAIN job :
    /\ Cardinality(Finished(job, ended[d].how)) = Keep(ended[d].how)
    /\ \A e \in Finished(job, ended[d].how) : ended[e].at >= ended[d].at

PruneInv == JobsTriggered /\ EndedAreOver /\ PrunedHaveYounger

\* When a job ends its outcome has what is kept of the jobs with that outcome and
\* this one; every other job stays as it is.
LEMMA FinishJobs ==
  ASSUME TypeOK, PruneInv, NEW d \in Deployment, NEW how \in Outcome, Finish(d, how)
  PROVE  \E kept \in SUBSET (Finished(job, how) \cup {d}) :
           /\ d \in DOMAIN job \ DOMAIN ended
           /\ Cardinality(kept) =
                Min({Keep(how), Cardinality(Finished(job, how) \cup {d})})
           /\ \A k \in kept, e \in (Finished(job, how) \cup {d}) \ kept :
                ended'[k].at >= ended'[e].at
           /\ DOMAIN job' = (DOMAIN job \ (Finished(job, how) \cup {d})) \cup kept
           /\ \A e \in DOMAIN job' : job'[e] = IF e = d THEN how ELSE job[e]
           /\ Finished(job', how) = kept
           /\ \A other \in Outcome \ {how} : Finished(job', other) = Finished(job, other)
           /\ DOMAIN ended' = DOMAIN ended \cup {d}
           /\ ended'[d].how = how /\ ended'[d].at = now
           /\ \A e \in DOMAIN ended : ended'[e] = ended[e]
           /\ UNCHANGED <<now, trigger>>
<1> DEFINE jobs == [job EXCEPT ![d] = how]
           all  == Finished(job, how) \cup {d}
<1>1. d \in DOMAIN job /\ job[d] = "open" /\ d \notin DOMAIN ended
  BY DEF Finish, PruneInv, EndedAreOver
<1>2. Finished(jobs, how) = all /\ DOMAIN jobs = DOMAIN job
  BY <1>1 DEF Finished
<1>3. PICK kept \in SUBSET all :
        /\ Cardinality(kept) = Min({Keep(how), Cardinality(all)})
        /\ \A k \in kept, e \in all \ kept :
             Put(ended, d, [how |-> how, at |-> now])[k].at
               >= Put(ended, d, [how |-> how, at |-> now])[e].at
        /\ job' = Restrict(jobs, (DOMAIN jobs \ all) \cup kept)
  BY <1>2 DEF Finish
<1>4. ended' = Put(ended, d, [how |-> how, at |-> now]) /\ UNCHANGED <<now, trigger>>
  BY DEF Finish
<1>5. /\ DOMAIN ended' = DOMAIN ended \cup {d}
      /\ ended'[d].how = how /\ ended'[d].at = now
      /\ \A e \in DOMAIN ended : ended'[e] = ended[e]
  BY <1>1, <1>4 DEF Put
<1>6. all \subseteq DOMAIN job
  BY <1>1 DEF Finished
<1>7. /\ DOMAIN job' = (DOMAIN job \ all) \cup kept
      /\ \A e \in DOMAIN job' : job'[e] = IF e = d THEN how ELSE job[e]
  BY <1>1, <1>2, <1>3, <1>6 DEF Restrict
<1>8. Finished(job', how) = kept
  BY <1>6, <1>7 DEF Finished
<1>9. ASSUME NEW other \in Outcome \ {how} PROVE Finished(job', other) = Finished(job, other)
  <2>1. \A e \in all : e = d \/ job[e] = how
    BY DEF Finished
  <2>2. other # "open" /\ other # how
    BY DEF Outcome
  <2> HIDE DEF all
  <2> QED
    BY <1>1, <1>6, <1>7, <2>1, <2>2 DEF Finished
<1> QED
  BY <1>1, <1>3, <1>4, <1>5, <1>7, <1>8, <1>9

\* What is pruned has as many younger ones as are to be kept, before and after.
LEMMA FinishPrunes ==
  ASSUME TypeOK, PruneInv, NEW d \in Deployment, NEW how \in Outcome, Finish(d, how)
  PROVE  PruneInv'
<1> DEFINE all == Finished(job, how) \cup {d}
<1>1. PICK kept \in SUBSET all :
           /\ d \in DOMAIN job \ DOMAIN ended
           /\ Cardinality(kept) = Min({Keep(how), Cardinality(all)})
           /\ \A k \in kept, e \in all \ kept : ended'[k].at >= ended'[e].at
           /\ DOMAIN job' = (DOMAIN job \ all) \cup kept
           /\ \A e \in DOMAIN job' : job'[e] = IF e = d THEN how ELSE job[e]
           /\ Finished(job', how) = kept
           /\ \A other \in Outcome \ {how} : Finished(job', other) = Finished(job, other)
           /\ DOMAIN ended' = DOMAIN ended \cup {d}
           /\ ended'[d].how = how /\ ended'[d].at = now
           /\ \A e \in DOMAIN ended : ended'[e] = ended[e]
           /\ UNCHANGED <<now, trigger>>
  BY FinishJobs
<1>2. now \in Int /\ \A e \in DOMAIN ended : ended[e].at \in Int /\ ended[e].how \in Outcome
  <2>1. \A e \in DOMAIN ended : ended[e] \in [how: Outcome, at: Time]
    BY DEF TypeOK, Table
  <2> QED
    BY <2>1, HistoryAssumption DEF TypeOK, Time
<1>3. /\ d \notin Finished(job, how) /\ Finished(job, how) \subseteq DOMAIN job
      /\ \A e \in Finished(job, how) : e \in DOMAIN ended /\ ended[e].how = how
  BY <1>1 DEF PruneInv, EndedAreOver, Finished, Outcome
<1>4. /\ IsFiniteSet(Finished(job, how)) /\ Cardinality(Finished(job, how)) \in Nat
      /\ IsFiniteSet(all) /\ Cardinality(all) = Cardinality(Finished(job, how)) + 1
  <2>1. IsFiniteSet(Finished(job, how))
    BY <1>3, FS_Subset DEF PruneInv, JobsTriggered
  <2> QED
    BY <1>3, <2>1, FS_AddElement, FS_CardinalityType
<1>5. Keep(how) \in Nat
  BY HistoryAssumption DEF Keep
<1>6. all \subseteq DOMAIN job /\ d \in all
  BY <1>1, <1>3
<1>7. \A e \in all : ended'[e].at \in Int /\ e \in DOMAIN ended'
  BY <1>1, <1>2, <1>3
<1>8. \A e \in all \ {d} : e \in Finished(job, how)
  OBVIOUS
<1>9. JobsTriggered'
  <2>1. IsFiniteSet(DOMAIN job')
    BY <1>1, <1>6, FS_Subset DEF PruneInv, JobsTriggered
  <2>2. \A e \in DOMAIN job' \cup DOMAIN ended' : e \in DOMAIN job \cup DOMAIN ended
    BY <1>1, <1>6
  <2>3. \A e \in DOMAIN job \cup DOMAIN ended : e \in DOMAIN job' \cup DOMAIN ended'
    BY <1>1, <1>7
  <2> HIDE DEF all
  <2> QED
    BY <1>1, <2>1, <2>2, <2>3 DEF PruneInv, JobsTriggered
<1>10. EndedAreOver'
  <2>1. \A e \in DOMAIN ended' : ended'[e].at <= now
    BY <1>1, <1>2 DEF PruneInv, EndedAreOver
  <2>2. \A e \in DOMAIN job' : IF job'[e] = "open" THEN e \notin DOMAIN ended'
                               ELSE e \in DOMAIN ended' /\ ended'[e].how = job'[e]
    <3>1. DOMAIN job' \subseteq DOMAIN job /\ how # "open"
      BY <1>1, <1>6 DEF Outcome
    <3> HIDE DEF all
    <3> QED
      BY <1>1, <3>1 DEF PruneInv, EndedAreOver
  <2> QED
    BY <1>1, <2>1, <2>2 DEF EndedAreOver
<1> HIDE DEF all
<1>11. ASSUME NEW e \in DOMAIN ended' \ DOMAIN job', ended'[e].how = how
       PROVE  /\ Cardinality(kept) = Keep(how)
              /\ \A k \in kept : ended'[k].at >= ended'[e].at
  <2>1. CASE e \in all
    <3>1. e \in all \ kept
      BY <1>1, <1>11, <2>1
    <3>2. Cardinality(kept) = Keep(how)
      BY <1>1, <1>4, <1>5, <3>1, AllOrAsMany
    <3> QED
      BY <1>1, <3>1, <3>2
  <2>2. CASE e \notin all
    <3>1. e \in DOMAIN ended \ DOMAIN job /\ ended'[e] = ended[e] /\ ended[e].how = how
      BY <1>1, <1>6, <1>11, <2>2
    <3>2. /\ Cardinality(Finished(job, how)) = Keep(how)
          /\ \A k \in Finished(job, how) : ended[k].at >= ended[e].at
      BY <3>1 DEF PruneInv, PrunedHaveYounger
    <3>3. Cardinality(kept) = Keep(how)
      BY <1>1, <1>4, <1>5, <3>2, MinOfTwo
    <3>4. ASSUME NEW k \in kept PROVE ended'[k].at >= ended'[e].at
      <4>1. CASE k = d
        BY <1>1, <1>2, <3>1, <4>1 DEF PruneInv, EndedAreOver
      <4>2. CASE k # d
        BY <1>1, <1>3, <1>8, <3>1, <3>2, <4>2
      <4> QED
        BY <4>1, <4>2
    <3> QED
      BY <3>3, <3>4
  <2> QED
    BY <2>1, <2>2
<1>12. ASSUME NEW e \in DOMAIN ended' \ DOMAIN job', ended'[e].how # how
       PROVE  /\ Cardinality(Finished(job', ended'[e].how)) = Keep(ended'[e].how)
              /\ \A k \in Finished(job', ended'[e].how) : ended'[k].at >= ended'[e].at
  <2>1. /\ e \in DOMAIN ended /\ ended'[e] = ended[e] /\ ended[e].how \in Outcome \ {how}
        /\ e \notin all
    BY <1>1, <1>2, <1>3, <1>8, <1>12
  <2>2. e \notin DOMAIN job
    BY <1>1, <1>12, <2>1
  <2>3. Finished(job', ended[e].how) = Finished(job, ended[e].how)
    BY <1>1, <2>1
  <2>4. \A k \in Finished(job, ended[e].how) : k \in DOMAIN ended
    BY <2>1 DEF Finished, PruneInv, EndedAreOver, Outcome
  <2> QED
    BY <1>1, <2>1, <2>2, <2>3, <2>4 DEF PruneInv, PrunedHaveYounger
<1>13. PrunedHaveYounger'
  <2>1. \A e \in DOMAIN ended' \ DOMAIN job' :
          /\ Cardinality(Finished(job', ended'[e].how)) = Keep(ended'[e].how)
          /\ \A k \in Finished(job', ended'[e].how) : ended'[k].at >= ended'[e].at
    BY <1>1, <1>11, <1>12
  <2> QED
    BY <2>1 DEF PrunedHaveYounger, Keep, Finished
<1> QED
  BY <1>9, <1>10, <1>13 DEF PruneInv

LEMMA PruneInvInductive ==
  ASSUME TypeOK, PruneInv, [Next]_vars
  PROVE  PruneInv'
<1>1. CASE UNCHANGED <<now, trigger, job, ended>>
  BY <1>1 DEF PruneInv, JobsTriggered, EndedAreOver, PrunedHaveYounger, Finished
<1>2. CASE Tick
  <2>1. now \in Int /\ now' = now + 1 /\ UNCHANGED <<trigger, job, ended>>
    BY <1>2, HistoryAssumption DEF Tick, TypeOK, Time
  <2>2. \A d \in DOMAIN ended : ended[d].at \in Int
    <3>1. \A d \in DOMAIN ended : ended[d] \in [how: Outcome, at: Time]
      BY DEF TypeOK, Table
    <3> QED
      BY <3>1, HistoryAssumption DEF Time
  <2>3. EndedAreOver'
    BY <2>1, <2>2 DEF PruneInv, EndedAreOver
  <2> QED
    BY <2>1, <2>3 DEF PruneInv, JobsTriggered, PrunedHaveYounger, Finished
<1>3. ASSUME NEW d \in Deployment, Check(d) \/ Create(d) PROVE PruneInv'
  <2>1. /\ \A e \in DOMAIN trigger : e \in DOMAIN trigger'
        /\ \A e \in DOMAIN trigger : trigger[e].pc = "201" => trigger'[e].pc = "201"
        /\ \A e \in DOMAIN trigger' :
             trigger'[e].pc = "201" => e \in DOMAIN trigger /\ trigger[e].pc = "201"
        /\ UNCHANGED <<now, job, ended>>
    <3>1. CASE Check(d)
      BY <3>1 DEF Check, Put
    <3>2. CASE Create(d)
      <4>1. d \in DOMAIN trigger /\ trigger[d] \in Trigger /\ trigger[d].pc = "create"
        BY <3>2, TableValue DEF Create, Waits, TypeOK
      <4> QED
        BY <3>2, <4>1 DEF Create, Trigger
    <3> QED
      BY <1>3, <3>1, <3>2
  <2>2. JobsTriggered'
    BY <2>1 DEF PruneInv, JobsTriggered
  <2> QED
    BY <2>1, <2>2 DEF PruneInv, EndedAreOver, PrunedHaveYounger, Finished
<1>4. ASSUME NEW d \in Deployment, Enqueue(d) PROVE PruneInv'
  <2>1. d \in DOMAIN trigger /\ trigger[d] \in Trigger /\ trigger[d].pc = "enqueue"
    BY <1>4, TableValue DEF Enqueue, Waits, TypeOK
  <2>2. d \notin DOMAIN job /\ d \notin DOMAIN ended
    BY <2>1 DEF PruneInv, JobsTriggered
  <2>3. /\ DOMAIN trigger' = DOMAIN trigger /\ trigger'[d].pc = "201"
        /\ \A e \in DOMAIN trigger \ {d} : trigger'[e] = trigger[e]
        /\ DOMAIN job' = DOMAIN job \cup {d} /\ job'[d] = "open"
        /\ \A e \in DOMAIN job : job'[e] = job[e]
        /\ UNCHANGED <<now, ended>>
    BY <1>4, <2>1, <2>2 DEF Enqueue, Put, Trigger
  <2>4. IsFiniteSet(DOMAIN job')
    BY <2>3, FS_AddElement DEF PruneInv, JobsTriggered
  <2>5. JobsTriggered'
    BY <2>1, <2>3, <2>4 DEF PruneInv, JobsTriggered
  <2>6. EndedAreOver'
    BY <2>2, <2>3 DEF PruneInv, EndedAreOver
  <2>7. \A how \in Outcome : Finished(job', how) = Finished(job, how)
    BY <2>2, <2>3 DEF Finished, Outcome
  <2>8. \A e \in DOMAIN ended : ended[e].how \in Outcome
    <3>1. \A e \in DOMAIN ended : ended[e] \in [how: Outcome, at: Time]
      BY DEF TypeOK, Table
    <3> QED
      BY <3>1
  <2>9. ASSUME NEW e \in DOMAIN ended' \ DOMAIN job'
        PROVE  /\ Cardinality(Finished(job', ended'[e].how)) = Keep(ended'[e].how)
               /\ \A k \in Finished(job', ended'[e].how) : ended'[k].at >= ended'[e].at
    <3>1. e \in DOMAIN ended \ DOMAIN job
      BY <2>3, <2>9
    <3>2. Finished(job', ended[e].how) = Finished(job, ended[e].how)
      BY <2>7, <2>8, <3>1
    <3> QED
      BY <2>3, <3>1, <3>2 DEF PruneInv, PrunedHaveYounger
  <2>10. PrunedHaveYounger'
    BY <2>9 DEF PrunedHaveYounger, Keep, Finished
  <2> QED
    BY <2>5, <2>6, <2>10 DEF PruneInv
<1>5. RemoveProject \/ PollCheck \/ PollQuery \/ UNCHANGED vars
        => UNCHANGED <<now, trigger, job, ended>>
  BY DEF RemoveProject, PollCheck, PollQuery, vars
<1>6. ASSUME NEW op, NEW asked, Arrive(op, asked)
      PROVE  UNCHANGED <<now, trigger, job, ended>>
  BY <1>6 DEF Arrive
<1> QED
  BY <1>1, <1>2, <1>3, <1>4, <1>5, <1>6, FinishPrunes DEF Next

\* "Keep the last 100 successes / 500 failures" (PrunedAreOldest), for any counts
\* and any order in which jobs end: what is gone from Redis had ended, and the
\* jobs to be kept of its outcome are all there, none of them older.
THEOREM PrunedLast == Spec => []PrunedAreOldest
<1>1. Init => PruneInv
  <2> SUFFICES ASSUME Init PROVE PruneInv
    OBVIOUS
  <2>1. DOMAIN trigger = {} /\ DOMAIN job = {} /\ DOMAIN ended = {}
    BY DEF Init, Empty
  <2> QED
    BY <2>1, FS_EmptySet DEF PruneInv, JobsTriggered, EndedAreOver, PrunedHaveYounger
<1>2. TypeOK /\ PruneInv /\ [Next]_vars => PruneInv'
  BY PruneInvInductive
<1>3. PruneInv => PrunedAreOldest
  <2> SUFFICES ASSUME PruneInv, NEW d \in DOMAIN trigger, trigger[d].pc = "201",
                      d \notin DOMAIN job
               PROVE  /\ d \in DOMAIN ended
                      /\ Cardinality({e \in DOMAIN job : job[e] = ended[d].how /\
                                                         ended[e].at >= ended[d].at})
                           = Keep(ended[d].how)
    BY DEF PrunedAreOldest
  <2>1. d \in DOMAIN ended \ DOMAIN job
    BY DEF PruneInv, JobsTriggered
  <2>2. {e \in DOMAIN job : job[e] = ended[d].how /\ ended[e].at >= ended[d].at}
          = Finished(job, ended[d].how)
    BY <2>1 DEF PruneInv, PrunedHaveYounger, Finished
  <2> QED
    BY <2>1, <2>2 DEF PruneInv, PrunedHaveYounger
<1> QED
  BY <1>1, <1>2, <1>3, Typing, PTL DEF Spec
=============================================================================
