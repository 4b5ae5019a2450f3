----------------------------- MODULE SeedProofs -----------------------------
(***************************************************************************)
(* Theorems about Seed, for any number of runs, ids and rows: the types, that *)
(* a run nobody interferes with succeeds, and what a run that reports success *)
(* has left.                                                                *)
(***************************************************************************)
EXTENDS Seed, TableTheorems, FiniteSetTheorems

\* The demo email has one account at most, said without counting.
OneUser == \A u, v \in user : u = v

TypeInv == TypeOK /\ OneUser

LEMMA OneIsAtMostOne ==
  ASSUME NEW S, \A u, v \in S : u = v
  PROVE  Cardinality(S) <= 1
<1>1. CASE S = {}
  <2>1. Cardinality(S) = 0
    BY <1>1, FS_EmptySet
  <2> QED
    BY <2>1
<1>2. CASE S # {}
  <2>1. PICK u : u \in S
    BY <1>2
  <2>2. S = {u}
    BY <2>1
  <2>3. Cardinality(S) = 1
    BY <2>2, FS_Singleton
  <2> QED
    BY <2>3
<1> QED
  BY <1>1, <1>2

\* What Disturb does to a table of runs.
LEMMA DisturbRuns ==
  ASSUME NEW runs, Table(runs, Run, RunState), DOMAIN runs = DOMAIN run, NEW r
  PROVE  /\ Table(Disturb(runs, r), Run, RunState)
         /\ DOMAIN Disturb(runs, r) = DOMAIN run
         /\ \A x \in DOMAIN run :
              /\ Disturb(runs, r)[x].pc = runs[x].pc
              /\ x = r => Disturb(runs, r)[x] = runs[x]
              /\ x # r /\ Running(x) => Disturb(runs, r)[x].disturbed
              /\ x # r /\ ~Running(x) => Disturb(runs, r)[x] = runs[x]
<1>1. \A x \in DOMAIN runs : x \in Run /\ runs[x] \in RunState
  BY TableValue
<1>2. \A x \in DOMAIN runs :
        /\ [runs[x] EXCEPT !.disturbed = TRUE] \in RunState
        /\ [runs[x] EXCEPT !.disturbed = TRUE].pc = runs[x].pc
        /\ [runs[x] EXCEPT !.disturbed = TRUE].disturbed
  BY <1>1 DEF RunState
<1>3. /\ DOMAIN Disturb(runs, r) = DOMAIN runs
      /\ \A x \in DOMAIN runs :
           Disturb(runs, r)[x] = IF x # r /\ Running(x)
                                 THEN [runs[x] EXCEPT !.disturbed = TRUE] ELSE runs[x]
  BY DEF Disturb
<1>4. \A x \in DOMAIN runs : Disturb(runs, r)[x] \in RunState
  BY <1>1, <1>2, <1>3
<1>5. Disturb(runs, r) \in [DOMAIN Disturb(runs, r) -> RunState]
  <2>1. Disturb(runs, r) = [x \in DOMAIN Disturb(runs, r) |-> Disturb(runs, r)[x]]
    BY DEF Disturb
  <2> QED
    BY <1>3, <1>4, <2>1
<1>6. Table(Disturb(runs, r), Run, RunState)
  BY <1>1, <1>3, <1>5 DEF Table
<1> QED
  BY <1>2, <1>3, <1>6

\* The states a run moves on to are states of runs.
LEMMA MovesOn ==
  ASSUME TypeOK, NEW r \in DOMAIN run
  PROVE  /\ \A pc : pc \in {"createUser", "createProject", "done", "failed", "dead"} =>
              Table(Goto(r, pc), Run, RunState)
         /\ \A u \in User : Table(TakeUser(r, u), Run, RunState)
         /\ \A p \in Project : Table(TakeProject(r, p), Run, RunState)
<1>1. r \in Run /\ run[r] \in RunState /\ Table(run, Run, RunState)
  BY TableValue DEF TypeOK
<1>2. ASSUME NEW pc \in {"createUser", "createProject", "done", "failed", "dead"}
      PROVE  Table(Goto(r, pc), Run, RunState)
  <2>1. PICK s \in RunState : s = [run[r] EXCEPT !.pc = pc]
    BY <1>1 DEF RunState
  <2>2. Goto(r, pc) = [run EXCEPT ![r] = s]
    BY <2>1 DEF Goto
  <2> QED
    BY <1>1, <2>2 DEF Table
<1>3. ASSUME NEW u \in User PROVE Table(TakeUser(r, u), Run, RunState)
  <2>1. PICK s \in RunState : s = [run[r] EXCEPT !.pc = "findProject", !.user = u]
    BY <1>1 DEF RunState
  <2>2. TakeUser(r, u) = [run EXCEPT ![r] = s]
    BY <1>1, <2>1 DEF TakeUser, Table
  <2> QED
    BY <1>1, <2>2 DEF Table
<1>4. ASSUME NEW p \in Project PROVE Table(TakeProject(r, p), Run, RunState)
  <2>1. PICK s \in RunState : s = [run[r] EXCEPT !.pc = "deploy", !.project = p]
    BY <1>1 DEF RunState
  <2>2. TakeProject(r, p) = [run EXCEPT ![r] = s]
    BY <1>1, <2>1 DEF TakeProject, Table
  <2> QED
    BY <1>1, <2>2 DEF Table
<1> QED
  BY <1>2, <1>3, <1>4

\* The types of the tables; what TypeOK counts follows from OneUser.
Tabled ==
  /\ user \subseteq User
  /\ Table(project, Project, ProjectRow)
  /\ Table(deployment, Deployment, DeploymentRow)
  /\ user \cup DOMAIN project \cup DOMAIN deployment \subseteq used
  /\ used \subseteq User \cup Project \cup Deployment
  /\ \A p \in DOMAIN project : project[p].owner \in user
  /\ OneUser

LEMMA TypedWhenTabled ==
  /\ Tabled /\ Table(run, Run, RunState) => TypeInv
  /\ Tabled' /\ Table(run', Run, RunState) => TypeInv'
  /\ TypeInv => Tabled
<1>1. /\ OneUser => Cardinality(user) <= 1
      /\ OneUser' => Cardinality(user') <= 1
  BY OneIsAtMostOne DEF OneUser
<1> QED
  BY <1>1 DEF TypeInv, Tabled, TypeOK

\* An account is inserted where there is none.
LEMMA UserInserted ==
  ASSUME Tabled, user = {}, NEW u \in User \ used, user' = user \cup {u},
         used' = used \cup {u}, UNCHANGED <<project, deployment>>
  PROVE  Tabled'
  BY DEF Tabled, OneUser

\* A project of the account that is there is inserted.
LEMMA ProjectInserted ==
  ASSUME Tabled, NEW p \in Project \ used, NEW u \in user,
         project' = Put(project, p, [owner |-> u, name |-> "demo-api"]),
         used' = used \cup {p}, UNCHANGED <<user, deployment>>
  PROVE  Tabled'
<1>1. [owner |-> u, name |-> "demo-api"] \in ProjectRow
  BY DEF ProjectRow, Tabled
<1>2. Table(project', Project, ProjectRow)
  BY <1>1, PutTable DEF Tabled
<1>3. /\ DOMAIN project' = DOMAIN project \cup {p}
      /\ \A q \in DOMAIN project' : project'[q].owner \in user
  BY DEF Put, Tabled
<1> QED
  BY <1>2, <1>3 DEF Tabled, OneUser

\* Projects and deployments go, and the accounts of those that stay do not.
LEMMA RowsDeleted ==
  ASSUME Tabled, NEW P \in SUBSET DOMAIN project, NEW D \in SUBSET DOMAIN deployment,
         project' = Restrict(project, P), deployment' = Restrict(deployment, D),
         user' \subseteq user, \A p \in P : project[p].owner \in user', used' = used
  PROVE  Tabled'
<1>1. /\ Table(project', Project, ProjectRow)
      /\ Table(deployment', Deployment, DeploymentRow)
  BY RestrictTable DEF Tabled
<1>2. /\ DOMAIN project' = P /\ DOMAIN deployment' = D
      /\ \A p \in P : project'[p] = project[p]
  BY DEF Restrict
<1> QED
  BY <1>1, <1>2 DEF Tabled, OneUser

\* The types are kept by every step of the script ...
LEMMA ScriptTyped ==
  ASSUME TypeInv, NEW r \in Run, Script(r)
  PROVE  TypeInv'
<1>1. Tabled /\ TypeOK
  BY TypedWhenTabled DEF TypeInv
<1>2. UNCHANGED <<user, project, deployment, used>> => Tabled'
  BY <1>1 DEF Tabled, OneUser
<1>3. CASE Start(r)
  <2>1. [pc |-> "findUser", user |-> None, project |-> None, disturbed |-> FALSE] \in RunState
    BY DEF RunState
  <2>2. Table(run', Run, RunState)
    BY <1>1, <1>3, <2>1, PutTable DEF Start, TypeOK
  <2> QED
    BY <1>2, <1>3, <2>2, TypedWhenTabled DEF Start
<1>4. CASE FindUser(r)
  <2>1. Table(run', Run, RunState)
    BY <1>1, <1>4, MovesOn DEF FindUser, At, TypeOK
  <2> QED
    BY <1>2, <1>4, <2>1, TypedWhenTabled DEF FindUser
<1>5. CASE CreateUser(r)
  <2>1. r \in DOMAIN run
    BY <1>5 DEF CreateUser, At
  <2>2. ASSUME NEW u \in User \ used, user = {}, user' = user \cup {u},
               used' = used \cup {u}, run' = Disturb(TakeUser(r, u), r)
        PROVE  TypeInv'
    <3>1. Table(TakeUser(r, u), Run, RunState) /\ DOMAIN TakeUser(r, u) = DOMAIN run
      BY <1>1, <2>1, MovesOn DEF TakeUser
    <3>2. Table(run', Run, RunState)
      BY <2>2, <3>1, DisturbRuns
    <3> QED
      BY <1>1, <1>5, <2>2, <3>2, UserInserted, TypedWhenTabled DEF CreateUser
  <2>3. ASSUME run' \in {Goto(r, "failed")} \cup {TakeUser(r, u) : u \in user},
               UNCHANGED <<user, used>>
        PROVE  TypeInv'
    <3>1. Table(run', Run, RunState)
      BY <1>1, <2>1, <2>3, MovesOn DEF TypeOK
    <3> QED
      BY <1>2, <1>5, <2>3, <3>1, TypedWhenTabled DEF CreateUser
  <2> QED
    BY <1>5, <2>2, <2>3 DEF CreateUser
<1>6. CASE FindProject(r)
  <2>1. Table(run', Run, RunState)
    <3>1. r \in DOMAIN run /\ Named(run[r].user, "demo-api") \subseteq Project
      BY <1>1, <1>6, TableValue DEF FindProject, At, Named, TypeOK
    <3> QED
      BY <1>1, <1>6, <3>1, MovesOn DEF FindProject
  <2> QED
    BY <1>2, <1>6, <2>1, TypedWhenTabled DEF FindProject
<1>7. CASE CreateProject(r)
  <2>1. r \in DOMAIN run /\ Named(run[r].user, "demo-api") \subseteq Project
    BY <1>1, <1>7, TableValue DEF CreateProject, At, Named, TypeOK
  <2>2. ASSUME NEW p \in Project \ used, run[r].user \in user,
               project' = Put(project, p, [owner |-> run[r].user, name |-> "demo-api"]),
               used' = used \cup {p}, run' = Disturb(TakeProject(r, p), r)
        PROVE  TypeInv'
    <3>1. Table(TakeProject(r, p), Run, RunState) /\ DOMAIN TakeProject(r, p) = DOMAIN run
      BY <1>1, <2>1, MovesOn DEF TakeProject
    <3>2. Table(run', Run, RunState)
      BY <2>2, <3>1, DisturbRuns
    <3> QED
      BY <1>1, <1>7, <2>2, <3>2, ProjectInserted, TypedWhenTabled DEF CreateProject
  <2>3. ASSUME run' \in {Goto(r, "failed")} \cup
                         {TakeProject(r, p) : p \in Named(run[r].user, "demo-api")},
               UNCHANGED <<project, used>>
        PROVE  TypeInv'
    <3>1. Table(run', Run, RunState)
      BY <1>1, <2>1, <2>3, MovesOn
    <3> QED
      BY <1>2, <1>7, <2>3, <3>1, TypedWhenTabled DEF CreateProject
  <2> QED
    BY <1>7, <2>2, <2>3 DEF CreateProject
<1>8. CASE Deploy(r)
  <2>1. r \in DOMAIN run /\ run[r] \in RunState
    BY <1>1, <1>8, TableValue DEF Deploy, At, TypeOK
  <2>2. ASSUME NEW d \in Deployment \ used, run[r].project \in DOMAIN project,
               deployment' = Put(deployment, d, [project |-> run[r].project, run |-> r]),
               used' = used \cup {d}, run' = Disturb(Goto(r, "done"), r)
        PROVE  TypeInv'
    <3>1. Table(Goto(r, "done"), Run, RunState) /\ DOMAIN Goto(r, "done") = DOMAIN run
      BY <1>1, <2>1, MovesOn DEF Goto
    <3>2. Table(run', Run, RunState)
      BY <2>2, <3>1, DisturbRuns
    <3>3. [project |-> run[r].project, run |-> r] \in DeploymentRow
      BY <1>1, <2>2, TableValue DEF DeploymentRow, TypeOK
    <3>4. Table(deployment', Deployment, DeploymentRow)
      BY <1>1, <2>2, <3>3, PutTable DEF TypeOK
    <3>5. DOMAIN deployment' = DOMAIN deployment \cup {d}
      BY <2>2, PutDomain
    <3>6. Tabled'
      BY <1>1, <1>8, <2>2, <3>4, <3>5 DEF Deploy, Tabled, OneUser
    <3> QED
      BY <3>2, <3>6, TypedWhenTabled
  <2>3. ASSUME run' = Goto(r, "failed"), UNCHANGED <<deployment, used>> PROVE TypeInv'
    <3>1. Table(run', Run, RunState)
      BY <1>1, <2>1, <2>3, MovesOn
    <3> QED
      BY <1>2, <1>8, <2>3, <3>1, TypedWhenTabled DEF Deploy
  <2> QED
    BY <1>8, <2>2, <2>3 DEF Deploy
<1>9. CASE QueryError(r) \/ Kill(r)
  <2>1. r \in DOMAIN run /\ run[r] \in RunState
    BY <1>1, <1>9, TableValue DEF QueryError, Kill, Running, TypeOK
  <2>2. Table(run', Run, RunState)
    <3>1. CASE QueryError(r)
      BY <1>1, <2>1, <3>1 DEF QueryError, TypeOK, Table, RunState
    <3>2. CASE Kill(r)
      BY <1>1, <2>1, <3>2, MovesOn DEF Kill
    <3> QED
      BY <1>9, <3>1, <3>2
  <2> QED
    BY <1>2, <1>9, <2>2, TypedWhenTabled DEF QueryError, Kill
<1> QED
  BY <1>3, <1>4, <1>5, <1>6, <1>7, <1>8, <1>9 DEF Script

\* What the API and the operator do meanwhile.
Others ==
  \/ \E u \in User : Register(u) \/ DeleteUser(u) \/ \E p \in Project : AddProject(u, p)
  \/ \E p \in Project : RenameProject(p) \/ RemoveProject(p)

\* ... and by everybody else's.
LEMMA OthersTyped ==
  ASSUME TypeInv, Others
  PROVE  TypeInv'
<1>1. Tabled /\ TypeOK
  BY TypedWhenTabled DEF TypeInv
<1>2. run' = Disturb(run, None)
  BY DEF Others, Register, DeleteUser, AddProject, RenameProject, RemoveProject
<1>3. Table(run', Run, RunState)
  BY <1>1, <1>2, DisturbRuns DEF TypeOK
<1>4. ASSUME NEW u \in User, Register(u) PROVE Tabled'
  BY <1>1, <1>4, UserInserted DEF Register
<1>5. ASSUME NEW u \in User, DeleteUser(u) PROVE Tabled'
  <2> DEFINE P == {p \in DOMAIN project : project[p].owner # u}
             D == {d \in DOMAIN deployment : deployment[d].project \in DOMAIN project'}
  <2>1. /\ project' = Restrict(project, P) /\ deployment' = Restrict(deployment, D)
        /\ user' = user \ {u} /\ used' = used
    BY <1>5 DEF DeleteUser
  <2>2. \A p \in P : project[p].owner \in user'
    BY <1>1, <2>1 DEF Tabled
  <2>3. P \subseteq DOMAIN project /\ D \subseteq DOMAIN deployment
    OBVIOUS
  <2> HIDE DEF P, D
  <2> QED
    BY <1>1, <2>1, <2>2, <2>3, RowsDeleted
<1>6. ASSUME NEW u \in User, NEW p \in Project, AddProject(u, p) PROVE Tabled'
  BY <1>1, <1>6, ProjectInserted DEF AddProject
<1>7. ASSUME NEW p \in Project, RenameProject(p) PROVE Tabled'
  <2>1. p \in DOMAIN project /\ project[p] \in ProjectRow
    BY <1>1, <1>7, TableValue DEF RenameProject, TypeOK
  <2>2. /\ Table(project', Project, ProjectRow) /\ DOMAIN project' = DOMAIN project
        /\ \A q \in DOMAIN project : project'[q].owner = project[q].owner
    BY <1>1, <1>7, <2>1 DEF RenameProject, Tabled, Table, ProjectRow
  <2> QED
    BY <1>1, <1>7, <2>2 DEF RenameProject, Tabled, OneUser
<1>8. ASSUME NEW p \in Project, RemoveProject(p) PROVE Tabled'
  <2> DEFINE P == DOMAIN project \ {p}
             D == {d \in DOMAIN deployment : deployment[d].project # p}
  <2>1. /\ project' = Restrict(project, P) /\ deployment' = Restrict(deployment, D)
        /\ user' = user /\ used' = used
    BY <1>8 DEF RemoveProject, Drop
  <2>2. \A q \in P : project[q].owner \in user'
    BY <1>1, <2>1 DEF Tabled
  <2>3. P \subseteq DOMAIN project /\ D \subseteq DOMAIN deployment
    OBVIOUS
  <2> HIDE DEF P, D
  <2> QED
    BY <1>1, <2>1, <2>2, <2>3, RowsDeleted
<1> QED
  BY <1>3, <1>4, <1>5, <1>6, <1>7, <1>8, TypedWhenTabled DEF Others

LEMMA TypeInvariant == Spec => []TypeInv
<1>1. Init => TypeInv
  <2> SUFFICES ASSUME Init PROVE TypeInv
    OBVIOUS
  <2>1. /\ Table(project, Project, ProjectRow) /\ Table(deployment, Deployment, DeploymentRow)
        /\ Table(run, Run, RunState)
    BY EmptyTable DEF Init
  <2>2. Tabled
    BY <2>1 DEF Init, Tabled, OneUser, Empty
  <2> QED
    BY <2>1, <2>2, TypedWhenTabled
<1>2. TypeInv /\ [Next]_vars => TypeInv'
  <2>1. TypeInv /\ Next => TypeInv'
    BY ScriptTyped, OthersTyped DEF Next, Others
  <2>2. TypeInv /\ UNCHANGED vars => TypeInv'
    BY DEF TypeInv, TypeOK, OneUser, vars
  <2> QED
    BY <2>1, <2>2
<1> QED
  BY <1>1, <1>2, PTL DEF Spec

\* Every variable has its type, ids are generated once, the demo email has one
\* account at most and every project an owner that exists (TypeOK), whatever runs
\* race, die half-way or meet deletions.
THEOREM Typing == Spec => []TypeOK
<1>1. TypeInv => TypeOK
  BY DEF TypeInv
<1> QED
  BY <1>1, TypeInvariant, PTL

-----------------------------------------------------------------------------
(* Runs nobody interferes with.  What such a run has looked up is still so,   *)
(* or it would have been disturbed.                                          *)

LookupsHold(r) ==
  ~run[r].disturbed =>
    /\ run[r].pc # "failed"
    /\ run[r].pc = "createUser" => user = {}
    /\ run[r].pc \in {"findProject", "createProject", "deploy"} => run[r].user \in user
    /\ run[r].pc = "createProject" => Named(run[r].user, "demo-api") = {}
    /\ run[r].pc = "deploy" => run[r].project \in DOMAIN project

ReadyInv == \A r \in DOMAIN run : LookupsHold(r)

\* After a write of r every other run is disturbed, or over.
LEMMA OthersDisturbed ==
  ASSUME TypeOK, ReadyInv, NEW runs, Table(runs, Run, RunState), DOMAIN runs = DOMAIN run,
         NEW r, \A x \in DOMAIN run \ {r} : runs[x] = run[x], run' = Disturb(runs, r),
         r \in DOMAIN run => LookupsHold(r)'
  PROVE  ReadyInv'
<1>1. /\ DOMAIN run' = DOMAIN run
      /\ \A x \in DOMAIN run :
           /\ x # r /\ Running(x) => run'[x].disturbed
           /\ x # r /\ ~Running(x) => run'[x] = runs[x]
  BY DisturbRuns
<1>2. ASSUME NEW x \in DOMAIN run, x # r PROVE LookupsHold(x)'
  <2>1. CASE Running(x)
    BY <1>1, <1>2, <2>1 DEF LookupsHold
  <2>2. CASE ~Running(x)
    <3>1. run'[x] = run[x] /\ run[x].pc \in {"done", "failed", "dead"}
      BY <1>1, <1>2, <2>2 DEF Running
    <3> QED
      BY <3>1 DEF ReadyInv, LookupsHold
  <2> QED
    BY <2>1, <2>2
<1> QED
  BY <1>1, <1>2 DEF ReadyInv

\* A run that goes on without a write leaves the others as they are.
LEMMA OneGoesOn ==
  ASSUME ReadyInv, NEW r, UNCHANGED <<user, project>>,
         DOMAIN run' \subseteq DOMAIN run \cup {r},
         \A x \in DOMAIN run \ {r} : run'[x] = run[x], LookupsHold(r)'
  PROVE  ReadyInv'
<1>1. ASSUME NEW x \in DOMAIN run' \ {r} PROVE LookupsHold(x)'
  BY DEF ReadyInv, LookupsHold, Named
<1> QED
  BY <1>1 DEF ReadyInv

\* Where a run moves on to.
LEMMA MovedOn ==
  ASSUME TypeOK, NEW r \in DOMAIN run
  PROVE  /\ \A pc : /\ DOMAIN Goto(r, pc) = DOMAIN run
                    /\ \A x \in DOMAIN run \ {r} : Goto(r, pc)[x] = run[x]
                    /\ Goto(r, pc)[r].pc = pc /\ Goto(r, pc)[r].user = run[r].user
                    /\ Goto(r, pc)[r].project = run[r].project
                    /\ Goto(r, pc)[r].disturbed = run[r].disturbed
         /\ \A u : /\ DOMAIN TakeUser(r, u) = DOMAIN run
                   /\ \A x \in DOMAIN run \ {r} : TakeUser(r, u)[x] = run[x]
                   /\ TakeUser(r, u)[r].pc = "findProject" /\ TakeUser(r, u)[r].user = u
         /\ \A p : /\ DOMAIN TakeProject(r, p) = DOMAIN run
                   /\ \A x \in DOMAIN run \ {r} : TakeProject(r, p)[x] = run[x]
                   /\ TakeProject(r, p)[r].pc = "deploy"
                   /\ TakeProject(r, p)[r].project = p
                   /\ TakeProject(r, p)[r].user = run[r].user
                   /\ TakeProject(r, p)[r].disturbed = run[r].disturbed
<1>1. run[r] \in RunState
  BY TableValue DEF TypeOK
<1> QED
  BY <1>1 DEF Goto, TakeUser, TakeProject, RunState

\* The lookups of a run stay true by its own steps.
LEMMA ScriptReady ==
  ASSUME TypeInv, ReadyInv, NEW r \in Run, Script(r)
  PROVE  ReadyInv'
<1>1. TypeOK /\ Tabled
  BY TypedWhenTabled DEF TypeInv
<1>2. CASE Start(r)
  <2>1. /\ DOMAIN run' = DOMAIN run \cup {r}
        /\ \A x \in DOMAIN run \ {r} : run'[x] = run[x]
        /\ run'[r].pc = "findUser"
    BY <1>2 DEF Start, Put
  <2>2. LookupsHold(r)'
    BY <2>1 DEF LookupsHold
  <2> QED
    BY <1>2, <2>1, <2>2, OneGoesOn DEF Start
<1>3. CASE FindUser(r)
  <2>1. r \in DOMAIN run /\ UNCHANGED <<user, project>>
    BY <1>3 DEF FindUser, At
  <2>2. LookupsHold(r)'
    BY <1>1, <1>3, <2>1, MovedOn DEF FindUser, LookupsHold
  <2> QED
    BY <1>1, <1>3, <2>1, <2>2, MovedOn, OneGoesOn DEF FindUser
<1>4. CASE CreateUser(r)
  <2>1. r \in DOMAIN run /\ run[r].pc = "createUser"
    BY <1>4 DEF CreateUser, At
  <2>2. ASSUME NEW u \in User \ used, user' = user \cup {u},
               run' = Disturb(TakeUser(r, u), r)
        PROVE  ReadyInv'
    <3>1. Table(TakeUser(r, u), Run, RunState)
      BY <1>1, <2>1, MovesOn
    <3>2. /\ DOMAIN TakeUser(r, u) = DOMAIN run
          /\ \A x \in DOMAIN run \ {r} : TakeUser(r, u)[x] = run[x]
          /\ TakeUser(r, u)[r].pc = "findProject" /\ TakeUser(r, u)[r].user = u
      BY <1>1, <2>1, MovedOn
    <3>3. run'[r] = TakeUser(r, u)[r]
      BY <2>1, <2>2, <3>1, <3>2, DisturbRuns
    <3>4. LookupsHold(r)'
      BY <2>2, <3>2, <3>3 DEF LookupsHold
    <3> QED
      BY <1>1, <2>2, <3>1, <3>2, <3>4, OthersDisturbed
  <2>3. ASSUME user # {}, run' \in {Goto(r, "failed")} \cup {TakeUser(r, u) : u \in user},
               UNCHANGED user
        PROVE  ReadyInv'
    <3>1. run[r].disturbed
      BY <2>1, <2>3 DEF ReadyInv, LookupsHold
    <3>2. LookupsHold(r)'
      BY <1>1, <2>1, <2>3, <3>1, MovedOn DEF LookupsHold
    <3> QED
      BY <1>1, <1>4, <2>1, <2>3, <3>2, MovedOn, OneGoesOn DEF CreateUser
  <2> QED
    BY <1>4, <2>2, <2>3 DEF CreateUser
<1>5. CASE FindProject(r)
  <2>1. r \in DOMAIN run /\ run[r].pc = "findProject" /\ UNCHANGED <<user, project>>
    BY <1>5 DEF FindProject, At
  <2>2. ~run[r].disturbed => run[r].user \in user
    BY <2>1 DEF ReadyInv, LookupsHold
  <2>3. ASSUME NEW p \in Named(run[r].user, "demo-api"), run' = TakeProject(r, p)
        PROVE  ReadyInv'
    <3>1. p \in DOMAIN project
      BY <2>3 DEF Named
    <3>2. LookupsHold(r)'
      BY <1>1, <2>1, <2>2, <2>3, <3>1, MovedOn DEF LookupsHold
    <3> QED
      BY <1>1, <2>1, <2>3, <3>2, MovedOn, OneGoesOn
  <2>4. ASSUME Named(run[r].user, "demo-api") = {}, run' = Goto(r, "createProject")
        PROVE  ReadyInv'
    <3>1. Named(run[r].user, "demo-api")' = {}
      <4>1. run'[r].user = run[r].user
        BY <1>1, <2>1, <2>4, MovedOn
      <4> QED
        BY <2>1, <2>4, <4>1 DEF Named
    <3>2. LookupsHold(r)'
      BY <1>1, <2>1, <2>2, <2>4, <3>1, MovedOn DEF LookupsHold
    <3> QED
      BY <1>1, <2>1, <2>4, <3>2, MovedOn, OneGoesOn
  <2> QED
    BY <1>5, <2>3, <2>4 DEF FindProject
<1>6. CASE CreateProject(r)
  <2>1. r \in DOMAIN run /\ run[r].pc = "createProject" /\ user' = user
    BY <1>6 DEF CreateProject, At
  <2>2. ~run[r].disturbed =>
          run[r].user \in user /\ Named(run[r].user, "demo-api") = {}
    BY <2>1 DEF ReadyInv, LookupsHold
  <2>3. ASSUME NEW p \in Project \ used, run[r].user \in user,
               project' = Put(project, p, [owner |-> run[r].user, name |-> "demo-api"]),
               run' = Disturb(TakeProject(r, p), r)
        PROVE  ReadyInv'
    <3>1. Table(TakeProject(r, p), Run, RunState)
      BY <1>1, <2>1, MovesOn
    <3>2. /\ DOMAIN TakeProject(r, p) = DOMAIN run
          /\ \A x \in DOMAIN run \ {r} : TakeProject(r, p)[x] = run[x]
          /\ TakeProject(r, p)[r].pc = "deploy" /\ TakeProject(r, p)[r].project = p
          /\ TakeProject(r, p)[r].user = run[r].user
      BY <1>1, <2>1, MovedOn
    <3>3. run'[r] = TakeProject(r, p)[r]
      BY <2>1, <2>3, <3>1, <3>2, DisturbRuns
    <3>4. p \in DOMAIN project'
      BY <2>3 DEF Put
    <3>5. LookupsHold(r)'
      BY <2>1, <2>3, <3>2, <3>3, <3>4 DEF LookupsHold
    <3> QED
      BY <1>1, <2>3, <3>1, <3>2, <3>5, OthersDisturbed
  <2>4. ASSUME run[r].user \notin user \/ Named(run[r].user, "demo-api") # {},
               run' \in {Goto(r, "failed")} \cup
                         {TakeProject(r, p) : p \in Named(run[r].user, "demo-api")},
               project' = project
        PROVE  ReadyInv'
    <3>1. run[r].disturbed
      BY <2>2, <2>4
    <3>2. /\ run'[r].disturbed /\ DOMAIN run' = DOMAIN run
          /\ \A x \in DOMAIN run \ {r} : run'[x] = run[x]
      BY <1>1, <2>1, <2>4, <3>1, MovedOn
    <3> QED
      BY <2>1, <2>4, <3>2, OneGoesOn DEF LookupsHold
  <2> QED
    BY <1>6, <2>3, <2>4 DEF CreateProject
<1>7. CASE Deploy(r)
  <2>1. r \in DOMAIN run /\ run[r].pc = "deploy" /\ UNCHANGED <<user, project>>
    BY <1>7 DEF Deploy, At
  <2>2. CASE run' = Disturb(Goto(r, "done"), r)
    <3>1. Table(Goto(r, "done"), Run, RunState)
      BY <1>1, <2>1, MovesOn
    <3>2. /\ DOMAIN Goto(r, "done") = DOMAIN run
          /\ \A x \in DOMAIN run \ {r} : Goto(r, "done")[x] = run[x]
          /\ Goto(r, "done")[r].pc = "done"
      BY <1>1, <2>1, MovedOn
    <3>3. run'[r] = Goto(r, "done")[r]
      BY <2>1, <2>2, <3>1, <3>2, DisturbRuns
    <3>4. LookupsHold(r)'
      BY <3>2, <3>3 DEF LookupsHold
    <3> QED
      BY <1>1, <2>2, <3>1, <3>2, <3>4, OthersDisturbed
  <2>3. CASE run[r].project \notin DOMAIN project /\ run' = Goto(r, "failed")
    <3>1. run[r].disturbed
      BY <2>1, <2>3 DEF ReadyInv, LookupsHold
    <3>2. /\ run'[r].disturbed /\ DOMAIN run' = DOMAIN run
          /\ \A x \in DOMAIN run \ {r} : run'[x] = run[x]
      BY <1>1, <2>1, <2>3, <3>1, MovedOn
    <3> QED
      BY <2>1, <3>2, OneGoesOn DEF LookupsHold
  <2> QED
    BY <1>7, <2>2, <2>3 DEF Deploy
<1>8. CASE QueryError(r)
  <2>1. r \in DOMAIN run /\ run[r] \in RunState /\ UNCHANGED <<user, project>>
    BY <1>1, <1>8, TableValue DEF QueryError, Running, TypeOK
  <2>2. /\ run'[r].disturbed /\ DOMAIN run' = DOMAIN run
        /\ \A x \in DOMAIN run \ {r} : run'[x] = run[x]
    BY <1>8, <2>1 DEF QueryError, RunState
  <2> QED
    BY <2>1, <2>2, OneGoesOn DEF LookupsHold
<1>9. CASE Kill(r)
  <2>1. r \in DOMAIN run /\ UNCHANGED <<user, project>>
    BY <1>9 DEF Kill, Running
  <2>2. /\ run'[r].pc = "dead" /\ DOMAIN run' = DOMAIN run
        /\ \A x \in DOMAIN run \ {r} : run'[x] = run[x]
    BY <1>1, <1>9, <2>1, MovedOn DEF Kill
  <2> QED
    BY <2>1, <2>2, OneGoesOn DEF LookupsHold
<1> QED
  BY <1>2, <1>3, <1>4, <1>5, <1>6, <1>7, <1>8, <1>9 DEF Script

LEMMA ReadyInvariant == Spec => []ReadyInv
<1>1. Init => ReadyInv
  BY DEF Init, Empty, ReadyInv
<1>2. TypeInv /\ ReadyInv /\ [Next]_vars => ReadyInv'
  <2> SUFFICES ASSUME TypeInv, ReadyInv, [Next]_vars PROVE ReadyInv'
    OBVIOUS
  <2>1. CASE Others
    <3>1. run' = Disturb(run, None) /\ None \notin DOMAIN run /\ Table(run, Run, RunState)
      BY <2>1, SeedAssumption
      DEF Others, Register, DeleteUser, AddProject, RenameProject, RemoveProject,
          TypeInv, TypeOK, Table
    <3> QED
      BY <3>1, OthersDisturbed DEF TypeInv
  <2>2. CASE UNCHANGED vars
    BY <2>2 DEF vars, ReadyInv, LookupsHold, Named
  <2> QED
    BY <2>1, <2>2, ScriptReady DEF Next, Others
<1> QED
  BY <1>1, <1>2, TypeInvariant, PTL DEF Spec

\* "Safe to run repeatedly" (RerunSucceeds): of any number of runs the one that
\* nobody interferes with does not fail, whatever it finds in the database.
THEOREM UndisturbedSucceeds == Spec => []RerunSucceeds
<1>1. ReadyInv => RerunSucceeds
  BY DEF ReadyInv, LookupsHold, RerunSucceeds
<1> QED
  BY <1>1, ReadyInvariant, PTL

\* Only Deploy makes a run report success.
LEMMA DoneByDeploy ==
  ASSUME TypeOK, Next, NEW r \in DOMAIN run, run[r].pc # "done", run'[r].pc = "done"
  PROVE  /\ run[r].project \in DOMAIN project /\ UNCHANGED <<user, project>>
         /\ \E d \in Deployment \ used :
              deployment' = Put(deployment, d, [project |-> run[r].project, run |-> r])
<1>1. ASSUME NEW runs, Table(runs, Run, RunState), DOMAIN runs = DOMAIN run, NEW s,
             run' = Disturb(runs, s)
      PROVE  runs[r].pc = "done"
  BY <1>1, DisturbRuns
<1>2. ~Others
  <2> SUFFICES ASSUME Others PROVE FALSE
    OBVIOUS
  <2>1. run' = Disturb(run, None) /\ Table(run, Run, RunState)
    BY DEF Others, Register, DeleteUser, AddProject, RenameProject, RemoveProject, TypeOK
  <2> QED
    BY <1>1, <2>1
<1>3. PICK s \in Run : Script(s)
  BY <1>2 DEF Next, Others
<1>4. ASSUME s \in DOMAIN run
      PROVE  /\ \A pc \in {"createUser", "createProject", "failed", "dead"} : run' # Goto(s, pc)
             /\ \A u : run' # TakeUser(s, u)
             /\ \A p : run' # TakeProject(s, p)
             /\ \A u \in User : run' # Disturb(TakeUser(s, u), s)
             /\ \A p \in Project : run' # Disturb(TakeProject(s, p), s)
  <2>1. /\ \A pc \in {"createUser", "createProject", "failed", "dead"} :
             Goto(s, pc)[r].pc # "done"
        /\ \A u : TakeUser(s, u)[r].pc # "done" /\ DOMAIN TakeUser(s, u) = DOMAIN run
        /\ \A p : TakeProject(s, p)[r].pc # "done" /\ DOMAIN TakeProject(s, p) = DOMAIN run
    BY <1>4, MovedOn
  <2>2. /\ \A u \in User : Table(TakeUser(s, u), Run, RunState)
        /\ \A p \in Project : Table(TakeProject(s, p), Run, RunState)
    BY <1>4, MovesOn
  <2> QED
    BY <1>1, <2>1, <2>2
<1>5. Deploy(s) /\ s \in DOMAIN run
  <2>1. ~Start(s)
    BY DEF Start, Put
  <2>2. ~FindUser(s)
    BY <1>4 DEF FindUser, At
  <2>3. ~CreateUser(s)
    BY <1>4 DEF CreateUser, At
  <2>4. ~FindProject(s)
    BY <1>4 DEF FindProject, At
  <2>5. ~CreateProject(s)
    BY <1>4 DEF CreateProject, At
  <2>6. ~QueryError(s)
    <3> SUFFICES ASSUME QueryError(s) PROVE FALSE
      OBVIOUS
    <3>1. s \in DOMAIN run /\ run[s] \in RunState
      BY TableValue DEF QueryError, Running, TypeOK
    <3> QED
      BY <3>1 DEF QueryError, RunState
  <2>7. ~Kill(s)
    BY <1>4 DEF Kill, Running
  <2> QED
    BY <1>3, <2>1, <2>2, <2>3, <2>4, <2>5, <2>6, <2>7 DEF Script, Deploy, At
<1>6. run' # Goto(s, "failed")
  BY <1>4, <1>5
<1>7. PICK d \in Deployment \ used :
        /\ run[s].project \in DOMAIN project
        /\ deployment' = Put(deployment, d, [project |-> run[s].project, run |-> s])
        /\ run' = Disturb(Goto(s, "done"), s)
  BY <1>5, <1>6 DEF Deploy
<1>8. s = r
  <2>1. Table(Goto(s, "done"), Run, RunState) /\ DOMAIN Goto(s, "done") = DOMAIN run
    BY <1>5, MovesOn, MovedOn
  <2>2. Goto(s, "done")[r].pc = "done"
    BY <1>1, <1>7, <2>1
  <2> QED
    BY <1>5, <2>2, MovedOn
<1> QED
  BY <1>5, <1>7, <1>8 DEF Deploy

\* A run that reports success left a deployment, of a project of the account that
\* has the demo email at that moment (DoneIsComplete).
THEOREM DoneLeavesDeployment == Spec => DoneIsComplete
<1> DEFINE Complete(r) ==
             \E d \in DOMAIN deployment' :
               /\ deployment'[d].run = r
               /\ deployment'[d].project \in DOMAIN project'
               /\ project'[deployment'[d].project].owner \in user'
<1>1. TypeInv /\ [Next]_vars =>
        [\A r \in DOMAIN run : run[r].pc # "done" /\ run'[r].pc = "done" => Complete(r)]_vars
  <2> SUFFICES ASSUME TypeInv, Next, NEW r \in DOMAIN run,
                      run[r].pc # "done", run'[r].pc = "done"
               PROVE  Complete(r)
    OBVIOUS
  <2>1. /\ run[r].project \in DOMAIN project /\ UNCHANGED <<user, project>>
        /\ \E d \in Deployment \ used :
             deployment' = Put(deployment, d, [project |-> run[r].project, run |-> r])
    BY DoneByDeploy DEF TypeInv
  <2>2. PICK d : deployment' = Put(deployment, d, [project |-> run[r].project, run |-> r])
    BY <2>1
  <2>3. /\ d \in DOMAIN deployment' /\ deployment'[d].run = r
        /\ deployment'[d].project = run[r].project
    BY <2>2 DEF Put
  <2>4. project'[run[r].project].owner \in user'
    BY <2>1 DEF TypeInv, TypeOK
  <2> QED
    BY <2>1, <2>3, <2>4
<1> QED
  BY <1>1, TypeInvariant, PTL DEF Spec, DoneIsComplete
=============================================================================
