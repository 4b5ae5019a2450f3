-------------------------------- MODULE Seed --------------------------------
(***************************************************************************)
(* prisma/seed.ts: two upserts and an insert, each a commit of its own, run   *)
(* again and again on one database, alone or at once, cut short anywhere, and *)
(* while the API registers the demo email, deletes the demo user, or creates, *)
(* renames and deletes the demo project.                                     *)
(*                                                                         *)
(* An upsert with an empty update is a lookup and an insert; when somebody    *)
(* else inserted in between it ends in P2002, or, where Prisma's engine sends *)
(* it as one statement, with the row that is there: both are behaviours.     *)
(***************************************************************************)
EXTENDS FiniteSets, Tables

CONSTANTS
  Run,         \* the runs of the script
  User,        \* the ids that may be generated
  Project,
  Deployment,
  None

ASSUME SeedAssumption ==
  /\ None \notin User \cup Project \cup Run
  /\ User \cap Project = {} /\ (User \cup Project) \cap Deployment = {}

VARIABLES
  user,        \* Postgres: the accounts with the demo email
  project,     \* Postgres: the projects of these accounts
  deployment,  \* Postgres: the deployments of these projects
  used,        \* the ids generated so far
  run          \* the runs and where they are

vars == <<user, project, deployment, used, run>>

-----------------------------------------------------------------------------
ProjectRow == [owner: User, name: {"demo-api", "other"}]
DeploymentRow == [project: Project, run: Run]

\* disturbed is history: somebody else wrote, or a query failed, during the run.
RunState ==
  [pc: {"findUser", "createUser", "findProject", "createProject", "deploy",
        "done", "failed", "dead"},
   user: User \cup {None}, project: Project \cup {None}, disturbed: BOOLEAN]

TypeOK ==
  /\ user \subseteq User
  /\ Table(project, Project, ProjectRow)
  /\ Table(deployment, Deployment, DeploymentRow)
  /\ user \cup DOMAIN project \cup DOMAIN deployment \subseteq used
  /\ used \subseteq User \cup Project \cup Deployment
  /\ Table(run, Run, RunState)
  /\ Cardinality(user) <= 1
  /\ \A p \in DOMAIN project : project[p].owner \in user

Init ==
  /\ user = {} /\ project = Empty /\ deployment = Empty
  /\ used = {}
  /\ run = Empty

\* The project of user u by that name.
Named(u, name) == {p \in DOMAIN project : project[p].owner = u /\ project[p].name = name}

At(r, pc) == r \in DOMAIN run /\ run[r].pc = pc

Running(r) == r \in DOMAIN run /\ run[r].pc \notin {"done", "failed", "dead"}

\* What others do disturbs every run but r.
Disturb(runs, r) ==
  [x \in DOMAIN runs |-> IF x # r /\ Running(x) THEN [runs[x] EXCEPT !.disturbed = TRUE]
                         ELSE runs[x]]

Goto(r, pc) == [run EXCEPT ![r].pc = pc]

-----------------------------------------------------------------------------
(* The script.                                                              *)

\* It is started and hashes the password.
Start(r) ==
  /\ r \notin DOMAIN run
  /\ run' = Put(run, r, [pc |-> "findUser", user |-> None, project |-> None, disturbed |-> FALSE])
  /\ UNCHANGED <<user, project, deployment, used>>

TakeUser(r, u) == [run EXCEPT ![r].pc = "findProject", ![r].user = u]

\* Mutant: create instead of upsert.
FindUserNever(r) ==
  /\ At(r, "findUser")
  /\ run' = Goto(r, "createUser")
  /\ UNCHANGED <<user, project, deployment, used>>

\* user.upsert, the lookup.
FindUser(r) ==
  /\ At(r, "findUser")
  /\ \/ \E u \in user : run' = TakeUser(r, u)
     \/ user = {} /\ run' = Goto(r, "createUser")
  /\ UNCHANGED <<user, project, deployment, used>>

\* user.upsert, the insert; the email is unique.
CreateUser(r) ==
  /\ At(r, "createUser")
  /\ \/ \E u \in User \ used :
          /\ user = {}
          /\ user' = user \cup {u}
          /\ used' = used \cup {u}
          /\ run' = Disturb(TakeUser(r, u), r)
     \/ /\ user # {}
        /\ run' \in {Goto(r, "failed")} \cup {TakeUser(r, u) : u \in user}
        /\ UNCHANGED <<user, used>>
  /\ UNCHANGED <<project, deployment>>

TakeProject(r, p) == [run EXCEPT ![r].pc = "deploy", ![r].project = p]

\* project.upsert, the lookup.
FindProject(r) ==
  LET found == Named(run[r].user, "demo-api") IN
  /\ At(r, "findProject")
  /\ \/ \E p \in found : run' = TakeProject(r, p)
     \/ found = {} /\ run' = Goto(r, "createProject")
  /\ UNCHANGED <<user, project, deployment, used>>

\* Mutant: the schema has no foreign key to the owner.
CreateProjectUnchecked(r) ==
  /\ At(r, "createProject")
  /\ \E p \in Project \ used :
       /\ project' = Put(project, p, [owner |-> run[r].user, name |-> "demo-api"])
       /\ used' = used \cup {p}
       /\ run' = Disturb(TakeProject(r, p), r)
  /\ UNCHANGED <<user, deployment>>

\* project.upsert, the insert: the owner may be gone (P2003), the name taken.
CreateProject(r) ==
  LET found == Named(run[r].user, "demo-api") IN
  /\ At(r, "createProject")
  /\ \/ \E p \in Project \ used :
          /\ run[r].user \in user /\ found = {}
          /\ project' = Put(project, p, [owner |-> run[r].user, name |-> "demo-api"])
          /\ used' = used \cup {p}
          /\ run' = Disturb(TakeProject(r, p), r)
     \/ /\ run[r].user \notin user \/ found # {}
        /\ run' \in {Goto(r, "failed")} \cup {TakeProject(r, p) : p \in found}
        /\ UNCHANGED <<project, used>>
  /\ UNCHANGED <<user, deployment>>

\* Mutant: the schema has no foreign key to the project.
DeployUnchecked(r) ==
  /\ At(r, "deploy")
  /\ \E d \in Deployment \ used :
       /\ deployment' = Put(deployment, d, [project |-> run[r].project, run |-> r])
       /\ used' = used \cup {d}
       /\ run' = Disturb(Goto(r, "done"), r)
  /\ UNCHANGED <<user, project>>

\* deployment.create: no upsert; the project may be gone.
Deploy(r) ==
  /\ At(r, "deploy")
  /\ \/ \E d \in Deployment \ used :
          /\ run[r].project \in DOMAIN project
          /\ deployment' = Put(deployment, d, [project |-> run[r].project, run |-> r])
          /\ used' = used \cup {d}
          /\ run' = Disturb(Goto(r, "done"), r)
     \/ /\ run[r].project \notin DOMAIN project
        /\ run' = Goto(r, "failed")
        /\ UNCHANGED <<deployment, used>>
  /\ UNCHANGED <<user, project>>

\* A query fails and the script exits with 1.
QueryError(r) ==
  /\ Running(r)
  /\ run' = [run EXCEPT ![r].pc = "failed", ![r].disturbed = TRUE]
  /\ UNCHANGED <<user, project, deployment, used>>

\* It is killed.
Kill(r) ==
  /\ Running(r)
  /\ run' = Goto(r, "dead")
  /\ UNCHANGED <<user, project, deployment, used>>

-----------------------------------------------------------------------------
(* The API and the operator meanwhile.                                       *)

\* POST /auth/register with the demo email.
Register(u) ==
  /\ user = {} /\ u \in User \ used
  /\ user' = user \cup {u}
  /\ used' = used \cup {u}
  /\ run' = Disturb(run, None)
  /\ UNCHANGED <<project, deployment>>

\* An operator deletes the user; projects and deployments go with it.
DeleteUser(u) ==
  /\ u \in user
  /\ user' = user \ {u}
  /\ project' = Restrict(project, {p \in DOMAIN project : project[p].owner # u})
  /\ deployment' = Restrict(deployment, {d \in DOMAIN deployment :
                                           deployment[d].project \in DOMAIN project'})
  /\ run' = Disturb(run, None)
  /\ UNCHANGED used

\* POST /projects by the demo user.
AddProject(u, p) ==
  /\ u \in user /\ p \in Project \ used
  /\ Named(u, "demo-api") = {}
  /\ project' = Put(project, p, [owner |-> u, name |-> "demo-api"])
  /\ used' = used \cup {p}
  /\ run' = Disturb(run, None)
  /\ UNCHANGED <<user, deployment>>

\* PATCH /projects/:id changes the name.
RenameProject(p) ==
  /\ p \in DOMAIN project
  /\ Named(project[p].owner, "other") = {}
  /\ project' = [project EXCEPT ![p].name = "other"]
  /\ run' = Disturb(run, None)
  /\ UNCHANGED <<user, deployment, used>>

\* DELETE /projects/:id.
RemoveProject(p) ==
  /\ p \in DOMAIN project
  /\ project' = Drop(project, p)
  /\ deployment' = Restrict(deployment, {d \in DOMAIN deployment : deployment[d].project # p})
  /\ run' = Disturb(run, None)
  /\ UNCHANGED <<user, used>>

Script(r) ==
  \/ Start(r)
  \/ FindUser(r)
  \/ CreateUser(r)
  \/ FindProject(r)
  \/ CreateProject(r)
  \/ Deploy(r)
  \/ QueryError(r)
  \/ Kill(r)

Next ==
  \/ \E r \in Run : Script(r)
  \/ \E u \in User : Register(u) \/ DeleteUser(u) \/ \E p \in Project : AddProject(u, p)
  \/ \E p \in Project : RenameProject(p) \/ RemoveProject(p)

Spec == Init /\ [][Next]_vars

-----------------------------------------------------------------------------
(* Properties.                                                              *)

\* "Safe to run repeatedly": a run nobody interferes with succeeds, whatever
\* earlier runs that were killed half-way, racing ones and the API left in the
\* database.
RerunSucceeds ==
  \A r \in DOMAIN run : run[r].pc = "failed" => run[r].disturbed

\* A run that reports success left a deployment, of a project of the account
\* that has the demo email at that moment: not one of a project or an account
\* that was deleted, or registered anew, since the run looked it up.
DoneIsComplete ==
  [][\A r \in DOMAIN run :
       run[r].pc # "done" /\ run'[r].pc = "done" =>
         \E d \in DOMAIN deployment' :
           /\ deployment'[d].run = r
           /\ deployment'[d].project \in DOMAIN project'
           /\ project'[deployment'[d].project].owner \in user']_vars

\* seed.ts:11-13, "Idempotent seed: uses `upsert` so re-running never duplicates
\* rows": two runs never leave two deployments in one project.
SeedIdempotent ==
  \A d, e \in DOMAIN deployment :
    deployment[d].project = deployment[e].project => d = e
=============================================================================
