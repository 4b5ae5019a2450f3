----------------------------- MODULE ProjectsApi -----------------------------
(***************************************************************************)
(* The authenticated requests on projects and deployments: every call        *)
(* passes JwtAuthGuard, then the handler of ProjectsService, of              *)
(* DeploymentsService or of UsersService runs one query after the other,     *)
(* while other calls run theirs and an operator may delete users.            *)
(*                                                                         *)
(* Each query is a step, and each may fail.  Ownership is checked in one     *)
(* query and relied upon in the next: nothing but the data itself holds the  *)
(* two together.                                                            *)
(***************************************************************************)
EXTENDS Tables

CONSTANTS
  User,        \* the users that exist when the behaviour starts
  Project,     \* the project ids Prisma may generate
  Deployment,  \* the deployment ids Prisma may generate
  Name,        \* project names
  Repo,        \* repository URLs
  Call,        \* the requests of a behaviour
  None,        \* no id, no field
  Null         \* the field is there and is null

ASSUME ProjectsAssumption ==
  /\ None \notin User \cup Project \cup Deployment \cup Name \cup Repo
  /\ Null \notin Name \cup Repo \cup {None}
  /\ Project \cap Deployment = {}

VARIABLES
  user,        \* Postgres: the users that exist
  project,     \* Postgres: the Project table
  deployment,  \* Postgres: the Deployment table
  creator,     \* who created each id so far (ids are never used twice)
  call         \* the requests so far and their answers

vars == <<user, project, deployment, creator, call>>

-----------------------------------------------------------------------------
(* The data.  A deployment row is told apart by its id and its project.       *)

ProjectRow    == [owner: User, name: Name, repoUrl: Repo]
DeploymentRow == Project

\* CreateProjectDto has both fields, UpdateProjectDto any of them; an optional
\* field may also be null.
CreateDto == [name: Name, repoUrl: Repo]
UpdateDto == [name: Name \cup {None, Null}, repoUrl: Repo \cup {None, Null}]

Ask(op, ids, deployments, dtos) ==
  [op: {op}, user: User, id: ids, deployment: deployments, dto: dtos]

ProjectRoutes ==
  Ask("create", {None}, {None}, CreateDto)
    \cup Ask("update", Project, {None}, UpdateDto)
    \cup Ask("remove", Project, {None}, {None})
    \cup Ask("list", {None}, {None}, {None})
    \cup Ask("findOne", Project, {None}, {None})

DeploymentRoutes ==
  Ask("listForProject", Project, {None}, {None})
    \cup Ask("findDeployment", {None}, Deployment, {None})
    \cup Ask("trigger", Project, {None}, {None})

UserRoutes == Ask("me", {None}, {None}, {None})

Asked == ProjectRoutes \cup DeploymentRoutes \cup UserRoutes

\* The handlers that start with assertOwned or assertProjectOwned.
Checking == {"update", "remove", "listForProject", "trigger"}

Pending  == {"guard", "check", "query", "include"}
\* "500" is what the code makes of a broken foreign key or a refused null,
\* "error" the 500 of a query, or an enqueue, that failed.
Answer   == {"200", "201", "204", "401", "404", "409", "500", "error"}

\* body: the owners of what is in the answer.
CallState == [asked: Asked, pc: Pending \cup Answer, body: SUBSET User]

TypeOK ==
  /\ user \subseteq User
  /\ Table(project, Project, ProjectRow)
  /\ Table(deployment, Deployment, DeploymentRow)
  /\ Table(creator, Project \cup Deployment, User)
  /\ Table(call, Call, CallState)

\* @@unique([ownerId, name])
Taken(table, owner, name) ==
  \E p \in DOMAIN table : table[p].owner = owner /\ table[p].name = name

\* The database holds whatever earlier calls may have left in it.
Init ==
  /\ user = User
  /\ project \in UNION {[P -> ProjectRow] : P \in SUBSET Project}
  /\ \A p \in DOMAIN project :
       ~Taken(Drop(project, p), project[p].owner, project[p].name)
  /\ deployment \in UNION {[D -> DOMAIN project] : D \in SUBSET Deployment}
  /\ creator = [id \in DOMAIN project \cup DOMAIN deployment |->
                  IF id \in DOMAIN project THEN project[id].owner
                  ELSE project[deployment[id]].owner]
  /\ call = Empty

-----------------------------------------------------------------------------
(* A call: it arrives, passes the guard or not, and is answered.             *)

At(c, pc, ops) ==
  c \in DOMAIN call /\ call[c].pc = pc /\ call[c].asked.op \in ops

Reply(c, pc) == call' = [call EXCEPT ![c].pc = pc]

\* Mutant: an update or delete of a row that is gone is not one the filter maps.
RecordNotFoundUnmapped(c) == Reply(c, "500")

\* The filter answers P2025 with 404.
RecordNotFound(c) == Reply(c, "404")

ReplyWith(c, owners) ==
  call' = [call EXCEPT ![c].pc = "200", ![c].body = @ \cup owners]

\* A request with a token that is signed and not expired.
Arrive(c, asked) ==
  /\ c \notin DOMAIN call
  /\ call' = Put(call, c, [asked |-> asked, pc |-> "guard", body |-> {}])
  /\ UNCHANGED <<user, project, deployment, creator>>

\* JwtStrategy.validate: the user must still exist.
Validate(c) ==
  /\ c \in DOMAIN call /\ call[c].pc = "guard"
  /\ Reply(c, IF call[c].asked.user \notin user THEN "401"
              ELSE IF call[c].asked.op \in Checking THEN "check" ELSE "query")
  /\ UNCHANGED <<user, project, deployment, creator>>

\* Mutant: any existing project will do.
OwnsAny(u, p) == p \in DOMAIN project

Owns(u, p) == p \in DOMAIN project /\ project[p].owner = u

\* assertOwned, assertProjectOwned: 404, never 403.
AssertOwned(c) ==
  /\ At(c, "check", Checking)
  /\ Reply(c, IF Owns(call[c].asked.user, call[c].asked.id) THEN "query" ELSE "404")
  /\ UNCHANGED <<user, project, deployment, creator>>

-----------------------------------------------------------------------------
(* ProjectsService.                                                         *)

\* The insert of project.create.
ProjectInserted(asked) ==
  /\ asked.user \in user
  /\ ~Taken(project, asked.user, asked.dto.name)
  /\ \E p \in Project \ DOMAIN creator :
       /\ project' = Put(project, p, [owner |-> asked.user, name |-> asked.dto.name,
                                      repoUrl |-> asked.dto.repoUrl])
       /\ creator' = Put(creator, p, asked.user)
  /\ UNCHANGED <<user, deployment>>

\* project.create with the caller as owner.  The unique constraint answers 409
\* (P2002); the foreign key to a user gone since the guard answers 500 (P2003).
Create(c) ==
  LET asked == call[c].asked IN
  /\ At(c, "query", {"create"})
  /\ \/ /\ asked.user \notin user
        /\ Reply(c, "500")
        /\ UNCHANGED <<user, project, deployment, creator>>
     \/ /\ asked.user \in user
        /\ Taken(project, asked.user, asked.dto.name)
        /\ Reply(c, "409")
        /\ UNCHANGED <<user, project, deployment, creator>>
     \/ ProjectInserted(asked) /\ Reply(c, "201")

\* Mutant: what the caller left out is written as null.
PatchedNull(p, dto) ==
  [owner |-> project[p].owner, name |-> dto.name, repoUrl |-> dto.repoUrl]

\* The row after project.update: only the fields of the body are written.
Patched(p, dto) ==
  [owner |-> project[p].owner,
   name |-> IF dto.name = None THEN project[p].name ELSE dto.name,
   repoUrl |-> IF dto.repoUrl = None THEN project[p].repoUrl ELSE dto.repoUrl]

HasNull(dto) == dto.name = Null \/ dto.repoUrl = Null

\* The new name, or the one kept, is that of another project of the owner.
NameTaken(p, dto) ==
  Taken(Drop(project, p), project[p].owner, Patched(p, dto).name)

\* The write of project.update.
ProjectPatched(asked) ==
  LET p == asked.id IN
  /\ ~HasNull(asked.dto)
  /\ p \in DOMAIN project
  /\ ~NameTaken(p, asked.dto)
  /\ project' = [project EXCEPT ![p] = Patched(p, asked.dto)]
  /\ UNCHANGED <<user, deployment, creator>>

\* project.update by id alone: 500 when the client refuses a null (its error is
\* not one the filter catches), 404 (P2025) when the row went after the check,
\* 409 (P2002) when the new name is taken.
Update(c) ==
  LET asked == call[c].asked IN
  /\ At(c, "query", {"update"})
  /\ \/ /\ HasNull(asked.dto)
        /\ Reply(c, "500")
        /\ UNCHANGED <<user, project, deployment, creator>>
     \/ /\ ~HasNull(asked.dto)
        /\ asked.id \notin DOMAIN project
        /\ RecordNotFound(c)
        /\ UNCHANGED <<user, project, deployment, creator>>
     \/ /\ ~HasNull(asked.dto)
        /\ asked.id \in DOMAIN project
        /\ NameTaken(asked.id, asked.dto)
        /\ Reply(c, "409")
        /\ UNCHANGED <<user, project, deployment, creator>>
     \/ ProjectPatched(asked) /\ ReplyWith(c, {project[asked.id].owner})

\* Mutant: the schema has no cascade to deployments.
CascadeProjects(gone) ==
  /\ project' = Restrict(project, DOMAIN project \ gone)
  /\ UNCHANGED deployment

\* The rows that go with a set of projects (onDelete: Cascade).
Cascade(gone) ==
  /\ project' = Restrict(project, DOMAIN project \ gone)
  /\ deployment' = Restrict(deployment, {d \in DOMAIN deployment :
                                           deployment[d] \notin gone})

\* Mutant: deleteMany, which does not mind when there is nothing to delete.
RemoveMany(c) ==
  /\ At(c, "query", {"remove"})
  /\ Cascade({call[c].asked.id})
  /\ Reply(c, "204")
  /\ UNCHANGED <<user, creator>>

\* project.delete by id alone: 404 (P2025) when the row went after the check.
ProjectDeleted(asked) ==
  /\ asked.id \in DOMAIN project
  /\ Cascade({asked.id})
  /\ UNCHANGED <<user, creator>>

Remove(c) ==
  /\ At(c, "query", {"remove"})
  /\ \/ /\ call[c].asked.id \notin DOMAIN project
        /\ RecordNotFound(c)
        /\ UNCHANGED <<user, project, deployment, creator>>
     \/ ProjectDeleted(call[c].asked) /\ Reply(c, "204")

\* findMany by owner.
List(c) ==
  /\ At(c, "query", {"list"})
  /\ ReplyWith(c, {project[p].owner : p \in {q \in DOMAIN project :
                                              project[q].owner = call[c].asked.user}})
  /\ UNCHANGED <<user, project, deployment, creator>>

\* Who triggered the deployments of a project.
TriggeredBy(p) ==
  {creator[d] : d \in {e \in DOMAIN deployment : deployment[e] = p}}

\* Mutant: findUnique by id, and 403 in the handler for the wrong owner.
FindOneForbidden(c) ==
  LET p == call[c].asked.id IN
  /\ At(c, "query", {"findOne"})
  /\ Reply(c, IF p \notin DOMAIN project THEN "404"
              ELSE IF Owns(call[c].asked.user, p) THEN "include" ELSE "403")
  /\ UNCHANGED <<user, project, deployment, creator>>

\* findFirst by id and owner; the deployments are included by a second query.
FindOne(c) ==
  LET p == call[c].asked.id IN
  /\ At(c, "query", {"findOne"})
  /\ IF Owns(call[c].asked.user, p)
     THEN call' = [call EXCEPT ![c].pc = "include", ![c].body = {project[p].owner}]
     ELSE Reply(c, "404")
  /\ UNCHANGED <<user, project, deployment, creator>>

IncludeDeployments(c) ==
  /\ At(c, "include", {"findOne"})
  /\ ReplyWith(c, TriggeredBy(call[c].asked.id))
  /\ UNCHANGED <<user, project, deployment, creator>>

-----------------------------------------------------------------------------
(* DeploymentsService and UsersService.                                     *)

\* findMany by project alone, after the check.
ListForProject(c) ==
  /\ At(c, "query", {"listForProject"})
  /\ ReplyWith(c, TriggeredBy(call[c].asked.id))
  /\ UNCHANGED <<user, project, deployment, creator>>

\* Mutant: the owner is not part of the query.
FindDeploymentAny(c) ==
  LET d == call[c].asked.deployment IN
  /\ At(c, "query", {"findDeployment"})
  /\ IF d \in DOMAIN deployment THEN ReplyWith(c, {creator[d]}) ELSE Reply(c, "404")
  /\ UNCHANGED <<user, project, deployment, creator>>

\* findFirst by id and by the owner of its project, in one query.
FindDeployment(c) ==
  LET d == call[c].asked.deployment IN
  /\ At(c, "query", {"findDeployment"})
  /\ IF d \in DOMAIN deployment /\ Owns(call[c].asked.user, deployment[d])
     THEN ReplyWith(c, {creator[d]})
     ELSE Reply(c, "404")
  /\ UNCHANGED <<user, project, deployment, creator>>

\* The insert of deployment.create.
DeploymentInserted(asked) ==
  /\ asked.id \in DOMAIN project
  /\ \E d \in Deployment \ DOMAIN creator :
       /\ deployment' = Put(deployment, d, asked.id)
       /\ creator' = Put(creator, d, asked.user)
  /\ UNCHANGED <<user, project>>

\* deployment.create after the check; the foreign key to a project gone since
\* then answers 500 (P2003).  The job of an inserted row is added or the enqueue
\* fails, which is DeploymentPipeline's to tell.
Trigger(c) ==
  /\ At(c, "query", {"trigger"})
  /\ \/ /\ call[c].asked.id \notin DOMAIN project
        /\ Reply(c, "500")
        /\ UNCHANGED <<user, project, deployment, creator>>
     \/ /\ DeploymentInserted(call[c].asked)
        /\ \E pc \in {"201", "error"} : Reply(c, pc)

\* GET /users/me looks the user up once more.
Me(c) ==
  /\ At(c, "query", {"me"})
  /\ IF call[c].asked.user \in user
     THEN ReplyWith(c, {call[c].asked.user}) ELSE Reply(c, "404")
  /\ UNCHANGED <<user, project, deployment, creator>>

Write(asked) ==
  \/ asked.op = "create" /\ ProjectInserted(asked)
  \/ asked.op = "update" /\ ProjectPatched(asked)
  \/ asked.op = "remove" /\ ProjectDeleted(asked)
  \/ asked.op = "trigger" /\ DeploymentInserted(asked)

\* Any query of a call fails, the guard's as well; a write was applied or not
\* before the connection broke.  The default branch of the filter answers 500.
QueryError(c) ==
  /\ c \in DOMAIN call /\ call[c].pc \in Pending
  /\ \/ UNCHANGED <<user, project, deployment, creator>>
     \/ call[c].pc = "query" /\ Write(call[c].asked)
  /\ call' = [call EXCEPT ![c].pc = "error", ![c].body = {}]

\* An operator deletes a user in the database; nothing in the API does.
DeleteUser(u) ==
  /\ u \in user
  /\ user' = user \ {u}
  /\ Cascade({p \in DOMAIN project : project[p].owner = u})
  /\ UNCHANGED <<creator, call>>

Handle(c) ==
  \/ Validate(c)
  \/ AssertOwned(c)
  \/ Create(c)
  \/ Update(c)
  \/ Remove(c)
  \/ List(c)
  \/ FindOne(c)
  \/ IncludeDeployments(c)
  \/ ListForProject(c)
  \/ FindDeployment(c)
  \/ Trigger(c)
  \/ Me(c)
  \/ QueryError(c)

Next ==
  \/ \E c \in Call : (\E asked \in Asked : Arrive(c, asked)) \/ Handle(c)
  \/ \E u \in User : DeleteUser(u)

Spec == Init /\ [][Next]_vars

-----------------------------------------------------------------------------
(* Properties.                                                              *)

\* The call is answered with pc, or with an error, in this step.
Answered(c, pc) ==
  c \in DOMAIN call /\ call[c].pc \in Pending /\ call'[c].pc \in {pc, "error"}

\* "Users can never touch each other's projects": a project changes only by a
\* PATCH of its owner, and then only in the fields and to the values of that
\* body, whatever other PATCHes run; it goes only by a DELETE of its owner or
\* with its owner.  update and remove write by id alone, in a later query than
\* the ownership check.  The writer may be answered an error although the write
\* was applied.
EveryWriteAsked ==
  [][\A p \in DOMAIN project :
       /\ p \in DOMAIN project' /\ project'[p] # project[p] =>
            \E c \in Call :
              /\ Answered(c, "200")
              /\ call[c].asked.op = "update" /\ call[c].asked.id = p
              /\ call[c].asked.user = project[p].owner
              /\ project'[p].owner = project[p].owner
              /\ project'[p].name \in {project[p].name, call[c].asked.dto.name}
              /\ project'[p].repoUrl \in {project[p].repoUrl, call[c].asked.dto.repoUrl}
       /\ p \notin DOMAIN project' =>
            \/ project[p].owner \notin user'
            \/ \E c \in Call :
                 /\ Answered(c, "204")
                 /\ call[c].asked.op = "remove" /\ call[c].asked.id = p
                 /\ call[c].asked.user = project[p].owner]_vars

\* Of the DELETEs of a project that race only one is answered 204, the others
\* find nothing to delete and are answered 404.
RemovedOnce ==
  \A c, e \in DOMAIN call :
    /\ call[c].asked.op = "remove" /\ call[c].pc = "204"
    /\ call[e].asked.op = "remove" /\ call[e].pc = "204"
    /\ call[c].asked.id = call[e].asked.id
    => c = e

\* A deployment belongs to an existing project, of the user who triggered it,
\* although trigger() inserts it in a later query than the ownership check.
DeploymentsByOwner ==
  \A d \in DOMAIN deployment :
    Owns(creator[d], deployment[d])

\* Nobody reads the rows of another user, although GET
\* /projects/:id/deployments and the included deployments are read by project
\* id alone, in a later query than the ownership check.
ReadsStayInside ==
  \A c \in DOMAIN call : call[c].body \subseteq {call[c].asked.user}

\* "404 rather than 403": a call on a project or a deployment of another user is
\* answered as one on an id that never existed, at every moment of the row's
\* life.  A query that fails is answered 500 before anybody looks at the owner.
ForeignIsNotFound ==
  \A c \in DOMAIN call :
    /\ call[c].pc \notin Pending
    /\ \E id \in {call[c].asked.id, call[c].asked.deployment} \cap DOMAIN creator :
         creator[id] # call[c].asked.user
    => call[c].pc \in {"401", "404", "error"}

-----------------------------------------------------------------------------
(* The abstract specification this module implements: a call is pending until *)
(* it is answered.                                                          *)

answered ==
  [c \in DOMAIN call |->
     [asked |-> call[c].asked,
      answer |-> IF call[c].pc \in Pending THEN "pending" ELSE call[c].pc]]

Store == INSTANCE ProjectStore WITH call <- answered

\* Although a handler checks in one query and writes in another, and others run
\* between the two, every answer but an error is right at one moment of the
\* call: the ownership check and the write it allows then held together.
ImplementsStore == Store!Spec
=============================================================================
