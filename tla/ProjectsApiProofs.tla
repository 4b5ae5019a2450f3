--------------------------- MODULE ProjectsApiProofs ---------------------------
(***************************************************************************)
(* Users cannot reach each other's projects, and each call is answered as if  *)
(* it ran in one moment, for any users, projects, names and number of calls   *)
(* that race: theorems about ProjectsApi.                                   *)
(*                                                                         *)
(* Ownership is checked in one query and relied upon in the next.  That is    *)
(* sound because an id never changes hands: its row keeps its owner while it  *)
(* is there, and does not come back when it is gone.                         *)
(***************************************************************************)
EXTENDS ProjectsApi, TableTheorems

\* User u created id, of a project or a deployment, alive or gone.
Holds(u, id) == id \in DOMAIN creator /\ creator[id] = u

RowsKnown == \A p \in DOMAIN project : Holds(project[p].owner, p)

DeploymentsKnown ==
  \A d \in DOMAIN deployment : d \in DOMAIN creator /\ Owns(creator[d], deployment[d])

\* What a call has found out: past the check, and with any answer but 401, 404
\* and an error, its user created what it names; a project it deleted is gone.
CallOK(v) ==
  /\ v.body \subseteq {v.asked.user}
  /\ v.pc = "query" /\ v.asked.op \in Checking => Holds(v.asked.user, v.asked.id)
  /\ v.pc \in {"include", "200", "201", "204", "409", "500"} =>
       \A id \in {v.asked.id, v.asked.deployment} \ {None} : Holds(v.asked.user, id)
  /\ v.pc = "204" => v.asked.op = "remove" /\ v.asked.id \notin DOMAIN project

CallsOK == \A c \in DOMAIN call : CallOK(call[c])

ApiInv ==
  /\ TypeOK
  /\ RowsKnown /\ DeploymentsKnown
  /\ CallsOK /\ RemovedOnce

-----------------------------------------------------------------------------
(* The type.                                                                *)

\* What each operation is asked with.
LEMMA AskedType ==
  ASSUME NEW a \in Asked
  PROVE  /\ a.user \in User
         /\ a.op \in {"create", "update", "remove", "list", "findOne", "listForProject",
                      "findDeployment", "trigger", "me"}
         /\ a.op = "create" => a.dto \in CreateDto
         /\ a.op = "update" => a.dto \in UpdateDto
         /\ a.op \in Checking \cup {"findOne"} => a.id \in Project /\ a.deployment = None
         /\ a.op = "findDeployment" => a.deployment \in Deployment /\ a.id = None
         /\ a.op \in {"create", "list", "me"} => a.id = None /\ a.deployment = None
  BY DEF Asked, ProjectRoutes, DeploymentRoutes, UserRoutes, Ask, Checking

LEMMA CallType ==
  ASSUME TypeOK, NEW c \in DOMAIN call
  PROVE  call[c] \in CallState /\ call[c].asked \in Asked
<1>1. call[c] \in CallState
  BY TableValue DEF TypeOK
<1> QED
  BY <1>1 DEF CallState

\* A call that moves on keeps its type and what it asked, and no other moves.
LEMMA Moved ==
  ASSUME TypeOK, NEW c \in DOMAIN call, NEW pc \in Pending \cup Answer, NEW B \in SUBSET User,
         call' = [call EXCEPT ![c] = [call[c] EXCEPT !.pc = pc, !.body = B]]
  PROVE  /\ Table(call', Call, CallState) /\ DOMAIN call' = DOMAIN call
         /\ call'[c].asked = call[c].asked /\ call'[c].pc = pc /\ call'[c].body = B
         /\ \A x \in DOMAIN call : x # c => call'[x] = call[x]
<1>1. call[c] \in CallState
  BY CallType
<1>2. call'[c] = [call[c] EXCEPT !.pc = pc, !.body = B]
  OBVIOUS
<1>3. [call[c] EXCEPT !.pc = pc, !.body = B] \in CallState
  BY <1>1 DEF CallState
<1>4. Table(call', Call, CallState)
  BY <1>3, ExceptTable DEF TypeOK
<1>5. call'[c].asked = call[c].asked /\ call'[c].pc = pc /\ call'[c].body = B
  BY <1>1, <1>2 DEF CallState
<1> QED
  BY <1>4, <1>5

LEMMA Replied ==
  ASSUME TypeOK, NEW c \in DOMAIN call, NEW pc \in Pending \cup Answer, Reply(c, pc)
  PROVE  /\ Table(call', Call, CallState) /\ DOMAIN call' = DOMAIN call
         /\ call'[c].asked = call[c].asked /\ call'[c].pc = pc /\ call'[c].body = call[c].body
         /\ \A x \in DOMAIN call : x # c => call'[x] = call[x]
<1>1. call[c] \in CallState
  BY CallType
<1>2. call[c].body \in SUBSET User
  BY <1>1 DEF CallState
<1>3. call' = [call EXCEPT ![c] = [call[c] EXCEPT !.pc = pc, !.body = call[c].body]]
  BY <1>1 DEF Reply, CallState
<1> QED
  BY <1>2, <1>3, Moved

LEMMA RepliedWith ==
  ASSUME TypeOK, NEW c \in DOMAIN call, NEW B \in SUBSET User, ReplyWith(c, B)
  PROVE  /\ Table(call', Call, CallState) /\ DOMAIN call' = DOMAIN call
         /\ call'[c].asked = call[c].asked /\ call'[c].pc = "200"
         /\ call'[c].body = call[c].body \cup B
         /\ \A x \in DOMAIN call : x # c => call'[x] = call[x]
<1>1. call[c] \in CallState
  BY CallType
<1>2. PICK D \in SUBSET User : D = call[c].body \cup B
  BY <1>1 DEF CallState
<1>3. PICK pc \in Pending \cup Answer : pc = "200"
  BY DEF Answer
<1>4. call' = [call EXCEPT ![c] = [call[c] EXCEPT !.pc = pc, !.body = D]]
  BY <1>1, <1>2, <1>3 DEF ReplyWith, CallState
<1>5. /\ Table(call', Call, CallState) /\ DOMAIN call' = DOMAIN call
      /\ call'[c].asked = call[c].asked /\ call'[c].pc = pc /\ call'[c].body = D
      /\ \A x \in DOMAIN call : x # c => call'[x] = call[x]
  BY ONLY TypeOK, <1>4, Moved
<1> QED
  BY <1>2, <1>3, <1>5

\* The rows that cascade take the type with them.
LEMMA CascadeType ==
  ASSUME TypeOK, NEW gone, Cascade(gone)
  PROVE  /\ Table(project', Project, ProjectRow) /\ Table(deployment', Deployment, DeploymentRow)
         /\ DOMAIN project' = DOMAIN project \ gone
         /\ \A p \in DOMAIN project' : project'[p] = project[p]
         /\ DOMAIN deployment' = {d \in DOMAIN deployment : deployment[d] \notin gone}
         /\ \A d \in DOMAIN deployment' : deployment'[d] = deployment[d]
<1>1. /\ DOMAIN project' = DOMAIN project \ gone
      /\ \A p \in DOMAIN project' : project'[p] = project[p]
      /\ DOMAIN deployment' = {d \in DOMAIN deployment : deployment[d] \notin gone}
      /\ \A d \in DOMAIN deployment' : deployment'[d] = deployment[d]
  BY DEF Cascade, Restrict
<1>2. Table(project', Project, ProjectRow)
  BY RestrictTable DEF Cascade, TypeOK
<1>3. Table(deployment', Deployment, DeploymentRow)
  BY RestrictTable DEF Cascade, TypeOK
<1> QED
  BY <1>1, <1>2, <1>3

-----------------------------------------------------------------------------
(* What stays.                                                              *)

\* An id keeps its creator, and does not come back.
Kept ==
  /\ \A id \in DOMAIN creator : id \in DOMAIN creator' /\ creator'[id] = creator[id]
  /\ \A id \in DOMAIN creator : id \notin DOMAIN project => id \notin DOMAIN project'

\* A deleted project was created.
LEMMA DeletedWasThere ==
  ASSUME NEW v \in CallState, CallOK(v), v.pc = "204"
  PROVE  v.asked.id \in DOMAIN creator
<1>1. v.asked \in Asked /\ v.asked.op = "remove"
  BY DEF CallState, CallOK
<1>2. v.asked.id \in Project
  BY <1>1, AskedType DEF Checking
<1>3. v.asked.id # None
  BY <1>2, ProjectsAssumption
<1> QED
  BY <1>3 DEF CallOK, Holds

\* What a call knows stays true.
LEMMA KnownStays ==
  ASSUME Kept, NEW v \in CallState, CallOK(v)
  PROVE  CallOK(v)'
  BY DeletedWasThere DEF Kept, CallOK, Holds

LEMMA CallStays ==
  ASSUME ApiInv, Kept, NEW c \in DOMAIN call, call'[c] = call[c]
  PROVE  CallOK(call[c])'
<1>1. PICK v : v = call[c]
  OBVIOUS
<1>2. v \in CallState /\ CallOK(v)
  BY <1>1, CallType DEF ApiInv, CallsOK
<1>3. CallOK(v)'
  BY <1>2, KnownStays
<1> QED
  BY <1>1, <1>3

\* A step of one call: the others know what they knew, and if it deletes a
\* project no other call had.
LEMMA OneCall ==
  ASSUME ApiInv, Kept, TypeOK', RowsKnown', DeploymentsKnown',
         NEW c \in DOMAIN call, DOMAIN call' = DOMAIN call, CallOK(call[c])',
         \A x \in DOMAIN call : x # c => call'[x] = call[x],
         call'[c].asked = call[c].asked,
         call'[c].pc = "204" => call[c].asked.id \in DOMAIN project
  PROVE  ApiInv'
<1>1. CallsOK'
  BY CallStays DEF CallsOK
<1>2. \A x \in DOMAIN call : call[x].pc = "204" => call[x].asked.id \notin DOMAIN project
  BY DEF ApiInv, CallsOK, CallOK
<1>3. RemovedOnce'
  BY <1>2 DEF RemovedOnce, ApiInv
<1> QED
  BY <1>1, <1>3 DEF ApiInv

\* A step that changes no row.
LEMMA ReadStep ==
  ASSUME ApiInv, UNCHANGED <<user, project, deployment, creator>>,
         NEW c \in DOMAIN call, DOMAIN call' = DOMAIN call, CallOK(call[c])',
         Table(call', Call, CallState),
         \A x \in DOMAIN call : x # c => call'[x] = call[x],
         call'[c].asked = call[c].asked, call'[c].pc # "204"
  PROVE  ApiInv'
<1>1. Kept
  BY DEF Kept
<1>2. TypeOK' /\ RowsKnown' /\ DeploymentsKnown'
  BY DEF ApiInv, TypeOK, RowsKnown, DeploymentsKnown, Holds, Owns
<1> QED
  BY <1>1, <1>2, OneCall

-----------------------------------------------------------------------------
(* The calls that read.                                                     *)

\* All that a call names was created by its user.
NamesOwn(a) == \A id \in {a.id, a.deployment} \ {None} : Holds(a.user, id)

\* A reply without rows.
LEMMA ReplyStep ==
  ASSUME ApiInv, UNCHANGED <<user, project, deployment, creator>>,
         NEW c \in DOMAIN call, NEW pc \in (Pending \cup Answer) \ {"204"}, Reply(c, pc),
         pc = "query" /\ call[c].asked.op \in Checking =>
           Holds(call[c].asked.user, call[c].asked.id),
         pc \in {"include", "200", "201", "409", "500"} => NamesOwn(call[c].asked)
  PROVE  ApiInv'
<1>1. /\ Table(call', Call, CallState) /\ DOMAIN call' = DOMAIN call
      /\ call'[c].asked = call[c].asked /\ call'[c].pc = pc /\ call'[c].body = call[c].body
      /\ \A x \in DOMAIN call : x # c => call'[x] = call[x]
  BY Replied DEF ApiInv
<1>2. call[c].body \subseteq {call[c].asked.user}
  BY DEF ApiInv, CallsOK, CallOK
<1>3. CallOK(call[c])'
  BY <1>1, <1>2 DEF CallOK, NamesOwn, Holds
<1> QED
  BY <1>1, <1>3, ReadStep

\* A reply with rows of the caller.
LEMMA ReplyWithStep ==
  ASSUME ApiInv, UNCHANGED <<user, project, deployment, creator>>,
         NEW c \in DOMAIN call, NEW B \in SUBSET {call[c].asked.user}, ReplyWith(c, B),
         NamesOwn(call[c].asked)
  PROVE  ApiInv'
<1>1. call[c].asked.user \in User
  BY CallType, AskedType DEF ApiInv
<1>2. /\ Table(call', Call, CallState) /\ DOMAIN call' = DOMAIN call
      /\ call'[c].asked = call[c].asked /\ call'[c].pc = "200"
      /\ call'[c].body = call[c].body \cup B
      /\ \A x \in DOMAIN call : x # c => call'[x] = call[x]
  BY <1>1, RepliedWith DEF ApiInv
<1>3. call[c].body \subseteq {call[c].asked.user}
  BY DEF ApiInv, CallsOK, CallOK
<1>4. CallOK(call[c])'
  BY <1>2, <1>3 DEF CallOK, NamesOwn, Holds
<1> QED
  BY <1>2, <1>4, ReadStep

\* Whose row is there is who created its id.
LEMMA OwnerIsCreator ==
  ASSUME ApiInv, NEW u, NEW p, Owns(u, p)
  PROVE  Holds(u, p)
  BY DEF Owns, ApiInv, RowsKnown

\* The deployments of a project were triggered by who created it.
LEMMA TriggeredByOwner ==
  ASSUME ApiInv, NEW u, NEW p, Holds(u, p)
  PROVE  TriggeredBy(p) \subseteq {u}
  BY DEF TriggeredBy, ApiInv, DeploymentsKnown, RowsKnown, Holds, Owns

\* Past the check a call names only its user's ids.
LEMMA CheckedOwn ==
  ASSUME ApiInv, NEW c \in DOMAIN call,
         \/ call[c].pc = "query" /\ call[c].asked.op \in Checking
         \/ call[c].pc = "include"
         \/ call[c].asked.op \in {"create", "list", "me"}
  PROVE  NamesOwn(call[c].asked)
<1>1. call[c].asked \in Asked /\ CallOK(call[c])
  BY CallType DEF ApiInv, CallsOK
<1>2. CASE call[c].pc = "query" /\ call[c].asked.op \in Checking
  BY <1>1, <1>2, AskedType DEF NamesOwn, CallOK
<1>3. CASE call[c].pc = "include"
  BY <1>1, <1>3 DEF NamesOwn, CallOK
<1>4. CASE call[c].asked.op \in {"create", "list", "me"}
  BY <1>1, <1>4, AskedType DEF NamesOwn
<1> QED
  BY <1>2, <1>3, <1>4

LEMMA ValidateStep ==
  ASSUME ApiInv, NEW c \in Call, Validate(c)
  PROVE  ApiInv'
  BY ReplyStep DEF Validate, Pending, Answer

LEMMA AssertOwnedStep ==
  ASSUME ApiInv, NEW c \in Call, AssertOwned(c)
  PROVE  ApiInv'
<1>1. c \in DOMAIN call
  BY DEF AssertOwned, At
<1>2. CASE Owns(call[c].asked.user, call[c].asked.id)
  <2>1. Holds(call[c].asked.user, call[c].asked.id) /\ Reply(c, "query")
    BY <1>2, OwnerIsCreator DEF AssertOwned
  <2> QED
    BY <1>1, <2>1, ReplyStep DEF AssertOwned, Pending
<1>3. CASE ~Owns(call[c].asked.user, call[c].asked.id)
  BY <1>1, <1>3, ReplyStep DEF AssertOwned, Answer
<1> QED
  BY <1>2, <1>3

LEMMA ListStep ==
  ASSUME ApiInv, NEW c \in Call, List(c)
  PROVE  ApiInv'
<1> DEFINE B == {project[p].owner : p \in {q \in DOMAIN project :
                                              project[q].owner = call[c].asked.user}}
<1>1. c \in DOMAIN call /\ NamesOwn(call[c].asked)
  BY CheckedOwn DEF List, At
<1>2. B \in SUBSET {call[c].asked.user} /\ ReplyWith(c, B)
  BY DEF List
<1> HIDE DEF B
<1> QED
  BY <1>1, <1>2, ReplyWithStep DEF List

LEMMA FindOneStep ==
  ASSUME ApiInv, NEW c \in Call, FindOne(c)
  PROVE  ApiInv'
<1> DEFINE p == call[c].asked.id
<1>1. c \in DOMAIN call /\ call[c].asked.op = "findOne"
  BY DEF FindOne, At
<1>2. call[c] \in CallState /\ call[c].asked \in Asked
  BY <1>1, CallType DEF ApiInv
<1>3. CASE Owns(call[c].asked.user, p)
  <2>1. PICK B \in SUBSET User : B = {project[p].owner}
    BY <1>2, <1>3, AskedType DEF Owns
  <2>2. B = {call[c].asked.user}
    BY <1>3, <2>1 DEF Owns
  <2>3. NamesOwn(call[c].asked)
    BY <1>1, <1>2, <1>3, AskedType, OwnerIsCreator DEF NamesOwn
  <2>4. PICK pc \in Pending \cup Answer : pc = "include"
    BY DEF Pending
  <2>5. call' = [call EXCEPT ![c] = [call[c] EXCEPT !.pc = pc, !.body = B]]
    BY <1>2, <1>3, <2>1, <2>4 DEF FindOne, CallState
  <2>6. TypeOK
    BY DEF ApiInv
  <2>7. /\ Table(call', Call, CallState) /\ DOMAIN call' = DOMAIN call
        /\ call'[c].asked = call[c].asked /\ call'[c].pc = pc /\ call'[c].body = B
        /\ \A x \in DOMAIN call : x # c => call'[x] = call[x]
    BY ONLY <1>1, <2>5, <2>6, Moved
  <2>8. CallOK(call[c])'
    BY <2>2, <2>3, <2>4, <2>7 DEF CallOK, NamesOwn, Holds, FindOne
  <2> QED
    BY <1>1, <2>4, <2>7, <2>8, ReadStep DEF FindOne
<1>4. CASE ~Owns(call[c].asked.user, p)
  BY <1>1, <1>4, ReplyStep DEF FindOne, Answer
<1> QED
  BY <1>3, <1>4

LEMMA IncludeStep ==
  ASSUME ApiInv, NEW c \in Call, IncludeDeployments(c)
  PROVE  ApiInv'
<1>1. /\ c \in DOMAIN call /\ call[c].pc = "include" /\ call[c].asked.op = "findOne"
      /\ NamesOwn(call[c].asked)
  BY CheckedOwn DEF IncludeDeployments, At
<1>2. Holds(call[c].asked.user, call[c].asked.id)
  BY <1>1, CallType, AskedType, ProjectsAssumption DEF ApiInv, NamesOwn
<1>3. TriggeredBy(call[c].asked.id) \in SUBSET {call[c].asked.user}
  BY <1>2, TriggeredByOwner
<1> QED
  BY <1>1, <1>3, ReplyWithStep DEF IncludeDeployments

LEMMA ListForProjectStep ==
  ASSUME ApiInv, NEW c \in Call, ListForProject(c)
  PROVE  ApiInv'
<1>1. /\ c \in DOMAIN call /\ call[c].pc = "query" /\ call[c].asked.op \in Checking
      /\ NamesOwn(call[c].asked)
  BY CheckedOwn DEF ListForProject, At, Checking
<1>2. Holds(call[c].asked.user, call[c].asked.id)
  BY <1>1, CallType, AskedType, ProjectsAssumption DEF ApiInv, NamesOwn
<1>3. TriggeredBy(call[c].asked.id) \in SUBSET {call[c].asked.user}
  BY <1>2, TriggeredByOwner
<1> QED
  BY <1>1, <1>3, ReplyWithStep DEF ListForProject

LEMMA FindDeploymentStep ==
  ASSUME ApiInv, NEW c \in Call, FindDeployment(c)
  PROVE  ApiInv'
<1> DEFINE d == call[c].asked.deployment
           Mine == d \in DOMAIN deployment /\ Owns(call[c].asked.user, deployment[d])
<1>1. c \in DOMAIN call /\ call[c].asked.op = "findDeployment" /\ call[c].asked \in Asked
  BY CallType DEF FindDeployment, At, ApiInv
<1>2. CASE Mine
  <2>1. Holds(call[c].asked.user, d)
    BY <1>2 DEF ApiInv, DeploymentsKnown, Owns, Holds
  <2>2. NamesOwn(call[c].asked)
    BY <1>1, <2>1, AskedType DEF NamesOwn
  <2>3. {creator[d]} \in SUBSET {call[c].asked.user} /\ ReplyWith(c, {creator[d]})
    BY <1>2, <2>1 DEF Holds, FindDeployment
  <2> QED
    BY <1>1, <2>2, <2>3, ReplyWithStep DEF FindDeployment
<1>3. CASE ~Mine
  BY <1>1, <1>3, ReplyStep DEF FindDeployment, Answer
<1> QED
  BY <1>2, <1>3

LEMMA MeStep ==
  ASSUME ApiInv, NEW c \in Call, Me(c)
  PROVE  ApiInv'
<1>1. c \in DOMAIN call /\ NamesOwn(call[c].asked)
  BY CheckedOwn DEF Me, At
<1>2. CASE call[c].asked.user \in user
  BY <1>1, <1>2, ReplyWithStep DEF Me
<1>3. CASE call[c].asked.user \notin user
  BY <1>1, <1>3, ReplyStep DEF Me, Answer
<1> QED
  BY <1>2, <1>3

-----------------------------------------------------------------------------
(* The calls that write.                                                    *)

\* The rows after a write: types and owners are as before.
RowsWell ==
  /\ user' = user
  /\ Table(project', Project, ProjectRow) /\ Table(deployment', Deployment, DeploymentRow)
  /\ Table(creator', Project \cup Deployment, User)
  /\ Kept /\ RowsKnown' /\ DeploymentsKnown'

LEMMA RowsUntouched ==
  ASSUME ApiInv, UNCHANGED <<user, project, deployment, creator>>
  PROVE  RowsWell
  BY DEF RowsWell, ApiInv, TypeOK, Kept, RowsKnown, DeploymentsKnown, Holds, Owns

LEMMA ProjectInsertedWell ==
  ASSUME ApiInv, NEW asked \in Asked, asked.op = "create", ProjectInserted(asked)
  PROVE  RowsWell
<1>1. PICK p \in Project \ DOMAIN creator :
        /\ project' = Put(project, p, [owner |-> asked.user, name |-> asked.dto.name,
                                       repoUrl |-> asked.dto.repoUrl])
        /\ creator' = Put(creator, p, asked.user)
  BY DEF ProjectInserted
<1>2. [owner |-> asked.user, name |-> asked.dto.name, repoUrl |-> asked.dto.repoUrl]
        \in ProjectRow
  BY AskedType DEF ProjectRow, CreateDto
<1>3. Table(project', Project, ProjectRow)
  BY <1>1, <1>2, PutTable DEF ApiInv, TypeOK
<1>4. Table(creator', Project \cup Deployment, User)
  BY <1>1, AskedType, PutTable DEF ApiInv, TypeOK
<1>5. /\ DOMAIN project' = DOMAIN project \cup {p} /\ DOMAIN creator' = DOMAIN creator \cup {p}
      /\ project'[p].owner = asked.user /\ creator'[p] = asked.user
      /\ \A q \in DOMAIN project : q # p => project'[q] = project[q]
      /\ \A id \in DOMAIN creator : creator'[id] = creator[id]
  BY <1>1 DEF Put
<1>6. Kept
  BY <1>5 DEF Kept
<1>7. RowsKnown'
  BY <1>5 DEF ApiInv, RowsKnown, Holds
<1>8. deployment' = deployment /\ user' = user
  BY DEF ProjectInserted
<1>9. p \notin DOMAIN project
  BY <1>1 DEF ApiInv, RowsKnown, Holds
<1>10. DeploymentsKnown'
  BY <1>5, <1>8, <1>9 DEF ApiInv, DeploymentsKnown, Owns
<1> QED
  BY <1>3, <1>4, <1>6, <1>7, <1>8, <1>10 DEF RowsWell, ApiInv, TypeOK

LEMMA DeploymentInsertedWell ==
  ASSUME ApiInv, NEW asked \in Asked, asked.op = "trigger", NamesOwn(asked),
         DeploymentInserted(asked)
  PROVE  RowsWell
<1> DEFINE u == asked.user
           p == asked.id
<1>1. u \in User /\ p \in Project /\ Holds(u, p)
  BY AskedType, ProjectsAssumption DEF Checking, NamesOwn
<1>2. PICK d \in Deployment \ DOMAIN creator :
        deployment' = Put(deployment, d, p) /\ creator' = Put(creator, d, u)
  BY DEF DeploymentInserted
<1>3. Table(deployment', Deployment, DeploymentRow)
  BY <1>1, <1>2, PutTable DEF ApiInv, TypeOK, DeploymentRow
<1>4. Table(creator', Project \cup Deployment, User)
  BY <1>1, <1>2, PutTable DEF ApiInv, TypeOK
<1>5. /\ DOMAIN deployment' = DOMAIN deployment \cup {d}
      /\ DOMAIN creator' = DOMAIN creator \cup {d}
      /\ deployment'[d] = p /\ creator'[d] = u
      /\ \A e \in DOMAIN deployment : e # d => deployment'[e] = deployment[e]
      /\ \A id \in DOMAIN creator : creator'[id] = creator[id]
  BY <1>2 DEF Put
<1>6. project' = project /\ user' = user
  BY DEF DeploymentInserted
<1>7. Kept /\ RowsKnown'
  BY <1>5, <1>6 DEF Kept, ApiInv, RowsKnown, Holds
<1>8. Owns(u, p)
  BY <1>1 DEF DeploymentInserted, ApiInv, RowsKnown, Holds, Owns
<1>9. DeploymentsKnown'
  BY <1>5, <1>6, <1>8, <1>2 DEF ApiInv, DeploymentsKnown, Owns
<1> QED
  BY <1>3, <1>4, <1>6, <1>7, <1>9 DEF RowsWell, ApiInv, TypeOK

\* The row that an update by id writes is still the caller's.
LEMMA ProjectPatchedWell ==
  ASSUME ApiInv, NEW asked \in Asked, asked.op = "update", NamesOwn(asked),
         ProjectPatched(asked)
  PROVE  RowsWell /\ project[asked.id].owner = asked.user
<1> DEFINE p == asked.id
           dto == asked.dto
<1>1. p \in Project /\ Holds(asked.user, p) /\ dto \in UpdateDto
  BY AskedType, ProjectsAssumption DEF Checking, NamesOwn
<1>2. /\ p \in DOMAIN project /\ ~HasNull(dto)
      /\ project' = [project EXCEPT ![p] = Patched(p, dto)]
      /\ user' = user /\ deployment' = deployment /\ creator' = creator
  BY DEF ProjectPatched
<1>3. project[p].owner = asked.user /\ project[p] \in ProjectRow
  BY <1>1, <1>2, TableValue DEF ApiInv, RowsKnown, Holds, TypeOK
<1>4. Patched(p, dto) \in ProjectRow /\ Patched(p, dto).owner = project[p].owner
  BY <1>1, <1>2, <1>3 DEF Patched, ProjectRow, UpdateDto, HasNull
<1>5. Table(project', Project, ProjectRow)
  BY <1>2, <1>4, ExceptTable DEF ApiInv, TypeOK
<1>6. DOMAIN project' = DOMAIN project
      /\ \A q \in DOMAIN project : project'[q].owner = project[q].owner
  BY <1>2, <1>4
<1>7. Kept /\ RowsKnown' /\ DeploymentsKnown'
  BY <1>2, <1>6 DEF Kept, ApiInv, RowsKnown, DeploymentsKnown, Holds, Owns
<1> QED
  BY <1>2, <1>3, <1>5, <1>7 DEF RowsWell, ApiInv, TypeOK

LEMMA ProjectDeletedWell ==
  ASSUME ApiInv, NEW asked, ProjectDeleted(asked)
  PROVE  RowsWell /\ DOMAIN project' = DOMAIN project \ {asked.id}
<1>1. Cascade({asked.id}) /\ user' = user /\ creator' = creator
  BY DEF ProjectDeleted
<1>2. /\ Table(project', Project, ProjectRow) /\ Table(deployment', Deployment, DeploymentRow)
      /\ DOMAIN project' = DOMAIN project \ {asked.id}
      /\ \A q \in DOMAIN project' : project'[q] = project[q]
      /\ DOMAIN deployment' = {d \in DOMAIN deployment : deployment[d] \notin {asked.id}}
      /\ \A d \in DOMAIN deployment' : deployment'[d] = deployment[d]
  BY <1>1, CascadeType DEF ApiInv
<1>3. Kept /\ RowsKnown' /\ DeploymentsKnown'
  BY <1>1, <1>2 DEF Kept, ApiInv, RowsKnown, DeploymentsKnown, Holds, Owns
<1> QED
  BY <1>1, <1>2, <1>3 DEF RowsWell, ApiInv, TypeOK

\* A step that writes, and moves one call to pc with B in its answer.
LEMMA WriteStep ==
  ASSUME ApiInv, RowsWell, NEW c \in DOMAIN call, DOMAIN call' = DOMAIN call,
         Table(call', Call, CallState), call'[c].asked = call[c].asked,
         call'[c].body \subseteq {call[c].asked.user},
         \A x \in DOMAIN call : x # c => call'[x] = call[x],
         call'[c].pc \notin Pending,
         call'[c].pc \in {"200", "201", "204", "409", "500"} => NamesOwn(call[c].asked),
         call'[c].pc = "204" =>
           /\ call[c].asked.op = "remove" /\ call[c].asked.id \in DOMAIN project
           /\ call[c].asked.id \notin DOMAIN project'
  PROVE  ApiInv'
<1>1. TypeOK'
  BY DEF RowsWell, ApiInv, TypeOK
<1>2. CallOK(call[c])'
  BY DEF CallOK, NamesOwn, RowsWell, Kept, Holds, Pending
<1> QED
  BY <1>1, <1>2, OneCall DEF RowsWell

\* The same when the body stays.
LEMMA WriteReplyStep ==
  ASSUME ApiInv, RowsWell, NEW c \in DOMAIN call, NEW pc \in Answer, Reply(c, pc),
         NamesOwn(call[c].asked),
         pc = "204" =>
           /\ call[c].asked.op = "remove" /\ call[c].asked.id \in DOMAIN project
           /\ call[c].asked.id \notin DOMAIN project'
  PROVE  ApiInv'
<1>1. /\ Table(call', Call, CallState) /\ DOMAIN call' = DOMAIN call
      /\ call'[c].asked = call[c].asked /\ call'[c].pc = pc /\ call'[c].body = call[c].body
      /\ \A x \in DOMAIN call : x # c => call'[x] = call[x]
  BY Replied DEF ApiInv
<1>2. call[c].body \subseteq {call[c].asked.user}
  BY DEF ApiInv, CallsOK, CallOK
<1> QED
  BY <1>1, <1>2, WriteStep DEF Answer, Pending

LEMMA CreateStep ==
  ASSUME ApiInv, NEW c \in Call, Create(c)
  PROVE  ApiInv'
<1>1. /\ c \in DOMAIN call /\ call[c].asked.op = "create" /\ NamesOwn(call[c].asked)
      /\ call[c].asked \in Asked
  BY CheckedOwn, CallType DEF Create, At, ApiInv
<1>2. RowsWell
  BY <1>1, RowsUntouched, ProjectInsertedWell DEF Create
<1> QED
  BY <1>1, <1>2, WriteReplyStep DEF Create, Answer

LEMMA TriggerStep ==
  ASSUME ApiInv, NEW c \in Call, Trigger(c)
  PROVE  ApiInv'
<1>1. /\ c \in DOMAIN call /\ call[c].asked.op = "trigger" /\ NamesOwn(call[c].asked)
      /\ call[c].asked \in Asked
  BY CheckedOwn, CallType DEF Trigger, At, ApiInv, Checking
<1>2. RowsWell
  BY <1>1, RowsUntouched, DeploymentInsertedWell DEF Trigger
<1> QED
  BY <1>1, <1>2, WriteReplyStep DEF Trigger, Answer

LEMMA UpdateStep ==
  ASSUME ApiInv, NEW c \in Call, Update(c)
  PROVE  ApiInv'
<1>1. /\ c \in DOMAIN call /\ call[c].asked.op = "update" /\ NamesOwn(call[c].asked)
      /\ call[c].asked \in Asked
  BY CheckedOwn, CallType DEF Update, At, ApiInv, Checking
<1>2. CASE /\ Reply(c, "500") \/ Reply(c, "404") \/ Reply(c, "409")
           /\ UNCHANGED <<user, project, deployment, creator>>
  BY <1>1, <1>2, RowsUntouched, WriteReplyStep DEF Answer
<1>3. CASE /\ ProjectPatched(call[c].asked)
           /\ ReplyWith(c, {project[call[c].asked.id].owner})
  <2>1. RowsWell /\ project[call[c].asked.id].owner = call[c].asked.user
    BY <1>1, <1>3, ProjectPatchedWell
  <2>2. PICK B \in SUBSET User : B = {call[c].asked.user}
    BY <1>1, AskedType
  <2>3. /\ Table(call', Call, CallState) /\ DOMAIN call' = DOMAIN call
        /\ call'[c].asked = call[c].asked /\ call'[c].pc = "200"
        /\ call'[c].body = call[c].body \cup B
        /\ \A x \in DOMAIN call : x # c => call'[x] = call[x]
    BY <1>1, <1>3, <2>1, <2>2, RepliedWith DEF ApiInv
  <2>4. call[c].body \subseteq {call[c].asked.user}
    BY <1>1 DEF ApiInv, CallsOK, CallOK
  <2> QED
    BY <1>1, <2>1, <2>2, <2>3, <2>4, WriteStep DEF Pending
<1> QED
  BY <1>2, <1>3 DEF Update, RecordNotFound

\* The row that a removal by id takes away was there, so no other call had
\* deleted it.
LEMMA RemoveStep ==
  ASSUME ApiInv, NEW c \in Call, Remove(c)
  PROVE  ApiInv'
<1>1. c \in DOMAIN call /\ call[c].asked.op = "remove" /\ NamesOwn(call[c].asked)
  BY CheckedOwn DEF Remove, At, Checking
<1>2. CASE Reply(c, "404") /\ UNCHANGED <<user, project, deployment, creator>>
  BY <1>1, <1>2, RowsUntouched, WriteReplyStep DEF Answer
<1>3. CASE ProjectDeleted(call[c].asked) /\ Reply(c, "204")
  <2>1. RowsWell /\ DOMAIN project' = DOMAIN project \ {call[c].asked.id}
    BY <1>3, ProjectDeletedWell
  <2> QED
    BY <1>1, <1>3, <2>1, WriteReplyStep DEF Answer, ProjectDeleted
<1> QED
  BY <1>2, <1>3 DEF Remove, RecordNotFound

\* A call whose query failed knows nothing, and may have written.
LEMMA QueryErrorStep ==
  ASSUME ApiInv, NEW c \in Call, QueryError(c)
  PROVE  ApiInv'
<1>1. c \in DOMAIN call /\ call[c].asked \in Asked
  BY CallType DEF QueryError, ApiInv
<1>2. RowsWell
  <2>1. CASE UNCHANGED <<user, project, deployment, creator>>
    BY <2>1, RowsUntouched
  <2>2. CASE call[c].pc = "query" /\ Write(call[c].asked)
    <3>1. call[c].asked.op = "create" \/ NamesOwn(call[c].asked)
      BY <1>1, <2>2, CheckedOwn DEF Write, Checking
    <3> QED
      BY <1>1, <2>2, <3>1, ProjectInsertedWell, ProjectPatchedWell, ProjectDeletedWell,
         DeploymentInsertedWell DEF Write
  <2> QED
    BY <2>1, <2>2 DEF QueryError
<1>3. PICK pc \in Pending \cup Answer : pc = "error"
  BY DEF Answer
<1>4. PICK B \in SUBSET User : B = {}
  OBVIOUS
<1>5. call' = [call EXCEPT ![c] = [call[c] EXCEPT !.pc = pc, !.body = B]]
  BY <1>1, <1>3, <1>4, CallType DEF QueryError, ApiInv, CallState
<1>6. TypeOK
  BY DEF ApiInv
<1>7. /\ Table(call', Call, CallState) /\ DOMAIN call' = DOMAIN call
      /\ call'[c].asked = call[c].asked /\ call'[c].pc = pc /\ call'[c].body = B
      /\ \A x \in DOMAIN call : x # c => call'[x] = call[x]
  BY ONLY <1>1, <1>5, <1>6, Moved
<1> QED
  BY <1>1, <1>2, <1>3, <1>4, <1>7, WriteStep DEF Pending

-----------------------------------------------------------------------------
(* A new call, and an operator.                                             *)

LEMMA ArriveStep ==
  ASSUME ApiInv, NEW c \in Call, NEW asked \in Asked, Arrive(c, asked)
  PROVE  ApiInv'
<1>1. PICK v : v = [asked |-> asked, pc |-> "guard", body |-> {}]
  OBVIOUS
<1>2. v \in CallState /\ CallOK(v)
  BY <1>1 DEF CallState, CallOK, Pending
<1>3. call' = Put(call, c, v) /\ c \notin DOMAIN call
  BY <1>1 DEF Arrive
<1>4. user' = user /\ project' = project /\ deployment' = deployment /\ creator' = creator
  BY DEF Arrive
<1>5. Table(call', Call, CallState)
  BY <1>2, <1>3, PutTable DEF ApiInv, TypeOK
<1>6. /\ DOMAIN call' = DOMAIN call \cup {c} /\ call'[c] = v
      /\ \A x \in DOMAIN call : call'[x] = call[x]
  BY <1>3 DEF Put
<1>7. TypeOK' /\ RowsKnown' /\ DeploymentsKnown' /\ Kept
  BY <1>4, <1>5 DEF ApiInv, TypeOK, RowsKnown, DeploymentsKnown, Kept, Holds, Owns
<1>8. CallOK(call[c])'
  BY <1>2, <1>4, <1>6 DEF CallOK, Holds
<1>9. CallsOK'
  BY <1>6, <1>7, <1>8, CallStays DEF CallsOK
<1>10. RemovedOnce'
  BY <1>1, <1>6 DEF RemovedOnce, ApiInv
<1> QED
  BY <1>7, <1>9, <1>10 DEF ApiInv

LEMMA DeleteUserStep ==
  ASSUME ApiInv, NEW u \in User, DeleteUser(u)
  PROVE  ApiInv'
<1> DEFINE gone == {p \in DOMAIN project : project[p].owner = u}
<1>1. user' = user \ {u} /\ creator' = creator /\ call' = call /\ Cascade(gone)
  BY DEF DeleteUser
<1> HIDE DEF gone
<1>2. /\ Table(project', Project, ProjectRow) /\ Table(deployment', Deployment, DeploymentRow)
      /\ DOMAIN project' = DOMAIN project \ gone
      /\ \A q \in DOMAIN project' : project'[q] = project[q]
      /\ DOMAIN deployment' = {d \in DOMAIN deployment : deployment[d] \notin gone}
      /\ \A d \in DOMAIN deployment' : deployment'[d] = deployment[d]
  BY <1>1, CascadeType DEF ApiInv
<1>3. Kept /\ RowsKnown' /\ DeploymentsKnown'
  BY <1>1, <1>2 DEF Kept, ApiInv, RowsKnown, DeploymentsKnown, Holds, Owns
<1>4. TypeOK'
  BY <1>1, <1>2 DEF ApiInv, TypeOK
<1>5. CallsOK'
  BY <1>1, <1>3, CallStays DEF CallsOK
<1>6. RemovedOnce'
  BY <1>1 DEF RemovedOnce, ApiInv
<1> QED
  BY <1>3, <1>4, <1>5, <1>6 DEF ApiInv

\* The database of the initial states is one that earlier calls left.
LEMMA InitOK == Init => ApiInv
<1> SUFFICES ASSUME Init PROVE ApiInv
  OBVIOUS
<1>1. PICK P \in SUBSET Project : project \in [P -> ProjectRow]
  BY DEF Init
<1>2. PICK D \in SUBSET Deployment : deployment \in [D -> DOMAIN project]
  BY DEF Init
<1>3. DOMAIN project = P /\ DOMAIN deployment = D /\ DOMAIN call = {}
  BY <1>1, <1>2 DEF Init, Empty
<1>4. \A p \in P : project[p].owner \in User
  BY <1>1 DEF ProjectRow
<1>5. /\ DOMAIN creator = P \cup D
      /\ \A p \in P : creator[p] = project[p].owner
      /\ \A d \in D : creator[d] = project[deployment[d]].owner
  BY <1>3, ProjectsAssumption DEF Init
<1>6. Table(creator, Project \cup Deployment, User)
  BY <1>2, <1>3, <1>4, <1>5 DEF Table, Init
<1>7. Table(project, Project, ProjectRow) /\ Table(deployment, Deployment, DeploymentRow)
  BY <1>1, <1>2, <1>3 DEF Table, DeploymentRow
<1>8. TypeOK
  BY <1>6, <1>7, EmptyTable DEF TypeOK, Init
<1>9. RowsKnown /\ DeploymentsKnown
  BY <1>2, <1>3, <1>5 DEF RowsKnown, DeploymentsKnown, Holds, Owns
<1> QED
  BY <1>3, <1>8, <1>9 DEF ApiInv, CallsOK, RemovedOnce

LEMMA ApiStep == ApiInv /\ [Next]_vars => ApiInv'
<1> SUFFICES ASSUME ApiInv, [Next]_vars PROVE ApiInv'
  OBVIOUS
<1>1. CASE UNCHANGED vars
  <2>1. /\ user' = user /\ project' = project /\ deployment' = deployment
        /\ creator' = creator /\ call' = call
    BY <1>1 DEF vars
  <2>2. TypeOK' /\ RowsKnown' /\ DeploymentsKnown' /\ Kept /\ RemovedOnce'
    BY <2>1 DEF ApiInv, TypeOK, RowsKnown, DeploymentsKnown, Kept, Holds, Owns, RemovedOnce
  <2>3. CallsOK'
    BY <2>1, <2>2, CallStays DEF CallsOK
  <2> QED
    BY <2>2, <2>3 DEF ApiInv
<1>2. ASSUME NEW c \in Call, Handle(c) PROVE ApiInv'
  BY <1>2, ValidateStep, AssertOwnedStep, CreateStep, UpdateStep, RemoveStep, ListStep,
     FindOneStep, IncludeStep, ListForProjectStep, FindDeploymentStep, TriggerStep, MeStep,
     QueryErrorStep
     DEF Handle
<1> QED
  BY <1>1, <1>2, ArriveStep, DeleteUserStep DEF Next

-----------------------------------------------------------------------------
(* The theorems.                                                            *)

\* The invariant, of every behaviour.
LEMMA Invariant == Spec => []ApiInv
  BY InitOK, ApiStep, PTL DEF Spec

\* The tables and the calls keep their types.
THEOREM Typing == Spec => []TypeOK
<1>1. ApiInv => TypeOK
  BY DEF ApiInv
<1> QED
  BY <1>1, Invariant, PTL

\* Of racing DELETEs of a project one is answered 204.
THEOREM OneRemoves == Spec => []RemovedOnce
<1>1. ApiInv => RemovedOnce
  BY DEF ApiInv
<1> QED
  BY <1>1, Invariant, PTL

\* Every deployment is in a project of the user who triggered it.
THEOREM DeploymentsOwned == Spec => []DeploymentsByOwner
<1>1. ApiInv => DeploymentsByOwner
  BY DEF ApiInv, DeploymentsKnown, DeploymentsByOwner
<1> QED
  BY <1>1, Invariant, PTL

\* Answers hold rows of the caller only.
THEOREM ReadsInside == Spec => []ReadsStayInside
<1>1. ApiInv => ReadsStayInside
  BY DEF ApiInv, CallsOK, CallOK, ReadsStayInside
<1> QED
  BY <1>1, Invariant, PTL

\* What belongs to somebody else is answered like what never was.
THEOREM ForeignHidden == Spec => []ForeignIsNotFound
<1>1. ApiInv => ForeignIsNotFound
  <2> SUFFICES ASSUME ApiInv, NEW c \in DOMAIN call, call[c].pc \notin Pending,
                      NEW id \in {call[c].asked.id, call[c].asked.deployment} \cap DOMAIN creator,
                      creator[id] # call[c].asked.user
               PROVE  call[c].pc \in {"401", "404", "error"}
    BY DEF ForeignIsNotFound
  <2>1. call[c] \in CallState /\ CallOK(call[c])
    BY CallType DEF ApiInv, CallsOK
  <2>2. id \in Project \cup Deployment
    BY DEF ApiInv, TypeOK, Table
  <2>3. id # None
    BY <2>2, ProjectsAssumption
  <2> QED
    BY <2>1, <2>3 DEF CallOK, CallState, Pending, Answer, Holds
<1> QED
  BY <1>1, Invariant, PTL

\* What EveryWriteAsked says of one step.
Changed(p, c) ==
  /\ Answered(c, "200")
  /\ call[c].asked.op = "update" /\ call[c].asked.id = p
  /\ call[c].asked.user = project[p].owner
  /\ project'[p].owner = project[p].owner
  /\ project'[p].name \in {project[p].name, call[c].asked.dto.name}
  /\ project'[p].repoUrl \in {project[p].repoUrl, call[c].asked.dto.repoUrl}

Removed(p, c) ==
  /\ Answered(c, "204")
  /\ call[c].asked.op = "remove" /\ call[c].asked.id = p
  /\ call[c].asked.user = project[p].owner

WriteAsked ==
  \A p \in DOMAIN project :
    /\ p \in DOMAIN project' /\ project'[p] # project[p] => \E c \in Call : Changed(p, c)
    /\ p \notin DOMAIN project' =>
         project[p].owner \notin user' \/ \E c \in Call : Removed(p, c)

\* The write of a call is what its user asked for: the row still has the owner
\* that an earlier query found.
LEMMA WriteIsAsked ==
  ASSUME ApiInv, NEW c \in Call, c \in DOMAIN call, call[c].pc = "query",
         Write(call[c].asked),
         call[c].asked.op = "update" => call'[c].pc \in {"200", "error"},
         call[c].asked.op = "remove" => call'[c].pc \in {"204", "error"}
  PROVE  WriteAsked
<1> DEFINE q == call[c].asked.id
           dto == call[c].asked.dto
<1>1. call[c].asked \in Asked /\ call[c].pc \in Pending
  BY CallType DEF ApiInv, Pending
<1>2. call[c].asked.op \in {"update", "remove"} =>
        NamesOwn(call[c].asked) /\ q \in Project /\ Holds(call[c].asked.user, q)
  BY <1>1, CheckedOwn, AskedType, ProjectsAssumption DEF Checking, NamesOwn
<1>3. CASE call[c].asked.op = "create" /\ ProjectInserted(call[c].asked)
  BY <1>3 DEF ProjectInserted, Put, ApiInv, RowsKnown, Holds, WriteAsked
<1>4. CASE call[c].asked.op = "update" /\ ProjectPatched(call[c].asked)
  <2>1. project[q].owner = call[c].asked.user
    BY <1>1, <1>2, <1>4, ProjectPatchedWell
  <2>2. DOMAIN project' = DOMAIN project /\ project'[q] = Patched(q, dto)
        /\ \A p \in DOMAIN project : p # q => project'[p] = project[p]
    BY <1>4 DEF ProjectPatched
  <2>3. Changed(q, c)
    BY <1>1, <1>4, <2>1, <2>2 DEF Changed, Answered, Patched
  <2> QED
    BY <2>2, <2>3 DEF WriteAsked
<1>5. CASE call[c].asked.op = "remove" /\ ProjectDeleted(call[c].asked)
  <2>1. q \in DOMAIN project /\ Cascade({q})
    BY <1>5 DEF ProjectDeleted
  <2>2. call[c].asked.user = project[q].owner
    BY <1>2, <1>5, <2>1 DEF ApiInv, RowsKnown, Holds
  <2>3. DOMAIN project' = DOMAIN project \ {q}
        /\ \A p \in DOMAIN project' : project'[p] = project[p]
    BY <2>1, CascadeType DEF ApiInv
  <2>4. Removed(q, c)
    BY <1>1, <1>5, <2>2 DEF Removed, Answered
  <2> QED
    BY <2>3, <2>4 DEF WriteAsked
<1>6. CASE UNCHANGED project
  BY <1>6 DEF WriteAsked
<1> QED
  BY <1>3, <1>4, <1>5, <1>6 DEF Write, DeploymentInserted

\* A project changes or goes only as its owner asked: the check that was made
\* in an earlier query still holds when the row is written by id.
THEOREM WritesAsked == Spec => EveryWriteAsked
<1>1. ApiInv /\ [Next]_vars => [WriteAsked]_vars
  <2> SUFFICES ASSUME ApiInv, Next PROVE WriteAsked
    OBVIOUS
  <2>1. CASE UNCHANGED project
    BY <2>1 DEF WriteAsked
  <2>2. ASSUME NEW c \in Call, Handle(c), project' # project
        PROVE  /\ c \in DOMAIN call /\ call[c].pc = "query" /\ Write(call[c].asked)
               /\ call[c].asked.op = "update" => call'[c].pc \in {"200", "error"}
               /\ call[c].asked.op = "remove" => call'[c].pc \in {"204", "error"}
    <3>1. c \in DOMAIN call => call[c] \in CallState
      BY CallType DEF ApiInv
    <3>2. CASE Create(c)
      BY <2>2, <3>2 DEF Create, At, Write
    <3>3. CASE Update(c)
      BY <2>2, <3>1, <3>3 DEF Update, At, Write, ReplyWith, CallState
    <3>4. CASE Remove(c)
      BY <2>2, <3>1, <3>4 DEF Remove, At, Write, Reply, CallState
    <3>5. CASE QueryError(c)
      BY <2>2, <3>1, <3>5 DEF QueryError, CallState
    <3> QED
      BY <2>2, <3>2, <3>3, <3>4, <3>5
      DEF Handle, Validate, AssertOwned, List, FindOne, IncludeDeployments,
          ListForProject, FindDeployment, Trigger, DeploymentInserted, Me
  <2>3. ASSUME NEW c \in Call, Handle(c), project' # project PROVE WriteAsked
    BY <2>2, <2>3, WriteIsAsked
  <2>4. ASSUME NEW u \in User, DeleteUser(u) PROVE WriteAsked
    <3>1. PICK gone : gone = {p \in DOMAIN project : project[p].owner = u} /\ Cascade(gone)
      BY <2>4 DEF DeleteUser
    <3>2. /\ DOMAIN project' = DOMAIN project \ gone
          /\ \A p \in DOMAIN project' : project'[p] = project[p]
      BY <3>1, CascadeType DEF ApiInv
    <3> QED
      BY <2>4, <3>1, <3>2 DEF DeleteUser, WriteAsked
  <2> QED
    BY <2>1, <2>3, <2>4 DEF Next, Arrive
<1>2. [WriteAsked]_vars => [\A p \in DOMAIN project :
       /\ p \in DOMAIN project' /\ project'[p] # project[p] =>
            \E c \in Call :
              /\ Answered(c, "200")
              /\ call[c].asked.op = "update" /\ call[c].asked.id = p
              /\ call[c].asked.user = project[p].owner
              /\ project'[p].owner = project[p].owner
              /\ project'[p].name \in {project[p].name, call[c].asked.dto.name}
              /\ project'[p].repoUrl \in {project[p].repoUrl, call[c].asked.dto.repoUrl}
       /\ p \notin DOMAIN project' =>
            \/ project[p].owner \notin user'
            \/ \E c \in Call :
                 /\ Answered(c, "204")
                 /\ call[c].asked.op = "remove" /\ call[c].asked.id = p
                 /\ call[c].asked.user = project[p].owner]_vars
  BY DEF WriteAsked, Changed, Removed
<1> QED
  BY <1>1, <1>2, Invariant, PTL DEF Spec, EveryWriteAsked
-----------------------------------------------------------------------------
(* The store that the API implements.                                       *)

\* What is seen of a call that moved from a point where it waits: nothing while
\* it waits again, its answer when it is given.
LEMMA MoveSeen ==
  ASSUME TypeOK, NEW c \in DOMAIN call, call[c].pc \in Pending,
         DOMAIN call' = DOMAIN call, call'[c].asked = call[c].asked,
         \A x \in DOMAIN call : x # c => call'[x] = call[x]
  PROVE  /\ c \in DOMAIN answered /\ answered[c].answer = "pending"
         /\ answered[c].asked = call[c].asked
         /\ call'[c].pc \in Pending => answered' = answered
         /\ call'[c].pc \notin Pending => Store!Gets(c, call'[c].pc)
  BY DEF answered, Store!Gets

\* A reply that is given and writes nothing.
LEMMA RefusalSeen ==
  ASSUME TypeOK, NEW c \in Call, c \in DOMAIN call, call[c].pc \in Pending,
         NEW pc \in {"401", "404", "409", "500"}, Reply(c, pc),
         UNCHANGED <<user, project, deployment, creator>>,
         Store!Refused(call[c].asked, pc)
  PROVE  Store!Next
<1>1. /\ DOMAIN call' = DOMAIN call /\ call'[c].asked = call[c].asked /\ call'[c].pc = pc
      /\ \A x \in DOMAIN call : x # c => call'[x] = call[x]
  BY Replied DEF Answer
<1>2. /\ c \in DOMAIN answered /\ answered[c].answer = "pending"
      /\ answered[c].asked = call[c].asked /\ Store!Gets(c, pc)
  BY <1>1, MoveSeen DEF Pending
<1>3. Store!Answer(c)
  BY <1>2 DEF Store!Answer, Store!data
<1> QED
  BY <1>3 DEF Store!Next

\* A reply with rows.
LEMMA ReadSeen ==
  ASSUME TypeOK, NEW c \in Call, c \in DOMAIN call, call[c].pc \in Pending,
         NEW B \in SUBSET User, ReplyWith(c, B),
         UNCHANGED <<user, project, deployment, creator>>,
         Store!Readable(call[c].asked)
  PROVE  Store!Next
<1>1. /\ DOMAIN call' = DOMAIN call /\ call'[c].asked = call[c].asked /\ call'[c].pc = "200"
      /\ \A x \in DOMAIN call : x # c => call'[x] = call[x]
  BY RepliedWith
<1>2. /\ c \in DOMAIN answered /\ answered[c].answer = "pending"
      /\ answered[c].asked = call[c].asked /\ Store!Gets(c, "200")
  BY <1>1, MoveSeen DEF Pending
<1>3. Store!Answer(c)
  BY <1>2 DEF Store!Answer, Store!data
<1> QED
  BY <1>3 DEF Store!Next

\* A reply after a write.
LEMMA WriteSeen ==
  ASSUME TypeOK, NEW c \in Call, c \in DOMAIN call, call[c].pc \in Pending,
         DOMAIN call' = DOMAIN call, call'[c].asked = call[c].asked,
         \A x \in DOMAIN call : x # c => call'[x] = call[x],
         call'[c].pc \notin Pending,
         call'[c].pc \in {Store!Success[call[c].asked.op], "error"},
         Store!CarriedOut(call[c].asked)
  PROVE  Store!Next
<1>1. /\ c \in DOMAIN answered /\ answered[c].answer = "pending"
      /\ answered[c].asked = call[c].asked /\ Store!Gets(c, call'[c].pc)
  BY MoveSeen
<1>2. Store!Answer(c)
  BY <1>1 DEF Store!Answer
<1> QED
  BY <1>2 DEF Store!Next

\* The write of a handler that checked the owner in an earlier query is one that
\* checks it in the same moment.
LEMMA WriteIsCarriedOut ==
  ASSUME ApiInv, NEW c \in DOMAIN call, call[c].pc = "query", Write(call[c].asked)
  PROVE  Store!CarriedOut(call[c].asked)
<1> DEFINE a == call[c].asked
<1>1. a \in Asked
  BY CallType DEF ApiInv
<1>2. a.op \in Checking => NamesOwn(a) /\ a.id \in Project /\ Holds(a.user, a.id)
  BY <1>1, CheckedOwn, AskedType, ProjectsAssumption DEF NamesOwn
<1>3. a.op \in Checking /\ a.id \in DOMAIN project => Store!Mine(a, a.id)
  BY <1>2 DEF ApiInv, RowsKnown, Holds, Store!Mine
<1>4. CASE a.op = "create" /\ ProjectInserted(a)
  <2>1. ~Store!Named(a.user, a.dto.name, DOMAIN project)
    BY <1>4 DEF ProjectInserted, Taken, Store!Named
  <2>2. Store!Creates(a)
    BY <1>4, <2>1 DEF ProjectInserted, Put, Store!Creates, Store!Put
  <2> QED
    BY <2>2 DEF Store!CarriedOut
<1>5. CASE a.op = "update" /\ ProjectPatched(a)
  <2>1. a.id \in DOMAIN project /\ ~HasNull(a.dto) /\ ~NameTaken(a.id, a.dto)
        /\ project' = [project EXCEPT ![a.id] = Patched(a.id, a.dto)]
        /\ UNCHANGED <<user, deployment, creator>>
    BY <1>5 DEF ProjectPatched
  <2>2. Store!Mine(a, a.id) /\ project[a.id] \in ProjectRow
    BY <1>3, <1>5, <2>1, TableValue DEF Checking, ApiInv, TypeOK
  <2>3. Null \notin {a.dto.name, a.dto.repoUrl}
    BY <2>1 DEF HasNull
  <2>4. ~Store!Named(a.user, Store!Field(a.dto.name, project[a.id].name),
                     DOMAIN project \ {a.id})
    BY <2>1, <2>2 DEF NameTaken, Taken, Drop, Restrict, Patched, Store!Named, Store!Field,
                      Store!Mine
  <2>5. project' = [project EXCEPT ![a.id].name = Store!Field(a.dto.name, @),
                                   ![a.id].repoUrl = Store!Field(a.dto.repoUrl, @)]
    BY <2>1, <2>2 DEF Patched, Store!Field, ProjectRow
  <2> QED
    BY <1>5, <2>1, <2>2, <2>3, <2>4, <2>5 DEF Store!CarriedOut, Store!Patches
<1>6. CASE a.op = "remove" /\ ProjectDeleted(a)
  <2>1. Store!Mine(a, a.id)
    BY <1>3, <1>6 DEF Checking, ProjectDeleted
  <2>2. Store!Go({a.id})
    BY <1>6 DEF ProjectDeleted, Cascade, Restrict, Store!Go, Store!Restrict
  <2> QED
    BY <1>6, <2>1, <2>2 DEF ProjectDeleted, Store!CarriedOut, Store!Removes
<1>7. CASE a.op = "trigger" /\ DeploymentInserted(a)
  <2>1. Store!Mine(a, a.id)
    BY <1>3, <1>7 DEF Checking, DeploymentInserted
  <2>2. Store!Triggers(a)
    BY <1>7, <2>1 DEF DeploymentInserted, Put, Store!Triggers, Store!Put
  <2> QED
    BY <2>2 DEF Store!CarriedOut
<1> QED
  BY <1>4, <1>5, <1>6, <1>7 DEF Write

LEMMA ReadersSeen ==
  ASSUME ApiInv, NEW c \in Call,
         \/ Validate(c) \/ AssertOwned(c) \/ List(c) \/ FindOne(c) \/ IncludeDeployments(c)
         \/ ListForProject(c) \/ FindDeployment(c) \/ Me(c)
  PROVE  Store!Next \/ UNCHANGED Store!vars
<1>1. /\ c \in DOMAIN call /\ call[c].pc \in Pending /\ TypeOK
      /\ UNCHANGED <<user, project, deployment, creator>>
  BY DEF Validate, AssertOwned, List, FindOne, IncludeDeployments, ListForProject,
         FindDeployment, Me, At, Pending, ApiInv
<1>2. call[c].asked \in Asked /\ call[c] \in CallState
  BY <1>1, CallType
<1> DEFINE a == call[c].asked
<1>3. ASSUME NEW pc \in Pending, Reply(c, pc) PROVE UNCHANGED Store!vars
  <2>1. /\ DOMAIN call' = DOMAIN call /\ call'[c].asked = a /\ call'[c].pc = pc
        /\ \A x \in DOMAIN call : x # c => call'[x] = call[x]
    BY <1>1, <1>3, Replied
  <2> QED
    BY <1>1, <2>1, MoveSeen DEF Store!vars
<1>4. CASE Validate(c)
  <2>1. CASE a.user \notin user
    BY <1>1, <1>4, <2>1, RefusalSeen DEF Validate, Store!Refused
  <2>2. CASE a.user \in user
    BY <1>3, <1>4, <2>2 DEF Validate, Pending
  <2> QED
    BY <2>1, <2>2
<1>5. CASE AssertOwned(c)
  <2>1. CASE ~Owns(a.user, a.id)
    BY <1>1, <1>5, <2>1, RefusalSeen
    DEF AssertOwned, At, Checking, Owns, Store!Refused, Store!NotThere, Store!Mine
  <2>2. CASE Owns(a.user, a.id)
    BY <1>3, <1>5, <2>2 DEF AssertOwned, Pending
  <2> QED
    BY <2>1, <2>2
<1>6. CASE List(c)
  <2>1. PICK B \in SUBSET User : ReplyWith(c, B)
    <3>1. {project[p].owner : p \in {q \in DOMAIN project : project[q].owner = a.user}}
            \in SUBSET User
      BY <1>2, AskedType
    <3> QED
      BY <1>6, <3>1 DEF List
  <2> QED
    BY <1>1, <1>6, <2>1, ReadSeen DEF List, At, Store!Readable
<1>7. CASE FindOne(c)
  <2>1. CASE ~Owns(a.user, a.id)
    BY <1>1, <1>7, <2>1, RefusalSeen
    DEF FindOne, At, Owns, Store!Refused, Store!NotThere, Store!Mine
  <2>2. CASE Owns(a.user, a.id)
    <3>1. call'[c].asked = a /\ call'[c].pc = "include" /\ DOMAIN call' = DOMAIN call
          /\ \A x \in DOMAIN call : x # c => call'[x] = call[x]
      BY <1>1, <1>2, <1>7, <2>2 DEF FindOne, CallState
    <3> QED
      BY <1>1, <3>1, MoveSeen DEF Pending, Store!vars
  <2> QED
    BY <2>1, <2>2
<1>8. CASE IncludeDeployments(c) \/ ListForProject(c)
  <2>1. NamesOwn(a) /\ a.op \in {"findOne", "listForProject"}
    BY <1>1, <1>8, CheckedOwn DEF IncludeDeployments, ListForProject, At, Checking
  <2>2. Holds(a.user, a.id)
    BY <1>2, <2>1, AskedType, ProjectsAssumption DEF NamesOwn, Checking
  <2>3. TriggeredBy(a.id) \in SUBSET User
    BY <1>2, <2>2, TriggeredByOwner, AskedType
  <2>4. ReplyWith(c, TriggeredBy(a.id))
    BY <1>8 DEF IncludeDeployments, ListForProject
  <2>5. Store!Readable(a)
    BY <2>1, <2>2 DEF Holds, Store!Readable, Store!Once
  <2> QED
    BY <1>1, <2>3, <2>4, <2>5, ReadSeen
<1>9. CASE FindDeployment(c)
  <2> DEFINE d == a.deployment
  <2>1. CASE d \in DOMAIN deployment /\ Owns(a.user, deployment[d])
    <3>1. {creator[d]} \in SUBSET User /\ ReplyWith(c, {creator[d]})
      BY <1>9, <2>1 DEF FindDeployment, ApiInv, DeploymentsKnown, TypeOK, Table
    <3>2. Store!Readable(a)
      BY <1>9, <2>1 DEF FindDeployment, At, Owns, Store!Readable, Store!Mine
    <3> QED
      BY <1>1, <3>1, <3>2, ReadSeen
  <2>2. CASE ~(d \in DOMAIN deployment /\ Owns(a.user, deployment[d]))
    BY <1>1, <1>9, <2>2, RefusalSeen
    DEF FindDeployment, At, Owns, Store!Refused, Store!NotThere, Store!Mine
  <2> QED
    BY <2>1, <2>2
<1>10. CASE Me(c)
  <2>1. CASE a.user \in user
    <3>1. {a.user} \in SUBSET User /\ ReplyWith(c, {a.user})
      BY <1>2, <1>10, <2>1, AskedType DEF Me
    <3> QED
      BY <1>1, <1>10, <2>1, <3>1, ReadSeen DEF Me, At, Store!Readable
  <2>2. CASE a.user \notin user
    BY <1>1, <1>10, <2>2, RefusalSeen DEF Me, At, Store!Refused, Store!NotThere
  <2> QED
    BY <2>1, <2>2
<1> QED
  BY <1>4, <1>5, <1>6, <1>7, <1>8, <1>9, <1>10

LEMMA WritersSeen ==
  ASSUME ApiInv, NEW c \in Call, Create(c) \/ Update(c) \/ Remove(c) \/ Trigger(c)
  PROVE  Store!Next
<1> DEFINE a == call[c].asked
<1>1. /\ c \in DOMAIN call /\ call[c].pc = "query" /\ call[c].pc \in Pending /\ TypeOK
      /\ a \in Asked /\ NamesOwn(a)
      /\ a.op \in {"create", "update", "remove", "trigger"}
  BY CallType, CheckedOwn DEF Create, Update, Remove, Trigger, At, Pending, Checking, ApiInv
<1>2. a.op # "create" => Holds(a.user, a.id)
  BY <1>1, AskedType, ProjectsAssumption DEF NamesOwn, Checking
<1>3. ASSUME NEW pc \in {"404", "409", "500"}, Reply(c, pc),
             UNCHANGED <<user, project, deployment, creator>>, Store!Refused(a, pc)
      PROVE  Store!Next
  BY <1>1, <1>3, RefusalSeen
<1>4. ASSUME Write(a), NEW pc \in Answer, pc \in {Store!Success[a.op], "error"}, Reply(c, pc)
      PROVE  Store!Next
  <2>1. /\ DOMAIN call' = DOMAIN call /\ call'[c].asked = a /\ call'[c].pc = pc
        /\ \A x \in DOMAIN call : x # c => call'[x] = call[x]
    BY <1>1, <1>4, Replied
  <2>2. Store!CarriedOut(a)
    BY <1>1, <1>4, WriteIsCarriedOut
  <2> QED
    BY <1>1, <1>4, <2>1, <2>2, WriteSeen DEF Answer, Pending
<1>5. CASE Create(c)
  <2>1. CASE Reply(c, "500") /\ a.user \notin user
             /\ UNCHANGED <<user, project, deployment, creator>>
    BY <1>3, <1>5, <2>1 DEF Create, At, Store!Refused, Store!Broken
  <2>2. CASE Reply(c, "409") /\ Taken(project, a.user, a.dto.name)
             /\ UNCHANGED <<user, project, deployment, creator>>
    BY <1>3, <1>5, <2>2
    DEF Create, At, Taken, Store!Refused, Store!InConflict, Store!Named
  <2>3. CASE ProjectInserted(a) /\ Reply(c, "201")
    BY <1>4, <1>5, <2>3 DEF Create, At, Write, Answer, Store!Success
  <2> QED
    BY <1>5, <2>1, <2>2, <2>3 DEF Create
<1>6. CASE Update(c)
  <2>1. a.op = "update" /\ Holds(a.user, a.id)
    BY <1>2, <1>6 DEF Update, At
  <2>2. CASE Reply(c, "500") /\ HasNull(a.dto)
             /\ UNCHANGED <<user, project, deployment, creator>>
    BY <1>3, <2>1, <2>2 DEF HasNull, Holds, Store!Refused, Store!Broken, Store!Once
  <2>3. CASE Reply(c, "404") /\ a.id \notin DOMAIN project
             /\ UNCHANGED <<user, project, deployment, creator>>
    BY <1>3, <2>1, <2>3 DEF Store!Refused, Store!NotThere, Store!Mine
  <2>4. CASE Reply(c, "409") /\ a.id \in DOMAIN project /\ NameTaken(a.id, a.dto)
             /\ UNCHANGED <<user, project, deployment, creator>>
    <3>1. Store!Mine(a, a.id)
      BY <2>1, <2>4 DEF ApiInv, RowsKnown, Holds, Store!Mine
    <3>2. Store!Named(a.user, Store!Field(a.dto.name, project[a.id].name),
                      DOMAIN project \ {a.id})
      BY <2>4, <3>1 DEF NameTaken, Taken, Drop, Restrict, Patched, Store!Named, Store!Field,
                        Store!Mine
    <3> QED
      BY <1>3, <2>1, <2>4, <3>1, <3>2 DEF Store!Refused, Store!InConflict
  <2>5. CASE ProjectPatched(a) /\ ReplyWith(c, {project[a.id].owner})
    <3>1. PICK B \in SUBSET User : B = {project[a.id].owner}
      BY <1>1, <2>1, <2>5, ProjectPatchedWell, AskedType
    <3>2. /\ DOMAIN call' = DOMAIN call /\ call'[c].asked = a /\ call'[c].pc = "200"
          /\ \A x \in DOMAIN call : x # c => call'[x] = call[x]
      BY <1>1, <2>5, <3>1, RepliedWith
    <3>3. Store!CarriedOut(a)
      BY <1>1, <2>1, <2>5, WriteIsCarriedOut DEF Write
    <3> QED
      BY <1>1, <2>1, <3>2, <3>3, WriteSeen DEF Pending, Store!Success
  <2> QED
    BY <1>6, <2>2, <2>3, <2>4, <2>5 DEF Update, RecordNotFound
<1>7. CASE Remove(c)
  <2>1. CASE Reply(c, "404") /\ a.id \notin DOMAIN project
             /\ UNCHANGED <<user, project, deployment, creator>>
    BY <1>3, <1>7, <2>1 DEF Remove, At, Store!Refused, Store!NotThere, Store!Mine
  <2>2. CASE ProjectDeleted(a) /\ Reply(c, "204")
    BY <1>4, <1>7, <2>2 DEF Remove, At, Write, Answer, Store!Success
  <2> QED
    BY <1>7, <2>1, <2>2 DEF Remove, RecordNotFound
<1>8. CASE Trigger(c)
  <2>1. CASE Reply(c, "500") /\ a.id \notin DOMAIN project
             /\ UNCHANGED <<user, project, deployment, creator>>
    BY <1>2, <1>3, <1>8, <2>1
    DEF Trigger, At, Holds, Store!Refused, Store!Broken, Store!Once
  <2>2. ASSUME DeploymentInserted(a), NEW pc \in {"201", "error"}, Reply(c, pc)
        PROVE  Store!Next
    BY <1>4, <1>8, <2>2 DEF Trigger, At, Write, Answer, Store!Success
  <2> QED
    BY <1>8, <2>1, <2>2 DEF Trigger
<1> QED
  BY <1>5, <1>6, <1>7, <1>8

LEMMA ErrorSeen ==
  ASSUME ApiInv, NEW c \in Call, QueryError(c)
  PROVE  Store!Next
<1>1. c \in DOMAIN call /\ call[c].pc \in Pending /\ TypeOK /\ call[c] \in CallState
  BY CallType DEF QueryError, ApiInv
<1>2. /\ DOMAIN call' = DOMAIN call /\ call'[c].asked = call[c].asked /\ call'[c].pc = "error"
      /\ \A x \in DOMAIN call : x # c => call'[x] = call[x]
  BY <1>1 DEF QueryError, CallState
<1>3. /\ c \in DOMAIN answered /\ answered[c].answer = "pending"
      /\ answered[c].asked = call[c].asked /\ Store!Gets(c, "error")
  BY <1>1, <1>2, MoveSeen DEF Pending
<1>4. UNCHANGED <<user, project, deployment, creator>> \/ Store!CarriedOut(call[c].asked)
  BY <1>1, WriteIsCarriedOut DEF QueryError
<1>5. Store!Answer(c)
  BY <1>3, <1>4 DEF Store!Answer, Store!data
<1> QED
  BY <1>5 DEF Store!Next

LEMMA ArrivalSeen ==
  ASSUME ApiInv, NEW c \in Call, NEW asked \in Asked, Arrive(c, asked)
  PROVE  Store!Next
<1>1. /\ c \notin DOMAIN call /\ UNCHANGED <<user, project, deployment, creator>>
      /\ call' = Put(call, c, [asked |-> asked, pc |-> "guard", body |-> {}])
  BY DEF Arrive
<1>2. /\ DOMAIN answered = DOMAIN call /\ DOMAIN answered' = DOMAIN call \cup {c}
      /\ answered'[c] = [asked |-> asked, answer |-> "pending"]
      /\ \A x \in DOMAIN call : answered'[x] = answered[x]
  BY <1>1 DEF Put, answered, Pending
<1>3. answered' = Put(answered, c, answered'[c])
  BY <1>1, <1>2 DEF Put, answered
<1>4. answered'[c] \in [asked : Asked, answer : {"pending"}]
  BY <1>2
<1>5. Store!Ask(c)
  BY <1>1, <1>2, <1>3, <1>4 DEF Put, Store!Ask, Store!data, Store!Put
<1> QED
  BY <1>5 DEF Store!Next

\* ProjectsApi implements ProjectStore: whatever runs between the check and the
\* write of a call, its answer is one that a check and write in one moment gives.
THEOREM StoreRefinement == Spec => ImplementsStore
<1>1. Init => Store!Init
  <2> SUFFICES ASSUME Init PROVE Store!Init
    OBVIOUS
  <2>1. PICK P \in SUBSET Project : project \in [P -> ProjectRow]
    BY DEF Init
  <2>2. PICK D \in SUBSET Deployment : deployment \in [D -> DOMAIN project]
    BY DEF Init
  <2>3. answered = Empty
    BY DEF Init, answered, Empty
  <2>4. DOMAIN project = P /\ DOMAIN deployment = D
    BY <2>1, <2>2
  <2>5. /\ \A p \in P : creator[p] = project[p].owner
        /\ \A d \in D : deployment[d] \in P /\ creator[d] = project[deployment[d]].owner
    BY <2>2, <2>4, ProjectsAssumption DEF Init
  <2> QED
    BY <2>3, <2>4, <2>5 DEF Empty, Store!Init, Store!Empty
<1>2. ApiInv /\ [Next]_vars => [Store!Next]_(Store!vars)
  <2> SUFFICES ASSUME ApiInv, [Next]_vars PROVE Store!Next \/ UNCHANGED Store!vars
    OBVIOUS
  <2>1. CASE UNCHANGED vars
    BY <2>1 DEF vars, Store!vars, answered
  <2>2. ASSUME NEW c \in Call, Handle(c) PROVE Store!Next \/ UNCHANGED Store!vars
    BY <2>2, ReadersSeen, WritersSeen, ErrorSeen DEF Handle
  <2>3. ASSUME NEW u \in User, DeleteUser(u) PROVE Store!Next
    <3>1. PICK gone : gone = {p \in DOMAIN project : project[p].owner = u}
      OBVIOUS
    <3>2. u \in user /\ user' = user \ {u} /\ Cascade(gone) /\ UNCHANGED <<creator, call>>
      BY <2>3, <3>1 DEF DeleteUser
    <3>3. Store!Go(gone)
      BY <3>2 DEF Cascade, Restrict, Store!Go, Store!Restrict
    <3>4. answered' = answered
      BY <3>2 DEF answered
    <3>5. Store!DeleteUser
      BY <3>1, <3>2, <3>3, <3>4 DEF Store!DeleteUser
    <3> QED
      BY <3>5 DEF Store!Next
  <2> QED
    BY <2>1, <2>2, <2>3, ArrivalSeen DEF Next
<1> QED
  BY <1>1, <1>2, Invariant, PTL DEF Spec, ImplementsStore, Store!Spec
==============================================================================
