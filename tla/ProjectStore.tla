---------------------------- MODULE ProjectStore ----------------------------
(***************************************************************************)
(* What the API promises about projects and deployments, whatever queries a  *)
(* handler needs for it: between its arrival and its answer there is one      *)
(* moment at which a call, its ownership check included, is carried out or    *)
(* refused.  Only the answer "error" leaves open whether it was carried out.  *)
(***************************************************************************)
EXTENDS Tables

CONSTANTS Project, Deployment, Call, Asked, None, Null

VARIABLES user, project, deployment, creator, call

data == <<user, project, deployment, creator>>
vars == <<user, project, deployment, creator, call>>

\* The call's user owns the project now; the user created it.
Mine(a, p)  == p \in DOMAIN project /\ project[p].owner = a.user
Once(a, id) == id \in DOMAIN creator /\ creator[id] = a.user

Named(u, name, others) ==
  \E p \in others : project[p].owner = u /\ project[p].name = name

Field(new, old) == IF new = None THEN old ELSE new

-----------------------------------------------------------------------------
(* What a call does when it is carried out.                                  *)

Creates(a) ==
  /\ a.op = "create" /\ a.user \in user
  /\ ~Named(a.user, a.dto.name, DOMAIN project)
  /\ \E p \in Project \ DOMAIN creator :
       /\ project' = Put(project, p, [owner |-> a.user, name |-> a.dto.name,
                                      repoUrl |-> a.dto.repoUrl])
       /\ creator' = Put(creator, p, a.user)
  /\ UNCHANGED <<user, deployment>>

Patches(a) ==
  /\ a.op = "update" /\ Mine(a, a.id)
  /\ Null \notin {a.dto.name, a.dto.repoUrl}
  /\ ~Named(a.user, Field(a.dto.name, project[a.id].name), DOMAIN project \ {a.id})
  /\ project' = [project EXCEPT ![a.id].name = Field(a.dto.name, @),
                                ![a.id].repoUrl = Field(a.dto.repoUrl, @)]
  /\ UNCHANGED <<user, deployment, creator>>

\* Projects go, and their deployments with them.
Go(gone) ==
  /\ project' = Restrict(project, DOMAIN project \ gone)
  /\ deployment' = Restrict(deployment, {d \in DOMAIN deployment :
                                           deployment[d] \notin gone})

Removes(a) ==
  /\ a.op = "remove" /\ Mine(a, a.id)
  /\ Go({a.id})
  /\ UNCHANGED <<user, creator>>

Triggers(a) ==
  /\ a.op = "trigger" /\ Mine(a, a.id)
  /\ \E d \in Deployment \ DOMAIN creator :
       /\ deployment' = Put(deployment, d, a.id)
       /\ creator' = Put(creator, d, a.user)
  /\ UNCHANGED <<user, project>>

CarriedOut(a) == Creates(a) \/ Patches(a) \/ Removes(a) \/ Triggers(a)

Success == [create |-> "201", update |-> "200", remove |-> "204", trigger |-> "201"]

\* What may be read; a project, and the list of its deployments, also when it
\* went since the owner was found.
Readable(a) ==
  \/ a.op = "list"
  \/ a.op = "me" /\ a.user \in user
  \/ a.op \in {"findOne", "listForProject"} /\ Once(a, a.id)
  \/ /\ a.op = "findDeployment" /\ a.deployment \in DOMAIN deployment
     /\ Mine(a, deployment[a.deployment])

-----------------------------------------------------------------------------
(* Why a call is refused.                                                    *)

NotThere(a) ==
  \/ a.op = "me" /\ a.user \notin user
  \/ a.op \in {"update", "remove", "findOne", "listForProject", "trigger"} /\ ~Mine(a, a.id)
  \/ /\ a.op = "findDeployment"
     /\ a.deployment \in DOMAIN deployment => ~Mine(a, deployment[a.deployment])

InConflict(a) ==
  \/ a.op = "create" /\ Named(a.user, a.dto.name, DOMAIN project)
  \/ /\ a.op = "update" /\ Mine(a, a.id)
     /\ Named(a.user, Field(a.dto.name, project[a.id].name), DOMAIN project \ {a.id})

\* The user or the project went after it was found, or a null was sent.
Broken(a) ==
  \/ a.op = "create" /\ a.user \notin user
  \/ a.op = "update" /\ Once(a, a.id) /\ Null \in {a.dto.name, a.dto.repoUrl}
  \/ a.op = "trigger" /\ Once(a, a.id) /\ a.id \notin DOMAIN project

Refused(a, answer) ==
  \/ answer = "401" /\ a.user \notin user
  \/ answer = "404" /\ NotThere(a)
  \/ answer = "409" /\ InConflict(a)
  \/ answer = "500" /\ Broken(a)

-----------------------------------------------------------------------------
Init ==
  /\ \A p \in DOMAIN project : creator[p] = project[p].owner
  /\ \A d \in DOMAIN deployment :
       /\ deployment[d] \in DOMAIN project
       /\ creator[d] = project[deployment[d]].owner
  /\ call = Empty

Ask(c) ==
  /\ c \notin DOMAIN call /\ c \in DOMAIN call'
  /\ call'[c] \in [asked : Asked, answer : {"pending"}]
  /\ call' = Put(call, c, call'[c])
  /\ UNCHANGED data

\* The call gets its answer.
Gets(c, answer) == call' = [call EXCEPT ![c].answer = answer]

Answer(c) ==
  /\ c \in DOMAIN call /\ call[c].answer = "pending"
  /\ LET a == call[c].asked IN
     \/ /\ UNCHANGED data
        /\ \/ Readable(a) /\ Gets(c, "200")
           \/ \E answer \in {"401", "404", "409", "500"} :
                Refused(a, answer) /\ Gets(c, answer)
           \/ Gets(c, "error")
     \/ /\ CarriedOut(a)
        /\ \E answer \in {Success[a.op], "error"} : Gets(c, answer)

DeleteUser ==
  \E u \in user :
    /\ user' = user \ {u}
    /\ Go({p \in DOMAIN project : project[p].owner = u})
    /\ UNCHANGED <<creator, call>>

Next == (\E c \in Call : Ask(c) \/ Answer(c)) \/ DeleteUser

Spec == Init /\ [][Next]_vars
=============================================================================
