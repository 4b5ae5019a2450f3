------------------------ MODULE DeploymentLifecycle ------------------------
(***************************************************************************)
(* What the pipeline promises a user who polls GET /deployments/:id: a      *)
(* deployment appears as PENDING, is built, deployed and ends at SUCCESS or *)
(* FAILED, a failed one is built again while attempts are left, and one     *)
(* that was deleted stays away.  Nothing is said of jobs, locks, slots or   *)
(* queries: DeploymentPipeline is shown to implement this module.           *)
(***************************************************************************)
EXTENDS Integers

CONSTANTS
  Deployment,  \* the ids of deployments
  MaxBuilds,   \* how often a deployment may be built
  CutShort     \* whether an attempt may be cut short (crash, failing query)

VARIABLES
  status,  \* what a poll answers; "absent" before, "gone" when it is over
  builds   \* how often the deployment was built

vars == <<status, builds>>

Visible == {"PENDING", "BUILDING", "DEPLOYING", "SUCCESS", "FAILED"}

Init ==
  /\ status = [d \in Deployment |-> "absent"]
  /\ builds = [d \in Deployment |-> 0]

\* The deployment moves from one of the given statuses to the next; any
\* visible status will do where attempts may be cut short.
Move(d, from, to) ==
  /\ status[d] \in (IF CutShort THEN Visible ELSE from)
  /\ status' = [status EXCEPT ![d] = to]

Create(d) ==
  /\ status[d] = "absent"
  /\ status' = [status EXCEPT ![d] = "PENDING"]
  /\ UNCHANGED builds

\* Triggers were answered with an error, or never (a crash ends several).
Reject(D) ==
  /\ \A d \in D : status[d] = "absent"
  /\ status' = [d \in Deployment |-> IF d \in D THEN "gone" ELSE status[d]]
  /\ UNCHANGED builds

Build(d) ==
  /\ builds[d] < MaxBuilds
  /\ Move(d, {"PENDING", "FAILED"}, "BUILDING")
  /\ builds' = [builds EXCEPT ![d] = @ + 1]

Deploy(d) ==
  /\ status[d] = "BUILDING"
  /\ status' = [status EXCEPT ![d] = "DEPLOYING"]
  /\ UNCHANGED builds

Succeed(d) ==
  /\ status[d] = "DEPLOYING"
  /\ status' = [status EXCEPT ![d] = "SUCCESS"]
  /\ UNCHANGED builds

Fail(d) ==
  /\ Move(d, {"DEPLOYING"}, "FAILED")
  /\ UNCHANGED builds

\* A project goes, and with it a set of deployments at once.
Delete(D) ==
  /\ \A d \in D : status[d] \in Visible
  /\ status' = [d \in Deployment |-> IF d \in D THEN "gone" ELSE status[d]]
  /\ builds' = [d \in Deployment |-> IF d \in D THEN 0 ELSE builds[d]]

Progress(d) == Build(d) \/ Deploy(d) \/ Succeed(d) \/ Fail(d)

Next ==
  \/ \E d \in Deployment : Create(d) \/ Progress(d)
  \/ \E D \in SUBSET Deployment : Reject(D) \/ Delete(D)

Spec == Init /\ [][Next]_vars

\* A deployment that can go on goes on.
FairSpec == Spec /\ \A d \in Deployment : WF_vars(Progress(d))
=============================================================================
