----------------------------- MODULE Deployments -----------------------------
(***************************************************************************)
(* The resources coolify_deployment of one application, and everybody else *)
(* who deploys it. Create asks for a deployment, finds out which one it    *)
(* got, saves it and may wait for its end. Coolify answers with the new    *)
(* deployment, or, when one of the same commit is in flight already, with  *)
(* no UUID or with one that it never stored: Create then adopts what the   *)
(* list of the application's deployments shows.                            *)
(*                                                                         *)
(* Every resource goes through its own applies, so the resources may also  *)
(* belong to different configurations. Every call of a handler is a step.  *)
(***************************************************************************)
EXTENDS Naturals, Sequences

CONSTANTS
    Resources,
    NoUUID,      \* the answer has no UUID
    Ghost,       \* a UUID that Coolify never stored
    MaxDeploys,  \* bound: deployments
    MaxCommit,   \* bound: commits
    MaxFaults,   \* bound: calls that fail
    MaxEdits     \* bound: changes of the triggers and of wait_for_completion

ASSUME UUIDAssumption == NoUUID \notin Nat /\ Ghost \notin Nat /\ NoUUID # Ghost

ASSUME DeploymentBoundsAssumption == {MaxDeploys, MaxCommit, MaxFaults, MaxEdits} \subseteq Nat

VARIABLES
    deployments,  \* oldest first; a UUID is a place in the sequence
    commit,       \* the newest commit of the application
    waits,        \* configuration: wait_for_completion
    triggered,    \* the triggers are not those of the state
    state,        \* per resource: the deployment in Terraform's state
    doing,        \* per resource: the call its handler makes next
    answer,       \* the UUID of the POST
    expired,      \* the context of the handler is over
    outcome,      \* how the last apply ended, "deployed" when Create waited
    asked,        \* history: the newest commit when the deployment was asked for
    over,         \* history: the deployments that had ended by then
    faults, edits

server == <<deployments, commit>>
config == <<waits, triggered, edits>>
handler == <<state, doing, answer, expired, outcome>>
history == <<asked, over>>
vars == <<server, config, handler, history, faults>>

Statuses == {"queued", "in_progress", "finished", "failed", "cancelled"}
UUIDs == DOMAIN deployments
StatusOf(d) == deployments[d].status
InFlight == {d \in UUIDs : StatusOf(d) \in {"queued", "in_progress"}}
Ended == UUIDs \ InFlight

Absent == [uuid |-> NoUUID, status |-> "queued", tainted |-> FALSE]
Tracked(d, status, tainted) == [uuid |-> d, status |-> status, tainted |-> tainted]

Init ==
    /\ deployments = <<>> /\ commit = 0
    /\ waits \in [Resources -> BOOLEAN] /\ triggered = [r \in Resources |-> FALSE]
    /\ state = [r \in Resources |-> Absent]
    /\ doing = [r \in Resources |-> "idle"]
    /\ answer = [r \in Resources |-> NoUUID]
    /\ expired = [r \in Resources |-> FALSE]
    /\ outcome = [r \in Resources |-> "none"]
    /\ asked = [r \in Resources |-> 0] /\ over = [r \in Resources |-> {}]
    /\ faults = 0 /\ edits = 0

(***************************************************************************)
(* Coolify: the deployments of an application run one after the other, in  *)
(* their order.                                                            *)
(***************************************************************************)
Queued ==
    /\ Len(deployments) < MaxDeploys
    /\ deployments' = Append(deployments, [commit |-> commit, status |-> "queued"])

SameInFlight == \E d \in InFlight : deployments[d].commit = commit

Becomes(d, status) == deployments' = [deployments EXCEPT ![d].status = status]

Run(d) ==
    /\ StatusOf(d) = "queued" /\ \A e \in InFlight : d <= e
    /\ Becomes(d, "in_progress")
    /\ UNCHANGED <<commit, config, handler, history, faults>>

Finish(d) ==
    /\ StatusOf(d) = "in_progress"
    /\ \E status \in {"finished", "failed"} : Becomes(d, status)
    /\ UNCHANGED <<commit, config, handler, history, faults>>

Cancel(d) ==
    /\ d \in InFlight
    /\ Becomes(d, "cancelled")
    /\ UNCHANGED <<commit, config, handler, history, faults>>

Push ==
    /\ commit < MaxCommit /\ commit' = commit + 1
    /\ UNCHANGED <<deployments, config, handler, history, faults>>

\* A push, the dashboard or instant_deploy.
OutsideDeploy ==
    /\ ~SameInFlight /\ Queued
    /\ UNCHANGED <<commit, config, handler, history, faults>>

(***************************************************************************)
(* Calls. After its context has expired no call of a handler succeeds.     *)
(***************************************************************************)
Answered(r) == ~expired[r] /\ UNCHANGED faults
Fails(r) ==
    \/ expired[r] /\ UNCHANGED faults
    \/ faults < MaxFaults /\ faults' = faults + 1

Goes(r, next) == doing' = [doing EXCEPT ![r] = next]
Saves(r, saved) == state' = [state EXCEPT ![r] = saved]

\* The history is of the Create that runs, or that has deployed.
Forgets(r) == asked' = [asked EXCEPT ![r] = 0] /\ over' = [over EXCEPT ![r] = {}]

Returns(r, result) ==
    /\ Goes(r, "idle") /\ outcome' = [outcome EXCEPT ![r] = result]
    /\ answer' = [answer EXCEPT ![r] = NoUUID] /\ expired' = [expired EXCEPT ![r] = FALSE]
    /\ IF result = "deployed" THEN UNCHANGED history ELSE Forgets(r)

\* A broken variant: the handler goes on with the context it was given.
ExpireNever(r) == FALSE /\ UNCHANGED vars

\* The create timeout, ten minutes by default.
Expire(r) ==
    /\ doing[r] \notin {"idle", "refreshed"} /\ ~expired[r]
    /\ expired' = [expired EXCEPT ![r] = TRUE]
    /\ UNCHANGED <<server, config, state, doing, answer, outcome, history, faults>>

(***************************************************************************)
(* Create.                                                                 *)
(***************************************************************************)
Post(r) ==
    /\ doing[r] = "post" /\ Answered(r)
    /\ \/ ~SameInFlight /\ Queued /\ answer' = [answer EXCEPT ![r] = Len(deployments')]
       \/ SameInFlight /\ UNCHANGED deployments
            /\ \E uuid \in {NoUUID, Ghost} : answer' = [answer EXCEPT ![r] = uuid]
    /\ asked' = [asked EXCEPT ![r] = commit] /\ over' = [over EXCEPT ![r] = Ended]
    /\ Goes(r, IF answer'[r] = NoUUID THEN "list" ELSE "confirm")
    /\ UNCHANGED <<commit, config, state, expired, outcome>>

\* A POST that failed may have been executed.
PostFails(r) ==
    /\ doing[r] = "post" /\ Fails(r)
    /\ UNCHANGED deployments \/ (~SameInFlight /\ Queued)
    /\ Returns(r, "failed")
    /\ UNCHANGED <<commit, config, state>>

\* resolveDeploymentUUID keeps the UUID of the POST when a GET finds it.
Confirm(r) ==
    /\ doing[r] = "confirm" /\ Answered(r)
    /\ Goes(r, IF answer[r] \in UUIDs THEN "status" ELSE "list")
    /\ UNCHANGED <<server, config, state, answer, expired, outcome, history>>

ConfirmFails(r) ==
    /\ doing[r] = "confirm" /\ Fails(r)
    /\ Goes(r, "list")
    /\ UNCHANGED <<server, config, state, answer, expired, outcome, history>>

Newest(S) == {d \in S : \A e \in S : e <= d}

\* Broken variants: the list is read from its other end, without a look at
\* what is in flight or with one.
PickOldest == {d \in UUIDs : \A e \in UUIDs : d <= e}
PickOldestInFlight ==
    IF InFlight # {} THEN {d \in InFlight : \A e \in InFlight : d <= e} ELSE Newest(UUIDs)

\* The set of the one deployment that is adopted: the list is newest first,
\* and what is in flight comes before what has ended.
pickDeploymentUUID == IF InFlight # {} THEN Newest(InFlight) ELSE Newest(UUIDs)

Resolved(r, uuid) ==
    IF uuid = NoUUID THEN Returns(r, "failed")
    ELSE /\ Goes(r, "status") /\ answer' = [answer EXCEPT ![r] = uuid]
         /\ UNCHANGED <<expired, outcome, history>>

List(r) ==
    /\ doing[r] = "list" /\ Answered(r)
    /\ IF UUIDs = {} THEN Resolved(r, answer[r])
       ELSE \E d \in pickDeploymentUUID : Resolved(r, d)
    /\ UNCHANGED <<server, config, state>>

\* Without the list the UUID of the POST has to do.
ListFails(r) ==
    /\ doing[r] = "list" /\ Fails(r)
    /\ Resolved(r, answer[r])
    /\ UNCHANGED <<server, config, state>>

Saved(r) ==
    IF waits[r] THEN Goes(r, "poll") /\ UNCHANGED <<answer, expired, outcome, history>> ELSE Returns(r, "ok")

Status(r) ==
    /\ doing[r] = "status" /\ Answered(r) /\ answer[r] \in UUIDs
    /\ Saves(r, Tracked(answer[r], StatusOf(answer[r]), FALSE)) /\ Saved(r)
    /\ UNCHANGED <<server, config>>

\* What a deployment is taken to be in whose status could not be read, and a
\* broken variant that leaves the attribute as it was planned.
DefaultUnknown == "unknown"
DefaultStatus == "queued"

\* Only a warning.
StatusFails(r) ==
    /\ doing[r] = "status" /\ (Fails(r) \/ (Answered(r) /\ answer[r] \notin UUIDs))
    /\ Saves(r, Tracked(answer[r], DefaultStatus, FALSE)) /\ Saved(r)
    /\ UNCHANGED <<server, config>>

\* An error taints what was saved.
Tainted(r) == [state[r] EXCEPT !.tainted = TRUE]

\* A broken variant: whatever is neither queued nor running has been deployed.
OverUnlessInFlight(status) == status \notin {"queued", "in_progress"}

Over(status) == status \in {"finished", "failed"}

PollOn(r) ==
    /\ doing[r] = "poll" /\ Answered(r) /\ answer[r] \in UUIDs
    /\ ~Over(StatusOf(answer[r]))
    /\ Saves(r, Tracked(answer[r], StatusOf(answer[r]), FALSE))
    /\ UNCHANGED <<server, config, doing, answer, expired, outcome, history>>

PollEnds(r) ==
    /\ doing[r] = "poll" /\ Answered(r) /\ answer[r] \in UUIDs
    /\ LET status == StatusOf(answer[r]) IN
        /\ Over(status)
        /\ Saves(r, Tracked(answer[r], status, status = "failed"))
        /\ Returns(r, IF status = "failed" THEN "failed" ELSE "deployed")
    /\ UNCHANGED <<server, config>>

\* The context expired, while the handler slept or in the middle of the GET;
\* the GET failed; there is no such deployment.
PollFails(r) ==
    /\ doing[r] = "poll" /\ (Fails(r) \/ (Answered(r) /\ answer[r] \notin UUIDs))
    /\ Saves(r, Tainted(r)) /\ Returns(r, "failed")
    /\ UNCHANGED <<server, config>>

Create(r) ==
    \/ Post(r) \/ PostFails(r) \/ Confirm(r) \/ ConfirmFails(r) \/ List(r) \/ ListFails(r)
    \/ Status(r) \/ StatusFails(r) \/ PollOn(r) \/ PollEnds(r) \/ PollFails(r)

(***************************************************************************)
(* Terraform core and the other handlers.                                  *)
(***************************************************************************)
Calls(r) ==
    /\ Goes(r, "post")
    /\ outcome' = [outcome EXCEPT ![r] = "none"] /\ Forgets(r)

\* There is nothing to refresh.
Apply(r) ==
    /\ doing[r] = "idle" /\ state[r].uuid = NoUUID
    /\ Calls(r) /\ triggered' = [triggered EXCEPT ![r] = FALSE]
    /\ UNCHANGED <<server, waits, edits, state, answer, expired, faults>>

Refreshed(r) == Goes(r, "refreshed") /\ outcome' = [outcome EXCEPT ![r] = "none"] /\ Forgets(r)

Read(r) ==
    /\ doing[r] = "idle" /\ state[r].uuid # NoUUID
    /\ LET uuid == state[r].uuid IN
        Saves(r, IF uuid \in UUIDs THEN Tracked(uuid, StatusOf(uuid), state[r].tainted) ELSE Absent)
    /\ Refreshed(r)
    /\ UNCHANGED <<server, config, answer, expired, faults>>

ReadFails(r) ==
    /\ doing[r] = "idle" /\ state[r].uuid # NoUUID
    /\ faults < MaxFaults /\ faults' = faults + 1
    /\ Returns(r, "failed")
    /\ UNCHANGED <<server, config, state>>

\* New triggers replace the resource, as an error of its Create does. Delete
\* does nothing: a deployment cannot be taken back.
Replace(r) ==
    /\ doing[r] = "refreshed"
    /\ state[r].uuid = NoUUID \/ state[r].tainted \/ triggered[r]
    /\ Saves(r, Absent) /\ Calls(r) /\ triggered' = [triggered EXCEPT ![r] = FALSE]
    /\ UNCHANGED <<server, waits, edits, answer, expired, faults>>

\* Update changes wait_for_completion in the state and keeps the status.
Update(r) ==
    /\ doing[r] = "refreshed"
    /\ state[r].uuid # NoUUID /\ ~state[r].tainted /\ ~triggered[r]
    /\ Returns(r, "ok")
    /\ UNCHANGED <<server, config, state, faults>>

Delete(r) ==
    /\ doing[r] = "refreshed" /\ Saves(r, Absent) /\ Returns(r, "none")
    /\ UNCHANGED <<server, config, faults>>

\* ImportState knows no triggers.
Import(r) ==
    /\ doing[r] = "idle" /\ state[r].uuid = NoUUID
    /\ \E d \in UUIDs : Saves(r, Tracked(d, StatusOf(d), FALSE))
    /\ \E some \in BOOLEAN : triggered' = [triggered EXCEPT ![r] = some]
    /\ Refreshed(r)
    /\ UNCHANGED <<server, waits, edits, answer, expired, faults>>

Edit(r) ==
    /\ doing[r] = "idle" /\ edits < MaxEdits /\ edits' = edits + 1
    /\ Returns(r, "none")
    /\ \/ triggered' = [triggered EXCEPT ![r] = TRUE] /\ UNCHANGED waits
       \/ waits' = [waits EXCEPT ![r] = ~waits[r]] /\ UNCHANGED triggered
    /\ UNCHANGED <<server, state, faults>>

Handler(r) == Create(r) \/ Replace(r) \/ Update(r)

Next ==
    \/ \E r \in Resources :
        \/ Handler(r) \/ Expire(r) \/ Apply(r) \/ Read(r) \/ ReadFails(r)
        \/ Delete(r) \/ Import(r) \/ Edit(r)
    \/ \E d \in UUIDs : Run(d) \/ Finish(d) \/ Cancel(d)
    \/ Push \/ OutsideDeploy

Spec == Init /\ [][Next]_vars

\* A running handler goes on, and its timeout ends some time. Nothing is
\* assumed of Coolify, which may never run a deployment.
FairSpec == Spec /\ \A r \in Resources : WF_vars(Handler(r)) /\ WF_vars(Expire(r))

(***************************************************************************)
(* Properties.                                                             *)
(***************************************************************************)

\* Every variable keeps to its kind, and a resource tracks a deployment
\* that exists or a UUID that never did.
TypeOK ==
    /\ deployments \in Seq([commit : 0 .. MaxCommit, status : Statuses]) /\ commit \in 0 .. MaxCommit
    /\ waits \in [Resources -> BOOLEAN] /\ triggered \in [Resources -> BOOLEAN]
    /\ state \in [Resources -> [uuid : UUIDs \cup {NoUUID, Ghost}, status : Statuses, tainted : BOOLEAN]]
    /\ doing \in [Resources -> {"idle", "refreshed", "post", "confirm", "list", "status", "poll"}]
    /\ answer \in [Resources -> UUIDs \cup {NoUUID, Ghost}]
    /\ expired \in [Resources -> BOOLEAN]
    /\ outcome \in [Resources -> {"none", "ok", "deployed", "failed"}]
    /\ asked \in [Resources -> 0 .. MaxCommit] /\ over \in [Resources -> SUBSET UUIDs]
    /\ faults \in 0 .. MaxFaults /\ edits \in 0 .. MaxEdits

\* A Create that waited and succeeded saved the UUID of a deployment that
\* has finished, whoever started, cancelled or read it meanwhile.
DeployedIsFinished ==
    \A r \in Resources : outcome[r] = "deployed" =>
        /\ state[r].uuid \in UUIDs /\ StatusOf(state[r].uuid) = "finished"
        /\ state[r].status = "finished" /\ ~state[r].tainted

\* It never takes the success of a deployment that had ended before this
\* one was asked for as its own.
SuccessIsNotOld ==
    \A r \in Resources : outcome[r] = "deployed" => state[r].uuid \notin over[r]

\* What it deployed is no older than what it was asked to deploy, unless
\* somebody cancelled that.
DeploysNoOlder ==
    \A r \in Resources : outcome[r] = "deployed" =>
        \/ deployments[state[r].uuid].commit >= asked[r]
        \/ \E d \in UUIDs : StatusOf(d) = "cancelled" /\ deployments[d].commit >= asked[r]

\* Create returns, also when the deployment it waits for was cancelled or
\* never runs.
EveryCreateReturns == \A r \in Resources : doing[r] # "idle" ~> doing[r] = "idle"
=============================================================================
