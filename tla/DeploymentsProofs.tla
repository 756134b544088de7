-------------------------- MODULE DeploymentsProofs --------------------------
(***************************************************************************)
(* Proofs about Deployments, for any number of resources, deployments,     *)
(* commits, faults and edits.                                              *)
(*                                                                         *)
(* Deployments run in their order, so what is newer than one in flight has *)
(* neither finished nor failed; this is why the newest one of the list, or *)
(* the newest one in flight, is never an old success. The invariant        *)
(* carries it from the POST, through the calls that find the deployment    *)
(* and wait for it, to the return of Create.                               *)
(***************************************************************************)
EXTENDS Deployments, SequenceTheorems, TLAPS

USE UUIDAssumption, DeploymentBoundsAssumption

\* What is newer than a deployment in flight is waiting or was cancelled.
Fifo ==
    \A d, e \in UUIDs : d < e /\ d \in InFlight => StatusOf(e) \in {"queued", "cancelled"}

\* A newer deployment is not of an older commit.
CommitsGrow ==
    /\ \A d \in UUIDs : deployments[d].commit <= commit
    /\ \A d, e \in UUIDs : d < e => deployments[d].commit <= deployments[e].commit

Queue == Fifo /\ CommitsGrow

\* Deployment d is no old success, and not of a commit before the one asked
\* for unless that was cancelled.
Sound(r, d) ==
    /\ d \in over[r] => StatusOf(d) # "finished"
    /\ \/ deployments[d].commit >= asked[r]
       \/ \E e \in UUIDs : StatusOf(e) = "cancelled" /\ deployments[e].commit >= asked[r]

\* While the deployment is looked for: the list has something to adopt.
Adoptable(r) ==
    doing[r] \in {"confirm", "list"} =>
        /\ \E d \in UUIDs : deployments[d].commit >= asked[r]
        /\ Len(deployments) \in over[r] => StatusOf(Len(deployments)) # "finished"

AnswerIsSound(r) ==
    doing[r] \in {"confirm", "list", "status", "poll"} /\ answer[r] \in UUIDs => Sound(r, answer[r])

DeployedIsSound(r) ==
    outcome[r] = "deployed" =>
        /\ doing[r] = "idle" /\ state[r].uuid \in UUIDs
        /\ StatusOf(state[r].uuid) = "finished" /\ state[r].status = "finished" /\ ~state[r].tainted
        /\ Sound(r, state[r].uuid)

HandlerOK(r) ==
    /\ over[r] \subseteq Ended
    /\ Adoptable(r) /\ AnswerIsSound(r) /\ DeployedIsSound(r)

DInv == TypeOK /\ Queue /\ \A r \in Resources : HandlerOK(r)

(***************************************************************************)
(* What a step does to the queue.                                          *)
(***************************************************************************)

\* Commits stay, and so does the status of what has ended.
Frozen ==
    /\ UUIDs \subseteq UUIDs'
    /\ \A d \in UUIDs : deployments'[d].commit = deployments[d].commit
    /\ \A d \in Ended : deployments'[d].status = deployments[d].status

\* The newest deployment is the one it was, or a new one.
Grown == Len(deployments') = Len(deployments) \/ Len(deployments') \notin UUIDs

LEMMA DeploymentsTyped ==
    ASSUME TypeOK
    PROVE  /\ Len(deployments) \in Nat /\ UUIDs = 1 .. Len(deployments)
           /\ \A d \in UUIDs :
                /\ deployments[d] \in [commit : 0 .. MaxCommit, status : Statuses]
                /\ deployments[d].commit \in 0 .. MaxCommit /\ StatusOf(d) \in Statuses
  <1>1. deployments \in Seq([commit : 0 .. MaxCommit, status : Statuses])
    BY DEF TypeOK
  <1>2. Len(deployments) \in Nat /\ UUIDs = 1 .. Len(deployments)
    BY <1>1 DEF UUIDs
  <1>3. \A d \in UUIDs : deployments[d] \in [commit : 0 .. MaxCommit, status : Statuses]
    BY <1>1, <1>2, ElementOfSeq
  <1>4. QED
    BY <1>2, <1>3 DEF StatusOf

\* A deployment is added at the end.
LEMMA QueuedAdds ==
    ASSUME TypeOK, Queue, Queued, UNCHANGED commit
    PROVE  /\ deployments' \in Seq([commit : 0 .. MaxCommit, status : Statuses])
           /\ Queue' /\ Frozen /\ Grown
           /\ Len(deployments') \in UUIDs' /\ Len(deployments') \notin UUIDs
           /\ deployments'[Len(deployments')].commit = commit
  <1>1. [commit |-> commit, status |-> "queued"] \in [commit : 0 .. MaxCommit, status : Statuses]
    BY DEF TypeOK, Statuses
  <1>2. deployments' \in Seq([commit : 0 .. MaxCommit, status : Statuses])
    BY <1>1 DEF TypeOK, Queued
  <1>3. /\ Len(deployments') = Len(deployments) + 1 /\ Len(deployments) \in Nat
        /\ UUIDs = 1 .. Len(deployments) /\ UUIDs' = 1 .. Len(deployments) + 1
        /\ \A d \in UUIDs : deployments'[d] = deployments[d]
        /\ deployments'[Len(deployments')] = [commit |-> commit, status |-> "queued"]
    BY <1>1 DEF TypeOK, Queued, UUIDs
  <1>4. Fifo'
    BY <1>3 DEF Queue, Fifo, InFlight, StatusOf
  <1>5. CommitsGrow'
    <2>1. \A d \in UUIDs : deployments[d].commit \in 0 .. MaxCommit
      BY DeploymentsTyped
    <2>2. commit \in 0 .. MaxCommit
      BY DEF TypeOK
    <2>3. \A d \in UUIDs : deployments'[d].commit = deployments[d].commit /\ deployments[d].commit <= commit
      BY <1>3 DEF Queue, CommitsGrow
    <2>4. \A d \in UUIDs' : d \in UUIDs \/ d = Len(deployments')
      BY <1>3
    <2>5. deployments'[Len(deployments')].commit = commit
      BY <1>3
    <2>6. \A d \in UUIDs' : deployments'[d].commit <= commit'
      BY <2>2, <2>3, <2>4, <2>5
    <2>7. ASSUME NEW d \in UUIDs', NEW e \in UUIDs', d < e
          PROVE  deployments'[d].commit <= deployments'[e].commit
      <3>1. d \in UUIDs
        BY <1>3, <2>4, <2>7
      <3>2. CASE e \in UUIDs
        BY <2>3, <2>7, <3>1, <3>2 DEF Queue, CommitsGrow
      <3>3. CASE e = Len(deployments')
        BY <2>3, <2>5, <3>1, <3>3
      <3>4. QED
        BY <2>4, <3>2, <3>3
    <2>8. QED
      BY <2>6, <2>7 DEF CommitsGrow
  <1>6. QED
    BY <1>2, <1>3, <1>4, <1>5 DEF Queue, Frozen, Grown, Ended, InFlight, StatusOf

\* Nothing but the status of one deployment changes.
LEMMA BecomesChanges ==
    ASSUME TypeOK, NEW d \in UUIDs, NEW status \in Statuses, Becomes(d, status)
    PROVE  /\ deployments' \in Seq([commit : 0 .. MaxCommit, status : Statuses])
           /\ UUIDs' = UUIDs /\ Len(deployments') = Len(deployments)
           /\ \A e \in UUIDs : deployments'[e].commit = deployments[e].commit
           /\ \A e \in UUIDs : e # d => deployments'[e].status = deployments[e].status
           /\ deployments'[d].status = status
  <1>1. d \in 1 .. Len(deployments) /\ Len(deployments) \in Nat
    BY DEF TypeOK, UUIDs
  <1>2. \A e \in UUIDs : deployments[e] \in [commit : 0 .. MaxCommit, status : Statuses]
    BY DeploymentsTyped
  <1>3. [deployments[d] EXCEPT !.status = status] \in [commit : 0 .. MaxCommit, status : Statuses]
    BY <1>2
  <1>4. deployments' = [deployments EXCEPT ![d] = [deployments[d] EXCEPT !.status = status]]
    BY DEF Becomes
  <1>5. deployments' \in Seq([commit : 0 .. MaxCommit, status : Statuses])
    BY <1>1, <1>3, <1>4 DEF TypeOK
  <1>6. UUIDs' = UUIDs /\ Len(deployments') = Len(deployments)
    BY <1>1, <1>3, <1>4 DEF TypeOK, UUIDs
  <1>7. QED
    BY <1>2, <1>4, <1>5, <1>6 DEF UUIDs

\* Running, finishing and cancelling keep the order.
LEMMA RunsInOrder ==
    ASSUME TypeOK, Queue, NEW d \in UUIDs, Run(d) \/ Finish(d) \/ Cancel(d)
    PROVE  /\ deployments' \in Seq([commit : 0 .. MaxCommit, status : Statuses])
           /\ Queue' /\ Frozen /\ Grown
  <1>1. PICK status \in Statuses :
            /\ Becomes(d, status) /\ d \in InFlight
            /\ \/ status = "in_progress" /\ \A e \in InFlight : d <= e
               \/ status \in {"finished", "failed"} /\ StatusOf(d) = "in_progress"
               \/ status = "cancelled"
    BY DEF Run, Finish, Cancel, InFlight, Statuses
  <1>2. /\ deployments' \in Seq([commit : 0 .. MaxCommit, status : Statuses])
        /\ UUIDs' = UUIDs /\ Len(deployments') = Len(deployments)
        /\ \A e \in UUIDs : deployments'[e].commit = deployments[e].commit
        /\ \A e \in UUIDs : e # d => deployments'[e].status = deployments[e].status
        /\ deployments'[d].status = status
    BY <1>1, BecomesChanges
  <1>3. UNCHANGED commit
    BY DEF Run, Finish, Cancel
  <1>4. UUIDs \subseteq Nat
    BY DEF TypeOK, UUIDs
  <1>5. Fifo'
    <2> SUFFICES ASSUME NEW c \in UUIDs, NEW e \in UUIDs, c < e, (c \in InFlight)'
                 PROVE  deployments'[e].status \in {"queued", "cancelled"}
      BY <1>2 DEF Fifo, StatusOf
    <2>1. c \in InFlight
      BY <1>1, <1>2 DEF InFlight, StatusOf
    <2>2. deployments[e].status \in {"queued", "cancelled"}
      BY <2>1 DEF Queue, Fifo, StatusOf
    <2>3. e = d => status = "cancelled"
      BY <1>1, <1>4, <2>1, <2>2 DEF StatusOf
    <2>4. QED
      BY <1>2, <2>2, <2>3
  <1>6. CommitsGrow'
    BY <1>2, <1>3 DEF Queue, CommitsGrow
  <1>7. QED
    BY <1>1, <1>2, <1>5, <1>6 DEF Queue, Frozen, Grown, Ended, InFlight, StatusOf

\* A resource whose handler does nothing does not notice.
LEMMA OthersStep ==
    ASSUME TypeOK, NEW r \in Resources, HandlerOK(r), Frozen, Grown, UUIDs' \subseteq Nat,
           state'[r] = state[r], doing'[r] = doing[r], answer'[r] = answer[r],
           outcome'[r] = outcome[r], asked'[r] = asked[r], over'[r] = over[r]
    PROVE  HandlerOK(r)'
  <1> USE DEF HandlerOK
  <1>1. \A d \in UUIDs : d \in UUIDs' /\ deployments'[d].commit = deployments[d].commit
    BY DEF Frozen
  <1>2. Ended \subseteq Ended' /\ \A d \in Ended : deployments'[d].status = deployments[d].status
    BY DEF Frozen, Ended, InFlight, StatusOf
  <1>3. Ended \subseteq UUIDs /\ \A d \in UUIDs : StatusOf(d) \in {"finished", "failed", "cancelled"} => d \in Ended
    BY DEF Ended, InFlight
  <1>4. \A d \in UUIDs : Sound(r, d) => Sound(r, d)'
    BY <1>1, <1>2, <1>3 DEF Sound, StatusOf
  <1>5. Adoptable(r)'
    BY <1>1, <1>2, <1>3 DEF Adoptable, Grown, StatusOf
  <1>6. AnswerIsSound(r)'
    <2>1. answer[r] \in UUIDs \/ answer[r] \in {NoUUID, Ghost}
      BY DEF TypeOK
    <2>2. QED
      BY <1>1, <1>4, <2>1 DEF AnswerIsSound
  <1>7. DeployedIsSound(r)'
    BY <1>1, <1>2, <1>3, <1>4 DEF DeployedIsSound, StatusOf
  <1>8. QED
    BY <1>2, <1>5, <1>6, <1>7

(***************************************************************************)
(* The types.                                                              *)
(***************************************************************************)
Doings == {"idle", "refreshed", "post", "confirm", "list", "status", "poll"}
Outcomes == {"none", "ok", "deployed", "failed"}

\* What the helpers of the handlers do to their variables.
LEMMA ReturnsTyped ==
    ASSUME TypeOK, NEW r \in Resources, NEW result \in Outcomes, Returns(r, result), UUIDs \subseteq UUIDs'
    PROVE  /\ doing' \in [Resources -> Doings] /\ outcome' \in [Resources -> Outcomes]
           /\ answer' \in [Resources -> UUIDs' \cup {NoUUID, Ghost}] /\ expired' \in [Resources -> BOOLEAN]
           /\ asked' \in [Resources -> 0 .. MaxCommit] /\ over' \in [Resources -> SUBSET (UUIDs')]
  <1>1. 0 \in 0 .. MaxCommit
    OBVIOUS
  <1>2. /\ doing' \in [Resources -> Doings] /\ outcome' \in [Resources -> Outcomes]
        /\ answer' \in [Resources -> UUIDs' \cup {NoUUID, Ghost}] /\ expired' \in [Resources -> BOOLEAN]
    BY DEF TypeOK, Returns, Goes, Doings, Outcomes
  <1>3. asked' \in [Resources -> 0 .. MaxCommit] /\ over' \in [Resources -> SUBSET (UUIDs')]
    BY <1>1 DEF TypeOK, Returns, Forgets, history
  <1>4. QED
    BY <1>2, <1>3

\* Create's steps keep the types.
LEMMA CreateTyped == ASSUME DInv, NEW r \in Resources, Create(r) PROVE TypeOK'
  <1> USE DEF DInv, TypeOK, server, config, history
  <1>f. ASSUME Answered(r) \/ Fails(r) PROVE faults' \in 0 .. MaxFaults
    BY <1>f DEF Answered, Fails
  <1>1. CASE Post(r)
    <2>1. faults' \in 0 .. MaxFaults
      BY <1>1, <1>f DEF Post
    <2>2. /\ deployments' \in Seq([commit : 0 .. MaxCommit, status : Statuses])
          /\ UUIDs \subseteq UUIDs' /\ answer' \in [Resources -> UUIDs' \cup {NoUUID, Ghost}]
      <3>1. CASE ~SameInFlight /\ Queued /\ answer' = [answer EXCEPT ![r] = Len(deployments')]
        BY <1>1, <3>1, QueuedAdds DEF Post, Frozen
      <3>2. CASE SameInFlight /\ UNCHANGED deployments
        BY <1>1, <3>2 DEF Post, UUIDs
      <3>3. QED
        BY <1>1, <3>1, <3>2 DEF Post
    <2>3. Ended \subseteq UUIDs
      BY DEF Ended
    <2>4. asked' \in [Resources -> 0 .. MaxCommit] /\ over' \in [Resources -> SUBSET (UUIDs')]
      BY <1>1, <2>2, <2>3 DEF Post
    <2>5. doing' \in [Resources -> Doings]
      BY <1>1 DEF Post, Goes, Doings
    <2>6. QED
      BY <1>1, <2>1, <2>2, <2>4, <2>5 DEF Post, Doings
  <1>2. CASE PostFails(r)
    <2>1. faults' \in 0 .. MaxFaults
      BY <1>2, <1>f DEF PostFails
    <2>2. /\ deployments' \in Seq([commit : 0 .. MaxCommit, status : Statuses]) /\ UUIDs \subseteq UUIDs'
      BY <1>2, QueuedAdds DEF PostFails, Frozen, UUIDs
    <2>3. QED
      BY <1>2, <2>1, <2>2, ReturnsTyped DEF PostFails, Doings, Outcomes
  <1>3. CASE Confirm(r)
    BY <1>3 DEF Confirm, Answered, Goes, UUIDs
  <1>4. CASE ConfirmFails(r)
    BY <1>4, <1>f DEF ConfirmFails, Goes, UUIDs
  <1>5. ASSUME NEW uuid \in UUIDs \cup {NoUUID, Ghost}, Resolved(r, uuid), faults' \in 0 .. MaxFaults,
               UNCHANGED <<server, config, state>>
        PROVE  TypeOK'
    <2>1. CASE uuid = NoUUID
      BY <1>5, <2>1, ReturnsTyped DEF Resolved, Doings, Outcomes, UUIDs
    <2>2. CASE uuid # NoUUID
      BY <1>5, <2>2 DEF Resolved, Goes, UUIDs
    <2>3. QED
      BY <2>1, <2>2
  <1>6. CASE List(r)
    <2>1. pickDeploymentUUID \subseteq UUIDs
      BY DEF pickDeploymentUUID, Newest, InFlight
    <2>2. answer[r] \in UUIDs \cup {NoUUID, Ghost}
      OBVIOUS
    <2>3. QED
      BY <1>6, <1>5, <1>f, <2>1, <2>2 DEF List
  <1>7. CASE ListFails(r)
    BY <1>7, <1>5, <1>f DEF ListFails
  <1>8. ASSUME NEW status \in Statuses, answer[r] \in UUIDs \cup {NoUUID, Ghost}, faults' \in 0 .. MaxFaults,
               Saves(r, Tracked(answer[r], status, FALSE)), Saved(r), UNCHANGED <<server, config>>
        PROVE  TypeOK'
    <2>1. UUIDs' = UUIDs
      BY <1>8 DEF UUIDs
    <2>2. state' \in [Resources -> [uuid : UUIDs' \cup {NoUUID, Ghost}, status : Statuses, tainted : BOOLEAN]]
      BY <1>8, <2>1 DEF Saves, Tracked
    <2>3. CASE waits[r]
      BY <1>8, <2>1, <2>2, <2>3 DEF Saved, Goes
    <2>4. CASE ~waits[r]
      BY <1>8, <2>1, <2>2, <2>4, ReturnsTyped DEF Saved, Doings, Outcomes
    <2>5. QED
      BY <2>3, <2>4
  <1>9. CASE Status(r)
    BY <1>9, <1>8, <1>f, DeploymentsTyped DEF Status
  <1>10. CASE StatusFails(r)
    BY <1>10, <1>8, <1>f DEF StatusFails, DefaultStatus, Statuses
  <1>11. CASE PollOn(r)
    <2>1. StatusOf(answer[r]) \in Statuses
      BY <1>11, DeploymentsTyped DEF PollOn
    <2>2. QED
      BY <1>11, <2>1 DEF PollOn, Answered, Saves, Tracked, UUIDs
  <1>12. CASE PollEnds(r)
    <2>1. StatusOf(answer[r]) \in Statuses
      BY <1>12, DeploymentsTyped DEF PollEnds
    <2>2. state' \in [Resources -> [uuid : UUIDs' \cup {NoUUID, Ghost}, status : Statuses, tainted : BOOLEAN]]
      BY <1>12, <2>1 DEF PollEnds, Saves, Tracked, UUIDs
    <2>3. PICK result \in Outcomes : Returns(r, result)
      BY <1>12 DEF PollEnds, Outcomes
    <2>4. QED
      BY <1>12, <2>2, <2>3, ReturnsTyped DEF PollEnds, Answered, Doings, Outcomes, UUIDs
  <1>13. CASE PollFails(r)
    <2>1. state' \in [Resources -> [uuid : UUIDs' \cup {NoUUID, Ghost}, status : Statuses, tainted : BOOLEAN]]
      <3>1. state[r] \in [uuid : UUIDs \cup {NoUUID, Ghost}, status : Statuses, tainted : BOOLEAN]
        OBVIOUS
      <3>2. Tainted(r) \in [uuid : UUIDs \cup {NoUUID, Ghost}, status : Statuses, tainted : BOOLEAN]
        BY <3>1 DEF Tainted
      <3>3. UUIDs' = UUIDs
        BY <1>13 DEF PollFails, UUIDs
      <3>4. QED
        BY <1>13, <3>2, <3>3 DEF PollFails, Saves
    <2>2. QED
      BY <1>13, <1>f, <2>1, ReturnsTyped DEF PollFails, Doings, Outcomes, UUIDs
  <1>14. QED
    BY <1>1, <1>2, <1>3, <1>4, <1>6, <1>7, <1>9, <1>10, <1>11, <1>12, <1>13 DEF Create

LEMMA SwitchTyped ==
    ASSUME NEW f \in [Resources -> BOOLEAN], NEW r \in Resources
    PROVE  [f EXCEPT ![r] = ~f[r]] \in [Resources -> BOOLEAN]
  <1>1. ASSUME NEW b \in BOOLEAN PROVE (~b) \in BOOLEAN
    BY SMT
  <1>2. f[r] \in BOOLEAN
    OBVIOUS
  <1>3. QED
    BY <1>1, <1>2

\* So do the steps of Terraform core, of the other handlers and of Coolify.
LEMMA RestTyped ==
    ASSUME DInv, NEW r \in Resources,
           \/ Expire(r) \/ Apply(r) \/ Read(r) \/ ReadFails(r) \/ Replace(r) \/ Update(r)
           \/ Delete(r) \/ Import(r) \/ Edit(r)
    PROVE  TypeOK' /\ UNCHANGED server
  <1> USE DEF DInv, TypeOK, server, config, history, handler
  <1>1. Absent \in [uuid : UUIDs \cup {NoUUID, Ghost}, status : Statuses, tainted : BOOLEAN]
    BY DEF Absent, Statuses
  <1>2. 0 \in 0 .. MaxCommit
    OBVIOUS
  <1>3. UNCHANGED server => UUIDs' = UUIDs
    BY DEF UUIDs
  <1>4. CASE Expire(r)
    BY <1>3, <1>4 DEF Expire
  <1>5. CASE Apply(r)
    BY <1>2, <1>3, <1>5 DEF Apply, Calls, Goes, Forgets
  <1>6. CASE Read(r)
    <2>1. state' \in [Resources -> [uuid : UUIDs \cup {NoUUID, Ghost}, status : Statuses, tainted : BOOLEAN]]
      BY <1>1, <1>6, DeploymentsTyped DEF Read, Saves, Tracked
    <2>2. QED
      BY <1>2, <1>3, <1>6, <2>1 DEF Read, Refreshed, Goes, Forgets
  <1>7. CASE ReadFails(r)
    BY <1>3, <1>7, ReturnsTyped DEF ReadFails, Doings, Outcomes
  <1>8. CASE Replace(r)
    BY <1>1, <1>2, <1>3, <1>8 DEF Replace, Saves, Calls, Goes, Forgets
  <1>9. CASE Update(r)
    BY <1>3, <1>9, ReturnsTyped DEF Update, Doings, Outcomes
  <1>10. CASE Delete(r)
    <2>1. state' \in [Resources -> [uuid : UUIDs \cup {NoUUID, Ghost}, status : Statuses, tainted : BOOLEAN]]
      BY <1>1, <1>10 DEF Delete, Saves
    <2>2. QED
      BY <1>3, <1>10, <2>1, ReturnsTyped DEF Delete, Doings, Outcomes
  <1>11. CASE Import(r)
    <2>1. state' \in [Resources -> [uuid : UUIDs \cup {NoUUID, Ghost}, status : Statuses, tainted : BOOLEAN]]
      BY <1>11, DeploymentsTyped DEF Import, Saves, Tracked
    <2>2. QED
      BY <1>2, <1>3, <1>11, <2>1 DEF Import, Refreshed, Goes, Forgets
  <1>12. CASE Edit(r)
    <2>1. waits' \in [Resources -> BOOLEAN] /\ triggered' \in [Resources -> BOOLEAN] /\ edits' \in 0 .. MaxEdits
      <3>1. edits' \in 0 .. MaxEdits
        BY <1>12 DEF Edit
      <3>3. CASE triggered' = [triggered EXCEPT ![r] = TRUE] /\ UNCHANGED waits
        BY <3>1, <3>3
      <3>4. CASE waits' = [waits EXCEPT ![r] = ~waits[r]] /\ UNCHANGED triggered
        BY <3>1, <3>4, SwitchTyped
      <3>5. QED
        BY <1>12, <3>3, <3>4 DEF Edit
    <2>2. Returns(r, "none") /\ UNCHANGED <<server, state, faults>>
      BY <1>12 DEF Edit
    <2>3. "none" \in Outcomes
      BY DEF Outcomes
    <2>4. QED
      BY <1>3, <2>1, <2>2, <2>3, ReturnsTyped DEF Doings, Outcomes
  <1>13. QED
    BY <1>4, <1>5, <1>6, <1>7, <1>8, <1>9, <1>10, <1>11, <1>12

LEMMA ServerTyped ==
    ASSUME DInv, Push \/ OutsideDeploy \/ (\E d \in UUIDs : Run(d) \/ Finish(d) \/ Cancel(d))
    PROVE  TypeOK' /\ Queue' /\ Frozen /\ Grown
  <1> USE DEF DInv, TypeOK, server, config, history, handler
  <1>1. CASE Push
    <2>1. UUIDs' = UUIDs /\ commit' \in 0 .. MaxCommit /\ commit <= commit'
      BY <1>1 DEF Push, UUIDs
    <2>2. Fifo'
      BY <1>1, <2>1 DEF Push, Queue, Fifo, InFlight, StatusOf
    <2>3. \A d \in UUIDs : deployments[d].commit \in 0 .. MaxCommit
      BY DeploymentsTyped
    <2>4. CommitsGrow'
      BY <1>1, <2>1, <2>3 DEF Push, Queue, CommitsGrow
    <2>5. QED
      BY <1>1, <2>1, <2>2, <2>4 DEF Push, Queue, Frozen, Grown
  <1>2. CASE OutsideDeploy
    <2>1. UUIDs \subseteq UUIDs'
      BY <1>2, QueuedAdds DEF OutsideDeploy, Frozen
    <2>2. QED
      BY <1>2, <2>1, QueuedAdds DEF OutsideDeploy
  <1>3. ASSUME NEW d \in UUIDs, Run(d) \/ Finish(d) \/ Cancel(d) PROVE TypeOK' /\ Queue' /\ Frozen /\ Grown
    <2>1. UUIDs \subseteq UUIDs'
      BY <1>3, RunsInOrder DEF Frozen
    <2>2. UNCHANGED <<commit, config, handler, history, faults>>
      BY <1>3 DEF Run, Finish, Cancel
    <2>3. QED
      BY <1>3, <2>1, <2>2, RunsInOrder
  <1>4. QED
    BY <1>1, <1>2, <1>3

(***************************************************************************)
(* The invariant.                                                          *)
(***************************************************************************)
Operation(r) ==
    \/ Create(r) \/ Replace(r) \/ Update(r) \/ Expire(r) \/ Apply(r) \/ Read(r) \/ ReadFails(r)
    \/ Delete(r) \/ Import(r) \/ Edit(r)

\* A handler is alone with the variables of its resource.
LEMMA HandlersAreApart ==
    ASSUME TypeOK, NEW r \in Resources, Operation(r), NEW q \in Resources, q # r
    PROVE  /\ state'[q] = state[q] /\ doing'[q] = doing[q] /\ answer'[q] = answer[q]
           /\ outcome'[q] = outcome[q] /\ asked'[q] = asked[q] /\ over'[q] = over[q]
           /\ expired'[q] = expired[q]
  <1> USE DEF TypeOK, config, history, Saves, Goes, Forgets, Returns
  <1>1. CASE Post(r)
    BY <1>1 DEF Post
  <1>2. CASE PostFails(r)
    BY <1>2 DEF PostFails
  <1>3. CASE Confirm(r)
    BY <1>3 DEF Confirm
  <1>4. CASE ConfirmFails(r)
    BY <1>4 DEF ConfirmFails
  <1>5. CASE List(r)
    BY <1>5 DEF List, Resolved
  <1>6. CASE ListFails(r)
    BY <1>6 DEF ListFails, Resolved
  <1>7. CASE Status(r)
    BY <1>7 DEF Status, Saved
  <1>8. CASE StatusFails(r)
    BY <1>8 DEF StatusFails, Saved
  <1>9. CASE PollOn(r)
    BY <1>9 DEF PollOn
  <1>10. CASE PollEnds(r)
    BY <1>10 DEF PollEnds
  <1>11. CASE PollFails(r)
    BY <1>11 DEF PollFails
  <1>12. CASE Expire(r)
    BY <1>12 DEF Expire
  <1>13. CASE Apply(r)
    BY <1>13 DEF Apply, Calls
  <1>14. CASE Read(r)
    BY <1>14 DEF Read, Refreshed
  <1>15. CASE ReadFails(r)
    BY <1>15 DEF ReadFails
  <1>16. CASE Replace(r)
    BY <1>16 DEF Replace, Calls
  <1>17. CASE Update(r)
    BY <1>17 DEF Update
  <1>18. CASE Delete(r)
    BY <1>18 DEF Delete
  <1>19. CASE Import(r)
    BY <1>19 DEF Import, Refreshed
  <1>20. CASE Edit(r)
    BY <1>20 DEF Edit
  <1>21. QED
    BY <1>1, <1>2, <1>3, <1>4, <1>5, <1>6, <1>7, <1>8, <1>9, <1>10, <1>11, <1>12, <1>13, <1>14, <1>15, <1>16, <1>17, <1>18, <1>19, <1>20 DEF Operation, Create

\* A handler that runs nothing and has not deployed has nothing to keep.
LEMMA IdleIsOK ==
    ASSUME NEW r \in Resources, over'[r] = {}, outcome'[r] # "deployed",
           doing'[r] \in {"idle", "refreshed", "post"}
    PROVE  HandlerOK(r)'
  BY DEF HandlerOK, Adoptable, AnswerIsSound, DeployedIsSound

LEMMA ReturnIsOK ==
    ASSUME TypeOK, NEW r \in Resources, NEW result \in Outcomes \ {"deployed"}, Returns(r, result)
    PROVE  HandlerOK(r)'
  <1>1. over'[r] = {} /\ outcome'[r] = result /\ doing'[r] = "idle"
    BY DEF TypeOK, Returns, Forgets, Goes, Outcomes
  <1>2. QED
    BY <1>1, IdleIsOK

\* What is adopted is sound.
LEMMA PickedIsSound ==
    ASSUME DInv, NEW r \in Resources, doing[r] = "list", NEW p \in pickDeploymentUUID
    PROVE  p \in UUIDs /\ Sound(r, p)
  <1> USE DEF DInv
  <1>1. Len(deployments) \in Nat /\ UUIDs = 1 .. Len(deployments)
    BY DeploymentsTyped
  <1>2. \A d \in UUIDs : deployments[d].commit \in 0 .. MaxCommit
    BY DeploymentsTyped
  <1>3. asked[r] \in 0 .. MaxCommit
    BY DEF TypeOK
  <1>4. PICK d \in UUIDs : deployments[d].commit >= asked[r]
    BY DEF HandlerOK, Adoptable
  <1>5. CASE InFlight # {}
    <2>1. p \in InFlight /\ \A e \in InFlight : e <= p
      BY <1>5 DEF pickDeploymentUUID, Newest
    <2>2. p \in UUIDs /\ p \notin over[r]
      BY <2>1 DEF InFlight, Ended, HandlerOK
    <2>3. CASE d <= p
      <3>1. deployments[d].commit <= deployments[p].commit
        BY <1>1, <1>2, <1>4, <2>2, <2>3 DEF Queue, CommitsGrow
      <3>2. QED
        BY <1>2, <1>3, <1>4, <2>2, <3>1 DEF Sound
    <2>4. CASE p < d
      <3>1. StatusOf(d) = "cancelled"
        BY <1>1, <1>4, <2>1, <2>2, <2>4 DEF Queue, Fifo, InFlight
      <3>2. QED
        BY <1>4, <2>2, <3>1 DEF Sound
    <2>5. QED
      BY <1>1, <1>4, <2>2, <2>3, <2>4
  <1>6. CASE InFlight = {}
    <2>1. p = Len(deployments)
      BY <1>1, <1>4, <1>6 DEF pickDeploymentUUID, Newest
    <2>2. p \in UUIDs
      BY <1>6 DEF pickDeploymentUUID, Newest
    <2>3. deployments[d].commit <= deployments[p].commit
      BY <1>1, <1>2, <1>4, <2>1, <2>2 DEF Queue, CommitsGrow
    <2>4. p \in over[r] => StatusOf(p) # "finished"
      BY <2>1 DEF HandlerOK, Adoptable
    <2>5. QED
      BY <1>2, <1>3, <1>4, <2>2, <2>3, <2>4 DEF Sound
  <1>7. QED
    BY <1>5, <1>6

\* A step of Create that leaves the deployments alone keeps what is sound.
LEMMA SoundStays ==
    ASSUME NEW r \in Resources, UNCHANGED deployments, asked'[r] = asked[r], over'[r] = over[r],
           NEW d \in UUIDs, Sound(r, d)
    PROVE  Sound(r, d)'
  BY DEF Sound, UUIDs, StatusOf

LEMMA PostStep ==
    ASSUME DInv, NEW r \in Resources, Post(r)
    PROVE  Queue' /\ Frozen /\ Grown /\ HandlerOK(r)'
  <1> USE DEF DInv
  <1>1. /\ asked'[r] = commit /\ over'[r] = Ended /\ outcome'[r] = outcome[r] /\ outcome[r] # "deployed"
        /\ commit' = commit /\ commit \in 0 .. MaxCommit
    BY DEF Post, TypeOK, HandlerOK, DeployedIsSound
  <1>2. Len(deployments) \in Nat /\ UUIDs = 1 .. Len(deployments)
    BY DeploymentsTyped
  <1>3. DeployedIsSound(r)'
    BY <1>1 DEF DeployedIsSound
  <1>4. CASE ~SameInFlight /\ Queued /\ answer' = [answer EXCEPT ![r] = Len(deployments')]
    <2>1. /\ Queue' /\ Frozen /\ Grown
          /\ Len(deployments') \in UUIDs' /\ Len(deployments') \notin UUIDs
          /\ deployments'[Len(deployments')].commit = commit
      BY <1>1, <1>4, QueuedAdds
    <2>2. answer'[r] = Len(deployments')
      BY <1>4 DEF TypeOK
    <2>3. Ended \subseteq Ended'
      BY <2>1 DEF Frozen, Ended, InFlight, StatusOf
    <2>4. Len(deployments') \notin over'[r] /\ deployments'[Len(deployments')].commit >= asked'[r]
      BY <1>1, <2>1 DEF Ended
    <2>5. HandlerOK(r)'
      BY <1>1, <1>3, <2>1, <2>2, <2>3, <2>4 DEF HandlerOK, Adoptable, AnswerIsSound, Sound
    <2>6. QED
      BY <2>1, <2>5
  <1>5. CASE SameInFlight /\ UNCHANGED deployments
              /\ \E uuid \in {NoUUID, Ghost} : answer' = [answer EXCEPT ![r] = uuid]
    <2>1. answer'[r] \in {NoUUID, Ghost}
      BY <1>5 DEF TypeOK
    <2>2. UUIDs' = UUIDs /\ Ended' = Ended
      BY <1>5 DEF UUIDs, Ended, InFlight, StatusOf
    <2>3. AnswerIsSound(r)'
      BY <1>2, <2>1, <2>2 DEF AnswerIsSound
    <2>4. PICK d \in InFlight : deployments[d].commit = commit
      BY <1>5 DEF SameInFlight
    <2>5. d \in UUIDs /\ deployments'[d].commit >= asked'[r]
      BY <1>1, <1>5, <2>4 DEF InFlight
    <2>6. Len(deployments) \in Ended => StatusOf(Len(deployments)) # "finished"
      BY <1>2, <2>4, <2>5 DEF Queue, Fifo, Ended
    <2>7. Adoptable(r)'
      BY <1>1, <1>5, <2>2, <2>5, <2>6 DEF Adoptable, StatusOf
    <2>8. Queue' /\ Frozen /\ Grown
      BY <1>1, <1>5, <2>2 DEF Queue, Fifo, CommitsGrow, Frozen, Grown, InFlight, StatusOf, UUIDs
    <2>9. QED
      BY <1>1, <1>3, <2>2, <2>3, <2>7, <2>8 DEF HandlerOK
  <1>6. QED
    BY <1>4, <1>5 DEF Post

Finding == {"confirm", "list"}
Known == {"confirm", "list", "status", "poll"}

\* Create goes on with a deployment it knows.
LEMMA GoesOn ==
    ASSUME DInv, NEW r \in Resources, UNCHANGED deployments,
           doing[r] \in Known, doing'[r] \in Known, doing'[r] \in Finding => doing[r] \in Finding,
           answer'[r] = answer[r] \/ (answer'[r] \in UUIDs /\ Sound(r, answer'[r])),
           outcome'[r] = outcome[r], asked'[r] = asked[r], over'[r] = over[r]
    PROVE  HandlerOK(r)'
  <1> USE DEF DInv, Known, Finding
  <1>1. UUIDs' = UUIDs /\ Ended' = Ended /\ \A d \in UUIDs : StatusOf(d)' = StatusOf(d)
    BY DEF UUIDs, Ended, InFlight, StatusOf
  <1>2. outcome'[r] # "deployed"
    BY DEF HandlerOK, DeployedIsSound
  <1>3. over'[r] \subseteq Ended'
    BY <1>1 DEF HandlerOK
  <1>4. Adoptable(r)'
    BY <1>1 DEF HandlerOK, Adoptable, StatusOf
  <1>5. AnswerIsSound(r)'
    <2> SUFFICES ASSUME NEW d \in UUIDs, answer'[r] = d PROVE Sound(r, d)'
      BY <1>1 DEF AnswerIsSound, Sound, StatusOf
    <2>1. Sound(r, d)
      BY DEF HandlerOK, AnswerIsSound
    <2>2. QED
      BY <2>1, SoundStays
  <1>6. QED
    BY <1>2, <1>3, <1>4, <1>5 DEF HandlerOK, DeployedIsSound

LEMMA CreateStep ==
    ASSUME DInv, NEW r \in Resources, Create(r)
    PROVE  Queue' /\ Frozen /\ Grown /\ HandlerOK(r)'
  <1> USE DEF DInv, Known, Finding
  <1>1. ASSUME UNCHANGED server PROVE Queue' /\ Frozen /\ Grown
    BY <1>1 DEF server, Queue, Fifo, CommitsGrow, Frozen, Grown, InFlight, StatusOf, UUIDs
  <1>2. CASE Post(r)
    BY <1>2, PostStep
  <1>3. CASE PostFails(r)
    <2>1. HandlerOK(r)'
      BY <1>3, ReturnIsOK DEF PostFails, Outcomes
    <2>2. QED
      BY <1>1, <1>3, <2>1, QueuedAdds DEF PostFails, server
  <1>4. CASE Confirm(r) \/ ConfirmFails(r)
    <2>1. doing[r] = "confirm" /\ doing'[r] \in {"list", "status"}
      BY <1>4 DEF Confirm, ConfirmFails, Goes, TypeOK
    <2>2. UNCHANGED <<server, answer, outcome, history>>
      BY <1>4 DEF Confirm, ConfirmFails
    <2>3. HandlerOK(r)'
      BY <2>1, <2>2, GoesOn DEF server, history
    <2>4. QED
      BY <1>1, <2>2, <2>3
  <1>5. ASSUME doing[r] = "list", UNCHANGED server, NEW uuid, Resolved(r, uuid),
               uuid = answer[r] \/ (uuid \in UUIDs /\ Sound(r, uuid))
        PROVE  HandlerOK(r)'
    <2>1. CASE uuid = NoUUID
      BY <1>5, <2>1, ReturnIsOK DEF Resolved, Outcomes
    <2>2. CASE uuid # NoUUID
      <3>1. doing'[r] = "status" /\ answer'[r] = uuid /\ UNCHANGED <<outcome, history>>
        BY <1>5, <2>2 DEF Resolved, Goes, TypeOK
      <3>2. QED
        BY <1>5, <3>1, GoesOn DEF server, history
    <2>3. QED
      BY <2>1, <2>2
  <1>6. CASE List(r)
    <2>1. doing[r] = "list" /\ UNCHANGED server
      BY <1>6 DEF List
    <2>2. HandlerOK(r)'
      <3>1. CASE UUIDs = {}
        BY <1>5, <1>6, <2>1, <3>1 DEF List
      <3>2. CASE UUIDs # {}
        <4>1. PICK d \in pickDeploymentUUID : Resolved(r, d)
          BY <1>6, <3>2 DEF List
        <4>2. d \in UUIDs /\ Sound(r, d)
          BY <2>1, PickedIsSound
        <4>3. QED
          BY <1>5, <2>1, <4>1, <4>2
      <3>3. QED
        BY <3>1, <3>2
    <2>3. QED
      BY <1>1, <2>1, <2>2
  <1>7. CASE ListFails(r)
    <2>1. doing[r] = "list" /\ UNCHANGED server /\ Resolved(r, answer[r])
      BY <1>7 DEF ListFails
    <2>2. QED
      BY <1>1, <1>5, <2>1
  <1>8. CASE Status(r) \/ StatusFails(r)
    <2>1. doing[r] = "status" /\ UNCHANGED server /\ Saved(r)
      BY <1>8 DEF Status, StatusFails
    <2>2. CASE waits[r]
      <3>1. doing'[r] = "poll" /\ UNCHANGED <<answer, outcome, history>>
        BY <2>1, <2>2 DEF Saved, Goes, TypeOK
      <3>2. QED
        BY <1>1, <2>1, <3>1, GoesOn DEF server, history
    <2>3. CASE ~waits[r]
      BY <1>1, <2>1, <2>3, ReturnIsOK DEF Saved, Outcomes
    <2>4. QED
      BY <2>2, <2>3
  <1>9. CASE PollOn(r)
    <2>1. doing[r] = "poll" /\ UNCHANGED <<server, doing, answer, outcome, history>>
      BY <1>9 DEF PollOn
    <2>2. QED
      BY <1>1, <2>1, GoesOn DEF server, history
  <1>10. CASE PollEnds(r)
    <2>1. /\ UNCHANGED server /\ doing[r] = "poll" /\ answer[r] \in UUIDs
          /\ StatusOf(answer[r]) \in {"finished", "failed"}
      BY <1>10 DEF PollEnds, Over
    <2>2. CASE StatusOf(answer[r]) = "failed"
      BY <1>1, <1>10, <2>1, <2>2, ReturnIsOK DEF PollEnds, Outcomes
    <2>3. CASE StatusOf(answer[r]) = "finished"
      <3>1. state'[r] = Tracked(answer[r], "finished", FALSE)
        BY <1>10, <2>3 DEF PollEnds, Saves, TypeOK
      <3>2. /\ state'[r].uuid = answer[r] /\ state'[r].status = "finished" /\ ~state'[r].tainted
            /\ doing'[r] = "idle" /\ asked'[r] = asked[r] /\ over'[r] = over[r]
        BY <1>10, <2>3, <3>1 DEF PollEnds, Tracked, Returns, Goes, history, TypeOK
      <3>. PICK d \in UUIDs : answer[r] = d
        BY <2>1
      <3>3. Sound(r, d)
        BY <2>1 DEF HandlerOK, AnswerIsSound
      <3>4. Sound(r, d)' /\ UUIDs' = UUIDs /\ Ended' = Ended
        BY <2>1, <3>2, <3>3, SoundStays DEF server, UUIDs, Ended, InFlight, StatusOf
      <3>5. Sound(r, state[r].uuid)'
        BY <3>2, <3>4 DEF Sound, StatusOf
      <3>6. DeployedIsSound(r)'
        BY <2>1, <2>3, <3>2, <3>4, <3>5 DEF DeployedIsSound, server, StatusOf
      <3>7. QED
        BY <1>1, <2>1, <3>2, <3>4, <3>6 DEF HandlerOK, Adoptable, AnswerIsSound
    <2>4. QED
      BY <2>1, <2>2, <2>3
  <1>11. CASE PollFails(r)
    BY <1>1, <1>11, ReturnIsOK DEF PollFails, Outcomes
  <1>12. QED
    BY <1>2, <1>3, <1>4, <1>6, <1>7, <1>8, <1>9, <1>10, <1>11 DEF Create

\* The other handlers leave nothing behind.
LEMMA OtherStep ==
    ASSUME DInv, NEW r \in Resources, Operation(r), ~Create(r), ~Expire(r)
    PROVE  HandlerOK(r)'
  <1> USE DEF DInv
  <1>1. CASE ReadFails(r) \/ Update(r) \/ Delete(r) \/ Edit(r)
    BY <1>1, ReturnIsOK DEF ReadFails, Update, Delete, Edit, Outcomes
  <1>2. CASE Apply(r) \/ Replace(r)
    <2>1. over'[r] = {} /\ outcome'[r] = "none" /\ doing'[r] = "post"
      BY <1>2 DEF Apply, Replace, Calls, Goes, Forgets, TypeOK
    <2>2. QED
      BY <2>1, IdleIsOK
  <1>3. CASE Read(r) \/ Import(r)
    <2>1. over'[r] = {} /\ outcome'[r] = "none" /\ doing'[r] = "refreshed"
      BY <1>3 DEF Read, Import, Refreshed, Goes, Forgets, TypeOK
    <2>2. QED
      BY <2>1, IdleIsOK
  <1>4. QED
    BY <1>1, <1>2, <1>3 DEF Operation

LEMMA InitDInv == Init => DInv
  <1> SUFFICES ASSUME Init PROVE DInv
    OBVIOUS
  <1>1. UUIDs = {} /\ Len(deployments) = 0 /\ deployments \in Seq([commit : 0 .. MaxCommit, status : Statuses])
    BY DEF Init, UUIDs
  <1>2. TypeOK
    BY <1>1 DEF Init, TypeOK, Absent, Statuses
  <1>3. \A r \in Resources : HandlerOK(r)
    BY <1>1 DEF Init, HandlerOK, Adoptable, AnswerIsSound, DeployedIsSound
  <1>4. QED
    BY <1>1, <1>2, <1>3 DEF DInv, Queue, Fifo, CommitsGrow

LEMMA StepDInv == DInv /\ [Next]_vars => DInv'
  <1> SUFFICES ASSUME DInv, [Next]_vars PROVE DInv'
    OBVIOUS
  <1>1. ASSUME TypeOK', Frozen, Grown, NEW q \in Resources,
               state'[q] = state[q], doing'[q] = doing[q], answer'[q] = answer[q],
               outcome'[q] = outcome[q], asked'[q] = asked[q], over'[q] = over[q]
        PROVE  HandlerOK(q)'
    <2>1. UUIDs' \subseteq Nat
      BY <1>1 DEF TypeOK, UUIDs
    <2>2. QED
      BY <1>1, <2>1, OthersStep DEF DInv
  <1>2. ASSUME UNCHANGED server PROVE Queue' /\ Frozen /\ Grown
    BY <1>2 DEF DInv, server, Queue, Fifo, CommitsGrow, Frozen, Grown, InFlight, StatusOf, UUIDs
  <1>3. ASSUME NEW r \in Resources, Operation(r) PROVE DInv'
    <2>1. TypeOK' /\ Queue' /\ Frozen /\ Grown
      <3>1. CASE Create(r)
        BY <3>1, CreateTyped, CreateStep
      <3>2. CASE ~Create(r)
        BY <1>2, <1>3, <3>2, RestTyped DEF Operation
      <3>3. QED
        BY <3>1, <3>2
    <2>2. ASSUME NEW q \in Resources, q # r PROVE HandlerOK(q)'
      BY <1>1, <1>3, <2>1, <2>2, HandlersAreApart DEF DInv
    <2>3. HandlerOK(r)'
      <3>1. CASE Create(r)
        BY <3>1, CreateStep
      <3>2. CASE Expire(r)
        BY <1>1, <2>1, <3>2 DEF Expire, history
      <3>3. QED
        BY <1>3, <3>1, <3>2, OtherStep
    <2>4. QED
      BY <2>1, <2>2, <2>3 DEF DInv
  <1>4. CASE Push \/ OutsideDeploy \/ (\E d \in UUIDs : Run(d) \/ Finish(d) \/ Cancel(d))
    <2>1. TypeOK' /\ Queue' /\ Frozen /\ Grown
      BY <1>4, ServerTyped
    <2>2. UNCHANGED <<handler, history>>
      BY <1>4 DEF Push, OutsideDeploy, Run, Finish, Cancel
    <2>3. \A q \in Resources : HandlerOK(q)'
      BY <1>1, <2>1, <2>2 DEF handler, history
    <2>4. QED
      BY <2>1, <2>3 DEF DInv
  <1>5. CASE UNCHANGED vars
    <2>1. UNCHANGED <<server, config, handler, history, faults>>
      BY <1>5 DEF vars
    <2>2. TypeOK'
      BY <2>1 DEF DInv, TypeOK, server, config, handler, history, UUIDs, Statuses
    <2>3. \A q \in Resources : HandlerOK(q)'
      BY <1>1, <1>2, <2>1, <2>2 DEF handler, history
    <2>4. QED
      BY <1>2, <2>1, <2>2, <2>3 DEF DInv
  <1>6. QED
    BY <1>3, <1>4, <1>5 DEF Next, Handler, Operation

LEMMA DInvHolds == Spec => []DInv
  BY InitDInv, StepDInv, PTL DEF Spec

(***************************************************************************)
(* The theorems.                                                           *)
(***************************************************************************)

\* The variables of Terraform's and Coolify's side stay well typed, and a
\* resource tracks a deployment that exists or a UUID that never did.
THEOREM TypeCorrect == Spec => []TypeOK
  <1>1. DInv => TypeOK
    BY DEF DInv
  <1>2. QED
    BY <1>1, DInvHolds, PTL

\* A Create that waited and succeeded tracks a finished deployment.
THEOREM DeployedHasFinished == Spec => []DeployedIsFinished
  <1>1. DInv => DeployedIsFinished
    BY DEF DInv, HandlerOK, DeployedIsSound, DeployedIsFinished
  <1>2. QED
    BY <1>1, DInvHolds, PTL

\* resolveDeploymentUUID never adopts an old success, because deployments
\* run in their order.
THEOREM NoOldSuccess == Spec => []SuccessIsNotOld
  <1>1. DInv => SuccessIsNotOld
    BY DEF DInv, HandlerOK, DeployedIsSound, Sound, SuccessIsNotOld
  <1>2. QED
    BY <1>1, DInvHolds, PTL

\* What is reported as deployed is not of an older commit than the one the
\* deployment was asked for, unless somebody cancelled that.
THEOREM NothingOlderIsDeployed == Spec => []DeploysNoOlder
  <1>1. DInv => DeploysNoOlder
    BY DEF DInv, HandlerOK, DeployedIsSound, Sound, DeploysNoOlder
  <1>2. QED
    BY <1>1, DInvHolds, PTL

(***************************************************************************)
(* Create runs out. No step of a handler takes it back to a call it has    *)
(* made; only the wait for the end of a deployment goes round, and that no *)
(* longer than the context lasts.                                          *)
(***************************************************************************)

\* The steps a handler may still have to make, the waiting taken as one.
Stage(r) ==
    CASE doing[r] = "refreshed" -> 6
      [] doing[r] = "post" -> 5
      [] doing[r] = "confirm" -> 4
      [] doing[r] = "list" -> 3
      [] doing[r] = "status" -> 2
      [] doing[r] = "poll" -> 1
      [] OTHER -> 0

\* A handler goes forward, or waits in a context that is not over.
Advances(r) ==
    /\ doing[r] # "idle" => Stage(r)' <= Stage(r)
    /\ Handler(r) => Stage(r)' < Stage(r) \/ (PollOn(r) /\ ~expired[r])
    /\ expired[r] => expired'[r] \/ doing'[r] = "idle"

RunsOut == [][\A r \in Resources : Advances(r)]_vars

\* Where a step of Create leaves its handler.
LEMMA CreateAdvances ==
    ASSUME TypeOK, NEW r \in Resources, Create(r)
    PROVE  /\ Stage(r)' < Stage(r) \/ (PollOn(r) /\ ~expired[r] /\ UNCHANGED doing)
           /\ expired'[r] = expired[r] \/ doing'[r] = "idle"
  <1> USE DEF TypeOK, Stage, Goes, Returns, Resolved, Saved
  <1>1. CASE Post(r)
    BY <1>1 DEF Post
  <1>2. CASE PostFails(r)
    BY <1>2 DEF PostFails
  <1>3. CASE Confirm(r)
    BY <1>3 DEF Confirm
  <1>4. CASE ConfirmFails(r)
    BY <1>4 DEF ConfirmFails
  <1>5. CASE List(r)
    <2>1. doing[r] = "list" /\ \E uuid : Resolved(r, uuid)
      BY <1>5 DEF List
    <2>2. QED
      BY <2>1
  <1>6. CASE ListFails(r)
    BY <1>6 DEF ListFails
  <1>7. CASE Status(r)
    BY <1>7 DEF Status
  <1>8. CASE StatusFails(r)
    BY <1>8 DEF StatusFails
  <1>9. CASE PollOn(r)
    BY <1>9 DEF PollOn, Answered
  <1>10. CASE PollEnds(r)
    BY <1>10 DEF PollEnds
  <1>11. CASE PollFails(r)
    BY <1>11 DEF PollFails
  <1>12. QED
    BY <1>1, <1>2, <1>3, <1>4, <1>5, <1>6, <1>7, <1>8, <1>9, <1>10, <1>11 DEF Create

\* And one of any other operation.
LEMMA OperationAdvances ==
    ASSUME TypeOK, NEW r \in Resources, Operation(r)
    PROVE  Advances(r)
  <1>1. CASE Create(r)
    <2>1. doing[r] # "idle" /\ ~Replace(r) /\ ~Update(r)
      BY <1>1 DEF Create, Post, PostFails, Confirm, ConfirmFails, List, ListFails, Status, StatusFails,
                  PollOn, PollEnds, PollFails, Replace, Update
    <2>2. QED
      BY <1>1, <2>1, CreateAdvances DEF Advances, Handler, Stage
  <1> USE DEF TypeOK, Stage, Goes, Returns, Calls, Refreshed
  <1>2. CASE Replace(r)
    BY <1>2 DEF Replace, Advances
  <1>3. CASE Update(r) \/ Delete(r)
    BY <1>3 DEF Update, Delete, Advances
  <1>4. CASE Expire(r)
    <2>1. doing'[r] = doing[r] /\ doing[r] \notin {"idle", "refreshed"} /\ ~expired[r] /\ expired'[r]
      BY <1>4 DEF Expire
    <2>2. ~Handler(r)
      BY <2>1, CreateAdvances DEF Handler, Replace, Update
    <2>3. QED
      BY <2>1, <2>2 DEF Advances
  <1>5. CASE Apply(r) \/ Read(r) \/ ReadFails(r) \/ Import(r) \/ Edit(r)
    BY <1>5 DEF Apply, Read, ReadFails, Import, Edit, Advances, Handler, Create, Post, PostFails, Confirm,
                ConfirmFails, List, ListFails, Status, StatusFails, PollOn, PollEnds, PollFails, Replace, Update
  <1>6. QED
    BY <1>1, <1>2, <1>3, <1>4, <1>5 DEF Operation

\* A step that is nobody's leaves every handler where it is.
LEMMA StepAdvances ==
    ASSUME TypeOK, [Next]_vars, NEW r \in Resources
    PROVE  Advances(r)
  <1>1. ASSUME doing'[r] = doing[r], expired'[r] = expired[r] PROVE Advances(r)
    <2>1. Stage(r)' = Stage(r) /\ Stage(r) \in Nat
      BY <1>1 DEF Stage
    <2>2. Replace(r) \/ Update(r) => Operation(r)
      BY DEF Operation
    <2>3. Create(r) => Operation(r)
      BY DEF Operation
    <2>4. QED
      BY <1>1, <2>1, <2>2, <2>3, OperationAdvances DEF Advances, Handler
  <1>2. CASE Operation(r)
    BY <1>2, OperationAdvances
  <1>3. CASE \E q \in Resources \ {r} : Operation(q)
    BY <1>1, <1>3, HandlersAreApart
  <1>4. CASE UNCHANGED handler
    BY <1>1, <1>4 DEF handler
  <1>5. Push \/ OutsideDeploy \/ (\E d \in UUIDs : Run(d) \/ Finish(d) \/ Cancel(d)) => UNCHANGED handler
    BY DEF Push, OutsideDeploy, Run, Finish, Cancel
  <1>6. QED
    BY <1>2, <1>3, <1>4, <1>5 DEF Next, Handler, Operation, vars

\* What the end of every Create rests on: a handler never goes back to a
\* call it has made and returns after at most six steps, not counting the
\* polls that find the deployment still on its way. No such poll is made once
\* the context is over, which it stays until the handler returns: a
\* deployment that is cancelled or never runs holds it no longer than that.
THEOREM CreateRunsOut ==
    Spec => RunsOut /\ [](\A r \in Resources : Stage(r) \in 0 .. 6 /\ (Stage(r) = 0 <=> doing[r] = "idle"))
  <1> DEFINE Staged == \A r \in Resources : Stage(r) \in 0 .. 6 /\ (Stage(r) = 0 <=> doing[r] = "idle")
             Advance == \A r \in Resources : Advances(r)
  <1>1. TypeOK => Staged
    BY DEF TypeOK, Stage
  <1>2. TypeOK /\ [Next]_vars => [Advance]_vars
    BY StepAdvances
  <1>3. QED
    BY <1>1, <1>2, TypeCorrect, PTL DEF Spec, RunsOut
=============================================================================
